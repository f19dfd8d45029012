------------------------------ MODULE MCBridge -------------------------------
(* Bridge on small sets of tasks, runs, events, threads and turns. *)
EXTENDS Bridge, TLC

MCSymmetry ==
  Permutations(Keys) \cup Permutations(Turns) \cup Permutations(Runs) \cup Permutations(Tasks)
    \cup Permutations(Threads) \cup Permutations(Cards)
=============================================================================
