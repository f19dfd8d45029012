----------------------------- MODULE MCTaskCard ------------------------------
(* TaskCard on small numbers of runs, reporters, states and faults. *)
EXTENDS TaskCard, TLC

MCSymmetry == Permutations(Reporters) \cup Permutations(Slots)
=============================================================================
