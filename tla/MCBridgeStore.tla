---------------------------- MODULE MCBridgeStore ----------------------------
(* BridgeStore on two tasks, two runs, three events, two users, two threads. *)
EXTENDS BridgeStore, TLC

MCSymmetry == Permutations(Tasks) \cup Permutations(Runs) \cup Permutations(Keys)
                \cup Permutations(Threads) \cup Permutations(Users)
=============================================================================
