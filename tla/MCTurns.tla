------------------------------ MODULE MCTurns ------------------------------
(* Instances of Turns for TLC.  Threads are interchangeable. *)
EXTENDS Turns, TLC

ThreadSymmetry == Permutations(Threads)
=============================================================================
