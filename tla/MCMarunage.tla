----------------------------- MODULE MCMarunage ------------------------------
(* Small instances of Marunage for TLC. *)
EXTENDS Marunage, TLC

CONSTANTS t1, t2, k1

\* Both rows carry the same lock key.
SharedKey == [t \in TaskId |-> k1]

ActorSymmetry ==
    Permutations(SessionId) \cup Permutations(Scanners)

FullSymmetry == ActorSymmetry \cup Permutations(TaskId)
=============================================================================
