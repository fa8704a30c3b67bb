----------------------------- MODULE MCPipeline ------------------------------
(* Small instances of Pipeline for TLC. *)
EXTENDS Pipeline

CONSTANTS i1, i2, s1, s2

\* Each item has a source of its own; the second depends on the first.
OneEach == [i \in Item |-> IF i = i1 THEN s1 ELSE s2]

OneForAll == [i \in Item |-> s1]

Chain == [i \in Item |-> IF i = i1 THEN {} ELSE {i1}]
=============================================================================
