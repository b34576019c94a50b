---------------------------- MODULE MCPdbReporter ----------------------------
(***************************************************************************)
(* PdbReporter with two processes of one database each.                     *)
(***************************************************************************)
EXTENDS PdbReporter

CONSTANTS p1, p2, k1, k2, one, two

MCOneEach == [k \in {k1, k2} |-> IF k = k1 THEN p1 ELSE p2]
=============================================================================
