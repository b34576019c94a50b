-------------------------- MODULE MCSliceDnnMaster --------------------------
(***************************************************************************)
(* SliceDnnMaster on small instances.  The hosts are interchangeable, which  *)
(* only runs without liveness properties use.                               *)
(***************************************************************************)
EXTENDS SliceDnnMaster, TLC

Hosts == Permutations(LB)
=============================================================================
