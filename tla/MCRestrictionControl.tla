------------------------- MODULE MCRestrictionControl -------------------------
(***************************************************************************)
(* Two rows with one condition, the first of which the operator takes in    *)
(* and out of use.                                                          *)
(***************************************************************************)
EXTENDS RestrictionControl

CONSTANTS r1, r2, c1

MCAllow == [r \in {r1, r2} |-> 1]
MCRelease == [r \in {r1, r2} |-> 0]
MCCondOf == [r \in {r1, r2} |-> c1]
MCCutOf == [c \in {c1} |-> {}]
=============================================================================
