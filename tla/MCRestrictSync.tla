--------------------------- MODULE MCRestrictSync ---------------------------
(***************************************************************************)
(* Rows of two PLMNs with one condition, a row of another condition, and a  *)
(* row without SD.  The DNN of c2 begins that of c1 (1,000001,ims and        *)
(* 1,000001,ims2), so that a line of c1 that is cut short may spell c2; cut  *)
(* shorter, a line of either has no DNN.                                    *)
(***************************************************************************)
EXTENDS RestrictSync

CONSTANTS r1, r2, r3, r4, c1, c2, c0

MCCondOf == [r \in Rows |-> CASE r \in {r1, r2} -> c1
                              [] r = r3 -> c2
                              [] r = r4 -> c0]

MCCutOf == [c \in Cond |-> CASE c = c1 -> {c2, c0}
                             [] c = c2 -> {c0}
                             [] c = c0 -> {}]
=============================================================================
