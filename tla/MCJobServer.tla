----------------------------- MODULE MCJobServer -----------------------------
(***************************************************************************)
(* Two requests for subscribers and one for another job.                    *)
(***************************************************************************)
EXTENDS JobServer

CONSTANTS s1, s2, o1, m1, m2

MCMdnOf == [r \in {s1, s2, o1} |-> IF r = s1 THEN m1 ELSE m2]
=============================================================================
