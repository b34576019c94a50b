---------------------------- MODULE MCSessionCount ----------------------------
(***************************************************************************)
(* Three rows: one with a gap between RELEASE and ALLOW, one whose          *)
(* thresholds are the other way round, and one that the UPDATE never        *)
(* matches.                                                                 *)
(***************************************************************************)
EXTENDS SessionCount

CONSTANTS r1, r2, r3

MCAllow == [r \in {r1, r2, r3} |-> IF r = r1 THEN 2 ELSE 1]
MCRelease == [r \in {r1, r2, r3} |-> IF r = r2 THEN 2 ELSE 0]
=============================================================================
