---------------------------- MODULE MCEmsGWMain ----------------------------
(***************************************************************************)
(* EmsGWMain with a cluster of the file and one outside it, and two requests *)
(* that meet in the latter, which neither netconf nor the copy has at first. *)
(***************************************************************************)
EXTENDS EmsGWMain, TLC

CONSTANTS c1, c2, r1, r2, left, right

MCFirst == [c \in {c2} |-> left]
MCBefore == {(c1 :> None) @@ (c2 :> None)}
Entry(c, n) == [cluster |-> c, name |-> n]
MCAsks == (r1 :> <<Entry(c1, right)>>) @@ (r2 :> <<Entry(c1, left)>>)
MCEdits == {Entry(c1, left)}
MCOrder == <<"server", "pdbReporter">>
=============================================================================
