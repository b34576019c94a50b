--------------------------- MODULE ExclusiveMaster ---------------------------
(***************************************************************************)
(* What T_SLICE_DNN_WORK promises the LB hosts.  At any time at most one    *)
(* of them is the master, mastership passes from one to another only        *)
(* through a time at which nobody has it, and only the master works on      *)
(* T_NSMF_SESSION_INFO, one pass at a time.                                 *)
(***************************************************************************)
CONSTANT LB

VARIABLES
    masters,   \* the hosts that take themselves for the master
    counting   \* the hosts in a counting pass

vars == <<masters, counting>>

Init == masters = {} /\ counting = {}

\* l becomes the master, and may begin a pass at once.
Acquire(l) ==
    /\ masters = {}
    /\ masters' = {l}
    /\ counting' \in {{}, {l}}

Begin(l) ==
    /\ masters = {l}
    /\ counting = {}
    /\ counting' = {l}
    /\ UNCHANGED masters

End(l) ==
    /\ counting = {l}
    /\ counting' = {}
    /\ UNCHANGED masters

\* l gives up, finds out that it is not the master, or dies, in a pass or not.
Release(l) ==
    /\ masters = {l}
    /\ masters' = {}
    /\ counting' = {}

Next == \E l \in LB : Acquire(l) \/ Begin(l) \/ End(l) \/ Release(l)

Spec == Init /\ [][Next]_vars
=============================================================================
