-------------------------- MODULE RestrictionControl --------------------------
(***************************************************************************)
(* Session restriction from end to end: the counting pass of the LBs        *)
(* (SessionCount) and the copying thread of one MP (RestrictSync) run side   *)
(* by side and meet in T_NSMF_SESSION_INFO only.                            *)
(*                                                                          *)
(*   sessions --pass--> RESTRICTION --query--> file --netconf--> SMP         *)
(***************************************************************************)
EXTENDS Naturals

CONSTANTS Rows, NoRow, Allow, Release, PaddedSst, Operated, MaxSessions,
          Cond, CondOf, CutOf, Incomplete, NoFile, MaxFaults

\* The assumptions of the two parts.
ASSUME ControlAssumption ==
    /\ NoRow \notin Rows
    /\ Allow \in [Rows -> Nat] /\ Release \in [Rows -> Nat]
    /\ PaddedSst \subseteq Rows /\ Operated \subseteq Rows
    /\ CondOf \in [Rows -> Cond] /\ CutOf \in [Cond -> SUBSET Cond]
    /\ Incomplete \subseteq Cond
    /\ \A C \in SUBSET Cond : NoFile # C
    /\ MaxSessions \in Nat /\ MaxFaults \in Nat

VARIABLES sessions, monitored, cnt, restriction, pc, todo, row, nowCnt,
          mpPc, bRunf, oset, rset, file, seen, startup, notified, smp, faults

Count == INSTANCE SessionCount

\* Variation: rows that are no longer monitored are selected as well.
RestrictedEver == {r \in Rows : restriction[r] = 1}

\* Select_RestrictionListSQL: WHERE RESTRICTION=1 AND MONITOR_USED=1.
Restricted == {r \in Rows : restriction[r] = 1 /\ r \in monitored}

Sync == INSTANCE RestrictSync
           WITH restricted <- Restricted, pc <- mpPc

countVars == <<sessions, monitored, cnt, restriction, pc, todo, row, nowCnt>>
syncVars == <<mpPc, bRunf, oset, rset, file, seen, startup, notified, smp, faults>>
vars == <<countVars, syncVars>>

Init == Count!Init /\ Sync!Init

LBStep == Count!PassStep /\ UNCHANGED syncVars

Environment ==
    /\ \E r \in Rows :
         Count!Attach(r) \/ Count!Detach(r) \/ Count!SwitchMonitor(r)
    /\ UNCHANGED syncVars

MPStep ==
    /\ UNCHANGED countVars
    /\ Sync!Step \/ Sync!Start \/ Sync!Stop \/ Sync!Crash \/ Sync!Reload

Next == LBStep \/ Environment \/ MPStep

Spec == Init /\ [][Next]_vars

\* The fairness of the two parts.
Fairness ==
    /\ WF_vars(UNCHANGED syncVars /\ Count!SelectTargets)
    /\ \A r \in Rows :
         /\ SF_vars(UNCHANGED syncVars /\ Count!SelectCount(r))
         /\ SF_vars(row = r /\ UNCHANGED syncVars /\ Count!UpdateCount)
    /\ WF_vars(UNCHANGED countVars /\ Sync!Step)
    /\ SF_vars(UNCHANGED countVars /\ Sync!Query)
    /\ WF_vars(UNCHANGED countVars /\ Sync!Reload)

FairSpec == Spec /\ Fairness

-----------------------------------------------------------------------------
Counted(r) == r \in monitored /\ r \notin PaddedSst
Overloaded(r) == Counted(r) /\ sessions[r] >= Allow[r]
Relieved(r) == Counted(r) /\ sessions[r] <= Release[r] /\ sessions[r] < Allow[r]

RowsOf(c) == {r \in Rows : CondOf[r] = c}

\* The MP runs, the rows of c that are in Out are out of use, and the others
\* have few sessions.
Unrestricted(c, Out) ==
    /\ \A r \in RowsOf(c) \ Out : Relieved(r)
    /\ \A r \in Out : r \notin monitored
    /\ Sync!Up

\* A condition of which one row is overloaded for good is in the end restricted
\* by SMP for good, even if another row with the same condition is not.
OverloadReachesSMP ==
    \A r \in Rows :
        CondOf[r] \notin Incomplete =>
            (<>[](Overloaded(r) /\ Sync!Up) => <>[](CondOf[r] \in smp))

\* A condition none of whose rows is overloaded or in use any more is in the
\* end admitted by SMP for good, whichever of its rows the operator has taken
\* out of use while they were restricted.
ReliefReachesSMP ==
    \A c \in Cond : \A Out \in SUBSET (RowsOf(c) \cap Operated) :
        <>[]Unrestricted(c, Out) => <>[](c \notin smp)
=============================================================================
