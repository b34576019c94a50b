---------------------------- MODULE SessionCount ----------------------------
(***************************************************************************)
(* The counting pass of the master LB (SliceDnnWorker::runLB, the part that  *)
(* works on the tables).  For every row of T_NSMF_SESSION_INFO in use it     *)
(* counts the sessions in T_PCF_BINDING_INFO and writes the count and, by    *)
(* the thresholds ALLOW and RELEASE of the row, whether new sessions are to  *)
(* be restricted.                                                           *)
(*                                                                          *)
(* SliceDnnMaster shows that at most one LB is in a pass, so that one pass   *)
(* stands for all of them: when its LB stops, dies or loses the lease, the   *)
(* pass is abandoned where it is, and a later one starts from the beginning. *)
(***************************************************************************)
EXTENDS Naturals

CONSTANTS
    Rows,         \* rows of T_NSMF_SESSION_INFO
    NoRow,        \* no row is being handled
    Allow,        \* ALLOW of each row: restrict from this many sessions on
    Release,      \* RELEASE of each row: a restricted row stays so above it
    PaddedSst,    \* rows whose SST is not written as std::to_string writes it
    Operated,     \* rows whose MONITOR_USED the operator switches
    MaxSessions   \* sessions a row has, at most

ASSUME ThresholdsAssumption ==
    /\ NoRow \notin Rows
    /\ Allow \in [Rows -> Nat]
    /\ Release \in [Rows -> Nat]
    /\ PaddedSst \subseteq Rows
    /\ Operated \subseteq Rows
    /\ MaxSessions \in Nat

VARIABLES
    sessions,      \* rows of T_PCF_BINDING_INFO for the condition of each row
    monitored,     \* the rows with MONITOR_USED=1
    cnt,           \* the column CNT
    restriction,   \* the column RESTRICTION
    pc,            \* the statement of the pass
    todo,          \* the rows of the list not handled yet
    row,           \* the row that is being handled
    nowCnt         \* its row.nowCnt

tables == <<cnt, restriction>>
pass == <<pc, todo, row, nowCnt>>
vars == <<sessions, monitored, tables, pass>>

\* The tables are as an earlier run, and the operator, have left them.
Init ==
    /\ sessions \in [Rows -> 0..MaxSessions]
    /\ monitored \in SUBSET Rows
    /\ Rows \ Operated \subseteq monitored
    /\ cnt = [r \in Rows |-> 0]
    /\ restriction \in [Rows -> {0, 1}]
    /\ pc = "idle"
    /\ todo = {}
    /\ row = NoRow
    /\ nowCnt = 0

(***************************************************************************)
(* The other writers of the tables: PCF, and the operator.                  *)
(***************************************************************************)
Attach(r) ==
    /\ sessions[r] < MaxSessions
    /\ sessions' = [sessions EXCEPT ![r] = @ + 1]
    /\ UNCHANGED <<monitored, tables, pass>>

Detach(r) ==
    /\ sessions[r] > 0
    /\ sessions' = [sessions EXCEPT ![r] = @ - 1]
    /\ UNCHANGED <<monitored, tables, pass>>

SwitchMonitor(r) ==
    /\ r \in Operated
    /\ monitored' = IF r \in monitored THEN monitored \ {r} ELSE monitored \cup {r}
    /\ UNCHANGED <<sessions, tables, pass>>

(***************************************************************************)
(* The pass.                                                               *)
(***************************************************************************)
NextRow(rest) == IF rest = {} THEN "idle" ELSE "count"

\* Select_SliceDnnListSQL: WHERE MONITOR_USED=1, in no particular order.
SelectTargets ==
    /\ pc = "idle"
    /\ todo' = monitored
    /\ pc' = NextRow(todo')
    /\ UNCHANGED <<sessions, monitored, tables, row, nowCnt>>

\* The next row of the list, and Select_PcfBindingInfoSQL for it.
SelectCount(r) ==
    /\ pc = "count"
    /\ r \in todo
    /\ todo' = todo \ {r}
    /\ row' = r
    /\ nowCnt' = sessions[r]
    /\ pc' = "write"
    /\ UNCHANGED <<sessions, monitored, tables>>

\* Variations: the count must exceed ALLOW; RELEASE itself keeps a restriction;
\* RELEASE counts for rows that are not restricted, too.
NewRestrictionAbove(r, n) ==
    IF \/ Allow[r] < n
       \/ Release[r] < n /\ restriction[r] = 1
    THEN 1 ELSE 0

NewRestrictionAtRelease(r, n) ==
    IF \/ Allow[r] <= n
       \/ Release[r] <= n /\ restriction[r] = 1
    THEN 1 ELSE 0

NewRestrictionNoMemory(r, n) ==
    IF Allow[r] <= n \/ Release[r] < n THEN 1 ELSE 0

\* CASE WHEN ALLOW <= n THEN 1 WHEN RELEASE < n AND RESTRICTION=1 THEN 1 ELSE 0
NewRestriction(r, n) ==
    IF \/ Allow[r] <= n
       \/ Release[r] < n /\ restriction[r] = 1
    THEN 1 ELSE 0

\* Update_NsmfSessionInfoSQL: the SST of the record has been through std::stoi
\* and std::to_string, and a row written in another way does not match.
WriteRow(r, n) ==
    IF r \in PaddedSst
    THEN UNCHANGED tables
    ELSE /\ cnt' = [cnt EXCEPT ![r] = n]
         /\ restriction' = [restriction EXCEPT ![r] = NewRestriction(r, n)]

RowDone ==
    /\ pc = "write"
    /\ pc' = NextRow(todo)
    /\ row' = NoRow
    /\ nowCnt' = 0
    /\ UNCHANGED <<sessions, monitored, todo>>

\* The update of the row, and the next turn of the loop over the list.
UpdateCount == RowDone /\ WriteRow(row, nowCnt)

\* The update fails, which is logged, and the loop goes on.
UpdateFails == RowDone /\ UNCHANGED tables

\* Variation: the rest of the list survives into the next pass.
AbandonKeepsList ==
    /\ pc # "idle"
    /\ pc' = "idle"
    /\ row' = NoRow
    /\ nowCnt' = 0
    /\ UNCHANGED <<sessions, monitored, tables, todo>>

\* The pass ends before its list does: a failed count breaks out of the loop,
\* and so does bRunf_; or the LB is gone.
Abandon ==
    /\ pc # "idle"
    /\ pc' = "idle"
    /\ todo' = {}
    /\ row' = NoRow
    /\ nowCnt' = 0
    /\ UNCHANGED <<sessions, monitored, tables>>

PassStep ==
    \/ SelectTargets \/ UpdateCount \/ UpdateFails \/ Abandon
    \/ \E r \in Rows : SelectCount(r)

Next ==
    \/ \E r \in Rows : Attach(r) \/ Detach(r) \/ SwitchMonitor(r)
    \/ PassStep

Spec == Init /\ [][Next]_vars

\* Passes are begun again and again (CountingGoesOn of SliceDnnMaster), and a
\* statement that is issued for a row again and again succeeds again and again.
Fairness ==
    /\ WF_vars(SelectTargets)
    /\ \A r \in Rows :
         /\ SF_vars(SelectCount(r))
         /\ SF_vars(UpdateCount /\ row = r)

FairSpec == Spec /\ Fairness

-----------------------------------------------------------------------------
TypeOK ==
    /\ sessions \in [Rows -> 0..MaxSessions]
    /\ monitored \in SUBSET Rows
    /\ cnt \in [Rows -> 0..MaxSessions]
    /\ restriction \in [Rows -> {0, 1}]
    /\ pc \in {"idle", "count", "write"}
    /\ todo \in SUBSET Rows
    /\ row \in Rows \cup {NoRow}
    /\ nowCnt \in 0..MaxSessions
    /\ pc = "idle" => todo = {}
    /\ pc = "count" => todo # {}
    /\ pc = "write" <=> row # NoRow

\* RESTRICTION moves only across the thresholds: it is set by a count of ALLOW
\* or more and cleared by a count that is neither ALLOW nor above RELEASE, so
\* that a number of sessions between the two does not make it swing.
Hysteresis ==
    [][\A r \in Rows :
         /\ (restriction[r] = 0 /\ restriction'[r] = 1) => cnt'[r] >= Allow[r]
         /\ (restriction[r] = 1 /\ restriction'[r] = 0)
              => cnt'[r] <= Release[r] /\ cnt'[r] < Allow[r]]_tables

\* Sessions that stay at ALLOW or more get the row restricted for good: however
\* other rows, attaches and detaches, failed statements and abandoned passes
\* interleave, and in spite of counts read before the sessions came.  A row that
\* the UPDATE does not match is the exception.
OverloadRestricts ==
    \A r \in Rows \ PaddedSst :
        <>[](r \in monitored /\ sessions[r] >= Allow[r]) => <>[](restriction[r] = 1)

\* Sessions that stay at RELEASE or less, and below ALLOW, get the row released
\* for good, in the same circumstances.
ReliefReleases ==
    \A r \in Rows \ PaddedSst :
        <>[](r \in monitored /\ sessions[r] <= Release[r] /\ sessions[r] < Allow[r])
        => <>[](restriction[r] = 0)
=============================================================================
