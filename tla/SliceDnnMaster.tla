--------------------------- MODULE SliceDnnMaster ---------------------------
(***************************************************************************)
(* The SliceDnnWorker thread of the LB hosts (SliceDnnWorker::runLB): every *)
(* LB competes for the one row of T_SLICE_DNN_WORK, and the LB that owns    *)
(* the row counts the sessions of every slice/DNN and writes the counts.    *)
(*                                                                          *)
(* The row is a lease.  It carries the name of its owner and the time since *)
(* it was last written; the owner rewrites it every SlavePeriod, another    *)
(* LB may take it once it is older than Takeover.  What the threads write   *)
(* into T_NSMF_SESSION_INFO under that lease is the subject of SessionCount.*)
(*                                                                          *)
(* Time is kept as ages.  PDB::Timer and UPDATE_TIME are represented by how *)
(* long ago they were set, and an age stops growing at the value after      *)
(* which the code cannot tell the difference, so there is no horizon.       *)
(***************************************************************************)
EXTENDS Naturals

CONSTANTS
    LB,           \* the LB hosts, each under its own gSysName
    NoHost,       \* the HOSTNAME of a row no LB of LB has written
    SlavePeriod,  \* slaveSleepPeriodSec_
    CntPeriod,    \* updateCntTBLPeriodSec_
    Takeover,     \* allowedMasterWorkingPeriod_
    OpMax,        \* the longest a running thread stays at one statement
    MaxFail,      \* updates of the row that may fail in a row
    MaxRows       \* rows of T_NSMF_SESSION_INFO with MONITOR_USED=1, at most

\* The configurations SliceDnnWorker::Init accepts: it refuses to start when
\* SLAVE_SLEEP_PERIOD_SEC * 2 >= UPDATE_CNT_TBL_PERIOD_SEC.
ASSUME ConfigAssumption ==
    /\ NoHost \notin LB
    /\ SlavePeriod \in Nat \ {0}
    /\ CntPeriod \in Nat
    /\ 2 * SlavePeriod < CntPeriod
    /\ Takeover \in Nat
    /\ OpMax \in Nat \ {0}
    /\ MaxFail \in Nat
    /\ MaxRows \in Nat \ {0}

VARIABLES
    pc,                \* the statement each worker thread is about to execute
    bRunf,             \* ThreadBase::bRunf_
    nMaster,           \* Select_SliceDnnWorkSQL::nMaster_
    masterCheckTimer,  \* time since masterCheckTimer was started
    updateCntTimer,    \* time since updateCntTimer was started
    rowsLeft,          \* rows of the target list the pass has not handled
    opAge,             \* time the thread has spent at its statement
    fails,             \* updates of the row that failed since the last good one
    work               \* the row of T_SLICE_DNN_WORK

threadVars == <<pc, bRunf, nMaster, masterCheckTimer, updateCntTimer,
                rowsLeft, opAge, fails>>
vars == <<threadVars, work>>

\* The statements of runLB at which a thread waits for the clock ("poll") or
\* for the database (the others); "down" is a thread that does not run.
Statements == {"down", "poll", "update", "select", "targets", "count",
               "write", "heartbeat"}

\* The statements of a counting pass.
Pass == {"targets", "count", "write", "heartbeat"}

\* The age one tick later; it stops at top.
Older(age, top) == IF age < top THEN age + 1 ELSE top

Init ==
    /\ pc = [l \in LB |-> "down"]
    /\ bRunf = [l \in LB |-> FALSE]
    /\ nMaster = [l \in LB |-> 0]
    /\ masterCheckTimer = [l \in LB |-> 0]
    /\ updateCntTimer = [l \in LB |-> 0]
    /\ rowsLeft = [l \in LB |-> 0]
    /\ opAge = [l \in LB |-> 0]
    /\ fails = [l \in LB |-> 0]
    /\ work \in [host : LB \cup {NoHost}, age : {0, Takeover + 1}]

Goto(l, statement) ==
    /\ pc' = [pc EXCEPT ![l] = statement]
    /\ opAge' = [opAge EXCEPT ![l] = 0]

(***************************************************************************)
(* The thread's life: Run, Stop, the exit from the loop, and the loss of    *)
(* the process.  A thread that starts again has fresh timers and SQLs.      *)
(***************************************************************************)
Reset(l, statement, running) ==
    /\ Goto(l, statement)
    /\ bRunf' = [bRunf EXCEPT ![l] = running]
    /\ nMaster' = [nMaster EXCEPT ![l] = 0]
    /\ masterCheckTimer' = [masterCheckTimer EXCEPT ![l] = 0]
    /\ updateCntTimer' = [updateCntTimer EXCEPT ![l] = 0]
    /\ rowsLeft' = [rowsLeft EXCEPT ![l] = 0]
    /\ fails' = [fails EXCEPT ![l] = 0]
    /\ UNCHANGED work

\* Run, the Binds and TurnOn succeed (when one fails the thread stays down).
Start(l) ==
    /\ pc[l] = "down"
    /\ Reset(l, "poll", TRUE)

Stop(l) ==
    /\ pc[l] # "down"
    /\ bRunf[l]
    /\ bRunf' = [bRunf EXCEPT ![l] = FALSE]
    /\ UNCHANGED <<pc, nMaster, masterCheckTimer, updateCntTimer, rowsLeft,
                   opAge, fails, work>>

\* while(bRunf_) ends and join() returns.
Exit(l) ==
    /\ pc[l] = "poll"
    /\ ~bRunf[l]
    /\ Reset(l, "down", FALSE)

Crash(l) ==
    /\ pc[l] # "down"
    /\ Reset(l, "down", FALSE)

(***************************************************************************)
(* The master check.                                                       *)
(***************************************************************************)
TimerDue(l) == masterCheckTimer[l] = SlavePeriod

\* Variation: the loop does not look at bRunf_.
CheckTimerStopped(l) ==
    /\ pc[l] = "poll"
    /\ TimerDue(l)
    /\ masterCheckTimer' = [masterCheckTimer EXCEPT ![l] = 0]
    /\ Goto(l, "update")
    /\ UNCHANGED <<bRunf, nMaster, updateCntTimer, rowsLeft, fails, work>>

\* masterCheckTimer.IsTimeout() fires and starts the timer again.
CheckTimer(l) ==
    /\ pc[l] = "poll"
    /\ bRunf[l]
    /\ TimerDue(l)
    /\ masterCheckTimer' = [masterCheckTimer EXCEPT ![l] = 0]
    /\ Goto(l, "update")
    /\ UNCHANGED <<bRunf, nMaster, updateCntTimer, rowsLeft, fails, work>>

\* Variations: a row is free after the sleep period of a slave; it never is.
ClaimableEarly(l) == work.host = l \/ SlavePeriod < work.age
ClaimableNever(l) == work.host = l

\* WHERE HOSTNAME=self OR UPDATE_TIME + 300s < SYSDATE
Claimable(l) == work.host = l \/ Takeover < work.age

\* UPDATE T_SLICE_DNN_WORK SET HOSTNAME=self, UPDATE_TIME=SYSDATE: no matching
\* row (SQL_NO_DATA) is a success too.
Claim(l) ==
    /\ work' = IF Claimable(l) THEN [host |-> l, age |-> 0] ELSE work
    /\ fails' = [fails EXCEPT ![l] = 0]

\* SQLExecute returns an error: the row keeps its old value.
ClaimFails(l) ==
    /\ fails[l] < MaxFail
    /\ fails' = [fails EXCEPT ![l] = @ + 1]
    /\ UNCHANGED work

\* Variation: a host that knows itself for the master renews its claim only.
IsMasterUpdateKnown(l) ==
    /\ pc[l] = "update"
    /\ \/ Claim(l) /\ Goto(l, IF nMaster[l] > 0 THEN "poll" ELSE "select")
       \/ ClaimFails(l) /\ Goto(l, "poll")
    /\ UNCHANGED <<bRunf, nMaster, masterCheckTimer, updateCntTimer, rowsLeft>>

\* isMaster, first statement: an error ends the check with "not master", and
\* nMaster_ keeps what the last check has found.
IsMasterUpdate(l) ==
    /\ pc[l] = "update"
    /\ \/ Claim(l) /\ Goto(l, "select")
       \/ ClaimFails(l) /\ Goto(l, "poll")
    /\ UNCHANGED <<bRunf, nMaster, masterCheckTimer, updateCntTimer, rowsLeft>>

\* Variation: a SELECT that does not ask for the host's own row.
OwnRowsAnyHost(l) == IF work.host = NoHost THEN 0 ELSE 1

\* SELECT COUNT(*) FROM T_SLICE_DNN_WORK WHERE HOSTNAME=self
OwnRows(l) == IF work.host = l THEN 1 ELSE 0

\* isMaster, second statement, and the caller's test of updateCntTimer.  An
\* error counts as no row found.
IsMasterSelect(l) ==
    /\ pc[l] = "select"
    /\ \E found \in {0, OwnRows(l)} :
         /\ nMaster' = [nMaster EXCEPT ![l] = found]
         /\ \/ /\ found > 0
               /\ updateCntTimer[l] = CntPeriod
               /\ updateCntTimer' = [updateCntTimer EXCEPT ![l] = 0]
               /\ Goto(l, "targets")
            \/ /\ found = 0 \/ updateCntTimer[l] < CntPeriod
               /\ Goto(l, "poll")
               /\ UNCHANGED updateCntTimer
    /\ UNCHANGED <<bRunf, masterCheckTimer, rowsLeft, fails, work>>

(***************************************************************************)
(* The counting pass.                                                      *)
(***************************************************************************)
\* The rows with MONITOR_USED=1; an error or an empty list ends the pass, and
\* updateCntTimer has been started again all the same.
SelectTargets(l) ==
    /\ pc[l] = "targets"
    /\ \E n \in 0..MaxRows :
         /\ rowsLeft' = [rowsLeft EXCEPT ![l] = n]
         /\ Goto(l, IF n = 0 THEN "poll" ELSE "count")
    /\ UNCHANGED <<bRunf, nMaster, masterCheckTimer, updateCntTimer, fails, work>>

\* The test of bRunf_ and the count of one row's sessions; a stop or an error
\* breaks out of the loop over the rows.
SelectCount(l) ==
    /\ pc[l] = "count"
    /\ \/ /\ bRunf[l]
          /\ Goto(l, "write")
          /\ UNCHANGED rowsLeft
       \/ /\ Goto(l, "poll")
          /\ rowsLeft' = [rowsLeft EXCEPT ![l] = 0]
    /\ UNCHANGED <<bRunf, nMaster, masterCheckTimer, updateCntTimer, fails, work>>

\* Variation: the loop does not end with the list.
NextRowEndless(l, n) == "count"

NextRow(l, n) == IF n = 0 THEN "poll" ELSE "count"

\* UPDATE T_NSMF_SESSION_INFO (an error is only logged), then the test of
\* masterCheckTimer.
WriteCount(l) ==
    /\ pc[l] = "write"
    /\ rowsLeft' = [rowsLeft EXCEPT ![l] = @ - 1]
    /\ \/ /\ TimerDue(l)
          /\ masterCheckTimer' = [masterCheckTimer EXCEPT ![l] = 0]
          /\ Goto(l, "heartbeat")
       \/ /\ ~TimerDue(l)
          /\ Goto(l, NextRow(l, rowsLeft[l] - 1))
          /\ UNCHANGED masterCheckTimer
    /\ UNCHANGED <<bRunf, nMaster, updateCntTimer, fails, work>>

\* Variation: updateMaster is not called when its timer fires.
UpdateMasterSkipped(l) ==
    /\ pc[l] = "heartbeat"
    /\ Goto(l, NextRow(l, rowsLeft[l]))
    /\ UNCHANGED <<bRunf, nMaster, masterCheckTimer, updateCntTimer, rowsLeft,
                   fails, work>>

\* updateMaster: the row is written again, the outcome is not looked at.
UpdateMaster(l) ==
    /\ pc[l] = "heartbeat"
    /\ Claim(l) \/ ClaimFails(l)
    /\ Goto(l, NextRow(l, rowsLeft[l]))
    /\ UNCHANGED <<bRunf, nMaster, masterCheckTimer, updateCntTimer, rowsLeft>>

(***************************************************************************)
(* Time passes.  A thread that has something to do, which the 300 ms poll   *)
(* of the loop notices, is never kept at one statement for longer than      *)
(* OpMax.                                                                   *)
(***************************************************************************)
Busy(l) == /\ pc[l] # "down"
           /\ pc[l] = "poll" => TimerDue(l) \/ ~bRunf[l]

Running(l) == pc[l] # "down"

Tick ==
    /\ \A l \in LB : Busy(l) => opAge[l] < OpMax
    /\ opAge' = [l \in LB |-> IF Busy(l) THEN opAge[l] + 1 ELSE opAge[l]]
    /\ masterCheckTimer' = [l \in LB |-> IF Running(l)
                               THEN Older(masterCheckTimer[l], SlavePeriod) ELSE 0]
    /\ updateCntTimer' = [l \in LB |-> IF Running(l)
                               THEN Older(updateCntTimer[l], CntPeriod) ELSE 0]
    /\ work' = [work EXCEPT !.age = Older(@, Takeover + 1)]
    /\ UNCHANGED <<pc, bRunf, nMaster, rowsLeft, fails>>

\* What the thread of l does by itself.
Step(l) ==
    \/ CheckTimer(l)
    \/ IsMasterUpdate(l)
    \/ IsMasterSelect(l)
    \/ SelectTargets(l)
    \/ SelectCount(l)
    \/ WriteCount(l)
    \/ UpdateMaster(l)
    \/ Exit(l)

Next ==
    \/ \E l \in LB : Step(l) \/ Start(l) \/ Stop(l) \/ Crash(l)
    \/ Tick

Spec == Init /\ [][Next]_vars

-----------------------------------------------------------------------------
TypeOK ==
    /\ pc \in [LB -> Statements]
    /\ bRunf \in [LB -> BOOLEAN]
    /\ nMaster \in [LB -> {0, 1}]
    /\ masterCheckTimer \in [LB -> 0..SlavePeriod]
    /\ updateCntTimer \in [LB -> 0..CntPeriod]
    /\ rowsLeft \in [LB -> 0..MaxRows]
    /\ opAge \in [LB -> 0..OpMax]
    /\ fails \in [LB -> 0..MaxFail]
    /\ work \in [host : LB \cup {NoHost}, age : 0..(Takeover + 1)]

\* A thread that runs and whose last check has found its own row.
Believes(l) == Running(l) /\ nMaster[l] > 0

\* runLB asks once per SlavePeriod who the master is and then works through
\* the whole pass on that answer; updateMaster does not ask again.  What makes
\* the answer good for the whole pass is that nobody can have taken the row in
\* the meantime: an LB that takes itself for the master still owns the row, in
\* the pass and between the passes, so two LBs never count at the same time.
MasterBelief == \A l \in LB : Believes(l) => work.host = l

\* The longest time from one attempt to write the row to the next: the timer
\* runs its period, the thread is late by one statement, reads or writes one
\* row of the table, and then issues the update.
Round == SlavePeriod + 3 * OpMax

\* The configurations in which a lease outlives MaxFail failed attempts.
TakeoverMargin ==
    /\ 2 * OpMax <= SlavePeriod
    /\ (MaxFail + 1) * Round <= Takeover

\* How old the row of a master can be when its thread arrives at a statement,
\* apart from Round for every attempt to write it that has failed.
Budget(statement) ==
    CASE statement = "select"    -> 0
      [] statement = "targets"   -> OpMax
      [] statement = "count"     -> SlavePeriod
      [] statement = "write"     -> SlavePeriod + OpMax
      [] statement = "poll"      -> SlavePeriod + OpMax
      [] statement = "update"    -> SlavePeriod + 2 * OpMax
      [] statement = "heartbeat" -> SlavePeriod + 2 * OpMax
      [] OTHER                   -> 0

Late(n) == n * Round

\* The row of l is no older than the attempts it has made explain; while
\* masterCheckTimer runs, the last attempt is not older than the timer.
Fresh(l) ==
    /\ work.age <= Late(fails[l]) + Budget(pc[l]) + opAge[l]
    /\ (pc[l] \notin {"update", "heartbeat"} /\ ~TimerDue(l))
       => work.age <= Late(fails[l]) + masterCheckTimer[l]

\* The owner of the row that takes itself for the master, or is about to learn
\* that it is, has written the row recently enough: the writes of isMaster
\* between the passes and those of updateMaster inside a pass leave no gap,
\* through any statement that is slow or fails.  Since a fresh row cannot be
\* claimed, this is why MasterBelief holds.
LeaseFresh ==
    \A l \in LB : (/\ Running(l)
                   /\ work.host = l
                   /\ nMaster[l] > 0 \/ pc[l] = "select") => Fresh(l)

\* Only an LB that takes itself for the master is in a counting pass, and a
\* pass that reads or writes a row has a row left.
PassInv ==
    \A l \in LB : /\ pc[l] \in Pass => nMaster[l] > 0
                  /\ pc[l] \in {"count", "write"} => rowsLeft[l] > 0

\* The inductive invariant.
IInv == TypeOK /\ PassInv /\ MasterBelief /\ LeaseFresh

\* runLB, 2): an LB that is not the master does not count.  The configuration
\* check of SliceDnnWorker::Init is meant to make SLAVE_SLEEP_PERIOD_SEC small
\* enough for that.
OnlyMasterCounts == \A l \in LB : pc[l] \in Pass => work.host = l

\* The lease as its users see it.
Lease == INSTANCE ExclusiveMaster
            WITH masters  <- {l \in LB : Believes(l)},
                 counting <- {l \in LB : pc[l] \in Pass}

\* Claiming, checking, counting, refreshing and dying amount to an exclusive
\* mastership, with the row's age and the timers as its only means.
ExclusiveMastership == Lease!Spec

(***************************************************************************)
(* Fairness.  Time passes, a thread that can take a step takes it, and a    *)
(* SELECT on T_SLICE_DNN_WORK that is issued again and again succeeds again *)
(* and again.  Starting, stopping and crashing are nobody's duty.           *)
(***************************************************************************)
Fairness ==
    /\ WF_vars(Tick)
    /\ \A l \in LB :
         /\ WF_vars(Step(l))
         /\ SF_vars(IsMasterSelect(l) /\ nMaster'[l] = OwnRows(l))

FairSpec == Spec /\ Fairness

Up(l) == Running(l) /\ bRunf[l]

\* Once the LBs have stopped coming and going and one of them is up, counting
\* passes are begun again and again, whoever owned the row before: the row of
\* an LB that is gone grows old and another LB takes it over.
CountingGoesOn ==
    (/\ \A l \in LB : <>[]Up(l) \/ <>[]~Up(l)
     /\ \E l \in LB : <>[]Up(l))
    => []<>(\E l \in LB : pc[l] = "targets")

\* A master whose updateCntTimer is due begins a pass or learns that it is not
\* the master: no path through the loop postpones the pass for ever, although
\* updateCntTimer is looked at only when masterCheckTimer has fired.
DueCountBegins ==
    \A l \in LB :
        []<>(pc[l] = "targets" \/ ~Believes(l) \/ updateCntTimer[l] < CntPeriod)

\* ThreadBase::join returns: a thread that is told to stop leaves its loop,
\* from whatever statement of the check or of the pass it is at.
StopEndsThread == \A l \in LB : []<>(~Running(l) \/ bRunf[l])
=============================================================================
