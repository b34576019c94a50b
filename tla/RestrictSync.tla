---------------------------- MODULE RestrictSync ----------------------------
(***************************************************************************)
(* The SliceDnnWorker thread of an MP host (SliceDnnWorker::runMP).  It      *)
(* copies the restricted rows of T_NSMF_SESSION_INFO into the restriction   *)
(* file of the SMP process and, when the file's modification time has       *)
(* changed, edits a leaf of the netconf configuration, upon which SMP reads *)
(* the file.                                                                *)
(*                                                                          *)
(*    rows --query--> oset --write--> file --save--> netconf --> smp        *)
(*                                                                          *)
(* Each arrow compares with a memory of what it has already passed on: oset  *)
(* for the rows, lastModifyT_ for the file.  The question is whether a      *)
(* change can be taken for passed on when it is not.                        *)
(*                                                                          *)
(* The file is a stream of bytes that is written without a check and read   *)
(* without one: who reads it in the middle of a write, or after a write that *)
(* was cut short, finds some of the lines and the beginning of one more,     *)
(* which says what it says.  A line that has gone out whole reads back as it *)
(* was: an SD or DNN has no ',' or '#' and no blank at its ends.             *)
(***************************************************************************)
EXTENDS Naturals, FiniteSets

CONSTANTS
    Rows,        \* rows of T_NSMF_SESSION_INFO
    Cond,        \* slice/DNN conditions: what a line of the file says
    CondOf,      \* the SST, SD and DNN of each row; rows of several PLMNs share it
    CutOf,       \* what the beginning of a condition's line may be read as
    Incomplete,  \* conditions with an empty SD or DNN
    NoFile,      \* the content of a file that does not exist
    MaxFaults    \* statements that fail, at most

\* A behaviour of the environment: which rows carry RESTRICTION=1 and
\* MONITOR_USED=1 is decided elsewhere.
VARIABLE restricted

VARIABLES
    pc,          \* the statement the thread is about to execute
    bRunf,       \* ThreadBase::bRunf_
    oset,        \* the conditions last written, as the thread remembers
    rset,        \* the conditions of the last query
    file,        \* the conditions in the file, or NoFile
    seen,        \* lastModifyT_ is the modification time of the file
    startup,     \* the STARTUP configuration has the last value of RUNNING
    notified,    \* SMP has been told of the edit and has not read the file yet
    smp,         \* the conditions SMP applies
    faults       \* statements that have failed

threadVars == <<pc, bRunf, oset, rset>>
outVars == <<file, seen, startup, notified, smp>>
vars == <<restricted, threadVars, outVars, faults>>

ASSUME RowsAssumption ==
    /\ CondOf \in [Rows -> Cond]
    /\ CutOf \in [Cond -> SUBSET Cond]
    /\ Incomplete \subseteq Cond
    /\ \A C \in SUBSET Cond : NoFile # C
    /\ MaxFaults \in Nat

\* RestrictSet::loadFile, and SMP's reading of the file: every line counts, Add
\* is not asked.
Lines(f) == IF f = NoFile THEN {} ELSE f

\* Variation: Add takes every row.
ConditionsUnchecked(S) == {CondOf[r] : r \in S}

\* RestrictSet::Add for every row: a set, without the incomplete conditions.
Conditions(S) == {CondOf[r] : r \in S} \ Incomplete

Complete == Cond \ Incomplete

\* A host comes up with the file the last run has left behind, a line cut short
\* included, and SMP has not read it yet.
Init ==
    /\ restricted \in SUBSET Rows
    /\ pc = "down"
    /\ bRunf = FALSE
    /\ oset = {}
    /\ rset = {}
    /\ file \in {NoFile} \cup SUBSET Cond
    /\ seen = FALSE
    /\ startup = TRUE
    /\ notified = FALSE
    /\ smp = {}
    /\ faults = 0

\* The counting pass of the LB, or an operator, changes the table.
RowsChange ==
    /\ \E S \in SUBSET Rows : restricted' = S
    /\ UNCHANGED <<threadVars, outVars, faults>>

Fault == faults < MaxFaults /\ faults' = faults + 1
NoFault == UNCHANGED faults

(***************************************************************************)
(* The thread's life.                                                      *)
(***************************************************************************)
\* Variation: the set is not loaded from the file.
StartForgetful ==
    /\ pc = "down"
    /\ pc' = "loop"
    /\ bRunf' = TRUE
    /\ oset' = {}
    /\ rset' = {}
    /\ seen' = FALSE
    /\ UNCHANGED <<restricted, file, startup, notified, smp, faults>>

\* Variation: the monitor starts from the present modification time.
StartSeen ==
    /\ pc = "down"
    /\ pc' = "loop"
    /\ bRunf' = TRUE
    /\ oset' = Lines(file)
    /\ rset' = {}
    /\ seen' = (file # NoFile)
    /\ UNCHANGED <<restricted, file, startup, notified, smp, faults>>

\* runMP up to the loop: LoadFile, and a FileMonitor whose lastModifyT_ is 0.
Start ==
    /\ pc = "down"
    /\ pc' = "loop"
    /\ bRunf' = TRUE
    /\ oset' = Lines(file)
    /\ rset' = {}
    /\ seen' = FALSE
    /\ UNCHANGED <<restricted, file, startup, notified, smp, faults>>

Stop ==
    /\ pc # "down"
    /\ bRunf
    /\ bRunf' = FALSE
    /\ UNCHANGED <<restricted, pc, oset, rset, outVars, faults>>

GoDown ==
    /\ pc' = "down"
    /\ bRunf' = FALSE
    /\ oset' = {}
    /\ rset' = {}
    /\ UNCHANGED <<restricted, outVars, faults>>

Exit == pc = "loop" /\ ~bRunf /\ GoDown

Crash == pc # "down" /\ GoDown

(***************************************************************************)
(* rows --> oset --> file                                                  *)
(***************************************************************************)
\* updateTimer.IsTimeout() is false.
NotDue ==
    /\ pc = "loop"
    /\ bRunf
    /\ pc' = "monitor"
    /\ UNCHANGED <<restricted, bRunf, oset, rset, outVars, faults>>

\* Select_RestrictionListSQL::Execute.  A failed SQLExecute leaves no rows in
\* vecRecords_, a failed SQLFetch those before it.
Fetched(S) ==
    \/ S = restricted /\ NoFault
    \/ S \in SUBSET restricted /\ Fault

\* Variation: only a condition that oset does not hold leads to a write, as
\* the comment of runMP has it.
QueryForAdditions ==
    /\ pc = "loop"
    /\ bRunf
    /\ \E S \in SUBSET restricted :
         /\ Fetched(S)
         /\ rset' = Conditions(S)
         /\ pc' = IF Conditions(S) \subseteq oset THEN "monitor" ELSE "open"
    /\ UNCHANGED <<restricted, bRunf, oset, outVars>>

\* updateTimer.IsTimeout(), the query, and the comparison with oset.  When the
\* query fails, the loop goes on with what it has got.
Query ==
    /\ pc = "loop"
    /\ bRunf
    /\ \E S \in SUBSET restricted :
         /\ Fetched(S)
         /\ rset' = Conditions(S)
         /\ pc' = IF oset = Conditions(S) THEN "monitor" ELSE "open"
    /\ UNCHANGED <<restricted, bRunf, oset, outVars>>

\* RestrictSet::writeFile opens the file and empties it; when it cannot, it
\* returns, WriteFile() reports success, and the set counts as written.
OpenFile ==
    /\ pc = "open"
    /\ \/ /\ NoFault
          /\ file' = {}
          /\ seen' = FALSE
          /\ pc' = "fill"
          /\ UNCHANGED oset
       \/ /\ Fault
          /\ oset' = rset
          /\ pc' = "monitor"
          /\ UNCHANGED <<file, seen>>
    /\ UNCHANGED <<restricted, bRunf, rset, startup, notified, smp>>

\* What there is of the lines of rset while they go out, or when they no longer
\* do: some of them, and perhaps the beginning of one more.
Partly ==
    \E D \in SUBSET rset :
        \/ file' = D
        \/ \E c \in rset \ D : \E x \in CutOf[c] : file' = D \cup {x}

\* The stream's buffer is written out when it is full, between two lines or
\* within one; SMP may read the file now, or the process may be lost.
FillPart ==
    /\ pc = "fill"
    /\ Partly
    /\ seen' = FALSE
    /\ pc' = "close"
    /\ UNCHANGED <<restricted, bRunf, oset, rset, startup, notified, smp, faults>>

\* The rest goes out and the file is closed; nobody looks at the stream, so a
\* full disk goes unnoticed.
FillFile ==
    /\ pc \in {"fill", "close"}
    /\ \/ file' = rset /\ NoFault
       \/ Partly /\ Fault
    /\ seen' = FALSE
    /\ oset' = rset
    /\ pc' = "monitor"
    /\ UNCHANGED <<restricted, bRunf, rset, startup, notified, smp>>

(***************************************************************************)
(* file --> netconf --> SMP                                                *)
(***************************************************************************)
\* rFileMonitor.IsChanged(): the new time is remembered before it is acted on.
Monitor ==
    /\ pc = "monitor"
    /\ IF file # NoFile /\ ~seen
       THEN seen' = TRUE /\ pc' = "save"
       ELSE pc' = "loop" /\ UNCHANGED seen
    /\ UNCHANGED <<restricted, bRunf, oset, rset, file, startup, notified, smp,
                   faults>>

\* NetconfSliceDnn::Save: RUNNING, then STARTUP; an exception ends it and
\* runMP does not look at the result.
Save ==
    /\ pc = "save"
    /\ pc' = "loop"
    /\ \/ NoFault /\ notified' = TRUE /\ startup' = TRUE
       \/ Fault /\ UNCHANGED <<notified, startup>>
       \/ Fault /\ notified' = TRUE /\ startup' = FALSE
    /\ UNCHANGED <<restricted, bRunf, oset, rset, file, seen, smp>>

\* SMP, told of the edit, reads the file as it is at that time.
Reload ==
    /\ notified
    /\ notified' = FALSE
    /\ smp' = Lines(file)
    /\ UNCHANGED <<restricted, threadVars, file, seen, startup, faults>>

Step ==
    NotDue \/ Query \/ OpenFile \/ FillPart \/ FillFile \/ Monitor \/ Save \/ Exit

Next == RowsChange \/ Start \/ Stop \/ Crash \/ Step \/ Reload

Spec == Init /\ [][Next]_vars

\* The thread runs, its timer fires again and again, SMP reacts.  Faults are
\* bounded, so a statement cannot fail for ever.
Fairness == WF_vars(Step) /\ SF_vars(Query) /\ WF_vars(Reload)

FairSpec == Spec /\ Fairness

-----------------------------------------------------------------------------
\* The list that a query gives, and so what runMP sets out to write, has no
\* condition with an empty SD or DNN (RestrictSet::Add).  Of the file, of what is
\* loaded from it and of SMP nothing of the kind can be said: a line cut short
\* is a condition like any other to them.
TypeOK ==
    /\ restricted \in SUBSET Rows
    /\ pc \in {"down", "loop", "open", "fill", "close", "monitor", "save"}
    /\ bRunf \in BOOLEAN
    /\ oset \in SUBSET Cond
    /\ rset \in SUBSET Complete
    /\ file \in {NoFile} \cup SUBSET Cond
    /\ seen \in BOOLEAN
    /\ startup \in BOOLEAN
    /\ notified \in BOOLEAN
    /\ smp \in SUBSET Cond
    /\ faults \in 0..MaxFaults

\* What the thread takes for written is in the file: true as long as no
\* statement has failed, across restarts at any moment, because a restart
\* reads the file back.
MemoryMatchesFile ==
    (faults = 0 /\ pc \in {"loop", "monitor", "save"}) => oset = Lines(file)

\* A file whose modification time is remembered has been passed on: SMP has
\* it, or is about to read it, or the edit is the thread's next statement.
\* The thread may be stopped and die only after the edit is made or with a
\* memory that is lost as well.
SeenMeansPassedOn ==
    (faults = 0 /\ pc # "down" /\ seen /\ pc # "save")
        => notified \/ smp = Lines(file)

Up == pc # "down" /\ bRunf

\* When the conditions of the table stay as they are and the thread keeps
\* running, SMP comes to restrict them and nothing else, if no statement has
\* failed: whatever the rows do meanwhile, whatever SMP has read in the middle
\* of a write, and whatever the last run has left in the file.
Converges ==
    \A C \in SUBSET Complete :
        <>[](Conditions(restricted) = C /\ Up /\ faults = 0)
        => <>[](smp = C)

\* After a failure the same holds once the thread has been started again.
RestartRepairs ==
    \A C \in SUBSET Complete :
        (/\ <>[](Conditions(restricted) = C)
         /\ <>[]Up
         /\ <>(faults = MaxFaults /\ pc = "down"))
        => <>[](smp = C)

(***************************************************************************)
(* What the comment of runMP says of the three steps; each is contradicted  *)
(* by a single failing statement.                                          *)
(***************************************************************************)
\* 2) A list that the set already holds does not lead to an edit of the file.
KnownListNotEdited ==
    [][(pc = "loop" /\ pc' = "open") => oset # Conditions(restricted)]_vars

\* 3) and 4) A list that the set does not hold is written to the file, and a
\* file that has changed leads to an edit of the configuration, and so to SMP
\* reading the list.
ListReachesSMP ==
    \A C \in SUBSET Complete :
        (<>[](Conditions(restricted) = C) /\ <>[]Up) => <>[](smp = C)
=============================================================================
