---------------------- MODULE RestrictionControl_proofs ----------------------
(***************************************************************************)
(* The composition lets each part do only what the part's own specification *)
(* lets it do, so that what is proved of a part holds in the composition.    *)
(***************************************************************************)
EXTENDS RestrictionControl, TLAPS

\* A step of the copying thread of an MP is one of RestrictSync, with the table
\* as it is; it leaves the table alone (runMP).
LEMMA SyncStep == MPStep => Sync!Next
<1> SUFFICES ASSUME MPStep
             PROVE  Sync!Next
  OBVIOUS
<1> QED
  BY DEF MPStep, Sync!Next

\* A step of the pass, of PCF or of the operator is for RestrictSync at most a
\* change of the rows it selects.
LEMMA TableStep == LBStep \/ Environment => Sync!RowsChange
<1> SUFFICES ASSUME LBStep \/ Environment
             PROVE  Sync!RowsChange
  OBVIOUS
<1>1. UNCHANGED syncVars
  BY DEF LBStep, Environment
<1>2. Restricted' \in SUBSET Rows
  BY DEF Restricted
<1> QED
  BY <1>1, <1>2 DEF Sync!RowsChange, Sync!threadVars, Sync!outVars, syncVars

\* The thread of an MP, seen on its own, behaves as RestrictSync says, with the
\* rows restricted by the pass and in use for its table.
THEOREM ImplementsSync == Spec => Sync!Spec
<1>1. Init => Sync!Init
  BY DEF Init, Sync!Init, Restricted
<1>2. [Next]_vars => [Sync!Next]_(Sync!vars)
  <2> SUFFICES ASSUME [Next]_vars
               PROVE  [Sync!Next]_(Sync!vars)
    OBVIOUS
  <2>1. CASE Next
    BY <2>1, SyncStep, TableStep DEF Next, Sync!Next
  <2>2. CASE UNCHANGED vars
    BY <2>2 DEF vars, countVars, syncVars, Restricted, Sync!vars,
                Sync!threadVars, Sync!outVars
  <2> QED
    BY <2>1, <2>2
<1> QED
  BY <1>1, <1>2, PTL DEF Spec, Sync!Spec

\* The pass, PCF and the operator, seen without the MP, behave as SessionCount
\* says: the MP never writes a table (runLB, runMP).
THEOREM ImplementsCount == Spec => Count!Spec
<1>1. Init => Count!Init
  BY DEF Init
<1>2. [Next]_vars => [Count!Next]_(Count!vars)
  <2> SUFFICES ASSUME [Next]_vars
               PROVE  [Count!Next]_(Count!vars)
    OBVIOUS
  <2>1. CASE LBStep \/ Environment
    BY <2>1 DEF LBStep, Environment, Count!Next
  <2>2. CASE MPStep \/ UNCHANGED vars
    BY <2>2 DEF MPStep, vars, countVars, Count!vars, Count!tables, Count!pass
  <2> QED
    BY <2>1, <2>2 DEF Next
<1> QED
  BY <1>1, <1>2, PTL DEF Spec, Count!Spec

-----------------------------------------------------------------------------
(***************************************************************************)
(* What is proved of the parts, in the composition.                         *)
(***************************************************************************)
CountP == INSTANCE SessionCount_proofs
SyncP == INSTANCE RestrictSync_proofs
            WITH restricted <- Restricted, pc <- mpPc

\* The parts' assumptions are the composition's.
LEMMA PartsAssumptions == CountP!ThresholdsAssumption /\ SyncP!RowsAssumption
  BY ControlAssumption DEF CountP!ThresholdsAssumption, SyncP!RowsAssumption

\* The counting pass that the proofs speak of is the one that is composed.
LEMMA SameCount == Count!Spec => CountP!Spec
<1>1. Count!Init => CountP!Init
  BY DEF Count!Init, CountP!Init
<1>2. ASSUME NEW r \in Rows
      PROVE  /\ Count!Attach(r) => CountP!Attach(r)
             /\ Count!Detach(r) => CountP!Detach(r)
             /\ Count!SwitchMonitor(r) => CountP!SwitchMonitor(r)
             /\ Count!SelectCount(r) => CountP!SelectCount(r)
  BY DEF Count!Attach, CountP!Attach, Count!Detach, CountP!Detach,
         Count!SwitchMonitor, CountP!SwitchMonitor, Count!SelectCount, CountP!SelectCount,
         Count!tables, CountP!tables, Count!pass, CountP!pass
<1>3. /\ Count!SelectTargets => CountP!SelectTargets
      /\ Count!UpdateFails => CountP!UpdateFails
      /\ Count!Abandon => CountP!Abandon
  BY DEF Count!SelectTargets, CountP!SelectTargets, Count!UpdateFails, CountP!UpdateFails,
         Count!Abandon, CountP!Abandon, Count!RowDone, CountP!RowDone,
         Count!NextRow, CountP!NextRow, Count!tables, CountP!tables
<1>4. Count!UpdateCount => CountP!UpdateCount
  BY DEF Count!UpdateCount, CountP!UpdateCount, Count!RowDone, CountP!RowDone,
         Count!NextRow, CountP!NextRow, Count!WriteRow, CountP!WriteRow,
         Count!NewRestriction, CountP!NewRestriction, Count!tables, CountP!tables
<1>5. UNCHANGED Count!vars => UNCHANGED CountP!vars
  BY DEF Count!vars, CountP!vars, Count!tables, CountP!tables, Count!pass, CountP!pass
<1>6. [Count!Next]_(Count!vars) => [CountP!Next]_(CountP!vars)
  BY <1>2, <1>3, <1>4, <1>5
     DEF Count!Next, CountP!Next, Count!PassStep, CountP!PassStep
<1> QED
  BY <1>1, <1>6, PTL DEF Count!Spec, CountP!Spec

\* The copying thread that the proofs speak of is the one that is composed.
LEMMA SameSync == Sync!Spec => SyncP!Spec
<1> USE DEF Sync!threadVars, SyncP!threadVars, Sync!outVars, SyncP!outVars,
            Sync!Fault, SyncP!Fault, Sync!NoFault, SyncP!NoFault,
            Sync!Lines, SyncP!Lines
<1>1. Sync!Init => SyncP!Init
  BY DEF Sync!Init, SyncP!Init
<1>2. /\ Sync!RowsChange => SyncP!RowsChange
      /\ Sync!Start => SyncP!Start
      /\ Sync!Stop => SyncP!Stop
      /\ Sync!Crash => SyncP!Crash
      /\ Sync!Exit => SyncP!Exit
      /\ Sync!Reload => SyncP!Reload
  BY DEF Sync!RowsChange, SyncP!RowsChange, Sync!Start, SyncP!Start,
         Sync!Stop, SyncP!Stop, Sync!Crash, SyncP!Crash, Sync!Exit, SyncP!Exit,
         Sync!GoDown, SyncP!GoDown, Sync!Reload, SyncP!Reload
<1>3. /\ Sync!NotDue => SyncP!NotDue
      /\ Sync!OpenFile => SyncP!OpenFile
      /\ Sync!FillPart => SyncP!FillPart
      /\ Sync!FillFile => SyncP!FillFile
      /\ Sync!Monitor => SyncP!Monitor
      /\ Sync!Save => SyncP!Save
  BY DEF Sync!NotDue, SyncP!NotDue, Sync!OpenFile, SyncP!OpenFile,
         Sync!FillPart, SyncP!FillPart, Sync!FillFile, SyncP!FillFile,
         Sync!Partly, SyncP!Partly, Sync!Monitor, SyncP!Monitor, Sync!Save, SyncP!Save
<1>4. Sync!Query => SyncP!Query
  BY DEF Sync!Query, SyncP!Query, Sync!Fetched, SyncP!Fetched,
         Sync!Conditions, SyncP!Conditions
<1>5. UNCHANGED Sync!vars => UNCHANGED SyncP!vars
  BY DEF Sync!vars, SyncP!vars
<1>6. [Sync!Next]_(Sync!vars) => [SyncP!Next]_(SyncP!vars)
  BY <1>2, <1>3, <1>4, <1>5 DEF Sync!Next, SyncP!Next, Sync!Step, SyncP!Step
<1> QED
  BY <1>1, <1>6, PTL DEF Sync!Spec, SyncP!Spec

\* Whatever the pass and the operator do to the table meanwhile: the thread's
\* memory is the file and what it has seen has been passed on, until one of its
\* statements fails.
THEOREM SyncHolds == Spec => [](Sync!MemoryMatchesFile /\ Sync!SeenMeansPassedOn)
<1>1. SyncP!Spec => []SyncP!MemoryMatchesFile
  BY PartsAssumptions, SyncP!MemoryIsTheFile
<1>2. SyncP!Spec => []SyncP!SeenMeansPassedOn
  BY PartsAssumptions, SyncP!SeenIsPassedOn
<1>3. SyncP!MemoryMatchesFile => Sync!MemoryMatchesFile
  BY DEF Sync!MemoryMatchesFile, SyncP!MemoryMatchesFile, Sync!Lines, SyncP!Lines
<1>4. SyncP!SeenMeansPassedOn => Sync!SeenMeansPassedOn
  BY DEF Sync!SeenMeansPassedOn, SyncP!SeenMeansPassedOn, Sync!Lines, SyncP!Lines
<1> QED
  BY <1>1, <1>2, <1>3, <1>4, ImplementsSync, SameSync, PTL

\* RESTRICTION moves only across the thresholds, though an MP reads it all the time.
THEOREM CountHolds == Spec => Count!Hysteresis
<1>1. CountP!Spec => CountP!Hysteresis
  BY PartsAssumptions, CountP!RestrictionHasHysteresis
<1>2. CountP!Hysteresis => Count!Hysteresis
  BY PTL DEF CountP!Hysteresis, Count!Hysteresis, CountP!tables, Count!tables
<1> QED
  BY <1>1, <1>2, ImplementsCount, SameCount, PTL

-----------------------------------------------------------------------------
(***************************************************************************)
(* From end to end: nothing is restricted without cause.                     *)
(***************************************************************************)
\* No row of the condition is restricted, nor about to be.
AllFree(c) == \A r \in RowsOf(c) : CountP!Free(r)

\* The sessions of each row of the condition are below its ALLOW.
Light(c) == \A r \in RowsOf(c) : sessions[r] < Allow[r]

\* A condition none of whose rows has ever had ALLOW sessions or was restricted at
\* the beginning, that was not left in the file, and that no line of another
\* row's condition spells when it is cut short, is never restricted by SMP:
\* whatever statements fail, passes are abandoned and threads die and come back,
\* and however late the count, the file and the configuration are written
\* (runLB, runMP).
THEOREM NoRestrictionWithoutOverload ==
    ASSUME NEW c \in Cond, \A r \in Rows : c \notin CutOf[CondOf[r]]
    PROVE  /\ Spec /\ (\A r \in RowsOf(c) : restriction[r] = 0) /\ c \notin Sync!Lines(file)
           /\ []Light(c)
           => [](c \notin smp)
<1>1. Init /\ (\A r \in RowsOf(c) : restriction[r] = 0) => AllFree(c)
  BY ControlAssumption DEF Init, Count!Init, AllFree, RowsOf, CountP!Free
<1>2. CountP!TypeOK /\ AllFree(c) /\ Light(c) /\ [CountP!Next]_(CountP!vars) => AllFree(c)'
  BY PartsAssumptions, CountP!CountKeeps DEF AllFree, Light, RowsOf
<1>3. CountP!Spec => []CountP!TypeOK
  BY PartsAssumptions, CountP!TypeCorrect
<1>4. CountP!Spec => [][CountP!Next]_(CountP!vars)
  BY PTL DEF CountP!Spec
<1>5. AllFree(c) => SyncP!Unsaid(c)
  BY DEF AllFree, RowsOf, Restricted, CountP!Free, SyncP!Unsaid, SyncP!Cuts,
         SyncP!Conditions
<1>6. /\ SyncP!Spec /\ c \notin SyncP!Lines(file)
      /\ []SyncP!Unsaid(c)
      => [](c \notin smp)
  BY PartsAssumptions, SyncP!NothingMadeUp
<1>7. c \notin Sync!Lines(file) => c \notin SyncP!Lines(file)
  BY DEF Sync!Lines, SyncP!Lines
<1>8. Spec => Init
  BY PTL DEF Spec
<1> QED
  BY <1>1, <1>2, <1>3, <1>4, <1>5, <1>6, <1>7, <1>8,
     ImplementsSync, ImplementsCount, SameSync, SameCount, PTL
=============================================================================
