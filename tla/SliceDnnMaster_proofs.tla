------------------------ MODULE SliceDnnMaster_proofs ------------------------
(***************************************************************************)
(* That the lease of SliceDnnMaster excludes a second master, for every     *)
(* number of LBs and every timing that leaves TakeoverMargin.               *)
(***************************************************************************)
EXTENDS SliceDnnMaster, TLAPS

USE ConfigAssumption

-----------------------------------------------------------------------------
\* SliceDnnMaster's variables stay in their ranges: the timers never run
\* past their periods, no thread is ever later than OpMax, and the count of
\* rows left never passes below zero.
LEMMA InitType == Init => TypeOK
  BY DEF Init, TypeOK, Statements

LEMMA NextType ==
  ASSUME TypeOK, PassInv, [Next]_vars
  PROVE  TypeOK'
<1> USE DEF TypeOK, Statements, Goto
<1>1. ASSUME NEW l \in LB, Start(l) \/ Exit(l) \/ Crash(l)
      PROVE  TypeOK'
  <2>1. ASSUME NEW b \in BOOLEAN, NEW s \in Statements, Reset(l, s, b)
        PROVE  TypeOK'
    BY <2>1 DEF Reset
  <2> QED
    BY <1>1, <2>1 DEF Start, Exit, Crash
<1>2. ASSUME NEW l \in LB, Stop(l)
      PROVE  TypeOK'
  BY <1>2 DEF Stop
<1>3. ASSUME NEW l \in LB, CheckTimer(l)
      PROVE  TypeOK'
  BY <1>3 DEF CheckTimer
<1>4. ASSUME NEW l \in LB, Claim(l) \/ ClaimFails(l)
      PROVE  /\ work' \in [host : LB \cup {NoHost}, age : 0..(Takeover + 1)]
             /\ fails' \in [LB -> 0..MaxFail]
  BY <1>4 DEF Claim, ClaimFails
<1>5. ASSUME NEW l \in LB, IsMasterUpdate(l)
      PROVE  TypeOK'
  BY <1>4, <1>5 DEF IsMasterUpdate
<1>6. ASSUME NEW l \in LB, IsMasterSelect(l)
      PROVE  TypeOK'
  BY <1>6 DEF IsMasterSelect, OwnRows
<1>7. ASSUME NEW l \in LB, SelectTargets(l)
      PROVE  TypeOK'
  BY <1>7 DEF SelectTargets
<1>8. ASSUME NEW l \in LB, SelectCount(l)
      PROVE  TypeOK'
  BY <1>8 DEF SelectCount
<1>9. ASSUME NEW l \in LB, WriteCount(l)
      PROVE  TypeOK'
  BY <1>9 DEF WriteCount, NextRow, PassInv
<1>10. ASSUME NEW l \in LB, UpdateMaster(l)
       PROVE  TypeOK'
  BY <1>4, <1>10 DEF UpdateMaster, NextRow
<1>11. CASE Tick
  BY <1>11 DEF Tick, Older, Busy
<1>12. CASE UNCHANGED vars
  BY <1>12 DEF vars, threadVars
<1> QED
  BY <1>1, <1>2, <1>3, <1>5, <1>6, <1>7, <1>8, <1>9, <1>10, <1>11, <1>12
     DEF Next, Step

-----------------------------------------------------------------------------
\* A counting pass is entered only through isMaster() = true, and the loop
\* over the rows is entered and continued only with a row left.
LEMMA NextPass ==
  ASSUME TypeOK, PassInv, [Next]_vars
  PROVE  PassInv'
<1> USE DEF TypeOK, PassInv, Pass, Goto, NextRow
<1>1. ASSUME NEW l \in LB, Start(l) \/ Exit(l) \/ Crash(l)
      PROVE  PassInv'
  BY <1>1 DEF Start, Exit, Crash, Reset
<1>2. ASSUME NEW l \in LB, Stop(l) \/ CheckTimer(l)
      PROVE  PassInv'
  BY <1>2 DEF Stop, CheckTimer
<1>3. ASSUME NEW l \in LB, IsMasterUpdate(l)
      PROVE  PassInv'
  BY <1>3 DEF IsMasterUpdate
<1>4. ASSUME NEW l \in LB, IsMasterSelect(l)
      PROVE  PassInv'
  BY <1>4 DEF IsMasterSelect
<1>5. ASSUME NEW l \in LB, SelectTargets(l) \/ SelectCount(l)
      PROVE  PassInv'
  BY <1>5 DEF SelectTargets, SelectCount
<1>6. ASSUME NEW l \in LB, WriteCount(l)
      PROVE  PassInv'
  BY <1>6 DEF WriteCount
<1>7. ASSUME NEW l \in LB, UpdateMaster(l)
      PROVE  PassInv'
  BY <1>7 DEF UpdateMaster
<1>8. CASE Tick \/ UNCHANGED vars
  BY <1>8 DEF Tick, vars, threadVars
<1> QED
  BY <1>1, <1>2, <1>3, <1>4, <1>5, <1>6, <1>7, <1>8 DEF Next, Step
-----------------------------------------------------------------------------
\* The arithmetic of the failed attempts, so that the steps below need no
\* multiplication: each costs one Round, and MaxFail + 1 of them still fit in
\* the takeover period.
LEMMA RoundNat == Round \in Nat
  BY DEF Round

LEMMA LateFacts ==
  ASSUME TakeoverMargin, NEW n \in 0..MaxFail
  PROVE  /\ Late(n) \in Nat
         /\ Late(0) = 0
         /\ Late(n + 1) = Late(n) + Round
         /\ Late(n) + Round <= Takeover
<1>1. Late(n) \in Nat /\ Late(0) = 0 /\ Late(n + 1) = Late(n) + Round
  BY RoundNat, Z3 DEF Late
<1>2. n * Round <= MaxFail * Round
  BY RoundNat, Z3
<1>3. (MaxFail + 1) * Round = MaxFail * Round + Round
  BY RoundNat, Z3
<1> QED
  BY <1>1, <1>2, <1>3, RoundNat DEF Late, TakeoverMargin

\* A row that is Fresh is not old enough to be taken over.
LEMMA FreshNotClaimable ==
  ASSUME TakeoverMargin, TypeOK, NEW m \in LB, Fresh(m)
  PROVE  ~(Takeover < work.age)
<1>1. Late(fails[m]) \in Nat /\ Late(fails[m]) + Round <= Takeover
  BY LateFacts DEF TypeOK
<1>2. Budget(pc[m]) \in Nat /\ Budget(pc[m]) <= SlavePeriod + 2 * OpMax
  BY DEF Budget, TypeOK, Statements
<1>3. opAge[m] \in 0..OpMax /\ work.age \in Nat
  BY DEF TypeOK
<1>4. work.age <= Late(fails[m]) + Budget(pc[m]) + opAge[m]
  BY DEF Fresh
<1> QED
  BY <1>1, <1>2, <1>3, <1>4 DEF Round
\* The host that owns the row and relies on it, or is about to ask.
Relies(l) == Running(l) /\ work.host = l /\ (nMaster[l] > 0 \/ pc[l] = "select")

\* One host's part of MasterBelief and LeaseFresh.
LeaseOf(l) == /\ Believes(l) => work.host = l
              /\ Relies(l) => Fresh(l)

LEMMA LeaseSplit == (MasterBelief /\ LeaseFresh) <=> \A l \in LB : LeaseOf(l)
  BY DEF MasterBelief, LeaseFresh, LeaseOf, Relies

\* No step of one host takes the row from another host that relies on it, and
\* no step of one host makes the row of another older.
LEMMA LeaseOfOther ==
  ASSUME TakeoverMargin, TypeOK, NEW m \in LB, NEW l \in LB, l # m, LeaseOf(m),
         Step(l) \/ Start(l) \/ Stop(l) \/ Crash(l)
  PROVE  LeaseOf(m)'
<1>1. /\ pc'[m] = pc[m] /\ opAge'[m] = opAge[m] /\ nMaster'[m] = nMaster[m]
      /\ fails'[m] = fails[m] /\ masterCheckTimer'[m] = masterCheckTimer[m]
  <2> USE DEF TypeOK, Goto
  <2>1. CASE Start(l) \/ Exit(l) \/ Crash(l)
    BY <2>1 DEF Start, Exit, Crash, Reset
  <2>2. CASE Stop(l) \/ CheckTimer(l)
    BY <2>2 DEF Stop, CheckTimer
  <2>3. CASE IsMasterUpdate(l) \/ UpdateMaster(l)
    BY <2>3 DEF IsMasterUpdate, UpdateMaster, Claim, ClaimFails
  <2>4. CASE IsMasterSelect(l)
    BY <2>4 DEF IsMasterSelect
  <2>5. CASE SelectTargets(l) \/ SelectCount(l) \/ WriteCount(l)
    BY <2>5 DEF SelectTargets, SelectCount, WriteCount
  <2> QED
    BY <2>1, <2>2, <2>3, <2>4, <2>5 DEF Step
<1>2. \/ UNCHANGED work
      \/ Claimable(l) /\ work' = [host |-> l, age |-> 0]
  BY DEF Step, Start, Stop, Crash, Exit, Reset, CheckTimer, IsMasterUpdate,
         IsMasterSelect, SelectTargets, SelectCount, WriteCount, UpdateMaster,
         Claim, ClaimFails
<1>3. CASE UNCHANGED work
  BY <1>1, <1>3 DEF LeaseOf, Relies, Believes, Running, Fresh, TimerDue
<1>4. CASE Claimable(l) /\ work' = [host |-> l, age |-> 0]
  <2>1. work'.host # m
    BY <1>4
  <2>2. ~Believes(m)
    <3> SUFFICES ASSUME Believes(m)
                 PROVE  FALSE
      OBVIOUS
    <3>1. work.host = m /\ Fresh(m)
      BY DEF LeaseOf, Relies, Believes
    <3> QED
      BY <1>4, <3>1, FreshNotClaimable DEF Claimable
  <2> QED
    BY <1>1, <2>1, <2>2 DEF LeaseOf, Relies, Believes, Running
<1> QED
  BY <1>2, <1>3, <1>4
\* A host's own steps: a good update makes its row fresh, a failed one uses up
\* one Round, and every other statement adds no more than its Budget.
LEMMA LeaseOfSelf ==
  ASSUME TakeoverMargin, TypeOK, PassInv, NEW l \in LB, LeaseOf(l),
         Step(l) \/ Start(l) \/ Stop(l) \/ Crash(l)
  PROVE  LeaseOf(l)'
<1> USE DEF TypeOK, Goto, LeaseOf, Relies, Believes, Running
<1> DEFINE k == Late(fails[l])
<1>0. /\ k \in Nat
      /\ OpMax \in Nat /\ SlavePeriod \in Nat /\ 2 * OpMax <= SlavePeriod
      /\ opAge[l] \in 0..OpMax /\ work.age \in Nat
      /\ masterCheckTimer[l] \in 0..SlavePeriod
  BY LateFacts DEF TakeoverMargin
<1> HIDE DEF k
<1>1. CASE Start(l) \/ Exit(l) \/ Crash(l)
  BY <1>1 DEF Start, Exit, Crash, Reset, Fresh, TimerDue
<1>2. CASE Stop(l)
  BY <1>2 DEF Stop, Fresh, TimerDue
<1>3. CASE CheckTimer(l)
  <2>1. Relies(l)' => Fresh(l)
    BY <1>3 DEF CheckTimer
  <2>2. Fresh(l) => work.age <= k + SlavePeriod + OpMax + opAge[l]
    BY <1>0, <1>3 DEF CheckTimer, Fresh, Budget, k
  <2>3. /\ Budget(pc'[l]) = SlavePeriod + 2 * OpMax /\ opAge'[l] = 0
        /\ Late(fails'[l]) = k /\ work' = work /\ pc'[l] = "update"
    BY <1>3 DEF CheckTimer, Budget, k
  <2>4. Relies(l)' => Fresh(l)'
    BY <1>0, <2>1, <2>2, <2>3 DEF Fresh
  <2> QED
    BY <1>3, <2>4 DEF CheckTimer
<1>4. CASE IsMasterSelect(l)
  <2>1. /\ pc[l] = "select" /\ pc'[l] \in {"poll", "targets"}
        /\ opAge'[l] = 0 /\ work' = work
        /\ fails' = fails /\ masterCheckTimer' = masterCheckTimer
        /\ nMaster'[l] > 0 => work.host = l
    BY <1>4 DEF IsMasterSelect, OwnRows
  <2>2. Relies(l)' => Fresh(l)
    BY <2>1
  <2>3. Fresh(l) => work.age <= k + opAge[l]
    BY <2>1, <1>0 DEF Fresh, Budget, k
  <2>4. Budget(pc'[l]) >= OpMax /\ Budget(pc'[l]) \in Nat /\ Late(fails'[l]) = k
    BY <2>1, <1>0 DEF Budget, k
  <2>5. Fresh(l) => Fresh(l)'
    BY <1>0, <2>1, <2>3, <2>4 DEF Fresh, TimerDue, k
  <2> QED
    BY <2>1, <2>2, <2>5
<1>5. CASE SelectTargets(l) \/ SelectCount(l)
  <2>1. /\ \/ pc[l] = "targets" /\ pc'[l] \in {"poll", "count"}
           \/ pc[l] = "count" /\ pc'[l] \in {"poll", "write"}
        /\ opAge'[l] = 0 /\ work' = work /\ nMaster' = nMaster
        /\ fails' = fails /\ masterCheckTimer' = masterCheckTimer
    BY <1>5 DEF SelectTargets, SelectCount
  <2>2. Relies(l)' => Fresh(l)
    BY <2>1
  <2>3. /\ Budget(pc[l]) + OpMax <= Budget(pc'[l])
        /\ Budget(pc[l]) \in Nat /\ Budget(pc'[l]) \in Nat
    BY <2>1, <1>0 DEF Budget
  <2>4. Fresh(l) => Fresh(l)'
    BY <1>0, <2>1, <2>3 DEF Fresh, TimerDue, k
  <2> QED
    BY <2>1, <2>2, <2>4
<1>6. CASE WriteCount(l)
  <2>1. /\ pc[l] = "write"
        /\ \/ pc'[l] = "heartbeat" /\ TimerDue(l)
           \/ /\ pc'[l] \in {"poll", "count"} /\ ~TimerDue(l)
              /\ masterCheckTimer'[l] = masterCheckTimer[l]
        /\ opAge'[l] = 0 /\ work' = work /\ nMaster' = nMaster
        /\ fails' = fails
    BY <1>6 DEF WriteCount, NextRow
  <2>2. Relies(l)' => Fresh(l)
    BY <2>1
  <2>3. Fresh(l) => /\ work.age <= k + SlavePeriod + OpMax + opAge[l]
                    /\ ~TimerDue(l) => work.age <= k + masterCheckTimer[l]
    BY <1>0, <2>1 DEF Fresh, Budget, k
  <2>4. Fresh(l) => Fresh(l)'
    <3>1. CASE pc'[l] = "heartbeat"
      BY <1>0, <2>1, <2>3, <3>1 DEF Fresh, Budget, k
    <3>2. CASE pc'[l] \in {"poll", "count"}
      BY <1>0, <2>1, <2>3, <3>2 DEF Fresh, Budget, k, TimerDue
    <3> QED
      BY <2>1, <3>1, <3>2
  <2> QED
    BY <2>1, <2>2, <2>4
<1>7. CASE IsMasterUpdate(l) \/ UpdateMaster(l)
  <2>1. /\ pc[l] \in {"update", "heartbeat"}
        /\ pc'[l] \in {"select", "poll", "count"}
        /\ opAge'[l] = 0 /\ nMaster' = nMaster
        /\ masterCheckTimer' = masterCheckTimer
        /\ \/ Claim(l)
           \/ ClaimFails(l) /\ pc'[l] # "select"
    BY <1>7 DEF IsMasterUpdate, UpdateMaster, NextRow
  <2>2. Budget(pc'[l]) \in Nat /\ (pc'[l] # "select" => Budget(pc'[l]) >= SlavePeriod)
    BY <2>1, <1>0 DEF Budget
  <2>3. CASE Claim(l)
    <3>1. /\ Believes(l) => work'.host = l
          /\ work'.host = l => work'.age = 0
          /\ fails'[l] = 0
      BY <2>3 DEF Claim, Claimable
    <3>2. Late(fails'[l]) = 0
      BY <3>1, LateFacts
    <3>3. work'.host = l => Fresh(l)'
      BY <1>0, <2>1, <2>2, <3>1, <3>2 DEF Fresh, TimerDue
    <3> QED
      BY <2>1, <3>1, <3>3
  <2>4. CASE ClaimFails(l) /\ pc'[l] # "select"
    <3>1. /\ work' = work /\ fails[l] \in 0..MaxFail /\ fails'[l] = fails[l] + 1
      BY <2>4 DEF ClaimFails
    <3>2. Late(fails'[l]) = k + Round /\ Round = SlavePeriod + 3 * OpMax
      BY <3>1, LateFacts DEF k, Round
    <3>3. Relies(l)' => Relies(l)
      BY <2>1, <2>4, <3>1
    <3>4. Fresh(l) => work.age <= k + SlavePeriod + 2 * OpMax + opAge[l]
      BY <1>0, <2>1 DEF Fresh, Budget, k
    <3>5. Fresh(l) => Fresh(l)'
      BY <1>0, <2>1, <2>2, <3>1, <3>2, <3>4 DEF Fresh, TimerDue
    <3> QED
      BY <2>1, <2>4, <3>1, <3>3, <3>5
  <2> QED
    BY <2>1, <2>3, <2>4
<1> QED
  BY <1>1, <1>2, <1>3, <1>4, <1>5, <1>6, <1>7 DEF Step
\* Time makes a row older, but its owner's timer or its owner's delay at a
\* statement grows by as much.
LEMMA LeaseOfTick ==
  ASSUME TakeoverMargin, TypeOK, NEW l \in LB, LeaseOf(l), Tick
  PROVE  LeaseOf(l)'
<1> DEFINE k == Late(fails[l])
<1>0. /\ k \in Nat
      /\ OpMax \in Nat /\ SlavePeriod \in Nat
      /\ opAge[l] \in 0..OpMax /\ work.age \in Nat
      /\ masterCheckTimer[l] \in 0..SlavePeriod
  BY LateFacts DEF TypeOK
<1>1. /\ pc' = pc /\ nMaster' = nMaster /\ fails' = fails /\ bRunf' = bRunf
      /\ work'.host = work.host /\ work'.age \in Nat /\ work'.age <= work.age + 1
  BY DEF Tick, TypeOK, Older
<1>2. /\ opAge'[l] \in Nat /\ opAge'[l] >= opAge[l]
      /\ Busy(l) => opAge'[l] = opAge[l] + 1
  BY <1>0 DEF Tick
<1>3. Running(l) /\ ~TimerDue(l) => masterCheckTimer'[l] = masterCheckTimer[l] + 1
  BY <1>0 DEF Tick, Older, TimerDue
<1>4. TimerDue(l) /\ Running(l) => TimerDue(l)'
  BY <1>0 DEF Tick, Older, TimerDue
<1>5. Budget(pc[l]) \in Nat /\ (pc[l] = "poll" => Budget(pc[l]) = SlavePeriod + OpMax)
  BY <1>0 DEF Budget
<1> HIDE DEF k
<1>6. ASSUME Running(l), Fresh(l)
      PROVE  Fresh(l)'
  <2>1. work.age <= k + Budget(pc[l]) + opAge[l]
    BY <1>6 DEF Fresh, k
  <2>2. work'.age <= k + Budget(pc[l]) + opAge'[l]
    <3>1. CASE Busy(l)
      BY <1>0, <1>1, <1>2, <1>5, <2>1, <3>1
    <3>2. CASE ~Busy(l)
      <4>1. pc[l] = "poll" /\ ~TimerDue(l)
        BY <1>6, <3>2 DEF Busy, Running
      <4>2. work.age <= k + masterCheckTimer[l] /\ masterCheckTimer[l] < SlavePeriod
        BY <1>0, <1>6, <4>1 DEF Fresh, k, TimerDue
      <4> QED
        BY <1>0, <1>1, <1>2, <1>5, <4>1, <4>2
    <3> QED
      BY <3>1, <3>2
  <2>3. ASSUME pc[l] \notin {"update", "heartbeat"}, ~TimerDue(l)'
        PROVE  work'.age <= k + masterCheckTimer'[l]
    <3>1. ~TimerDue(l)
      BY <1>4, <1>6, <2>3
    <3>2. work.age <= k + masterCheckTimer[l]
      BY <1>6, <2>3, <3>1 DEF Fresh, k
    <3> QED
      BY <1>0, <1>1, <1>3, <1>6, <3>1, <3>2
  <2> QED
    BY <1>1, <2>2, <2>3 DEF Fresh, k
<1> QED
  BY <1>1, <1>6 DEF LeaseOf, Relies, Believes, Running

\* The inductive invariant is one: it holds at the start and every step of
\* every thread, and the passing of time, keeps it.
LEMMA InitInv == Init => IInv
  BY InitType DEF Init, IInv, PassInv, Pass, MasterBelief, LeaseFresh, Believes, Running

LEMMA NextInv ==
  ASSUME TakeoverMargin, IInv, [Next]_vars
  PROVE  IInv'
<1>1. TypeOK' /\ PassInv'
  BY NextType, NextPass DEF IInv
<1>2. ASSUME NEW m \in LB
      PROVE  LeaseOf(m)'
  <2>1. LeaseOf(m)
    BY LeaseSplit DEF IInv
  <2>2. ASSUME NEW l \in LB, Step(l) \/ Start(l) \/ Stop(l) \/ Crash(l)
        PROVE  LeaseOf(m)'
    <3>1. CASE l = m
      BY <2>1, <2>2, <3>1, LeaseOfSelf DEF IInv
    <3>2. CASE l # m
      BY <2>1, <2>2, <3>2, LeaseOfOther DEF IInv
    <3> QED
      BY <3>1, <3>2
  <2>3. CASE Tick
    BY <2>1, <2>3, LeaseOfTick DEF IInv
  <2>4. CASE UNCHANGED vars
    BY <2>1, <2>4 DEF vars, threadVars, LeaseOf, Relies, Believes, Running, Fresh,
                      TimerDue
  <2> QED
    BY <2>2, <2>3, <2>4 DEF Next
<1>3. (MasterBelief /\ LeaseFresh)'
  BY <1>2 DEF MasterBelief, LeaseFresh, LeaseOf, Relies
<1> QED
  BY <1>1, <1>3 DEF IInv

\* The variables of SliceDnnMaster stay in their ranges, whatever the timing.
THEOREM TypeCorrect == Spec => []TypeOK
<1>1. Init => TypeOK /\ PassInv
  BY InitType DEF Init, PassInv, Pass
<1>2. TypeOK /\ PassInv /\ [Next]_vars => (TypeOK /\ PassInv)'
  BY NextType, NextPass
<1> QED
  BY <1>1, <1>2, PTL DEF Spec

\* The lease works: when MaxFail + 1 rounds fit in the takeover period, the
\* inductive invariant holds in every reachable state.
THEOREM LeaseInvariant ==
  ASSUME TakeoverMargin
  PROVE  Spec => []IInv
<1>1. Init => IInv
  BY InitInv
<1>2. IInv /\ [Next]_vars => IInv'
  BY NextInv
<1> QED
  BY <1>1, <1>2, PTL DEF Spec

\* An LB that takes itself for the master owns the row of T_SLICE_DNN_WORK, at
\* every statement of runLB: no LB is displaced while it works, and no two LBs
\* count at the same time.
THEOREM MasterBeliefHolds ==
  ASSUME TakeoverMargin
  PROVE  Spec => []MasterBelief
<1>1. IInv => MasterBelief
  BY DEF IInv
<1> QED
  BY <1>1, LeaseInvariant, PTL

\* The owner that relies on its row has written it recently enough.
THEOREM LeaseStaysFresh ==
  ASSUME TakeoverMargin
  PROVE  Spec => []LeaseFresh
<1>1. IInv => LeaseFresh
  BY DEF IInv
<1> QED
  BY <1>1, LeaseInvariant, PTL

\* An LB in a counting pass owns the row (runLB, 2)): what a long sleep period
\* breaks cannot happen in a configuration that leaves TakeoverMargin, which is
\* therefore what SliceDnnWorker::Init would have to check.
THEOREM OnlyMasterCountsWithMargin ==
  ASSUME TakeoverMargin
  PROVE  Spec => []OnlyMasterCounts
<1>1. IInv => OnlyMasterCounts
  BY DEF IInv, MasterBelief, PassInv, Believes, Running, OnlyMasterCounts, Pass
<1> QED
  BY <1>1, LeaseInvariant, PTL

\* No two passes overlap: whichever LBs are in one are the same.
OnePass == \A l, m \in LB : pc[l] \in Pass /\ pc[m] \in Pass => l = m

\* runLB's counting is never done by two hosts at once, wherever their threads
\* stand in the list of rows: this is what lets SessionCount have one pass for
\* all LBs.
THEOREM OnePassAtATime ==
  ASSUME TakeoverMargin
  PROVE  Spec => []OnePass
<1>1. OnlyMasterCounts => OnePass
  BY DEF OnlyMasterCounts, OnePass
<1> QED
  BY <1>1, OnlyMasterCountsWithMargin, PTL
-----------------------------------------------------------------------------
(***************************************************************************)
(* SliceDnnMaster implements ExclusiveMaster.                               *)
(***************************************************************************)
Masters == {m \in LB : Believes(m)}
Counting == {m \in LB : pc[m] \in Pass}

\* A step of one host leaves what the others think and do as it was.
LEMMA OthersUnchanged ==
  ASSUME TypeOK, NEW l \in LB, NEW m \in LB, l # m,
         Step(l) \/ Start(l) \/ Stop(l) \/ Crash(l)
  PROVE  pc'[m] = pc[m] /\ nMaster'[m] = nMaster[m]
<1> USE DEF TypeOK, Goto
<1>1. CASE Start(l) \/ Exit(l) \/ Crash(l)
  BY <1>1 DEF Start, Exit, Crash, Reset
<1>2. CASE Stop(l) \/ CheckTimer(l)
  BY <1>2 DEF Stop, CheckTimer
<1>3. CASE IsMasterUpdate(l) \/ UpdateMaster(l)
  BY <1>3 DEF IsMasterUpdate, UpdateMaster
<1>4. CASE IsMasterSelect(l) \/ SelectTargets(l) \/ SelectCount(l) \/ WriteCount(l)
  BY <1>4 DEF IsMasterSelect, SelectTargets, SelectCount, WriteCount
<1> QED
  BY <1>1, <1>2, <1>3, <1>4 DEF Step

\* There is at most one master, and only it counts.
LEMMA MasterIsAlone ==
  ASSUME IInv, NEW l \in LB, Believes(l)
  PROVE  Masters = {l} /\ Counting \subseteq {l}
BY DEF IInv, MasterBelief, PassInv, Masters, Counting, Believes, Running, Pass

\* How one host's own membership in the two sets changes decides the abstract
\* step.
LEMMA SetsAfterStep ==
  ASSUME TypeOK, NEW l \in LB, Step(l) \/ Start(l) \/ Stop(l) \/ Crash(l)
  PROVE  /\ Masters' \ {l} = Masters \ {l}
         /\ Counting' \ {l} = Counting \ {l}
BY OthersUnchanged DEF Masters, Counting, Believes, Running

LEMMA StepImplements ==
  ASSUME IInv, IInv', NEW l \in LB, Step(l) \/ Start(l) \/ Stop(l) \/ Crash(l)
  PROVE  [Lease!Next]_(Lease!vars)
<1> USE DEF Goto
<1>0. /\ Lease!vars = <<Masters, Counting>>
      /\ Lease!vars' = <<Masters', Counting'>>
  BY DEF Lease!vars, Masters, Counting
<1>1. /\ Masters' \ {l} = Masters \ {l}
      /\ Counting' \ {l} = Counting \ {l}
      /\ l \in Masters <=> Believes(l)
      /\ l \in Masters' <=> Believes(l)'
      /\ l \in Counting <=> pc[l] \in Pass
      /\ l \in Counting' <=> pc'[l] \in Pass
      /\ Counting \subseteq Masters /\ Counting' \subseteq Masters'
  BY SetsAfterStep DEF IInv, PassInv, Masters, Counting, Believes, Running, Pass
<1>2. /\ l \in Masters => Masters = {l} /\ Counting \subseteq {l}
      /\ l \in Masters' => Masters' = {l} /\ Counting' \subseteq {l}
  <2>1. IInv' /\ Believes(l)' => Masters' = {l} /\ Counting' \subseteq {l}
    BY DEF IInv, MasterBelief, PassInv, Masters, Counting, Believes, Running, Pass
  <2> QED
    BY <1>1, <2>1, MasterIsAlone
<1>3. CASE l \notin Masters /\ l \notin Masters'
  BY <1>0, <1>1, <1>3
<1>4. CASE l \notin Masters /\ l \in Masters'
  <2>1. Masters = {} /\ Masters' = {l} /\ Counting' \in {{}, {l}}
    BY <1>1, <1>2, <1>4
  <2>2. Lease!Acquire(l)
    BY <2>1 DEF Lease!Acquire, Masters, Counting
  <2> QED
    BY <2>2 DEF Lease!Next
<1>5. CASE l \in Masters /\ l \notin Masters'
  <2>1. Masters = {l} /\ Masters' = {} /\ Counting' = {}
    BY <1>1, <1>2, <1>5
  <2>2. Lease!Release(l)
    BY <2>1 DEF Lease!Release, Masters, Counting
  <2> QED
    BY <2>2 DEF Lease!Next
<1>6. CASE l \in Masters /\ l \in Masters'
  <2>1. Masters = {l} /\ Masters' = {l}
    BY <1>2, <1>6
  <2>2. CASE l \in Counting /\ l \notin Counting'
    <3>1. Counting = {l} /\ Counting' = {}
      BY <1>2, <1>6, <2>2
    <3>2. Lease!End(l)
      BY <2>1, <3>1 DEF Lease!End, Masters, Counting
    <3> QED
      BY <3>2 DEF Lease!Next
  <2>3. CASE l \notin Counting /\ l \in Counting'
    <3>1. Counting = {} /\ Counting' = {l}
      BY <1>2, <1>6, <2>3
    <3>2. Lease!Begin(l)
      BY <2>1, <3>1 DEF Lease!Begin, Masters, Counting
    <3> QED
      BY <3>2 DEF Lease!Next
  <2>4. CASE l \in Counting <=> l \in Counting'
    BY <1>0, <1>1, <2>1, <2>4
  <2> QED
    BY <2>2, <2>3, <2>4
<1> QED
  BY <1>3, <1>4, <1>5, <1>6

\* The protocol of runLB implements an exclusive mastership: every step of a
\* thread is a step of ExclusiveMaster or none.
THEOREM ImplementsExclusiveMaster ==
  ASSUME TakeoverMargin
  PROVE  Spec => ExclusiveMastership
<1>1. Init => Lease!Init
  BY DEF Init, Lease!Init, Believes, Running, Pass
<1>2. IInv /\ IInv' /\ [Next]_vars => [Lease!Next]_(Lease!vars)
  <2> SUFFICES ASSUME IInv, IInv', [Next]_vars
               PROVE  [Lease!Next]_(Lease!vars)
    OBVIOUS
  <2>1. CASE \E l \in LB : Step(l) \/ Start(l) \/ Stop(l) \/ Crash(l)
    BY <2>1, StepImplements
  <2>2. CASE Tick \/ UNCHANGED vars
    BY <2>2 DEF Tick, vars, threadVars, Lease!vars, Believes, Running
  <2> QED
    BY <2>1, <2>2 DEF Next
<1> QED
  BY <1>1, <1>2, LeaseInvariant, PTL DEF Spec, Lease!Spec, ExclusiveMastership
=============================================================================
