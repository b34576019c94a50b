------------------------- MODULE SessionCount_proofs -------------------------
(***************************************************************************)
(* The counting pass for any rows and any thresholds.                       *)
(***************************************************************************)
EXTENDS SessionCount, TLAPS

\* The pass begins with nothing to do.
LEMMA InitType == Init => TypeOK
  BY ThresholdsAssumption DEF Init, TypeOK

\* An update writes a count and a flag into one row at most.
LEMMA WriteType ==
    ASSUME cnt \in [Rows -> 0..MaxSessions], restriction \in [Rows -> {0, 1}],
           NEW r \in Rows, NEW n \in 0..MaxSessions, WriteRow(r, n)
    PROVE  cnt' \in [Rows -> 0..MaxSessions] /\ restriction' \in [Rows -> {0, 1}]
<1>1. NewRestriction(r, n) \in {0, 1}
  BY DEF NewRestriction
<1> QED
  BY <1>1 DEF WriteRow, tables

\* No statement of a pass, and no other writer of the tables, breaks a type.
LEMMA NextType == TypeOK /\ [Next]_vars => TypeOK'
<1> SUFFICES ASSUME TypeOK, [Next]_vars
             PROVE  TypeOK'
  OBVIOUS
<1> USE ThresholdsAssumption DEF TypeOK
<1>1. ASSUME NEW r \in Rows, Attach(r) \/ Detach(r)
      PROVE  TypeOK'
  <2>1. sessions' \in [Rows -> 0..MaxSessions]
    BY <1>1 DEF Attach, Detach
  <2> QED
    BY <1>1, <2>1 DEF Attach, Detach, tables, pass
<1>2. ASSUME NEW r \in Rows, SwitchMonitor(r)
      PROVE  TypeOK'
  BY <1>2 DEF SwitchMonitor, tables, pass
<1>3. CASE SelectTargets
  BY <1>3 DEF SelectTargets, NextRow, tables
<1>4. ASSUME NEW r \in Rows, SelectCount(r)
      PROVE  TypeOK'
  BY <1>4 DEF SelectCount, tables
<1>5. CASE UpdateCount
  <2>1. row \in Rows
    BY <1>5 DEF UpdateCount, RowDone
  <2>2. cnt' \in [Rows -> 0..MaxSessions] /\ restriction' \in [Rows -> {0, 1}]
    BY <1>5, <2>1, WriteType DEF UpdateCount
  <2> QED
    BY <1>5, <2>2 DEF UpdateCount, RowDone, NextRow
<1>6. CASE UpdateFails
  BY <1>6 DEF UpdateFails, RowDone, NextRow, tables
<1>7. CASE Abandon
  BY <1>7 DEF Abandon, tables
<1>8. CASE UNCHANGED vars
  BY <1>8 DEF vars, tables, pass
<1> QED
  BY <1>1, <1>2, <1>3, <1>4, <1>5, <1>6, <1>7, <1>8 DEF Next, PassStep

\* The pass keeps its types and its list: it handles a row exactly while it is
\* at that row's update.
THEOREM TypeCorrect == Spec => []TypeOK
  BY InitType, NextType, PTL DEF Spec

-----------------------------------------------------------------------------
\* What the CASE of the UPDATE makes of a row, by its thresholds.
LEMMA CaseOfUpdate ==
    ASSUME NEW r \in Rows, NEW n \in Nat, restriction[r] \in {0, 1}
    PROVE  /\ restriction[r] = 0 /\ NewRestriction(r, n) = 1 => n >= Allow[r]
           /\ restriction[r] = 1 /\ NewRestriction(r, n) = 0
                => n <= Release[r] /\ n < Allow[r]
  BY ThresholdsAssumption DEF NewRestriction

\* RESTRICTION changes only together with a count beyond the threshold that is
\* in force for its present value (Update_NsmfSessionInfoSQL): between RELEASE
\* and ALLOW it does not swing.
THEOREM RestrictionHasHysteresis == Spec => Hysteresis
<1> DEFINE Crossed ==
      \A r \in Rows :
         /\ (restriction[r] = 0 /\ restriction'[r] = 1) => cnt'[r] >= Allow[r]
         /\ (restriction[r] = 1 /\ restriction'[r] = 0)
              => cnt'[r] <= Release[r] /\ cnt'[r] < Allow[r]
<1>1. TypeOK /\ [Next]_vars => [Crossed]_tables
  <2> SUFFICES ASSUME TypeOK, [Next]_vars, tables' # tables
               PROVE  Crossed
    OBVIOUS
  <2>1. UpdateCount
    BY DEF Next, PassStep, Attach, Detach, SwitchMonitor, SelectTargets,
           SelectCount, UpdateFails, Abandon, vars
  <2>2. row \in Rows /\ nowCnt \in Nat
    BY <2>1, ThresholdsAssumption DEF UpdateCount, RowDone, TypeOK
  <2>3. /\ cnt' = [cnt EXCEPT ![row] = nowCnt]
        /\ restriction' = [restriction EXCEPT ![row] = NewRestriction(row, nowCnt)]
    BY <2>1 DEF UpdateCount, WriteRow
  <2>4. cnt'[row] = nowCnt /\ restriction'[row] = NewRestriction(row, nowCnt)
    BY <2>2, <2>3 DEF TypeOK
  <2>5. \A r \in Rows \ {row} : restriction'[r] = restriction[r]
    BY <2>3 DEF TypeOK
  <2>6. restriction[row] \in {0, 1}
    BY <2>2 DEF TypeOK
  <2>7. /\ restriction[row] = 0 /\ restriction'[row] = 1 => cnt'[row] >= Allow[row]
        /\ restriction[row] = 1 /\ restriction'[row] = 0
             => cnt'[row] <= Release[row] /\ cnt'[row] < Allow[row]
    BY <2>2, <2>4, <2>6, CaseOfUpdate
  <2> QED
    BY <2>5, <2>7
<1> QED
  BY <1>1, TypeCorrect, PTL DEF Spec, Hysteresis

-----------------------------------------------------------------------------
(***************************************************************************)
(* The columns and the sessions there really are: a count is written after   *)
(* it has been read, and in between sessions come and go.                    *)
(***************************************************************************)
\* The row is not restricted, nor about to be.
Free(r) == restriction[r] = 0 /\ (row = r => nowCnt < Allow[r])

\* The row is restricted, and not about to be released.
Held(r) == restriction[r] = 1 /\ (row = r => nowCnt >= Allow[r] \/ nowCnt > Release[r])

\* What the update makes of a row of which is known what is written into it.
LEMMA WriteKeeps ==
    ASSUME TypeOK, UpdateCount, NEW r \in Rows
    PROVE  (Free(r) => Free(r)') /\ (Held(r) => Held(r)')
<1>1. row \in Rows /\ row' = NoRow /\ r # NoRow
  BY ThresholdsAssumption DEF UpdateCount, RowDone, TypeOK
<1>2. \/ restriction' = restriction
      \/ restriction' = [restriction EXCEPT ![row] = NewRestriction(row, nowCnt)]
  BY DEF UpdateCount, WriteRow, tables
<1>3. nowCnt \in Nat /\ Allow[r] \in Nat /\ Release[r] \in Nat
  BY ThresholdsAssumption DEF TypeOK
<1>4. CASE row # r
  <2>1. restriction'[r] = restriction[r]
    BY <1>1, <1>2, <1>4 DEF TypeOK
  <2> QED
    BY <1>1, <2>1 DEF Free, Held
<1>5. CASE row = r
  <2>1. restriction'[r] \in {restriction[r], NewRestriction(r, nowCnt)}
    BY <1>1, <1>2, <1>5 DEF TypeOK
  <2>2. Free(r) => NewRestriction(r, nowCnt) = 0
    BY <1>3, <1>5 DEF Free, NewRestriction
  <2>3. Held(r) => NewRestriction(r, nowCnt) = 1
    BY <1>3, <1>5 DEF Held, NewRestriction
  <2> QED
    BY <1>1, <2>1, <2>2, <2>3 DEF Free, Held
<1> QED
  BY <1>4, <1>5

\* A step changes what is known of a row only by a count of its sessions.
LEMMA CountKeeps ==
    ASSUME TypeOK, [Next]_vars, NEW r \in Rows
    PROVE  /\ Free(r) /\ sessions[r] < Allow[r] => Free(r)'
           /\ Held(r) /\ (sessions[r] >= Allow[r] \/ sessions[r] > Release[r]) => Held(r)'
<1> USE DEF Free, Held
<1>1. CASE UpdateCount
  BY <1>1, WriteKeeps
<1>2. ASSUME NEW q \in Rows, SelectCount(q)
      PROVE  UNCHANGED restriction /\ (row' = r => nowCnt' = sessions[r])
  BY <1>2 DEF SelectCount, tables
<1>3. CASE UpdateFails \/ Abandon
  <2>1. UNCHANGED restriction /\ row' = NoRow /\ r # NoRow
    BY <1>3, ThresholdsAssumption DEF UpdateFails, Abandon, RowDone, tables
  <2> QED
    BY <2>1
<1>4. CASE SelectTargets \/ UNCHANGED vars
  BY <1>4 DEF SelectTargets, vars, tables, pass
<1>5. ASSUME NEW q \in Rows, Attach(q) \/ Detach(q) \/ SwitchMonitor(q)
      PROVE  UNCHANGED <<restriction, row, nowCnt>>
  BY <1>5 DEF Attach, Detach, SwitchMonitor, tables, pass
<1> QED
  BY <1>1, <1>2, <1>3, <1>4, <1>5 DEF Next, PassStep

\* A row whose sessions never come to ALLOW is never restricted, however late its
\* counts are written and whatever passes are abandoned (runLB,
\* Update_NsmfSessionInfoSQL).
THEOREM LightRowStaysFree ==
    ASSUME NEW r \in Rows
    PROVE  Spec /\ restriction[r] = 0 /\ [](sessions[r] < Allow[r]) => [](restriction[r] = 0)
<1>1. Init /\ restriction[r] = 0 => Free(r)
  BY ThresholdsAssumption DEF Init, Free
<1>2. TypeOK /\ Free(r) /\ sessions[r] < Allow[r] /\ [Next]_vars => Free(r)'
  BY CountKeeps
<1>3. Free(r) => restriction[r] = 0
  BY DEF Free
<1> QED
  BY <1>1, <1>2, <1>3, TypeCorrect, PTL DEF Spec

\* A restricted row whose sessions never come down to RELEASE, and below ALLOW, is
\* never released, in the same circumstances.
THEOREM HeavyRowStaysRestricted ==
    ASSUME NEW r \in Rows
    PROVE  /\ Spec /\ restriction[r] = 1
           /\ [](sessions[r] >= Allow[r] \/ sessions[r] > Release[r])
           => [](restriction[r] = 1)
<1>1. Init /\ restriction[r] = 1 => Held(r)
  BY ThresholdsAssumption DEF Init, Held
<1>2. TypeOK /\ Held(r) /\ (sessions[r] >= Allow[r] \/ sessions[r] > Release[r]) /\ [Next]_vars
      => Held(r)'
  BY CountKeeps
<1>3. Held(r) => restriction[r] = 1
  BY DEF Held
<1> QED
  BY <1>1, <1>2, <1>3, TypeCorrect, PTL DEF Spec
=============================================================================
