------------------------- MODULE RestrictSync_proofs -------------------------
(***************************************************************************)
(* What the copying thread of an MP keeps true for any table, any file and  *)
(* any number of restarts, and any number of faults that are still to come. *)
(***************************************************************************)
EXTENDS RestrictSync, TLAPS

\* An existing file is never taken for a missing one: what RestrictSet loads
\* from a file is what is in it.
LEMMA LinesOfSet == \A C \in SUBSET Cond : Lines(C) = C
  BY RowsAssumption DEF Lines

\* What RestrictSet::Add lets through is complete.
LEMMA ConditionsComplete ==
    \A S \in SUBSET Rows : Conditions(S) \in SUBSET Complete
  BY RowsAssumption DEF Conditions, Complete

\* Loading a file gives a set of conditions, whatever its lines say
\* (RestrictSet::loadFile).
LEMMA LinesType ==
    \A f \in {NoFile} \cup SUBSET Cond : Lines(f) \in SUBSET Cond
  BY DEF Lines

\* A file that is written in part says whole lines of the list, and at most one
\* condition more, which the beginning of a line is read as
\* (RestrictSet::writeFile).
LEMMA PartlyWritten ==
    ASSUME Partly
    PROVE  \A x \in file' : x \in rset \/ \E c \in rset : x \in CutOf[c]
<1>1. PICK D \in SUBSET rset :
         file' = D \/ \E c \in rset \ D : \E x \in CutOf[c] : file' = D \cup {x}
  BY DEF Partly
<1> QED
  BY <1>1

\* So it is a set of conditions, and not taken for a missing file.
LEMMA PartlyType ==
    ASSUME Partly, rset \in SUBSET Complete
    PROVE  file' \in SUBSET Cond
<1>1. PICK D \in SUBSET rset :
         file' = D \/ \E c \in rset \ D : \E x \in CutOf[c] : file' = D \cup {x}
  BY DEF Partly
<1>2. rset \subseteq Cond
  BY DEF Complete
<1>3. ASSUME NEW c \in rset, NEW x \in CutOf[c], file' = D \cup {x}
      PROVE  file' \in SUBSET Cond
  <2>1. x \in Cond
    BY <1>2, <1>3, RowsAssumption
  <2> QED
    BY <1>2, <1>3, <2>1
<1> QED
  BY <1>1, <1>2, <1>3

\* The thread's start keeps the types.
LEMMA InitType == Init => TypeOK
<1> SUFFICES ASSUME Init
             PROVE  TypeOK
  OBVIOUS
<1>1. file \in {NoFile} \cup SUBSET Cond
  BY DEF Init
<1>2. {} \in SUBSET Complete /\ {} \in SUBSET Cond /\ 0 \in 0..MaxFaults
  BY RowsAssumption
<1> QED
  BY <1>1, <1>2 DEF Init, TypeOK

\* A statement that fails is counted, and the bound is kept.
LEMMA FaultBound ==
    ASSUME faults \in 0..MaxFaults, Fault \/ NoFault
    PROVE  faults' \in 0..MaxFaults /\ (Fault => faults' # 0)
  BY RowsAssumption DEF Fault, NoFault

\* No step puts an incomplete condition into the list that is to be written.
LEMMA NextType == TypeOK /\ [Next]_vars => TypeOK'
<1> SUFFICES ASSUME TypeOK, [Next]_vars
             PROVE  TypeOK'
  OBVIOUS
<1> USE DEF TypeOK
<1>1. CASE RowsChange
  BY <1>1 DEF RowsChange, threadVars, outVars
<1>2. CASE Start
  BY <1>2, LinesType DEF Start
<1>3. CASE Stop
  BY <1>3 DEF Stop, outVars
<1>4. CASE Crash \/ Exit
  BY <1>4 DEF Crash, Exit, GoDown, outVars
<1>5. CASE NotDue
  BY <1>5 DEF NotDue, outVars
<1>6. CASE Query
  <2>1. PICK S \in SUBSET restricted :
          /\ Fetched(S)
          /\ rset' = Conditions(S)
          /\ pc' = IF oset = Conditions(S) THEN "monitor" ELSE "open"
    BY <1>6 DEF Query
  <2>2. rset' \in SUBSET Complete
    BY <2>1, ConditionsComplete
  <2>3. faults' \in 0..MaxFaults
    BY <2>1, FaultBound DEF Fetched
  <2> QED
    BY <1>6, <2>1, <2>2, <2>3 DEF Query, outVars
<1>7. CASE OpenFile
  <2>1. faults' \in 0..MaxFaults
    BY <1>7, FaultBound DEF OpenFile
  <2>2. oset' \in SUBSET Cond
    BY <1>7 DEF OpenFile, Complete
  <2> QED
    BY <1>7, <2>1, <2>2 DEF OpenFile
<1>8. CASE FillPart \/ FillFile
  <2>1. file' \in SUBSET Cond
    BY <1>8, PartlyType DEF FillPart, FillFile, Complete
  <2>2. faults' \in 0..MaxFaults
    BY <1>8, FaultBound DEF FillPart, FillFile
  <2>3. oset' \in SUBSET Cond
    BY <1>8 DEF FillPart, FillFile, Complete
  <2> QED
    BY <1>8, <2>1, <2>2, <2>3 DEF FillPart, FillFile
<1>9. CASE Monitor
  BY <1>9 DEF Monitor
<1>10. CASE Save
  BY <1>10, FaultBound DEF Save
<1>11. CASE Reload
  BY <1>11, LinesType DEF Reload, threadVars
<1>12. CASE UNCHANGED vars
  BY <1>12 DEF vars, threadVars, outVars
<1> QED
  BY <1>1, <1>2, <1>3, <1>4, <1>5, <1>6, <1>7, <1>8, <1>9, <1>10, <1>11, <1>12
     DEF Next, Step

\* The list that runMP sets out to write has complete conditions only
\* (RestrictSet::Add), whatever the rows, the file and the query give.
THEOREM TypeCorrect == Spec => []TypeOK
  BY InitType, NextType, PTL DEF Spec

-----------------------------------------------------------------------------
\* Failures are not forgotten: while their number is 0 no statement has failed.
LEMMA FaultsStay ==
    ASSUME TypeOK, [Next]_vars, faults' = 0
    PROVE  faults = 0 /\ ~Fault
<1>1. faults \in Nat
  BY RowsAssumption DEF TypeOK
<1>2. ~Fault
  BY <1>1 DEF Fault
<1>3. UNCHANGED faults
  <2>1. CASE RowsChange \/ Start \/ Stop \/ Crash \/ Exit \/ NotDue
             \/ FillPart \/ Monitor \/ Reload \/ UNCHANGED vars
    BY <2>1 DEF RowsChange, Start, Stop, Crash, Exit, GoDown, NotDue, FillPart,
                Monitor, Reload, vars
  <2>2. CASE Query
    BY <1>2, <2>2 DEF Query, Fetched, NoFault
  <2>3. CASE OpenFile \/ FillFile \/ Save
    BY <1>2, <2>3 DEF OpenFile, FillFile, Save, NoFault
  <2> QED
    BY <2>1, <2>2, <2>3 DEF Next, Step
<1> QED
  BY <1>2, <1>3

\* The thread's memory and the file part only by a fault.
LEMMA NextMemory ==
    TypeOK /\ TypeOK' /\ MemoryMatchesFile /\ [Next]_vars => MemoryMatchesFile'
<1> SUFFICES ASSUME TypeOK, TypeOK', MemoryMatchesFile, [Next]_vars,
                    faults' = 0, pc' \in {"loop", "monitor", "save"}
             PROVE  oset' = Lines(file')
  BY DEF MemoryMatchesFile, Lines
<1> USE DEF TypeOK, MemoryMatchesFile
<1>1. faults = 0 /\ ~Fault
  BY FaultsStay
<1>2. CASE Start
  BY <1>2 DEF Start
<1>3. CASE OpenFile
  BY <1>1, <1>3 DEF OpenFile
<1>4. CASE FillPart \/ FillFile
  BY <1>1, <1>4, LinesOfSet DEF FillPart, FillFile, Complete
<1>5. CASE Crash \/ Exit
  BY <1>5 DEF Crash, Exit, GoDown
<1>6. CASE RowsChange \/ Stop \/ NotDue \/ Monitor \/ Save \/ Reload
           \/ UNCHANGED vars
  BY <1>1, <1>6 DEF RowsChange, Stop, NotDue, Monitor, Save, Reload, vars,
                    threadVars, outVars
<1>7. CASE Query
  BY <1>1, <1>7 DEF Query, outVars
<1> QED
  BY <1>2, <1>3, <1>4, <1>5, <1>6, <1>7 DEF Next, Step

\* What the thread takes for written is in the file, across stops, crashes and
\* restarts at any statement (runMP, RestrictSet), until a statement fails.
THEOREM MemoryIsTheFile == Spec => []MemoryMatchesFile
<1>1. Init => MemoryMatchesFile
  BY DEF Init, MemoryMatchesFile
<1> QED
  BY <1>1, TypeCorrect, NextMemory, PTL DEF Spec

-----------------------------------------------------------------------------
\* A modification time is not forgotten to be acted on.
LEMMA NextSeen ==
    TypeOK /\ TypeOK' /\ SeenMeansPassedOn /\ [Next]_vars => SeenMeansPassedOn'
<1> SUFFICES ASSUME TypeOK, TypeOK', SeenMeansPassedOn, [Next]_vars,
                    faults' = 0, pc' # "down", seen', pc' # "save"
             PROVE  notified' \/ smp' = Lines(file')
  BY DEF SeenMeansPassedOn, Lines
<1> USE DEF TypeOK, SeenMeansPassedOn
<1>1. faults = 0 /\ ~Fault
  BY FaultsStay
<1>2. CASE Start \/ OpenFile \/ FillPart \/ FillFile
  BY <1>1, <1>2 DEF Start, OpenFile, FillPart, FillFile
<1>3. CASE Crash \/ Exit
  BY <1>3 DEF Crash, Exit, GoDown
<1>4. CASE Monitor
  BY <1>1, <1>4 DEF Monitor
<1>5. CASE Save
  BY <1>1, <1>5 DEF Save
<1>6. CASE Reload
  BY <1>6 DEF Reload, threadVars, Lines
<1>7. CASE RowsChange \/ Stop \/ NotDue \/ UNCHANGED vars
  BY <1>1, <1>7 DEF RowsChange, Stop, NotDue, vars, threadVars, outVars
<1>8. CASE Query
  BY <1>1, <1>8 DEF Query, outVars
<1> QED
  BY <1>2, <1>3, <1>4, <1>5, <1>6, <1>7, <1>8 DEF Next, Step

\* A file whose modification time FileMonitor remembers has reached SMP or is
\* on its way there.
THEOREM SeenIsPassedOn == Spec => []SeenMeansPassedOn
<1>1. Init => SeenMeansPassedOn
  BY DEF Init, SeenMeansPassedOn
<1> QED
  BY <1>1, TypeCorrect, NextSeen, PTL DEF Spec

\* When the thread is at the top of its loop, has seen the file, and SMP has
\* nothing left to read, SMP applies what the thread believes it has written.
Settled == (faults = 0 /\ pc = "loop" /\ seen /\ ~notified) => smp = oset

\* The two memories of runMP, oset and lastModifyT_, together keep SMP in step
\* with the thread as long as no statement fails.
THEOREM SettledSMP == Spec => []Settled
<1>1. MemoryMatchesFile /\ SeenMeansPassedOn => Settled
  BY DEF MemoryMatchesFile, SeenMeansPassedOn, Settled
<1> QED
  BY <1>1, MemoryIsTheFile, SeenIsPassedOn, PTL

-----------------------------------------------------------------------------
(***************************************************************************)
(* What failing statements cannot do, and what only they can.               *)
(***************************************************************************)
\* The conditions that a line of the table's list may be read as, cut short.
Cuts == UNION {CutOf[d] : d \in Conditions(restricted)}

\* The condition is not selected, nor spelt by the beginning of a selected one.
Unsaid(c) == c \notin Conditions(restricted) /\ c \notin Cuts

\* The condition is nowhere on the way from the rows to SMP, and no line that is
\* to be written may turn into it.
Nowhere(c) ==
    /\ c \notin oset /\ c \notin Lines(file) /\ c \notin smp
    /\ c \notin rset /\ \A d \in rset : c \notin CutOf[d]

\* A condition that no selected row has, nor the beginning of one, stays out of
\* the sets, the file and SMP.
LEMMA NowhereStep ==
    ASSUME NEW c, Unsaid(c), Nowhere(c), [Next]_vars
    PROVE  Nowhere(c)'
<1> USE DEF Nowhere, Lines
<1>1. CASE RowsChange \/ Stop \/ NotDue \/ Monitor \/ Save \/ UNCHANGED vars
  BY <1>1 DEF RowsChange, Stop, NotDue, Monitor, Save, vars, threadVars, outVars
<1>2. CASE Start \/ Crash \/ Exit \/ Reload
  BY <1>2 DEF Start, Crash, Exit, GoDown, Reload, threadVars, outVars
<1>3. CASE Query
  <2>1. PICK S \in SUBSET restricted : rset' = Conditions(S)
    BY <1>3 DEF Query
  <2>2. Conditions(S) \subseteq Conditions(restricted)
    BY DEF Conditions
  <2>3. c \notin rset' /\ \A d \in rset' : c \notin CutOf[d]
    BY <2>1, <2>2 DEF Unsaid, Cuts
  <2> QED
    BY <1>3, <2>3 DEF Query, outVars
<1>4. CASE OpenFile
  BY <1>4 DEF OpenFile
<1>5. CASE FillPart \/ FillFile
  <2>1. (file' = rset \/ Partly) /\ oset' \in {oset, rset} /\ UNCHANGED <<rset, smp>>
    BY <1>5 DEF FillPart, FillFile
  <2>2. c \notin file'
    BY <2>1, PartlyWritten
  <2> QED
    BY <2>1, <2>2
<1> QED
  BY <1>1, <1>2, <1>3, <1>4, <1>5 DEF Next, Step

\* SMP never restricts a condition that no selected row has had, that the last
\* run has not left in the file and that the beginning of no selected row's line
\* spells, whatever fails and wherever the thread dies or SMP reads: a failure
\* can lose a restriction and keep one, and a line cut short is the one thing
\* that can make one up (runMP, RestrictSet::writeFile).
THEOREM NothingMadeUp ==
    ASSUME NEW c
    PROVE  /\ Spec /\ c \notin Lines(file)
           /\ []Unsaid(c)
           => [](c \notin smp)
<1>1. Init /\ c \notin Lines(file) => Nowhere(c)
  BY DEF Init, Nowhere
<1>2. Nowhere(c) /\ Unsaid(c) /\ [Next]_vars => Nowhere(c)'
  BY NowhereStep
<1>3. Nowhere(c) => c \notin smp
  BY DEF Nowhere
<1> QED
  BY <1>1, <1>2, <1>3, PTL DEF Spec

\* A query that does not fail leads to a write of the file exactly when the file
\* does not say what the table says.
WrittenWhenDifferent ==
    [][Query /\ faults' = 0 =>
         (pc' = "open" <=> Lines(file) # Conditions(restricted))]_vars

\* Until a statement fails the comparison of the two sets in runMP is one of the
\* table with the file: what the comment there says (KnownListNotEdited), and
\* that no difference is missed.
THEOREM ComparesTableWithFile == Spec => WrittenWhenDifferent
<1>1. TypeOK /\ MemoryMatchesFile /\ [Next]_vars
      => [Query /\ faults' = 0 =>
            (pc' = "open" <=> Lines(file) # Conditions(restricted))]_vars
  <2> SUFFICES ASSUME TypeOK, MemoryMatchesFile, [Next]_vars, Query, faults' = 0
               PROVE  pc' = "open" <=> Lines(file) # Conditions(restricted)
    OBVIOUS
  <2>1. faults = 0 /\ ~Fault
    BY FaultsStay
  <2>2. pc' = IF oset = Conditions(restricted) THEN "monitor" ELSE "open"
    BY <2>1 DEF Query, Fetched
  <2>3. oset = Lines(file)
    BY <2>1 DEF MemoryMatchesFile, Query
  <2> QED
    BY <2>2, <2>3
<1> QED
  BY <1>1, TypeCorrect, MemoryIsTheFile, PTL DEF Spec, WrittenWhenDifferent
=============================================================================
