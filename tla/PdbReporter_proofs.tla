-------------------------- MODULE PdbReporter_proofs --------------------------
(***************************************************************************)
(* What PdbReporter keeps true for any processes, items, periods and any    *)
(* number of messages in the socket.                                        *)
(***************************************************************************)
EXTENDS PdbReporter, SequenceTheorems, TLAPS

\* The empty map and the empty table.
LEMMA NothingType == Nothing \in Items /\ \A k \in Keys : Nothing[k] = None
  BY DEF Nothing, Items

\* Failures are counted within the bound, and stay counted.
LEMMA FaultBound ==
    ASSUME faults \in 0..MaxFaults, Fault \/ NoFault
    PROVE  faults' \in 0..MaxFaults /\ (faults' = 0 => ~Fault /\ faults = 0)
  BY ReportAssumption DEF Fault, NoFault

\* forceMemoryReset keeps a map a map.
LEMMA ResetType ==
    ASSUME resetAge \in 0..ResetPeriod, NEW after \in Items, ResetMemory(after)
    PROVE  mem' \in Items /\ resetAge' \in 0..ResetPeriod
  BY ReportAssumption, NothingType DEF ResetMemory

\* A socket that is closed, or new, holds nothing; ages start at their tops.
LEMMA FreshState ==
    /\ <<>> \in Seq(Message) /\ Len(<<>>) <= MaxInbox
    /\ ResetPeriod \in 0..ResetPeriod /\ GuardPeriod \in 0..GuardPeriod
    /\ 0 \in 0..MaxFaults
<1>1. <<>> \in Seq(Message) /\ Len(<<>>) = 0
  BY EmptySeq
<1> QED
  BY <1>1, ReportAssumption

\* The thread's start keeps the types.
LEMMA InitType == Init => TypeOK
  BY FreshState, NothingType DEF Init, TypeOK

\* A message that goes into a socket with room (Recv's other end).
LEMMA SendType ==
    ASSUME inbox \in Seq(Message), Len(inbox) < MaxInbox, NEW m \in Message
    PROVE  /\ Append(inbox, m) \in Seq(Message)
           /\ Len(Append(inbox, m)) <= MaxInbox
<1>1. /\ Append(inbox, m) \in Seq(Message)
      /\ Len(Append(inbox, m)) = Len(inbox) + 1
  BY AppendProperties
<1> QED
  BY <1>1, LenProperties, ReportAssumption

\* deleteNodeDB leaves rows of the table.
LEMMA DeleteNodeType ==
    ASSUME TypeOK, DeleteNode
    PROVE  rows' \in Items /\ faults' \in 0..MaxFaults
<1>1. faults' \in 0..MaxFaults
  BY FaultBound DEF DeleteNode, TypeOK
<1> QED
  BY <1>1, NothingType DEF DeleteNode, TypeOK

\* A whole message, of either kind, leaves maps and rows (update()).
LEMMA ReceiveType ==
    ASSUME TypeOK, Receive
    PROVE  /\ mem' \in Items /\ rows' \in Items
           /\ resetAge' \in 0..ResetPeriod /\ guardAge' \in 0..GuardPeriod
           /\ faults' \in 0..MaxFaults
<1> DEFINE m == Head(inbox)
<1>1. m \in Message
  BY HeadTailProperties DEF Receive, TypeOK
<1>2. CASE ProcessEnded(m)
  <2>1. mem' \in Items /\ resetAge' \in 0..ResetPeriod
    BY <1>2, ResetType, NothingType DEF ProcessEnded, TypeOK
  <2>2. faults' \in 0..MaxFaults
    BY <1>2, FaultBound DEF ProcessEnded, TypeOK
  <2>3. rows' \in Items
    BY <1>2 DEF ProcessEnded, TypeOK, Items
  <2> QED
    BY <1>2, <2>1, <2>2, <2>3 DEF ProcessEnded, TypeOK
<1>3. CASE ItemsReported(m)
  <2>1. PICK Failed \in SUBSET Changed(m) :
          \E Lost \in SUBSET Failed : StoreItems(m, Failed, Lost)
    BY <1>3 DEF ItemsReported
  <2>2. PICK Lost \in SUBSET Failed : StoreItems(m, Failed, Lost)
    BY <2>1
  <2>3. m.state \in Items
    BY <1>1 DEF Message
  <2>4. Stored(m, Failed) \in Items
    BY <2>3 DEF Stored, TypeOK, Items
  <2>5. mem' \in Items /\ resetAge' \in 0..ResetPeriod
    BY <2>2, <2>4, ResetType DEF StoreItems, TypeOK
  <2>6. rows' \in Items
    BY <2>2, <2>3 DEF StoreItems, TypeOK, Items
  <2>7. guardAge' \in 0..GuardPeriod
    BY <2>2, ReportAssumption DEF StoreItems, Alarm, TypeOK
  <2>8. faults' \in 0..MaxFaults
    BY <2>2, FaultBound DEF StoreItems, TypeOK
  <2> QED
    BY <2>5, <2>6, <2>7, <2>8
<1> QED
  BY <1>2, <1>3 DEF Receive

\* No process, no message and no failure breaks a type.
LEMMA NextType == TypeOK /\ [Next]_vars => TypeOK'
<1> SUFFICES ASSUME TypeOK, [Next]_vars
             PROVE  TypeOK'
  OBVIOUS
<1>1. ASSUME NEW p \in Procs, Connect(p)
      PROVE  TypeOK'
  <2>1. conn' \in Items
    BY <1>1 DEF Connect, TypeOK, Items, KeysOf
  <2> QED
    BY <1>1, <2>1 DEF Connect, TypeOK, ages
<1>2. ASSUME NEW p \in Procs, Report(p)
      PROVE  TypeOK'
  <2>1. [proc |-> p, state |-> StateOf(p)] \in Message
    BY DEF StateOf, Message, TypeOK, Items
  <2> QED
    BY <1>2, <2>1, SendType DEF Report, TypeOK, ages
<1>3. ASSUME NEW p \in Procs, End(p)
      PROVE  TypeOK'
  <2>1. conn' \in Items
    BY <1>3 DEF End, TypeOK, Items
  <2>2. [proc |-> p, state |-> Nothing] \in Message
    BY NothingType DEF Message
  <2>3. /\ inbox' \in Seq(Message)
        /\ Len(inbox') <= MaxInbox
        /\ up \/ inbox' = <<>>
    BY <1>3, <2>2, SendType DEF End, TypeOK
  <2>4. faults' \in 0..MaxFaults
    BY <1>3, FaultBound DEF End, TypeOK
  <2> QED
    BY <1>3, <2>1, <2>3, <2>4 DEF End, TypeOK, ages
<1>4. CASE Start
  <2>1. rows' \in Items /\ faults' \in 0..MaxFaults
    BY <1>4, DeleteNodeType DEF Start
  <2> QED
    BY <1>4, <2>1, NothingType, FreshState DEF Start, TypeOK
<1>5. CASE Exit
  <2>1. rows' \in Items /\ faults' \in 0..MaxFaults
    BY <1>5, DeleteNodeType DEF Exit
  <2> QED
    BY <1>5, <2>1, FreshState DEF Exit, TypeOK, ages
<1>6. CASE Crash
  BY <1>6, FreshState DEF Crash, TypeOK, ages
<1>7. CASE Receive
  <2>1. inbox' \in Seq(Message) /\ Len(inbox') <= MaxInbox
    <3>1. inbox' \in Seq(Message) /\ Len(inbox') = Len(inbox) - 1
      BY <1>7, HeadTailProperties DEF Receive, TypeOK
    <3> QED
      BY <3>1, LenProperties, ReportAssumption DEF TypeOK
  <2> QED
    BY <1>7, <2>1, ReceiveType DEF Receive, TypeOK
<1>8. CASE Tick
  BY <1>8, ReportAssumption DEF Tick, TypeOK, sources
<1>9. CASE UNCHANGED vars
  BY <1>9 DEF vars, sources, ages, TypeOK
<1> QED
  BY <1>1, <1>2, <1>3, <1>4, <1>5, <1>6, <1>7, <1>8, <1>9 DEF Next

\* The maps and the table hold items, and a thread that is down has no messages.
THEOREM TypeCorrect == Spec => []TypeOK
  BY InitType, NextType, PTL DEF Spec

-----------------------------------------------------------------------------
\* While no statement has failed, a message stores all the items it changes.
LEMMA NothingFailed ==
    ASSUME TypeOK, Receive, faults' = 0, ItemsReported(Head(inbox))
    PROVE  StoreItems(Head(inbox), {}, {})
<1> DEFINE m == Head(inbox)
<1>1. PICK Failed \in SUBSET Changed(m) :
        \E Lost \in SUBSET Failed : StoreItems(m, Failed, Lost)
  BY DEF ItemsReported
<1>2. PICK Lost \in SUBSET Failed : StoreItems(m, Failed, Lost)
  BY <1>1
<1>3. Failed = {}
  BY <1>2, FaultBound DEF StoreItems, TypeOK
<1>4. Lost = {}
  BY <1>3
<1> QED
  BY <1>2, <1>3, <1>4

\* A message leaves nothing in the memory that is not in the table.
LEMMA ReceiveStored ==
    ASSUME TypeOK, Receive, MemoryIsStored, faults = 0, faults' = 0
    PROVE  \A k \in Keys : mem'[k] # None => rows'[k] = mem'[k]
<1> DEFINE m == Head(inbox)
<1> SUFFICES ASSUME NEW k \in Keys, mem'[k] # None
             PROVE  rows'[k] = mem'[k]
  OBVIOUS
<1>1. ItemsReported(m)
  <2>1. ~ProcessEnded(m)
    BY NothingType DEF ProcessEnded, ResetMemory
  <2> QED
    BY <2>1 DEF Receive
<1>2. StoreItems(m, {}, {})
  BY <1>1, NothingFailed
<1>3. mem'[k] = Stored(m, {})[k]
  BY <1>2, NothingType DEF StoreItems, ResetMemory
<1>4. CASE k \in Changed(m)
  BY <1>2, <1>3, <1>4 DEF StoreItems, Stored
<1>5. CASE k \notin Changed(m)
  <2>1. mem'[k] = mem[k] /\ rows'[k] = rows[k]
    BY <1>2, <1>3, <1>5 DEF StoreItems, Stored
  <2> QED
    BY <2>1 DEF MemoryIsStored, Receive
<1> QED
  BY <1>4, <1>5

\* Memory and table part only by a failure.
LEMMA NextStored == TypeOK /\ MemoryIsStored /\ [Next]_vars => MemoryIsStored'
<1> SUFFICES ASSUME TypeOK, MemoryIsStored, [Next]_vars, up', faults' = 0
             PROVE  \A k \in Keys : mem'[k] # None => rows'[k] = mem'[k]
  BY DEF MemoryIsStored
<1>1. CASE Receive
  <2>1. faults = 0
    <3>1. CASE ProcessEnded(Head(inbox))
      BY <3>1, FaultBound DEF ProcessEnded, TypeOK
    <3>2. CASE ItemsReported(Head(inbox))
      BY <1>1, <3>2, NothingFailed, FaultBound DEF StoreItems, TypeOK
    <3> QED
      BY <1>1, <3>1, <3>2 DEF Receive
  <2> QED
    BY <1>1, <2>1, ReceiveStored
<1>2. CASE Start
  BY <1>2, NothingType DEF Start
<1>3. CASE Exit \/ Crash
  BY <1>3 DEF Exit, Crash
<1>4. ASSUME NEW p \in Procs, End(p)
      PROVE  \A k \in Keys : mem'[k] # None => rows'[k] = mem'[k]
  <2>1. faults = 0
    BY <1>4, FaultBound DEF End, TypeOK
  <2> QED
    BY <1>4, <2>1 DEF End, MemoryIsStored
<1>5. ASSUME NEW p \in Procs, Connect(p) \/ Report(p)
      PROVE  \A k \in Keys : mem'[k] # None => rows'[k] = mem'[k]
  BY <1>5 DEF Connect, Report, MemoryIsStored
<1>6. CASE Tick \/ UNCHANGED vars
  BY <1>6 DEF Tick, vars, MemoryIsStored
<1> QED
  BY <1>1, <1>2, <1>3, <1>4, <1>5, <1>6 DEF Next

\* An item that PdbReporter skips because it remembers it is in the table, as
\* long as no statement has failed.
THEOREM MemoryStaysStored == Spec => []MemoryIsStored
<1>1. Init => MemoryIsStored
  BY DEF Init, MemoryIsStored
<1> QED
  BY <1>1, TypeCorrect, NextStored, PTL DEF Spec

-----------------------------------------------------------------------------
\* Only a message with items raises an alarm (alarmReport has one caller).
LEMMA AlarmByReport ==
    ASSUME TypeOK, [Next]_vars, AlarmStep
    PROVE  Receive /\ ItemsReported(Head(inbox))
<1>1. guardAge' # guardAge /\ guardAge' # GuardPeriod
  BY ReportAssumption DEF AlarmStep
<1>2. Receive
  <2>1. ASSUME NEW p \in Procs, Connect(p) \/ Report(p) \/ End(p)
        PROVE  guardAge' = guardAge
    BY <2>1 DEF Connect, Report, End, ages
  <2>2. Start => guardAge' = GuardPeriod
    BY DEF Start
  <2>3. Exit \/ Crash \/ UNCHANGED vars => guardAge' = guardAge
    BY DEF Exit, Crash, vars, ages
  <2>4. Tick => guardAge' = guardAge
    BY ReportAssumption DEF Tick, AlarmStep
  <2> QED
    BY <1>1, <2>1, <2>2, <2>3, <2>4 DEF Next
<1> QED
  BY <1>1, <1>2 DEF Receive, ProcessEnded

\* The alarm tells of a change of what is known and never of an item that the
\* thread has not known, as long as no statement has failed.
THEOREM AlarmsMeanChanges == Spec => AlarmMeansChange
<1>1. TypeOK /\ [Next]_vars => [AlarmStep /\ faults' = 0 => ChangeOfKnown]_vars
  <2> SUFFICES ASSUME TypeOK, [Next]_vars, AlarmStep, faults' = 0
               PROVE  ChangeOfKnown
    OBVIOUS
  <2> DEFINE m == Head(inbox)
  <2>1. Receive /\ ItemsReported(m)
    BY AlarmByReport
  <2>2. StoreItems(m, {}, {})
    BY <2>1, NothingFailed
  <2>3. /\ Changed(m) # {}
        /\ Known(Stored(m, {})) = Known(mem)
    BY <2>2, ReportAssumption DEF StoreItems, Alarm, AlarmStep
  <2>4. \A k \in Changed(m) : k \in Known(mem)
    BY <2>3 DEF Stored, Known, Changed
  <2>5. \E k \in Known(m.state) : mem[k] \notin {None, m.state[k]}
    BY <2>3, <2>4 DEF Changed, Known
  <2>6. Known(m.state) \subseteq Known(mem)
    BY <2>4 DEF Changed, Known
  <2> QED
    BY <2>5, <2>6 DEF ChangeOfKnown
<1> QED
  BY <1>1, TypeCorrect, PTL DEF Spec, AlarmMeansChange

-----------------------------------------------------------------------------
(***************************************************************************)
(* What has been read is in the table, and what has ended leaves it.        *)
(***************************************************************************)
\* Where the messages of a process are in the socket.
Of(p) == {i \in DOMAIN inbox : inbox[i].proc = p}

\* The last of them says that the process ends.
SaidEnd(p) == \E i \in Of(p) : inbox[i].state = Nothing /\ \A j \in Of(p) : j <= i

\* A message speaks of the items of its process only.
OwnItems ==
    \A i \in DOMAIN inbox : \A k \in Keys :
        inbox[i].state[k] # None => ProcOf[k] = inbox[i].proc

\* Of a process that has ended the table holds nothing, or its last message is
\* still to be read.
Ended(p) == SaidEnd(p) \/ (Of(p) = {} /\ \A k \in KeysOf(p) : rows[k] = None)
EndedLeave == (up /\ faults = 0) => \A p \in Procs : ~Alive(p) => Ended(p)

\* After a message has been read the table says what it says, of the items it
\* speaks of or, when it has none, of all those of its process; all other rows
\* are as they were.
ReadIsStored ==
    [][Receive /\ faults' = 0 =>
         LET m == Head(inbox)
         IN  \A k \in Keys :
               rows'[k] = IF \/ k \in Known(m.state)
                             \/ Known(m.state) = {} /\ ProcOf[k] = m.proc
                          THEN m.state[k] ELSE rows[k]]_vars

\* A failure is never forgotten.
LEMMA NoFaultBefore == TypeOK /\ [Next]_vars /\ faults' = 0 => faults = 0
<1> SUFFICES ASSUME TypeOK, [Next]_vars, faults' = 0 PROVE faults = 0
  OBVIOUS
<1>1. CASE Fault \/ NoFault
  BY <1>1, FaultBound DEF TypeOK
<1>2. ASSUME Receive PROVE Fault \/ NoFault
  BY <1>2 DEF Receive, ProcessEnded, ItemsReported, StoreItems
<1>3. ASSUME NEW p \in Procs, Connect(p) \/ Report(p) \/ End(p) PROVE Fault \/ NoFault
  BY <1>3 DEF Connect, Report, End, NoFault
<1>4. CASE Start \/ Exit \/ Crash \/ Tick \/ UNCHANGED vars
  BY <1>1, <1>4 DEF Start, Exit, Crash, Tick, DeleteNode, NoFault, vars
<1> QED
  BY <1>1, <1>2, <1>3, <1>4 DEF Next

\* The rows that a message leaves: what is skipped is in the table already
\* (isEqual, update()).
LEMMA ReadRows ==
    ASSUME TypeOK, MemoryIsStored, Receive, faults = 0, faults' = 0,
           NEW k \in Keys, NEW m, m = Head(inbox)
    PROVE  rows'[k] = IF \/ k \in Known(m.state)
                         \/ Known(m.state) = {} /\ ProcOf[k] = m.proc
                      THEN m.state[k] ELSE rows[k]
<1>1. m \in Message
  BY HeadTailProperties DEF Receive, TypeOK
<1>2. CASE Known(m.state) = {}
  <2>1. rows' = [l \in Keys |-> IF ProcOf[l] = m.proc THEN None ELSE rows[l]]
    BY <1>2, FaultBound DEF Receive, ProcessEnded, TypeOK
  <2>2. m.state[k] = None /\ k \notin Known(m.state)
    BY <1>2 DEF Known
  <2> QED
    BY <1>2, <2>1, <2>2
<1>3. CASE Known(m.state) # {}
  <2>1. StoreItems(m, {}, {})
    BY <1>3, NothingFailed DEF Receive
  <2>2. rows'[k] = IF k \in Changed(m) THEN m.state[k] ELSE rows[k]
    BY <2>1 DEF StoreItems
  <2>3. k \in Known(m.state) \ Changed(m) => rows[k] = m.state[k]
    BY DEF Changed, Known, MemoryIsStored, Receive
  <2>4. Changed(m) \subseteq Known(m.state)
    BY DEF Changed
  <2> QED
    BY <1>3, <2>2, <2>3, <2>4
<1> QED
  BY <1>2, <1>3

\* Until a statement fails, a message that has been read is in the table, item by
\* item, whatever the memory has made the thread skip (update(), isEqual).
THEOREM ReadStays == Spec => ReadIsStored
<1> DEFINE Reads(m) ==
      \A k \in Keys :
          rows'[k] = IF \/ k \in Known(m.state)
                        \/ Known(m.state) = {} /\ ProcOf[k] = m.proc
                     THEN m.state[k] ELSE rows[k]
<1>1. TypeOK /\ MemoryIsStored /\ [Next]_vars
      => [Receive /\ faults' = 0 => Reads(Head(inbox))]_vars
  <2> SUFFICES ASSUME TypeOK, MemoryIsStored, [Next]_vars, Receive, faults' = 0
               PROVE  Reads(Head(inbox))
    OBVIOUS
  <2>1. faults = 0
    BY NoFaultBefore
  <2>2. PICK m : m = Head(inbox)
    OBVIOUS
  <2>3. Reads(m)
    BY <2>1, <2>2, ReadRows
  <2> QED
    BY <2>2, <2>3
<1> QED
  BY <1>1, TypeCorrect, MemoryStaysStored, PTL DEF Spec, ReadIsStored

\* A message that is sent is the last of its process, and of no other.
LEMMA SaidSent ==
    ASSUME NEW m \in Message, inbox \in Seq(Message), inbox' = Append(inbox, m)
    PROVE  /\ m.state = Nothing => SaidEnd(m.proc)'
           /\ \A p : p # m.proc => Of(p)' = Of(p) /\ (SaidEnd(p) => SaidEnd(p)')
           /\ OwnItems /\ (\A k \in Keys : m.state[k] # None => ProcOf[k] = m.proc)
              => OwnItems'
<1>1. /\ Len(inbox') = Len(inbox) + 1 /\ Len(inbox) \in Nat
      /\ \A i \in 1..Len(inbox) : inbox'[i] = inbox[i]
      /\ inbox'[Len(inbox) + 1] = m
      /\ DOMAIN inbox = 1..Len(inbox) /\ DOMAIN inbox' = 1..(Len(inbox) + 1)
  BY AppendProperties, LenProperties
<1>2. Nothing' = Nothing
  BY DEF Nothing
<1>3. ASSUME m.state = Nothing PROVE SaidEnd(m.proc)'
  <2>1. Len(inbox) + 1 \in Of(m.proc)'
    BY <1>1 DEF Of
  <2>2. \A j \in Of(m.proc)' : j <= Len(inbox) + 1
    BY <1>1 DEF Of
  <2> QED
    BY <1>1, <1>2, <1>3, <2>1, <2>2 DEF SaidEnd
<1>4. ASSUME NEW p, p # m.proc PROVE Of(p)' = Of(p) /\ (SaidEnd(p) => SaidEnd(p)')
  <2>1. Of(p)' = Of(p)
    BY <1>1, <1>4 DEF Of
  <2>2. \A i \in Of(p) : inbox'[i] = inbox[i]
    BY <1>1 DEF Of
  <2> QED
    BY <1>2, <2>1, <2>2 DEF SaidEnd
<1>5. ASSUME OwnItems, \A k \in Keys : m.state[k] # None => ProcOf[k] = m.proc
      PROVE  OwnItems'
  BY <1>1, <1>5 DEF OwnItems
<1> QED
  BY <1>3, <1>4, <1>5

\* The thread reads the first message (Recv).
LEMMA SaidRead ==
    ASSUME inbox \in Seq(Message), inbox # <<>>, inbox' = Tail(inbox)
    PROVE  /\ OwnItems => OwnItems'
           /\ \A p : Of(p) = {} => Of(p)' = {} /\ Head(inbox).proc # p
           /\ \A p : SaidEnd(p) =>
                \/ SaidEnd(p)'
                \/ Of(p)' = {} /\ Head(inbox).proc = p /\ Head(inbox).state = Nothing
<1>1. /\ Len(inbox) \in Nat /\ Len(inbox) > 0
      /\ \A i \in 1..(Len(inbox) - 1) : inbox'[i] = inbox[i + 1]
      /\ DOMAIN inbox = 1..Len(inbox) /\ DOMAIN inbox' = 1..(Len(inbox) - 1)
      /\ Head(inbox) = inbox[1]
  BY HeadTailProperties, LenProperties, EmptySeq
<1>2. \A p : \A i \in 1..(Len(inbox) - 1) : i \in Of(p)' <=> i + 1 \in Of(p)
  BY <1>1 DEF Of
<1>3. OwnItems => OwnItems'
  BY <1>1 DEF OwnItems
<1>4. ASSUME NEW p, Of(p) = {} PROVE Of(p)' = {} /\ Head(inbox).proc # p
  BY <1>1, <1>2, <1>4 DEF Of
<1>5. ASSUME NEW p, SaidEnd(p)
      PROVE  \/ SaidEnd(p)'
             \/ Of(p)' = {} /\ Head(inbox).proc = p /\ Head(inbox).state = Nothing
  <2>1. PICK i \in Of(p) : inbox[i].state = Nothing /\ \A j \in Of(p) : j <= i
    BY <1>5 DEF SaidEnd
  <2>2. i \in 1..Len(inbox) /\ inbox[i].proc = p
    BY <1>1 DEF Of
  <2>3. CASE i = 1
    <3>1. \A j \in 1..(Len(inbox) - 1) : j + 1 \notin Of(p)
      BY <1>1, <2>1, <2>3
    <3>2. Of(p)' = {}
      BY <1>1, <1>2, <3>1 DEF Of
    <3> QED
      BY <1>1, <2>1, <2>2, <2>3, <3>2
  <2>4. CASE i # 1
    <3>1. i - 1 \in 1..(Len(inbox) - 1) /\ inbox'[i - 1] = inbox[i]
      BY <1>1, <2>2, <2>4
    <3>2. i - 1 \in Of(p)'
      BY <1>2, <2>2, <3>1
    <3>3. \A j \in Of(p)' : j <= i - 1
      <4> SUFFICES ASSUME NEW j \in Of(p)' PROVE j <= i - 1
        OBVIOUS
      <4>1. j \in 1..(Len(inbox) - 1) /\ j + 1 \in Of(p)
        BY <1>1, <1>2 DEF Of
      <4> QED
        BY <2>1, <2>2, <4>1
    <3>4. Nothing' = Nothing
      BY DEF Nothing
    <3> QED
      BY <2>1, <3>1, <3>2, <3>3, <3>4 DEF SaidEnd
  <2> QED
    BY <2>3, <2>4
<1> QED
  BY <1>3, <1>4, <1>5

\* Messages speak of their own process's items, always.
LEMMA OwnItemsStep == TypeOK /\ OwnItems /\ [Next]_vars => OwnItems'
<1> SUFFICES ASSUME TypeOK, OwnItems, [Next]_vars PROVE OwnItems'
  OBVIOUS
<1>1. CASE UNCHANGED inbox
  BY <1>1 DEF OwnItems
<1>2. CASE inbox' = <<>>
  BY <1>2, EmptySeq DEF OwnItems
<1>3. ASSUME NEW p \in Procs, NEW m \in Message, m.proc = p,
             m.state = Nothing \/ m.state = StateOf(p), inbox' = Append(inbox, m)
      PROVE  OwnItems'
  <2>1. \A k \in Keys : m.state[k] # None => ProcOf[k] = m.proc
    BY <1>3 DEF StateOf, Nothing
  <2> QED
    BY <1>3, <2>1, SaidSent DEF TypeOK
<1>4. ASSUME NEW p \in Procs, Report(p) PROVE OwnItems'
  <2>1. PICK m \in Message : m = [proc |-> p, state |-> StateOf(p)]
    BY DEF StateOf, Message, TypeOK, Items
  <2> QED
    BY <1>3, <1>4, <2>1 DEF Report
<1>5. ASSUME NEW p \in Procs, End(p) PROVE OwnItems'
  <2>1. PICK m \in Message : m = [proc |-> p, state |-> Nothing]
    BY NothingType DEF Message
  <2> QED
    BY <1>1, <1>3, <1>5, <2>1 DEF End
<1>6. CASE Receive
  BY <1>6, SaidRead DEF Receive, TypeOK
<1>7. CASE Start \/ Exit \/ Crash
  BY <1>2, <1>7 DEF Start, Exit, Crash
<1>8. CASE Tick \/ UNCHANGED vars \/ \E p \in Procs : Connect(p)
  BY <1>1, <1>8 DEF Tick, Connect, vars, sources
<1> QED
  BY <1>4, <1>5, <1>6, <1>7, <1>8 DEF Next

\* A message leaves the rows of the processes that have ended gone, or removes
\* them (update(), deleteProcDB).
LEMMA EndedRead ==
    ASSUME TypeOK, MemoryIsStored, OwnItems, Receive, faults = 0, faults' = 0,
           NEW p \in Procs, Ended(p)
    PROVE  Ended(p)'
<1>1. inbox \in Seq(Message) /\ inbox # <<>> /\ inbox' = Tail(inbox)
  BY DEF Receive, TypeOK
<1>2. PICK m : m = Head(inbox)
  OBVIOUS
<1>3. m \in Message /\ \A k \in Keys : m.state[k] # None => ProcOf[k] = m.proc
  <2>1. m = inbox[1] /\ 1 \in DOMAIN inbox /\ m \in Message
    BY <1>1, <1>2, HeadTailProperties, LenProperties, EmptySeq
  <2> QED
    BY <2>1 DEF OwnItems
<1>4. \A k \in Keys : rows'[k] = IF \/ k \in Known(m.state)
                                    \/ Known(m.state) = {} /\ ProcOf[k] = m.proc
                                 THEN m.state[k] ELSE rows[k]
  BY <1>2, ReadRows
<1>5. CASE Of(p) = {} /\ \A k \in KeysOf(p) : rows[k] = None
  <2>1. Of(p)' = {} /\ m.proc # p
    BY <1>1, <1>2, <1>5, SaidRead
  <2>2. \A k \in KeysOf(p) : rows'[k] = rows[k]
    BY <1>3, <1>4, <2>1 DEF KeysOf, Known
  <2> QED
    BY <1>5, <2>1, <2>2 DEF Ended, KeysOf
<1>6. CASE SaidEnd(p)
  <2>1. SaidEnd(p)' \/ (Of(p)' = {} /\ m.proc = p /\ m.state = Nothing)
    BY <1>1, <1>2, <1>6, SaidRead
  <2>2. ASSUME m.proc = p, m.state = Nothing
        PROVE  \A k \in KeysOf(p) : rows'[k] = None
    <3>1. Known(m.state) = {}
      BY <2>2 DEF Known, Nothing
    <3> QED
      BY <1>4, <2>2, <3>1 DEF KeysOf, Nothing
  <2> QED
    BY <2>1, <2>2 DEF Ended, KeysOf
<1> QED
  BY <1>5, <1>6 DEF Ended

\* Every step keeps what has ended out of the table, or its end to be read.
LEMMA EndedStep == TypeOK /\ MemoryIsStored /\ OwnItems /\ EndedLeave /\ [Next]_vars => EndedLeave'
<1> SUFFICES ASSUME TypeOK, MemoryIsStored, OwnItems, EndedLeave, [Next]_vars,
                    up', faults' = 0, NEW p \in Procs, ~Alive(p)'
             PROVE  Ended(p)'
  BY DEF EndedLeave
<1>1. faults = 0
  BY NoFaultBefore
<1>2. ASSUME up, ~Alive(p) PROVE Ended(p)
  BY <1>1, <1>2 DEF EndedLeave
<1>3. ASSUME UNCHANGED <<conn, inbox, up, rows>> PROVE Ended(p)'
  <2>1. ~Alive(p) /\ up
    BY <1>3 DEF Alive, KeysOf
  <2>2. Ended(p)
    BY <1>2, <2>1
  <2> QED
    BY <1>3, <2>2 DEF Ended, SaidEnd, Of, KeysOf, Nothing
<1>4. ASSUME NEW q \in Procs, Connect(q) PROVE Ended(p)'
  <2>1. CASE KeysOf(p) = {}
    <3>1. ~Alive(p) /\ up
      BY <1>4, <2>1 DEF Connect, Alive
    <3>2. Ended(p) /\ UNCHANGED <<inbox, rows>>
      BY <1>2, <1>4, <3>1 DEF Connect
    <3> QED
      BY <3>2 DEF Ended, SaidEnd, Of, KeysOf, Nothing
  <2>2. CASE KeysOf(p) # {}
    <3>1. PICK k \in KeysOf(p) : TRUE
      BY <2>2
    <3>2. p # q
      <4>1. PICK s \in [KeysOf(q) -> Values] :
               conn' = [l \in Keys |-> IF ProcOf[l] = q THEN s[l] ELSE conn[l]]
        BY <1>4 DEF Connect
      <4>2. ASSUME p = q PROVE conn'[k] # None
        BY <3>1, <4>1, <4>2, ReportAssumption DEF KeysOf
      <4> QED
        BY <3>1, <4>2 DEF Alive, KeysOf
    <3>3. \A l \in KeysOf(p) : conn'[l] = conn[l]
      BY <1>4, <3>2 DEF Connect, KeysOf
    <3>4. ~Alive(p) /\ up
      BY <1>4, <3>3 DEF Alive, KeysOf, Connect
    <3>5. Ended(p) /\ UNCHANGED <<inbox, rows>>
      BY <1>2, <1>4, <3>4 DEF Connect
    <3> QED
      BY <3>5 DEF Ended, SaidEnd, Of, KeysOf, Nothing
  <2> QED
    BY <2>1, <2>2
<1>5. ASSUME NEW q \in Procs, Report(q) PROVE Ended(p)'
  <2>1. ~Alive(p) /\ p # q
    BY <1>5 DEF Report, Alive, KeysOf
  <2>2. Ended(p)
    BY <1>2, <1>5, <2>1 DEF Report
  <2>3. PICK m \in Message : m = [proc |-> q, state |-> StateOf(q)]
    BY DEF StateOf, Message, TypeOK, Items
  <2>4. Of(p)' = Of(p) /\ (SaidEnd(p) => SaidEnd(p)')
    BY <1>5, <2>1, <2>3, SaidSent DEF Report, TypeOK
  <2> QED
    BY <1>5, <2>2, <2>4 DEF Report, Ended, KeysOf
<1>6. ASSUME NEW q \in Procs, End(q) PROVE Ended(p)'
  <2>1. up /\ UNCHANGED rows
    BY <1>6 DEF End
  <2>2. PICK m \in Message : m = [proc |-> q, state |-> Nothing]
    BY NothingType DEF Message
  <2>3. inbox' = Append(inbox, m)
    BY <1>6, <2>1, <2>2, FaultBound DEF End, TypeOK
  <2>4. CASE p = q
    BY <2>2, <2>3, <2>4, SaidSent DEF Ended, TypeOK
  <2>5. CASE p # q
    <3>1. ~Alive(p)
      BY <1>6, <2>5 DEF End, Alive, KeysOf
    <3>2. Ended(p)
      BY <1>2, <2>1, <3>1
    <3>3. Of(p)' = Of(p) /\ (SaidEnd(p) => SaidEnd(p)')
      BY <2>2, <2>3, <2>5, SaidSent DEF TypeOK
    <3> QED
      BY <2>1, <3>2, <3>3 DEF Ended, KeysOf
  <2> QED
    BY <2>4, <2>5
<1>7. CASE Receive
  <2>1. ~Alive(p) /\ up
    BY <1>7 DEF Receive, Alive, KeysOf
  <2> QED
    BY <1>1, <1>2, <1>7, <2>1, EndedRead
<1>8. CASE Start
  <2>1. rows' = Nothing /\ inbox' = <<>>
    BY <1>8, FaultBound DEF Start, DeleteNode, TypeOK
  <2>2. Of(p)' = {}
    BY <2>1, EmptySeq DEF Of
  <2> QED
    BY <2>1, <2>2 DEF Ended, KeysOf, Nothing
<1>9. CASE Exit \/ Crash
  BY <1>9 DEF Exit, Crash
<1>10. CASE Tick \/ UNCHANGED vars
  BY <1>3, <1>10 DEF Tick, vars, sources
<1> QED
  BY <1>4, <1>5, <1>6, <1>7, <1>8, <1>9, <1>10 DEF Next

\* Until a statement fails or a process dies without a word, the table holds
\* nothing of a process that has ended, but for a farewell that is still to be
\* read: no report read late, no other process's message and no restart of the
\* thread brings a row back (update(), deleteProcDB, deleteNodeDB).
THEOREM EndedStayOut == Spec => []EndedLeave
<1>1. Init => OwnItems /\ EndedLeave
  BY EmptySeq DEF Init, OwnItems, EndedLeave
<1> QED
  BY <1>1, OwnItemsStep, EndedStep, TypeCorrect, MemoryStaysStored, PTL DEF Spec
=============================================================================
