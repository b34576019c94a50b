----------------------- MODULE ExternalReporter_proofs -----------------------
(***************************************************************************)
(* What ExternalReporter keeps true for any services, tables and any number  *)
(* of answers given up.                                                      *)
(***************************************************************************)
EXTENDS ExternalReporter, SequenceTheorems, FiniteSetTheorems, TLAPS

Messages == [path : Paths, report : Reports]

\* Counting connections gives numbers (UpdateConnection).
LEMMA CountedType ==
    ASSUME NEW t \in SUBSET Rows, NEW c \in SUBSET Rows, NEW cfg,
           NEW old \in [Watched -> Nat]
    PROVE  Counted(t, c, cfg, old) \in [Watched -> Nat]
<1>1. \A S \in SUBSET Rows : Cardinality(S) \in Nat
  BY ServiceAssumption, FS_Subset, FS_CardinalityType
<1>2. ASSUME NEW s, NEW ip PROVE Matches(t, s, ip) \in SUBSET Rows /\ Matches(c, s, ip) \in SUBSET Rows
  BY DEF Matches
<1>3. ASSUME NEW w \in Watched PROVE Counted(t, c, cfg, old)[w] \in Nat
  <2>1. /\ Cardinality(Matches(t, w[1], w[2])) \in Nat
        /\ Cardinality(Matches(c, w[1], w[2])) \in Nat
    BY <1>1, <1>2
  <2> QED
    BY <2>1 DEF Counted
<1> QED
  BY <1>3 DEF Counted

LEMMA ZeroType == Zero \in [Watched -> Nat]
  BY DEF Zero

\* What is reported is a report (MakeAtomReportMessage...).
LEMMA ReportType ==
    ASSUME NEW p \in Paths, NEW cfg, NEW k \in [Watched -> Nat]
    PROVE  Report(p, cfg, k) \in Reports
<1>1. \A s \in Services : Status(s, k) \in Statuses
  BY DEF Status, Statuses
<1>2. CASE Silent(p, cfg)
  BY <1>2 DEF Report, Reports
<1>3. CASE ~Silent(p, cfg)
  <2> DEFINE status == [s \in Services |->
                          IF p = "pg" /\ s \in Subjects(p, cfg) THEN Status(s, k) ELSE "none"]
             count == [w \in Watched |->
                          IF w[1] \notin Subjects(p, cfg) THEN 0
                          ELSE IF p = "pg" /\ k[w] > 0 THEN 1 ELSE k[w]]
  <2>1. status \in [Services -> Statuses]
    BY <1>1 DEF Statuses
  <2>2. count \in [Watched -> Nat]
    OBVIOUS
  <2>3. Report(p, cfg, k) = [status |-> status, count |-> count]
    BY <1>3 DEF Report
  <2> QED
    BY <2>1, <2>2, <2>3 DEF Reports
<1> QED
  BY <1>2, <1>3

\* Telling keeps the types of what is told.
LEMMA TellType ==
    ASSUME TypeOK, NEW cfg, NEW k \in [Watched -> Nat], Tell(cfg, k)
    PROVE  /\ alarm' \in [Services -> Statuses] /\ shown' \in [Services -> Statuses]
           /\ out' \in [Paths -> Reports]
<1>1. \A s \in Services : Status(s, k) \in Statuses
  BY DEF Status, Statuses
<1>2. \A p \in Paths : Report(p, cfg, k) \in Reports
  BY ReportType
<1> QED
  BY <1>1, <1>2 DEF Tell, TypeOK

\* A table holds lines of the host's connections.
LEMMA LoadedType ==
    ASSUME TypeOK, NEW how \in Loads, NEW old \in SUBSET Rows, NEW proto
    PROVE  Loaded(how, old, proto) \in SUBSET Rows
  BY DEF Loaded, Loads, Table, TypeOK

\* A pass keeps the types.
LEMMA PassType ==
    ASSUME TypeOK, NEW t \in Loads, NEW c \in Loads, NEW reload \in BOOLEAN, Pass(t, c, reload)
    PROVE  TypeOK'
<1> DEFINE old == IF reload THEN Zero ELSE known
           new == Counted(tcp', sctp', config', old)
<1>1. tcp' \in SUBSET Rows /\ sctp' \in SUBSET Rows
  BY LoadedType DEF Pass, TypeOK
<1>2. config' \subseteq Services
  BY ServiceAssumption DEF Pass, TypeOK
<1>3. old \in [Watched -> Nat]
  BY ZeroType DEF TypeOK
<1>4. new \in [Watched -> Nat] /\ known' = new
  BY <1>1, <1>3, CountedType DEF Pass
<1>5. /\ alarm' \in [Services -> Statuses] /\ shown' \in [Services -> Statuses]
      /\ out' \in [Paths -> Reports] /\ sending' \in BOOLEAN
  <2>1. CASE Tell(config', new) /\ sending' = TRUE
    BY <2>1, <1>4, TellType
  <2>2. CASE UNCHANGED <<told, sending>>
    BY <2>2 DEF told, TypeOK
  <2> QED
    BY <2>1, <2>2 DEF Pass
<1>6. faults' \in 0..MaxFaults
  BY ServiceAssumption DEF Pass, Fault, NoFault, TypeOK
<1>7. pc' \in {"poll"} \cup Paths
  BY DEF Pass, Paths
<1>8. HttpType(Messages)' /\ net' = net /\ atom' = atom /\ lost' = lost
  BY DEF Pass, http, HttpType, TypeOK, Messages, Reports, Statuses
<1> QED
  BY <1>1, <1>2, <1>4, <1>5, <1>6, <1>7, <1>8 DEF TypeOK, Messages

\* The client's operations keep the types of the connection.
LEMMA HttpStepType ==
    ASSUME NEW M, NEW m \in M, HttpType(M),
           \/ SendKept(m) \/ SendAnew(m) \/ SendIntoVoid \/ SendFails
           \/ ReceiveAnswer \/ ReceiveFails \/ PeerAnswers \/ PeerCloses
    PROVE  HttpType(M)'
<1>1. <<>> \in Seq(M) /\ <<m>> \in Seq(M)
  OBVIOUS
<1>2. CASE SendKept(m)
  BY <1>2, AppendProperties DEF SendKept, HttpType
<1>3. CASE SendAnew(m)
  BY <1>3, <1>1 DEF SendAnew, HttpType
<1>4. CASE SendIntoVoid
  BY <1>4, <1>1 DEF SendIntoVoid, Disconnect, HttpType
<1>5. CASE SendFails
  BY <1>5, <1>1 DEF SendFails, Disconnect, HttpType
<1>6. CASE ReceiveAnswer
  <2>1. unread' \in Nat
    BY <1>6 DEF ReceiveAnswer, HttpType
  <2> QED
    BY <1>6, <2>1 DEF ReceiveAnswer, HttpType
<1>7. CASE ReceiveFails
  <2>1. late' \in Nat
    BY <1>7 DEF ReceiveFails, HttpType
  <2> QED
    BY <1>7, <2>1 DEF ReceiveFails, HttpType
<1>8. CASE PeerAnswers
  <2>1. wire \in Seq(M) /\ wire # <<>>
    BY <1>8 DEF PeerAnswers, HttpType
  <2>2. Tail(wire) \in Seq(M)
    BY <2>1, HeadTailProperties
  <2> QED
    BY <1>8, <2>2 DEF PeerAnswers, HttpType
<1>9. CASE PeerCloses
  BY <1>9, <1>1 DEF PeerCloses, HttpType
<1> QED
  BY <1>2, <1>3, <1>4, <1>5, <1>6, <1>7, <1>8, <1>9

\* Every step keeps the types.
LEMMA TypeStep == TypeOK /\ [Next]_vars => TypeOK'
<1> SUFFICES ASSUME TypeOK, [Next]_vars PROVE TypeOK'
  OBVIOUS
<1> USE DEF Messages
<1>1. \A p \in Paths : Message(p) \in Messages
  BY DEF Message, TypeOK
<1>2. CASE NetChanges
  BY <1>2 DEF NetChanges, http, table, told, TypeOK, HttpType
<1>3. ASSUME NEW p \in Paths, SkipEmpty(p) PROVE TypeOK'
  BY <1>3 DEF SkipEmpty, After, Paths, http, table, told, TypeOK, HttpType
<1>4. ASSUME NEW p \in Paths, Send(p) PROVE TypeOK'
  <2>1. HttpType(Messages)'
    BY <1>1, <1>4, HttpStepType DEF Send, TypeOK
  <2>2. lost' \in [Paths -> BOOLEAN]
    BY <1>4 DEF Send, TypeOK
  <2> QED
    BY <1>4, <2>1, <2>2 DEF Send, table, told, TypeOK
<1>5. ASSUME NEW p \in Paths, SendGivenUp(p) PROVE TypeOK'
  <2>1. HttpType(Messages)'
    BY <1>1, <1>5, HttpStepType DEF SendGivenUp, TypeOK
  <2> QED
    BY <1>5, <2>1 DEF SendGivenUp, table, told, TypeOK
<1>6. ASSUME NEW p \in Paths, Response(p) PROVE TypeOK'
  <2>1. HttpType(Messages)'
    BY <1>1, <1>6, HttpStepType DEF Response, TypeOK
  <2> QED
    BY <1>6, <2>1 DEF Response, After, Paths, table, told, TypeOK
<1>7. CASE AtomTakes
  <2>1. HttpType(Messages)'
    BY <1>1, <1>7, HttpStepType DEF AtomTakes, TypeOK, Paths
  <2>2. Head(wire) \in Messages
    BY <1>7, HeadTailProperties DEF AtomTakes, PeerAnswers, TypeOK, HttpType
  <2>3. atom' \in [Paths -> Reports]
    BY <1>7, <2>2 DEF AtomTakes, TypeOK
  <2> QED
    BY <1>7, <2>1, <2>3 DEF AtomTakes, table, told, TypeOK
<1>8. CASE AtomCloses
  <2>1. HttpType(Messages)'
    BY <1>1, <1>8, HttpStepType DEF AtomCloses, TypeOK, Paths
  <2>2. lost' \in [Paths -> BOOLEAN]
    BY <1>8 DEF AtomCloses, TypeOK
  <2> QED
    BY <1>8, <2>1, <2>2 DEF AtomCloses, table, told, TypeOK
<1>9. CASE Restart
  <2>1. HttpType(Messages)'
    BY <1>9, EmptySeq DEF Restart, Disconnect, HttpType
  <2>2. /\ lost' \in [Paths -> BOOLEAN] /\ faults' \in 0..MaxFaults
        /\ net' = net /\ shown' = shown /\ atom' = atom
    BY <1>9, ServiceAssumption DEF Restart, Fault, TypeOK
  <2>3. /\ tcp' \subseteq Rows /\ sctp' \subseteq Rows /\ config' \subseteq Services
        /\ known' \in [Watched -> Nat] /\ alarm' \in [Services -> Statuses]
        /\ out' \in [Paths -> Reports] /\ sending' \in BOOLEAN /\ pc' = "poll"
    BY <1>9, ZeroType DEF Restart, Fresh, Statuses, Reports
  <2> QED
    BY <2>1, <2>2, <2>3 DEF TypeOK
<1>10. CASE UNCHANGED vars
  BY <1>10 DEF vars, http, table, told, TypeOK, HttpType
<1> QED
  BY <1>2, <1>3, <1>4, <1>5, <1>6, <1>7, <1>8, <1>9, <1>10, PassType DEF Next, Step

LEMMA InitType == Init => TypeOK
<1> SUFFICES ASSUME Init PROVE TypeOK
  OBVIOUS
<1>1. HttpType(Messages)
  BY EmptySeq DEF Init, HttpInit, HttpType
<1>2. faults \in 0..MaxFaults /\ net \subseteq Rows
  BY ServiceAssumption DEF Init
<1> QED
  BY <1>1, <1>2, ZeroType DEF Init, TypeOK, Statuses, Reports, Messages

\* The variables keep their types (run(), HttpClient).
THEOREM TypeCorrect == Spec => []TypeOK
  BY InitType, TypeStep, PTL DEF Spec

-----------------------------------------------------------------------------
\* The client's operations keep count of the answers that are to be read.
LEMMA HttpStepBehind ==
    ASSUME NEW M, NEW m \in M, HttpType(M), BehindByLate,
           \/ ~waiting /\ (SendKept(m) \/ SendAnew(m) \/ SendIntoVoid \/ SendFails)
           \/ ReceiveAnswer \/ ReceiveFails \/ PeerAnswers \/ PeerCloses
    PROVE  BehindByLate'
<1> USE DEF BehindByLate, HttpType
<1>1. CASE ~waiting /\ SendKept(m)
  <2>1. Len(wire') = Len(wire) + 1 /\ Len(wire) \in Nat
    BY <1>1, AppendProperties, LenProperties DEF SendKept
  <2> QED
    BY <1>1, <2>1 DEF SendKept
<1>2. CASE SendAnew(m)
  BY <1>2 DEF SendAnew
<1>3. CASE SendIntoVoid \/ SendFails
  BY <1>3 DEF SendIntoVoid, SendFails, Disconnect
<1>4. CASE ReceiveAnswer
  BY <1>4, LenProperties DEF ReceiveAnswer
<1>5. CASE ReceiveFails
  BY <1>5 DEF ReceiveFails
<1>6. CASE PeerAnswers
  <2>1. Len(wire') = Len(wire) - 1 /\ Len(wire) \in Nat
    BY <1>6, HeadTailProperties, LenProperties DEF PeerAnswers
  <2> QED
    BY <1>6, <2>1 DEF PeerAnswers
<1>7. CASE PeerCloses
  BY <1>7 DEF PeerCloses
<1> QED
  BY <1>1, <1>2, <1>3, <1>4, <1>5, <1>6, <1>7

\* The answers to be read are those given up and the one waited for
\* (HttpResponse::Receive keeps the connection).
THEOREM AnswersStayBehind == Spec => []BehindByLate
<1>1. Init => BehindByLate
  BY DEF Init, HttpInit, BehindByLate
<1>2. TypeOK /\ BehindByLate /\ [Next]_vars => BehindByLate'
  <2> SUFFICES ASSUME TypeOK, BehindByLate, [Next]_vars PROVE BehindByLate'
    OBVIOUS
  <2>1. HttpType(Messages) /\ Paths # {} /\ \A p \in Paths : Message(p) \in Messages
    BY DEF TypeOK, Messages, Message, Paths
  <2>2. CASE UNCHANGED http
    BY <2>2 DEF http, BehindByLate
  <2>3. ASSUME NEW p \in Paths, Send(p) \/ SendGivenUp(p) \/ Response(p) PROVE BehindByLate'
    BY <2>1, <2>3, HttpStepBehind DEF Send, SendGivenUp, Response
  <2>4. CASE AtomTakes \/ AtomCloses
    BY <2>1, <2>4, HttpStepBehind DEF AtomTakes, AtomCloses
  <2>5. CASE Restart
    BY <2>5 DEF Restart, Disconnect, BehindByLate
  <2>6. ASSUME NEW p \in Paths, SkipEmpty(p) PROVE UNCHANGED http
    BY <2>6 DEF SkipEmpty
  <2>7. CASE NetChanges \/ UNCHANGED vars
    BY <2>2, <2>7 DEF NetChanges, vars
  <2>8. ASSUME NEW t \in Loads, NEW c \in Loads, NEW reload \in BOOLEAN, Pass(t, c, reload)
        PROVE  UNCHANGED http
    BY <2>8 DEF Pass
  <2> QED
    BY <2>2, <2>3, <2>4, <2>5, <2>6, <2>7, <2>8 DEF Next, Step
<1> QED
  BY <1>1, <1>2, TypeCorrect, PTL DEF Spec

-----------------------------------------------------------------------------
LEMMA UnchangedTold ==
    ASSUME TellsItsCounts, UNCHANGED <<known, config, alarm, out>>
    PROVE  TellsItsCounts'
<1>1. \A s : Status(s, known)' = Status(s, known)
  BY DEF Status, Linked
<1>2. \A p : Report(p, config, known)' = Report(p, config, known)
  <2> TAKE p
  <2>1. Subjects(p, config)' = Subjects(p, config)
    BY DEF Subjects
  <2> QED
    BY <1>1, <2>1 DEF Report, Watched
<1>3. Zero' = Zero
  BY DEF Zero, Watched
<1> QED
  BY <1>1, <1>2, <1>3 DEF TellsItsCounts

\* A pass tells the counts it has found, or has found nothing new, or has
\* started from zero and found zero (UpdateConnection).
LEMMA PassTells ==
    ASSUME TypeOK, TellsItsCounts,
           NEW t \in Loads, NEW c \in Loads, NEW reload \in BOOLEAN, Pass(t, c, reload)
    PROVE  TellsItsCounts'
<1> DEFINE old == IF reload THEN Zero ELSE known
           new == Counted(tcp', sctp', config', old)
<1>1. config' \subseteq Services
  BY ServiceAssumption DEF Pass, TypeOK
<1>2. known' = new
  BY DEF Pass
<1>3. CASE Tell(config', new)
  <2>1. \A s \in config' : alarm'[s] = Status(s, new)
    BY <1>1, <1>3 DEF Tell, TypeOK
  <2>2. \A p \in Paths : out'[p] = Report(p, config', new)
    BY <1>3 DEF Tell
  <2> HIDE DEF new
  <2> QED
    BY <1>2, <2>1, <2>2 DEF TellsItsCounts
<1>4. CASE new = old /\ UNCHANGED told
  <2>1. CASE reload
    BY <1>2, <1>4, <2>1 DEF TellsItsCounts, Zero, Watched
  <2>2. CASE ~reload
    <3>1. UNCHANGED <<known, config, alarm, out>>
      BY <1>2, <1>4, <2>2 DEF Pass, told
    <3> QED
      BY <3>1, UnchangedTold
  <2> QED
    BY <2>1, <2>2
<1> QED
  BY <1>3, <1>4 DEF Pass

\* What the reporter has told are the counts it has, or these are all zero
\* (UpdateConnection, MakeAtomReportMessage..., Trap).
THEOREM CountsAreTold == Spec => []TellsItsCounts
<1>1. Init => TellsItsCounts
  BY DEF Init, TellsItsCounts
<1>2. TypeOK /\ TellsItsCounts /\ [Next]_vars => TellsItsCounts'
  <2> SUFFICES ASSUME TypeOK, TellsItsCounts, [Next]_vars PROVE TellsItsCounts'
    OBVIOUS
  <2>1. CASE UNCHANGED <<table, told>>
    BY <2>1, UnchangedTold DEF table, told
  <2>2. CASE NetChanges \/ AtomTakes \/ AtomCloses \/ UNCHANGED vars
    BY <2>1, <2>2 DEF NetChanges, AtomTakes, AtomCloses, vars
  <2>3. ASSUME NEW p \in Paths, SkipEmpty(p) \/ Send(p) \/ SendGivenUp(p) \/ Response(p)
        PROVE  UNCHANGED <<table, told>>
    BY <2>3 DEF SkipEmpty, Send, SendGivenUp, Response
  <2>4. CASE Restart
    BY <2>4 DEF Restart, Fresh, TellsItsCounts, Zero, Watched
  <2> QED
    BY <2>1, <2>2, <2>3, <2>4, PassTells DEF Next, Step
<1> QED
  BY <1>1, <1>2, TypeCorrect, PTL DEF Spec

-----------------------------------------------------------------------------
(***************************************************************************)
(* What the thread has nothing left to send of is told.                     *)
(***************************************************************************)
\* What is on its way, or taken, stays so while nothing is sent or taken.
LEMMA ComesStays ==
    ASSUME NEW p, NEW r, ComesTo(p, r), UNCHANGED <<wire, atom>>
    PROVE  ComesTo(p, r)'
  BY DEF ComesTo, OnWire

\* A message that is sent is the last of its kind, and of no other kind
\* (EGWSocket::Send).
LEMMA ComesSent ==
    ASSUME NEW M, NEW m \in M, wire \in Seq(M), wire' = Append(wire, m), UNCHANGED atom
    PROVE  /\ ComesTo(m.path, m.report)'
           /\ \A p, r : p # m.path /\ ComesTo(p, r) => ComesTo(p, r)'
<1>1. /\ Len(wire') = Len(wire) + 1 /\ Len(wire) \in Nat
      /\ \A i \in 1..Len(wire) : wire'[i] = wire[i]
      /\ wire'[Len(wire) + 1] = m
      /\ DOMAIN wire = 1..Len(wire) /\ DOMAIN wire' = 1..(Len(wire) + 1)
  BY AppendProperties, LenProperties
<1>2. ComesTo(m.path, m.report)'
  <2>1. Len(wire) + 1 \in OnWire(m.path)'
    BY <1>1 DEF OnWire
  <2>2. \A j \in OnWire(m.path)' : j <= Len(wire) + 1
    BY <1>1 DEF OnWire
  <2> QED
    BY <1>1, <2>1, <2>2 DEF ComesTo
<1>3. ASSUME NEW p, NEW r, p # m.path, ComesTo(p, r)
      PROVE  ComesTo(p, r)'
  <2>1. OnWire(p)' = OnWire(p)
    BY <1>1, <1>3 DEF OnWire
  <2> QED
    BY <1>1, <1>3, <2>1 DEF ComesTo, OnWire
<1> QED
  BY <1>2, <1>3

\* The message that ATOM takes is the first on the wire (PeerAnswers).
LEMMA ComesTaken ==
    ASSUME NEW M, wire \in Seq(M), wire # <<>>, wire' = Tail(wire),
           DOMAIN atom = Paths, Head(wire).path \in Paths,
           atom' = [atom EXCEPT ![Head(wire).path] = Head(wire).report],
           NEW p \in Paths, NEW r, ComesTo(p, r)
    PROVE  ComesTo(p, r)'
<1>1. /\ Len(wire') = Len(wire) - 1 /\ Len(wire) \in Nat /\ Len(wire) > 0
      /\ \A i \in 1..(Len(wire) - 1) : wire'[i] = wire[i + 1]
      /\ DOMAIN wire = 1..Len(wire) /\ DOMAIN wire' = 1..(Len(wire) - 1)
      /\ Head(wire) = wire[1]
  BY HeadTailProperties, LenProperties, EmptySeq
<1>2. \A i \in 1..(Len(wire) - 1) : i \in OnWire(p)' <=> i + 1 \in OnWire(p)
  BY <1>1 DEF OnWire
<1>3. CASE OnWire(p) = {}
  <2>1. Head(wire).path # p
    BY <1>1, <1>3 DEF OnWire
  <2>2. atom'[p] = r
    BY <1>3, <2>1 DEF ComesTo
  <2>3. OnWire(p)' = {}
    BY <1>1, <1>2, <1>3 DEF OnWire
  <2> QED
    BY <2>2, <2>3 DEF ComesTo
<1>4. CASE OnWire(p) # {}
  <2>1. PICK i \in OnWire(p) : wire[i].report = r /\ \A j \in OnWire(p) : j <= i
    BY <1>4 DEF ComesTo
  <2>2. i \in 1..Len(wire) /\ wire[i].path = p
    BY <1>1 DEF OnWire
  <2>3. CASE i = 1
    <3>1. atom'[p] = r
      BY <1>1, <2>1, <2>2, <2>3
    <3>2. OnWire(p)' = {}
      <4>1. \A j \in 1..(Len(wire) - 1) : j + 1 \notin OnWire(p)
        BY <1>1, <2>1, <2>3
      <4> QED
        BY <1>1, <1>2, <4>1 DEF OnWire
    <3> QED
      BY <3>1, <3>2 DEF ComesTo
  <2>4. CASE i # 1
    <3>1. i - 1 \in 1..(Len(wire) - 1) /\ wire'[i - 1] = wire[i]
      BY <1>1, <2>2, <2>4
    <3>2. i - 1 \in OnWire(p)'
      BY <1>2, <2>2, <3>1
    <3>3. \A j \in OnWire(p)' : j <= i - 1
      <4> SUFFICES ASSUME NEW j \in OnWire(p)' PROVE j <= i - 1
        OBVIOUS
      <4>1. j \in 1..(Len(wire) - 1) /\ j + 1 \in OnWire(p)
        BY <1>1, <1>2 DEF OnWire
      <4> QED
        BY <2>1, <2>2, <4>1
    <3> QED
      BY <2>1, <3>1, <3>2, <3>3 DEF ComesTo
  <2> QED
    BY <2>3, <2>4
<1> QED
  BY <1>3, <1>4

\* A message has been handed over: nothing is left to be sent, or the thread
\* waits for its answer or is at the message after it.
Handed(p) == ~sending \/ (pc = p /\ waiting) \/ (p = "pg" /\ pc = "ncn")

\* What has been handed over is on its way, taken, or known to be lost.
GoesOut ==
    \A p \in Paths : Handed(p) => out[p] = NoReport \/ lost[p] \/ ComesTo(p, out[p])

\* A connection that is not up carries nothing, and the thread waits for an
\* answer only while it is sending.
Carried ==
    /\ conn # "up" => wire = <<>>
    /\ waiting => pc \in Paths
    /\ pc # "poll" => sending

\* What an alarm's map holds the alarm system shows (Trap).
Shown == \A s \in Services : alarm[s] # "none" => shown[s] = alarm[s]

\* The counts kept are those of the tables kept: a service of a protocol that is
\* neither counts nothing, and its count never leaves zero (UpdateConnection).
KnownIsCounted == known = Counted(tcp, sctp, config, Zero)

\* The strengthening of SettledIsTold that every step keeps.
Delivers == Carried /\ GoesOut /\ Shown /\ KnownIsCounted

\* Every step keeps what the connection carries and when.
LEMMA CarriedStep == Carried /\ [Next]_vars => Carried'
<1> SUFFICES ASSUME Carried, [Next]_vars PROVE Carried'
  OBVIOUS
<1> USE DEF Carried, Paths
<1>1. ASSUME NEW p \in Paths, SkipEmpty(p) PROVE Carried'
  BY <1>1 DEF SkipEmpty, After, http
<1>2. ASSUME NEW p \in Paths, Send(p) PROVE Carried'
  BY <1>2 DEF Send, SendKept, SendAnew, SendIntoVoid, Disconnect
<1>3. ASSUME NEW p \in Paths, SendGivenUp(p) PROVE Carried'
  BY <1>3 DEF SendGivenUp, SendFails, Disconnect
<1>4. ASSUME NEW p \in Paths, Response(p) PROVE Carried'
  BY <1>4 DEF Response, After, ReceiveAnswer, ReceiveFails
<1>5. CASE AtomTakes \/ AtomCloses
  BY <1>5 DEF AtomTakes, AtomCloses, PeerAnswers, PeerCloses
<1>6. CASE Restart
  BY <1>6 DEF Restart, Fresh, Disconnect
<1>7. ASSUME NEW t \in Loads, NEW c \in Loads, NEW reload \in BOOLEAN, Pass(t, c, reload)
      PROVE  Carried'
  BY <1>7 DEF Pass, http
<1>8. CASE NetChanges \/ UNCHANGED vars
  BY <1>8 DEF NetChanges, vars, http
<1> QED
  BY <1>1, <1>2, <1>3, <1>4, <1>5, <1>6, <1>7, <1>8 DEF Next, Step

\* A connection that ends takes with it what has not been taken, and that is noted.
LEMMA ComesOrLost ==
    ASSUME wire' = <<>>, UNCHANGED atom, NEW p \in Paths, NEW r,
           lost' = [q \in Paths |-> lost[q] \/ q \in InWire],
           lost[p] \/ ComesTo(p, r)
    PROVE  lost'[p] \/ ComesTo(p, r)'
<1>1. CASE OnWire(p) # {}
  BY <1>1 DEF OnWire, InWire
<1>2. CASE OnWire(p) = {} /\ ~lost[p]
  <2>1. OnWire(p)' = {}
    BY EmptySeq DEF OnWire
  <2> QED
    BY <1>2, <2>1 DEF ComesTo
<1> QED
  BY <1>1, <1>2

\* Every step keeps what has been handed over on its way (sendToAtomReportMessage,
\* Response, and what ATOM does).
LEMMA GoesOutStep == TypeOK /\ Carried /\ GoesOut /\ [Next]_vars => GoesOut'
<1> SUFFICES ASSUME TypeOK, Carried, GoesOut, [Next]_vars,
                    NEW q \in Paths, Handed(q)'
             PROVE  out'[q] = NoReport \/ lost'[q] \/ ComesTo(q, out[q])'
  BY DEF GoesOut
<1> DEFINE Goes == out'[q] = NoReport \/ lost'[q] \/ ComesTo(q, out[q])'
<1>0. ASSUME UNCHANGED <<wire, atom, out, lost>>, Handed(q) PROVE Goes
  <2>1. out[q] = NoReport \/ lost[q] \/ ComesTo(q, out[q])
    BY <1>0 DEF GoesOut
  <2> QED
    BY <1>0, <2>1, ComesStays
<1>1. ASSUME NEW p \in Paths, SkipEmpty(p) PROVE Goes
  <2>1. UNCHANGED <<wire, atom, out, lost>> /\ (p = q => out'[q] = NoReport)
    BY <1>1 DEF SkipEmpty, http, told
  <2>2. p # q => Handed(q)
    BY <1>1 DEF SkipEmpty, After, Handed, http, Paths, Carried
  <2> QED
    BY <1>0, <2>1, <2>2
<1>2. ASSUME NEW p \in Paths, Send(p) PROVE Goes
  <2>1. UNCHANGED <<atom, out>> /\ out[p] # NoReport
    BY <1>2 DEF Send, told
  <2>2. p # q => Handed(q)
    BY <1>2 DEF Send, Handed, Paths, Carried
  <2>3. p # q => out[q] = NoReport \/ lost[q] \/ ComesTo(q, out[q])
    BY <2>2 DEF GoesOut
  <2>4. CASE SendKept(Message(p)) \/ SendAnew(Message(p))
    <3>1. PICK m \in Messages : m = Message(p)
      BY DEF Message, Messages, TypeOK
    <3>2. m.path = p /\ m.report = out[p]
      BY <3>1 DEF Message
    <3>3. wire \in Seq(Messages)
      BY DEF TypeOK, HttpType, Messages
    <3>4. wire' = Append(wire, m)
      <4>1. CASE SendKept(Message(p))
        BY <3>1, <4>1 DEF SendKept
      <4>2. CASE SendAnew(Message(p))
        <5>1. wire = <<>> /\ wire' = <<m>>
          BY <3>1, <4>2 DEF SendAnew, Carried
        <5> QED
          BY <5>1
      <4> QED
        BY <2>4, <4>1, <4>2
    <3>5. /\ ComesTo(m.path, m.report)'
          /\ \A x, r : x # m.path /\ ComesTo(x, r) => ComesTo(x, r)'
      BY <2>1, <3>3, <3>4, ComesSent
    <3>6. p # q => lost'[q] = lost[q]
      BY <1>2 DEF Send, TypeOK
    <3>7. PICK r : r = out[q]
      OBVIOUS
    <3>8. out'[q] = r
      BY <2>1, <3>7
    <3>9. CASE p = q
      <4>1. ComesTo(q, r)'
        BY <3>2, <3>5, <3>7, <3>9
      <4> QED
        BY <3>8, <4>1 DEF ComesTo
    <3>10. CASE p # q
      <4>1. ComesTo(q, r) => ComesTo(q, r)'
        BY <3>2, <3>5, <3>10
      <4>2. ComesTo(q, r)' => ComesTo(q, out[q])'
        BY <3>8 DEF ComesTo
      <4> QED
        BY <2>3, <3>6, <3>7, <3>8, <3>10, <4>1, <4>2
    <3> QED
      BY <3>9, <3>10
  <2>5. CASE SendIntoVoid /\ lost' = [lost EXCEPT ![p] = TRUE]
    <3>1. wire' = wire
      BY <2>5 DEF SendIntoVoid, Disconnect, Carried
    <3>2. lost'[p] /\ (p # q => lost'[q] = lost[q])
      BY <2>5 DEF TypeOK
    <3>3. ComesTo(q, out[q]) => ComesTo(q, out[q])'
      BY <2>1, <3>1 DEF ComesTo, OnWire
    <3> QED
      BY <2>1, <2>3, <3>2, <3>3
  <2> QED
    BY <1>2, <2>4, <2>5 DEF Send
<1>3. ASSUME NEW p \in Paths, SendGivenUp(p) PROVE FALSE
  <2>1. ~waiting' /\ pc' = "poll" /\ sending' = sending /\ sending
    BY <1>3 DEF SendGivenUp, SendFails, Carried, Paths
  <2> QED
    BY <2>1 DEF Handed
<1>4. ASSUME NEW p \in Paths, Response(p) PROVE Goes
  <2>1. UNCHANGED <<wire, atom, out, lost>>
    BY <1>4 DEF Response, told, ReceiveAnswer, ReceiveFails
  <2>2. Handed(q)
    BY <1>4 DEF Response, After, Handed, Paths, Carried, ReceiveAnswer, ReceiveFails
  <2> QED
    BY <1>0, <2>1, <2>2
<1>5. CASE AtomTakes
  <2>1. wire \in Seq(Messages) /\ wire # <<>> /\ wire' = Tail(wire) /\ UNCHANGED <<out, lost>>
    BY <1>5 DEF AtomTakes, PeerAnswers, TypeOK, HttpType, Messages, told
  <2>2. Head(wire).path \in Paths
    <3>1. Head(wire) \in Messages
      BY <2>1, HeadTailProperties
    <3> QED
      BY <3>1 DEF Messages
  <2>3. Handed(q)
    BY <1>5 DEF AtomTakes, PeerAnswers, Handed
  <2>4. out[q] = NoReport \/ lost[q] \/ ComesTo(q, out[q])
    BY <2>3 DEF GoesOut
  <2>5. ASSUME ComesTo(q, out[q]) PROVE ComesTo(q, out[q])'
    <3>1. DOMAIN atom = Paths /\ atom' = [atom EXCEPT ![Head(wire).path] = Head(wire).report]
      BY <1>5 DEF AtomTakes, TypeOK
    <3>2. \A r : ComesTo(q, r) => ComesTo(q, r)'
      BY <2>1, <2>2, <3>1, ComesTaken
    <3> QED
      BY <2>1, <2>5, <3>2
  <2> QED
    BY <2>1, <2>4, <2>5
<1>6. CASE AtomCloses
  <2>1. Handed(q) /\ UNCHANGED <<out, atom>> /\ wire' = <<>>
    BY <1>6 DEF AtomCloses, PeerCloses, Handed, told
  <2>2. out[q] = NoReport \/ lost[q] \/ ComesTo(q, out[q])
    BY <2>1 DEF GoesOut
  <2>3. \A r : lost[q] \/ ComesTo(q, r) => lost'[q] \/ ComesTo(q, r)'
    BY <1>6, <2>1, ComesOrLost DEF AtomCloses
  <2> QED
    BY <2>1, <2>2, <2>3
<1>7. CASE Restart
  BY <1>7 DEF Restart, Fresh
<1>8. ASSUME NEW t \in Loads, NEW c \in Loads, NEW reload \in BOOLEAN, Pass(t, c, reload)
      PROVE  Goes
  <2>1. ~waiting /\ ~waiting' /\ UNCHANGED <<wire, atom, lost>>
    BY <1>8 DEF Pass, http, Carried, Paths
  <2>2. ~sending' /\ sending' = sending /\ UNCHANGED out
    BY <1>8, <2>1 DEF Pass, Handed, told, TypeOK
  <2> QED
    BY <1>0, <2>1, <2>2 DEF Handed
<1>9. CASE NetChanges \/ UNCHANGED vars
  BY <1>0, <1>9 DEF NetChanges, vars, http, told, Handed
<1> QED
  BY <1>1, <1>2, <1>3, <1>4, <1>5, <1>6, <1>7, <1>8, <1>9 DEF Next, Step

\* Every alarm is sent when it is noted (Trap).
LEMMA ShownStep == TypeOK /\ Shown /\ [Next]_vars => Shown'
<1> SUFFICES ASSUME TypeOK, Shown, [Next]_vars PROVE Shown'
  OBVIOUS
<1>1. CASE UNCHANGED told
  BY <1>1 DEF told, Shown
<1>2. ASSUME NEW cfg, NEW k, Tell(cfg, k) PROVE Shown'
  BY <1>2 DEF Tell, Shown, TypeOK
<1>3. ASSUME NEW t \in Loads, NEW c \in Loads, NEW reload \in BOOLEAN, Pass(t, c, reload)
      PROVE  Shown'
  <2>1. UNCHANGED told \/ \E cfg, k : Tell(cfg, k)
    BY <1>3 DEF Pass
  <2> QED
    BY <1>1, <1>2, <2>1
<1>4. CASE Restart
  BY <1>4 DEF Restart, Fresh, Shown
<1>5. ASSUME NEW p \in Paths, SkipEmpty(p) \/ Send(p) \/ SendGivenUp(p) \/ Response(p)
      PROVE  UNCHANGED told
  BY <1>5 DEF SkipEmpty, Send, SendGivenUp, Response
<1>6. CASE NetChanges \/ AtomTakes \/ AtomCloses \/ UNCHANGED vars
  BY <1>1, <1>6 DEF NetChanges, AtomTakes, AtomCloses, vars
<1> QED
  BY <1>1, <1>3, <1>4, <1>5, <1>6 DEF Next, Step

\* Nothing is counted in empty tables.
LEMMA NothingCounted == Counted({}, {}, {}, Zero) = Zero
<1>1. \A w \in Watched : Counted({}, {}, {}, Zero)[w] = 0
  BY DEF Counted, Zero
<1> QED
  BY <1>1 DEF Counted, Zero

\* What is counted anew counts as if it had never been counted before, if the
\* counts before were of the same configuration.
LEMMA CountedAnew ==
    ASSUME NEW t, NEW c, NEW a, NEW b, NEW cfg, NEW old,
           old = Zero \/ old = Counted(a, b, cfg, Zero)
    PROVE  Counted(t, c, cfg, old) = Counted(t, c, cfg, Zero)
<1>1. ASSUME NEW w \in Watched, w[1] \in cfg,
             Item[w[1]].proto # "TCP", Item[w[1]].proto # "SCTP"
      PROVE  old[w] = Zero[w]
  BY <1>1 DEF Counted
<1>2. ASSUME NEW w \in Watched
      PROVE  Counted(t, c, cfg, old)[w] = Counted(t, c, cfg, Zero)[w]
  <2>1. CASE w[1] \notin cfg
    BY <2>1 DEF Counted
  <2>2. CASE w[1] \in cfg /\ Item[w[1]].proto = "TCP"
    BY <2>2 DEF Counted
  <2>3. CASE w[1] \in cfg /\ Item[w[1]].proto = "SCTP"
    BY <2>3 DEF Counted
  <2>4. CASE w[1] \in cfg /\ Item[w[1]].proto # "TCP" /\ Item[w[1]].proto # "SCTP"
    BY <1>1, <2>4 DEF Counted
  <2> QED
    BY <2>1, <2>2, <2>3, <2>4
<1> QED
  BY <1>2 DEF Counted

\* Every step keeps the counts those of the tables (UpdateConnection).
LEMMA KnownStep == KnownIsCounted /\ [Next]_vars => KnownIsCounted'
<1> SUFFICES ASSUME KnownIsCounted, [Next]_vars PROVE KnownIsCounted'
  OBVIOUS
<1>1. CASE UNCHANGED table
  <2>1. Counted(tcp, sctp, config, Zero)' = Counted(tcp, sctp, config, Zero)
    BY <1>1 DEF table, Counted, Matches, Watched, Zero
  <2> QED
    BY <1>1, <2>1 DEF table, KnownIsCounted
<1>2. ASSUME NEW t \in Loads, NEW c \in Loads, NEW reload \in BOOLEAN, Pass(t, c, reload)
      PROVE  KnownIsCounted'
  <2> DEFINE old == IF reload THEN Zero ELSE known
  <2>1. known' = Counted(tcp', sctp', config', old)
    BY <1>2 DEF Pass
  <2>2. old = Zero \/ old = Counted(tcp, sctp, config', Zero)
    BY <1>2 DEF Pass, KnownIsCounted
  <2>3. Counted(tcp', sctp', config', old) = Counted(tcp', sctp', config', Zero)
    <3> HIDE DEF old
    <3> QED
      BY <2>2, CountedAnew
  <2>4. Counted(tcp, sctp, config, Zero)' = Counted(tcp', sctp', config', Zero)
    BY DEF Counted, Matches, Watched, Zero
  <2> QED
    BY <2>1, <2>3, <2>4 DEF KnownIsCounted
<1>3. CASE Restart
  <2>1. Counted(tcp, sctp, config, Zero)' = Counted({}, {}, {}, Zero)
    BY <1>3 DEF Restart, Fresh, Counted, Matches, Watched, Zero
  <2> QED
    BY <1>3, <2>1, NothingCounted DEF Restart, Fresh, KnownIsCounted
<1>4. ASSUME NEW p \in Paths, SkipEmpty(p) \/ Send(p) \/ SendGivenUp(p) \/ Response(p)
      PROVE  UNCHANGED table
  BY <1>4 DEF SkipEmpty, Send, SendGivenUp, Response
<1>5. CASE NetChanges \/ AtomTakes \/ AtomCloses \/ UNCHANGED vars
  BY <1>1, <1>5 DEF NetChanges, AtomTakes, AtomCloses, vars
<1> QED
  BY <1>1, <1>2, <1>3, <1>4, <1>5 DEF Next, Step

LEMMA InitDelivers == Init => Delivers
<1> SUFFICES ASSUME Init PROVE Delivers
  OBVIOUS
<1>1. Carried /\ GoesOut /\ Shown
  BY DEF Init, HttpInit, Carried, GoesOut, Shown
<1>2. KnownIsCounted
  BY NothingCounted DEF Init, KnownIsCounted
<1> QED
  BY <1>1, <1>2 DEF Delivers

\* What the counts tell, once nothing is left to be sent, is what there is.
LEMMA DeliversSettled == TypeOK /\ TellsItsCounts /\ Delivers => SettledIsTold
<1> SUFFICES ASSUME TypeOK, TellsItsCounts, Delivers, ~sending,
                    tcp = Table("TCP"), sctp = Table("SCTP"), Actual # Zero
             PROVE  /\ \A s \in config : shown[s] = Status(s, Actual)
                    /\ \A p \in Paths :
                          LET r == Report(p, config, Actual)
                          IN  r = NoReport \/ lost[p] \/ ComesTo(p, r)
  BY DEF SettledIsTold
<1>1. known = Actual
  BY DEF Delivers, KnownIsCounted, Actual
<1>2. /\ \A s \in config : alarm[s] = Status(s, Actual)
      /\ \A p \in Paths : out[p] = Report(p, config, Actual)
  BY <1>1 DEF TellsItsCounts
<1>3. ASSUME NEW s \in config PROVE shown[s] = Status(s, Actual)
  <2>1. Status(s, Actual) # "none"
    BY DEF Status
  <2> QED
    BY <1>2, <2>1 DEF Delivers, Shown, TypeOK
<1>4. ASSUME NEW p \in Paths
      PROVE  LET r == Report(p, config, Actual)
             IN  r = NoReport \/ lost[p] \/ ComesTo(p, r)
  <2>1. out[p] = NoReport \/ lost[p] \/ ComesTo(p, out[p])
    BY DEF Delivers, GoesOut, Handed
  <2> QED
    BY <1>2, <2>1
<1> QED
  BY <1>3, <1>4

\* A thread with nothing left to send has told of the connections there are, to
\* the alarm system and to ATOM (run(), UpdateConnection, Trap,
\* sendToAtomReportMessage, HttpRequest::Send).
THEOREM SettledTells == Spec => []SettledIsTold
<1>1. TypeOK /\ Delivers /\ [Next]_vars => Delivers'
  BY CarriedStep, GoesOutStep, ShownStep, KnownStep DEF Delivers
<1> QED
  BY <1>1, InitDelivers, DeliversSettled, TypeCorrect, CountsAreTold, PTL DEF Spec
=============================================================================
