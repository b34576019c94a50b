--------------------------- MODULE JobServer_proofs ---------------------------
(***************************************************************************)
(* What JobServer keeps true for any requests, numbers, backlog and faults.  *)
(***************************************************************************)
EXTENDS JobServer, SequenceTheorems, TLAPS

\* A queue that gets a new element at its end has it once.
LEMMA AppendOnce ==
    ASSUME NEW S, NEW s \in Seq(S), NEW x \in S, Once(s), x \notin Elements(s)
    PROVE  /\ Append(s, x) \in Seq(S)
           /\ Once(Append(s, x))
           /\ Elements(Append(s, x)) = Elements(s) \cup {x}
<1> DEFINE t == Append(s, x)
<1>1. /\ t \in Seq(S) /\ Len(t) = Len(s) + 1
      /\ \A i \in 1..Len(s) : t[i] = s[i]
      /\ t[Len(s) + 1] = x
  BY AppendProperties
<1>2. /\ DOMAIN s = 1..Len(s) /\ DOMAIN t = 1..(Len(s) + 1)
      /\ Len(s) \in Nat
  BY <1>1, LenProperties
<1>3. Once(t)
  BY <1>1, <1>2 DEF Once, Elements
<1>4. Elements(t) = Elements(s) \cup {x}
  BY <1>1, <1>2 DEF Elements
<1> QED
  BY <1>1, <1>3, <1>4

\* A queue that loses the element at its front has the others, once.
LEMMA TailOnce ==
    ASSUME NEW S, NEW s \in Seq(S), s # <<>>, Once(s)
    PROVE  /\ Tail(s) \in Seq(S) /\ Head(s) \in S
           /\ Len(Tail(s)) = Len(s) - 1
           /\ Once(Tail(s))
           /\ Elements(Tail(s)) = Elements(s) \ {Head(s)}
<1> DEFINE t == Tail(s)
<1>1. /\ t \in Seq(S) /\ Len(t) = Len(s) - 1
      /\ Head(s) \in S /\ Head(s) = s[1]
      /\ \A i \in 1..Len(t) : t[i] = s[i + 1]
  BY HeadTailProperties
<1>2. /\ Len(s) \in Nat /\ Len(s) > 0
      /\ DOMAIN s = 1..Len(s) /\ DOMAIN t = 1..(Len(s) - 1)
  BY <1>1, LenProperties, EmptySeq
<1>3. Once(t)
  BY <1>1, <1>2 DEF Once
<1>4. Elements(t) \subseteq Elements(s) \ {Head(s)}
  BY <1>1, <1>2 DEF Elements, Once
<1>5. ASSUME NEW y \in Elements(s), y # Head(s)
      PROVE  y \in Elements(t)
  <2>1. PICK i \in 1..Len(s) : s[i] = y
    BY <1>2 DEF Elements
  <2>2. i # 1
    BY <2>1, <1>1, <1>5
  <2>3. i - 1 \in 1..(Len(s) - 1) /\ t[i - 1] = s[i]
    BY <2>2, <1>1, <1>2
  <2> QED
    BY <2>1, <2>3, <1>2 DEF Elements
<1> QED
  BY <1>1, <1>3, <1>4, <1>5

\* What is at the front of a queue is in it.
LEMMA HeadElement ==
    ASSUME NEW S, NEW s \in Seq(S), s # <<>>
    PROVE  Head(s) \in Elements(s)
<1>1. Len(s) \in Nat /\ Len(s) > 0 /\ DOMAIN s = 1..Len(s)
  BY LenProperties, EmptySeq
<1> QED
  BY <1>1, HeadTailProperties DEF Elements

\* The empty queue.
LEMMA EmptyOnce ==
    /\ <<>> \in Seq(Reqs) /\ Len(<<>>) = 0
    /\ Once(<<>>) /\ Elements(<<>>) = {}
<1>1. <<>> \in Seq(Reqs) /\ Len(<<>>) = 0
  BY EmptySeq
<1>2. DOMAIN <<>> = {}
  BY <1>1, LenProperties
<1> QED
  BY <1>1, <1>2 DEF Once, Elements

\* The fronts and ends of the two queues are requests.
LEMMA Heads ==
    ASSUME TypeOK
    PROVE  /\ backlog # <<>> => /\ Head(backlog) \in Reqs
                                /\ Tail(backlog) \in Seq(Reqs)
                                /\ Len(Tail(backlog)) <= Backlog
           /\ deque # <<>> => Head(deque) \in Reqs /\ Tail(deque) \in Seq(Reqs)
<1>1. ASSUME backlog # <<>>
      PROVE  /\ Head(backlog) \in Reqs /\ Tail(backlog) \in Seq(Reqs)
             /\ Len(Tail(backlog)) = Len(backlog) - 1
  BY <1>1, HeadTailProperties DEF TypeOK
<1>2. ASSUME deque # <<>>
      PROVE  Head(deque) \in Reqs /\ Tail(deque) \in Seq(Reqs)
  BY <1>2, HeadTailProperties DEF TypeOK
<1>3. Len(backlog) \in Nat
  BY LenProperties DEF TypeOK
<1> QED
  BY <1>1, <1>2, <1>3, ServerAssumption DEF TypeOK

\* Failures are counted within the bound.
LEMMA FaultBound ==
    ASSUME faults \in 0..MaxFaults, Fault \/ NoFault
    PROVE  faults' \in 0..MaxFaults
  BY ServerAssumption DEF Fault, NoFault

LEMMA InitType == Init => TypeOK
  BY EmptyOnce, ServerAssumption DEF Init, TypeOK, PcStates, SocketStates

\* No step of the server breaks a type.
LEMMA ServerType == TypeOK /\ (ServerStep \/ ServerFault) => TypeOK'
<1> SUFFICES ASSUME TypeOK, ServerStep \/ ServerFault
             PROVE  TypeOK'
  OBVIOUS
<1> USE Heads
<1>1. CASE Accept
  <2>1. Append(deque, Head(backlog)) \in Seq(Reqs)
    BY <1>1, AppendProperties DEF Accept, TypeOK
  <2> QED
    BY <1>1, <2>1 DEF Accept, TypeOK, PcStates, SocketStates, result, shared
<1>2. CASE NoClient
  BY <1>2 DEF NoClient, TypeOK, result, shared
<1>3. CASE Reap
  <2>1. CASE deque # <<>> /\ pc[Head(deque)] = "done"
    <3>1. pc' \in [Reqs -> PcStates] /\ socket' \in [Reqs -> SocketStates]
      BY <1>3, <2>1 DEF Reap, TypeOK, PcStates, SocketStates
    <3>2. deque' \in Seq(Reqs)
      BY <1>3, <2>1 DEF Reap
    <3> QED
      BY <1>3, <3>1, <3>2 DEF Reap, TypeOK, result, shared
  <2>2. CASE ~(deque # <<>> /\ pc[Head(deque)] = "done")
    BY <1>3, <2>2 DEF Reap, TypeOK, result, shared
  <2> QED
    BY <2>1, <2>2
<1>4. CASE AcceptFails
  <2>1. faults' \in 0..MaxFaults
    BY <1>4, FaultBound DEF AcceptFails, TypeOK
  <2>2. socket' \in [Reqs -> SocketStates]
    BY <1>4 DEF AcceptFails, TypeOK, SocketStates
  <2>3. backlog' \in Seq(Reqs) /\ Len(backlog') <= Backlog
    BY <1>4 DEF AcceptFails, TypeOK
  <2> QED
    BY <1>4, <2>1, <2>2, <2>3 DEF AcceptFails, TypeOK, result, shared
<1>5. CASE ReInit
  <2>1. Len(<<>>) <= Backlog /\ <<>> \in Seq(Reqs)
    BY EmptyOnce, ServerAssumption
  <2> QED
    BY <1>5, <2>1, FaultBound DEF ReInit, TypeOK, SocketStates, result, shared
<1> QED
  BY <1>1, <1>2, <1>3, <1>4, <1>5 DEF ServerStep, ServerFault

\* No step of a task breaks a type.
LEMMA TaskType == \A r \in Reqs : TypeOK /\ TaskStep(r) => TypeOK'
<1> SUFFICES ASSUME NEW r \in Reqs, TypeOK, TaskStep(r)
             PROVE  TypeOK'
  OBVIOUS
<1> USE DEF TypeOK, Goto, PcStates, SocketStates, server, result, shared
<1>1. CASE Receive(r)
  <2>1. faults' \in 0..MaxFaults
    BY <1>1, FaultBound DEF Receive
  <2> QED
    BY <1>1, <2>1 DEF Receive
<1>2. CASE SetMdn(r)
  BY <1>2 DEF SetMdn
<1>3. CASE MdnSet(r)
  <2>1. MdnOf[r] \in Mdns
    BY ServerAssumption
  <2> QED
    BY <1>3, <2>1 DEF MdnSet
<1>4. CASE OtherJob(r)
  BY <1>4 DEF OtherJob
<1>5. CASE MakeRow(r)
  <2>1. faults' \in 0..MaxFaults
    BY <1>5, FaultBound DEF MakeRow
  <2>2. item' \in [Reqs -> Mdns \cup {Torn, None}]
    <3>1. RowOf(r) \in Mdns \cup {Torn, None}
      BY ServerAssumption DEF RowOf, SharedMdn
    <3> QED
      BY <1>5, <3>1 DEF MakeRow
  <2> QED
    <3>1. reply' \in [Reqs -> {0, 200, 500}] /\ pc' \in [Reqs -> PcStates]
      BY <1>5 DEF MakeRow
    <3>2. /\ UNCHANGED <<listening, backlog, turn, deque, socket, stored, mdn, since>>
      BY <1>5 DEF MakeRow
    <3> QED
      BY <2>1, <2>2, <3>1, <3>2
<1>6. CASE Insert(r)
  <2>1. faults' \in 0..MaxFaults
    BY <1>6, FaultBound DEF Insert
  <2>2. stored' \in [Reqs -> BOOLEAN]
    <3>1. stored' = [stored EXCEPT ![r] = TRUE] \/ stored' = stored
      BY <1>6 DEF Insert
    <3>2. CASE stored' = [stored EXCEPT ![r] = TRUE]
      BY <3>2
    <3> QED
      BY <3>1, <3>2
  <2> QED
    BY <1>6, <2>1, <2>2 DEF Insert
<1>7. CASE Answer(r)
  <2>1. faults' \in 0..MaxFaults
    BY <1>7, FaultBound DEF Answer
  <2> QED
    BY <1>7, <2>1 DEF Answer
<1> QED
  BY <1>1, <1>2, <1>3, <1>4, <1>5, <1>6, <1>7 DEF TaskStep

\* No client, thread or failure breaks a type.
LEMMA NextType == TypeOK /\ [Next]_vars => TypeOK'
<1> SUFFICES ASSUME TypeOK, [Next]_vars
             PROVE  TypeOK'
  OBVIOUS
<1>1. ASSUME NEW r \in Reqs, Connect(r)
      PROVE  TypeOK'
  <2>1. /\ Append(backlog, r) \in Seq(Reqs)
        /\ Len(Append(backlog, r)) = Len(backlog) + 1
    BY AppendProperties DEF TypeOK
  <2>2. Len(backlog) \in Nat
    BY LenProperties DEF TypeOK
  <2> QED
    BY <1>1, <2>1, <2>2, ServerAssumption DEF Connect, TypeOK, SocketStates, result, shared
<1>2. CASE UNCHANGED vars
  BY <1>2 DEF vars, server, result, shared, TypeOK
<1> QED
  BY <1>1, <1>2, ServerType, TaskType DEF Next

\* Tasks, connections and the members of the jobs keep their types.
THEOREM TypeCorrect == Spec => []TypeOK
  BY InitType, NextType, PTL DEF Spec

-----------------------------------------------------------------------------
LEMMA InitHeld == Init => OpenIsHeld
  BY EmptyOnce DEF Init, OpenIsHeld

\* The server moves connections from the backlog to the deque, and drops a task
\* whose thread has ended.
LEMMA ServerHeld ==
    ASSUME TypeOK, OpenIsHeld, ServerStep \/ ServerFault
    PROVE  OpenIsHeld'
<1> DEFINE b == Head(backlog)
           d == Head(deque)
<1>a. ASSUME backlog # <<>>
      PROVE  /\ b \in Reqs /\ b \in Elements(backlog)
             /\ Once(Tail(backlog)) /\ Elements(Tail(backlog)) = Elements(backlog) \ {b}
  <2>1. /\ b \in Reqs
        /\ Once(Tail(backlog)) /\ Elements(Tail(backlog)) = Elements(backlog) \ {b}
    BY <1>a, TailOnce DEF TypeOK, OpenIsHeld
  <2>2. b \in Elements(backlog)
    BY <1>a, HeadElement DEF TypeOK
  <2> QED
    BY <2>1, <2>2
<1>1. CASE Accept
  <2>1. b \in Reqs /\ socket[b] = "pending" /\ pc[b] = "none"
    BY <1>1, <1>a DEF Accept, OpenIsHeld
  <2>2. Once(deque') /\ Elements(deque') = Elements(deque) \cup {b}
    <3>1. b \notin Elements(deque)
      BY <2>1 DEF OpenIsHeld
    <3> QED
      BY <1>1, <2>1, <3>1, AppendOnce DEF Accept, TypeOK, OpenIsHeld
  <2>3. Once(backlog') /\ Elements(backlog') = Elements(backlog) \ {b}
    BY <1>1, <1>a DEF Accept
  <2>4. /\ pc' = [pc EXCEPT ![b] = "receive"]
        /\ socket' = [socket EXCEPT ![b] = "open"]
    BY <1>1 DEF Accept
  <2>5. pc \in [Reqs -> PcStates] /\ socket \in [Reqs -> SocketStates]
    BY DEF TypeOK
  <2> HIDE DEF b
  <2> QED
    BY <2>1, <2>2, <2>3, <2>4, <2>5 DEF OpenIsHeld
<1>2. CASE NoClient
  BY <1>2 DEF NoClient, OpenIsHeld
<1>3. CASE Reap
  <2>1. CASE deque # <<>> /\ pc[d] = "done"
    <3>1. d \in Reqs /\ Once(deque') /\ Elements(deque') = Elements(deque) \ {d}
      <4>1. deque' = Tail(deque)
        BY <1>3, <2>1 DEF Reap
      <4>2. deque \in Seq(Reqs) /\ Once(deque)
        BY DEF TypeOK, OpenIsHeld
      <4> QED
        BY <4>1, <4>2, <2>1, TailOnce
    <3>2. socket[d] # "pending"
      BY <3>1, <2>1 DEF OpenIsHeld
    <3>3. /\ pc' = [pc EXCEPT ![d] = "none"]
          /\ socket' = [socket EXCEPT ![d] = "closed"]
          /\ backlog' = backlog
      BY <1>3, <2>1 DEF Reap
    <3>4. pc \in [Reqs -> PcStates] /\ socket \in [Reqs -> SocketStates]
      BY DEF TypeOK
    <3> HIDE DEF d
    <3> QED
      BY <3>1, <3>2, <3>3, <3>4 DEF OpenIsHeld
  <2>2. CASE ~(deque # <<>> /\ pc[d] = "done")
    BY <1>3, <2>2 DEF Reap, OpenIsHeld
  <2> QED
    BY <2>1, <2>2
<1>4. CASE AcceptFails
  <2>1. CASE UNCHANGED <<backlog, socket>>
    BY <1>4, <2>1 DEF AcceptFails, OpenIsHeld
  <2>2. CASE /\ backlog' = Tail(backlog)
             /\ socket' = [socket EXCEPT ![b] = "closed"]
    <3>1. b \in Reqs /\ Once(backlog') /\ Elements(backlog') = Elements(backlog) \ {b}
      BY <1>4, <2>2, <1>a DEF AcceptFails
    <3>2. deque' = deque /\ pc' = pc /\ socket \in [Reqs -> SocketStates]
      BY <1>4 DEF AcceptFails, TypeOK
    <3>3. socket' = [socket EXCEPT ![b] = "closed"]
      BY <2>2
    <3> HIDE DEF b
    <3> QED
      BY <3>1, <3>2, <3>3 DEF OpenIsHeld
  <2> QED
    BY <1>4, <2>1, <2>2 DEF AcceptFails
<1>5. CASE ReInit
  BY <1>5, EmptyOnce DEF ReInit, OpenIsHeld, TypeOK
<1> QED
  BY <1>1, <1>2, <1>3, <1>4, <1>5 DEF ServerStep, ServerFault

\* A task ends, or answers, with its connection in its hands.
LEMMA TaskHeld ==
    ASSUME TypeOK, OpenIsHeld, NEW r \in Reqs, TaskStep(r)
    PROVE  OpenIsHeld'
<1>1. /\ backlog' = backlog /\ deque' = deque
      /\ \E p \in PcStates \ {"none"} : pc[r] # "none" /\ pc' = [pc EXCEPT ![r] = p]
  BY DEF TaskStep, Receive, SetMdn, MdnSet, OtherJob, MakeRow, Insert, Answer,
         Goto, server, PcStates
<1>2. \/ UNCHANGED socket
      \/ \E c \in {"answered", "closed"} : socket' = [socket EXCEPT ![r] = c]
  BY DEF TaskStep, Receive, SetMdn, MdnSet, OtherJob, MakeRow, Insert, Answer
<1>3. socket[r] # "pending"
  BY <1>1 DEF OpenIsHeld
<1>4. pc \in [Reqs -> PcStates] /\ socket \in [Reqs -> SocketStates]
  BY DEF TypeOK
<1> QED
  BY <1>1, <1>2, <1>3, <1>4 DEF OpenIsHeld

\* The queues hold what the tasks and the connections say they hold.
LEMMA NextHeld == TypeOK /\ OpenIsHeld /\ [Next]_vars => OpenIsHeld'
<1> SUFFICES ASSUME TypeOK, OpenIsHeld, [Next]_vars
             PROVE  OpenIsHeld'
  OBVIOUS
<1>1. ASSUME NEW r \in Reqs, Connect(r)
      PROVE  OpenIsHeld'
  <2>1. Once(backlog') /\ Elements(backlog') = Elements(backlog) \cup {r}
    <3>1. r \notin Elements(backlog)
      BY <1>1 DEF Connect, OpenIsHeld
    <3> QED
      BY <1>1, <3>1, AppendOnce DEF Connect, OpenIsHeld, TypeOK
  <2> QED
    BY <1>1, <2>1 DEF Connect, OpenIsHeld, TypeOK
<1>2. CASE UNCHANGED vars
  BY <1>2 DEF vars, server, OpenIsHeld
<1> QED
  BY <1>1, <1>2, ServerHeld, TaskHeld DEF Next

\* A task is held, once, for as long as it or its connection is alive.
THEOREM OpenStaysHeld == Spec => []OpenIsHeld
  BY InitType, NextType, InitHeld, NextHeld, PTL DEF Spec

-----------------------------------------------------------------------------
\* What a task has made belongs to the task: nothing is there before Do.
NothingYet ==
    \A r \in Reqs :
        /\ pc[r] \notin {"insert", "answer"} => item[r] = None
        /\ pc[r] # "answer" => ~stored[r] /\ reply[r] = 0

\* While a request writes mdn_ it is alone or the result is a mixture; while a
\* request is about to read it, what is there was written since it wrote itself.
MdnFresh ==
    /\ \A r \in Reqs : pc[r] = "set" => mdn \in {r, Torn} /\ r \in since[r]
    /\ mdn \in Reqs => pc[mdn] = "set"
    /\ \A r \in Subscribers : pc[r] = "row" =>
          \/ mdn = Torn
          \/ mdn \in Reqs /\ mdn \in since[r]
          \/ \E q \in since[r] : mdn = MdnOf[q]

MdnInv == NothingYet /\ ErrorMeansNothingDone /\ MdnFresh /\ NoStaleMdn

LEMMA InitMdn == Init => MdnInv
  BY ServerAssumption
     DEF Init, MdnInv, NothingYet, ErrorMeansNothingDone, MdnFresh, NoStaleMdn

\* The server gives a connection a new task and forgets one that has ended: no
\* task is written, and none is near mdn_.
LEMMA ServerMdn ==
    ASSUME TypeOK, OpenIsHeld, MdnInv, ServerStep \/ ServerFault
    PROVE  MdnInv'
<1>1. /\ UNCHANGED <<item, stored, reply, mdn, since>>
      /\ \A r \in Reqs : pc'[r] # pc[r] => /\ pc[r] \in {"none", "done"}
                                           /\ pc'[r] \in {"none", "receive"}
  <2>1. CASE Accept
    <3>1. backlog # <<>> /\ Head(backlog) \in Reqs /\ pc[Head(backlog)] = "none"
      BY <2>1, Heads, HeadElement DEF Accept, OpenIsHeld, TypeOK
    <3> QED
      BY <2>1, <3>1 DEF Accept, result, shared, TypeOK
  <2>2. CASE Reap
    BY <2>2 DEF Reap, result, shared, TypeOK
  <2>3. CASE NoClient \/ AcceptFails \/ ReInit
    BY <2>3 DEF NoClient, AcceptFails, ReInit, result, shared
  <2> QED
    BY <2>1, <2>2, <2>3 DEF ServerStep, ServerFault
<1> QED
  BY <1>1, ServerAssumption
     DEF MdnInv, NothingYet, ErrorMeansNothingDone, MdnFresh, NoStaleMdn

\* A task leaves nothing behind, and tells 500 only before it has stored a row.
LEMMA TaskNothing ==
    ASSUME TypeOK, NothingYet, ErrorMeansNothingDone, NEW r \in Reqs, TaskStep(r)
    PROVE  NothingYet' /\ ErrorMeansNothingDone'
<1> USE DEF TypeOK, NothingYet, ErrorMeansNothingDone, Goto, result
<1>1. CASE Receive(r) \/ SetMdn(r) \/ MdnSet(r)
  BY <1>1 DEF Receive, SetMdn, MdnSet
<1>2. CASE OtherJob(r)
  BY <1>2 DEF OtherJob
<1>3. CASE MakeRow(r)
  <2>1. CASE pc' = [pc EXCEPT ![r] = "insert"]
    <3>1. /\ UNCHANGED <<stored, reply>> /\ pc[r] = "row"
          /\ item' = [item EXCEPT ![r] = RowOf(r)]
      BY <1>3, <2>1 DEF MakeRow
    <3> QED
      BY <2>1, <3>1
  <2>2. CASE pc' = [pc EXCEPT ![r] = "answer"]
    <3>1. /\ UNCHANGED <<stored, item>> /\ pc[r] = "row"
          /\ reply' = [reply EXCEPT ![r] = 500]
      BY <1>3, <2>2 DEF MakeRow
    <3> QED
      BY <2>2, <3>1
  <2> QED
    BY <1>3, <2>1, <2>2 DEF MakeRow
<1>4. CASE Insert(r)
  BY <1>4 DEF Insert
<1>5. CASE Answer(r)
  BY <1>5 DEF Answer
<1> QED
  BY <1>1, <1>2, <1>3, <1>4, <1>5 DEF TaskStep

\* The task's writes of mdn_ are counted in since, and its reads find them.
LEMMA TaskFresh ==
    ASSUME TypeOK, MdnInv, NEW r \in Reqs, TaskStep(r)
    PROVE  MdnFresh' /\ NoStaleMdn'
<1>a. /\ Subscribers \subseteq Reqs /\ Torn \notin Reqs /\ None \notin Reqs
      /\ \A q \in Reqs : MdnOf[q] \in Mdns /\ MdnOf[q] \notin Reqs
  BY ServerAssumption
<1>0. CASE Receive(r)
  <2>1. /\ pc[r] = "receive" /\ UNCHANGED <<item, mdn, since>>
        /\ pc' = [pc EXCEPT ![r] = "get"] \/ pc' = [pc EXCEPT ![r] = "done"]
    BY <1>0 DEF Receive, Goto, result, shared
  <2> QED
    BY <2>1, <1>a DEF TypeOK, MdnInv, NothingYet, MdnFresh, NoStaleMdn
<1>1. CASE OtherJob(r) \/ Insert(r)
  BY <1>1, <1>a DEF OtherJob, Insert, TypeOK, MdnInv, NothingYet, MdnFresh,
                    NoStaleMdn, Goto, result, shared
<1>2. CASE SetMdn(r)
  <2>1. /\ pc[r] = "get" /\ pc' = [pc EXCEPT ![r] = "set"] /\ item' = item
        /\ r \in Subscribers
        /\ mdn' = IF \E q \in Reqs : pc[q] = "set" THEN Torn ELSE r
    BY <1>2 DEF SetMdn, Goto, result
  <2>2. \A q \in Reqs : /\ since[q] \subseteq since'[q] \/ q = r
                        /\ q = r => since'[q] = {r}
                        /\ q # r /\ q \in Subscribers /\ pc[q] \in {"set", "row"}
                             => r \in since'[q]
    BY <1>2 DEF SetMdn, TypeOK
  <2>3. item[r] = None
    BY <2>1 DEF MdnInv, NothingYet
  <2>4. MdnFresh'
    <3>1. \A q \in Reqs : pc'[q] = "set" => mdn' \in {q, Torn} /\ q \in since'[q]
      BY <2>1, <2>2 DEF TypeOK, MdnInv, MdnFresh
    <3>2. mdn' \in Reqs => pc'[mdn'] = "set"
      BY <2>1, <1>a DEF TypeOK
    <3>3. ASSUME NEW q \in Subscribers, pc'[q] = "row"
          PROVE  mdn' = Torn \/ (mdn' \in Reqs /\ mdn' \in since'[q])
      BY <2>1, <2>2, <3>3, <1>a DEF TypeOK
    <3> QED
      BY <3>1, <3>2, <3>3 DEF MdnFresh
  <2>5. NoStaleMdn'
    BY <2>1, <2>2, <2>3, <1>a DEF MdnInv, NoStaleMdn
  <2> QED
    BY <2>4, <2>5
<1>3. CASE MdnSet(r)
  <2>1. /\ pc[r] = "set" /\ pc' = [pc EXCEPT ![r] = "row"]
        /\ item' = item /\ since' = since
        /\ mdn' = IF mdn = r THEN MdnOf[r] ELSE Torn
        /\ pc \in [Reqs -> PcStates]
    BY <1>3 DEF MdnSet, Goto, result, TypeOK
  <2>2. r \in since[r]
    BY <2>1 DEF MdnInv, MdnFresh
  <2>3. \A q \in Reqs : pc[q] = "set" /\ q # r => mdn # r
    BY <1>a DEF MdnInv, MdnFresh
  <2>4. ASSUME NEW q \in Subscribers, pc'[q] = "row", mdn = r
        PROVE  r \in since[q]
    <3>1. since[q] \subseteq Reqs
      BY <1>a DEF TypeOK
    <3>2. CASE q = r
      BY <3>2, <2>2
    <3>3. CASE q # r
      BY <3>1, <3>3, <2>1, <2>4, <1>a DEF MdnInv, MdnFresh
    <3> QED
      BY <3>2, <3>3
  <2>5. \A q \in Reqs : pc'[q] = "set" => mdn' = Torn /\ q \in since'[q]
    BY <2>1, <2>3 DEF MdnInv, MdnFresh
  <2>6. mdn' \notin Reqs
    BY <2>1, <1>a
  <2>7. \A q \in Subscribers : pc'[q] = "row" =>
          mdn' = Torn \/ \E x \in since'[q] : mdn' = MdnOf[x]
    BY <2>1, <2>4
  <2>8. MdnFresh'
    BY <2>5, <2>6, <2>7 DEF MdnFresh
  <2> QED
    BY <2>1, <2>8 DEF MdnInv, NoStaleMdn
<1>4. CASE MakeRow(r)
  <2>1. /\ pc[r] = "row" /\ mdn' = mdn /\ since' = since
        /\ \E p \in {"insert", "answer"} : pc' = [pc EXCEPT ![r] = p]
        /\ \/ item' = item
           \/ item' = [item EXCEPT ![r] = RowOf(r)]
    BY <1>4 DEF MakeRow, Goto, shared
  <2>2. MdnFresh'
    BY <2>1, <1>a DEF MdnInv, MdnFresh, TypeOK
  <2>3. r \in Subscribers =>
          mdn = Torn \/ mdn \in Reqs \/ \E x \in since[r] : mdn = MdnOf[x]
    BY <2>1 DEF MdnInv, MdnFresh
  <2>4. NoStaleMdn'
    <3> SUFFICES ASSUME NEW q \in Subscribers, item'[q] # None
                 PROVE  item'[q] = Torn \/ \E x \in since'[q] : item'[q] = MdnOf[x]
      BY DEF NoStaleMdn
    <3>1. CASE item'[q] = item[q]
      BY <3>1, <2>1 DEF MdnInv, NoStaleMdn
    <3>2. CASE item'[q] # item[q]
      <4>1. q = r /\ item'[r] = SharedMdn
        BY <3>2, <2>1, <1>a DEF TypeOK, RowOf
      <4> QED
        BY <4>1, <2>1, <2>3 DEF SharedMdn
    <3> QED
      BY <3>1, <3>2
  <2> QED
    BY <2>2, <2>4
<1>5. CASE Answer(r)
  BY <1>5, <1>a DEF Answer, TypeOK, MdnInv, NothingYet, MdnFresh, NoStaleMdn, Goto
<1> QED
  BY <1>0, <1>1, <1>2, <1>3, <1>4, <1>5 DEF TaskStep

LEMMA NextMdn == TypeOK /\ OpenIsHeld /\ MdnInv /\ [Next]_vars => MdnInv'
<1> SUFFICES ASSUME TypeOK, OpenIsHeld, MdnInv, [Next]_vars
             PROVE  MdnInv'
  OBVIOUS
<1>1. ASSUME NEW r \in Reqs, Connect(r)
      PROVE  MdnInv'
  BY <1>1 DEF Connect, result, shared, MdnInv, NothingYet, ErrorMeansNothingDone,
              MdnFresh, NoStaleMdn
<1>2. ASSUME NEW r \in Reqs, TaskStep(r)
      PROVE  MdnInv'
  BY <1>2, TaskNothing, TaskFresh DEF MdnInv
<1>3. CASE UNCHANGED vars
  BY <1>3 DEF vars, result, shared, MdnInv, NothingYet, ErrorMeansNothingDone,
              MdnFresh, NoStaleMdn
<1> QED
  BY <1>1, <1>2, <1>3, ServerMdn DEF Next

LEMMA MdnInvariant == Spec => []MdnInv
  BY InitType, NextType, InitHeld, NextHeld, InitMdn, NextMdn, PTL DEF Spec

\* A row is never made of a number that is older than the request.
THEOREM MdnNeverStale == Spec => []NoStaleMdn
  BY MdnInvariant, PTL DEF MdnInv

\* Who is told 500 has stored nothing.
THEOREM ErrorLeavesNothing == Spec => []ErrorMeansNothingDone
  BY MdnInvariant, PTL DEF MdnInv

-----------------------------------------------------------------------------
(***************************************************************************)
(* When a request that is answered 200 has notified.                        *)
(***************************************************************************)
\* A row that is to be inserted has a number, and so has that of a subscriber job
\* that is answered 200, which is in the table unless something has failed.
RowMade ==
    \A r \in Reqs :
        /\ pc[r] = "insert" => item[r] # None
        /\ pc[r] = "answer" /\ r \in Subscribers /\ reply[r] = 200 =>
              item[r] # None /\ (stored[r] \/ faults # 0)

\* A request is answered 200 with its own number in the table, or a mixture, if no
\* other has begun to write mdn_ between its own SetMdn and its row, and no
\* statement has failed: the one thing that EachNotified asks for beyond this is
\* what the shared mdn_ breaks.
NotifiedUnlessCrossed ==
    \A r \in Subscribers :
        pc[r] = "answer" /\ reply[r] = 200 /\ since[r] = {r} /\ faults = 0 =>
            stored[r] /\ item[r] \in {MdnOf[r], Torn}

\* Failures stay counted.
LEMMA FaultsStay == TypeOK /\ (Fault \/ NoFault) /\ faults # 0 => faults' # 0
  BY ServerAssumption DEF TypeOK, Fault, NoFault

\* The server's own steps touch no task that has made a row.
LEMMA ServerRow ==
    ASSUME TypeOK, OpenIsHeld, RowMade, ServerStep \/ ServerFault
    PROVE  RowMade'
<1>1. /\ UNCHANGED <<item, stored, reply>> /\ (Fault \/ NoFault)
      /\ \A r \in Reqs : pc'[r] # pc[r] => pc'[r] \in {"none", "receive"}
  <2>1. CASE Accept
    <3>1. Head(backlog) \in Reqs
      BY <2>1, Heads DEF Accept, TypeOK
    <3> QED
      BY <2>1, <3>1 DEF Accept, result, NoFault, TypeOK
  <2>2. CASE Reap
    BY <2>2 DEF Reap, result, NoFault, TypeOK
  <2>3. CASE NoClient \/ AcceptFails \/ ReInit
    BY <2>3 DEF NoClient, AcceptFails, ReInit, result, NoFault
  <2> QED
    BY <2>1, <2>2, <2>3 DEF ServerStep, ServerFault
<1> QED
  BY <1>1, FaultsStay DEF RowMade

\* What a task makes its row of is a number (Do, Execute).
LEMMA TaskRow ==
    ASSUME TypeOK, MdnInv, RowMade, NEW r \in Reqs, TaskStep(r)
    PROVE  RowMade'
<1> USE DEF TypeOK, Goto, result, RowMade
<1>a. faults # 0 => faults' # 0
  BY FaultsStay DEF TaskStep, Receive, SetMdn, MdnSet, OtherJob, MakeRow, Insert, Answer, NoFault
<1>1. CASE Receive(r) \/ SetMdn(r) \/ MdnSet(r)
  BY <1>1, <1>a DEF Receive, SetMdn, MdnSet
<1>2. CASE OtherJob(r)
  BY <1>2, <1>a DEF OtherJob
<1>3. CASE MakeRow(r)
  <2>1. CASE item' = [item EXCEPT ![r] = RowOf(r)] /\ pc' = [pc EXCEPT ![r] = "insert"]
    <3>1. pc[r] = "row" /\ UNCHANGED <<stored, reply>>
      BY <1>3, <2>1 DEF MakeRow
    <3>2. RowOf(r) # None
      BY <3>1, ServerAssumption DEF RowOf, SharedMdn, MdnInv, MdnFresh
    <3> QED
      BY <1>a, <2>1, <3>1, <3>2
  <2>2. CASE reply' = [reply EXCEPT ![r] = 500] /\ pc' = [pc EXCEPT ![r] = "answer"]
    <3>1. UNCHANGED <<stored, item>>
      BY <1>3, <2>2 DEF MakeRow
    <3> QED
      BY <1>a, <2>2, <3>1
  <2> QED
    BY <1>3, <2>1, <2>2 DEF MakeRow
<1>4. CASE Insert(r)
  <2>1. /\ pc[r] = "insert" /\ pc' = [pc EXCEPT ![r] = "answer"] /\ item' = item
        /\ reply' = [reply EXCEPT ![r] = 200]
        /\ stored' = [stored EXCEPT ![r] = TRUE] \/ (stored' = stored /\ Fault)
    BY <1>4 DEF Insert
  <2>2. Fault => faults' # 0
    BY DEF Fault
  <2> QED
    BY <1>a, <2>1, <2>2
<1>5. CASE Answer(r)
  BY <1>5, <1>a DEF Answer
<1> QED
  BY <1>1, <1>2, <1>3, <1>4, <1>5 DEF TaskStep

\* Each step keeps the rows made.
LEMMA NextRow == TypeOK /\ OpenIsHeld /\ MdnInv /\ RowMade /\ [Next]_vars => RowMade'
<1> SUFFICES ASSUME TypeOK, OpenIsHeld, MdnInv, RowMade, [Next]_vars PROVE RowMade'
  OBVIOUS
<1>1. ASSUME NEW r \in Reqs, Connect(r) PROVE RowMade'
  BY <1>1 DEF Connect, result, RowMade
<1>2. CASE UNCHANGED vars
  BY <1>2 DEF vars, result, RowMade
<1> QED
  BY <1>1, <1>2, ServerRow, TaskRow DEF Next

\* A request whose SetMdn, row and answer are not crossed by another's SetMdn
\* notifies of its own number (EGWJobFactory::GetJob, SubscriberJob::Do).
THEOREM LoneRequestNotifies == Spec => []NotifiedUnlessCrossed
<1>1. Init => RowMade
  <2> SUFFICES ASSUME Init, NEW r \in Reqs PROVE pc[r] = "none"
    BY DEF RowMade
  <2> QED
    BY DEF Init
<1>2. TypeOK /\ OpenIsHeld /\ MdnInv /\ RowMade /\ [Next]_vars => RowMade'
  BY NextRow
<1>3. RowMade /\ MdnInv => NotifiedUnlessCrossed
  BY ServerAssumption DEF RowMade, MdnInv, NoStaleMdn, NotifiedUnlessCrossed
<1> QED
  BY <1>1, <1>2, <1>3, TypeCorrect, OpenStaysHeld, MdnInvariant, PTL DEF Spec
-----------------------------------------------------------------------------
(***************************************************************************)
(* JobServer implements RequestReply.                                       *)
(***************************************************************************)
\* A request that is to be stored has been there itself since it began to write
\* mdn_, and a job that does not share mdn_ has the number of its own body.
OwnNumber ==
    \A r \in Reqs :
        /\ r \in Subscribers /\ pc[r] \in {"set", "row", "insert"} => r \in since[r]
        /\ r \notin Subscribers => item[r] \in {None, MdnOf[r]}

\* What the refinement of a step rests on.
ServiceInv == TypeOK /\ OpenIsHeld /\ MdnInv /\ RowMade /\ OwnNumber

Phases == [r \in Reqs |-> Phase(r)]
Met == [r \in Reqs |-> IF r \in Subscribers THEN since[r] ELSE {}]
RowIn == [r \in Reqs |-> IF stored[r] THEN item[r] ELSE None]

\* The variables of RequestReply, by the names they have here.
LEMMA ServiceVars ==
    /\ Service!vars = <<backlog, Phases, Met, RowIn, reply>>
    /\ Service!vars' = <<backlog', Phases', Met', RowIn', reply'>>
  BY DEF Service!vars, Phases, Met, RowIn

\* Where a request is depends on its own task and connection only.
LEMMA PhaseMoves ==
    ASSUME TypeOK, TypeOK', NEW r \in Reqs,
           \A q \in Reqs \ {r} : pc'[q] = pc[q] /\ socket'[q] = socket[q]
    PROVE  Phases' = [Phases EXCEPT ![r] = Phase(r)']
<1>1. \A q \in Reqs \ {r} : Phase(q)' = Phase(q)
  BY DEF Phase
<1> QED
  BY <1>1 DEF Phases

\* The server's steps take the first that waits, send away some that wait, and
\* forget a request that is over.
LEMMA ServerServes ==
    ASSUME ServiceInv, TypeOK', ServerStep \/ ServerFault
    PROVE  [Service!Next]_(Service!vars)
<1> USE DEF ServiceInv
<1>1. UNCHANGED <<Met, RowIn, reply>>
  BY DEF ServerStep, ServerFault, Accept, NoClient, Reap, AcceptFails, ReInit,
         result, shared, Met, RowIn
<1>2. \A r \in Reqs : /\ socket[r] = "pending" <=> Phases[r] = "waiting"
                      /\ socket[r] = "pending" => pc[r] = "none"
                      /\ pc[r] = "done" => Phases[r] = "over"
  BY DEF OpenIsHeld, Phases, Phase
<1>3. backlog # <<>> => /\ Head(backlog) \in Reqs /\ pc[Head(backlog)] = "none"
                        /\ socket[Head(backlog)] = "pending"
  BY Heads, HeadElement DEF OpenIsHeld, TypeOK
<1>4. CASE Accept
  <2> PICK r \in Reqs : r = Head(backlog)
    BY <1>3, <1>4 DEF Accept
  <2>1. /\ backlog # <<>> /\ backlog' = Tail(backlog)
        /\ pc' = [pc EXCEPT ![r] = "receive"]
        /\ socket' = [socket EXCEPT ![r] = "open"]
    BY <1>4 DEF Accept
  <2>2. Phases' = [Phases EXCEPT ![r] = Phase(r)'] /\ Phase(r)' = "working"
    BY <1>3, <2>1, PhaseMoves DEF TypeOK, Phase
  <2>3. Service!Take
    BY <1>1, <1>2, <1>3, <2>1, <2>2
       DEF Service!Take, Service!Move, Phases, Met, RowIn
  <2> QED
    BY <2>3 DEF Service!Next
<1>5. CASE Reap
  <2>1. CASE deque # <<>> /\ pc[Head(deque)] = "done"
    <3> PICK r \in Reqs : r = Head(deque)
      BY <2>1, Heads DEF TypeOK
    <3>1. /\ pc[r] = "done" /\ backlog' = backlog
          /\ pc' = [pc EXCEPT ![r] = "none"]
          /\ socket' = [socket EXCEPT ![r] = "closed"]
      BY <1>5, <2>1 DEF Reap
    <3>2. Phases' = [Phases EXCEPT ![r] = Phase(r)'] /\ Phase(r)' = "away"
      BY <3>1, PhaseMoves DEF TypeOK, Phase
    <3>3. Service!Leave(r)
      BY <1>1, <1>2, <3>1, <3>2 DEF Service!Leave, Service!Move, Phases, Met, RowIn
    <3> QED
      BY <3>1, <3>3 DEF Service!Next
  <2>2. CASE ~(deque # <<>> /\ pc[Head(deque)] = "done")
    <3>1. UNCHANGED <<backlog, pc, socket>>
      BY <1>5, <2>2 DEF Reap
    <3>2. UNCHANGED Phases
      BY <3>1 DEF Phases, Phase
    <3> QED
      BY <1>1, <3>1, <3>2, ServiceVars
  <2> QED
    BY <2>1, <2>2
<1>6. CASE UNCHANGED <<backlog, pc, socket>>
  <2>1. UNCHANGED Phases
    BY <1>6 DEF Phases, Phase
  <2> QED
    BY <1>1, <1>6, <2>1, ServiceVars
<1>7. CASE AcceptFails
  <2> PICK r \in Reqs : r = Head(backlog)
    BY <1>3, <1>7 DEF AcceptFails
  <2>1. CASE /\ backlog' = Tail(backlog)
             /\ socket' = [socket EXCEPT ![r] = "closed"]
    <3>1. backlog # <<>> /\ pc' = pc
      BY <1>7 DEF AcceptFails
    <3>2. Phases' = [Phases EXCEPT ![r] = Phase(r)'] /\ Phase(r)' = "away"
      BY <1>3, <2>1, <3>1, PhaseMoves DEF TypeOK, Phase
    <3>3. Service!TurnAway
      BY <1>1, <1>2, <1>3, <2>1, <3>1, <3>2
         DEF Service!TurnAway, Service!Move, Phases, Met, RowIn
    <3> QED
      BY <3>3 DEF Service!Next
  <2> QED
    BY <1>6, <1>7, <2>1 DEF AcceptFails
<1>8. CASE ReInit
  <2>1. /\ backlog' = <<>> /\ pc' = pc
        /\ socket' = [q \in Reqs |-> IF socket[q] = "pending" THEN "closed" ELSE socket[q]]
    BY <1>8 DEF ReInit
  <2>2. Phases' = [q \in Reqs |-> IF Phases[q] = "waiting" THEN "away" ELSE Phases[q]]
    <3>1. ASSUME NEW q \in Reqs
          PROVE  Phase(q)' = IF Phases[q] = "waiting" THEN "away" ELSE Phases[q]
      BY <1>2, <2>1 DEF Phases, Phase
    <3> QED
      BY <3>1 DEF Phases
  <2>3. CASE backlog # <<>>
    <3>1. Service!TurnAway
      BY <1>1, <2>1, <2>2, <2>3 DEF Service!TurnAway, Phases, Met, RowIn
    <3> QED
      BY <3>1 DEF Service!Next
  <2>4. CASE backlog = <<>>
    <3>1. \A q \in Reqs : socket[q] # "pending"
      BY <2>4 DEF OpenIsHeld, Elements
    <3>2. UNCHANGED socket
      BY <2>1, <3>1 DEF TypeOK
    <3> QED
      BY <1>6, <2>1, <2>4, <3>2
  <2> QED
    BY <2>3, <2>4
<1> QED
  BY <1>4, <1>5, <1>6, <1>7, <1>8 DEF ServerStep, ServerFault, NoClient

\* A step of a task, as its client sees it: nothing, a decision, or the end.
LEMMA TaskServes ==
    ASSUME ServiceInv, TypeOK', NEW r \in Reqs, TaskStep(r)
    PROVE  [Service!Next]_(Service!vars)
<1> USE DEF ServiceInv
<1>1. /\ pc[r] # "none" /\ backlog' = backlog
      /\ pc' = [pc EXCEPT ![r] = pc'[r]]
      /\ \A q \in Reqs \ {r} : pc'[q] = pc[q] /\ socket'[q] = socket[q]
  BY DEF TaskStep, Receive, SetMdn, MdnSet, OtherJob, MakeRow, Insert, Answer, Goto,
         server, TypeOK
<1>2. socket[r] # "pending" /\ socket'[r] # "pending"
  <2>1. socket[r] # "pending"
    BY <1>1 DEF OpenIsHeld
  <2> QED
    BY <2>1 DEF TaskStep, Receive, SetMdn, MdnSet, OtherJob, MakeRow, Insert, Answer, TypeOK
<1>3. Phases' = [Phases EXCEPT ![r] = Phase(r)']
  BY <1>1, PhaseMoves
<1>4. /\ pc[r] \in {"receive", "get", "set", "row", "insert"} => Phases[r] = "working"
      /\ pc[r] = "answer" => Phases[r] = "decided"
  BY <1>2 DEF Phases, Phase
<1>5. /\ pc'[r] \in {"receive", "get", "set", "row", "insert"} => Phase(r)' = "working"
      /\ pc'[r] = "answer" => Phase(r)' = "decided"
      /\ pc'[r] = "done" => Phase(r)' = "over"
  BY <1>2 DEF Phase
<1>6. /\ pc[r] # "answer" => RowIn[r] = None
      /\ RowIn = [RowIn EXCEPT ![r] = RowIn[r]]
      /\ Phases = [Phases EXCEPT ![r] = Phases[r]]
  <2>1. pc[r] # "answer" => RowIn[r] = None
    BY DEF MdnInv, NothingYet, RowIn
  <2>2. RowIn = [RowIn EXCEPT ![r] = RowIn[r]]
    BY DEF RowIn
  <2>3. Phases = [Phases EXCEPT ![r] = Phases[r]]
    BY DEF Phases
  <2> QED
    BY <2>1, <2>2, <2>3
<1>7. CASE /\ pc[r] \in {"receive", "get", "set", "row"}
           /\ pc'[r] \in {"get", "set", "row", "insert"}
           /\ UNCHANGED <<Met, RowIn, reply>>
  <2>1. UNCHANGED Phases
    BY <1>3, <1>4, <1>5, <1>6, <1>7
  <2> QED
    BY <1>1, <1>7, <2>1, ServiceVars
<1>8. CASE /\ pc[r] \in {"get", "row", "insert"} /\ pc'[r] = "answer"
           /\ UNCHANGED Met
           /\ \/ /\ \E n \in Service!Numbers(r) \cup {None} :
                       RowIn' = [RowIn EXCEPT ![r] = n]
                 /\ reply' = [reply EXCEPT ![r] = 200]
              \/ reply' = [reply EXCEPT ![r] = 500] /\ UNCHANGED RowIn
  <2>1. Phases[r] = "working" /\ Phases' = [Phases EXCEPT ![r] = "decided"]
    BY <1>3, <1>4, <1>5, <1>8
  <2>2. Service!Decide(r)
    BY <1>1, <1>8, <2>1 DEF Service!Decide, Service!Move, Phases, Met, RowIn
  <2> QED
    BY <2>2 DEF Service!Next
<1>9. CASE Receive(r)
  <2>1. UNCHANGED <<Met, RowIn, reply>>
    BY <1>9 DEF Receive, result, shared, Met, RowIn
  <2>2. CASE pc'[r] = "get"
    BY <1>7, <1>9, <2>1, <2>2 DEF Receive, Goto
  <2>3. CASE pc'[r] = "done"
    <3>1. Phases[r] = "working" /\ Phases' = [Phases EXCEPT ![r] = "over"]
      BY <1>3, <1>4, <1>5, <1>9, <2>3 DEF Receive, Goto
    <3>2. Service!GiveUp(r)
      BY <1>1, <2>1, <3>1 DEF Service!GiveUp, Service!Move, Phases, Met, RowIn
    <3> QED
      BY <3>2 DEF Service!Next
  <2> QED
    BY <1>9, <2>2, <2>3 DEF Receive, Goto, TypeOK
<1>10. CASE MdnSet(r)
  <2>1. UNCHANGED <<Met, RowIn, reply>>
    BY <1>10 DEF MdnSet, result, Met, RowIn
  <2> QED
    BY <1>7, <1>10, <2>1 DEF MdnSet, Goto, TypeOK
<1>11. CASE SetMdn(r)
  <2> PICK S \in SUBSET Reqs : S = {q \in Subscribers : q # r /\ pc[q] \in {"set", "row"}}
    BY ServerAssumption
  <2>1. /\ pc[r] = "get" /\ pc'[r] = "set" /\ r \in Subscribers
        /\ UNCHANGED <<RowIn, reply>>
    BY <1>11 DEF SetMdn, Goto, result, RowIn, TypeOK
  <2>2. Subscribers \subseteq Reqs
    BY ServerAssumption
  <2>3. UNCHANGED Phases
    BY <1>3, <1>4, <1>5, <1>6, <2>1
  <2>4. \A q \in S \cup {r} : Phases[q] = "working"
    BY <1>4, <2>1, <2>2 DEF OpenIsHeld, Phases, Phase
  <2>5. Met' = [q \in Reqs |-> IF q = r THEN {r}
                               ELSE IF q \in S THEN Met[q] \cup {r} ELSE Met[q]]
    BY <1>11, <2>1, <2>2 DEF SetMdn, Met
  <2>6. Service!Meet(r, S)
    BY <1>1, <2>1, <2>3, <2>4, <2>5 DEF Service!Meet, Phases, Met, RowIn
  <2> QED
    BY <2>6 DEF Service!Next
<1>12. CASE OtherJob(r)
  <2>1. UNCHANGED <<Met, RowIn>>
    BY <1>12 DEF OtherJob, shared, Met, RowIn
  <2>2. CASE pc'[r] = "row" /\ UNCHANGED reply
    BY <1>7, <1>12, <2>1, <2>2 DEF OtherJob, Goto
  <2>3. CASE pc'[r] = "answer" /\ reply' = [reply EXCEPT ![r] = 200]
    <3>1. pc[r] = "get" /\ RowIn' = [RowIn EXCEPT ![r] = None]
      BY <1>6, <1>12, <2>1 DEF OtherJob, Goto
    <3>2. \E n \in Service!Numbers(r) \cup {None} : RowIn' = [RowIn EXCEPT ![r] = n]
      BY <3>1
    <3> QED
      BY <1>8, <2>1, <2>3, <3>1, <3>2
  <2> QED
    BY <1>12, <2>2, <2>3 DEF OtherJob, Goto, TypeOK
<1>13. CASE MakeRow(r)
  <2>1. pc[r] = "row" /\ stored[r] = FALSE /\ UNCHANGED <<Met, stored>>
    BY <1>13 DEF MakeRow, Goto, shared, Met, MdnInv, NothingYet, TypeOK
  <2>2. UNCHANGED RowIn
    <3>1. \A q \in Reqs \ {r} : item'[q] = item[q]
      BY <1>13 DEF MakeRow, TypeOK
    <3> QED
      BY <2>1, <3>1 DEF RowIn
  <2>3. CASE pc'[r] = "insert" /\ UNCHANGED reply
    BY <1>7, <2>1, <2>2, <2>3
  <2>4. CASE pc'[r] = "answer" /\ reply' = [reply EXCEPT ![r] = 500]
    BY <1>8, <2>1, <2>2, <2>4
  <2> QED
    BY <1>13, <2>3, <2>4 DEF MakeRow, Goto, TypeOK
<1>14. CASE Insert(r)
  <2>1. /\ pc[r] = "insert" /\ pc'[r] = "answer" /\ UNCHANGED <<item, Met>>
        /\ reply' = [reply EXCEPT ![r] = 200]
        /\ stored' = [stored EXCEPT ![r] = TRUE] \/ stored' = stored
    BY <1>14 DEF Insert, Goto, shared, Met, TypeOK
  <2>2. item[r] \in Service!Numbers(r)
    <3>1. item[r] # None
      BY <2>1 DEF RowMade
    <3>2. CASE r \in Subscribers
      <4>1. /\ r \in since[r] /\ Met[r] = since[r]
            /\ item[r] = Torn \/ \E q \in since[r] : item[r] = MdnOf[q]
        BY <2>1, <3>1, <3>2 DEF OwnNumber, MdnInv, NoStaleMdn, Met
      <4> QED
        BY <4>1 DEF Service!Numbers, Met
    <3>3. CASE r \notin Subscribers
      BY <3>1, <3>3 DEF OwnNumber, Service!Numbers
    <3> QED
      BY <3>2, <3>3
  <2>3. RowIn' = [RowIn EXCEPT ![r] = item[r]] \/ RowIn' = [RowIn EXCEPT ![r] = None]
    <3>1. CASE stored' = [stored EXCEPT ![r] = TRUE]
      <4>1. \A q \in Reqs : q # r => item'[q] = item[q] /\ stored'[q] = stored[q]
        BY <2>1, <3>1 DEF TypeOK
      <4>2. stored'[r] /\ item'[r] = item[r]
        BY <2>1, <3>1 DEF TypeOK
      <4> QED
        BY <4>1, <4>2 DEF RowIn
    <3>2. CASE stored' = stored
      <4>1. UNCHANGED RowIn
        BY <2>1, <3>2 DEF RowIn
      <4> QED
        BY <1>6, <2>1, <4>1
    <3> QED
      BY <2>1, <3>1, <3>2
  <2> QED
    BY <1>8, <2>1, <2>2, <2>3
<1>15. CASE Answer(r)
  <2>1. /\ pc[r] = "answer" /\ pc'[r] = "done"
        /\ reply' = [reply EXCEPT ![r] = 0]
        /\ item' = [item EXCEPT ![r] = None] /\ stored' = [stored EXCEPT ![r] = FALSE]
        /\ since' = [since EXCEPT ![r] = {}]
    BY <1>15 DEF Answer, Goto, TypeOK
  <2>2. RowIn' = [RowIn EXCEPT ![r] = None] /\ Met' = [Met EXCEPT ![r] = {}]
    <3>1. \A q \in Reqs : q # r => /\ item'[q] = item[q] /\ stored'[q] = stored[q]
                                   /\ since'[q] = since[q]
      BY <2>1 DEF TypeOK
    <3>2. ~stored'[r] /\ since'[r] = {}
      BY <2>1 DEF TypeOK
    <3>3. RowIn' = [RowIn EXCEPT ![r] = None]
      BY <3>1, <3>2 DEF RowIn
    <3>4. Met' = [Met EXCEPT ![r] = {}]
      BY <3>1, <3>2 DEF Met
    <3> QED
      BY <3>3, <3>4
  <2>3. Phases[r] = "decided" /\ Phases' = [Phases EXCEPT ![r] = "over"]
    BY <1>3, <1>4, <1>5, <2>1
  <2>4. Service!Reply(r)
    BY <1>1, <2>1, <2>2, <2>3 DEF Service!Reply, Service!Move, Phases, Met, RowIn
  <2> QED
    BY <2>4 DEF Service!Next
<1> QED
  BY <1>9, <1>10, <1>11, <1>12, <1>13, <1>14, <1>15 DEF TaskStep

\* Each step keeps a job's own number apart from mdn_.
LEMMA NextOwn == ServiceInv /\ [Next]_vars => OwnNumber'
<1> SUFFICES ASSUME ServiceInv, [Next]_vars PROVE OwnNumber'
  OBVIOUS
<1> USE DEF ServiceInv
<1>1. CASE ServerStep \/ ServerFault
  <2>1. CASE Accept
    <3>1. Head(backlog) \in Reqs
      BY <2>1, Heads DEF Accept, TypeOK
    <3> QED
      BY <2>1, <3>1 DEF Accept, result, shared, TypeOK, OwnNumber
  <2>2. CASE Reap
    BY <2>2 DEF Reap, result, shared, TypeOK, OwnNumber
  <2>3. CASE NoClient \/ AcceptFails \/ ReInit
    BY <2>3 DEF NoClient, AcceptFails, ReInit, result, shared, OwnNumber
  <2> QED
    BY <1>1, <2>1, <2>2, <2>3 DEF ServerStep, ServerFault
<1>2. ASSUME NEW r \in Reqs, Connect(r) PROVE OwnNumber'
  BY <1>2 DEF Connect, result, shared, OwnNumber
<1>3. ASSUME NEW r \in Reqs, TaskStep(r) PROVE OwnNumber'
  <2> USE DEF Goto, TypeOK, OwnNumber, result, shared
  <2>1. CASE Receive(r) \/ OtherJob(r) \/ Insert(r)
    BY <2>1 DEF Receive, OtherJob, Insert
  <2>2. CASE SetMdn(r) \/ MdnSet(r)
    BY <2>2, ServerAssumption DEF SetMdn, MdnSet
  <2>3. CASE MakeRow(r)
    BY <2>3 DEF MakeRow, RowOf
  <2>4. CASE Answer(r)
    BY <2>4 DEF Answer
  <2> QED
    BY <1>3, <2>1, <2>2, <2>3, <2>4 DEF TaskStep
<1>4. CASE UNCHANGED vars
  BY <1>4 DEF vars, result, shared, OwnNumber
<1> QED
  BY <1>1, <1>2, <1>3, <1>4 DEF Next

\* A connection that comes goes last.
LEMMA ConnectServes ==
    ASSUME ServiceInv, TypeOK', NEW r \in Reqs, Connect(r)
    PROVE  [Service!Next]_(Service!vars)
<1>1. /\ pc[r] = "none" /\ socket[r] = "closed" /\ pc' = pc
      /\ socket' = [socket EXCEPT ![r] = "pending"]
      /\ Len(backlog) < Backlog /\ backlog' = Append(backlog, r)
      /\ UNCHANGED <<Met, RowIn, reply>>
  BY DEF Connect, result, shared, Met, RowIn
<1>2. /\ Phases[r] = "away" /\ Phase(r)' = "waiting"
      /\ Phases' = [Phases EXCEPT ![r] = Phase(r)']
  BY <1>1, PhaseMoves DEF ServiceInv, TypeOK, Phases, Phase
<1>3. Service!Come(r)
  BY <1>1, <1>2 DEF Service!Come, Service!Move, Phases, Met, RowIn
<1> QED
  BY <1>3 DEF Service!Next

\* EmsGWServer, its tasks and the job they share serve each request by itself, in
\* the order in which they come, decide it once and refuse it only without a row
\* (EmsGWServer::run, EGWHttpTask, EGWJobFactory::GetJob).
THEOREM ImplementsRequestReply == Spec => ServesEachOnce
<1>1. Init => OwnNumber /\ RowMade
  BY DEF Init, OwnNumber, RowMade
<1>2. TypeOK /\ OpenIsHeld /\ MdnInv /\ RowMade /\ [Next]_vars => RowMade'
  BY NextRow
<1>3. Init => Service!Init
  BY DEF Init, Service!Init, Phase
<1>4. ServiceInv /\ TypeOK' /\ [Next]_vars => [Service!Next]_(Service!vars)
  <2> SUFFICES ASSUME ServiceInv, TypeOK', [Next]_vars
               PROVE  [Service!Next]_(Service!vars)
    OBVIOUS
  <2>1. CASE UNCHANGED vars
    <3>1. UNCHANGED <<backlog, Phases, Met, RowIn, reply>>
      BY <2>1 DEF vars, server, result, shared, Phases, Phase, Met, RowIn
    <3> QED
      BY <3>1, ServiceVars
  <2> QED
    BY <2>1, ServerServes, TaskServes, ConnectServes DEF Next
<1> QED
  BY <1>1, <1>2, <1>3, <1>4, NextOwn, TypeCorrect, OpenStaysHeld, MdnInvariant, PTL
     DEF Spec, ServiceInv, ServesEachOnce, Service!Spec
=============================================================================
