------------------------------ MODULE JobServer ------------------------------
(***************************************************************************)
(* EmsGWServer and its tasks.  One thread accepts connections, gives each    *)
(* to a task (a thread of its own, EGWHttpTask), keeps the tasks in a deque  *)
(* and drops the task at the front once its thread has ended; only then is   *)
(* the connection closed, and only then does a client that was given no      *)
(* length know that the answer is complete.  A task reads one request, lets  *)
(* a job of EGWJobFactory do it and answers.                                 *)
(*                                                                          *)
(* The jobs are members of the factory, so all tasks share them:             *)
(* SubscriberJob keeps the MDN of a request in mdn_ between GetJob and Do.   *)
(* An MDN fits the string's own buffer, so two threads at it at once tear    *)
(* its digits but nothing else.  The jobs modelled are those that put a row  *)
(* in a table for the PCF; every other job is a request that stores nothing. *)
(* That the server is told to stop is not modelled here.                     *)
(***************************************************************************)
EXTENDS Naturals, Sequences

CONSTANTS
    Reqs,         \* clients, each with at most one request under way
    Subscribers,  \* those that ask for a subscriber job; the rest, for others
    Mdns,         \* subscribers' numbers
    MdnOf,        \* the number each request is about
    Torn,         \* a mixture of the digits of two numbers
    None,         \* no number yet
    Backlog,      \* connections the kernel keeps for a listening socket
    MaxFaults     \* system calls, statements and clients that fail, at most

ASSUME ServerAssumption ==
    /\ Subscribers \subseteq Reqs
    /\ MdnOf \in [Reqs -> Mdns]
    /\ Torn \notin Mdns /\ None \notin Mdns /\ Torn # None
    /\ Reqs \cap (Mdns \cup {Torn, None}) = {}
    /\ Backlog \in Nat \ {0}
    /\ MaxFaults \in Nat

\* The server thread.
VARIABLES
    listening,    \* fd_ >= 0
    backlog,      \* the connections that wait to be accepted
    turn,         \* the half of the loop the thread is in
    deque         \* the tasks

\* Each request: its task and connection, and what became of it.
VARIABLES
    pc,           \* what the task does next, "none" when there is no task
    socket,       \* the connection as the client sees it, "closed" before the first
    item,         \* the number its row is made of, while the task lives
    stored,       \* the row is in the table
    reply         \* the status code of resp, 0 before Do has returned

VARIABLES
    mdn,          \* SubscriberJob::mdn_, or the request that is writing it alone
    since,        \* history: the requests that wrote mdn_ since each subscriber's began to
    faults

server == <<listening, backlog, turn, deque>>
result == <<item, stored, reply>>
shared == <<mdn, since>>
vars == <<server, pc, socket, result, shared, faults>>

PcStates == {"none", "receive", "get", "set", "row", "insert", "answer", "done"}
SocketStates == {"pending", "open", "answered", "closed"}

Elements(s) == {s[i] : i \in DOMAIN s}

Fault == faults < MaxFaults /\ faults' = faults + 1
NoFault == UNCHANGED faults

Init ==
    /\ listening = TRUE /\ backlog = <<>> /\ turn = "accept" /\ deque = <<>>
    /\ pc = [r \in Reqs |-> "none"] /\ socket = [r \in Reqs |-> "closed"]
    /\ item = [r \in Reqs |-> None] /\ stored = [r \in Reqs |-> FALSE]
    /\ reply = [r \in Reqs |-> 0]
    /\ mdn = None /\ since = [r \in Reqs |-> {}]
    /\ faults = 0

-----------------------------------------------------------------------------
\* Variation: the kernel keeps one connection more.
ConnectOneMore(r) ==
    /\ listening /\ Len(backlog) <= Backlog
    /\ pc[r] = "none" /\ socket[r] = "closed"
    /\ backlog' = Append(backlog, r)
    /\ socket' = [socket EXCEPT ![r] = "pending"]
    /\ UNCHANGED <<listening, turn, deque, pc, result, shared, faults>>

\* A client connects, when its last task is gone and there is room for it.
Connect(r) ==
    /\ listening /\ Len(backlog) < Backlog
    /\ pc[r] = "none" /\ socket[r] = "closed"
    /\ backlog' = Append(backlog, r)
    /\ socket' = [socket EXCEPT ![r] = "pending"]
    /\ UNCHANGED <<listening, turn, deque, pc, result, shared, faults>>

\* GetNewClient returns a connection; makeTask starts a task, which goes last.  It
\* runs for 30 ms before it is in the deque, which only this thread looks at; what
\* that means for the destructor is said in EmsGWMain.
Accept ==
    /\ turn = "accept" /\ listening /\ backlog # <<>>
    /\ LET r == Head(backlog) IN
         /\ deque' = Append(deque, r)
         /\ pc' = [pc EXCEPT ![r] = "receive"]
         /\ socket' = [socket EXCEPT ![r] = "open"]
    /\ backlog' = Tail(backlog)
    /\ turn' = "reap"
    /\ UNCHANGED <<listening, result, shared, faults>>

\* Variation: without a client the loop starts again at once.
NoClientContinues ==
    /\ turn = "accept" /\ (listening => backlog = <<>>)
    /\ UNCHANGED vars

\* GetNewClient returns nothing: nobody came, or there is no socket to poll.
NoClient ==
    /\ turn = "accept" /\ (listening => backlog = <<>>)
    /\ turn' = "reap"
    /\ UNCHANGED <<listening, backlog, deque, pc, socket, result, shared, faults>>

\* accept() fails.  For want of a descriptor the connection stays where it is;
\* when addrlen, which nothing initialises, is negative, the kernel drops it.
AcceptFails ==
    /\ turn = "accept" /\ listening /\ backlog # <<>> /\ Fault
    /\ \/ UNCHANGED <<backlog, socket>>
       \/ /\ backlog' = Tail(backlog)
          /\ socket' = [socket EXCEPT ![Head(backlog)] = "closed"]
    /\ turn' = "reap"
    /\ UNCHANGED <<listening, deque, pc, result, shared>>

\* poll() fails and reInit() takes a new socket, if it can; a connection that
\* waited is reset.  Without a socket nothing ever calls Init() again.
ReInit ==
    /\ turn = "accept" /\ listening /\ Fault
    /\ listening' \in BOOLEAN
    /\ backlog' = <<>>
    /\ socket' = [r \in Reqs |-> IF socket[r] = "pending" THEN "closed" ELSE socket[r]]
    /\ turn' = "reap"
    /\ UNCHANGED <<deque, pc, result, shared>>

\* Variation: the task at the front leaves whatever it is doing.
ReapUnchecked ==
    /\ turn = "reap"
    /\ IF deque # <<>> /\ pc[Head(deque)] # "receive"
       THEN /\ deque' = Tail(deque)
            /\ socket' = [socket EXCEPT ![Head(deque)] = "closed"]
       ELSE UNCHANGED <<deque, socket>>
    /\ turn' = "accept"
    /\ UNCHANGED <<listening, backlog, pc, result, shared, faults>>

\* The task at the front leaves if IsRun is false; its connection goes with it.
Reap ==
    /\ turn = "reap"
    /\ IF deque # <<>> /\ pc[Head(deque)] = "done"
       THEN /\ deque' = Tail(deque)
            /\ pc' = [pc EXCEPT ![Head(deque)] = "none"]
            /\ socket' = [socket EXCEPT ![Head(deque)] = "closed"]
       ELSE UNCHANGED <<deque, pc, socket>>
    /\ turn' = "accept"
    /\ UNCHANGED <<listening, backlog, result, shared, faults>>

ServerStep == Accept \/ NoClient \/ Reap
ServerFault == AcceptFails \/ ReInit

-----------------------------------------------------------------------------
\* The task of r goes from one of its steps to another.
Goto(r, from, to) == pc[r] = from /\ pc' = [pc EXCEPT ![r] = to]

\* HttpRequest::Receive: the request is complete, or 100 ms pass without a byte.
\* When they pass at the end of the request line nobody notices, and the request
\* goes on without headers and body: here that is no failure, and OtherJob says
\* what comes of a body that is not there.
Receive(r) ==
    /\ \/ Goto(r, "receive", "get") /\ NoFault /\ UNCHANGED socket
       \/ /\ Goto(r, "receive", "done") /\ Fault
          /\ socket' = [socket EXCEPT ![r] = "closed"]
    /\ UNCHANGED <<server, result, shared>>

\* Variation: the job that already has a number keeps it.
SetMdnOnce(r) ==
    /\ r \in Subscribers
    /\ Goto(r, "get", IF mdn = None THEN "set" ELSE "row")
    /\ mdn' = IF mdn = None THEN r ELSE mdn
    /\ since' = [since EXCEPT ![r] = {r}]
    /\ UNCHANGED <<server, socket, result, faults>>

\* GetJob finds the subscriber job, and SetMdn starts to write.  (A path without a
\* number makes getWords throw, here and in OtherJob, which ends the process.)
SetMdn(r) ==
    /\ r \in Subscribers
    /\ Goto(r, "get", "set")
    /\ mdn' = IF \E q \in Reqs : pc[q] = "set" THEN Torn ELSE r
    /\ since' = [q \in Reqs |-> IF q = r THEN {r}
                                ELSE IF q \in Subscribers /\ pc[q] \in {"set", "row"}
                                     THEN since[q] \cup {r} ELSE since[q]]
    /\ UNCHANGED <<server, socket, result, faults>>

\* SetMdn returns.  A write that another one has crossed leaves a mixture (that
\* one of the two prevails is what happens when they do not cross).
MdnSet(r) ==
    /\ Goto(r, "set", "row")
    /\ mdn' = IF mdn = r THEN MdnOf[r] ELSE Torn
    /\ UNCHANGED <<server, socket, result, since, faults>>

\* Variation: the thread ends where there is nothing to store.
OtherJobSilent(r) ==
    /\ r \notin Subscribers
    /\ \/ Goto(r, "get", "row") \/ Goto(r, "get", "done")
    /\ UNCHANGED <<server, socket, result, shared, faults>>

\* GetJob finds another job: one that inserts a row made from the request's own
\* body, or one that stores nothing, a body that is not understood included.  The
\* smPolicyId_ of the session jobs is written like mdn_, but no job reads it.
OtherJob(r) ==
    /\ r \notin Subscribers
    /\ \/ Goto(r, "get", "row") /\ UNCHANGED reply
       \/ Goto(r, "get", "answer") /\ reply' = [reply EXCEPT ![r] = 200]
    /\ UNCHANGED <<server, socket, item, stored, shared, faults>>

\* SubscriberJob makes its row of mdn_ as it is now, the others of the body.
SharedMdn == IF mdn \in Reqs THEN Torn ELSE mdn
RowOf(r) == IF r \in Subscribers THEN SharedMdn ELSE MdnOf[r]

\* Do binds the statement and makes the row, or fails and the answer is 500.
MakeRow(r) ==
    /\ \/ /\ Goto(r, "row", "insert") /\ NoFault
          /\ item' = [item EXCEPT ![r] = RowOf(r)]
          /\ UNCHANGED reply
       \/ /\ Goto(r, "row", "answer") /\ Fault
          /\ reply' = [reply EXCEPT ![r] = 500]
          /\ UNCHANGED item
    /\ UNCHANGED <<server, socket, stored, shared>>

\* Variation: the result of Execute is taken the wrong way round.
InsertInverted(r) ==
    /\ Goto(r, "insert", "answer")
    /\ \/ stored' = [stored EXCEPT ![r] = TRUE] /\ NoFault
          /\ reply' = [reply EXCEPT ![r] = 500]
       \/ Fault /\ reply' = [reply EXCEPT ![r] = 200] /\ UNCHANGED stored
    /\ UNCHANGED <<server, socket, item, shared>>

\* Execute inserts the row.  That it fails is logged, and the answer is 200.
Insert(r) ==
    /\ Goto(r, "insert", "answer")
    /\ \/ stored' = [stored EXCEPT ![r] = TRUE] /\ NoFault
       \/ UNCHANGED stored /\ Fault
    /\ reply' = [reply EXCEPT ![r] = 200]
    /\ UNCHANGED <<server, socket, item, shared>>

\* The answer is sent, unless the client is gone, and the thread ends with all
\* that is its own (the row, if there is one, stays).
Answer(r) ==
    /\ Goto(r, "answer", "done")
    /\ \/ socket' = [socket EXCEPT ![r] = "answered"] /\ NoFault
       \/ UNCHANGED socket /\ Fault
    /\ item' = [item EXCEPT ![r] = None]
    /\ stored' = [stored EXCEPT ![r] = FALSE]
    /\ reply' = [reply EXCEPT ![r] = 0]
    /\ since' = [since EXCEPT ![r] = {}]
    /\ UNCHANGED <<server, mdn>>

TaskStep(r) ==
    \/ Receive(r) \/ SetMdn(r) \/ MdnSet(r) \/ OtherJob(r)
    \/ MakeRow(r) \/ Insert(r) \/ Answer(r)

Next == ServerStep \/ ServerFault \/ \E r \in Reqs : Connect(r) \/ TaskStep(r)

Spec == Init /\ [][Next]_vars

\* The threads run; nobody has to connect.
FairSpec == Spec /\ WF_vars(ServerStep) /\ \A r \in Reqs : WF_vars(TaskStep(r))
-----------------------------------------------------------------------------
TypeOK ==
    /\ listening \in BOOLEAN
    /\ backlog \in Seq(Reqs) /\ Len(backlog) <= Backlog
    /\ turn \in {"accept", "reap"}
    /\ deque \in Seq(Reqs)
    /\ pc \in [Reqs -> PcStates]
    /\ socket \in [Reqs -> SocketStates]
    /\ item \in [Reqs -> Mdns \cup {Torn, None}]
    /\ stored \in [Reqs -> BOOLEAN]
    /\ reply \in [Reqs -> {0, 200, 500}]
    /\ mdn \in Mdns \cup {Torn, None} \cup Reqs
    /\ since \in [Reqs -> SUBSET Reqs]
    /\ faults \in 0..MaxFaults

Once(s) == \A i, j \in DOMAIN s : s[i] = s[j] => i = j

\* A task is in the deque, once, from Accept for as long as its thread runs or its
\* connection is open, so that dropping it never waits for a thread and never closes a
\* connection that is in use; a connection waits in the backlog until it has one.
OpenIsHeld ==
    /\ Once(deque) /\ Elements(deque) = {r \in Reqs : pc[r] # "none"}
    /\ Once(backlog) /\ Elements(backlog) = {r \in Reqs : socket[r] = "pending"}
    /\ \A r \in Reqs : /\ socket[r] \in {"open", "answered"} => pc[r] # "none"
                      /\ socket[r] = "pending" => pc[r] = "none"

\* Although requests share mdn_, a row is never made of a number that was there
\* before its request began to write: the number is that of a request that wrote
\* it since, or a mixture (SubscriberJob::Do after EGWJobFactory::GetJob).
NoStaleMdn ==
    \A r \in Subscribers : item[r] # None =>
        item[r] = Torn \/ \E q \in since[r] : item[r] = MdnOf[q]

\* A client that is told 500 may ask again: its request has left no row.
ErrorMeansNothingDone == \A r \in Reqs : reply[r] = 500 => ~stored[r]

\* The server as its clients see it.
Phase(r) ==
    CASE socket[r] = "pending"                               -> "waiting"
      [] pc[r] \in {"receive", "get", "set", "row", "insert"} -> "working"
      [] pc[r] = "answer"                                    -> "decided"
      [] pc[r] = "done"                                      -> "over"
      [] OTHER                                               -> "away"

Service == INSTANCE RequestReply
              WITH Room  <- Backlog,
                   queue <- backlog,
                   phase <- [r \in Reqs |-> Phase(r)],
                   met   <- [r \in Reqs |-> IF r \in Subscribers THEN since[r] ELSE {}],
                   row   <- [r \in Reqs |-> IF stored[r] THEN item[r] ELSE None],
                   code  <- reply

\* Accepting, reaping, the tasks and the job they share amount to serving each
\* request by itself, first come, first served: it is decided once, refused only
\* if it has left no row, and a foreign number in its row is that of a request
\* worked on at the same time.
ServesEachOnce == Service!Spec

\* While nothing fails each request is answered, whatever the others are doing.
Answered ==
    \A r \in Reqs :
        socket[r] = "pending" ~> (socket[r] = "answered" \/ faults # 0)

\* Each connection is closed in the end, which is how a client learns that its
\* answer is complete: a task that has ended does not stay behind others, or
\* because no other client comes; through all faults.
EveryConnectionCloses == \A r \in Reqs : []<>(socket[r] = "closed")

\* PUT /emsgateway/subscriber/<MDN>/create notifies of that MDN (the comment at
\* GetJob): a request that is answered 200 has its number in the table, or
\* at worst one that a crossing write has mixed up.
EachNotified ==
    \A r \in Subscribers :
        pc[r] = "answer" /\ reply[r] = 200 =>
            stored[r] /\ item[r] \in {MdnOf[r], Torn}
=============================================================================
