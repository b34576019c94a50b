----------------------------- MODULE EmsGWMain -----------------------------
(***************************************************************************)
(* The process: AppRun makes its workers one after the other, starts their   *)
(* threads, turns on the databases of the CLI, and then takes commands, ends *)
(* when a thread has ended, and switches the active database.  It returns at *)
(* the first failure.  Its workers are destroyed in the reverse order, and   *)
(* each destructor waits for its thread.                                     *)
(*                                                                          *)
(* The server's destructor waits for its requests first: it empties the      *)
(* queue while the server's thread may still accept, then tells the thread   *)
(* to stop, and the jobs are gone before a request that came in between is.   *)
(* A request runs before it is in the queue, so it may have come before the  *)
(* queue was found empty, and be put into it afterwards.                     *)
(*                                                                          *)
(* Of netconf it is assumed that IsChanged() goes on answering that there is *)
(* a change until LoadConfig() has loaded it: neither the question nor a      *)
(* LoadConfig that fails takes the mark away.                                *)
(***************************************************************************)
EXTENDS PdbSwitch

CONSTANTS
    Order,      \* this host's workers in the order they are made
    MaxFaults   \* failed saves and loads, kills and an operator's edits, at most

ASSUME OrderAssumption ==
    /\ Order \in Seq({"server", "pdbReporter", "sliceDnnWorker", "externalReporter"})
    /\ Len(Order) > 1 /\ Order[1] = "server" /\ Order[2] = "pdbReporter"
    /\ \A i, j \in DOMAIN Order : Order[i] = Order[j] => i = j
    /\ MaxFaults \in Nat

VARIABLES
    pc,         \* where the main thread is
    at,         \* the worker it is at
    told,       \* bRunf_ of EmsGWMain is false, as long as AppRun asks
    thread,     \* of each worker
    stopped,    \* workers whose bRunf_ is false
    accepting,  \* the server's thread is in the body of its loop
    made,       \* the request whose thread runs and that is not in the queue yet
    jobs,       \* jobFactory_: "none", "live" or "gone"
    late,       \* history: requests that were not in the queue when the
                \* destructor of EmsGWServer had emptied it, or came later
    faults

main == <<pc, at, told>>
life == <<thread, stopped, accepting, made, jobs, late>>
vars == <<switch, main, life, faults>>

Workers == {Order[i] : i \in DOMAIN Order}
Loop == {"command", "watch"}
Fault == faults < MaxFaults /\ faults' = faults + 1

Init ==
    /\ SwitchInit
    /\ pc = "off" /\ at = 0 /\ told = FALSE
    /\ thread = [w \in Workers |-> "none"] /\ stopped = {} /\ accepting = FALSE
    /\ made = {} /\ jobs = "none" /\ late = {} /\ faults = 0

-----------------------------------------------------------------------------
\* There is no process.
Off ==
    /\ pc' = "off" /\ at' = 0 /\ told' = FALSE
    /\ thread' = [w \in Workers |-> "none"] /\ stopped' = {} /\ accepting' = FALSE
    /\ made' = {} /\ jobs' = "none" /\ late' = {}
    /\ SwitchGone

\* The process is started.
Begin ==
    /\ pc = "off" /\ pc' = "config"
    /\ UNCHANGED <<switch, at, told, life, faults>>

\* return 0, with the workers up to n made.
Return(n) ==
    /\ pc' = "leave" /\ at' = n
    /\ UNCHANGED <<switch, told, life>>

\* AppRun up to the first switch.
Configure ==
    /\ pc = "config"
    /\ \/ SwitchActive /\ pc' = "init" /\ at' = 1 /\ UNCHANGED <<told, life>>
       \/ Return(0)
    /\ UNCHANGED faults

\* Init of a worker; that of the server makes the jobs, which takes two steps.
InitWorker ==
    /\ pc = "init"
    /\ \/ at = 1 /\ LoadInfo /\ pc' = "append" /\ UNCHANGED <<at, told, life>>
       \/ /\ at > 1
          /\ IF at = Len(Order) THEN pc' = "run" /\ at' = 1 ELSE pc' = "init" /\ at' = at + 1
          /\ UNCHANGED <<switch, told, life>>
       \/ Return(at)
    /\ UNCHANGED faults

\* Variation: the server's thread is started as soon as there are jobs.
InitJobsAndRun ==
    /\ pc = "append"
    /\ \/ /\ AppendInfo /\ jobs' = "live" /\ pc' = "init" /\ at' = 2
          /\ thread' = [thread EXCEPT !["server"] = "run"]
          /\ UNCHANGED <<told, stopped, accepting, made, late>>
       \/ AppendInfo /\ pc' = "leave" /\ UNCHANGED <<at, told, life>>
       \/ Return(1)
    /\ UNCHANGED faults

InitJobs ==
    /\ pc = "append"
    /\ \/ /\ AppendInfo /\ jobs' = "live" /\ pc' = "init" /\ at' = 2
          /\ UNCHANGED <<told, thread, stopped, accepting, made, late>>
       \/ AppendInfo /\ pc' = "leave" /\ UNCHANGED <<at, told, life>>
       \/ Return(1)
    /\ UNCHANGED faults

\* ThreadBase::Run of each worker.
RunWorker ==
    /\ pc = "run"
    /\ thread' = [thread EXCEPT ![Order[at]] = "run"]
    /\ IF at = Len(Order) THEN pc' = "turnOn" /\ UNCHANGED at ELSE pc' = "run" /\ at' = at + 1
    /\ UNCHANGED <<switch, told, stopped, accepting, made, jobs, late, faults>>

\* CliPdbWorker.TurnOn of four databases.
TurnOn ==
    /\ pc = "turnOn"
    /\ \/ pc' = "command" /\ UNCHANGED <<switch, at, told, life>>
       \/ Return(Len(Order))
    /\ UNCHANGED faults

-----------------------------------------------------------------------------
\* The loop goes on there.
GoOn(where) ==
    /\ pc' = where
    /\ UNCHANGED <<at, thread, stopped, accepting, made, jobs, late>>

\* The loop ends, and AppRun with it: Stop of the server and the reporter.
StopWorkers ==
    /\ stopped' = stopped \cup {"server", "pdbReporter"}
    /\ pc' = "leave" /\ at' = Len(Order) /\ told' = FALSE
    /\ UNCHANGED <<thread, accepting, made, jobs, late>>

\* doCommand: a stop, another command or none; or it fails.
Command ==
    /\ pc = "command"
    /\ \/ told' \in BOOLEAN /\ GoOn("watch")
       \/ StopWorkers
    /\ UNCHANGED <<switch, faults>>

\* Variation: only the server is asked whether it runs.
ServerHasEnded == thread["server"] = "over"

\* IsRun of each worker: one says no.
OneHasEnded == \E w \in Workers : thread[w] = "over"

\* The loop is left because of that.
Supervise ==
    /\ pc = "watch" /\ OneHasEnded
    /\ StopWorkers
    /\ UNCHANGED <<switch, faults>>

\* Variation: a configuration that cannot be loaded is not looked at again.
PollOnce ==
    /\ pc = "watch" /\ ~OneHasEnded
    /\ \/ changed /\ SwitchActive /\ UNCHANGED faults
       \/ /\ changed /\ Fault
          /\ changed' = FALSE /\ UNCHANGED <<stored, mem, active, job, entry, strayed>>
       \/ ~changed /\ UNCHANGED <<switch, faults>>
    /\ IF told THEN StopWorkers ELSE GoOn("command") /\ UNCHANGED told

\* IsChanged, LoadConfig, which may fail and then leaves the change to be found
\* again, and SwitchActiveDB; then bRunf_ is asked.
Poll ==
    /\ pc = "watch" /\ ~OneHasEnded
    /\ \/ changed /\ SwitchActive /\ UNCHANGED faults
       \/ changed /\ Fault /\ UNCHANGED switch
       \/ ~changed /\ UNCHANGED <<switch, faults>>
    /\ IF told THEN StopWorkers ELSE GoOn("command") /\ UNCHANGED told

-----------------------------------------------------------------------------
\* AppFinal.
Leave ==
    /\ pc = "leave" /\ at = 0
    /\ Off /\ UNCHANGED faults

\* Variation: the requests are left to the queue's own destructor.
DestroyAtOnce ==
    /\ pc = "leave"
    /\ at > 0
    /\ pc' = "join" /\ stopped' = stopped \cup {Order[at]}
    /\ UNCHANGED <<switch, at, told, thread, accepting, made, jobs, late, faults>>

\* The destructor of a worker begins; the last one is that of the server.
Destroy ==
    /\ pc = "leave"
    /\ \/ at = 1 /\ pc' = "empty" /\ UNCHANGED stopped
       \/ at > 1 /\ pc' = "join" /\ stopped' = stopped \cup {Order[at]}
    /\ UNCHANGED <<switch, at, told, thread, accepting, made, jobs, late, faults>>

\* ~EmsGWServer waits for one request of the queue after the other, until there
\* is none in it.
EmptyQueue ==
    /\ pc = "empty"
    /\ \/ /\ \E r \in Requests \ made : job[r] = "over" /\ Goto(r, "none")
          /\ UNCHANGED <<stored, mem, active, changed, entry, strayed, pc, stopped, late>>
       \/ /\ \A r \in Requests \ made : job[r] = "none"
          /\ pc' = "join" /\ stopped' = stopped \cup {"server"}
          /\ late' = late \cup made
          /\ UNCHANGED switch
    /\ UNCHANGED <<at, told, thread, accepting, made, jobs, faults>>

\* ThreadBase::join; the members of the server are then destroyed, jobFactory_,
\* and the copy of the configuration with it, before deque_.
Join ==
    /\ pc = "join" /\ thread[Order[at]] # "run"
    /\ \/ at = 1 /\ pc' = "members" /\ jobs' = "gone" /\ CopyGone /\ UNCHANGED at
       \/ at > 1 /\ pc' = "leave" /\ at' = at - 1 /\ UNCHANGED <<jobs, switch>>
    /\ UNCHANGED <<told, thread, stopped, accepting, made, late, faults>>

DestroyQueue ==
    /\ pc = "members" /\ \A r \in Requests : job[r] \in {"none", "over"}
    /\ job' = [r \in Requests |-> "none"]
    /\ pc' = "leave" /\ at' = 0
    /\ UNCHANGED <<stored, mem, active, changed, entry, strayed, told, life, faults>>

MainStep ==
    \/ Configure \/ InitWorker \/ InitJobs \/ RunWorker \/ TurnOn
    \/ Command \/ Supervise \/ Poll
    \/ Leave \/ Destroy \/ EmptyQueue \/ Join \/ DestroyQueue

-----------------------------------------------------------------------------
\* EmsGWServer::run: a turn begins.
Turn ==
    /\ thread["server"] = "run" /\ ~accepting /\ "server" \notin stopped
    /\ accepting' = TRUE
    /\ UNCHANGED <<switch, main, thread, stopped, made, jobs, late, faults>>

\* makeTask: a request has come, and its thread is started.
Accept(r) ==
    /\ accepting /\ made = {} /\ job[r] = "none"
    /\ Goto(r, "come")
    /\ made' = {r}
    /\ late' = IF pc = "join" /\ at = 1 THEN late \cup {r} ELSE late
    /\ UNCHANGED <<stored, mem, active, changed, entry, strayed>>
    /\ UNCHANGED <<main, thread, stopped, accepting, jobs, faults>>

\* The request at the front of the queue is looked at: it runs, or is over and
\* taken from the queue.
LookAtFront ==
    \/ UNCHANGED switch
    \/ /\ \E r \in Requests : job[r] = "over" /\ Goto(r, "none")
       /\ UNCHANGED <<stored, mem, active, changed, entry, strayed>>

\* The request is put into the queue, after Run has slept for 30 ms.
Enqueue ==
    /\ made # {} /\ made' = {} /\ accepting' = FALSE
    /\ LookAtFront
    /\ UNCHANGED <<main, thread, stopped, jobs, late, faults>>

\* Nobody has come.
NoClient ==
    /\ accepting /\ made = {} /\ accepting' = FALSE
    /\ LookAtFront
    /\ UNCHANGED <<main, thread, stopped, made, jobs, late, faults>>

\* A worker's thread ends because it has been told to.
ThreadEnds(w) ==
    /\ thread[w] = "run" /\ w \in stopped /\ (w = "server" => ~accepting)
    /\ thread' = [thread EXCEPT ![w] = "over"]
    /\ UNCHANGED <<switch, main, stopped, accepting, made, jobs, late, faults>>

\* It ends by itself, which the server's does not.
ThreadFails(w) ==
    /\ thread[w] = "run" /\ w # "server"
    /\ thread' = [thread EXCEPT ![w] = "over"]
    /\ UNCHANGED <<switch, main, stopped, accepting, made, jobs, late, faults>>

\* A request goes on.  What it does with jobs that are gone is not defined: here
\* it ends without an effect, or the process is killed.
Request(r) ==
    /\ \/ jobs = "live" /\ JobStep(r) /\ UNCHANGED faults
       \/ jobs = "live" /\ SaveFails(r) /\ Fault
       \/ /\ jobs = "gone" /\ job[r] \in {"come", "assign", "insert", "save"}
          /\ Goto(r, "over") /\ entry' = [entry EXCEPT ![r] = 0]
          /\ UNCHANGED <<stored, mem, active, changed, strayed, faults>>
    /\ UNCHANGED <<main, life>>

\* The operator edits the configuration.
Operator ==
    /\ Edit /\ Fault
    /\ UNCHANGED <<main, life>>

\* The process is killed.
Kill == pc # "off" /\ Fault /\ Off

Next ==
    \/ Begin \/ MainStep \/ Turn \/ Enqueue \/ NoClient \/ Operator \/ Kill
    \/ \E r \in Requests : Accept(r) \/ Request(r)
    \/ \E w \in Workers : ThreadEnds(w) \/ ThreadFails(w)

Spec == Init /\ [][Next]_vars

\* Fairness: threads go on, and one that has been told to stop ends.
FairSpec ==
    /\ Spec
    /\ WF_vars(MainStep)
    /\ WF_vars(Turn \/ Enqueue \/ NoClient \/ \E r \in Requests : Accept(r))
    /\ \A r \in Requests : WF_vars(Request(r))
    /\ \A w \in Workers : WF_vars(ThreadEnds(w))

-----------------------------------------------------------------------------
\* Types of the state; and no thread is started before all workers are made, so
\* that one that cannot be made ends the process without a thread to wait for.
TypeOK ==
    /\ SwitchType
    /\ pc \in {"off", "config", "init", "append", "run", "turnOn", "leave",
               "empty", "join", "members"} \cup Loop
    /\ at \in 0..Len(Order)
    /\ told \in BOOLEAN
    /\ thread \in [Workers -> {"none", "run", "over"}]
    /\ pc \in {"off", "config", "init", "append"} => thread = [w \in Workers |-> "none"]
    /\ stopped \subseteq Workers
    /\ accepting \in BOOLEAN
    /\ made \subseteq Requests
    /\ jobs \in {"none", "live", "gone"}
    /\ late \subseteq Requests
    /\ faults \in 0..MaxFaults

\* No thread and no request outlives what it works with: when AppRun has returned
\* no thread is left, and a request that finds the jobs gone was not in the queue
\* when the destructor of EmsGWServer had emptied it: it had been accepted and not
\* been put into it, or came later.
NoneOutlives ==
    /\ pc = "leave" /\ at = 0 => \A w \in Workers : thread[w] # "run"
    /\ jobs # "live" => \A r \in Requests \ late : job[r] \in {"none", "over"}

\* What the configuration says comes to be active, however it got there: by
\* AppendInfo, by a request, by an operator, or while the process was off.
ActiveFollows ==
    <>[](pc \in Loop) /\ <>[][FALSE]_stored => <>[](active = stored)

\* The process has to end, and nothing takes that back: it has been told to stop,
\* one of its threads has ended, or AppRun has returned, and was to stop its
\* server or has none that serves.
Due ==
    \/ pc \in Loop /\ (told \/ \E w \in Workers : thread[w] = "over")
    \/ pc \in {"leave", "empty", "join", "members"}
         /\ (thread["server"] # "run" \/ "server" \in stopped)

\* A process that has to end does so, though clients go on asking: one that has
\* been told to stop, one of whose threads has ended, and one that could not be
\* started, unless its server already serves.
EndsWhenDue == []<>~Due
=============================================================================
