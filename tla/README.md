# A verification project for EMSGateWay

EMSGateWay (`EMS_GW`) runs on the hosts of a mobile core network node, between
the element management system and the processes of the node.  It is one C++
process made of a main thread and several worker threads that talk to an SQL
database, to a netconf configuration store, to other processes by UDP, and to
HTTP peers.  This directory holds TLA+ models of the parts that carry its own
logic, TLC configurations that check them on small instances, and proofs,
checked by TLAPS, that hold for every value of the constants.

`PROJECT.json` says for every definition which lines of the source it
translates, for every run what it checks, for every property which plausible
bug breaks it, and for every hazard which property watches it.

## 1. The system

### Inventory

| Component | State it keeps | Operations | Meets | Module |
|---|---|---|---|---|
| Session counting of the LB hosts (`SliceDnnWorker::runLB`, `DB_*SQL`) | two timers, `nMaster_`, the list of the pass; the row of `T_SLICE_DNN_WORK`; CNT and RESTRICTION in `T_NSMF_SESSION_INFO` | claim and check the lease, select the rows in use, count their sessions, write count and flag, refresh the lease | the other LBs, through the row; MPs, through RESTRICTION; PCF, which writes `T_PCF_BINDING_INFO` | `SliceDnnMaster`, `ExclusiveMaster`, `SessionCount` |
| Restriction list of an MP (`SliceDnnWorker::runMP`, `RestrictSet`, `FileMonitor`, `NetconfSliceDnn`) | the set last written, `lastModifyT_`, the file, RUNNING and STARTUP | query, compare, write the file, watch it, edit netconf | the LBs through the table, SMP through netconf and the file | `RestrictSync`, `RestrictionControl` |
| Database connection table (`PdbReporter`, `PdbStatusSQL`) | `mapItems_`, `lastResetT_`, `alarmGuardT_`; `T_PCF_PDB_STATUS` | receive a report, compare, insert, update, delete, raise an alarm, forget | the reporting processes by UDP, the alarm system | `PdbReporter` |
| Job server (`EmsGWServer`, `EGWTcpServer`, `EGWHttpTask`, `EGWJobFactory`) | the deque of tasks, one thread per request, one shared object per kind of job | accept, read a request, pick the job, do it, answer, reap finished threads, be destroyed | HTTP peers; all the jobs | `JobServer`, `RequestReply`, `EmsGWMain` |
| Session jobs (`SubscriberJob`, `PduSessionDetachJob`, `PduSessionNotiJob`) | the request data in members of the shared job | take the words of the URL, insert rows | job server, database | `JobServer` |
| Configuration jobs (`ExceptionRuleCfgJob`, `HolidayCfgJob`, `Reload*Job`, `NetconfModifier`) | RUNNING and STARTUP of netconf, files handed over | two edits each | job server, netconf | - |
| Active database switch (`PdbSwitchJob`, `NetconfPdbInfo`, `PdbConsistInfo`, main loop) | the job's copy of the configuration, what has been switched to | load, append what is missing, change and save on request, `SwitchActiveDB` | netconf, an operator who edits it, all users of the database | `PdbSwitch`, `EmsGWMain` |
| External connection reporter (`ExternalConnectionReporter`, `Netstat`, `ServiceConfig`) | the two tables as read last, the counts of each service, the last status of each, two messages, `bBeShouldSend` | read the tables and the configuration, count, raise alarms, report until it is sent | the host's TCP and SCTP tables, ATOM over HTTP, alarm system | `ExternalReporter` |
| HTTP client (`HttpClient`, `HttpRequest`, `HttpResponse`, `EGWTcpClient`) | a connection that is kept open | send, reconnect, receive with a timeout | the reporter | `HttpExchange` |
| Process life cycle (`EmsGWMain`, `ThreadBase`) | which workers are made, run, are told to stop | start, take commands, supervise, stop, destroy | all threads | `EmsGWMain` |
| CLI queries (`CLI_DbQuery`) | none | SELECTs formatted for a terminal | the operator | - |
| Obsolete count update, test program | - | not part of the running program | - | - |

A dash is a component that is not modelled (section 7).

### How the modelled components interact

```
   PCF --sessions--> T_PCF_BINDING_INFO
                            | count                       processes
   LB  --claims--> T_SLICE_DNN_WORK                          | UDP reports
       --pass----> T_NSMF_SESSION_INFO.RESTRICTION        PdbReporter
                            | query                          |
   MP  --writes--> restriction file                       T_PCF_PDB_STATUS
       --edits---> netconf ---> SMP reads the file           + alarm

   HTTP peers --requests--> server thread --> a task each --> shared jobs --rows--> PCF
                                                                  |
   main thread --switches--> active database <--IsChanged-- netconf <-- operator
       | makes, supervises and destroys the workers

   host's TCP and SCTP tables --> reporter --HTTP client--> ATOM
                                     + alarms
```

`isLB` decides whether `SliceDnnWorker::run` is `runLB` or `runMP`: a host is
one or the other.  There is no message between LBs and MPs; they meet in the
tables only.  The database, netconf, SMP, PCF, ATOM, the
alarm system, the reporting processes and the library classes `PDB::Timer`, `PDB::Worker`, `EGWUdpServer`, `CNetconfBase` are
not in the repository: the models take from them what the code relies on, and
`PROJECT.json` marks those definitions external.

### What is hard in this code

* Mutual exclusion by a row with a time stamp, across hosts, where the answer
  "I am the master" is used for a pass that takes many statements.
* Threads, one per request, that share the objects that do the requests' work.
* A chain of copies (sessions, flag, set, file, configuration, SMP), each link of
  which skips work by comparing with a memory of what it passed on.
* Error paths: nearly every statement can fail, and most failures are logged and
  passed over.
* Threads and hosts that stop, die and restart between any two statements.
* Datagrams that wait in a socket while their sender dies, and connections that a
  peer closes while a request is on its way.
* A copy of the configuration that is read once, changed by any thread and written
  as a whole, while others edit the original.
* Destructors that wait for threads that still accept work.

`PROJECT.json`, "hazards", lists them line by line.

### What makes each component correct

* Counting: never two LBs in a pass; the counting never ceases while an LB is up;
  RESTRICTION follows lasting overload and lasting relief, with hysteresis.
* Restriction list: SMP comes to restrict what the table says, and only that, apart from
  what a line that has been cut short may say.
* Connection table: it shows the processes that live, and no others; an alarm
  means a change.
* Job server: a request is answered with the result of its own data (it is not
  always: finding 4); every finished thread is reaped and its connection closed.
* Active database switch: what is active comes to be what is configured; a request
  activates what it names and nothing else, and brings along only what an earlier save
  or the threads' races have left behind.
* Reporter: alarms and reports come to be those of the connections there are; what
  could not be sent is sent again.
* HTTP client: an answer belongs to the request, or is late by as many as have been
  given up.
* Life cycle: a thread that has ended ends the process; no thread is left with objects
  that are gone, nor a request that the server's destructor could have waited for.

## 2. The modules

### `SliceDnnMaster`: the lease (`runLB`, `isMaster`, `updateMaster`)

`pc[l]` is the statement at which the worker thread of LB `l` waits: the 300 ms
`poll`, the `update` and `select` of `isMaster`, the `targets`, `count` and
`write` of the pass, the `heartbeat` (`updateMaster`), or `down`.  A statement
may take up to `OpMax` ticks.  The row is `work = [host, age]`.

Time is kept as ages: how long ago a timer was started or the row was written,
up to the value beyond which the code cannot tell a difference.  So the model has
no horizon and its behaviours are infinite.  `Tick` is the only action that moves
time; it waits for a thread that has spent `OpMax` at one statement.

`Claim` is the `UPDATE ... WHERE HOSTNAME=self OR UPDATE_TIME + 300 s < SYSDATE`,
which succeeds when no row matches, too; `IsMasterUpdate` may fail, and then
`nMaster_` keeps the answer of the last check, as in the code; `IsMasterSelect`
takes an error for "no row found".  `SelectTargets` restarts `updateCntTimer`
even if the list cannot be read, `SelectCount` leaves the pass at a stop or an
error, `WriteCount` goes on after an error.  `Start` gives fresh timers and
`Crash` may come at any statement.  `Init` lets the row be new or stale, in any
LB's name.

`ExclusiveMaster` is what the lease promises: at most one master, mastership
passes through a time without one, and only the master is in a pass, one at a
time.  `SliceDnnMaster` implements it with the refinement mapping
`masters <- LBs that run with nMaster_ > 0`, `counting <- LBs in a pass`.

### `SessionCount`: the counting pass

Since at most one LB is in a pass, one pass stands for all of them.  It selects
the rows with MONITOR_USED=1 (`SelectTargets`; there is no ORDER BY, so the order
is arbitrary), reads each row's number of sessions in one statement
(`SelectCount`) and writes it in the next (`UpdateCount`), while sessions come and
go and the operator switches MONITOR_USED.  `NewRestriction` is the CASE
expression with ALLOW and RELEASE.  `Abandon` stands for a failed count, a stop
and the loss of the LB.  `PaddedSst` are rows whose SST is not spelled as
`std::to_string` spells it: the WHERE clause of the UPDATE does not match them.

### `RestrictSync`: the MP thread

One action per statement of the loop of `runMP`: `NotDue` and `Query`, `OpenFile`
(which truncates), `FillFile`, `Monitor` (`FileMonitor::IsChanged`, which
remembers the time before it is acted on), `Save` (RUNNING, then STARTUP) and
SMP's `Reload`.  Each statement may fail as it may in the code: a failed query
leaves the rows fetched so far, a file that cannot be opened counts as written, a
write that fails is not noticed, an edit fails before or between the two
configurations.

The file is a stream of bytes that nobody checks.  While it goes out (`FillPart`), when
the process is lost then, and after a failed write, it holds some of the lines and
perhaps the beginning of one more (`Partly`).  `CutOf[c]` is what the beginning of the
line of `c` may be read as: a condition without SD or DNN, or that of another row whose
DNN it begins.  `RestrictSet::Add` keeps incomplete conditions out of the list of a query
(`Conditions`), but `loadFile` takes what a line says (`Lines`), so that they do get
into the file, `oset` and SMP; and `Init` has any file.  That a whole line reads back
as it was written is assumed: an SD or DNN has no `,` or `#`, and no blank at its ends.

`seen` says that `lastModifyT_` is the file's modification time;
every write clears it.  That two writes always differ in `st_mtime` needs them to
be a second apart: they are, by the sleep period, 60 s unless configured.

### `RestrictionControl`: the two together

`SessionCount` and one `RestrictSync` side by side, instantiated on shared
variables.  They meet in `Restricted`, the WHERE clause RESTRICTION=1 AND
MONITOR_USED=1, and the rows' conditions, which several rows may share.  `CutOf` is
that of `RestrictSync`.

### `PdbReporter`: the connection table

`conn` is the true state of the processes' connections, `inbox` the socket, `mem`
is `mapItems_`, `rows` the table.  `Receive` is one turn of the loop of `run()`
from `Recv` through `update()` to `forceMemoryReset()`: a message without items
deletes the process's rows and all of the memory, one with items is compared item
by item, and each changed item is written.  When a statement fails, the failed
items are not remembered, and for some the delete has been done and the insert
has not (`Lost`).  `Alarm` compares the size of the map before and after.
`Start` and `Exit` delete the node's rows; `Crash` does not.  A process dies
silently, or its last message is lost, in `End`, which counts against
`MaxFaults`.

### `JobServer`: the server thread, its tasks and the session jobs

`turn` is the half of the loop of `EmsGWServer::run` the thread is in: it takes a
connection from the kernel's `backlog` (`Accept`) or none (`NoClient`,
`AcceptFails`, `ReInit`), then looks at the front of `deque` (`Reap`).  `pc[r]` is
where the task of request `r` is in `EGWHttpTask::run`: `Receive`, then `GetJob`
with the job's setter (`SetMdn` and `MdnSet`, because writing a string is not one
step), then the job's `Do` (`MakeRow`, `Insert`), then `Answer`.  `OtherJob` is
`GetJob` for every job that keeps nothing of the request: `PduSessionDetachJob`
makes its row from its own request's body, and the remaining jobs store nothing
here.  `socket[r]` is the connection as the client sees it.  It is closed when the
task is destroyed, in `Reap`, or by a failed `Receive`, except that a failure at the
end of the request line is not noticed (`ReadUntilCRLF`) and the request goes on with
what it has read.

`Accept` starts the task and puts it into the deque in one step.  In the code the thread
runs for 30 ms before it is in the deque; only the server's thread looks into the deque
while it runs, so nothing here depends on it.  Where it matters, in the destructor,
`EmsGWMain` has two steps.  A URL with too few words makes `tokens.at(2)` throw out of
the thread, which ends the process: there is no answer, and that is `Kill` of
`EmsGWMain`.

`mdn` is `SubscriberJob::mdn_`.  While one thread writes it, it holds that thread's
request; a read at that moment, and a write that crosses it, give `Torn`.  Any
other outcome of such a race (all of the old or all of the new digits) is that of
an interleaving without a race.  An MDN fits the buffer inside the string, so a
race harms nothing but the digits.  `since` is a history variable: the requests
that have begun to write `mdn_` since each request began to.

`RequestReply` is what the server promises its clients: requests are taken first
come, first served, each is worked on by itself, is decided once, and leaves at most
one row, none if it is refused with 500; the number in the row is its own or that of a
request that was worked on at the same time, or a mixture.  `JobServer` implements it
(`ServesEachOnce`): `queue` is the kernel's backlog, `phase` comes from the task and the
connection (`Phase`), `met` from `since`, `row` from what has been stored.  The deque,
the order in which tasks are reaped, and `mdn_` do not appear in it.

### `HttpExchange`: the HTTP client

One connection, as `EGWTcpClient` keeps it: `conn` is "up", "gone" when the peer
has closed it and nobody has noticed, or "down".  A send goes out on the connection
there is (`SendKept`); after the peer has closed, the kernel takes one more
(`SendIntoVoid`), and the next send fails, closes, connects and sends again
(`SendAnew`) or fails for good (`SendFails`).  `HttpResponse::Receive` takes what has
come first (`ReceiveAnswer`) or returns after 5 s without closing (`ReceiveFails`).
`late` counts, as history, the answers given up on this connection.

### `ExternalReporter`: the reporter of an LB

It extends `HttpExchange` with the thread that uses it.  `net` is what the kernel
has; `Pass(t, c, reload)` is one turn of the loop of `run()` in which something has
changed: each table is kept, read, or found empty because its file cannot be opened,
the configuration is read again or not, the connections of each system of each
service are counted, and if a count has changed all alarms are looked at and both
messages made.  `Matches` is the filter of `Netstat`, `Status` is
`ServiceItem::IsOK`.  `Silent` says when there is no message of a kind: one for PG is
made whenever there is a service, and with services of the PGW alone it has no items and
is not well formed.  The messages then go out one after the other (`SkipEmpty`,
`Send`, `SendGivenUp`, `Response`); `bBeShouldSend` (`sending`) falls once both have
been handed over, whatever comes back.  ATOM answers late, closes, or is not there
(`AtomTakes`, `AtomCloses`).  `Restart` is the end of the process, which a line that is
too short, a bad configuration or a signal on a closed socket brings about, too.

### `PdbSwitch` and `EmsGWMain`: the main thread, and what is active

`PdbSwitch` has the three copies of the configuration: `stored` in netconf, `mem` in
`NetconfPdbInfo`, `active` in the connection manager.  A request to switch names
databases and their clusters, and `Reflect` goes through its list entry by entry
(`entry`).  A cluster the copy has is assigned (`Assign`); two threads that write its
string at once leave either name or a mixture, `Torn`.  A cluster it lacks is inserted
(`Insert`), of the configuration file (`InFile`) or not.  The map has no lock:
while one thread inserts, another may lose or overlook the clusters whose places in the
table are linked anew (`Relinked`, `Losable`); where the race does worse, the process ends,
which is `Kill`.  After the list (`EndReflect`) all of the copy is saved (`Save`,
`SaveFails`).  `strayed` is a history variable: the clusters for which a save has
failed, or has lost or stored a mixture of what the copy holds, or which an operator has
edited since the last save.

`EmsGWMain` extends it with the process.  `pc` and `at` say where the main thread is:
reading its configuration, at the `Init` of a worker (`InitWorker`, `InitJobs` for
the server, whose job factory loads and appends), at its thread (`RunWorker`), in
the loop (`Command`, `Supervise`, `Poll`, each of which leaves it by `StopWorkers`), or
in the destructors, which run in the reverse order (`Destroy`, `EmptyQueue`, `Join`,
`DestroyQueue`).  It goes straight to the destructors from any failure.  Every host makes
the server and the reporter of databases first, in this order, and tells these two to stop
when it leaves the loop; any worker is told by its destructor.

Beside it run the threads of the workers and one thread per request.  A turn of the
server's thread (`Turn`) takes a client or finds none (`NoClient`).  A client's request
gets a thread that runs (`Accept`), and 30 ms later, because `ThreadBase::Run` sleeps,
it is put into the queue (`Enqueue`); in between it is `made`.  The order of two
more things is that of the source: the destructor of `EmsGWServer` empties the queue
before it tells the thread to stop, and `jobFactory_` is destroyed before `deque_`.  So
two kinds of request may find the jobs gone: one that was `made`, but not yet in
the queue, when the destructor found it empty, and one that was accepted after that.  They
are `late`.  `Kill` ends the process at any point; netconf stays.

Of netconf, whose library is not in the repository, it is assumed that `IsChanged()`
goes on saying so until `LoadConfig()` has succeeded: neither being asked nor a load
that fails takes the mark away (`Poll`).  If a failed load did, `ActiveFollows` would not
hold: `PollOnce` is that change.

## 3. The runs

| Run | Instance | Shows |
|---|---|---|
| `master` | 2 LBs, periods 2 and 5, takeover 10, 1 failed update in a row, lists of one row | `TypeOK`, `MasterBelief`, `LeaseFresh`, the refinement `ExclusiveMastership`, `CountingGoesOn`, `DueCountBegins`, `StopEndsThread` |
| `master_longsleep` | periods 4 and 9, takeover 3 | violates `OnlyMasterCounts` (finding 1) |
| `count` | 3 rows: RELEASE < ALLOW with a gap, RELEASE > ALLOW, a row that the UPDATE does not match; up to 2 sessions each | `TypeOK`, `Hysteresis`, `OverloadRestricts`, `ReliefReleases` |
| `sync` | 3 rows: a condition, one that the beginning of its line may spell, and an incomplete one; one failing statement | `TypeOK`, `MemoryMatchesFile`, `SeenMeansPassedOn`, `Converges`, `RestartRepairs` |
| `sync_queryfault` | 2 rows, one failing statement | violates `KnownListNotEdited` (finding 2) |
| `sync_fault` | the same | violates `ListReachesSMP` (finding 3) |
| `control` | 2 rows with one condition, one of them switched by the operator, 1 session each, no failing statement of the MP | `OverloadReachesSMP`, `ReliefReachesSMP` |
| `pdb` | 2 processes with one database each, 2 states, a socket of 2 messages, one fault | `TypeOK`, `MemoryIsStored`, `AlarmMeansChange`, `RowsFollow`, `RowsLeave` |
| `jobs` | 3 clients that come again and again, two for subscribers, a backlog of 2, one fault | `TypeOK`, `OpenIsHeld`, `NoStaleMdn`, the refinement `ServesEachOnce`, `Answered`, `EveryConnectionCloses` |
| `jobs_mdn` | the same without faults | violates `EachNotified` (finding 4) |
| `reporter` | 3 services, one of each policy, over one TCP connection and one SCTP association with 2 addresses; configurations with PGW, without it and with it alone; one fault; one answer given up per connection | `TypeOK`, `BehindByLate`, `TellsItsCounts`, `SettledIsTold`, `AlarmsSettle`, `ReportsSettle` |
| `main` | a cluster of the file and one outside it, neither in netconf at first; 2 databases; 2 requests that ask for different databases of the latter, again and again; the server and the reporter of databases; one fault | `TypeOK`, `NoneOutlives`, `OnlyNamedChange`, `ActiveFollows`, `EndsWhenDue` |

Why the bounds are enough to be interesting:

* Two LBs meet in every way that matters to the row: owner against claimer; a
  third would be another claimer.  A pass over one row takes three statements of one
  tick each, longer than the sleep period of 2, so a heartbeat comes due inside it,
  and one failed attempt makes the row as old as it may get.  In `master`, 10 is
  exactly the takeover period that `TakeoverMargin` asks for, so a lease that is one
  tick less fresh is lost.
* `count` has a count below, between and above the thresholds of its first row,
  and thresholds the wrong way round in its second.
* `sync` has lists that grow, shrink and change without changing size, and both
  ways for a condition to leave.  One fault lets every statement fail once at
  every place; `RestartRepairs` starts the thread again after it.  A line of the first
  condition that is cut short may spell the second, and a line of either one without DNN.
  That two rows give one line is in `control`.
* `pdb` lets a process's last report and its end wait in the socket together,
  behind or before those of the other process.  `ResetPeriod` 2 separates the
  clearing of the map by the clock from that by a message.
* `jobs` has a task in front of, between and behind others in the deque, two
  requests that share `mdn_` and a third that does not, and a backlog that is
  full.  The kernel's backlog is longer (`listen(fd_, 5)`), but three clients fill
  no more than this one.
* `reporter` has a service that any connection makes OK, one that needs two, and one
  whose name the code knows no rule for; one association counts as two systems, so
  the second service is OK without a second association, as it is in the code.  With
  `MaxLate` 1 an answer is late, read as that of the next request, and the next one's
  late in turn.
* `main` (417000 states): both requests may be anywhere in the shared job at once, and
  in one cluster, which only a request brings into the copy, so that both may insert it;
  what one of them has inserted may be lost to the other's insertion (`Relinked`).  The
  cluster of the file comes from `AppendInfo`, and neither asks for it, so a save that
  changed it would show.  The reporter makes
  the server's destructor the last of several.  A third worker would only be one more that
  its destructor stops, and is left out for the size.  One fault is enough to make the
  copy and netconf differ, and `strayed` then says where.  The lists have one entry each;
  longer ones are for the proofs, which hold for all lists.

Deadlock is checked in every run.

Four liveness properties (`DueCountBegins`, `StopEndsThread`, `EveryConnectionCloses`,
`EndsWhenDue`) have the form `[]<>P`: something that is due, or open, does not stay so.  As
nothing but what is promised ends that condition, this says the same as that it leads to
it, and TLC needs no tableau for it.

## 4. Fairness

* `SliceDnnMaster`: `WF(Tick)`; `WF(Step(l))`, a thread that can take a step does
  (the loop polls every 300 ms and a statement returns); and `SF` of a successful
  `IsMasterSelect`: a SELECT that is issued again and again does not fail each
  time, without which no LB could ever learn that it is the master.  `Start`,
  `Stop` and `Crash` have none: a property speaks of LBs that have settled.
* `SessionCount`: `WF(SelectTargets)`, which is what `CountingGoesOn` shows of the
  lease, and `SF` of a successful count and update of each row: passes may be
  abandoned and statements may fail again and again, but not always.
* `RestrictSync`: `WF(Step)`, `WF(Reload)` (SMP reacts to the edit it is told of)
  and `SF(Query)`: the timer of the loop fires again and again.
* `RestrictionControl`: the fairness of its parts.
* `PdbReporter`: `SF(Report(p))`, processes report periodically and a full socket
  does not lose every report, `WF(Receive)`, `WF(Tick)`.  None on `Start`.
* `JobServer`: `WF(ServerStep)` and `WF(TaskStep(r))`: threads run, and a request
  that does not come ends its task after 100 ms (`Receive`).  None on `Connect`.
* `ExternalReporter`: `WF(Step)` and `WF(AtomTakes)`: the thread goes on, and a peer that
  keeps a connection reads from it; `SF(Pass("read", "read", FALSE))`: both tables are
  read again and again (`/proc/net/tcp` changes every second, as a comment says); `SF(Send(p))`: a
  message that is tried again and again is handed over once.  None on `AtomCloses`,
  `Restart` or `NetChanges`.
* `EmsGWMain`: `WF` of the main thread, of the server's thread (`Turn` and what ends a
  turn), of each request that is under way, and of the end of a thread that has been told to.
  None on `Begin`, on `Command` being a stop, on `ThreadFails` or `Kill`; and clients
  may go on asking for ever, or never ask.

## 5. The proofs

All theorems are for arbitrary constants under the modules' assumptions, which
are what the code's configuration checks and its tables give.  Three kinds of
result beyond typing and the runs' invariants are worth looking for:

* *Delimiting a finding.*  Where a run shows that a promise of a comment is broken, a
  theorem says under what condition it is kept, so that the finding has one cause:
  `OnlyMasterCountsWithMargin` (finding 1), `ComparesTableWithFile` (finding 2),
  `LoneRequestNotifies` (finding 4).
* *Safety cores.*  Liveness stays with TLC, but what makes it true is often an
  invariant, "done, or still to be done": `ChangesAreFound` for `ActiveFollows`,
  `EndedStayOut` for `RowsLeave`, `SettledTells` for `AlarmsSettle` and
  `ReportsSettle`, `LightRowStaysFree` and `HeavyRowStaysRestricted` for
  `ReliefReleases` and `OverloadRestricts`.  These say that what has been reached is
  not left and that no work is forgotten; that work is done at all is for TLC.
* *Composition and refinement.*  `ImplementsExclusiveMaster`,
  `ImplementsRequestReply`, and the theorems of `RestrictionControl_proofs`, which
  carry results of the parts over to the whole.

**`SliceDnnMaster_proofs`.**  `ConfigAssumption` is what `SliceDnnWorker::Init`
accepts.  `TypeCorrect` needs no more.  The others assume `TakeoverMargin`:
statements take at most half the sleep period, and the takeover period is longer
than `MaxFail + 1` rounds of one sleep period and three statements.  The shipped
values (60 s and 300 s) leave room for three failures with statements of up to
5 s.  The inductive invariant is

    IInv == TypeOK /\ PassInv /\ MasterBelief /\ LeaseFresh

`MasterBelief` (who takes itself for the master owns the row) is not inductive:
another LB's claim breaks it unless the row is too young to be claimed.
`LeaseFresh` says how old the row can be at each statement (`Budget`), given the
failed attempts (`Late`) and the time spent at the statement, and while the timer
runs, that the last attempt is no older than the timer.  `FreshNotClaimable` is
the place where `TakeoverMargin` enters; `LeaseOfOther`, `LeaseOfSelf` and
`LeaseOfTick` are the three kinds of step.  From `IInv` follow
`OnlyMasterCountsWithMargin`, the property that `master_longsleep` breaks without the
margin; `OnePassAtATime`, which is why `SessionCount` has one pass; and
`ImplementsExclusiveMaster`, the refinement: `MasterIsAlone` gives that the mapped set
has one element, and `StepImplements` maps each action to a step of `ExclusiveMaster`
or a stutter.

**`SessionCount_proofs`.**  `TypeCorrect`, with the relation of the statement, the
list and the row at hand; and `RestrictionHasHysteresis`, from the typing, which speaks
of the count at hand.  `LightRowStaysFree` and `HeavyRowStaysRestricted` speak of the
sessions there are: a row whose sessions stay below ALLOW is never restricted, one whose
sessions stay at ALLOW or above RELEASE is never released, though a count is old when it
is written.  Their invariants (`Free`, `Held`) also say of the count that has been read
and not yet written that it is on the right side, and `CountKeeps` is their step.

**`RestrictSync_proofs`.**  `TypeCorrect`: the list the thread sets out to write is
complete, whatever a cut line has brought into the file and `oset`.  `MemoryIsTheFile` and
`SeenIsPassedOn` are inductive with the typing.  `SettledSMP` puts them together: when nothing has
failed and nothing is under way, SMP applies what the thread remembers.
`NothingMadeUp` holds through all failures: a condition that no selected row has had, that
the beginning of no selected row's line spells (`Unsaid`), and that was not in the file at
the beginning, never reaches SMP, since no set on the way gains it (`Nowhere`).  So the
line cut short is the one way to make up a restriction.  `ComparesTableWithFile` is an
action property: until a statement fails, a query leads to a write exactly when the file differs from the table.

**`RestrictionControl_proofs`.**  `ImplementsSync` and `ImplementsCount`: seen on its
own, each part of the composition behaves as its own specification says.
`ControlAssumption`, the parts' assumptions on the composition's constants, lets the
theorems of the parts be used there (`PartsAssumptions`, `SameCount`, `SameSync`):
`SyncHolds`, `CountHolds`, and, from end to end, `NoRestrictionWithoutOverload`.  A
condition that no row restricted at the beginning, that was not in the file, that no
cut line of another row's condition spells, and whose rows never have ALLOW sessions, is
never restricted by SMP, however the parts fail, die and come back.  It joins
`LightRowStaysFree` of each of its rows with `NothingMadeUp`.

**`PdbReporter_proofs`.**  `TypeCorrect`; `MemoryStaysStored`, inductive with the
typing; `AlarmsMeanChanges`, an action property: an alarm without a failed
statement comes from a message that changes a known item and brings none that was
unknown, because without failures the map grows with every new item.  `ReadStays`:
after a message has been read without a failed statement the table says what it says, of
the items it speaks of, or of all of its process if it has none, also where an item is
skipped because it is remembered.  `EndedStayOut`: while the thread is up
and nothing has failed, the table has no row of a process that has ended, or its last
message is still in the socket.  What makes that inductive is that
a message speaks of its own process only (`OwnItems`) and that nothing of the process comes
after its last message (`SaidEnd`).

**`JobServer_proofs`.**  `TypeCorrect`; `OpenStaysHeld`, inductive with the typing,
from four lemmas about queues without repetitions; `MdnNeverStale` and
`ErrorLeavesNothing` from `MdnInv`: nothing is made before `Do` (`NothingYet`), a
request that is writing `mdn_` is alone or leaves a mixture, and a request that is
about to read it finds what has been written since it wrote itself (`MdnFresh`).
`LoneRequestNotifies`: a request that is answered 200, and between whose `SetMdn` and row no
other began to write, has its own number in the table, or a mixture, unless something has
failed (`RowMade`).  `ImplementsRequestReply` is the refinement, from all of these and
`OwnNumber` (`ServiceInv`): `ServerServes`, `TaskServes` and `ConnectServes` map the steps
of the server, of a task and of a client.  `OpenIsHeld` is what makes the front of the
backlog a request that waits; `NoStaleMdn` and `OwnNumber` what makes the number in a row
one of those `RequestReply` admits.

**`ExternalReporter_proofs`.**  `TypeCorrect`; `AnswersStayBehind`, inductive with the
typing: on a connection that is up, the requests on the wire and the answers unread
are as many as the answers given up, and one more while the thread waits; and
`CountsAreTold`, inductive with the typing: every pass that changes a count makes both
messages and looks at every alarm, and no other step changes counts, alarms or
messages.  `SettledTells`: with both tables read as they are and nothing left to send, all
alarms and the last report of each kind are those of the connections there are, except a
report that went down with a connection, and unless there are no connections.  Its
inductive invariant (`Delivers`) follows a report through the places it can be in: to be
sent, on the wire behind no newer one, taken by ATOM, or lost.

**`EmsGWMain_proofs`.**  For any number of clusters, requests and workers:
`TypeCorrect`, `NothingOutlives` and `OnlyAskedChanges`, from

    IInv == TypeOK /\ Stages /\ NoneOutlives /\ Stand

`Stages` relates the place of the main thread to what has been made and destroyed: the
jobs are live from the server's `Init` to the end of its destructor, workers that have
been destroyed have no thread, and no request is under way while the jobs are not live
unless it is `late`; a request is `made` only in the body of the server's loop, which is
why none is when the thread has been joined.  `Stand` is why a save changes nothing that was
not asked for: from the time the job's copy is loaded, in each cluster that has not `strayed` it holds what
is stored, or what a request under way has named, or a mixture while there is one, or
nothing (`CopyFollows`).  `AssignFollows`, `InsertFollows`, `SaveFollows`, `AppendFollows`
and `OthersFollow` are the ways a step can disturb it; `NextAsks` says that a request
that goes on in its list still names what it named.  `ChangesAreFound`: from the first switch on, and until
the destructors, what is active is what is stored, or the main thread will find that there
is something new (`NoChangeMissed`).

Out of the prover's reach, and checked by TLC only: all liveness properties
(`CountingGoesOn`, `DueCountBegins`, `StopEndsThread`, `OverloadRestricts`,
`ReliefReleases`, `Converges`, `RestartRepairs`, `OverloadReachesSMP`,
`ReliefReachesSMP`, `RowsFollow`, `RowsLeave`, `Answered`,
`EveryConnectionCloses`, `AlarmsSettle`, `ReportsSettle`, `ActiveFollows`, `EndsWhenDue`).
Every other property of a passing run is the statement of a theorem.

## 6. Findings

1. `Init` bounds the sleep period by half the count period, but a lease is taken
   after a fixed 300 s.  A count period above 600 s admits a sleep period above
   300 s, and then an LB works through a pass on a row another LB has taken.
2. A failed query on an MP is taken for the list of restricted rows: the file is
   rewritten and SMP stops restricting until the next query.
3. A failed write of the file, or a failed netconf edit, is remembered as done
   and not repeated while the thread runs; a restart repairs it
   (`RestartRepairs`).
4. Two subscriber requests at once may both notify of the number of the second,
   and both are answered 200.

Each is a run that violates what a comment of the code says.

Behaviour the models show and no comment speaks of:

* A new process whose row cannot be inserted raises the alarm that is meant for
  changes among known processes: `AlarmMeansChange` holds without failures only.
* After `n` answers that came too late, every answer on the same connection is read
  as that of the `n`-th request before, until a send on it fails (`BehindByLate`).
* The first report after ATOM has closed an idle connection is lost, and a message whose
  answer fails counts as sent: `ReportsSettle` has to except them (`lost`).
* Counts start from zero when the configuration is read again, so that a service whose
  connections have all gone meanwhile is not told of; nor is a service that has never had
  one (`TellsItsCounts`, `AlarmsSettle` except a host without connections).
* An alarm of a service that is taken out of the configuration stays.
* A request to switch that could not be saved is answered 200, stays in the job's copy
  and is activated by the next request that can be, whatever that one names.
* An operator's edit is taken back by the next request.
* A write of the restriction file that is cut short in the middle of a line can restrict
  what no row says: another row's condition, whose DNN the line begins, or one without
  DNN, which `Add` would have refused.  It lasts, like any failed write (finding 3), until
  the list changes or the thread is started again.
* Two requests that put a new cluster into the copy at once may lose a cluster, or find
  one missing that is there: its old value stays in netconf.
* A request accepted just before, or while, the server is destroyed runs with jobs that
  are gone (`late`).
* With services of the PGW alone, ATOM is sent a message for PG that is not well formed.

## 7. What the models leave out

* The text of statements, logs, file lines and messages; the columns of a row that
  the properties do not tell apart.  `DB_IP`, `DB_PORT` and `SHARDING_ID` of
  `T_PCF_PDB_STATUS`, which an UPDATE never writes, are among them: this is listed
  as a hazard without a property.
* Binding and preparing statements.  A failure there ends the thread before its
  loop, which is a thread that stays `down`.
* The loss of the whole process when one thread ends, in the modules of single
  threads: a crash of the thread is possible there at any step, and `EmsGWMain` has
  what leads to it.
* Clocks that jump or differ.  The lease compares the database's SYSDATE with a
  column written from it, so the hosts' clocks do not enter; `PdbReporter` reads
  its own host's clock only.
* The database engine and its schema.  Statements are atomic.
* More than one MP: MPs do not interact.
* Of the job server in `JobServer`: its start and its stop, which are in `EmsGWMain`, the number `tid_` that
  `SubscriberJob` gives its rows, and what jobs other than the session jobs do.
  `EGWHttpTask` answers 200 for every job whose `Do` returns true, so the 404 that
  `NokJob` sets is never seen; `PduSessionDetachJob` takes the DNN from the
  member "MDN" of the body.  No property depends on either.

* Of the HTTP client: answers in pieces, a send that times out on a connection that is
  alive, and SIGPIPE.  `EGWSocket` sends without flags (`EGWSocket.cpp:89`), and nothing
  under `src/` ignores that signal; where the process dies of it, that is `Restart`.
* Of the reporter: the text of tables, configuration and messages, the alternative
  identity of a node, and `NetstatReporter`, which nothing starts.
* Of the main thread: the answer to APP_PING, command 18, which calls `Init` of netconf
  once more, and the trap that tells of a switch.  The destructor of `EmsGWServer` and the
  server's thread use `deque_` without a lock; the model has the interleavings of their
  accesses only, and `Kill` where the race ends the process.  After a failed start a
  server that has been made but not told to stop goes through the same destructor, so
  emptying its queue may go on for as long as clients come; its thread has not been
  started then unless the failure is that of `TurnOn`.  `EndsWhenDue` covers a failed
  start except that one.  What a `late` request does with jobs that are gone is undefined;
  the model ends it without an effect, or the process.
* `smPolicyId_` of the session jobs, which requests write to the shared job without a lock
  and nothing reads.

Components without a module:

* Configuration jobs.  Each writes the time of the request to RUNNING and to STARTUP,
  under a lock of its own, and answers 200.  Their place in a request is `OtherJob` of
  `JobServer`, and what two edits can do wrong is `Save` of `RestrictSync`, whose
  `NetconfSliceDnn` has the same lines; a module of their own would say it again.  That
  `HolidayCfgJob` saves through an object it never initialises is listed as a hazard:
  what comes of it lies in a library.
* CLI queries.  They change no state: a command is one SELECT, formatted for a terminal.
  When commands come is up to ATOM.  That a failing fetch makes a query endless is listed
  as a hazard.
* `Update_SliceDnnCntSQL`, which nothing calls, and the test program.

## 8. Plan

Done: `SliceDnnMaster` with `ExclusiveMaster`, `SessionCount`, `RestrictSync`,
`RestrictionControl`, `PdbReporter`, `JobServer` with `RequestReply`, `HttpExchange` with
`ExternalReporter`, `PdbSwitch` with `EmsGWMain`, each with its proofs.

What could come next, in this order:

1. `ExclusiveMaster` and `SessionCount` in one composition, with each LB's own place in
   the list, so that `OnePassAtATime` is not only the reason for having one pass.
2. An abstract specification of what the reporter promises ATOM (the last report
   of each kind, once, unless lost), implemented by `ExternalReporter`; `Delivers` is
   most of the invariant it needs.
3. `JobServer` with `EmsGWMain` in one composition, so that the tasks of `JobServer` are
   those the destructor waits for.
4. A peer of `HttpExchange` that answers in pieces.
