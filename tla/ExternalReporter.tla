-------------------------- MODULE ExternalReporter --------------------------
(***************************************************************************)
(* ExternalConnectionReporter, on an LB: every 300 ms it reads the tables    *)
(* of the host's TCP connections and SCTP associations if they have changed, *)
(* and the configuration if it has; counts for each service the connections  *)
(* with each of its systems; and when a count has changed, raises an alarm   *)
(* for each service whose status has changed and reports to ATOM, one        *)
(* message for the PG services and one for the PGW services.                 *)
(*                                                                          *)
(* A message that could not be handed to TCP is sent again on a later pass.  *)
(* That ATOM has received it, or liked it, is not looked at.                 *)
(***************************************************************************)
EXTENDS HttpExchange, FiniteSets

CONSTANTS
    Rows,       \* the connections that may exist: lines of the two tables
    Services,   \* the services that a configuration may have
    Pgw,        \* those named "PGW"
    Configs,    \* what the configuration file may say: sets of services
    Ips,        \* addresses of systems
    Item,       \* a service's ips, port, server, proto and policy
    NoReport,   \* an empty message
    MaxFaults   \* failed reads, reloads and ends of the process, at most

ASSUME ServiceAssumption ==
    /\ IsFiniteSet(Rows) /\ IsFiniteSet(Ips)
    /\ \A r \in Rows : DOMAIN r = {"proto", "ips", "lport", "rport", "up"}
    /\ Pgw \subseteq Services /\ Configs \subseteq (SUBSET Services) \ {{}}
    /\ \A s \in Services : Item[s].ips \subseteq Ips
    /\ MaxFaults \in Nat

VARIABLES
    net,        \* the connections of the host
    tcp, sctp,  \* vecRaws_ of the two tables
    config,     \* vItems_: its services
    known,      \* connCnt of each system of each service
    alarm,      \* AlarmForExternalConnection::m_
    out,        \* outForPG and outForPGW
    sending,    \* bBeShouldSend
    pc

\* Outside: the alarm system and ATOM.
VARIABLES
    shown,      \* the last alarm of each service
    atom,       \* the last report of each kind that ATOM has taken
    lost,       \* history: the last report of a kind went down with a connection
    faults

table == <<tcp, sctp, config, known>>
told == <<alarm, shown, out>>
vars == <<http, net, table, told, sending, pc, atom, lost, faults>>

Paths == {"pg", "ncn"}
Fault == faults < MaxFaults /\ faults' = faults + 1
NoFault == UNCHANGED faults

-----------------------------------------------------------------------------
\* The rows that Filter leaves, for a system of a service.
Matches(rows, s, ip) ==
    {r \in rows : /\ ip \in r.ips
                  /\ Item[s].port = IF Item[s].server THEN r.lport ELSE r.rport
                  /\ r.up}

Watched == {w \in Services \X Ips : w[2] \in Item[w[1]].ips}
Zero == [w \in Watched |-> 0]

\* UpdateConnection; a service of another protocol keeps its count.
Counted(t, c, cfg, old) ==
    [w \in Watched |->
        CASE w[1] \notin cfg -> 0
          [] w[1] \in cfg /\ Item[w[1]].proto = "TCP" -> Cardinality(Matches(t, w[1], w[2]))
          [] w[1] \in cfg /\ Item[w[1]].proto = "SCTP" -> Cardinality(Matches(c, w[1], w[2]))
          [] OTHER -> old[w]]

Linked(s, k) == {ip \in Item[s].ips : k[<<s, ip>>] > 0}

\* ServiceItem::IsOK; a name it does not know, "PGW" for one, is never OK.
Status(s, k) ==
    IF \/ Item[s].policy = "default" /\ Linked(s, k) # {}
       \/ Item[s].policy = "PG_Local_DB" /\ Cardinality(Linked(s, k)) >= 2
    THEN "OK" ELSE "NOK"

\* For a PG service its status and which systems are linked, for a PGW service
\* the counts.  The message about PGW services is empty when there are none; the
\* one about PG services is made for any service, and with PGW services alone it
\* speaks of none (and is no JSON: its list loses the opening bracket).
Subjects(p, cfg) == IF p = "pg" THEN cfg \ Pgw ELSE cfg \cap Pgw
Silent(p, cfg) == cfg = {} \/ (p = "ncn" /\ cfg \cap Pgw = {})
Report(p, cfg, k) ==
    IF Silent(p, cfg) THEN NoReport
    ELSE [status |-> [s \in Services |->
                        IF p = "pg" /\ s \in Subjects(p, cfg) THEN Status(s, k) ELSE "none"],
          count |-> [w \in Watched |->
                        IF w[1] \notin Subjects(p, cfg) THEN 0
                        ELSE IF p = "pg" /\ k[w] > 0 THEN 1 ELSE k[w]]]

-----------------------------------------------------------------------------
\* The thread's objects as run() makes them.
Fresh ==
    /\ tcp' = {} /\ sctp' = {} /\ config' = {} /\ known' = Zero
    /\ alarm' = [s \in Services |-> "none"]
    /\ out' = [p \in Paths |-> NoReport]
    /\ sending' = FALSE /\ pc' = "poll"

Init ==
    /\ HttpInit
    /\ net \in SUBSET Rows
    /\ tcp = {} /\ sctp = {} /\ config = {} /\ known = Zero
    /\ alarm = [s \in Services |-> "none"]
    /\ out = [p \in Paths |-> NoReport]
    /\ sending = FALSE /\ pc = "poll"
    /\ shown = [s \in Services |-> "none"]
    /\ atom = [p \in Paths |-> NoReport]
    /\ lost = [p \in Paths |-> FALSE]
    /\ faults = 0

\* A connection comes, changes its state or goes.
NetChanges ==
    /\ \E r \in Rows : net' = IF r \in net THEN net \ {r} ELSE net \cup {r}
    /\ UNCHANGED <<http, table, told, sending, pc, atom, lost, faults>>

\* Load of a table: it is kept when it is not due or its file has not changed,
\* and empty when the file cannot be opened, which load() tells nobody.
Loads == {"keep", "read", "empty"}
Table(proto) == {r \in net : r.proto = proto}
Loaded(how, old, proto) ==
    CASE how = "keep" -> old
      [] how = "read" -> Table(proto)
      [] how = "empty" -> {}

\* Variation: the alarm's map keeps the status it was given first.
TellOnce(cfg, k) ==
    LET due == {s \in cfg : alarm[s] = "none"}
    IN /\ alarm' = [s \in Services |-> IF s \in due THEN Status(s, k) ELSE alarm[s]]
       /\ shown' = [s \in Services |-> IF s \in due THEN Status(s, k) ELSE shown[s]]
       /\ out' = [p \in Paths |-> Report(p, cfg, k)]

\* MakeAtomReportMessageForPG and ForPGW, each with a Trap per service, which is
\* sent if it is the service's first or differs from its last.
Tell(cfg, k) ==
    LET due == {s \in cfg : alarm[s] # Status(s, k)}
    IN /\ alarm' = [s \in Services |-> IF s \in due THEN Status(s, k) ELSE alarm[s]]
       /\ shown' = [s \in Services |-> IF s \in due THEN Status(s, k) ELSE shown[s]]
       /\ out' = [p \in Paths |-> Report(p, cfg, k)]

\* Variation: a change of an SCTP count is not noted.
PassTcp(t, c, reload) ==
    /\ pc = "poll" /\ (t # "keep" \/ c # "keep" \/ reload) /\ (config = {} => reload)
    /\ IF "empty" \in {t, c} \/ (reload /\ config # {}) THEN Fault ELSE NoFault
    /\ tcp' = Loaded(t, tcp, "TCP") /\ sctp' = Loaded(c, sctp, "SCTP")
    /\ IF reload THEN config' \in Configs ELSE UNCHANGED config
    /\ LET old == IF reload THEN Zero ELSE known
           new == Counted(tcp', sctp', config', old)
           changed == \E w \in Watched : Item[w[1]].proto = "TCP" /\ new[w] # old[w]
       IN /\ known' = new
          /\ \/ changed /\ Tell(config', new) /\ sending' = TRUE
             \/ ~changed /\ UNCHANGED <<told, sending>>
    /\ pc' = IF sending' THEN "pg" ELSE "poll"
    /\ UNCHANGED <<http, net, atom, lost>>

\* A pass in which something has changed: the tables, read as t and c say, or the
\* configuration, whose counts start from zero and which is new in the first pass.
Pass(t, c, reload) ==
    /\ pc = "poll" /\ (t # "keep" \/ c # "keep" \/ reload) /\ (config = {} => reload)
    /\ IF "empty" \in {t, c} \/ (reload /\ config # {}) THEN Fault ELSE NoFault
    /\ tcp' = Loaded(t, tcp, "TCP") /\ sctp' = Loaded(c, sctp, "SCTP")
    /\ IF reload THEN config' \in Configs ELSE UNCHANGED config
    /\ LET old == IF reload THEN Zero ELSE known
           new == Counted(tcp', sctp', config', old)
       IN /\ known' = new
          /\ \/ new # old /\ Tell(config', new) /\ sending' = TRUE
             \/ new = old /\ UNCHANGED <<told, sending>>
    /\ pc' = IF sending' THEN "pg" ELSE "poll"
    /\ UNCHANGED <<http, net, atom, lost>>

\* Where the thread goes when a message needs no more attention.
After(p) ==
    IF p = "pg" THEN pc' = "ncn" /\ UNCHANGED sending
    ELSE pc' = "poll" /\ sending' = FALSE

Message(p) == [path |-> p, report |-> out[p]]

\* sendToAtomReportMessage: nothing to say.
SkipEmpty(p) ==
    /\ pc = p /\ ~waiting /\ out[p] = NoReport
    /\ After(p)
    /\ UNCHANGED <<http, net, table, told, atom, lost, faults>>

\* Request succeeds, on the connection there is or on a new one.
Send(p) ==
    /\ pc = p /\ ~waiting /\ out[p] # NoReport
    /\ \/ (SendKept(Message(p)) \/ SendAnew(Message(p))) /\ lost' = [lost EXCEPT ![p] = FALSE]
       \/ SendIntoVoid /\ lost' = [lost EXCEPT ![p] = TRUE]
    /\ UNCHANGED <<net, table, told, sending, pc, atom, faults>>

\* Variation: the flag falls although a message could not be sent.
SendGivenUpForgets(p) ==
    /\ pc = p /\ ~waiting /\ out[p] # NoReport
    /\ SendFails
    /\ pc' = "poll" /\ sending' = FALSE
    /\ UNCHANGED <<net, table, told, atom, lost, faults>>

\* Request fails: bBeShouldSend stays, and both messages are sent again.
SendGivenUp(p) ==
    /\ pc = p /\ ~waiting /\ out[p] # NoReport
    /\ SendFails
    /\ pc' = "poll"
    /\ UNCHANGED <<net, table, told, sending, atom, lost, faults>>

\* Response, whose result is not looked at.
Response(p) ==
    /\ pc = p
    /\ ReceiveAnswer \/ ReceiveFails
    /\ After(p)
    /\ UNCHANGED <<net, table, told, atom, lost, faults>>

-----------------------------------------------------------------------------
\* ATOM takes a report and answers, with whatever status.
AtomTakes ==
    /\ PeerAnswers
    /\ atom' = [atom EXCEPT ![Head(wire).path] = Head(wire).report]
    /\ UNCHANGED <<net, table, told, sending, pc, lost, faults>>

InWire == {wire[i].path : i \in DOMAIN wire}

\* ATOM closes a connection: one that is idle, or one it has not read to the end.
AtomCloses ==
    /\ PeerCloses
    /\ lost' = [p \in Paths |-> lost[p] \/ p \in InWire]
    /\ UNCHANGED <<net, table, told, sending, pc, atom, faults>>

\* A table with a short line or a bad configuration ends the thread, and that
\* the process; or the process ends by itself.  It is started again.
Restart ==
    /\ Fault
    /\ Disconnect /\ waiting' = FALSE
    /\ lost' = [p \in Paths |-> lost[p] \/ p \in InWire]
    /\ Fresh
    /\ UNCHANGED <<net, shown, atom>>

Step ==
    \E p \in Paths : SkipEmpty(p) \/ Send(p) \/ SendGivenUp(p) \/ Response(p)

Next ==
    \/ Step \/ AtomTakes \/ AtomCloses \/ Restart \/ NetChanges
    \/ \E t, c \in Loads, reload \in BOOLEAN : Pass(t, c, reload)

Spec == Init /\ [][Next]_vars

\* Fairness: threads and ATOM go on, both tables are read again and again, and
\* a send that is tried again and again gets through.
FairSpec ==
    /\ Spec
    /\ WF_vars(Step) /\ WF_vars(AtomTakes)
    /\ SF_vars(Pass("read", "read", FALSE))
    /\ \A p \in Paths : SF_vars(Send(p))

-----------------------------------------------------------------------------
Statuses == {"none", "OK", "NOK"}
Reports == {NoReport} \cup [status : [Services -> Statuses], count : [Watched -> Nat]]

\* Types of the state.
TypeOK ==
    /\ HttpType([path : Paths, report : Reports])
    /\ net \subseteq Rows /\ tcp \subseteq Rows /\ sctp \subseteq Rows
    /\ config \subseteq Services
    /\ known \in [Watched -> Nat]
    /\ alarm \in [Services -> Statuses]
    /\ out \in [Paths -> Reports]
    /\ sending \in BOOLEAN
    /\ pc \in {"poll"} \cup Paths
    /\ shown \in [Services -> Statuses]
    /\ atom \in [Paths -> Reports]
    /\ lost \in [Paths -> BOOLEAN]
    /\ faults \in 0..MaxFaults

\* The alarm raised last for each service and the messages kept for ATOM are
\* those of the counts at hand, or all counts are zero: UpdateConnection starts
\* from zero after a configuration has been loaded, and then does not tell zero.
TellsItsCounts ==
    \/ known = Zero
    \/ /\ \A s \in config : alarm[s] = Status(s, known)
       /\ \A p \in Paths : out[p] = Report(p, config, known)

\* The counts of the connections there are.
Actual == Counted(Table("TCP"), Table("SCTP"), config, Zero)

OnWire(p) == {i \in DOMAIN wire : wire[i].path = p}

\* The last report of a kind that ATOM has taken or will take, if the connection
\* stays, is r.
ComesTo(p, r) ==
    \/ OnWire(p) = {} /\ atom[p] = r
    \/ \E i \in OnWire(p) : wire[i].report = r /\ \A j \in OnWire(p) : j <= i

\* Between its passes, with both tables read as they are and nothing left to be
\* sent, the thread has told of what there is: every alarm is that of the present
\* connections, and so is the last report of each kind, on its way or taken, but
\* for one that went down with a connection (bBeShouldSend falls only when both
\* messages have been handed over).
SettledIsTold ==
    /\ pc = "poll" /\ ~sending
    /\ tcp = Table("TCP") /\ sctp = Table("SCTP") /\ Actual # Zero
    => /\ \A s \in config : shown[s] = Status(s, Actual)
       /\ \A p \in Paths :
             LET r == Report(p, config, Actual)
             IN  r = NoReport \/ lost[p] \/ ComesTo(p, r)

\* When connections come and go no more, the alarm system comes to show the
\* status of every service, unless no service has a connection.
AlarmsSettle ==
    <>[][FALSE]_net => <>[](Actual = Zero \/ \A s \in config : shown[s] = Status(s, Actual))

\* And ATOM comes to have both reports, but for one that went down with a
\* connection after TCP had taken it: Request is repeated until it succeeds.
ReportsSettle ==
    <>[][FALSE]_net =>
        <>[](Actual = Zero \/ \A p \in Paths :
                lost[p] \/ Report(p, config, Actual) \in {NoReport, atom[p]})
=============================================================================
