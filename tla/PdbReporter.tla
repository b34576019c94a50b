----------------------------- MODULE PdbReporter -----------------------------
(***************************************************************************)
(* The PdbReporter thread.  The processes of the node report the state of   *)
(* their database connections by UDP; the thread keeps T_PCF_PDB_STATUS up   *)
(* to date, writes a row only when the reported state differs from what it  *)
(* remembers (mapItems_), and raises an alarm when the state of processes   *)
(* it knows changes.                                                        *)
(*                                                                          *)
(* An item is a database a process is connected to.  Of its state only that *)
(* it has one of the Values is kept; nodeId is the node's own.  The thread  *)
(* handles one message at a time, and only it writes the table.  Items of    *)
(* the local databases, which isPGLocalDB skips, are left out; a process     *)
(* has at least one other.                                                  *)
(***************************************************************************)
EXTENDS Naturals, Sequences

CONSTANTS
    Procs,        \* processes that report
    Keys,         \* the items: <process, database name>
    ProcOf,       \* the process of each item
    Values,       \* states of an item: its ACTIVE and CONN counts
    None,         \* no such item in a map, no such row in the table
    ResetPeriod,  \* ticks between two calls of mapItems_.clear() by the clock
    GuardPeriod,  \* ticks in which an alarm suppresses the next
    MaxInbox,     \* messages the socket holds
    MaxFaults     \* messages of which a statement fails, silent deaths, at most

ASSUME ReportAssumption ==
    /\ ProcOf \in [Keys -> Procs]
    /\ None \notin Values
    /\ ResetPeriod \in Nat \ {0}
    /\ GuardPeriod \in Nat \ {0}
    /\ MaxInbox \in Nat \ {0}
    /\ MaxFaults \in Nat

\* The processes' own connections, and the messages that are on the way.
VARIABLES
    conn,         \* the state of each item, None for those of a dead process
    inbox         \* the messages in the socket

VARIABLES
    up,           \* the thread is in its loop
    mem,          \* mapItems_
    rows,         \* the rows of T_PCF_PDB_STATUS of this node
    resetAge,     \* time since lastResetT_
    guardAge,     \* time since alarmGuardT_
    faults        \* messages of which a statement has failed, silent deaths

sources == <<conn, inbox>>
ages == <<resetAge, guardAge>>
vars == <<sources, up, mem, rows, ages, faults>>

Items == [Keys -> Values \cup {None}]
Nothing == [k \in Keys |-> None]
KeysOf(p) == {k \in Keys : ProcOf[k] = p}

\* A report carries the state of all the items of its process; one without
\* items says that the process ends.
Message == [proc : Procs, state : Items]

Fault == faults < MaxFaults /\ faults' = faults + 1
NoFault == UNCHANGED faults

Init ==
    /\ conn = Nothing
    /\ inbox = <<>>
    /\ up = FALSE
    /\ mem = Nothing
    /\ rows \in Items
    /\ resetAge = ResetPeriod
    /\ guardAge = GuardPeriod
    /\ faults = 0

(***************************************************************************)
(* The processes.                                                          *)
(***************************************************************************)
\* A process starts, or its connections change.
Connect(p) ==
    /\ \E s \in [KeysOf(p) -> Values] :
         conn' = [k \in Keys |-> IF ProcOf[k] = p THEN s[k] ELSE conn[k]]
    /\ UNCHANGED <<inbox, up, mem, rows, ages, faults>>

StateOf(p) == [k \in Keys |-> IF ProcOf[k] = p THEN conn[k] ELSE None]
Alive(p) == \E k \in KeysOf(p) : conn[k] # None

\* The regular report.  A full socket, or none at all, loses it.
Report(p) ==
    /\ Alive(p)
    /\ up
    /\ Len(inbox) < MaxInbox
    /\ inbox' = Append(inbox, [proc |-> p, state |-> StateOf(p)])
    /\ UNCHANGED <<conn, up, mem, rows, ages, faults>>

\* The process ends and says so; or it dies without a word, or its last
\* message is lost.
End(p) ==
    /\ Alive(p)
    /\ conn' = [k \in Keys |-> IF ProcOf[k] = p THEN None ELSE conn[k]]
    /\ \/ /\ up => Len(inbox) < MaxInbox
          /\ inbox' = IF up THEN Append(inbox, [proc |-> p, state |-> Nothing])
                            ELSE inbox
          /\ NoFault
       \/ /\ Fault
          /\ UNCHANGED inbox
    /\ UNCHANGED <<up, mem, rows, ages>>

(***************************************************************************)
(* The thread.                                                             *)
(***************************************************************************)
\* deleteNodeDB: the rows of the node go; the outcome is only logged.
DeleteNode ==
    \/ rows' = Nothing /\ NoFault
    \/ UNCHANGED rows /\ Fault

Start ==
    /\ ~up
    /\ up' = TRUE
    /\ mem' = Nothing
    /\ resetAge' = ResetPeriod
    /\ guardAge' = GuardPeriod
    /\ inbox' = <<>>
    /\ DeleteNode
    /\ UNCHANGED conn

\* Variation: the socket keeps what it holds.
ExitKeepsSocket ==
    /\ up
    /\ up' = FALSE
    /\ DeleteNode
    /\ UNCHANGED <<sources, mem, ages>>

\* Recv fails, or bRunf_ is false; the thread deletes its rows on the way out.
Exit ==
    /\ up
    /\ up' = FALSE
    /\ inbox' = <<>>
    /\ DeleteNode
    /\ UNCHANGED <<conn, mem, ages>>

Crash ==
    /\ up
    /\ up' = FALSE
    /\ inbox' = <<>>
    /\ UNCHANGED <<conn, mem, rows, ages, faults>>

\* Variation: the memory is never emptied by the clock.
ResetMemoryNever(after) == mem' = after /\ UNCHANGED resetAge

\* forceMemoryReset, at the end of every turn of the loop, on the memory that
\* the turn leaves.
ResetMemory(after) ==
    IF resetAge = ResetPeriod
    THEN mem' = Nothing /\ resetAge' = 0
    ELSE mem' = after /\ UNCHANGED resetAge

Known(m) == {k \in Keys : m[k] # None}

\* Variation: the memory stays as it is.
ProcessEndedRemembered(m) ==
    /\ \/ /\ rows' = [k \in Keys |-> IF ProcOf[k] = m.proc THEN None ELSE rows[k]]
          /\ NoFault
       \/ UNCHANGED rows /\ Fault
    /\ ResetMemory(mem)
    /\ UNCHANGED guardAge

\* Variation: only the memory goes.
ProcessEndedInMemory(m) ==
    /\ ResetMemory(Nothing)
    /\ UNCHANGED <<rows, guardAge, faults>>

\* A message without items: deleteProcDB, and the memory of every process goes.
ProcessEnded(m) ==
    /\ \/ /\ rows' = [k \in Keys |-> IF ProcOf[k] = m.proc THEN None ELSE rows[k]]
          /\ NoFault
       \/ UNCHANGED rows /\ Fault
    /\ ResetMemory(Nothing)
    /\ UNCHANGED guardAge

\* The items that isEqual does not find.
Changed(m) == {k \in Known(m.state) : mem[k] # m.state[k]}

\* Variation: the size of the map is not looked at.
AlarmAlways(changed, after) ==
    IF changed # {} /\ guardAge = GuardPeriod
    THEN guardAge' = 0
    ELSE UNCHANGED guardAge

\* alarmReport, if the map has not grown and the last alarm is long enough ago.
Alarm(changed, after) ==
    IF changed # {} /\ Known(after) = Known(mem) /\ guardAge = GuardPeriod
    THEN guardAge' = 0
    ELSE UNCHANGED guardAge

\* A message with items.  Each changed item is updated, or inserted, or deleted
\* and inserted; when that fails for the items of Failed, nothing has happened
\* to them or, for those of Lost, the delete has.  They are not remembered.
Stored(m, Failed) ==
    [k \in Keys |-> IF k \in Changed(m) \ Failed THEN m.state[k] ELSE mem[k]]

StoreItems(m, Failed, Lost) ==
    /\ IF Failed = {} THEN NoFault ELSE Fault
    /\ rows' = [k \in Keys |-> IF k \in Changed(m) \ Failed THEN m.state[k]
                               ELSE IF k \in Lost THEN None ELSE rows[k]]
    /\ Alarm(Changed(m), Stored(m, Failed))
    /\ ResetMemory(Stored(m, Failed))

ItemsReported(m) ==
    \E Failed \in SUBSET Changed(m) : \E Lost \in SUBSET Failed :
        StoreItems(m, Failed, Lost)

\* Recv and update().
Receive ==
    /\ up
    /\ inbox # <<>>
    /\ inbox' = Tail(inbox)
    /\ IF Known(Head(inbox).state) = {}
       THEN ProcessEnded(Head(inbox))
       ELSE ItemsReported(Head(inbox))
    /\ UNCHANGED <<conn, up>>

\* The clock, as far as the thread looks at it.
Tick ==
    /\ resetAge < ResetPeriod \/ guardAge < GuardPeriod
    /\ resetAge' = IF resetAge < ResetPeriod THEN resetAge + 1 ELSE resetAge
    /\ guardAge' = IF guardAge < GuardPeriod THEN guardAge + 1 ELSE guardAge
    /\ UNCHANGED <<sources, up, mem, rows, faults>>

Next ==
    \/ \E p \in Procs : Connect(p) \/ Report(p) \/ End(p)
    \/ Start \/ Exit \/ Crash \/ Receive \/ Tick

Spec == Init /\ [][Next]_vars

\* Live processes report again and again, the thread reads, time passes.
Fairness ==
    /\ \A p \in Procs : SF_vars(Report(p))
    /\ WF_vars(Receive)
    /\ WF_vars(Tick)

FairSpec == Spec /\ Fairness

-----------------------------------------------------------------------------
TypeOK ==
    /\ conn \in Items
    /\ inbox \in Seq(Message)
    /\ Len(inbox) <= MaxInbox
    /\ up \in BOOLEAN
    /\ up \/ inbox = <<>>
    /\ mem \in Items
    /\ rows \in Items
    /\ resetAge \in 0..ResetPeriod
    /\ guardAge \in 0..GuardPeriod
    /\ faults \in 0..MaxFaults

\* What the thread remembers of an item is in the table, so that an item it
\* skips needs no writing: through the deaths and restarts of processes and of
\* the thread itself, until a statement fails.
MemoryIsStored ==
    (up /\ faults = 0) => \A k \in Keys : mem[k] # None => rows[k] = mem[k]

AlarmStep == guardAge = GuardPeriod /\ guardAge' = 0

ChangeOfKnown ==
    LET m == Head(inbox).state
    IN  /\ \E k \in Known(m) : mem[k] \notin {None, m[k]}
        /\ Known(m) \subseteq Known(mem)

\* The alarm tells of a change: an item that was remembered with another state
\* has been reported, and none that was not remembered has.  Not so after a
\* failed statement: the map does not grow with a new item whose insert fails.
AlarmMeansChange == [][AlarmStep /\ faults' = 0 => ChangeOfKnown]_vars

\* A process that stays as it is gets its state into the table, whatever has
\* failed before: the memory that hides a lost row is emptied by the clock.
RowsFollow ==
    \A p \in Procs : \A s \in [KeysOf(p) -> Values] :
        <>[](up /\ \A k \in KeysOf(p) : conn[k] = s[k])
        => <>[](\A k \in KeysOf(p) : rows[k] = s[k])

\* A process that has ended leaves the table, however late its last reports
\* are read, if no statement has failed and it has not died silently.
RowsLeave ==
    \A p \in Procs :
        (<>[](up /\ ~Alive(p)) /\ [](faults = 0))
        => <>[](\A k \in KeysOf(p) : rows[k] = None)
=============================================================================
