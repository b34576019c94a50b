----------------------------- MODULE RequestReply -----------------------------
(***************************************************************************)
(* What the job server promises its clients.  Requests are taken in the      *)
(* order in which they come; each is worked on by itself, is decided once,   *)
(* and puts at most one row in a table, none if the code is 500.  The row    *)
(* has the request's own number, or, where requests share a job, that of one *)
(* that was worked on at the same time, or a mixture.  Of the threads, the   *)
(* deque and the shared mdn_ the client sees no more than this.              *)
(***************************************************************************)
EXTENDS Naturals, Sequences

CONSTANTS Reqs, Torn, None, MdnOf,
          Room        \* requests that wait, at most

VARIABLES
    queue,   \* the requests that wait
    phase,   \* where each request is
    met,     \* history: the requests worked on while it was, itself included
    row,     \* the number in its row, None without a row
    code     \* the status code, 0 before it is decided

vars == <<queue, phase, met, row, code>>

Move(r, from, to) == phase[r] = from /\ phase' = [phase EXCEPT ![r] = to]

Init ==
    /\ queue = <<>>
    /\ phase = [r \in Reqs |-> "away"]
    /\ met = [r \in Reqs |-> {}]
    /\ row = [r \in Reqs |-> None]
    /\ code = [r \in Reqs |-> 0]

Come(r) ==
    /\ Len(queue) < Room
    /\ Move(r, "away", "waiting")
    /\ queue' = Append(queue, r)
    /\ UNCHANGED <<met, row, code>>

Take ==
    /\ queue # <<>>
    /\ Move(Head(queue), "waiting", "working")
    /\ queue' = Tail(queue)
    /\ UNCHANGED <<met, row, code>>

\* The first of those that wait is sent away, or all are.
TurnAway ==
    /\ queue # <<>>
    /\ \/ /\ Move(Head(queue), "waiting", "away")
          /\ queue' = Tail(queue)
       \/ /\ phase' = [r \in Reqs |-> IF phase[r] = "waiting" THEN "away" ELSE phase[r]]
          /\ queue' = <<>>
    /\ UNCHANGED <<met, row, code>>

\* r begins to use a job it shares with those in S.
Meet(r, S) ==
    /\ \A q \in S \cup {r} : phase[q] = "working"
    /\ met' = [q \in Reqs |-> IF q = r THEN {r}
                              ELSE IF q \in S THEN met[q] \cup {r} ELSE met[q]]
    /\ UNCHANGED <<queue, phase, row, code>>

Numbers(r) ==
    {MdnOf[q] : q \in met[r] \cup {r}} \cup (IF met[r] = {} THEN {} ELSE {Torn})

\* The request is done, with or without a row, or refused without one.
Decide(r) ==
    /\ Move(r, "working", "decided")
    /\ \/ /\ \E n \in Numbers(r) \cup {None} : row' = [row EXCEPT ![r] = n]
          /\ code' = [code EXCEPT ![r] = 200]
       \/ /\ code' = [code EXCEPT ![r] = 500]
          /\ UNCHANGED row
    /\ UNCHANGED <<queue, met>>

\* The request cannot be read.
GiveUp(r) == Move(r, "working", "over") /\ UNCHANGED <<queue, met, row, code>>

\* The answer is sent, or lost.
Reply(r) ==
    /\ Move(r, "decided", "over")
    /\ met' = [met EXCEPT ![r] = {}]
    /\ row' = [row EXCEPT ![r] = None]
    /\ code' = [code EXCEPT ![r] = 0]
    /\ UNCHANGED queue

\* The connection is closed; the client may come again.
Leave(r) == Move(r, "over", "away") /\ UNCHANGED <<queue, met, row, code>>

Next ==
    \/ Take \/ TurnAway
    \/ \E r \in Reqs : \/ Come(r) \/ Decide(r) \/ GiveUp(r) \/ Reply(r) \/ Leave(r)
                       \/ \E S \in SUBSET Reqs : Meet(r, S)

Spec == Init /\ [][Next]_vars
=============================================================================
