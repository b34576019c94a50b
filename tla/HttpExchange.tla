---------------------------- MODULE HttpExchange ----------------------------
(***************************************************************************)
(* HttpClient with HttpRequest::Send, HttpResponse::Receive and             *)
(* EGWTcpClient: one connection that is opened when it is needed, kept open  *)
(* and given up only when a send on it fails.  An answer that does not come  *)
(* within 5 s is given up, too, but its connection is kept, so that it is    *)
(* read, once it comes, as the answer to the next request.                   *)
(*                                                                          *)
(* An answer is a unit that comes as a whole, and only that it is there      *)
(* matters: nobody looks at its status.  A module that uses the client       *)
(* EXTENDS this one and says what its messages are.                          *)
(***************************************************************************)
EXTENDS Naturals, Sequences

CONSTANT MaxLate  \* answers given up on one connection, at most

ASSUME LateAssumption == MaxLate \in Nat

VARIABLES
    conn,     \* "up"; "gone": the peer has closed it; "down": there is none, or
              \* the peer has refused data on it
    waiting,  \* between Request and the end of Response
    wire,     \* requests on this connection that the peer has not taken
    unread,   \* answers on this connection that have not been read
    late      \* history: the answers given up on this connection

http == <<conn, waiting, wire, unread, late>>

HttpInit ==
    conn = "down" /\ waiting = FALSE /\ wire = <<>> /\ unread = 0 /\ late = 0

HttpType(Messages) ==
    /\ conn \in {"down", "up", "gone"}
    /\ waiting \in BOOLEAN
    /\ wire \in Seq(Messages)
    /\ unread \in Nat /\ late \in Nat

\* No send and no receive succeeds any more.
Disconnect == conn' = "down" /\ wire' = <<>> /\ unread' = 0 /\ late' = 0

\* EGWSocket::Send on the connection as it is.
SendKept(m) ==
    /\ conn = "up"
    /\ wire' = Append(wire, m) /\ waiting' = TRUE
    /\ UNCHANGED <<conn, unread, late>>

\* The peer has closed, but the kernel takes the data all the same.
SendIntoVoid ==
    /\ conn = "gone"
    /\ Disconnect /\ waiting' = TRUE

\* Variation: the request is sent once more on the connection at hand.
SendAnewTwice(m) ==
    /\ conn \in {"down", "gone"}
    /\ conn' = "up" /\ wire' = <<m, m>> /\ unread' = 0 /\ late' = 0
    /\ waiting' = TRUE

\* The send fails, or there is no connection: Close, Connect, send again.
SendAnew(m) ==
    /\ conn \in {"down", "gone"}
    /\ conn' = "up" /\ wire' = <<m>> /\ unread' = 0 /\ late' = 0
    /\ waiting' = TRUE

\* Nobody listens, or the second send fails, too.
SendFails ==
    /\ conn \in {"down", "gone"}
    /\ Disconnect /\ UNCHANGED waiting

\* Variation: an answer is taken for there before it has come.
ReceiveAnswerEarly ==
    /\ waiting
    /\ unread' = unread - 1 /\ waiting' = FALSE
    /\ UNCHANGED <<conn, wire, late>>

\* HttpResponse::Receive: what has come first is the answer.
ReceiveAnswer ==
    /\ waiting /\ unread > 0
    /\ unread' = unread - 1 /\ waiting' = FALSE
    /\ UNCHANGED <<conn, wire, late>>

\* Nothing comes within 5 s, or the connection has ended: it is not closed.
ReceiveFails ==
    /\ waiting /\ unread = 0
    /\ conn = "up" => late < MaxLate
    /\ late' = IF conn = "up" THEN late + 1 ELSE late
    /\ waiting' = FALSE
    /\ UNCHANGED <<conn, wire, unread>>

\* The peer takes a request and answers it.
PeerAnswers ==
    /\ conn = "up" /\ wire # <<>>
    /\ wire' = Tail(wire) /\ unread' = unread + 1
    /\ UNCHANGED <<conn, waiting, late>>

\* The peer closes the connection, with whatever it has not taken.
PeerCloses ==
    /\ conn = "up"
    /\ conn' = "gone" /\ wire' = <<>>
    /\ UNCHANGED <<waiting, unread, late>>

\* The answers that are still to be read are those given up and the one waited
\* for: after n timeouts on a connection every answer read is that of the n-th
\* request before (HttpResponse::Receive returns without closing).
BehindByLate ==
    conn = "up" => Len(wire) + unread = IF waiting THEN late + 1 ELSE late
=============================================================================
