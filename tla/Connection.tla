------------------------------ MODULE Connection ------------------------------
(***************************************************************************)
(* How a message is sent to the conodes and how its promise settles        *)
(* (src/lib/cothority/network/connection.ts and websocket-adapter.ts).     *)
(*                                                                         *)
(* Every send of a WebSocketConnection opens a websocket of its own and    *)
(* returns a promise.  The promise is settled by whatever callback of the  *)
(* socket comes first: a reply, an error or the end of the connection;     *)
(* a timer ends the connection if nothing arrives.  RosterWSConnection     *)
(* wraps this for a roster of nodes.  The callbacks of one socket come in  *)
(* the order of the browser, but a late reply, the timer and the node's    *)
(* end of the connection race each other.                                  *)
(*                                                                         *)
(* The nodes and the browser's websocket are external.  The websocket      *)
(* delivers messages only while it is open, and an error callback is       *)
(* always followed by a close callback.  A text message is ignored by the  *)
(* adapter, so it is no step at all.                                       *)
(***************************************************************************)
EXTENDS Naturals, FiniteSets

CONSTANTS
  Nodes,       \* the conodes
  Requests,    \* the calls of RosterWSConnection.send
  Roster,      \* Roster[r]: the nodes that request r may be sent to
  Registered   \* the requests whose message and reply types are registered

ASSUME RosterAssumption == Roster \in [Requests -> SUBSET Nodes]
ASSUME RegisteredAssumption == Registered \subseteq Requests

VARIABLES
  sock,     \* sock[r]: the websocket of request r
  timer,    \* timer[r]: its timer
  promise,  \* promise[r]: the promise of WebSocketConnection.send
  result,   \* result[r]: the promise of RosterWSConnection.send
  code,     \* code[r]: the code the websocket was closed with, 0 before
  tried,    \* tried[r]: the nodes that request r was sent to (history)
  served,   \* served[r]: the nodes that got the bytes of request r
  got       \* got[r]: what onMessage was called with (history)

vars == <<sock, timer, promise, result, code, tried, served, got>>

\* "failing": told to close before it was open; "failed": between the error
\* callback and the close callback.
Sockets  == {"none", "connecting", "open", "failing", "failed", "closing", "closed"}
Timers   == {"none", "armed", "cleared", "fired"}
Promises == {"none", "pending", "resolved", "rejected"}

\* A normal end, a lost connection, and the client's own code for a timeout
\* (which stands for every other code of a node as well).
Normal == 1000
Lost == 1006
TimedOut == 4000
Codes == {Normal, Lost, TimedOut}

TypeOK ==
  /\ sock \in [Requests -> Sockets]
  /\ timer \in [Requests -> Timers]
  /\ promise \in [Requests -> Promises]
  /\ result \in [Requests -> Promises]
  /\ code \in [Requests -> Codes \cup {0}]
  /\ \A r \in Requests : tried[r] \subseteq Roster[r] /\ served[r] \subseteq tried[r]
  /\ got \in [Requests -> {"nothing", "reply", "garbage"}]

Init ==
  /\ sock = [r \in Requests |-> "none"]
  /\ timer = [r \in Requests |-> "none"]
  /\ promise = [r \in Requests |-> "none"]
  /\ result = [r \in Requests |-> "none"]
  /\ code = [r \in Requests |-> 0]
  /\ tried = [r \in Requests |-> {}]
  /\ served = [r \in Requests |-> {}]
  /\ got = [r \in Requests |-> "nothing"]

\* resolve() and reject() have an effect only on a pending promise.
Settle(r, outcome) ==
  promise' = [promise EXCEPT ![r] = IF @ = "pending" THEN outcome ELSE @]

------------------------------------------------------------------------------
(* RosterWSConnection. *)

\* The nodes are shuffled and the request is sent to the first one.
Send(r, n) ==
  /\ result[r] = "none"
  /\ r \in Registered
  /\ n \in Roster[r]
  /\ tried' = [tried EXCEPT ![r] = @ \cup {n}]
  /\ sock' = [sock EXCEPT ![r] = "connecting"]
  /\ timer' = [timer EXCEPT ![r] = "armed"]
  /\ promise' = [promise EXCEPT ![r] = "pending"]
  /\ result' = [result EXCEPT ![r] = "pending"]
  /\ UNCHANGED <<code, served, got>>

\* A message that is not registered, or a roster without nodes.
SendRejected(r) ==
  /\ result[r] = "none"
  /\ r \notin Registered \/ Roster[r] = {}
  /\ result' = [result EXCEPT ![r] = "rejected"]
  /\ UNCHANGED <<sock, timer, promise, code, tried, served, got>>

\* The await in send ends with the reply.
Resolve(r) ==
  /\ result[r] = "pending" /\ promise[r] = "resolved"
  /\ result' = [result EXCEPT ![r] = "resolved"]
  /\ UNCHANGED <<sock, timer, promise, code, tried, served, got>>

\* Bug: the request is sent to the next node, as long as there is one.
RejectAfterAll(r) ==
  /\ result[r] = "pending" /\ promise[r] = "rejected"
  /\ \/ /\ Roster[r] = tried[r]
        /\ result' = [result EXCEPT ![r] = "rejected"]
        /\ UNCHANGED <<sock, timer, promise, code, tried, served, got>>
     \/ \E n \in Roster[r] \ tried[r] :
          /\ sock[r] = "closed"
          /\ tried' = [tried EXCEPT ![r] = @ \cup {n}]
          /\ sock' = [sock EXCEPT ![r] = "connecting"]
          /\ timer' = [timer EXCEPT ![r] = "armed"]
          /\ promise' = [promise EXCEPT ![r] = "pending"]
          /\ UNCHANGED <<result, code, served, got>>

\* The await in send throws: the first failure is the result.
Reject(r) ==
  /\ result[r] = "pending" /\ promise[r] = "rejected"
  /\ result' = [result EXCEPT ![r] = "rejected"]
  /\ UNCHANGED <<sock, timer, promise, code, tried, served, got>>

------------------------------------------------------------------------------
(* The callbacks of a websocket, and its timer. *)

\* Bug: the address is read when the socket opens; another send changed it.
OpenedElsewhere(r) ==
  /\ sock[r] = "connecting"
  /\ sock' = [sock EXCEPT ![r] = "open"]
  /\ \E q \in Requests : served' = [served EXCEPT ![r] = tried[q]]
  /\ UNCHANGED <<timer, promise, result, code, tried, got>>

Opened(r) ==
  /\ sock[r] = "connecting"
  /\ sock' = [sock EXCEPT ![r] = "open"]
  /\ served' = [served EXCEPT ![r] = tried[r]]
  /\ UNCHANGED <<timer, promise, result, code, tried, got>>

\* Bug: the socket is left open after the reply.
MessageLeavesOpen(r, kind) ==
  /\ sock[r] = "open"
  /\ got[r] = "nothing"
  /\ got' = [got EXCEPT ![r] = kind]
  /\ timer' = [timer EXCEPT ![r] = "cleared"]
  /\ Settle(r, IF kind = "reply" THEN "resolved" ELSE "rejected")
  /\ UNCHANGED <<sock, result, code, tried, served>>

\* A binary message, which can be decoded ("reply") or not ("garbage").
Message(r, kind) ==
  /\ sock[r] = "open"
  /\ got' = [got EXCEPT ![r] = kind]
  /\ timer' = [timer EXCEPT ![r] = "cleared"]
  /\ Settle(r, IF kind = "reply" THEN "resolved" ELSE "rejected")
  /\ sock' = [sock EXCEPT ![r] = "closing"]
  /\ UNCHANGED <<result, code, tried, served>>

\* Bug: the timer rejects the promise and leaves the socket to the node.
TimerFiresAndRejects(r) ==
  /\ timer[r] = "armed"
  /\ timer' = [timer EXCEPT ![r] = "fired"]
  /\ Settle(r, "rejected")
  /\ UNCHANGED <<sock, result, code, tried, served, got>>

\* 30 seconds after send: the socket is closed with code 4000, which has no
\* effect on a socket that is closed already.
TimerFires(r) ==
  /\ timer[r] = "armed"
  /\ timer' = [timer EXCEPT ![r] = "fired"]
  /\ sock' = [sock EXCEPT ![r] = CASE @ = "connecting" -> "failing"
                                   [] @ = "open" -> "closing"
                                   [] OTHER -> @]
  /\ UNCHANGED <<promise, result, code, tried, served, got>>

\* The error callback: the node cannot be reached, or the connection breaks.
Error(r) ==
  /\ sock[r] \in {"connecting", "open", "failing", "closing"}
  /\ sock' = [sock EXCEPT ![r] = "failed"]
  /\ timer' = [timer EXCEPT ![r] = IF @ = "armed" THEN "cleared" ELSE @]
  /\ Settle(r, "rejected")
  /\ UNCHANGED <<result, code, tried, served, got>>

\* How the websocket can have ended when the close callback comes: the node
\* ended it, with any code, perhaps crossing the client's own close.
MayClose(r, c) ==
  \/ sock[r] \in {"open", "closing"}
  \/ sock[r] = "failed" /\ c = Lost

\* Bug: the client's own close is not taken for a failure.
ClosedByPeerOnly(r, c) ==
  /\ MayClose(r, c)
  /\ sock' = [sock EXCEPT ![r] = "closed"]
  /\ code' = [code EXCEPT ![r] = c]
  /\ IF c \notin {Normal, TimedOut} THEN Settle(r, "rejected") ELSE UNCHANGED promise
  /\ UNCHANGED <<timer, result, tried, served, got>>

\* The close callback: every code but the normal one rejects.
Closed(r, c) ==
  /\ MayClose(r, c)
  /\ sock' = [sock EXCEPT ![r] = "closed"]
  /\ code' = [code EXCEPT ![r] = c]
  /\ IF c # Normal THEN Settle(r, "rejected") ELSE UNCHANGED promise
  /\ UNCHANGED <<timer, result, tried, served, got>>

\* The browser finishes what was begun, if need be after a timeout of its own.
Finish(r) ==
  /\ sock[r] \in {"failing", "failed", "closing"}
  /\ Error(r) \/ \E c \in Codes : Closed(r, c)

Next ==
  \E r \in Requests :
    \/ \E n \in Nodes : Send(r, n)
    \/ SendRejected(r)
    \/ Resolve(r)
    \/ Reject(r)
    \/ Opened(r)
    \/ \E kind \in {"reply", "garbage"} : Message(r, kind)
    \/ TimerFires(r)
    \/ Error(r)
    \/ \E c \in Codes : Closed(r, c)

\* Timers fire, promises run their continuations and the browser finishes a
\* close.  Nothing is assumed of the nodes or of the network.
Fairness ==
  \A r \in Requests :
    WF_vars(TimerFires(r)) /\ WF_vars(Finish(r)) /\ WF_vars(Resolve(r) \/ Reject(r))

Spec == Init /\ [][Next]_vars /\ Fairness

------------------------------------------------------------------------------
(* What a caller can rely on. *)

\* A reply that arrives before the timer fires is what the caller gets, and
\* after a timeout nothing but a failure, or nothing at all, is reported: the
\* race of the timer, the reply and the end of the connection has one winner.
ReplyOrTimeout ==
  \A r \in Requests :
    /\ got[r] = "reply" => promise[r] = "resolved" /\ timer[r] = "cleared"
    /\ promise[r] = "resolved" => got[r] = "reply"
    /\ timer[r] = "fired" => promise[r] # "resolved"

\* A request, which may be a transaction, reaches at most one node: a caller
\* that sees a failure has not caused a second submission.
AtMostOneNodeServes ==
  \A r \in Requests : Cardinality(served[r]) <= 1

\* Every request settles, unless its connection was ended normally (by the
\* node, since the client does so only after a message).
SettlesOrEndedNormally ==
  \A r \in Requests :
    result[r] = "pending" ~>
      \/ result[r] \in {"resolved", "rejected"}
      \/ code[r] = Normal /\ got[r] = "nothing"

\* No websocket stays open: whatever the node does, it is closed in the end.
SocketsGetClosed ==
  \A r \in Requests : sock[r] = "connecting" ~> sock[r] = "closed"

\* What the doc of IConnection.send says, "a promise resolving with the reply
\* on success, rejecting otherwise": every request settles.
EverySendSettles ==
  \A r \in Requests :
    result[r] = "pending" ~> result[r] \in {"resolved", "rejected"}

\* What the doc of RosterWSConnection says, "tries all nodes one after
\* another": a failure is reported only when all nodes were tried.
AllNodesTried ==
  \A r \in Registered : result[r] = "rejected" => tried[r] = Roster[r]

==============================================================================
