----------------------------- MODULE NetworkProofs -----------------------------
(***************************************************************************)
(* What holds of the two parts of the client that talk to the conodes, for *)
(* any nodes, rosters, keys and bounds.                                    *)
(*                                                                         *)
(* Connection: a request is sent at most once, because only a call without *)
(* a result is sent and the result is pending from then on; while its      *)
(* socket can still deliver a message the timer is armed, the promise is   *)
(* pending and nothing was received (Lifecycle), so the callback that      *)
(* takes a request out of these states is the only one that can settle its *)
(* promise with a reply.                                                   *)
(*                                                                         *)
(* ChainClient: the calls of getUpdateChain ask for the first block and    *)
(* then each for the last block of the answer before (Asks), so answers    *)
(* that are linked join to a chain that is (JoinedIsLinked), and what is   *)
(* verified of the joined chain is that it is linked (VerifyIs).  A proof  *)
(* that is verified has links that follow each other from the genesis      *)
(* block, whatever node put it together (ProofIsOfOneBlock); those of one  *)
(* node are refused only because the first change of the roster is         *)
(* verified with the roster of the latest block (RostersOfLinks).          *)
(***************************************************************************)
EXTENDS Connection, ChainClient, FiniteSetTheorems, SequenceTheorems, WellFoundedInduction, TLAPS


\* TypeOK bounds the nodes of each request, this adds that they are functions.
Histories ==
  /\ tried \in [Requests -> SUBSET Nodes]
  /\ served \in [Requests -> SUBSET Nodes]

\* Nothing was done for request r but, perhaps, to reject it.
Unsent(r) ==
  /\ sock[r] = "none" /\ timer[r] = "none" /\ promise[r] = "none"
  /\ tried[r] = {} /\ got[r] = "nothing"

\* Request r can still get a message, or was told to close before it could.
Waiting(r) == promise[r] = "pending" /\ got[r] = "nothing"

Lifecycle ==
  \A r \in Requests :
    /\ result[r] = "none" \/ sock[r] = "none" => Unsent(r)
    /\ sock[r] \in {"connecting", "open"} => Waiting(r) /\ timer[r] = "armed"
    /\ sock[r] = "failing" => Waiting(r) /\ timer[r] = "fired"

\* A request is sent to one node.
SentOnce == \A r \in Requests : \A m, n \in tried[r] : m = n

IInv ==
  /\ TypeOK
  /\ Histories
  /\ Lifecycle
  /\ SentOnce
  /\ ReplyOrTimeout

------------------------------------------------------------------------------
(* Initial states and steps. *)

\* Before the first call nothing was sent.
LEMMA InitEstablishes == Init => IInv
BY DEF Init, IInv, TypeOK, Histories, Lifecycle, Unsent, SentOnce, ReplyOrTimeout,
       Sockets, Timers, Promises

\* The actions keep the ranges of the variables.
LEMMA StepKeepsTypes ==
  ASSUME IInv, Next
  PROVE  TypeOK' /\ Histories'
<1> USE RosterAssumption DEF IInv, TypeOK, Histories, Sockets, Timers, Promises, Codes, Settle
<1>1. PICK r \in Requests :
        \/ \E n \in Nodes : Send(r, n)
        \/ SendRejected(r) \/ Resolve(r) \/ Reject(r) \/ Opened(r)
        \/ \E kind \in {"reply", "garbage"} : Message(r, kind)
        \/ TimerFires(r) \/ Error(r)
        \/ \E c \in Codes : Closed(r, c)
  BY DEF Next
<1>2. ASSUME NEW n \in Nodes, Send(r, n) PROVE TypeOK' /\ Histories'
  BY <1>2 DEF Send
<1>3. CASE SendRejected(r) \/ Resolve(r) \/ Reject(r)
  BY <1>3 DEF SendRejected, Resolve, Reject
<1>4. CASE Opened(r)
  BY <1>4 DEF Opened
<1>5. ASSUME NEW kind \in {"reply", "garbage"}, Message(r, kind) PROVE TypeOK' /\ Histories'
  BY <1>5 DEF Message
<1>6. CASE TimerFires(r)
  BY <1>6 DEF TimerFires
<1>7. CASE Error(r)
  BY <1>7 DEF Error
<1>8. ASSUME NEW c \in Codes, Closed(r, c) PROVE TypeOK' /\ Histories'
  BY <1>8 DEF Closed
<1>9. QED BY <1>1, <1>2, <1>3, <1>4, <1>5, <1>6, <1>7, <1>8

\* The calls of RosterWSConnection keep the life cycle of every request.
LEMMA CallsKeepLifecycle ==
  ASSUME IInv, NEW r \in Requests,
         (\E n \in Nodes : Send(r, n)) \/ SendRejected(r) \/ Resolve(r) \/ Reject(r)
  PROVE  Lifecycle' /\ SentOnce' /\ ReplyOrTimeout'
<1> USE DEF IInv, TypeOK, Histories, Lifecycle, Unsent, Waiting, SentOnce, ReplyOrTimeout
<1>1. ASSUME NEW n \in Nodes, Send(r, n) PROVE Lifecycle' /\ SentOnce' /\ ReplyOrTimeout'
  BY <1>1 DEF Send
<1>2. CASE SendRejected(r)
  BY <1>2 DEF SendRejected
<1>3. CASE Resolve(r)
  BY <1>3 DEF Resolve
<1>4. CASE Reject(r)
  BY <1>4 DEF Reject
<1>5. QED BY <1>1, <1>2, <1>3, <1>4

\* The callbacks of a websocket and its timer keep it as well.
LEMMA CallbacksKeepLifecycle ==
  ASSUME IInv, NEW r \in Requests,
         \/ Opened(r) \/ TimerFires(r) \/ Error(r)
         \/ \E kind \in {"reply", "garbage"} : Message(r, kind)
         \/ \E c \in Codes : Closed(r, c)
  PROVE  Lifecycle' /\ SentOnce' /\ ReplyOrTimeout'
<1> USE DEF IInv, TypeOK, Histories, Lifecycle, Unsent, Waiting, SentOnce, ReplyOrTimeout,
            Settle
<1>1. CASE Opened(r)
  BY <1>1 DEF Opened
<1>2. CASE TimerFires(r)
  BY <1>2 DEF TimerFires
<1>3. CASE Error(r)
  BY <1>3 DEF Error
<1>4. ASSUME NEW kind \in {"reply", "garbage"}, Message(r, kind)
      PROVE Lifecycle' /\ SentOnce' /\ ReplyOrTimeout'
  BY <1>4 DEF Message
<1>5. ASSUME NEW c \in Codes, Closed(r, c)
      PROVE Lifecycle' /\ SentOnce' /\ ReplyOrTimeout'
  BY <1>5 DEF Closed, MayClose
<1>6. QED BY <1>1, <1>2, <1>3, <1>4, <1>5

\* The steps of the connections keep the invariant.
LEMMA Inductive == IInv /\ [Next]_vars => IInv'
<1>1. ASSUME IInv, Next PROVE IInv'
  <2>1. Lifecycle' /\ SentOnce' /\ ReplyOrTimeout'
    BY <1>1, CallsKeepLifecycle, CallbacksKeepLifecycle DEF Next
  <2>2. QED BY <1>1, <2>1, StepKeepsTypes DEF IInv
<1>2. ASSUME IInv, UNCHANGED vars PROVE IInv'
  BY <1>2 DEF IInv, TypeOK, Histories, Lifecycle, Unsent, Waiting, SentOnce, ReplyOrTimeout, vars
<1>3. QED BY <1>1, <1>2

\* The nodes that got a request are among those it was sent to.
LEMMA ServedAreFew == IInv => AtMostOneNodeServes
<1> SUFFICES ASSUME IInv, NEW r \in Requests PROVE Cardinality(served[r]) <= 1
  BY DEF AtMostOneNodeServes
<1>1. \A m, n \in served[r] : m = n
  BY DEF IInv, TypeOK, SentOnce
<1>2. CASE served[r] = {}
  <2>1. Cardinality({}) = 0
    BY FS_EmptySet
  <2>2. QED BY <1>2, <2>1
<1>3. CASE served[r] # {}
  <2>1. PICK n : served[r] = {n}
    BY <1>1, <1>3
  <2>2. Cardinality({n}) = 1
    BY FS_Singleton
  <2>3. QED BY <2>1, <2>2
<1>4. QED BY <1>2, <1>3

------------------------------------------------------------------------------
(* What holds in every behaviour of the connections. *)

\* Type correctness of the connections: what the callbacks of WebSocketConnection
\* and the calls of RosterWSConnection write stays in range.
THEOREM TypesCorrect == Spec => []TypeOK
<1>1. IInv => TypeOK
  BY DEF IInv
<1>2. QED BY <1>1, InitEstablishes, Inductive, PTL DEF Spec

\* The race of the reply, the timer and the end of the connection in
\* WebSocketConnection.send has one winner, for any number of requests.
THEOREM RaceHasOneWinner == Spec => []ReplyOrTimeout
<1>1. IInv => ReplyOrTimeout
  BY DEF IInv
<1>2. QED BY <1>1, InitEstablishes, Inductive, PTL DEF Spec

\* A send of RosterWSConnection reaches at most one node of any roster: a
\* caller that retries after a failure is the only one who submits twice.
THEOREM OneNodeServes == Spec => []AtMostOneNodeServes
BY InitEstablishes, Inductive, ServedAreFew, PTL DEF Spec


------------------------------------------------------------------------------
(* ChainClient: the way through the chain. *)

\* Every set of numbers that is not empty has a least one.
LEMMA LeastNumber ==
  ASSUME NEW T \in SUBSET Nat, T # {}
  PROVE  \E x \in T : \A y \in T : x <= y
<1>1. PICK x \in T : \A y \in T : ~ (<<y, x>> \in OpToRel(<, Nat))
  BY NatLessThanWellFounded, WFMin
<1>2. \A y \in T : ~ (y < x)
  BY <1>1 DEF OpToRel
<1>3. QED BY <1>2

\* The furthest of the links of a block that is not the last one.
LEMMA FurthestLink ==
  ASSUME NEW h \in Nat, NEW i \in 1 .. h, i # h
  PROVE  Max(LinksOf(i, h)) \in LinksOf(i, h)
<1>1. Span \in Nat /\ Span > 1
  BY BoundsAssumption
<1> DEFINE far == (i - 1) % Span = 0 /\ i + Span <= h
           top == IF far THEN i + Span ELSE i + 1
<1>2. top \in LinksOf(i, h)
  BY <1>1 DEF LinksOf
<1>3. \A j \in LinksOf(i, h) : top >= j
  BY <1>1 DEF LinksOf
<1>4. QED BY <1>2, <1>3 DEF Max

\* What the definition of WayTo says of the function, and that there is one.
Way(f, h, i) == IF i = h THEN <<i>> ELSE <<i>> \o f[Max(LinksOf(i, h))]
IsWay(f, h, m) == f = [i \in m .. h |-> Way(f, h, i)]

\* The recursive function that WayTo chooses exists.
LEMMA WayExists ==
  ASSUME NEW h \in Nat, NEW d \in Nat, d < h
  PROVE  \E f : IsWay(f, h, h - d)
<1> DEFINE bad == {n \in Nat : n < h /\ ~ \E f : IsWay(f, h, h - n)}
<1>1. SUFFICES ASSUME bad # {} PROVE FALSE
  OBVIOUS
<1>2. PICK n \in bad : \A k \in bad : n <= k
  <2>1. bad \in SUBSET Nat
    OBVIOUS
  <2>2. QED BY <1>1, <2>1, LeastNumber
<1>3. CASE n = 0
  <2> DEFINE f == [i \in h .. h |-> <<i>>]
  <2>1. IsWay(f, h, h)
    BY DEF IsWay, Way
  <2>2. QED BY <1>2, <1>3, <2>1
<1>4. CASE n # 0
  <2> DEFINE m == h - n
  <2>1. n \in Nat /\ n - 1 \in Nat /\ n - 1 < h /\ m \in 1 .. h /\ m < h /\ h - (n - 1) = m + 1
    BY <1>2, <1>4
  <2>2. PICK g : IsWay(g, h, m + 1)
    <3>1. n - 1 \notin bad
      <4> HIDE DEF bad
      <4>1. ~ (n <= n - 1)
        BY <2>1
      <4>2. QED BY <1>2, <4>1
    <3>2. QED BY <2>1, <3>1
  <2> DEFINE f == [i \in m .. h |-> IF i = m THEN Way(g, h, m) ELSE g[i]]
  <2>3. f[m] = Way(g, h, m) /\ \A i \in m + 1 .. h : f[i] = g[i] /\ g[i] = Way(g, h, i)
    <3> HIDE DEF m
    <3>1. \A i \in m + 1 .. h : g[i] = Way(g, h, i)
      BY <2>2 DEF IsWay
    <3>2. m \in m .. h /\ \A i \in m + 1 .. h : i \in m .. h /\ i # m
      BY <2>1
    <3>3. QED BY <3>1, <3>2
  <2>4. f = [i \in m .. h |-> f[i]]
    OBVIOUS
  <2> HIDE DEF f
  <2>5. ASSUME NEW i \in m .. h PROVE f[i] = Way(f, h, i)
    <3>1. CASE i = h
      <4>1. i \in m + 1 .. h
        BY <2>1, <3>1
      <4>2. QED BY <2>3, <3>1, <4>1 DEF Way
    <3>2. CASE i # h
      <4>1. Max(LinksOf(i, h)) \in m + 1 .. h
        <5>1. i \in 1 .. h
          BY <2>1
        <5>2. Max(LinksOf(i, h)) \in LinksOf(i, h)
          BY <3>2, <5>1, FurthestLink
        <5>3. QED BY <2>1, <5>1, <5>2 DEF LinksOf
      <4>2. Way(f, h, i) = Way(g, h, i)
        BY <2>3, <4>1 DEF Way
      <4>3. i = m \/ i \in m + 1 .. h
        BY <2>1
      <4>4. QED BY <2>3, <4>2, <4>3
    <3>3. QED BY <3>1, <3>2
  <2>6. IsWay(f, h, m)
    BY <2>4, <2>5 DEF IsWay
  <2>7. QED BY <1>2, <2>6
<1>5. QED BY <1>3, <1>4

\* WayTo follows its definition.
LEMMA WayIs ==
  ASSUME NEW h \in Nat, h > 0
  PROVE  \A i \in 1 .. h : WayTo(h)[i] = Way(WayTo(h), h, i)
<1>1. \E f : IsWay(f, h, 1)
  <2>1. h - 1 \in Nat /\ h - 1 < h /\ h - (h - 1) = 1
    OBVIOUS
  <2>2. QED BY <2>1, WayExists
<1> DEFINE W == CHOOSE f : f = [i \in 1 .. h |-> Way(f, h, i)]
<1>2. W = [i \in 1 .. h |-> Way(W, h, i)]
  BY <1>1 DEF IsWay
<1>3. WayTo(h) = W
  BY DEF WayTo, Way
<1> HIDE DEF W
<1>4. QED BY <1>2, <1>3

\* A way is a sequence of links of the chain from its first block to the last.
IsWayOf(w, i, h) ==
  /\ w \in Seq(1 .. h) /\ Len(w) \in Nat \ {0}
  /\ w[1] = i /\ w[Len(w)] = h
  /\ \A k \in 2 .. Len(w) : w[k] \in LinksOf(w[k - 1], h)

\* A sequence with an element before it.
LEMMA OneMore ==
  ASSUME NEW S, NEW s \in Seq(S), NEW x \in S
  PROVE  LET t == <<x>> \o s IN
         /\ t \in Seq(S) /\ Len(t) = Len(s) + 1 /\ t[1] = x /\ Len(s) \in Nat
         /\ \A k \in 2 .. Len(t) : t[k] = s[k - 1]
OBVIOUS

\* WayTo leads from a block to the last one, along links.
LEMMA WayLeads ==
  ASSUME NEW h \in Nat, NEW i \in 1 .. h
  PROVE  IsWayOf(WayTo(h)[i], i, h)
<1> DEFINE bad == {n \in Nat : n < h /\ ~ IsWayOf(WayTo(h)[h - n], h - n, h)}
<1>1. bad = {}
  <2> SUFFICES ASSUME bad # {} PROVE FALSE
    OBVIOUS
  <2>1. PICK n \in bad : \A k \in bad : n <= k
    <3>1. bad \in SUBSET Nat
      OBVIOUS
    <3>2. QED BY <3>1, LeastNumber
  <2>2. n \in Nat /\ n < h
    OBVIOUS
  <2> DEFINE m == h - n
             j == Max(LinksOf(m, h))
             W == WayTo(h)
  <2>3. W[m] = Way(W, h, m) /\ m \in 1 .. h
    BY <2>2, WayIs
  <2>4. CASE n = 0
    <3>1. W[m] = <<h>> /\ m = h
      BY <2>3, <2>4 DEF Way
    <3>2. IsWayOf(<<h>>, h, h)
      BY <2>2 DEF IsWayOf
    <3>3. QED BY <3>1, <3>2
  <2>5. CASE n # 0
    <3>1. W[m] = <<m>> \o W[j]
      BY <2>2, <2>3, <2>5 DEF Way
    <3>2. j \in LinksOf(m, h) /\ j \in m + 1 .. h
      <4>1. j \in LinksOf(m, h)
        BY <2>2, <2>3, <2>5, FurthestLink
      <4>2. QED BY <4>1 DEF LinksOf
    <3>3. IsWayOf(W[j], j, h)
      <4>1. h - j \in Nat /\ h - j < n /\ h - j < h /\ h - (h - j) = j
        BY <2>2, <2>3, <3>2
      <4>2. h - j \notin bad
        <5> HIDE DEF bad, j
        <5>1. ~ (n <= h - j)
          BY <4>1, <2>2
        <5>2. QED BY <2>1, <5>1
      <4>3. QED BY <4>1, <4>2
    <3> HIDE DEF j, W
    <3>4. QED
      <4> DEFINE s == W[j]
                 t == <<m>> \o s
      <4>1. s \in Seq(1 .. h) /\ Len(s) \in Nat \ {0} /\ s[1] = j /\ s[Len(s)] = h
            /\ \A k \in 2 .. Len(s) : s[k] \in LinksOf(s[k - 1], h)
        BY <3>3 DEF IsWayOf
      <4>2. /\ t \in Seq(1 .. h) /\ Len(t) = Len(s) + 1 /\ t[1] = m
            /\ \A k \in 2 .. Len(t) : t[k] = s[k - 1]
        <5> HIDE DEF s
        <5>1. QED BY <2>3, <4>1, OneMore
      <4> HIDE DEF s, t
      <4>3. t[Len(t)] = h
        <5>1. Len(t) \in 2 .. Len(t) /\ Len(t) - 1 = Len(s)
          BY <4>1, <4>2
        <5>2. QED BY <4>1, <4>2, <5>1
      <4>4. ASSUME NEW k \in 2 .. Len(t) PROVE t[k] \in LinksOf(t[k - 1], h)
        <5>1. CASE k = 2
          BY <3>2, <4>1, <4>2, <5>1
        <5>2. CASE k # 2
          <6>1. k - 1 \in 2 .. Len(s) /\ k - 1 \in 2 .. Len(t)
            BY <4>1, <4>2, <5>2
          <6>2. QED BY <4>1, <4>2, <6>1
        <5>3. QED BY <5>1, <5>2
      <4>5. IsWayOf(t, m, h)
        BY <4>1, <4>2, <4>3, <4>4 DEF IsWayOf
      <4>6. IsWayOf(W[m], m, h)
        BY <3>1, <4>5 DEF s, t
      <4>7. QED BY <4>6, <2>1 DEF W
  <2>6. QED BY <2>4, <2>5
<1>2. h - i \in Nat /\ h - i < h /\ h - (h - i) = i
  OBVIOUS
<1>3. QED BY <1>1, <1>2

------------------------------------------------------------------------------
(* Joined answers. *)

\* What nodes say of the first h blocks of the chain, damaged or not, and the calls of
\* getUpdateChain that were answered.
Blocks(h) ==
  {b \in [block : 1 .. h, intact : BOOLEAN, links : SUBSET (1 .. h)] :
     b.links \subseteq LinksOf(b.block, h)}
Frames(h) == [ask : 1 .. h, blocks : Seq(Blocks(h))]

\* Each call but the last got an answer and asked for its last block.
Asks(frames) ==
  \A k \in 1 .. Len(frames) - 1 :
    frames[k].blocks # <<>> /\ frames[k + 1].ask = Last(frames[k].blocks).block

Join(f, frames, k) ==
  IF k = Len(frames) THEN frames[k].blocks ELSE Front(frames[k].blocks) \o f[k + 1]
IsJoin(f, frames, m) == f = [k \in m .. Len(frames) |-> Join(f, frames, k)]

\* The recursive function that Joined chooses exists.
LEMMA JoinExists ==
  ASSUME NEW frames, Len(frames) \in Nat, NEW d \in Nat, d < Len(frames)
  PROVE  \E f : IsJoin(f, frames, Len(frames) - d)
<1> DEFINE h == Len(frames)
<1>0. h \in Nat /\ d < h
  OBVIOUS
<1>h. IsJoin([k \in h .. h |-> frames[k].blocks], frames, h)
  BY <1>0 DEF IsJoin, Join
<1>s. ASSUME NEW m \in 1 .. h - 1, NEW g, IsJoin(g, frames, m + 1)
      PROVE  \E f : IsJoin(f, frames, m)
  <2> DEFINE f == [i \in m .. h |-> IF i = m THEN Join(g, frames, m) ELSE g[i]]
  <2>1. \A i \in m + 1 .. h : g[i] = Join(g, frames, i)
    BY <1>s DEF IsJoin
  <2>2. m \in m .. h /\ \A i \in m + 1 .. h : i \in m .. h /\ i # m
    BY <1>0
  <2>3. f[m] = Join(g, frames, m) /\ \A i \in m + 1 .. h : f[i] = g[i] /\ g[i] = Join(g, frames, i)
    <3> HIDE DEF h
    <3>1. QED BY <2>1, <2>2
  <2>4. f = [i \in m .. h |-> f[i]]
    OBVIOUS
  <2> HIDE DEF f
  <2>5. ASSUME NEW i \in m .. h PROVE f[i] = Join(f, frames, i)
    <3>1. CASE i = h
      <4>1. i \in m + 1 .. h
        BY <1>0, <3>1
      <4>2. QED BY <2>3, <3>1, <4>1 DEF Join
    <3>2. CASE i # h
      <4>1. i + 1 \in m + 1 .. h /\ (i = m \/ i \in m + 1 .. h)
        BY <1>0, <3>2
      <4>2. Join(f, frames, i) = Join(g, frames, i)
        BY <2>3, <4>1 DEF Join
      <4>3. QED BY <2>3, <4>1, <4>2
    <3>3. QED BY <3>1, <3>2
  <2>6. IsJoin(f, frames, m)
    BY <2>4, <2>5 DEF IsJoin
  <2>7. QED BY <2>6
<1> DEFINE bad == {n \in Nat : n < h /\ ~ \E f : IsJoin(f, frames, h - n)}
<1>1. SUFFICES ASSUME bad # {} PROVE FALSE
  OBVIOUS
<1>2. PICK n \in bad : \A k \in bad : n <= k
  <2>1. bad \in SUBSET Nat
    OBVIOUS
  <2>2. QED BY <1>1, <2>1, LeastNumber
<1>3. n \in Nat /\ n < h /\ ~ \E f : IsJoin(f, frames, h - n)
  OBVIOUS
<1>4. n # 0
  <2> SUFFICES ASSUME n = 0 PROVE FALSE
    OBVIOUS
  <2>1. h - n = h
    BY <1>0
  <2>2. QED BY <1>3, <1>h, <2>1
<1>5. n - 1 \in Nat /\ n - 1 < h /\ n - 1 \notin bad
  <2> HIDE DEF bad
  <2>1. n - 1 \in Nat /\ ~ (n <= n - 1) /\ n - 1 < h
    BY <1>3, <1>4
  <2>2. QED BY <1>2, <2>1
<1>6. PICK g : IsJoin(g, frames, h - (n - 1))
  BY <1>5
<1>7. h - n \in 1 .. h - 1 /\ h - (n - 1) = (h - n) + 1
  BY <1>3, <1>4
<1>8. QED
  <2> HIDE DEF bad, h
  <2>1. IsJoin(g, frames, (h - n) + 1)
    BY <1>6, <1>7
  <2>2. QED BY <1>s, <1>7, <2>1, <1>3

\* Joined follows its definition.
LEMMA JoinIs ==
  ASSUME NEW S, NEW frames \in Seq(S), frames # <<>>
  PROVE  /\ DOMAIN Joined(frames) = 1 .. Len(frames)
         /\ \A k \in 1 .. Len(frames) : Joined(frames)[k] = Join(Joined(frames), frames, k)
<1>0. Len(frames) \in Nat /\ Len(frames) > 0 /\ DOMAIN frames = 1 .. Len(frames)
  OBVIOUS
<1>1. \E f : IsJoin(f, frames, 1)
  <2>1. Len(frames) - 1 \in Nat /\ Len(frames) - 1 < Len(frames) /\ Len(frames) - (Len(frames) - 1) = 1
    BY <1>0
  <2>2. \E f : IsJoin(f, frames, Len(frames) - (Len(frames) - 1))
    BY <1>0, <2>1, JoinExists
  <2>3. QED BY <2>1, <2>2
<1> DEFINE J == CHOOSE f : f = [k \in DOMAIN frames |-> Join(f, frames, k)]
<1>2. J = [k \in DOMAIN frames |-> Join(J, frames, k)]
  BY <1>0, <1>1 DEF IsJoin
<1>3. Joined(frames) = J
  BY DEF Joined, Join
<1> HIDE DEF J
<1>4. QED BY <1>0, <1>2, <1>3

\* What verifyChain asks of blocks.
Linked(blocks, ask) ==
  /\ blocks # <<>> /\ blocks[1].intact /\ blocks[1].block = ask
  /\ \A k \in 2 .. Len(blocks) :
       blocks[k].intact /\ blocks[k].block \in blocks[k - 1].links

\* verifyChain accepts exactly the blocks that are linked.
LEMMA VerifyIs ==
  ASSUME NEW h \in Nat, NEW blocks \in Seq(Blocks(h)), NEW ask \in 1 .. h
  PROVE  verifyChain(blocks, ask) <=> Linked(blocks, ask)
<1>1. \A k \in 1 .. Len(blocks) :
        blocks[k].block \in Nat \ {0} /\ blocks[k].intact \in BOOLEAN
  BY DEF Blocks
<1>2. blocks # <<>> => 1 \in 1 .. Len(blocks)
  OBVIOUS
<1>3. \A k \in 2 .. Len(blocks) : k \in 1 .. Len(blocks)
  OBVIOUS
<1>4. \A k \in 1 .. Len(blocks) : computeHash(blocks[k]) = blocks[k].block <=> blocks[k].intact
  BY <1>1 DEF computeHash
<1>5. blocks # <<>> => (computeHash(blocks[1]) = ask <=> blocks[1].intact /\ blocks[1].block = ask)
  <2>1. ask # 0
    OBVIOUS
  <2>2. QED BY <1>1, <1>2, <2>1 DEF computeHash
<1>6. QED BY <1>3, <1>4, <1>5 DEF verifyChain, Linked, LinkVerifies

\* The first elements of a sequence.
LEMMA StartIs ==
  ASSUME NEW S, NEW s \in Seq(S), NEW n \in 0 .. Len(s)
  PROVE  /\ SubSeq(s, 1, n) \in Seq(S) /\ Len(SubSeq(s, 1, n)) = n
         /\ \A i \in 1 .. n : SubSeq(s, 1, n)[i] = s[i]
<1> DEFINE u == SubSeq(s, 1, n)
<1>1. Len(s) \in Nat /\ n \in Nat /\ n <= Len(s)
  BY LenProperties
<1>2. \A i \in 1 .. n : s[i] \in S
  BY <1>1, ElementOfSeq
<1>3. /\ u \in Seq(S) /\ Len(u) = IF 1 <= n THEN n - 1 + 1 ELSE 0
      /\ \A i \in 1 .. n - 1 + 1 : u[i] = s[1 + i - 1]
  BY <1>1, <1>2, SubSeqProperties
<1> HIDE DEF u
<1>4. Len(u) = n
  BY <1>1, <1>3
<1>5. ASSUME NEW i \in 1 .. n PROVE u[i] = s[i]
  <2>1. i \in 1 .. n - 1 + 1 /\ 1 + i - 1 = i
    BY <1>1
  <2>2. QED BY <1>3, <2>1
<1>6. QED BY <1>3, <1>4, <1>5 DEF u

\* A sequence whose last element is replaced by another sequence.
LEMMA FrontAndMore ==
  ASSUME NEW S, NEW s \in Seq(S), s # <<>>, NEW t \in Seq(S)
  PROVE  /\ Front(s) \o t \in Seq(S)
         /\ Len(Front(s) \o t) = Len(s) - 1 + Len(t)
         /\ \A k \in 1 .. Len(s) - 1 : (Front(s) \o t)[k] = s[k]
         /\ \A k \in Len(s) .. Len(s) - 1 + Len(t) : (Front(s) \o t)[k] = t[k - Len(s) + 1]
<1> DEFINE n == Len(s)
           u == Front(s)
<1>1. n \in Nat /\ n > 0 /\ Len(t) \in Nat
  OBVIOUS
<1>2. u \in Seq(S) /\ Len(u) = n - 1 /\ \A k \in 1 .. n - 1 : u[k] = s[k]
  <2>1. u = SubSeq(s, 1, n - 1)
    BY DEF Front
  <2>2. n - 1 \in 0 .. Len(s)
    BY <1>1
  <2>3. QED BY <2>1, <2>2, StartIs
<1> DEFINE v == u \o t
<1> HIDE DEF u
<1>3. /\ v \in Seq(S) /\ Len(v) = Len(u) + Len(t)
      /\ \A k \in 1 .. Len(u) + Len(t) : v[k] = IF k <= Len(u) THEN u[k] ELSE t[k - Len(u)]
  BY <1>2, ConcatProperties
<1> HIDE DEF v
<1>4. Len(v) = n - 1 + Len(t)
  BY <1>1, <1>2, <1>3
<1>5. ASSUME NEW k \in 1 .. n - 1 PROVE v[k] = s[k]
  <2>1. k \in 1 .. Len(u) + Len(t) /\ k <= Len(u)
    BY <1>1, <1>2
  <2>2. QED BY <1>2, <1>3, <2>1
<1>6. ASSUME NEW k \in n .. n - 1 + Len(t) PROVE v[k] = t[k - n + 1]
  <2>1. k \in 1 .. Len(u) + Len(t) /\ ~ (k <= Len(u)) /\ k - Len(u) = k - n + 1
    BY <1>1, <1>2
  <2>2. QED BY <1>3, <2>1
<1>7. QED BY <1>3, <1>4, <1>5, <1>6 DEF u, v

\* A call that asked for the last block of the call around it.
LEMMA JoinTwo ==
  ASSUME NEW h \in Nat, NEW s \in Seq(Blocks(h)), s # <<>>, NEW t \in Seq(Blocks(h))
  PROVE  /\ Front(s) \o t \in Seq(Blocks(h))
         /\ \A ask \in 1 .. h : Linked(s, ask) /\ Linked(t, Last(s).block) => Linked(Front(s) \o t, ask)
<1> DEFINE n == Len(s)
           v == Front(s) \o t
<1>1. n \in Nat \ {0} /\ Len(t) \in Nat
  OBVIOUS
<1>3. /\ v \in Seq(Blocks(h)) /\ Len(v) = n - 1 + Len(t)
      /\ \A k \in 1 .. n - 1 : v[k] = s[k]
      /\ \A k \in n .. Len(v) : v[k] = t[k - n + 1]
  BY FrontAndMore
<1> HIDE DEF v
<1>4. ASSUME NEW ask \in 1 .. h, Linked(s, ask), Linked(t, Last(s).block)
      PROVE  Linked(v, ask)
  <2>1. Len(t) > 0 /\ Len(v) >= n
    <3>1. Len(t) # 0
      BY <1>4 DEF Linked
    <3>2. QED BY <1>1, <1>3, <3>1
  <2>2. v[n] = t[1] /\ v[n].intact /\ v[n].block = s[n].block
    BY <1>1, <1>3, <1>4, <2>1 DEF Linked, Last
  <2>3. v[1].intact /\ v[1].block = ask
    <3>1. CASE n = 1
      BY <1>4, <2>2, <3>1 DEF Linked
    <3>2. CASE n # 1
      <4>1. 1 \in 1 .. n - 1
        <5> HIDE DEF n
        <5>1. n >= 1
          BY <1>1
        <5>2. n >= 2
          BY <1>1, <3>2, <5>1
        <5>3. QED BY <1>1, <5>2
      <4>2. QED BY <1>3, <1>4, <4>1 DEF Linked
    <3>3. QED BY <3>1, <3>2
  <2>4. ASSUME NEW k \in 2 .. Len(v)
        PROVE  v[k].intact /\ v[k].block \in v[k - 1].links
    <3>1. CASE k < n
      <4>1. k \in 2 .. Len(s) /\ k \in 1 .. n - 1 /\ k - 1 \in 1 .. n - 1
        BY <1>1, <3>1
      <4>2. QED BY <1>3, <1>4, <4>1 DEF Linked
    <3>2. CASE k = n
      <4>1. k \in 2 .. Len(s) /\ k - 1 \in 1 .. n - 1
        BY <1>1, <3>2
      <4>2. QED BY <1>3, <1>4, <2>2, <3>2, <4>1 DEF Linked
    <3>3. CASE k > n
      <4>1. /\ k \in n .. Len(v) /\ k - 1 \in n .. Len(v) /\ k - n + 1 \in 2 .. Len(t)
            /\ (k - 1) - n + 1 = (k - n + 1) - 1
        BY <1>1, <1>3, <3>3
      <4>2. QED BY <1>3, <1>4, <4>1 DEF Linked
    <3>4. QED BY <1>1, <1>3, <3>1, <3>2, <3>3
  <2>5. v # <<>>
    BY <1>1, <1>3, <2>1
  <2>6. QED BY <2>3, <2>4, <2>5 DEF Linked
<1>5. QED BY <1>3, <1>4 DEF v

\* Linked answers of calls that ask on from each other join to a linked chain.
LEMMA JoinedIsLinked ==
  ASSUME NEW h \in Nat, NEW frames \in Seq(Frames(h)), frames # <<>>, Asks(frames)
  PROVE  /\ \A k \in 1 .. Len(frames) : Joined(frames)[k] \in Seq(Blocks(h))
         /\ (\A k \in 1 .. Len(frames) : Linked(frames[k].blocks, frames[k].ask)) =>
              \A k \in 1 .. Len(frames) : Linked(Joined(frames)[k], frames[k].ask)
<1> DEFINE n == Len(frames)
           J == Joined(frames)
           Right(k) == /\ J[k] \in Seq(Blocks(h))
                       /\ (\A l \in 1 .. n : Linked(frames[l].blocks, frames[l].ask)) =>
                             Linked(J[k], frames[k].ask)
<1>1. n \in Nat /\ n > 0
  OBVIOUS
<1>2. \A k \in 1 .. n : J[k] = Join(J, frames, k)
  BY JoinIs
<1>3. \A k \in 1 .. n : frames[k].ask \in 1 .. h /\ frames[k].blocks \in Seq(Blocks(h))
  <2>1. \A k \in 1 .. n : frames[k] \in Frames(h)
    OBVIOUS
  <2>2. QED BY <2>1 DEF Frames
<1>4. Right(n)
  BY <1>1, <1>2, <1>3 DEF Join
<1>5. ASSUME NEW k \in 1 .. n - 1, Right(k + 1) PROVE Right(k)
  <2> DEFINE s == frames[k].blocks
             t == J[k + 1]
  <2>1. k \in 1 .. n /\ k + 1 \in 1 .. n /\ k # n
    BY <1>1
  <2>2. s # <<>> /\ frames[k + 1].ask = Last(s).block
    BY DEF Asks
  <2>3. J[k] = Front(s) \o t
    BY <1>2, <2>1 DEF Join
  <2>4. s \in Seq(Blocks(h)) /\ t \in Seq(Blocks(h)) /\ frames[k].ask \in 1 .. h
    BY <1>3, <1>5, <2>1
  <2>5. (\A l \in 1 .. n : Linked(frames[l].blocks, frames[l].ask)) =>
          Linked(s, frames[k].ask) /\ Linked(t, Last(s).block)
    BY <1>5, <2>1, <2>2
  <2> HIDE DEF s, t, J, n
  <2>6. QED BY <2>2, <2>3, <2>4, <2>5, JoinTwo
<1> HIDE DEF J
<1>6. \A k \in 1 .. n : Right(k)
  <2> DEFINE bad == {d \in 0 .. n - 1 : ~ Right(n - d)}
  <2>1. bad = {}
    <3> SUFFICES ASSUME bad # {} PROVE FALSE
      OBVIOUS
    <3>1. PICK d \in bad : \A e \in bad : d <= e
      <4>1. bad \in SUBSET Nat
        BY <1>1
      <4>2. QED BY <4>1, LeastNumber
    <3>2. d \in 0 .. n - 1 /\ ~ Right(n - d)
      OBVIOUS
    <3> HIDE DEF Right
    <3>3. d # 0
      <4>1. d = 0 => n - d = n
        BY <1>1
      <4>2. QED BY <1>4, <3>2, <4>1
    <3>4. d - 1 \in 0 .. n - 1 /\ d - 1 \notin bad
      <4> HIDE DEF bad
      <4>1. d - 1 \in 0 .. n - 1 /\ ~ (d <= d - 1)
        BY <1>1, <3>2, <3>3
      <4>2. QED BY <3>1, <4>1
    <3>5. n - (d - 1) = (n - d) + 1 /\ n - d \in 1 .. n - 1
      BY <1>1, <3>2, <3>3
    <3>6. Right((n - d) + 1)
      BY <3>4, <3>5
    <3> HIDE DEF n
    <3>7. QED BY <1>5, <3>2, <3>5, <3>6
  <2> HIDE DEF Right
  <2>2. ASSUME NEW k \in 1 .. n PROVE Right(k)
    <3>1. n - k \in 0 .. n - 1 /\ n - (n - k) = k
      BY <1>1
    <3>2. QED BY <2>1, <3>1
  <2>3. QED BY <2>2
<1>7. QED BY <1>6 DEF J

------------------------------------------------------------------------------
(* The states of a request. *)

\* A request that is under way.
Asked(h) ==
  [kind : {"update"}, phase : {"asking"}, first : 1 .. h, ask : 1 .. h, asked : Rosters,
   frames : Seq(Frames(h)), honest : BOOLEAN, result : {<<>>}]

\* The calls asked for the first block and then each for the last one of the answer
\* before; what honest nodes answered is linked.
Asking ==
  /\ request \in Asked(Len(chain))
  /\ Asks(request.frames)
  /\ IF request.frames = <<>> THEN request.ask = request.first
     ELSE /\ request.frames[1].ask = request.first
          /\ Last(request.frames).blocks # <<>>
          /\ request.ask = Last(Last(request.frames).blocks).block
  /\ request.honest =>
       \A k \in 1 .. Len(request.frames) :
         Linked(request.frames[k].blocks, request.frames[k].ask)

Accepted ==
  /\ request.kind \in {"update", "proof"}
  /\ Settled
  /\ AcceptedChainIsReal /\ LaggingIsNotInvalid
  /\ VerifiedProofIsOfOneBlock /\ HonestProofIsUnderstood

ChainShape ==
  /\ chain \in Seq([roster : Rosters, keys : SUBSET Keys]) /\ chain # <<>>
  /\ known \in [Conodes -> 0 .. Len(chain)]

ChainInv == ChainShape /\ (request = Idle \/ Asking \/ Accepted)

------------------------------------------------------------------------------

\* What nodes say of a chain they may also say of a longer one.
LEMMA MoreLinks ==
  ASSUME NEW h \in Nat, NEW m \in Nat, h <= m
  PROVE  /\ \A i \in 1 .. h : LinksOf(i, h) \subseteq LinksOf(i, m)
         /\ Blocks(h) \subseteq Blocks(m) /\ Frames(h) \subseteq Frames(m)
         /\ Seq(Blocks(h)) \subseteq Seq(Blocks(m)) /\ Seq(Frames(h)) \subseteq Seq(Frames(m))
         /\ Asked(h) \subseteq Asked(m)
<1>1. 1 .. h \subseteq 1 .. m
  OBVIOUS
<1>2. \A i \in 1 .. h : LinksOf(i, h) \subseteq LinksOf(i, m)
  BY DEF LinksOf
<1>3. Blocks(h) \subseteq Blocks(m)
  BY <1>1, <1>2 DEF Blocks
<1>4. Seq(Blocks(h)) \subseteq Seq(Blocks(m))
  BY <1>3, SeqMonotonic
<1>5. Frames(h) \subseteq Frames(m)
  BY <1>1, <1>4 DEF Frames
<1>6. Seq(Frames(h)) \subseteq Seq(Frames(m))
  BY <1>5, SeqMonotonic
<1>7. Asked(h) \subseteq Asked(m)
  BY <1>1, <1>6 DEF Asked
<1>8. QED BY <1>2, <1>3, <1>4, <1>5, <1>6, <1>7

\* A node answers with intact blocks, each linked to by the one before.
LEMMA AnswersAreLinked ==
  ASSUME ChainShape, NEW n \in Conodes, NEW i \in Nat \ {0}, i <= known[n],
         NEW blocks \in Answers(n, i)
  PROVE  blocks \in Seq(Blocks(Len(chain))) /\ Linked(blocks, i)
<1> DEFINE h == known[n]
           w == WayTo(h)[i]
<1>1. h \in Nat /\ Len(chain) \in Nat /\ h <= Len(chain) /\ i \in 1 .. h
  BY DEF ChainShape
<1>2. IsWayOf(w, i, h)
  BY <1>1, WayLeads
<1>3. PICK l \in 1 .. Len(w) : blocks = [k \in 1 .. l |-> Copy(w[k], h)]
  BY DEF Answers
<1> HIDE DEF w, h
<1>4. Len(w) \in Nat /\ (\A k \in 1 .. Len(w) : w[k] \in 1 .. h)
  <2>1. w \in Seq(1 .. h)
    BY <1>2 DEF IsWayOf
  <2>2. QED BY <2>1, ElementOfSeq, LenProperties
<1>5. \A j \in 1 .. h : Copy(j, h) \in Blocks(h)
  BY <1>1 DEF Copy, Blocks, LinksOf
<1>6. l \in Nat \ {0} /\ \A k \in 1 .. l : Copy(w[k], h) \in Blocks(h)
  BY <1>4, <1>5
<1>7. blocks \in [1 .. l -> Blocks(h)]
  BY <1>3, <1>6
<1>8. blocks \in Seq(Blocks(h)) /\ Len(blocks) = l
  BY <1>6, <1>7
<1>9. blocks \in Seq(Blocks(Len(chain)))
  BY <1>1, <1>8, MoreLinks
<1>10. \A k \in 1 .. l : blocks[k].block = w[k] /\ blocks[k].intact /\ blocks[k].links = LinksOf(w[k], h)
  BY <1>3 DEF Copy
<1>11. Linked(blocks, i)
  <2>1. blocks # <<>> /\ blocks[1].intact /\ blocks[1].block = i
    <3>1. 1 \in 1 .. l
      BY <1>6
    <3>2. QED BY <1>2, <1>6, <1>8, <1>10, <3>1 DEF IsWayOf
  <2>2. ASSUME NEW k \in 2 .. Len(blocks)
        PROVE  blocks[k].intact /\ blocks[k].block \in blocks[k - 1].links
    <3>1. k \in 1 .. l /\ k - 1 \in 1 .. l /\ k \in 2 .. Len(w)
      BY <1>4, <1>6, <1>8
    <3>2. w[k] \in LinksOf(w[k - 1], h)
      BY <1>2, <3>1 DEF IsWayOf
    <3>3. QED BY <1>10, <3>1, <3>2
  <2>3. QED BY <2>1, <2>2 DEF Linked
<1>12. QED BY <1>9, <1>11

\* A sequence without one of its elements, or with one repeated.
LEMMA PartsAreSequences ==
  ASSUME NEW S, NEW s \in Seq(S), NEW k \in 1 .. Len(s)
  PROVE  /\ RemoveAt(s, k) \in Seq(S)
         /\ \A x \in S : InsertAt(s, k, x) \in Seq(S)
<1>1. Len(s) \in Nat /\ \A i \in 1 .. Len(s) : s[i] \in S
  OBVIOUS
<1>2. ASSUME NEW m \in 1 .. Len(s) + 1, NEW n \in 0 .. Len(s) PROVE SubSeq(s, m, n) \in Seq(S)
  <2>1. \A i \in m .. n : s[i] \in S
    BY <1>1
  <2>2. QED BY <1>1, <2>1, SubSeqProperties
<1>3. SubSeq(s, 1, k - 1) \in Seq(S) /\ SubSeq(s, k + 1, Len(s)) \in Seq(S)
      /\ SubSeq(s, k, Len(s)) \in Seq(S)
  <2>1. /\ 1 \in 1 .. Len(s) + 1 /\ k \in 1 .. Len(s) + 1 /\ k + 1 \in 1 .. Len(s) + 1
        /\ k - 1 \in 0 .. Len(s) /\ Len(s) \in 0 .. Len(s)
    BY <1>1
  <2>2. QED BY <1>2, <2>1
<1> DEFINE a == SubSeq(s, 1, k - 1)
           b == SubSeq(s, k + 1, Len(s))
           c == SubSeq(s, k, Len(s))
<1>4. RemoveAt(s, k) = a \o b /\ \A x \in S : InsertAt(s, k, x) = a \o <<x>> \o c
  BY DEF RemoveAt, InsertAt
<1> HIDE DEF a, b, c
<1>5. a \in Seq(S) /\ b \in Seq(S) /\ c \in Seq(S)
  BY <1>3 DEF a, b, c
<1>6. a \o b \in Seq(S)
  BY <1>5
<1>7. ASSUME NEW x \in S PROVE a \o <<x>> \o c \in Seq(S)
  <2>1. a \o <<x>> \in Seq(S)
    BY <1>5
  <2>2. QED BY <1>5, <2>1
<1>8. QED BY <1>4, <1>6, <1>7

\* A damaged answer still consists of blocks of the chain.
LEMMA DefectsAreBlocks ==
  ASSUME NEW h \in Nat, NEW s \in Seq(Blocks(h)), NEW damaged \in Defects(s)
  PROVE  damaged \in Seq(Blocks(h))
<1>1. DOMAIN s = 1 .. Len(s) /\ Len(s) \in Nat /\ \A k \in 1 .. Len(s) : s[k] \in Blocks(h)
  OBVIOUS
<1>2. CASE \E k \in DOMAIN s : damaged = RemoveAt(s, k) \/ damaged = InsertAt(s, k, s[k])
  BY <1>1, <1>2, PartsAreSequences
<1>3. ASSUME NEW k \in DOMAIN s, damaged = [s EXCEPT ![k].intact = FALSE]
      PROVE  damaged \in Seq(Blocks(h))
  <2> DEFINE b == [s[k] EXCEPT !.intact = FALSE]
  <2>1. b \in Blocks(h)
    BY <1>1, <1>3 DEF Blocks
  <2>2. damaged = [s EXCEPT ![k] = b]
    BY <1>3
  <2> HIDE DEF b
  <2>3. damaged \in [1 .. Len(s) -> Blocks(h)]
    BY <1>1, <2>1, <2>2
  <2>4. QED BY <1>1, <2>3
<1>4. QED BY <1>2, <1>3 DEF Defects

------------------------------------------------------------------------------
(* Updates of the chain. *)

\* The chain is never empty, its blocks have rosters and keys.
LEMMA ChainIs ==
  ASSUME ChainShape
  PROVE  /\ Len(chain) \in Nat \ {0} /\ DOMAIN chain = 1 .. Len(chain)
         /\ \A i \in 1 .. Len(chain) : chain[i].roster \in Rosters /\ chain[i].keys \subseteq Keys
<1> DEFINE Block == [roster : Rosters, keys : SUBSET Keys]
<1>1. chain \in Seq(Block) /\ chain # <<>>
  BY DEF ChainShape
<1>2. \A b \in Block : b.roster \in Rosters /\ b.keys \subseteq Keys
  OBVIOUS
<1> HIDE DEF Block
<1>3. \A i \in 1 .. Len(chain) : chain[i] \in Block
  BY <1>1, ElementOfSeq
<1>4. QED BY <1>1, <1>2, <1>3

\* The answer to the innermost call of getUpdateChain.
LEMMA AnsweredKeeps ==
  ASSUME ChainShape, Asking, NEW blocks \in Seq(Blocks(Len(chain))), NEW honest \in BOOLEAN,
         honest => Linked(blocks, request.ask), Answered(blocks, honest)
  PROVE  Asking' \/ Accepted'
<1> DEFINE h == Len(chain)
           frame == [ask |-> request.ask, blocks |-> blocks]
           frames == Append(request.frames, frame)
           n == Len(request.frames)
           J == Joined(frames)
<1>1. /\ h \in Nat /\ n \in Nat /\ request \in Asked(h)
      /\ request.ask \in 1 .. h /\ request.first \in 1 .. h /\ request.honest \in BOOLEAN
      /\ request.frames \in Seq(Frames(h)) /\ request.kind = "update"
  <2>1. request \in Asked(h)
    BY DEF Asking
  <2>2. h \in Nat
    BY DEF ChainShape
  <2>3. request.frames \in Seq(Frames(h))
    BY <2>1 DEF Asked
  <2>4. n \in Nat
    BY <2>3, LenProperties
  <2>5. QED BY <2>1, <2>2, <2>3, <2>4 DEF Asked
<1>2. frame \in Frames(h) /\ frame.ask = request.ask /\ frame.blocks = blocks
  BY <1>1 DEF Frames
<1> HIDE DEF frame
<1>3. /\ frames \in Seq(Frames(h)) /\ Len(frames) = n + 1 /\ frames[n + 1] = frame
      /\ \A k \in 1 .. n : frames[k] = request.frames[k]
      /\ frames # <<>> /\ Last(frames) = frame
  <2>1. /\ frames \in Seq(Frames(h)) /\ Len(frames) = n + 1 /\ frames[n + 1] = frame
        /\ \A k \in 1 .. n : frames[k] = request.frames[k]
    BY <1>1, <1>2, AppendProperties
  <2>2. frames # <<>>
    BY <1>1, <2>1
  <2>3. QED BY <1>1, <2>1, <2>2 DEF Last
<1> HIDE DEF frames
<1>4. Asks(frames) /\ frames[1].ask = request.first
  <2>1. CASE n = 0
    <3>1. request.frames = <<>> /\ request.ask = request.first
      BY <1>1, <2>1 DEF Asking
    <3>2. QED BY <1>2, <1>3, <2>1, <3>1 DEF Asks
  <2>2. CASE n # 0
    <3>1. /\ request.frames # <<>> /\ request.frames[1].ask = request.first
          /\ request.frames[n].blocks # <<>>
          /\ request.ask = Last(request.frames[n].blocks).block
      BY <1>1, <2>2 DEF Asking, Last
    <3>2. ASSUME NEW k \in 1 .. n
          PROVE  frames[k].blocks # <<>> /\ frames[k + 1].ask = Last(frames[k].blocks).block
      <4>1. CASE k = n
        BY <1>2, <1>3, <3>1, <4>1
      <4>2. CASE k # n
        <5>1. k \in 1 .. n - 1 /\ k + 1 \in 1 .. n
          BY <1>1, <4>2
        <5>2. QED BY <1>3, <5>1 DEF Asking, Asks
      <4>3. QED BY <4>1, <4>2
    <3>3. 1 \in 1 .. n
      BY <1>1, <2>2
    <3>4. QED BY <1>1, <1>3, <3>1, <3>2, <3>3 DEF Asks
  <2>3. QED BY <2>1, <2>2
<1>5. request.honest /\ honest => \A k \in 1 .. Len(frames) : Linked(frames[k].blocks, frames[k].ask)
  <2> SUFFICES ASSUME request.honest, honest, NEW k \in 1 .. n + 1
               PROVE  Linked(frames[k].blocks, frames[k].ask)
    BY <1>3
  <2>1. CASE k = n + 1
    BY <1>2, <1>3, <2>1
  <2>2. CASE k # n + 1
    <3>1. k \in 1 .. n
      BY <1>1, <2>2
    <3>2. QED BY <1>3, <3>1 DEF Asking
  <2>3. QED BY <2>1, <2>2
<1> DEFINE valid == \A k \in DOMAIN frames : verifyChain(Joined(frames)[k], frames[k].ask)
           more == blocks # <<>> /\ Last(blocks).links # {}
<1>6. CASE /\ more /\ n + 1 < MaxRequests
           /\ request' = [request EXCEPT !.frames = frames, !.honest = @ /\ honest,
                                         !.ask = Last(blocks).block,
                                         !.asked = chain[Last(blocks).block].roster]
           /\ UNCHANGED <<chain, known>>
  <2>1. Last(blocks).block \in 1 .. h
    <3>1. Last(blocks) \in Blocks(h)
      <4>1. Len(blocks) \in 1 .. Len(blocks)
        BY <1>6
      <4>2. QED BY <4>1, ElementOfSeq DEF Last
    <3>2. QED BY <3>1 DEF Blocks
  <2>2. chain[Last(blocks).block].roster \in Rosters
    BY <2>1, ChainIs
  <2>3. request' \in Asked(h)
    BY <1>1, <1>3, <1>6, <2>1, <2>2 DEF Asked
  <2>4. request'.frames = frames /\ request'.honest = (request.honest /\ honest)
        /\ request'.ask = Last(blocks).block /\ request'.first = request.first
    BY <1>1, <1>6 DEF Asked
  <2> HIDE DEF h, n, J, valid
  <2>5. Asking'
    BY <1>2, <1>3, <1>4, <1>5, <1>6, <2>3, <2>4 DEF Asking, h
  <2>6. QED BY <2>5
<1>7. CASE /\ request' = [request EXCEPT
                !.frames = frames, !.honest = @ /\ honest,
                !.phase = IF valid THEN "resolved" ELSE "invalid",
                !.result = IF valid THEN J[1] ELSE <<>>]
           /\ UNCHANGED <<chain, known>>
  <2>1. /\ request'.kind = "update" /\ request'.first = request.first
        /\ request'.honest = (request.honest /\ honest)
        /\ request'.phase = IF valid THEN "resolved" ELSE "invalid"
        /\ request'.result = IF valid THEN J[1] ELSE <<>>
    BY <1>1, <1>7 DEF Asked
  <2>2. /\ \A k \in 1 .. n + 1 : J[k] \in Seq(Blocks(h))
        /\ (\A k \in 1 .. n + 1 : Linked(frames[k].blocks, frames[k].ask)) =>
             \A k \in 1 .. n + 1 : Linked(J[k], frames[k].ask)
    BY <1>1, <1>3, <1>4, JoinedIsLinked
  <2>3. DOMAIN frames = 1 .. n + 1 /\ \A k \in 1 .. n + 1 : frames[k].ask \in 1 .. h
    <3>1. \A k \in 1 .. n + 1 : frames[k] \in Frames(h)
      BY <1>3, ElementOfSeq
    <3>2. QED BY <1>3, <3>1, LenProperties DEF Frames
  <2> HIDE DEF J
  <2>4. valid <=> \A k \in 1 .. n + 1 : Linked(J[k], frames[k].ask)
    <3> HIDE DEF n, h
    <3>1. \A k \in 1 .. n + 1 : verifyChain(J[k], frames[k].ask) <=> Linked(J[k], frames[k].ask)
      BY <1>1, <2>2, <2>3, VerifyIs
    <3>2. QED BY <2>3, <3>1 DEF J
  <2> HIDE DEF valid
  <2>5. LaggingIsNotInvalid'
    BY <1>3, <1>5, <2>1, <2>2, <2>4 DEF LaggingIsNotInvalid
  <2>6. AcceptedChainIsReal'
    <3> SUFFICES ASSUME valid
                 PROVE  /\ J[1][1].block = request.first
                        /\ \A k \in DOMAIN J[1] : J[1][k].intact
                        /\ \A k \in 2 .. Len(J[1]) :
                             J[1][k].block \in LinksOf(J[1][k - 1].block, Len(chain))
      BY <1>7, <2>1 DEF AcceptedChainIsReal
    <3> DEFINE s == J[1]
    <3>1. 1 \in 1 .. n + 1
      BY <1>1
    <3>2. Linked(s, request.first) /\ s \in Seq(Blocks(h))
      BY <1>4, <2>2, <2>4, <3>1
    <3>3. DOMAIN s = 1 .. Len(s) /\ Len(s) \in Nat /\ \A k \in 1 .. Len(s) : s[k] \in Blocks(h)
      BY <3>2, LenProperties, ElementOfSeq
    <3> HIDE DEF s
    <3>4. \A k \in 1 .. Len(s) : s[k].intact
      <4>1. \A k \in 1 .. Len(s) : k = 1 \/ k \in 2 .. Len(s)
        BY <3>3
      <4>2. QED BY <3>2, <4>1 DEF Linked
    <3>5. ASSUME NEW k \in 2 .. Len(s) PROVE s[k].block \in LinksOf(s[k - 1].block, h)
      <4>1. k - 1 \in 1 .. Len(s)
        BY <3>3
      <4>2. s[k - 1].links \subseteq LinksOf(s[k - 1].block, h)
        BY <3>3, <4>1 DEF Blocks
      <4>3. QED BY <3>2, <4>2 DEF Linked
    <3>6. s[1].block = request.first
      BY <3>2 DEF Linked
    <3>7. QED BY <3>3, <3>4, <3>5, <3>6 DEF s
  <2>7. VerifiedProofIsOfOneBlock' /\ HonestProofIsUnderstood'
    BY <2>1 DEF VerifiedProofIsOfOneBlock, HonestProofIsUnderstood
  <2>8. Settled'
    BY <2>1 DEF Settled
  <2>9. QED BY <2>1, <2>5, <2>6, <2>7, <2>8 DEF Accepted
<1>8. QED BY <1>3, <1>6, <1>7 DEF Answered, frames, frame

\* The steps of getUpdateChain keep the invariant.
LEMMA UpdateKeeps ==
  ASSUME ChainInv
  PROVE  /\ \A first \in DOMAIN chain, r \in Rosters : GetUpdateChain(first, r) => ChainInv'
         /\ \A n \in Conodes : Reply(n) => ChainInv'
         /\ RequestFails => ChainInv'
<1>0. ChainShape /\ Len(chain) \in Nat /\ DOMAIN chain = 1 .. Len(chain)
  BY DEF ChainInv, ChainShape
<1>1. ASSUME NEW first \in DOMAIN chain, NEW r \in Rosters, GetUpdateChain(first, r)
      PROVE  ChainInv'
  <2>1. UNCHANGED <<chain, known>>
    BY <1>1 DEF GetUpdateChain
  <2>2. request' \in Asked(Len(chain))
    <3>1. <<>> \in Seq(Frames(Len(chain)))
      BY EmptySeq
    <3>2. QED BY <1>0, <1>1, <3>1 DEF GetUpdateChain, Asked
  <2>3. request'.frames = <<>> /\ request'.ask = request'.first
    BY <1>1 DEF GetUpdateChain
  <2>4. Asking'
    <3>1. Len(<<>>) = 0
      OBVIOUS
    <3>2. \A k \in 1 .. 0 - 1 : FALSE
      OBVIOUS
    <3>3. \A k \in 1 .. 0 : FALSE
      OBVIOUS
    <3>4. QED BY <2>1, <2>2, <2>3, <3>1, <3>2, <3>3 DEF Asking, Asks
  <2>5. QED BY <1>0, <2>1, <2>4 DEF ChainInv, ChainShape
<1>2. ASSUME NEW n \in Conodes, Reply(n) PROVE ChainInv'
  <2>1. Asking /\ UNCHANGED <<chain, known>>
    <3>1. request.kind = "update" /\ request.phase = "asking" /\ UNCHANGED <<chain, known>>
      BY <1>2 DEF Reply, Answered
    <3>2. request # Idle /\ ~ Accepted
      BY <3>1 DEF Accepted, Settled, Idle
    <3>3. QED BY <3>1, <3>2 DEF ChainInv
  <2>2. request.ask \in Nat \ {0} /\ request.ask <= known[n]
    BY <1>0, <1>2, <2>1 DEF Reply, Asking, Asked
  <2>3. PICK blocks \in Answers(n, request.ask) :
          Answered(blocks, TRUE) \/ \E damaged \in Defects(blocks) : Answered(damaged, FALSE)
    BY <1>2 DEF Reply
  <2>4. blocks \in Seq(Blocks(Len(chain))) /\ Linked(blocks, request.ask)
    BY <1>0, <2>2, AnswersAreLinked
  <2>5. \A damaged \in Defects(blocks) : damaged \in Seq(Blocks(Len(chain)))
    BY <1>0, <2>4, DefectsAreBlocks
  <2>6. Asking' \/ Accepted'
    <3>1. CASE Answered(blocks, TRUE)
      BY <1>0, <2>1, <2>4, <3>1, AnsweredKeeps
    <3>2. ASSUME NEW damaged \in Defects(blocks), Answered(damaged, FALSE)
          PROVE  Asking' \/ Accepted'
      BY <1>0, <2>1, <2>5, <3>2, AnsweredKeeps
    <3>3. QED BY <2>3, <3>1, <3>2
  <2>7. QED BY <1>0, <2>1, <2>6 DEF ChainInv, ChainShape
<1>3. ASSUME RequestFails PROVE ChainInv'
  <2>1. request.phase = "asking" /\ UNCHANGED <<chain, known>>
        /\ request' = [request EXCEPT !.phase = "failed"]
    BY <1>3 DEF RequestFails
  <2>2. request # Idle /\ ~ Accepted
    BY <2>1 DEF Accepted, Settled, Idle
  <2>3. request \in Asked(Len(chain))
    BY <2>2 DEF ChainInv, Asking
  <2>4. request'.kind = "update" /\ request'.phase = "failed"
    BY <2>1, <2>3 DEF Asked
  <2>5. Accepted'
    BY <2>4 DEF Accepted, Settled, AcceptedChainIsReal, LaggingIsNotInvalid,
                VerifiedProofIsOfOneBlock, HonestProofIsUnderstood
  <2>6. QED BY <1>0, <2>1, <2>5 DEF ChainInv, ChainShape
<1>4. QED BY <1>1, <1>2, <1>3

\* The chain grows, and the nodes learn of it.
LEMMA ChainGrows ==
  ASSUME ChainInv
  PROVE  /\ \A n \in Conodes, r \in Rosters, key \in SUBSET Keys : AddBlock(n, r, key) => ChainInv'
         /\ \A n \in Conodes : CatchUp(n) => ChainInv'
<1>0. ChainShape /\ Len(chain) \in Nat /\ Len(chain) > 0
  BY DEF ChainInv, ChainShape
<1>1. ASSUME NEW n \in Conodes, NEW r \in Rosters, NEW key \in SUBSET Keys, AddBlock(n, r, key)
      PROVE  ChainInv'
  <2> DEFINE Block == [roster : Rosters, keys : SUBSET Keys]
             b == [roster |-> r, keys |-> Last(chain).keys \cup key]
  <2>1. b \in Block
    <3>1. Last(chain).keys \subseteq Keys
      BY <1>0, ChainIs DEF Last
    <3>2. QED BY <3>1
  <2>2. chain' = Append(chain, b) /\ known[n] = Len(chain) /\ ~ Settled
        /\ known' = [known EXCEPT ![n] = @ + 1] /\ UNCHANGED request
    BY <1>1 DEF AddBlock
  <2> HIDE DEF b
  <2>3. chain' \in Seq(Block) /\ Len(chain') = Len(chain) + 1 /\ chain' # <<>>
    <3>1. chain \in Seq(Block)
      BY <1>0 DEF ChainShape
    <3> HIDE DEF Block
    <3>2. chain' \in Seq(Block) /\ Len(chain') = Len(chain) + 1
      BY <2>1, <2>2, <3>1, AppendProperties
    <3>3. QED BY <1>0, <3>2
  <2>4. known' \in [Conodes -> 0 .. Len(chain')]
    BY <1>0, <2>2, <2>3 DEF ChainShape
  <2>5. Asking => Asking'
    <3>1. Asked(Len(chain)) \subseteq Asked(Len(chain'))
      BY <1>0, <2>3, MoreLinks
    <3>2. QED BY <2>2, <3>1 DEF Asking
  <2>6. ~ Accepted
    BY <2>2 DEF Accepted
  <2>7. QED BY <2>2, <2>3, <2>4, <2>5, <2>6 DEF ChainInv, ChainShape
<1>2. ASSUME NEW n \in Conodes, CatchUp(n) PROVE ChainInv'
  <2>1. known' \in [Conodes -> 0 .. Len(chain)] /\ UNCHANGED <<chain, request>> /\ ~ Settled
    BY <1>0, <1>2 DEF CatchUp, ChainShape
  <2>2. ~ Accepted /\ (Asking => Asking')
    BY <2>1 DEF Accepted, Asking
  <2>3. QED BY <1>0, <2>1, <2>2 DEF ChainInv, ChainShape
<1>3. QED BY <1>1, <1>2

\* Before the first request the chain is its genesis block.
LEMMA ChainInitEstablishes == ChainInit => ChainInv
<1> SUFFICES ASSUME ChainInit PROVE ChainInv
  OBVIOUS
<1>1. PICK r \in Rosters : chain = <<[roster |-> r, keys |-> {}]>>
                           /\ known = [n \in Conodes |-> IF n \in r THEN 1 ELSE 0]
  BY DEF ChainInit
<1> DEFINE b == [roster |-> r, keys |-> {}]
           Block == [roster : Rosters, keys : SUBSET Keys]
<1>2. b \in Block
  OBVIOUS
<1> HIDE DEF b, Block
<1>3. chain = <<b>>
  BY <1>1 DEF b
<1>4. chain \in Seq(Block) /\ Len(chain) = 1 /\ chain # <<>>
  BY <1>2, <1>3
<1>5. known \in [Conodes -> 0 .. Len(chain)]
  BY <1>1, <1>4
<1>6. QED BY <1>4, <1>5 DEF ChainInit, ChainInv, ChainShape, Block

\* The maximum of a bounded set of numbers.
LEMMA GreatestNumber ==
  ASSUME NEW m \in Nat, NEW T \in SUBSET (0 .. m), T # {}
  PROVE  Max(T) \in T /\ \A y \in T : Max(T) >= y
<1> DEFINE U == {m - y : y \in T}
<1>1. U \in SUBSET Nat /\ U # {}
  <2>1. \A y \in T : m - y \in Nat
    OBVIOUS
  <2>2. QED BY <2>1
<1>2. PICK u \in U : \A v \in U : u <= v
  BY <1>1, LeastNumber
<1>3. PICK x \in T : u = m - x
  OBVIOUS
<1>4. \A y \in T : x >= y
  <2> SUFFICES ASSUME NEW y \in T PROVE x >= y
    OBVIOUS
  <2>1. m - y \in U
    OBVIOUS
  <2> HIDE DEF U
  <2>2. m - x <= m - y
    BY <1>2, <1>3, <2>1
  <2>3. x \in 0 .. m /\ y \in 0 .. m
    OBVIOUS
  <2>4. QED BY <2>2, <2>3
<1>5. QED BY <1>4 DEF Max

\* What does not change from one place to the next is the same at all places.
LEMMA Constant ==
  ASSUME NEW a \in Nat, NEW b \in Nat, a <= b, NEW f,
         \A i \in a + 1 .. b : f[i] = f[i - 1]
  PROVE  f[b] = f[a]
<1> DEFINE bad == {i \in a .. b : f[i] # f[a]}
<1>1. bad = {}
  <2> SUFFICES ASSUME bad # {} PROVE FALSE
    OBVIOUS
  <2>1. PICK i \in bad : \A j \in bad : i <= j
    <3>1. bad \in SUBSET Nat
      OBVIOUS
    <3>2. QED BY <3>1, LeastNumber
  <2>2. i \in a + 1 .. b /\ f[i] # f[a]
    OBVIOUS
  <2>3. i - 1 \in a .. b /\ i - 1 \notin bad
    <3> HIDE DEF bad
    <3>1. i - 1 \in a .. b /\ ~ (i <= i - 1)
      BY <2>2
    <3>2. QED BY <2>1, <3>1
  <2>4. f[i] = f[i - 1] /\ f[i - 1] = f[a]
    BY <2>2, <2>3
  <2>5. QED BY <2>2, <2>4
<1>2. b \in a .. b
  OBVIOUS
<1>3. QED BY <1>1, <1>2

------------------------------------------------------------------------------
(* The trie. *)

\* IsPrefix compares bit by bit.
LEMMA PrefixIs ==
  ASSUME NEW s \in Seq(BOOLEAN), NEW t \in Seq(BOOLEAN)
  PROVE  IsPrefix(s, t) <=> Len(s) <= Len(t) /\ \A i \in 1 .. Len(s) : s[i] = t[i]
<1> DEFINE n == Len(s)
<1>1. n \in Nat /\ Len(t) \in Nat
  OBVIOUS
<1>2. SubSeq(s, 1, n) = s
  BY SubSeqFull
<1>3. ASSUME n <= Len(t)
      PROVE  s = SubSeq(t, 1, n) <=> \A i \in 1 .. n : s[i] = t[i]
  <2> DEFINE u == SubSeq(t, 1, n)
  <2>1. n \in 0 .. Len(t)
    BY <1>1, <1>3
  <2>2. u \in Seq(BOOLEAN) /\ Len(u) = n /\ \A i \in 1 .. n : u[i] = t[i]
    BY <2>1, StartIs
  <2> HIDE DEF u
  <2>4. s = u <=> \A i \in 1 .. n : s[i] = u[i]
    BY <1>1, <2>2, SeqEqual
  <2>5. QED BY <2>2, <2>4 DEF u
<1>4. QED BY <1>2, <1>3 DEF IsPrefix

\* Keys are bits, as many in each.
LEMMA KeyIs ==
  ASSUME NEW key \in Keys
  PROVE  /\ key \in Seq(BOOLEAN) /\ Len(key) \in Nat \ {0}
         /\ \A i \in 1 .. Len(key) : key[i] \in BOOLEAN
         /\ \A other \in Keys : Len(other) = Len(key)
<1>1. key \in Seq(BOOLEAN) /\ key # <<>>
  BY KeysAssumption
<1>2. Len(key) \in Nat /\ Len(key) # 0
  BY <1>1
<1>3. \A other \in Keys : Len(other) = Len(key)
  BY KeysAssumption
<1>4. \A i \in 1 .. Len(key) : key[i] \in BOOLEAN
  BY <1>1, ElementOfSeq
<1>5. QED BY <1>1, <1>2, <1>3, <1>4

\* The path to a key has its first bits.
LEMMA PathIs ==
  ASSUME NEW key \in Keys, NEW d \in 0 .. Len(key)
  PROVE  /\ SubSeq(key, 1, d) \in Seq(BOOLEAN) /\ Len(SubSeq(key, 1, d)) = d
         /\ \A i \in 1 .. d : SubSeq(key, 1, d)[i] = key[i]
BY KeyIs, StartIs

\* At most one key has all the bits of a key.
LEMMA DepthIs ==
  ASSUME NEW keys \in SUBSET Keys, NEW key \in Keys
  PROVE  /\ DepthOf(keys, key) \in 1 .. Len(key)
         /\ Cardinality(EndNode(keys, key).keys) <= 1
<1> DEFINE T == {d \in 1 .. Len(key) : Cardinality(TrieNode(keys, SubSeq(key, 1, d)).keys) <= 1}
           n == Len(key)
<1>1. n \in Nat \ {0} /\ key \in Seq(BOOLEAN)
  BY KeyIs
<1>2. n \in T
  <2> DEFINE below == TrieNode(keys, SubSeq(key, 1, n)).keys
  <2>1. SubSeq(key, 1, n) = key
    BY <1>1, SubSeqFull
  <2>2. ASSUME NEW k \in below PROVE k = key
    <3>1. k \in Keys /\ IsPrefix(key, k)
      BY <2>1, <2>2 DEF TrieNode
    <3>2. k \in Seq(BOOLEAN) /\ Len(k) = n
      BY <3>1, KeyIs
    <3>3. \A i \in 1 .. n : key[i] = k[i]
      BY <1>1, <3>1, <3>2, PrefixIs
    <3>4. QED BY <1>1, <3>2, <3>3, SeqEqual
  <2> HIDE DEF below
  <2>3. below \in SUBSET {key}
    BY <2>2
  <2>4. Cardinality({key}) = 1 /\ IsFiniteSet({key})
    BY FS_Singleton
  <2>5. Cardinality(below) <= Cardinality({key})
    BY <2>3, <2>4, FS_Subset
  <2>6. Cardinality(below) <= 1
    BY <2>4, <2>5
  <2>7. QED BY <1>1, <2>6 DEF below
<1>3. \E d \in T : \A e \in T : d <= e
  <2>1. T \in SUBSET Nat
    OBVIOUS
  <2> HIDE DEF T
  <2>2. QED BY <1>2, <2>1, LeastNumber
<1>4. Min(T) \in T
  <2> HIDE DEF T
  <2>1. QED BY <1>3 DEF Min
<1>5. DepthOf(keys, key) = Min(T)
  BY DEF DepthOf
<1>6. QED BY <1>4, <1>5 DEF EndNode

\* Below a node are the keys below its two sides.
LEMMA NodeSplits ==
  ASSUME NEW keys \in SUBSET Keys, NEW key \in Keys, NEW d \in 1 .. Len(key)
  PROVE  LET prefix == SubSeq(key, 1, d - 1)
             left == TrieNode(keys, Append(prefix, TRUE))
             right == TrieNode(keys, Append(prefix, FALSE))
         IN  /\ hashInterior([left |-> left, right |-> right]) = TrieNode(keys, prefix)
             /\ Side([left |-> left, right |-> right], key[d]) = TrieNode(keys, SubSeq(key, 1, d))
<1> DEFINE prefix == SubSeq(key, 1, d - 1)
           below(p) == {k \in keys : IsPrefix(p, k)}
           P(b) == Append(prefix, b)
<1>0. Len(key) \in Nat /\ d \in Nat \ {0} /\ d - 1 \in 0 .. Len(key) /\ d - 1 \in Nat
  BY KeyIs
<1>1. /\ prefix \in Seq(BOOLEAN) /\ Len(prefix) = d - 1
      /\ \A i \in 1 .. d - 1 : prefix[i] = key[i]
  BY <1>0, PathIs
<1> HIDE DEF prefix
<1>2. ASSUME NEW b \in BOOLEAN
      PROVE  /\ P(b) \in Seq(BOOLEAN) /\ Len(P(b)) = d /\ P(b)[d] = b
             /\ \A i \in 1 .. d - 1 : P(b)[i] = prefix[i]
  <2>1. /\ P(b) \in Seq(BOOLEAN) /\ Len(P(b)) = Len(prefix) + 1 /\ P(b)[Len(prefix) + 1] = b
        /\ \A i \in 1 .. Len(prefix) : P(b)[i] = prefix[i]
    BY <1>1, AppendProperties
  <2>2. QED BY <1>0, <1>1, <2>1
<1>3. ASSUME NEW k \in keys, NEW b \in BOOLEAN
      PROVE  IsPrefix(P(b), k) <=> IsPrefix(prefix, k) /\ k[d] = b
  <2>1. k \in Seq(BOOLEAN) /\ Len(k) = Len(key)
    BY KeyIs
  <2>2. IsPrefix(prefix, k) <=> \A i \in 1 .. d - 1 : prefix[i] = k[i]
    BY <1>0, <1>1, <2>1, PrefixIs
  <2>3. IsPrefix(P(b), k) <=> \A i \in 1 .. d : P(b)[i] = k[i]
    <3>1. IsPrefix(P(b), k) <=> Len(P(b)) <= Len(k) /\ \A i \in 1 .. Len(P(b)) : P(b)[i] = k[i]
      BY <1>2, <2>1, PrefixIs
    <3>2. QED BY <1>0, <1>2, <2>1, <3>1
  <2>4. \A i \in 1 .. d : i = d \/ i \in 1 .. d - 1
    BY <1>0
  <2>5. d \in 1 .. d /\ \A i \in 1 .. d - 1 : i \in 1 .. d
    BY <1>0
  <2> HIDE DEF P
  <2>6. QED BY <1>2, <2>2, <2>3, <2>4, <2>5
<1> DEFINE left == TrieNode(keys, P(TRUE))
           right == TrieNode(keys, P(FALSE))
           node == [left |-> left, right |-> right]
<1>4. hashInterior(node) = TrieNode(keys, prefix)
  <2>1. Front(P(TRUE)) = prefix
    <3> DEFINE f == SubSeq(P(TRUE), 1, d - 1)
    <3> HIDE DEF P
    <3>0. TRUE \in BOOLEAN /\ d - 1 \in 0 .. d
      BY <1>0
    <3>1. P(TRUE) \in Seq(BOOLEAN) /\ Len(P(TRUE)) = d /\ d - 1 \in 0 .. Len(P(TRUE))
      <4>1. P(TRUE) \in Seq(BOOLEAN) /\ Len(P(TRUE)) = d
        BY <1>2, <3>0
      <4>2. QED BY <3>0, <4>1
    <3>2. Front(P(TRUE)) = f
      BY <3>1 DEF Front
    <3>3. f \in Seq(BOOLEAN) /\ Len(f) = d - 1 /\ \A i \in 1 .. d - 1 : f[i] = P(TRUE)[i]
      BY <3>1, StartIs
    <3> HIDE DEF f
    <3>4. \A i \in 1 .. d - 1 : f[i] = prefix[i]
      BY <1>2, <3>3
    <3>5. QED BY <1>1, <3>2, <3>3, <3>4, SeqEqual
  <2>2. below(P(TRUE)) \cup below(P(FALSE)) = below(prefix)
    <3>1. \A k \in keys : k[d] \in BOOLEAN
      BY <1>0, KeyIs
    <3> HIDE DEF P
    <3>2. QED BY <1>3, <3>1
  <2> HIDE DEF P
  <2>3. QED BY <2>1, <2>2 DEF hashInterior, TrieNode
<1>5. Side(node, key[d]) = TrieNode(keys, SubSeq(key, 1, d))
  <2>1. key[d] \in BOOLEAN
    BY KeyIs
  <2>2. P(key[d]) = SubSeq(key, 1, d)
    <3> DEFINE u == SubSeq(key, 1, d)
    <3>1. u \in Seq(BOOLEAN) /\ Len(u) = d /\ \A i \in 1 .. d : u[i] = key[i]
      <4>1. d \in 0 .. Len(key)
        BY <1>0
      <4>2. QED BY <4>1, PathIs
    <3> HIDE DEF u, P
    <3>2. \A i \in 1 .. d : P(key[d])[i] = u[i]
      <4>1. \A i \in 1 .. d : i = d \/ i \in 1 .. d - 1
        BY <1>0
      <4>2. QED BY <1>1, <1>2, <2>1, <3>1, <4>1
    <3>3. P(key[d]) = u
      BY <1>2, <2>1, <3>1, <3>2, SeqEqual
    <3>4. QED BY <3>3 DEF u
  <2>3. Side(node, key[d]) = IF key[d] THEN left ELSE right
    BY DEF Side
  <2>4. (key[d] = TRUE => P(key[d]) = P(TRUE)) /\ (key[d] = FALSE => P(key[d]) = P(FALSE))
    OBVIOUS
  <2> HIDE DEF P
  <2>5. QED BY <2>1, <2>2, <2>3, <2>4
<1>6. QED BY <1>4, <1>5 DEF prefix

------------------------------------------------------------------------------
(* Proofs: what exists, and the links. *)

\* What a proof shows to exist is below the root of its path.
LEMMA ExistsIsBelow ==
  ASSUME NEW p, Len(p.interiors) \in Nat \ {0}, NEW key, exists(p, key) = "yes"
  PROVE  key \in hashInterior(p.interiors[1]).keys
<1> DEFINE n == Len(p.interiors)
           T == {d \in 1 .. n : key \in Side(p.interiors[d], key[d]).keys}
<1>1. /\ \A d \in 2 .. n : Side(p.interiors[d - 1], key[d - 1]) = hashInterior(p.interiors[d])
      /\ Side(p.interiors[n], key[n]) = p.end
      /\ p.end.keys = {key}
  BY DEF exists
<1>2. n \in T
  BY <1>1
<1>3. PICK d \in T : \A e \in T : d <= e
  <2>1. T \in SUBSET Nat
    OBVIOUS
  <2> HIDE DEF T
  <2>2. QED BY <1>2, <2>1, LeastNumber
<1>4. key \in hashInterior(p.interiors[d]).keys
  BY <1>3 DEF Side, hashInterior
<1>5. CASE d = 1
  BY <1>4, <1>5
<1>6. CASE d # 1
  <2>1. d \in 2 .. n /\ d - 1 \in 1 .. n /\ ~ (d <= d - 1)
    BY <1>6
  <2>2. key \in Side(p.interiors[d - 1], key[d - 1]).keys
    BY <1>1, <1>4, <2>1
  <2>3. d - 1 \in T
    BY <2>1, <2>2
  <2> HIDE DEF T
  <2>4. QED BY <1>3, <2>1, <2>3
<1>7. QED BY <1>5, <1>6

\* What the three readers return is proved to exist.
LEMMA ReturnedExists ==
  ASSUME NEW p, NEW reader \in Readers, NEW key
  PROVE  \A k \in Returned(p, reader, key) : exists(p, k) = "yes"
<1>1. \A k \in getVerifiedInstance(p) : exists(p, k) = "yes"
  BY DEF getVerifiedInstance
<1>2. CASE reader = "instance"
  BY <1>2 DEF Returned
<1>3. CASE reader = "spawner"
  BY <1>1, <1>3 DEF Returned
<1>4. CASE reader = "darc"
  BY <1>1, <1>4 DEF Returned
<1>5. QED BY <1>2, <1>3, <1>4 DEF Readers

\* The links that a node puts into a proof, of h blocks.
ProofLinks(h) ==
  LET way == WayTo(h)[Genesis] IN
  <<[from |-> 0, to |-> Genesis, newRoster |-> {chain[Genesis].roster}]>>
    \o [k \in 1 .. Len(way) - 1 |-> Link(way[k], way[k + 1])]

\* The links of a proof follow the way from the genesis block.
LEMMA ProofLinksAre ==
  ASSUME ChainShape, NEW h \in 1 .. Len(chain)
  PROVE  LET w == WayTo(h)[Genesis]
             s == ProofLinks(h)
         IN  /\ IsWayOf(w, Genesis, h)
             /\ s \in Seq([from : Nat, to : Nat, newRoster : SUBSET Rosters])
             /\ Len(s) = Len(w) /\ s[1].to = Genesis
             /\ \A k \in 2 .. Len(w) : s[k] = Link(w[k - 1], w[k])
             /\ \A k \in 2 .. Len(w) : s[k].to \in LinksOf(s[k].from, Len(chain))
             /\ \A k \in 1 .. Len(w) : s[k].to = w[k] /\ w[k] \in 1 .. h
<1> DEFINE w == WayTo(h)[Genesis]
           L == [from : Nat, to : Nat, newRoster : SUBSET Rosters]
           a == [from |-> 0, to |-> Genesis, newRoster |-> {chain[Genesis].roster}]
           t == [k \in 1 .. Len(w) - 1 |-> Link(w[k], w[k + 1])]
           s == <<a>> \o t
<1>1. h \in Nat /\ Len(chain) \in Nat /\ h <= Len(chain) /\ Genesis \in 1 .. h
  BY ChainIs DEF Genesis
<1>2. IsWayOf(w, Genesis, h)
  BY <1>1, WayLeads
<1> HIDE DEF w
<1>3. Len(w) \in Nat \ {0} /\ \A k \in 1 .. Len(w) : w[k] \in 1 .. h
  <2>1. w \in Seq(1 .. h) /\ Len(w) \in Nat \ {0}
    BY <1>2 DEF IsWayOf
  <2>2. QED BY <2>1, ElementOfSeq
<1>4. a \in L /\ a.to = Genesis
  <2>1. chain[Genesis].roster \in Rosters
    BY <1>1, ChainIs DEF Genesis
  <2>2. QED BY <2>1 DEF Genesis
<1>5. ASSUME NEW i \in 1 .. h, NEW j \in 1 .. h PROVE Link(i, j) \in L
  <2>1. chain[j].roster \in Rosters
    BY <1>1, ChainIs
  <2>2. QED BY <1>1, <2>1 DEF Link
<1>6. t \in Seq(L) /\ Len(t) = Len(w) - 1
  <2>1. Len(w) - 1 \in Nat
    BY <1>3
  <2>2. \A k \in 1 .. Len(w) - 1 : Link(w[k], w[k + 1]) \in L
    <3> SUFFICES ASSUME NEW k \in 1 .. Len(w) - 1 PROVE Link(w[k], w[k + 1]) \in L
      OBVIOUS
    <3>1. k \in 1 .. Len(w) /\ k + 1 \in 1 .. Len(w)
      BY <1>3
    <3>2. w[k] \in 1 .. h /\ w[k + 1] \in 1 .. h
      BY <1>3, <3>1
    <3>3. QED BY <1>5, <3>2
  <2> HIDE DEF L
  <2>3. t \in [1 .. Len(w) - 1 -> L]
    BY <2>2
  <2> HIDE DEF t
  <2>4. QED BY <2>1, <2>3
<1>7. \A k \in 1 .. Len(w) - 1 : t[k] = Link(w[k], w[k + 1])
  OBVIOUS
<1> HIDE DEF a, t, L
<1>8. /\ s \in Seq(L) /\ Len(s) = Len(t) + 1 /\ s[1] = a
      /\ \A k \in 2 .. Len(s) : s[k] = t[k - 1]
  BY <1>4, <1>6, OneMore
<1> HIDE DEF s
<1>9. Len(s) = Len(w)
  BY <1>3, <1>6, <1>8
<1>10. ASSUME NEW k \in 2 .. Len(w)
       PROVE  s[k] = Link(w[k - 1], w[k]) /\ k - 1 \in 1 .. Len(w) /\ k \in 1 .. Len(w)
  <2>1. k - 1 \in 1 .. Len(w) - 1 /\ (k - 1) + 1 = k /\ k - 1 \in 1 .. Len(w) /\ k \in 1 .. Len(w)
    BY <1>3
  <2>2. QED BY <1>7, <1>8, <1>9, <2>1
<1>11. ASSUME NEW k \in 2 .. Len(w) PROVE s[k].to \in LinksOf(s[k].from, Len(chain))
  <2>1. s[k].to = w[k] /\ s[k].from = w[k - 1]
    <3>1. s[k] = Link(w[k - 1], w[k])
      BY <1>10
    <3>2. QED BY <3>1 DEF Link
  <2>2. w[k] \in LinksOf(w[k - 1], h)
    BY <1>2 DEF IsWayOf
  <2>3. w[k - 1] \in 1 .. h
    BY <1>3, <1>10
  <2>4. LinksOf(w[k - 1], h) \subseteq LinksOf(w[k - 1], Len(chain))
    BY <1>1, <2>3, MoreLinks
  <2>5. QED BY <2>1, <2>2, <2>4
<1>12. ASSUME NEW k \in 1 .. Len(w) PROVE s[k].to = w[k]
  <2>1. CASE k = 1
    BY <1>2, <1>4, <1>8, <2>1 DEF IsWayOf
  <2>2. CASE k # 1
    <3>1. k \in 2 .. Len(w)
      BY <1>3, <2>2
    <3>2. s[k] = Link(w[k - 1], w[k])
      BY <1>10, <3>1
    <3>3. QED BY <3>2 DEF Link
  <2>3. QED BY <2>1, <2>2
<1>13. s[1].to = Genesis
  BY <1>4, <1>8
<1>14. ProofLinks(h) = s
  BY DEF ProofLinks, s, t, a, w
<1>15. QED BY <1>2, <1>3, <1>8, <1>9, <1>10, <1>11, <1>12, <1>13, <1>14 DEF w, L

\* With a link lost, the others are as they were.
LEMMA LinksWithout ==
  ASSUME NEW S, NEW s \in Seq(S), NEW lost \in 1 .. Len(s)
  PROVE  LET t == RemoveAt(s, lost) IN
         /\ t \in Seq(S) /\ Len(t) = Len(s) - 1
         /\ \A k \in 1 .. Len(t) : t[k] = s[k] \/ t[k] = s[k + 1]
<1> DEFINE a == SubSeq(s, 1, lost - 1)
           b == SubSeq(s, lost + 1, Len(s))
           t == a \o b
<1>1. Len(s) \in Nat /\ lost \in Nat \ {0} /\ lost <= Len(s) /\ lost - 1 \in 0 .. Len(s)
  BY LenProperties
<1>2. a \in Seq(S) /\ Len(a) = lost - 1 /\ \A i \in 1 .. lost - 1 : a[i] = s[i]
  BY <1>1, StartIs
<1>3. /\ b \in Seq(S) /\ Len(b) = Len(s) - lost
      /\ \A i \in 1 .. Len(s) - lost : b[i] = s[lost + i]
  <2>1. \A i \in lost + 1 .. Len(s) : s[i] \in S
    BY <1>1, ElementOfSeq
  <2>2. /\ b \in Seq(S)
        /\ Len(b) = IF lost + 1 <= Len(s) THEN Len(s) - (lost + 1) + 1 ELSE 0
        /\ \A i \in 1 .. Len(s) - (lost + 1) + 1 : b[i] = s[(lost + 1) + i - 1]
    BY <1>1, <2>1, SubSeqProperties
  <2> HIDE DEF b
  <2>3. Len(b) = Len(s) - lost
    <3>1. CASE lost = Len(s)
      BY <1>1, <2>2, <3>1
    <3>2. CASE lost # Len(s)
      <4>1. lost + 1 <= Len(s) /\ Len(s) - (lost + 1) + 1 = Len(s) - lost
        BY <1>1, <3>2
      <4>2. QED BY <2>2, <4>1
    <3>3. QED BY <3>1, <3>2
  <2>4. ASSUME NEW i \in 1 .. Len(s) - lost PROVE b[i] = s[lost + i]
    <3>1. i \in 1 .. Len(s) - (lost + 1) + 1 /\ (lost + 1) + i - 1 = lost + i
      BY <1>1
    <3>2. QED BY <2>2, <3>1
  <2>5. QED BY <2>2, <2>3, <2>4
<1> HIDE DEF a, b
<1>4. /\ t \in Seq(S) /\ Len(t) = Len(a) + Len(b)
      /\ \A i \in 1 .. Len(a) + Len(b) : t[i] = IF i <= Len(a) THEN a[i] ELSE b[i - Len(a)]
  BY <1>2, <1>3, ConcatProperties
<1> HIDE DEF t
<1>5. Len(t) = Len(s) - 1
  BY <1>1, <1>2, <1>3, <1>4
<1>6. ASSUME NEW k \in 1 .. Len(t) PROVE t[k] = s[k] \/ t[k] = s[k + 1]
  <2>1. CASE k <= lost - 1
    <3>1. k \in 1 .. Len(a) + Len(b) /\ k <= Len(a) /\ k \in 1 .. lost - 1
      BY <1>1, <1>2, <1>4, <2>1
    <3>2. QED BY <1>2, <1>4, <3>1
  <2>2. CASE k > lost - 1
    <3>1. k \in 1 .. Len(a) + Len(b) /\ ~ (k <= Len(a)) /\ k - Len(a) \in 1 .. Len(s) - lost
          /\ lost + (k - Len(a)) = k + 1
      BY <1>1, <1>2, <1>3, <1>4, <2>2
    <3>2. QED BY <1>3, <1>4, <3>1
  <2>3. QED BY <1>1, <2>1, <2>2
<1>7. RemoveAt(s, lost) = t
  BY DEF RemoveAt, t, a, b
<1>8. QED BY <1>4, <1>5, <1>6, <1>7

------------------------------------------------------------------------------
(* What is verified of a proof. *)

\* PublicsFor and verify against a chain c.
Publics(c, p, k) ==
  LET changes == {l \in 2 .. k - 1 : p.links[l].newRoster # {}}
  IN IF changes = {} THEN c[p.latest].roster
     ELSE CHOOSE r \in p.links[Max(changes)].newRoster : TRUE

Verified(c, p) ==
  /\ hashInterior(p.interiors[1]) = TrieNode(c[p.latest].keys, <<>>)
  /\ p.links # <<>> /\ p.links[1].to = Genesis
  /\ \A k \in 2 .. Len(p.links) :
       /\ Publics(c, p, k) = c[p.links[k].from].roster
       /\ p.links[k].from = p.links[k - 1].to
  /\ Last(p.links).to = p.latest

\* What VerifiedProofIsOfOneBlock says of a proof and of what a reader returns.
OfOneBlock(c, p, instances) ==
  Verified(c, p) =>
    /\ Last(p.links).to = p.latest
    /\ \A k \in 2 .. Len(p.links) : p.links[k].to \in LinksOf(p.links[k - 1].to, Len(c))
    /\ instances \subseteq c[p.latest].keys

\* What HonestProofIsUnderstood says of a proof for a key.
Understood(c, p, key) ==
  /\ exists(p, key) = IF key \in c[p.latest].keys THEN "yes" ELSE "no"
  /\ Verified(c, p) <=> p.latest = Genesis \/ c[p.latest].roster = c[Genesis].roster

\* Proof.verify, with the chain as a parameter.
LEMMA Verifying ==
  ASSUME NEW p
  PROVE  /\ \A k : PublicsFor(p, k) = Publics(chain, p, k)
         /\ verify(p, Genesis) = Verified(chain, p)
<1>1. \A k : PublicsFor(p, k) = Publics(chain, p, k)
  BY DEF PublicsFor, Publics
<1>2. QED BY <1>1 DEF verify, Verified, LinkVerifies

\* A proof of which the two invariants say what they must settles the request.
LEMMA ProofsSettle ==
  ASSUME ChainShape, NEW reader \in Readers, NEW key, NEW p, NEW honest \in BOOLEAN,
         GetProof(reader, key, p, honest),
         OfOneBlock(chain, p, Returned(p, reader, key)),
         honest => Understood(chain, p, key)
  PROVE  ChainInv'
<1>1. /\ request'.kind = "proof" /\ request'.phase \in {"resolved", "invalid"}
      /\ request'.key = key /\ request'.proof = p /\ request'.honest = honest
      /\ request'.result = Returned(p, reader, key)
      /\ chain' = chain /\ known' = known
  BY DEF GetProof
<1> DEFINE r == Returned(p, reader, key)
<1> HIDE DEF r
<1>2. request'.result = r /\ OfOneBlock(chain, p, r)
  BY <1>1 DEF r
<1>3. ChainShape'
  BY <1>1 DEF ChainShape
<1>4. Settled' /\ AcceptedChainIsReal' /\ LaggingIsNotInvalid'
  BY <1>1 DEF Settled, AcceptedChainIsReal, LaggingIsNotInvalid
<1>5. verify(request.proof, Genesis)' = Verified(chain, p)
  <2>1. \A k : PublicsFor(request.proof, k)' = Publics(chain, p, k)
    BY <1>1 DEF PublicsFor, Publics
  <2>2. QED BY <1>1, <2>1 DEF verify, Verified, LinkVerifies, PublicsFor, Publics, Genesis
<1>6. VerifiedProofIsOfOneBlock'
  BY <1>1, <1>2, <1>5 DEF VerifiedProofIsOfOneBlock, OfOneBlock
<1>7. HonestProofIsUnderstood'
  BY <1>1, <1>5 DEF HonestProofIsUnderstood, Understood
<1>8. QED BY <1>1, <1>3, <1>4, <1>6, <1>7 DEF ChainInv, Accepted

\* Links of the chain, with a root and a path down from it, are verified only if
\* they are of one block.
LEMMA ProofIsOfOneBlock ==
  ASSUME ChainShape, NEW p, NEW key \in Keys, NEW keys \in SUBSET Keys, NEW reader \in Readers,
         p.interiors = Interiors(keys, key),
         Len(p.links) \in Nat,
         \A k \in 2 .. Len(p.links) : p.links[k].to \in LinksOf(p.links[k].from, Len(chain))
  PROVE  OfOneBlock(chain, p, Returned(p, reader, key))
<1> SUFFICES ASSUME Verified(chain, p)
             PROVE  /\ Last(p.links).to = p.latest
                    /\ \A k \in 2 .. Len(p.links) :
                         p.links[k].to \in LinksOf(p.links[k - 1].to, Len(chain))
                    /\ Returned(p, reader, key) \subseteq chain[p.latest].keys
  BY DEF OfOneBlock
<1>1. /\ hashInterior(p.interiors[1]) = TrieNode(chain[p.latest].keys, <<>>)
      /\ \A k \in 2 .. Len(p.links) : p.links[k].from = p.links[k - 1].to
      /\ Last(p.links).to = p.latest
  BY DEF Verified
<1>2. Len(p.interiors) \in Nat \ {0}
  <2> DEFINE n == DepthOf(keys, key)
  <2>1. n \in Nat \ {0}
    BY DepthIs, KeyIs
  <2> HIDE DEF n
  <2>2. \E f : p.interiors = [d \in 1 .. n |-> f[d]]
    <3> DEFINE g == Interiors(keys, key)
    <3>1. g = [d \in 1 .. n |-> g[d]]
      BY DEF Interiors, n
    <3> HIDE DEF g
    <3>2. p.interiors = g
      BY DEF g
    <3>3. QED BY <3>1, <3>2
  <2>3. QED BY <2>1, <2>2
<1>3. ASSUME NEW k \in Returned(p, reader, key) PROVE k \in chain[p.latest].keys
  <2>1. exists(p, k) = "yes"
    BY <1>3, ReturnedExists
  <2>2. k \in hashInterior(p.interiors[1]).keys
    BY <1>2, <2>1, ExistsIsBelow
  <2>3. QED BY <1>1, <2>2 DEF TrieNode
<1>4. QED BY <1>1, <1>3

------------------------------------------------------------------------------
(* Proofs of one node. *)

\* A proof is of a block of the chain for each of its parts.
LEMMA ProofOfIs ==
  ASSUME ChainShape, NEW key \in Keys, NEW at \in [Parts -> 1 .. Len(chain)],
         NEW reader \in Readers
  PROVE  LET p == ProofOf(key, at) IN
         /\ OfOneBlock(chain, p, Returned(p, reader, key))
         /\ \A lost \in DOMAIN p.links :
              LET q == [p EXCEPT !.links = RemoveAt(@, lost)]
              IN OfOneBlock(chain, q, Returned(q, reader, key))
<1> DEFINE p == ProofOf(key, at)
           h == at["links"]
           keys == chain[at["interiors"]].keys
           s == ProofLinks(h)
           L == [from : Nat, to : Nat, newRoster : SUBSET Rosters]
           m == Len(chain)
<1>0. h \in 1 .. m /\ at["interiors"] \in 1 .. m
  BY DEF Parts
<1>1. keys \in SUBSET Keys
  BY <1>0, ChainIs
<1>2. p.links = s /\ p.interiors = Interiors(keys, key)
  BY DEF ProofOf, ProofLinks
<1>3. /\ s \in Seq(L)
      /\ \A k \in 2 .. Len(s) : s[k].to \in LinksOf(s[k].from, m)
  BY <1>0, ProofLinksAre
<1> HIDE DEF s, L, h, keys, m
<1>4. OfOneBlock(chain, p, Returned(p, reader, key))
  <2> HIDE DEF p
  <2>1. Len(p.links) \in Nat
    BY <1>2, <1>3
  <2>2. \A k \in 2 .. Len(p.links) : p.links[k].to \in LinksOf(p.links[k].from, Len(chain))
    BY <1>2, <1>3 DEF m
  <2>3. QED BY <1>1, <1>2, <2>1, <2>2, ProofIsOfOneBlock
<1>5. ASSUME NEW lost \in DOMAIN p.links
      PROVE  LET q == [p EXCEPT !.links = RemoveAt(@, lost)]
             IN OfOneBlock(chain, q, Returned(q, reader, key))
  <2> DEFINE q == [p EXCEPT !.links = RemoveAt(@, lost)]
             t == RemoveAt(s, lost)
  <2>1. q.links = t /\ q.interiors = Interiors(keys, key)
    BY <1>2 DEF ProofOf
  <2>2. lost \in 1 .. Len(s) /\ Len(s) \in Nat
    BY <1>2, <1>3, <1>5
  <2>3. /\ t \in Seq(L) /\ Len(t) = Len(s) - 1
        /\ \A k \in 1 .. Len(t) : t[k] = s[k] \/ t[k] = s[k + 1]
    BY <1>3, <2>2, LinksWithout
  <2> HIDE DEF t, q, p
  <2>4. ASSUME NEW k \in 2 .. Len(t) PROVE t[k].to \in LinksOf(t[k].from, m)
    <3>1. k \in 1 .. Len(t) /\ k \in 2 .. Len(s) /\ k + 1 \in 2 .. Len(s)
      BY <2>2, <2>3
    <3>2. QED BY <1>3, <2>3, <3>1
  <2>5. Len(q.links) \in Nat
    BY <2>1, <2>3
  <2>6. \A k \in 2 .. Len(q.links) : q.links[k].to \in LinksOf(q.links[k].from, Len(chain))
    BY <2>1, <2>4 DEF m
  <2>7. OfOneBlock(chain, q, Returned(q, reader, key))
    BY <1>1, <2>1, <2>5, <2>6, ProofIsOfOneBlock
  <2>8. QED BY <2>7 DEF q
<1>6. QED BY <1>4, <1>5

\* A set of at most one element that has x is {x}.
LEMMA OnlyOne ==
  ASSUME NEW S, IsFiniteSet(S), Cardinality(S) <= 1, NEW x \in S
  PROVE  S = {x}
<1>1. {x} \in SUBSET S /\ Cardinality({x}) = 1
  BY FS_Singleton
<1>2. 1 <= Cardinality(S) /\ Cardinality(S) \in Nat
  BY <1>1, FS_Subset, FS_CardinalityType
<1>3. Cardinality(S) = Cardinality({x})
  BY <1>1, <1>2
<1>4. QED BY <1>1, <1>3, FS_Subset

\* An honest path finds a key if, and only if, the trie has it.
LEMMA PathFinds ==
  ASSUME NEW keys \in SUBSET Keys, NEW key \in Keys, NEW p,
         p.interiors = Interiors(keys, key), p.end = EndNode(keys, key)
  PROVE  /\ exists(p, key) = IF key \in keys THEN "yes" ELSE "no"
         /\ hashInterior(p.interiors[1]) = TrieNode(keys, <<>>)
<1> DEFINE n == DepthOf(keys, key)
           Node(d) == TrieNode(keys, SubSeq(key, 1, d))
           N == p.interiors
<1>1. /\ n \in 1 .. Len(key) /\ n \in Nat \ {0} /\ Cardinality(Node(n).keys) <= 1
      /\ Len(key) \in Nat /\ p.end = Node(n)
  BY DepthIs, KeyIs DEF EndNode
<1>2. /\ Len(N) = n
      /\ \A d \in 1 .. n : hashInterior(N[d]) = Node(d - 1) /\ Side(N[d], key[d]) = Node(d)
  <2> DEFINE M(d) == [left |-> TrieNode(keys, Append(SubSeq(key, 1, d - 1), TRUE)),
                      right |-> TrieNode(keys, Append(SubSeq(key, 1, d - 1), FALSE))]
  <2>1. N = [d \in 1 .. n |-> M(d)]
    BY DEF Interiors
  <2>2. ASSUME NEW d \in 1 .. n
        PROVE  hashInterior(M(d)) = Node(d - 1) /\ Side(M(d), key[d]) = Node(d)
    <3>1. d \in 1 .. Len(key)
      BY <1>1
    <3>2. QED BY <3>1, NodeSplits
  <2> HIDE DEF M, Node, N, n
  <2>3. Len(N) = n
    BY <1>1, <2>1
  <2>4. QED BY <2>1, <2>2, <2>3
<1>3. key \in keys => key \in Node(n).keys
  <2>1. IsPrefix(SubSeq(key, 1, n), key)
    <3> DEFINE u == SubSeq(key, 1, n)
    <3>1. n \in 0 .. Len(key) /\ key \in Seq(BOOLEAN)
      BY <1>1, KeyIs
    <3>2. u \in Seq(BOOLEAN) /\ Len(u) = n /\ \A i \in 1 .. n : u[i] = key[i]
      BY <3>1, PathIs
    <3> HIDE DEF u, n
    <3>3. Len(u) <= Len(key)
      BY <1>1, <3>2
    <3>4. IsPrefix(u, key)
      BY <3>1, <3>2, <3>3, PrefixIs
    <3>5. QED BY <3>4 DEF u
  <2>2. QED BY <2>1 DEF TrieNode
<1>4. Node(n).keys \subseteq keys /\ IsFiniteSet(Node(n).keys)
  <2>1. Node(n).keys \subseteq keys
    BY DEF TrieNode
  <2>2. QED BY <2>1, KeysAssumption, FS_Subset
<1>5. Node(n).keys = {key} <=> key \in keys
  <2>1. key \in keys => Node(n).keys = {key}
    BY <1>1, <1>3, <1>4, OnlyOne
  <2>2. QED BY <1>4, <2>1
<1>6. hashInterior(N[1]) = TrieNode(keys, <<>>)
  <2>1. SubSeq(key, 1, 1 - 1) = <<>>
    <3>1. 0 \in 0 .. Len(key) /\ 1 - 1 = 0
      BY <1>1
    <3>2. SubSeq(key, 1, 0) \in Seq(BOOLEAN) /\ Len(SubSeq(key, 1, 0)) = 0
      BY <3>1, PathIs
    <3>3. QED BY <3>1, <3>2, EmptySeq
  <2>2. hashInterior(N[1]) = Node(1 - 1)
    <3>1. 1 \in 1 .. n
      BY <1>1
    <3>2. QED BY <1>2, <3>1
  <2>3. QED BY <2>1, <2>2
<1>7. /\ \A d \in 2 .. n : Side(N[d - 1], key[d - 1]) = hashInterior(N[d])
      /\ Side(N[n], key[n]) = p.end
  <2> HIDE DEF N, Node, n
  <2>1. ASSUME NEW d \in 2 .. n PROVE Side(N[d - 1], key[d - 1]) = hashInterior(N[d])
    <3>1. d - 1 \in 1 .. n /\ d \in 1 .. n
      BY <1>1
    <3>2. QED BY <1>2, <3>1
  <2>2. n \in 1 .. n
    BY <1>1
  <2>3. QED BY <1>1, <1>2, <2>1, <2>2
<1>8. exists(p, key) = IF p.end.keys = {key} THEN "yes" ELSE "no"
  <2> HIDE DEF n, Node
  <2>1. QED BY <1>2, <1>7 DEF exists
<1>9. exists(p, key) = IF key \in keys THEN "yes" ELSE "no"
  <2> HIDE DEF n, Node, N
  <2>1. QED BY <1>1, <1>5, <1>8
<1>10. QED BY <1>6, <1>9

\* The links of one node are verified if, and only if, there are none or the
\* roster of the last block is the one of the first: only the first change of
\* the roster is verified with the roster of the latest block.
LEMMA RostersOfLinks ==
  ASSUME ChainShape, NEW h \in 1 .. Len(chain), NEW p, p.latest = h, p.links = ProofLinks(h)
  PROVE  (\A k \in 2 .. Len(p.links) :
            Publics(chain, p, k) = chain[p.links[k].from].roster)
           <=> h = Genesis \/ chain[h].roster = chain[Genesis].roster
<1> DEFINE w == WayTo(h)[Genesis]
           s == ProofLinks(h)
           n == Len(w)
           R(k) == chain[w[k]].roster
           changes(k) == {l \in 2 .. k - 1 : s[l].newRoster # {}}
<1>1. /\ IsWayOf(w, Genesis, h)
      /\ Len(s) = n
      /\ \A k \in 2 .. n : s[k] = Link(w[k - 1], w[k])
  BY ProofLinksAre
<1> HIDE DEF w, s
<1>2. n \in Nat \ {0} /\ w[1] = Genesis /\ w[n] = h
  BY <1>1 DEF IsWayOf
<1>3. ASSUME NEW k \in 2 .. n
      PROVE  /\ s[k].from = w[k - 1]
             /\ s[k].newRoster = IF R(k - 1) # R(k) THEN {R(k)} ELSE {}
  <2>1. s[k] = Link(w[k - 1], w[k])
    BY <1>1
  <2>2. QED BY <2>1 DEF Link
<1>4. p.links = s /\ p.latest = h
  BY DEF s
<1> HIDE DEF n, R
<1>5. ASSUME NEW k \in 2 .. n
      PROVE  Publics(chain, p, k) = IF changes(k) = {} THEN R(n) ELSE R(k - 1)
  <2> DEFINE C == changes(k)
  <2>1. C \in SUBSET (2 .. k - 1) /\ \A l \in 2 .. k - 1 : l \in C <=> s[l].newRoster # {}
    OBVIOUS
  <2>2. Publics(chain, p, k) = IF C = {} THEN chain[h].roster
                                ELSE CHOOSE r \in s[Max(C)].newRoster : TRUE
    BY <1>4 DEF Publics
  <2> HIDE DEF C
  <2>3. CASE C = {}
    BY <1>2, <2>2, <2>3 DEF C, R
  <2>4. CASE C # {}
    <3> DEFINE m == Max(C)
    <3>1. k - 1 \in Nat /\ C \in SUBSET (0 .. k - 1)
      BY <1>2, <2>1
    <3>2. m \in C /\ \A y \in C : m >= y
      BY <2>4, <3>1, GreatestNumber
    <3>3. m \in 2 .. k - 1 /\ m \in 2 .. n /\ k - 1 \in Nat
      <4>1. m \in 2 .. k - 1
        BY <2>1, <3>2
      <4> HIDE DEF m
      <4>2. QED BY <1>2, <4>1
    <3>4. s[m].newRoster = {R(m)}
      <4>1. s[m].newRoster # {}
        BY <2>1, <3>2
      <4>2. QED BY <1>3, <3>3, <4>1
    <3> HIDE DEF m
    <3>5. ASSUME NEW i \in m + 1 .. k - 1 PROVE R(i) = R(i - 1)
      <4>1. i \in 2 .. k - 1 /\ i \in 2 .. n /\ ~ (m >= i)
        BY <1>2, <3>3
      <4>2. s[i].newRoster = {}
        BY <2>1, <3>2, <4>1
      <4>3. QED BY <1>3, <4>1, <4>2
    <3>6. R(k - 1) = R(m)
      <4> DEFINE f == [i \in m .. k - 1 |-> R(i)]
      <4>1. m \in Nat /\ m <= k - 1
        BY <3>3
      <4>2. \A i \in m + 1 .. k - 1 : f[i] = f[i - 1]
        <5> SUFFICES ASSUME NEW i \in m + 1 .. k - 1 PROVE f[i] = f[i - 1]
          OBVIOUS
        <5>1. i \in m .. k - 1 /\ i - 1 \in m .. k - 1
          BY <3>3
        <5>2. QED BY <3>5, <5>1
      <4>3. m \in m .. k - 1 /\ k - 1 \in m .. k - 1
        BY <3>3
      <4>4. f[m] = R(m) /\ f[k - 1] = R(k - 1)
        BY <4>3
      <4> HIDE DEF f
      <4>5. f[k - 1] = f[m]
        BY <3>3, <4>1, <4>2, Constant
      <4>6. QED BY <4>4, <4>5
    <3>7. Publics(chain, p, k) = R(m)
      BY <2>2, <2>4, <3>4 DEF m
    <3>8. QED BY <2>4, <3>6, <3>7 DEF C
  <2>5. QED BY <2>3, <2>4
<1>6. ASSUME NEW k \in 2 .. n, changes(k) = {} PROVE R(k - 1) = R(1)
  <2> DEFINE f == [i \in 1 .. k - 1 |-> R(i)]
  <2>0. 1 \in Nat /\ k - 1 \in Nat /\ 1 <= k - 1
    BY <1>2
  <2>1. \A i \in 1 + 1 .. k - 1 : f[i] = f[i - 1]
    <3> SUFFICES ASSUME NEW i \in 1 + 1 .. k - 1 PROVE f[i] = f[i - 1]
      OBVIOUS
    <3>1. i \in 2 .. k - 1 /\ i \in 2 .. n /\ i \in 1 .. k - 1 /\ i - 1 \in 1 .. k - 1
      BY <1>2
    <3>2. s[i].newRoster = {}
      BY <1>6, <3>1
    <3>3. R(i) = R(i - 1)
      BY <1>3, <3>1, <3>2
    <3>4. QED BY <3>1, <3>3
  <2>2. 1 \in 1 .. k - 1 /\ k - 1 \in 1 .. k - 1
    BY <2>0
  <2>3. f[1] = R(1) /\ f[k - 1] = R(k - 1)
    BY <2>2
  <2> HIDE DEF f
  <2>4. f[k - 1] = f[1]
    BY <2>0, <2>1, Constant
  <2>5. QED BY <2>3, <2>4
<1>7. ASSUME NEW k \in 2 .. n
      PROVE  chain[s[k].from].roster = R(k - 1)
  BY <1>3 DEF R
<1>8. R(n) = chain[h].roster /\ R(1) = chain[Genesis].roster
  BY <1>2 DEF R
<1>9. CASE R(n) = R(1)
  <2>1. \A k \in 2 .. n : Publics(chain, p, k) = R(k - 1)
    BY <1>5, <1>6, <1>9
  <2>2. QED BY <1>1, <1>4, <1>7, <1>8, <1>9, <2>1 DEF n
<1>10. CASE R(n) # R(1)
  <2>1. n # 1 /\ n \in Nat /\ 2 \in 2 .. n /\ 2 - 1 = 1
    BY <1>2, <1>10
  <2>2. changes(2) = {}
    BY <2>1
  <2> HIDE DEF changes
  <2>3. Publics(chain, p, 2) # chain[s[2].from].roster
    <3>1. Publics(chain, p, 2) = R(n)
      BY <1>5, <2>1, <2>2
    <3>2. chain[s[2].from].roster = R(1)
      BY <1>7, <2>1
    <3>3. QED BY <1>10, <3>1, <3>2
  <2>4. h # Genesis
    BY <1>8, <1>10
  <2>5. 2 \in 2 .. Len(p.links)
    BY <1>1, <1>4, <2>1 DEF n
  <2>6. QED BY <1>4, <1>8, <1>10, <2>3, <2>4, <2>5
<1>11. QED BY <1>9, <1>10

\* A proof that one node puts together is understood.
LEMMA HonestIsUnderstood ==
  ASSUME ChainShape, NEW key \in Keys, NEW h \in 1 .. Len(chain)
  PROVE  Understood(chain, ProofOf(key, [q \in Parts |-> h]), key)
<1> DEFINE at == [q \in Parts |-> h]
           p == ProofOf(key, at)
           keys == chain[h].keys
           w == WayTo(h)[Genesis]
<1>1. /\ p.latest = h /\ p.links = ProofLinks(h)
      /\ p.interiors = Interiors(keys, key) /\ p.end = EndNode(keys, key)
  BY DEF ProofOf, ProofLinks, Parts
<1>2. keys \in SUBSET Keys
  BY ChainIs
<1>3. /\ IsWayOf(w, Genesis, h)
      /\ p.links \in Seq([from : Nat, to : Nat, newRoster : SUBSET Rosters])
      /\ Len(p.links) = Len(w) /\ p.links[1].to = Genesis
      /\ \A k \in 2 .. Len(w) : p.links[k] = Link(w[k - 1], w[k])
      /\ \A k \in 1 .. Len(w) : p.links[k].to = w[k]
  BY <1>1, ProofLinksAre
<1> HIDE DEF p, w
<1>4. /\ exists(p, key) = IF key \in keys THEN "yes" ELSE "no"
      /\ hashInterior(p.interiors[1]) = TrieNode(keys, <<>>)
  BY <1>1, <1>2, PathFinds
<1>5. Len(w) \in Nat \ {0} /\ w[Len(w)] = h
  BY <1>3 DEF IsWayOf
<1>6. p.links # <<>> /\ Last(p.links).to = p.latest
  <2>1. Last(p.links) = p.links[Len(w)] /\ Len(w) \in 1 .. Len(w)
    BY <1>3, <1>5 DEF Last
  <2>2. p.links # <<>>
    BY <1>3, <1>5, EmptySeq
  <2>3. QED BY <1>1, <1>3, <1>5, <2>1, <2>2
<1>7. \A k \in 2 .. Len(p.links) : p.links[k].from = p.links[k - 1].to
  <2> SUFFICES ASSUME NEW k \in 2 .. Len(p.links) PROVE p.links[k].from = p.links[k - 1].to
    OBVIOUS
  <2>1. k \in 2 .. Len(w) /\ k - 1 \in 1 .. Len(w)
    <3>1. k \in 2 .. Len(w)
      BY <1>3
    <3>2. QED BY <1>5, <3>1
  <2>2. p.links[k] = Link(w[k - 1], w[k])
    BY <1>3, <2>1
  <2>3. p.links[k].from = w[k - 1]
    BY <2>2 DEF Link
  <2>4. QED BY <1>3, <2>1, <2>3
<1>8. (\A k \in 2 .. Len(p.links) : Publics(chain, p, k) = chain[p.links[k].from].roster)
        <=> h = Genesis \/ chain[h].roster = chain[Genesis].roster
  BY <1>1, RostersOfLinks
<1>9. Verified(chain, p) <=> h = Genesis \/ chain[h].roster = chain[Genesis].roster
  BY <1>1, <1>3, <1>4, <1>6, <1>7, <1>8 DEF Verified
<1>10. Understood(chain, p, key)
  BY <1>1, <1>4, <1>9 DEF Understood
<1>11. QED BY <1>10 DEF p

\* A proof leaves the client with an answer that is what the invariants say.
LEMMA ProofsKeep ==
  ASSUME ChainInv, NEW n \in Conodes
  PROVE  (HonestProof(n) => ChainInv') /\ (MixedProof(n) => ChainInv')
<1>0. ChainShape /\ Len(chain) \in Nat /\ known[n] \in 0 .. Len(chain)
  BY ChainIs DEF ChainInv, ChainShape
<1> DEFINE h == known[n]
           now == [q \in Parts |-> h]
<1>1. ASSUME HonestProof(n) PROVE ChainInv'
  <2>1. PICK reader \in Readers, key \in Keys : GetProof(reader, key, ProofOf(key, now), TRUE)
    BY <1>1 DEF HonestProof
  <2>2. h \in 1 .. Len(chain)
    BY <1>0, <1>1 DEF HonestProof
  <2>3. now \in [Parts -> 1 .. Len(chain)]
    BY <2>2
  <2> HIDE DEF now
  <2>4. OfOneBlock(chain, ProofOf(key, now), Returned(ProofOf(key, now), reader, key))
    BY <1>0, <2>3, ProofOfIs
  <2>5. Understood(chain, ProofOf(key, now), key)
    BY <1>0, <2>2, HonestIsUnderstood DEF now
  <2>6. QED BY <1>0, <2>1, <2>4, <2>5, ProofsSettle
<1>2. ASSUME MixedProof(n) PROVE ChainInv'
  <2>1. h \in 1 .. Len(chain)
    BY <1>0, <1>2 DEF MixedProof
  <2>2. PICK reader \in Readers, key \in Keys :
          \/ \E old \in 1 .. h - 1, stale \in SUBSET Parts \ {{}, Parts} :
               GetProof(reader, key,
                 ProofOf(key, [q \in Parts |-> IF q \in stale THEN old ELSE h]), FALSE)
          \/ \E lost \in DOMAIN ProofOf(key, now).links :
               GetProof(reader, key,
                 [ProofOf(key, now) EXCEPT !.links = RemoveAt(@, lost)], FALSE)
    BY <1>2 DEF MixedProof
  <2>3. ASSUME NEW old \in 1 .. h - 1, NEW stale \in SUBSET Parts,
               GetProof(reader, key,
                 ProofOf(key, [q \in Parts |-> IF q \in stale THEN old ELSE h]), FALSE)
        PROVE  ChainInv'
    <3> DEFINE at == [q \in Parts |-> IF q \in stale THEN old ELSE h]
    <3>1. at \in [Parts -> 1 .. Len(chain)]
      BY <1>0, <2>1
    <3> HIDE DEF at
    <3>2. OfOneBlock(chain, ProofOf(key, at), Returned(ProofOf(key, at), reader, key))
      BY <1>0, <3>1, ProofOfIs
    <3>3. GetProof(reader, key, ProofOf(key, at), FALSE)
      BY <2>3 DEF at
    <3>4. QED BY <1>0, <3>2, <3>3, ProofsSettle
  <2>4. ASSUME NEW lost \in DOMAIN ProofOf(key, now).links,
               GetProof(reader, key,
                 [ProofOf(key, now) EXCEPT !.links = RemoveAt(@, lost)], FALSE)
        PROVE  ChainInv'
    <3>1. now \in [Parts -> 1 .. Len(chain)]
      BY <2>1
    <3> HIDE DEF now
    <3> DEFINE q == [ProofOf(key, now) EXCEPT !.links = RemoveAt(@, lost)]
    <3>2. OfOneBlock(chain, q, Returned(q, reader, key))
      BY <1>0, <3>1, ProofOfIs
    <3> HIDE DEF q
    <3>3. GetProof(reader, key, q, FALSE)
      BY <2>4 DEF q
    <3>4. QED BY <1>0, <3>2, <3>3, ProofsSettle
  <2>5. QED BY <2>2, <2>3, <2>4
<1>3. QED BY <1>1, <1>2

\* A settled request is the end.
LEMMA SettledStays == ASSUME Accepted, ChainNext PROVE FALSE
<1>1. request.kind \in {"update", "proof"} /\ Settled
  BY DEF Accepted
<1>2. request # Idle /\ request.phase # "asking"
  BY <1>1 DEF Settled, Idle
<1>3. \A n \in Conodes, r \in Rosters : \A key : ~ AddBlock(n, r, key)
  BY <1>1 DEF AddBlock
<1>4. \A n \in Conodes : ~ CatchUp(n)
  BY <1>1 DEF CatchUp
<1>5. \A n \in Conodes : ~ Reply(n)
  BY <1>2 DEF Reply, Answered
<1>6. \A reader, key, p, honest : ~ GetProof(reader, key, p, honest)
  BY <1>2 DEF GetProof
<1>7. \A n \in Conodes : ~ HonestProof(n) /\ ~ MixedProof(n)
  BY <1>6 DEF HonestProof, MixedProof
<1>8. \A first, r : ~ GetUpdateChain(first, r)
  BY <1>2 DEF GetUpdateChain
<1>9. ~ RequestFails
  BY <1>2 DEF RequestFails
<1>10. QED BY <1>3, <1>4, <1>5, <1>7, <1>8, <1>9 DEF ChainNext

\* The steps of the client and of the nodes keep the invariant.
LEMMA ChainInductive == ChainInv /\ [ChainNext]_chainVars => ChainInv'
<1> SUFFICES ASSUME ChainInv, [ChainNext]_chainVars PROVE ChainInv'
  OBVIOUS
<1>1. ASSUME NEW n \in Conodes, NEW r \in Rosters, NEW key \in {{}} \cup {{k} : k \in Keys},
             AddBlock(n, r, key)
      PROVE  ChainInv'
  <2>1. key \in SUBSET Keys
    OBVIOUS
  <2>2. QED BY <1>1, <2>1, ChainGrows
<1>2. ASSUME NEW n \in Conodes, CatchUp(n) \/ Reply(n) \/ HonestProof(n) \/ MixedProof(n)
      PROVE  ChainInv'
  BY <1>2, ChainGrows, UpdateKeeps, ProofsKeep
<1>3. ASSUME NEW first \in DOMAIN chain, NEW r \in Rosters, GetUpdateChain(first, r)
      PROVE  ChainInv'
  BY <1>3, UpdateKeeps
<1>4. CASE RequestFails
  BY <1>4, UpdateKeeps
<1>5. CASE UNCHANGED chainVars
  <2>1. chain' = chain /\ known' = known /\ request' = request
    BY <1>5 DEF chainVars
  <2>2. ChainShape'
    BY <2>1 DEF ChainInv, ChainShape
  <2>3. (request = Idle)' <=> request = Idle
    BY <2>1
  <2>4. Asking' <=> Asking
    BY <2>1 DEF Asking
  <2>5. Accepted' <=> Accepted
    <3>1. verify(request.proof, Genesis)' = verify(request.proof, Genesis)
      <4>1. \A k : PublicsFor(request.proof, k)' = PublicsFor(request.proof, k)
        BY <2>1 DEF PublicsFor
      <4>2. QED BY <2>1, <4>1 DEF verify, LinkVerifies, PublicsFor
    <3>2. QED BY <2>1, <3>1 DEF Accepted, Settled, AcceptedChainIsReal, LaggingIsNotInvalid,
            VerifiedProofIsOfOneBlock, HonestProofIsUnderstood
  <2>6. QED BY <2>2, <2>3, <2>4, <2>5 DEF ChainInv
<1>6. QED BY <1>1, <1>2, <1>3, <1>4, <1>5 DEF ChainNext

\* The invariant gives the properties that the runs check.
LEMMA ChainInvSays ==
  ASSUME ChainInv
  PROVE  /\ ChainTypeOK
         /\ AcceptedChainIsReal /\ LaggingIsNotInvalid
         /\ VerifiedProofIsOfOneBlock /\ HonestProofIsUnderstood
<1>1. /\ \A i \in DOMAIN chain : chain[i].roster \in Rosters /\ chain[i].keys \subseteq Keys
      /\ known \in [Conodes -> 0 .. Len(chain)]
  BY ChainIs DEF ChainInv, ChainShape
<1>2. CASE request = Idle
  BY <1>1, <1>2 DEF Idle, ChainTypeOK, AcceptedChainIsReal, LaggingIsNotInvalid,
     VerifiedProofIsOfOneBlock, HonestProofIsUnderstood
<1>3. CASE Asking
  <2>1. request.kind = "update" /\ request.phase = "asking"
    BY <1>3 DEF Asking, Asked
  <2>2. QED BY <1>1, <2>1 DEF ChainTypeOK, AcceptedChainIsReal, LaggingIsNotInvalid,
     VerifiedProofIsOfOneBlock, HonestProofIsUnderstood
<1>4. CASE Accepted
  BY <1>1, <1>4 DEF Accepted, Settled, ChainTypeOK
<1>5. QED BY <1>2, <1>3, <1>4 DEF ChainInv

------------------------------------------------------------------------------
(* What holds in every behaviour of the client of the chain. *)

\* The blocks keep rosters and keys, no node knows more blocks than there are, and a
\* request has one of its kinds and phases.
THEOREM ChainTypesCorrect == ChainSpec => []ChainTypeOK
<1>1. ChainInv => ChainTypeOK
  BY ChainInvSays
<1>2. QED BY <1>1, ChainInitEstablishes, ChainInductive, PTL DEF ChainSpec

\* What getUpdateChain (skipchain-rpc.ts) resolves with starts at the block it was asked
\* for and follows forward links of the chain, each block intact: for any rosters, any
\* number of nested calls, and answers that lost, repeated or damaged a block.
THEOREM AcceptedChainsAreReal == ChainSpec => []AcceptedChainIsReal
<1>1. ChainInv => AcceptedChainIsReal
  BY ChainInvSays
<1>2. QED BY <1>1, ChainInitEstablishes, ChainInductive, PTL DEF ChainSpec

\* getUpdateChain rejects as invalid no chain that honest nodes answered, however far
\* each of them lags behind.
THEOREM LaggingIsNeverInvalid == ChainSpec => []LaggingIsNotInvalid
<1>1. ChainInv => LaggingIsNotInvalid
  BY ChainInvSays
<1>2. QED BY <1>1, ChainInitEstablishes, ChainInductive, PTL DEF ChainSpec

\* A proof that Proof.verify (proof.ts) accepts is of one block that links reach from
\* the genesis block, and the instance its reader returns is in the state of that block,
\* for parts of a proof taken at any times and for any lost link.
THEOREM VerifiedProofsAreOfOneBlock == ChainSpec => []VerifiedProofIsOfOneBlock
<1>1. ChainInv => VerifiedProofIsOfOneBlock
  BY ChainInvSays
<1>2. QED BY <1>1, ChainInitEstablishes, ChainInductive, PTL DEF ChainSpec

\* Proof.exists finds in an honest proof exactly the keys of its block; Proof.verify
\* accepts it if and only if the roster of the block is the one of the genesis block.
THEOREM HonestProofsAreUnderstood == ChainSpec => []HonestProofIsUnderstood
<1>1. ChainInv => HonestProofIsUnderstood
  BY ChainInvSays
<1>2. QED BY <1>1, ChainInitEstablishes, ChainInductive, PTL DEF ChainSpec

==============================================================================
