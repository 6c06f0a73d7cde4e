---------------------------- MODULE DataStoreProofs ----------------------------
(***************************************************************************)
(* What holds of DataStore for any tabs and games and for all the bounds.  *)
(*                                                                         *)
(* Two things are followed through every load, failure and save.  The key  *)
(* of a page acts for its contact, or is that of an account of its own     *)
(* (Acts); a key that a page draws is never one that was given away        *)
(* (Owns), which is why what others do on the ledger cannot take that from *)
(* it.  And what a page holds is what it found in the storage or added, up *)
(* to what was removed, and all of it unless a load failed (Holds).        *)
(*                                                                         *)
(* rmContact is a recursive function.  What it returns is proved by the    *)
(* least number for which it would be wrong (LeastNumber).                 *)
(***************************************************************************)
EXTENDS DataStore, SequenceTheorems, WellFoundedInduction, TLAPS

Phases == {"closed", "loading", "contacts", "registered", "unregistered"}
Things == ({"contacts"} \X Keys) \cup (Kinds \X Games)

TabState ==
  [phase : Phases, obj : Object, data : Object, bc : BOOLEAN, saves : BOOLEAN,
   failed : BOOLEAN, mine : SUBSET Things, removed : SUBSET Things]

Shapes ==
  /\ drawn \in 0 .. MaxKeys
  /\ acts \in [Keys -> 0 .. MaxKeys]
  /\ given \subseteq 1 .. drawn
  /\ stored \in Object
  /\ tab \in [Tabs -> TabState]
  /\ loads \in 0 .. MaxLoads /\ edits \in 0 .. MaxEdits

\* The key and the contact of o have been drawn, and the key has not been given away.
Owns(o, n, gone) == o.key \in (1 .. n) \ gone /\ o.contact \in 1 .. n

\* The key of o acts for its contact, if any does, or for an account of its own.
Acts(o, a, gone) ==
  \/ a[o.contact] \in {0, o.key}
  \/ o.key # o.contact /\ a[o.key] = o.key /\ o.key \notin gone

\* An object of the storage.
Sound(o, a, n, gone) == o # Nothing => Owns(o, n, gone) /\ Acts(o, a, gone)

\* The key and the contact of a page; when it was registered with a new key, that key
\* acts for itself whatever the contact will be.
Identity(s, a, n, gone) ==
  /\ Sound(s.obj, a, n, gone)
  /\ s.phase # "closed" => Owns(s.data, n, gone)
  /\ s.phase \in {"loading", "contacts", "registered"} => Acts(s.data, a, gone)
  /\ s.saves => s.phase \in {"loading", "contacts"} /\ a[s.data.key] = s.data.key
  /\ s.phase = "loading" /\ ~ s.saves /\ s.obj # Nothing => s.data.contact = s.obj.contact

\* What a page holds, and what it lacks.
Holds(s) ==
  /\ s.saves \/ s.phase = "unregistered" => s.failed
  /\ s.phase \in {"loading", "contacts", "unregistered"} =>
       /\ s.removed = {}
       /\ Content(s.data) \subseteq s.mine /\ Content(s.obj) \subseteq s.mine
  /\ s.phase = "registered" => Content(s.data) \subseteq s.mine \ s.removed
  /\ ~ s.failed =>
       /\ s.phase \in {"loading", "contacts"} => s.mine = Content(s.obj)
       /\ s.phase = "contacts" =>
            /\ s.bc /\ s.data.lists = s.obj.lists
            /\ Len(s.data.contacts) <= Len(s.obj.contacts)
            /\ \A i \in DOMAIN s.data.contacts : s.data.contacts[i] = s.obj.contacts[i]
       /\ s.phase = "registered" => s.bc /\ s.mine \ s.removed \subseteq Content(s.data)

\* Keys that have not been drawn act for nobody.
Undrawn == \A c \in Keys : c > drawn => acts[c] = 0

IInv ==
  /\ Shapes
  /\ Undrawn
  /\ Sound(stored, acts, drawn, given)
  /\ \A t \in Tabs : Identity(tab[t], acts, drawn, given) /\ Holds(tab[t])

------------------------------------------------------------------------------
(* Sequences, and what is in them. *)

In(seq) == {seq[i] : i \in DOMAIN seq}

\* Every set of numbers that is not empty has a least one.
LEMMA LeastNumber ==
  ASSUME NEW T \in SUBSET Nat, T # {}
  PROVE  \E x \in T : \A y \in T : x <= y
<1>1. PICK x \in T : \A y \in T : ~ (<<y, x>> \in OpToRel(<, Nat))
  BY NatLessThanWellFounded, WFMin
<1>2. \A y \in T : ~ (y < x)
  BY <1>1 DEF OpToRel
<1>3. \A y \in T : x <= y
  BY <1>2
<1>4. QED BY <1>3

LEMMA InAppend ==
  ASSUME NEW S, NEW seq \in Seq(S), NEW x \in S
  PROVE  Append(seq, x) \in Seq(S) /\ In(Append(seq, x)) = In(seq) \cup {x}
<1> DEFINE new == Append(seq, x)
<1>1. /\ new \in Seq(S) /\ Len(new) = Len(seq) + 1 /\ Len(seq) \in Nat
      /\ \A i \in 1 .. Len(seq) : new[i] = seq[i]
      /\ new[Len(seq) + 1] = x
  OBVIOUS
<1>2. DOMAIN new = 1 .. Len(seq) + 1 /\ DOMAIN seq = 1 .. Len(seq)
  BY <1>1
<1> HIDE DEF new
<1>3. In(new) \subseteq In(seq) \cup {x}
  BY <1>1, <1>2 DEF In
<1>4. In(seq) \subseteq In(new)
  BY <1>1, <1>2 DEF In
<1>5. x \in In(new)
  <2>1. Len(seq) + 1 \in DOMAIN new
    BY <1>1, <1>2
  <2>2. QED BY <1>1, <2>1 DEF In
<1>6. QED BY <1>1, <1>3, <1>4, <1>5 DEF new

\* The loop of rmContact over the first m contacts.
KeptOf(f, contacts, c, n) ==
  IF n = 0 THEN <<>>
  ELSE IF contacts[n] = c THEN f[n - 1] ELSE Append(f[n - 1], contacts[n])

IsKept(f, contacts, c, m) == f = [n \in 0 .. m |-> KeptOf(f, contacts, c, n)]

LEMMA KeptExists ==
  ASSUME NEW contacts, NEW c, NEW m \in Nat
  PROVE  \E f : IsKept(f, contacts, c, m)
<1> DEFINE bad == {k \in Nat : ~ \E f : IsKept(f, contacts, c, k)}
<1>1. SUFFICES ASSUME bad # {} PROVE FALSE
  OBVIOUS
<1>2. PICK k \in bad : \A j \in bad : k <= j
  BY <1>1, LeastNumber
<1>3. CASE k = 0
  <2> DEFINE f == [n \in 0 .. 0 |-> <<>>]
  <2>1. IsKept(f, contacts, c, 0)
    BY DEF IsKept, KeptOf
  <2>2. QED BY <1>2, <1>3, <2>1
<1>4. CASE k # 0
  <2>1. k \in Nat /\ k - 1 \in Nat /\ k - 1 \notin bad
    BY <1>2, <1>4
  <2>2. PICK g : IsKept(g, contacts, c, k - 1)
    BY <2>1
  <2> DEFINE f == [n \in 0 .. k |-> IF n < k THEN g[n] ELSE KeptOf(g, contacts, c, k)]
  <2>3. \A n \in 0 .. k - 1 : f[n] = g[n] /\ g[n] = KeptOf(g, contacts, c, n)
    BY <2>1, <2>2 DEF IsKept
  <2>4. f[k] = KeptOf(g, contacts, c, k) /\ DOMAIN f = 0 .. k
    BY <2>1
  <2>5. f = [n \in 0 .. k |-> f[n]]
    OBVIOUS
  <2> HIDE DEF f
  <2>6. ASSUME NEW n \in 0 .. k
        PROVE  f[n] = KeptOf(f, contacts, c, n)
    <3>1. n = 0 \/ n - 1 \in 0 .. k - 1
      BY <2>1
    <3>2. KeptOf(f, contacts, c, n) = KeptOf(g, contacts, c, n)
      BY <2>3, <3>1 DEF KeptOf
    <3>3. n \in 0 .. k - 1 \/ n = k
      BY <2>1
    <3>4. QED BY <2>3, <2>4, <3>2, <3>3
  <2>7. IsKept(f, contacts, c, k)
    BY <2>5, <2>6 DEF IsKept
  <2>8. QED BY <1>2, <2>7
<1>5. QED BY <1>3, <1>4

\* rmContact returns contacts, all of them but the one that is removed.
LEMMA RmContactRemoves ==
  ASSUME NEW S, NEW contacts \in Seq(S), NEW c
  PROVE  rmContact(contacts, c) \in Seq(S) /\ In(rmContact(contacts, c)) = In(contacts) \ {c}
<1> DEFINE m == Len(contacts)
           F == CHOOSE f : f = [n \in 0 .. m |-> KeptOf(f, contacts, c, n)]
           G(n) == {contacts[i] : i \in 1 .. n} \ {c}
           bad == {n \in 0 .. m : ~ (F[n] \in Seq(S) /\ In(F[n]) = G(n))}
<1>1. m \in Nat /\ DOMAIN contacts = 1 .. m /\ \A i \in 1 .. m : contacts[i] \in S
  OBVIOUS
<1>2. F = [n \in 0 .. m |-> KeptOf(F, contacts, c, n)]
  BY <1>1, KeptExists DEF IsKept
<1>3. rmContact(contacts, c) = F[m]
  BY DEF rmContact, KeptOf
<1> HIDE DEF F
<1>4. \A n \in 0 .. m : F[n] = KeptOf(F, contacts, c, n)
  BY <1>2
<1>5. bad = {}
  <2> SUFFICES ASSUME bad # {} PROVE FALSE
    OBVIOUS
  <2>1. bad \in SUBSET Nat
    BY <1>1
  <2>2. PICK n \in bad : \A j \in bad : n <= j
    BY <2>1, LeastNumber
  <2>3. n \in 0 .. m
    OBVIOUS
  <2>4. CASE n = 0
    <3>1. F[0] = <<>>
      BY <1>1, <1>4 DEF KeptOf
    <3>2. In(<<>>) = {} /\ <<>> \in Seq(S) /\ G(0) = {}
      BY DEF In
    <3>3. QED BY <2>2, <2>4, <3>1, <3>2
  <2>5. CASE n # 0
    <3>1. n - 1 \in 0 .. m /\ n - 1 \notin bad /\ n \in 1 .. m
      <4> HIDE DEF bad
      <4>1. n - 1 \in 0 .. m /\ n \in 1 .. m /\ ~ (n <= n - 1)
        BY <1>1, <2>3, <2>5
      <4>2. QED BY <2>2, <4>1
    <3>2. F[n - 1] \in Seq(S) /\ In(F[n - 1]) = G(n - 1)
      BY <3>1
    <3>3. F[n] = IF contacts[n] = c THEN F[n - 1] ELSE Append(F[n - 1], contacts[n])
      BY <1>4, <2>3, <2>5 DEF KeptOf
    <3>4. 1 .. n = (1 .. n - 1) \cup {n}
      BY <3>1
    <3>5. {contacts[i] : i \in 1 .. n} = {contacts[i] : i \in 1 .. n - 1} \cup {contacts[n]}
      BY <3>4
    <3>6. contacts[n] \in S
      BY <1>1, <3>1
    <3>7. CASE contacts[n] = c
      <4>1. G(n) = G(n - 1)
        BY <3>5, <3>7
      <4>2. QED BY <2>2, <3>2, <3>3, <3>7, <4>1
    <3>8. CASE contacts[n] # c
      <4>1. G(n) = G(n - 1) \cup {contacts[n]}
        BY <3>5, <3>8
      <4>2. F[n] \in Seq(S) /\ In(F[n]) = In(F[n - 1]) \cup {contacts[n]}
        BY <3>2, <3>3, <3>6, <3>8, InAppend
      <4>3. QED BY <2>2, <3>2, <4>1, <4>2
    <3>9. QED BY <3>7, <3>8
  <2>6. QED BY <2>4, <2>5
<1>6. m \in 0 .. m
  BY <1>1
<1>7. F[m] \in Seq(S) /\ In(F[m]) = G(m)
  BY <1>5, <1>6
<1>8. G(m) = In(contacts) \ {c}
  BY <1>1 DEF In
<1>9. QED BY <1>3, <1>7, <1>8

LEMMA InEmpty == In(<<>>) = {}
BY DEF In

\* What DelRoPaSci leaves of a list: one game less, of which there may be another.
LEMMA DeletedOne ==
  ASSUME NEW S, NEW list \in Seq(S), NEW i \in 1 .. Len(list)
  PROVE  LET rest == SubSeq(list, 1, i - 1) \o SubSeq(list, i + 1, Len(list))
         IN  rest \in Seq(S) /\ In(rest) \cup {list[i]} = In(list)
<1> DEFINE m == Len(list)
           a == SubSeq(list, 1, i - 1)
           b == SubSeq(list, i + 1, m)
           rest == a \o b
<1>1. m \in Nat /\ DOMAIN list = 1 .. m /\ i \in 1 .. m
  OBVIOUS
<1>2. a \in Seq(S) /\ Len(a) = i - 1 /\ \A k \in 1 .. i - 1 : a[k] = list[k]
  <2>1. \A k \in 1 .. i - 1 : list[k] \in S
    BY <1>1
  <2>2. QED BY <1>1, <2>1, SubSeqProperties
<1>3. b \in Seq(S) /\ Len(b) = m - i /\ \A k \in 1 .. m - i : b[k] = list[i + k]
  <2>1. \A k \in i + 1 .. m : list[k] \in S
    BY <1>1
  <2>2. b \in Seq(S) /\ Len(b) = IF i + 1 <= m THEN m - (i + 1) + 1 ELSE 0
    BY <1>1, <2>1, SubSeqProperties
  <2>3. \A k \in 1 .. m - (i + 1) + 1 : b[k] = list[(i + 1) + k - 1]
    BY <1>1, <2>1, SubSeqProperties
  <2>4. Len(b) = m - i
    <3> HIDE DEF b, m
    <3>1. i \in Nat /\ i <= m
      BY <1>1
    <3>2. QED BY <1>1, <2>2, <3>1
  <2>5. ASSUME NEW k \in 1 .. m - i
        PROVE  b[k] = list[i + k]
    <3>1. m - (i + 1) + 1 = m - i /\ (i + 1) + k - 1 = i + k
      BY <1>1
    <3>2. QED BY <2>3, <3>1
  <2>6. QED BY <2>2, <2>4, <2>5
<1> HIDE DEF a, b
<1>4. /\ rest \in Seq(S) /\ Len(rest) = m - 1
      /\ \A k \in 1 .. m - 1 : rest[k] = IF k < i THEN list[k] ELSE list[k + 1]
  <2>1. rest \in Seq(S) /\ Len(rest) = Len(a) + Len(b)
        /\ \A k \in 1 .. Len(a) + Len(b) : rest[k] = IF k <= Len(a) THEN a[k] ELSE b[k - Len(a)]
    BY <1>2, <1>3, ConcatProperties
  <2>2. Len(a) + Len(b) = m - 1
    BY <1>1, <1>2, <1>3
  <2>3. ASSUME NEW k \in 1 .. m - 1
        PROVE  rest[k] = IF k < i THEN list[k] ELSE list[k + 1]
    <3>1. CASE k < i
      <4>1. k \in 1 .. i - 1 /\ k <= Len(a)
        BY <1>1, <1>2, <3>1
      <4>2. QED BY <1>2, <2>1, <2>2, <3>1, <4>1
    <3>2. CASE ~ (k < i)
      <4>1. k - (i - 1) \in 1 .. m - i /\ ~ (k <= Len(a)) /\ i + (k - (i - 1)) = k + 1
        BY <1>1, <1>2, <3>2
      <4>2. QED BY <1>2, <1>3, <2>1, <2>2, <3>2, <4>1
    <3>3. QED BY <3>1, <3>2
  <2>4. QED BY <2>1, <2>2, <2>3
<1>5. DOMAIN rest = 1 .. m - 1
  BY <1>4
<1> HIDE DEF rest
<1>6. In(rest) \cup {list[i]} \subseteq In(list)
  <2>1. ASSUME NEW k \in 1 .. m - 1
        PROVE  rest[k] \in In(list)
    <3>1. k \in 1 .. m /\ k + 1 \in 1 .. m
      BY <1>1
    <3>2. QED BY <1>1, <1>4, <3>1 DEF In
  <2>2. QED BY <1>1, <1>5, <2>1 DEF In
<1>7. ASSUME NEW k \in 1 .. m
      PROVE  list[k] \in In(rest) \cup {list[i]}
  <2>1. CASE k < i
    <3>1. k \in 1 .. m - 1 /\ rest[k] = list[k]
      BY <1>1, <1>4, <2>1
    <3>2. QED BY <1>5, <3>1 DEF In
  <2>2. CASE k > i
    <3>1. k - 1 \in 1 .. m - 1 /\ ~ (k - 1 < i) /\ (k - 1) + 1 = k
      BY <1>1, <2>2
    <3>2. rest[k - 1] = list[k]
      BY <1>4, <3>1
    <3>3. QED BY <1>5, <3>1, <3>2 DEF In
  <2>3. CASE k = i
    BY <2>3
  <2>4. QED BY <1>1, <2>1, <2>2, <2>3
<1>8. In(list) \subseteq In(rest) \cup {list[i]}
  BY <1>1, <1>7 DEF In
<1>9. QED BY <1>4, <1>6, <1>8 DEF rest, a, b

------------------------------------------------------------------------------
(* What is in an object. *)

LEMMA ContentIs ==
  ASSUME NEW o
  PROVE  \A what : what \in Content(o) <=>
           \/ \E c \in In(o.contacts) : what = <<"contacts", c>>
           \/ \E k \in Kinds : \E x \in In(o.lists[k]) : what = <<k, x>>
BY DEF Content, In

\* The contacts and the games of o, and nothing else, make up what is in it.
LEMMA ContentByParts ==
  ASSUME NEW o, NEW o2, In(o.contacts) \subseteq In(o2.contacts),
         \A k \in Kinds : In(o.lists[k]) \subseteq In(o2.lists[k])
  PROVE  Content(o) \subseteq Content(o2)
<1>1. ASSUME NEW what \in Content(o)
      PROVE  what \in Content(o2)
  <2>1. CASE \E c \in In(o.contacts) : what = <<"contacts", c>>
    <3>1. \E c \in In(o2.contacts) : what = <<"contacts", c>>
      BY <2>1
    <3>2. QED BY <3>1, ContentIs
  <2>2. CASE \E k \in Kinds : \E x \in In(o.lists[k]) : what = <<k, x>>
    <3>1. \E k \in Kinds : \E x \in In(o2.lists[k]) : what = <<k, x>>
      BY <2>2
    <3>2. QED BY <3>1, ContentIs
  <2>3. QED BY <2>1, <2>2, ContentIs
<1>2. QED BY <1>1

LEMMA ContentIsThings ==
  ASSUME NEW o \in Object
  PROVE  Content(o) \subseteq Things
<1>1. o.contacts \in Seq(Keys) /\ \A k \in Kinds : o.lists[k] \in Seq(Games)
  BY DEF Object
<1>2. In(o.contacts) \subseteq Keys
  BY <1>1 DEF In
<1>3. \A k \in Kinds : In(o.lists[k]) \subseteq Games
  BY <1>1 DEF In
<1>4. ASSUME NEW what \in Content(o)
      PROVE  what \in Things
  <2>1. CASE \E c \in In(o.contacts) : what = <<"contacts", c>>
    BY <1>2, <2>1 DEF Things
  <2>2. CASE \E k \in Kinds : \E x \in In(o.lists[k]) : what = <<k, x>>
    BY <1>3, <2>2 DEF Things
  <2>3. QED BY <2>1, <2>2, ContentIs
<1>5. QED BY <1>4

\* A contact that is added.
LEMMA ContactIn ==
  ASSUME NEW o, NEW o2, NEW c, o2.lists = o.lists, In(o2.contacts) = In(o.contacts) \cup {c}
  PROVE  Content(o2) = Content(o) \cup {<<"contacts", c>>}
<1>1. \A k \in Kinds : k # "contacts"
  BY DEF Kinds
<1>2. \A what : what \in Content(o) <=>
        \/ \E d \in In(o.contacts) : what = <<"contacts", d>>
        \/ \E k \in Kinds : \E x \in In(o.lists[k]) : what = <<k, x>>
  BY ContentIs
<1>3. \A what : what \in Content(o2) <=>
        \/ \E d \in In(o2.contacts) : what = <<"contacts", d>>
        \/ \E k \in Kinds : \E x \in In(o.lists[k]) : what = <<k, x>>
  BY ContentIs
<1>4. \A what : what \in Content(o2) <=> what \in Content(o) \cup {<<"contacts", c>>}
  BY <1>1, <1>2, <1>3
<1>5. QED BY <1>4

\* A contact that is removed.
LEMMA ContactOut ==
  ASSUME NEW o, NEW o2, NEW c, o2.lists = o.lists, In(o2.contacts) = In(o.contacts) \ {c}
  PROVE  Content(o2) = Content(o) \ {<<"contacts", c>>}
<1>1. \A k \in Kinds : k # "contacts"
  BY DEF Kinds
<1>2. \A what : what \in Content(o) <=>
        \/ \E d \in In(o.contacts) : what = <<"contacts", d>>
        \/ \E k \in Kinds : \E x \in In(o.lists[k]) : what = <<k, x>>
  BY ContentIs
<1>3. \A what : what \in Content(o2) <=>
        \/ \E d \in In(o2.contacts) : what = <<"contacts", d>>
        \/ \E k \in Kinds : \E x \in In(o.lists[k]) : what = <<k, x>>
  BY ContentIs
<1>4. \A what : what \in Content(o2) <=> what \in Content(o) \ {<<"contacts", c>>}
  BY <1>1, <1>2, <1>3
<1>5. QED BY <1>4

\* A game that is added to a list.
LEMMA GameIn ==
  ASSUME NEW o, NEW o2, NEW kind \in Kinds, NEW g, o2.contacts = o.contacts,
         \A k \in Kinds \ {kind} : o2.lists[k] = o.lists[k],
         In(o2.lists[kind]) = In(o.lists[kind]) \cup {g}
  PROVE  Content(o2) = Content(o) \cup {<<kind, g>>}
<1>1. \A what : what \in Content(o) <=>
        \/ \E d \in In(o.contacts) : what = <<"contacts", d>>
        \/ \E k \in Kinds : \E x \in In(o.lists[k]) : what = <<k, x>>
  BY ContentIs
<1>2. \A what : what \in Content(o2) <=>
        \/ \E d \in In(o.contacts) : what = <<"contacts", d>>
        \/ \E k \in Kinds : \E x \in In(o2.lists[k]) : what = <<k, x>>
  BY ContentIs
<1>3. \A what : (\E k \in Kinds : \E x \in In(o.lists[k]) : what = <<k, x>>) <=>
        \/ \E k \in Kinds \ {kind} : \E x \in In(o.lists[k]) : what = <<k, x>>
        \/ \E x \in In(o.lists[kind]) : what = <<kind, x>>
  OBVIOUS
<1>4. \A what : (\E k \in Kinds : \E x \in In(o2.lists[k]) : what = <<k, x>>) <=>
        \/ \E k \in Kinds \ {kind} : \E x \in In(o.lists[k]) : what = <<k, x>>
        \/ \E x \in In(o2.lists[kind]) : what = <<kind, x>>
  OBVIOUS
<1>5. \A what : what \in Content(o2) <=> what \in Content(o) \cup {<<kind, g>>}
  BY <1>1, <1>2, <1>3, <1>4
<1>6. QED BY <1>5

\* A game that is taken out of a list, where there may be another.
LEMMA GameOut ==
  ASSUME NEW o, NEW o2, NEW kind \in Kinds, NEW g, o2.contacts = o.contacts,
         \A k \in Kinds \ {kind} : o2.lists[k] = o.lists[k],
         In(o2.lists[kind]) \cup {g} = In(o.lists[kind])
  PROVE  Content(o2) \cup {<<kind, g>>} = Content(o)
<1>1. \A what : what \in Content(o) <=>
        \/ \E d \in In(o.contacts) : what = <<"contacts", d>>
        \/ \E k \in Kinds : \E x \in In(o.lists[k]) : what = <<k, x>>
  BY ContentIs
<1>2. \A what : what \in Content(o2) <=>
        \/ \E d \in In(o.contacts) : what = <<"contacts", d>>
        \/ \E k \in Kinds : \E x \in In(o2.lists[k]) : what = <<k, x>>
  BY ContentIs
<1>3. \A what : (\E k \in Kinds : \E x \in In(o.lists[k]) : what = <<k, x>>) <=>
        \/ \E k \in Kinds \ {kind} : \E x \in In(o.lists[k]) : what = <<k, x>>
        \/ \E x \in In(o.lists[kind]) : what = <<kind, x>>
  OBVIOUS
<1>4. \A what : (\E k \in Kinds : \E x \in In(o2.lists[k]) : what = <<k, x>>) <=>
        \/ \E k \in Kinds \ {kind} : \E x \in In(o.lists[k]) : what = <<k, x>>
        \/ \E x \in In(o2.lists[kind]) : what = <<kind, x>>
  OBVIOUS
<1>5. \A what : what \in Content(o2) \cup {<<kind, g>>} <=> what \in Content(o)
  BY <1>1, <1>2, <1>3, <1>4
<1>6. QED BY <1>5

LEMMA NothingIsObject ==
  /\ NoLists \in [Kinds -> Seq(Games)] /\ Nothing \in Object
  /\ \A k \in Kinds : In(NoLists[k]) = {}
  /\ Content(Nothing) = {}
<1>1. \A S : <<>> \in Seq(S)
  OBVIOUS
<1>2. NoLists \in [Kinds -> Seq(Games)] /\ \A k \in Kinds : NoLists[k] = <<>>
  BY <1>1 DEF NoLists
<1>3. 0 \in 0 .. MaxKeys
  BY BoundsAssumption
<1> DEFINE none == <<>>
<1>4. none \in Seq(Keys)
  BY <1>1
<1>5. Nothing = [key |-> 0, contact |-> 0, contacts |-> none, lists |-> NoLists]
  BY DEF Nothing
<1> HIDE DEF none
<1>6. Nothing \in Object
  BY <1>2, <1>3, <1>4, <1>5 DEF Object
<1>7. \A k \in Kinds : In(NoLists[k]) = {}
  BY <1>2, InEmpty
<1>8. In(Nothing.contacts) = {} /\ Nothing.lists = NoLists
  BY <1>5, InEmpty DEF none
<1>9. Content(Nothing) = {}
  BY <1>7, <1>8, ContentIs
<1>10. QED BY <1>2, <1>6, <1>7, <1>9

\* What is written of a page is what it holds, with the lists if it has a ByzCoin.
LEMMA WrittenIs ==
  ASSUME NEW s \in TabState
  PROVE  /\ toObject(s) \in Object
         /\ toObject(s).key = s.data.key /\ toObject(s).contact = s.data.contact
         /\ Content(toObject(s)) \subseteq Content(s.data)
         /\ s.bc => toObject(s) = s.data
<1>1. s.data \in Object
  BY DEF TabState
<1>2. CASE s.bc
  BY <1>1, <1>2 DEF toObject
<1>3. CASE ~ s.bc
  <2> DEFINE o == [s.data EXCEPT !.lists = NoLists]
  <2>1. o \in Object /\ o.key = s.data.key /\ o.contact = s.data.contact
        /\ o.contacts = s.data.contacts /\ o.lists = NoLists
    BY <1>1, NothingIsObject DEF Object
  <2>2. toObject(s) = o
    BY <1>3 DEF toObject
  <2> HIDE DEF o
  <2>3. \A k \in Kinds : In(o.lists[k]) \subseteq In(s.data.lists[k])
    BY <2>1, NothingIsObject
  <2>4. Content(o) \subseteq Content(s.data)
    BY <2>1, <2>3, ContentByParts
  <2>5. QED BY <1>3, <2>1, <2>2, <2>4
<1>4. QED BY <1>2, <1>3

------------------------------------------------------------------------------
(* What a step may do to the ledger, and what that leaves as it was. *)

\* Only a key that was given away, and acts for its own account, may be replaced.
LedgerStep ==
  /\ drawn' \in drawn .. MaxKeys
  /\ acts' \in [Keys -> 0 .. MaxKeys]
  /\ given \subseteq given' /\ given' \subseteq 1 .. drawn'
  /\ \A k \in given' \ given : k > drawn
  /\ Undrawn'
  /\ \A c \in 1 .. drawn : acts'[c] # acts[c] => c \in given /\ acts[c] = c

LEMMA SameLedger ==
  ASSUME IInv, drawn' = drawn, acts' = acts, given' = given
  PROVE  LedgerStep
<1>1. drawn \in drawn .. MaxKeys
  BY BoundsAssumption DEF IInv, Shapes
<1>2. Undrawn'
  BY DEF IInv, Undrawn
<1>3. QED BY <1>1, <1>2 DEF IInv, Shapes, LedgerStep

\* The next key is drawn, and may be given away at once; it acts for itself, or not yet.
LEMMA NextKeyDrawn ==
  ASSUME IInv, drawn + 1 <= MaxKeys, drawn' = drawn + 1,
         acts' = acts \/ acts' = [acts EXCEPT ![drawn + 1] = drawn + 1],
         given' = given \/ given' = given \cup {drawn + 1}
  PROVE  /\ LedgerStep /\ drawn + 1 \in Keys /\ drawn + 1 \notin given
         /\ acts[drawn + 1] = 0
<1> DEFINE n == drawn + 1
<1>1. drawn \in Nat /\ MaxKeys \in Nat /\ n \in 1 .. MaxKeys /\ n > drawn
  BY BoundsAssumption DEF IInv, Shapes
<1>2. acts \in [Keys -> 0 .. MaxKeys] /\ given \subseteq 1 .. drawn
  BY DEF IInv, Shapes
<1>3. \A c \in Keys : c # n => acts'[c] = acts[c]
  BY <1>2
<1>4. acts' \in [Keys -> 0 .. MaxKeys]
  BY <1>1, <1>2 DEF Keys
<1>5. Undrawn'
  <2>1. ASSUME NEW c \in Keys, c > n
        PROVE  acts'[c] = 0
    <3>1. c # n /\ c > drawn
      BY <1>1, <2>1 DEF Keys
    <3>2. QED BY <1>3, <3>1 DEF IInv, Undrawn
  <2>2. QED BY <2>1 DEF Undrawn
<1>6. drawn' \in drawn .. MaxKeys
  BY <1>1
<1>7. given' \subseteq 1 .. drawn' /\ \A k \in given' \ given : k > drawn
  <2>1. 1 .. drawn \subseteq 1 .. n /\ n \in 1 .. n /\ drawn' = n
    BY <1>1
  <2>2. given' \subseteq given \cup {n}
    OBVIOUS
  <2>3. \A k \in given' \ given : k = n
    BY <2>2
  <2> HIDE DEF n
  <2>4. QED BY <1>1, <1>2, <2>1, <2>2, <2>3
<1>8. \A c \in 1 .. drawn : acts'[c] = acts[c]
  <2>1. \A c \in 1 .. drawn : c \in Keys /\ c # n
    BY <1>1 DEF Keys
  <2>2. QED BY <1>3, <2>1
<1>9. n \in Keys /\ n \notin given /\ acts[n] = 0
  BY <1>1, <1>2 DEF IInv, Undrawn, Keys
<1>10. QED BY <1>4, <1>5, <1>6, <1>7, <1>8, <1>9 DEF LedgerStep

LEMMA OwnsStays ==
  ASSUME IInv, LedgerStep, NEW o, Owns(o, drawn, given)
  PROVE  Owns(o, drawn', given')
<1>1. drawn \in Nat /\ drawn' \in Nat /\ drawn <= drawn'
  BY BoundsAssumption DEF IInv, Shapes, LedgerStep
<1>2. o.key \notin given'
  BY <1>1 DEF Owns, LedgerStep
<1>3. QED BY <1>1, <1>2 DEF Owns

LEMMA ActsStays ==
  ASSUME IInv, LedgerStep, NEW o, Owns(o, drawn, given), Acts(o, acts, given)
  PROVE  Acts(o, acts', given')
<1>1. o.key \in 1 .. drawn /\ o.key \notin given /\ o.contact \in 1 .. drawn
  BY DEF Owns
<1>2. drawn \in Nat
  BY DEF IInv, Shapes
<1>3. acts'[o.key] = acts[o.key] /\ o.key \notin given'
  BY <1>1, <1>2, OwnsStays DEF LedgerStep, Owns
<1>4. acts'[o.contact] # acts[o.contact] => o.contact \in given /\ acts[o.contact] = o.contact
  BY <1>1 DEF LedgerStep
<1>5. CASE acts[o.contact] \in {0, o.key}
  <2>1. o.contact # 0
    BY <1>1, <1>2
  <2>2. acts'[o.contact] = acts[o.contact]
    BY <1>1, <1>4, <1>5, <2>1
  <2>3. QED BY <1>5, <2>2 DEF Acts
<1>6. CASE o.key # o.contact /\ acts[o.key] = o.key
  BY <1>3, <1>6 DEF Acts
<1>7. QED BY <1>5, <1>6 DEF Acts

LEMMA SoundStays ==
  ASSUME IInv, LedgerStep, NEW o, Sound(o, acts, drawn, given)
  PROVE  Sound(o, acts', drawn', given')
BY OwnsStays, ActsStays DEF Sound

LEMMA IdentityStays ==
  ASSUME IInv, LedgerStep, NEW s, Identity(s, acts, drawn, given)
  PROVE  Identity(s, acts', drawn', given')
<1>1. Sound(s.obj, acts', drawn', given')
  BY SoundStays DEF Identity
<1>2. s.phase # "closed" => Owns(s.data, drawn', given')
  BY OwnsStays DEF Identity
<1>3. s.phase \in {"loading", "contacts", "registered"} => Acts(s.data, acts', given')
  BY ActsStays DEF Identity
<1>4. s.saves => s.phase \in {"loading", "contacts"} /\ acts'[s.data.key] = s.data.key
  <2> SUFFICES ASSUME s.saves
               PROVE  s.phase \in {"loading", "contacts"} /\ acts'[s.data.key] = s.data.key
    OBVIOUS
  <2>1. s.phase \in {"loading", "contacts"} /\ acts[s.data.key] = s.data.key
    BY DEF Identity
  <2>2. s.data.key \in 1 .. drawn /\ s.data.key \notin given
    BY <2>1 DEF Identity, Owns
  <2>3. QED BY <2>1, <2>2 DEF LedgerStep
<1>5. QED BY <1>1, <1>2, <1>3, <1>4 DEF Identity

\* A step of one tab, which may save.
LEMMA TabStep ==
  ASSUME IInv, LedgerStep, NEW t \in Tabs, NEW s \in TabState, tab' = [tab EXCEPT ![t] = s],
         Identity(s, acts', drawn', given'), Holds(s),
         \/ stored' = stored
         \/ /\ stored' = toObject(s)
            /\ Owns(s.data, drawn', given') /\ Acts(s.data, acts', given'),
         loads' \in 0 .. MaxLoads, edits' \in 0 .. MaxEdits
  PROVE  IInv'
<1>1. tab' \in [Tabs -> TabState] /\ \A u \in Tabs : tab'[u] = IF u = t THEN s ELSE tab[u]
  BY DEF IInv, Shapes
<1>2. stored' \in Object /\ Sound(stored', acts', drawn', given')
  <2>1. CASE stored' = stored
    BY <2>1, SoundStays DEF IInv, Shapes
  <2>2. CASE /\ stored' = toObject(s)
             /\ Owns(s.data, drawn', given') /\ Acts(s.data, acts', given')
    BY <2>2, WrittenIs DEF Sound, Owns, Acts
  <2>3. QED BY <2>1, <2>2
<1>3. drawn' \in 0 .. MaxKeys
  BY DEF LedgerStep, IInv, Shapes
<1>4. Shapes'
  BY <1>1, <1>2, <1>3 DEF Shapes, LedgerStep
<1>5. \A u \in Tabs : Identity(tab'[u], acts', drawn', given') /\ Holds(tab'[u])
  BY <1>1, IdentityStays DEF IInv
<1>6. Undrawn' /\ Sound(stored', acts', drawn', given')
  BY <1>2 DEF LedgerStep
<1>7. IInv' = (/\ Shapes' /\ Undrawn' /\ Sound(stored', acts', drawn', given')
              /\ \A u \in Tabs : Identity(tab'[u], acts', drawn', given') /\ Holds(tab'[u]))
  BY DEF IInv, Identity, Sound, Owns, Acts, Holds, Content
<1>8. QED BY <1>4, <1>5, <1>6, <1>7

\* What a step did to the storage: nothing, or a page that is registered, or that was
\* deleted, wrote what it holds.
Stores(t) ==
  \/ stored' = stored
  \/ /\ stored' = toObject(tab'[t])
     /\ \/ tab'[t].phase = "closed" /\ Content(tab'[t].data) = {}
        \/ /\ tab'[t].phase = "registered" /\ tab'[t].failed = tab[t].failed
           /\ tab[t].mine \subseteq tab'[t].mine

LEMMA ClosedIs ==
  /\ Closed \in TabState
  /\ Closed.phase = "closed" /\ Closed.obj = Nothing /\ Closed.data = Nothing
  /\ ~ Closed.bc /\ ~ Closed.saves /\ ~ Closed.failed
  /\ Closed.mine = {} /\ Closed.removed = {}
BY NothingIsObject DEF Closed, TabState, Phases

------------------------------------------------------------------------------
(* Loading the page. *)

LEMMA LoadKeeps ==
  ASSUME IInv, NEW t \in Tabs, Load(t)
  PROVE  IInv' /\ Stores(t)
<1> DEFINE n == drawn + 1
           d == setValues(stored, n)
           s == [Closed EXCEPT !.phase = "loading", !.obj = stored, !.data = d,
                               !.mine = Content(stored)]
<1>1. /\ stored \in Object /\ drawn \in Nat /\ given \subseteq 1 .. drawn
      /\ Sound(stored, acts, drawn, given)
  BY DEF IInv, Shapes
<1>2. stored.key = 0 <=> stored = Nothing
  BY <1>1 DEF Sound, Owns, Nothing
<1>3. acts' = acts /\ given' = given /\ drawn' = drawn + Draws(stored)
      /\ drawn + Draws(stored) <= MaxKeys
  BY DEF Load
<1>4. /\ LedgerStep /\ d \in Object /\ d.contacts = stored.contacts /\ d.lists = NoLists
      /\ Owns(d, drawn', given') /\ Acts(d, acts', given')
      /\ stored # Nothing => d.contact = stored.contact
  <2>1. CASE stored = Nothing
    <3>1. drawn' = n /\ n <= MaxKeys
      BY <1>2, <1>3, <2>1 DEF Draws
    <3>2. LedgerStep /\ n \in Keys /\ n \notin given /\ acts[n] = 0
      BY <1>3, <3>1, NextKeyDrawn
    <3>3. d = [key |-> n, contact |-> n, contacts |-> stored.contacts, lists |-> NoLists]
      BY <1>2, <2>1 DEF setValues
    <3>4. n \in 0 .. MaxKeys /\ n \in 1 .. n
      BY <1>1, <3>2 DEF Keys
    <3>5. d \in Object
      BY <1>1, <3>3, <3>4, NothingIsObject DEF Object
    <3>6. d.key = n /\ d.contact = n /\ d.contacts = stored.contacts /\ d.lists = NoLists
      BY <3>3
    <3> HIDE DEF d, n
    <3>7. Owns(d, drawn', given') /\ Acts(d, acts', given')
      BY <1>3, <3>1, <3>2, <3>4, <3>6 DEF Owns, Acts
    <3>8. QED BY <2>1, <3>2, <3>5, <3>6, <3>7
  <2>2. CASE stored # Nothing
    <3>1. drawn' = drawn
      BY <1>1, <1>2, <1>3, <2>2 DEF Draws
    <3>2. LedgerStep
      BY <1>3, <3>1, SameLedger
    <3>3. d = [stored EXCEPT !.lists = NoLists]
      BY <1>2, <2>2 DEF setValues
    <3>4. /\ d \in Object /\ d.key = stored.key /\ d.contact = stored.contact
          /\ d.contacts = stored.contacts /\ d.lists = NoLists
      BY <1>1, <3>3, NothingIsObject DEF Object
    <3> HIDE DEF d
    <3>5. Owns(d, drawn', given') /\ Acts(d, acts', given')
      BY <1>1, <1>3, <2>2, <3>1, <3>4 DEF Sound, Owns, Acts
    <3>6. QED BY <3>2, <3>4, <3>5
  <2>3. QED BY <2>1, <2>2
<1> HIDE DEF d
<1>5. Content(d) \subseteq Content(stored)
  BY <1>4, NothingIsObject, ContentByParts
<1>6. Content(stored) \subseteq Things
  BY <1>1, ContentIsThings
<1>7. /\ s \in TabState /\ s.phase = "loading" /\ s.obj = stored /\ s.data = d
      /\ s.mine = Content(stored) /\ s.removed = {} /\ ~ s.bc /\ ~ s.saves /\ ~ s.failed
  BY <1>1, <1>4, <1>6, ClosedIs DEF TabState, Phases
<1>8. tab' = [tab EXCEPT ![t] = s] /\ stored' = stored
  BY DEF Load, Move, d, n
<1> HIDE DEF s
<1>9. Sound(s.obj, acts', drawn', given')
  BY <1>1, <1>4, <1>7, SoundStays
<1>10. Identity(s, acts', drawn', given')
  BY <1>4, <1>7, <1>9 DEF Identity
<1>11. Holds(s)
  BY <1>5, <1>7 DEF Holds
<1>12. loads' \in 0 .. MaxLoads /\ edits' \in 0 .. MaxEdits
  BY BoundsAssumption DEF Load, IInv, Shapes
<1>13. QED BY <1>4, <1>7, <1>8, <1>10, <1>11, <1>12, TabStep DEF Stores

LEMMA ConnectKeeps ==
  ASSUME IInv, NEW t \in Tabs, connectByzcoin(t)
  PROVE  IInv' /\ Stores(t)
<1> DEFINE r == [tab[t] EXCEPT !.bc = TRUE, !.data.lists = ListsFrom(tab[t])]
           c == ContactFrom(r)
           s == [r EXCEPT !.phase = "contacts", !.data.contact = c, !.data.contacts = <<>>]
<1>1. tab[t] \in TabState /\ tab[t].data \in Object /\ tab[t].obj \in Object
  BY DEF IInv, Shapes, TabState
<1>2. Identity(tab[t], acts, drawn, given) /\ Holds(tab[t]) /\ tab[t].phase = "loading"
  BY DEF IInv, connectByzcoin
<1>3. <<>> \in Seq(Keys)
  OBVIOUS
<1>4. /\ r \in TabState /\ r.obj = tab[t].obj /\ r.data.contact = tab[t].data.contact
      /\ r.data = [tab[t].data EXCEPT !.lists = tab[t].obj.lists]
      /\ r.data \in Object
      /\ r = [tab[t] EXCEPT !.bc = TRUE, !.data = r.data]
  BY <1>1 DEF TabState, Object, ListsFrom
<1> HIDE DEF r
<1>5. c \in 0 .. MaxKeys /\ c = IF tab[t].obj.contact # 0 THEN tab[t].obj.contact ELSE tab[t].data.contact
  BY <1>1, <1>4 DEF ContactFrom, Object
<1>6. tab' = [tab EXCEPT ![t] = s] /\ stored' = stored
  BY DEF connectByzcoin, Move, r
<1> HIDE DEF c
<1>7. /\ s \in TabState /\ s.data \in Object /\ s.obj \in Object
      /\ s.phase = "contacts" /\ s.obj = r.obj /\ s.bc = r.bc
      /\ s.saves = r.saves /\ s.failed = r.failed /\ s.mine = r.mine
      /\ s.removed = r.removed
      /\ s.data.key = r.data.key /\ s.data.contact = c
      /\ s.data.contacts = <<>> /\ s.data.lists = r.data.lists
  BY <1>3, <1>4, <1>5 DEF TabState, Object, Phases
<1>8. /\ r.bc /\ r.saves = tab[t].saves /\ r.failed = tab[t].failed /\ r.mine = tab[t].mine
      /\ r.removed = tab[t].removed /\ r.data.key = tab[t].data.key
      /\ r.data.lists = tab[t].obj.lists
  BY <1>1, <1>4 DEF TabState, Object
<1> HIDE DEF s
<1>9. LedgerStep /\ acts' = acts /\ drawn' = drawn /\ given' = given
      /\ loads' \in 0 .. MaxLoads /\ edits' \in 0 .. MaxEdits
  BY SameLedger DEF connectByzcoin, IInv, Shapes
<1>10. Owns(s.data, drawn, given) /\ Acts(s.data, acts, given)
  <2>1. Owns(tab[t].data, drawn, given) /\ Acts(tab[t].data, acts, given)
        /\ Sound(tab[t].obj, acts, drawn, given)
    BY <1>2 DEF Identity
  <2>2. CASE c = tab[t].data.contact
    BY <1>7, <1>8, <2>1, <2>2 DEF Owns, Acts
  <2>3. CASE c # tab[t].data.contact
    <3>1. c = tab[t].obj.contact /\ tab[t].obj # Nothing
      BY <1>5, <2>3 DEF Nothing
    <3>2. tab[t].saves
      BY <1>2, <2>3, <3>1 DEF Identity
    <3>3. acts[tab[t].data.key] = tab[t].data.key /\ tab[t].data.key \notin given
      BY <1>2, <2>1, <3>2 DEF Identity, Owns
    <3>4. c \in 1 .. drawn
      BY <2>1, <3>1 DEF Sound, Owns
    <3>5. QED BY <1>7, <1>8, <2>1, <3>3, <3>4 DEF Owns, Acts
  <2>4. QED BY <2>2, <2>3
<1>11. Identity(s, acts', drawn', given')
  BY <1>2, <1>4, <1>7, <1>8, <1>9, <1>10 DEF Identity
<1>12. Content(s.data) \subseteq Content(tab[t].obj)
  BY <1>7, <1>8, InEmpty, ContentByParts
<1>13. Len(s.data.contacts) = 0 /\ DOMAIN s.data.contacts = {} /\ Len(s.obj.contacts) \in Nat
  BY <1>7 DEF Object
<1>14. Holds(s)
  BY <1>2, <1>4, <1>7, <1>8, <1>12, <1>13 DEF Holds
<1>15. QED BY <1>6, <1>7, <1>9, <1>11, <1>14, TabStep DEF Stores

LEMMA LoadContactKeeps ==
  ASSUME IInv, NEW t \in Tabs, LoadContact(t)
  PROVE  IInv' /\ Stores(t)
<1> DEFINE r == tab[t]
           n == Len(r.data.contacts) + 1
           x == r.obj.contacts[n]
           more == Append(r.data.contacts, x)
           s == [r EXCEPT !.data.contacts = more]
<1>1. r \in TabState /\ r.data \in Object /\ r.obj \in Object
      /\ r.data.contacts \in Seq(Keys) /\ r.obj.contacts \in Seq(Keys)
  BY DEF IInv, Shapes, TabState, Object
<1>2. Identity(r, acts, drawn, given) /\ Holds(r) /\ r.phase = "contacts"
      /\ n \in DOMAIN r.obj.contacts
  BY DEF IInv, LoadContact
<1>3. tab' = [tab EXCEPT ![t] = s] /\ stored' = stored
  BY DEF LoadContact, Move
<1> HIDE DEF r
<1>4. n \in Nat /\ n <= Len(r.obj.contacts) /\ x \in Keys /\ x \in In(r.obj.contacts)
  BY <1>1, <1>2 DEF In
<1>5. more \in Seq(Keys) /\ In(more) = In(r.data.contacts) \cup {x}
  BY <1>1, <1>4, InAppend
<1>6. /\ Len(more) = n /\ DOMAIN more = 1 .. n /\ more[n] = x
      /\ \A i \in 1 .. n : i # n => i \in DOMAIN r.data.contacts /\ more[i] = r.data.contacts[i]
  BY <1>1, <1>4
<1> HIDE DEF more
<1>7. /\ s \in TabState /\ s.data \in Object
      /\ s.phase = r.phase /\ s.obj = r.obj /\ s.bc = r.bc /\ s.saves = r.saves
      /\ s.failed = r.failed /\ s.mine = r.mine /\ s.removed = r.removed
      /\ s.data.key = r.data.key /\ s.data.contact = r.data.contact
      /\ s.data.contacts = more /\ s.data.lists = r.data.lists
  BY <1>1, <1>5 DEF TabState, Object
<1> HIDE DEF s
<1>8. LedgerStep /\ acts' = acts /\ drawn' = drawn /\ given' = given
      /\ loads' \in 0 .. MaxLoads /\ edits' \in 0 .. MaxEdits
  BY SameLedger DEF LoadContact, IInv, Shapes
<1>9. Identity(s, acts', drawn', given')
  BY <1>2, <1>7, <1>8 DEF Identity, Owns, Acts
<1>10. <<"contacts", x>> \in r.mine
  <2>1. <<"contacts", x>> \in Content(r.obj)
    BY <1>4, ContentIs
  <2>2. QED BY <1>2, <2>1 DEF Holds
<1>11. Content(s.data) \subseteq r.mine
  <2>1. Content(s.data) = Content(r.data) \cup {<<"contacts", x>>}
    <3> HIDE DEF n, x
    <3>1. s.data.lists = r.data.lists /\ In(s.data.contacts) = In(r.data.contacts) \cup {x}
      BY <1>5, <1>7
    <3>2. QED BY <3>1, ContactIn
  <2>2. QED BY <1>2, <1>10, <2>1 DEF Holds
<1>12. ~ r.failed => \A i \in DOMAIN more : more[i] = r.obj.contacts[i]
  BY <1>2, <1>6 DEF Holds
<1>13. Holds(s)
  <2> HIDE DEF n, x
  <2>1. QED BY <1>2, <1>4, <1>6, <1>7, <1>11, <1>12 DEF Holds
<1>14. QED BY <1>3, <1>7, <1>8, <1>9, <1>13, TabStep DEF Stores, r

LEMMA LoadedKeeps ==
  ASSUME IInv, NEW t \in Tabs, Loaded(t)
  PROVE  IInv' /\ Stores(t)
<1> DEFINE r == tab[t]
           s == [r EXCEPT !.phase = "registered", !.saves = FALSE]
<1>1. r \in TabState /\ r.data \in Object /\ r.obj \in Object
      /\ r.data.contacts \in Seq(Keys) /\ r.obj.contacts \in Seq(Keys)
  BY DEF IInv, Shapes, TabState, Object
<1>2. Identity(r, acts, drawn, given) /\ Holds(r) /\ r.phase = "contacts"
      /\ Len(r.data.contacts) = Len(r.obj.contacts)
  BY DEF IInv, Loaded
<1>3. tab' = [tab EXCEPT ![t] = s] /\ (stored' = stored \/ stored' = toObject(s))
  BY DEF Loaded, Save, Move
<1> HIDE DEF r
<1>4. /\ s \in TabState /\ s.phase = "registered" /\ s.obj = r.obj /\ s.data = r.data
      /\ s.bc = r.bc /\ ~ s.saves /\ s.failed = r.failed /\ s.mine = r.mine
      /\ s.removed = r.removed
  BY <1>1 DEF TabState, Phases
<1> HIDE DEF s
<1>5. LedgerStep /\ acts' = acts /\ drawn' = drawn /\ given' = given
      /\ loads' \in 0 .. MaxLoads /\ edits' \in 0 .. MaxEdits
  BY SameLedger DEF Loaded, IInv, Shapes
<1>6. Owns(s.data, drawn', given') /\ Acts(s.data, acts', given')
  BY <1>2, <1>4, <1>5 DEF Identity
<1>7. Identity(s, acts', drawn', given')
  BY <1>2, <1>4, <1>5, <1>6 DEF Identity
<1>8. ASSUME ~ r.failed
      PROVE  r.bc /\ r.mine \subseteq Content(r.data)
  <2>1. /\ r.bc /\ r.mine = Content(r.obj) /\ r.data.lists = r.obj.lists
        /\ \A i \in DOMAIN r.data.contacts : r.data.contacts[i] = r.obj.contacts[i]
    BY <1>2, <1>8 DEF Holds
  <2>2. DOMAIN r.data.contacts = DOMAIN r.obj.contacts
    BY <1>1, <1>2
  <2>3. In(r.obj.contacts) \subseteq In(r.data.contacts)
    BY <2>1, <2>2 DEF In
  <2>4. QED BY <2>1, <2>3, ContentByParts
<1>9. Holds(s)
  BY <1>2, <1>4, <1>8 DEF Holds
<1>10. tab[t].mine \subseteq s.mine /\ tab[t].failed = s.failed /\ tab'[t] = s
  BY <1>3, <1>4 DEF r, IInv, Shapes
<1>11. QED BY <1>3, <1>4, <1>5, <1>6, <1>7, <1>9, <1>10, TabStep DEF Stores

LEMMA LoadFailsKeeps ==
  ASSUME IInv, NEW t \in Tabs, NEW reached \in BOOLEAN, LoadFails(t, reached)
  PROVE  IInv' /\ Stores(t)
<1> DEFINE r == tab[t]
           q == [r EXCEPT !.phase = "unregistered", !.failed = TRUE, !.saves = FALSE]
           l == [q EXCEPT !.bc = TRUE, !.data.lists = ListsFrom(q)]
<1>1. r \in TabState /\ r.data \in Object /\ r.obj \in Object
  BY DEF IInv, Shapes, TabState
<1>2. Identity(r, acts, drawn, given) /\ Holds(r) /\ r.phase \in {"loading", "contacts"}
  BY DEF IInv, LoadFails
<1>3. PICK s \in {q, l} : tab' = [tab EXCEPT ![t] = s] /\ stored' = stored
  BY DEF LoadFails, Move
<1>4. LedgerStep /\ acts' = acts /\ drawn' = drawn /\ given' = given
      /\ loads' \in 0 .. MaxLoads /\ edits' \in 0 .. MaxEdits
  BY SameLedger DEF LoadFails, IInv, Shapes
<1> HIDE DEF r
<1>5. /\ q \in TabState /\ q.phase = "unregistered" /\ q.obj = r.obj /\ q.data = r.data
      /\ ~ q.saves /\ q.failed /\ q.mine = r.mine /\ q.removed = r.removed
  BY <1>1 DEF TabState, Phases
<1> HIDE DEF q
<1>6. /\ l \in TabState /\ l.data \in Object /\ l.phase = q.phase /\ l.obj = q.obj
      /\ l.saves = q.saves /\ l.failed = q.failed /\ l.mine = q.mine /\ l.removed = q.removed
      /\ l.data.key = r.data.key /\ l.data.contact = r.data.contact
      /\ l.data.contacts = r.data.contacts /\ l.data.lists = r.obj.lists
  BY <1>1, <1>5 DEF TabState, Object, ListsFrom
<1> HIDE DEF l
<1>7. Content(r.data) \subseteq r.mine /\ Content(r.obj) \subseteq r.mine /\ r.removed = {}
  BY <1>2 DEF Holds
<1>8. Content(l.data) \subseteq r.mine
  <2>1. ASSUME NEW what \in Content(l.data)
        PROVE  what \in Content(r.data) \cup Content(r.obj)
    <3>1. \/ \E c \in In(r.data.contacts) : what = <<"contacts", c>>
          \/ \E k \in Kinds : \E x \in In(r.obj.lists[k]) : what = <<k, x>>
      BY <1>6, ContentIs
    <3>2. QED BY <3>1, ContentIs
  <2>2. QED BY <1>7, <2>1
<1>9. /\ s \in TabState /\ s.phase = "unregistered" /\ s.obj = r.obj
      /\ ~ s.saves /\ s.failed /\ s.mine = r.mine /\ s.removed = {}
      /\ s.data.key = r.data.key /\ s.data.contact = r.data.contact
      /\ Content(s.data) \subseteq r.mine
  BY <1>3, <1>5, <1>6, <1>7, <1>8
<1>10. Identity(s, acts', drawn', given')
  BY <1>2, <1>4, <1>9 DEF Identity, Owns
<1>11. Holds(s)
  BY <1>7, <1>9 DEF Holds
<1>12. QED BY <1>3, <1>4, <1>9, <1>10, <1>11, TabStep DEF Stores

------------------------------------------------------------------------------
(* The form to register. *)

LEMMA AddIDFirstKeeps ==
  ASSUME IInv, NEW t \in Tabs, AddIDFirst(t)
  PROVE  IInv' /\ Stores(t)
<1> DEFINE r == tab[t]
           n == drawn + 1
           s == [r EXCEPT !.phase = "loading", !.saves = TRUE, !.bc = TRUE,
                          !.data.key = n, !.data.contact = n]
<1>1. r \in TabState /\ r.data \in Object
  BY DEF IInv, Shapes, TabState
<1>2. Identity(r, acts, drawn, given) /\ Holds(r) /\ r.phase = "unregistered"
  BY DEF IInv, AddIDFirst
<1>3. /\ n <= MaxKeys /\ drawn' = n /\ acts' = [acts EXCEPT ![n] = n] /\ given' = given
      /\ tab' = [tab EXCEPT ![t] = s] /\ stored' = stored
  BY DEF AddIDFirst, Move
<1>4. LedgerStep /\ n \in Keys /\ n \notin given
  BY <1>3, NextKeyDrawn
<1>5. acts'[n] = n /\ n \in 1 .. drawn' /\ n \in 0 .. MaxKeys
  BY <1>3, <1>4 DEF IInv, Shapes, Keys
<1>6. loads' \in 0 .. MaxLoads /\ edits' \in 0 .. MaxEdits
  BY DEF AddIDFirst, IInv, Shapes
<1> HIDE DEF r, n
<1>7. /\ s \in TabState /\ s.data \in Object /\ s.phase = "loading" /\ s.obj = r.obj
      /\ s.saves /\ s.failed = r.failed /\ s.mine = r.mine /\ s.removed = r.removed
      /\ s.data.key = n /\ s.data.contact = n
      /\ s.data.contacts = r.data.contacts /\ s.data.lists = r.data.lists
  BY <1>1, <1>5 DEF TabState, Object, Phases
<1> HIDE DEF s
<1>8. Owns(s.data, drawn', given') /\ Acts(s.data, acts', given')
  BY <1>3, <1>4, <1>5, <1>7 DEF Owns, Acts
<1>9. Sound(s.obj, acts', drawn', given')
  BY <1>2, <1>4, <1>7, SoundStays DEF Identity
<1>10. Identity(s, acts', drawn', given')
  BY <1>5, <1>7, <1>8, <1>9 DEF Identity
<1>11. Content(s.data) = Content(r.data)
  BY <1>7 DEF Content
<1>12. Holds(s)
  BY <1>2, <1>7, <1>11 DEF Holds
<1>13. QED BY <1>3, <1>4, <1>6, <1>7, <1>10, <1>12, TabStep DEF Stores

LEMMA AddIDAttachKeeps ==
  ASSUME IInv, NEW t \in Tabs, NEW e \in Keys, AddIDAttach(t, e)
  PROVE  IInv' /\ Stores(t)
<1> DEFINE r == tab[t]
           w == [r EXCEPT !.bc = TRUE, !.data.contact = e]
           done == [w EXCEPT !.phase = "registered"]
<1>1. r \in TabState /\ r.data \in Object
  BY DEF IInv, Shapes, TabState
<1>2. Identity(r, acts, drawn, given) /\ Holds(r) /\ r.phase = "unregistered"
  BY DEF IInv, AddIDAttach
<1>3. e \in given /\ acts[e] = e /\ drawn' = drawn /\ given' = given
  BY DEF AddIDAttach
<1>4. PICK included \in BOOLEAN, replied \in BOOLEAN :
         /\ replied => included
         /\ acts' = IF included THEN [acts EXCEPT ![e] = r.data.key] ELSE acts
         /\ tab' = [tab EXCEPT ![t] = IF replied THEN done ELSE w]
         /\ stored' = IF replied THEN toObject(done) ELSE stored
  BY DEF AddIDAttach, Save, Move
<1>5. loads' \in 0 .. MaxLoads /\ edits' \in 0 .. MaxEdits
  BY DEF AddIDAttach, IInv, Shapes
<1> HIDE DEF r
<1>6. Owns(r.data, drawn, given)
  BY <1>2 DEF Identity
<1>7. /\ drawn \in Nat /\ MaxKeys \in Nat /\ drawn \in 0 .. MaxKeys
      /\ acts \in [Keys -> 0 .. MaxKeys] /\ given \subseteq 1 .. drawn
  BY BoundsAssumption DEF IInv, Shapes
<1>8. LedgerStep
  <2>1. \A c \in Keys : c # e => acts'[c] = acts[c]
    BY <1>4, <1>7
  <2>2. acts' \in [Keys -> 0 .. MaxKeys]
    <3>1. r.data.key \in 0 .. MaxKeys
      BY <1>1 DEF Object
    <3>2. QED BY <1>4, <1>7, <3>1
  <2>3. Undrawn'
    <3>1. ~ (e > drawn)
      BY <1>3, <1>7
    <3>2. QED BY <1>3, <2>1, <3>1 DEF IInv, Undrawn
  <2>4. drawn' \in drawn .. MaxKeys
    BY <1>3, <1>7
  <2>5. \A c \in 1 .. drawn : acts'[c] # acts[c] => c \in given /\ acts[c] = c
    <3>1. \A c \in 1 .. drawn : c \in Keys
      BY <1>7 DEF Keys
    <3>2. QED BY <1>3, <2>1, <3>1
  <2>6. QED BY <1>3, <1>7, <2>2, <2>3, <2>4, <2>5 DEF LedgerStep
<1>9. /\ w \in TabState /\ w.data \in Object /\ w.phase = r.phase /\ w.obj = r.obj /\ w.bc
      /\ w.saves = r.saves /\ w.failed = r.failed /\ w.mine = r.mine /\ w.removed = r.removed
      /\ w.data.key = r.data.key /\ w.data.contact = e
      /\ w.data.contacts = r.data.contacts /\ w.data.lists = r.data.lists
  <2>1. e \in 0 .. MaxKeys
    BY <1>7 DEF Keys
  <2>2. QED BY <1>1, <2>1 DEF TabState, Object
<1> HIDE DEF w
<1>10. /\ done \in TabState /\ done.phase = "registered" /\ done.obj = r.obj /\ done.bc
       /\ done.saves = r.saves /\ done.failed = r.failed /\ done.mine = r.mine
       /\ done.removed = r.removed /\ done.data = w.data
  BY <1>9 DEF TabState, Phases
<1> HIDE DEF done
<1>11. Owns(w.data, drawn', given')
  BY <1>3, <1>6, <1>7, <1>9 DEF Owns
<1>12. included => Acts(w.data, acts', given')
  BY <1>4, <1>7, <1>9 DEF Acts
<1>13. Content(w.data) = Content(r.data)
  BY <1>9 DEF Content
<1>14. Sound(r.obj, acts', drawn', given') /\ ~ r.saves /\ r.failed /\ r.removed = {}
       /\ Content(r.data) \subseteq r.mine /\ Content(r.obj) \subseteq r.mine
  BY <1>2, <1>8, SoundStays DEF Identity, Holds
<1>15. Identity(w, acts', drawn', given') /\ Holds(w)
  BY <1>2, <1>9, <1>11, <1>13, <1>14 DEF Identity, Holds
<1>16. replied => Identity(done, acts', drawn', given') /\ Holds(done)
  BY <1>4, <1>10, <1>11, <1>12, <1>13, <1>14 DEF Identity, Holds
<1>17. CASE replied
  <2>1. tab' = [tab EXCEPT ![t] = done] /\ stored' = toObject(done)
        /\ Owns(done.data, drawn', given') /\ Acts(done.data, acts', given')
    BY <1>4, <1>10, <1>11, <1>12, <1>17
  <2>2. tab'[t] = done /\ r = tab[t]
    BY <2>1 DEF IInv, Shapes, r
  <2>3. IInv'
    BY <1>5, <1>8, <1>10, <1>16, <1>17, <2>1, TabStep
  <2>4. QED BY <1>10, <2>1, <2>2, <2>3 DEF Stores
<1>18. CASE ~ replied
  <2>1. tab' = [tab EXCEPT ![t] = w] /\ stored' = stored
    BY <1>4, <1>18
  <2>2. QED BY <1>5, <1>8, <1>9, <1>15, <2>1, TabStep DEF Stores
<1>19. QED BY <1>17, <1>18

------------------------------------------------------------------------------
(* A page that is registered. *)

\* The user adds or removes something, and the page saves.
LEMMA EditKeeps ==
  ASSUME IInv, LedgerStep, NEW t \in Tabs, NEW s \in TabState, tab[t].phase = "registered",
         tab' = [tab EXCEPT ![t] = s], stored' = toObject(s),
         s.phase = "registered", s.obj = tab[t].obj, s.bc = tab[t].bc,
         s.saves = tab[t].saves, s.failed = tab[t].failed,
         s.data.key = tab[t].data.key, s.data.contact = tab[t].data.contact,
         tab[t].mine \subseteq s.mine, Content(s.data) \subseteq s.mine \ s.removed,
         ~ s.failed => s.mine \ s.removed \subseteq Content(s.data),
         loads' \in 0 .. MaxLoads, edits' \in 0 .. MaxEdits
  PROVE  IInv' /\ Stores(t)
<1>1. Identity(tab[t], acts', drawn', given') /\ Holds(tab[t])
  BY IdentityStays DEF IInv
<1>2. Owns(s.data, drawn', given') /\ Acts(s.data, acts', given')
  BY <1>1 DEF Identity, Owns, Acts
<1>3. Identity(s, acts', drawn', given')
  BY <1>1, <1>2 DEF Identity
<1>4. Holds(s)
  BY <1>1 DEF Holds, Identity
<1>5. IInv'
  BY <1>2, <1>3, <1>4, TabStep
<1>6. tab'[t] = s
  BY DEF IInv, Shapes
<1>7. QED BY <1>5, <1>6 DEF Stores

LEMMA AddContactAdds ==
  ASSUME NEW S, NEW contacts \in Seq(S), NEW c \in S
  PROVE  addContact(contacts, c) \in Seq(S) /\ In(addContact(contacts, c)) = In(contacts) \cup {c}
<1>1. /\ rmContact(contacts, c) \in Seq(S)
      /\ In(rmContact(contacts, c)) = In(contacts) \ {c}
  BY RmContactRemoves
<1>2. QED BY <1>1, InAppend DEF addContact

\* A contact is added to those of the page, which notes it as its own.
LEMMA ContactAdded ==
  ASSUME IInv, LedgerStep, NEW t \in Tabs, NEW c \in Keys, tab[t].phase = "registered",
         Save(t, Adds([tab[t] EXCEPT !.data.contacts = addContact(@, c)], <<"contacts", c>>)),
         loads' \in 0 .. MaxLoads, edits' \in 0 .. MaxEdits
  PROVE  IInv' /\ Stores(t)
<1> DEFINE r == tab[t]
           new == addContact(r.data.contacts, c)
           what == <<"contacts", c>>
           q == [r EXCEPT !.data.contacts = new]
           s == [q EXCEPT !.mine = @ \cup {what}, !.removed = @ \ {what}]
<1>1. r \in TabState /\ r.data \in Object /\ r.data.contacts \in Seq(Keys)
  BY DEF IInv, Shapes, TabState, Object
<1>2. Holds(r)
  BY DEF IInv
<1>3. tab' = [tab EXCEPT ![t] = s] /\ stored' = toObject(s)
  BY DEF Save, Adds
<1>4. new \in Seq(Keys) /\ In(new) = In(r.data.contacts) \cup {c}
  BY <1>1, AddContactAdds
<1>5. what \in Things
  BY DEF Things
<1> HIDE DEF r, new, what
<1>6. /\ q \in TabState /\ q.data \in Object /\ q.phase = r.phase /\ q.obj = r.obj
      /\ q.bc = r.bc /\ q.saves = r.saves /\ q.failed = r.failed /\ q.mine = r.mine
      /\ q.removed = r.removed /\ q.data.key = r.data.key
      /\ q.data.contact = r.data.contact /\ q.data.contacts = new
      /\ q.data.lists = r.data.lists
  BY <1>1, <1>4 DEF TabState, Object
<1> HIDE DEF q
<1>7. /\ s \in TabState /\ s.phase = r.phase /\ s.obj = r.obj /\ s.bc = r.bc
      /\ s.saves = r.saves /\ s.failed = r.failed /\ s.data = q.data
      /\ s.mine = r.mine \cup {what} /\ s.removed = r.removed \ {what}
  BY <1>5, <1>6 DEF TabState
<1> HIDE DEF s
<1>8. Content(s.data) = Content(r.data) \cup {what}
  <2>1. s.data.lists = r.data.lists /\ In(s.data.contacts) = In(r.data.contacts) \cup {c}
    BY <1>4, <1>6, <1>7
  <2>2. QED BY <2>1, ContactIn DEF what
<1>9. /\ Content(r.data) \subseteq r.mine \ r.removed
      /\ ~ r.failed => r.mine \ r.removed \subseteq Content(r.data)
  BY <1>2 DEF Holds, r
<1>10. /\ Content(s.data) \subseteq s.mine \ s.removed
       /\ ~ s.failed => s.mine \ s.removed \subseteq Content(s.data)
  BY <1>7, <1>8, <1>9
<1>11. QED BY <1>3, <1>6, <1>7, <1>10, EditKeeps DEF r

LEMMA CreateContactKeeps ==
  ASSUME IInv, NEW t \in Tabs, CreateContact(t)
  PROVE  IInv' /\ Stores(t)
<1> DEFINE n == drawn + 1
<1>1. /\ tab[t].phase = "registered" /\ n <= MaxKeys /\ drawn' = n
      /\ acts' = [acts EXCEPT ![n] = n] /\ given' = given \cup {n}
      /\ Save(t, Adds([tab[t] EXCEPT !.data.contacts = addContact(@, n)], <<"contacts", n>>))
  BY DEF CreateContact
<1>2. LedgerStep /\ n \in Keys
  BY <1>1, NextKeyDrawn
<1>3. loads' \in 0 .. MaxLoads /\ edits' \in 0 .. MaxEdits
  BY DEF CreateContact, IInv, Shapes
<1> HIDE DEF n
<1>4. QED BY <1>1, <1>2, <1>3, ContactAdded

LEMMA AddContactKeeps ==
  ASSUME IInv, NEW t \in Tabs, NEW c \in Keys, AddContact(t, c)
  PROVE  IInv' /\ Stores(t)
<1>1. /\ tab[t].phase = "registered"
      /\ Save(t, Adds([tab[t] EXCEPT !.data.contacts = addContact(@, c)], <<"contacts", c>>))
  BY DEF AddContact
<1>2. LedgerStep
  BY SameLedger DEF AddContact
<1>3. loads' \in 0 .. MaxLoads /\ edits' \in 0 .. MaxEdits
  BY DEF AddContact, IInv, Shapes
<1>4. QED BY <1>1, <1>2, <1>3, ContactAdded

LEMMA ContactDeleteKeeps ==
  ASSUME IInv, NEW t \in Tabs, NEW c \in Keys, ContactDelete(t, c)
  PROVE  IInv' /\ Stores(t)
<1> DEFINE r == tab[t]
           new == rmContact(r.data.contacts, c)
           what == <<"contacts", c>>
           s == [r EXCEPT !.data.contacts = new, !.removed = @ \cup {what}]
<1>1. r \in TabState /\ r.data \in Object /\ r.data.contacts \in Seq(Keys)
  BY DEF IInv, Shapes, TabState, Object
<1>2. Holds(r) /\ r.phase = "registered"
  BY DEF IInv, ContactDelete
<1>3. tab' = [tab EXCEPT ![t] = s] /\ stored' = toObject(s)
  BY DEF ContactDelete, Save
<1>4. LedgerStep
  BY SameLedger DEF ContactDelete
<1>5. loads' \in 0 .. MaxLoads /\ edits' \in 0 .. MaxEdits
  BY DEF ContactDelete, IInv, Shapes
<1>6. new \in Seq(Keys) /\ In(new) = In(r.data.contacts) \ {c}
  BY <1>1, RmContactRemoves
<1>7. what \in Things
  BY DEF Things
<1> HIDE DEF r, new, what
<1>8. /\ s \in TabState /\ s.phase = r.phase /\ s.obj = r.obj /\ s.bc = r.bc
      /\ s.saves = r.saves /\ s.failed = r.failed /\ s.mine = r.mine
      /\ s.removed = r.removed \cup {what}
      /\ s.data.key = r.data.key /\ s.data.contact = r.data.contact
      /\ s.data.contacts = new /\ s.data.lists = r.data.lists
  BY <1>1, <1>6, <1>7 DEF TabState, Object
<1> HIDE DEF s
<1>9. Content(s.data) = Content(r.data) \ {what}
  <2>1. s.data.lists = r.data.lists /\ In(s.data.contacts) = In(r.data.contacts) \ {c}
    BY <1>6, <1>8
  <2>2. QED BY <2>1, ContactOut DEF what
<1>10. /\ Content(r.data) \subseteq r.mine \ r.removed
       /\ ~ r.failed => r.mine \ r.removed \subseteq Content(r.data)
  BY <1>2 DEF Holds
<1>11. /\ Content(s.data) \subseteq s.mine \ s.removed
       /\ ~ s.failed => s.mine \ s.removed \subseteq Content(s.data)
  BY <1>8, <1>9, <1>10
<1>12. QED BY <1>2, <1>3, <1>4, <1>5, <1>8, <1>11, EditKeeps DEF r

LEMMA AddGameKeeps ==
  ASSUME IInv, NEW t \in Tabs, NEW kind \in Kinds, NEW g \in Games, AddGame(t, kind, g)
  PROVE  IInv' /\ Stores(t)
<1> DEFINE r == tab[t]
           new == Append(r.data.lists[kind], g)
           what == <<kind, g>>
           q == [r EXCEPT !.data.lists[kind] = new]
           s == [q EXCEPT !.mine = @ \cup {what}, !.removed = @ \ {what}]
<1>1. r \in TabState /\ r.data \in Object /\ r.data.lists \in [Kinds -> Seq(Games)]
      /\ r.data.lists[kind] \in Seq(Games)
  BY DEF IInv, Shapes, TabState, Object
<1>2. Holds(r) /\ r.phase = "registered"
  BY DEF IInv, AddGame
<1>3. tab' = [tab EXCEPT ![t] = s] /\ stored' = toObject(s)
  BY DEF AddGame, Save, Adds
<1>4. LedgerStep
  BY SameLedger DEF AddGame
<1>5. loads' \in 0 .. MaxLoads /\ edits' \in 0 .. MaxEdits
  BY BoundsAssumption DEF AddGame, IInv, Shapes
<1>6. new \in Seq(Games) /\ In(new) = In(r.data.lists[kind]) \cup {g}
  BY <1>1, InAppend
<1>7. what \in Things
  BY DEF Things
<1> HIDE DEF r, new, what
<1>8. /\ q \in TabState /\ q.data \in Object /\ q.phase = r.phase /\ q.obj = r.obj
      /\ q.bc = r.bc /\ q.saves = r.saves /\ q.failed = r.failed /\ q.mine = r.mine
      /\ q.removed = r.removed /\ q.data.key = r.data.key
      /\ q.data.contact = r.data.contact /\ q.data.contacts = r.data.contacts
      /\ q.data.lists = [r.data.lists EXCEPT ![kind] = new]
  BY <1>1, <1>6 DEF TabState, Object
<1> HIDE DEF q
<1>9. /\ s \in TabState /\ s.phase = r.phase /\ s.obj = r.obj /\ s.bc = r.bc
      /\ s.saves = r.saves /\ s.failed = r.failed /\ s.data = q.data
      /\ s.mine = r.mine \cup {what} /\ s.removed = r.removed \ {what}
  BY <1>7, <1>8 DEF TabState
<1> HIDE DEF s
<1>10. Content(s.data) = Content(r.data) \cup {what}
  <2> DEFINE o == r.data
             o2 == s.data
  <2>1. o2.contacts = o.contacts /\ \A k \in Kinds \ {kind} : o2.lists[k] = o.lists[k]
    BY <1>1, <1>8, <1>9
  <2>2. In(o2.lists[kind]) = In(o.lists[kind]) \cup {g}
    BY <1>1, <1>6, <1>8, <1>9
  <2> HIDE DEF o, o2
  <2>3. Content(o2) = Content(o) \cup {<<kind, g>>}
    BY <2>1, <2>2, GameIn
  <2>4. QED BY <2>3 DEF o, o2, what
<1>11. /\ Content(r.data) \subseteq r.mine \ r.removed
       /\ ~ r.failed => r.mine \ r.removed \subseteq Content(r.data)
  BY <1>2 DEF Holds
<1>12. /\ Content(s.data) \subseteq s.mine \ s.removed
       /\ ~ s.failed => s.mine \ s.removed \subseteq Content(s.data)
  BY <1>9, <1>10, <1>11
<1>13. QED BY <1>2, <1>3, <1>4, <1>5, <1>8, <1>9, <1>12, EditKeeps DEF r

LEMMA DelRoPaSciKeeps ==
  ASSUME IInv, NEW t \in Tabs, NEW g \in Games, DelRoPaSci(t, g)
  PROVE  IInv' /\ Stores(t)
<1> DEFINE r == tab[t]
           list == r.data.lists["ropascis"]
           at == {k \in DOMAIN list : list[k] = g}
           i == CHOOSE k \in at : \A j \in at : k <= j
           rest == SubSeq(list, 1, i - 1) \o SubSeq(list, i + 1, Len(list))
           what == <<"ropascis", g>>
           left == {<<"ropascis", rest[k]>> : k \in DOMAIN rest}
           s == [r EXCEPT !.data.lists["ropascis"] = rest,
                          !.removed = @ \cup ({what} \ left)]
<1>1. r \in TabState /\ r.data \in Object /\ r.data.lists \in [Kinds -> Seq(Games)]
      /\ "ropascis" \in Kinds /\ list \in Seq(Games)
  BY DEF IInv, Shapes, TabState, Object, Kinds
<1>2. Holds(r) /\ r.phase = "registered" /\ at # {}
  BY DEF IInv, DelRoPaSci
<1>3. tab' = [tab EXCEPT ![t] = s] /\ stored' = toObject(s)
  BY DEF DelRoPaSci, Save
<1>4. LedgerStep
  BY SameLedger DEF DelRoPaSci
<1>5. loads' \in 0 .. MaxLoads /\ edits' \in 0 .. MaxEdits
  BY DEF DelRoPaSci, IInv, Shapes
<1> HIDE DEF r
<1>6. i \in 1 .. Len(list) /\ list[i] = g
  <2>1. at \in SUBSET Nat /\ \A k \in at : k \in 1 .. Len(list) /\ list[k] = g
    BY <1>1
  <2> HIDE DEF at, list
  <2>2. \E k \in at : \A j \in at : k <= j
    BY <1>2, <2>1, LeastNumber
  <2>3. i \in at
    BY <2>2
  <2>4. QED BY <2>1, <2>3
<1> HIDE DEF i, at
<1>7. rest \in Seq(Games) /\ In(rest) \cup {g} = In(list)
  <2> HIDE DEF list
  <2>1. QED BY <1>1, <1>6, DeletedOne
<1>8. what \in Things /\ (what \in left <=> g \in In(rest))
  <2> HIDE DEF rest
  <2>1. QED BY DEF Things, Kinds, In
<1> HIDE DEF rest, left, what
<1>9. /\ s \in TabState /\ s.phase = r.phase /\ s.obj = r.obj /\ s.bc = r.bc
      /\ s.saves = r.saves /\ s.failed = r.failed /\ s.mine = r.mine
      /\ s.removed = r.removed \cup ({what} \ left)
      /\ s.data.key = r.data.key /\ s.data.contact = r.data.contact
      /\ s.data.contacts = r.data.contacts
      /\ s.data.lists = [r.data.lists EXCEPT !["ropascis"] = rest]
  BY <1>1, <1>7, <1>8 DEF TabState, Object
<1> HIDE DEF s
<1>10. /\ \A k \in Kinds \ {"ropascis"} : s.data.lists[k] = r.data.lists[k]
       /\ s.data.lists["ropascis"] = rest
  BY <1>1, <1>9
<1>11. Content(s.data) \cup {what} = Content(r.data)
  <2> DEFINE o == r.data
             o2 == s.data
             kind == "ropascis"
  <2>1. /\ kind \in Kinds /\ o2.contacts = o.contacts
        /\ \A k \in Kinds \ {kind} : o2.lists[k] = o.lists[k]
    BY <1>1, <1>9, <1>10
  <2>2. In(o2.lists[kind]) \cup {g} = In(o.lists[kind])
    BY <1>7, <1>10
  <2> HIDE DEF o, o2, kind
  <2>3. Content(o2) \cup {<<kind, g>>} = Content(o)
    BY <2>1, <2>2, GameOut
  <2>4. QED BY <2>3 DEF o, o2, kind, what
<1>12. what \in Content(s.data) <=> what \in left
  <2>1. what \in Content(s.data) <=>
          \/ \E c \in In(s.data.contacts) : what = <<"contacts", c>>
          \/ \E k \in Kinds : \E x \in In(s.data.lists[k]) : what = <<k, x>>
    BY ContentIs
  <2>2. ~ \E c \in In(s.data.contacts) : what = <<"contacts", c>>
    BY DEF what
  <2>3. (\E k \in Kinds : \E x \in In(s.data.lists[k]) : what = <<k, x>>)
          <=> g \in In(s.data.lists["ropascis"])
    BY <1>1 DEF what
  <2>4. QED BY <1>8, <1>10, <2>1, <2>2, <2>3
<1>13. /\ Content(r.data) \subseteq r.mine \ r.removed
       /\ ~ r.failed => r.mine \ r.removed \subseteq Content(r.data)
  BY <1>2 DEF Holds
<1>14. /\ Content(s.data) \subseteq s.mine \ s.removed
       /\ ~ s.failed => s.mine \ s.removed \subseteq Content(s.data)
  BY <1>9, <1>11, <1>12, <1>13
<1>15. QED BY <1>2, <1>3, <1>4, <1>5, <1>9, <1>14, EditKeeps DEF r

LEMMA DeleteUserKeeps ==
  ASSUME IInv, NEW t \in Tabs, DeleteUser(t)
  PROVE  IInv' /\ Stores(t)
<1> DEFINE n == drawn + 1
           d == [key |-> n, contact |-> n, contacts |-> Nothing.contacts, lists |-> NoLists]
           s == [Closed EXCEPT !.data = d]
<1>1. n <= MaxKeys /\ drawn' = n /\ acts' = acts /\ given' = given
  BY DEF DeleteUser
<1>2. LedgerStep /\ n \in Keys /\ n \notin given /\ acts[n] = 0
  BY <1>1, NextKeyDrawn
<1>3. delete(tab[t], n) = d
  BY DEF delete, setValues, Nothing
<1>4. tab' = [tab EXCEPT ![t] = s] /\ stored' = toObject(s)
  BY <1>3 DEF DeleteUser, Save
<1>5. loads' \in 0 .. MaxLoads /\ edits' \in 0 .. MaxEdits
  BY DEF DeleteUser, IInv, Shapes
<1>6. n \in 0 .. MaxKeys /\ n \in 1 .. n
  BY <1>2 DEF IInv, Shapes, Keys
<1> HIDE DEF n
<1>7. Nothing.contacts \in Seq(Keys) /\ Nothing.lists = NoLists
  BY NothingIsObject DEF Object, Nothing
<1>8. d \in Object /\ d.key = n /\ d.contact = n /\ d.contacts = Nothing.contacts
      /\ d.lists = NoLists
  BY <1>6, <1>7, NothingIsObject DEF Object
<1> HIDE DEF d
<1>9. Content(d) = {}
  <2>1. Content(d) \subseteq Content(Nothing)
    BY <1>7, <1>8, ContentByParts
  <2>2. QED BY <2>1, NothingIsObject
<1>10. /\ s \in TabState /\ s.phase = "closed" /\ s.obj = Nothing /\ s.data = d
       /\ ~ s.bc /\ ~ s.saves
  BY <1>8, ClosedIs DEF TabState
<1> HIDE DEF s
<1>11. Owns(s.data, drawn', given') /\ Acts(s.data, acts', given')
  BY <1>1, <1>2, <1>6, <1>8, <1>10 DEF Owns, Acts
<1>12. Identity(s, acts', drawn', given') /\ Holds(s)
  BY <1>10 DEF Identity, Sound, Holds
<1>13. IInv'
  BY <1>2, <1>4, <1>5, <1>10, <1>11, <1>12, TabStep
<1>14. tab'[t] = s
  BY <1>4 DEF IInv, Shapes
<1>15. QED BY <1>4, <1>9, <1>10, <1>13, <1>14 DEF Stores

LEMMA ClosedFits ==
  ASSUME NEW a, NEW n, NEW gone
  PROVE  Identity(Closed, a, n, gone) /\ Holds(Closed)
BY ClosedIs DEF Identity, Sound, Holds

LEMMA CloseKeeps ==
  ASSUME IInv, NEW t \in Tabs, Close(t)
  PROVE  IInv' /\ Stores(t)
<1>1. LedgerStep
  BY SameLedger DEF Close
<1>2. tab' = [tab EXCEPT ![t] = Closed] /\ stored' = stored
      /\ loads' \in 0 .. MaxLoads /\ edits' \in 0 .. MaxEdits
  BY DEF Close, Move, IInv, Shapes
<1>3. Identity(Closed, acts', drawn', given') /\ Holds(Closed)
  BY ClosedFits
<1>4. QED BY <1>1, <1>2, <1>3, ClosedIs, TabStep DEF Stores

------------------------------------------------------------------------------
(* The theorems. *)

LEMMA InitEstablishes == Init => IInv
<1> SUFFICES ASSUME Init PROVE IInv
  OBVIOUS
<1>1. tab \in [Tabs -> TabState] /\ \A t \in Tabs : tab[t] = Closed
  BY ClosedIs DEF Init
<1>2. Shapes
  <2>1. 0 \in 0 .. MaxKeys /\ 0 \in 0 .. MaxLoads /\ 0 \in 0 .. MaxEdits
    BY BoundsAssumption
  <2>2. QED BY <1>1, <2>1, NothingIsObject DEF Init, Shapes
<1>3. Undrawn /\ Sound(stored, acts, drawn, given)
  BY DEF Init, Undrawn, Sound
<1>4. \A t \in Tabs : Identity(tab[t], acts, drawn, given) /\ Holds(tab[t])
  BY <1>1, ClosedFits
<1>5. QED BY <1>2, <1>3, <1>4 DEF IInv

LEMMA StepKeeps ==
  ASSUME IInv, Next
  PROVE  IInv' /\ \E t \in Tabs : Stores(t)
<1>1. PICK t \in Tabs :
        \/ Load(t) \/ connectByzcoin(t) \/ LoadContact(t) \/ Loaded(t)
        \/ \E reached \in BOOLEAN : LoadFails(t, reached)
        \/ AddIDFirst(t) \/ CreateContact(t) \/ DeleteUser(t) \/ Close(t)
        \/ \E c \in Keys : AddIDAttach(t, c) \/ AddContact(t, c) \/ ContactDelete(t, c)
        \/ \E kind \in Kinds, g \in Games : AddGame(t, kind, g)
        \/ \E g \in Games : DelRoPaSci(t, g)
  BY DEF Next
<1>2. IInv' /\ Stores(t)
  <2>1. CASE Load(t)
    BY <2>1, LoadKeeps
  <2>2. CASE connectByzcoin(t)
    BY <2>2, ConnectKeeps
  <2>3. CASE LoadContact(t)
    BY <2>3, LoadContactKeeps
  <2>4. CASE Loaded(t)
    BY <2>4, LoadedKeeps
  <2>5. CASE \E reached \in BOOLEAN : LoadFails(t, reached)
    BY <2>5, LoadFailsKeeps
  <2>6. CASE AddIDFirst(t)
    BY <2>6, AddIDFirstKeeps
  <2>7. CASE CreateContact(t)
    BY <2>7, CreateContactKeeps
  <2>8. CASE DeleteUser(t)
    BY <2>8, DeleteUserKeeps
  <2>9. CASE Close(t)
    BY <2>9, CloseKeeps
  <2>10. CASE \E c \in Keys : AddIDAttach(t, c) \/ AddContact(t, c) \/ ContactDelete(t, c)
    BY <2>10, AddIDAttachKeeps, AddContactKeeps, ContactDeleteKeeps
  <2>11. CASE \E kind \in Kinds, g \in Games : AddGame(t, kind, g)
    BY <2>11, AddGameKeeps
  <2>12. CASE \E g \in Games : DelRoPaSci(t, g)
    BY <2>12, DelRoPaSciKeeps
  <2>13. QED BY <1>1, <2>1, <2>2, <2>3, <2>4, <2>5, <2>6, <2>7, <2>8, <2>9, <2>10, <2>11, <2>12
<1>3. QED BY <1>2

LEMMA Inductive == IInv /\ [Next]_vars => IInv'
<1>1. CASE Next
  BY <1>1, StepKeeps
<1>2. CASE UNCHANGED vars
  BY <1>2 DEF vars, IInv, Shapes, Undrawn, Sound, Identity, Owns, Acts, Holds, Content
<1>3. QED BY <1>1, <1>2

\* TypeOK: every state of the model has the shape it declares, and the stored object is
\* one that Data.toObject can write.
THEOREM TypesCorrect == Spec => []TypeOK
<1>1. IInv => TypeOK
  <2> SUFFICES ASSUME IInv PROVE TypeOK
    OBVIOUS
  <2>1. given \subseteq Keys
    <3>1. 1 .. drawn \subseteq Keys
      BY BoundsAssumption DEF IInv, Shapes, Keys
    <3>2. QED BY <3>1 DEF IInv, Shapes
  <2>2. QED BY <2>1 DEF IInv, Shapes, TypeOK, TabState, Phases
<1>2. QED BY <1>1, InitEstablishes, Inductive, PTL DEF Spec

\* StoredKeyActs: whatever is loaded, fails, is saved, is given away or taken over in any
\* number of tabs, the key in the storage acts for the contact in the storage, or nobody
\* does, or the key is that of an account of its own that was not given away.
THEOREM KeyInStorageActs == Spec => []StoredKeyActs
<1>1. IInv => StoredKeyActs
  <2>1. IInv => Sound(stored, acts, drawn, given)
    BY DEF IInv
  <2>2. QED BY <2>1 DEF Sound, Acts, StoredKeyActs
<1>2. QED BY <1>1, InitEstablishes, Inductive, PTL DEF Spec

\* LossIsExplained: no save takes a contact, a party or a game out of the storage, unless
\* the user removed it or was deleted, or a load of that page had failed, or another tab
\* stored it later.
THEOREM LossesAreExplained == Spec => LossIsExplained
<1> DEFINE A == \A what \in Content(stored) \ Content(stored)' :
                  \E t \in Tabs : /\ stored' = toObject(tab'[t])
                                  /\ \/ tab'[t].phase = "closed"
                                     \/ what \in tab'[t].removed
                                     \/ tab[t].failed
                                     \/ what \notin tab[t].mine
<1>1. IInv /\ [Next]_vars => [A]_vars
  <2> SUFFICES ASSUME IInv, Next PROVE A
    BY DEF A
  <2>1. PICK t \in Tabs : Stores(t)
    BY StepKeeps
  <2>2. tab'[t] \in TabState /\ Holds(tab'[t])
    BY StepKeeps DEF IInv, Shapes
  <2>3. CASE stored' = stored
    BY <2>3 DEF Content
  <2>4. CASE stored' # stored
    <3>1. /\ stored' = toObject(tab'[t])
          /\ \/ tab'[t].phase = "closed"
             \/ /\ tab'[t].phase = "registered" /\ tab'[t].failed = tab[t].failed
                /\ tab[t].mine \subseteq tab'[t].mine
      BY <2>1, <2>4 DEF Stores
    <3>2. ASSUME NEW what \in Content(stored) \ Content(stored)',
                 tab'[t].phase # "closed", what \notin tab'[t].removed, ~ tab[t].failed
          PROVE  what \notin tab[t].mine
      <4>1. tab'[t].phase = "registered" /\ ~ tab'[t].failed
            /\ tab[t].mine \subseteq tab'[t].mine
        BY <3>1, <3>2
      <4>2. tab'[t].bc /\ tab'[t].mine \ tab'[t].removed \subseteq Content(tab'[t].data)
        BY <2>2, <4>1 DEF Holds
      <4>3. stored' = tab'[t].data
        BY <2>2, <3>1, <4>2, WrittenIs
      <4>4. Content(stored)' = Content(tab'[t].data)
        BY <4>3 DEF Content
      <4>5. QED BY <3>2, <4>1, <4>2, <4>4
    <3>3. QED BY <3>1, <3>2
  <2>5. QED BY <2>3, <2>4
<1>2. QED BY <1>1, InitEstablishes, Inductive, PTL DEF Spec, LossIsExplained

\* NothingComesBack: what a save puts into the storage is what that page found there or
\* added, and did not remove.
THEOREM RemovedStaysRemoved == Spec => NothingComesBack
<1> DEFINE A == \A what \in Content(stored)' \ Content(stored) :
                  \E t \in Tabs : /\ stored' = toObject(tab'[t])
                                  /\ what \in tab'[t].mine \ tab'[t].removed
<1>1. IInv /\ [Next]_vars => [A]_vars
  <2> SUFFICES ASSUME IInv, Next PROVE A
    BY DEF A
  <2>1. PICK t \in Tabs : Stores(t)
    BY StepKeeps
  <2>2. tab'[t] \in TabState /\ Holds(tab'[t])
    BY StepKeeps DEF IInv, Shapes
  <2>3. CASE stored' = stored
    BY <2>3 DEF Content
  <2>4. CASE stored' # stored
    <3>1. /\ stored' = toObject(tab'[t])
          /\ \/ tab'[t].phase = "closed" /\ Content(tab'[t].data) = {}
             \/ tab'[t].phase = "registered"
      BY <2>1, <2>4 DEF Stores
    <3>2. Content(stored)' = Content(stored')
      BY DEF Content
    <3>3. Content(stored') \subseteq Content(tab'[t].data)
      BY <2>2, <3>1, WrittenIs
    <3>4. Content(tab'[t].data) \subseteq tab'[t].mine \ tab'[t].removed
      BY <2>2, <3>1 DEF Holds
    <3>5. QED BY <3>1, <3>2, <3>3, <3>4
  <2>5. QED BY <2>3, <2>4
<1>2. QED BY <1>1, InitEstablishes, Inductive, PTL DEF Spec, NothingComesBack

==============================================================================
