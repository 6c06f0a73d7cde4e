--------------------------------- MODULE RingSig ---------------------------------
(***************************************************************************)
(* The linkable ring signatures with which attendees of a party answer a   *)
(* poll (ring-sig.ts, pollAnswer of personhood-rpc.ts).                    *)
(*                                                                         *)
(* The two hash functions are some functions of all that is hashed.  A     *)
(* buffer is the sequence of its scalars and points, which all take the    *)
(* same space.  As in the code, lists of keys count from 0.                *)
(***************************************************************************)
EXTENDS Curve, Sequences, FiniteSets

\* The point and the scalar picked from a stream of Blake2xs bytes.
pickPoint(scope) == (scope % (q - 1)) + 1
pickScalar(bytes) == (bytes[1] + 2 * bytes[2] + 3 * bytes[3] + bytes[4] + 4 * bytes[5] + 1) % q

Elements(list) == {list[i] : i \in DOMAIN list}

\* Bug: the keys stay as they come.
sortAsIs(list) == list

\* Both sides sort the keys by their bytes.
sort(list) ==
  [i \in DOMAIN list |->
     CHOOSE p \in Elements(list) : Cardinality({o \in Elements(list) : o < p}) = i]

\* What is hashed before the points of each member: the scope, the tag, the message.
signH1pre(scope, tag, message) == <<message, scope, tag>>
signH1(pre, PG, PH) == pickScalar(pre \o <<PG, PH>>)

------------------------------------------------------------------------------

\* The signer's place, which sortSet does not find if the key is not in the list.
InSet(list, private) == Public(private) \in Elements(list)
sortSet(list, private) ==
  CHOOSE i \in DOMAIN list : sort(list)[i] = Public(private)

\* Sign, with u and s[i] for what it picks at random: the challenges go round the ring
\* from the signer's place, and s[pi] closes it.
Sign(message, set, scope, private, u, s) ==
  LET L  == sort(set)
      n  == Cardinality(DOMAIN L)
      pi == sortSet(set, private)
      base == pickPoint(scope)
      tag  == Mul(private, base)
      pre  == signH1pre(scope, tag, message)
      at(d) == (pi + d) % n
      \* The challenge d places after the signer.
      c[d \in 1 .. n] ==
        IF d = 1 THEN signH1(pre, Public(u), Mul(u, base))
        ELSE LET i == at(d - 1) IN
             signH1(pre, Add(Public(s[i]), Mul(c[d - 1], L[i])),
                         Add(Mul(s[i], base), Mul(c[d - 1], tag)))
  IN  [C0  |-> c[CHOOSE d \in 1 .. n : at(d) = 0],
       S   |-> [s EXCEPT ![pi] = Sub(u, Mul(private, c[n]))],
       Tag |-> tag]

encode(sig) ==
  <<sig.C0>> \o [i \in 1 .. Cardinality(DOMAIN sig.S) |-> sig.S[i - 1]] \o <<sig.Tag>>

\* The tag is what comes last, the number of scalars what is left.
decodeSignature(buffer) ==
  [C0 |-> buffer[1], S |-> [i \in 0 .. Len(buffer) - 3 |-> buffer[i + 2]],
   Tag |-> buffer[Len(buffer)]]

Rejected == [valid |-> FALSE, tag |-> 0]

Verify(message, set, scope, buffer) ==
  LET L  == sort(set)
      n  == Cardinality(DOMAIN L)
      sig  == decodeSignature(buffer)
      base == pickPoint(scope)
      pre  == signH1pre(scope, sig.Tag, message)
      c[i \in 0 .. n] ==
        IF i = 0 THEN sig.C0
        ELSE signH1(pre, Add(Public(sig.S[i - 1]), Mul(c[i - 1], L[i - 1])),
                         Add(Mul(sig.S[i - 1], base), Mul(c[i - 1], sig.Tag)))
  IN  IF DOMAIN sig.S # DOMAIN L THEN Rejected
      ELSE [valid |-> c[n] = sig.C0, tag |-> IF c[n] = sig.C0 THEN sig.Tag ELSE 0]

------------------------------------------------------------------------------

Answers == {0, 1}
Scopes  == {0, 1}   \* the hashes of `Poll', the ledger and the id of the poll

\* pollAnswer: the choice is signed for the attendees of the party as the page lists them.
pollAnswer(private, attendees, poll, choice, u, s) ==
  encode(Sign(choice, attendees, poll, private, u, s))

Lists(keys) ==
  {l \in [0 .. Cardinality(keys) - 1 -> keys] : Elements(l) = keys}

\* The answer of each of these attendees verifies, in whatever order the page and the
\* service list them, whatever was picked at random; its tag is that of no other
\* attendee, and the same for whatever else the attendee answers to this poll.
AnswersCount(privates) ==
  LET keys == {Public(x) : x \in privates}
      lists == Lists(keys)
      First == CHOOSE l \in lists : TRUE
  IN  \A poll \in Scopes :
        LET tag == [x \in privates |-> Sign(0, First, poll, x, 0, [i \in DOMAIN First |-> 0]).Tag] IN
        /\ \A x, y \in privates : tag[x] = tag[y] => x = y
        /\ \A x \in privates, choice \in Answers, u \in Scalar, r \in Scalar :
           \A page \in lists :
             LET answer == pollAnswer(x, page, poll, choice, u, [i \in DOMAIN page |-> (r + i) % q])
             IN  \A service \in {First, page} :
                   Verify(choice, service, poll, answer) = [valid |-> TRUE, tag |-> tag[x]]

\* The sizes of parties whose attendees can answer, whatever their keys are.
SizesThatAnswer ==
  {n \in 1 .. q - 1 : \A privates \in {p \in SUBSET (1 .. q - 1) : Cardinality(p) = n} :
     AnswersCount(privates)}
==============================================================================
