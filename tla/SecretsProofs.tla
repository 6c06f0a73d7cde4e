----------------------------- MODULE SecretsProofs -----------------------------
(***************************************************************************)
(* What holds of Secrets for any pages, balances, costs and bounds, and of *)
(* the encryption for any order of the group.                              *)
(*                                                                         *)
(* The encryption is arithmetic modulo q: two numbers are the same when    *)
(* they differ by a multiple of q (Same), and sums and products of the     *)
(* same numbers are the same, so that what is added is taken away again.   *)
(*                                                                         *)
(* For the credential: its numbers are smaller than their count (Listing), *)
(* so the next number is free; and a page that knows the version on the    *)
(* ledger lists all that the ledger lists, and has all the plain secrets   *)
(* of the storage if no update was lost (Synced).  A page whose version is *)
(* another one writes only to be counted as mixed.                         *)
(***************************************************************************)
EXTENDS Secrets, FiniteSetTheorems, WellFoundedInduction, TLAPS

------------------------------------------------------------------------------
(* The invariant. *)

Tables(D, R) == UNION {[S -> R] : S \in SUBSET D}

Credentials == [atts : Tables(Names, 0 .. MaxWrites), version : 0 .. MaxVersion]
Browsers    == [ours : Tables(0 .. MaxVersion, Writes), read : SUBSET Writes]
Additions   == [phase : {"none", "darc", "write", "list"}, share : BOOLEAN, id : 0 .. MaxWrites]
Searches    == [phase : {"none", "each"}, todo : Tables(0 .. MaxVersion, Writes),
                got : SUBSET Writes, failed : SUBSET Writes]
PageState   ==
  [open : BOOLEAN, cred : Credentials, base : 0 .. MaxVersion, coin : 0 .. Coins,
   peer : Credentials, ours : Tables(0 .. MaxVersion, Writes), read : SUBSET Writes,
   add : Additions, search : Searches]

\* The write instances have the numbers 1, 2 and so on.
IsShared(sh) == \E n \in 0 .. MaxWrites : sh \in [1 .. n -> BOOLEAN]

Shapes ==
  /\ coins \in [Users -> 0 .. Coins]
  /\ IsShared(shared)
  /\ cred \in [Users -> Credentials]
  /\ storage \in [Users -> Browsers]
  /\ page \in [Pages -> PageState]
  /\ loads \in 0 .. MaxLoads /\ lost \subseteq Users /\ mixed \subseteq Users

\* The write instances that the reader may read.
Allowed(sh) == {w \in DOMAIN sh : sh[w]}

\* A credential: every addition came with a new version, its numbers are smaller than
\* their count, and stand for write instances.
Listing(c, sh) ==
  /\ Cardinality(DOMAIN c.atts) <= c.version
  /\ \A n \in DOMAIN c.atts : n < Cardinality(DOMAIN c.atts)
  /\ \A n \in DOMAIN c.atts \ {others} : c.atts[n] \in DOMAIN sh
  /\ others \in DOMAIN c.atts => c.atts[others] = Blob

\* What a page adds and searches.
Busy(s, sh) ==
  /\ Listing(s.peer, sh)
  /\ s.read \subseteq Allowed(sh) /\ s.search.got \subseteq Allowed(sh)
  /\ s.add.phase # "none" \/ s.search.phase # "none" => s.open
  /\ s.add.phase = "list" => s.add.id \in DOMAIN sh
  /\ \A n \in DOMAIN s.search.todo : s.search.todo[n] \in DOMAIN sh
  /\ s.search.phase = "each" =>
       \A n \in DOMAIN s.peer.atts \ {others} :
         \/ n \in DOMAIN s.search.todo /\ s.search.todo[n] = s.peer.atts[n]
         \/ s.peer.atts[n] \in s.search.got \cup s.search.failed
         \/ ~ sh[s.peer.atts[n]]

\* All numbers of the attributes f are those of g.
Keeps(f, g) == \A n \in DOMAIN f \ {others} : n \in DOMAIN g /\ g[n] = f[n]

\* A page and the ledger, and the storage.
Synced(s, u, cr, st, lo, mi) ==
  u \notin mi /\ s.open =>
    /\ s.base <= cr[u].version /\ s.base <= s.cred.version
    /\ s.base = cr[u].version =>
         /\ Keeps(cr[u].atts, s.cred.atts)
         /\ u \notin lo => s.ours = st[u].ours

\* The storage and the ledger.
Stored(u, cr, st, sh, lo, mi) ==
  /\ Listing(cr[u], sh)
  /\ st[u].read \subseteq Allowed(sh)
  /\ u \notin lo \cup mi => DOMAIN st[u].ours \subseteq DOMAIN cr[u].atts

IInv ==
  /\ Shapes
  /\ \A u \in Users : Stored(u, cred, storage, shared, lost, mixed)
  /\ \A p \in Pages :
       /\ Listing(page[p].cred, shared) /\ Busy(page[p], shared)
       /\ Synced(page[p], User(p), cred, storage, lost, mixed)

------------------------------------------------------------------------------
(* Numbers modulo q. *)

\* The same number of the group.
Same(a, b) == \E k \in Int : a = b + k * q

LEMMA Remainder ==
  ASSUME NEW a \in Int
  PROVE  (a % q) \in Scalar /\ (a % q) \in Int /\ Same(a % q, a)
<1>1. q \in Nat /\ q > 0
  BY OrderAssumption
<1>2. a = q * (a \div q) + (a % q) /\ (a \div q) \in Int /\ (a % q) \in 0 .. q - 1
  BY <1>1
<1> DEFINE k == -(a \div q)
<1>3. k \in Int /\ (a % q) = a + k * q
  BY <1>1, <1>2
<1>4. QED BY <1>1, <1>2, <1>3 DEF Same, Scalar

\* Two scalars that are the same are equal.
LEMMA SameScalars ==
  ASSUME NEW a \in Scalar, NEW b \in Scalar, Same(a, b)
  PROVE  a = b
<1>1. q \in Nat /\ q > 0 /\ a \in 0 .. q - 1 /\ b \in 0 .. q - 1
  BY OrderAssumption DEF Scalar
<1>2. PICK k \in Int : a = b + k * q
  BY DEF Same
<1>3. CASE k >= 1
  BY <1>1, <1>2, <1>3
<1>4. CASE k <= -1
  BY <1>1, <1>2, <1>4
<1>5. CASE k = 0
  BY <1>1, <1>2, <1>5
<1>6. QED BY <1>3, <1>4, <1>5

LEMMA SameIsEqual ==
  ASSUME NEW a \in Int, NEW b \in Int, Same(a, b)
  PROVE  Same(b, a)
<1>1. PICK k \in Int : a = b + k * q
  BY DEF Same
<1>2. q \in Int
  BY OrderAssumption
<1>3. -k \in Int /\ b = a + (-k) * q
  BY <1>1, <1>2
<1>4. QED BY <1>3 DEF Same

LEMMA SameOfSame ==
  ASSUME NEW a \in Int, NEW b \in Int, NEW c \in Int, Same(a, b), Same(b, c)
  PROVE  Same(a, c)
<1>1. PICK k \in Int : a = b + k * q
  BY DEF Same
<1>2. PICK j \in Int : b = c + j * q
  BY DEF Same
<1>3. q \in Int
  BY OrderAssumption
<1>4. k + j \in Int /\ a = c + (k + j) * q
  BY <1>1, <1>2, <1>3
<1>5. QED BY <1>4 DEF Same

LEMMA SameSums ==
  ASSUME NEW a \in Int, NEW b \in Int, NEW c \in Int, NEW d \in Int, Same(a, b), Same(c, d)
  PROVE  Same(a + c, b + d) /\ Same(a - c, b - d) /\ Same(-a, -b)
<1>1. PICK k \in Int : a = b + k * q
  BY DEF Same
<1>2. PICK j \in Int : c = d + j * q
  BY DEF Same
<1>3. q \in Int
  BY OrderAssumption
<1>4. k + j \in Int /\ a + c = (b + d) + (k + j) * q
  BY <1>1, <1>2, <1>3
<1>5. k - j \in Int /\ a - c = (b - d) + (k - j) * q
  BY <1>1, <1>2, <1>3
<1>6. -k \in Int /\ -a = -b + (-k) * q
  BY <1>1, <1>3
<1>7. QED BY <1>4, <1>5, <1>6 DEF Same

LEMMA SameProducts ==
  ASSUME NEW a \in Int, NEW b \in Int, NEW c \in Int, NEW d \in Int, Same(a, b), Same(c, d)
  PROVE  Same(a * c, b * d)
<1>1. PICK k \in Int : a = b + k * q
  BY DEF Same
<1>2. PICK j \in Int : c = d + j * q
  BY DEF Same
<1>3. q \in Int
  BY OrderAssumption
<1> DEFINE m == b * j + k * d + k * (j * q)
<1>4. m \in Int /\ a * c = b * d + m * q
  <2>1. a * c = b * c + (k * q) * c
    BY <1>1, <1>3
  <2>2. b * c = b * d + b * (j * q)
    BY <1>2, <1>3
  <2>3. (k * q) * c = (k * q) * d + (k * q) * (j * q)
    BY <1>2, <1>3
  <2>4. m * q = (b * j) * q + (k * d) * q + (k * (j * q)) * q
    BY <1>3
  <2>5. b * (j * q) = (b * j) * q /\ (k * q) * d = (k * d) * q
        /\ (k * q) * (j * q) = (k * (j * q)) * q
    BY <1>3
  <2>6. QED BY <1>1, <1>2, <1>3, <2>1, <2>2, <2>3, <2>4, <2>5
<1>5. QED BY <1>4 DEF Same
LEMMA SelfSame ==
  ASSUME NEW a \in Int
  PROVE  Same(a, a)
<1>1. a = a + 0 * q
  BY OrderAssumption
<1>2. QED BY <1>1 DEF Same

LEMMA ScalarsAreNumbers == \A a \in Scalar : a \in Int /\ Same(a, a)
BY SelfSame DEF Scalar

\* The operations of the group, on numbers that are the same as others.
LEMMA MulIs ==
  ASSUME NEW a \in Int, NEW b \in Int, NEW c \in Int, NEW d \in Int, Same(a, c), Same(b, d)
  PROVE  Mul(a, b) \in Scalar /\ Mul(a, b) \in Int /\ Same(Mul(a, b), c * d) /\ c * d \in Int
<1>1. a * b \in Int /\ c * d \in Int
  OBVIOUS
<1>2. Same(a * b, c * d)
  BY SameProducts
<1>3. Mul(a, b) = (a * b) % q
  BY DEF Mul
<1> DEFINE x == a * b
           y == c * d
<1> HIDE DEF x, y
<1>4. (x % q) \in Scalar /\ (x % q) \in Int /\ Same(x % q, y)
  BY <1>1, <1>2, Remainder, SameOfSame DEF x, y
<1>5. QED BY <1>1, <1>3, <1>4 DEF x, y

LEMMA AddIs ==
  ASSUME NEW a \in Int, NEW b \in Int, NEW c \in Int, NEW d \in Int, Same(a, c), Same(b, d)
  PROVE  Add(a, b) \in Scalar /\ Add(a, b) \in Int /\ Same(Add(a, b), c + d) /\ c + d \in Int
<1>1. a + b \in Int /\ c + d \in Int
  OBVIOUS
<1>2. Same(a + b, c + d)
  BY SameSums
<1>3. Add(a, b) = (a + b) % q
  BY DEF Add
<1> DEFINE x == a + b
           y == c + d
<1> HIDE DEF x, y
<1>4. (x % q) \in Scalar /\ (x % q) \in Int /\ Same(x % q, y)
  BY <1>1, <1>2, Remainder, SameOfSame DEF x, y
<1>5. QED BY <1>1, <1>3, <1>4 DEF x, y

LEMMA SubIs ==
  ASSUME NEW a \in Int, NEW b \in Int, NEW c \in Int, NEW d \in Int, Same(a, c), Same(b, d)
  PROVE  Sub(a, b) \in Scalar /\ Sub(a, b) \in Int /\ Same(Sub(a, b), c - d) /\ c - d \in Int
<1>1. a - b \in Int /\ c - d \in Int
  OBVIOUS
<1>2. Same(a - b, c - d)
  BY SameSums
<1>3. Sub(a, b) = (a - b) % q
  BY DEF Sub
<1> DEFINE x == a - b
           y == c - d
<1> HIDE DEF x, y
<1>4. (x % q) \in Scalar /\ (x % q) \in Int /\ Same(x % q, y)
  BY <1>1, <1>2, Remainder, SameOfSame DEF x, y
<1>5. QED BY <1>1, <1>3, <1>4 DEF x, y

LEMMA NegIs ==
  ASSUME NEW a \in Int, NEW c \in Int, Same(a, c)
  PROVE  Neg(a) \in Scalar /\ Neg(a) \in Int /\ Same(Neg(a), -c) /\ -c \in Int
<1>1. -a \in Int /\ -c \in Int
  OBVIOUS
<1>2. Same(-a, -c)
  BY SameSums
<1>3. Neg(a) = (-a) % q
  BY DEF Neg
<1> DEFINE x == -a
           y == -c
<1> HIDE DEF x, y
<1>4. (x % q) \in Scalar /\ (x % q) \in Int /\ Same(x % q, y)
  BY <1>1, <1>2, Remainder, SameOfSame DEF x, y
<1>5. QED BY <1>1, <1>3, <1>4 DEF x, y

LEMMA PublicIs ==
  ASSUME NEW a \in Int, NEW c \in Int, Same(a, c)
  PROVE  Public(a) \in Scalar /\ Public(a) \in Int /\ Same(Public(a), c)
<1>1. Same(1, 1)
  BY SelfSame
<1>2. Mul(a, 1) \in Scalar /\ Mul(a, 1) \in Int /\ Same(Mul(a, 1), c * 1)
  BY <1>1, MulIs
<1>3. c * 1 = c
  OBVIOUS
<1>4. QED BY <1>2, <1>3 DEF Public

\* Two ways to the same number.
LEMMA SameWays ==
  ASSUME NEW a \in Scalar, NEW b \in Scalar, NEW c \in Int, Same(a, c), Same(b, c)
  PROVE  a = b
<1>1. a \in Int /\ b \in Int
  BY ScalarsAreNumbers
<1>2. Same(a, b)
  BY <1>1, SameIsEqual, SameOfSame
<1>3. QED BY <1>2, SameScalars

------------------------------------------------------------------------------
(* Encryption. *)

\* The contract of Calypso accepts what createWrite makes.
LEMMA WriteIsAccepted ==
  ASSUME NEW ltsid \in Int, NEW darc \in Int, NEW X \in Scalar, NEW key \in Scalar,
         NEW r \in Scalar, NEW s \in Scalar
  PROVE  AcceptsWrite(createWrite(ltsid, darc, X, key, r, s), darc)
<1> DEFINE g == ltsid
           u == Public(r)
           c == Add(Mul(r, X), key)
           ubar == Mul(r, g)
           S == Public(s)
           T == Mul(s, g)
           e == Challenge(c, u, ubar, S, T, darc)
           f == Response(s, e, r)
           w == Sub(Public(f), Mul(e, u))
           wBar == Sub(Mul(f, g), Mul(e, ubar))
           write == createWrite(ltsid, darc, X, key, r, s)
<1>1. write = [u |-> u, c |-> c, ubar |-> ubar, e |-> e, f |-> f, ltsid |-> ltsid]
  BY DEF createWrite, embed
<1>2. AcceptsWrite(write, darc) = (e = Challenge(c, u, ubar, w, wBar, darc))
  <2> HIDE DEF u, c, ubar, S, T, e, f, write
  <2>1. write.u = u /\ write.c = c /\ write.ubar = ubar /\ write.e = e /\ write.f = f
        /\ write.ltsid = g
    BY <1>1
  <2>2. QED BY <2>1 DEF AcceptsWrite, embed
<1>3. /\ g \in Int /\ Same(g, g) /\ r \in Int /\ Same(r, r) /\ s \in Int /\ Same(s, s)
      /\ X \in Int /\ Same(X, X) /\ key \in Int /\ Same(key, key)
  BY ScalarsAreNumbers, SelfSame
<1>4. /\ u \in Int /\ Same(u, r) /\ ubar \in Int /\ Same(ubar, r * g) /\ r * g \in Int
      /\ S \in Scalar /\ Same(S, s) /\ T \in Scalar /\ Same(T, s * g) /\ s * g \in Int
  BY <1>3, PublicIs, MulIs
<1>5. Mul(r, X) \in Int /\ Same(Mul(r, X), Mul(r, X))
  BY <1>3, MulIs, SelfSame
<1>6. c \in Int
  BY <1>3, <1>5, AddIs
<1>7. e \in Int /\ Same(e, e)
  <2> DEFINE sum == c + 2 * u + 3 * ubar + S + 2 * T + darc + 1
  <2>1. S \in Int /\ T \in Int
    BY <1>4, ScalarsAreNumbers
  <2> HIDE DEF c, u, ubar, S, T
  <2>2. sum \in Int
    BY <1>4, <1>6, <2>1
  <2>3. e = sum % q
    BY DEF Challenge
  <2> HIDE DEF sum, e
  <2>4. QED BY <2>2, <2>3, Remainder, SelfSame
<1> HIDE DEF g, u, c, ubar, S, T, e
<1>8. Mul(e, r) \in Int /\ Same(Mul(e, r), e * r) /\ e * r \in Int
  BY <1>3, <1>7, MulIs
<1>9. f \in Int /\ Same(f, s + e * r) /\ s + e * r \in Int
  BY <1>3, <1>8, AddIs DEF Response
<1> HIDE DEF f
<1>10. w = S
  <2>1. Public(f) \in Int /\ Same(Public(f), s + e * r)
    BY <1>9, PublicIs
  <2>2. Mul(e, u) \in Int /\ Same(Mul(e, u), e * r)
    BY <1>3, <1>4, <1>7, MulIs
  <2>3. w \in Scalar /\ Same(w, (s + e * r) - e * r)
    BY <1>8, <1>9, <2>1, <2>2, SubIs
  <2>4. (s + e * r) - e * r = s
    BY <1>3, <1>8
  <2> HIDE DEF w
  <2>5. QED BY <1>3, <1>4, <2>3, <2>4, SameWays
<1>11. wBar = T
  <2>1. Mul(f, g) \in Int /\ Same(Mul(f, g), (s + e * r) * g) /\ (s + e * r) * g \in Int
    BY <1>3, <1>9, MulIs
  <2>2. Mul(e, ubar) \in Int /\ Same(Mul(e, ubar), e * (r * g)) /\ e * (r * g) \in Int
    BY <1>4, <1>7, MulIs
  <2>3. wBar \in Scalar /\ Same(wBar, (s + e * r) * g - e * (r * g))
    BY <2>1, <2>2, SubIs
  <2>4. (s + e * r) * g - e * (r * g) = s * g
    <3>1. (s + e * r) * g = s * g + (e * r) * g /\ (e * r) * g = e * (r * g)
      BY <1>3, <1>7
    <3>2. QED BY <1>4, <2>2, <3>1
  <2> HIDE DEF wBar
  <2>5. QED BY <1>4, <2>3, <2>4, SameWays
<1>12. QED BY <1>2, <1>10, <1>11 DEF e

\* What DecodeKey returns of a re-encrypted point is what was embedded.
LEMMA KeyIsDecoded ==
  ASSUME NEW ltsid \in Int, NEW darc \in Int, NEW x \in Scalar, NEW key \in Scalar,
         NEW r \in Scalar, NEW s \in Scalar, NEW private \in Scalar
  PROVE  LET write == createWrite(ltsid, darc, Public(x), key, r, s)
         IN  DecodeKey(reencryptKey(write, x, Public(private)), private) = key
<1> DEFINE write == createWrite(ltsid, darc, Public(x), key, r, s)
           X == Public(x)
           u == Public(r)
           P == Public(private)
           c == Add(Mul(r, X), key)
           enc == Mul(x, Add(u, P))
           off == Mul(Neg(private), X)
           Xhat == Add(enc, off)
           res == Add(c, Neg(Xhat))
<1>1. write.u = u /\ write.c = c
  BY DEF createWrite, embed
<1>2. DecodeKey(reencryptKey(write, x, P), private) = res
  <2> HIDE DEF write
  <2>1. reencryptKey(write, x, P) = [X |-> X, c |-> c, xhatenc |-> enc]
    BY <1>1 DEF reencryptKey
  <2>2. QED BY <2>1 DEF DecodeKey, dataOf
<1>3. /\ r \in Int /\ Same(r, r) /\ x \in Int /\ Same(x, x)
      /\ private \in Int /\ Same(private, private) /\ key \in Int /\ Same(key, key)
  BY ScalarsAreNumbers
<1>4. /\ X \in Int /\ Same(X, x) /\ u \in Int /\ Same(u, r)
      /\ P \in Int /\ Same(P, private)
  BY <1>3, PublicIs
<1> HIDE DEF X, u, P, write
<1>5. Mul(r, X) \in Int /\ Same(Mul(r, X), r * x) /\ r * x \in Int
  BY <1>3, <1>4, MulIs
<1>6. c \in Int /\ Same(c, r * x + key) /\ r * x + key \in Int
  BY <1>3, <1>5, AddIs
<1>7. Add(u, P) \in Int /\ Same(Add(u, P), r + private) /\ r + private \in Int
  BY <1>3, <1>4, AddIs
<1>8. enc \in Int /\ Same(enc, x * (r + private)) /\ x * (r + private) \in Int
  BY <1>3, <1>7, MulIs
<1>9. Neg(private) \in Int /\ Same(Neg(private), -private) /\ -private \in Int
  BY <1>3, NegIs
<1>10. off \in Int /\ Same(off, (-private) * x) /\ (-private) * x \in Int
  BY <1>3, <1>4, <1>9, MulIs
<1> HIDE DEF c, enc, off
<1>11. Xhat \in Int /\ Same(Xhat, r * x)
  <2>1. Xhat \in Int /\ Same(Xhat, x * (r + private) + (-private) * x)
    BY <1>8, <1>10, AddIs
  <2>2. x * (r + private) + (-private) * x = r * x
    <3>1. x * (r + private) = r * x + x * private /\ (-private) * x = -(x * private)
          /\ x * private \in Int
      BY <1>3
    <3>2. QED BY <1>5, <3>1
  <2>3. QED BY <2>1, <2>2
<1> HIDE DEF Xhat
<1>12. Neg(Xhat) \in Int /\ Same(Neg(Xhat), -(r * x)) /\ -(r * x) \in Int
  BY <1>5, <1>11, NegIs
<1>13. res \in Scalar /\ Same(res, (r * x + key) + (-(r * x)))
  BY <1>6, <1>12, AddIs
<1>14. (r * x + key) + (-(r * x)) = key
  BY <1>3, <1>5
<1> HIDE DEF res
<1>15. res = key
  BY <1>3, <1>13, <1>14, SameWays
<1>16. QED BY <1>2, <1>15 DEF write, P

\* SecureData: whatever keys are picked, the ledger takes the instance and the reader
\* gets what was written.
LEMMA SecretsAreReadable ==
  ASSUME NEW data
  PROVE  Readable(data)
<1>1. ASSUME NEW symKey \in SymKey, NEW r \in Scalar, NEW s \in Scalar, NEW x \in Scalar,
             NEW private \in Scalar, NEW ltsid \in {1, 2}
      PROVE  LET instance == Spawned(data, symKey, 0, ltsid, Public(x), 1, r, s)
             IN  /\ AcceptsWrite(instance.write, 1)
                 /\ Decrypted(instance, x, private) = data
  <2> DEFINE write == createWrite(ltsid, 1, Public(x), symKey.point, r, s)
             box == secretbox(data, 0, symKey)
             instance == Spawned(data, symKey, 0, ltsid, Public(x), 1, r, s)
             part == DecodeKey(reencryptKey(write, x, Public(private)), private)
  <2>1. ltsid \in Int /\ 1 \in Int /\ symKey.point \in Scalar
    BY DEF SymKey
  <2>2. Public(x) \in Scalar
    BY PublicIs, ScalarsAreNumbers
  <2>3. AcceptsWrite(write, 1)
    BY <2>1, <2>2, WriteIsAccepted
  <2>4. part = symKey.point
    BY <2>1, KeyIsDecoded
  <2>5. instance = [write |-> write, nonce |-> 0, rest |-> symKey.rest, box |-> box]
    BY DEF Spawned
  <2> HIDE DEF write, part, instance
  <2>6. [point |-> symKey.point, rest |-> symKey.rest] = symKey
    BY DEF SymKey
  <2>7. instance.write = write /\ instance.nonce = 0 /\ instance.rest = symKey.rest
        /\ instance.box = box
    BY <2>5
  <2>8. Decrypted(instance, x, private) = secretbox_open(box, 0, [point |-> part, rest |-> symKey.rest])
    BY <2>7 DEF Decrypted, part
  <2>9. secretbox_open(box, 0, symKey) = data
    BY DEF secretbox_open, secretbox
  <2>10. QED BY <2>3, <2>4, <2>6, <2>7, <2>8, <2>9 DEF instance
<1>2. QED BY <1>1 DEF Readable

------------------------------------------------------------------------------
(* Tables, and the numbers of a credential. *)

LEMMA TableIs ==
  ASSUME NEW D, NEW R, NEW f
  PROVE  f \in Tables(D, R) <=>
           /\ f = [x \in DOMAIN f |-> f[x]]
           /\ DOMAIN f \subseteq D /\ \A x \in DOMAIN f : f[x] \in R
<1>1. ASSUME f \in Tables(D, R)
      PROVE  f = [x \in DOMAIN f |-> f[x]] /\ DOMAIN f \subseteq D /\ \A x \in DOMAIN f : f[x] \in R
  <2>1. PICK S \in SUBSET D : f \in [S -> R]
    BY <1>1 DEF Tables
  <2>2. QED BY <2>1
<1>2. ASSUME f = [x \in DOMAIN f |-> f[x]], DOMAIN f \subseteq D, \A x \in DOMAIN f : f[x] \in R
      PROVE  f \in Tables(D, R)
  <2>1. f \in [DOMAIN f -> R] /\ DOMAIN f \in SUBSET D
    BY <1>2
  <2>2. QED BY <2>1 DEF Tables
<1>3. QED BY <1>1, <1>2

LEMMA NoneYetIs ==
  ASSUME NEW D, NEW R
  PROVE  /\ NoneYet \in Tables(D, R) /\ DOMAIN NoneYet = {}
         /\ \A f \in Tables(D, R) : f = NoneYet <=> DOMAIN f = {}
<1>1. DOMAIN NoneYet = {} /\ NoneYet = [x \in DOMAIN NoneYet |-> NoneYet[x]]
  BY DEF NoneYet
<1>2. NoneYet \in Tables(D, R)
  BY <1>1, TableIs
<1>3. ASSUME NEW f \in Tables(D, R), DOMAIN f = {}
      PROVE  f = NoneYet
  <2>1. f = [x \in DOMAIN f |-> f[x]]
    BY TableIs
  <2>2. QED BY <1>3, <2>1 DEF NoneYet
<1>4. QED BY <1>1, <1>2, <1>3

LEMMA ValuesAre ==
  ASSUME NEW D, NEW R, NEW f \in Tables(D, R)
  PROVE  DOMAIN f \subseteq D /\ \A x \in DOMAIN f : f[x] \in R
BY TableIs

LEMMA EmptyOnly ==
  ASSUME NEW D, NEW R, NEW f \in Tables(D, R), DOMAIN f = {}
  PROVE  f = NoneYet
BY NoneYetIs

LEMMA ExtendType ==
  ASSUME NEW D, NEW R, NEW f \in Tables(D, R), NEW k \in D, NEW v \in R
  PROVE  Extend(f, k, v) \in Tables(D, R)
<1> DEFINE g == Extend(f, k, v)
<1>1. DOMAIN f \subseteq D /\ \A x \in DOMAIN f : f[x] \in R
  BY TableIs
<1>2. /\ DOMAIN g = DOMAIN f \cup {k} /\ g[k] = v
      /\ \A x \in DOMAIN f \ {k} : g[x] = f[x]
      /\ g = [x \in DOMAIN g |-> g[x]]
  BY DEF Extend
<1> HIDE DEF g
<1>3. DOMAIN g \subseteq D /\ \A x \in DOMAIN g : g[x] \in R
  BY <1>1, <1>2
<1>4. g \in Tables(D, R)
  BY <1>2, <1>3, TableIs
<1>5. QED BY <1>4 DEF g

LEMMA CountIs ==
  ASSUME NEW S \in SUBSET Names
  PROVE  /\ IsFiniteSet(S) /\ Cardinality(S) \in Nat
         /\ \A n : n \notin S => Cardinality(S \cup {n}) = Cardinality(S) + 1
<1>1. IsFiniteSet(Names)
  BY BoundsAssumption, FS_Interval DEF Names
<1>2. IsFiniteSet(S)
  BY <1>1, FS_Subset
<1>3. QED BY <1>2, FS_CardinalityType, FS_AddElement

LEMMA SharedIs ==
  ASSUME NEW sh, IsShared(sh)
  PROVE  /\ DOMAIN sh \subseteq Writes /\ Allowed(sh) \subseteq Writes
         /\ \A w \in DOMAIN sh : sh[w] \in BOOLEAN
<1>1. PICK n \in 0 .. MaxWrites : sh \in [1 .. n -> BOOLEAN]
  BY DEF IsShared
<1>2. DOMAIN sh = 1 .. n /\ 1 .. n \subseteq Writes
  BY <1>1, BoundsAssumption DEF Writes
<1>3. QED BY <1>1, <1>2 DEF Allowed

\* Another write instance.
LEMMA SharedMore ==
  ASSUME NEW sh, IsShared(sh), NEW b \in BOOLEAN, Cardinality(DOMAIN sh) + 1 <= MaxWrites
  PROVE  LET w == Cardinality(DOMAIN sh) + 1
         IN  /\ IsShared(Extend(sh, w, b)) /\ w \in DOMAIN Extend(sh, w, b) /\ w \in Writes
             /\ DOMAIN sh \subseteq DOMAIN Extend(sh, w, b)
             /\ \A x \in DOMAIN sh : Extend(sh, w, b)[x] = sh[x]
<1> DEFINE w == Cardinality(DOMAIN sh) + 1
           new == Extend(sh, w, b)
<1>1. PICK n \in 0 .. MaxWrites : sh \in [1 .. n -> BOOLEAN]
  BY DEF IsShared
<1>2. n \in Nat /\ DOMAIN sh = 1 .. n
  BY <1>1, BoundsAssumption
<1>3. Cardinality(1 .. n) = n
  <2>1. Cardinality(1 .. n) = IF 1 > n THEN 0 ELSE n - 1 + 1
    BY <1>2, FS_Interval
  <2>2. QED BY <1>2, <2>1
<1>4. w = n + 1
  BY <1>2, <1>3
<1>5. new = [x \in (1 .. n) \cup {w} |-> IF x = w THEN b ELSE sh[x]]
  BY <1>2 DEF Extend
<1>6. (1 .. n) \cup {w} = 1 .. w /\ w \notin 1 .. n /\ w \in 0 .. MaxWrites /\ w \in Writes
  BY <1>2, <1>4, BoundsAssumption DEF Writes
<1> HIDE DEF w
<1>7. new \in [1 .. w -> BOOLEAN]
  BY <1>1, <1>5, <1>6
<1>8. \A x \in 1 .. n : new[x] = sh[x]
  BY <1>5, <1>6
<1>9. QED BY <1>2, <1>6, <1>7, <1>8 DEF IsShared, w

\* The next number is free, and the credential that has it is in order again.
LEMMA NumberAdded ==
  ASSUME NEW c \in Credentials, NEW sh, IsShared(sh), Listing(c, sh), NEW id \in DOMAIN sh,
         c.version + 1 <= MaxVersion
  PROVE  LET n == Cardinality(DOMAIN c.atts)
             a == Extend(c.atts, n, id)
             d == [c EXCEPT !.atts = a, !.version = c.version + 1]
         IN  /\ n \in 0 .. MaxVersion /\ n \notin DOMAIN c.atts /\ n # others
             /\ a \in Tables(Names, 0 .. MaxWrites) /\ DOMAIN a = DOMAIN c.atts \cup {n}
             /\ d \in Credentials /\ Listing(d, sh) /\ Keeps(c.atts, a)
<1> DEFINE n == Cardinality(DOMAIN c.atts)
           a == Extend(c.atts, n, id)
           d == [c EXCEPT !.atts = a, !.version = c.version + 1]
<1>1. c.atts \in Tables(Names, 0 .. MaxWrites) /\ c.version \in 0 .. MaxVersion /\ MaxVersion \in Nat
  BY BoundsAssumption DEF Credentials
<1>2. DOMAIN c.atts \in SUBSET Names
  BY <1>1, TableIs
<1>3. n \in Nat /\ \A m : m \notin DOMAIN c.atts => Cardinality(DOMAIN c.atts \cup {m}) = n + 1
  BY <1>2, CountIs
<1>4. n <= c.version /\ (\A m \in DOMAIN c.atts : m < n)
      /\ (\A m \in DOMAIN c.atts \ {others} : c.atts[m] \in DOMAIN sh)
      /\ (others \in DOMAIN c.atts => c.atts[others] = Blob)
  BY DEF Listing
<1> HIDE DEF n
<1>5. n \in 0 .. MaxVersion /\ n \notin DOMAIN c.atts /\ n # others /\ n \in Names
  BY <1>1, <1>3, <1>4 DEF others, Names
<1>6. id \in 0 .. MaxWrites
  BY SharedIs DEF Writes
<1>7. /\ a \in Tables(Names, 0 .. MaxWrites) /\ DOMAIN a = DOMAIN c.atts \cup {n} /\ a[n] = id
      /\ \A m \in DOMAIN c.atts : a[m] = c.atts[m]
  <2>1. a \in Tables(Names, 0 .. MaxWrites)
    BY <1>1, <1>5, <1>6, ExtendType
  <2>2. /\ DOMAIN a = DOMAIN c.atts \cup {n} /\ a[n] = id
        /\ \A m \in DOMAIN c.atts \ {n} : a[m] = c.atts[m]
    BY DEF Extend
  <2>3. QED BY <1>5, <2>1, <2>2
<1> HIDE DEF a
<1>8. c.version + 1 \in 0 .. MaxVersion
  BY <1>1
<1>9. d \in Credentials /\ d.atts = a /\ d.version = c.version + 1
  BY <1>7, <1>8 DEF Credentials
<1> HIDE DEF d
<1>10. Cardinality(DOMAIN a) = n + 1
  BY <1>3, <1>5, <1>7
<1>11. \A m \in DOMAIN a : m < n + 1
  <2>1. \A m \in DOMAIN c.atts : m \in Int
    BY <1>2 DEF Names
  <2>2. QED BY <1>3, <1>4, <1>7, <2>1
<1>12. Listing(d, sh)
  <2>1. n + 1 <= c.version + 1
    BY <1>1, <1>3, <1>4
  <2>2. \A m \in DOMAIN a \ {others} : a[m] \in DOMAIN sh
    BY <1>4, <1>7
  <2>3. others \in DOMAIN a => a[others] = Blob
    BY <1>4, <1>5, <1>7
  <2>4. QED BY <1>9, <1>10, <1>11, <2>1, <2>2, <2>3 DEF Listing
<1>13. Keeps(c.atts, a)
  BY <1>7 DEF Keeps
<1>14. QED BY <1>5, <1>7, <1>9, <1>12, <1>13 DEF d, a, n

\* The same when what was read is entered under `others', once more or for the first time.
LEMMA OthersAdded ==
  ASSUME NEW c \in Credentials, NEW sh, IsShared(sh), Listing(c, sh),
         c.version + 1 <= MaxVersion
  PROVE  LET a == Extend(c.atts, others, Blob)
             d == [c EXCEPT !.atts = a, !.version = c.version + 1]
         IN  /\ a \in Tables(Names, 0 .. MaxWrites) /\ DOMAIN c.atts \subseteq DOMAIN a
             /\ d \in Credentials /\ Listing(d, sh) /\ Keeps(c.atts, a)
<1> DEFINE n == Cardinality(DOMAIN c.atts)
           a == Extend(c.atts, others, Blob)
           d == [c EXCEPT !.atts = a, !.version = c.version + 1]
<1>1. c.atts \in Tables(Names, 0 .. MaxWrites) /\ c.version \in 0 .. MaxVersion /\ MaxVersion \in Nat
  BY BoundsAssumption DEF Credentials
<1>2. DOMAIN c.atts \in SUBSET Names
  BY <1>1, TableIs
<1>3. n \in Nat /\ \A m : m \notin DOMAIN c.atts => Cardinality(DOMAIN c.atts \cup {m}) = n + 1
  BY <1>2, CountIs
<1>4. n <= c.version /\ (\A m \in DOMAIN c.atts : m < n)
      /\ (\A m \in DOMAIN c.atts \ {others} : c.atts[m] \in DOMAIN sh)
  BY DEF Listing
<1>5. others \in Names /\ Blob \in 0 .. MaxWrites
  BY BoundsAssumption DEF others, Names, Blob
<1>6. /\ a \in Tables(Names, 0 .. MaxWrites) /\ DOMAIN a = DOMAIN c.atts \cup {others}
      /\ a[others] = Blob /\ \A m \in DOMAIN c.atts \ {others} : a[m] = c.atts[m]
  <2>1. a \in Tables(Names, 0 .. MaxWrites)
    BY <1>1, <1>5, ExtendType
  <2>2. /\ DOMAIN a = DOMAIN c.atts \cup {others} /\ a[others] = Blob
        /\ \A m \in DOMAIN c.atts \ {others} : a[m] = c.atts[m]
    BY DEF Extend
  <2>3. QED BY <2>1, <2>2
<1>7. n <= Cardinality(DOMAIN a) /\ Cardinality(DOMAIN a) <= n + 1
      /\ Cardinality(DOMAIN a) \in Nat /\ (others \notin DOMAIN c.atts => Cardinality(DOMAIN a) = n + 1)
      /\ (others \in DOMAIN c.atts => Cardinality(DOMAIN a) = n)
  <2>1. CASE others \in DOMAIN c.atts
    <3>1. DOMAIN a = DOMAIN c.atts
      BY <1>6, <2>1
    <3>2. Cardinality(DOMAIN a) = n
      BY <3>1
    <3> HIDE DEF a, n
    <3>3. QED BY <1>3, <2>1, <3>2
  <2>2. CASE others \notin DOMAIN c.atts
    <3>1. Cardinality(DOMAIN a) = n + 1
      BY <1>3, <1>6, <2>2
    <3> HIDE DEF a, n
    <3>2. QED BY <1>3, <2>2, <3>1
  <2>3. QED BY <2>1, <2>2
<1> HIDE DEF a, n
<1>8. c.version + 1 \in 0 .. MaxVersion
  BY <1>1
<1>9. d \in Credentials /\ d.atts = a /\ d.version = c.version + 1
  BY <1>6, <1>8 DEF Credentials
<1> HIDE DEF d
<1>10. \A m \in DOMAIN a : m < Cardinality(DOMAIN a)
  <2>1. \A m \in DOMAIN c.atts : m \in Int
    BY <1>2 DEF Names
  <2>2. others < Cardinality(DOMAIN a)
    BY <1>7 DEF others
  <2>3. QED BY <1>3, <1>4, <1>6, <1>7, <2>1, <2>2
<1>11. Listing(d, sh)
  <2>1. Cardinality(DOMAIN a) <= c.version + 1
    BY <1>1, <1>3, <1>4, <1>7
  <2>2. \A m \in DOMAIN a \ {others} : a[m] \in DOMAIN sh
    BY <1>4, <1>6
  <2>3. QED BY <1>6, <1>9, <1>10, <2>1, <2>2 DEF Listing
<1>12. Keeps(c.atts, a)
  BY <1>6 DEF Keeps
<1>13. QED BY <1>6, <1>9, <1>11, <1>12 DEF d, a

------------------------------------------------------------------------------
(* What write instances that are added leave as it was. *)

Grows(sh, sh2) == DOMAIN sh \subseteq DOMAIN sh2 /\ \A w \in DOMAIN sh : sh2[w] = sh[w]

LEMMA ListingGrows ==
  ASSUME NEW sh, NEW sh2, Grows(sh, sh2)
  PROVE  /\ \A c : Listing(c, sh) => Listing(c, sh2)
         /\ Allowed(sh) \subseteq Allowed(sh2)
BY DEF Grows, Listing, Allowed

LEMMA BusyGrows ==
  ASSUME NEW sh, NEW sh2, Grows(sh, sh2), NEW s, Busy(s, sh)
  PROVE  Busy(s, sh2)
<1>1. Listing(s.peer, sh2) /\ Allowed(sh) \subseteq Allowed(sh2)
  BY ListingGrows DEF Busy
<1>2. \A n \in DOMAIN s.peer.atts \ {others} : sh2[s.peer.atts[n]] = sh[s.peer.atts[n]]
  BY DEF Busy, Listing, Grows
<1>3. QED BY <1>1, <1>2 DEF Busy, Grows

------------------------------------------------------------------------------
(* The steps, and what the action properties say of them. *)

ListedStep ==
  \A u \in Users : \A n \in DOMAIN cred[u].atts \ {others} :
    \/ u \in mixed'
    \/ /\ n \in DOMAIN cred'[u].atts
       /\ cred'[u].atts[n] = cred[u].atts[n]

OursStep ==
  \A u \in Users \ (lost' \cup mixed') : \A n \in DOMAIN storage[u].ours :
    /\ n \in DOMAIN storage'[u].ours
    /\ storage'[u].ours[n] = storage[u].ours[n]

ReadStep ==
  \A p \in Pages : page'[p].open /\ page[p].open =>
    \A w \in page[p].read \ page'[p].read :
      \/ w \in page[p].search.failed
      \/ \A n \in DOMAIN page[p].peer.atts : page[p].peer.atts[n] # w

Steps == ListedStep /\ OursStep /\ ReadStep

LEMMA UsersArePages == \A p \in Pages : User(p) \in Users
BY DEF User, Users

\* What a step of one page leaves as it was.
LEMMA PageStep ==
  ASSUME IInv, NEW p \in Pages, NEW s \in PageState, page' = [page EXCEPT ![p] = s]
  PROVE  /\ page' \in [Pages -> PageState] /\ page'[p] = s
         /\ \A o \in Pages \ {p} : page'[o] = page[o]
BY DEF IInv, Shapes

\* The page changes what it adds or searches, or pays, and saves nothing.
LEMMA GoesKeeps ==
  ASSUME IInv, NEW p \in Pages, NEW s \in PageState, Goes(p, s),
         coins' \in [Users -> 0 .. Coins], IsShared(shared'), Grows(shared, shared'),
         s.open = page[p].open, s.cred = page[p].cred, s.base = page[p].base,
         s.ours = page[p].ours, s.read = page[p].read, Busy(s, shared')
  PROVE  IInv' /\ Steps
<1>1. /\ cred' = cred /\ storage' = storage /\ loads' = loads /\ lost' = lost
      /\ mixed' = mixed /\ page' = [page EXCEPT ![p] = s]
  BY DEF Goes
<1>2. /\ page' \in [Pages -> PageState] /\ page'[p] = s
      /\ \A o \in Pages \ {p} : page'[o] = page[o]
  BY <1>1, PageStep
<1>3. Shapes'
  BY <1>1, <1>2 DEF IInv, Shapes
<1>4. \A u \in Users : Stored(u, cred', storage', shared', lost', mixed')
  BY <1>1, ListingGrows DEF IInv, Stored
<1>5. ASSUME NEW o \in Pages
      PROVE  /\ Listing(page'[o].cred, shared') /\ Busy(page'[o], shared')
             /\ Synced(page'[o], User(o), cred', storage', lost', mixed')
  <2>1. /\ Listing(page[o].cred, shared) /\ Busy(page[o], shared)
        /\ Synced(page[o], User(o), cred, storage, lost, mixed)
    BY DEF IInv
  <2>2. CASE o = p
    <3>1. Listing(s.cred, shared')
      BY <2>1, <2>2, ListingGrows
    <3>2. Synced(s, User(p), cred, storage, lost, mixed)
      BY <2>1, <2>2 DEF Synced
    <3>3. QED BY <1>1, <1>2, <2>2, <3>1, <3>2
  <2>3. CASE o # p
    BY <1>1, <1>2, <2>1, <2>3, ListingGrows, BusyGrows
  <2>4. QED BY <2>2, <2>3
<1>6. IInv'
  BY <1>3, <1>4, <1>5 DEF IInv
<1>7. ListedStep /\ OursStep
  BY <1>1 DEF ListedStep, OursStep
<1>8. ReadStep
  BY <1>2 DEF ReadStep
<1>9. QED BY <1>6, <1>7, <1>8 DEF Steps

\* The page saves: c is its credential with the new version.
LEMMA SavesKeeps ==
  ASSUME IInv, NEW p \in Pages, NEW s \in PageState, NEW c \in Credentials,
         c = [s.cred EXCEPT !.version = s.cred.version + 1],
         Saves(p, s), coins' = coins, shared' = shared,
         page[p].open, s.open, s.base = page[p].base, s.cred.version = page[p].cred.version,
         Listing(c, shared), Keeps(page[p].cred.atts, s.cred.atts), Busy(s, shared),
         DOMAIN page[p].ours \subseteq DOMAIN page[p].cred.atts =>
           /\ DOMAIN s.ours \subseteq DOMAIN s.cred.atts
           /\ \A n \in DOMAIN page[p].ours : n \in DOMAIN s.ours /\ s.ours[n] = page[p].ours[n]
  PROVE  IInv' /\ ListedStep /\ OursStep
<1> DEFINE u == User(p)
           r == page[p]
           version == s.cred.version + 1
           in == [s EXCEPT !.cred = c, !.base = version]
           out == [s EXCEPT !.cred = c]
<1>1. /\ storage' = [storage EXCEPT ![u] = [ours |-> s.ours, read |-> s.read]]
      /\ loads' = loads
      /\ \/ /\ cred' = [cred EXCEPT ![u] = c] /\ page' = [page EXCEPT ![p] = in]
            /\ mixed' = (IF cred[u].version # s.base THEN mixed \cup {u} ELSE mixed)
            /\ lost' = lost
         \/ /\ page' = [page EXCEPT ![p] = out] /\ lost' = lost \cup {u}
            /\ cred' = cred /\ mixed' = mixed
  BY DEF Saves
<1>2. u \in Users /\ r \in PageState /\ cred \in [Users -> Credentials]
      /\ storage \in [Users -> Browsers] /\ lost \subseteq Users /\ mixed \subseteq Users
      /\ IsShared(shared) /\ page \in [Pages -> PageState]
  BY UsersArePages DEF IInv, Shapes
<1>3. Listing(r.cred, shared) /\ Synced(r, u, cred, storage, lost, mixed)
      /\ \A v \in Users : Stored(v, cred, storage, shared, lost, mixed)
  BY DEF IInv
<1> HIDE DEF u, r
<1>4. s.cred \in Credentials /\ c.atts = s.cred.atts /\ c.version = version
      /\ version \in 0 .. MaxVersion /\ s.base \in 0 .. MaxVersion
      /\ s.cred.version \in 0 .. MaxVersion /\ MaxVersion \in Nat
      /\ s.ours \in Tables(0 .. MaxVersion, Writes)
  BY BoundsAssumption DEF PageState, Credentials
<1> HIDE DEF version
<1>5. /\ in \in PageState /\ in.cred = c /\ in.base = version /\ in.open
      /\ in.ours = s.ours /\ in.read = s.read /\ in.peer = s.peer /\ in.add = s.add
      /\ in.search = s.search
  BY <1>4 DEF PageState
<1>6. /\ out \in PageState /\ out.cred = c /\ out.base = s.base /\ out.open
      /\ out.ours = s.ours /\ out.read = s.read /\ out.peer = s.peer /\ out.add = s.add
      /\ out.search = s.search
  BY <1>4 DEF PageState
<1> HIDE DEF in, out
<1>7. Busy(in, shared) /\ Busy(out, shared) /\ s.read \subseteq Allowed(shared)
  BY <1>5, <1>6 DEF Busy
<1>8. storage' \in [Users -> Browsers] /\ storage'[u].ours = s.ours /\ storage'[u].read = s.read
      /\ \A v \in Users \ {u} : storage'[v] = storage[v]
  <2>1. [ours |-> s.ours, read |-> s.read] \in Browsers
    BY <1>4 DEF Browsers, PageState
  <2>2. QED BY <1>1, <1>2, <2>1
\* A page that knows the version on the ledger has what is stored.
<1>9. ASSUME u \notin mixed, cred[u].version = s.base
      PROVE  /\ Keeps(cred[u].atts, s.cred.atts)
             /\ u \notin lost =>
                  /\ DOMAIN s.ours \subseteq DOMAIN s.cred.atts
                  /\ \A n \in DOMAIN storage[u].ours :
                       n \in DOMAIN s.ours /\ s.ours[n] = storage[u].ours[n]
  <2>1. Keeps(cred[u].atts, r.cred.atts) /\ (u \notin lost => r.ours = storage[u].ours)
    BY <1>3, <1>9 DEF Synced, r
  <2>2. Keeps(cred[u].atts, s.cred.atts)
    BY <2>1 DEF Keeps, r
  <2>3. ASSUME u \notin lost
        PROVE  DOMAIN r.ours \subseteq DOMAIN r.cred.atts
    <3>1. DOMAIN storage[u].ours \subseteq DOMAIN cred[u].atts
      BY <1>2, <1>3, <1>9, <2>3 DEF Stored
    <3>2. DOMAIN r.ours \subseteq 0 .. MaxVersion
      BY <1>2, TableIs DEF PageState
    <3>3. others \notin DOMAIN r.ours
      BY <3>2 DEF others
    <3>4. QED BY <2>1, <2>3, <3>1, <3>3 DEF Keeps
  <2>4. QED BY <2>1, <2>2, <2>3 DEF r
<1>10. u \notin mixed => cred[u].version >= s.base /\ s.base <= s.cred.version
  BY <1>2, <1>3, <1>4 DEF Synced, r, PageState, Credentials
\* The update is included.
<1>11. ASSUME cred' = [cred EXCEPT ![u] = c], page' = [page EXCEPT ![p] = in],
              mixed' = (IF cred[u].version # s.base THEN mixed \cup {u} ELSE mixed),
              lost' = lost
       PROVE  IInv' /\ ListedStep /\ OursStep
  <2>1. /\ cred' \in [Users -> Credentials] /\ cred'[u] = c
        /\ \A v \in Users \ {u} : cred'[v] = cred[v]
    BY <1>2, <1>11
  <2>2. /\ page' \in [Pages -> PageState] /\ page'[p] = in
        /\ \A o \in Pages \ {p} : page'[o] = page[o]
    BY <1>5, <1>11, PageStep
  <2>3. mixed \subseteq mixed' /\ mixed' \subseteq Users
        /\ (u \notin mixed' => u \notin mixed /\ cred[u].version = s.base)
    BY <1>2, <1>11
  <2>4. Shapes'
    BY <1>1, <1>2, <1>8, <1>11, <2>1, <2>2, <2>3 DEF IInv, Shapes
  <2>5. ASSUME NEW v \in Users
        PROVE  Stored(v, cred', storage', shared', lost', mixed')
    <3>1. CASE v = u
      <4>1. u \notin lost' \cup mixed' => DOMAIN storage'[u].ours \subseteq DOMAIN cred'[u].atts
        BY <1>4, <1>8, <1>9, <1>11, <2>1, <2>3
      <4>2. QED BY <1>7, <1>8, <2>1, <3>1, <4>1 DEF Stored
    <3>2. CASE v # u
      BY <1>3, <1>8, <1>11, <2>1, <2>3, <3>2 DEF Stored
    <3>3. QED BY <3>1, <3>2
  <2>6. ASSUME NEW o \in Pages
        PROVE  /\ Listing(page'[o].cred, shared') /\ Busy(page'[o], shared')
               /\ Synced(page'[o], User(o), cred', storage', lost', mixed')
    <3>1. CASE o = p
      <4>1. version <= version /\ Keeps(c.atts, c.atts)
        BY <1>4 DEF Keeps
      <4>2. Synced(in, u, cred', storage', lost', mixed')
        BY <1>4, <1>5, <1>8, <2>1, <4>1 DEF Synced
      <4>3. QED BY <1>5, <1>7, <2>2, <3>1, <4>2 DEF u
    <3>2. CASE o # p
      <4>1. page'[o] = page[o] /\ Listing(page[o].cred, shared) /\ Busy(page[o], shared)
            /\ Synced(page[o], User(o), cred, storage, lost, mixed) /\ User(o) \in Users
            /\ page[o] \in PageState
        BY <1>2, <2>2, <3>2, UsersArePages DEF IInv
      <4>2. CASE User(o) = u
        <5> DEFINE b == page[o].base
        <5>1. u \notin mixed' /\ page[o].open => b <= cred[u].version /\ b <= page[o].cred.version
          BY <2>3, <4>1, <4>2 DEF Synced
        <5>2. u \notin mixed' => cred[u].version < version
          BY <1>4, <1>10, <2>3 DEF version
        <5>3. b \in Int /\ cred[u].version \in Int /\ version \in Int
          BY <1>2, <1>4, <4>1 DEF PageState, Credentials
        <5>4. u \notin mixed' /\ page[o].open => b <= cred'[u].version /\ b # cred'[u].version
          BY <1>4, <2>1, <5>1, <5>2, <5>3
        <5>5. Synced(page[o], u, cred', storage', lost', mixed')
          BY <5>1, <5>4 DEF Synced
        <5>6. QED BY <4>1, <4>2, <5>5
      <4>3. CASE User(o) # u
        <5>1. cred'[User(o)] = cred[User(o)] /\ storage'[User(o)] = storage[User(o)]
          BY <1>8, <2>1, <4>1, <4>3
        <5>2. Synced(page[o], User(o), cred', storage', lost', mixed')
          BY <1>11, <2>3, <4>1, <5>1 DEF Synced
        <5>3. QED BY <4>1, <5>2
      <4>4. QED BY <4>2, <4>3
    <3>3. QED BY <3>1, <3>2
  <2>7. IInv'
    BY <2>4, <2>5, <2>6 DEF IInv
  <2>8. ListedStep
    <3>1. u \notin mixed' => Keeps(cred[u].atts, cred'[u].atts)
      BY <1>4, <1>9, <2>1, <2>3
    <3>2. QED BY <2>1, <3>1 DEF ListedStep, Keeps
  <2>9. OursStep
    <3>1. u \notin lost' \cup mixed' =>
            \A n \in DOMAIN storage[u].ours :
              n \in DOMAIN storage'[u].ours /\ storage'[u].ours[n] = storage[u].ours[n]
      BY <1>8, <1>9, <1>11, <2>3
    <3>2. QED BY <1>8, <3>1 DEF OursStep
  <2>10. QED BY <2>7, <2>8, <2>9
\* The update is lost.
<1>12. ASSUME cred' = cred, page' = [page EXCEPT ![p] = out], mixed' = mixed,
              lost' = lost \cup {u}
       PROVE  IInv' /\ ListedStep /\ OursStep
  <2>1. /\ page' \in [Pages -> PageState] /\ page'[p] = out
        /\ \A o \in Pages \ {p} : page'[o] = page[o]
    BY <1>6, <1>12, PageStep
  <2>2. Shapes'
    BY <1>1, <1>2, <1>8, <1>12, <2>1 DEF IInv, Shapes
  <2>3. ASSUME NEW v \in Users
        PROVE  Stored(v, cred', storage', shared', lost', mixed')
    <3>1. CASE v = u
      BY <1>2, <1>3, <1>7, <1>8, <1>12, <3>1 DEF Stored
    <3>2. CASE v # u
      BY <1>3, <1>8, <1>12, <3>2 DEF Stored
    <3>3. QED BY <3>1, <3>2
  <2>4. ASSUME NEW o \in Pages
        PROVE  /\ Listing(page'[o].cred, shared') /\ Busy(page'[o], shared')
               /\ Synced(page'[o], User(o), cred', storage', lost', mixed')
    <3>1. CASE o = p
      <4>1. u \notin mixed => s.base <= version
        BY <1>4, <1>10 DEF version
      <4>2. Synced(out, u, cred', storage', lost', mixed')
        BY <1>4, <1>6, <1>9, <1>10, <1>12, <4>1 DEF Synced
      <4>3. QED BY <1>6, <1>7, <2>1, <3>1, <4>2 DEF u
    <3>2. CASE o # p
      <4>1. page'[o] = page[o] /\ Listing(page[o].cred, shared) /\ Busy(page[o], shared)
            /\ Synced(page[o], User(o), cred, storage, lost, mixed) /\ User(o) \in Users
        BY <2>1, <3>2, UsersArePages DEF IInv
      <4>2. Synced(page[o], User(o), cred', storage', lost', mixed')
        BY <1>8, <1>12, <4>1 DEF Synced
      <4>3. QED BY <4>1, <4>2
    <3>3. QED BY <3>1, <3>2
  <2>5. IInv'
    BY <2>2, <2>3, <2>4 DEF IInv
  <2>6. ListedStep /\ OursStep
    BY <1>8, <1>12 DEF ListedStep, OursStep
  <2>7. QED BY <2>5, <2>6
<1>13. QED BY <1>1, <1>11, <1>12

------------------------------------------------------------------------------
(* Pages are loaded, and closed. *)

LEMMA EmptyCredential ==
  ASSUME NEW sh
  PROVE  /\ [atts |-> NoneYet, version |-> 0] \in Credentials
         /\ Listing([atts |-> NoneYet, version |-> 0], sh)
         /\ DOMAIN NoneYet = {}
<1>1. NoneYet \in Tables(Names, 0 .. MaxWrites) /\ DOMAIN NoneYet = {}
  BY NoneYetIs
<1>2. Cardinality(DOMAIN NoneYet) = 0
  BY <1>1, FS_EmptySet
<1>3. QED BY <1>1, <1>2, BoundsAssumption DEF Credentials, Listing

LEMMA ClosedIs ==
  ASSUME NEW sh
  PROVE  /\ Closed \in PageState /\ ~ Closed.open
         /\ Listing(Closed.cred, sh) /\ Busy(Closed, sh)
<1>1. NoneYet \in Tables(0 .. MaxVersion, Writes) /\ DOMAIN NoneYet = {}
  BY NoneYetIs
<1>2. NoAdd \in Additions /\ NoSearch \in Searches
  BY <1>1, BoundsAssumption DEF NoAdd, NoSearch, Additions, Searches
<1>3. Closed \in PageState
  BY <1>1, <1>2, EmptyCredential, BoundsAssumption, CostsAssumption DEF Closed, PageState
<1>4. Listing(Closed.cred, sh) /\ Listing(Closed.peer, sh)
  BY EmptyCredential DEF Closed
<1>5. Busy(Closed, sh)
  BY <1>1, <1>4 DEF Busy, Closed, NoAdd, NoSearch
<1>6. QED BY <1>3, <1>4, <1>5 DEF Closed

LEMMA TurnsKeep ==
  ASSUME IInv, NEW p \in Pages, NEW s \in PageState, page' = [page EXCEPT ![p] = s],
         coins' = coins, shared' = shared, cred' = cred, storage' = storage,
         lost' = lost, mixed' = mixed, loads' \in 0 .. MaxLoads,
         ~ page[p].open \/ ~ s.open, Listing(s.cred, shared), Busy(s, shared),
         Synced(s, User(p), cred, storage, lost, mixed)
  PROVE  IInv' /\ Steps
<1>1. /\ page' \in [Pages -> PageState] /\ page'[p] = s
      /\ \A o \in Pages \ {p} : page'[o] = page[o]
  BY PageStep
<1>2. Shapes'
  BY <1>1 DEF IInv, Shapes
<1>3. \A u \in Users : Stored(u, cred', storage', shared', lost', mixed')
  BY DEF IInv
<1>4. ASSUME NEW o \in Pages
      PROVE  /\ Listing(page'[o].cred, shared') /\ Busy(page'[o], shared')
             /\ Synced(page'[o], User(o), cred', storage', lost', mixed')
  <2>1. CASE o = p
    BY <1>1, <2>1
  <2>2. CASE o # p
    BY <1>1, <2>2 DEF IInv
  <2>3. QED BY <2>1, <2>2
<1>5. IInv'
  BY <1>2, <1>3, <1>4 DEF IInv
<1>6. ListedStep /\ OursStep
  BY DEF ListedStep, OursStep
<1>7. ReadStep
  BY <1>1 DEF ReadStep
<1>8. QED BY <1>5, <1>6, <1>7 DEF Steps

LEMMA LoadKeeps ==
  ASSUME IInv, NEW p \in Pages, Load(p)
  PROVE  IInv' /\ Steps
<1> DEFINE u == User(p)
           s == [Closed EXCEPT !.open = TRUE, !.cred = cred[u], !.base = cred[u].version,
                   !.coin = coins[u], !.ours = storage[u].ours, !.read = storage[u].read]
<1>1. /\ ~ page[p].open /\ loads < MaxLoads /\ loads' = loads + 1
      /\ page' = [page EXCEPT ![p] = s]
      /\ coins' = coins /\ shared' = shared /\ cred' = cred /\ storage' = storage
      /\ lost' = lost /\ mixed' = mixed
  BY DEF Load, Restored
<1>2. u \in Users /\ cred[u] \in Credentials /\ storage[u] \in Browsers /\ coins[u] \in 0 .. Coins
  BY UsersArePages DEF IInv, Shapes
<1>3. Stored(u, cred, storage, shared, lost, mixed)
  BY <1>2 DEF IInv
<1> HIDE DEF u
<1>4. cred[u].version \in 0 .. MaxVersion /\ storage[u].read \in SUBSET Writes
      /\ storage[u].ours \in Tables(0 .. MaxVersion, Writes)
  BY <1>2 DEF Credentials, Browsers
<1>5. Closed \in PageState /\ Busy(Closed, shared)
  BY ClosedIs
<1>6. /\ s \in PageState /\ s.open /\ s.cred = cred[u] /\ s.base = cred[u].version
      /\ s.ours = storage[u].ours /\ s.read = storage[u].read /\ s.peer = Closed.peer
      /\ s.add = Closed.add /\ s.search = Closed.search
  BY <1>2, <1>4, <1>5 DEF PageState
<1> HIDE DEF s
<1>7. loads' \in 0 .. MaxLoads
  BY <1>1, BoundsAssumption DEF IInv, Shapes
<1>8. Listing(s.cred, shared)
  BY <1>3, <1>6 DEF Stored
<1>9. Busy(s, shared)
  BY <1>3, <1>5, <1>6 DEF Busy, Stored
<1>10. Synced(s, u, cred, storage, lost, mixed)
  <2>1. Keeps(cred[u].atts, cred[u].atts) /\ cred[u].version <= cred[u].version
    BY <1>4, BoundsAssumption DEF Keeps
  <2>2. QED BY <1>6, <2>1 DEF Synced
<1>11. QED BY <1>1, <1>6, <1>7, <1>8, <1>9, <1>10, TurnsKeep DEF u

LEMMA CloseKeeps ==
  ASSUME IInv, NEW p \in Pages, Close(p)
  PROVE  IInv' /\ Steps
<1>1. /\ page' = [page EXCEPT ![p] = Closed]
      /\ coins' = coins /\ shared' = shared /\ cred' = cred /\ storage' = storage
      /\ loads' = loads /\ lost' = lost /\ mixed' = mixed
  BY DEF Close
<1>2. Closed \in PageState /\ ~ Closed.open /\ Listing(Closed.cred, shared) /\ Busy(Closed, shared)
  BY ClosedIs
<1>3. Synced(Closed, User(p), cred, storage, lost, mixed)
  BY <1>2 DEF Synced
<1>4. loads' \in 0 .. MaxLoads
  BY <1>1 DEF IInv, Shapes
<1>5. QED BY <1>1, <1>2, <1>3, <1>4, TurnsKeep

------------------------------------------------------------------------------
(* Adding a secret. *)

\* Whoever has enough coins pays.
LEMMA Paid ==
  ASSUME IInv, NEW u \in Users, NEW cost \in Nat
  PROVE  /\ coins \in [Users -> 0 .. Coins]
         /\ coins[u] >= cost => [coins EXCEPT ![u] = coins[u] - cost] \in [Users -> 0 .. Coins]
<1>1. coins \in [Users -> 0 .. Coins] /\ Coins \in Nat
  BY CostsAssumption DEF IInv, Shapes
<1>2. ASSUME coins[u] >= cost
      PROVE  coins[u] - cost \in 0 .. Coins
  <2>1. coins[u] \in 0 .. Coins
    BY <1>1
  <2>2. QED BY <1>1, <1>2, <2>1
<1>3. QED BY <1>1, <1>2

LEMMA AddGoes ==
  ASSUME IInv, NEW p \in Pages, NEW a \in Additions, Goes(p, [page[p] EXCEPT !.add = a]),
         coins' \in [Users -> 0 .. Coins], IsShared(shared'), Grows(shared, shared'),
         a.phase # "none" => page[p].open, a.phase = "list" => a.id \in DOMAIN shared'
  PROVE  IInv' /\ Steps
<1> DEFINE s == [page[p] EXCEPT !.add = a]
<1>1. page[p] \in PageState /\ Busy(page[p], shared)
  BY DEF IInv, Shapes
<1>2. /\ s \in PageState /\ s.add = a /\ s.open = page[p].open /\ s.cred = page[p].cred
      /\ s.base = page[p].base /\ s.ours = page[p].ours /\ s.read = page[p].read
      /\ s.peer = page[p].peer /\ s.search = page[p].search
  BY <1>1 DEF PageState
<1>3. Goes(p, s)
  OBVIOUS
<1> HIDE DEF s
<1>4. Busy(page[p], shared')
  BY <1>1, BusyGrows
<1>5. Busy(s, shared')
  BY <1>2, <1>4 DEF Busy
<1>6. QED BY <1>2, <1>3, <1>5, GoesKeeps

\* Two fields of an addition change.
LEMMA NewAddition ==
  ASSUME NEW Flags,
         NEW o \in [phase : {"none", "darc", "write", "list"}, share : Flags, id : 0 .. MaxWrites],
         NEW phase \in {"none", "darc", "write", "list"}, NEW share \in Flags, NEW id \in 0 .. MaxWrites
  PROVE  /\ [o EXCEPT !.phase = phase, !.share = share] \in
              [phase : {"none", "darc", "write", "list"}, share : Flags, id : 0 .. MaxWrites]
         /\ [o EXCEPT !.phase = phase, !.id = id] \in
              [phase : {"none", "darc", "write", "list"}, share : Flags, id : 0 .. MaxWrites]
         /\ [o EXCEPT !.phase = phase, !.share = share].phase = phase
         /\ [o EXCEPT !.phase = phase, !.id = id].id = id
OBVIOUS

LEMMA SharedStays ==
  ASSUME IInv
  PROVE  IsShared(shared) /\ Grows(shared, shared)
BY DEF IInv, Shapes, Grows

LEMMA addKeeps ==
  ASSUME IInv, NEW p \in Pages, NEW share \in BOOLEAN, add(p, share)
  PROVE  IInv' /\ Steps
<1> DEFINE a == [NoAdd EXCEPT !.phase = "darc", !.share = share]
<1>1. /\ page[p].open /\ Goes(p, [page[p] EXCEPT !.add = a])
      /\ coins' = coins /\ shared' = shared
  BY DEF add
<1>2. a \in Additions /\ a.phase = "darc"
  <2>1. NoAdd \in Additions /\ 0 \in 0 .. MaxWrites
    BY BoundsAssumption DEF Additions, NoAdd
  <2>2. QED BY <2>1, NewAddition DEF Additions
<1> HIDE DEF a
<1>3. coins' \in [Users -> 0 .. Coins]
  BY <1>1 DEF IInv, Shapes
<1>4. IsShared(shared') /\ Grows(shared, shared')
  BY <1>1, SharedStays
<1>5. QED BY <1>1, <1>2, <1>3, <1>4, AddGoes

LEMMA spawnDarcKeeps ==
  ASSUME IInv, NEW p \in Pages, NEW included \in BOOLEAN, NEW got \in BOOLEAN,
         spawnDarc(p, included, got)
  PROVE  IInv' /\ Steps
<1> DEFINE r == page[p]
           a == IF included /\ got THEN [r.add EXCEPT !.phase = "write"] ELSE NoAdd
           u == User(p)
<1>1. /\ r.add.phase = "darc" /\ (included => coins[u] >= costDarc)
      /\ coins' = [coins EXCEPT ![u] = IF included THEN coins[u] - costDarc ELSE coins[u]]
      /\ Goes(p, [page[p] EXCEPT !.add = a]) /\ shared' = shared
  BY DEF spawnDarc
<1>2. r \in PageState /\ Busy(r, shared)
  BY DEF IInv, Shapes
<1>3. u \in Users /\ costDarc \in Nat
  BY UsersArePages, CostsAssumption
<1>4. a \in Additions /\ a.phase \in {"none", "write"}
  BY <1>2, BoundsAssumption DEF Additions, NoAdd, PageState
<1>5. r.open
  BY <1>1, <1>2 DEF Busy
<1> HIDE DEF a, u
<1>6. coins' \in [Users -> 0 .. Coins]
  <2>1. CASE included
    BY <1>1, <1>3, <2>1, Paid
  <2>2. CASE ~ included
    <3>1. coins \in [Users -> 0 .. Coins]
      BY DEF IInv, Shapes
    <3>2. QED BY <1>1, <1>3, <2>2, <3>1
  <2>3. QED BY <2>1, <2>2
<1>7. IsShared(shared') /\ Grows(shared, shared')
  BY <1>1, SharedStays
<1>8. QED BY <1>1, <1>4, <1>5, <1>6, <1>7, AddGoes

LEMMA spawnWriteKeeps ==
  ASSUME IInv, NEW p \in Pages, NEW included \in BOOLEAN, NEW got \in BOOLEAN,
         spawnWrite(p, included, got)
  PROVE  IInv' /\ Steps
<1> DEFINE r == page[p]
           w == Cardinality(DOMAIN shared) + 1
           a == IF included /\ got THEN [r.add EXCEPT !.phase = "list", !.id = w] ELSE NoAdd
           u == User(p)
<1>1. /\ r.add.phase = "write" /\ (included => coins[u] >= costCWrite /\ w <= MaxWrites)
      /\ coins' = [coins EXCEPT ![u] = IF included THEN coins[u] - costCWrite ELSE coins[u]]
      /\ shared' = (IF included THEN Extend(shared, w, r.add.share) ELSE shared)
      /\ Goes(p, [page[p] EXCEPT !.add = a])
  BY DEF spawnWrite
<1>2. r \in PageState /\ Busy(r, shared) /\ IsShared(shared)
  BY DEF IInv, Shapes
<1>3. u \in Users /\ costCWrite \in Nat
  BY UsersArePages, CostsAssumption
<1>4. r.open /\ r.add \in Additions /\ r.add.share \in BOOLEAN
  BY <1>1, <1>2 DEF Busy, PageState, Additions
<1> HIDE DEF u, r
<1>5. coins' \in [Users -> 0 .. Coins]
  <2>1. CASE included
    BY <1>1, <1>3, <2>1, Paid
  <2>2. CASE ~ included
    <3>1. coins \in [Users -> 0 .. Coins]
      BY DEF IInv, Shapes
    <3>2. QED BY <1>1, <1>3, <2>2, <3>1
  <2>3. QED BY <2>1, <2>2
<1>6. /\ IsShared(shared') /\ Grows(shared, shared')
      /\ included => w \in DOMAIN shared' /\ w \in Writes
  <2>1. CASE included
    BY <1>1, <1>2, <1>4, <2>1, SharedMore DEF Grows
  <2>2. CASE ~ included
    BY <1>1, <2>2, SharedStays
  <2>3. QED BY <2>1, <2>2
<1>7. /\ a \in Additions /\ (a.phase = "list" => a.id \in DOMAIN shared')
  <2>1. CASE included /\ got
    <3>1. w \in 0 .. MaxWrites
      BY <1>6, <2>1, BoundsAssumption DEF Writes
    <3> HIDE DEF w
    <3>2. a = [r.add EXCEPT !.phase = "list", !.id = w]
      BY <2>1
    <3> HIDE DEF a
    <3>3. a \in Additions /\ a.id = w
      BY <1>4, <3>1, <3>2, NewAddition DEF Additions
    <3>4. QED BY <1>6, <2>1, <3>3
  <2>2. CASE ~ (included /\ got)
    <3>1. a = NoAdd
      BY <2>2
    <3>2. NoAdd \in Additions /\ NoAdd.phase = "none"
      BY BoundsAssumption DEF Additions, NoAdd
    <3> HIDE DEF a
    <3>3. QED BY <3>1, <3>2
  <2>3. QED BY <2>1, <2>2
<1> HIDE DEF a, w
<1>8. QED BY <1>1, <1>4, <1>5, <1>6, <1>7, AddGoes DEF r

\* What saving writes to the page that saves.
LEMMA SavedPage ==
  ASSUME IInv, NEW p \in Pages, NEW s \in PageState, Saves(p, s)
  PROVE  /\ page'[p].read = s.read /\ page'[p].open = s.open
         /\ \A o \in Pages \ {p} : page'[o] = page[o]
<1> DEFINE version == s.cred.version + 1
           c == [s.cred EXCEPT !.version = version]
           in == [s EXCEPT !.cred = c, !.base = version]
           out == [s EXCEPT !.cred = c]
<1>1. page' = [page EXCEPT ![p] = in] \/ page' = [page EXCEPT ![p] = out]
  BY DEF Saves
<1> HIDE DEF c, version
<1>2. in.read = s.read /\ in.open = s.open /\ out.read = s.read /\ out.open = s.open
  BY DEF PageState
<1> HIDE DEF in, out
<1>3. page \in [Pages -> PageState]
  BY DEF IInv, Shapes
<1>4. QED BY <1>1, <1>2, <1>3

LEMMA ListKeeps ==
  ASSUME IInv, NEW p \in Pages, List(p)
  PROVE  IInv' /\ Steps
<1> DEFINE r == page[p]
           n == Cardinality(DOMAIN r.cred.atts)
           id == r.add.id
           a == Extend(r.cred.atts, n, id)
           o == Extend(r.ours, n, id)
           s == [r EXCEPT !.add = NoAdd, !.ours = o, !.cred.atts = a]
           d == [r.cred EXCEPT !.atts = a, !.version = r.cred.version + 1]
<1>1. r.add.phase = "list" /\ Saves(p, s) /\ coins' = coins /\ shared' = shared
  BY DEF List, NextNumber
<1>2. r \in PageState /\ Busy(r, shared) /\ Listing(r.cred, shared) /\ IsShared(shared)
  BY DEF IInv, Shapes
<1>3. r.open /\ id \in DOMAIN shared
  BY <1>1, <1>2 DEF Busy
<1>4. r.cred \in Credentials /\ r.ours \in Tables(0 .. MaxVersion, Writes)
  BY <1>2 DEF PageState
<1> HIDE DEF r, id
<1>5. id \in Writes /\ NoAdd \in Additions /\ NoAdd.phase = "none"
  BY <1>2, <1>3, SharedIs, BoundsAssumption DEF NoAdd, Additions
<1>6. r.cred.version + 1 <= MaxVersion
  <2>1. s.cred.version = r.cred.version
    BY <1>2, <1>4 DEF PageState, Credentials
  <2> HIDE DEF s
  <2>2. s.cred.version + 1 <= MaxVersion
    BY <1>1 DEF Saves
  <2>3. QED BY <2>1, <2>2
<1>7. /\ n \in 0 .. MaxVersion /\ n \notin DOMAIN r.cred.atts /\ n # others
      /\ a \in Tables(Names, 0 .. MaxWrites) /\ DOMAIN a = DOMAIN r.cred.atts \cup {n}
      /\ d \in Credentials /\ Listing(d, shared) /\ Keeps(r.cred.atts, a)
  BY <1>2, <1>3, <1>4, <1>6, NumberAdded
<1> HIDE DEF n, a
<1>8. /\ o \in Tables(0 .. MaxVersion, Writes) /\ DOMAIN o = DOMAIN r.ours \cup {n}
      /\ \A m \in DOMAIN r.ours \ {n} : o[m] = r.ours[m]
  <2>1. o \in Tables(0 .. MaxVersion, Writes)
    BY <1>4, <1>5, <1>7, ExtendType
  <2>2. QED BY <2>1 DEF Extend
<1> HIDE DEF o
<1>9. /\ s \in PageState /\ s.add = NoAdd /\ s.ours = o /\ s.open = r.open /\ s.base = r.base
      /\ s.read = r.read /\ s.peer = r.peer /\ s.search = r.search
      /\ s.cred = [r.cred EXCEPT !.atts = a]
  <2>1. [r.cred EXCEPT !.atts = a] \in Credentials
    BY <1>4, <1>7 DEF Credentials
  <2>2. s = [r EXCEPT !.add = NoAdd, !.ours = o, !.cred = [r.cred EXCEPT !.atts = a]]
    BY <1>2 DEF PageState
  <2> HIDE DEF s
  <2>3. QED BY <1>2, <1>5, <1>8, <2>1, <2>2 DEF PageState
<1> HIDE DEF s
<1>10. d = [s.cred EXCEPT !.version = s.cred.version + 1] /\ s.cred.version = r.cred.version
       /\ s.cred.atts = a
  BY <1>4, <1>9 DEF Credentials
<1> HIDE DEF d
<1>11. Busy(s, shared)
  BY <1>2, <1>5, <1>9 DEF Busy
<1>12. ASSUME DOMAIN r.ours \subseteq DOMAIN r.cred.atts
       PROVE  /\ DOMAIN s.ours \subseteq DOMAIN s.cred.atts
              /\ \A m \in DOMAIN r.ours : m \in DOMAIN s.ours /\ s.ours[m] = r.ours[m]
  BY <1>7, <1>8, <1>9, <1>10, <1>12
<1>13. IInv' /\ ListedStep /\ OursStep
  BY <1>1, <1>3, <1>7, <1>9, <1>10, <1>11, <1>12, SavesKeeps DEF r
<1>14. ReadStep
  BY <1>1, <1>9, SavedPage DEF ReadStep, r
<1>15. QED BY <1>13, <1>14 DEF Steps

------------------------------------------------------------------------------
(* Searching the secrets of the contact. *)

LEMMA readKeeps ==
  ASSUME IInv, NEW p \in Pages, read(p)
  PROVE  IInv' /\ Steps
<1> DEFINE r == page[p]
           peer == Updated(r.peer, Peer(p))
           todo == [n \in DOMAIN peer.atts \ {others} |-> peer.atts[n]]
           t == [NoSearch EXCEPT !.phase = "each", !.todo = todo]
           s == [r EXCEPT !.peer = peer, !.search = t]
<1>1. r.open /\ Goes(p, s) /\ coins' = coins /\ shared' = shared
  BY DEF read
<1>2. r \in PageState /\ Busy(r, shared) /\ IsShared(shared) /\ coins \in [Users -> 0 .. Coins]
      /\ cred \in [Users -> Credentials]
  BY DEF IInv, Shapes
<1>3. peer \in Credentials /\ Listing(peer, shared)
  <2>1. Peer(p) \in Users
    BY DEF Peer, Users
  <2>2. Listing(cred[Peer(p)], shared) /\ cred[Peer(p)] \in Credentials
    BY <1>2, <2>1 DEF IInv, Stored
  <2>3. Listing(r.peer, shared) /\ r.peer \in Credentials
    BY <1>2 DEF Busy, PageState
  <2>4. QED BY <2>2, <2>3 DEF Updated
<1> HIDE DEF r, peer
<1>4. /\ todo \in Tables(0 .. MaxVersion, Writes) /\ DOMAIN todo = DOMAIN peer.atts \ {others}
      /\ \A n \in DOMAIN todo : todo[n] = peer.atts[n] /\ todo[n] \in DOMAIN shared
  <2>1. DOMAIN peer.atts \subseteq Names
    BY <1>3, TableIs DEF Credentials
  <2>2. DOMAIN todo = DOMAIN peer.atts \ {others} /\ todo = [n \in DOMAIN todo |-> todo[n]]
        /\ \A n \in DOMAIN todo : todo[n] = peer.atts[n]
    OBVIOUS
  <2> HIDE DEF todo
  <2>3. DOMAIN todo \subseteq 0 .. MaxVersion
    BY <2>1, <2>2, BoundsAssumption DEF Names, others
  <2>4. \A n \in DOMAIN todo : todo[n] \in DOMAIN shared
    BY <1>3, <2>2 DEF Listing
  <2>5. \A n \in DOMAIN todo : todo[n] \in Writes
    BY <1>2, <2>4, SharedIs
  <2>6. QED BY <2>2, <2>3, <2>4, <2>5, TableIs
<1> HIDE DEF todo
<1>5. t \in Searches /\ t.phase = "each" /\ t.todo = todo /\ t.got = {}
  <2>1. NoSearch \in Searches /\ NoSearch.got = {}
    BY NoneYetIs DEF NoSearch, Searches
  <2>2. QED BY <1>4, <2>1 DEF Searches
<1> HIDE DEF t
<1>6. /\ s \in PageState /\ s.peer = peer /\ s.search = t /\ s.open = r.open /\ s.cred = r.cred
      /\ s.base = r.base /\ s.ours = r.ours /\ s.read = r.read /\ s.add = r.add
  BY <1>2, <1>3, <1>5 DEF PageState
<1> HIDE DEF s
<1>7. Busy(s, shared)
  BY <1>1, <1>2, <1>3, <1>4, <1>5, <1>6 DEF Busy
<1>8. coins' \in [Users -> 0 .. Coins] /\ IsShared(shared') /\ Grows(shared, shared')
      /\ Busy(s, shared')
  BY <1>1, <1>2, <1>7, SharedStays
<1>9. QED BY <1>1, <1>6, <1>8, GoesKeeps DEF r

\* Every set of numbers that is not empty has a least one.
LEMMA LeastNumber ==
  ASSUME NEW T \in SUBSET Nat, T # {}
  PROVE  \E x \in T : \A y \in T : x <= y
<1>1. PICK x \in T : \A y \in T : ~ (<<y, x>> \in OpToRel(<, Nat))
  BY NatLessThanWellFounded, WFMin
<1>2. \A y \in T : ~ (y < x)
  BY <1>1 DEF OpToRel
<1>3. \A y \in T : x <= y
  BY <1>2
<1>4. QED BY <1>3

\* The next number that a search tries.
LEMMA NextTodoIs ==
  ASSUME NEW s \in Searches, s.todo # NoneYet
  PROVE  NextTodo(s) \in DOMAIN s.todo
<1> DEFINE T == DOMAIN s.todo
<1>1. s.todo \in Tables(0 .. MaxVersion, Writes)
  BY DEF Searches
<1>2. T \subseteq 0 .. MaxVersion /\ T # {}
  <2>1. T \subseteq 0 .. MaxVersion
    BY <1>1, ValuesAre
  <2>2. T # {}
    BY <1>1, EmptyOnly
  <2>3. QED BY <2>1, <2>2
<1>3. 0 .. MaxVersion \subseteq Nat
  BY BoundsAssumption
<1>4. T \in SUBSET Nat
  BY <1>2, <1>3
<1> HIDE DEF T
<1>5. \E n \in T : \A m \in T : n <= m
  BY <1>2, <1>4, LeastNumber
<1>6. QED BY <1>5 DEF NextTodo, T

\* The secret is tried: it is not for the reader, or was decrypted, or failed.
LEMMA TriedGoes ==
  ASSUME IInv, NEW p \in Pages, page[p].search.phase = "each",
         NEW n \in DOMAIN page[p].search.todo, NEW got, NEW failed,
         LET w == page[p].search.todo[n]
         IN  /\ got \subseteq {w} \cap Allowed(shared) /\ failed \subseteq {w}
             /\ w \in got \cup failed \/ ~ shared[w],
         Goes(p, [page[p] EXCEPT !.search = Tried(page[p].search, n, got, failed)]),
         coins' \in [Users -> 0 .. Coins], shared' = shared
  PROVE  IInv' /\ Steps
<1> DEFINE r == page[p]
           c == r.search
           w == c.todo[n]
           todo == [m \in DOMAIN c.todo \ {n} |-> c.todo[m]]
           t == [c EXCEPT !.todo = todo, !.got = c.got \cup got, !.failed = c.failed \cup failed]
           s == [r EXCEPT !.search = t]
<1>1. Goes(p, s)
  BY DEF Tried
<1>2. r \in PageState /\ Busy(r, shared) /\ IsShared(shared)
  BY DEF IInv, Shapes
<1> HIDE DEF r
<1>3. c \in Searches /\ c.phase = "each" /\ n \in DOMAIN c.todo
      /\ got \subseteq {w} \cap Allowed(shared) /\ failed \subseteq {w}
      /\ (w \in got \cup failed \/ ~ shared[w])
  BY <1>2 DEF PageState, r
<1> HIDE DEF c
<1>4. c.todo \in Tables(0 .. MaxVersion, Writes) /\ c.got \in SUBSET Writes
      /\ c.failed \in SUBSET Writes
  BY <1>3 DEF Searches
<1>5. w \in Writes
  BY <1>3, <1>4, TableIs
<1> HIDE DEF w
<1>6. /\ todo \in Tables(0 .. MaxVersion, Writes) /\ DOMAIN todo = DOMAIN c.todo \ {n}
      /\ \A m \in DOMAIN todo : todo[m] = c.todo[m]
  <2> DEFINE f == c.todo
  <2>1. f \in Tables(0 .. MaxVersion, Writes)
    BY <1>4
  <2> HIDE DEF f
  <2>2. DOMAIN f \subseteq 0 .. MaxVersion /\ \A m \in DOMAIN f : f[m] \in Writes
    BY <2>1, ValuesAre
  <2>3. DOMAIN todo = DOMAIN f \ {n} /\ todo = [m \in DOMAIN todo |-> todo[m]]
        /\ \A m \in DOMAIN todo : todo[m] = f[m]
    BY DEF f
  <2> HIDE DEF todo
  <2>4. todo \in Tables(0 .. MaxVersion, Writes)
    BY <2>2, <2>3, TableIs
  <2>5. QED BY <2>3, <2>4 DEF f
<1> HIDE DEF todo
<1>7. /\ t \in Searches /\ t.phase = "each" /\ t.todo = todo /\ t.got = c.got \cup got
      /\ t.failed = c.failed \cup failed
  BY <1>3, <1>4, <1>5, <1>6 DEF Searches
<1> HIDE DEF t
<1>8. /\ s \in PageState /\ s.search = t /\ s.peer = r.peer /\ s.open = r.open /\ s.cred = r.cred
      /\ s.base = r.base /\ s.ours = r.ours /\ s.read = r.read /\ s.add = r.add
  BY <1>2, <1>7 DEF PageState
<1> HIDE DEF s
<1>9. /\ Listing(r.peer, shared) /\ r.read \subseteq Allowed(shared) /\ c.got \subseteq Allowed(shared)
      /\ r.open /\ (r.add.phase = "list" => r.add.id \in DOMAIN shared)
      /\ \A m \in DOMAIN c.todo : c.todo[m] \in DOMAIN shared
      /\ \A m \in DOMAIN r.peer.atts \ {others} :
           \/ m \in DOMAIN c.todo /\ c.todo[m] = r.peer.atts[m]
           \/ r.peer.atts[m] \in c.got \cup c.failed
           \/ ~ shared[r.peer.atts[m]]
  BY <1>2, <1>3 DEF Busy, c
<1>10. ASSUME NEW m \in DOMAIN r.peer.atts \ {others}
       PROVE  \/ m \in DOMAIN todo /\ todo[m] = r.peer.atts[m]
              \/ r.peer.atts[m] \in t.got \cup t.failed
              \/ ~ shared[r.peer.atts[m]]
  <2>1. CASE m = n
    BY <1>3, <1>7, <1>9, <2>1 DEF w
  <2>2. CASE m # n
    BY <1>6, <1>7, <1>9, <2>2
  <2>3. QED BY <2>1, <2>2
<1>11. t.got \subseteq Allowed(shared) /\ \A m \in DOMAIN todo : todo[m] \in DOMAIN shared
  BY <1>3, <1>6, <1>7, <1>9
<1>12. Busy(s, shared)
  BY <1>7, <1>8, <1>9, <1>10, <1>11 DEF Busy
<1>13. IsShared(shared') /\ Grows(shared, shared') /\ Busy(s, shared')
  BY <1>12, SharedStays
<1>14. QED BY <1>1, <1>8, <1>13, GoesKeeps DEF r

LEMMA fromWriteKeeps ==
  ASSUME IInv, NEW p \in Pages, fromWrite(p)
  PROVE  IInv' /\ Steps
<1> DEFINE c == page[p].search
           n == NextTodo(c)
           w == c.todo[n]
           u == User(p)
<1>1. c.phase = "each" /\ c.todo # NoneYet /\ shared' = shared
  BY DEF fromWrite
<1>2. page[p] \in PageState /\ Busy(page[p], shared) /\ coins \in [Users -> 0 .. Coins]
  BY DEF IInv, Shapes
<1>3. n \in DOMAIN c.todo
  BY <1>1, <1>2, NextTodoIs DEF PageState
<1>4. w \in DOMAIN shared
  BY <1>2, <1>3 DEF Busy
<1>5. CASE /\ ~ MayRead(w) /\ UNCHANGED coins
           /\ Goes(p, [page[p] EXCEPT !.search = Tried(c, n, {}, {})])
  <2>1. ~ shared[w] /\ coins' \in [Users -> 0 .. Coins]
    BY <1>2, <1>5 DEF MayRead
  <2> DEFINE none == {}
  <2>2. none \subseteq {w} \cap Allowed(shared) /\ none \subseteq {w}
        /\ (w \in none \cup none \/ ~ shared[w])
    BY <2>1
  <2>3. Goes(p, [page[p] EXCEPT !.search = Tried(c, n, none, none)])
    BY <1>5
  <2> HIDE DEF n, none
  <2>4. QED BY <1>1, <1>3, <2>1, <2>2, <2>3, TriedGoes
<1>6. CASE /\ MayRead(w) /\ spawnRead(u)
           /\ \E data \in decrypt(w) :
                Goes(p, [page[p] EXCEPT !.search = Tried(c, n, data, {w} \ data)])
  <2>1. PICK data \in {{w}, {}} :
          Goes(p, [page[p] EXCEPT !.search = Tried(c, n, data, {w} \ data)])
    BY <1>6 DEF decrypt
  <2>2. w \in Allowed(shared)
    BY <1>4, <1>6 DEF MayRead, Allowed
  <2>3. coins' \in [Users -> 0 .. Coins]
    BY <1>6, UsersArePages, CostsAssumption, Paid DEF spawnRead
  <2> HIDE DEF n
  <2>4. data \subseteq {w} \cap Allowed(shared) /\ {w} \ data \subseteq {w}
        /\ w \in data \cup ({w} \ data)
    BY <2>1, <2>2
  <2>5. QED BY <1>1, <1>3, <2>1, <2>3, <2>4, TriedGoes
<1>7. CASE /\ UNCHANGED coins
           /\ Goes(p, [page[p] EXCEPT !.search = Tried(c, n, {}, {w})])
  <2>1. coins' \in [Users -> 0 .. Coins]
    BY <1>2, <1>7
  <2> HIDE DEF n
  <2>2. QED BY <1>1, <1>3, <1>7, <2>1, TriedGoes
<1>8. QED BY <1>5, <1>6, <1>7 DEF fromWrite

LEMMA SearchDoneKeeps ==
  ASSUME IInv, NEW p \in Pages, SearchDone(p)
  PROVE  IInv' /\ Steps
<1> DEFINE r == page[p]
           a == Extend(r.cred.atts, others, Blob)
           got == r.search.got
           s == [r EXCEPT !.search = NoSearch, !.read = got, !.cred.atts = a]
           d == [r.cred EXCEPT !.atts = a, !.version = r.cred.version + 1]
<1>1. r.search.phase = "each" /\ r.search.todo = NoneYet /\ Saves(p, s)
      /\ coins' = coins /\ shared' = shared
  BY DEF SearchDone, Found
<1>2. r \in PageState /\ Busy(r, shared) /\ Listing(r.cred, shared) /\ IsShared(shared)
  BY DEF IInv, Shapes
<1>3. r.open /\ got \subseteq Allowed(shared)
  BY <1>1, <1>2 DEF Busy
<1>4. r.cred \in Credentials /\ got \in SUBSET Writes
  BY <1>2 DEF PageState, Searches
<1>5. NoSearch \in Searches /\ NoSearch.phase = "none" /\ NoSearch.got = {} /\ NoSearch.todo = NoneYet
  BY NoneYetIs DEF NoSearch, Searches
<1> HIDE DEF r, got
<1>6. r.cred.version + 1 <= MaxVersion
  <2>1. s.cred.version = r.cred.version
    BY <1>2, <1>4 DEF PageState, Credentials
  <2> HIDE DEF s
  <2>2. s.cred.version + 1 <= MaxVersion
    BY <1>1 DEF Saves
  <2>3. QED BY <2>1, <2>2
<1>7. /\ a \in Tables(Names, 0 .. MaxWrites) /\ DOMAIN r.cred.atts \subseteq DOMAIN a
      /\ d \in Credentials /\ Listing(d, shared) /\ Keeps(r.cred.atts, a)
  BY <1>2, <1>4, <1>6, OthersAdded
<1> HIDE DEF a
<1>8. /\ s \in PageState /\ s.search = NoSearch /\ s.read = got /\ s.open = r.open
      /\ s.base = r.base /\ s.ours = r.ours /\ s.peer = r.peer /\ s.add = r.add
      /\ s.cred = [r.cred EXCEPT !.atts = a]
  <2>1. [r.cred EXCEPT !.atts = a] \in Credentials
    BY <1>4, <1>7 DEF Credentials
  <2>2. s = [r EXCEPT !.search = NoSearch, !.read = got, !.cred = [r.cred EXCEPT !.atts = a]]
    BY <1>2 DEF PageState
  <2> HIDE DEF s
  <2>3. QED BY <1>2, <1>4, <1>5, <2>1, <2>2 DEF PageState
<1> HIDE DEF s
<1>9. d = [s.cred EXCEPT !.version = s.cred.version + 1] /\ s.cred.version = r.cred.version
      /\ s.cred.atts = a
  BY <1>4, <1>8 DEF Credentials
<1> HIDE DEF d
<1>10. Busy(s, shared)
  BY <1>2, <1>3, <1>5, <1>8, NoneYetIs DEF Busy
<1>11. ASSUME DOMAIN r.ours \subseteq DOMAIN r.cred.atts
       PROVE  /\ DOMAIN s.ours \subseteq DOMAIN s.cred.atts
              /\ \A m \in DOMAIN r.ours : m \in DOMAIN s.ours /\ s.ours[m] = r.ours[m]
  BY <1>7, <1>8, <1>9, <1>11
<1>12. IInv' /\ ListedStep /\ OursStep
  BY <1>1, <1>3, <1>7, <1>8, <1>9, <1>10, <1>11, SavesKeeps DEF r
\* The search went through all numbers of the contact.
<1>13. ASSUME NEW w \in r.read \ got
       PROVE  \/ w \in r.search.failed
              \/ \A n \in DOMAIN r.peer.atts : r.peer.atts[n] # w
  <2>1. w \in Writes /\ shared[w]
    BY <1>2, SharedIs DEF Busy, Allowed
  <2>2. ASSUME NEW n \in DOMAIN r.peer.atts, r.peer.atts[n] = w
        PROVE  w \in r.search.failed
    <3>1. n # others
      BY <1>2, <2>1, <2>2, BoundsAssumption DEF Busy, Listing, Writes, Blob
    <3>2. n \notin DOMAIN r.search.todo
      BY <1>1, NoneYetIs
    <3>3. w \in got \cup r.search.failed
      BY <1>1, <1>2, <2>1, <2>2, <3>1, <3>2 DEF Busy, got
    <3>4. QED BY <3>3
  <2>3. QED BY <2>2
<1>14. page'[p].read = got /\ \A o \in Pages \ {p} : page'[o] = page[o]
  BY <1>1, <1>8, SavedPage
<1>15. ReadStep
  BY <1>13, <1>14 DEF ReadStep, r
<1>16. QED BY <1>12, <1>15 DEF Steps

------------------------------------------------------------------------------
(* The theorems. *)

LEMMA InitEstablishes == Init => IInv
<1> SUFFICES ASSUME Init PROVE IInv
  OBVIOUS
<1>1. /\ coins = [u \in Users |-> Coins] /\ shared = [w \in {} |-> TRUE]
      /\ cred = [u \in Users |-> [atts |-> NoneYet, version |-> 0]]
      /\ storage = [u \in Users |-> [ours |-> NoneYet, read |-> {}]]
      /\ page = [p \in Pages |-> Closed] /\ loads = 0 /\ lost = {} /\ mixed = {}
  BY DEF Init
<1>2. /\ [atts |-> NoneYet, version |-> 0] \in Credentials
      /\ Listing([atts |-> NoneYet, version |-> 0], shared)
      /\ DOMAIN NoneYet = {} /\ [ours |-> NoneYet, read |-> {}] \in Browsers
  BY EmptyCredential, NoneYetIs DEF Browsers
<1>3. Closed \in PageState /\ ~ Closed.open /\ Listing(Closed.cred, shared) /\ Busy(Closed, shared)
  BY ClosedIs
<1>4. IsShared(shared)
  <2>1. shared \in [1 .. 0 -> BOOLEAN] /\ 0 \in 0 .. MaxWrites
    BY <1>1, BoundsAssumption
  <2>2. QED BY <2>1 DEF IsShared
<1>5. Shapes
  BY <1>1, <1>2, <1>3, <1>4, CostsAssumption, BoundsAssumption DEF Shapes
<1>6. \A u \in Users : Stored(u, cred, storage, shared, lost, mixed)
  BY <1>1, <1>2 DEF Stored
<1>7. \A p \in Pages :
        /\ Listing(page[p].cred, shared) /\ Busy(page[p], shared)
        /\ Synced(page[p], User(p), cred, storage, lost, mixed)
  BY <1>1, <1>3 DEF Synced
<1>8. QED BY <1>5, <1>6, <1>7 DEF IInv

LEMMA StepKeeps == IInv /\ [Next]_vars => IInv' /\ (Steps \/ UNCHANGED vars)
<1> SUFFICES ASSUME IInv, [Next]_vars PROVE IInv' /\ (Steps \/ UNCHANGED vars)
  OBVIOUS
<1>1. CASE UNCHANGED vars
  BY <1>1 DEF vars, IInv, Shapes, Stored, Synced
<1>2. CASE Next
  <2>1. PICK p \in Pages :
          \/ Load(p) \/ Close(p)
          \/ \E share \in BOOLEAN : add(p, share)
          \/ \E b, c \in BOOLEAN : spawnDarc(p, b, c) \/ spawnWrite(p, b, c)
          \/ List(p) \/ read(p) \/ fromWrite(p) \/ SearchDone(p)
    BY <1>2 DEF Next
  <2>2. CASE Load(p)
    BY <2>2, LoadKeeps
  <2>3. CASE Close(p)
    BY <2>3, CloseKeeps
  <2>4. CASE \E share \in BOOLEAN : add(p, share)
    BY <2>4, addKeeps
  <2>5. CASE \E b, c \in BOOLEAN : spawnDarc(p, b, c)
    BY <2>5, spawnDarcKeeps
  <2>6. CASE \E b, c \in BOOLEAN : spawnWrite(p, b, c)
    BY <2>6, spawnWriteKeeps
  <2>7. CASE List(p)
    BY <2>7, ListKeeps
  <2>8. CASE read(p)
    BY <2>8, readKeeps
  <2>9. CASE fromWrite(p)
    BY <2>9, fromWriteKeeps
  <2>10. CASE SearchDone(p)
    BY <2>10, SearchDoneKeeps
  <2>11. QED BY <2>1, <2>2, <2>3, <2>4, <2>5, <2>6, <2>7, <2>8, <2>9, <2>10
<1>3. QED BY <1>1, <1>2

LEMMA Inductive == IInv /\ [Next]_vars => IInv'
BY StepKeeps

\* The balances, the credentials and what the pages and browsers store have the values
\* that they can have (the fields of Calypso.ts and Contact.ts).
THEOREM TypesCorrect == Spec => []TypeOK
<1>1. IInv => TypeOK
  <2> SUFFICES ASSUME IInv PROVE TypeOK
    OBVIOUS
  <2>1. Shapes
    BY DEF IInv
  <2>2. ASSUME NEW u \in Users
        PROVE  /\ DOMAIN cred[u].atts \subseteq Names /\ cred[u].version \in 0 .. MaxVersion
               /\ DOMAIN storage[u].ours \subseteq 0 .. MaxVersion /\ storage[u].read \subseteq Writes
    <3>1. /\ cred[u].atts \in Tables(Names, 0 .. MaxWrites) /\ cred[u].version \in 0 .. MaxVersion
          /\ storage[u].ours \in Tables(0 .. MaxVersion, Writes) /\ storage[u].read \subseteq Writes
      BY <2>1 DEF Shapes, Credentials, Browsers
    <3>2. DOMAIN cred[u].atts \subseteq Names
      BY <3>1, ValuesAre
    <3>3. DOMAIN storage[u].ours \subseteq 0 .. MaxVersion
      BY <3>1, ValuesAre
    <3>4. QED BY <3>1, <3>2, <3>3
  <2>3. ASSUME NEW p \in Pages
        PROVE  /\ page[p].coin \in 0 .. Coins
               /\ page[p].add.phase \in {"none", "darc", "write", "list"}
               /\ page[p].search.phase \in {"none", "each"}
               /\ DOMAIN page[p].ours \subseteq 0 .. MaxVersion
               /\ page[p].read \subseteq Writes /\ page[p].search.got \subseteq Writes
    <3>1. page[p] \in PageState
      BY <2>1 DEF Shapes
    <3>2. /\ page[p].coin \in 0 .. Coins /\ page[p].read \subseteq Writes
          /\ page[p].add \in Additions /\ page[p].search \in Searches
          /\ page[p].ours \in Tables(0 .. MaxVersion, Writes)
      BY <3>1 DEF PageState
    <3>3. DOMAIN page[p].ours \subseteq 0 .. MaxVersion
      BY <3>2, ValuesAre
    <3>4. page[p].add.phase \in {"none", "darc", "write", "list"}
      BY <3>2 DEF Additions
    <3>5. page[p].search.phase \in {"none", "each"} /\ page[p].search.got \subseteq Writes
      BY <3>2 DEF Searches
    <3>6. QED BY <3>2, <3>3, <3>4, <3>5
  <2>4. QED BY <2>1, <2>2, <2>3 DEF TypeOK, Shapes, IsShared
<1>2. QED BY <1>1, InitEstablishes, Inductive, PTL DEF Spec

\* Whatever keys the writer, the conodes and the reader pick, the ledger takes every write
\* instance and whoever has read one has what was written (SecureData.fromWrite and
\* spawnCalypsoWrite): for every order of the group, and any pages, balances and bounds.
THEOREM WrittenIsRead == Spec => []ReadIsWritten
<1>1. IInv => ReadIsWritten
  <2> SUFFICES ASSUME IInv PROVE ReadIsWritten
    OBVIOUS
  <2>1. Open = Writes
    BY SecretsAreReadable DEF Open
  <2>2. \A p \in Pages : page[p].read \subseteq Writes
    BY DEF IInv, Shapes, PageState
  <2>3. DOMAIN shared \subseteq Writes
    BY SharedIs DEF IInv, Shapes
  <2>4. QED BY <2>1, <2>2, <2>3 DEF ReadIsWritten
<1>2. QED BY <1>1, InitEstablishes, Inductive, PTL DEF Spec

\* A secret that the ledger lists stays under its number, unless a page writes that did not
\* know what another page of the user had written (Calypso.add and read number and save).
THEOREM ListedStays == Spec => ListedIsKept
<1>1. IInv /\ [Next]_vars =>
        [\A u \in Users : \A n \in DOMAIN cred[u].atts \ {others} :
           \/ u \in mixed'
           \/ /\ n \in DOMAIN cred'[u].atts
              /\ cred'[u].atts[n] = cred[u].atts[n]]_vars
  BY StepKeeps DEF Steps, ListedStep
<1>2. QED BY <1>1, InitEstablishes, Inductive, PTL DEF Spec, ListedIsKept

\* The browser keeps each plain secret of the user under its number, unless an update of the
\* credential was lost or pages wrote without knowing of each other (Calypso.add, toObject).
THEOREM OursStays == Spec => OursIsKept
<1>1. IInv /\ [Next]_vars =>
        [\A u \in Users \ (lost' \cup mixed') : \A n \in DOMAIN storage[u].ours :
           /\ n \in DOMAIN storage'[u].ours
           /\ storage'[u].ours[n] = storage[u].ours[n]]_vars
  BY StepKeeps DEF Steps, OursStep
<1>2. QED BY <1>1, InitEstablishes, Inductive, PTL DEF Spec, OursIsKept

\* A search drops a secret that was read earlier only because it failed this time, or
\* because the contact lists it no more (Calypso.read replaces what was known).
THEOREM ReadStays == Spec => ReadIsKept
<1>1. IInv /\ [Next]_vars =>
        [\A p \in Pages : page'[p].open /\ page[p].open =>
           \A w \in page[p].read \ page'[p].read :
             \/ w \in page[p].search.failed
             \/ \A n \in DOMAIN page[p].peer.atts : page[p].peer.atts[n] # w]_vars
  BY StepKeeps DEF Steps, ReadStep
<1>2. QED BY <1>1, InitEstablishes, Inductive, PTL DEF Spec, ReadIsKept

================================================================================
