------------------------------- MODULE SecretKeys -------------------------------
(***************************************************************************)
(* How a secret is encrypted for the ledger and decrypted by a reader      *)
(* (spawnFromSpawner and fromWrite of SecureData.ts, createWrite and       *)
(* DecodeKey of calypso-instance.ts, calypso-rpc.ts).                      *)
(*                                                                         *)
(* The writer picks a symmetric key.  Its first 28 bytes fit into a point, *)
(* which is encrypted for the key X that the conodes share; the other 4    *)
(* stand in the write instance.  The conodes re-encrypt the point for the  *)
(* ephemeral key of the reader.                                            *)
(***************************************************************************)
EXTENDS Curve

\* A key is the part that goes into a point, and the rest.
SymKey == [point : Scalar, rest : {0, 1}]

\* Embedding and taking out again (external: Kyber) are the same here.
embed(bytes) == bytes
dataOf(point) == point

\* secretbox opens with the key and the nonce it was closed with (external: tweetnacl).
Failed == -1
secretbox(data, nonce, key) == [data |-> data, nonce |-> nonce, key |-> key]
secretbox_open(box, nonce, key) ==
  IF nonce = box.nonce /\ key = box.key THEN box.data ELSE Failed

\* SHA-256 of the five points and the darc.
Challenge(c, u, ubar, w, wBar, darc) == (c + 2 * u + 3 * ubar + w + 2 * wBar + darc + 1) % q

\* Bug: the challenge is subtracted.
ResponseSubtracts(s, e, r) == Sub(s, Mul(e, r))

Response(s, e, r) == Add(s, Mul(e, r))

\* Write.createWrite, r and s being picked: the encrypted point, and a proof that the
\* writer knew it, bound to the darc.
createWrite(ltsid, darc, X, key, r, s) ==
  LET u    == Public(r)
      c    == Add(Mul(r, X), embed(key))
      gBar == embed(ltsid)
      ubar == Mul(r, gBar)
      e    == Challenge(c, u, ubar, Public(s), Mul(s, gBar), darc)
  IN  [u |-> u, c |-> c, ubar |-> ubar, e |-> e, f |-> Response(s, e, r), ltsid |-> ltsid]

\* The contract takes a write instance if the proof is right (external).
AcceptsWrite(write, darc) ==
  LET gBar == embed(write.ltsid)
      w    == Sub(Public(write.f), Mul(write.e, write.u))
      wBar == Sub(Mul(write.f, gBar), Mul(write.e, write.ubar))
  IN  write.e = Challenge(write.c, write.u, write.ubar, w, wBar, darc)

\* SecureData.spawnFromSpawner: the instance, with the nonce and the rest of the key.
Spawned(data, symKey, nonce, ltsid, X, darc, r, s) ==
  [write |-> createWrite(ltsid, darc, X, symKey.point, r, s),
   nonce |-> nonce, rest |-> symKey.rest, box |-> secretbox(data, nonce, symKey)]

\* The conodes, together, use the private key x of the LTS (external).
reencryptKey(write, x, readerKey) ==
  [X |-> Public(x), c |-> write.c, xhatenc |-> Mul(x, Add(write.u, readerKey))]

\* DecodeKey, of the reply to DecryptKey.
DecodeKey(reply, private) ==
  LET Xhat == Add(reply.xhatenc, Mul(Neg(private), reply.X))
  IN  dataOf(Add(reply.c, Neg(Xhat)))

\* SecureData.fromWrite, private being the ephemeral key.
Decrypted(instance, x, private) ==
  LET part == DecodeKey(reencryptKey(instance.write, x, Public(private)), private)
  IN  secretbox_open(instance.box, instance.nonce, [point |-> part, rest |-> instance.rest])

\* Whatever was picked by the writer, by the conodes and by the reader, the ledger takes
\* the instance and the reader gets the data.
Readable(data) ==
  \A symKey \in SymKey, r \in Scalar, s \in Scalar, x \in Scalar, private \in Scalar, ltsid \in {1, 2} :
    LET darc == 1
        instance == Spawned(data, symKey, 0, ltsid, Public(x), darc, r, s)
    IN  /\ AcceptsWrite(instance.write, darc)
        /\ Decrypted(instance, x, private) = data
================================================================================
