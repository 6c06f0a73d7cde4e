------------------------------ MODULE ChainClient ------------------------------
(***************************************************************************)
(* What the page believes of the chain: SkipchainRPC.getUpdateChain        *)
(* (skipchain-rpc.ts, skipblock.ts), which follows forward links over      *)
(* changes of the roster, and Proof (proof.ts), which ties an instance to  *)
(* a block of the chain.                                                   *)
(*                                                                         *)
(* A block is known by its number, which stands for its hash; a node of    *)
(* the trie by its prefix and the keys below it.  The conodes are          *)
(* external: a node lags behind the chain, may end an answer at any block, *)
(* and an answer may be damaged on its way or put together while a block   *)
(* is added.  Requests keep nothing behind in the client, so a behaviour   *)
(* has one request and ends when it has settled.                           *)
(***************************************************************************)
EXTENDS Naturals, FiniteSets, SequencesExt

CONSTANTS
  Conodes,      \* the servers that keep the chain
  Rosters,      \* the rosters the chain may have, nonempty sets of nodes
  Keys,         \* keys of instances, as the bits of their hashes
  Span,         \* every Span-th block has a forward link over Span blocks
  MaxBlocks,    \* bound: the length of the chain
  MaxRequests   \* bound: requests of one getUpdateChain

ASSUME RostersAssumption == Rosters \subseteq SUBSET Conodes /\ {} \notin Rosters
ASSUME BoundsAssumption ==
  /\ Span \in Nat \ {0, 1}
  /\ MaxBlocks \in Nat \ {0}
  /\ MaxRequests \in Nat \ {0}
\* Hashes, all of one length.
ASSUME KeysAssumption ==
  /\ IsFiniteSet(Keys)
  /\ Keys \subseteq Seq(BOOLEAN) \ {<<>>}
  /\ \A k, l \in Keys : Len(k) = Len(l)

VARIABLES
  chain,    \* the blocks, each with its roster and the keys of its state
  known,    \* known[n]: how many blocks node n has
  request   \* the request of the client

chainVars == <<chain, known, request>>

Genesis == 1
Idle == [kind |-> "none", phase |-> "idle"]

ChainTypeOK ==
  /\ \A i \in DOMAIN chain : chain[i].roster \in Rosters /\ chain[i].keys \subseteq Keys
  /\ known \in [Conodes -> 0 .. Len(chain)]
  /\ request.kind \in {"none", "update", "proof"}
  /\ request.phase \in {"idle", "asking", "resolved", "invalid", "failed"}

ChainInit ==
  /\ \E r \in Rosters :
       /\ chain = <<[roster |-> r, keys |-> {}]>>
       /\ known = [n \in Conodes |-> IF n \in r THEN 1 ELSE 0]
  /\ request = Idle

------------------------------------------------------------------------------
(* The chain (external). *)

Settled == request.phase \in {"resolved", "invalid", "failed"}

\* A node of the last roster stores a new block; the others learn it later.
AddBlock(n, r, key) ==
  /\ ~ Settled /\ Len(chain) < MaxBlocks
  /\ n \in Last(chain).roster /\ known[n] = Len(chain)
  /\ chain' = Append(chain, [roster |-> r, keys |-> Last(chain).keys \cup key])
  /\ known' = [known EXCEPT ![n] = @ + 1]
  /\ UNCHANGED request

\* A node is told the next block if that block or the one before names it.
CatchUp(n) ==
  /\ ~ Settled /\ known[n] < Len(chain)
  /\ \E i \in {known[n], known[n] + 1} \ {0} : n \in chain[i].roster
  /\ known' = [known EXCEPT ![n] = @ + 1]
  /\ UNCHANGED <<chain, request>>

\* The blocks that block i links to, for a node that has h blocks.
LinksOf(i, h) == {j \in i + 1 .. h : j = i + 1 \/ ((i - 1) % Span = 0 /\ j = i + Span)}

\* The shortest way from block i to the last of h blocks: the furthest links.
WayTo(h) ==
  LET way[i \in 1 .. h] ==
        IF i = h THEN <<i>> ELSE <<i>> \o way[Max(LinksOf(i, h))]
  IN way

Copy(i, h) == [block |-> i, intact |-> TRUE, links |-> LinksOf(i, h)]

\* What node n may answer: the way on from a block, up to any block of it.
Answers(n, i) ==
  LET way == WayTo(known[n])[i] IN
    {[k \in 1 .. l |-> Copy(way[k], known[n])] : l \in 1 .. Len(way)}

\* An answer of which a block was lost, repeated or damaged.
Defects(s) ==
  {RemoveAt(s, k) : k \in DOMAIN s}
    \cup {InsertAt(s, k, s[k]) : k \in DOMAIN s}
    \cup {[s EXCEPT ![k].intact = FALSE] : k \in DOMAIN s}

------------------------------------------------------------------------------
(* Following the forward links. *)

\* SkipBlock.computeHash: the number of the block, unless it is damaged.
computeHash(b) == IF b.intact THEN b.block ELSE 0

\* ForwardLink.verify: the link from block i is signed by the roster of i.
LinkVerifies(i, publics) == publics = chain[i].roster

\* Bug: the hash of the first block is not checked.
verifyChainAnyFirst(blocks, first) ==
  /\ blocks # <<>>
  /\ \A k \in 2 .. Len(blocks) :
       /\ computeHash(blocks[k]) = blocks[k].block
       /\ blocks[k].block \in blocks[k - 1].links
       /\ LinkVerifies(blocks[k - 1].block, chain[blocks[k - 1].block].roster)

verifyChain(blocks, first) ==
  /\ blocks # <<>>
  /\ computeHash(blocks[1]) = first
  /\ \A k \in 2 .. Len(blocks) :
       /\ computeHash(blocks[k]) = blocks[k].block
       /\ blocks[k].block \in blocks[k - 1].links
       /\ LinkVerifies(blocks[k - 1].block, chain[blocks[k - 1].block].roster)

\* frames: the nested calls of getUpdateChain, each with the block it asked
\* for and what it got.
GetUpdateChain(first, roster) ==
  /\ request = Idle
  /\ request' = [kind |-> "update", phase |-> "asking", first |-> first,
                 ask |-> first, asked |-> roster, frames |-> <<>>,
                 honest |-> TRUE, result |-> <<>>]
  /\ UNCHANGED <<chain, known>>

\* Bug: the block that the next roster was asked for is kept in the old copy.
JoinedKeepsOld(frames) ==
  LET joined[k \in DOMAIN frames] ==
        IF k = Len(frames) THEN frames[k].blocks
        ELSE frames[k].blocks \o SubSeq(joined[k + 1], 2, Len(joined[k + 1]))
  IN joined

\* Each call replaces its last block by what the call inside it returned.
Joined(frames) ==
  LET joined[k \in DOMAIN frames] ==
        IF k = Len(frames) THEN frames[k].blocks
        ELSE Front(frames[k].blocks) \o joined[k + 1]
  IN joined

\* The innermost call is answered.  If its last block has forward links the
\* roster of that block is asked on; otherwise the calls verify their chains,
\* from the innermost to the first.
Answered(blocks, honest) ==
  LET frames == Append(request.frames, [ask |-> request.ask, blocks |-> blocks])
      more   == blocks # <<>> /\ Last(blocks).links # {}
      valid  == \A k \in DOMAIN frames : verifyChain(Joined(frames)[k], frames[k].ask)
  IN
  /\ request.kind = "update" /\ request.phase = "asking"
  /\ \/ /\ more /\ Len(frames) < MaxRequests
        /\ request' = [request EXCEPT !.frames = frames, !.honest = @ /\ honest,
                                      !.ask = Last(blocks).block,
                                      !.asked = chain[Last(blocks).block].roster]
     \/ /\ ~ more
        /\ request' = [request EXCEPT
             !.frames = frames, !.honest = @ /\ honest,
             !.phase = IF valid THEN "resolved" ELSE "invalid",
             !.result = IF valid THEN Joined(frames)[1] ELSE <<>>]
  /\ UNCHANGED <<chain, known>>

Reply(n) ==
  /\ request.kind = "update" /\ n \in request.asked /\ known[n] >= request.ask
  /\ \E blocks \in Answers(n, request.ask) :
       \/ Answered(blocks, TRUE)
       \/ \E damaged \in Defects(blocks) : Answered(damaged, FALSE)

\* The node does not have the block, or cannot be reached.
RequestFails ==
  /\ request.phase = "asking"
  /\ request' = [request EXCEPT !.phase = "failed"]
  /\ UNCHANGED <<chain, known>>

------------------------------------------------------------------------------
(* Proofs of the global state. *)

\* The trie over a set of keys (external): the node at a prefix, the depth at
\* which at most one key is left on the way to a key, and the nodes passed.
TrieNode(keys, prefix) ==
  [prefix |-> prefix, keys |-> {k \in keys : IsPrefix(prefix, k)}]

DepthOf(keys, key) ==
  Min({d \in 1 .. Len(key) :
         Cardinality(TrieNode(keys, SubSeq(key, 1, d)).keys) <= 1})

Interiors(keys, key) ==
  [d \in 1 .. DepthOf(keys, key) |->
     LET prefix == SubSeq(key, 1, d - 1) IN
       [left  |-> TrieNode(keys, Append(prefix, TRUE)),
        right |-> TrieNode(keys, Append(prefix, FALSE))]]

\* The leaf, which may be the one of another key, or the empty node.
EndNode(keys, key) == TrieNode(keys, SubSeq(key, 1, DepthOf(keys, key)))

\* A forward link; it names the new roster if the roster changes.
Link(i, j) ==
  [from |-> i, to |-> j,
   newRoster |-> IF chain[i].roster # chain[j].roster THEN {chain[j].roster} ELSE {}]

\* A proof for a key, put together by a node (external), which had at[q] blocks
\* when it took part q of the proof.
Parts == {"links", "latest", "interiors", "end"}

ProofOf(key, at) ==
  LET way == WayTo(at["links"])[Genesis]
  IN [links     |-> <<[from |-> 0, to |-> Genesis, newRoster |-> {chain[Genesis].roster}]>>
                      \o [k \in 1 .. Len(way) - 1 |-> Link(way[k], way[k + 1])],
      latest    |-> at["latest"],
      interiors |-> Interiors(chain[at["interiors"]].keys, key),
      end       |-> EndNode(chain[at["end"]].keys, key)]

\* InclusionProof.hashInterior: the node whose two sides these are.
hashInterior(n) == [prefix |-> Front(n.left.prefix), keys |-> n.left.keys \cup n.right.keys]

\* The keys that a link is verified with: those of the last change of the
\* roster before it, and at first those of the latest block.
PublicsFor(p, k) ==
  LET changes == {l \in 2 .. k - 1 : p.links[l].newRoster # {}}
  IN IF changes = {} THEN chain[p.latest].roster
     ELSE CHOOSE r \in p.links[Max(changes)].newRoster : TRUE

\* Proof.verify
verify(p, genesisID) ==
  /\ hashInterior(p.interiors[1]) = TrieNode(chain[p.latest].keys, <<>>)
  /\ p.links # <<>> /\ p.links[1].to = genesisID
  /\ \A k \in 2 .. Len(p.links) :
       /\ LinkVerifies(p.links[k].from, PublicsFor(p, k))
       /\ p.links[k].from = p.links[k - 1].to
  /\ Last(p.links).to = p.latest

\* Bug: the sides are swapped.
SideSwapped(n, bit) == IF bit THEN n.right ELSE n.left

Side(n, bit) == IF bit THEN n.left ELSE n.right

\* Bug: the nodes are not compared on the way down.
existsUnchecked(p, key) == IF p.end.keys = {key} THEN "yes" ELSE "no"

\* Proof.exists: down the interior nodes by the bits of the key.  The last
\* comparison of the code is of the leaf with the key of the proof.
exists(p, key) ==
  LET n == Len(p.interiors)
      intact == /\ \A d \in 2 .. n :
                      Side(p.interiors[d - 1], key[d - 1]) = hashInterior(p.interiors[d])
                /\ Side(p.interiors[n], key[n]) = p.end
  IN CASE ~ intact              -> "throws"
       [] intact /\ p.end.keys = {key} -> "yes"
       [] OTHER                 -> "no"

\* Proof.getVerifiedInstance: the key whose instance is returned, if any.  The
\* key is the one of the leaf, which is not compared with the one asked for.
getVerifiedInstance(p) ==
  {k \in p.end.keys : verify(p, Genesis) /\ exists(p, k) = "yes"}

\* The three ways to read an instance: Instance.fromByzCoin, which does not
\* verify; SpawnerInstance.fromByzcoin; DarcInstance.update.
Returned(p, reader, key) ==
  CASE reader = "instance" -> IF exists(p, key) = "yes" THEN {key} ELSE {}
    [] reader = "spawner"  -> IF exists(p, key) = "yes" THEN getVerifiedInstance(p) ELSE {}
    [] reader = "darc"     -> getVerifiedInstance(p)

Readers == {"instance", "spawner", "darc"}

GetProof(reader, key, p, honest) ==
  /\ request = Idle
  /\ request' = [kind |-> "proof",
                 phase |-> IF Returned(p, reader, key) # {} THEN "resolved" ELSE "invalid",
                 reader |-> reader, key |-> key, proof |-> p, honest |-> honest,
                 result |-> Returned(p, reader, key)]
  /\ UNCHANGED <<chain, known>>

HonestProof(n) ==
  known[n] > 0 /\ \E reader \in Readers, key \in Keys :
    GetProof(reader, key, ProofOf(key, [q \in Parts |-> known[n]]), TRUE)

\* The node took some of the parts when it had fewer blocks, or a link is lost.
MixedProof(n) ==
  known[n] > 0 /\ \E reader \in Readers, key \in Keys :
    \/ \E old \in 1 .. known[n] - 1, stale \in SUBSET Parts \ {{}, Parts} :
         GetProof(reader, key,
           ProofOf(key, [q \in Parts |-> IF q \in stale THEN old ELSE known[n]]), FALSE)
    \/ LET p == ProofOf(key, [q \in Parts |-> known[n]]) IN
         \E lost \in DOMAIN p.links :
           GetProof(reader, key, [p EXCEPT !.links = RemoveAt(@, lost)], FALSE)

ChainNext ==
  \/ \E n \in Conodes, r \in Rosters, key \in {{}} \cup {{k} : k \in Keys} : AddBlock(n, r, key)
  \/ \E n \in Conodes : CatchUp(n) \/ Reply(n) \/ HonestProof(n) \/ MixedProof(n)
  \/ \E first \in DOMAIN chain, r \in Rosters : GetUpdateChain(first, r)
  \/ RequestFails

ChainSpec == ChainInit /\ [][ChainNext]_chainVars

------------------------------------------------------------------------------
(* What verification gives. *)

\* What getUpdateChain returns starts with the block that was asked for and
\* follows forward links of the chain, each block intact, whatever was lost,
\* repeated or damaged and however the answers of several rosters are joined.
AcceptedChainIsReal ==
  request.kind = "update" /\ request.phase = "resolved" =>
    LET blocks == request.result IN
      /\ blocks[1].block = request.first
      /\ \A k \in DOMAIN blocks : blocks[k].intact
      /\ \A k \in 2 .. Len(blocks) :
           blocks[k].block \in LinksOf(blocks[k - 1].block, Len(chain))

\* Answers of nodes that merely lag are never rejected: what one node says of a
\* block fits with what a node of that block's roster says on from it, although
\* their copies of that block have different links.
LaggingIsNotInvalid ==
  request.kind = "update" /\ request.phase = "invalid" => ~ request.honest

\* A verified proof is of one block that forward links reach from the genesis
\* block, even if the node took links, block and trie at different times; the
\* instance that is returned is in the state of that block.
VerifiedProofIsOfOneBlock ==
  request.kind = "proof" /\ verify(request.proof, Genesis) =>
    LET p == request.proof IN
      /\ Last(p.links).to = p.latest
      /\ \A k \in 2 .. Len(p.links) :
           p.links[k].to \in LinksOf(p.links[k - 1].to, Len(chain))
      /\ request.result \subseteq chain[p.latest].keys

\* What an honest node proves about a key is found, the presence and the
\* absence.  Verification lets it through only if the roster of the latest
\* block is the one of the genesis block, or there is no other block.
HonestProofIsUnderstood ==
  request.kind = "proof" /\ request.honest =>
    LET p == request.proof IN
      /\ exists(p, request.key) = IF request.key \in chain[p.latest].keys THEN "yes" ELSE "no"
      /\ verify(p, Genesis) <=> \/ p.latest = Genesis
                                \/ chain[p.latest].roster = chain[Genesis].roster

==============================================================================
