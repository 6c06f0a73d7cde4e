--------------------------------- MODULE RoPaSci --------------------------------
(***************************************************************************)
(* Rock, paper, scissors (ro-pa-sci-instance.ts, spawnRoPaSci of           *)
(* spawner-instance.ts, and the list of games in Data.ts).                 *)
(*                                                                         *)
(* The first player puts a stake and the hash of its move on the ledger, a *)
(* second one puts the same stake and a move, and then the first player    *)
(* reveals its own, which pays the winner.  The move, and the fill-up that *)
(* hides it, are only in the memory of the page that spawned the game.     *)
(*                                                                         *)
(* A hash is the pair of what is hashed; every game has its own fill-up.   *)
(***************************************************************************)
EXTENDS UserData

CONSTANTS
  Stake, costRoPaSci,
  Choices,            \* the moves that the users enter
  Players             \* bound: the users that play

ASSUME GameAssumption == Stake \in Nat /\ costRoPaSci \in Nat /\ Choices \subseteq Nat
ASSUME PlayersAssumption == Players \subseteq Users

VARIABLES
  game,      \* game[g]: the game on the ledger
  forgot     \* games of which the page that knew the move has forgotten it

gameVars == <<game, forgot>>

NoOne == "none"
Sides == -1 .. 2

Game == [on : {TRUE}, owner : Users, hash : (0 .. 2) \X Games, stake : {Stake + costRoPaSci},
         firstPlayer : Sides, secondPlayer : Sides, second : Users \cup {NoOne}]

GameTypeOK ==
  /\ \A g \in Games : game[g] \in Game \cup {NoGame}
  /\ \A u \in Users : \A g \in Games :
       /\ rps[u][g].struct \in Game \cup {NoGame} /\ rps[u][g].move \in (Choices \X Games) \cup {NoMove}
       /\ stored[u].games[g] \in Game \cup {NoGame}
  /\ forgot \subseteq Games

GameInit == game = [g \in Games |-> NoGame] /\ forgot = {}

KeepsGame(u, g, s) == rps' = [rps EXCEPT ![u][g] = s] /\ UNCHANGED <<inst, stored>>
SavesGame(u, g, s) == rps' = [rps EXCEPT ![u][g] = s] /\ UNCHANGED inst /\ save(u)

------------------------------------------------------------------------------

\* What spawnRoPaSci hashes.
Commitment(choice, fillup) == <<choice % 3, fillup>>

\* What confirm sends, the first move and the fill-up, for the ledger to hash it.
preHash(s) == <<s.move[1] % 3, s.move[2]>>

\* The fill-up is undefined on every other page, and confirm fails.
CanReveal(u, g) == rps[u][g].struct.on /\ rps[u][g].move # NoMove

\* Bug: the page does not remember its choice.
setChoiceFirst(s, g, choice) == [s EXCEPT !.move = <<0, g>>]

setChoice(s, g, choice) == [s EXCEPT !.move = <<choice, g>>]

\* spawnRoPaSci and addRoPaSci.  The balance that the page holds must do, and the
\* ledger's.  The stake of the game has the price of the game in it.  When the instance
\* cannot be read back, nobody knows the move.
spawnRoPaSci(u, g, choice, got) ==
  LET c == Stake + costRoPaSci
      s == [on |-> TRUE, owner |-> u, hash |-> Commitment(choice, g), stake |-> c,
            firstPlayer |-> -1, secondPlayer |-> -1, second |-> NoOne]
  IN
  /\ ~game[g].on /\ held[u] >= c
  /\ fetch(u, c)
  /\ game' = [game EXCEPT ![g] = s]
  /\ IF got THEN SavesGame(u, g, setChoice([NoRoPaSci EXCEPT !.struct = s], g, choice))
            ELSE UNCHANGED <<rps, inst, stored>>
  /\ forgot' = IF got THEN forgot ELSE forgot \cup {g}
  /\ UNCHANGED <<held, reloads>>

\* A game that is listed and not on the page is added, without its move.
reloadRoPaScis(u, g) ==
  /\ game[g].on /\ ~rps[u][g].struct.on
  /\ SavesGame(u, g, [NoRoPaSci EXCEPT !.struct = game[g]])
  /\ UNCHANGED <<gameVars, coins, held, reloads>>

\* Only games whose first move the page does not know are read.
NeedsUpdate(s) == s.struct.on /\ s.struct.firstPlayer < 0

updateRoPaScis(u) ==
  /\ rps' = [rps EXCEPT ![u] = [g \in Games |->
       IF NeedsUpdate(@[g]) THEN [@[g] EXCEPT !.struct = game[g]] ELSE @[g]]]
  /\ UNCHANGED inst /\ save(u)
  /\ UNCHANGED <<gameVars, coins, held, reloads>>

delRoPaSci(u, g) ==
  /\ rps[u][g].struct.on
  /\ forgot' = IF CanReveal(u, g) /\ game[g].firstPlayer < 0 THEN forgot \cup {g} ELSE forgot
  /\ SavesGame(u, g, NoRoPaSci)
  /\ UNCHANGED <<game, coins, held, reloads>>

\* The second player pays the stake and moves; anybody may, also the first player.  The
\* page does not read the game afterwards.
second(u, g, choice) ==
  LET s == rps[u][g].struct IN
  /\ s.on /\ held[u] >= s.stake
  /\ game[g].secondPlayer < 0
  /\ fetch(u, s.stake)
  /\ game' = [game EXCEPT ![g].secondPlayer = choice % 3, ![g].second = u]
  /\ UNCHANGED <<forgot, held, rps, inst, stored, reloads>>

\* The ledger pays both stakes, less the price of the game, to the winner, or each its
\* own.  The first player is paid to the account that the page names.
Paid(u, g, mv) ==
  LET s == game[g]
      pot == 2 * s.stake - costRoPaSci
      first == CASE mv = s.secondPlayer -> s.stake - costRoPaSci
                 [] mv = (s.secondPlayer + 1) % 3 -> pot
                 [] OTHER -> 0
  IN  [v \in Users |-> coins[v] + (IF v = u THEN first ELSE 0)
                                + (IF v = s.second THEN pot - first ELSE 0)]

\* The ledger pays if the second player has moved, the first move is not known yet,
\* and the hash is right; the page then reads the game, unless the answer is lost.
confirm(u, g, got) ==
  /\ CanReveal(u, g)
  /\ game[g].secondPlayer >= 0 /\ game[g].firstPlayer < 0
  /\ preHash(rps[u][g]) = game[g].hash
  /\ game' = [game EXCEPT ![g].firstPlayer = preHash(rps[u][g])[1]]
  /\ coins' = Paid(u, g, preHash(rps[u][g])[1])
  /\ KeepsGame(u, g, IF got THEN [rps[u][g] EXCEPT !.struct = game'[g]] ELSE rps[u][g])
  /\ UNCHANGED <<forgot, held, reloads>>

GameNext ==
  \E u \in Players :
    \/ updateRoPaScis(u)
    \/ \E g \in Games :
         \/ reloadRoPaScis(u, g) \/ delRoPaSci(u, g)
         \/ \E choice \in Choices : second(u, g, choice)
         \/ \E got \in BOOLEAN :
              confirm(u, g, got) \/ \E choice \in Choices : spawnRoPaSci(u, g, choice, got)
==============================================================================
