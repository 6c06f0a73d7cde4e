------------------------------- MODULE DataStore -------------------------------
(***************************************************************************)
(* The data of the page and what the browser stores of it                  *)
(* (src/lib/Data.ts, Storage.ts, Contact.ts and app.component.ts).         *)
(*                                                                         *)
(* A page reads the one object of the local storage once, fills in what it *)
(* can without the network, and then connects: the lists of parties and    *)
(* games come from the stored object, the own contact and the contacts     *)
(* from ByzCoin, one after the other.  When that fails the page shows the  *)
(* form to register; whatever it holds by then is what the next save       *)
(* writes over the stored object.  Several tabs share the storage.         *)
(*                                                                         *)
(* A key stands for itself and, as the seed of a credential, for the       *)
(* contact that was created with it.  How an account is created and taken  *)
(* over step by step is in Signup; here both are one step.                 *)
(***************************************************************************)
EXTENDS Naturals, FiniteSets, Sequences

CONSTANTS
  Tabs,      \* the tabs of one browser
  Games,     \* rock-paper-scissors games, or parties, that may be added
  MaxKeys,   \* bound: the keys that are drawn
  MaxLoads,  \* bound: how often a page is loaded
  MaxEdits   \* bound: games added

ASSUME BoundsAssumption ==
  MaxKeys \in Nat /\ MaxLoads \in Nat /\ MaxEdits \in Nat

Keys  == 1 .. MaxKeys
Kinds == {"parties", "ropascis"}

VARIABLES
  drawn,    \* how many keys have been drawn
  acts,     \* acts[c]: the key that acts for contact c on the ledger, or 0
  given,    \* the ephemeral keys that were shown to their creator
  stored,   \* the object in the local storage
  tab,      \* the state of each tab
  loads,    \* page loads so far
  edits     \* games added so far

vars == <<drawn, acts, given, stored, tab, loads, edits>>

NoLists == [k \in Kinds |-> <<>>]

\* The stored object; key 0 is that of an empty storage.
Object == [key : 0 .. MaxKeys, contact : 0 .. MaxKeys,
           contacts : Seq(Keys), lists : [Kinds -> Seq(Games)]]
Nothing == [key |-> 0, contact |-> 0, contacts |-> <<>>, lists |-> NoLists]

\* What is in an object: contacts and games, with the list they are in.
Content(o) ==
  {<<"contacts", c>> : c \in {o.contacts[i] : i \in DOMAIN o.contacts}}
    \cup UNION {{<<k, o.lists[k][i]>> : i \in DOMAIN o.lists[k]} : k \in Kinds}

Closed == [phase |-> "closed", obj |-> Nothing, data |-> Nothing, bc |-> FALSE,
           saves |-> FALSE, failed |-> FALSE, mine |-> {}, removed |-> {}]

\* obj: constructorObj; data: the fields of Data; saves: addID saves after the
\* load; failed: a load of this page failed; mine, removed: what the page found
\* in the storage or added itself, and what the user removed in it.
TypeOK ==
  /\ drawn \in 0 .. MaxKeys
  /\ acts \in [Keys -> 0 .. MaxKeys]
  /\ given \subseteq Keys
  /\ stored \in Object
  /\ \A t \in Tabs :
       /\ tab[t].phase \in {"closed", "loading", "contacts", "registered", "unregistered"}
       /\ tab[t].obj \in Object /\ tab[t].data \in Object
  /\ loads \in 0 .. MaxLoads /\ edits \in 0 .. MaxEdits

Init ==
  /\ drawn = 0
  /\ acts = [c \in Keys |-> 0]
  /\ given = {}
  /\ stored = Nothing
  /\ tab = [t \in Tabs |-> Closed]
  /\ loads = 0
  /\ edits = 0

------------------------------------------------------------------------------
(* Storage. *)

\* Data.toObject: the lists are written only if the page has a ByzCoin.
toObject(s) == IF s.bc THEN s.data ELSE [s.data EXCEPT !.lists = NoLists]

\* save: the tab goes on as s, and the storage gets all of it.
Save(t, s) ==
  /\ tab' = [tab EXCEPT ![t] = s]
  /\ stored' = toObject(s)

Move(t, s) ==
  /\ tab' = [tab EXCEPT ![t] = s]
  /\ UNCHANGED stored

\* Bug: every page draws its own key.
setValuesNewKey(obj, fresh) ==
  [obj EXCEPT !.key = fresh, !.contact = IF @ = 0 THEN fresh ELSE @, !.lists = NoLists]

\* setValues: a new key, and a contact for it, unless the object has one.
setValues(obj, fresh) ==
  IF obj.key = 0
    THEN [key |-> fresh, contact |-> fresh, contacts |-> obj.contacts, lists |-> NoLists]
    ELSE [obj EXCEPT !.lists = NoLists]

Draws(obj) == IF obj.key = 0 THEN 1 ELSE 0

------------------------------------------------------------------------------
(* Loading the page. *)

Load(t) ==
  /\ tab[t].phase = "closed"
  /\ loads < MaxLoads /\ drawn + Draws(stored) <= MaxKeys
  /\ loads' = loads + 1
  /\ drawn' = drawn + Draws(stored)
  /\ Move(t, [Closed EXCEPT !.phase = "loading", !.obj = stored,
                            !.data = setValues(stored, drawn + 1),
                            !.mine = Content(stored)])
  /\ UNCHANGED <<acts, given, edits>>

\* Bug: the lists start empty.
ListsFromNothing(s) == NoLists

\* connectByzcoin takes the lists from the object of the last setValues.
ListsFrom(s) == s.obj.lists

\* The stored contact has precedence over the one of the page.
ContactFrom(s) == IF s.obj.contact # 0 THEN s.obj.contact ELSE s.data.contact

\* connectByzcoin up to the own contact, which must be on the ledger.
connectByzcoin(t) ==
  LET s == [tab[t] EXCEPT !.bc = TRUE, !.data.lists = ListsFrom(tab[t])] IN
  /\ tab[t].phase = "loading"
  /\ acts[ContactFrom(s)] # 0
  /\ Move(t, [s EXCEPT !.phase = "contacts", !.data.contact = ContactFrom(s),
                       !.data.contacts = <<>>])
  /\ UNCHANGED <<drawn, acts, given, loads, edits>>

\* The next contact of the stored object is read.
LoadContact(t) ==
  LET s == tab[t]  n == Len(s.data.contacts) + 1 IN
  /\ s.phase = "contacts" /\ n \in DOMAIN s.obj.contacts
  /\ acts[s.obj.contacts[n]] # 0
  /\ Move(t, [s EXCEPT !.data.contacts = Append(@, s.obj.contacts[n])])
  /\ UNCHANGED <<drawn, acts, given, loads, edits>>

\* All is read: load resolves, or addID goes on to save.
Loaded(t) ==
  LET s == [tab[t] EXCEPT !.phase = "registered", !.saves = FALSE] IN
  /\ tab[t].phase = "contacts"
  /\ Len(tab[t].data.contacts) = Len(tab[t].obj.contacts)
  /\ IF tab[t].saves THEN Save(t, s) ELSE Move(t, s)
  /\ UNCHANGED <<drawn, acts, given, loads, edits>>

\* A request fails, or the own contact is not on the ledger: before ByzCoin is
\* there, before the contact is, or between two contacts.  The page shows the
\* form to register.
LoadFails(t, reached) ==
  LET s == [tab[t] EXCEPT !.phase = "unregistered", !.failed = TRUE, !.saves = FALSE] IN
  /\ \/ /\ tab[t].phase = "contacts"
        /\ Move(t, s)
     \/ /\ tab[t].phase = "loading"
        /\ Move(t, IF reached THEN [s EXCEPT !.bc = TRUE, !.data.lists = ListsFrom(s)] ELSE s)
  /\ UNCHANGED <<drawn, acts, given, loads, edits>>

------------------------------------------------------------------------------
(* The form to register. *)

\* addID with a darc: createFirstUser makes an account for a new key; then
\* connectByzcoin runs again, with the object that the page was loaded from.
AddIDFirst(t) ==
  LET n == drawn + 1 IN
  /\ tab[t].phase = "unregistered" /\ n <= MaxKeys
  /\ drawn' = n
  /\ acts' = [acts EXCEPT ![n] = n]
  /\ Move(t, [tab[t] EXCEPT !.phase = "loading", !.saves = TRUE, !.bc = TRUE,
                            !.data.key = n, !.data.contact = n])
  /\ UNCHANGED <<given, loads, edits>>

\* addID with an ephemeral key: attachAndEvolve, then save.  It may fail with
\* the evolution included or not.
AddIDAttach(t, e) ==
  /\ tab[t].phase = "unregistered" /\ e \in given /\ acts[e] = e
  /\ \E included, replied \in BOOLEAN :
       LET s == [tab[t] EXCEPT !.bc = TRUE, !.data.contact = e] IN
       /\ replied => included
       /\ acts' = IF included THEN [acts EXCEPT ![e] = tab[t].data.key] ELSE acts
       /\ IF replied THEN Save(t, [s EXCEPT !.phase = "registered"]) ELSE Move(t, s)
  /\ UNCHANGED <<drawn, given, loads, edits>>

------------------------------------------------------------------------------
(* A page that is registered. *)

\* rmContact filters; addContact removes an equal contact first.
rmContact(contacts, c) ==
  LET kept[n \in 0 .. Len(contacts)] ==
        IF n = 0 THEN <<>>
        ELSE IF contacts[n] = c THEN kept[n - 1] ELSE Append(kept[n - 1], contacts[n])
  IN  kept[Len(contacts)]
addContact(contacts, c) == Append(rmContact(contacts, c), c)

Adds(s, what) == [s EXCEPT !.mine = @ \cup {what}, !.removed = @ \ {what}]

\* createContact: an account for an ephemeral key, added, saved and shown.
CreateContact(t) ==
  LET n == drawn + 1 IN
  /\ tab[t].phase = "registered" /\ n <= MaxKeys
  /\ acts[tab[t].data.contact] = tab[t].data.key
  /\ drawn' = n
  /\ acts' = [acts EXCEPT ![n] = n]
  /\ given' = given \cup {n}
  /\ Save(t, Adds([tab[t] EXCEPT !.data.contacts = addContact(@, n)], <<"contacts", n>>))
  /\ UNCHANGED <<loads, edits>>

AddContact(t, c) ==
  /\ tab[t].phase = "registered" /\ acts[c] # 0
  /\ Save(t, Adds([tab[t] EXCEPT !.data.contacts = addContact(@, c)], <<"contacts", c>>))
  /\ UNCHANGED <<drawn, acts, given, loads, edits>>

ContactDelete(t, c) ==
  /\ tab[t].phase = "registered" /\ <<"contacts", c>> \in Content(tab[t].data)
  /\ Save(t, [tab[t] EXCEPT !.data.contacts = rmContact(@, c),
                            !.removed = @ \cup {<<"contacts", c>>}])
  /\ UNCHANGED <<drawn, acts, given, loads, edits>>

\* addParty, addRoPaSci: pushed without looking for an equal one.
AddGame(t, kind, g) ==
  /\ tab[t].phase = "registered" /\ edits < MaxEdits
  /\ edits' = edits + 1
  /\ Save(t, Adds([tab[t] EXCEPT !.data.lists[kind] = Append(@, g)], <<kind, g>>))
  /\ UNCHANGED <<drawn, acts, given, loads>>

\* delRoPaSci: the first that is equal is taken out.
DelRoPaSci(t, g) ==
  LET list == tab[t].data.lists["ropascis"]
      at   == {i \in DOMAIN list : list[i] = g}
      i    == CHOOSE k \in at : \A j \in at : k <= j
      rest == SubSeq(list, 1, i - 1) \o SubSeq(list, i + 1, Len(list))
  IN
  /\ tab[t].phase = "registered" /\ at # {}
  /\ Save(t, [tab[t] EXCEPT !.data.lists["ropascis"] = rest,
                            !.removed = @ \cup ({<<"ropascis", g>>} \ {<<"ropascis", rest[k]>> : k \in DOMAIN rest})])
  /\ UNCHANGED <<drawn, acts, given, loads, edits>>

\* Bug: the contacts stay.
deleteButContacts(s, fresh) == [setValues(Nothing, fresh) EXCEPT !.contacts = s.data.contacts]

\* Data.delete: everything is emptied, with a new key.
delete(s, fresh) == setValues(Nothing, fresh)

\* deleteUser: deleted, saved, and the page is loaded again.
DeleteUser(t) ==
  LET n == drawn + 1
      s == [Closed EXCEPT !.data = delete(tab[t], n)]
  IN
  /\ tab[t].phase = "registered" /\ n <= MaxKeys
  /\ drawn' = n
  /\ Save(t, s)
  /\ UNCHANGED <<acts, given, loads, edits>>

Close(t) ==
  /\ tab[t].phase # "closed"
  /\ Move(t, Closed)
  /\ UNCHANGED <<drawn, acts, given, loads, edits>>

Next ==
  \E t \in Tabs :
    \/ Load(t) \/ connectByzcoin(t) \/ LoadContact(t) \/ Loaded(t)
    \/ \E reached \in BOOLEAN : LoadFails(t, reached)
    \/ AddIDFirst(t) \/ CreateContact(t) \/ DeleteUser(t) \/ Close(t)
    \/ \E c \in Keys : AddIDAttach(t, c) \/ AddContact(t, c) \/ ContactDelete(t, c)
    \/ \E kind \in Kinds, g \in Games : AddGame(t, kind, g)
    \/ \E g \in Games : DelRoPaSci(t, g)

Spec == Init /\ [][Next]_vars

------------------------------------------------------------------------------
(* What the storage keeps. *)

\* A contact, party or game leaves the storage only if the user removed it, the
\* user was deleted, a load of the page that saves had failed, or the page never
\* knew of it because another tab stored it later.
LossIsExplained ==
  [][\A what \in Content(stored) \ Content(stored)' :
       \E t \in Tabs : /\ stored' = toObject(tab'[t])
                       /\ \/ tab'[t].phase = "closed"
                          \/ what \in tab'[t].removed
                          \/ tab[t].failed
                          \/ what \notin tab[t].mine]_vars

\* What comes into the storage was just added in the tab that saves, or was
\* there when that tab was loaded and another tab removed it since.  What the
\* user removed in a tab is not put back by that tab.
NothingComesBack ==
  [][\A what \in Content(stored)' \ Content(stored) :
       \E t \in Tabs : /\ stored' = toObject(tab'[t])
                       /\ what \in tab'[t].mine \ tab'[t].removed]_vars

\* The stored key acts for the stored contact, if that is on the ledger at all.
\* The exception is a first user who was registered in a page that had a stored
\* contact: the new key is stored with the old contact, although it belongs to
\* an account of its own.
StoredKeyActs ==
  stored # Nothing =>
    \/ acts[stored.contact] \in {0, stored.key}
    \/ stored.key # stored.contact /\ acts[stored.key] = stored.key /\ stored.key \notin given

==============================================================================
