------------------------------- MODULE Account -------------------------------
(***************************************************************************)
(* What signing up promises: an account is created for an ephemeral key,   *)
(* and one key of a device takes it over.  After that nobody else does, by *)
(* means of the ephemeral key.                                             *)
(***************************************************************************)
CONSTANTS
  Ephemerals,  \* the ephemeral keys, one account each
  DeviceKeys   \* the keys of the devices

VARIABLE
  owners       \* owners[k]: the keys that act for the account of k

Init == owners = [k \in Ephemerals |-> {}]

Create(k) ==
  /\ owners[k] = {}
  /\ owners' = [owners EXCEPT ![k] = {k}]

TakeOver(k, key) ==
  /\ owners[k] = {k}
  /\ owners' = [owners EXCEPT ![k] = {key}]

Next ==
  \E k \in Ephemerals : Create(k) \/ \E key \in DeviceKeys : TakeOver(k, key)

Spec == Init /\ [][Next]_owners

==============================================================================
