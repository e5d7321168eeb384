----------------------------- MODULE MCInventory -----------------------------
(***************************************************************************)
(* Small instances of Inventory for TLC.  Together they are too large, so  *)
(* one of them has all the changes, one has both streams, and so on: what  *)
(* an instance is not to see was used up before it begins.                 *)
(***************************************************************************)
EXTENDS Inventory

CONSTANTS n1, n2, r1, r2

Objects == {n \in Names : world[n] # NoObject}

MixedInit ==
  \/ InventoryBegins(MaxChanges, 0, 0) /\ Objects = {n1, n2}
  \/ InventoryBegins(MaxChanges - 1, MaxStreams - 1, MaxFaults) /\ Objects = {n1, n2}
  \/ InventoryBegins(1, MaxStreams - 1, MaxFaults) /\ Objects \subseteq {n1}
  \/ InventoryBegins(MaxChanges - 1, 0, MaxFaults) /\ Objects \subseteq {n1}

(***************************************************************************)
(* Only n1 comes to exist; and replicas are alike, so that a stream that   *)
(* opens when no other is open might as well be on r1.                     *)
(***************************************************************************)
MixedNext ==
  /\ InventoryNext
  /\ world[n2] = NoObject => world'[n2] = NoObject
  /\ home = [s \in Streams |-> NoReplica] => \A s \in Streams : home'[s] \in {NoReplica, r1}

MixedSpec == MixedInit /\ [][MixedNext]_vars /\ InventoryFairness
=============================================================================
