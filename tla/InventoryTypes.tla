---------------------------- MODULE InventoryTypes ----------------------------
(***************************************************************************)
(* What the agent's syncer and the control plane's store of inventory      *)
(* share: objects, events, and the messages of a stream                    *)
(* (vfm/packages/proto, inventory.proto).  The resource version of an      *)
(* object is unique in its cluster; its uid is the version it was created  *)
(* with.                                                                   *)
(***************************************************************************)
EXTENDS Integers, Sequences, FiniteSets, SequencesExt

CONSTANTS
  Names,         \* kind, namespace and name of an object
  NoObject,      \* there is no object of a name
  SnapshotIds, NoId,
  MaxChanges     \* changes of objects in the cluster (a bound)

Object == [uid : 1 .. MaxChanges, rv : 1 .. MaxChanges]

ASSUME InventoryAssumption ==
  /\ NoId \notin SnapshotIds /\ NoObject \notin Object
  /\ IsFiniteSet(Names) /\ MaxChanges \in Nat \ {0}

ResourceEvent == [type : {"UPSERT", "DELETE"}, name : Names, obj : Object]

\* An object as it is listed.
Item == Names \X Object

\* A chunk remembers (history) the listing it was cut from.
Message ==
  [what : {"chunk"}, id : SnapshotIds, seq : Nat, last : BOOLEAN, items : SUBSET Item,
   listing : Seq(Item)]
    \cup [what : {"events"}, id : SnapshotIds, seq : Nat, events : Seq(ResourceEvent)]
=============================================================================
