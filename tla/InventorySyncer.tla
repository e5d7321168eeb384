--------------------------- MODULE InventorySyncer ---------------------------
(***************************************************************************)
(* The inventory syncer of an agent (vfm/agent/internal/inventory/         *)
(* syncer.go): it watches the cluster's objects through informers and      *)
(* reports them in a snapshot, sent chunk by chunk, and in numbered        *)
(* batches of changes on top of the snapshot they name.  Whenever a batch  *)
(* may be lost it starts a new snapshot.                                   *)
(*                                                                         *)
(* The informers' store changes at once; their event handlers hear of it   *)
(* later, in order.  The goroutine of Run starts them with the first       *)
(* request for a snapshot, and waits for their lists; it waits for room in *)
(* the outbox while it sends one, and the handlers go on meanwhile.        *)
(***************************************************************************)
EXTENDS InventoryTypes

CONSTANTS
  BatchMax,      \* Options.BatchMax
  MaxPending,    \* Options.MaxPending
  OutboxSize     \* the capacity of the manager's outbox

ASSUME SyncerAssumption ==
  BatchMax \in Nat \ {0} /\ MaxPending \in Nat \ {0} /\ OutboxSize \in Nat \ {0}

VARIABLES
  watching,    \* the informers: "no", "starting" (Run waits for their lists), "yes"
  world,       \* the objects in the informers' stores
  changes,     \* the last resource version the cluster gave out
  notices,     \* informer events whose handler has not run
  connected, resyncReq, snapshotID, batchSeq, pending, inSnapshot, reported,
  sending,     \* the snapshot being sent, and its next chunk
  outbox,      \* the inventory messages in the manager's queue
  missed       \* (history) names the messages on the snapshot will leave wrong

stores == <<world, changes>>
informers == <<watching, stores>>
batching == <<snapshotID, batchSeq, pending, inSnapshot, reported>>
syncer == <<watching, world, changes, notices, connected, resyncReq, snapshotID, batchSeq, pending,
            inSnapshot, reported, sending, outbox, missed>>

\* What objectKey makes of a listed object, and of an event.
objectKey(item) == <<item[1], item[2].uid>>
KeyOf(e) == <<e.name, e.obj.uid>>
ItemOf(e) == <<e.name, e.obj>>

Idle == [id |-> NoId, listing |-> <<>>, next |-> 0]
Sending == sending.id # NoId

Listed == {<<n, world[n]>> : n \in {m \in Names : world[m] # NoObject}}

\* The agent starts before its first stream.  The objects there are will be in
\* the informers' first lists: what changes before they start is of no account.
SyncerBegins(used, started) ==
  /\ watching = started
  /\ world \in [Names -> {NoObject} \cup [uid : {1}, rv : {1}]]
  /\ changes = used
  /\ LET first == SetToSeq(Listed)
     IN notices = [i \in DOMAIN first |->
                     [type |-> "UPSERT", name |-> first[i][1], obj |-> first[i][2]]]
  /\ connected = FALSE /\ resyncReq = FALSE
  /\ snapshotID = NoId /\ batchSeq = 0 /\ pending = <<>>
  /\ inSnapshot = {} /\ reported = {}
  /\ sending = Idle /\ outbox = <<>> /\ missed = {}

-----------------------------------------------------------------------------
(***************************************************************************)
(* Objects are created, change and go.                                     *)
(***************************************************************************)
Occurs(type, n, obj) ==
  /\ watching # "no" /\ changes < MaxChanges
  /\ changes' = changes + 1
  /\ notices' = Append(notices, [type |-> type, name |-> n, obj |-> obj])
  /\ UNCHANGED <<watching, connected, resyncReq, batching, sending, outbox, missed>>

Upsert(n) ==
  LET uid == IF world[n] = NoObject THEN changes + 1 ELSE world[n].uid
      obj == [uid |-> uid, rv |-> changes + 1]
  IN world' = [world EXCEPT ![n] = obj] /\ Occurs("UPSERT", n, obj)

Delete(n) ==
  /\ world[n] # NoObject
  /\ world' = [world EXCEPT ![n] = NoObject]
  /\ Occurs("DELETE", n, world[n])

-----------------------------------------------------------------------------
(***************************************************************************)
(* The handler of an informer event.  It ignores what the control plane    *)
(* was not told of or already has, and a queue that is full is dropped     *)
(* whole in favour of a new snapshot.                                      *)
(***************************************************************************)
Ignored(e) ==
  \/ ~connected
  \/ e.type = "DELETE" /\ KeyOf(e) \notin reported
  \/ e.type = "UPSERT" /\ ItemOf(e) \in inSnapshot

Forget(items, e) == {i \in items : objectKey(i) # KeyOf(e)}

\* A deletion is ignored though the snapshot being sent shows the object.
Swallows(e) ==
  connected /\ e.type = "DELETE" /\ \E i \in ToSet(sending.listing) : objectKey(i) = KeyOf(e)

\* An object is reported whose successor of the same name the snapshot shows.
Outdates(e, items) ==
  e.type = "UPSERT" /\ \E i \in items : i[1] = e.name /\ i[2].uid > e.obj.uid

Ignore(e) ==
  /\ Ignored(e)
  /\ missed' = IF Swallows(e) THEN missed \cup {e.name} ELSE missed
  /\ UNCHANGED <<batching, resyncReq>>

Overflow(e) ==
  /\ ~Ignored(e) /\ Len(pending) >= MaxPending
  /\ inSnapshot' = Forget(inSnapshot, e)
  /\ pending' = <<>> /\ snapshotID' = NoId /\ resyncReq' = TRUE
  /\ UNCHANGED <<batchSeq, reported, missed>>

Enqueue(e) ==
  /\ ~Ignored(e) /\ Len(pending) < MaxPending
  /\ inSnapshot' = Forget(inSnapshot, e)
  /\ reported' = IF e.type = "DELETE" THEN reported \ {KeyOf(e)} ELSE reported \cup {KeyOf(e)}
  /\ pending' = Append(pending, e)
  /\ missed' = IF Outdates(e, inSnapshot) THEN missed \cup {e.name} ELSE missed
  /\ UNCHANGED <<snapshotID, batchSeq, resyncReq>>

HandleNotice ==
  /\ watching # "no" /\ notices # <<>>
  /\ notices' = Tail(notices)
  /\ LET e == Head(notices) IN Ignore(e) \/ Overflow(e) \/ Enqueue(e)
  /\ UNCHANGED <<informers, connected, sending, outbox>>

-----------------------------------------------------------------------------
(***************************************************************************)
(* The connection manager tells of a stream that was accepted or has       *)
(* ended; the control plane or the ticker asks for a snapshot.             *)
(***************************************************************************)
SetConnected(up) ==
  /\ connected' = up
  /\ snapshotID' = NoId /\ pending' = <<>>
  /\ resyncReq' = (resyncReq \/ up)
  /\ UNCHANGED <<informers, notices, batchSeq, inSnapshot, reported, sending, missed>>

Resync ==
  /\ resyncReq' = TRUE
  /\ UNCHANGED <<informers, notices, connected, batching, sending, outbox, missed>>

ResyncTick == connected /\ ~resyncReq /\ Resync

\* The first request is taken: whether or not the stream lasts, the informers
\* are started, and their handlers run before their lists are complete.
ensureInformers ==
  /\ watching = "no" /\ resyncReq
  /\ watching' = "starting" /\ resyncReq' = FALSE
  /\ UNCHANGED <<stores, notices, connected, batching, sending, outbox, missed>>

(***************************************************************************)
(* A snapshot is listed from the stores and sent in chunks of one object;  *)
(* an empty one is one empty chunk.                                        *)
(***************************************************************************)
StartSnapshot(id) ==
  /\ ~Sending
  /\ \/ watching = "starting" /\ watching' = "yes" /\ UNCHANGED resyncReq
     \/ watching = "yes" /\ resyncReq /\ resyncReq' = FALSE /\ UNCHANGED watching
  /\ IF connected
     THEN /\ snapshotID' = NoId
          /\ sending' = [id |-> id, listing |-> SetToSeq(Listed), next |-> 0]
          /\ missed' = {}
     ELSE UNCHANGED <<snapshotID, sending, missed>>
  /\ UNCHANGED <<stores, notices, connected, batchSeq, pending, inSnapshot, reported, outbox>>

Chunks(listing) == IF listing = <<>> THEN 1 ELSE Len(listing)

ItemsOf(listing, k) == IF listing = <<>> THEN {} ELSE {listing[k + 1]}

SendChunk ==
  /\ Sending /\ sending.next < Chunks(sending.listing)
  /\ Len(outbox) < OutboxSize
  /\ outbox' = Append(outbox,
       [what |-> "chunk", id |-> sending.id, seq |-> sending.next,
        last |-> sending.next + 1 = Chunks(sending.listing),
        items |-> ItemsOf(sending.listing, sending.next), listing |-> sending.listing])
  /\ sending' = [sending EXCEPT !.next = @ + 1]
  /\ UNCHANGED <<informers, notices, connected, resyncReq, batching, missed>>

(***************************************************************************)
(* The last chunk is queued: from now on the deltas are about this         *)
(* snapshot.  A pending event the listing already shows is dropped,        *)
(* unless an earlier one for the object is kept.                           *)
(***************************************************************************)
Repeats(items, i) == pending[i].type = "UPSERT" /\ ItemOf(pending[i]) \in items

Kept(items) ==
  {i \in DOMAIN pending :
     \E j \in 1 .. i : KeyOf(pending[j]) = KeyOf(pending[i]) /\ ~Repeats(items, j)}

InOrder(positions) ==
  CHOOSE k \in [1 .. Cardinality(positions) -> positions] :
    \A i, j \in DOMAIN k : i < j => k[i] < k[j]

FinishSnapshot ==
  /\ Sending /\ sending.next = Chunks(sending.listing)
  /\ sending' = Idle
  /\ IF connected
     THEN LET items == ToSet(sending.listing)
              kept == InOrder(Kept(items))
              events == [k \in DOMAIN kept |-> pending[kept[k]]]
          IN /\ snapshotID' = sending.id /\ batchSeq' = 0
             /\ pending' = events
             /\ inSnapshot' = {i \in items : \A e \in ToSet(events) : KeyOf(e) # objectKey(i)}
             /\ reported' = {objectKey(i) : i \in items}
                              \cup {KeyOf(e) : e \in {x \in ToSet(events) : x.type = "UPSERT"}}
             /\ missed' = missed \cup {e.name : e \in {x \in ToSet(events) : Outdates(x, items)}}
     ELSE UNCHANGED <<batching, missed>>
  /\ UNCHANGED <<informers, notices, connected, resyncReq, outbox>>

(***************************************************************************)
(* The batcher wakes and sends up to BatchMax of the pending events.  A    *)
(* batch the outbox refuses is lost and a new snapshot must make up for    *)
(* it.  The timer runs on while events are pending.                        *)
(***************************************************************************)
Batch(n) ==
  [what |-> "events", id |-> snapshotID, seq |-> batchSeq + 1, events |-> SubSeq(pending, 1, n)]

\* Mutant: a batch that was refused is not counted, and no snapshot makes up for it.
Flush_Forgets ==
  /\ ~Sending
  /\ snapshotID # NoId /\ pending # <<>>
  /\ pending' = SubSeq(pending, 2, Len(pending))
  /\ IF Len(outbox) < OutboxSize
     THEN outbox' = Append(outbox, Batch(1)) /\ batchSeq' = batchSeq + 1
     ELSE UNCHANGED <<outbox, batchSeq>>
  /\ UNCHANGED <<informers, notices, connected, resyncReq, snapshotID, inSnapshot, reported,
                 sending, missed>>

Flush ==
  /\ ~Sending
  /\ snapshotID # NoId /\ pending # <<>>
  /\ LET n == IF Len(pending) < BatchMax THEN Len(pending) ELSE BatchMax
         rest == SubSeq(pending, n + 1, Len(pending))
     IN \/ /\ Len(outbox) < OutboxSize
           /\ outbox' = Append(outbox, Batch(n))
           /\ pending' = rest
           /\ UNCHANGED <<snapshotID, resyncReq>>
        \/ /\ Len(outbox) = OutboxSize
           /\ pending' = <<>> /\ snapshotID' = NoId /\ resyncReq' = TRUE
           /\ UNCHANGED outbox
  /\ batchSeq' = batchSeq + 1
  /\ UNCHANGED <<informers, notices, connected, inSnapshot, reported, sending, missed>>

-----------------------------------------------------------------------------
SyncerTypeOK ==
  /\ watching \in {"no", "starting", "yes"}
  /\ world \in [Names -> Object \cup {NoObject}] /\ changes \in 1 .. MaxChanges
  /\ notices \in Seq(ResourceEvent)
  /\ connected \in BOOLEAN /\ resyncReq \in BOOLEAN
  /\ snapshotID \in SnapshotIds \cup {NoId} /\ batchSeq \in Nat
  /\ pending \in Seq(ResourceEvent) /\ Len(pending) <= MaxPending
  /\ inSnapshot \subseteq Item /\ reported \subseteq Names \X (1 .. MaxChanges)
  /\ sending \in [id : SnapshotIds \cup {NoId}, listing : Seq(Item), next : Nat]
  /\ outbox \in Seq(Message) /\ Len(outbox) <= OutboxSize
  /\ missed \subseteq Names
=============================================================================
