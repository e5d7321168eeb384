---------------------------- MODULE InventoryProofs ----------------------------
(***************************************************************************)
(* Why the control plane writes whole listings only, and why the deletion  *)
(* of an object leaves its successor alone, for any numbers of names,      *)
(* changes, streams, replicas and failed transactions and any sizes of the *)
(* batches, the queues and the outbox.                                     *)
(***************************************************************************)
EXTENDS Inventory, DataLemmas

Tables == [Names -> Object \cup {NoObject, Gone}]
Assembly == [id : SnapshotIds \cup {NoId}, next : Nat, rows : SUBSET Item]

StoreTypeOK ==
  /\ table \in Tables
  /\ home \in [Streams -> Replicas \cup {NoReplica}]
  /\ wire \in [Streams -> Seq(Message)]
  /\ work \in [Streams -> Work]
  /\ states \in [Replicas -> Streams \cup {NoStream}]
  /\ assembly \in [Streams -> Assembly]
  /\ completedId \in [Streams -> SnapshotIds \cup {NoId}]
  /\ lastBatch \in [Streams -> Nat]
  /\ faults \in 0 .. MaxFaults

SessionTypeOK ==
  /\ session \in {"down", "dialing", "accepted"} /\ current \in 0 .. MaxStreams
  /\ overwritten \in BOOLEAN
  /\ connected = (session = "accepted")

\* There is another stream for the session that is being dialled.
DialsNext == session = "dialing" => current < MaxStreams

SessionOK == SessionTypeOK /\ DialsNext

TypesOK == SyncerTypeOK /\ StoreTypeOK /\ SessionOK

LEMMA TypesMean == TypesOK => InventoryTypeOK
BY DEF TypesOK, SessionOK, InventoryTypeOK, StoreTypeOK, SessionTypeOK, Tables, Assembly

-----------------------------------------------------------------------------
(***************************************************************************)
(* What is listed, and what is kept of the pending events.                 *)
(***************************************************************************)
LEMMA ListedType ==
  ASSUME world \in [Names -> Object \cup {NoObject}]
  PROVE  /\ Listed \subseteq Item /\ IsFiniteSet(Listed)
         /\ SetToSeq(Listed) \in Seq(Item) /\ ToSet(SetToSeq(Listed)) = Listed
<1> DEFINE D == {m \in Names : world[m] # NoObject}
           f == [m \in D |-> <<m, world[m]>>]
<1>1. \A m \in D : <<m, world[m]>> \in Item
  BY DEF Item
<1>2. Listed \subseteq Item
  BY <1>1 DEF Listed
<1>3. f \in Surjection(D, Listed)
  BY DEF Surjection, Listed
<1>4. IsFiniteSet(D)
  BY FS_Subset, InventoryAssumption
<1>5. IsFiniteSet(Listed)
  <2> HIDE DEF D, f
  <2> QED
    BY <1>3, <1>4, FS_Surjection
<1>6. SetToSeq(Listed) \in Seq(Listed) /\ ToSet(SetToSeq(Listed)) = Listed
  BY <1>5, SetInOrder
<1> QED
  BY <1>2, <1>5, <1>6, SeqMonotonic

LEMMA KeptType ==
  ASSUME pending \in Seq(ResourceEvent), NEW items
  PROVE  LET kept == InOrder(Kept(items))
             events == [k \in DOMAIN kept |-> pending[kept[k]]]
         IN /\ kept \in [1 .. Cardinality(Kept(items)) -> Kept(items)]
            /\ Cardinality(Kept(items)) \in Nat /\ Cardinality(Kept(items)) <= Len(pending)
            /\ Increasing(kept) /\ \A x \in Kept(items) : \E i \in DOMAIN kept : kept[i] = x
            /\ events \in Seq(ResourceEvent) /\ Len(events) <= Len(pending)
            /\ ToSet(events) = {pending[i] : i \in Kept(items)}
<1> DEFINE K == Kept(items)
           c == Cardinality(K)
           kept == InOrder(K)
           events == [k \in DOMAIN kept |-> pending[kept[k]]]
<1>1. Len(pending) \in Nat /\ DOMAIN pending = 1 .. Len(pending) /\ K \in SUBSET (1 .. Len(pending))
  BY LenProperties DEF Kept
<1>2. IsFiniteSet(K) /\ c \in Nat /\ c <= Len(pending)
  <2>1. IsFiniteSet(1 .. Len(pending)) /\ Cardinality(1 .. Len(pending)) = Len(pending)
    BY <1>1, FirstNumbers
  <2> HIDE DEF K
  <2>2. IsFiniteSet(K) /\ Cardinality(K) <= Cardinality(1 .. Len(pending))
    BY <1>1, <2>1, FS_Subset
  <2> QED
    BY <2>1, <2>2, FS_CardinalityType
<1>3. kept \in [1 .. c -> K] /\ Increasing(kept)
  <2> DEFINE Good(k) == \A i, j \in DOMAIN k : i < j => k[i] < k[j]
  <2>1. \E k \in [1 .. c -> K] : Good(k)
    <3> HIDE DEF K
    <3> QED
      BY <1>1, OrderExists DEF Increasing
  <2>2. kept = CHOOSE k \in [1 .. c -> K] : Good(k)
    BY DEF InOrder
  <2> HIDE DEF kept, K, c, Good
  <2>3. kept \in [1 .. c -> K] /\ Good(kept)
    BY <2>1, <2>2
  <2> QED
    BY <2>3 DEF Increasing, Good
<1>4. \A x \in K : \E i \in DOMAIN kept : kept[i] = x
  <2> HIDE DEF kept, K, c
  <2>1. kept \in Injection(1 .. c, K)
    <3>1. ASSUME NEW i \in 1 .. c, NEW j \in 1 .. c, kept[i] = kept[j] PROVE i = j
      <4>1. kept[i] \in 1 .. Len(pending) /\ kept[j] \in 1 .. Len(pending)
        BY <1>1, <1>3
      <4>2. ~(i < j) /\ ~(j < i)
        BY <4>1, <3>1, <1>3 DEF Increasing
      <4> QED
        BY <4>2, <1>2
    <3> QED
      BY <3>1, <1>3 DEF Injection, IsInjective
  <2>2. kept \in Surjection(1 .. c, K)
    BY <1>2, <2>1, FirstNumbers, FS_Injection DEF c
  <2> QED
    BY <2>2 DEF Surjection
<1>5. \A i \in 1 .. c : kept[i] \in 1 .. Len(pending) /\ pending[kept[i]] \in ResourceEvent
  <2> HIDE DEF kept, K, c
  <2>1. \A i \in 1 .. c : kept[i] \in 1 .. Len(pending)
    BY <1>1, <1>3
  <2> QED
    BY <2>1, ElementOfSeq
<1>6. events \in Seq(ResourceEvent) /\ Len(events) = c
  <2>1. DOMAIN kept = 1 .. c
    BY <1>3
  <2>2. events \in [1 .. c -> ResourceEvent]
    <3> HIDE DEF kept, K, c
    <3> QED
      BY <1>5, <2>1
  <2> HIDE DEF kept, K, c, events
  <2> QED
    BY <2>2, <1>2, IsASeq
<1>7. ToSet(events) = {pending[i] : i \in K}
  <2>1. DOMAIN kept = 1 .. c
    BY <1>3
  <2>2. ToSet(events) = {pending[kept[k]] : k \in 1 .. c}
    <3> HIDE DEF kept, K, c
    <3> QED
      BY <2>1 DEF ToSet
  <2> HIDE DEF kept, K, c, events
  <2> QED
    BY <2>1, <2>2, <1>3, <1>4
<1> QED
  BY <1>2, <1>3, <1>4, <1>6, <1>7

-----------------------------------------------------------------------------
(***************************************************************************)
(* Types, by action.                                                       *)
(***************************************************************************)
LEMMA EventType ==
  ASSUME NEW e \in ResourceEvent
  PROVE  /\ e.type \in {"UPSERT", "DELETE"} /\ e.name \in Names /\ e.obj \in Object
         /\ KeyOf(e) \in Names \X (1 .. MaxChanges) /\ ItemOf(e) \in Item
BY DEF ResourceEvent, KeyOf, ItemOf, Item, Object

LEMMA ItemType ==
  ASSUME NEW i \in Item
  PROVE  /\ i[1] \in Names /\ i[2] \in Object /\ i = <<i[1], i[2]>>
         /\ objectKey(i) \in Names \X (1 .. MaxChanges)
BY DEF Item, objectKey, Object

LEMMA OccursTyped ==
  ASSUME SyncerTypeOK, NEW type \in {"UPSERT", "DELETE"}, NEW n \in Names, NEW obj \in Object,
         Occurs(type, n, obj), world' \in [Names -> Object \cup {NoObject}]
  PROVE  SyncerTypeOK'
<1> DEFINE e == [type |-> type, name |-> n, obj |-> obj]
<1>1. e \in ResourceEvent
  BY DEF ResourceEvent
<1>2. notices' \in Seq(ResourceEvent)
  <2> HIDE DEF e
  <2>1. notices' = Append(notices, e)
    BY DEF Occurs, e
  <2> QED
    BY <1>1, <2>1, AppendSet DEF SyncerTypeOK
<1>3. changes' \in 1 .. MaxChanges
  BY InventoryAssumption DEF Occurs, SyncerTypeOK
<1> QED
  BY <1>2, <1>3 DEF Occurs, SyncerTypeOK, batching

LEMMA WorldTyped ==
  ASSUME SyncerTypeOK, NEW n \in Names, Upsert(n) \/ Delete(n)
  PROVE  SyncerTypeOK'
<1>1. world[n] # NoObject => world[n] \in Object /\ world[n].uid \in 1 .. MaxChanges
  BY DEF SyncerTypeOK, Object
<1>2. CASE Upsert(n)
  <2> DEFINE obj == [uid |-> IF world[n] = NoObject THEN changes + 1 ELSE world[n].uid,
                     rv |-> changes + 1]
  <2>1. changes + 1 \in 1 .. MaxChanges
    BY <1>2, InventoryAssumption DEF Upsert, Occurs, SyncerTypeOK
  <2>2. obj \in Object
    BY <1>1, <2>1 DEF Object
  <2>3. Occurs("UPSERT", n, obj) /\ world' = [world EXCEPT ![n] = obj]
    BY <1>2 DEF Upsert
  <2> HIDE DEF obj
  <2>4. world' \in [Names -> Object \cup {NoObject}]
    BY <2>2, <2>3 DEF SyncerTypeOK
  <2> QED
    BY <2>2, <2>3, <2>4, OccursTyped
<1>3. CASE Delete(n)
  <2>1. world' \in [Names -> Object \cup {NoObject}]
    BY <1>3 DEF Delete, SyncerTypeOK
  <2> QED
    BY <1>1, <1>3, <2>1, OccursTyped DEF Delete
<1> QED
  BY <1>2, <1>3

LEMMA HandlerTyped == SyncerTypeOK /\ HandleNotice => SyncerTypeOK'
<1> SUFFICES ASSUME SyncerTypeOK, HandleNotice PROVE SyncerTypeOK'
  OBVIOUS
<1>1. notices # <<>> /\ notices \in Seq(ResourceEvent)
  BY DEF HandleNotice, SyncerTypeOK
<1>2. PICK e \in ResourceEvent : e = Head(notices) /\ (Ignore(e) \/ Overflow(e) \/ Enqueue(e))
  BY <1>1, TailSet DEF HandleNotice
<1>3. notices' \in Seq(ResourceEvent)
  BY <1>1, TailSet DEF HandleNotice
<1>4. e.name \in Names /\ KeyOf(e) \in Names \X (1 .. MaxChanges)
  BY EventType
<1>5. UNCHANGED <<informers, connected, sending, outbox>>
  BY DEF HandleNotice
<1>6. CASE Ignore(e)
  BY <1>3, <1>4, <1>5, <1>6 DEF Ignore, SyncerTypeOK, stores, informers, batching
<1>7. CASE Overflow(e)
  <2>1. <<>> \in Seq(ResourceEvent) /\ Len(<<>>) = 0 /\ 0 <= MaxPending
    BY EmptySeq, SyncerAssumption
  <2> QED
    BY <2>1, <1>3, <1>4, <1>5, <1>7 DEF Overflow, SyncerTypeOK, stores, informers, Forget
<1>8. CASE Enqueue(e)
  <2>1. pending' \in Seq(ResourceEvent) /\ Len(pending') = Len(pending) + 1
    BY <1>8, AppendSet DEF Enqueue, SyncerTypeOK
  <2>2. Len(pending) \in Nat /\ Len(pending) < MaxPending /\ MaxPending \in Nat
    BY <1>8, SyncerAssumption, LenProperties DEF Enqueue, SyncerTypeOK
  <2>3. Len(pending') <= MaxPending
    BY <2>1, <2>2
  <2>4. reported' \subseteq Names \X (1 .. MaxChanges) /\ inSnapshot' \subseteq Item /\ missed' \subseteq Names
    BY <1>4, <1>8 DEF Enqueue, SyncerTypeOK, Forget
  <2> QED
    BY <2>1, <2>3, <2>4, <1>3, <1>5, <1>8 DEF Enqueue, SyncerTypeOK, stores, informers
<1> QED
  BY <1>2, <1>6, <1>7, <1>8

LEMMA ConnectedTyped ==
  ASSUME SyncerTypeOK, NEW up \in BOOLEAN, SetConnected(up), outbox' = outbox
  PROVE  SyncerTypeOK'
<1>1. <<>> \in Seq(ResourceEvent) /\ Len(<<>>) = 0 /\ 0 <= MaxPending
  BY EmptySeq, SyncerAssumption
<1> QED
  BY <1>1 DEF SetConnected, SyncerTypeOK, stores, informers

LEMMA TickTyped == SyncerTypeOK /\ ResyncTick => SyncerTypeOK'
BY DEF ResyncTick, Resync, SyncerTypeOK, stores, informers, batching

LEMMA WatchTyped == SyncerTypeOK /\ ensureInformers => SyncerTypeOK'
BY DEF ensureInformers, SyncerTypeOK, stores, batching

LEMMA StartTyped ==
  ASSUME SyncerTypeOK, NEW id \in SnapshotIds, StartSnapshot(id)
  PROVE  SyncerTypeOK'
<1>1. SetToSeq(Listed) \in Seq(Item)
  BY ListedType DEF SyncerTypeOK
<1>4. resyncReq' \in BOOLEAN /\ watching' \in {"no", "starting", "yes"}
  BY DEF StartSnapshot, SyncerTypeOK
<1>2. CASE connected
  <2>1. sending' = [id |-> id, listing |-> SetToSeq(Listed), next |-> 0]
    BY <1>2 DEF StartSnapshot
  <2>2. sending' \in [id : SnapshotIds \cup {NoId}, listing : Seq(Item), next : Nat]
    BY <1>1, <2>1
  <2>3. snapshotID' = NoId /\ missed' = {}
    BY <1>2 DEF StartSnapshot
  <2> QED
    BY <2>2, <2>3, <1>4 DEF StartSnapshot, SyncerTypeOK, stores, informers
<1>3. CASE ~connected
  BY <1>3, <1>4 DEF StartSnapshot, SyncerTypeOK, stores, informers
<1> QED
  BY <1>2, <1>3

\* What a chunk carries of its listing.
LEMMA ItemsType ==
  ASSUME NEW listing \in Seq(Item), NEW k \in Nat, k < Chunks(listing)
  PROVE  /\ ItemsOf(listing, k) \subseteq Item /\ Chunks(listing) \in Nat
         /\ ItemsOf(listing, k) \subseteq ToSet(listing)
<1>1. Len(listing) \in Nat
  BY LenProperties
<1>2. CASE listing = <<>>
  BY <1>2 DEF ItemsOf, Chunks
<1>3. CASE listing # <<>>
  <2>1. k + 1 \in 1 .. Len(listing)
    BY <1>1, <1>3 DEF Chunks
  <2>2. listing[k + 1] \in Item /\ listing[k + 1] \in ToSet(listing)
    BY <2>1, ElementOfSeq, Elements
  <2> QED
    BY <1>1, <1>3, <2>2 DEF ItemsOf, Chunks
<1> QED
  BY <1>2, <1>3

LEMMA SendChunkTyped == SyncerTypeOK /\ SendChunk => SyncerTypeOK'
<1> SUFFICES ASSUME SyncerTypeOK, SendChunk PROVE SyncerTypeOK'
  OBVIOUS
<1> DEFINE m == [what |-> "chunk", id |-> sending.id, seq |-> sending.next,
                 last |-> sending.next + 1 = Chunks(sending.listing),
                 items |-> ItemsOf(sending.listing, sending.next), listing |-> sending.listing]
<1>1. sending.listing \in Seq(Item) /\ sending.next \in Nat /\ sending.id \in SnapshotIds
  BY DEF SyncerTypeOK, SendChunk, Sending
<1>2. m.items \subseteq Item
  BY <1>1, ItemsType DEF SendChunk
<1>3. m \in Message
  BY <1>1, <1>2 DEF Message
<1>4. outbox' = Append(outbox, m) /\ Len(outbox) < OutboxSize
  BY DEF SendChunk
<1> HIDE DEF m
<1>5. outbox' \in Seq(Message) /\ Len(outbox') = Len(outbox) + 1 /\ Len(outbox) \in Nat
  BY <1>3, <1>4, AppendSet, LenProperties DEF SyncerTypeOK
<1>6. Len(outbox') <= OutboxSize
  BY <1>4, <1>5, SyncerAssumption
<1>7. sending' \in [id : SnapshotIds \cup {NoId}, listing : Seq(Item), next : Nat]
  <2>1. sending.next + 1 \in Nat
    BY <1>1
  <2> QED
    BY <2>1 DEF SendChunk, SyncerTypeOK
<1> QED
  BY <1>5, <1>6, <1>7 DEF SendChunk, SyncerTypeOK, stores, informers, batching

LEMMA FinishTyped == SyncerTypeOK /\ FinishSnapshot => SyncerTypeOK'
<1> SUFFICES ASSUME SyncerTypeOK, FinishSnapshot PROVE SyncerTypeOK'
  OBVIOUS
<1>1. Idle \in [id : SnapshotIds \cup {NoId}, listing : Seq(Item), next : Nat]
  BY EmptySeq DEF Idle
<1>2. sending.listing \in Seq(Item) /\ sending.id \in SnapshotIds
  BY DEF SyncerTypeOK, FinishSnapshot, Sending
<1>3. CASE connected
  <2> DEFINE items == ToSet(sending.listing)
             kept == InOrder(Kept(items))
             events == [k \in DOMAIN kept |-> pending[kept[k]]]
  <2>1. items \subseteq Item
    BY <1>2, Elements
  <2>2. events \in Seq(ResourceEvent) /\ Len(events) <= Len(pending)
    BY KeptType DEF SyncerTypeOK
  <2>3. ToSet(events) \subseteq ResourceEvent
    <3> HIDE DEF events
    <3> QED
      BY <2>2, Elements
  <2>4. /\ snapshotID' = sending.id /\ batchSeq' = 0 /\ pending' = events
        /\ inSnapshot' = {i \in items : \A e \in ToSet(events) : KeyOf(e) # objectKey(i)}
        /\ reported' = {objectKey(i) : i \in items}
                         \cup {KeyOf(e) : e \in {x \in ToSet(events) : x.type = "UPSERT"}}
        /\ missed' = missed \cup {e.name : e \in {x \in ToSet(events) : Outdates(x, items)}}
    BY <1>3 DEF FinishSnapshot
  <2> HIDE DEF events, items, kept
  <2>5. Len(pending') <= MaxPending
    <3>1. Len(pending) \in Nat /\ Len(pending) <= MaxPending /\ MaxPending \in Nat /\ Len(events) \in Nat
      BY <2>2, LenProperties, SyncerAssumption DEF SyncerTypeOK
    <3> QED
      BY <2>2, <2>4, <3>1
  <2>6. inSnapshot' \subseteq Item
    BY <2>1, <2>4
  <2>7. reported' \subseteq Names \X (1 .. MaxChanges)
    <3>1. \A i \in items : objectKey(i) \in Names \X (1 .. MaxChanges)
      BY <2>1, ItemType
    <3>2. \A e \in ToSet(events) : KeyOf(e) \in Names \X (1 .. MaxChanges)
      BY <2>3, EventType
    <3> QED
      BY <2>4, <3>1, <3>2
  <2>8. missed' \subseteq Names
    <3>1. \A e \in ToSet(events) : e.name \in Names
      BY <2>3, EventType
    <3> QED
      BY <2>4, <3>1 DEF SyncerTypeOK
  <2> QED
    BY <1>1, <1>2, <2>2, <2>4, <2>5, <2>6, <2>7, <2>8
    DEF FinishSnapshot, SyncerTypeOK, stores, informers
<1>4. CASE ~connected
  BY <1>1, <1>4 DEF FinishSnapshot, SyncerTypeOK, stores, informers, batching
<1> QED
  BY <1>3, <1>4

LEMMA FlushTyped == SyncerTypeOK /\ Flush => SyncerTypeOK'
<1> SUFFICES ASSUME SyncerTypeOK, Flush PROVE SyncerTypeOK'
  OBVIOUS
<1> DEFINE len == Len(pending)
           n == IF Len(pending) < BatchMax THEN Len(pending) ELSE BatchMax
           rest == SubSeq(pending, n + 1, Len(pending))
<1>1. /\ pending \in Seq(ResourceEvent) /\ len \in Nat /\ len # 0 /\ len <= MaxPending
      /\ MaxPending \in Nat
  BY LenProperties, EmptySeq, SyncerAssumption DEF SyncerTypeOK, Flush
<1>2. n \in 1 .. len
  BY <1>1, SyncerAssumption
<1>3. /\ SubSeq(pending, 1, n) \in Seq(ResourceEvent)
      /\ rest \in Seq(ResourceEvent) /\ Len(rest) = len - n
  <2> HIDE DEF n
  <2>1. 1 \in 1 .. len + 1 /\ n \in 1 - 1 .. len /\ n + 1 \in 1 .. len + 1 /\ len \in n + 1 - 1 .. len
    BY <1>1, <1>2
  <2>2. SubSeq(pending, 1, n) \in Seq(ResourceEvent)
    BY <1>1, <2>1, PartSet
  <2>3. rest \in Seq(ResourceEvent) /\ Len(rest) = len - (n + 1) + 1
    BY <1>1, <2>1, PartSet
  <2> QED
    BY <1>1, <1>2, <2>2, <2>3
<1>4. Len(rest) <= MaxPending
  <2> HIDE DEF n, rest, len
  <2> QED
    BY <1>1, <1>2, <1>3
<1>5. batchSeq' \in Nat
  BY DEF Flush, SyncerTypeOK
<1>6. CASE Len(outbox) < OutboxSize /\ outbox' = Append(outbox, Batch(n)) /\ pending' = rest
           /\ UNCHANGED <<snapshotID, resyncReq>>
  <2>1. Batch(n) \in Message
    <3> HIDE DEF n
    <3>1. snapshotID \in SnapshotIds /\ batchSeq + 1 \in Nat
      BY DEF Flush, SyncerTypeOK
    <3> QED
      BY <3>1, <1>3 DEF Batch, Message
  <2> HIDE DEF n, rest
  <2>2. outbox' \in Seq(Message) /\ Len(outbox') = Len(outbox) + 1 /\ Len(outbox) \in Nat
    BY <2>1, <1>6, AppendSet, LenProperties DEF SyncerTypeOK
  <2>3. Len(outbox') <= OutboxSize
    BY <1>6, <2>2, SyncerAssumption
  <2> QED
    BY <2>2, <2>3, <1>3, <1>4, <1>5, <1>6 DEF Flush, SyncerTypeOK, stores, informers
<1>7. CASE pending' = <<>> /\ snapshotID' = NoId /\ resyncReq' = TRUE /\ UNCHANGED outbox
  <2>1. <<>> \in Seq(ResourceEvent) /\ Len(<<>>) = 0 /\ 0 <= MaxPending
    BY EmptySeq, SyncerAssumption
  <2> QED
    BY <2>1, <1>5, <1>7 DEF Flush, SyncerTypeOK, stores, informers
<1> QED
  BY <1>6, <1>7 DEF Flush

-----------------------------------------------------------------------------
(***************************************************************************)
(* The rows that a batch of changes leaves.  Patched is a fold: there is a *)
(* function that takes the rows through the events one by one.             *)
(***************************************************************************)
RowsThrough(p, rows, events) ==
  /\ p \in [0 .. Len(events) -> Tables]
  /\ p[0] = rows
  /\ \A i \in 1 .. Len(events) : p[i] = Applied(p[i - 1], events[i])
  /\ Patched(rows, events) = p[Len(events)]

LEMMA AppliedType ==
  ASSUME NEW rows \in Tables, NEW e \in ResourceEvent
  PROVE  Applied(rows, e) \in Tables
BY EventType DEF Applied, Tables

LEMMA PatchedStepwise ==
  ASSUME NEW rows \in Tables, NEW events \in Seq(ResourceEvent)
  PROVE  \E p : RowsThrough(p, rows, events)
<1> DEFINE n == Len(events)
           S == 1 .. n
           c == [T \in SUBSET S |-> Max(T)]
           step == [x \in S \X Tables |-> Applied(x[2], events[x[1]])]
<1>1. n \in Nat /\ DOMAIN events = S /\ IsFiniteSet(S) /\ \A i \in S : events[i] \in ResourceEvent
  <2>1. n \in Nat /\ DOMAIN events = S
    BY LenProperties
  <2>2. IsFiniteSet(S)
    <3> HIDE DEF n
    <3> QED
      BY <2>1, FirstNumbers
  <2> QED
    BY <2>1, <2>2, ElementOfSeq
<1> HIDE DEF n
<1>2. \A T \in SUBSET S : T # {} => c[T] \in T
  BY <1>1, LargestOf
<1>3. step \in [S \X Tables -> Tables]
  BY <1>1, AppliedType
<1>4. PICK g \in [SUBSET S -> Tables] : Folds(g, S, rows, step, c)
  <2> HIDE DEF S, c, step
  <2> QED
    BY <1>1, <1>2, <1>3, FoldsExist
<1> DEFINE F(h) == [T \in SUBSET S |->
                      IF T = {} THEN rows ELSE Applied(h[T \ {Max(T)}], events[Max(T)])]
<1>5. ASSUME NEW h, Folds(h, S, rows, step, c), NEW T \in SUBSET S, T # {}, h \in [SUBSET S -> Tables]
      PROVE  h[T] = Applied(h[T \ {Max(T)}], events[Max(T)])
  <2>1. h[T] = step[<<c[T], h[T \ {c[T]}]>>] /\ c[T] = Max(T) /\ Max(T) \in S
    BY <1>5, <1>2 DEF Folds, Folded
  <2>2. h[T \ {Max(T)}] \in Tables
    BY <1>5
  <2> QED
    BY <2>1, <2>2
<1>6. g = F(g)
  <2>1. \A T \in SUBSET S : g[T] = F(g)[T]
    BY <1>4, <1>5 DEF Folds, Folded
  <2> QED
    BY <2>1, <1>4
<1>7. ASSUME NEW h, h = F(h) PROVE \A T \in SUBSET S : h[T] = g[T]
  <2> DEFINE Q == {T \in SUBSET S : h[T] # g[T]}
  <2>1. SUFFICES ASSUME Q # {} PROVE FALSE
    OBVIOUS
  <2>2. PICK T \in Q : \A U \in Q : U \subseteq T => U = T
    <3>1. Q \in SUBSET (SUBSET S)
      OBVIOUS
    <3> HIDE DEF Q, S
    <3> QED
      BY <1>1, <2>1, <3>1, MinimalSubset
  <2>3. /\ h[T] = IF T = {} THEN rows ELSE Applied(h[T \ {Max(T)}], events[Max(T)])
        /\ g[T] = IF T = {} THEN rows ELSE Applied(g[T \ {Max(T)}], events[Max(T)])
    <3>1. T \in SUBSET S
      OBVIOUS
    <3>2. F(h)[T] = (IF T = {} THEN rows ELSE Applied(h[T \ {Max(T)}], events[Max(T)]))
          /\ F(g)[T] = (IF T = {} THEN rows ELSE Applied(g[T \ {Max(T)}], events[Max(T)]))
      BY <3>1
    <3> HIDE DEF F
    <3> QED
      BY <3>2, <1>6, <1>7
  <2>4. T # {}
    BY <2>3
  <2>5. Max(T) \in T /\ T \ {Max(T)} \in SUBSET S
    <3>1. T \in SUBSET (0 .. n) /\ T \in SUBSET S
      BY <1>1
    <3>2. Max(T) \in T
      BY <2>4, <1>1, <3>1, LargestOf
    <3> QED
      BY <3>1, <3>2
  <2>6. h[T \ {Max(T)}] = g[T \ {Max(T)}]
    BY <2>2, <2>5
  <2> QED
    BY <2>2, <2>3, <2>6
<1>8. Patched(rows, events) = g[S]
  <2>1. \E h : h = F(h) /\ Patched(rows, events) = h[S]
    <3> DEFINE chosen == CHOOSE h : h = F(h)
    <3>1. chosen = F(chosen)
      <4>1. \E h : h = F(h)
        BY <1>6
      <4> HIDE DEF F
      <4> QED
        BY <4>1
    <3>2. Patched(rows, events) = chosen[S]
      BY <1>1 DEF Patched, FoldLeft, MapThenFoldSet
    <3> HIDE DEF chosen, F
    <3> QED
      BY <3>1, <3>2
  <2>2. S \in SUBSET S
    OBVIOUS
  <2> HIDE DEF F, S
  <2> QED
    BY <2>1, <2>2, <1>7
<1> DEFINE p == [i \in 0 .. n |-> g[1 .. i]]
<1>9. p \in [0 .. n -> Tables] /\ p[n] = g[S]
  <2>1. \A i \in 0 .. n : 1 .. i \in SUBSET S
    BY <1>1
  <2>2. n \in 0 .. n
    BY <1>1
  <2> QED
    BY <2>1, <2>2, <1>4
<1>10. p[0] = rows
  <2>1. 0 \in 0 .. n /\ 1 .. 0 = {} /\ {} \in SUBSET S
    BY <1>1
  <2>2. g[{}] = rows
    BY <1>4, <2>1 DEF Folds, Folded
  <2> QED
    BY <2>1, <2>2
<1>11. ASSUME NEW i \in 1 .. n PROVE p[i] = Applied(p[i - 1], events[i])
  <2>1. i \in 0 .. n /\ i - 1 \in 0 .. n /\ 1 .. i \in SUBSET S /\ 1 .. i # {}
    <3>1. i \in 0 .. n /\ i - 1 \in 0 .. n /\ 1 \in 1 .. i
      BY <1>1
    <3>2. \A j \in 1 .. i : j \in 1 .. n
      BY <1>1
    <3> QED
      BY <3>1, <3>2
  <2>2. Max(1 .. i) = i /\ (1 .. i) \ {i} = 1 .. (i - 1)
    BY <1>1, LargestOf
  <2>3. g[1 .. i] = Applied(g[(1 .. i) \ {Max(1 .. i)}], events[Max(1 .. i)])
    BY <2>1, <1>4, <1>5
  <2> QED
    BY <2>1, <2>2, <2>3
<1> QED
  <2> HIDE DEF p, S
  <2>1. RowsThrough(p, rows, events)
    BY <1>8, <1>9, <1>10, <1>11 DEF RowsThrough, n
  <2> QED
    BY <2>1

LEMMA PatchedType ==
  ASSUME NEW rows \in Tables, NEW events \in Seq(ResourceEvent)
  PROVE  Patched(rows, events) \in Tables
<1>1. PICK p : RowsThrough(p, rows, events)
  BY PatchedStepwise
<1>2. Len(events) \in 0 .. Len(events)
  BY LenProperties
<1> QED
  BY <1>1, <1>2 DEF RowsThrough

-----------------------------------------------------------------------------
(***************************************************************************)
(* Types of the store, by action.                                          *)
(***************************************************************************)
LEMMA MessageType ==
  ASSUME NEW m \in Message
  PROVE  /\ m.id \in SnapshotIds /\ m.seq \in Nat
         /\ m.what = "chunk" =>
              m.last \in BOOLEAN /\ m.items \subseteq Item /\ m.listing \in Seq(Item)
         /\ m.what = "events" => m.events \in Seq(ResourceEvent)
         /\ m.what \in {"chunk", "events"}
BY DEF Message

LEMMA WorkType ==
  ASSUME NEW w \in Work
  PROVE  /\ w.what \in {"none", "snapshot", "events"} /\ (w.what = "none" <=> w = NoWork)
         /\ w.what = "snapshot" =>
              /\ w.in \in Streams /\ w.id \in SnapshotIds /\ w.rows \subseteq Item
              /\ w.seen \in Tables /\ w.listing \in Seq(Item)
         /\ w.what = "events" =>
              w.in \in Streams /\ w.seq \in Nat /\ w.events \in Seq(ResourceEvent)
<1>1. CASE w = NoWork
  BY <1>1 DEF NoWork
<1>2. CASE w # NoWork
  <2>1. w.what \in {"snapshot", "events"}
    BY <1>2 DEF Work
  <2> QED
    BY <2>1, <1>2 DEF Work, Tables, NoWork
<1> QED
  BY <1>1, <1>2

LEMMA NoNullStream == NoStream \notin Streams /\ Streams \subseteq Nat
BY DEF NoStream, Streams

LEMMA NothingTyped == NoAssembly \in Assembly /\ NoWork \in Work /\ <<>> \in Seq(Message)
BY EmptySeq DEF NoAssembly, Assembly, Work

LEMMA HeadMessage ==
  ASSUME StoreTypeOK, NEW s \in Streams, wire[s] # <<>>
  PROVE  /\ Head(wire[s]) \in Message /\ Head(wire[s]) \in MessagesOf(s)
         /\ Tail(wire[s]) \in Seq(Message) /\ ToSet(Tail(wire[s])) \subseteq MessagesOf(s)
BY TailSet DEF StoreTypeOK, MessagesOf

LEMMA OpenTyped ==
  ASSUME StoreTypeOK, NEW s \in Streams, NEW r \in Replicas, OpenStream(s, r)
  PROVE  StoreTypeOK'
BY DEF OpenStream, StoreTypeOK, fields

LEMMA EndTyped ==
  ASSUME StoreTypeOK, NEW s \in Streams, EndStream(s)
  PROVE  StoreTypeOK'
<1>1. /\ wire' \in [Streams -> Seq(Message)] /\ assembly' \in [Streams -> Assembly]
      /\ completedId' \in [Streams -> SnapshotIds \cup {NoId}] /\ lastBatch' \in [Streams -> Nat]
      /\ home' \in [Streams -> Replicas \cup {NoReplica}]
  BY NothingTyped DEF EndStream, StoreTypeOK
<1>2. states' \in [Replicas -> Streams \cup {NoStream}]
  BY DEF EndStream, StoreTypeOK
<1> QED
  BY <1>1, <1>2 DEF EndStream, StoreTypeOK

LEMMA HearsTyped ==
  ASSUME StoreTypeOK, NEW s \in Streams, Hears(s)
  PROVE  /\ wire' \in [Streams -> Seq(Message)] /\ wire[s] # <<>>
         /\ wire' = [wire EXCEPT ![s] = Tail(@)]
         /\ UNCHANGED <<table, home, states, faults>>
BY HeadMessage DEF Hears, StoreTypeOK

LEMMA GrownType ==
  ASSUME StoreTypeOK, NEW o \in Streams, NEW m \in Message, m.what = "chunk"
  PROVE  Begun(o, m) \in Assembly /\ Grown(o, m) \in Assembly
<1>1. m.id \in SnapshotIds /\ m.seq + 1 \in Nat /\ m.items \subseteq Item
  BY MessageType
<1>2. Begun(o, m) \in Assembly
  BY <1>1, NothingTyped DEF Begun, StoreTypeOK, Assembly, NoAssembly
<1> QED
  BY <1>1, <1>2 DEF Grown, Assembly

LEMMA HeardTyped ==
  ASSUME StoreTypeOK, NEW s \in Streams, NEW o \in Streams, NEW m \in Message,
         \/ RefuseChunk(s, o, m) \/ TakeChunk(s, o, m)
         \/ RefuseEvents(s, o, m) \/ TakeEvents(s, o, m)
  PROVE  StoreTypeOK'
<1>0. Hears(s)
  BY DEF RefuseChunk, TakeChunk, RefuseEvents, TakeEvents, HearsChunk, HearsEvents
<1>1. wire' \in [Streams -> Seq(Message)] /\ UNCHANGED <<table, home, states, faults>>
  BY <1>0, HearsTyped
<1>2. CASE RefuseChunk(s, o, m)
  BY <1>1, <1>2, NothingTyped DEF RefuseChunk, HearsChunk, StoreTypeOK
<1>3. CASE TakeChunk(s, o, m)
  <2>1. m.what = "chunk" /\ Grown(o, m) \in Assembly /\ UNCHANGED <<completedId, lastBatch>>
    BY <1>3, GrownType DEF TakeChunk, HearsChunk
  <2>2. assembly' \in [Streams -> Assembly]
    BY <1>3, <2>1, NothingTyped DEF TakeChunk, StoreTypeOK
  <2>3. work' \in [Streams -> Work]
    <3>1. CASE m.last /\ ~TooLarge(o, m)
      <4> DEFINE w == [what |-> "snapshot", in |-> o, id |-> m.id, rows |-> Grown(o, m).rows,
                       seen |-> table, listing |-> m.listing]
      <4>1. w \in Work
        BY <2>1, MessageType DEF Work, Assembly, StoreTypeOK, Tables
      <4>2. work' = [work EXCEPT ![s] = w]
        BY <1>3, <3>1 DEF TakeChunk, Awaits
      <4> HIDE DEF w
      <4> QED
        BY <4>1, <4>2 DEF StoreTypeOK
    <3>2. CASE ~(m.last /\ ~TooLarge(o, m))
      BY <1>3, <3>2 DEF TakeChunk, StoreTypeOK
    <3> QED
      BY <3>1, <3>2
  <2> QED
    BY <1>1, <2>1, <2>2, <2>3 DEF StoreTypeOK
<1>4. CASE RefuseEvents(s, o, m)
  BY <1>1, <1>4 DEF RefuseEvents, HearsEvents, StoreTypeOK
<1>5. CASE TakeEvents(s, o, m)
  <2>1. m.what = "events" /\ UNCHANGED <<assembly, lastBatch, completedId>>
    BY <1>5 DEF TakeEvents, HearsEvents
  <2>2. work' \in [Streams -> Work]
    <3>1. CASE m.seq = lastBatch[o] + 1
      <4> DEFINE w == [what |-> "events", in |-> o, seq |-> m.seq, events |-> m.events]
      <4>1. w \in Work
        BY <2>1, MessageType DEF Work
      <4>2. work' = [work EXCEPT ![s] = w]
        BY <1>5, <3>1 DEF TakeEvents, Awaits
      <4> HIDE DEF w
      <4> QED
        BY <4>1, <4>2 DEF StoreTypeOK
    <3>2. CASE m.seq # lastBatch[o] + 1
      BY <1>5, <3>2 DEF TakeEvents, StoreTypeOK
    <3> QED
      BY <3>1, <3>2
  <2> QED
    BY <1>1, <2>1, <2>2 DEF StoreTypeOK
<1> QED
  BY <1>2, <1>3, <1>4, <1>5

LEMMA RowOfType ==
  ASSUME NEW rows \in SUBSET Item, NEW n \in Names
  PROVE  RowOf(rows, n) \in Object \cup {NoObject}
<1>1. CASE \E i \in rows : i[1] = n
  <2>1. (CHOOSE i \in rows : i[1] = n) \in rows
    BY <1>1
  <2> QED
    BY <1>1, <2>1, ItemType DEF RowOf
<1>2. CASE ~ \E i \in rows : i[1] = n
  BY <1>2 DEF RowOf
<1> QED
  BY <1>1, <1>2

LEMMA WriteTyped ==
  ASSUME StoreTypeOK, NEW s \in Streams, CommitSnapshot(s) \/ CommitEvents(s) \/ FailWork(s)
  PROVE  StoreTypeOK'
<1>1. work[s] \in Work
  BY DEF StoreTypeOK
<1>2. work' = [work EXCEPT ![s] = NoWork] /\ work' \in [Streams -> Work]
  BY NothingTyped DEF CommitSnapshot, CommitEvents, FailWork, Awaits, StoreTypeOK
<1>3. CASE CommitSnapshot(s)
  <2> DEFINE w == work[s]
  <2>1. w.in \in Streams /\ w.id \in SnapshotIds /\ w.rows \subseteq Item
    BY <1>1, <1>3, WorkType DEF CommitSnapshot
  <2>2. Written(w) \in Tables
    BY <2>1, RowOfType DEF Written, StoreTypeOK, Tables
  <2>3. /\ table' = Written(w) /\ completedId' = [completedId EXCEPT ![w.in] = w.id]
        /\ lastBatch' = [lastBatch EXCEPT ![w.in] = 0]
        /\ UNCHANGED <<home, wire, states, assembly, faults>>
    BY <1>3 DEF CommitSnapshot
  <2> HIDE DEF w
  <2> QED
    BY <1>2, <2>1, <2>2, <2>3 DEF StoreTypeOK
<1>4. CASE CommitEvents(s)
  <2>1. work[s].in \in Streams /\ work[s].seq \in Nat /\ work[s].events \in Seq(ResourceEvent)
    BY <1>1, <1>4, WorkType DEF CommitEvents
  <2>2. table' \in Tables
    BY <2>1, <1>4, PatchedType DEF CommitEvents, StoreTypeOK
  <2> QED
    BY <1>2, <1>4, <2>1, <2>2 DEF CommitEvents, StoreTypeOK
<1>5. CASE FailWork(s)
  <2>1. faults' \in 0 .. MaxFaults
    BY <1>5, StoreAssumption DEF FailWork, StoreTypeOK
  <2> QED
    BY <1>2, <1>5, <2>1 DEF FailWork, StoreTypeOK, fields
<1> QED
  BY <1>3, <1>4, <1>5

-----------------------------------------------------------------------------
(***************************************************************************)
(* The composition keeps its types.                                        *)
(***************************************************************************)
LEMMA InitTyped == InventoryInit => TypesOK
<1> SUFFICES ASSUME InventoryInit PROVE TypesOK
  OBVIOUS
<1>1. SyncerBegins(1, "no") /\ StoreBegins(0)
  BY DEF InventoryInit, InventoryBegins
<1>2. StoreTypeOK
  BY <1>1, NothingTyped, StoreAssumption DEF StoreBegins, StoreTypeOK, Tables
<1>3. world \in [Names -> Object \cup {NoObject}]
  BY <1>1, InventoryAssumption DEF SyncerBegins, Object
<1>4. notices \in Seq(ResourceEvent)
  <2> DEFINE first == SetToSeq(Listed)
             news == [i \in DOMAIN first |->
                        [type |-> "UPSERT", name |-> first[i][1], obj |-> first[i][2]]]
  <2>1. first \in Seq(Item)
    BY <1>3, ListedType
  <2> HIDE DEF first
  <2>2. Len(first) \in Nat /\ DOMAIN first = 1 .. Len(first)
        /\ \A i \in 1 .. Len(first) : first[i] \in Item
    BY <2>1, LenProperties, ElementOfSeq
  <2>3. news \in [1 .. Len(first) -> ResourceEvent]
    BY <2>2, ItemType DEF ResourceEvent
  <2>4. notices = news
    BY <1>1 DEF SyncerBegins, first
  <2> HIDE DEF news
  <2> QED
    BY <2>2, <2>3, <2>4, IsASeq
<1>5. SyncerTypeOK
  <2>1. <<>> \in Seq(ResourceEvent) /\ <<>> \in Seq(Item) /\ <<>> \in Seq(Message) /\ Len(<<>>) = 0
        /\ 0 <= MaxPending /\ 0 <= OutboxSize /\ 1 \in 1 .. MaxChanges
    BY EmptySeq, SyncerAssumption, InventoryAssumption
  <2> QED
    BY <1>1, <1>3, <1>4, <2>1 DEF SyncerBegins, SyncerTypeOK, Idle
<1>6. SessionOK
  <2>1. 0 \in 0 .. MaxStreams
    BY StoreAssumption
  <2>2. session = "down" /\ current = 0 /\ overwritten = FALSE /\ connected = FALSE
    BY <1>1 DEF InventoryInit, InventoryBegins, SyncerBegins, NoStream
  <2> QED
    BY <2>1, <2>2 DEF SessionOK, SessionTypeOK, DialsNext
<1> QED
  BY <1>2, <1>5, <1>6 DEF TypesOK

\* What is left alone keeps its type.
LEMMA SyncerStays == SyncerTypeOK /\ UNCHANGED syncer => SyncerTypeOK'
BY DEF SyncerTypeOK, syncer

LEMMA StoreStays == StoreTypeOK /\ UNCHANGED store => StoreTypeOK'
BY DEF StoreTypeOK, store, fields

LEMMA SessionStays ==
  SessionOK /\ connected' = connected /\ UNCHANGED <<session, current>>
    /\ overwritten' \in BOOLEAN => SessionOK'
BY DEF SessionOK, SessionTypeOK, DialsNext

LEMMA OutboxTyped ==
  ASSUME SyncerTypeOK, KeepSyncer, outbox' \in Seq(Message), Len(outbox') <= OutboxSize
  PROVE  SyncerTypeOK'
BY DEF SyncerTypeOK, KeepSyncer, stores, informers, batching

\* Which part of the composition a step is about.
SyncerMoves ==
  \/ \E n \in Names : Upsert(n) \/ Delete(n)
  \/ HandleNotice \/ ResyncTick \/ ensureInformers \/ SendChunk \/ FinishSnapshot \/ Flush
  \/ \E id \in Fresh : StartSnapshot(id)

LEMMA SyncerStep ==
  World \/ Handler \/ Ticker \/ Watch \/ StartOver \/ RunStep
    => SyncerMoves /\ UNCHANGED <<store, session, current, overwritten>>
<1>1. Fresh # {} => (CHOOSE id \in Fresh : TRUE) \in Fresh
  OBVIOUS
<1> QED
  BY <1>1 DEF World, Handler, Ticker, Watch, StartOver, RunStep, SyncerMoves

LEMMA SyncerMovesTyped ==
  ASSUME SyncerTypeOK, SyncerMoves
  PROVE  SyncerTypeOK' /\ connected' = connected
<1>1. connected' = connected
  BY DEF SyncerMoves, Upsert, Delete, Occurs, HandleNotice, ResyncTick, Resync, SendChunk,
         FinishSnapshot, Flush, ensureInformers, StartSnapshot
<1>2. Fresh \subseteq SnapshotIds
  BY DEF Fresh
<1>3. SyncerTypeOK'
  BY <1>2, WorldTyped, HandlerTyped, TickTyped, WatchTyped, SendChunkTyped, FinishTyped, FlushTyped,
         StartTyped
  DEF SyncerMoves
<1> QED
  BY <1>1, <1>3

\* The server hears a message, or is past hearing it.
LEMMA HearsParts ==
  ASSUME StoreTypeOK, SyncerTypeOK, NEW s \in Streams, ServerHears(s)
  PROVE  /\ Hears(s)
         /\ \/ IgnoreMessage(s)
            \/ \E o \in Streams, m \in Message :
                 /\ m = Head(wire[s]) /\ m \in MessagesOf(s)
                 /\ \/ TakeChunk(s, o, m) \/ TakeEvents(s, o, m)
                    \/ RefuseChunk(s, o, m) \/ RefuseEvents(s, o, m)
         /\ \/ UNCHANGED syncer
            \/ resyncReq' \in BOOLEAN
               /\ UNCHANGED <<informers, notices, connected, batching, sending, outbox, missed>>
<1>1. CASE IgnoreMessage(s) /\ UNCHANGED syncer
  BY <1>1 DEF IgnoreMessage
<1>2. CASE LET o == states[home[s]]
               m == Head(wire[s])
           IN /\ home[s] # NoReplica /\ o # NoStream /\ wire[s] # <<>>
              /\ \/ (TakeChunk(s, o, m) \/ TakeEvents(s, o, m)) /\ UNCHANGED syncer
                 \/ (RefuseChunk(s, o, m) \/ RefuseEvents(s, o, m)) /\ requestResync
  <2>1. states[home[s]] \in Streams
    BY <1>2, StoreAssumption DEF StoreTypeOK
  <2>2. Head(wire[s]) \in Message /\ Head(wire[s]) \in MessagesOf(s)
    BY <1>2, HeadMessage
  <2>3. requestResync =>
          resyncReq' \in BOOLEAN
            /\ UNCHANGED <<informers, notices, connected, batching, sending, outbox, missed>>
    BY DEF requestResync, SyncerTypeOK
  <2>4. PICK o \in Streams, m \in Message : o = states[home[s]] /\ m = Head(wire[s])
    BY <2>1, <2>2
  <2>5. \/ (TakeChunk(s, o, m) \/ TakeEvents(s, o, m)) /\ UNCHANGED syncer
        \/ (RefuseChunk(s, o, m) \/ RefuseEvents(s, o, m)) /\ requestResync
    BY <1>2, <2>4
  <2>6. Hears(s)
    BY <2>5 DEF RefuseChunk, TakeChunk, RefuseEvents, TakeEvents, HearsChunk, HearsEvents
  <2> QED
    BY <2>2, <2>3, <2>4, <2>5, <2>6
<1> QED
  BY <1>1, <1>2 DEF ServerHears

LEMMA HearingTyped ==
  ASSUME StoreTypeOK, SyncerTypeOK, NEW s \in Streams, ServerHears(s)
  PROVE  StoreTypeOK' /\ SyncerTypeOK' /\ connected' = connected
<1>1. StoreTypeOK'
  <2>1. CASE IgnoreMessage(s)
    <3>1. wire' \in [Streams -> Seq(Message)] /\ UNCHANGED <<table, home, states, faults>>
      BY <2>1, HearsTyped DEF IgnoreMessage
    <3> QED
      BY <2>1, <3>1 DEF IgnoreMessage, StoreTypeOK, fields
  <2> QED
    BY <2>1, HearsParts, HeardTyped
<1>2. SyncerTypeOK' /\ connected' = connected
  <2>1. CASE UNCHANGED syncer
    BY <2>1, SyncerStays DEF syncer
  <2>2. CASE resyncReq' \in BOOLEAN
             /\ UNCHANGED <<informers, notices, connected, batching, sending, outbox, missed>>
    BY <2>2 DEF SyncerTypeOK, stores, informers, batching
  <2> QED
    BY <2>1, <2>2, HearsParts
<1> QED
  BY <1>1, <1>2

LEMMA NextTyped == TypesOK /\ [InventoryNext]_vars => TypesOK'
<1> SUFFICES ASSUME SyncerTypeOK, StoreTypeOK, SessionOK, [InventoryNext]_vars
             PROVE  SyncerTypeOK' /\ StoreTypeOK' /\ SessionOK'
  BY DEF TypesOK
<1>0. connected \in BOOLEAN
  BY DEF SyncerTypeOK
<1>1. CASE World \/ Handler \/ Ticker \/ Watch \/ StartOver \/ RunStep
  <2>1. SyncerMoves /\ UNCHANGED <<store, session, current, overwritten>>
    BY <1>1, SyncerStep
  <2> QED
    BY <2>1, SyncerMovesTyped, StoreStays, SessionStays DEF SessionOK, SessionOK, SessionTypeOK
<1>2. CASE Dial
  <2>1. <<>> \in Seq(Message) /\ Len(<<>>) = 0 /\ 0 <= OutboxSize
    BY EmptySeq, SyncerAssumption
  <2>2. SyncerTypeOK'
    BY <1>2, <2>1, OutboxTyped DEF Dial
  <2>3. SessionOK'
    BY <1>2 DEF Dial, KeepSyncer, SessionOK, SessionTypeOK, DialsNext
  <2> QED
    BY <1>2, <2>2, <2>3, StoreStays DEF Dial
<1>3. CASE Requeue
  <2>1. outbox \in Seq(Message) /\ outbox # <<>> /\ Len(outbox) \in Nat /\ Len(outbox) <= OutboxSize
        /\ OutboxSize \in Nat
    BY <1>3, LenProperties, SyncerAssumption DEF Requeue, SyncerTypeOK
  <2>2. Tail(outbox) \in Seq(Message) /\ Len(Tail(outbox)) = Len(outbox) - 1 /\ Head(outbox) \in Message
    BY <2>1, TailSet
  <2>3. Append(Tail(outbox), Head(outbox)) \in Seq(Message)
        /\ Len(Append(Tail(outbox), Head(outbox))) = Len(Tail(outbox)) + 1
    BY <2>2, AppendSet
  <2>4. outbox' \in Seq(Message)
    BY <1>3, <2>2, <2>3 DEF Requeue
  <2>5. Len(outbox') <= OutboxSize
    <3>1. outbox' = Append(Tail(outbox), Head(outbox)) \/ outbox' = Tail(outbox)
      BY <1>3 DEF Requeue
    <3>2. CASE outbox' = Append(Tail(outbox), Head(outbox))
      <4>1. Len(outbox') = Len(Tail(outbox)) + 1
        BY <2>3, <3>2, Zenon
      <4> QED
        BY <2>1, <2>2, <4>1
    <3>3. CASE outbox' = Tail(outbox)
      BY <2>1, <2>2, <3>3
    <3> QED
      BY <3>1, <3>2, <3>3
  <2>6. SyncerTypeOK'
    BY <1>3, <2>4, <2>5, OutboxTyped DEF Requeue
  <2> QED
    BY <1>3, <2>6, StoreStays, SessionStays DEF Requeue, KeepSyncer, SessionOK, SessionTypeOK
<1>4. CASE \E r \in Replicas : Accept(r)
  <2>1. PICK r \in Replicas : Accept(r)
    BY <1>4
  <2>2. current + 1 \in Streams /\ current + 1 \in 0 .. MaxStreams
    BY <2>1, StoreAssumption DEF Accept, SessionOK, SessionTypeOK, DialsNext, Streams
  <2>3. StoreTypeOK'
    BY <2>1, <2>2, OpenTyped DEF Accept
  <2>4. SyncerTypeOK'
    BY <2>1, ConnectedTyped DEF Accept
  <2>5. SessionOK'
    BY <2>1, <2>2 DEF Accept, SetConnected, SessionOK, SessionTypeOK, DialsNext
  <2> QED
    BY <2>3, <2>4, <2>5
<1>5. CASE SessionEnds
  <2>1. SyncerTypeOK'
    BY <1>5, ConnectedTyped DEF SessionEnds
  <2>2. StoreTypeOK'
    BY <1>5 DEF SessionEnds, StoreTypeOK, fields
  <2>3. SessionOK'
    BY <1>5 DEF SessionEnds, SetConnected, SessionOK, SessionTypeOK, DialsNext
  <2> QED
    BY <2>1, <2>2, <2>3
<1>6. CASE Sends
  <2>1. outbox \in Seq(Message) /\ outbox # <<>> /\ Len(outbox) \in Nat /\ Len(outbox) <= OutboxSize
        /\ OutboxSize \in Nat
    BY <1>6, LenProperties, SyncerAssumption DEF Sends, SyncerTypeOK
  <2>2. Tail(outbox) \in Seq(Message) /\ Len(Tail(outbox)) = Len(outbox) - 1 /\ Head(outbox) \in Message
    BY <2>1, TailSet
  <2>3. Len(outbox') <= OutboxSize /\ outbox' \in Seq(Message)
    <3>1. outbox' = Tail(outbox)
      BY <1>6 DEF Sends
    <3> QED
      BY <2>1, <2>2, <3>1
  <2>4. SyncerTypeOK'
    BY <1>6, <2>3, OutboxTyped DEF Sends
  <2>5. wire' \in [Streams -> Seq(Message)]
    <3>1. \A s \in Streams : Append(wire[s], Head(outbox)) \in Seq(Message)
      BY <2>2, AppendSet DEF StoreTypeOK
    <3> QED
      BY <1>6, <3>1 DEF Sends, StoreTypeOK
  <2>6. StoreTypeOK'
    BY <1>6, <2>5 DEF Sends, StoreTypeOK, fields
  <2> QED
    BY <1>6, <2>4, <2>6, SessionStays DEF Sends, KeepSyncer, SessionOK, SessionTypeOK
<1>7. ASSUME NEW s \in Streams, ServerHears(s) PROVE SyncerTypeOK' /\ StoreTypeOK' /\ SessionOK'
  <2>1. overwritten' \in BOOLEAN /\ UNCHANGED <<session, current>>
    BY <1>7 DEF ServerHears
  <2> QED
    BY <1>7, <2>1, HearingTyped, SessionStays
<1>8. ASSUME NEW s \in Streams, ServerWrites(s) \/ ServerFails(s)
      PROVE  SyncerTypeOK' /\ StoreTypeOK' /\ SessionOK'
  <2>1. overwritten' \in BOOLEAN /\ UNCHANGED <<syncer, session, current>>
    BY <1>8 DEF ServerWrites, ServerFails, SessionOK, SessionTypeOK
  <2>2. StoreTypeOK'
    BY <1>8, WriteTyped DEF ServerWrites, ServerFails
  <2> QED
    BY <2>1, <2>2, SyncerStays, SessionStays DEF syncer
<1>9. ASSUME NEW s \in Streams, ServerEnds(s) PROVE SyncerTypeOK' /\ StoreTypeOK' /\ SessionOK'
  <2>1. UNCHANGED <<syncer, session, current, overwritten>> /\ StoreTypeOK'
    BY <1>9, EndTyped DEF ServerEnds
  <2> QED
    BY <2>1, SyncerStays, SessionStays DEF syncer, SessionOK, SessionTypeOK
<1>10. CASE UNCHANGED vars
  BY <1>10, SyncerStays, StoreStays, SessionStays DEF vars, syncer, SessionOK, SessionTypeOK
<1> QED
  BY <1>1, <1>2, <1>3, <1>4, <1>5, <1>6, <1>7, <1>8, <1>9, <1>10 DEF InventoryNext

THEOREM InventoryTyped == InventorySpec => []InventoryTypeOK
<1>1. InventorySpec => []TypesOK
  BY InitTyped, NextTyped, PTL DEF InventorySpec
<1> QED
  BY <1>1, TypesMean, PTL

-----------------------------------------------------------------------------
(***************************************************************************)
(* Whole snapshots.  L says what was listed under each id.  As long as an  *)
(* id is in use, every chunk that carries it is cut from that listing, and *)
(* what is assembled under it is its beginning; the id of a new snapshot   *)
(* is one that is not in use.                                              *)
(***************************************************************************)
PartOf(listing, k) == {i \in Item : \E j \in 0 .. k - 1 : i \in ItemsOf(listing, j)}

CutFrom(L, m) ==
  /\ m.listing = L[m.id] /\ m.seq < Chunks(m.listing)
  /\ m.last = (m.seq + 1 = Chunks(m.listing))
  /\ m.items = ItemsOf(m.listing, m.seq)

\* What is queued and carried, being sent, assembled.
Queued(L) == \A m \in ToSet(outbox) : m.what = "chunk" => CutFrom(L, m)

Carried(L) == \A s \in Streams : \A m \in MessagesOf(s) : m.what = "chunk" => CutFrom(L, m)

BeingSent(L) ==
  Sending => sending.listing = L[sending.id] /\ sending.next <= Chunks(sending.listing)

Assembled(L) ==
  \A o \in Streams :
    assembly[o].id # NoId => assembly[o].rows = PartOf(L[assembly[o].id], assembly[o].next)

Snapshots(L) == Queued(L) /\ Carried(L) /\ BeingSent(L) /\ Assembled(L) /\ WholeSnapshot

Listings == [SnapshotIds -> Seq(Item)]

SnapshotInv == \E L \in Listings : Snapshots(L)

LEMMA PartGrows ==
  ASSUME NEW listing \in Seq(Item), NEW k \in Nat, k < Chunks(listing)
  PROVE  /\ PartOf(listing, 0) = {}
         /\ PartOf(listing, k + 1) = PartOf(listing, k) \cup ItemsOf(listing, k)
<1>1. 0 .. 0 - 1 = {} /\ 0 .. (k + 1) - 1 = (0 .. k - 1) \cup {k}
  OBVIOUS
<1>2. ItemsOf(listing, k) \subseteq Item
  BY ItemsType
<1> QED
  BY <1>1, <1>2, Zenon DEF PartOf

LEMMA PartIsWhole ==
  ASSUME NEW listing \in Seq(Item)
  PROVE  PartOf(listing, Chunks(listing)) = ToSet(listing)
<1>1. Len(listing) \in Nat /\ DOMAIN listing = 1 .. Len(listing)
  BY LenProperties
<1>2. CASE listing = <<>>
  <2>1. ToSet(listing) = {}
    BY <1>2, EmptySet
  <2>2. \A j : ItemsOf(listing, j) = {}
    BY <1>2 DEF ItemsOf
  <2> QED
    BY <2>1, <2>2 DEF PartOf
<1>3. CASE listing # <<>>
  <2>1. Chunks(listing) = Len(listing) /\ \A j : ItemsOf(listing, j) = {listing[j + 1]}
    BY <1>3 DEF ItemsOf, Chunks
  <2>2. \A j \in 0 .. Len(listing) - 1 : j + 1 \in 1 .. Len(listing)
    BY <1>1
  <2>3. \A i \in 1 .. Len(listing) : i - 1 \in 0 .. Len(listing) - 1 /\ (i - 1) + 1 = i
    BY <1>1
  <2>4. ToSet(listing) = {listing[i] : i \in 1 .. Len(listing)} /\ ToSet(listing) \subseteq Item
    BY Elements
  <2>5. \A x : x \in PartOf(listing, Chunks(listing))
               <=> x \in Item /\ \E j \in 0 .. Len(listing) - 1 : x = listing[j + 1]
    BY <2>1 DEF PartOf
  <2>6. ASSUME NEW x \in PartOf(listing, Chunks(listing)) PROVE x \in ToSet(listing)
    BY <2>2, <2>4, <2>5
  <2>7. ASSUME NEW x \in ToSet(listing) PROVE x \in PartOf(listing, Chunks(listing))
    <3>1. PICK i \in 1 .. Len(listing) : x = listing[i]
      BY <2>4
    <3>2. i - 1 \in 0 .. Len(listing) - 1 /\ x = listing[(i - 1) + 1]
      BY <2>3, <3>1
    <3> QED
      BY <2>4, <2>5, <3>2
  <2> QED
    BY <2>6, <2>7
<1> QED
  BY <1>2, <1>3

LEMMA InitSnapshots == InventoryInit => SnapshotInv
<1> SUFFICES ASSUME InventoryInit PROVE SnapshotInv
  OBVIOUS
<1>1. SyncerBegins(1, "no") /\ StoreBegins(0)
  BY DEF InventoryInit, InventoryBegins
<1> DEFINE L == [id \in SnapshotIds |-> <<>>]
<1>2. L \in Listings
  BY EmptySeq DEF Listings
<1>3. Queued(L) /\ Carried(L)
  BY <1>1, EmptySet DEF Queued, Carried, SyncerBegins, StoreBegins, MessagesOf
<1>4. BeingSent(L) /\ Assembled(L) /\ WholeSnapshot
  BY <1>1 DEF BeingSent, Assembled, WholeSnapshot, SyncerBegins, StoreBegins, Sending, Idle,
              NoAssembly, NoWork
<1> HIDE DEF L
<1> QED
  BY <1>2, <1>3, <1>4 DEF SnapshotInv, Snapshots

LEMMA InUseMeans ==
  ASSUME NEW s \in Streams
  PROVE  (\A m \in MessagesOf(s) : m.id \in InUse) /\ assembly[s].id \in InUse
<1> DEFINE U(x) == {m.id : m \in MessagesOf(x)} \cup {completedId[x], assembly[x].id}
<1>1. U(s) \subseteq UNION {U(x) : x \in Streams}
  BY Zenon
<1>2. UNION {U(x) : x \in Streams} \subseteq InUse
  BY DEF InUse
<1>3. (\A m \in MessagesOf(s) : m.id \in U(s)) /\ assembly[s].id \in U(s)
  OBVIOUS
<1> QED
  BY <1>1, <1>2, <1>3, Zenon

\* A new listing takes an id that nothing in use has.
LEMMA NewListing ==
  ASSUME TypesOK, NEW L \in Listings, Snapshots(L), NEW id \in Fresh, StartSnapshot(id),
         UNCHANGED <<store, session, current, overwritten>>
  PROVE  SnapshotInv'
<1>1. id \in SnapshotIds /\ id # NoId /\ id \notin InUse
  BY InventoryAssumption DEF Fresh
<1>2. SetToSeq(Listed) \in Seq(Item)
  BY ListedType DEF TypesOK, SyncerTypeOK
<1>3. PICK listing \in Seq(Item) : listing = SetToSeq(Listed)
  BY <1>2
<1> DEFINE M == [L EXCEPT ![id] = listing]
<1>4. M \in Listings /\ \A j \in SnapshotIds : j # id => M[j] = L[j]
  BY <1>1 DEF Listings
<1>5. M[id] = listing
  BY <1>1 DEF Listings
<1> HIDE DEF M
<1>6. UNCHANGED <<outbox, wire, assembly, work>>
  BY DEF StartSnapshot, store, fields
<1>7. \A m \in ToSet(outbox) : m.id # id /\ m.id \in SnapshotIds
  <2>1. \A m \in ToSet(outbox) : m \in Message
    BY Elements DEF TypesOK, SyncerTypeOK
  <2>2. \A m \in ToSet(outbox) : m.id \in InUse
    BY DEF InUse
  <2> QED
    BY <1>1, <2>1, <2>2, MessageType
<1>8. \A s \in Streams : \A m \in MessagesOf(s) : m.id # id /\ m.id \in SnapshotIds
  <2>1. \A s \in Streams : \A m \in MessagesOf(s) : m \in Message
    BY Elements DEF TypesOK, StoreTypeOK, MessagesOf
  <2>2. \A s \in Streams : \A m \in MessagesOf(s) : m.id \in InUse
    BY InUseMeans
  <2> QED
    BY <1>1, <2>1, <2>2, MessageType
<1>9. \A o \in Streams : assembly[o].id # id
  <2>1. \A o \in Streams : assembly[o].id \in InUse
    BY InUseMeans
  <2> QED
    BY <1>1, <2>1
<1>10. Queued(M)'
  <2>1. \A m \in ToSet(outbox) : m.what = "chunk" => CutFrom(M, m)
    BY <1>4, <1>7 DEF Snapshots, Queued, CutFrom
  <2> QED
    BY <1>6, <2>1 DEF Queued
<1>11. Carried(M)'
  <2>1. \A s \in Streams : \A m \in MessagesOf(s) : m.what = "chunk" => CutFrom(M, m)
    BY <1>4, <1>8 DEF Snapshots, Carried, CutFrom
  <2>2. \A s \in Streams : MessagesOf(s)' = MessagesOf(s)
    BY <1>6 DEF MessagesOf
  <2> QED
    BY <2>1, <2>2 DEF Carried
<1>12. BeingSent(M)'
  <2>1. CASE connected
    <3>1. sending' = [id |-> id, listing |-> listing, next |-> 0]
      BY <2>1, <1>3 DEF StartSnapshot
    <3>2. 0 <= Chunks(listing)
      BY LenProperties DEF Chunks
    <3> QED
      BY <3>1, <3>2, <1>5 DEF BeingSent
  <2>2. CASE ~connected
    BY <2>2 DEF StartSnapshot, BeingSent, Sending
  <2> QED
    BY <2>1, <2>2
<1>13. Assembled(M)'
  <2>1. \A o \in Streams : assembly[o].id \in SnapshotIds \cup {NoId}
    BY DEF TypesOK, StoreTypeOK, Assembly
  <2>2. \A o \in Streams : assembly[o].id # NoId =>
           assembly[o].rows = PartOf(M[assembly[o].id], assembly[o].next)
    BY <1>4, <1>9, <2>1 DEF Snapshots, Assembled
  <2> QED
    BY <1>6, <2>2 DEF Assembled
<1>14. WholeSnapshot'
  BY <1>6 DEF WholeSnapshot, Snapshots
<1>15. Snapshots(M)'
  BY <1>10, <1>11, <1>12, <1>13, <1>14 DEF Snapshots
<1> QED
  BY <1>4, <1>15 DEF SnapshotInv, Listings

\* Whatever else happens, the ids keep their meaning.  What is carried and
\* queued shrinks, moves on, or grows by one chunk of the listing being sent.
LEMMA QueueMoves ==
  ASSUME TypesOK, NEW L, Snapshots(L),
         UNCHANGED <<wire, sending, assembly, work>>,
         outbox' \in Seq(Message),
         \A m \in ToSet(outbox') : m \in ToSet(outbox) \/ m.what = "events"
  PROVE  Snapshots(L)'
<1>1. Queued(L)'
  <2>1. \A m \in ToSet(outbox') : m.what = "chunk" => m \in ToSet(outbox)
    OBVIOUS
  <2> QED
    BY <2>1 DEF Snapshots, Queued
<1>2. Carried(L)' /\ BeingSent(L)' /\ Assembled(L)' /\ WholeSnapshot'
  BY DEF Snapshots, Carried, BeingSent, Assembled, WholeSnapshot, MessagesOf, Sending
<1> QED
  BY <1>1, <1>2 DEF Snapshots

LEMMA ChunkQueued ==
  ASSUME TypesOK, NEW L, Snapshots(L), SendChunk, UNCHANGED store
  PROVE  Snapshots(L)'
<1> DEFINE m == [what |-> "chunk", id |-> sending.id, seq |-> sending.next,
                 last |-> sending.next + 1 = Chunks(sending.listing),
                 items |-> ItemsOf(sending.listing, sending.next), listing |-> sending.listing]
<1>1. sending.listing \in Seq(Item) /\ sending.next \in Nat /\ sending.id \in SnapshotIds
  BY DEF TypesOK, SyncerTypeOK, SendChunk, Sending
<1>2. m \in Message
  BY <1>1, ItemsType DEF Message, SendChunk
<1>3. CutFrom(L, m)
  BY DEF Snapshots, BeingSent, CutFrom, SendChunk
<1>4. outbox' = Append(outbox, m)
  BY DEF SendChunk
<1> HIDE DEF m
<1>5. ToSet(outbox') = ToSet(outbox) \cup {m}
  BY <1>2, <1>4, AppendSet DEF TypesOK, SyncerTypeOK
<1>6. Queued(L)'
  BY <1>3, <1>5 DEF Snapshots, Queued
<1>7. BeingSent(L)'
  <2>1. sending.next + 1 <= Chunks(sending.listing) /\ sending' = [sending EXCEPT !.next = @ + 1]
    BY <1>1, LenProperties DEF SendChunk, Chunks
  <2>2. /\ sending'.id = sending.id /\ sending'.listing = sending.listing
        /\ sending'.next = sending.next + 1
    BY <2>1 DEF TypesOK, SyncerTypeOK
  <2> QED
    BY <2>1, <2>2 DEF Snapshots, BeingSent, Sending, SendChunk
<1>8. Carried(L)' /\ Assembled(L)' /\ WholeSnapshot'
  BY DEF Snapshots, Carried, Assembled, WholeSnapshot, MessagesOf, store, fields
<1> QED
  BY <1>6, <1>7, <1>8 DEF Snapshots

\* A stream's next message is heard.
LEMMA HeardSnapshots ==
  ASSUME TypesOK, NEW L \in Listings, Snapshots(L), NEW s \in Streams, ServerHears(s)
  PROVE  Snapshots(L)'
<1>1. StoreTypeOK /\ SyncerTypeOK
  BY DEF TypesOK
<1>2. Hears(s)
  BY <1>1, HearsParts
<1>3. wire' = [wire EXCEPT ![s] = Tail(@)] /\ wire[s] # <<>>
  BY <1>2 DEF Hears
<1>4. Carried(L)'
  <2>1. \A x \in Streams : MessagesOf(x)' \subseteq MessagesOf(x)
    <3>1. ASSUME NEW x \in Streams PROVE ToSet(wire'[x]) \subseteq ToSet(wire[x])
      <4>1. CASE x = s
        <5>1. wire'[x] = Tail(wire[s])
          BY <4>1, <1>1, <1>3 DEF StoreTypeOK
        <5> QED
          BY <1>1, <1>3, <4>1, <5>1, HeadMessage DEF MessagesOf
      <4>2. CASE x # s
        BY <4>2, <1>1, <1>3 DEF StoreTypeOK
      <4> QED
        BY <4>1, <4>2
    <3> QED
      BY <3>1 DEF MessagesOf
  <2> QED
    BY <2>1 DEF Snapshots, Carried
<1>5. Queued(L)' /\ BeingSent(L)'
  <2>1. UNCHANGED <<sending, outbox>>
    BY <1>1, HearsParts DEF syncer
  <2> QED
    BY <2>1 DEF Snapshots, Queued, BeingSent, Sending
<1>6. Assembled(L)' /\ WholeSnapshot'
  <2>1. CASE UNCHANGED <<assembly, work>>
    BY <2>1 DEF Snapshots, Assembled, WholeSnapshot
  <2>2. ASSUME NEW o \in Streams, NEW m \in Message, m \in MessagesOf(s),
               \/ TakeChunk(s, o, m) \/ TakeEvents(s, o, m)
               \/ RefuseChunk(s, o, m) \/ RefuseEvents(s, o, m)
        PROVE  Assembled(L)' /\ WholeSnapshot'
    <3>1. CASE RefuseChunk(s, o, m)
      <4>1. work' = work /\ assembly' = [assembly EXCEPT ![o] = NoAssembly]
        BY <3>1 DEF RefuseChunk
      <4>2. Assembled(L)'
        <5>1. ASSUME NEW x \in Streams, assembly'[x].id # NoId
              PROVE  assembly'[x].rows = PartOf(L[assembly'[x].id], assembly'[x].next)
          <6>1. x # o
            BY <5>1, <4>1, <1>1 DEF StoreTypeOK, NoAssembly
          <6>2. assembly'[x] = assembly[x]
            BY <6>1, <4>1, <1>1 DEF StoreTypeOK
          <6> QED
            BY <6>2, <5>1 DEF Snapshots, Assembled
        <5> QED
          BY <5>1 DEF Assembled
      <4> QED
        BY <4>1, <4>2 DEF Snapshots, WholeSnapshot
    <3>2. CASE TakeChunk(s, o, m)
      <4>1. m.what = "chunk" /\ CutFrom(L, m)
        BY <2>2, <3>2 DEF Snapshots, Carried, TakeChunk, HearsChunk
      <4> DEFINE listing == L[m.id]
      <4>2. m.id \in SnapshotIds /\ m.seq \in Nat /\ listing \in Seq(Item)
        BY MessageType DEF Listings
      <4>3. /\ m.listing = listing /\ m.seq < Chunks(listing) /\ m.items = ItemsOf(listing, m.seq)
            /\ m.last = (m.seq + 1 = Chunks(listing))
        BY <4>1 DEF CutFrom
      <4>4. Begun(o, m).rows = PartOf(listing, m.seq)
        <5>1. CASE m.seq = 0
          <6>1. Begun(o, m).rows = {}
            BY <5>1 DEF Begun, NoAssembly
          <6> QED
            BY <4>2, <4>3, <5>1, <6>1, PartGrows
        <5>2. CASE m.seq # 0
          <6>1. Begun(o, m) = assembly[o]
            BY <5>2 DEF Begun
          <6>2. assembly[o].id = m.id /\ assembly[o].next = m.seq /\ m.id # NoId
            BY <3>2, <6>1, <4>2, InventoryAssumption DEF TakeChunk, InSequence
          <6> QED
            BY <6>1, <6>2 DEF Snapshots, Assembled
        <5> QED
          BY <5>1, <5>2
      <4>5. Grown(o, m).id = m.id /\ Grown(o, m).next = m.seq + 1
            /\ Grown(o, m).rows = PartOf(listing, m.seq + 1)
        <5>1. PartOf(listing, m.seq + 1) = PartOf(listing, m.seq) \cup ItemsOf(listing, m.seq)
          BY <4>2, <4>3, PartGrows
        <5> QED
          BY <4>3, <4>4, <5>1 DEF Grown
      <4>6. Assembled(L)'
        <5>1. ASSUME NEW x \in Streams, assembly'[x].id # NoId
              PROVE  assembly'[x].rows = PartOf(L[assembly'[x].id], assembly'[x].next)
          <6>1. CASE x = o
            <7>1. assembly'[o] = IF m.last \/ TooLarge(o, m) THEN NoAssembly ELSE Grown(o, m)
              BY <3>2, <1>1 DEF TakeChunk, StoreTypeOK
            <7>2. assembly'[o] = Grown(o, m)
              BY <5>1, <6>1, <7>1 DEF NoAssembly
            <7> QED
              BY <6>1, <7>2, <4>5
          <6>2. CASE x # o
            <7>1. assembly'[x] = assembly[x]
              BY <6>2, <3>2, <1>1 DEF TakeChunk, StoreTypeOK
            <7> QED
              BY <7>1, <5>1 DEF Snapshots, Assembled
          <6> QED
            BY <6>1, <6>2
        <5> QED
          BY <5>1 DEF Assembled
      <4>7. WholeSnapshot'
        <5>1. ASSUME NEW x \in Streams, work'[x].what = "snapshot"
              PROVE  work'[x].rows = ToSet(work'[x].listing)
          <6>1. CASE work'[x] = work[x]
            BY <6>1, <5>1 DEF Snapshots, WholeSnapshot
          <6>2. CASE work'[x] # work[x]
            <7>1. /\ m.last
                  /\ work' = [work EXCEPT ![s] = [what |-> "snapshot", in |-> o, id |-> m.id,
                                rows |-> Grown(o, m).rows, seen |-> table, listing |-> m.listing]]
              BY <3>2, <6>2 DEF TakeChunk, Awaits
            <7>2. x = s
              BY <7>1, <6>2, <1>1 DEF StoreTypeOK
            <7>3. work'[x].rows = Grown(o, m).rows /\ work'[x].listing = m.listing
              BY <7>1, <7>2, <1>1 DEF StoreTypeOK
            <7>4. m.seq + 1 = Chunks(listing)
              BY <7>1, <4>3
            <7> QED
              BY <7>3, <7>4, <4>2, <4>3, <4>5, PartIsWhole
          <6> QED
            BY <6>1, <6>2
        <5> QED
          BY <5>1 DEF WholeSnapshot
      <4> QED
        BY <4>6, <4>7
    <3>3. CASE RefuseEvents(s, o, m) \/ TakeEvents(s, o, m)
      <4>1. assembly' = assembly
        BY <3>3 DEF RefuseEvents, TakeEvents, HearsEvents
      <4>2. WholeSnapshot'
        <5>1. ASSUME NEW x \in Streams, work'[x].what = "snapshot" PROVE work'[x] = work[x]
          <6>1. CASE work' = work
            BY <6>1
          <6>2. CASE work' = [work EXCEPT ![s] = [what |-> "events", in |-> o, seq |-> m.seq,
                                                  events |-> m.events]]
            <7>1. x # s
              BY <5>1, <6>2, <1>1 DEF StoreTypeOK
            <7> QED
              BY <7>1, <6>2, <1>1 DEF StoreTypeOK
          <6> QED
            BY <3>3, <6>1, <6>2 DEF RefuseEvents, TakeEvents, Awaits
        <5> QED
          BY <5>1 DEF Snapshots, WholeSnapshot
      <4> QED
        BY <4>1, <4>2 DEF Snapshots, Assembled
    <3> QED
      BY <2>2, <3>1, <3>2, <3>3
  <2> QED
    BY <1>1, <2>1, <2>2, HearsParts DEF IgnoreMessage, fields
<1> QED
  BY <1>4, <1>5, <1>6 DEF Snapshots

LEMMA NextSnapshots == TypesOK /\ SnapshotInv /\ [InventoryNext]_vars => SnapshotInv'
<1> SUFFICES ASSUME TypesOK, SnapshotInv, [InventoryNext]_vars PROVE SnapshotInv'
  OBVIOUS
<1>1. PICK L \in Listings : Snapshots(L)
  BY DEF SnapshotInv
<1>2. Snapshots(L)' => SnapshotInv'
  BY DEF SnapshotInv, Listings
<1>3. outbox \in Seq(Message) /\ SyncerTypeOK'
  BY NextTyped DEF TypesOK, SyncerTypeOK
<1>4. outbox' \in Seq(Message)
  BY <1>3 DEF SyncerTypeOK
<1>5. CASE World \/ Handler \/ Ticker \/ Watch \/ StartOver \/ RunStep
  <2>1. SyncerMoves /\ UNCHANGED <<store, session, current, overwritten>>
    BY <1>5, SyncerStep
  <2>2. CASE \E id \in Fresh : StartSnapshot(id)
    BY <1>1, <2>1, <2>2, NewListing
  <2>3. CASE SendChunk
    BY <1>1, <1>2, <2>1, <2>3, ChunkQueued
  <2>4. CASE FinishSnapshot
    <3>1. UNCHANGED <<wire, outbox, assembly, work>> /\ ~Sending'
      BY <2>1, <2>4 DEF FinishSnapshot, Sending, Idle, store, fields
    <3> QED
      BY <1>1, <1>2, <3>1
      DEF Snapshots, Queued, Carried, BeingSent, Assembled, WholeSnapshot, MessagesOf
  <2>5. CASE Flush
    <3>1. \A m \in ToSet(outbox') : m \in ToSet(outbox) \/ m.what = "events"
      <4>1. CASE outbox' = outbox
        BY <4>1
      <4>2. ASSUME NEW n \in 1 .. Len(pending), outbox' = Append(outbox, Batch(n))
            PROVE  \A m \in ToSet(outbox') : m \in ToSet(outbox) \/ m.what = "events"
        <5>1. Batch(n) \in Message /\ Batch(n).what = "events"
          <6>1. SubSeq(pending, 1, n) \in Seq(ResourceEvent)
            <7>1. pending \in Seq(ResourceEvent) /\ Len(pending) \in Nat
              BY LenProperties DEF TypesOK, SyncerTypeOK
            <7>2. 1 \in 1 .. Len(pending) + 1 /\ n \in 1 - 1 .. Len(pending)
              BY <7>1
            <7> QED
              BY <7>1, <7>2, PartSet
          <6>2. snapshotID \in SnapshotIds /\ batchSeq + 1 \in Nat
            BY <2>5 DEF Flush, TypesOK, SyncerTypeOK
          <6> QED
            BY <6>1, <6>2 DEF Batch, Message
        <5>2. ToSet(outbox') = ToSet(outbox) \cup {Batch(n)}
          BY <1>3, <4>2, <5>1, AppendSet
        <5> QED
          BY <5>1, <5>2
      <4>3. outbox' = outbox \/ \E n \in 1 .. Len(pending) : outbox' = Append(outbox, Batch(n))
        <5> DEFINE n == IF Len(pending) < BatchMax THEN Len(pending) ELSE BatchMax
        <5>1. Len(pending) \in Nat /\ Len(pending) # 0
          BY <2>5, LenProperties, EmptySeq DEF Flush, TypesOK, SyncerTypeOK
        <5>2. n \in 1 .. Len(pending)
          BY <5>1, SyncerAssumption
        <5>3. outbox' = outbox \/ outbox' = Append(outbox, Batch(n))
          BY <2>5 DEF Flush
        <5> HIDE DEF n
        <5> QED
          BY <5>2, <5>3
      <4> QED
        BY <4>1, <4>2, <4>3
    <3> QED
      BY <1>1, <1>2, <1>4, <2>1, <2>5, <3>1, QueueMoves DEF Flush, store, fields
  <2>6. CASE (\E n \in Names : Upsert(n) \/ Delete(n)) \/ HandleNotice \/ ResyncTick
            \/ ensureInformers
    <3>1. UNCHANGED <<wire, sending, assembly, work, outbox>>
      BY <2>1, <2>6 DEF Upsert, Delete, Occurs, HandleNotice, ResyncTick, Resync, ensureInformers,
             store, fields
    <3> QED
      BY <1>1, <1>2, <1>4, <3>1, QueueMoves
  <2> QED
    BY <2>1, <2>2, <2>3, <2>4, <2>5, <2>6 DEF SyncerMoves
<1>6. CASE Dial
  <2>1. UNCHANGED <<wire, sending, assembly, work>> /\ ToSet(outbox') = {}
    BY <1>6, EmptySet DEF Dial, KeepSyncer, store, fields
  <2> QED
    BY <1>1, <1>2, <1>4, <2>1, QueueMoves
<1>7. CASE Requeue
  <2>1. UNCHANGED <<wire, sending, assembly, work>>
    BY <1>7 DEF Requeue, KeepSyncer, store, fields
  <2>2. Head(outbox) \in ToSet(outbox) /\ ToSet(Tail(outbox)) \subseteq ToSet(outbox)
        /\ Tail(outbox) \in Seq(Message) /\ Head(outbox) \in Message
    BY <1>3, <1>7, TailSet DEF Requeue
  <2>3. ToSet(Append(Tail(outbox), Head(outbox))) = ToSet(Tail(outbox)) \cup {Head(outbox)}
    <3>1. \A q \in Seq(Message), m \in Message : ToSet(Append(q, m)) = ToSet(q) \cup {m}
      BY AppendSet
    <3> QED
      BY <2>2, <3>1, Zenon
  <2>4. ToSet(outbox') \subseteq ToSet(outbox)
    BY <1>7, <2>2, <2>3 DEF Requeue
  <2> QED
    BY <1>1, <1>2, <1>4, <2>1, <2>4, QueueMoves
<1>8. CASE (\E r \in Replicas : Accept(r)) \/ SessionEnds
  <2>1. UNCHANGED <<wire, sending, assembly, work, outbox>>
    BY <1>8 DEF Accept, SessionEnds, OpenStream, SetConnected, fields
  <2> QED
    BY <1>1, <1>2, <1>4, <2>1, QueueMoves
<1>9. CASE Sends
  <2>1. UNCHANGED <<sending, assembly, work>>
    BY <1>9 DEF Sends, KeepSyncer, fields
  <2>2. Head(outbox) \in ToSet(outbox) /\ ToSet(Tail(outbox)) \subseteq ToSet(outbox)
        /\ Head(outbox) \in Message
    BY <1>3, <1>9, TailSet DEF Sends
  <2>3. Queued(L)'
    BY <1>1, <1>9, <2>2 DEF Sends, Snapshots, Queued
  <2>4. Carried(L)'
    <3>1. ASSUME NEW s \in Streams
          PROVE  \A m \in ToSet(wire'[s]) : m \in ToSet(wire[s]) \/ m \in ToSet(outbox)
      <4>1. CASE wire'[s] = wire[s]
        BY <4>1
      <4>2. CASE wire'[s] # wire[s]
        <5>1. wire'[s] = Append(wire[s], Head(outbox)) /\ wire[s] \in Seq(Message)
          BY <1>9, <4>2 DEF Sends, TypesOK, StoreTypeOK
        <5>2. ToSet(wire'[s]) = ToSet(wire[s]) \cup {Head(outbox)}
          BY <2>2, <5>1, AppendSet
        <5> QED
          BY <2>2, <5>2
      <4> QED
        BY <4>1, <4>2
    <3> QED
      BY <1>1, <3>1 DEF Snapshots, Carried, Queued, MessagesOf
  <2>5. BeingSent(L)' /\ Assembled(L)' /\ WholeSnapshot'
    BY <1>1, <2>1 DEF Snapshots, BeingSent, Assembled, WholeSnapshot, Sending
  <2> QED
    BY <1>2, <2>3, <2>4, <2>5 DEF Snapshots
<1>10. ASSUME NEW s \in Streams, ServerHears(s) PROVE SnapshotInv'
  BY <1>1, <1>2, <1>10, HeardSnapshots
<1>11. ASSUME NEW s \in Streams, ServerWrites(s) \/ ServerFails(s) PROVE SnapshotInv'
  <2>1. UNCHANGED <<sending, outbox, wire, assembly>> /\ work' = [work EXCEPT ![s] = NoWork]
    BY <1>11 DEF ServerWrites, ServerFails, CommitSnapshot, CommitEvents, FailWork, Awaits,
                 syncer, fields
  <2>2. WholeSnapshot'
    <3>1. ASSUME NEW x \in Streams, work'[x].what = "snapshot" PROVE work'[x] = work[x]
      BY <2>1, <3>1 DEF TypesOK, StoreTypeOK, NoWork
    <3> QED
      BY <1>1, <3>1 DEF Snapshots, WholeSnapshot
  <2> QED
    BY <1>1, <1>2, <2>1, <2>2
    DEF Snapshots, Queued, Carried, BeingSent, Assembled, MessagesOf, Sending
<1>12. ASSUME NEW s \in Streams, ServerEnds(s) PROVE SnapshotInv'
  <2>1. /\ UNCHANGED <<sending, outbox, work>> /\ wire' = [wire EXCEPT ![s] = <<>>]
        /\ assembly' = [assembly EXCEPT ![s] = NoAssembly]
    BY <1>12 DEF ServerEnds, EndStream, syncer
  <2>2. Carried(L)'
    <3>1. ASSUME NEW x \in Streams PROVE ToSet(wire'[x]) \subseteq ToSet(wire[x])
      <4>1. wire'[x] = wire[x] \/ wire'[x] = <<>>
        BY <2>1 DEF TypesOK, StoreTypeOK
      <4> QED
        BY <4>1, EmptySet
    <3> QED
      BY <1>1, <3>1 DEF Snapshots, Carried, MessagesOf
  <2>3. Assembled(L)'
    <3>1. ASSUME NEW x \in Streams, assembly'[x].id # NoId PROVE assembly'[x] = assembly[x]
      BY <2>1, <3>1 DEF TypesOK, StoreTypeOK, NoAssembly
    <3> QED
      BY <1>1, <3>1 DEF Snapshots, Assembled
  <2> QED
    BY <1>1, <1>2, <2>1, <2>2, <2>3 DEF Snapshots, Queued, BeingSent, WholeSnapshot, Sending
<1>13. CASE UNCHANGED vars
  BY <1>1, <1>2, <1>4, <1>13, QueueMoves DEF vars, syncer, store, fields
<1> QED
  BY <1>5, <1>6, <1>7, <1>8, <1>9, <1>10, <1>11, <1>12, <1>13 DEF InventoryNext

(***************************************************************************)
(* Whatever is refused, dropped, put back, lost or heard late, applySnap-  *)
(* shot is given the whole of one listing of the agent, and every variable *)
(* keeps its type.                                                         *)
(***************************************************************************)
THEOREM StoredWholeHolds == InventorySpec => []StoredWhole
<1>1. TypesOK /\ SnapshotInv => StoredWhole
  BY TypesMean DEF StoredWhole, SnapshotInv, Snapshots
<1>2. InventorySpec => [](TypesOK /\ SnapshotInv)
  BY InitTyped, InitSnapshots, NextTyped, NextSnapshots, PTL DEF InventorySpec
<1> QED
  BY <1>1, <1>2, PTL

-----------------------------------------------------------------------------
(***************************************************************************)
(* Deletions.  Every deletion on its way, wherever it is, is that of an    *)
(* object that has gone: its name has no object, or a younger one.         *)
(***************************************************************************)
EventsOf(x) == IF x.what = "events" THEN ToSet(x.events) ELSE {}

\* All the events there are, between the informers and the transactions.
Within(K) ==
  /\ ToSet(notices) \subseteq K /\ ToSet(pending) \subseteq K
  /\ \A m \in ToSet(outbox) : EventsOf(m) \subseteq K
  /\ \A s \in Streams : \A m \in MessagesOf(s) : EventsOf(m) \subseteq K
  /\ \A s \in Streams : EventsOf(work[s]) \subseteq K

Known ==
  {e \in ResourceEvent :
     /\ e.obj.uid <= changes
     /\ e.type = "DELETE" => world[e.name] = NoObject \/ e.obj.uid < world[e.name].uid}

DeadInv ==
  /\ \A n \in Names : world[n] # NoObject => world[n].uid <= changes
  /\ Within(Known)

LEMMA InitDead == InventoryInit => DeadInv
<1> SUFFICES ASSUME InventoryInit PROVE DeadInv
  OBVIOUS
<1>1. SyncerBegins(1, "no") /\ StoreBegins(0) /\ SyncerTypeOK
  BY InitTyped DEF InventoryInit, InventoryBegins, TypesOK
<1>2. \A n \in Names : world[n] # NoObject => world[n].uid <= changes
  BY <1>1 DEF SyncerBegins
<1>3. ToSet(notices) \subseteq Known
  <2> DEFINE first == SetToSeq(Listed)
  <2>1. first \in Seq(Item) /\ ToSet(first) = Listed
    BY <1>1, ListedType DEF SyncerTypeOK
  <2>2. notices = [i \in DOMAIN first |->
                     [type |-> "UPSERT", name |-> first[i][1], obj |-> first[i][2]]]
    BY <1>1 DEF SyncerBegins
  <2>3. \A i \in DOMAIN first : first[i] \in Listed
    BY <2>1 DEF ToSet
  <2>4. ASSUME NEW i \in DOMAIN first PROVE notices[i].type = "UPSERT" /\ notices[i].obj.uid <= changes
    <3>1. PICK n \in Names : world[n] # NoObject /\ first[i] = <<n, world[n]>>
      BY <2>3 DEF Listed
    <3>2. notices[i] = [type |-> "UPSERT", name |-> n, obj |-> world[n]]
      BY <2>2, <3>1
    <3> QED
      BY <1>2, <3>1, <3>2
  <2>5. DOMAIN notices = DOMAIN first
    BY <2>2
  <2>6. \A i \in DOMAIN notices : notices[i] \in ResourceEvent
    BY <1>1, ElementOfSeq, LenProperties DEF SyncerTypeOK
  <2> HIDE DEF first
  <2> QED
    BY <2>4, <2>5, <2>6 DEF Known, ToSet
<1>4. /\ ToSet(pending) = {} /\ ToSet(outbox) = {}
      /\ \A s \in Streams : MessagesOf(s) = {} /\ EventsOf(work[s]) = {}
  BY <1>1, EmptySet DEF SyncerBegins, StoreBegins, MessagesOf, EventsOf, NoWork
<1> QED
  BY <1>2, <1>3, <1>4 DEF DeadInv, Within

LEMMA WithinMore ==
  ASSUME NEW K, NEW M, K \subseteq M, Within(K)
  PROVE  Within(M)
BY Zenon DEF Within

\* An event that occurs joins the notices.
LEMMA WorldDead ==
  ASSUME TypesOK, DeadInv, NEW n \in Names, Upsert(n) \/ Delete(n), UNCHANGED store
  PROVE  DeadInv'
<1>0. /\ world \in [Names -> Object \cup {NoObject}] /\ notices \in Seq(ResourceEvent)
      /\ changes \in 1 .. MaxChanges /\ MaxChanges \in Nat
  BY InventoryAssumption DEF TypesOK, SyncerTypeOK
<1>1. PICK e \in ResourceEvent :
        /\ notices' = Append(notices, e) /\ e.name = n
        /\ \/ e.type = "DELETE" /\ world[n] # NoObject /\ e.obj = world[n]
              /\ world' = [world EXCEPT ![n] = NoObject]
           \/ /\ e.type = "UPSERT" /\ world' = [world EXCEPT ![n] = e.obj]
              /\ IF world[n] = NoObject THEN e.obj.uid = changes + 1 ELSE e.obj.uid = world[n].uid
  <2>1. CASE Upsert(n)
    <3> DEFINE obj == [uid |-> IF world[n] = NoObject THEN changes + 1 ELSE world[n].uid,
                       rv |-> changes + 1]
               e == [type |-> "UPSERT", name |-> n, obj |-> obj]
    <3>1. changes < MaxChanges /\ notices' = Append(notices, e) /\ world' = [world EXCEPT ![n] = obj]
      BY <2>1 DEF Upsert, Occurs
    <3>2. world[n] # NoObject => world[n].uid \in 1 .. MaxChanges
      BY <1>0 DEF Object
    <3>3. changes + 1 \in 1 .. MaxChanges
      BY <1>0, <3>1
    <3>4. obj \in Object
      BY <3>2, <3>3 DEF Object
    <3>5. e \in ResourceEvent
      BY <3>4 DEF ResourceEvent
    <3>6. e.name = n /\ e.type = "UPSERT" /\ e.obj = obj
          /\ IF world[n] = NoObject THEN e.obj.uid = changes + 1 ELSE e.obj.uid = world[n].uid
      OBVIOUS
    <3> HIDE DEF e, obj
    <3> QED
      BY <3>1, <3>5, <3>6
  <2>2. CASE Delete(n)
    <3> DEFINE e == [type |-> "DELETE", name |-> n, obj |-> world[n]]
    <3>1. world[n] \in Object
      BY <1>0, <2>2 DEF Delete
    <3>2. e \in ResourceEvent
      BY <3>1 DEF ResourceEvent
    <3>3. notices' = Append(notices, e) /\ world' = [world EXCEPT ![n] = NoObject] /\ world[n] # NoObject
      BY <2>2 DEF Delete, Occurs
    <3> QED
      BY <3>2, <3>3
  <2> QED
    BY <2>1, <2>2
<1>2. changes' = changes + 1 /\ UNCHANGED <<pending, outbox, wire, work>>
  BY DEF Upsert, Delete, Occurs, batching, store
<1>3. \A m \in Names \ {n} : world'[m] = world[m]
  BY <1>0, <1>1
<1>4. e.obj.uid \in Nat /\ \A m \in Names : world[m] # NoObject => world[m].uid \in Nat /\ world[m].uid <= changes
  BY <1>0 DEF ResourceEvent, Object, DeadInv
<1>5. world'[n] = IF e.type = "DELETE" THEN NoObject ELSE e.obj
  BY <1>0, <1>1
<1>6. \A m \in Names : world'[m] # NoObject => world'[m].uid <= changes'
  <2>1. e.obj.uid <= changes + 1
    BY <1>0, <1>1, <1>4
  <2> QED
    BY <1>0, <1>2, <1>3, <1>4, <1>5, <2>1
<1>7. ASSUME NEW x \in Known PROVE x \in Known'
  <2>1. x \in ResourceEvent /\ x.name \in Names /\ x.obj.uid \in Nat /\ x.obj.uid <= changes
    BY DEF Known, ResourceEvent, Object
  <2>2. x.type = "DELETE" => world[x.name] = NoObject \/ x.obj.uid < world[x.name].uid
    BY DEF Known
  <2>3. x.obj.uid <= changes'
    BY <1>0, <1>2, <2>1
  <2>4. x.type = "DELETE" => world'[x.name] = NoObject \/ x.obj.uid < world'[x.name].uid
    <3>1. CASE x.name # n
      BY <1>3, <2>1, <2>2, <3>1
    <3>2. CASE x.name = n
      BY <1>0, <1>1, <1>4, <1>5, <2>1, <2>2, <3>2
    <3> QED
      BY <3>1, <3>2
  <2> QED
    BY <2>1, <2>3, <2>4 DEF Known
<1>8. e \in Known'
  <2>1. e.obj.uid <= changes'
    BY <1>0, <1>1, <1>2, <1>4
  <2>2. e.type = "DELETE" => world'[e.name] = NoObject
    BY <1>1, <1>5
  <2> QED
    BY <2>1, <2>2 DEF Known
<1>9. ToSet(notices') = ToSet(notices) \cup {e}
  BY <1>0, <1>1, AppendSet
<1>10. ToSet(notices) \subseteq Known /\ Known \subseteq Known'
  BY <1>7 DEF DeadInv, Within
<1>11. ToSet(notices') \subseteq Known'
  BY <1>8, <1>9, <1>10
<1>12. Within(Known)'
  <2> PICK K : K = Known'
    OBVIOUS
  <2>1. Within(K)
    BY <1>10, WithinMore DEF DeadInv
  <2>2. Within(K)'
    BY <1>2, <1>11, <2>1 DEF Within, MessagesOf
  <2> QED
    BY <2>2 DEF Within
<1> QED
  BY <1>6, <1>12 DEF DeadInv

\* Everything else only passes events on.
LEMMA SyncerWithin ==
  ASSUME TypesOK, NEW K, Within(K), SyncerMoves, UNCHANGED store,
         ~ \E n \in Names : Upsert(n) \/ Delete(n)
  PROVE  Within(K)' /\ UNCHANGED stores
<1>1. /\ notices \in Seq(ResourceEvent) /\ pending \in Seq(ResourceEvent)
      /\ outbox \in Seq(Message) /\ SyncerTypeOK
  BY DEF TypesOK, SyncerTypeOK
<1>2. UNCHANGED <<wire, work>>
  BY DEF store
<1>3. SUFFICES /\ ToSet(notices') \subseteq K /\ ToSet(pending') \subseteq K
               /\ \A m \in ToSet(outbox') : EventsOf(m) \subseteq K
               /\ UNCHANGED stores
  BY <1>2 DEF Within, MessagesOf
<1>4. CASE HandleNotice
  <2>1. ToSet(notices') \subseteq K /\ Head(notices) \in K /\ Head(notices) \in ResourceEvent
        /\ UNCHANGED <<stores, outbox>>
    BY <1>1, <1>4, TailSet DEF HandleNotice, Within, informers
  <2>2. pending' = pending \/ pending' = <<>> \/ pending' = Append(pending, Head(notices))
    BY <1>4 DEF HandleNotice, Ignore, Overflow, Enqueue, batching
  <2>3. ToSet(pending') \subseteq K
    <3>1. CASE pending' = pending \/ pending' = <<>>
      BY <3>1, EmptySet DEF Within
    <3>2. CASE pending' = Append(pending, Head(notices))
      <4>1. ToSet(pending') = ToSet(pending) \cup {Head(notices)}
        BY <1>1, <2>1, <3>2, AppendSet
      <4> QED
        BY <2>1, <4>1 DEF Within
    <3> QED
      BY <2>2, <3>1, <3>2
  <2> QED
    BY <2>1, <2>3 DEF Within
<1>5. CASE ResyncTick \/ ensureInformers \/ \E id \in Fresh : StartSnapshot(id)
  <2>1. UNCHANGED <<stores, notices, pending, outbox>>
    BY <1>5 DEF ResyncTick, Resync, ensureInformers, StartSnapshot, batching, informers
  <2> QED
    BY <2>1 DEF Within
<1>6. CASE SendChunk
  <2> DEFINE m == [what |-> "chunk", id |-> sending.id, seq |-> sending.next,
                   last |-> sending.next + 1 = Chunks(sending.listing),
                   items |-> ItemsOf(sending.listing, sending.next), listing |-> sending.listing]
  <2>1. sending.listing \in Seq(Item) /\ sending.next \in Nat /\ sending.id \in SnapshotIds
    BY <1>1, <1>6 DEF SyncerTypeOK, SendChunk, Sending
  <2>2. m \in Message
    BY <1>6, <2>1, ItemsType DEF Message, SendChunk
  <2>3. EventsOf(m) = {} /\ outbox' = Append(outbox, m) /\ UNCHANGED <<stores, notices, pending>>
    BY <1>6 DEF EventsOf, SendChunk, batching, informers
  <2> HIDE DEF m
  <2>4. ToSet(outbox') = ToSet(outbox) \cup {m}
    BY <1>1, <2>2, <2>3, AppendSet
  <2> QED
    BY <2>3, <2>4 DEF Within
<1>7. CASE FinishSnapshot
  <2>1. UNCHANGED <<stores, notices, outbox>>
    BY <1>7 DEF FinishSnapshot, informers
  <2>2. ToSet(pending') \subseteq ToSet(pending)
    <3>1. CASE connected
      <4> DEFINE items == ToSet(sending.listing)
                 kept == InOrder(Kept(items))
                 events == [k \in DOMAIN kept |-> pending[kept[k]]]
      <4>1. pending' = events
        BY <1>7, <3>1 DEF FinishSnapshot
      <4>2. ToSet(events) = {pending[i] : i \in Kept(items)}
        BY <1>1, KeptType
      <4>3. Kept(items) \subseteq DOMAIN pending
        BY DEF Kept
      <4> HIDE DEF items, kept, events
      <4> QED
        BY <4>1, <4>2, <4>3 DEF ToSet
    <3>2. CASE ~connected
      BY <1>7, <3>2 DEF FinishSnapshot, batching
    <3> QED
      BY <3>1, <3>2
  <2> QED
    BY <2>1, <2>2 DEF Within
<1>8. CASE Flush
  <2> DEFINE n == IF Len(pending) < BatchMax THEN Len(pending) ELSE BatchMax
  <2>1. Len(pending) \in Nat /\ Len(pending) # 0
    BY <1>1, <1>8, LenProperties, EmptySeq DEF Flush
  <2>2. n \in 1 .. Len(pending)
    BY <2>1, SyncerAssumption
  <2>3. \/ outbox' = Append(outbox, Batch(n)) /\ pending' = SubSeq(pending, n + 1, Len(pending))
        \/ outbox' = outbox /\ pending' = <<>>
    BY <1>8 DEF Flush
  <2>4. UNCHANGED <<stores, notices>>
    BY <1>8 DEF Flush, informers
  <2> HIDE DEF n
  <2>5. 1 \in 1 .. Len(pending) + 1 /\ n \in 1 - 1 .. Len(pending)
        /\ n + 1 \in 1 .. Len(pending) + 1 /\ Len(pending) \in n + 1 - 1 .. Len(pending)
    BY <2>1, <2>2
  <2>6. SubSeq(pending, 1, n) \in Seq(ResourceEvent) /\ ToSet(SubSeq(pending, 1, n)) \subseteq K
    BY <1>1, <2>5, PartSet DEF Within
  <2>7. ToSet(SubSeq(pending, n + 1, Len(pending))) \subseteq K
    BY <1>1, <2>5, PartSet DEF Within
  <2>8. Batch(n) \in Message /\ EventsOf(Batch(n)) \subseteq K
    <3>1. snapshotID \in SnapshotIds /\ batchSeq + 1 \in Nat
      BY <1>1, <1>8 DEF Flush, SyncerTypeOK
    <3> QED
      BY <2>6, <3>1 DEF Batch, Message, EventsOf
  <2>9. CASE outbox' = Append(outbox, Batch(n)) /\ pending' = SubSeq(pending, n + 1, Len(pending))
    <3>1. ToSet(outbox') = ToSet(outbox) \cup {Batch(n)}
      BY <1>1, <2>8, <2>9, AppendSet
    <3> QED
      BY <2>4, <2>7, <2>8, <2>9, <3>1 DEF Within
  <2>10. CASE outbox' = outbox /\ pending' = <<>>
    BY <2>4, <2>10, EmptySet DEF Within
  <2> QED
    BY <2>3, <2>9, <2>10
<1> QED
  BY <1>4, <1>5, <1>6, <1>7, <1>8 DEF SyncerMoves

LEMMA ServerWithin ==
  ASSUME TypesOK, NEW K, Within(K), NEW s \in Streams, ServerHears(s)
  PROVE  Within(K)' /\ UNCHANGED stores
<1>1. StoreTypeOK /\ SyncerTypeOK
  BY DEF TypesOK
<1>2. Hears(s) /\ UNCHANGED <<stores, notices, pending, outbox>>
  BY <1>1, HearsParts DEF syncer, stores, informers, batching
<1>3. wire' = [wire EXCEPT ![s] = Tail(@)] /\ wire[s] # <<>>
  BY <1>2 DEF Hears
<1>4. \A x \in Streams : \A m \in ToSet(wire'[x]) : EventsOf(m) \subseteq K
  <2>1. ASSUME NEW x \in Streams PROVE ToSet(wire'[x]) \subseteq ToSet(wire[x])
    <3>1. CASE x = s
      <4>1. wire'[x] = Tail(wire[s])
        BY <3>1, <1>1, <1>3 DEF StoreTypeOK
      <4> QED
        BY <1>1, <1>3, <3>1, <4>1, HeadMessage DEF MessagesOf
    <3>2. CASE x # s
      BY <3>2, <1>1, <1>3 DEF StoreTypeOK
    <3> QED
      BY <3>1, <3>2
  <2> QED
    BY <2>1 DEF Within, MessagesOf
<1>5. \A x \in Streams : EventsOf(work'[x]) \subseteq K
  <2>1. CASE UNCHANGED work
    BY <2>1 DEF Within
  <2>2. ASSUME NEW o \in Streams, NEW m \in Message, m \in MessagesOf(s),
               \/ TakeChunk(s, o, m) \/ TakeEvents(s, o, m)
               \/ RefuseChunk(s, o, m) \/ RefuseEvents(s, o, m)
        PROVE  \A x \in Streams : EventsOf(work'[x]) \subseteq K
    <3>1. PICK w : work' = [work EXCEPT ![s] = w] /\ (w = work[s] \/ EventsOf(w) \subseteq K)
      <4>1. CASE UNCHANGED work
        BY <4>1, <1>1 DEF StoreTypeOK
      <4>2. CASE TakeChunk(s, o, m) /\ ~UNCHANGED work
        BY <4>2 DEF TakeChunk, Awaits, EventsOf
      <4>3. CASE TakeEvents(s, o, m) /\ ~UNCHANGED work
        <5>1. m.what = "events" /\ EventsOf(m) \subseteq K
          BY <2>2, <4>3 DEF TakeEvents, HearsEvents, Within
        <5> DEFINE w == [what |-> "events", in |-> o, seq |-> m.seq, events |-> m.events]
        <5>2. work' = [work EXCEPT ![s] = w]
          BY <4>3 DEF TakeEvents, Awaits
        <5>3. EventsOf(w) \subseteq K
          BY <5>1 DEF EventsOf
        <5> HIDE DEF w
        <5> QED
          BY <5>2, <5>3
      <4>4. CASE RefuseChunk(s, o, m) \/ RefuseEvents(s, o, m)
        BY <4>1, <4>4 DEF RefuseChunk, RefuseEvents
      <4> QED
        BY <2>2, <4>1, <4>2, <4>3, <4>4
    <3>2. ASSUME NEW x \in Streams PROVE work'[x] = work[x] \/ work'[x] = w
      BY <3>1, <1>1 DEF StoreTypeOK
    <3> QED
      BY <3>1, <3>2 DEF Within
  <2> QED
    BY <1>1, <2>1, <2>2, HearsParts DEF IgnoreMessage
<1> QED
  BY <1>2, <1>4, <1>5 DEF Within, MessagesOf

LEMMA NextDead == TypesOK /\ DeadInv /\ [InventoryNext]_vars => DeadInv'
<1> SUFFICES ASSUME TypesOK, DeadInv, [InventoryNext]_vars PROVE DeadInv'
  OBVIOUS
<1>0. outbox \in Seq(Message) /\ wire \in [Streams -> Seq(Message)] /\ work \in [Streams -> Work]
  BY DEF TypesOK, SyncerTypeOK, StoreTypeOK
<1>1. PICK K : K = Known
  OBVIOUS
<1>2. Within(K)
  BY <1>1 DEF DeadInv
<1>3. Within(K)' /\ UNCHANGED stores => DeadInv'
  <2>1. SUFFICES ASSUME Within(K)', UNCHANGED stores PROVE DeadInv'
    OBVIOUS
  <2>2. Known' = K
    BY <1>1, <2>1 DEF Known, stores, informers
  <2> QED
    BY <2>1, <2>2 DEF DeadInv, stores, informers, Within
<1>4. CASE World \/ Handler \/ Ticker \/ Watch \/ StartOver \/ RunStep
  <2>1. SyncerMoves /\ UNCHANGED store
    BY <1>4, SyncerStep
  <2>2. CASE \E n \in Names : Upsert(n) \/ Delete(n)
    BY <2>1, <2>2, WorldDead
  <2> QED
    BY <1>2, <1>3, <2>1, <2>2, SyncerWithin
<1>5. CASE Dial
  <2>1. UNCHANGED <<stores, notices, pending, wire, work>> /\ ToSet(outbox') = {}
    BY <1>5, EmptySet DEF Dial, KeepSyncer, store, batching, informers
  <2> QED
    BY <1>2, <1>3, <2>1 DEF Within, MessagesOf
<1>6. CASE Requeue
  <2>1. UNCHANGED <<stores, notices, pending, wire, work>>
    BY <1>6 DEF Requeue, KeepSyncer, store, batching, informers
  <2>2. Head(outbox) \in ToSet(outbox) /\ ToSet(Tail(outbox)) \subseteq ToSet(outbox)
        /\ Tail(outbox) \in Seq(Message) /\ Head(outbox) \in Message
    BY <1>0, <1>6, TailSet DEF Requeue
  <2>3. ToSet(Append(Tail(outbox), Head(outbox))) = ToSet(Tail(outbox)) \cup {Head(outbox)}
    <3>1. \A q \in Seq(Message), m \in Message : ToSet(Append(q, m)) = ToSet(q) \cup {m}
      BY AppendSet
    <3> QED
      BY <2>2, <3>1, Zenon
  <2>4. ToSet(outbox') \subseteq ToSet(outbox)
    BY <1>6, <2>2, <2>3 DEF Requeue
  <2> QED
    BY <1>2, <1>3, <2>1, <2>4 DEF Within, MessagesOf
<1>7. CASE (\E r \in Replicas : Accept(r)) \/ SessionEnds
  <2>1. UNCHANGED <<stores, notices, outbox, wire, work>> /\ pending' = <<>>
    BY <1>7 DEF Accept, SessionEnds, OpenStream, SetConnected, informers
  <2> QED
    BY <1>2, <1>3, <2>1, EmptySet DEF Within, MessagesOf
<1>8. CASE Sends
  <2>1. UNCHANGED <<stores, notices, pending, work>>
    BY <1>8 DEF Sends, KeepSyncer, batching, informers
  <2>2. Head(outbox) \in ToSet(outbox) /\ ToSet(Tail(outbox)) \subseteq ToSet(outbox)
        /\ Head(outbox) \in Message
    BY <1>0, <1>8, TailSet DEF Sends
  <2>3. \A s \in Streams : \A m \in ToSet(wire'[s]) : EventsOf(m) \subseteq K
    <3>1. ASSUME NEW s \in Streams
          PROVE  \A m \in ToSet(wire'[s]) : m \in ToSet(wire[s]) \/ m \in ToSet(outbox)
      <4>1. CASE wire'[s] = wire[s]
        BY <4>1
      <4>2. CASE wire'[s] # wire[s]
        <5>1. wire'[s] = Append(wire[s], Head(outbox)) /\ wire[s] \in Seq(Message)
          BY <1>0, <1>8, <4>2 DEF Sends
        <5>2. ToSet(wire'[s]) = ToSet(wire[s]) \cup {Head(outbox)}
          BY <2>2, <5>1, AppendSet
        <5> QED
          BY <2>2, <5>2
      <4> QED
        BY <4>1, <4>2
    <3> QED
      BY <1>2, <3>1 DEF Within, MessagesOf
  <2>4. \A m \in ToSet(outbox') : EventsOf(m) \subseteq K
    BY <1>2, <1>8, <2>2 DEF Sends, Within
  <2> QED
    BY <1>2, <1>3, <2>1, <2>3, <2>4 DEF Within, MessagesOf
<1>9. ASSUME NEW s \in Streams, ServerHears(s) PROVE DeadInv'
  BY <1>2, <1>3, <1>9, ServerWithin
<1>10. ASSUME NEW s \in Streams, ServerWrites(s) \/ ServerFails(s) PROVE DeadInv'
  <2>1. UNCHANGED <<stores, notices, pending, outbox, wire>> /\ work' = [work EXCEPT ![s] = NoWork]
    BY <1>10 DEF ServerWrites, ServerFails, CommitSnapshot, CommitEvents, FailWork, Awaits,
                 syncer, stores, informers
  <2>2. ASSUME NEW x \in Streams PROVE EventsOf(work'[x]) \subseteq K
    <3>1. CASE x = s
      BY <1>0, <2>1, <3>1 DEF EventsOf, NoWork
    <3>2. CASE x # s
      BY <1>0, <1>2, <2>1, <3>2 DEF Within
    <3> QED
      BY <3>1, <3>2
  <2> QED
    BY <1>2, <1>3, <2>1, <2>2 DEF Within, MessagesOf
<1>11. ASSUME NEW s \in Streams, ServerEnds(s) PROVE DeadInv'
  <2>1. UNCHANGED <<stores, notices, pending, outbox, work>> /\ wire' = [wire EXCEPT ![s] = <<>>]
    BY <1>11 DEF ServerEnds, EndStream, syncer, stores, informers
  <2>2. ASSUME NEW x \in Streams PROVE ToSet(wire'[x]) \subseteq ToSet(wire[x])
    <3>1. wire'[x] = wire[x] \/ wire'[x] = <<>>
      BY <1>0, <2>1
    <3> QED
      BY <3>1, EmptySet
  <2> QED
    BY <1>2, <1>3, <2>1, <2>2 DEF Within, MessagesOf
<1>12. CASE UNCHANGED vars
  BY <1>2, <1>3, <1>12 DEF vars, syncer, store, stores, informers, Within, MessagesOf
<1> QED
  BY <1>4, <1>5, <1>6, <1>7, <1>8, <1>9, <1>10, <1>11, <1>12 DEF InventoryNext

\* What the events leave in the row of an object that exists.
LEMMA ExistingStays ==
  ASSUME NEW rows \in Tables, NEW events \in Seq(ResourceEvent), NEW n \in Names,
         NEW uid \in Nat, rows[n] \notin {NoObject, Gone}, rows[n].uid = uid,
         Patched(rows, events)[n] = Gone,
         \A e \in ToSet(events) : e.type = "DELETE" /\ e.name = n => e.obj.uid < uid
  PROVE  \E e \in ToSet(events) : e.type = "UPSERT" /\ e.name = n /\ e.obj.uid < uid
<1> SUFFICES ASSUME \A e \in ToSet(events) : e.type = "UPSERT" /\ e.name = n => ~(e.obj.uid < uid)
             PROVE  FALSE
  OBVIOUS
<1>1. PICK p : RowsThrough(p, rows, events)
  BY PatchedStepwise
<1>2. Len(events) \in Nat /\ DOMAIN events = 1 .. Len(events)
  BY LenProperties
<1> DEFINE Good(x) == x \notin {NoObject, Gone} /\ x \in Object /\ x.uid >= uid
           T == {i \in Nat : i <= Len(events) => Good(p[i][n])}
<1>3. 0 \in T
  BY <1>1 DEF RowsThrough, Tables
<1>4. ASSUME NEW i \in T PROVE i + 1 \in T
  <2>1. SUFFICES ASSUME i + 1 <= Len(events) PROVE Good(p[i + 1][n])
    OBVIOUS
  <2>2. i \in 0 .. Len(events) /\ i + 1 \in 1 .. Len(events) /\ (i + 1) - 1 = i
    BY <1>2, <2>1
  <2>3. events[i + 1] \in ResourceEvent /\ events[i + 1] \in ToSet(events)
    BY <1>2, <2>2, ElementOfSeq DEF ToSet
  <2>4. PICK e \in ResourceEvent : e = events[i + 1]
    BY <2>3
  <2>5. p[i + 1] = Applied(p[i], e) /\ p[i] \in Tables /\ Good(p[i][n])
    BY <1>1, <1>2, <2>1, <2>2, <2>4 DEF RowsThrough
  <2>6. e.type \in {"UPSERT", "DELETE"} /\ e.name \in Names /\ e.obj \in Object /\ e.obj.uid \in Nat
        /\ (e.type = "UPSERT" /\ e.name = n => e.obj.uid >= uid)
        /\ (e.type = "DELETE" /\ e.name = n => e.obj.uid < uid)
    BY <2>3, <2>4 DEF ResourceEvent, Object
  <2>7. CASE e.name # n
    BY <2>5, <2>6, <2>7 DEF Applied, Tables
  <2>8. CASE e.name = n /\ e.type = "UPSERT"
    <3>1. p[i + 1][n] = e.obj
      BY <2>5, <2>8 DEF Applied, Tables
    <3>2. e.obj \notin {NoObject, Gone}
      BY <2>6, InventoryAssumption, StoreAssumption
    <3> QED
      BY <2>6, <2>8, <3>1, <3>2
  <2>9. CASE e.name = n /\ e.type = "DELETE"
    <3>1. p[i][n].uid \in Nat /\ p[i][n].uid >= uid
      BY <2>5 DEF Object
    <3>2. p[i][n].uid # e.obj.uid
      BY <2>6, <2>9, <3>1
    <3>3. p[i + 1] = p[i]
      BY <2>5, <2>6, <2>9, <3>2 DEF Applied
    <3> QED
      BY <2>5, <3>3
  <2> QED
    BY <2>6, <2>7, <2>8, <2>9
<1>5. Len(events) \in T
  <2>1. T \in SUBSET Nat
    OBVIOUS
  <2> HIDE DEF T
  <2> QED
    BY <1>2, <1>3, <1>4, <2>1, NumberInduction
<1> QED
  BY <1>1, <1>2, <1>5 DEF RowsThrough

LEMMA EventsCommitted ==
  ASSUME TypesOK, DeadInv, NEW s \in Streams, work[s].what = "events", NEW n \in Names,
         ShowsWhatExists(n), CommitEvents(s), table'[n] = Gone
  PROVE  PutsBack(work[s].events, n)
<1>1. work[s] \in Work /\ table \in Tables /\ world \in [Names -> Object \cup {NoObject}]
  BY DEF TypesOK, StoreTypeOK, SyncerTypeOK
<1>2. work[s].events \in Seq(ResourceEvent)
  BY <1>1, WorkType
<1>3. world[n].uid \in Nat /\ world[n] # NoObject
  BY <1>1 DEF ShowsWhatExists, Object
<1>4. \A e \in ToSet(work[s].events) : e.type = "DELETE" /\ e.name = n => e.obj.uid < world[n].uid
  BY <1>3 DEF DeadInv, Within, EventsOf, Known
<1>5. Patched(table, work[s].events)[n] = Gone
  BY DEF CommitEvents
<1>6. table[n] \notin {NoObject, Gone} /\ table[n].uid = world[n].uid
  BY DEF ShowsWhatExists
<1>7. PICK events \in Seq(ResourceEvent), uid \in Nat : events = work[s].events /\ uid = world[n].uid
  BY <1>2, <1>3
<1>8. \E e \in ToSet(events) : e.type = "UPSERT" /\ e.name = n /\ e.obj.uid < uid
  BY <1>1, <1>4, <1>5, <1>6, <1>7, ExistingStays
<1> QED
  BY <1>7, <1>8 DEF PutsBack

(***************************************************************************)
(* A batch of changes takes away no row of an object that exists, but by   *)
(* putting an earlier object back in it first.                             *)
(***************************************************************************)
THEOREM DeletesTheDeadHolds == InventorySpec => DeletesTheDead
<1> DEFINE Step ==
      \A s \in Streams : work[s].what = "events" /\ work'[s] = NoWork
        => \A n \in Names : ShowsWhatExists(n) /\ table'[n] = Gone => PutsBack(work[s].events, n)
<1>1. TypesOK /\ DeadInv /\ [InventoryNext]_vars => [Step]_vars
  <2> SUFFICES ASSUME TypesOK, DeadInv, InventoryNext, NEW s \in Streams, NEW n \in Names,
                      work[s].what = "events", work'[s] = NoWork,
                      ShowsWhatExists(n), table'[n] = Gone
               PROVE  PutsBack(work[s].events, n)
    BY DEF Step
  <2>1. table' # table /\ work' # work
    BY DEF ShowsWhatExists, NoWork
  <2>2. PICK x \in Streams : CommitSnapshot(x) \/ CommitEvents(x)
    <3>1. World \/ Handler \/ Ticker \/ Watch \/ StartOver \/ RunStep => UNCHANGED table
      BY SyncerStep DEF store
    <3>2. Dial \/ Requeue \/ (\E r \in Replicas : Accept(r)) \/ SessionEnds \/ Sends => UNCHANGED table
      BY DEF Dial, Requeue, Accept, SessionEnds, Sends, store, OpenStream
    <3>3. \A x \in Streams : ServerHears(x) => UNCHANGED table
      BY HearsParts DEF Hears, TypesOK
    <3>4. \A x \in Streams : ServerFails(x) \/ ServerEnds(x) => UNCHANGED table
      BY DEF ServerFails, ServerEnds, FailWork, EndStream
    <3> QED
      BY <2>1, <3>1, <3>2, <3>3, <3>4 DEF InventoryNext, ServerWrites
  <2>3. x = s
    BY <2>2 DEF CommitSnapshot, CommitEvents, Awaits, TypesOK, StoreTypeOK, NoWork
  <2> QED
    BY <2>2, <2>3, EventsCommitted DEF CommitSnapshot
<1>2. InventorySpec => [](TypesOK /\ DeadInv)
  BY InitTyped, InitDead, NextTyped, NextDead, PTL DEF InventorySpec
<1>3. InventorySpec => [][Step]_vars
  BY <1>1, <1>2, PTL DEF InventorySpec
<1> QED
  BY <1>3 DEF DeletesTheDead
=============================================================================
