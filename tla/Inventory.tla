------------------------------ MODULE Inventory ------------------------------
(***************************************************************************)
(* The inventory of one cluster: the agent's syncer and the control        *)
(* plane's store, joined by the agent's stream.  The connection manager    *)
(* (vfm/agent/internal/gateway/manager.go) takes the messages of the       *)
(* outbox to the stream; it drops the inventory that is queued when it     *)
(* dials, and while it waits to be accepted it puts what it takes from the *)
(* queue back at its end.                                                  *)
(*                                                                         *)
(* The agent has one stream at a time.  The server notices the end of one  *)
(* later, and may still be handling what it carried when the next opens.   *)
(***************************************************************************)
EXTENDS InventorySyncer, InventoryStore

CONSTANT WireSize  \* messages a stream holds before its sender waits

ASSUME WireAssumption == WireSize \in Nat \ {0}

VARIABLES
  session,      \* the manager's connection: "down", "dialing", "accepted"
  current,      \* its last stream
  overwritten   \* (history) another stream wrote rows since the last
                \* snapshot of the current stream read them

vars == <<syncer, store, session, current, overwritten>>

\* With so many changes, streams and faults used up before; an agent that had
\* a stream may have started its informers and heard nothing from them yet.
InventoryBegins(used, opened, failed) ==
  /\ SyncerBegins(used, IF opened = NoStream THEN "no" ELSE "yes") /\ StoreBegins(failed)
  /\ session = "down" /\ current = opened /\ overwritten = FALSE

InventoryInit == InventoryBegins(1, NoStream, 0)

\* Snapshot ids are random: a new one is like none that is in use, but for
\* the one it replaces at the agent.
MessagesOf(s) == ToSet(wire[s])

InUse ==
  {m.id : m \in ToSet(outbox)}
    \cup (UNION {{m.id : m \in MessagesOf(s)} \cup {completedId[s], assembly[s].id} : s \in Streams})
    \cup {work[s].id : s \in {x \in Streams : work[x].what = "snapshot"}}

Fresh == SnapshotIds \ InUse

-----------------------------------------------------------------------------
World ==
  /\ \E n \in Names : Upsert(n) \/ Delete(n)
  /\ UNCHANGED <<store, session, current, overwritten>>

Handler == HandleNotice /\ UNCHANGED <<store, session, current, overwritten>>

Ticker == ResyncTick /\ UNCHANGED <<store, session, current, overwritten>>

\* The goroutine of Run.
Watch == ensureInformers /\ UNCHANGED <<store, session, current, overwritten>>

StartOver ==
  /\ Fresh # {}
  /\ StartSnapshot(CHOOSE id \in Fresh : TRUE)
  /\ UNCHANGED <<store, session, current, overwritten>>

RunStep ==
  /\ SendChunk \/ FinishSnapshot \/ Flush
  /\ UNCHANGED <<store, session, current, overwritten>>

-----------------------------------------------------------------------------
(***************************************************************************)
(* A session is dialled, accepted and ends.                                *)
(***************************************************************************)
KeepSyncer ==
  UNCHANGED <<informers, notices, connected, resyncReq, batching, sending, missed>>

Dial ==
  /\ session = "down" /\ current < MaxStreams
  /\ session' = "dialing"
  /\ outbox' = <<>>
  /\ KeepSyncer /\ UNCHANGED <<store, current, overwritten>>

\* Another sender may take the room before the message is put back.
Requeue ==
  /\ session = "dialing" /\ outbox # <<>>
  /\ \/ outbox' = Append(Tail(outbox), Head(outbox))
     \/ Len(outbox) = OutboxSize /\ outbox' = Tail(outbox)
  /\ KeepSyncer /\ UNCHANGED <<store, session, current, overwritten>>

Accept(r) ==
  /\ session = "dialing"
  /\ session' = "accepted" /\ current' = current + 1
  /\ OpenStream(current + 1, r)
  /\ SetConnected(TRUE)
  /\ UNCHANGED <<outbox, overwritten>>

SessionEnds ==
  /\ session = "accepted"
  /\ session' = "down"
  /\ SetConnected(FALSE)
  /\ UNCHANGED <<outbox, table, home, wire, work, states, fields, faults,
                 current, overwritten>>

Sends ==
  /\ session = "accepted" /\ outbox # <<>> /\ Len(wire[current]) < WireSize
  /\ wire' = [wire EXCEPT ![current] = Append(@, Head(outbox))]
  /\ outbox' = Tail(outbox)
  /\ KeepSyncer
  /\ UNCHANGED <<table, home, work, states, fields, faults,
                 session, current, overwritten>>

-----------------------------------------------------------------------------
(***************************************************************************)
(* The handlers of the streams.  A request for a snapshot goes to the      *)
(* stream the agent has now; within RESYNC_COOLDOWN_MS of the last one it  *)
(* is not made, and sending it may fail.                                   *)
(***************************************************************************)
requestResync ==
  /\ resyncReq' = TRUE \/ UNCHANGED resyncReq
  /\ resyncReq' => (resyncReq \/ session = "accepted")
  /\ UNCHANGED <<informers, notices, connected, batching, sending, outbox, missed>>

ServerHears(s) ==
  /\ \/ IgnoreMessage(s) /\ UNCHANGED syncer
     \/ LET o == states[home[s]]
            m == Head(wire[s])
        IN /\ home[s] # NoReplica /\ o # NoStream /\ wire[s] # <<>>
           /\ \/ (TakeChunk(s, o, m) \/ TakeEvents(s, o, m)) /\ UNCHANGED syncer
              \/ (RefuseChunk(s, o, m) \/ RefuseEvents(s, o, m)) /\ requestResync
  /\ overwritten' = (overwritten /\ ~(s = current /\ work'[s].what = "snapshot"))
  /\ UNCHANGED <<session, current>>

ServerWrites(s) ==
  /\ CommitSnapshot(s) \/ CommitEvents(s)
  /\ overwritten' = (overwritten \/ s # current)
  /\ UNCHANGED <<syncer, session, current>>

ServerFails(s) == FailWork(s) /\ UNCHANGED <<syncer, session, current, overwritten>>

\* The watchdog, a newer stream, or the connection itself ends it.
ServerEnds(s) ==
  /\ session # "accepted" \/ s # current
  /\ EndStream(s)
  /\ UNCHANGED <<syncer, session, current, overwritten>>

InventoryNext ==
  \/ World \/ Handler \/ Ticker \/ Watch \/ StartOver \/ RunStep
  \/ Dial \/ Requeue \/ (\E r \in Replicas : Accept(r)) \/ SessionEnds \/ Sends
  \/ \E s \in Streams :
       ServerHears(s) \/ ServerWrites(s) \/ ServerFails(s) \/ ServerEnds(s)

InventorySpec == InventoryInit /\ [][InventoryNext]_vars

(***************************************************************************)
(* Goroutines, handlers and timers run; a connection that is up carries    *)
(* what is written to it, and one that is gone is noticed.                 *)
(***************************************************************************)
InventoryFairness ==
  /\ WF_vars(Handler) /\ WF_vars(Ticker) /\ WF_vars(Watch) /\ WF_vars(StartOver) /\ WF_vars(RunStep)
  /\ WF_vars(Sends)
  /\ \A s \in Streams :
       /\ WF_vars(ServerHears(s)) /\ WF_vars(ServerEnds(s))
       /\ WF_vars(ServerWrites(s) \/ ServerFails(s))

InventoryFairSpec == InventorySpec /\ InventoryFairness

-----------------------------------------------------------------------------
Work ==
  {NoWork}
    \cup [what : {"snapshot"}, in : Streams, id : SnapshotIds, rows : SUBSET Item,
          seen : [Names -> Object \cup {NoObject, Gone}], listing : Seq(Item)]
    \cup [what : {"events"}, in : Streams, seq : Nat, events : Seq(ResourceEvent)]

InventoryTypeOK ==
  /\ SyncerTypeOK
  /\ table \in [Names -> Object \cup {NoObject, Gone}]
  /\ home \in [Streams -> Replicas \cup {NoReplica}]
  /\ wire \in [Streams -> Seq(Message)]
  /\ work \in [Streams -> Work]
  /\ states \in [Replicas -> Streams \cup {NoStream}]
  /\ assembly \in [Streams -> [id : SnapshotIds \cup {NoId}, next : Nat, rows : SUBSET Item]]
  /\ completedId \in [Streams -> SnapshotIds \cup {NoId}]
  /\ lastBatch \in [Streams -> Nat]
  /\ faults \in 0 .. MaxFaults
  /\ session \in {"down", "dialing", "accepted"} /\ current \in 0 .. MaxStreams
  /\ overwritten \in BOOLEAN
  /\ connected = (session = "accepted")

\* The batches of a snapshot among some messages.
BatchesOf(messages, id) == {m \in ToSet(messages) : m.what = "events" /\ m.id = id}

\* The events of the batches of a snapshot among some messages, in order.
EventsIn(messages, id) ==
  FlattenSeq([i \in DOMAIN messages |->
                IF messages[i].what = "events" /\ messages[i].id = id THEN messages[i].events ELSE <<>>])

\* What is on the wire of the session's stream and in the outbox.
OnTheWay == wire[current] \o outbox

\* The numbers of the batches that are not in the table yet.
Due ==
  {m.seq : m \in BatchesOf(OnTheWay, snapshotID)}
    \cup (IF work[current].what = "events" THEN {work[current].seq} ELSE {})

\* The same snapshot is in force at both ends, and no batch of it was lost.
InForce ==
  /\ session = "accepted" /\ ~resyncReq
  /\ snapshotID # NoId /\ completedId[current] = snapshotID
  /\ Due = lastBatch[current] + 1 .. batchSeq

\* The events that are being written, carried, pending or noticed, in this order.
UnderWay ==
  (IF work[current].what = "events" THEN work[current].events ELSE <<>>)
    \o EventsIn(OnTheWay, snapshotID) \o pending \o notices

Shows(rows, n) ==
  IF world[n] = NoObject THEN rows[n] \in {NoObject, Gone} ELSE rows[n] = world[n]

(***************************************************************************)
(* Once a snapshot is in force at both ends, the rows and the changes that *)
(* are still on their way (being written, on the wire, in the outbox,      *)
(* pending, or not yet handled) always add up to the objects there are:    *)
(* whatever was refused, dropped or lost was made good by that snapshot.   *)
(* Excepted are the names the syncer is known to miss (`missed`), rows     *)
(* that an earlier stream wrote late, a gap in the batches, and a snapshot *)
(* that is about to be replaced.                                           *)
(***************************************************************************)
AddsUp ==
  (InForce /\ ~overwritten) =>
    LET rows == Patched(table, UnderWay)
    IN \A n \in Names : Shows(rows, n) \/ n \in missed

(***************************************************************************)
(* "Any doubt (a refused send, an overflow, a new connection, a server     *)
(* request) is answered with a new snapshot rather than a patch.  That is  *)
(* what makes missed events self-healing" (syncer.go): with a snapshot in  *)
(* force and nothing on its way, the rows show the objects there are.      *)
(***************************************************************************)
NothingMissed == InForce /\ ~overwritten /\ UnderWay = <<>> => \A n \in Names : Shows(table, n)

(***************************************************************************)
(* A snapshot that is written is one the agent listed, whole: its chunks   *)
(* come late, twice, rotated or not at all, but never as half a snapshot.  *)
(***************************************************************************)
WholeSnapshot ==
  \A s \in Streams : work[s].what = "snapshot" => work[s].rows = ToSet(work[s].listing)

(***************************************************************************)
(* Everything keeps its type, and what applySnapshot writes is the whole   *)
(* of one listing of the agent, never a mixture or a part.                 *)
(***************************************************************************)
StoredWhole == InventoryTypeOK /\ WholeSnapshot

(***************************************************************************)
(* A batch of changes never takes away the row of an object that exists:   *)
(* the deletion of an earlier object of the same name leaves its successor *)
(* alone.  Excepted is a batch that comes so late that it first puts the   *)
(* earlier object back in the row.                                         *)
(***************************************************************************)
ShowsWhatExists(n) ==
  /\ world[n] # NoObject /\ table[n] \notin {NoObject, Gone}
  /\ table[n].uid = world[n].uid

PutsBack(events, n) ==
  \E e \in ToSet(events) : e.type = "UPSERT" /\ e.name = n /\ e.obj.uid < world[n].uid

DeletesTheDead ==
  [][\A s \in Streams : work[s].what = "events" /\ work'[s] = NoWork
       => \A n \in Names :
            ShowsWhatExists(n) /\ table'[n] = Gone => PutsBack(work[s].events, n)]_vars

(***************************************************************************)
(* While a connection lasts the inventory comes to show the cluster, and   *)
(* goes on showing it once nothing changes: the ticker makes up for what   *)
(* was lost, swallowed, overwritten or asked for in vain.                  *)
(***************************************************************************)
Mirrors == \A n \in Names : Shows(table, n)

Converges == <>[](session = "accepted") => <>[]Mirrors
=============================================================================
