---------------------------- MODULE InventoryStore ----------------------------
(***************************************************************************)
(* The inventory service of the control plane (vfm/server/src/inventory/   *)
(* inventory.service.ts) for one cluster: snapshots are assembled in       *)
(* memory and written in one transaction, batches of changes are accepted  *)
(* only in order and on the snapshot in force, and anything else is        *)
(* answered with a request for a new snapshot.                             *)
(*                                                                         *)
(* A replica keeps one state for the cluster, made new when a stream       *)
(* opens; here a state is named by the stream it was made for.  A stream   *)
(* handles one message at a time, awaiting its transaction, so the         *)
(* transaction of an earlier stream may still run when the next one has    *)
(* begun, on the same replica or on another.                               *)
(***************************************************************************)
EXTENDS InventoryTypes

CONSTANTS
  Replicas, NoReplica,
  MaxStreams,    \* streams ever opened (a bound)
  MaxItems,      \* MAX_SNAPSHOT_ITEMS
  Gone,          \* a row marked deleted
  MaxFaults      \* transactions that fail (a bound)

ASSUME StoreAssumption ==
  /\ NoReplica \notin Replicas /\ Gone \notin Object \cup {NoObject}
  /\ MaxStreams \in Nat /\ MaxItems \in Nat /\ MaxFaults \in Nat

VARIABLES
  table,       \* the rows of the cluster
  home,        \* the replica that serves a stream
  wire,        \* what a stream carries to the server
  work,        \* the transaction a stream's handler awaits
  states,      \* InventoryService.states: whose state each replica uses
  assembly, completedId, lastBatch,  \* the fields of each state
  faults

fields == <<assembly, completedId, lastBatch>>
store == <<table, home, wire, work, states, fields, faults>>

Streams == 1 .. MaxStreams
NoStream == 0

NoAssembly == [id |-> NoId, next |-> 0, rows |-> {}]
NoWork == [what |-> "none"]

\* The row of each name after a snapshot, or a batch of changes, is written.
RowOf(rows, n) ==
  IF \E i \in rows : i[1] = n THEN (CHOOSE i \in rows : i[1] = n)[2] ELSE NoObject

\* Mutant: a deletion names its row by kind, namespace and name alone.
Applied_ByName(rows, e) ==
  [rows EXCEPT ![e.name] = IF e.type = "UPSERT" THEN e.obj ELSE IF @ = NoObject THEN @ ELSE Gone]

Applied(rows, e) ==
  IF e.type = "UPSERT" THEN [rows EXCEPT ![e.name] = e.obj]
  ELSE IF rows[e.name] \notin {NoObject, Gone} /\ rows[e.name].uid = e.obj.uid
  THEN [rows EXCEPT ![e.name] = Gone]
  ELSE rows

Patched(rows, events) == FoldLeft(Applied, rows, events)

StoreBegins(failed) ==
  /\ table = [n \in Names |-> NoObject]
  /\ home = [s \in Streams |-> NoReplica]
  /\ wire = [s \in Streams |-> <<>>]
  /\ work = [s \in Streams |-> NoWork]
  /\ states = [r \in Replicas |-> NoStream]
  /\ assembly = [s \in Streams |-> NoAssembly]
  /\ completedId = [s \in Streams |-> NoId]
  /\ lastBatch = [s \in Streams |-> 0]
  /\ faults = failed

-----------------------------------------------------------------------------
(***************************************************************************)
(* A stream opens with a clean state.  When it has ended, its state is     *)
(* forgotten, unless a newer stream to the same replica has replaced it.   *)
(***************************************************************************)
OpenStream(s, r) ==
  /\ home[s] = NoReplica
  /\ home' = [home EXCEPT ![s] = r]
  /\ states' = [states EXCEPT ![r] = s]
  /\ UNCHANGED <<table, wire, work, fields, faults>>

EndStream(s) ==
  /\ home[s] # NoReplica /\ work[s] = NoWork
  /\ home' = [home EXCEPT ![s] = NoReplica]
  /\ wire' = [wire EXCEPT ![s] = <<>>]
  /\ states' = [r \in Replicas |-> IF states[r] = s THEN NoStream ELSE states[r]]
  /\ assembly' = [assembly EXCEPT ![s] = NoAssembly]
  /\ completedId' = [completedId EXCEPT ![s] = NoId]
  /\ lastBatch' = [lastBatch EXCEPT ![s] = 0]
  /\ UNCHANGED <<table, work, faults>>

-----------------------------------------------------------------------------
(***************************************************************************)
(* The handler of the next message of stream s, in the state o that its    *)
(* replica has for the cluster.  A refusal is followed by requestResync.   *)
(***************************************************************************)
Hears(s) ==
  /\ home[s] # NoReplica /\ work[s] = NoWork
  /\ wire[s] # <<>>
  /\ wire' = [wire EXCEPT ![s] = Tail(@)]
  /\ UNCHANGED <<table, home, states, faults>>

Awaits(s, w) == work' = [work EXCEPT ![s] = w]

\* No stream of this cluster is registered here any more.
IgnoreMessage(s) ==
  /\ Hears(s) /\ states[home[s]] = NoStream
  /\ UNCHANGED <<work, fields>>

(***************************************************************************)
(* A chunk of a snapshot.  The first begins a new assembly; one out of     *)
(* sequence, or one too many, ends the assembly; the last one starts the   *)
(* transaction, which first reads the rows there are.                      *)
(***************************************************************************)
\* Mutant: any chunk of another snapshot begins an assembly.
Begun_Anywhere(o, m) ==
  IF m.id # assembly[o].id THEN [NoAssembly EXCEPT !.id = m.id, !.next = m.seq] ELSE assembly[o]

Begun(o, m) == IF m.seq = 0 THEN [NoAssembly EXCEPT !.id = m.id] ELSE assembly[o]

InSequence(o, m) == Begun(o, m).id = m.id /\ Begun(o, m).next = m.seq

Grown(o, m) == [id |-> m.id, next |-> m.seq + 1, rows |-> Begun(o, m).rows \cup m.items]

TooLarge(o, m) == Cardinality(Grown(o, m).rows) > MaxItems

HearsChunk(s, o, m) ==
  /\ Hears(s) /\ states[home[s]] = o
  /\ m.what = "chunk"
  /\ UNCHANGED <<completedId, lastBatch>>

RefuseChunk(s, o, m) ==
  /\ HearsChunk(s, o, m) /\ ~InSequence(o, m)
  /\ assembly' = [assembly EXCEPT ![o] = NoAssembly]
  /\ UNCHANGED work

TakeChunk(s, o, m) ==
  /\ HearsChunk(s, o, m) /\ InSequence(o, m)
  /\ assembly' = [assembly EXCEPT ![o] =
                     IF m.last \/ TooLarge(o, m) THEN NoAssembly ELSE Grown(o, m)]
  /\ IF m.last /\ ~TooLarge(o, m)
     THEN Awaits(s, [what |-> "snapshot", in |-> o, id |-> m.id, rows |-> Grown(o, m).rows,
                     seen |-> table, listing |-> m.listing])
     ELSE UNCHANGED work

(***************************************************************************)
(* A batch of changes: refused if its snapshot is not the one in force,    *)
(* ignored if it is a replay; a gap ends the snapshot.                     *)
(***************************************************************************)
HearsEvents(s, o, m) ==
  /\ Hears(s) /\ states[home[s]] = o
  /\ m.what = "events"
  /\ UNCHANGED <<assembly, lastBatch>>

RefuseEvents(s, o, m) ==
  /\ HearsEvents(s, o, m)
  /\ completedId[o] # m.id \/ m.seq > lastBatch[o] + 1
  /\ completedId' = [completedId EXCEPT ![o] = IF @ = m.id THEN NoId ELSE @]
  /\ UNCHANGED work

TakeEvents(s, o, m) ==
  /\ HearsEvents(s, o, m)
  /\ completedId[o] = m.id /\ m.seq <= lastBatch[o] + 1
  /\ IF m.seq = lastBatch[o] + 1
     THEN Awaits(s, [what |-> "events", in |-> o, seq |-> m.seq, events |-> m.events])
     ELSE UNCHANGED work
  /\ UNCHANGED completedId

-----------------------------------------------------------------------------
(***************************************************************************)
(* The transaction of a snapshot writes only the rows that differ from     *)
(* what it read; it fails if a row it creates has come to exist.           *)
(***************************************************************************)
\* Mutant: only the rows there are already are written.
Written_OnlyKnown(w) ==
  [n \in Names |-> IF w.seen[n] = NoObject THEN table[n] ELSE RowOf(w.rows, n)]

Written(w) ==
  [n \in Names |->
     LET row == RowOf(w.rows, n)
     IN IF row = w.seen[n] \/ (row = NoObject /\ w.seen[n] = Gone) THEN table[n]
        ELSE IF row = NoObject THEN Gone ELSE row]

Collides(w) ==
  \E n \in Names : RowOf(w.rows, n) # NoObject /\ w.seen[n] = NoObject /\ table[n] # NoObject

CommitSnapshot(s) ==
  /\ work[s].what = "snapshot"
  /\ LET w == work[s]
     IN /\ ~Collides(w)
        /\ table' = Written(w)
        /\ completedId' = [completedId EXCEPT ![w.in] = w.id]
        /\ lastBatch' = [lastBatch EXCEPT ![w.in] = 0]
  /\ Awaits(s, NoWork)
  /\ UNCHANGED <<home, wire, states, assembly, faults>>

CommitEvents(s) ==
  /\ work[s].what = "events"
  /\ table' = Patched(table, work[s].events)
  /\ lastBatch' = [lastBatch EXCEPT ![work[s].in] = work[s].seq]
  /\ Awaits(s, NoWork)
  /\ UNCHANGED <<home, wire, states, assembly, completedId, faults>>

\* dispatch logs the error and goes on with the next message.
FailWork(s) ==
  /\ work[s] # NoWork
  /\ \/ work[s].what = "snapshot" /\ Collides(work[s]) /\ UNCHANGED faults
     \/ faults < MaxFaults /\ faults' = faults + 1
  /\ Awaits(s, NoWork)
  /\ UNCHANGED <<table, home, wire, states, fields>>
=============================================================================
