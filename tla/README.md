# Verification of the Velero fleet manager

The fleet manager (`src/vfm`) drives Velero on many clusters from one control plane. This directory
holds TLA+ models of the parts of it where several processes act on shared state, TLC configurations
that check them on small instances, and proofs, checked by TLAPS, of what matters most for every
size of instance. Definitions keep the names of the code they model; `PROJECT.json` maps each of
them to its lines.

## The system

```
 people ──REST──> control plane (NestJS, several replicas) ──gRPC stream──> agent (Go, one per cluster)
                    │ one PostgreSQL: commands, clusters,                     │ dispatcher, outcome cache,
                    │   inventory, alerts, users                              │ connection manager, syncer
                    │ one Redis: routes, channels, locks                      └─> Kubernetes API: Velero objects
                    └ per replica: stream registry, secrets, timers
```

Replicas share the database and Redis, and nothing else. Node runs each handler from one `await` to
the next without interruption, so the control plane's interleavings happen at awaits and between
replicas. In the agent every goroutine runs in parallel, so interleavings happen between locks.

### Components

| Component (source under `src/vfm`) | State | Operations | Hard behaviour | What makes it correct | Module |
|---|---|---|---|---|---|
| Command state machine (`server/src/commands/command-state.ts`) | a status | `transition`, `statusesAccepting` | late and repeated events | never back, never out of a terminal status | `CommandState`, `CommandLifecycle` |
| Command pipeline (`commands.service.ts`, `transient.ts`) | row of a command; secrets in memory | enqueue, approve, reject, cancel, deliver, redeliver, fail, sweep, ack, result | read-then-update across replicas, reconnects, crashes | lifecycle, four eyes, every command ends, no lost wakeup, secrets forgotten | `CommandService` |
| Restore approvals (`approvals/`) | approver, deadline of a decision | approve, reject, withdraw | two people decide at once | the condition of the UPDATE repeats the checks | `CommandService` |
| Agent dispatcher (`agent/internal/dispatch`) | running, cache, slots | Handle, execute, finish, Stop | duplicates, cancellation, panics, restarts | one goroutine per command, an answer to each | `AgentDispatch` |
| Outcome cache and ConfigMap (`dispatch/cache.go`) | LRU, dirty, ConfigMap | Get, Put, Save, Load, Run | save concurrent with put, crash between | no outcome invented | `AgentDispatch` |
| Object creation (`agent/internal/velero`) | objects labelled with a command id | find, create | executed again after a crash | at most one object per command | `AgentDispatch` |
| Connection manager (`agent/internal/gateway/manager.go`) | outbox, session | Send, Requeue, reconnect | the message in hand lost, a full queue | delivery finishes after a reconnect | `CommandDelivery`, `Inventory` |
| Stream registry (`server/src/streams`) | registry per replica, route, Cluster.status | attach, register, heartbeat, unregister, close, sweep | register/unregister of two streams interleaved, dead replicas | newest wins, registry names what is served, silence noticed | `StreamRegistry` |
| Cluster administration (`server/src/clusters`) | status, deny-list, tokens | disable, enable, rotate | races with a registration | a revoked stream ends | `StreamRegistry` |
| Enrollment (`enrollment.service.ts`, `gateway/`) | certificates | enroll, renew, authenticate | renewal during a rotation | nobody is cut off | `StreamRegistry`, `CaRotation` |
| Leader election (`agent/internal/leader`) | Lease, task | Run, awaitTask | the Lease is lost while the task runs | no second task while one may be running | `LeaderElection` |
| Inventory syncer (`agent/internal/inventory`) | pending, reported, snapshot id, batch number | enqueue, flush, snapshot | a full outbox, reconnect during a snapshot | the next snapshot repairs what was dropped | `InventorySyncer`, `Inventory` |
| Inventory store (`server/src/inventory`) | assembly, completed snapshot, last batch | onSnapshot, applySnapshot, onEvents, requestResync | gaps, repeats, deltas during a snapshot, two streams | the table is a snapshot and its deltas | `InventoryStore`, `Inventory` |
| Log sessions (`server/src/logs`, `agent/internal/logs`) | record in Redis, owned, goroutines | create, attach, stop, finish, sweep | end, timeout and loss of the stream in any order | a session ends once and everywhere | `LogSessions` |
| Downloads (`server/src/downloads`) | assemblies, total bytes, cached files | begin, chunk, finish, expire | gaps, wrong sizes, several executions | the whole file or a failure; the total never leaks | `Downloads` |
| Alerts (`server/src/alerts`) | events, lock | tick, fire, keep, resolve, deliver | two replicas evaluate at once, a message is lost | one open event per condition, told once | `Alerts` |
| CA and its rotation (`server/src/ca`) | ACTIVE/STAGED/RETIRING | stage, unstage, promote, retire, refresh | certificates issued between steps, stale replicas | every live certificate is accepted | `CaRotation` |
| Encryption at rest (`server/src/crypto`) | envelopes, key rings | encrypt, rewrap | rewrap beside writers, interrupted, restarted | nothing is lost or overwritten | `Rewrap` |
| Organizations and invitations (`server/src/orgs`) | roles, invitations, accounts | changeRole, removeMember, invite, accept, register | owners step down at once, one link taken up twice | an owner remains, an invitation admits once | `Organizations` |
| Sessions, MFA, throttling (`server/src/auth`) | sessions, TOTP step, counters | login, verify, revoke | a credential used twice | conditional updates of one row | — |
| Retention, RBAC, users, tokens, OIDC, watch scope | rows | CRUD, `can` | little; unique constraints | — | — |
| Events (SSE), audit, mail, metrics, health, config, docs, reports | none shared | — | best effort I/O | — | — |
| Web console (`web/`), upstream Velero UI (`src/apps`, `src/libs`) | clients | — | — | — | — |

They meet in these places. `StreamsService` calls back `CommandsService.redeliver` and
`InventoryService` when a stream has been registered, and hands them each message of the agent.
`CommandsService.deliver` and the cancellations call `StreamsService.send`, which writes to a stream
of this replica or publishes to the channel of the replica the Redis route names. The agent's
connection manager hands the dispatcher each command, and sends what the dispatcher queues.
Administration changes `Cluster.status` and the deny-list, which the registry reads, and publishes
on the control channel, which every replica's registry follows.

## The modules

| Module | Models | Uses |
|---|---|---|
| `CommandState` | `command-state.ts` as operators | — |
| `CommandLifecycle` | what the pipeline promises of a status (abstract specification) | `CommandState` |
| `CommandService` | the pipeline on several replicas | `CommandState`; refines `CommandLifecycle` |
| `AgentDispatch` | dispatcher, cache, ConfigMap, process | — |
| `CommandDelivery` | server and agent joined by the stream | `CommandService`, `AgentDispatch`; refines both |
| `StreamRegistry` | streams, registry, route, status, administration | — |
| `InventoryTypes`, `InventorySyncer`, `InventoryStore`, `Inventory` | messages; the agent's half; the server's half; both joined by a stream that breaks | the modules before them |
| `LeaderElection` | Lease, election, task, supervisor | — |
| `LogSessions` | record, owner, viewer, agent's goroutines | — |
| `Alerts` | evaluation of a rule by several replicas | — |
| `CaRotation` | authorities, replicas, operators, agents' certificates | — |
| `Downloads` | chunks, assembler, stored copy | — |
| `Rewrap` | key rings, stored secrets, the job | — |
| `Organizations` | roles and invitations | — |
| `CommandServiceProofs`, `AgentDispatchProofs`, `InventoryProofs` | proofs about the module they name | that module, TLAPS |
| `InventoryAddsUpProofs` | the proof of `AddsUp` of `Inventory` | `InventoryProofs` |
| `ComponentsProofs` | proofs about `LeaderElection`, `StreamRegistry`, `LogSessions` and `Alerts`, and about `MCComponents` | these, `DataLemmas`, TLAPS |
| `StoresProofs` | proofs about `CaRotation`, `Rewrap`, `Organizations` and `Downloads`, and about `MCStores` | these, `DataLemmas`, `AgentDispatchProofs` |
| `DataLemmas` | lemmas about numbers, finite sets, sums, folds and sequences the proofs share | the library's theorems |
| `CommandDeliveryProofs` | proofs about the composition | `CommandDelivery`, and the lemmas of `CommandServiceProofs` and `AgentDispatchProofs` |
| `MCCommandService`, `MCAgentDispatch`, `MCCommandDelivery`, `MCStreamRegistry`, `MCInventory` | small instances for TLC | the module they name |
| `MCComponents`, `MCStores` | several independent components in one run each: a behaviour is about one of them (`focus`) and leaves the others where they begin | the components |

Definitions whose name ends in `_Something` next to a definition of the same name are *mutants*: the
same code with a plausible bug in it (a dropped guard, a missing step). They take no part in any
specification; they exist to show that each property fails when the code is wrong.

### CommandService

The table (`status`, `req`, `approver`, `past`) is shared; a change of it is one statement of the
database. `held` is the map of secrets of each replica. A *worker* is a handler at work on a
replica: `at` is the await it is at, `arg` what it holds in local variables, `todo` the rows
`redeliver` read and has not sent. So `ApproveRead`/`Approve`, `EnqueueCount`/`EnqueueCreate`/`EnqueueHold`
(a request's limit, its row, its secret) and `Transmit`/`MarkSent` are separate steps of one handler, and everything may happen between them. The
sweep of each replica is a process of its own: `SweepBegin` is its queries, and each row is a step.
`link` says which replica holds a cluster's stream, `owed` which connections have not had their
`redeliver` yet, `toAgent` what was written and not read, and `written` remembers for the properties
which commands were ever written.

`deliver` has three outcomes: the message is written to the stream that exists; it counts as sent
but was published to a replica that no longer holds the stream; or it is not sent. The second and
third are possible whatever the truth, except that a replica that holds the stream itself always
writes to it. The agent is unconstrained here: it may report anything about any of its commands at
any time, which makes every safety result independent of the agent.

Left out: counters and timestamps other than the deadline, announcements, audit and metrics; the
checks that only refuse a request (unknown or disabled cluster, old Velero, missing permission);
building of the protobuf. A download or signed link may turn a claimed success into a failure; its
chunks are not modelled. The lock around the sweep is not relied on, because it lapses by its own
TTL while the sweep may still run. The refresh that follows a reconnect may happen at any time. The
handlers of one stream's messages are one step each (`OnAck`, `OnResult`): their query and UPDATE
are conditional, and messages of one stream are handled in order.

### AgentDispatch

Four kinds of goroutine: the receive loop (`HandleCommand`, then one of `StillRunning`, `Refuse`,
`Accept`; `looking` is what it has looked up in the cache and not yet in `running`, for the two are
asked under different locks), the goroutine of each command (`task`: waiting, searching, creating,
finished, recorded, leaving), the saver (`SaveEncode` under the lock, `SaveWrite` without) and
`main` (`Stop`, `StopCommands`, `Exit`). `Kill` may happen at any time and `Start` loads what the
ConfigMap holds, or nothing if it cannot be read. A command's operation is the search for an object
with its id and, in a later step, the creation of one; each may fail in between (API error, panic,
deadline, cancellation). `made` counts the objects and survives the process.

One process per cluster is assumed; `LeaderElection` says when that is so. What an object contains,
and the policy behind a refusal, are left out.

### CommandDelivery

Conjoins the two: `AgentHandles` takes the oldest message of `toAgent` to the dispatcher;
`AgentSends` takes the oldest of the outbox to `OnAck` or `OnResult`. When the stream breaks, the
message in hand and everything unread is lost (`AgentSendFails`, `StreamBreaks`), and while the next
stream is opened the oldest message is put back *behind* the others (`AgentRequeues`), as the
manager does. Here the agent is no longer free to lie, so results relate the row to the object in
the cluster.

### StreamRegistry

Clusters share none of this state, so there is one. Each stream is a coroutine (`at`): `Open`,
`ReadHello`, `Register` (the registry entry and the `SET` of the route; one Redis connection keeps
the order of its calls, so nothing of this replica fits between), `Supersede` (the control message),
`MarkConnected`, heartbeats in two steps, and after it breaks `Unregister`, `DeleteRoute`,
`ClearStatus`. `channel` is what each replica's subscriber has still to receive; Redis
delivers it at most once, so that any of it may be lost instead (`PushIsLost`), and `unheard`
remembers the streams that what was lost would have closed. Administrators'
requests are in steps too (`RotateRevoke`, `RotateStatus`, `CloseCluster`), one request at a time.
`host` is fixed in `Init`: it is where the stream will be opened. `Dies` takes a replica's streams,
registry and subscriptions. `RegisterFails`, `UnregisterFails`, `CloseIsLost` and `RouteIsLost` are
calls that throw or are lost. Deletion of a cluster is left out.

`CommandService` keeps only what it needs of this (`link`); that a failed registration leaves an
entry behind is visible in this module alone.

### InventorySyncer, InventoryStore, Inventory

`InventorySyncer` has the informers' stores (`world`), the events whose handlers have not run
(`notices`), and the syncer's fields under its mutex. The informers start with the first request for
a snapshot (`ensureInformers`, `watching`), whether or not its stream lasts; what changes before is
not seen, and their handlers run while `Run` waits for their lists. A handler ignores, queues, or drops everything
for a new snapshot (`Ignore`, `Enqueue`, `Overflow`); the goroutine of `Run` lists, sends chunk by
chunk while handlers go on, and finishes (`StartSnapshot`, `SendChunk`, `FinishSnapshot`); the
batcher sends or loses a batch (`Flush`). `InventoryStore` has per stream the assembly, the snapshot
in force and the last batch; a transaction is begun by a message and committed in a later step,
because another stream's may run meanwhile (`CommitSnapshot` writes what differs from what it read).
`Inventory` joins them: `Dial` drops what is queued, `Requeue` puts back behind, `Sends` carries, and
`requestResync` goes back. `missed` remembers names the syncer is known to leave wrong until the next
snapshot (see below), `overwritten` that an older stream wrote late. What an item contains is left
out, as are kinds that are installed later and a discovery that fails.

### LeaderElection

Each replica has the elector (client-go's, as far as `leader.go` relies on it), the callback that
runs the task, and `awaitTask`. `Acquire`, `StartTask`, `LoseLease`, `Signal`, `TaskReturns`,
`awaitStop`, `awaitTimeout`, `StopElection` (which releases the Lease), `ExitProcess`, `Crash` are
its steps; `Expire` is the Lease running out. A task may run without the Lease in three ways, and
`HandoverIsClean` says there is no fourth: the Lease was lost or ran out (`lapsed`); a signal came
between `Acquire` and `OnStartedLeading`, which starts the task all the same (`late`); or the
supervisor gave up waiting for the task, and the Lease is released before the process has ended
(`supervisor = "timeout"`).

### LogSessions

`create`, `attach` and `finish` are in their steps between awaits; `finish` is called by the person,
the hard timeout, the owner's sweep, the agent's end notice and the end of the cluster's stream, all
of which go through `Removes`, where one caller wins the record. The timers, and the id in the
cluster's set with them, are dropped only by a caller on the replica that has them (`here`); any
other that finds no record returns. A replica may die (`ReplicaLost`) with its timers (`maker` is
then `orphaned`), the requests it serves, the ends it is at work on and the browsers that watch
through it; what is left is the record's own expiry and the agent's limit of 30 minutes. With
`single` every caller is on the one replica. That the message of an end is lost on its channel is
not modelled: nothing would make up for it. The agent's part is
`Streamer.sessions` in order, its limit, and the goroutines' ends. The lines themselves are left
out, but that a line of a session nobody knows is answered with a stop (`tellToStop`) is there.

### Alerts

One rule of one organization. `tick` takes the Redis lock, which expires on its own, so two
evaluations may overlap. An evaluation reads the rule and the open events, then the facts
(`loadFacts`), and works through what it found: `fire` (the unique index over open events refuses a
second), `keep`, `resolve`, with `notify` and `Note` for each message. `GivenUp` is a crash or a
failed query, `NotTakenOver` a channel that is down. Which facts make a condition is left out.

### CaRotation

The table of authorities; per replica the set it loaded and what its gateway serves; per agent its
certificate and the bundle it trusts; per operator a command between its read and its write. A tick
of the clock is the time between two checks of a replica (`refreshMs`, 30 s): in every tick each
replica that runs looks at the table once, early or late (`checked`), and until then signs with what
it has and gives out the bundle it has. A certificate signed by a stale replica is thus issued up to
a tick after the write from which the waiting is measured, and lasts that much longer (`Lasts`). An
operator's command reads and writes within a tick, and a check of the table does not fail. X.509 and
`--force` are left out, and `rotateServerCertificate` is one step.

### Downloads, Rewrap, Organizations

`Downloads` has chunks and results on one breaking stream, the assembler of each replica with its
accounts, and the copy that is kept of each file (`FileOf`: two commands may be about one file); a
chunk is named by the execution (version of the file) it comes from. The retention of a command may
be zero (`retained`), and then nothing is stored although it succeeds; a copy expires (`purge`,
`Lapsed`). There is one stream at a time: messages of an old one that a replica still handles when
the next is open are left out, and so is the empty file. `Rewrap` has the key ring of each replica, each secret's envelope as the id of its key,
and the job, which may die and start again. `Organizations` has roles and invitations; serializable
transactions compare on commit what they read, the others do not.

## What is checked

Every run ends. The bounds are constants named `Max...`, and the numbers of people, replicas and
handlers. All runs are of one of the twelve configurations below; several instances share a run
where they share a module or are small.

| Run | Question | Bounds, and why they are enough |
|---|---|---|
| `command` | `TypeOK`, `FourEyesInv`; `FollowsLifecycle`, `EndsInTime`, `SecretEndsInTime`, `QueuedIsSent` | One command, and two instances in one run (`scope`): two handlers on one replica and two people, no faults; or commands with a secret, one handler, a second replica that may serve the stream and sweeps, and a fault (a crash, a failed job or sweep). Two handlers are the smallest race on one row; the routing between replicas is left open in `deliver` itself, so one replica with handlers loses nothing. `QueuedIsSent` is therefore about the replica that holds the stream. In the second instance another handler works only between the row of a command and its secret. The proofs cover the other sizes |
| `delivery_safety` | `SucceededIsDone`, `OnlySent` | one gated command, two people, two connections, a kill, an outbox of one |
| `delivery_finishes` | `DeliveredFinishes` | one command, two connections, an outbox of five, which is all that one command can queue: with less a result may be dropped for good, as the code documents |
| `stream_registry` | `RegisteredIsHeld`, `HealthyIsRegistered`; `OneStreamRemains` | two streams on two replicas, a death, and any control message lost; or one stream and no more than two administrative requests, a death or a failed call |
| `inventory` | `StoredWhole`, `AddsUp`; `DeletesTheDead`, `Converges` | two names, two replicas; batches of one, two pending, one message in the outbox and one on the wire, so that everything overflows; four instances divide the changes (3), streams (2) and failed transactions (1) among them |
| `components` | `ComponentsTypeOK`, `HandoverIsClean`, `EndedOnce`, `NoDuplicates`; `LeaderReturns`, `LogViewerIsTold`, `LogAgentLetsGo`, `LogIsForgotten`, `AlertIsTold`, `AlertEnds`, `StreamSilenceIsNoticed`, `StreamRevokedEnds`, `AgentAnswers` | two pods and three upsets; log sessions: one that is open and one to be created where the agent may have one, a cut, and one replica; or one session, open or to be created, a cut, several replicas and the death of one; two replicas, a condition, three events, three turns and a mishap; one stream with a request, a death and a failure; one command that may be delivered three times |
| `stores` | `StoresTypeOK`, `OneExecution`, `SearchedInv`, `SuccessIsReal`, `CutOffOnlyByMistake`, `AccountsAddUp`, `HeldIsWhole`, `NewestStays`, `NothingIsLost`, `AnOwnerRemains`, `AdmittedOnce` | two commands with a cache, ConfigMap and slot of one, so that everything evicts and waits, and a kill; two replicas, an agent, two operators whose commands overlap, three authorities and four ticks with certificates of two; two fetches of one file in two versions, two breaks where every copy is kept, and none where one of the two is not; two secrets, three keys, three writes; two people, two invitations, two requests at once, four in all |
| `agent_once`, `stream_newer`, `stream_disabled`, `inventory_miss`, `ca_restaged` | violated; see below | the smallest instance that shows it (`inventory_miss`: one name, two streams; `ca_restaged`: certificates of three ticks, six ticks) |

`MaxWire` bounds the unread messages kept of a stream. Deadlock is checked except where only
finitely many streams, sessions, changes or requests are ever made and the system may come to rest.

### What the properties say

- `FollowsLifecycle`: the row, updated by every replica at once, moves only as `command-state.ts`
  allows; a refinement of `CommandLifecycle`. `EndsInTime` is its fairness: with time, a recorded
  command ends even if its agent never answers. (`EventuallyEnds` without the premise that the
  clock runs; so `SecretIsForgotten` and `SecretEndsInTime`: a secret is dropped by the replica that
  handles the end or by the sweep of any other.)
- `FourEyesInv`: a restore that needs approval is in flight, written or executed only if somebody
  other than the requester approved it. `OnlySent` is the same at the other end: an agent has in hand
  only what was written to it, was not rejected, and was approved.
- `QueuedIsSent`: recording a command and finding no stream, and registering a stream and reading
  the unsent commands, never miss each other.
- `OneExecution`, `SearchedInv`: never two goroutines for a command, never two objects, whatever is
  forgotten. `SuccessIsReal`, `SucceededIsDone`: a success that is remembered, saved, reported or
  recorded is that of a command whose object exists, exactly once. `AgentAnswers`,
  `DeliveredFinishes`: no order of duplicates, acknowledgements, results and reconnects leaves a
  command unanswered.
- `RegisteredIsHeld`, `HealthyIsRegistered`, `OneStreamRemains`: the registry names the stream that
  is served, none that has ended but one that was given up when a call failed, and two streams do
  not both stay unless the message that would have closed one of them was lost. `StreamRevokedEnds`, `StreamSilenceIsNoticed`: what a push missed the periodic
  recheck ends, and a cluster nobody serves is marked.
- `StoredWhole`, `AddsUp`, `DeletesTheDead`, `Converges`: what is written is one whole listing; with
  a snapshot in force the rows and the changes on their way add up to the cluster, but for the names
  in `missed`; a deletion of an old object leaves its successor alone, unless the same batch has put
  the old object back before; a cluster at rest is mirrored.
- `HandoverIsClean`, `LeaderReturns`: two tasks only after a lost Lease, while a process whose task
  outstayed its supervisor's patience has still to end, or when one began late; somebody leads in
  the end.
- `EndedOnce`, `LogViewerIsTold`, `LogAgentLetsGo`, `LogIsForgotten`: however many callers finish
  has, a session ends once, and its viewer, its agent and the control plane all let go of it, also
  when the replica with its timers dies. Excepted are the viewer when the replica that was ending
  the session dies, or when the one with the timers dies and the agent's stream breaks too, and the
  id in the cluster's set when either replica dies.
- `NoDuplicates`, `AlertIsTold`, `AlertEnds`: one open event per condition, its end told once and to
  people who heard it start; what stays true is told, what is over is closed.
- `CutOffOnlyByMistake`: an agent whose certificate lasts for more than a tick and a replica in step
  with the table accept each other, unless a replica took one table, or an operator one row, for
  another with the same ids, or a promotion left no row that signs (see `ca_restaged` and the list
  after it). The tick is what a replica that has not yet looked costs.
- `AccountsAddUp`, `HeldIsWhole`: what a replica counts is what it holds; the copy of a file is one
  version of it, whole, and a fetch that succeeded has left one, unless its retention is zero.
- `NewestStays`, `NothingIsLost`: the job overwrites nothing newer, and every replica on the key in
  use can open every secret.
- `AnOwnerRemains`, `AdmittedOnce`: an organization keeps an owner; an invitation makes a member
  once.

### Fairness

- `CommandService!JobFairness`, `SweepStep` in `MCCommandService!ScopedFairness`: a started handler
  goes on; the callback of a new stream is called (strong fairness, because in the model it needs a
  free worker; in Node it needs none); each replica's `setInterval` sweep runs and its queries
  return. Nothing is assumed of people, streams or agents, and time may stop: `EndsInTime` and
  `SecretEndsInTime` have the clock as a premise.
- `AgentDispatch` (`MCComponents!AgentFairness`): goroutines run; a handler returns, because its
  context carries the command's deadline; the receive loop finishes with the message it is at.
- `DeliveryFairness`: both, and a stream that lives carries what is written to it.
- `StreamRegistry!Fairness`, `MCComponents!StreamFairness`: coroutines and the subscriber run, the
  periodic recheck and the sweep fire, an unrefreshed route expires, and without a served stream
  `lastSeenAt` grows old.
- `InventoryFairness`: informer handlers, `Run` (which starts the informers) and its ticker run, an accepted connection carries,
  the server handles what it hears and notices an ended stream.
- `MCComponents!LeaderFairness`: goroutines and the election library run, and a Lease that is not
  renewed expires. Nothing makes a task return: hence the supervisor's timeout.
- `MCComponents!LogFairness`: handlers go on, timers fire, the stream carries, a goroutine that was
  told to end does, a record and a mark of being watched expire when nobody refreshes them, and a
  log that is read has lines. Nothing is assumed of a replica that died; a goroutine whose session
  it watched over ends by the agent's limit of 30 minutes (`streamer.go`).
- `MCComponents!AlertsFairness`: some replica's timer ticks when the lock is free, queries answer.

## What is proved

TLAPS checks these for every value of the constants that satisfies the modules' assumptions (the
limits are numbers, the null values are not among the things they stand for, handlers run on
replicas, the founder is a person). Of the sizes of the sets no more is assumed than that the names
of the inventory and the fetches are finitely many, which a table and a sum need, and that there is
a log session to ask about.

**The command pipeline** (`CommandServiceProofs`: `TypeCorrect`, `JobsCorrect`, `FourEyesHolds`,
`ImplementsLifecycle`, `OnlyClearedIsSent`). The inductive invariant is
`IInv == TypeOK /\ JobsOK /\ FourEyesInv`. The four-eyes rule alone is not inductive: between
reading a row and sending it a handler holds a command id, so `FourEyesInv` says of the handlers too
that what they have in hand to send is approved (`HandApproved`). That needs `JobsOK`: what they
hold was recorded, so that its `req` cannot change under them. The argument:

1. `NextType`: types, by action.
2. `NextRows`: every step leaves the table alone, or moves one row by an event other than an
   approval (`Moves`), or is a request's or an approval's own step. Everything about rows is derived
   from this (`RowStep`).
3. `RowStepFollows`: such a step is one of `CommandLifecycle`, hence `ImplementsLifecycle`.
4. `RowsStay`: a recorded row stays, keeps what was asked and keeps its approval.
5. `NextHands`: hands. A step gives a handler at most one command, which was approved in the row it
   came from (`GotoHands`, `ContinueHands`); a redelivery takes rows from `NonTerminal` only, and
   those are approved by `FourEyes`.
6. `NextFourEyes`: a row becomes released by a request that needs no approval, by `Approve`, whose
   condition is the rule, or not at all (`MoveReleases`); and what is newly written was in a hand
   (`WrittenGrows`).

`ClearedInv` says of what was written, and of what a job has in hand to send, that it neither waits
for a decision nor was rejected. It is an invariant of its own on top of `IInv`: a cleared row stays
cleared (`ClearedStays`, from `RowStep`), and a job takes only cleared rows (`NextTakes`).

**The agent** (`AgentDispatchProofs`: `InFlightHolds`, `OneExecutionHolds`, `OneObjectHolds`,
`DispatchTyped`, `SuccessIsAlwaysReal`). `WInv` speaks of `running`, the goroutines and the objects
only: neither the cache nor the saver nor the outbox is needed, so one execution and one object hold
whatever is evicted, lost or replayed. `SearchedInv` needs `InFlight`: who is about to create an
object searched when there was none, and nobody else works on the command. `AgentInv` adds the
memory: the cache, the ConfigMap, the saver's copy and the outbox are sequences over `Real` outcomes
and `RealMessage`s, those that claim no success without an object; since objects stay
(`ObjectsStay`), those sets only grow, and every operation on the sequences (lemmas about
`RemoveAt`, `Without`, `Newest`) stays within them.

**Both together** (`CommandDeliveryProofs`). `ImplementsPipeline` and `ImplementsDispatch`: a step
of the composition is a step, or none, of the pipeline, and one, or none, of the dispatcher
(`DeliverySpec => Spec`, `DeliverySpec => Agent!Spec`), so all of the above holds of the two
together. `OnlyWhatWasSent` and `SucceededIsAlwaysDone` are what neither promises alone. The
inductive invariant `DeliveryInv` adds to `IInv`, `ClearedInv` and `AgentInv`: what the stream
carries was written (`OnWire`), what the agent has in hand or has made came from it (`FromWire`),
and a `SUCCEEDED` row has its object (`DoneInv`). The last rests on `SendsReal` (the message the
agent sends is a `RealMessage`) where the message becomes a row's status.

**The stream registry** (`ComponentsProofs`: `TypeCorrect`, `HealthyRegistered`,
`RegisteredHeld`). `OpenIsListed` strengthens the property to streams still being registered. The
exception in `RegisteredIsHeld` is the state `FailedToRegister` leaves (see below).

**Leader election** (`ComponentsProofs`: `LeaderTypeCorrect`, `HandoverClean`). Who leads holds
the Lease (`LeadersHold`), an election ends because the Lease was lost or the supervisor ended it
(`EndedFor`), and the supervisor ends without a timeout only when the task returned or was told to
stop before it began (`SupervisedFor`).

**Log sessions and alerts** (`ComponentsProofs`: `SessionsEndOnce`, `LogsTyped`, `AlertsTyped`,
`AlertsAreNotDuplicated`). `EndingInv`: a recorded session has no end yet, an id that was not made
has neither, and the end is published exactly with the last step of the caller that removed the
record. `AlertsInv` relates what every evaluation still has to do to the table as it is now, not as
it was read: an entry with a time of notification is of an event people heard start
(`EntriesOK`); whoever is about to tell of an end resolved the event himself, so nobody else tells
of it (`OneEnding`) and nobody has (`MessageOK`). The tables only grow (`GrownKeeps`), which keeps
stale lists right. `LogsTyped` includes the agent's limit (`AgentKeepsLimit`): `streamer.go:206`
closes old sessions in a loop and the model closes one, which is the same because there are never
more live ones than the limit.

**The certificate authority** (`StoresProofs`: `CutOffOnlyByAnIdGivenAgain`, `CaTypesHold`). For any
numbers of replicas, agents and operators, and any waiting time longer than a tick (a replica's
`refreshMs`). `CutOffOnlyByMistake` says nothing of what was staged, trusted or renewed when, so the
invariant (`CaInv`) has two levels. `Anyway` holds whatever is in the table. Above it the table is
empty (`Unborn`) or has one row that signs (`Signing`); a promotion that leaves none, because
operators crossed each other, counts as a mistake. While a row signs, the argument is about time. A
replica may have checked before a write in the tick of the write, and has checked after it when the
next tick ends (`Seen`): from then on it bundles a staged authority and signs with a promoted one
(`CaughtUp`). A certificate that was given later carries the staged authority and is signed by the
promoted one, so one that does not has, when the wait is over, not a tick left (`Certified`,
`Lasts`). Commands that are between their read and their write still speak of the table as it is
(`Pending`), or fail, unless an id was given again: this is where the first attempt at the proof
failed and TLC found what the list below says of two operators. `CaInv` ends where a mistake begins, so
`CaTypesHold` has a weaker invariant of its own (`CaTyped`), which survives mistakes.

**Encryption at rest** (`StoresProofs`: `RewrapTyped`, `NewestAlwaysStays`, `NothingIsEverLost`).
`KeyringsKnown` and `SecretsKnown` say which keys replicas and secrets may be on in each stage of a
rotation; `JobKnown` that a row which no longer shows what the job read is already on the new key.

**Organizations** (`StoresProofs`: `OrganizationsTyped`, `AnOwnerAlwaysRemains`,
`AdmitsOnce`). What a request knows at each step (`Carries`, `HasChecked`): a transaction that has
checked that another owner is left has checked it of the roles it compares on commit; and an
invitation that was ever taken up is not live again (`LettersKnown`).

**Downloads** (`StoresProofs`: `HeldIsAlwaysWhole`, `AccountsAddUpHolds`). A result that says "ok" comes of
an execution that had read a version (`FromAgent`), so what passes `finish`, which compares with the
checksum of that version, is a whole file; what is stored is what was judged, and a fetch that is
retained succeeds only once its file's copy is stored, which then stays, is replaced by another whole
one, or lapses (`Kept`, `Left`). Every operation of the assembler (`drop`, `start`, `add`) keeps a
replica within its limits, and its count equal to what it holds (`Within`). What it holds is a sum
over the files being assembled (`HeldIsASum`), defined by a fold: `DataLemmas` proves that a sum
over a finite set exists, is unique and changes by what one member changes (`SumsExist`,
`SumsAreUnique`, `SumsDiffer`), by induction stated for sets of numbers, not operators.

**The inventory** (`InventoryProofs`: `InventoryTyped`, `StoredWholeHolds`, `DeletesTheDeadHolds`).
There is one listing for every id of a snapshot such that each chunk of that id, wherever it is, was
cut from it, and an assembly has exactly the chunks before the one it asks for (`SnapshotInv`).
`InventoryTyped` is what makes the ids fresh. An assembly that takes its last chunk thus has the
listing, whole (`PartIsWhole`). `DeletesTheDead` rests on ages (`DeadInv`): nothing in the notices,
the queues, on the wire or in a transaction is younger than the last change, and a deletion there is
of an object that is gone, so that its `uid` is below that of a row that shows an existing one. A
batch is applied event by event, and the induction is over its length. The theorem has an exception
that TLC found while it was being proved, and that batches of one event hide: a batch that is handled
late may first put an older object back in the row and then take that away.

**Everything on its way to the table** (`InventoryAddsUpProofs`: `AddsUpHolds`). The rows, with the
batch that is being written, those on the wire and in the outbox, the pending events and the notices
applied to them in this order, show the objects there are. `AddsUp` says this only while the same
snapshot is in force at both ends; most of the proof is about what leads there. The invariant follows
an event from the informers to the table:

1. `AgentInv`: pending events and notices are in the order things happened; the last notice of an
   object that exists shows it as it is, the end of one that is gone is told as long as anything
   shows it, and what `inSnapshot` remembers is out of date where an event is pending.
2. `CoversInv`: while a listing is sent, what has changed since is told by an event that will be kept,
   or its name is in `missed`. When the last chunk is queued (`FinishSnapshot` filters `pending`), the
   rows of the listing with the events that are kept are right (`FinishRight`).
3. `SessionInv` and `LineInv`: one stream is served, and the messages of its snapshot are on a line
   (outbox, wire, transaction, table) in their order and none twice (`Chain`): chunks, then batches
   by their numbers (`Outgoing`, `Numbered`). A broken stream, and what `Requeue` puts back behind the
   others, do not disturb it, because a session begins with a snapshot under a fresh id. A batch that
   is lost leaves a gap, and then nothing is claimed until the next snapshot.
4. `SoundInv`: the rows that the batches on the line are meant for (`Base`: those of the listing, or
   the table once the snapshot is in force and no batch is missing) become, with those batches and
   the pending events, right for the notices (`Right`).

`Right` says more than that the notices complete the rows: that what the rows show is in `reported`,
and that an event which is ignored as part of the snapshot is in the rows. Without these two a handler
that ignores a notice would break it. How a sequence of events acts on one row (`RowFrom`, `RowSet`,
`RowKept`) is proved by an induction over the sequence as a set of numbers, as in `DataLemmas`.

**Independent components together** (`StoresTyped`, `ComponentsTyped`). The composite type
invariants of `MCStores` and `MCComponents`: a behaviour of the component in focus is one of its
own specification, and the others stay at their beginnings.

Each of these inductive invariants was checked by TLC as an invariant of an instance before it was
proved.

Model-checked only:

- everything under fairness (`EndsInTime`, `SecretEndsInTime`, `QueuedIsSent`, `DeliveredFinishes`,
  `OneStreamRemains`, `Converges` and the leads-to properties of `components`), which is out of the
  prover's reach. Every invariant and every action property of the runs that pass has a theorem.

## Where code and documents part

Five disagreements have a run that shows them (`findings` in `PROJECT.json`):

- `agent_once`: the cache and `running` are asked one after the other. A command that records its
  outcome and leaves `running` in between is found in neither and is executed again
  (`dispatcher.go:166`). `SearchedInv` shows that the second execution finds the object of the
  first.
- `stream_newer`: `unregister` reads the route and updates the status in separate calls; a new
  stream on another replica that registers in between is marked `DISCONNECTED` while it is served
  (`streams.service.ts:602`).
- `stream_disabled`: `register` sets `CONNECTED` unconditionally; a cluster disabled after its
  stream's Hello was read becomes `CONNECTED` (`streams.service.ts:446`). `StreamRevokedEnds` shows
  that the stream ends nevertheless.
- `inventory_miss`: an object that the first snapshot has listed and that is deleted while its
  chunks are still being sent stays in the table: `reported` is filled when the snapshot is complete,
  and a deletion of what is not in it is dropped (`syncer.go:336`). It needs a first stream that ended
  before the handlers of the informers it started had run; they then ignore the objects
  (`connected`), and only the next stream's snapshot lists them. The comment at lines 67-70 promises
  that any doubt is answered with a new snapshot; here nothing doubts. The next snapshot, whatever
  asks for it, makes it good (`Converges`).
- `ca_restaged`: ids of authorities are used again, so a table may change and keep its version. A
  replica whose version is the same (`ca.service.ts:186`) goes on giving out the old bundle, and who
  got it does not trust the authority that is promoted after the wait.

More were met while modelling and have no run of their own:

- `cache.go:224` clears `dirty` after a write that began earlier; an outcome recorded during the
  write is not saved until the next `Put`, although the comment at line 193 says what is dirty is
  saved. It costs an execution, not an object.
- `main.go:302`: on a stop the saver's last save may come before the outcomes of the commands that
  `dispatcher.Stop` cancels (`dispatcher.go:269`, `DECISIONS.md:1148`), and nobody waits for the
  saver.
- `commands.service.ts:428`: a secret is dropped at the end of its command only on the replica that
  handles the end; on any other it waits for the sweep after the deadline
  (`commands.service.ts:101`, `DECISIONS.md:1722`). `SecretEndsInTime` states what does hold.
- `commands.service.ts:532`: the sweep tells the agent of a command that timed out after it has
  changed the row; if the replica stops between, nobody tells.
- `commands.service.ts:580`: `deliver` does not look at the status again: a command cancelled while
  its delivery is under way is still written to the stream (`commands.e2e.test.ts:534` expects a
  cancelled command not to be delivered). The agent hears of the cancellation afterwards or, if that
  overtakes it, not at all. A rejected one is never written: `OnlyClearedIsSent`.
- `commands.service.ts:219`: the limit of unfinished commands is checked in one query and the row
  created in another, and an approval is not counted, so that it can be exceeded by as many as there
  are handlers and approvals at work.
- `streams.service.ts:423`: a registration that fails after the registry entry leaves the entry
  behind; the replica then keeps the route of a stream that has ended alive, and `isLocal` (line
  203) and `send` (line 220) take it for one.
- `streams.service.ts:575-580`: a stream that was superseded on its own replica does not tell the
  log sessions that it is gone (`Reconnect` in `LogSessions` may drop `unnoticed`); the hard timeout
  ends them.
- `streams.service.ts:434-440`: "the newest wins" (lines 105-108) rests on a push over Redis pub/sub,
  which can be lost (lines 123-126). Then two streams of a cluster stay open on two replicas, and the
  recheck (line 307) ends neither, since it looks only at whether the agent may still connect.
  `OneStreamRemains` says what does hold (`unheard`).
- `log-sessions.service.ts:555-566`: when the owner of a session dies, its record expires, and who is
  told to finish it later returns at the missing record without taking the id off the cluster's set;
  so does it stay when the replica that finishes dies between the record and the set (line 575).
  Every new session renews the set's own expiry (line 290), and every end of the cluster's stream goes
  over the ids left (line 533). `LogIsForgotten` excepts both.
- `syncer.go:248-253`: when the cluster cannot be asked which kinds it serves, nothing new is watched,
  because "a discovery outage must not look like 'Velero has nothing'". On the first request nothing
  is watched yet, and the snapshot that follows is empty.
- `syncer.go:543-544`: a pending event of an object that was replaced under its name is kept, so that
  the old object may be written after its successor; the next snapshot repairs it (`missed`).
- `inventory.service.ts:100`: an older stream's `applySnapshot` may commit after a newer one's has
  read; the next snapshot repairs it (`overwritten`).
- `leader.go`: the Lease is released when the stop timeout is over although the task is still at
  work; and a SIGTERM between `Acquire` and `OnStartedLeading` starts a task all the same. Both are
  in `HandoverIsClean`.
- Log sessions: an attach that races with the end of its session leaves a stream on which nothing
  ever comes.
- Alerts: the message of an end that is lost, or whose replica dies, is never tried again
  (`notifier.ts:27`, `alerts.service.ts:47`); only that of a start is.
- CA: "when every certificate it signed has expired" (`ca-rotation.service.ts:30-31`) is measured from
  the operator's write, while a replica signs with what it loaded until its next refresh
  (`ca.service.ts:23,68`). A certificate given in between outlives the wait by up to `refreshMs`, and
  its agent is cut off for that long although nobody made a mistake; hence `Lasts` in the property.
- CA: of two operators one may promote what the other unstages, which leaves no `ACTIVE` authority:
  of the two updates only the second finds no row, and the first is not undone
  (`ca-rotation.service.ts:107-116`, under a comment that says two operators cannot both succeed).
- CA: if the other not only unstages but stages again before the promotion is written, the new row
  has the id of the old one, and is promoted although it has not waited at all: the condition
  compares the id and the state, not the row that was read. Agents are then cut off as in
  `ca_restaged`; `mistaken` covers both.
- Rewrap: during the rolling deployment of a new key a replica that was not restarted yet cannot
  read what a restarted one has written (`envelope.ts:62-64`), and a replica still on the old key
  that writes while the job runs leaves a value behind (`rewrap.ts:9`): the procedure must be
  followed, as the model does.
- Downloads: a fetch delivered again whose outcome the agent's cache holds is answered without data
  and becomes `FAILED`, although the copy is held.
- Invitations: two creates at once leave two live invitations for one address; and the clean-up of
  `register` (`invites.service.ts:220`) may delete the account of somebody another invitation has
  admitted meanwhile, which is why `AnOwnerRemains` has `erased` as its exception.

## Plan

Modelled, checked and, but for what happens under fairness, proved: everything in the components table
with a module. What could be added: the requests of `clusters` that delete a cluster, the signed
links of a download, and renewal of agents' certificates together with the stream it is asked on.

Not modelled for good: credential checks (`auth`: cryptography and conditional updates of single
rows), role-based access (a table without state), retention, the web console, the upstream UI,
generated protobuf code, mail, metrics, audit, health, configuration and documentation. By lines
these, with the generated and vendored code, are most of the repository; the models cover the files
named in the components table.
