---------------------------- MODULE AgentDispatch ----------------------------
(***************************************************************************)
(* The agent's command dispatcher and its memory of finished commands      *)
(* (vfm/agent/internal/dispatch, started by vfm/agent/cmd/agent/main.go).  *)
(*                                                                         *)
(* Four kinds of goroutine share the state: the receive loop, which hands  *)
(* every message of the control plane to Handle; one per command being     *)
(* executed; the saver, which copies the memory to a ConfigMap; and main,  *)
(* which stops the rest.  A step of the model is what one of them does     *)
(* under one lock, or between two.  The process may be killed at any time  *)
(* and is started again with what the ConfigMap holds.                     *)
(*                                                                         *)
(* A command's operation is the creation of an object that carries the     *)
(* command's id (velero/backup.go): look for one, make one if there is     *)
(* none.                                                                   *)
(***************************************************************************)
EXTENDS Integers, FiniteSets, Sequences, SequencesExt

CONSTANTS
  Ids,           \* command ids
  Tasks,         \* goroutines executing commands (a bound on those alive at once)
  NoId, NoTask,
  CacheSize,     \* outcomes remembered
  MaxSaved,      \* outcomes that fit in the ConfigMap
  MaxConcurrent, \* slots
  OutboxSize,    \* messages queued for the control plane
  MaxRuns,       \* executions of one command, over all lives (a bound)
  MaxStops,      \* graceful stops (a bound)
  MaxKills       \* kills (a bound)

ASSUME AgentDispatchAssumption ==
  /\ NoId \notin Ids /\ NoTask \notin Tasks
  /\ CacheSize \in Nat \ {0} /\ MaxSaved \in Nat /\ MaxConcurrent \in Nat \ {0}
  /\ OutboxSize \in Nat /\ MaxRuns \in Nat /\ MaxStops \in Nat /\ MaxKills \in Nat

VARIABLES
  phase,    \* "up", "ending" (the context is done), "stopping" (commands cancelled), "down"
  looking,  \* the command the receive loop has not found in the cache, or NoId
  running,  \* Dispatcher.running: the goroutine of a command in flight
  task,     \* the goroutines
  cache,    \* Cache: outcomes, newest first
  dirty,    \* Cache.dirty
  saver,    \* the saver: what it has encoded and not yet written
  flushed,  \* the saver has begun the last save, after the context ended
  saved,    \* the ConfigMap
  outbox,   \* messages queued for the control plane
  made,     \* the objects in the cluster that carry a command's id
  runs,     \* how often the handler of a command was started (history)
  life,     \* the same, since the process was started (history)
  stops, kills

process == <<phase, stops, kills>>
memory == <<cache, dirty>>
disk == <<saver, flushed, saved>>
work == <<looking, running, task>>
history == <<runs, life>>
vars == <<process, work, memory, disk, outbox, made, history>>

Outcome == [id : Ids, ok : BOOLEAN]
AgentMessage == [what : {"ACKED", "RUNNING"}, cmd : Ids] \cup [what : {"result"}, cmd : Ids, ok : BOOLEAN]
Free == [id |-> NoId, at |-> "free", cancelled |-> FALSE, ok |-> FALSE]
Encoded == [busy : BOOLEAN, data : Seq(Outcome)]
Resting == [busy |-> FALSE, data |-> <<>>]

Remembered(entries) == {entries[i].id : i \in DOMAIN entries}

Init ==
  /\ phase = "up" /\ stops = 0 /\ kills = 0
  /\ looking = NoId
  /\ running = [id \in Ids |-> NoTask]
  /\ task = [t \in Tasks |-> Free]
  /\ cache = <<>> /\ dirty = FALSE
  /\ saver = Resting /\ flushed = FALSE /\ saved = <<>>
  /\ outbox = <<>>
  /\ made = [id \in Ids |-> 0]
  /\ runs = [id \in Ids |-> 0]
  /\ life = [id \in Ids |-> 0]

-----------------------------------------------------------------------------
(***************************************************************************)
(* The cache: an LRU of outcomes.                                          *)
(***************************************************************************)
Place(entries, id) == CHOOSE i \in DOMAIN entries : entries[i].id = id
Without(entries, id) ==
  IF id \in Remembered(entries) THEN RemoveAt(entries, Place(entries, id)) ELSE entries
Newest(entries, n) == SubSeq(entries, 1, IF Len(entries) < n THEN Len(entries) ELSE n)

Put(id, ok) ==
  /\ cache' = Newest(<<[id |-> id, ok |-> ok]>> \o Without(cache, id), CacheSize)
  /\ dirty' = TRUE

\* Get refreshes the entry's recency.
Touch(id) == cache' = <<cache[Place(cache, id)]>> \o Without(cache, id) /\ UNCHANGED dirty

\* A full queue drops the message.
Queue(messages) ==
  outbox' = IF Len(outbox) + Len(messages) <= OutboxSize THEN outbox \o messages ELSE outbox

Ack(id, state) == [what |-> state, cmd |-> id]
Result(id, ok) == [what |-> "result", cmd |-> id, ok |-> ok]

-----------------------------------------------------------------------------

(***************************************************************************)
(* Handle, on the receive loop.  The cache is asked first and, in a step   *)
(* of its own, the commands in flight.                                     *)
(***************************************************************************)
HandleCommand(id) ==
  /\ phase = "up" /\ looking = NoId
  /\ IF id \in Remembered(cache)
     THEN /\ Queue(<<Result(id, cache[Place(cache, id)].ok)>>)
          /\ Touch(id)
          /\ UNCHANGED work
     ELSE /\ looking' = id
          /\ UNCHANGED <<running, task, memory, outbox>>
  /\ UNCHANGED <<process, disk, made, history>>

\* Still executing: acknowledged again.
StillRunning(id) ==
  /\ looking = id /\ running[id] # NoTask
  /\ Queue(<<Ack(id, "RUNNING")>>)
  /\ looking' = NoId
  /\ UNCHANGED <<process, running, task, memory, disk, made, history>>

\* Too late, not supported, or against the owner's policy: answered without running it.
Refuse(id) ==
  /\ looking = id /\ running[id] = NoTask
  /\ Put(id, FALSE)
  /\ Queue(<<Result(id, FALSE)>>)
  /\ looking' = NoId
  /\ UNCHANGED <<process, running, task, disk, made, history>>

\* Mutant: taken although it is being executed.
Accept_Running(id) ==
  /\ looking = id
  /\ Queue(<<Ack(id, "ACKED")>>)
  /\ looking' = NoId
  /\ \E t \in Tasks :
       /\ task[t] = Free
       /\ running' = [running EXCEPT ![id] = t]
       /\ task' = [task EXCEPT ![t] = [Free EXCEPT !.id = id, !.at = "waiting"]]
  /\ UNCHANGED <<process, memory, disk, made, history>>

\* Taken: acknowledged, entered in running, and given a goroutine.
Accept(id) ==
  /\ looking = id /\ running[id] = NoTask
  /\ Queue(<<Ack(id, "ACKED")>>)
  /\ looking' = NoId
  /\ \E t \in Tasks :
       /\ task[t] = Free
       /\ running' = [running EXCEPT ![id] = t]
       /\ task' = [task EXCEPT ![t] = [Free EXCEPT !.id = id, !.at = "waiting"]]
  /\ UNCHANGED <<process, memory, disk, made, history>>

HandleCancel(id) ==
  /\ phase = "up" /\ looking = NoId
  /\ task' = [t \in Tasks |-> IF running[id] = t THEN [task[t] EXCEPT !.cancelled = TRUE]
                                                 ELSE task[t]]
  /\ UNCHANGED <<process, looking, running, memory, disk, outbox, made, history>>

-----------------------------------------------------------------------------
(***************************************************************************)
(* The goroutine of a command.                                             *)
(***************************************************************************)
Move(t, place) == task' = [task EXCEPT ![t].at = place]
Ends(t, ok) == task' = [task EXCEPT ![t].at = "finished", ![t].ok = ok]
Executing == {t \in Tasks : task[t].at \in {"searching", "creating"}}
Holding == {t \in Tasks : task[t].at \in {"searching", "creating", "finished", "recorded", "leaving"}}

TakeSlot(t) ==
  /\ task[t].at = "waiting"
  /\ Cardinality(Holding) < MaxConcurrent
  /\ runs[task[t].id] < MaxRuns
  /\ Queue(<<Ack(task[t].id, "RUNNING")>>)
  /\ Move(t, "searching")
  /\ runs' = [runs EXCEPT ![task[t].id] = @ + 1]
  /\ life' = [life EXCEPT ![task[t].id] = @ + 1]
  /\ UNCHANGED <<process, looking, running, memory, disk, made>>

\* Cancelled before it had a slot.
GiveUp(t) ==
  /\ task[t].at = "waiting" /\ task[t].cancelled
  /\ Ends(t, FALSE)
  /\ UNCHANGED <<process, looking, running, memory, disk, outbox, made, history>>

\* Mutant: an object is made without looking for one.
Search_Blind(t) ==
  /\ task[t].at = "searching"
  /\ Move(t, "creating")
  /\ UNCHANGED <<process, looking, running, memory, disk, outbox, made, history>>

\* findByCommand: an object that carries the id is the answer.
Search(t) ==
  /\ task[t].at = "searching"
  /\ IF made[task[t].id] > 0 THEN Ends(t, TRUE) ELSE Move(t, "creating")
  /\ UNCHANGED <<process, looking, running, memory, disk, outbox, made, history>>

Create(t) ==
  /\ task[t].at = "creating"
  /\ made' = [made EXCEPT ![task[t].id] = @ + 1]
  /\ Ends(t, TRUE)
  /\ UNCHANGED <<process, looking, running, memory, disk, outbox, history>>

\* Mutant: the error is swallowed.
HandlerFails_Silently(t) ==
  /\ t \in Executing
  /\ Ends(t, TRUE)
  /\ UNCHANGED <<process, looking, running, memory, disk, outbox, made, history>>

\* The API refuses, the handler panics, the deadline passes or the command is cancelled.
HandlerFails(t) ==
  /\ t \in Executing
  /\ Ends(t, FALSE)
  /\ UNCHANGED <<process, looking, running, memory, disk, outbox, made, history>>

\* finish: recorded first, then sent.
Record(t) ==
  /\ task[t].at = "finished"
  /\ Put(task[t].id, task[t].ok)
  /\ Move(t, "recorded")
  /\ UNCHANGED <<process, looking, running, disk, outbox, made, history>>

Report(t) ==
  /\ task[t].at = "recorded"
  /\ Queue(<<Result(task[t].id, task[t].ok)>>)
  /\ Move(t, "leaving")
  /\ UNCHANGED <<process, looking, running, memory, disk, made, history>>

\* Mutant: the command stays in flight.
Leave_StaysInFlight(t) ==
  /\ task[t].at = "leaving"
  /\ task' = [task EXCEPT ![t] = Free]
  /\ UNCHANGED <<process, looking, running, memory, disk, outbox, made, history>>

\* The deferred calls: the slot is given back and the command is no longer in flight.
Leave(t) ==
  /\ task[t].at = "leaving"
  /\ running' = [running EXCEPT ![task[t].id] = NoTask]
  /\ task' = [task EXCEPT ![t] = Free]
  /\ UNCHANGED <<process, looking, memory, disk, outbox, made, history>>

TaskStep(t) ==
  \/ TakeSlot(t) \/ GiveUp(t) \/ Search(t) \/ Create(t) \/ HandlerFails(t)
  \/ Record(t) \/ Report(t) \/ Leave(t)

-----------------------------------------------------------------------------
(***************************************************************************)
(* Store.Run: Save on every tick and once more when the context ends.      *)
(* Save encodes under the lock, writes without it, and then clears dirty.  *)
(***************************************************************************)
Ending == phase \in {"ending", "stopping"}
MayEncode == phase = "up" \/ (Ending /\ ~flushed)

SaveEncode ==
  /\ MayEncode /\ ~saver.busy
  /\ IF dirty THEN saver' = [busy |-> TRUE, data |-> Newest(cache, MaxSaved)]
              ELSE UNCHANGED saver
  /\ flushed' = Ending
  /\ UNCHANGED <<process, work, memory, saved, outbox, made, history>>

SaveWrite ==
  /\ phase # "down" /\ saver.busy
  /\ saved' = saver.data
  /\ dirty' = FALSE
  /\ saver' = Resting
  /\ UNCHANGED <<process, work, cache, flushed, outbox, made, history>>

\* The ConfigMap could not be read or written: dirty stays, the next tick tries again.
SaveFails ==
  /\ phase # "down" /\ saver.busy
  /\ saver' = Resting
  /\ UNCHANGED <<process, work, memory, flushed, saved, outbox, made, history>>

-----------------------------------------------------------------------------
(***************************************************************************)
(* Stopping, dying and starting.                                           *)
(***************************************************************************)

\* The context ends: the saver saves a last time, and the receive loop returns after
\* the message it is at.  Then dispatcher.Stop cancels what runs.
Stop ==
  /\ phase = "up" /\ stops < MaxStops
  /\ phase' = "ending" /\ stops' = stops + 1
  /\ UNCHANGED <<kills, work, memory, disk, outbox, made, history>>

StopCommands ==
  /\ phase = "ending" /\ looking = NoId
  /\ phase' = "stopping"
  /\ task' = [t \in Tasks |-> IF task[t] = Free THEN Free ELSE [task[t] EXCEPT !.cancelled = TRUE]]
  /\ UNCHANGED <<stops, kills, looking, running, memory, disk, outbox, made, history>>

Ended ==
  /\ phase' = "down"
  /\ looking' = NoId
  /\ running' = [id \in Ids |-> NoTask]
  /\ task' = [t \in Tasks |-> Free]
  /\ cache' = <<>> /\ dirty' = FALSE
  /\ saver' = Resting /\ flushed' = FALSE
  /\ outbox' = <<>>
  /\ life' = [id \in Ids |-> 0]
  /\ UNCHANGED <<saved, made, runs>>

\* Every goroutine of a command has ended.  Nobody waits for the saver.
Exit ==
  /\ phase = "stopping"
  /\ \A t \in Tasks : task[t] = Free
  /\ Ended
  /\ UNCHANGED <<stops, kills>>

Kill ==
  /\ phase # "down" /\ kills < MaxKills
  /\ kills' = kills + 1
  /\ Ended
  /\ UNCHANGED stops

\* The cache is loaded, or starts empty when the ConfigMap cannot be read.
Start ==
  /\ phase = "down"
  /\ phase' = "up"
  /\ \/ cache' = Newest(saved, CacheSize)
     \/ cache' = <<>>
  /\ UNCHANGED <<stops, kills, work, dirty, disk, outbox, made, history>>

-----------------------------------------------------------------------------
\* The connection manager takes the oldest message to the stream.
Send ==
  /\ phase = "up" /\ outbox # <<>>
  /\ outbox' = Tail(outbox)
  /\ UNCHANGED <<process, work, memory, disk, made, history>>

\* Before the stream is accepted it puts the message it took back, behind the others,
\* and drops it if another has taken its place meanwhile.
Requeue ==
  /\ phase = "up" /\ outbox # <<>>
  /\ \/ outbox' = Append(Tail(outbox), Head(outbox))
     \/ Len(outbox) = OutboxSize /\ outbox' = Tail(outbox)
  /\ UNCHANGED <<process, work, memory, disk, made, history>>

LoopStep == \E id \in Ids : StillRunning(id) \/ Refuse(id) \/ Accept(id)
SaverStep == SaveEncode \/ SaveWrite
InnerNext ==
  \/ LoopStep \/ SaverStep \/ SaveFails
  \/ \E t \in Tasks : TaskStep(t)
  \/ Stop \/ StopCommands \/ Exit \/ Kill \/ Start

Next ==
  \/ InnerNext \/ Send \/ Requeue
  \/ \E id \in Ids : HandleCommand(id) \/ HandleCancel(id)

Spec == Init /\ [][Next]_vars

(***************************************************************************)
(* Goroutines run, and a handler returns: its context carries the          *)
(* command's deadline.                                                     *)
(***************************************************************************)
Fairness ==
  /\ WF_vars(LoopStep)
  /\ \A t \in Tasks : WF_vars(TaskStep(t))

FairSpec == Spec /\ Fairness

-----------------------------------------------------------------------------
(***************************************************************************)
(* Type correctness.                                                       *)
(***************************************************************************)
TaskPlace == {"free", "waiting", "searching", "creating", "finished", "recorded", "leaving"}

TypeOK ==
  /\ phase \in {"up", "ending", "stopping", "down"}
  /\ looking \in Ids \cup {NoId}
  /\ running \in [Ids -> Tasks \cup {NoTask}]
  /\ task \in [Tasks -> [id : Ids \cup {NoId}, at : TaskPlace, cancelled : BOOLEAN, ok : BOOLEAN]]
  /\ cache \in Seq(Outcome) /\ dirty \in BOOLEAN
  /\ saver \in Encoded /\ flushed \in BOOLEAN /\ saved \in Seq(Outcome)
  /\ outbox \in Seq(AgentMessage)
  /\ made \in [Ids -> Nat] /\ runs \in [Ids -> Nat] /\ life \in [Ids -> Nat]
  /\ stops \in Nat /\ kills \in Nat

(***************************************************************************)
(* However often a command is delivered, two goroutines never execute it   *)
(* at the same time: running is read before, and cleared after, it.        *)
(***************************************************************************)
OneExecution ==
  \A t, u \in Tasks : task[t].id # NoId /\ task[t].id = task[u].id => t = u

\* Why: running names the goroutine of every command that has one.
InFlight ==
  /\ \A t \in Tasks : /\ task[t].at = "free" <=> task[t].id = NoId
                      /\ task[t].id # NoId => running[task[t].id] = t
  /\ \A id \in Ids : running[id] # NoTask => task[running[id]].id = id

(***************************************************************************)
(* At most one object is created for a command, whatever is executed       *)
(* twice, forgotten by the cache or lost with the process: "a re-delivered *)
(* command finds its object instead of making a second one" (backup.go).   *)
(***************************************************************************)
OneObject == \A id \in Ids : made[id] <= 1

\* Why: who is about to create an object is the only one, and there is none.
SearchedInv ==
  /\ OneObject
  /\ \A t \in Tasks : task[t].at = "creating" => made[task[t].id] = 0

(***************************************************************************)
(* A success that is remembered, persisted, replayed or reported is one of *)
(* a command whose object exists.                                          *)
(***************************************************************************)
SuccessIsReal ==
  /\ \A t \in Tasks : task[t].ok => made[task[t].id] > 0
  /\ \A e \in {cache[i] : i \in DOMAIN cache} \cup {saved[i] : i \in DOMAIN saved}
              \cup {saver.data[i] : i \in DOMAIN saver.data} :
       e.ok => made[e.id] > 0
  /\ \A i \in DOMAIN outbox : outbox[i].what = "result" /\ outbox[i].ok => made[outbox[i].cmd] > 0

(***************************************************************************)
(* "At most once per command id" (dispatcher.go, package comment).         *)
(***************************************************************************)
ExecutedAtMostOnce == \A id \in Ids : life[id] <= 1

(***************************************************************************)
(* Every command is answered: one the receive loop has taken is finished   *)
(* and remembered, or the process ends first.                              *)
(***************************************************************************)
EveryCommandIsAnswered ==
  \A id \in Ids :
    looking = id ~> (id \in Remembered(cache) /\ running[id] = NoTask) \/ phase # "up"
=============================================================================
