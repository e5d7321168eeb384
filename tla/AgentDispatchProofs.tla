------------------------- MODULE AgentDispatchProofs -------------------------
(***************************************************************************)
(* Why a command is never executed by two goroutines at once and never     *)
(* makes two objects, for any number of commands, goroutines, deliveries,  *)
(* restarts and any sizes of the cache, the ConfigMap and the outbox.      *)
(* Neither fact rests on what is remembered: the cache, the saver and the  *)
(* outbox may hold anything, and the first invariant says nothing of them. *)
(* The second one adds them: every success in them is one of a command     *)
(* whose object exists, and so the answers the agent repeats are true.     *)
(***************************************************************************)
EXTENDS AgentDispatch, SequenceTheorems, TLAPS

Goroutine == [id : Ids \cup {NoId}, at : TaskPlace, cancelled : BOOLEAN, ok : BOOLEAN]

\* The part of TypeOK the argument needs.
WorkOK ==
  /\ looking \in Ids \cup {NoId}
  /\ running \in [Ids -> Tasks \cup {NoTask}]
  /\ task \in [Tasks -> Goroutine]
  /\ made \in [Ids -> Nat]

WInv == WorkOK /\ InFlight /\ SearchedInv

LEMMA InitWork == Init => WInv
<1> SUFFICES ASSUME Init
             PROVE  WInv
  OBVIOUS
<1>1. Free \in Goroutine
  BY DEF Free, Goroutine, TaskPlace
<1>2. WorkOK
  BY <1>1 DEF Init, WorkOK
<1>3. InFlight /\ SearchedInv
  BY DEF Init, InFlight, SearchedInv, OneObject, Free
<1> QED
  BY <1>2, <1>3 DEF WInv

(***************************************************************************)
(* A goroutine that has a command is the only one that has it.             *)
(***************************************************************************)
LEMMA Alone ==
  ASSUME WorkOK, InFlight
  PROVE  OneExecution
BY DEF InFlight, OneExecution, WorkOK, Goroutine

(***************************************************************************)
(* The steps by which a goroutine moves on: its command stays with it, and *)
(* it is about to create an object only if it has found none.              *)
(***************************************************************************)
MovesOn(t) ==
  /\ UNCHANGED <<looking, running>>
  /\ task[t].at # "free"
  /\ task' = [task EXCEPT ![t] = task'[t]]
  /\ task'[t] \in Goroutine
  /\ task'[t].id = task[t].id /\ task'[t].at # "free"
  /\ \/ made' = made /\ (task'[t].at = "creating" => made[task[t].id] = 0)
     \/ /\ task[t].at = "creating" /\ task'[t].at # "creating"
        /\ made' = [made EXCEPT ![task[t].id] = @ + 1]

LEMMA TaskMovesOn ==
  ASSUME WInv, NEW t \in Tasks, TaskStep(t), ~Leave(t)
  PROVE  MovesOn(t)
<1>1. task \in [Tasks -> Goroutine] /\ task[t] \in Goroutine
  BY DEF WInv, WorkOK
<1>2. CASE TakeSlot(t)
  BY <1>1, <1>2 DEF TakeSlot, Move, MovesOn, Goroutine, TaskPlace
<1>3. CASE GiveUp(t)
  BY <1>1, <1>3 DEF GiveUp, Ends, MovesOn, Goroutine, TaskPlace
<1>4. CASE Search(t)
  <2>1. made[task[t].id] \in Nat
    BY <1>1, <1>4 DEF Search, WInv, WorkOK, InFlight, Goroutine
  <2>2. CASE made[task[t].id] > 0
    BY <1>1, <1>4, <2>2 DEF Search, Ends, MovesOn, Goroutine, TaskPlace
  <2>3. CASE made[task[t].id] = 0
    BY <1>1, <1>4, <2>3 DEF Search, Move, MovesOn, Goroutine, TaskPlace
  <2> QED
    BY <2>1, <2>2, <2>3
<1>5. CASE Create(t)
  BY <1>1, <1>5 DEF Create, Ends, MovesOn, Goroutine, TaskPlace
<1>6. CASE HandlerFails(t)
  BY <1>1, <1>6 DEF HandlerFails, Executing, Ends, MovesOn, Goroutine, TaskPlace
<1>7. CASE Record(t)
  BY <1>1, <1>7 DEF Record, Move, MovesOn, Goroutine, TaskPlace
<1>8. CASE Report(t)
  BY <1>1, <1>8 DEF Report, Move, MovesOn, Goroutine, TaskPlace
<1> QED
  BY <1>2, <1>3, <1>4, <1>5, <1>6, <1>7, <1>8 DEF TaskStep

LEMMA MovesOnKeeps ==
  ASSUME WInv, NEW t \in Tasks, MovesOn(t)
  PROVE  WInv'
<1>1. \A u \in Tasks : task'[u] = IF u = t THEN task'[t] ELSE task[u]
  BY DEF WInv, WorkOK, MovesOn
<1>2. task[t].id \in Ids /\ running[task[t].id] = t
  BY DEF WInv, WorkOK, InFlight, MovesOn, Goroutine
<1>3. WorkOK'
  BY <1>1, <1>2 DEF WInv, WorkOK, MovesOn
<1>4. InFlight'
  BY <1>1, <1>2 DEF WInv, WorkOK, InFlight, MovesOn
<1>5. SearchedInv'
  <2>1. CASE made' = made
    <3>1. task'[t].at = "creating" => made[task[t].id] = 0
      BY <2>1, <1>2 DEF MovesOn, WInv, WorkOK, SearchedInv
    <3> QED
      BY <1>1, <2>1, <3>1 DEF WInv, SearchedInv, OneObject, MovesOn
  <2>2. CASE /\ task[t].at = "creating" /\ task'[t].at # "creating"
             /\ made' = [made EXCEPT ![task[t].id] = @ + 1]
    <3>1. made[task[t].id] = 0
      BY <2>2 DEF WInv, SearchedInv
    <3>2. ASSUME NEW u \in Tasks, task'[u].at = "creating"
          PROVE  u # t /\ task[u].at = "creating" /\ task[u].id # task[t].id /\ task[u].id \in Ids
      BY <1>1, <1>2, <2>2, <3>2 DEF WInv, WorkOK, InFlight, Goroutine
    <3>3. \A id \in Ids : made'[id] = IF id = task[t].id THEN 1 ELSE made[id]
      BY <1>2, <2>2, <3>1 DEF WInv, WorkOK
    <3> QED
      BY <1>1, <3>2, <3>3 DEF WInv, SearchedInv, OneObject
  <2> QED
    BY <2>1, <2>2 DEF MovesOn
<1> QED
  BY <1>3, <1>4, <1>5 DEF WInv

(***************************************************************************)
(* The steps that give a goroutine a command, take it away, cancel it, or  *)
(* end them all.                                                           *)
(***************************************************************************)
\* running is empty for the id, and nobody else can have it.
LEMMA AcceptKeeps ==
  ASSUME WInv, NEW id \in Ids, Accept(id)
  PROVE  WInv'
<1> DEFINE g == [Free EXCEPT !.id = id, !.at = "waiting"]
<1>1. PICK t \in Tasks : /\ task[t] = Free
                         /\ running' = [running EXCEPT ![id] = t]
                         /\ task' = [task EXCEPT ![t] = g]
  BY DEF Accept
<1>2. looking' = NoId /\ made' = made /\ running[id] = NoTask
  BY DEF Accept
<1>3. g \in Goroutine /\ g.id = id /\ g.at = "waiting"
  BY DEF Free, Goroutine, TaskPlace
<1> HIDE DEF g
<1>4. task[t].id = NoId
  BY <1>1 DEF Free
<1>5. id # NoId /\ t # NoTask
  BY AgentDispatchAssumption
<1>6. \A u \in Tasks : task'[u] = IF u = t THEN g ELSE task[u]
  BY <1>1 DEF WInv, WorkOK
<1>7. \A i \in Ids : running'[i] = IF i = id THEN t ELSE running[i]
  BY <1>1 DEF WInv, WorkOK
<1>8. \A u \in Tasks : task[u].id # id
  BY <1>2, <1>5, AgentDispatchAssumption DEF WInv, InFlight
<1>9. \A i \in Ids : running[i] # t
  BY <1>4, <1>5, AgentDispatchAssumption DEF WInv, InFlight
<1>10. WorkOK'
  BY <1>1, <1>2, <1>3 DEF WInv, WorkOK
<1>11. InFlight'
  <2>1. ASSUME NEW u \in Tasks
        PROVE  /\ task'[u].at = "free" <=> task'[u].id = NoId
               /\ task'[u].id # NoId => running'[task'[u].id] = u
    <3>1. CASE u = t
      BY <1>3, <1>5, <1>6, <1>7, <3>1
    <3>2. CASE u # t
      BY <1>6, <1>7, <1>8, <3>2 DEF WInv, WorkOK, InFlight, Goroutine
    <3> QED
      BY <3>1, <3>2
  <2>2. ASSUME NEW i \in Ids, running'[i] # NoTask
        PROVE  task'[running'[i]].id = i
    BY <1>3, <1>6, <1>7, <1>9, <2>2 DEF WInv, WorkOK, InFlight
  <2> QED
    BY <2>1, <2>2 DEF InFlight
<1>12. SearchedInv'
  BY <1>2, <1>3, <1>6 DEF WInv, SearchedInv, OneObject
<1> QED
  BY <1>10, <1>11, <1>12 DEF WInv

\* running is cleared with the goroutine that has left.
LEMMA LeaveKeeps ==
  ASSUME WInv, NEW t \in Tasks, Leave(t)
  PROVE  WInv'
<1> DEFINE id == task[t].id
<1>1. task[t].at = "leaving" /\ UNCHANGED <<looking, made>>
  BY DEF Leave
<1>2. id \in Ids /\ running[id] = t /\ t # NoTask
  BY <1>1, AgentDispatchAssumption DEF WInv, WorkOK, InFlight, Goroutine
<1>3. \A u \in Tasks : task'[u] = IF u = t THEN Free ELSE task[u]
  BY DEF Leave, WInv, WorkOK
<1>4. \A i \in Ids : running'[i] = IF i = id THEN NoTask ELSE running[i]
  BY DEF Leave, WInv, WorkOK
<1>5. Free \in Goroutine /\ Free.id = NoId /\ Free.at = "free"
  BY DEF Free, Goroutine, TaskPlace
<1>6. WorkOK'
  BY <1>1, <1>5 DEF Leave, WInv, WorkOK
<1>7. ASSUME NEW u \in Tasks
      PROVE  /\ task'[u].at = "free" <=> task'[u].id = NoId
             /\ task'[u].id # NoId => running'[task'[u].id] = u
  <2>1. CASE u = t
    BY <1>3, <1>5, <2>1
  <2>2. CASE u # t
    BY <1>2, <1>3, <1>4, <2>2 DEF WInv, WorkOK, InFlight, Goroutine
  <2> QED
    BY <2>1, <2>2
<1>8. ASSUME NEW i \in Ids, running'[i] # NoTask
      PROVE  task'[running'[i]].id = i
  BY <1>2, <1>3, <1>4, <1>8 DEF WInv, WorkOK, InFlight
<1>9. SearchedInv'
  BY <1>1, <1>3, <1>5 DEF WInv, SearchedInv, OneObject
<1> QED
  BY <1>6, <1>7, <1>8, <1>9 DEF WInv, InFlight

\* A cancellation leaves every goroutine its command and its place.
LEMMA CancelKeeps ==
  ASSUME WInv, UNCHANGED <<running, made>>, looking' \in Ids \cup {NoId},
         task' \in [Tasks -> Goroutine],
         \A t \in Tasks : task'[t].id = task[t].id /\ task'[t].at = task[t].at
  PROVE  WInv'
<1>1. WorkOK'
  BY DEF WInv, WorkOK
<1>2. InFlight'
  BY DEF WInv, WorkOK, InFlight
<1>3. SearchedInv'
  BY DEF WInv, SearchedInv, OneObject
<1> QED
  BY <1>1, <1>2, <1>3 DEF WInv

LEMMA EndedKeeps ==
  ASSUME WInv, Ended
  PROVE  WInv'
<1>1. Free \in Goroutine /\ Free.id = NoId /\ Free.at = "free"
  BY DEF Free, Goroutine, TaskPlace
<1>2. WorkOK'
  BY <1>1 DEF Ended, WInv, WorkOK
<1>3. InFlight'
  BY <1>1 DEF Ended, InFlight
<1>4. SearchedInv'
  BY <1>1 DEF Ended, WInv, SearchedInv, OneObject
<1> QED
  BY <1>2, <1>3, <1>4 DEF WInv

LEMMA NextWork == WInv /\ [Next]_vars => WInv'
<1> SUFFICES ASSUME WInv, [Next]_vars
             PROVE  WInv'
  OBVIOUS
<1>1. ASSUME NEW t \in Tasks, TaskStep(t)
      PROVE  WInv'
  BY <1>1, LeaveKeeps, TaskMovesOn, MovesOnKeeps
<1>2. ASSUME NEW id \in Ids, Accept(id)
      PROVE  WInv'
  BY <1>2, AcceptKeeps
<1>3. ASSUME NEW id \in Ids, HandleCancel(id)
      PROVE  WInv'
  <2>1. ASSUME NEW t \in Tasks
        PROVE  /\ task'[t] \in Goroutine
               /\ task'[t].id = task[t].id /\ task'[t].at = task[t].at
    BY <1>3 DEF HandleCancel, WInv, WorkOK, Goroutine
  <2>2. UNCHANGED <<looking, running, made>> /\ task' = [t \in Tasks |-> task'[t]]
    BY <1>3 DEF HandleCancel
  <2> QED
    BY <2>1, <2>2, CancelKeeps DEF WInv, WorkOK
<1>4. CASE StopCommands
  <2>1. ASSUME NEW t \in Tasks
        PROVE  /\ task'[t] \in Goroutine
               /\ task'[t].id = task[t].id /\ task'[t].at = task[t].at
    BY <1>4 DEF StopCommands, WInv, WorkOK, Goroutine
  <2>2. UNCHANGED <<looking, running, made>> /\ task' = [t \in Tasks |-> task'[t]]
    BY <1>4 DEF StopCommands
  <2> QED
    BY <2>1, <2>2, CancelKeeps DEF WInv, WorkOK
<1>5. CASE Exit \/ Kill
  BY <1>5, EndedKeeps DEF Exit, Kill
<1>6. ASSUME UNCHANGED <<running, task, made>>, looking' \in Ids \cup {NoId}
      PROVE  WInv'
  <2>1. task' \in [Tasks -> Goroutine]
    BY <1>6 DEF WInv, WorkOK
  <2> QED
    BY <1>6, <2>1, CancelKeeps
<1>7. ASSUME NEW id \in Ids, HandleCommand(id) \/ StillRunning(id) \/ Refuse(id)
      PROVE  WInv'
  BY <1>6, <1>7 DEF HandleCommand, StillRunning, Refuse, work, WInv, WorkOK
<1>8. CASE SaverStep \/ SaveFails \/ Stop \/ Start \/ Send \/ Requeue \/ UNCHANGED vars
  BY <1>6, <1>8 DEF SaverStep, SaveEncode, SaveWrite, SaveFails, Stop, Start, Send, Requeue,
           vars, work, WInv, WorkOK
<1> QED
  BY <1>1, <1>2, <1>3, <1>4, <1>5, <1>7, <1>8 DEF Next, InnerNext, LoopStep

(***************************************************************************)
(* The theorems.                                                           *)
(***************************************************************************)
\* The invariant the theorems below rest on: running, the goroutines and the objects agree.
THEOREM WorkInvariant == Spec => []WInv
BY InitWork, NextWork, PTL DEF Spec

\* running names the goroutine of every command that has one, in every life of the process:
\* dispatcher.go enters and clears it around the goroutine's whole life.
THEOREM InFlightHolds == Spec => []InFlight
<1>1. WInv => InFlight
  BY DEF WInv
<1> QED
  BY <1>1, WorkInvariant, PTL

\* However often and however late a command is delivered, dispatcher.go never has two
\* goroutines executing it.
THEOREM OneExecutionHolds == Spec => []OneExecution
<1>1. WInv => OneExecution
  BY Alone DEF WInv
<1> QED
  BY <1>1, WorkInvariant, PTL

\* At most one object is ever created for a command, whatever the process forgets, however
\* often it dies and is started, and however often the command is executed (backup.go).
THEOREM OneObjectHolds == Spec => []SearchedInv
<1>1. WInv => SearchedInv
  BY DEF WInv
<1> QED
  BY <1>1, WorkInvariant, PTL

-----------------------------------------------------------------------------
(***************************************************************************)
(* What the operators on sequences return, whatever is in them.            *)
(***************************************************************************)
LEMMA PlaceOf ==
  ASSUME NEW s, NEW id, id \in Remembered(s)
  PROVE  Place(s, id) \in DOMAIN s /\ s[Place(s, id)].id = id
  BY DEF Place, Remembered

LEMMA RemoveAtType ==
  ASSUME NEW S, NEW s \in Seq(S), NEW i \in DOMAIN s
  PROVE  RemoveAt(s, i) \in Seq(S)
  <1>1. i \in 1 .. Len(s) /\ Len(s) \in Nat /\ \A j \in 1 .. Len(s) : s[j] \in S
    BY LenProperties, ElementOfSeq
  <1>2. SubSeq(s, 1, i - 1) \in Seq(S)
    BY <1>1, SubSeqProperties
  <1>3. SubSeq(s, i + 1, Len(s)) \in Seq(S)
    BY <1>1, SubSeqProperties
  <1> QED
    BY <1>2, <1>3, ConcatProperties DEF RemoveAt

LEMMA WithoutType ==
  ASSUME NEW S, NEW s \in Seq(S), NEW id
  PROVE  Without(s, id) \in Seq(S)
  BY PlaceOf, RemoveAtType DEF Without

LEMMA NewestType ==
  ASSUME NEW S, NEW s \in Seq(S), NEW n \in Nat
  PROVE  Newest(s, n) \in Seq(S)
  <1>1. Len(s) \in Nat /\ \A j \in 1 .. Len(s) : s[j] \in S
    BY LenProperties, ElementOfSeq
  <1> DEFINE m == IF Len(s) < n THEN Len(s) ELSE n
  <1>2. m \in Int /\ \A j \in 1 .. m : s[j] \in S
    BY <1>1
  <1>3. SubSeq(s, 1, m) \in Seq(S)
    BY <1>2, SubSeqProperties
  <1> QED
    BY <1>3 DEF Newest

LEMMA SingletonType ==
  ASSUME NEW S, NEW x \in S
  PROVE  <<x>> \in Seq(S)
  OBVIOUS

LEMMA FirstType ==
  ASSUME NEW S, NEW x \in S, NEW s \in Seq(S)
  PROVE  <<x>> \o s \in Seq(S)
  BY SingletonType, ConcatProperties

-----------------------------------------------------------------------------
(***************************************************************************)
(* Outcomes and messages that claim no success without an object.          *)
(***************************************************************************)
Real == {o \in Outcome : o.ok => made[o.id] > 0}
RealMessage == {m \in AgentMessage : m.what = "result" => (m.ok => made[m.cmd] > 0)}

MemoryOK ==
  /\ cache \in Seq(Real) /\ saved \in Seq(Real)
  /\ saver \in [busy : BOOLEAN, data : Seq(Real)]
  /\ outbox \in Seq(RealMessage)

TasksReal == \A t \in Tasks : task[t].ok => task[t].id \in Ids /\ made[task[t].id] > 0

CountsOK ==
  /\ phase \in {"up", "ending", "stopping", "down"} /\ dirty \in BOOLEAN /\ flushed \in BOOLEAN
  /\ runs \in [Ids -> Nat] /\ life \in [Ids -> Nat] /\ stops \in Nat /\ kills \in Nat

AgentInv == WInv /\ MemoryOK /\ TasksReal /\ CountsOK

\* It is the type of the state, and says that successes are real.
LEMMA AgentInvMeans == AgentInv => TypeOK /\ SuccessIsReal
  <1> SUFFICES ASSUME AgentInv PROVE TypeOK /\ SuccessIsReal
    OBVIOUS
  <1>1. Real \subseteq Outcome /\ RealMessage \subseteq AgentMessage
    BY DEF Real, RealMessage
  <1>2. Seq(Real) \subseteq Seq(Outcome) /\ Seq(RealMessage) \subseteq Seq(AgentMessage)
    BY <1>1, SeqMonotonic
  <1>3. TypeOK
    BY <1>2 DEF AgentInv, WInv, WorkOK, MemoryOK, CountsOK, TypeOK, Encoded, Goroutine
  <1>4. \A s \in Seq(Real) : \A i \in DOMAIN s : s[i] \in Real
    BY ElementOfSeq, LenProperties
  <1>5. \A i \in DOMAIN outbox : outbox[i] \in RealMessage
    BY ElementOfSeq, LenProperties DEF AgentInv, MemoryOK
  <1>6. cache \in Seq(Real) /\ saved \in Seq(Real) /\ saver.data \in Seq(Real)
    BY DEF AgentInv, MemoryOK
  <1>7. SuccessIsReal
    BY <1>4, <1>5, <1>6 DEF AgentInv, TasksReal, SuccessIsReal, Real, RealMessage
  <1> QED
    BY <1>3, <1>7

LEMMA InitAgentInv == Init => AgentInv
  <1> SUFFICES ASSUME Init PROVE AgentInv
    OBVIOUS
  <1>1. WInv
    BY InitWork
  <1>2. MemoryOK
    BY EmptySeq DEF Init, MemoryOK, Resting
  <1>3. TasksReal
    BY DEF Init, TasksReal, Free
  <1>4. CountsOK
    BY DEF Init, CountsOK
  <1> QED
    BY <1>1, <1>2, <1>3, <1>4 DEF AgentInv

(***************************************************************************)
(* Messages are queued whole, and what is put first is real.               *)
(***************************************************************************)
LEMMA QueueType ==
  ASSUME MemoryOK, NEW m \in RealMessage, Queue(<<m>>)
  PROVE  outbox' \in Seq(RealMessage)
  <1>1. outbox \o <<m>> \in Seq(RealMessage)
    BY SingletonType, ConcatProperties DEF MemoryOK
  <1> QED
    BY <1>1 DEF Queue, MemoryOK

LEMMA MessageType ==
  /\ \A id \in Ids, what \in {"ACKED", "RUNNING"} : Ack(id, what) \in RealMessage
  /\ \A id \in Ids, ok \in BOOLEAN : (ok => made[id] > 0) => Result(id, ok) \in RealMessage
  BY DEF Ack, Result, RealMessage, AgentMessage

LEMMA PutType ==
  ASSUME MemoryOK, NEW id \in Ids, NEW ok \in BOOLEAN, ok => made[id] > 0, Put(id, ok)
  PROVE  cache' \in Seq(Real) /\ dirty' \in BOOLEAN
  <1>1. [id |-> id, ok |-> ok] \in Real
    BY DEF Real, Outcome
  <1>2. <<[id |-> id, ok |-> ok]>> \o Without(cache, id) \in Seq(Real)
    BY <1>1, WithoutType, FirstType DEF MemoryOK
  <1> QED
    BY <1>2, NewestType, AgentDispatchAssumption DEF Put

LEMMA TouchType ==
  ASSUME MemoryOK, NEW id \in Ids, id \in Remembered(cache), Touch(id)
  PROVE  cache' \in Seq(Real)
  <1>1. cache[Place(cache, id)] \in Real
    BY PlaceOf, ElementOfSeq, LenProperties DEF MemoryOK
  <1> QED
    BY <1>1, WithoutType, FirstType DEF Touch, MemoryOK

LEMMA SameObjects == made' = made => Real' = Real /\ RealMessage' = RealMessage
  BY DEF Real, RealMessage

\* An object more makes no success less real.
LEMMA MoreObjects ==
  ASSUME NEW id \in Ids, made \in [Ids -> Nat], made' = [made EXCEPT ![id] = @ + 1]
  PROVE  /\ Real \subseteq Real' /\ RealMessage \subseteq RealMessage'
         /\ \A i \in Ids : made[i] > 0 => made'[i] > 0
         /\ made'[id] > 0
  <1>1. \A i \in Ids : made'[i] >= made[i] /\ made[i] \in Nat /\ made'[i] \in Nat
    OBVIOUS
  <1>2. made'[id] > 0
    OBVIOUS
  <1>3. \A i \in Ids : made[i] > 0 => made'[i] > 0
    BY <1>1
  <1>4. Real \subseteq Real'
    BY <1>3 DEF Real, Outcome
  <1>5. RealMessage \subseteq RealMessage'
    BY <1>3 DEF RealMessage, AgentMessage
  <1> QED
    BY <1>2, <1>3, <1>4, <1>5

LEMMA MemoryGrows ==
  ASSUME MemoryOK, Real \subseteq Real', RealMessage \subseteq RealMessage',
         UNCHANGED <<memory, disk, outbox>>
  PROVE  MemoryOK'
  <1>1. Seq(Real) \subseteq Seq(Real') /\ Seq(RealMessage) \subseteq Seq(RealMessage')
    BY SeqMonotonic
  <1> QED
    BY <1>1 DEF MemoryOK, memory, disk

\* The goroutines keep what they say, or say less.
LEMMA TasksStay ==
  ASSUME TasksReal, made' = made, \A t \in Tasks : task'[t].ok => task[t].ok /\ task'[t].id = task[t].id
  PROVE  TasksReal'
  BY DEF TasksReal

LEMMA CountsStay ==
  ASSUME CountsOK, UNCHANGED <<process, dirty, flushed, history>>
  PROVE  CountsOK'
  BY DEF CountsOK, process, history

-----------------------------------------------------------------------------
(***************************************************************************)
(* The receive loop.                                                       *)
(***************************************************************************)
LEMMA HandleCommandReal ==
  ASSUME AgentInv, NEW id \in Ids, HandleCommand(id)
  PROVE  MemoryOK' /\ TasksReal' /\ CountsOK'
  <1>1. UNCHANGED <<process, disk, made, history, task>>
    BY DEF HandleCommand, work
  <1>2. MemoryOK /\ CountsOK
    BY DEF AgentInv
  <1>3. TasksReal'
    BY <1>1, TasksStay DEF AgentInv
  <1>4. CASE id \in Remembered(cache)
    <2>1. Queue(<<Result(id, cache[Place(cache, id)].ok)>>) /\ Touch(id) /\ dirty' = dirty
      BY <1>4 DEF HandleCommand, Touch
    <2>2. cache[Place(cache, id)] \in Real /\ cache[Place(cache, id)].id = id
      BY <1>2, <1>4, PlaceOf, ElementOfSeq, LenProperties DEF MemoryOK
    <2>3. Result(id, cache[Place(cache, id)].ok) \in RealMessage
      BY <2>2, MessageType DEF Real, Outcome
    <2>4. cache' \in Seq(Real) /\ outbox' \in Seq(RealMessage)
      BY <1>2, <1>4, <2>1, <2>3, QueueType, TouchType
    <2>5. MemoryOK'
      BY <1>1, <1>2, <2>4, SameObjects DEF MemoryOK, disk
    <2>6. CountsOK'
      BY <1>1, <1>2, <2>1, CountsStay DEF disk
    <2> QED
      BY <1>3, <2>5, <2>6
  <1>5. CASE id \notin Remembered(cache)
    <2>1. UNCHANGED <<memory, outbox>>
      BY <1>5 DEF HandleCommand
    <2>2. MemoryOK'
      BY <1>1, <1>2, <2>1, SameObjects, MemoryGrows
    <2>3. CountsOK'
      BY <1>1, <1>2, <2>1, CountsStay DEF disk, memory
    <2> QED
      BY <1>3, <2>2, <2>3
  <1> QED
    BY <1>4, <1>5

\* A message more in the outbox, and no success in it or a real one.
LEMMA QueueReal ==
  ASSUME AgentInv, NEW m \in RealMessage, Queue(<<m>>), UNCHANGED <<memory, disk, made>>
  PROVE  MemoryOK'
  <1>1. outbox' \in Seq(RealMessage)
    BY QueueType DEF AgentInv
  <1> QED
    BY <1>1, SameObjects DEF AgentInv, MemoryOK, memory, disk

LEMMA LoopReal ==
  ASSUME AgentInv, NEW id \in Ids, StillRunning(id) \/ Refuse(id) \/ Accept(id)
  PROVE  MemoryOK' /\ TasksReal' /\ CountsOK'
  <1>1. CASE StillRunning(id)
    <2>1. Queue(<<Ack(id, "RUNNING")>>) /\ UNCHANGED <<process, task, memory, disk, made, history>>
      BY <1>1 DEF StillRunning
    <2>2. MemoryOK'
      BY <2>1, MessageType, QueueReal
    <2>3. TasksReal' /\ CountsOK'
      BY <2>1, TasksStay, CountsStay DEF AgentInv, memory, disk
    <2> QED
      BY <2>2, <2>3
  <1>2. CASE Refuse(id)
    <2>1. Put(id, FALSE) /\ Queue(<<Result(id, FALSE)>>)
          /\ UNCHANGED <<process, task, disk, made, history>>
      BY <1>2 DEF Refuse
    <2>2. cache' \in Seq(Real) /\ dirty' \in BOOLEAN
      BY <2>1, PutType DEF AgentInv
    <2>3. outbox' \in Seq(RealMessage)
      BY <2>1, MessageType, QueueType DEF AgentInv
    <2>4. MemoryOK'
      BY <2>1, <2>2, <2>3, SameObjects DEF AgentInv, MemoryOK, disk
    <2>5. TasksReal'
      BY <2>1, TasksStay DEF AgentInv
    <2>6. CountsOK'
      BY <2>1, <2>2 DEF AgentInv, CountsOK, process, history, disk
    <2> QED
      BY <2>4, <2>5, <2>6
  <1>3. CASE Accept(id)
    <2>1. Queue(<<Ack(id, "ACKED")>>) /\ UNCHANGED <<process, memory, disk, made, history>>
      BY <1>3 DEF Accept
    <2>2. MemoryOK'
      BY <2>1, MessageType, QueueReal
    <2>3. CountsOK'
      BY <2>1, CountsStay DEF AgentInv, memory, disk
    <2>4. PICK t \in Tasks : task' = [task EXCEPT ![t] = [Free EXCEPT !.id = id, !.at = "waiting"]]
      BY <1>3 DEF Accept
    <2>5. \A u \in Tasks : task'[u] = task[u] \/ ~task'[u].ok
      BY <2>4 DEF AgentInv, WInv, WorkOK, Free
    <2>6. TasksReal'
      BY <2>1, <2>5, TasksStay DEF AgentInv
    <2> QED
      BY <2>2, <2>3, <2>6
  <1> QED
    BY <1>1, <1>2, <1>3

(***************************************************************************)
(* The goroutine of a command: it says that it succeeded when it has found *)
(* or made the object.                                                     *)
(***************************************************************************)
LEMMA PlaceMoves ==
  ASSUME AgentInv, NEW t \in Tasks, NEW place, Move(t, place), made' = made
  PROVE  TasksReal'
  <1>1. \A u \in Tasks : task'[u].ok = task[u].ok /\ task'[u].id = task[u].id
    BY DEF Move, AgentInv, WInv, WorkOK, Goroutine
  <1> QED
    BY <1>1, TasksStay DEF AgentInv

LEMMA EndsReal ==
  ASSUME AgentInv, NEW t \in Tasks, NEW ok \in BOOLEAN, Ends(t, ok), task[t].id \in Ids,
         \A i \in Ids : made[i] > 0 => made'[i] > 0,
         ok => made'[task[t].id] > 0
  PROVE  TasksReal'
  <1>1. task \in [Tasks -> Goroutine] /\ InFlight
    BY DEF AgentInv, WInv, WorkOK
  <1>2. \A u \in Tasks : /\ task'[u].id = task[u].id
                         /\ u # t => task'[u].ok = task[u].ok
                         /\ u = t => task'[u].ok = ok
    BY <1>1 DEF Ends, Goroutine
  <1>3. \A u \in Tasks : task[u].ok => task[u].id \in Ids /\ made[task[u].id] > 0
    BY DEF AgentInv, TasksReal
  <1>4. ASSUME NEW u \in Tasks, task'[u].ok
        PROVE  task'[u].id \in Ids /\ made'[task'[u].id] > 0
    <2>1. CASE u = t
      BY <1>2, <1>4, <2>1
    <2>2. CASE u # t
      BY <1>2, <1>3, <1>4, <2>2
    <2> QED
      BY <2>1, <2>2
  <1> QED
    BY <1>4 DEF TasksReal

\* It has a command, and a place.
LEMMA HasCommand ==
  ASSUME WInv, NEW t \in Tasks, task[t].at # "free"
  PROVE  task[t].id \in Ids /\ task[t].ok \in BOOLEAN
  BY DEF WInv, WorkOK, InFlight, Goroutine

LEMMA TaskReal ==
  ASSUME AgentInv, NEW t \in Tasks, TaskStep(t)
  PROVE  MemoryOK' /\ TasksReal' /\ CountsOK'
  <1> DEFINE id == task[t].id
  <1>1. WInv /\ MemoryOK /\ TasksReal /\ CountsOK
    BY DEF AgentInv
  <1>2. CASE TakeSlot(t)
    <2>1. id \in Ids
      BY <1>1, <1>2, HasCommand DEF TakeSlot
    <2>2. Queue(<<Ack(id, "RUNNING")>>) /\ Move(t, "searching")
          /\ UNCHANGED <<process, memory, disk, made>>
      BY <1>2 DEF TakeSlot
    <2>3. runs' = [runs EXCEPT ![id] = @ + 1] /\ life' = [life EXCEPT ![id] = @ + 1]
      BY <1>2 DEF TakeSlot
    <2>4. MemoryOK'
      BY <2>1, <2>2, MessageType, QueueReal
    <2>5. TasksReal'
      BY <2>2, PlaceMoves
    <2>6. CountsOK'
      BY <1>1, <2>1, <2>2, <2>3 DEF CountsOK, process, memory, disk
    <2> QED
      BY <2>4, <2>5, <2>6
  <1>3. CASE GiveUp(t)
    <2>1. Ends(t, FALSE) /\ UNCHANGED <<process, memory, disk, outbox, made, history>>
      BY <1>3 DEF GiveUp
    <2>2. id \in Ids
      BY <1>1, <1>3, HasCommand DEF GiveUp
    <2>3. MemoryOK' /\ CountsOK'
      BY <1>1, <2>1, SameObjects, MemoryGrows, CountsStay DEF memory, disk
    <2>4. TasksReal'
      BY <2>1, <2>2, EndsReal
    <2> QED
      BY <2>3, <2>4
  <1>4. CASE Search(t)
    <2>1. UNCHANGED <<process, memory, disk, outbox, made, history>>
      BY <1>4 DEF Search
    <2>2. id \in Ids
      BY <1>1, <1>4, HasCommand DEF Search
    <2>3. MemoryOK' /\ CountsOK'
      BY <1>1, <2>1, SameObjects, MemoryGrows, CountsStay DEF memory, disk
    <2>4. CASE made[id] > 0
      <3>1. Ends(t, TRUE)
        BY <1>4, <2>4 DEF Search
      <3> QED
        BY <2>1, <2>2, <2>3, <2>4, <3>1, EndsReal
    <2>5. CASE ~(made[id] > 0)
      <3>1. Move(t, "creating")
        BY <1>4, <2>5 DEF Search
      <3> QED
        BY <2>1, <2>3, <3>1, PlaceMoves
    <2> QED
      BY <2>4, <2>5
  <1>5. CASE Create(t)
    <2>1. Ends(t, TRUE) /\ UNCHANGED <<process, memory, disk, outbox, history>>
          /\ made' = [made EXCEPT ![id] = @ + 1]
      BY <1>5 DEF Create
    <2>2. id \in Ids
      BY <1>1, <1>5, HasCommand DEF Create
    <2>3. /\ Real \subseteq Real' /\ RealMessage \subseteq RealMessage'
          /\ \A i \in Ids : made[i] > 0 => made'[i] > 0
          /\ made'[id] > 0
      BY <1>1, <2>1, <2>2, MoreObjects DEF WInv, WorkOK
    <2>4. MemoryOK' /\ CountsOK'
      BY <1>1, <2>1, <2>3, MemoryGrows, CountsStay DEF memory, disk
    <2>5. TasksReal'
      BY <2>1, <2>2, <2>3, EndsReal
    <2> QED
      BY <2>4, <2>5
  <1>6. CASE HandlerFails(t)
    <2>1. Ends(t, FALSE) /\ UNCHANGED <<process, memory, disk, outbox, made, history>>
      BY <1>6 DEF HandlerFails
    <2>2. id \in Ids
      BY <1>1, <1>6, HasCommand DEF HandlerFails, Executing
    <2>3. MemoryOK' /\ CountsOK'
      BY <1>1, <2>1, SameObjects, MemoryGrows, CountsStay DEF memory, disk
    <2>4. TasksReal'
      BY <2>1, <2>2, EndsReal
    <2> QED
      BY <2>3, <2>4
  <1>7. CASE Record(t)
    <2>1. Put(id, task[t].ok) /\ Move(t, "recorded")
          /\ UNCHANGED <<process, disk, outbox, made, history>>
      BY <1>7 DEF Record
    <2>2. id \in Ids /\ task[t].ok \in BOOLEAN /\ (task[t].ok => made[id] > 0)
      BY <1>1, <1>7, HasCommand DEF Record, TasksReal
    <2>3. cache' \in Seq(Real) /\ dirty' \in BOOLEAN
      BY <1>1, <2>1, <2>2, PutType
    <2>4. MemoryOK'
      BY <1>1, <2>1, <2>3, SameObjects DEF MemoryOK, disk
    <2>5. TasksReal'
      BY <2>1, PlaceMoves
    <2>6. CountsOK'
      BY <1>1, <2>1, <2>3 DEF CountsOK, process, history, disk
    <2> QED
      BY <2>4, <2>5, <2>6
  <1>8. CASE Report(t)
    <2>1. Queue(<<Result(id, task[t].ok)>>) /\ Move(t, "leaving")
          /\ UNCHANGED <<process, memory, disk, made, history>>
      BY <1>8 DEF Report
    <2>2. id \in Ids /\ task[t].ok \in BOOLEAN /\ (task[t].ok => made[id] > 0)
      BY <1>1, <1>8, HasCommand DEF Report, TasksReal
    <2>3. MemoryOK'
      BY <2>1, <2>2, MessageType, QueueReal
    <2>4. TasksReal' /\ CountsOK'
      BY <1>1, <2>1, PlaceMoves, CountsStay DEF memory, disk
    <2> QED
      BY <2>3, <2>4
  <1>9. CASE Leave(t)
    <2>1. task' = [task EXCEPT ![t] = Free]
          /\ UNCHANGED <<process, memory, disk, outbox, made, history>>
      BY <1>9 DEF Leave
    <2>2. MemoryOK' /\ CountsOK'
      BY <1>1, <2>1, SameObjects, MemoryGrows, CountsStay DEF memory, disk
    <2>3. \A u \in Tasks : task'[u] = task[u] \/ ~task'[u].ok
      BY <1>1, <2>1 DEF WInv, WorkOK, Free
    <2>4. TasksReal'
      BY <1>1, <2>1, <2>3, TasksStay
    <2> QED
      BY <2>2, <2>4
  <1> QED
    BY <1>2, <1>3, <1>4, <1>5, <1>6, <1>7, <1>8, <1>9 DEF TaskStep

-----------------------------------------------------------------------------
(***************************************************************************)
(* The saver: what it writes is a beginning of what the cache held.        *)
(***************************************************************************)
LEMMA SaverReal ==
  ASSUME AgentInv, SaverStep \/ SaveFails
  PROVE  MemoryOK' /\ TasksReal' /\ CountsOK'
  <1>1. MemoryOK /\ TasksReal /\ CountsOK
    BY DEF AgentInv
  <1>2. Newest(cache, MaxSaved) \in Seq(Real) /\ <<>> \in Seq(Real)
    BY <1>1, NewestType, EmptySeq, AgentDispatchAssumption DEF MemoryOK
  <1>3. CASE SaveEncode
    <2>1. UNCHANGED <<process, task, memory, saved, outbox, made, history>>
          /\ flushed' \in BOOLEAN
      BY <1>3 DEF SaveEncode, work, Ending
    <2>2. saver' \in [busy : BOOLEAN, data : Seq(Real)]
      <3>1. [busy |-> TRUE, data |-> Newest(cache, MaxSaved)] \in [busy : BOOLEAN, data : Seq(Real)]
        BY <1>2
      <3> QED
        BY <1>1, <1>3, <3>1 DEF SaveEncode, MemoryOK
    <2>3. MemoryOK'
      BY <1>1, <2>1, <2>2, SameObjects DEF MemoryOK, memory
    <2>4. TasksReal' /\ CountsOK'
      BY <1>1, <2>1, TasksStay DEF CountsOK, process, memory, history
    <2> QED
      BY <2>3, <2>4
  <1>4. CASE SaveWrite \/ SaveFails
    <2>1. UNCHANGED <<process, task, cache, flushed, outbox, made, history>>
          /\ saver' = Resting
      BY <1>4 DEF SaveWrite, SaveFails, work, memory
    <2>2. saved' \in Seq(Real) /\ dirty' \in BOOLEAN
      BY <1>1, <1>4 DEF SaveWrite, SaveFails, memory, MemoryOK, CountsOK
    <2>3. saver' \in [busy : BOOLEAN, data : Seq(Real)]
      BY <1>2, <2>1 DEF Resting
    <2>4. MemoryOK'
      BY <1>1, <2>1, <2>2, <2>3, SameObjects DEF MemoryOK
    <2>5. TasksReal' /\ CountsOK'
      BY <1>1, <2>1, <2>2, TasksStay DEF CountsOK, process, history
    <2> QED
      BY <2>4, <2>5
  <1> QED
    BY <1>3, <1>4 DEF SaverStep

(***************************************************************************)
(* Cancellations, the end of the process and its start.                    *)
(***************************************************************************)
LEMMA CancelReal ==
  ASSUME AgentInv, (\E id \in Ids : HandleCancel(id)) \/ StopCommands
  PROVE  MemoryOK' /\ TasksReal' /\ CountsOK'
  <1>1. MemoryOK /\ TasksReal /\ CountsOK /\ task \in [Tasks -> Goroutine]
    BY DEF AgentInv, WInv, WorkOK
  <1>2. UNCHANGED <<stops, kills, memory, disk, outbox, made, history>>
        /\ phase' \in {phase, "stopping"}
    BY DEF HandleCancel, StopCommands, process
  <1>3. \A t \in Tasks : task'[t].ok => task[t].ok /\ task'[t].id = task[t].id
    BY <1>1 DEF HandleCancel, StopCommands, Goroutine, Free
  <1>4. MemoryOK'
    BY <1>1, <1>2, SameObjects, MemoryGrows
  <1>5. TasksReal'
    BY <1>1, <1>2, <1>3, TasksStay
  <1>6. CountsOK'
    BY <1>1, <1>2 DEF CountsOK, memory, disk, history
  <1> QED
    BY <1>4, <1>5, <1>6

LEMMA EndReal ==
  ASSUME AgentInv, Exit \/ Kill
  PROVE  MemoryOK' /\ TasksReal' /\ CountsOK'
  <1>1. MemoryOK /\ CountsOK /\ Ended /\ stops' \in Nat /\ kills' \in Nat
    BY DEF Exit, Kill, AgentInv, CountsOK
  <1>2. MemoryOK'
    BY <1>1, SameObjects, EmptySeq DEF Ended, MemoryOK, Resting
  <1>3. TasksReal'
    BY <1>1 DEF Ended, TasksReal, Free
  <1>4. CountsOK'
    BY <1>1 DEF Ended, CountsOK
  <1> QED
    BY <1>2, <1>3, <1>4

LEMMA StartReal ==
  ASSUME AgentInv, Start
  PROVE  MemoryOK' /\ TasksReal' /\ CountsOK'
  <1>1. MemoryOK /\ TasksReal /\ CountsOK
    BY DEF AgentInv
  <1>2. phase' = "up" /\ UNCHANGED <<stops, kills, task, dirty, disk, outbox, made, history>>
    BY DEF Start, work
  <1>3. cache' \in Seq(Real)
    <2>1. Newest(saved, CacheSize) \in Seq(Real) /\ <<>> \in Seq(Real)
      BY <1>1, NewestType, EmptySeq, AgentDispatchAssumption DEF MemoryOK
    <2> QED
      BY <2>1 DEF Start
  <1>4. MemoryOK'
    BY <1>1, <1>2, <1>3, SameObjects DEF MemoryOK, disk
  <1>5. TasksReal' /\ CountsOK'
    BY <1>1, <1>2, TasksStay DEF CountsOK, disk, history
  <1> QED
    BY <1>4, <1>5

\* The outbox: what leaves it or goes to its end was in it.
LEMMA OutboxReal ==
  ASSUME AgentInv, Send \/ Requeue
  PROVE  MemoryOK' /\ TasksReal' /\ CountsOK'
  <1>1. MemoryOK /\ TasksReal /\ CountsOK
    BY DEF AgentInv
  <1>2. UNCHANGED <<process, task, memory, disk, made, history>> /\ outbox # <<>>
    BY DEF Send, Requeue, work
  <1>3. Head(outbox) \in RealMessage /\ Tail(outbox) \in Seq(RealMessage)
    BY <1>1, <1>2, HeadTailProperties DEF MemoryOK
  <1>4. Append(Tail(outbox), Head(outbox)) \in Seq(RealMessage)
    BY <1>3, AppendProperties
  <1>5. outbox' \in Seq(RealMessage)
    BY <1>3, <1>4 DEF Send, Requeue
  <1>6. MemoryOK'
    BY <1>1, <1>2, <1>5, SameObjects DEF MemoryOK, memory, disk
  <1>7. TasksReal' /\ CountsOK'
    BY <1>1, <1>2, TasksStay, CountsStay DEF memory, disk
  <1> QED
    BY <1>6, <1>7

LEMMA NextAgentInv == AgentInv /\ [Next]_vars => AgentInv'
  <1> SUFFICES ASSUME AgentInv, [Next]_vars PROVE AgentInv'
    OBVIOUS
  <1>1. WInv'
    BY NextWork DEF AgentInv
  <1>2. CASE \E id \in Ids : HandleCommand(id)
    BY <1>1, <1>2, HandleCommandReal DEF AgentInv
  <1>3. CASE (\E id \in Ids : HandleCancel(id)) \/ StopCommands
    BY <1>1, <1>3, CancelReal DEF AgentInv
  <1>4. CASE LoopStep
    BY <1>1, <1>4, LoopReal DEF AgentInv, LoopStep
  <1>5. CASE SaverStep \/ SaveFails
    BY <1>1, <1>5, SaverReal DEF AgentInv
  <1>6. CASE \E t \in Tasks : TaskStep(t)
    BY <1>1, <1>6, TaskReal DEF AgentInv
  <1>7. CASE Stop \/ UNCHANGED vars
    <2>1. UNCHANGED <<memory, disk, outbox, made, task, dirty, flushed, history>>
      BY <1>7 DEF Stop, vars, work, memory, disk
    <2>2. MemoryOK' /\ TasksReal'
      BY <2>1, SameObjects, MemoryGrows, TasksStay DEF AgentInv
    <2>3. CountsOK'
      BY <1>7, <2>1 DEF Stop, vars, process, history, AgentInv, CountsOK
    <2> QED
      BY <1>1, <2>2, <2>3 DEF AgentInv
  <1>8. CASE Exit \/ Kill
    BY <1>1, <1>8, EndReal DEF AgentInv
  <1>9. CASE Start
    BY <1>1, <1>9, StartReal DEF AgentInv
  <1>10. CASE Send \/ Requeue
    BY <1>1, <1>10, OutboxReal DEF AgentInv
  <1> QED
    BY <1>2, <1>3, <1>4, <1>5, <1>6, <1>7, <1>8, <1>9, <1>10 DEF Next, InnerNext

LEMMA AgentInvHolds == Spec => []AgentInv
  BY InitAgentInv, NextAgentInv, PTL DEF Spec

\* The state of the dispatcher, of its memory and of its queue has its type.
THEOREM DispatchTyped == Spec => []TypeOK
  <1>1. AgentInv => TypeOK
    BY AgentInvMeans
  <1> QED
    BY <1>1, AgentInvHolds, PTL

\* A success that is remembered, saved, replayed after a restart or reported is one of a
\* command whose object exists: for caches and ConfigMaps of any size, however often a
\* command is delivered, a save fails or the process is killed.
THEOREM SuccessIsAlwaysReal == Spec => []SuccessIsReal
  <1>1. AgentInv => SuccessIsReal
    BY AgentInvMeans
  <1> QED
    BY <1>1, AgentInvHolds, PTL

-----------------------------------------------------------------------------
(***************************************************************************)
(* What an environment that hands the dispatcher commands may rely on: it  *)
(* looks for, executes and makes objects for what it was handed only, an   *)
(* object stays, and what it sends of a success is true.                   *)
(***************************************************************************)
InHand(id) == looking = id \/ running[id] # NoTask \/ made[id] > 0

\* The steps other than the handling of a command.
OwnStep == InnerNext \/ Send \/ Requeue \/ (\E id \in Ids : HandleCancel(id)) \/ UNCHANGED vars

LEMMA HandleTakes ==
  ASSUME NEW d \in Ids, HandleCommand(d), NEW id \in Ids, InHand(id)'
  PROVE  InHand(id) \/ id = d
  BY DEF HandleCommand, InHand, work

LEMMA OwnStepTakesNothing ==
  ASSUME WInv, OwnStep, NEW id \in Ids, InHand(id)'
  PROVE  InHand(id)
  <1>1. NoId \notin Ids
    BY AgentDispatchAssumption
  <1>2. ASSUME NEW t \in Tasks, TaskStep(t)
        PROVE  InHand(id)
    <2>1. CASE Leave(t)
      BY <2>1 DEF Leave, InHand, WInv, WorkOK
    <2>2. CASE ~Leave(t)
      <3>1. MovesOn(t)
        BY <1>2, <2>2, TaskMovesOn
      <3>2. task[t].id \in Ids /\ running[task[t].id] = t /\ t # NoTask
        BY <3>1, AgentDispatchAssumption DEF MovesOn, WInv, WorkOK, InFlight, Goroutine
      <3>3. UNCHANGED <<looking, running>> /\ (id # task[t].id => made'[id] = made[id])
        BY <3>1 DEF MovesOn, WInv, WorkOK
      <3> QED
        BY <3>2, <3>3 DEF InHand
    <2> QED
      BY <2>1, <2>2
  <1>3. ASSUME NEW d \in Ids, StillRunning(d) \/ Refuse(d) \/ Accept(d)
        PROVE  InHand(id)
    <2>1. looking = d /\ looking' = NoId /\ made' = made
      BY <1>3 DEF StillRunning, Refuse, Accept
    <2>2. id # d => running'[id] = running[id]
      BY <1>3 DEF StillRunning, Refuse, Accept, WInv, WorkOK
    <2> QED
      BY <1>1, <2>1, <2>2 DEF InHand
  <1>4. CASE Exit \/ Kill
    BY <1>1, <1>4 DEF Exit, Kill, Ended, InHand
  <1>5. CASE UNCHANGED <<looking, running, made>>
    BY <1>5 DEF InHand
  <1>6. ASSUME NEW d \in Ids, HandleCancel(d)
        PROVE  UNCHANGED <<looking, running, made>>
    BY <1>6 DEF HandleCancel
  <1>7. CASE \/ SaverStep \/ SaveFails \/ Stop \/ StopCommands \/ Start \/ Send \/ Requeue
             \/ UNCHANGED vars
    BY <1>5, <1>7 DEF SaverStep, SaveEncode, SaveWrite, SaveFails, Stop, StopCommands, Start, Send,
                      Requeue, vars, work
  <1> QED
    BY <1>2, <1>3, <1>4, <1>5, <1>6, <1>7 DEF OwnStep, InnerNext, LoopStep

LEMMA ObjectsStay ==
  ASSUME WInv, [Next]_vars, NEW id \in Ids, made[id] > 0
  PROVE  made'[id] > 0
  <1>1. CASE UNCHANGED made
    BY <1>1
  <1>2. ASSUME NEW t \in Tasks, TaskStep(t)
        PROVE  made'[id] > 0
    <2>1. CASE Leave(t)
      BY <1>1, <2>1 DEF Leave
    <2>2. CASE ~Leave(t)
      <3>1. made' = made \/ made' = [made EXCEPT ![task[t].id] = @ + 1]
        BY <1>2, <2>2, TaskMovesOn DEF MovesOn
      <3> QED
        BY <3>1 DEF WInv, WorkOK
    <2> QED
      BY <2>1, <2>2
  <1>3. UNCHANGED made \/ \E t \in Tasks : TaskStep(t)
    BY DEF Next, InnerNext, LoopStep, HandleCommand, HandleCancel, StillRunning, Refuse, Accept,
             SaverStep, SaveEncode, SaveWrite, SaveFails, Stop, StopCommands, Exit, Kill, Ended,
             Start, Send, Requeue, vars
  <1> QED
    BY <1>1, <1>2, <1>3

LEMMA SendsReal ==
  ASSUME AgentInv, Send
  PROVE  Head(outbox) \in RealMessage
  BY HeadTailProperties DEF Send, AgentInv, MemoryOK
=============================================================================
