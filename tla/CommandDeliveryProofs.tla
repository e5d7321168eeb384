------------------------ MODULE CommandDeliveryProofs ------------------------
(***************************************************************************)
(* The control plane and an agent joined by a stream: what is proved of    *)
(* the one and of the other holds of the two together, and with it what    *)
(* neither can promise alone: the agent has in hand only what the control  *)
(* plane may send, and the control plane calls a command SUCCEEDED only    *)
(* when its object is in the cluster, for any number of commands, people,  *)
(* replicas, handlers and goroutines, and however often streams break,     *)
(* messages are lost and processes die.                                    *)
(***************************************************************************)
EXTENDS CommandDelivery, CommandServiceProofs, SequenceTheorems

\* The dispatcher again, with what is proved of it.
AgentP == INSTANCE AgentDispatchProofs WITH Ids <- Commands, NoId <- NoCommand

LEMMA Assumptions ==
  /\ AgentP!AgentDispatchAssumption
  /\ Cluster \in Clusters /\ NoTask \notin Tasks
  BY CommandServiceAssumption, CommandDeliveryAssumption DEF AgentP!AgentDispatchAssumption

-----------------------------------------------------------------------------
(***************************************************************************)
(* The two instances of the dispatcher are the same.                       *)
(***************************************************************************)
LEMMA SameInit ==
  ASSUME Agent!Init
  PROVE  AgentP!Init
  BY DEF Agent!Init, AgentP!Init, Agent!Free, AgentP!Free, Agent!Resting, AgentP!Resting

LEMMA SameHandleCommand ==
  ASSUME NEW c, Agent!HandleCommand(c)
  PROVE  AgentP!HandleCommand(c)
  BY DEF Agent!HandleCommand, AgentP!HandleCommand, Agent!Queue, AgentP!Queue, Agent!Result,
         AgentP!Result, Agent!Touch, AgentP!Touch, Agent!Remembered, AgentP!Remembered,
         Agent!Place, AgentP!Place, Agent!Without, AgentP!Without, Agent!RemoveAt,
         AgentP!RemoveAt, Agent!process, AgentP!process, Agent!memory, AgentP!memory,
         Agent!disk, AgentP!disk, Agent!work, AgentP!work, Agent!history, AgentP!history

LEMMA SameHandleCancel ==
  ASSUME NEW c, Agent!HandleCancel(c)
  PROVE  AgentP!HandleCancel(c)
  BY DEF Agent!HandleCancel, AgentP!HandleCancel, Agent!process, AgentP!process, Agent!memory,
         AgentP!memory, Agent!disk, AgentP!disk, Agent!work, AgentP!work, Agent!history,
         AgentP!history

LEMMA SameLoop ==
  ASSUME Agent!LoopStep
  PROVE  AgentP!LoopStep
  BY DEF Agent!LoopStep, AgentP!LoopStep, Agent!StillRunning, AgentP!StillRunning, Agent!Refuse,
         AgentP!Refuse, Agent!Accept, AgentP!Accept, Agent!Put, AgentP!Put, Agent!Queue,
         AgentP!Queue, Agent!Ack, AgentP!Ack, Agent!Result, AgentP!Result, Agent!Free,
         AgentP!Free, Agent!Remembered, AgentP!Remembered, Agent!Place, AgentP!Place,
         Agent!Without, AgentP!Without, Agent!RemoveAt, AgentP!RemoveAt, Agent!Newest,
         AgentP!Newest, Agent!process, AgentP!process, Agent!memory, AgentP!memory, Agent!disk,
         AgentP!disk, Agent!work, AgentP!work, Agent!history, AgentP!history

LEMMA SameTask ==
  ASSUME NEW t, Agent!TaskStep(t)
  PROVE  AgentP!TaskStep(t)
<1>1. Agent!TakeSlot(t) => AgentP!TakeSlot(t)
  BY DEF Agent!Cardinality, AgentP!Cardinality, Agent!TakeSlot, AgentP!TakeSlot, Agent!Holding,
           AgentP!Holding, Agent!Move, AgentP!Move, Agent!Queue, AgentP!Queue, Agent!Ack,
           AgentP!Ack, Agent!process, AgentP!process, Agent!memory, AgentP!memory, Agent!disk,
           AgentP!disk, Agent!history, AgentP!history
<1>2. Agent!GiveUp(t) => AgentP!GiveUp(t)
  BY DEF Agent!GiveUp, AgentP!GiveUp, Agent!Ends, AgentP!Ends, Agent!process, AgentP!process,
         Agent!memory, AgentP!memory, Agent!disk, AgentP!disk, Agent!history, AgentP!history
<1>3. Agent!Search(t) => AgentP!Search(t)
  BY DEF Agent!Search, AgentP!Search, Agent!Ends, AgentP!Ends, Agent!Move, AgentP!Move,
         Agent!process, AgentP!process, Agent!memory, AgentP!memory, Agent!disk, AgentP!disk,
         Agent!history, AgentP!history
<1>4. Agent!Create(t) => AgentP!Create(t)
  BY DEF Agent!Create, AgentP!Create, Agent!Ends, AgentP!Ends, Agent!process, AgentP!process,
         Agent!memory, AgentP!memory, Agent!disk, AgentP!disk, Agent!history, AgentP!history
<1>5. Agent!HandlerFails(t) => AgentP!HandlerFails(t)
  BY DEF Agent!HandlerFails, AgentP!HandlerFails, Agent!Executing, AgentP!Executing, Agent!Ends,
         AgentP!Ends, Agent!process, AgentP!process, Agent!memory, AgentP!memory, Agent!disk,
         AgentP!disk, Agent!history, AgentP!history
<1>6. Agent!Record(t) => AgentP!Record(t)
  BY DEF Agent!Record, AgentP!Record, Agent!Put, AgentP!Put, Agent!Move, AgentP!Move,
         Agent!Remembered, AgentP!Remembered, Agent!Place, AgentP!Place, Agent!Without,
         AgentP!Without, Agent!RemoveAt, AgentP!RemoveAt, Agent!Newest, AgentP!Newest,
         Agent!process, AgentP!process, Agent!memory, AgentP!memory, Agent!disk, AgentP!disk,
         Agent!history, AgentP!history
<1>7. Agent!Report(t) => AgentP!Report(t)
  BY DEF Agent!Report, AgentP!Report, Agent!Queue, AgentP!Queue, Agent!Result, AgentP!Result,
         Agent!Move, AgentP!Move, Agent!process, AgentP!process, Agent!memory, AgentP!memory,
         Agent!disk, AgentP!disk, Agent!history, AgentP!history
<1>8. Agent!Leave(t) => AgentP!Leave(t)
  BY DEF Agent!Leave, AgentP!Leave, Agent!Free, AgentP!Free, Agent!process, AgentP!process,
         Agent!memory, AgentP!memory, Agent!disk, AgentP!disk, Agent!history, AgentP!history
<1> QED
  BY <1>1, <1>2, <1>3, <1>4, <1>5, <1>6, <1>7, <1>8 DEF Agent!TaskStep, AgentP!TaskStep

LEMMA SameSaver ==
  ASSUME Agent!SaverStep \/ Agent!SaveFails
  PROVE  AgentP!SaverStep \/ AgentP!SaveFails
  BY DEF Agent!SaverStep, AgentP!SaverStep, Agent!SaveEncode, AgentP!SaveEncode,
         Agent!SaveWrite, AgentP!SaveWrite, Agent!SaveFails, AgentP!SaveFails, Agent!MayEncode,
         AgentP!MayEncode, Agent!Ending, AgentP!Ending, Agent!Newest, AgentP!Newest,
         Agent!Resting, AgentP!Resting, Agent!process, AgentP!process, Agent!memory,
         AgentP!memory, Agent!disk, AgentP!disk, Agent!work, AgentP!work, Agent!history,
         AgentP!history

LEMMA SameEnd ==
  ASSUME Agent!Stop \/ Agent!StopCommands \/ Agent!Exit \/ Agent!Kill \/ Agent!Start
  PROVE  AgentP!Stop \/ AgentP!StopCommands \/ AgentP!Exit \/ AgentP!Kill \/ AgentP!Start
  BY DEF Agent!Stop, AgentP!Stop, Agent!StopCommands, AgentP!StopCommands, Agent!Exit,
         AgentP!Exit, Agent!Kill, AgentP!Kill, Agent!Start, AgentP!Start, Agent!Ended,
         AgentP!Ended, Agent!Free, AgentP!Free, Agent!Resting, AgentP!Resting, Agent!Newest,
         AgentP!Newest, Agent!process, AgentP!process, Agent!memory, AgentP!memory, Agent!disk,
         AgentP!disk, Agent!work, AgentP!work, Agent!history, AgentP!history

LEMMA SameSend ==
  ASSUME Agent!Send
  PROVE  AgentP!Send
  BY DEF Agent!Send, AgentP!Send, Agent!process, AgentP!process, Agent!work, AgentP!work,
           Agent!memory, AgentP!memory, Agent!disk, AgentP!disk, Agent!history, AgentP!history

LEMMA SameRequeue ==
  ASSUME Agent!Requeue
  PROVE  AgentP!Requeue
  BY DEF Agent!Requeue, AgentP!Requeue, Agent!process, AgentP!process, Agent!work, AgentP!work,
           Agent!memory, AgentP!memory, Agent!disk, AgentP!disk, Agent!history, AgentP!history

-----------------------------------------------------------------------------
(***************************************************************************)
(* A step of the two together is one of the control plane, or leaves it    *)
(* alone, and one of the agent, or leaves it alone.                        *)
(***************************************************************************)
LEMMA ServerSide ==
  ASSUME AgentP!AgentInv, [DeliveryNext]_DeliveryVars
  PROVE  [Next]_vars
<1>0. Cluster \in Clusters
  BY CommandDeliveryAssumption
<1>1. CASE AgentHandles
  BY <1>0, <1>1 DEF AgentHandles, Next, AgentNext
<1>2. CASE AgentSends
  <2> DEFINE m == Head(outbox)
  <2>1. m \in AgentP!RealMessage
    BY <1>2, Assumptions, AgentP!SendsReal, SameSend DEF AgentSends
  <2>2. /\ m.cmd \in Commands
        /\ m.what = "result" => m.ok \in BOOLEAN
        /\ m.what # "result" => m.what \in {"ACKED", "RUNNING"}
    BY <2>1 DEF AgentP!RealMessage, AgentP!AgentMessage
  <2>3. AgentReports(Cluster, m.cmd)
    BY <1>2, <2>2 DEF AgentSends, AgentReports
  <2> QED
    BY <1>0, <2>2, <2>3 DEF Next, AgentNext
<1>3. CASE AgentSendFails \/ StreamBreaks \/ AgentEnds
  BY <1>0, <1>3 DEF AgentSendFails, StreamBreaks, AgentEnds, Next, AgentNext
<1>4. CASE AgentConnects
  BY <1>0, <1>4 DEF AgentConnects, Next, AgentNext
<1>5. CASE AgentRequeues \/ AgentWorks \/ UNCHANGED DeliveryVars
  BY <1>5 DEF AgentRequeues, AgentWorks, DeliveryVars
<1>6. CASE ServerWorks
  BY <1>6 DEF ServerWorks, Next
<1> QED
  BY <1>1, <1>2, <1>3, <1>4, <1>5, <1>6 DEF DeliveryNext

\* What the agent takes from the stream.
LEMMA HeadIsMessage ==
  ASSUME TypeOK, toAgent[Cluster] # <<>>
  PROVE  Head(toAgent[Cluster]) \in Message
  BY CommandDeliveryAssumption DEF TypeOK

LEMMA AgentSide ==
  ASSUME TypeOK, [DeliveryNext]_DeliveryVars
  PROVE  [Agent!Next]_Agent!vars
<1>1. CASE AgentHandles
  <2>1. Head(toAgent[Cluster]).cmd \in Commands
    BY <1>1, HeadIsMessage DEF AgentHandles, Message
  <2> QED
    BY <1>1, <2>1 DEF AgentHandles, Agent!Next
<1>2. CASE AgentSends \/ AgentSendFails \/ AgentRequeues
  BY <1>2 DEF AgentSends, AgentSendFails, AgentRequeues, Agent!Next
<1>3. CASE AgentEnds \/ AgentWorks
  BY <1>3 DEF AgentEnds, AgentWorks, Agent!Next, Agent!InnerNext
<1>4. CASE UNCHANGED agent
  BY <1>4 DEF agent, Agent!vars, Agent!process, Agent!work, Agent!memory, Agent!disk, Agent!history
<1>5. CASE StreamBreaks \/ AgentConnects \/ ServerWorks \/ UNCHANGED DeliveryVars
  BY <1>4, <1>5 DEF StreamBreaks, AgentConnects, ServerWorks, DeliveryVars
<1> QED
  BY <1>1, <1>2, <1>3, <1>5 DEF DeliveryNext

\* The same of the instance the dispatcher's lemmas are about; a command it handles is the
\* next on the stream.
Handed(c) ==
  /\ toAgent[Cluster] # <<>>
  /\ Head(toAgent[Cluster]) = [what |-> "command", cmd |-> c]

LEMMA AgentSteps ==
  ASSUME TypeOK, [DeliveryNext]_DeliveryVars
  PROVE  AgentP!OwnStep \/ \E c \in Commands : Handed(c) /\ AgentP!HandleCommand(c)
<1>1. CASE AgentHandles
  <2>1. PICK m \in Message : m = Head(toAgent[Cluster])
    BY <1>1, HeadIsMessage DEF AgentHandles
  <2>2. m.cmd \in Commands /\ m = [what |-> m.what, cmd |-> m.cmd]
    BY DEF Message
  <2>3. CASE m.what = "command" /\ Agent!HandleCommand(m.cmd)
    <3>1. Handed(m.cmd)
      BY <1>1, <2>1, <2>2, <2>3 DEF AgentHandles, Handed
    <3> QED
      BY <2>2, <2>3, <3>1, SameHandleCommand
  <2>4. CASE Agent!HandleCancel(m.cmd)
    BY <2>2, <2>4, SameHandleCancel DEF AgentP!OwnStep
  <2> QED
    BY <1>1, <2>1, <2>3, <2>4 DEF AgentHandles
<1>2. CASE AgentSends \/ AgentSendFails
  BY <1>2, SameSend DEF AgentSends, AgentSendFails, AgentP!OwnStep
<1>3. CASE AgentRequeues
  BY <1>3, SameRequeue DEF AgentRequeues, AgentP!OwnStep
<1>4. CASE AgentEnds \/ AgentWorks
  BY <1>4, SameLoop, SameTask, SameSaver, SameEnd DEF AgentEnds, AgentWorks, AgentP!OwnStep,
           AgentP!InnerNext
<1>5. CASE UNCHANGED agent
  BY <1>5 DEF agent, AgentP!OwnStep, AgentP!vars, AgentP!process, AgentP!work, AgentP!memory,
           AgentP!disk, AgentP!history
<1>6. CASE StreamBreaks \/ AgentConnects \/ ServerWorks \/ UNCHANGED DeliveryVars
  BY <1>5, <1>6 DEF StreamBreaks, AgentConnects, ServerWorks, DeliveryVars
<1> QED
  BY <1>1, <1>2, <1>3, <1>4, <1>6 DEF DeliveryNext

LEMMA AgentNextStep ==
  ASSUME TypeOK, [DeliveryNext]_DeliveryVars
  PROVE  [AgentP!Next]_AgentP!vars
  BY AgentSteps DEF AgentP!OwnStep, AgentP!Next

-----------------------------------------------------------------------------
(***************************************************************************)
(* The inductive invariant: those of the two parts, and what ties them.    *)
(* The commands on the stream are ones that were written to it, what the   *)
(* agent has in hand came from there, and a command that is SUCCEEDED has  *)
(* its object, because only a result says so and results are true.         *)
(***************************************************************************)
Carried == {m \in Message : m.what = "command" => m.cmd \in written}

OnWire == toAgent[Cluster] \in Seq(Carried)
FromWire == \A c \in Commands : AgentP!InHand(c) => c \in written
DoneInv == \A c \in Commands : status[c] = "SUCCEEDED" => made[c] > 0

DeliveryInv == IInv /\ ClearedInv /\ AgentP!AgentInv /\ OnWire /\ FromWire /\ DoneInv

LEMMA InitDelivery == DeliveryInit => DeliveryInv
<1> SUFFICES ASSUME DeliveryInit PROVE DeliveryInv
  OBVIOUS
<1>1. Init /\ AgentP!Init
  BY SameInit DEF DeliveryInit
<1>2. IInv /\ ClearedInv
  BY <1>1, InitType, InitCleared DEF IInv
<1>3. AgentP!AgentInv
  BY <1>1, Assumptions, AgentP!InitAgentInv
<1>4. OnWire
  <2>1. toAgent[Cluster] = <<>>
    BY <1>1, CommandDeliveryAssumption DEF Init
  <2> QED
    BY <2>1 DEF OnWire
<1>5. FromWire
  BY <1>1, CommandServiceAssumption DEF FromWire, AgentP!InHand, AgentP!Init
<1>6. DoneInv
  BY <1>1 DEF DoneInv, Init, Absent
<1> QED
  BY <1>2, <1>3, <1>4, <1>5, <1>6 DEF DeliveryInv

(***************************************************************************)
(* The stream.                                                             *)
(***************************************************************************)
LEMMA WrittenStays ==
  ASSUME [Next]_vars
  PROVE  written \subseteq written'
<1> USE DEF table, stream, jobs
<1>1. ASSUME NEW w \in Workers, JobStep(w)
      PROVE  written \subseteq written'
  BY <1>1 DEF JobStep, EnqueueCountWaiting, EnqueueCreate, EnqueueHold, Transmit, MarkSent, Fail, Approve,
           Reject, Withdraw, Cancel, TellCancel, Write
<1>2. ASSUME NEW w \in Workers, People(w)
      PROVE  written \subseteq written'
  BY <1>2 DEF People, EnqueueCount, ApproveRead, RejectRead, CancelRead, Hold
<1>3. ASSUME NEW r \in Replicas, SweepStep(r)
      PROVE  written \subseteq written'
  BY <1>3 DEF SweepStep, SweepBegin, SweepUnanswered, SweepOverdue, SweepTell, Write
<1> QED
  BY <1>1, <1>2, <1>3 DEF Next, ServerNext, AgentNext, Redeliver, EnqueueRefresh, EnqueueCount,
           DeadlinePasses, JobFails, SweepFails, ReplicaDies, AgentReads, Disconnect, Connect,
           AgentReports, vars

\* What a step does to a stream: nothing, or it is read, lost, or written to.
WireStep(cl) ==
  \/ toAgent'[cl] = toAgent[cl]
  \/ toAgent'[cl] = <<>>
  \/ toAgent[cl] # <<>> /\ toAgent'[cl] = Tail(toAgent[cl])
  \/ \E m \in Carried' : toAgent'[cl] = Append(toAgent[cl], m)

LEMMA WireType ==
  ASSUME NEW S, NEW s \in Seq(S), NEW t,
         \/ t = s \/ t = <<>>
         \/ s # <<>> /\ t = Tail(s)
         \/ \E m \in S : t = Append(s, m)
  PROVE  t \in Seq(S)
<1>1. CASE t = s \/ t = <<>>
  BY <1>1, EmptySeq
<1>2. CASE s # <<>> /\ t = Tail(s)
  BY <1>2, HeadTailProperties
<1>3. ASSUME NEW m \in S, t = Append(s, m)
      PROVE  t \in Seq(S)
  BY <1>3, AppendProperties
<1> QED
  BY <1>1, <1>2, <1>3

LEMMA WriteOnWire ==
  ASSUME TypeOK, NEW cl \in Clusters, NEW d \in Clusters, NEW what \in {"command", "cancel"},
         NEW c \in Commands, Write(d, what, c)
  PROVE  WireStep(cl)
<1> DEFINE m == [what |-> what, cmd |-> c]
<1>1. m \in Carried'
  BY DEF Carried, Message, Write
<1>2. toAgent' = toAgent \/ toAgent' = [toAgent EXCEPT ![d] = Append(toAgent[d], m)]
  BY DEF Write
<1> HIDE DEF m
<1>3. toAgent'[cl] = toAgent[cl] \/ toAgent'[cl] = Append(toAgent[cl], m)
  BY <1>2 DEF TypeOK
<1> QED
  BY <1>1, <1>3 DEF WireStep

LEMMA NextOnWire ==
  ASSUME IInv, [Next]_vars, NEW cl \in Clusters
  PROVE  WireStep(cl)
<1> USE DEF table, stream, jobs
<1>0. TypeOK /\ JobsOK
  BY DEF IInv
<1>1. CASE UNCHANGED toAgent
  BY <1>1 DEF WireStep
<1>2. ASSUME NEW w \in Workers, JobStep(w)
      PROVE  WireStep(cl)
  <2> DEFINE c == arg[w].cmd
  <2>1. CASE Transmit(w) \/ TellCancel(w)
    <3>1. c \in Commands /\ req[c].cluster \in Clusters
      BY <1>0, <2>1 DEF Transmit, TellCancel, JobsOK, JobOK, RowsOK, Recorded
    <3>2. UNCHANGED toAgent \/ \E what \in {"command", "cancel"} : Write(req[c].cluster, what, c)
      BY <2>1 DEF Transmit, TellCancel
    <3> QED
      BY <1>0, <1>1, <3>1, <3>2, WriteOnWire
  <2>2. CASE ~(Transmit(w) \/ TellCancel(w))
    BY <1>1, <1>2, <2>2 DEF JobStep, EnqueueCountWaiting, EnqueueCreate, EnqueueHold, MarkSent, Fail,
             Approve, Reject, Withdraw, Cancel
  <2> QED
    BY <2>1, <2>2
<1>3. ASSUME NEW w \in Workers, People(w)
      PROVE  WireStep(cl)
  BY <1>1, <1>3 DEF People, EnqueueCount, ApproveRead, RejectRead, CancelRead, Hold
<1>4. ASSUME NEW r \in Replicas, NEW c \in Commands, SweepTell(r, c)
      PROVE  WireStep(cl)
  <2>1. req[c].cluster \in Clusters
    BY <1>0, <1>4 DEF SweepTell, JobsOK, RowsOK, Recorded
  <2> QED
    BY <1>0, <1>1, <1>4, <2>1, WriteOnWire DEF SweepTell
<1>5. ASSUME NEW r \in Replicas, SweepStep(r)
      PROVE  WireStep(cl)
  BY <1>1, <1>4, <1>5 DEF SweepStep, SweepBegin, SweepUnanswered, SweepOverdue
<1>6. ASSUME NEW d \in Clusters,
             AgentReads(d) \/ Disconnect(d) \/ (\E r \in Replicas : Connect(d, r))
      PROVE  WireStep(cl)
  <2>1. CASE AgentReads(d)
    BY <1>0, <2>1 DEF AgentReads, WireStep, TypeOK
  <2>2. CASE Disconnect(d) \/ (\E r \in Replicas : Connect(d, r))
    <3>1. toAgent' = [toAgent EXCEPT ![d] = <<>>]
      BY <2>2 DEF Disconnect, Connect
    <3> QED
      BY <1>0, <3>1 DEF WireStep, TypeOK
  <2> QED
    BY <1>6, <2>1, <2>2
<1>7. ASSUME NEW r \in Replicas, ReplicaDies(r)
      PROVE  WireStep(cl)
  BY <1>7 DEF ReplicaDies, WireStep
<1> QED
  BY <1>1, <1>2, <1>3, <1>5, <1>6, <1>7 DEF Next, ServerNext, AgentNext, Redeliver,
           EnqueueRefresh, EnqueueCount, DeadlinePasses, JobFails, SweepFails, AgentReports,
           OnAck, OnResult, vars

(***************************************************************************)
(* Only a result makes a command SUCCEEDED.                                *)
(***************************************************************************)
LEMMA ServerNeverSucceeds ==
  ASSUME IInv, ServerNext, NEW c \in Commands, status'[c] = "SUCCEEDED"
  PROVE  status[c] = "SUCCEEDED"
<1> USE DEF table, stream, jobs
<1>0. TypeOK
  BY DEF IInv
<1>1. ASSUME NEW d, NEW from, NEW to, Update(d, from, to), to # "SUCCEEDED"
      PROVE  status[c] = "SUCCEEDED"
  BY <1>0, <1>1 DEF Update, TypeOK
<1>2. ASSUME NEW d, NEW to, status' = [status EXCEPT ![d] = to], to # "SUCCEEDED"
      PROVE  status[c] = "SUCCEEDED"
  BY <1>0, <1>2 DEF TypeOK
<1>3. CASE UNCHANGED status
  BY <1>3
<1>4. ASSUME NEW w \in Workers, JobStep(w)
      PROVE  status[c] = "SUCCEEDED"
  <2>1. CASE MarkSent(w) \/ Fail(w) \/ Withdraw(w)
    BY <1>1, <2>1 DEF MarkSent, Fail, Withdraw
  <2>2. CASE EnqueueCreate(w) \/ Approve(w) \/ Reject(w) \/ Cancel(w)
    BY <1>2, <1>3, <2>2 DEF EnqueueCreate, Approve, Reject, Cancel
  <2>3. CASE EnqueueCountWaiting(w) \/ EnqueueHold(w) \/ Transmit(w) \/ TellCancel(w)
    BY <1>3, <2>3 DEF EnqueueCountWaiting, EnqueueHold, Transmit, TellCancel
  <2> QED
    BY <1>4, <2>1, <2>2, <2>3 DEF JobStep
<1>5. ASSUME NEW r \in Replicas, SweepStep(r)
      PROVE  status[c] = "SUCCEEDED"
  BY <1>1, <1>3, <1>5 DEF SweepStep, SweepBegin, SweepUnanswered, SweepOverdue, SweepTell
<1>6. ASSUME NEW w \in Workers, People(w)
      PROVE  status[c] = "SUCCEEDED"
  BY <1>3, <1>6 DEF People, EnqueueCount, ApproveRead, RejectRead, CancelRead, Hold
<1> QED
  BY <1>3, <1>4, <1>5, <1>6 DEF ServerNext, Redeliver, EnqueueRefresh, EnqueueCount,
           DeadlinePasses, JobFails, SweepFails, ReplicaDies

LEMMA SucceedsOnlyWhenDone ==
  ASSUME DeliveryInv, [DeliveryNext]_DeliveryVars, NEW c \in Commands, status'[c] = "SUCCEEDED"
  PROVE  status[c] = "SUCCEEDED" \/ made[c] > 0
<1> USE DEF table, stream, jobs
<1>0. TypeOK /\ IInv
  BY DEF DeliveryInv, IInv
<1>1. CASE UNCHANGED status
  BY <1>1
<1>2. CASE AgentSends
  <2> DEFINE m == Head(outbox)
  <2>1. m \in AgentP!RealMessage
    BY <1>2, Assumptions, AgentP!SendsReal, SameSend DEF AgentSends, DeliveryInv
  <2>2. CASE m.what = "result"
    <3>1. OnResult(Cluster, m.cmd, m.ok)
      BY <1>2, <2>2 DEF AgentSends
    <3>2. m.ok => made[m.cmd] > 0
      BY <2>1, <2>2 DEF AgentP!RealMessage
    <3>3. \/ UNCHANGED status
          \/ m.ok /\ Update(m.cmd, StatusesAccepting("succeeded"), "SUCCEEDED")
          \/ Update(m.cmd, StatusesAccepting("failed"), "FAILED")
      BY <3>1 DEF OnResult
    <3> HIDE DEF m
    <3> QED
      BY <1>0, <3>2, <3>3 DEF Update, TypeOK
  <2>3. CASE m.what # "result"
    <3>1. m.what \in {"ACKED", "RUNNING"}
      BY <2>1, <2>3 DEF AgentP!RealMessage, AgentP!AgentMessage
    <3>2. \E from : Update(m.cmd, from, m.what)
      BY <1>2, <2>3 DEF AgentSends, OnAck
    <3> HIDE DEF m
    <3> QED
      BY <1>0, <3>1, <3>2 DEF Update, TypeOK
  <2> QED
    BY <2>2, <2>3
<1>3. CASE ServerWorks
  BY <1>0, <1>3, ServerNeverSucceeds DEF ServerWorks
<1> QED
  BY <1>1, <1>2, <1>3 DEF DeliveryNext, AgentHandles, AgentReads, AgentSendFails, AgentRequeues,
           StreamBreaks, AgentConnects, AgentEnds, AgentWorks, Disconnect, Connect,
           DeliveryVars, vars

LEMMA NextDelivery == DeliveryInv /\ [DeliveryNext]_DeliveryVars => DeliveryInv'
<1> SUFFICES ASSUME DeliveryInv, [DeliveryNext]_DeliveryVars
             PROVE  DeliveryInv'
  OBVIOUS
<1>1. TypeOK /\ IInv /\ ClearedInv /\ AgentP!AgentInv /\ AgentP!WInv
  BY DEF DeliveryInv, IInv, AgentP!AgentInv
<1>2. [Next]_vars /\ [AgentP!Next]_AgentP!vars
  BY <1>1, ServerSide, AgentNextStep
<1>3. IInv' /\ ClearedInv'
  BY <1>1, <1>2, NextInv, NextCleared
<1>4. AgentP!AgentInv'
  BY <1>1, <1>2, Assumptions, AgentP!NextAgentInv
<1>5. written \subseteq written' /\ Carried \subseteq Carried'
  BY <1>2, WrittenStays DEF Carried
<1>6. OnWire'
  <2>1. WireStep(Cluster)
    BY <1>1, <1>2, Assumptions, NextOnWire
  <2>2. toAgent[Cluster] \in Seq(Carried')
    BY <1>5, SeqMonotonic DEF DeliveryInv, OnWire
  <2>3. toAgent'[Cluster] \in Seq(Carried')
    BY <2>1, <2>2, WireType DEF WireStep
  <2> QED
    BY <2>3 DEF OnWire
<1>7. FromWire'
  <2> SUFFICES ASSUME NEW c \in Commands, AgentP!InHand(c)'
               PROVE  c \in written'
    BY DEF FromWire
  <2>1. CASE AgentP!InHand(c)
    BY <1>5, <2>1 DEF DeliveryInv, FromWire
  <2>2. CASE AgentP!OwnStep
    BY <1>1, <2>1, <2>2, Assumptions, AgentP!OwnStepTakesNothing
  <2>3. ASSUME NEW d \in Commands, Handed(d), AgentP!HandleCommand(d)
        PROVE  c \in written'
    <3>1. AgentP!InHand(c) \/ c = d
      BY <2>3, Assumptions, AgentP!HandleTakes
    <3>2. Head(toAgent[Cluster]) \in Carried
      BY <2>3, HeadTailProperties DEF Handed, DeliveryInv, OnWire
    <3>3. d \in written
      BY <2>3, <3>2 DEF Handed, Carried
    <3> QED
      BY <1>5, <2>1, <3>1, <3>3
  <2> QED
    BY <1>1, <2>2, <2>3, AgentSteps
<1>8. DoneInv'
  <2> SUFFICES ASSUME NEW c \in Commands, status'[c] = "SUCCEEDED"
               PROVE  made'[c] > 0
    BY DEF DoneInv
  <2>1. made[c] > 0
    BY SucceedsOnlyWhenDone DEF DeliveryInv, DoneInv
  <2> QED
    BY <1>1, <1>2, <2>1, Assumptions, AgentP!ObjectsStay
<1> QED
  BY <1>3, <1>4, <1>6, <1>7, <1>8 DEF DeliveryInv

LEMMA DeliveryInvariant == DeliverySpec => []DeliveryInv
  BY InitDelivery, NextDelivery, PTL DEF DeliverySpec

-----------------------------------------------------------------------------
(***************************************************************************)
(* The theorems.                                                           *)
(***************************************************************************)
\* The control plane, joined to a real agent, does nothing the pipeline alone may not do:
\* what an agent says over its stream is always one of the reports commands.service.ts
\* handles, and everything proved of the pipeline holds of the two together.
THEOREM ImplementsPipeline == DeliverySpec => Spec
<1>1. DeliveryInit => Init
  BY DEF DeliveryInit
<1>2. DeliveryInv /\ [DeliveryNext]_DeliveryVars => [Next]_vars
  BY ServerSide DEF DeliveryInv
<1> QED
  BY <1>1, <1>2, DeliveryInvariant, PTL DEF DeliverySpec, Spec

\* The agent, joined to the control plane, does nothing dispatcher.go alone may not do: the
\* stream hands it commands of the table, in steps the dispatcher has.
THEOREM ImplementsDispatch == DeliverySpec => Agent!Spec
<1>1. DeliveryInit => Agent!Init
  BY DEF DeliveryInit
<1>2. DeliveryInv /\ [DeliveryNext]_DeliveryVars => [Agent!Next]_Agent!vars
  BY AgentSide DEF DeliveryInv, IInv
<1> QED
  BY <1>1, <1>2, DeliveryInvariant, PTL DEF DeliverySpec, Agent!Spec

\* A command the control plane calls SUCCEEDED has its object in the cluster, and exactly
\* one: across re-deliveries, replays, lost results, restarts and forgotten outcomes.
THEOREM SucceededIsAlwaysDone == DeliverySpec => []SucceededIsDone
<1>1. DeliveryInv => SucceededIsDone
  <2> SUFFICES ASSUME DeliveryInv, NEW c \in Commands, status[c] = "SUCCEEDED"
               PROVE  made[c] = 1
    BY DEF SucceededIsDone
  <2>1. made[c] > 0
    BY DEF DeliveryInv, DoneInv
  <2>2. made[c] \in Nat /\ made[c] <= 1
    BY DEF DeliveryInv, AgentP!AgentInv, AgentP!WInv, AgentP!WorkOK, AgentP!SearchedInv,
             AgentP!OneObject
  <2> QED
    BY <2>1, <2>2
<1> QED
  BY <1>1, DeliveryInvariant, PTL

\* The agent has in hand, and has changed its cluster for, only what the control plane wrote
\* to its stream; none of that was rejected, and a restore that needs an approval has one of
\* somebody other than who asked.
THEOREM OnlyWhatWasSent == DeliverySpec => []OnlySent
<1>1. DeliveryInv => OnlySent
  <2> SUFFICES ASSUME DeliveryInv, NEW c \in Commands,
                      looking = c \/ running[c] # NoTask \/ made[c] > 0
               PROVE  c \in written /\ status[c] # "REJECTED" /\ Approved(c)
    BY DEF OnlySent
  <2>1. c \in written
    BY DEF DeliveryInv, FromWire, AgentP!InHand
  <2>2. Cleared(c) /\ Approved(c)
    BY <2>1 DEF DeliveryInv, ClearedInv, IInv, FourEyesInv, FourEyes, Released
  <2> QED
    BY <2>1, <2>2 DEF Cleared
<1> QED
  BY <1>1, DeliveryInvariant, PTL
=============================================================================
