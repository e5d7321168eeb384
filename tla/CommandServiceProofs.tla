------------------------ MODULE CommandServiceProofs ------------------------
(***************************************************************************)
(* The command pipeline is type-correct and keeps the four-eyes rule, for  *)
(* any number of commands, people, clusters, replicas and handlers, and    *)
(* whatever the agents report.                                             *)
(***************************************************************************)
EXTENDS CommandService, TLAPS

(***************************************************************************)
(* Every event is accepted from unfinished statuses only.                  *)
(***************************************************************************)
LEMMA AcceptingIsNonTerminal ==
  ASSUME NEW event \in Event
  PROVE  StatusesAccepting(event) \subseteq NonTerminal
  BY DEF StatusesAccepting

(***************************************************************************)
(* A command leaves a set of commands that somebody keeps.                 *)
(***************************************************************************)
LEMMA DropType ==
  ASSUME NEW S, NEW T, NEW f \in [S -> SUBSET T], NEW x \in S, NEW c
  PROVE  [f EXCEPT ![x] = @ \ {c}] \in [S -> SUBSET T]
  OBVIOUS

(***************************************************************************)
(* What a job becomes when its command is dealt with.                      *)
(***************************************************************************)
LEMMA ContinueType ==
  ASSUME TypeOK, NEW w \in Workers, Continue(w)
  PROVE  /\ at' \in [Workers -> Place]
         /\ arg' \in [Workers -> Job]
         /\ todo' \in [Workers -> SUBSET Commands]
<1>1. CASE todo[w] = {}
  <2>1. NoJob \in Job
    BY DEF Job, NoJob, NoRequest, Request, Kind
  <2> QED
    BY <1>1, <2>1 DEF TypeOK, Continue, Place
<1>2. CASE todo[w] # {}
  <2>1. PICK c \in todo[w] : /\ at' = [at EXCEPT ![w] = "transmit"]
                             /\ arg' = [arg EXCEPT ![w].cmd = c]
                             /\ todo' = [todo EXCEPT ![w] = @ \ {c}]
    BY <1>2 DEF Continue
  <2>2. c \in Commands /\ arg[w] \in Job
    BY DEF TypeOK
  <2>3. [arg[w] EXCEPT !.cmd = c] \in Job
    BY <2>2 DEF Job
  <2> QED
    BY <2>1, <2>2, <2>3 DEF TypeOK, Place
<1> QED
  BY <1>1, <1>2

LEMMA GotoType ==
  ASSUME TypeOK, NEW w \in Workers, NEW place \in Place, Goto(w, place)
  PROVE  /\ at' \in [Workers -> Place]
         /\ arg' \in [Workers -> Job]
         /\ todo' \in [Workers -> SUBSET Commands]
  BY DEF TypeOK, Goto

LEMMA HoldType ==
  ASSUME TypeOK, NEW w \in Workers, NEW place \in Place, NEW c \in Commands, NEW u \in Users,
         Hold(w, place, c, u)
  PROVE  TypeOK'
  BY DEF TypeOK, Hold, Place, Job, NoJob, NoRequest, Request, Kind, table, stream, jobs

LEMMA UpdateType ==
  ASSUME TypeOK, NEW c \in Commands, NEW from, NEW to \in Status, Update(c, from, to)
  PROVE  status' \in [Commands -> Status \cup {Absent}]
  BY DEF TypeOK, Update

LEMMA WriteType ==
  ASSUME TypeOK, NEW cl \in Clusters, NEW what \in {"command", "cancel"}, NEW c \in Commands,
         Write(cl, what, c)
  PROVE  /\ link' \in [Clusters -> Replicas \cup {NoReplica}]
         /\ owed' \subseteq Clusters \X Replicas
         /\ toAgent' \in [Clusters -> Seq(Message)]
         /\ written' \subseteq Commands
<1> DEFINE m == [what |-> what, cmd |-> c]
<1>1. m \in Message
  BY DEF Message
<1>2. Append(toAgent[cl], m) \in Seq(Message)
  BY <1>1 DEF TypeOK
<1> QED
  BY <1>2 DEF TypeOK, Write

(***************************************************************************)
(* Type correctness.  That recorded commands belong to a registered        *)
(* cluster is part of what jobs hold (JobsOK), so the two go together.     *)
(***************************************************************************)
LEMMA InitType == Init => TypeOK /\ JobsOK /\ FourEyesInv
<1> SUFFICES ASSUME Init PROVE TypeOK /\ JobsOK /\ FourEyesInv
  OBVIOUS
<1>1. TypeOK
  BY CommandServiceAssumption
     DEF Init, TypeOK, Place, Job, NoJob, NoRequest, Request, Kind, Sweep, NoSweep, Status, Absent
<1>2. JobsOK
  BY DEF Init, JobsOK, JobOK, RowsOK, NoSweep, Recorded
<1>3. FourEyesInv
  BY DEF Init, FourEyesInv, HandApproved, FourEyes, Released, Approved, NonTerminal, Absent
<1> QED
  BY <1>1, <1>2, <1>3

LEMMA PeopleType ==
  ASSUME TypeOK, JobsOK, NEW w \in Workers, People(w)
  PROVE  TypeOK'
<1>1. ASSUME NEW cl \in Clusters, NEW u \in Users \cup {NoUser}, NEW kind \in Kind,
             EnqueueCount(w, cl, u, kind)
      PROVE  TypeOK'
  <2> DEFINE ask == [cluster |-> cl, requester |-> u, kind |-> kind]
  <2>1. [NoJob EXCEPT !.ask = ask] \in Job
    BY DEF NoJob, Job, Request, NoRequest, Kind
  <2> QED
    BY <1>1, <2>1 DEF EnqueueCount, TypeOK, Place, table, stream
<1>2. ASSUME NEW c \in Commands, NEW u \in Users,
             ApproveRead(w, c, u) \/ RejectRead(w, c, u) \/ CancelRead(w, c, u)
      PROVE  TypeOK'
  BY <1>2, HoldType DEF ApproveRead, RejectRead, CancelRead, Place
<1> QED
  BY <1>1, <1>2, CommandServiceAssumption DEF People, Kind

LEMMA JobType ==
  ASSUME TypeOK, JobsOK, NEW w \in Workers, JobStep(w)
  PROVE  TypeOK'
<1> DEFINE c == arg[w].cmd
<1> USE DEF table, stream
<1>1. CASE EnqueueCountWaiting(w)
  BY <1>1, ContinueType, GotoType DEF EnqueueCountWaiting, TypeOK, Place
<1>2. CASE EnqueueCreate(w)
  <2>1. PICK d \in Commands, place \in {"hold", "transmit"} :
          /\ req' = [req EXCEPT ![d] = arg[w].ask]
          /\ \/ /\ status' = [status EXCEPT ![d] = "PENDING_APPROVAL"]
                /\ Continue(w)
             \/ /\ status' = [status EXCEPT ![d] = "QUEUED"]
                /\ at' = [at EXCEPT ![w] = place]
                /\ arg' = [arg EXCEPT ![w].cmd = d]
                /\ UNCHANGED todo
    BY <1>2 DEF EnqueueCreate
  <2>2. arg[w] \in Job
    BY DEF TypeOK
  <2>3. req' \in [Commands -> Request] /\ [arg[w] EXCEPT !.cmd = d] \in Job
    BY <2>1, <2>2 DEF TypeOK, Job
  <2>4. /\ at' \in [Workers -> Place]
        /\ arg' \in [Workers -> Job]
        /\ todo' \in [Workers -> SUBSET Commands]
    <3>1. CASE Continue(w)
      BY <3>1, ContinueType
    <3>2. CASE /\ at' = [at EXCEPT ![w] = place]
               /\ arg' = [arg EXCEPT ![w].cmd = d]
               /\ UNCHANGED todo
      BY <3>2, <2>3 DEF TypeOK, Place
    <3> QED
      BY <2>1, <3>1, <3>2
  <2>5. status' \in [Commands -> Status \cup {Absent}]
    BY <2>1 DEF TypeOK, Status, NonTerminal
  <2> QED
    BY <1>2, <2>3, <2>4, <2>5 DEF EnqueueCreate, TypeOK
<1>3. CASE Transmit(w)
  <2>1. c \in Commands /\ req[c].cluster \in Clusters
    BY <1>3 DEF Transmit, JobsOK, JobOK, RowsOK, Recorded
  <2>2. CASE UNCHANGED stream
    BY <1>3, <2>2, ContinueType, GotoType DEF Transmit, TypeOK, Place
  <2>3. CASE Write(req[c].cluster, "command", c) /\ Goto(w, "mark")
    BY <1>3, <2>1, <2>3, WriteType, GotoType DEF Transmit, TypeOK, Place
  <2> QED
    BY <1>3, <2>2, <2>3 DEF Transmit
<1>4. CASE MarkSent(w)
  <2>1. c \in Commands
    BY <1>4 DEF MarkSent, JobsOK, JobOK, RowsOK, Recorded
  <2> QED
    BY <1>4, <2>1, UpdateType, ContinueType DEF MarkSent, TypeOK, Status, NonTerminal
<1>5. CASE Fail(w)
  <2>1. c \in Commands
    BY <1>5 DEF Fail, JobsOK, JobOK, RowsOK, Recorded
  <2> QED
    BY <1>5, <2>1, UpdateType, ContinueType DEF Fail, TypeOK, Status, Terminal
<1>6. CASE Approve(w)
  <2>1. c \in Commands /\ arg[w].user \in Users
    BY <1>6 DEF Approve, JobsOK, JobOK, RowsOK, Recorded
  <2> QED
    BY <1>6, <2>1, ContinueType, GotoType DEF Approve, TypeOK, Status, NonTerminal, Place
<1>7. CASE Reject(w)
  <2>1. c \in Commands
    BY <1>7 DEF Reject, JobsOK, JobOK, RowsOK, Recorded
  <2> QED
    BY <1>7, <2>1, ContinueType DEF Reject, TypeOK, Status, Terminal
<1>8. CASE Withdraw(w)
  <2>1. c \in Commands
    BY <1>8 DEF Withdraw, JobsOK, JobOK, RowsOK, Recorded
  <2> QED
    BY <1>8, <2>1, UpdateType, ContinueType DEF Withdraw, TypeOK, Status, Terminal
<1>9. CASE Cancel(w)
  <2>1. c \in Commands
    BY <1>9 DEF Cancel, JobsOK, JobOK, RowsOK, Recorded
  <2>2. Home[w] \in Replicas
    BY CommandServiceAssumption
  <2>3. status' \in [Commands -> Status \cup {Absent}] /\ held' \in [Replicas -> SUBSET Commands]
    <3>1. \/ /\ status' = [status EXCEPT ![c] = "CANCELLED"]
             /\ held' = [held EXCEPT ![Home[w]] = @ \ {c}]
          \/ UNCHANGED <<status, held>>
      BY <1>9 DEF Cancel
    <3>2. "CANCELLED" \in Status
      BY DEF Status, Terminal
    <3>3. held \in [Replicas -> SUBSET Commands]
      BY DEF TypeOK
    <3>4. status' \in [Commands -> Status \cup {Absent}]
      BY <2>1, <3>1, <3>2 DEF TypeOK
    <3>5. held' \in [Replicas -> SUBSET Commands]
      BY <2>2, <3>1, <3>3, DropType
    <3> QED
      BY <3>4, <3>5
  <2>4. Goto(w, "tell_cancel") \/ Continue(w)
    BY <1>9 DEF Cancel
  <2> QED
    BY <1>9, <2>3, <2>4, ContinueType, GotoType DEF Cancel, TypeOK, Place
<1>10. CASE TellCancel(w)
  <2>1. c \in Commands /\ req[c].cluster \in Clusters
    BY <1>10 DEF TellCancel, JobsOK, JobOK, RowsOK, Recorded
  <2> QED
    BY <1>10, <2>1, WriteType, ContinueType DEF TellCancel, TypeOK
<1>11. CASE EnqueueHold(w)
  <2>1. c \in Commands /\ Home[w] \in Replicas
    BY <1>11, CommandServiceAssumption DEF EnqueueHold, JobsOK, JobOK, RowsOK, Recorded
  <2>2. held' \in [Replicas -> SUBSET Commands]
    BY <1>11, <2>1 DEF EnqueueHold, TypeOK
  <2> QED
    BY <1>11, <2>2, GotoType DEF EnqueueHold, TypeOK, Place
<1> QED
  BY <1>1, <1>2, <1>3, <1>4, <1>5, <1>6, <1>7, <1>8, <1>9, <1>10, <1>11 DEF JobStep

LEMMA SweepType ==
  ASSUME TypeOK, JobsOK, NEW r \in Replicas, SweepStep(r)
  PROVE  TypeOK'
<1> USE DEF table, stream, jobs
<1>1. CASE SweepBegin(r)
  <2>1. /\ Overdue({"PENDING_APPROVAL"}) \subseteq Commands
        /\ Overdue(NonTerminal) \subseteq Commands
        /\ Overdue(NonTerminal \ {"QUEUED"}) \subseteq Commands
    BY DEF Overdue, TypeOK
  <2>2. sweep' \in [Replicas -> Sweep]
    <3> DEFINE begun == [unanswered |-> Overdue({"PENDING_APPROVAL"}),
                         overdue |-> Overdue(NonTerminal),
                         beyond |-> Overdue(NonTerminal \ {"QUEUED"}),
                         tell |-> {}]
    <3>1. begun \in Sweep
      BY <2>1 DEF Sweep
    <3>2. sweep' = [sweep EXCEPT ![r] = begun]
      BY <1>1 DEF SweepBegin
    <3> HIDE DEF begun
    <3> QED
      BY <3>1, <3>2 DEF TypeOK
  <2> QED
    BY <1>1, <2>2 DEF SweepBegin, TypeOK
<1>2. ASSUME NEW c \in Commands, SweepUnanswered(r, c)
      PROVE  TypeOK'
  <2>1. sweep' \in [Replicas -> Sweep]
    BY <1>2 DEF SweepUnanswered, TypeOK, Sweep
  <2> QED
    BY <1>2, <2>1, UpdateType DEF SweepUnanswered, TypeOK, Status, Terminal
<1>3. ASSUME NEW c \in Commands, SweepOverdue(r, c)
      PROVE  TypeOK'
  <2>1. sweep' \in [Replicas -> Sweep]
    <3>1. sweep[r] \in Sweep
      BY DEF TypeOK
    <3>2. Settled(sweep[r], c) \in Sweep
      BY <3>1 DEF Settled, Sweep
    <3> QED
      BY <1>3, <3>2 DEF SweepOverdue, TypeOK
  <2> QED
    BY <1>3, <2>1, UpdateType DEF SweepOverdue, TypeOK, Status, Terminal
<1>4. ASSUME NEW c \in Commands, SweepTell(r, c)
      PROVE  TypeOK'
  <2>1. req[c].cluster \in Clusters
    BY <1>4 DEF SweepTell, JobsOK, JobOK, RowsOK, Recorded
  <2>2. sweep' \in [Replicas -> Sweep]
    BY <1>4 DEF SweepTell, TypeOK, Sweep
  <2> QED
    BY <1>4, <2>1, <2>2, WriteType DEF SweepTell, TypeOK
<1> QED
  BY <1>1, <1>2, <1>3, <1>4 DEF SweepStep

LEMMA RestType ==
  ASSUME TypeOK, JobsOK, [Next]_vars
  PROVE  \/ TypeOK'
         \/ \E w \in Workers : People(w) \/ JobStep(w)
         \/ \E r \in Replicas : SweepStep(r)
<1> USE DEF table, stream, jobs
<1>1. ASSUME NEW w \in Workers, NEW cl \in Clusters, Redeliver(w, cl)
      PROVE  TypeOK'
  <2>1. ToRedeliver(cl) \subseteq Commands
    BY DEF ToRedeliver, Of
  <2>2. CASE UNCHANGED jobs
    BY <1>1, <2>2 DEF Redeliver, TypeOK
  <2>3. CASE ~UNCHANGED jobs
    <3>1. PICK c \in ToRedeliver(cl) :
            /\ at' = [at EXCEPT ![w] = "transmit"]
            /\ arg' = [arg EXCEPT ![w] = [NoJob EXCEPT !.cmd = c]]
            /\ todo' = [todo EXCEPT ![w] = ToRedeliver(cl) \ {c}]
      BY <1>1, <2>3 DEF Redeliver
    <3>2. [NoJob EXCEPT !.cmd = c] \in Job
      BY <2>1 DEF NoJob, Job, Request, NoRequest, Kind
    <3> QED
      BY <1>1, <2>1, <3>1, <3>2 DEF Redeliver, TypeOK, Place
  <2> QED
    BY <2>2, <2>3
<1>2. ASSUME NEW w \in Workers, NEW cl \in Clusters, EnqueueRefresh(w, cl)
      PROVE  TypeOK'
  <2>1. [NoJob EXCEPT !.ask = [cluster |-> cl, requester |-> NoUser, kind |-> "plain"]] \in Job
    BY DEF NoJob, Job, Request, NoRequest, Kind
  <2> QED
    BY <1>2, <2>1 DEF EnqueueRefresh, EnqueueCount, TypeOK, Place
<1>3. ASSUME NEW c \in Commands, DeadlinePasses(c)
      PROVE  TypeOK'
  BY <1>3 DEF DeadlinePasses, TypeOK
<1>4. NoJob \in Job /\ NoSweep \in Sweep
  BY DEF NoJob, Job, Request, NoRequest, Kind, NoSweep, Sweep
<1>5. ASSUME NEW w \in Workers, JobFails(w)
      PROVE  TypeOK'
  BY <1>4, <1>5, CommandServiceAssumption DEF JobFails, TypeOK, Place
<1>6. ASSUME NEW r \in Replicas, SweepFails(r)
      PROVE  TypeOK'
  BY <1>4, <1>6, CommandServiceAssumption DEF SweepFails, TypeOK
<1>7. ASSUME NEW r \in Replicas, ReplicaDies(r)
      PROVE  TypeOK'
  <2>1. /\ at' \in [Workers -> Place]
        /\ arg' \in [Workers -> Job]
        /\ todo' \in [Workers -> SUBSET Commands]
    BY <1>4, <1>7 DEF ReplicaDies, TypeOK, Place
  <2>2. /\ held' \in [Replicas -> SUBSET Commands]
        /\ sweep' \in [Replicas -> Sweep]
        /\ link' \in [Clusters -> Replicas \cup {NoReplica}]
        /\ owed' \subseteq Clusters \X Replicas
        /\ faults' \in 0..MaxFaults
    BY <1>4, <1>7, CommandServiceAssumption DEF ReplicaDies, TypeOK
  <2>3. toAgent' \in [Clusters -> Seq(Message)]
    BY <1>7 DEF ReplicaDies, TypeOK
  <2> QED
    BY <1>7, <2>1, <2>2, <2>3 DEF ReplicaDies, TypeOK
<1>8. ASSUME NEW cl \in Clusters, NEW c \in Commands, AgentReports(cl, c)
      PROVE  TypeOK'
  <2>1. CASE \E state \in {"ACKED", "RUNNING"} : OnAck(cl, c, state)
    BY <1>8, <2>1, UpdateType DEF AgentReports, OnAck, TypeOK, Status, NonTerminal
  <2>2. CASE \E ok \in BOOLEAN : OnResult(cl, c, ok)
    <3>1. link[cl] \in Replicas
      BY <1>8 DEF AgentReports, TypeOK
    <3>2. status' \in [Commands -> Status \cup {Absent}]
      BY <2>2, UpdateType DEF OnResult, TypeOK, Status, Terminal
    <3>3. held' \in [Replicas -> SUBSET Commands]
      <4>1. held' = [held EXCEPT ![link[cl]] = @ \ {c}] \/ held' = held
        BY <2>2 DEF OnResult
      <4>2. held \in [Replicas -> SUBSET Commands]
        BY DEF TypeOK
      <4> QED
        BY <3>1, <4>1, <4>2, DropType
    <3> QED
      BY <1>8, <2>2, <3>2, <3>3 DEF AgentReports, OnResult, TypeOK
  <2> QED
    BY <1>8, <2>1, <2>2 DEF AgentReports
<1>9. ASSUME NEW cl \in Clusters, AgentReads(cl)
      PROVE  TypeOK'
  <2>1. Tail(toAgent[cl]) \in Seq(Message)
    BY <1>9 DEF AgentReads, TypeOK
  <2> QED
    BY <1>9, <2>1 DEF AgentReads, TypeOK
<1>10. ASSUME NEW cl \in Clusters, NEW r \in Replicas, Connect(cl, r)
       PROVE  TypeOK'
  BY <1>10 DEF Connect, TypeOK
<1>11. ASSUME NEW cl \in Clusters, Disconnect(cl)
       PROVE  TypeOK'
  BY <1>11 DEF Disconnect, TypeOK
<1>12. CASE UNCHANGED vars
  BY <1>12 DEF vars, TypeOK
<1> QED
  BY <1>1, <1>2, <1>3, <1>5, <1>6, <1>7, <1>8, <1>9, <1>10, <1>11, <1>12
     DEF Next, ServerNext, AgentNext

LEMMA NextType == TypeOK /\ JobsOK /\ [Next]_vars => TypeOK'
  BY RestType, PeopleType, JobType, SweepType

(***************************************************************************)
(* What a step does to the rows: nothing, or it records one, or moves one  *)
(* recorded row as the lifecycle allows.  Only Approve sets an approver,   *)
(* and only it makes a waiting request a command.                          *)
(***************************************************************************)
Kept == UNCHANGED <<status, req, approver>>

Moves(c, event) ==
  /\ Recorded(c) /\ Transition(status[c], event) # Ignored
  /\ status' = [status EXCEPT ![c] = Transition(status[c], event)]
  /\ UNCHANGED <<req, approver>>

RowStep ==
  \/ Kept
  \/ \E c \in Commands, event \in Event \ {"approved"} : Moves(c, event)
  \/ \E w \in Workers : EnqueueCreate(w) \/ Approve(w)

\* The two ways a row is moved: an UPDATE from unfinished statuses, or of a request.
LEMMA UpdateMoves ==
  ASSUME TypeOK, NEW c \in Commands, NEW from, NEW event \in Event \ {"approved"},
         \A s \in from : s \in Status /\ Transition(s, event) # Ignored,
         Update(c, from, Transition(status[c], event)), UNCHANGED <<req, approver>>
  PROVE  RowStep
<1>1. CASE status[c] \in from
  <2>1. Recorded(c)
    BY <1>1 DEF Recorded, Status, NonTerminal, Terminal, Absent
  <2> QED
    BY <1>1, <2>1 DEF Update, RowStep, Moves
<1>2. CASE status[c] \notin from
  BY <1>2 DEF Update, RowStep, Kept
<1> QED
  BY <1>1, <1>2

LEMMA JobRows ==
  ASSUME TypeOK, JobsOK, NEW w \in Workers, JobStep(w)
  PROVE  RowStep
<1> DEFINE c == arg[w].cmd
<1> USE DEF table, stream
<1>1. CASE EnqueueCreate(w) \/ Approve(w)
  BY <1>1 DEF RowStep
<1>2. CASE EnqueueCountWaiting(w) \/ EnqueueHold(w) \/ Transmit(w) \/ TellCancel(w)
  BY <1>2 DEF EnqueueCountWaiting, EnqueueHold, Transmit, TellCancel, RowStep, Kept
<1>3. CASE MarkSent(w)
  <2>1. c \in Commands
    BY <1>3 DEF MarkSent, JobsOK, JobOK, Recorded
  <2>2. CASE status[c] \in {"QUEUED"}
    <3>1. Transition(status[c], "sent") = "SENT"
      BY <2>2 DEF Transition, Moved, Terminal
    <3>2. Transition("QUEUED", "sent") # Ignored
      BY DEF Transition, Moved, Terminal, Ignored
    <3> QED
      BY <1>3, <2>1, <3>1, <3>2, UpdateMoves DEF MarkSent, Event, Status, NonTerminal
  <2>3. CASE status[c] \notin {"QUEUED"}
    BY <1>3, <2>3 DEF MarkSent, Update, RowStep, Kept
  <2> QED
    BY <2>2, <2>3
<1>4. CASE Fail(w)
  <2>1. c \in Commands
    BY <1>4 DEF Fail, JobsOK, JobOK, Recorded
  <2>2. \A s \in NonTerminal : s \in Status /\ Transition(s, "failed") = "FAILED"
    BY DEF Transition, Moved, Terminal, NonTerminal, Status
  <2>3. CASE status[c] \in NonTerminal
    BY <1>4, <2>1, <2>2, <2>3, UpdateMoves DEF Fail, Event, Ignored
  <2>4. CASE status[c] \notin NonTerminal
    BY <1>4, <2>4 DEF Fail, Update, RowStep, Kept
  <2> QED
    BY <2>3, <2>4
<1>5. CASE Reject(w)
  <2>1. c \in Commands /\ Recorded(c)
    BY <1>5 DEF Reject, JobsOK, JobOK, Recorded
  <2>2. CASE Undecided(c)
    <3>1. Transition(status[c], "rejected") = "REJECTED"
      BY <2>2 DEF Undecided, Transition, Decided, Terminal
    <3> QED
      BY <1>5, <2>1, <3>1 DEF Reject, RowStep, Moves, Kept, Event, Ignored
  <2>3. CASE ~Undecided(c)
    BY <1>5, <2>3 DEF Reject, MayDecide, RowStep, Kept
  <2> QED
    BY <2>2, <2>3
<1>6. CASE Withdraw(w)
  <2>1. c \in Commands
    BY <1>6 DEF Withdraw, JobsOK, JobOK, Recorded
  <2>2. Transition("PENDING_APPROVAL", "cancelled") = "CANCELLED"
    BY DEF Transition, Decided, Terminal
  <2>3. CASE status[c] \in {"PENDING_APPROVAL"}
    BY <1>6, <2>1, <2>2, <2>3, UpdateMoves DEF Withdraw, Event, Ignored, Status
  <2>4. CASE status[c] \notin {"PENDING_APPROVAL"}
    BY <1>6, <2>4 DEF Withdraw, Update, RowStep, Kept
  <2> QED
    BY <2>3, <2>4
<1>7. CASE Cancel(w)
  <2>1. c \in Commands
    BY <1>7 DEF Cancel, JobsOK, JobOK, Recorded
  <2>2. CASE status[c] \in StatusesAccepting("cancelled")
    <3>1. Transition(status[c], "cancelled") = "CANCELLED"
      BY <2>2 DEF StatusesAccepting, NonTerminal, Transition, Moved, Terminal, Ignored
    <3>2. Recorded(c)
      BY <2>1, <2>2 DEF Recorded, StatusesAccepting, NonTerminal, Absent
    <3> QED
      BY <1>7, <2>1, <2>2, <3>1, <3>2 DEF Cancel, RowStep, Moves, Event, Ignored
  <2>3. CASE status[c] \notin StatusesAccepting("cancelled")
    BY <1>7, <2>3 DEF Cancel, RowStep, Kept
  <2> QED
    BY <2>2, <2>3
<1> QED
  BY <1>1, <1>2, <1>3, <1>4, <1>5, <1>6, <1>7 DEF JobStep

LEMMA SweepRows ==
  ASSUME TypeOK, JobsOK, NEW r \in Replicas, SweepStep(r)
  PROVE  RowStep
<1> USE DEF table
<1>1. CASE SweepBegin(r)
  BY <1>1 DEF SweepBegin, RowStep, Kept
<1>2. ASSUME NEW c \in Commands, SweepUnanswered(r, c)
      PROVE  RowStep
  <2>1. Transition("PENDING_APPROVAL", "timed_out") = "TIMED_OUT"
    BY DEF Transition, Decided, Terminal
  <2>2. CASE status[c] \in {"PENDING_APPROVAL"}
    BY <1>2, <2>1, <2>2, UpdateMoves DEF SweepUnanswered, Event, Ignored, Status
  <2>3. CASE status[c] \notin {"PENDING_APPROVAL"}
    BY <1>2, <2>3 DEF SweepUnanswered, Update, RowStep, Kept
  <2> QED
    BY <2>2, <2>3
<1>3. ASSUME NEW c \in Commands, SweepOverdue(r, c)
      PROVE  RowStep
  <2>1. \A s \in NonTerminal : s \in Status /\ Transition(s, "timed_out") = "TIMED_OUT"
    BY DEF Transition, Moved, Terminal, NonTerminal, Status
  <2>2. CASE status[c] \in NonTerminal
    BY <1>3, <2>1, <2>2, UpdateMoves DEF SweepOverdue, Event, Ignored
  <2>3. CASE status[c] \notin NonTerminal
    BY <1>3, <2>3 DEF SweepOverdue, Update, RowStep, Kept
  <2> QED
    BY <2>2, <2>3
<1>4. ASSUME NEW c \in Commands, SweepTell(r, c)
      PROVE  RowStep
  BY <1>4 DEF SweepTell, RowStep, Kept
<1> QED
  BY <1>1, <1>2, <1>3, <1>4 DEF SweepStep

LEMMA ReportRows ==
  ASSUME TypeOK, JobsOK, NEW cl \in Clusters, NEW c \in Commands, AgentReports(cl, c)
  PROVE  RowStep
<1>1. ASSUME OnAck(cl, c, "ACKED")
      PROVE  RowStep
  <2>1. \A s \in {"QUEUED", "SENT"} : s \in Status /\ Transition(s, "acked") = "ACKED"
    BY DEF Transition, Moved, Terminal, NonTerminal, Status
  <2>2. CASE status[c] \in {"QUEUED", "SENT"} /\ Owned(cl, c)
    BY <1>1, <2>1, <2>2, UpdateMoves DEF OnAck, Event, Ignored
  <2>3. CASE status[c] \notin {"QUEUED", "SENT"} \/ ~Owned(cl, c)
    BY <1>1, <2>3 DEF OnAck, Update, RowStep, Kept
  <2> QED
    BY <2>2, <2>3
<1>2. ASSUME OnAck(cl, c, "RUNNING")
      PROVE  RowStep
  <2>1. \A s \in StatusesAccepting("running") :
          s \in Status /\ Transition(s, "running") = "RUNNING"
    BY DEF StatusesAccepting, Transition, Moved, Terminal, NonTerminal, Status
  <2>2. CASE status[c] \in StatusesAccepting("running") /\ Owned(cl, c)
    BY <1>2, <2>1, <2>2, UpdateMoves DEF OnAck, Event, Ignored
  <2>3. CASE status[c] \notin StatusesAccepting("running") \/ ~Owned(cl, c)
    BY <1>2, <2>3 DEF OnAck, Update, RowStep, Kept
  <2> QED
    BY <2>2, <2>3
<1>3. ASSUME NEW event \in {"succeeded", "failed"}, NEW to,
             to = IF event = "succeeded" THEN "SUCCEEDED" ELSE "FAILED",
             Update(c, StatusesAccepting(event), to), UNCHANGED <<req, approver>>
      PROVE  RowStep
  <2>1. \A s \in StatusesAccepting(event) : s \in Status /\ Transition(s, event) = to
    BY <1>3 DEF StatusesAccepting, Transition, Moved, Terminal, NonTerminal, Status
  <2>2. CASE status[c] \in StatusesAccepting(event)
    BY <1>3, <2>1, <2>2, UpdateMoves DEF Event, Ignored
  <2>3. CASE status[c] \notin StatusesAccepting(event)
    BY <1>3, <2>3 DEF Update, RowStep, Kept
  <2> QED
    BY <2>2, <2>3
<1>4. ASSUME NEW ok \in BOOLEAN, OnResult(cl, c, ok)
      PROVE  RowStep
  <2>1. CASE Owned(cl, c)
    BY <1>3, <1>4, <2>1 DEF OnResult
  <2>2. CASE ~Owned(cl, c)
    BY <1>4, <2>2 DEF OnResult, RowStep, Kept
  <2> QED
    BY <2>1, <2>2
<1> QED
  BY <1>1, <1>2, <1>4 DEF AgentReports

LEMMA NextRows ==
  ASSUME TypeOK, JobsOK, [Next]_vars
  PROVE  RowStep
<1> USE DEF table, stream, jobs
<1>1. ASSUME NEW w \in Workers, People(w)
      PROVE  RowStep
  BY <1>1 DEF People, EnqueueCount, ApproveRead, RejectRead, CancelRead, Hold, RowStep, Kept
<1>2. ASSUME NEW w \in Workers, NEW cl \in Clusters, Redeliver(w, cl) \/ EnqueueRefresh(w, cl)
      PROVE  RowStep
  BY <1>2 DEF Redeliver, EnqueueRefresh, EnqueueCount, RowStep, Kept
<1>3. ASSUME NEW c \in Commands, DeadlinePasses(c)
      PROVE  RowStep
  BY <1>3 DEF DeadlinePasses, RowStep, Kept
<1>4. ASSUME NEW w \in Workers, JobFails(w)
      PROVE  RowStep
  BY <1>4 DEF JobFails, RowStep, Kept
<1>5. ASSUME NEW r \in Replicas, SweepFails(r) \/ ReplicaDies(r)
      PROVE  RowStep
  BY <1>5 DEF SweepFails, ReplicaDies, RowStep, Kept
<1>6. ASSUME NEW cl \in Clusters, AgentReads(cl) \/ Disconnect(cl)
      PROVE  RowStep
  BY <1>6 DEF AgentReads, Disconnect, RowStep, Kept
<1>7. ASSUME NEW cl \in Clusters, NEW r \in Replicas, Connect(cl, r)
      PROVE  RowStep
  BY <1>7 DEF Connect, RowStep, Kept
<1>8. CASE UNCHANGED vars
  BY <1>8 DEF vars, RowStep, Kept
<1> QED
  BY <1>1, <1>2, <1>3, <1>4, <1>5, <1>6, <1>7, <1>8, JobRows, SweepRows, ReportRows
     DEF Next, ServerNext, AgentNext

(***************************************************************************)
(* Each such step is one of the abstract lifecycle, or changes no status.  *)
(***************************************************************************)
LEMMA SameLifecycle ==
  /\ Lifecycle!Event = Event
  /\ \A s, event : Transition(s, event) # Ignored
                  => /\ Lifecycle!Transition(s, event) = Transition(s, event)
                     /\ Lifecycle!Transition(s, event) # Lifecycle!Ignored
  /\ Lifecycle!Absent = Absent
<1>1. ASSUME NEW s, NEW event
      PROVE  Lifecycle!Transition(s, event) = Transition(s, event)
  BY DEF Lifecycle!Transition, Transition, Lifecycle!Decided, Decided, Lifecycle!Moved, Moved,
         Lifecycle!Terminal, Terminal, Lifecycle!Ignored, Ignored
<1> QED
  BY <1>1 DEF Lifecycle!Event, Event, Lifecycle!Ignored, Ignored, Lifecycle!Absent, Absent

LEMMA RowStepFollows ==
  ASSUME TypeOK, JobsOK, RowStep
  PROVE  [Lifecycle!Next]_status
<1>1. CASE Kept
  BY <1>1 DEF Kept
<1>2. ASSUME NEW c \in Commands, NEW event \in Event \ {"approved"}, Moves(c, event)
      PROVE  [Lifecycle!Next]_status
  <2>1. Lifecycle!Apply(c, event)
    BY <1>2, SameLifecycle DEF Moves, Recorded, Lifecycle!Apply
  <2> QED
    BY <2>1, SameLifecycle DEF Lifecycle!Next
<1>3. ASSUME NEW w \in Workers, EnqueueCreate(w)
      PROVE  [Lifecycle!Next]_status
  <2>1. PICK c \in Commands :
          /\ status[c] = Absent
          /\ \E s \in {"QUEUED", "PENDING_APPROVAL"} : status' = [status EXCEPT ![c] = s]
    BY <1>3 DEF EnqueueCreate
  <2> QED
    BY <2>1 DEF Lifecycle!Next, Lifecycle!Record, Lifecycle!Absent, Absent
<1>4. ASSUME NEW w \in Workers, Approve(w)
      PROVE  [Lifecycle!Next]_status
  <2> DEFINE c == arg[w].cmd
  <2>1. c \in Commands
    BY <1>4 DEF Approve, JobsOK, JobOK, Recorded
  <2>2. CASE Undecided(c) /\ status' = [status EXCEPT ![c] = "QUEUED"]
    <3>1. Transition(status[c], "approved") = "QUEUED" /\ status[c] # Absent
      BY <2>2 DEF Undecided, Transition, Decided, Terminal, Absent
    <3>2. "QUEUED" # Ignored /\ "approved" \in Event
      BY DEF Ignored, Event
    <3> HIDE DEF c
    <3>3. Lifecycle!Apply(c, "approved")
      BY <2>2, <3>1, <3>2, SameLifecycle DEF Lifecycle!Apply
    <3> QED
      BY <2>1, <3>2, <3>3, SameLifecycle DEF Lifecycle!Next
  <2>3. CASE UNCHANGED status
    BY <2>3
  <2> QED
    BY <1>4, <2>2, <2>3 DEF Approve, MayDecide
<1> QED
  BY <1>1, <1>2, <1>3, <1>4 DEF RowStep

(***************************************************************************)
(* A recorded row stays, with what was asked, and so does its approval.    *)
(***************************************************************************)
LEMMA RowsStay ==
  ASSUME TypeOK, JobsOK, RowStep, NEW c, Recorded(c)
  PROVE  Recorded(c)' /\ req'[c] = req[c] /\ (Approved(c) => Approved(c)')
<1>1. CASE Kept
  BY <1>1 DEF Kept, Recorded, Approved
<1>2. ASSUME NEW d \in Commands, NEW event \in Event \ {"approved"}, Moves(d, event)
      PROVE  Recorded(c)' /\ req'[c] = req[c] /\ (Approved(c) => Approved(c)')
  <2>1. Transition(status[d], event) # Absent
    BY <1>2 DEF Moves, Recorded, TypeOK, Status, NonTerminal, Terminal, Transition, Decided,
                Moved, Event, Absent, Ignored
  <2> QED
    BY <1>2, <2>1 DEF Moves, Recorded, Approved, TypeOK
<1>3. ASSUME NEW w \in Workers, EnqueueCreate(w)
      PROVE  Recorded(c)' /\ req'[c] = req[c] /\ (Approved(c) => Approved(c)')
  BY <1>3 DEF EnqueueCreate, Recorded, Approved, TypeOK, Absent
<1>4. ASSUME NEW w \in Workers, Approve(w)
      PROVE  Recorded(c)' /\ req'[c] = req[c] /\ (Approved(c) => Approved(c)')
  <2>1. arg[w].user \in Users
    BY <1>4 DEF Approve, JobsOK, JobOK
  <2> QED
    BY <1>4, <2>1 DEF Approve, MayDecide, Recorded, Approved, TypeOK, Absent
<1> QED
  BY <1>1, <1>2, <1>3, <1>4 DEF RowStep

-----------------------------------------------------------------------------
(***************************************************************************)
(* What jobs have in hand.  The inductive invariant is type correctness,   *)
(* what jobs and rows hold of each other, and the four-eyes rule for the   *)
(* rows and for everything a job is about to send.                         *)
(***************************************************************************)
IInv == TypeOK /\ JobsOK /\ FourEyesInv

HandsOK == \A w \in Workers : JobOK(w) /\ HandApproved(w)

\* A job that does not move keeps what it has.
LEMMA HandStays ==
  ASSUME IInv, RowStep, NEW v \in Workers,
         at'[v] = at[v], arg'[v] = arg[v], todo'[v] = todo[v]
  PROVE  JobOK(v)' /\ HandApproved(v)'
<1>1. JobOK(v)'
  BY RowsStay DEF IInv, JobsOK, JobOK
<1>2. HandApproved(v)'
  BY RowsStay DEF IInv, JobsOK, JobOK, FourEyesInv, HandApproved
<1> QED
  BY <1>1, <1>2

LEMMA HandsStay ==
  ASSUME IInv, RowStep, UNCHANGED jobs
  PROVE  HandsOK'
  BY HandStays DEF jobs, HandsOK

\* One job moves.
LEMMA HandMoves ==
  ASSUME IInv, RowStep, NEW w \in Workers, JobOK(w)' /\ HandApproved(w)',
         \A v \in Workers \ {w} : at'[v] = at[v] /\ arg'[v] = arg[v] /\ todo'[v] = todo[v]
  PROVE  HandsOK'
  BY HandStays DEF HandsOK

LEMMA ContinueHands ==
  ASSUME IInv, RowStep, NEW w \in Workers, Continue(w)
  PROVE  HandsOK'
<1>1. \A c \in todo[w] : Recorded(c)' /\ Approved(c)'
  BY RowsStay DEF IInv, JobsOK, JobOK, FourEyesInv, HandApproved
<1>2. CASE todo[w] = {}
  <2>1. at'[w] = "idle" /\ todo'[w] = {}
    BY <1>2 DEF IInv, TypeOK, Continue
  <2>2. JobOK(w)' /\ HandApproved(w)'
    BY <2>1 DEF JobOK, HandApproved
  <2> QED
    BY <1>2, <2>2, HandMoves DEF IInv, TypeOK, Continue
<1>3. CASE todo[w] # {}
  <2>1. PICK c \in todo[w] : /\ at' = [at EXCEPT ![w] = "transmit"]
                             /\ arg' = [arg EXCEPT ![w].cmd = c]
                             /\ todo' = [todo EXCEPT ![w] = @ \ {c}]
    BY <1>3 DEF Continue
  <2>2. at'[w] = "transmit" /\ arg'[w].cmd = c /\ todo'[w] \subseteq todo[w]
    BY <2>1 DEF IInv, TypeOK, Job
  <2>3. JobOK(w)' /\ HandApproved(w)'
    BY <1>1, <2>2 DEF JobOK, HandApproved
  <2> QED
    BY <2>1, <2>3, HandMoves DEF IInv, TypeOK
<1> QED
  BY <1>2, <1>3

LEMMA GotoHands ==
  ASSUME IInv, RowStep, NEW w \in Workers, NEW place, Goto(w, place),
         \/ place = "create" /\ arg[w].ask.cluster \in Clusters
         \/ place = "tell_cancel" /\ Recorded(arg[w].cmd)'
         \/ place \in {"hold", "transmit", "fail", "mark"} /\ Recorded(arg[w].cmd)' /\ Approved(arg[w].cmd)'
  PROVE  HandsOK'
<1>1. at'[w] = place /\ arg' = arg /\ todo' = todo
  BY DEF Goto, IInv, TypeOK
<1>2. \A c \in todo[w] : Recorded(c)' /\ Approved(c)'
  BY RowsStay DEF IInv, JobsOK, JobOK, FourEyesInv, HandApproved
<1>3. JobOK(w)' /\ HandApproved(w)'
  BY <1>1, <1>2 DEF JobOK, HandApproved
<1> QED
  BY <1>1, <1>3, HandMoves DEF Goto, IInv, TypeOK

LEMMA PeopleHands ==
  ASSUME IInv, RowStep, NEW w \in Workers, People(w)
  PROVE  HandsOK'
<1>1. ASSUME NEW cl \in Clusters, NEW u, NEW kind, EnqueueCount(w, cl, u, kind)
      PROVE  HandsOK'
  <2>1. /\ at'[w] \in {"count_waiting", "create"}
        /\ arg'[w].ask.cluster = cl
        /\ todo' = todo
    BY <1>1 DEF EnqueueCount, IInv, TypeOK, NoJob
  <2>2. \A c \in todo[w] : Recorded(c)' /\ Approved(c)'
    BY RowsStay DEF IInv, JobsOK, JobOK, FourEyesInv, HandApproved
  <2>3. JobOK(w)' /\ HandApproved(w)'
    BY <2>1, <2>2 DEF JobOK, HandApproved
  <2> QED
    BY <1>1, <2>3, HandMoves DEF EnqueueCount, IInv, TypeOK
<1>2. ASSUME NEW c \in Commands, NEW u \in Users, NEW place \in {"approve", "reject", "withdraw", "cancel"},
             Hold(w, place, c, u), status[c] # Absent
      PROVE  HandsOK'
  <2>1. /\ at'[w] = place /\ arg'[w].cmd = c /\ arg'[w].user = u
        /\ todo' = todo
    BY <1>2 DEF Hold, IInv, TypeOK, NoJob
  <2>2. Recorded(c)' /\ \A d \in todo[w] : Recorded(d)' /\ Approved(d)'
    BY <1>2, RowsStay DEF IInv, JobsOK, JobOK, FourEyesInv, HandApproved, Recorded
  <2>3. JobOK(w)' /\ HandApproved(w)'
    BY <2>1, <2>2 DEF JobOK, HandApproved
  <2> QED
    BY <1>2, <2>3, HandMoves DEF Hold, IInv, TypeOK
<1>3. ASSUME NEW c \in Commands, NEW u \in Users,
             ApproveRead(w, c, u) \/ RejectRead(w, c, u) \/ CancelRead(w, c, u)
      PROVE  HandsOK'
  <2>1. Undecided(c) => status[c] # Absent
    BY DEF Undecided, Absent
  <2> QED
    BY <1>2, <1>3, <2>1 DEF ApproveRead, RejectRead, CancelRead, MayDecide
<1> QED
  BY <1>1, <1>3 DEF People

LEMMA JobHands ==
  ASSUME IInv, RowStep, NEW w \in Workers, JobStep(w)
  PROVE  HandsOK'
<1> USE DEF table, stream
<1>1. CASE EnqueueCountWaiting(w)
  <2>1. arg[w].ask.cluster \in Clusters
    BY <1>1 DEF EnqueueCountWaiting, IInv, JobsOK, JobOK
  <2> QED
    BY <1>1, <2>1, ContinueHands, GotoHands DEF EnqueueCountWaiting
<1>2. CASE EnqueueCreate(w)
  <2>1. CASE Continue(w)
    BY <2>1, ContinueHands
  <2>2. CASE ~Continue(w)
    <3>1. PICK c \in Commands, place \in {"hold", "transmit"} :
            /\ req' = [req EXCEPT ![c] = arg[w].ask]
            /\ arg[w].ask.kind # "gated"
            /\ status' = [status EXCEPT ![c] = "QUEUED"]
            /\ at' = [at EXCEPT ![w] = place]
            /\ arg' = [arg EXCEPT ![w].cmd = c]
            /\ UNCHANGED todo
      BY <1>2, <2>2 DEF EnqueueCreate
    <3>2. at'[w] \in {"hold", "transmit"} /\ arg'[w].cmd = c
      BY <3>1 DEF IInv, TypeOK, Job
    <3>3. Recorded(c)' /\ Approved(c)'
      BY <3>1 DEF IInv, TypeOK, Recorded, Approved, Absent
    <3>4. \A d \in todo[w] : Recorded(d)' /\ Approved(d)'
      BY RowsStay DEF IInv, JobsOK, JobOK, FourEyesInv, HandApproved
    <3>5. JobOK(w)' /\ HandApproved(w)'
      BY <3>1, <3>2, <3>3, <3>4 DEF JobOK, HandApproved
    <3> QED
      BY <3>1, <3>5, HandMoves DEF IInv, TypeOK
  <2> QED
    BY <2>1, <2>2
<1>3. ASSUME NEW place \in {"tell_cancel", "transmit", "fail", "mark"}, Goto(w, place),
             Recorded(arg[w].cmd), place # "tell_cancel" => Approved(arg[w].cmd)
      PROVE  HandsOK'
  <2>1. arg' = arg
    BY <1>3 DEF Goto
  <2>2. Recorded(arg[w].cmd)' /\ (place # "tell_cancel" => Approved(arg[w].cmd)')
    BY <1>3, <2>1, RowsStay DEF IInv
  <2> QED
    BY <1>3, <2>2, GotoHands
<1>4. CASE Transmit(w)
  <2>1. Recorded(arg[w].cmd) /\ Approved(arg[w].cmd)
    BY <1>4 DEF Transmit, IInv, JobsOK, JobOK, FourEyesInv, HandApproved
  <2> QED
    BY <1>3, <1>4, <2>1, ContinueHands DEF Transmit
<1>5. CASE MarkSent(w) \/ Fail(w) \/ Reject(w) \/ Withdraw(w) \/ TellCancel(w)
  BY <1>5, ContinueHands DEF MarkSent, Fail, Reject, Withdraw, TellCancel
<1>6. CASE Approve(w)
  <2>1. Recorded(arg[w].cmd) /\ arg[w].user \in Users
    BY <1>6 DEF Approve, IInv, JobsOK, JobOK
  <2>2. CASE Continue(w)
    BY <2>2, ContinueHands
  <2>3. CASE ~Continue(w)
    <3>1. arg' = arg /\ req' = req
      BY <1>6, <2>3 DEF Approve, Goto
    <3>2. Recorded(arg[w].cmd)'
      BY <2>1, <3>1, RowsStay DEF IInv
    <3>3. Approved(arg[w].cmd)'
      <4> DEFINE c == arg[w].cmd
      <4>1. /\ approver' = [approver EXCEPT ![c] = arg[w].user]
            /\ req[c].requester # arg[w].user
            /\ c \in Commands
        BY <1>6, <2>1, <2>3 DEF Approve, MayDecide, Recorded
      <4>2. approver'[c] = arg[w].user
        BY <4>1 DEF IInv, TypeOK
      <4> QED
        BY <2>1, <3>1, <4>1, <4>2 DEF Approved
    <3>4. Goto(w, "transmit")
      BY <1>6, <2>3 DEF Approve
    <3> QED
      BY <3>2, <3>3, <3>4, GotoHands
  <2> QED
    BY <2>2, <2>3
<1>7. CASE Cancel(w)
  <2>1. Recorded(arg[w].cmd)
    BY <1>7 DEF Cancel, IInv, JobsOK, JobOK
  <2>2. Continue(w) \/ Goto(w, "tell_cancel")
    BY <1>7 DEF Cancel
  <2> QED
    BY <1>3, <2>1, <2>2, ContinueHands
<1>11. CASE EnqueueHold(w)
  <2>1. Recorded(arg[w].cmd) /\ Approved(arg[w].cmd)
    BY <1>11 DEF EnqueueHold, IInv, JobsOK, JobOK, FourEyesInv, HandApproved
  <2> QED
    BY <1>3, <1>11, <2>1 DEF EnqueueHold
<1> QED
  BY <1>1, <1>2, <1>4, <1>5, <1>6, <1>7, <1>11 DEF JobStep

LEMMA NextHands ==
  ASSUME IInv, [Next]_vars
  PROVE  HandsOK'
<1> USE DEF table, stream
<1>0. RowStep
  BY NextRows DEF IInv
<1>1. ASSUME NEW w \in Workers, NEW cl \in Clusters, Redeliver(w, cl)
      PROVE  HandsOK'
  <2>1. \A c \in ToRedeliver(cl) : Recorded(c) /\ Approved(c)
    BY DEF ToRedeliver, Of, Recorded, NonTerminal, Absent, IInv, FourEyesInv, FourEyes, Released
  <2>2. \A c \in ToRedeliver(cl) : Recorded(c)' /\ Approved(c)'
    BY <1>0, <2>1, RowsStay DEF IInv
  <2>3. CASE UNCHANGED jobs
    BY <1>0, <2>3, HandsStay
  <2>4. CASE ~UNCHANGED jobs
    <3>1. PICK c \in ToRedeliver(cl) :
            /\ at' = [at EXCEPT ![w] = "transmit"]
            /\ arg' = [arg EXCEPT ![w] = [NoJob EXCEPT !.cmd = c]]
            /\ todo' = [todo EXCEPT ![w] = ToRedeliver(cl) \ {c}]
      BY <1>1, <2>4 DEF Redeliver
    <3>2. at'[w] = "transmit" /\ arg'[w].cmd = c /\ todo'[w] \subseteq ToRedeliver(cl)
      BY <3>1 DEF IInv, TypeOK, NoJob
    <3>3. JobOK(w)' /\ HandApproved(w)'
      BY <2>2, <3>2 DEF JobOK, HandApproved
    <3> QED
      BY <1>0, <3>1, <3>3, HandMoves DEF IInv, TypeOK
  <2> QED
    BY <2>3, <2>4
<1>2. ASSUME NEW w \in Workers, NEW cl \in Clusters, EnqueueRefresh(w, cl)
      PROVE  HandsOK'
  <2>1. /\ at'[w] \in {"count_waiting", "create"}
        /\ arg'[w].ask.cluster = cl
        /\ todo' = todo
    BY <1>2 DEF EnqueueRefresh, EnqueueCount, IInv, TypeOK, NoJob
  <2>2. \A c \in todo[w] : Recorded(c)' /\ Approved(c)'
    BY <1>0, RowsStay DEF IInv, JobsOK, JobOK, FourEyesInv, HandApproved
  <2>3. JobOK(w)' /\ HandApproved(w)'
    BY <2>1, <2>2 DEF JobOK, HandApproved
  <2> QED
    BY <1>0, <1>2, <2>3, HandMoves DEF EnqueueRefresh, EnqueueCount, IInv, TypeOK
<1>3. ASSUME NEW w \in Workers, JobFails(w)
      PROVE  HandsOK'
  <2>1. at'[w] = "idle" /\ todo'[w] = {}
    BY <1>3 DEF JobFails, IInv, TypeOK
  <2>2. JobOK(w)' /\ HandApproved(w)'
    BY <2>1 DEF JobOK, HandApproved
  <2> QED
    BY <1>0, <1>3, <2>2, HandMoves DEF JobFails, IInv, TypeOK
<1>4. ASSUME NEW r \in Replicas, ReplicaDies(r)
      PROVE  HandsOK'
  <2>1. ASSUME NEW v \in Workers, Home[v] = r
        PROVE  JobOK(v)' /\ HandApproved(v)'
    <3>1. at'[v] = "idle" /\ todo'[v] = {}
      BY <1>4, <2>1 DEF ReplicaDies
    <3> QED
      BY <3>1 DEF JobOK, HandApproved
  <2>2. ASSUME NEW v \in Workers, Home[v] # r
        PROVE  JobOK(v)' /\ HandApproved(v)'
    BY <1>0, <1>4, <2>2, HandStays DEF ReplicaDies
  <2> QED
    BY <2>1, <2>2 DEF HandsOK
<1>5. CASE UNCHANGED jobs
  BY <1>0, <1>5, HandsStay
<1>6. CASE \E w \in Workers : People(w) \/ JobStep(w)
  BY <1>0, <1>6, PeopleHands, JobHands
<1>7. \/ UNCHANGED jobs
      \/ \E w \in Workers : People(w) \/ JobStep(w) \/ JobFails(w)
      \/ \E w \in Workers, cl \in Clusters : Redeliver(w, cl) \/ EnqueueRefresh(w, cl)
      \/ \E r \in Replicas : ReplicaDies(r)
  BY DEF Next, ServerNext, AgentNext, SweepStep, SweepBegin, SweepUnanswered, SweepOverdue,
           SweepTell, SweepFails, DeadlinePasses, AgentReads, Disconnect, Connect, AgentReports,
           OnAck, OnResult, vars, jobs
<1> QED
  BY <1>1, <1>2, <1>3, <1>4, <1>5, <1>6, <1>7

-----------------------------------------------------------------------------
(***************************************************************************)
(* What rows, streams, sweeps and secrets name is recorded.                *)
(***************************************************************************)
\* The commands a job is sending, or will.
InJob(w, c) == (at[w] \in {"hold", "transmit", "fail", "mark"} /\ arg[w].cmd = c) \/ c \in todo[w]

\* What is written to a stream was in a job's hands.
LEMMA WrittenFromJob ==
  ASSUME [Next]_vars, NEW c \in written' \ written
  PROVE  \E w \in Workers : InJob(w, c)
<1> USE DEF table, stream, jobs
<1>1. ASSUME NEW w \in Workers, JobStep(w)
      PROVE  at[w] = "transmit" /\ arg[w].cmd = c
  BY <1>1 DEF JobStep, EnqueueCountWaiting, EnqueueCreate, EnqueueHold, Transmit, MarkSent, Fail, Approve,
           Reject, Withdraw, Cancel, TellCancel, Write
<1>2. ASSUME NEW w \in Workers, People(w)
      PROVE  FALSE
  BY <1>2 DEF People, EnqueueCount, ApproveRead, RejectRead, CancelRead, Hold
<1>3. ASSUME NEW r \in Replicas, SweepStep(r)
      PROVE  FALSE
  BY <1>3 DEF SweepStep, SweepBegin, SweepUnanswered, SweepOverdue, SweepTell, Write
<1>4. \E w \in Workers : JobStep(w)
  BY <1>2, <1>3 DEF Next, ServerNext, AgentNext, Redeliver, EnqueueRefresh, EnqueueCount,
           DeadlinePasses, JobFails, SweepFails, ReplicaDies, AgentReads, Disconnect, Connect,
           AgentReports, vars
<1> QED
  BY <1>1, <1>4 DEF InJob

LEMMA WrittenGrows ==
  ASSUME IInv, [Next]_vars, NEW c \in written' \ written
  PROVE  Recorded(c) /\ Approved(c)
  BY WrittenFromJob DEF InJob, IInv, JobsOK, JobOK, FourEyesInv, HandApproved

LEMMA PastGrows ==
  ASSUME IInv, [Next]_vars, NEW c \in past' \ past
  PROVE  Recorded(c)
<1> USE DEF table, stream, jobs
<1>1. ASSUME NEW w \in Workers, JobStep(w)
      PROVE  FALSE
  BY <1>1 DEF JobStep, EnqueueCountWaiting, EnqueueCreate, EnqueueHold, Transmit, MarkSent, Fail, Approve,
           Reject, Withdraw, Cancel, TellCancel
<1>2. ASSUME NEW w \in Workers, People(w)
      PROVE  FALSE
  BY <1>2 DEF People, EnqueueCount, ApproveRead, RejectRead, CancelRead, Hold
<1>3. ASSUME NEW r \in Replicas, SweepStep(r)
      PROVE  FALSE
  BY <1>3 DEF SweepStep, SweepBegin, SweepUnanswered, SweepOverdue, SweepTell
<1>4. ASSUME NEW cl \in Clusters, NEW d \in Commands, AgentReports(cl, d)
      PROVE  FALSE
  BY <1>4 DEF AgentReports, OnAck, OnResult
<1>5. \E d \in Commands : DeadlinePasses(d)
  BY <1>1, <1>2, <1>3, <1>4 DEF Next, ServerNext, AgentNext, Redeliver, EnqueueRefresh,
           EnqueueCount, JobFails, SweepFails, ReplicaDies, AgentReads, Disconnect, Connect,
           vars
<1> QED
  BY <1>5 DEF DeadlinePasses, Recorded, NonTerminal, Absent, IInv, JobsOK, RowsOK

LEMMA HeldGrows ==
  ASSUME IInv, [Next]_vars, NEW r \in Replicas, NEW c \in held'[r] \ held[r]
  PROVE  Recorded(c)'
<1> USE DEF table, stream, jobs
<1>1. ASSUME NEW w \in Workers, JobStep(w), ~EnqueueHold(w)
      PROVE  FALSE
  BY <1>1 DEF JobStep, EnqueueCountWaiting, EnqueueCreate, Transmit, MarkSent, Fail, Approve, Reject,
              Withdraw, Cancel, TellCancel, IInv, TypeOK
<1>2. ASSUME NEW w \in Workers, People(w)
      PROVE  FALSE
  BY <1>2 DEF People, EnqueueCount, ApproveRead, RejectRead, CancelRead, Hold
<1>3. ASSUME NEW q \in Replicas, SweepStep(q)
      PROVE  FALSE
  BY <1>3 DEF SweepStep, SweepBegin, SweepUnanswered, SweepOverdue, SweepTell, IInv, TypeOK
<1>4. ASSUME NEW cl \in Clusters, NEW d \in Commands, AgentReports(cl, d)
      PROVE  FALSE
  BY <1>4 DEF AgentReports, OnAck, OnResult, IInv, TypeOK
<1>5. PICK w \in Workers : EnqueueHold(w)
  BY <1>1, <1>2, <1>3, <1>4 DEF Next, ServerNext, AgentNext, Redeliver, EnqueueRefresh,
           EnqueueCount, JobFails, SweepFails, ReplicaDies, DeadlinePasses, AgentReads,
           Disconnect, Connect, vars, IInv, TypeOK
<1> QED
  BY <1>5 DEF EnqueueHold, Recorded, IInv, JobsOK, JobOK, TypeOK

Swept(s) == s.unanswered \cup s.overdue \cup s.tell

LEMMA SweptGrows ==
  ASSUME IInv, [Next]_vars, NEW r \in Replicas, NEW c \in Swept(sweep'[r]) \ Swept(sweep[r])
  PROVE  Recorded(c)
<1> USE DEF table, stream, jobs
<1>1. sweep[r] \in Sweep
  BY DEF IInv, TypeOK
<1>2. ASSUME NEW q \in Replicas, SweepStep(q), ~SweepBegin(q)
      PROVE  c \in sweep[r].beyond /\ status[c] \in NonTerminal
  <2>1. ASSUME NEW d \in Commands, SweepUnanswered(q, d)
        PROVE  FALSE
    BY <1>1, <2>1 DEF SweepUnanswered, Swept, Sweep, IInv, TypeOK
  <2>2. ASSUME NEW d \in Commands, SweepTell(q, d)
        PROVE  FALSE
    BY <1>1, <2>2 DEF SweepTell, Swept, Sweep, IInv, TypeOK
  <2>3. ASSUME NEW d \in Commands, SweepOverdue(q, d)
        PROVE  c \in sweep[r].beyond /\ status[c] \in NonTerminal
    <3>1. sweep'[r] = Settled(sweep[r], d)
      BY <2>3 DEF SweepOverdue, IInv, TypeOK
    <3> QED
      BY <1>1, <3>1 DEF Settled, Swept, Sweep
  <2> QED
    BY <1>2, <2>1, <2>2, <2>3 DEF SweepStep
<1>3. ASSUME NEW q \in Replicas, SweepBegin(q)
      PROVE  c \in past
  <2>1. CASE q = r
    BY <1>3, <2>1 DEF SweepBegin, Swept, Overdue, IInv, TypeOK
  <2>2. CASE q # r
    BY <1>3, <2>2 DEF SweepBegin, IInv, TypeOK
  <2> QED
    BY <2>1, <2>2
<1>4. ASSUME NEW w \in Workers, JobStep(w)
      PROVE  FALSE
  BY <1>4 DEF JobStep, EnqueueCountWaiting, EnqueueCreate, EnqueueHold, Transmit, MarkSent, Fail, Approve,
           Reject, Withdraw, Cancel, TellCancel
<1>5. ASSUME NEW w \in Workers, People(w)
      PROVE  FALSE
  BY <1>5 DEF People, EnqueueCount, ApproveRead, RejectRead, CancelRead, Hold
<1>6. ASSUME NEW cl \in Clusters, NEW d \in Commands, AgentReports(cl, d)
      PROVE  FALSE
  BY <1>6 DEF AgentReports, OnAck, OnResult
<1>7. ASSUME NEW q \in Replicas, SweepFails(q) \/ ReplicaDies(q)
      PROVE  FALSE
  <2>1. sweep' = [sweep EXCEPT ![q] = NoSweep]
    BY <1>7 DEF SweepFails, ReplicaDies
  <2>2. CASE q = r
    <3>1. sweep'[r] = NoSweep
      BY <2>1, <2>2 DEF IInv, TypeOK
    <3> QED
      BY <3>1 DEF NoSweep, Swept
  <2>3. CASE q # r
    BY <2>1, <2>3 DEF IInv, TypeOK
  <2> QED
    BY <2>2, <2>3
<1>8. \E q \in Replicas : SweepStep(q)
  BY <1>4, <1>5, <1>6, <1>7 DEF Next, ServerNext, AgentNext, Redeliver, EnqueueRefresh,
           EnqueueCount, JobFails, DeadlinePasses, AgentReads, Disconnect, Connect, vars
<1> QED
  BY <1>2, <1>3, <1>8 DEF IInv, JobsOK, RowsOK, Recorded, NonTerminal, Absent, TypeOK, Sweep

LEMMA NextRowsOK ==
  ASSUME IInv, [Next]_vars
  PROVE  RowsOK'
<1>0. RowStep
  BY NextRows DEF IInv
<1>1. \A c : Recorded(c) => Recorded(c)'
  BY <1>0, RowsStay DEF IInv
<1>2. \A c \in past' \cup written' : Recorded(c)'
  BY <1>1, WrittenGrows, PastGrows DEF IInv, JobsOK, RowsOK
<1>3. ASSUME NEW r \in Replicas, NEW c \in held'[r]
      PROVE  Recorded(c)'
  BY <1>1, <1>3, HeldGrows DEF IInv, JobsOK, RowsOK
<1>4. ASSUME NEW r \in Replicas, NEW c \in Swept(sweep'[r])
      PROVE  Recorded(c)'
  BY <1>1, <1>4, SweptGrows DEF IInv, JobsOK, RowsOK, Swept
<1>5. ASSUME NEW c \in Commands, Recorded(c)'
      PROVE  req'[c].cluster \in Clusters
  <2>1. CASE Recorded(c)
    BY <1>0, <2>1, RowsStay DEF IInv, JobsOK, RowsOK
  <2>2. CASE ~Recorded(c)
    <3>1. ASSUME NEW w \in Workers, EnqueueCreate(w)
          PROVE  req'[c] = arg[w].ask /\ at[w] = "create"
      BY <1>5, <2>2, <3>1 DEF EnqueueCreate, Recorded, IInv, TypeOK
    <3>2. \E w \in Workers : EnqueueCreate(w)
      <4>1. ~Kept
        BY <1>5, <2>2 DEF Kept, Recorded
      <4>2. ASSUME NEW d \in Commands, NEW event \in Event \ {"approved"}, Moves(d, event)
            PROVE  FALSE
        BY <1>5, <2>2, <4>2 DEF Moves, Recorded, IInv, TypeOK
      <4>3. ASSUME NEW w \in Workers, Approve(w)
            PROVE  FALSE
        BY <1>5, <2>2, <4>3 DEF Approve, Recorded, Undecided, MayDecide, Absent, IInv, TypeOK
      <4> QED
        BY <1>0, <4>1, <4>2, <4>3 DEF RowStep
    <3> QED
      BY <3>1, <3>2 DEF IInv, JobsOK, JobOK
  <2> QED
    BY <2>1, <2>2
<1> QED
  BY <1>2, <1>3, <1>4, <1>5 DEF RowsOK, Swept

-----------------------------------------------------------------------------
(***************************************************************************)
(* A row that is released has been approved, if it had to be.              *)
(***************************************************************************)
\* A step other than an approval or a request releases only what was released.
LEMMA MoveReleases ==
  ASSUME TypeOK, NEW d \in Commands, NEW event \in Event \ {"approved"}, Moves(d, event),
         NEW c \in Commands, status'[c] \in NonTerminal \cup {"SUCCEEDED", "FAILED"}
  PROVE  status[c] \in NonTerminal
         \/ status[c] \in {"SUCCEEDED", "FAILED"}
<1>1. CASE c = d
  <2>1. Transition(status[c], event) \in NonTerminal \cup {"SUCCEEDED", "FAILED"}
    BY <1>1 DEF Moves, TypeOK
  <2>2. status[c] # "PENDING_APPROVAL"
    BY <2>1 DEF Transition, Decided, NonTerminal, Terminal, Event, Ignored
  <2> QED
    BY <1>1, <2>2 DEF Moves, TypeOK, Status, Transition, Recorded, Terminal
<1>2. CASE c # d
  BY <1>2 DEF Moves, TypeOK
<1> QED
  BY <1>1, <1>2

LEMMA NextFourEyes ==
  ASSUME IInv, [Next]_vars
  PROVE  FourEyes'
<1>0. RowStep
  BY NextRows DEF IInv
<1> SUFFICES ASSUME NEW c \in Commands, Released(c)'
             PROVE  Approved(c)'
  BY DEF FourEyes
<1>1. CASE Recorded(c) /\ Approved(c)
  BY <1>0, <1>1, RowsStay DEF IInv
<1>2. CASE c \in written'
  BY <1>0, <1>1, <1>2, WrittenGrows
     DEF IInv, JobsOK, RowsOK, FourEyesInv, FourEyes, Released
<1>3. ASSUME status'[c] \in NonTerminal \cup {"SUCCEEDED", "FAILED"}, Released(c)
      PROVE  Approved(c)'
  <2>1. Recorded(c)
    BY <1>3 DEF Released, IInv, JobsOK, RowsOK, Recorded, NonTerminal, Absent
  <2> QED
    BY <1>1, <1>3, <2>1 DEF IInv, FourEyesInv, FourEyes
<1>4. ASSUME status'[c] \in NonTerminal \cup {"SUCCEEDED", "FAILED"}, ~Released(c)
      PROVE  Approved(c)'
  <2>1. ~Kept
    BY <1>4 DEF Kept, Released
  <2>2. ASSUME NEW d \in Commands, NEW event \in Event \ {"approved"}, Moves(d, event)
        PROVE  FALSE
    BY <1>4, <2>2, MoveReleases DEF IInv, Released
  <2>3. ASSUME NEW w \in Workers, EnqueueCreate(w)
        PROVE  Approved(c)'
    BY <1>4, <2>3 DEF EnqueueCreate, Approved, Released, IInv, TypeOK, NonTerminal
  <2>4. ASSUME NEW w \in Workers, Approve(w)
        PROVE  Approved(c)'
    BY <1>4, <2>4 DEF Approve, MayDecide, Approved, Released, IInv, TypeOK, JobsOK, JobOK,
             NonTerminal
  <2> QED
    BY <1>0, <2>1, <2>2, <2>3, <2>4 DEF RowStep
<1> QED
  BY <1>2, <1>3, <1>4 DEF Released

-----------------------------------------------------------------------------
(***************************************************************************)
(* The inductive invariant, and what follows from it for every number of   *)
(* commands, people, clusters, replicas and jobs, every limit and every    *)
(* interleaving.                                                           *)
(***************************************************************************)
LEMMA NextInv == IInv /\ [Next]_vars => IInv'
<1> SUFFICES ASSUME IInv, [Next]_vars
             PROVE  IInv'
  OBVIOUS
<1>1. TypeOK'
  BY NextType DEF IInv
<1>2. HandsOK'
  BY NextHands
<1>3. RowsOK'
  BY NextRowsOK
<1>4. FourEyes'
  BY NextFourEyes
<1> QED
  BY <1>1, <1>2, <1>3, <1>4 DEF IInv, JobsOK, FourEyesInv, HandsOK

\* The invariant the other theorems rest on: the three below hold together at every step
\* of commands.service.ts, none of them is inductive without the others.
THEOREM Invariant == Spec => []IInv
<1>1. Init => IInv
  BY InitType DEF IInv
<1> QED
  BY <1>1, NextInv, PTL DEF Spec

\* Every variable keeps its type: the table's rows, the streams, the jobs and the sweeps.
THEOREM TypeCorrect == Spec => []TypeOK
<1>1. IInv => TypeOK
  BY DEF IInv
<1> QED
  BY <1>1, Invariant, PTL

\* No handler, re-delivery, sweep or secret ever names a row that was not written first.
THEOREM JobsCorrect == Spec => []JobsOK
<1>1. IInv => JobsOK
  BY DEF IInv
<1> QED
  BY <1>1, Invariant, PTL

\* The four-eyes rule: nothing that needs an approval is in flight, written to an agent or
\* executed unless a person other than the requester approved it, and no job has it in
\* hand to send; for any number of replicas whose decisions, sweeps and re-deliveries race.
THEOREM FourEyesHolds == Spec => []FourEyesInv
<1>1. IInv => FourEyesInv
  BY DEF IInv
<1> QED
  BY <1>1, Invariant, PTL

\* The pipeline implements the lifecycle of command-state.ts: whatever the interleaving, the
\* shared status of a command moves only as the transition rules accept.
THEOREM ImplementsLifecycle == Spec => FollowsLifecycle
<1>1. Init => Lifecycle!Init
  BY DEF Init, Lifecycle!Init, Lifecycle!Absent, Absent
<1>2. IInv /\ [Next]_vars => [Lifecycle!Next]_status
  BY NextRows, RowStepFollows DEF IInv
<1> QED
  BY <1>1, <1>2, Invariant, PTL DEF Spec, FollowsLifecycle, Lifecycle!Spec

-----------------------------------------------------------------------------
(***************************************************************************)
(* What was ever written to a stream was cleared for it: it is recorded,   *)
(* waits for nobody, and was not rejected.  A job reads a row, or makes    *)
(* it, and writes it to a stream some steps later, and other jobs decide   *)
(* rows meanwhile: no decision takes back what a job has in hand to send.  *)
(***************************************************************************)
Cleared(c) == c \in Commands /\ status[c] \notin {Absent, "PENDING_APPROVAL", "REJECTED"}

ClearedInv ==
  /\ \A w \in Workers : \A c : InJob(w, c) => Cleared(c)
  /\ \A c \in written : Cleared(c)

LEMMA ClearedStays ==
  ASSUME TypeOK, JobsOK, RowStep, NEW c, Cleared(c)
  PROVE  Cleared(c)'
<1>1. CASE Kept
  BY <1>1 DEF Kept, Cleared
<1>2. ASSUME NEW d \in Commands, NEW event \in Event \ {"approved"}, Moves(d, event)
      PROVE  Cleared(c)'
  <2>1. CASE c = d
    <3>1. status[c] \in NonTerminal \cup Terminal
      BY DEF Cleared, TypeOK, Status
    <3>2. Transition(status[c], event) = Moved(status[c], event) /\ status[c] \in NonTerminal
      BY <1>2, <2>1, <3>1 DEF Moves, Transition, NonTerminal, Terminal
    <3>3. Moved(status[c], event) \in (Status \cup {Ignored}) \ {"PENDING_APPROVAL", "REJECTED"}
      BY <3>2 DEF Moved, Event, Status, NonTerminal, Terminal, Ignored
    <3>4. status'[c] \in Status \ {"PENDING_APPROVAL", "REJECTED"}
      BY <1>2, <2>1, <3>2, <3>3 DEF Moves, TypeOK
    <3> QED
      BY <3>4 DEF Cleared, Status, NonTerminal, Terminal, Absent
  <2>2. CASE c # d
    BY <1>2, <2>2 DEF Moves, Cleared, TypeOK
  <2> QED
    BY <2>1, <2>2
<1>3. ASSUME NEW w \in Workers, EnqueueCreate(w)
      PROVE  Cleared(c)'
  BY <1>3 DEF EnqueueCreate, Cleared, TypeOK
<1>4. ASSUME NEW w \in Workers, Approve(w)
      PROVE  Cleared(c)'
  <2>1. \/ status' = status
        \/ Undecided(arg[w].cmd) /\ status' = [status EXCEPT ![arg[w].cmd] = "QUEUED"]
    BY <1>4 DEF Approve, MayDecide
  <2> QED
    BY <2>1 DEF Undecided, Cleared, TypeOK
<1> QED
  BY <1>1, <1>2, <1>3, <1>4 DEF RowStep

\* A job that goes on has nothing in hand that it had not.
LEMMA ContinueTakes ==
  ASSUME TypeOK, NEW w \in Workers, Continue(w), NEW v \in Workers, NEW d, InJob(v, d)'
  PROVE  InJob(v, d)
<1>1. CASE todo[w] = {}
  BY <1>1 DEF Continue, InJob, TypeOK
<1>2. CASE todo[w] # {}
  <2>1. PICK c \in todo[w] : /\ at' = [at EXCEPT ![w] = "transmit"]
                             /\ arg' = [arg EXCEPT ![w].cmd = c]
                             /\ todo' = [todo EXCEPT ![w] = @ \ {c}]
    BY <1>2 DEF Continue
  <2>2. arg[w] \in Job
    BY DEF TypeOK
  <2>3. arg'[w].cmd = c /\ at'[w] = "transmit" /\ todo'[w] \subseteq todo[w]
    BY <2>1, <2>2 DEF TypeOK, Job
  <2>4. v # w => at'[v] = at[v] /\ arg'[v] = arg[v] /\ todo'[v] = todo[v]
    BY <2>1 DEF TypeOK
  <2> QED
    BY <2>3, <2>4 DEF InJob
<1> QED
  BY <1>1, <1>2

LEMMA GotoTakes ==
  ASSUME TypeOK, NEW w \in Workers, NEW place, Goto(w, place),
         place \in {"hold", "transmit", "fail", "mark"} => at[w] \in {"hold", "transmit", "fail", "mark"},
         NEW v \in Workers, NEW d, InJob(v, d)'
  PROVE  InJob(v, d)
  BY DEF Goto, InJob, TypeOK

(***************************************************************************)
(* A command comes into a job's hands when it is recorded or approved, and *)
(* is then QUEUED, or when a re-delivery reads it unfinished.              *)
(***************************************************************************)
LEMMA JobTakes ==
  ASSUME IInv, NEW w \in Workers, JobStep(w), NEW v \in Workers, NEW d, InJob(v, d)'
  PROVE  InJob(v, d) \/ (d \in Commands /\ status'[d] = "QUEUED")
<1> USE DEF IInv
<1>1. CASE EnqueueCountWaiting(w)
  BY <1>1, ContinueTakes, GotoTakes DEF EnqueueCountWaiting
<1>2. CASE EnqueueCreate(w)
  <2>1. CASE Continue(w)
    BY <2>1, ContinueTakes
  <2>2. CASE ~Continue(w)
    <3>1. PICK c \in Commands, place \in {"hold", "transmit"} :
            /\ status' = [status EXCEPT ![c] = "QUEUED"]
            /\ at' = [at EXCEPT ![w] = place]
            /\ arg' = [arg EXCEPT ![w].cmd = c]
            /\ UNCHANGED todo
      BY <1>2, <2>2 DEF EnqueueCreate
    <3>2. at'[w] \in {"hold", "transmit"} /\ arg'[w].cmd = c /\ status'[c] = "QUEUED"
      BY <3>1 DEF TypeOK, Job
    <3>3. v # w => at'[v] = at[v] /\ arg'[v] = arg[v]
      BY <3>1 DEF TypeOK
    <3> QED
      BY <3>1, <3>2, <3>3 DEF InJob
  <2> QED
    BY <2>1, <2>2
<1>3. CASE Transmit(w)
  BY <1>3, ContinueTakes, GotoTakes DEF Transmit
<1>4. CASE MarkSent(w) \/ Fail(w) \/ Reject(w) \/ Withdraw(w) \/ TellCancel(w)
  BY <1>4, ContinueTakes DEF MarkSent, Fail, Reject, Withdraw, TellCancel
<1>5. CASE Approve(w)
  <2>1. CASE Continue(w)
    BY <2>1, ContinueTakes
  <2>2. CASE ~Continue(w)
    <3>1. arg[w].cmd \in Commands
      BY <1>5 DEF Approve, JobsOK, JobOK, Recorded
    <3>2. status' = [status EXCEPT ![arg[w].cmd] = "QUEUED"] /\ Goto(w, "transmit")
      BY <1>5, <2>2 DEF Approve
    <3>3. status'[arg[w].cmd] = "QUEUED"
      BY <3>1, <3>2 DEF TypeOK
    <3> QED
      BY <3>1, <3>2, <3>3 DEF Goto, InJob, TypeOK
  <2> QED
    BY <2>1, <2>2
<1>6. CASE Cancel(w)
  <2>1. Continue(w) \/ Goto(w, "tell_cancel")
    BY <1>6 DEF Cancel
  <2> QED
    BY <2>1, ContinueTakes, GotoTakes
<1>7. CASE EnqueueHold(w)
  BY <1>7, GotoTakes DEF EnqueueHold
<1> QED
  BY <1>1, <1>2, <1>3, <1>4, <1>5, <1>6, <1>7 DEF JobStep

LEMMA NextTakes ==
  ASSUME IInv, [Next]_vars, NEW v \in Workers, NEW d, InJob(v, d)'
  PROVE  \/ InJob(v, d)
         \/ d \in Commands /\ (status'[d] = "QUEUED" \/ status[d] \in NonTerminal)
<1>1. ASSUME NEW w \in Workers, NEW cl \in Clusters, Redeliver(w, cl)
      PROVE  InJob(v, d) \/ (d \in Commands /\ status[d] \in NonTerminal)
  <2>1. CASE UNCHANGED jobs
    BY <2>1 DEF jobs, InJob
  <2>2. CASE ~UNCHANGED jobs
    <3>1. PICK c \in ToRedeliver(cl) :
            /\ at' = [at EXCEPT ![w] = "transmit"]
            /\ arg' = [arg EXCEPT ![w] = [NoJob EXCEPT !.cmd = c]]
            /\ todo' = [todo EXCEPT ![w] = ToRedeliver(cl) \ {c}]
      BY <1>1, <2>2 DEF Redeliver
    <3>2. v = w => d \in ToRedeliver(cl)
      BY <3>1 DEF InJob, IInv, TypeOK, NoJob
    <3>3. v # w => InJob(v, d)
      BY <3>1 DEF InJob, IInv, TypeOK
    <3> QED
      BY <3>2, <3>3 DEF ToRedeliver, Of
  <2> QED
    BY <2>1, <2>2
<1>2. ASSUME NEW w \in Workers,
             at'[w] \notin {"hold", "transmit", "fail", "mark"}, todo'[w] \subseteq todo[w],
             \A u \in Workers \ {w} : at'[u] = at[u] /\ arg'[u] = arg[u] /\ todo'[u] = todo[u]
      PROVE  InJob(v, d)
  BY <1>2 DEF InJob
<1>3. ASSUME NEW w \in Workers, People(w) \/ JobFails(w) \/ (\E cl \in Clusters : EnqueueRefresh(w, cl))
      PROVE  InJob(v, d)
  <2>1. at'[w] \notin {"hold", "transmit", "fail", "mark"} /\ todo'[w] \subseteq todo[w]
    BY <1>3 DEF People, EnqueueRefresh, EnqueueCount, ApproveRead, RejectRead, CancelRead, Hold,
             JobFails, IInv, TypeOK
  <2>2. \A u \in Workers \ {w} : at'[u] = at[u] /\ arg'[u] = arg[u] /\ todo'[u] = todo[u]
    BY <1>3 DEF People, EnqueueRefresh, EnqueueCount, ApproveRead, RejectRead, CancelRead, Hold,
             JobFails, IInv, TypeOK
  <2> QED
    BY <1>2, <2>1, <2>2
<1>4. ASSUME NEW r \in Replicas, ReplicaDies(r)
      PROVE  InJob(v, d)
  BY <1>4 DEF ReplicaDies, InJob
<1>5. CASE UNCHANGED jobs
  BY <1>5 DEF jobs, InJob
<1>6. \/ UNCHANGED jobs
      \/ \E w \in Workers : People(w) \/ JobStep(w) \/ JobFails(w)
      \/ \E w \in Workers, cl \in Clusters : Redeliver(w, cl) \/ EnqueueRefresh(w, cl)
      \/ \E r \in Replicas : ReplicaDies(r)
  BY DEF Next, ServerNext, AgentNext, SweepStep, SweepBegin, SweepUnanswered, SweepOverdue,
           SweepTell, SweepFails, DeadlinePasses, AgentReads, Disconnect, Connect, AgentReports,
           OnAck, OnResult, vars, jobs
<1> QED
  BY <1>1, <1>3, <1>4, <1>5, <1>6, JobTakes

LEMMA InitCleared == Init => ClearedInv
  BY DEF Init, ClearedInv, InJob

LEMMA NextCleared == IInv /\ ClearedInv /\ [Next]_vars => ClearedInv'
<1> SUFFICES ASSUME IInv, ClearedInv, [Next]_vars
             PROVE  ClearedInv'
  OBVIOUS
<1>1. RowStep
  BY NextRows DEF IInv
<1>2. \A c : Cleared(c) => Cleared(c)'
  BY <1>1, ClearedStays DEF IInv
<1>3. ASSUME NEW v \in Workers, NEW d, InJob(v, d)'
      PROVE  Cleared(d)'
  <2>1. CASE InJob(v, d)
    BY <1>2, <2>1 DEF ClearedInv
  <2>2. CASE d \in Commands /\ status'[d] = "QUEUED"
    BY <2>2 DEF Cleared, Absent
  <2>3. CASE d \in Commands /\ status[d] \in NonTerminal
    BY <1>2, <2>3 DEF Cleared, Absent, NonTerminal
  <2> QED
    BY <1>3, <2>1, <2>2, <2>3, NextTakes
<1>4. ASSUME NEW c \in written'
      PROVE  Cleared(c)'
  BY <1>2, <1>4, WrittenFromJob DEF ClearedInv
<1> QED
  BY <1>3, <1>4 DEF ClearedInv

\* Nothing that waits for a person, or was rejected, was ever written to a stream, and no
\* handler or re-delivery will: a decision and the sending of what was read before it race.
THEOREM OnlyClearedIsSent == Spec => []ClearedInv
  BY InitCleared, NextCleared, Invariant, PTL DEF Spec
=============================================================================
