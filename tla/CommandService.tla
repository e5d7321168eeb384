--------------------------- MODULE CommandService ---------------------------
(***************************************************************************)
(* The control plane's command pipeline                                    *)
(* (vfm/server/src/commands/commands.service.ts): requests are counted,    *)
(* recorded, approved, rejected, cancelled, sent, re-sent after a          *)
(* reconnect, acknowledged, finished and timed out, by several replicas    *)
(* that share one table of commands and nothing else.                      *)
(*                                                                         *)
(* One step of a job is what runs between two awaits.  A read and the      *)
(* conditional UPDATE that follows it are two steps; a conditional UPDATE  *)
(* is one.  Jobs are the request handlers and the re-delivery of a cluster *)
(* that has connected; the timeout sweeper of a replica is a process of    *)
(* its own.  The agent is whoever may report on a command over the stream: *)
(* alone, this module lets it say anything.                                *)
(***************************************************************************)
EXTENDS CommandState, Integers, FiniteSets, Sequences

CONSTANTS
  MaxCommands,    \* how many commands are ever requested (a bound)
  Users,          \* people
  Kinds,          \* the kinds of operation asked for
  Clusters,       \* registered clusters, one agent each
  Replicas,       \* control-plane processes
  Workers,        \* concurrent jobs (a bound)
  Home,           \* the replica a job runs on
  MaxUnfinished,  \* MAX_UNFINISHED_PER_CLUSTER
  MaxWaiting,     \* MAX_PENDING_APPROVALS_PER_CLUSTER
  MaxWire,        \* unread messages kept of a stream (a bound); one more is lost
  MaxPast,        \* deadlines that pass (a bound)
  MaxFaults,      \* failed jobs and replica crashes (a bound)
  NoUser, NoCluster, NoReplica, NoCommand

Commands == 1..MaxCommands

ASSUME CommandServiceAssumption ==
  /\ MaxCommands \in Nat /\ MaxUnfinished \in Nat /\ MaxWaiting \in Nat
  /\ MaxWire \in Nat /\ MaxPast \in Nat /\ MaxFaults \in Nat
  /\ Kinds \subseteq {"plain", "secret", "gated"}
  /\ Home \in [Workers -> Replicas]
  /\ NoUser \notin Users /\ NoCluster \notin Clusters
  /\ NoReplica \notin Replicas /\ NoCommand \notin Commands

VARIABLES
  status,    \* Command.status, or Absent
  req,       \* what was asked: Command.clusterId, requestedById, and the kind of operation
  approver,  \* Command.approvedById
  past,      \* commands whose deadlineAt has passed
  held,      \* CommandsService.transients of each replica
  link,      \* the replica that holds a cluster's stream
  owed,      \* connected streams whose redeliver has not started
  toAgent,   \* messages written to a cluster's stream and not yet read
  written,   \* commands ever written to a stream (history)
  at,        \* where each job is
  arg,       \* what it works on
  todo,      \* the rows its redeliver has still to send
  sweep,     \* the sweep of each replica: what its queries returned and what is left
  faults     \* faults so far

table == <<status, req, approver, past>>
stream == <<link, owed, toAgent, written>>
jobs == <<at, arg, todo>>
vars == <<table, held, stream, jobs, sweep, faults>>

Absent == "ABSENT"

(***************************************************************************)
(* The kinds of operation the pipeline tells apart: one that needs an      *)
(* approval (a restore on a cluster that requires it), one that carries    *)
(* secret material outside its row, and any other.                         *)
(***************************************************************************)
Kind == {"plain", "secret", "gated"}

NoRequest == [cluster |-> NoCluster, requester |-> NoUser, kind |-> "plain"]

Request == [cluster : Clusters \cup {NoCluster}, requester : Users \cup {NoUser}, kind : Kind]
Message == [what : {"command", "cancel"}, cmd : Commands]
Place == {"idle", "count_waiting", "create", "approve", "reject", "withdraw", "cancel",
          "tell_cancel", "hold", "transmit", "fail", "mark"}
Job == [cmd : Commands \cup {NoCommand}, user : Users \cup {NoUser}, ask : Request]
NoJob == [cmd |-> NoCommand, user |-> NoUser, ask |-> NoRequest]
Sweep == [unanswered : SUBSET Commands, overdue : SUBSET Commands,
          beyond : SUBSET Commands, tell : SUBSET Commands]
NoSweep == [unanswered |-> {}, overdue |-> {}, beyond |-> {}, tell |-> {}]

Of(cl, statuses) == {c \in Commands : req[c].cluster = cl /\ status[c] \in statuses}
Undecided(c) == status[c] = "PENDING_APPROVAL"

Init ==
  /\ status = [c \in Commands |-> Absent]
  /\ req = [c \in Commands |-> NoRequest]
  /\ approver = [c \in Commands |-> NoUser]
  /\ past = {}
  /\ held = [r \in Replicas |-> {}]
  /\ link = [cl \in Clusters |-> NoReplica]
  /\ owed = {}
  /\ toAgent = [cl \in Clusters |-> <<>>]
  /\ written = {}
  /\ at = [w \in Workers |-> "idle"]
  /\ arg = [w \in Workers |-> NoJob]
  /\ todo = [w \in Workers |-> {}]
  /\ sweep = [r \in Replicas |-> NoSweep]
  /\ faults = 0

-----------------------------------------------------------------------------
(***************************************************************************)
(* Jobs.                                                                   *)
(***************************************************************************)

\* A job ends, or goes on with the oldest row its redeliver has left.
Continue(w) ==
  IF todo[w] = {}
  THEN /\ at' = [at EXCEPT ![w] = "idle"]
       /\ arg' = [arg EXCEPT ![w] = NoJob]
       /\ UNCHANGED todo
  ELSE \E c \in todo[w] :
         /\ \A d \in todo[w] : c <= d
         /\ at' = [at EXCEPT ![w] = "transmit"]
         /\ arg' = [arg EXCEPT ![w].cmd = c]
         /\ todo' = [todo EXCEPT ![w] = @ \ {c}]

Goto(w, place) == at' = [at EXCEPT ![w] = place] /\ UNCHANGED <<arg, todo>>

\* A handler has read its command and will act on what it read.
Hold(w, place, c, u) ==
  /\ at[w] = "idle"
  /\ at' = [at EXCEPT ![w] = place]
  /\ arg' = [arg EXCEPT ![w] = [NoJob EXCEPT !.cmd = c, !.user = u]]
  /\ UNCHANGED <<table, held, stream, todo, sweep, faults>>

\* UPDATE ... WHERE id = c AND status IN from: moves the row or does nothing.
Update(c, from, to) == status' = IF status[c] \in from THEN [status EXCEPT ![c] = to] ELSE status

-----------------------------------------------------------------------------
(***************************************************************************)
(* enqueue.  The cluster's own checks (known, enabled, its Velero          *)
(* supported) only refuse; they leave no state.                            *)
(***************************************************************************)

\* The unfinished commands of the cluster are counted.  MaxCommands bounds the rows.
HasRoom(cl) == Cardinality(Of(cl, NonTerminal)) < MaxUnfinished
HasWaitingRoom(cl) == Cardinality(Of(cl, {"PENDING_APPROVAL"})) < MaxWaiting

EnqueueCount(w, cl, u, kind) ==
  /\ at[w] = "idle"
  /\ Cardinality({v \in Workers : at[v] \in {"count_waiting", "create"}})
       < Cardinality({c \in Commands : status[c] = Absent})
  /\ HasRoom(cl)
  /\ at' = [at EXCEPT ![w] = IF kind = "gated" THEN "count_waiting" ELSE "create"]
  /\ arg' = [arg EXCEPT ![w] =
              [NoJob EXCEPT !.ask = [cluster |-> cl, requester |-> u, kind |-> kind]]]
  /\ UNCHANGED <<table, held, stream, todo, sweep, faults>>

\* After a connect the control plane asks for a refresh itself, when it has re-sent the
\* rest; here at any time.
EnqueueRefresh(w, cl) == "plain" \in Kinds /\ EnqueueCount(w, cl, NoUser, "plain")

\* A request that will wait for a person: those already waiting are counted too.
EnqueueCountWaiting(w) ==
  /\ at[w] = "count_waiting"
  /\ IF HasWaitingRoom(arg[w].ask.cluster)
     THEN Goto(w, "create")
     ELSE Continue(w)
  /\ UNCHANGED <<table, held, stream, sweep, faults>>

\* The row is written before anything is sent, and only then is the secret kept in memory:
\* a redeliver on the same replica that reads the row in between finds none, and fails it.
EnqueueCreate(w) ==
  /\ at[w] = "create"
  /\ \E c \in Commands :
       /\ status[c] = Absent
       /\ \A d \in Commands : d < c => status[d] # Absent
       /\ req' = [req EXCEPT ![c] = arg[w].ask]
       /\ IF arg[w].ask.kind = "gated"
          THEN /\ status' = [status EXCEPT ![c] = "PENDING_APPROVAL"]
               /\ Continue(w)
          ELSE /\ status' = [status EXCEPT ![c] = "QUEUED"]
               /\ at' = [at EXCEPT ![w] = IF arg[w].ask.kind = "secret" THEN "hold" ELSE "transmit"]
               /\ arg' = [arg EXCEPT ![w].cmd = c]
               /\ UNCHANGED todo
  /\ UNCHANGED <<approver, past, held, stream, sweep, faults>>

EnqueueHold(w) ==
  /\ at[w] = "hold"
  /\ held' = [held EXCEPT ![Home[w]] = @ \cup {arg[w].cmd}]
  /\ Goto(w, "transmit")
  /\ UNCHANGED <<table, stream, sweep, faults>>

-----------------------------------------------------------------------------
(***************************************************************************)
(* deliver.  Building the message and writing it to a stream this replica  *)
(* holds is one step.  A stream of another replica is reached through a    *)
(* channel named by a route in Redis: the route may be gone while the      *)
(* stream lives (nothing is sent) and may outlive the stream (the message  *)
(* is lost, but counts as sent).                                           *)
(***************************************************************************)
Write(cl, what, c) ==
  /\ toAgent' = IF Len(toAgent[cl]) < MaxWire
                THEN [toAgent EXCEPT ![cl] = Append(@, [what |-> what, cmd |-> c])]
                ELSE toAgent
  /\ written' = IF what = "command" THEN written \cup {c} ELSE written
  /\ UNCHANGED <<link, owed>>

Foreign(w, cl) == link[cl] # Home[w] /\ Replicas # {Home[w]}

Transmit(w) ==
  LET c == arg[w].cmd
      cl == req[c].cluster
  IN /\ at[w] = "transmit"
     /\ \/ /\ req[c].kind = "secret" /\ c \notin held[Home[w]]
           /\ Goto(w, "fail")                          \* TransientUnavailableError
           /\ UNCHANGED stream
        \/ /\ req[c].kind = "secret" => c \in held[Home[w]]
           /\ \/ link[cl] # NoReplica /\ Write(cl, "command", c) /\ Goto(w, "mark")
              \/ Foreign(w, cl) /\ Goto(w, "mark") /\ UNCHANGED stream
              \/ /\ link[cl] = NoReplica \/ Foreign(w, cl)
                 /\ Continue(w)
                 /\ UNCHANGED stream
     /\ UNCHANGED <<table, held, sweep, faults>>

\* Mutant: SENT is written over whatever the agent has reported meanwhile.
MarkSent_Always(w) ==
  /\ at[w] = "mark"
  /\ Update(arg[w].cmd, NonTerminal, "SENT")
  /\ Continue(w)
  /\ UNCHANGED <<req, approver, past, held, stream, sweep, faults>>

\* Only QUEUED moves to SENT.
MarkSent(w) ==
  /\ at[w] = "mark"
  /\ Update(arg[w].cmd, {"QUEUED"}, "SENT")
  /\ Continue(w)
  /\ UNCHANGED <<req, approver, past, held, stream, sweep, faults>>

\* The credential is no longer held here: the command fails.
Fail(w) ==
  /\ at[w] = "fail"
  /\ held' = [held EXCEPT ![Home[w]] = @ \ {arg[w].cmd}]
  /\ Update(arg[w].cmd, NonTerminal, "FAILED")
  /\ Continue(w)
  /\ UNCHANGED <<req, approver, past, stream, sweep, faults>>

(***************************************************************************)
(* redeliver: the unfinished commands of a cluster that has just connected *)
(* and whose deadline is ahead are read once, then sent oldest first.      *)
(***************************************************************************)
\* Mutants: requests that wait for a person too; only what was never sent.
ToRedeliver_Waiting(cl) == Of(cl, NonTerminal \cup {"PENDING_APPROVAL"}) \ past
ToRedeliver_Unsent(cl) == Of(cl, {"QUEUED"}) \ past
ToRedeliver(cl) == Of(cl, NonTerminal) \ past

Redeliver(w, cl) ==
  /\ at[w] = "idle"
  /\ <<cl, Home[w]>> \in owed
  /\ owed' = owed \ {<<cl, Home[w]>>}
  /\ LET rows == ToRedeliver(cl)
     IN IF rows = {} THEN UNCHANGED jobs
        ELSE \E c \in rows :
               /\ \A d \in rows : c <= d
               /\ at' = [at EXCEPT ![w] = "transmit"]
               /\ arg' = [arg EXCEPT ![w] = [NoJob EXCEPT !.cmd = c]]
               /\ todo' = [todo EXCEPT ![w] = rows \ {c}]
  /\ UNCHANGED <<table, held, link, toAgent, written, sweep, faults>>

-----------------------------------------------------------------------------
(***************************************************************************)
(* approve, reject, cancel.  Each reads the row, decides what it may do,   *)
(* and then changes the row with a conditional UPDATE.                     *)
(***************************************************************************)
MayDecide_Own(c, u) == Undecided(c)  \* mutant: the requester decides
MayDecide(c, u) == Undecided(c) /\ req[c].requester # u

ApproveRead(w, c, u) == MayDecide(c, u) /\ Hold(w, "approve", c, u)

\* The condition repeats every check; the approved command gets a new deadline.
Approve(w) ==
  LET c == arg[w].cmd
      u == arg[w].user
  IN /\ at[w] = "approve"
     /\ IF MayDecide(c, u) /\ c \notin past
        THEN /\ status' = [status EXCEPT ![c] = "QUEUED"]
             /\ approver' = [approver EXCEPT ![c] = u]
             /\ past' = past \ {c}
             /\ Goto(w, "transmit")
        ELSE /\ Continue(w)
             /\ UNCHANGED <<status, approver, past>>
     /\ UNCHANGED <<req, held, stream, sweep, faults>>

RejectRead(w, c, u) == MayDecide(c, u) /\ Hold(w, "reject", c, u)

Reject(w) ==
  /\ at[w] = "reject"
  /\ status' = IF MayDecide(arg[w].cmd, arg[w].user)
               THEN [status EXCEPT ![arg[w].cmd] = "REJECTED"] ELSE status
  /\ Continue(w)
  /\ UNCHANGED <<req, approver, past, held, stream, sweep, faults>>

\* Only the requester withdraws a request that waits; anything else is cancelled.
CancelRead(w, c, u) ==
  \/ Undecided(c) /\ req[c].requester = u /\ Hold(w, "withdraw", c, u)
  \/ status[c] # Absent /\ ~Undecided(c) /\ Hold(w, "cancel", c, u)

Withdraw(w) ==
  /\ at[w] = "withdraw"
  /\ Update(arg[w].cmd, {"PENDING_APPROVAL"}, "CANCELLED")
  /\ Continue(w)
  /\ UNCHANGED <<req, approver, past, held, stream, sweep, faults>>

Cancel(w) ==
  LET c == arg[w].cmd
  IN /\ at[w] = "cancel"
     /\ IF status[c] \in StatusesAccepting("cancelled")
        THEN /\ status' = [status EXCEPT ![c] = "CANCELLED"]
             /\ held' = [held EXCEPT ![Home[w]] = @ \ {c}]
             /\ Goto(w, "tell_cancel")
        ELSE Continue(w) /\ UNCHANGED <<status, held>>
     /\ UNCHANGED <<req, approver, past, stream, sweep, faults>>

\* The agent is told to drop it; a failure to tell is ignored.
TellCancel(w) ==
  LET c == arg[w].cmd
      cl == req[c].cluster
  IN /\ at[w] = "tell_cancel"
     /\ \/ link[cl] # NoReplica /\ Write(cl, "cancel", c)
        \/ (link[cl] = NoReplica \/ Foreign(w, cl)) /\ UNCHANGED stream
     /\ Continue(w)
     /\ UNCHANGED <<table, held, sweep, faults>>

-----------------------------------------------------------------------------
(***************************************************************************)
(* sweepTimeouts, on each replica's timer.  A Redis lock keeps two sweeps  *)
(* apart, but it lapses by itself whether or not the sweep has ended, so   *)
(* here any replica may sweep at any time.                                 *)
(***************************************************************************)
Overdue_NotRunning(statuses) == {c \in past : status[c] \in statuses \ {"RUNNING"}}  \* mutant
Overdue(statuses) == {c \in past : status[c] \in statuses}

\* Mutant: the secrets whose deadline has passed are not dropped.
SweepBegin_KeepsSecrets(r) ==
  /\ sweep[r] = NoSweep
  /\ sweep' = [sweep EXCEPT ![r] =
       [unanswered |-> Overdue({"PENDING_APPROVAL"}),
        overdue |-> Overdue(NonTerminal),
        beyond |-> Overdue(NonTerminal \ {"QUEUED"}),
        tell |-> {}]]
  /\ UNCHANGED <<table, held, stream, jobs, faults>>

SweepBegin(r) ==
  /\ sweep[r] = NoSweep
  /\ held' = [held EXCEPT ![r] = @ \ past]
  /\ sweep' = [sweep EXCEPT ![r] =
       [unanswered |-> Overdue({"PENDING_APPROVAL"}),
        overdue |-> Overdue(NonTerminal),
        beyond |-> Overdue(NonTerminal \ {"QUEUED"}),
        tell |-> {}]]
  /\ UNCHANGED <<table, stream, jobs, faults>>

\* A request nobody decided in time.
SweepUnanswered(r, c) ==
  /\ c \in sweep[r].unanswered
  /\ Update(c, {"PENDING_APPROVAL"}, "TIMED_OUT")
  /\ sweep' = [sweep EXCEPT ![r].unanswered = @ \ {c}]
  /\ UNCHANGED <<req, approver, past, held, stream, jobs, faults>>

\* What a sweep has left when it has dealt with a command: to tell the agent, if the
\* command was not over and the query had found it beyond QUEUED.
Settled(swept, c) ==
  [swept EXCEPT !.overdue = @ \ {c},
                !.beyond = @ \ {c},
                !.tell = IF status[c] \in NonTerminal THEN swept.beyond \cap {c} ELSE {}]

\* A command nobody finished in time, after the requests.
SweepOverdue(r, c) ==
  /\ sweep[r].unanswered = {} /\ sweep[r].tell = {}
  /\ c \in sweep[r].overdue
  /\ Update(c, NonTerminal, "TIMED_OUT")
  /\ sweep' = [sweep EXCEPT ![r] = Settled(@, c)]
  /\ UNCHANGED <<req, approver, past, held, stream, jobs, faults>>

SweepTell(r, c) ==
  LET cl == req[c].cluster
  IN /\ c \in sweep[r].tell
     /\ \/ link[cl] # NoReplica /\ Write(cl, "cancel", c)
        \/ link[cl] # r /\ UNCHANGED stream
     /\ sweep' = [sweep EXCEPT ![r].tell = {}]
     /\ UNCHANGED <<table, held, jobs, faults>>

-----------------------------------------------------------------------------
(***************************************************************************)
(* What the agent says of a command is taken only for a command of its own *)
(* cluster.  A result that claims success may still fail the command: a    *)
(* download that is not intact, a link that is not usable.                 *)
(***************************************************************************)
Owned(cl, c) == status[c] # Absent /\ req[c].cluster = cl

\* Mutant: what the lifecycle makes of an acknowledgement is written unchecked.
OnAck_Unchecked(cl, c, state) ==
  /\ status' = IF Owned(cl, c) THEN [status EXCEPT ![c] = Transition(@, "acked")] ELSE status
  /\ UNCHANGED <<req, approver, past, held, jobs, sweep, faults>>

OnAck(cl, c, state) ==
  LET from == IF state = "RUNNING" THEN StatusesAccepting("running") ELSE {"QUEUED", "SENT"}
  IN /\ Update(c, IF Owned(cl, c) THEN from ELSE {}, state)
     /\ UNCHANGED <<req, approver, past, held, jobs, sweep, faults>>

OnResult(cl, c, ok) ==
  /\ IF Owned(cl, c)
     THEN /\ held' = [held EXCEPT ![link[cl]] = @ \ {c}]
          /\ \/ ok /\ Update(c, StatusesAccepting("succeeded"), "SUCCEEDED")
             \/ Update(c, StatusesAccepting("failed"), "FAILED")
     ELSE UNCHANGED <<held, status>>
  /\ UNCHANGED <<req, approver, past, jobs, sweep, faults>>

AgentReports(cl, c) ==
  /\ link[cl] # NoReplica
  /\ \/ \E state \in {"ACKED", "RUNNING"} : OnAck(cl, c, state)
     \/ \E ok \in BOOLEAN : OnResult(cl, c, ok)
  /\ UNCHANGED stream

AgentReads(cl) ==
  /\ toAgent[cl] # <<>>
  /\ toAgent' = [toAgent EXCEPT ![cl] = Tail(@)]
  /\ UNCHANGED <<table, held, link, owed, written, jobs, sweep, faults>>

(***************************************************************************)
(* Streams come and go; the newest wins.  What was written to a stream     *)
(* that ends before it was read is lost.                                   *)
(***************************************************************************)
\* Mutant: nobody is told of the new stream.
Connect_Silent(cl, r) ==
  /\ link' = [link EXCEPT ![cl] = r]
  /\ toAgent' = [toAgent EXCEPT ![cl] = <<>>]
  /\ UNCHANGED <<table, held, owed, written, jobs, sweep, faults>>

Connect(cl, r) ==
  /\ link' = [link EXCEPT ![cl] = r]
  /\ owed' = owed \cup {<<cl, r>>}
  /\ toAgent' = [toAgent EXCEPT ![cl] = <<>>]
  /\ UNCHANGED <<table, held, written, jobs, sweep, faults>>

Disconnect(cl) ==
  /\ link[cl] # NoReplica
  /\ link' = [link EXCEPT ![cl] = NoReplica]
  /\ toAgent' = [toAgent EXCEPT ![cl] = <<>>]
  /\ UNCHANGED <<table, held, owed, written, jobs, sweep, faults>>

\* A deadline passes; it matters while the command has not ended or a secret is held.
DeadlinePasses(c) ==
  /\ Cardinality(past) < MaxPast
  /\ \/ status[c] \in NonTerminal \cup {"PENDING_APPROVAL"}
     \/ \E r \in Replicas : c \in held[r]
  /\ past' = past \cup {c}
  /\ UNCHANGED <<status, req, approver, held, stream, jobs, sweep, faults>>

(***************************************************************************)
(* Faults: a query or a Redis call throws and ends the job or the sweep; a *)
(* replica dies with its jobs, its streams and the secrets it held.        *)
(***************************************************************************)
JobFails(w) ==
  /\ faults < MaxFaults
  /\ at[w] # "idle"
  /\ at' = [at EXCEPT ![w] = "idle"]
  /\ arg' = [arg EXCEPT ![w] = NoJob]
  /\ todo' = [todo EXCEPT ![w] = {}]
  /\ faults' = faults + 1
  /\ UNCHANGED <<table, held, stream, sweep>>

SweepFails(r) ==
  /\ faults < MaxFaults
  /\ sweep[r] # NoSweep
  /\ sweep' = [sweep EXCEPT ![r] = NoSweep]
  /\ faults' = faults + 1
  /\ UNCHANGED <<table, held, stream, jobs>>

ReplicaDies(r) ==
  /\ faults < MaxFaults
  /\ faults' = faults + 1
  /\ held' = [held EXCEPT ![r] = {}]
  /\ sweep' = [sweep EXCEPT ![r] = NoSweep]
  /\ at' = [w \in Workers |-> IF Home[w] = r THEN "idle" ELSE at[w]]
  /\ arg' = [w \in Workers |-> IF Home[w] = r THEN NoJob ELSE arg[w]]
  /\ todo' = [w \in Workers |-> IF Home[w] = r THEN {} ELSE todo[w]]
  /\ link' = [cl \in Clusters |-> IF link[cl] = r THEN NoReplica ELSE link[cl]]
  /\ toAgent' = [cl \in Clusters |-> IF link[cl] = r THEN <<>> ELSE toAgent[cl]]
  /\ owed' = owed \ (Clusters \X {r})
  /\ UNCHANGED <<table, written>>

-----------------------------------------------------------------------------
JobStep(w) ==
  \/ EnqueueCountWaiting(w) \/ EnqueueCreate(w) \/ EnqueueHold(w)
  \/ Transmit(w) \/ MarkSent(w) \/ Fail(w)
  \/ Approve(w) \/ Reject(w) \/ Withdraw(w) \/ Cancel(w) \/ TellCancel(w)

SweepStep(r) ==
  \/ SweepBegin(r)
  \/ \E c \in Commands : SweepUnanswered(r, c) \/ SweepOverdue(r, c) \/ SweepTell(r, c)

People(w) ==
  \/ \E cl \in Clusters, u \in Users, kind \in Kinds : EnqueueCount(w, cl, u, kind)
  \/ \E c \in Commands, u \in Users :
       ApproveRead(w, c, u) \/ RejectRead(w, c, u) \/ CancelRead(w, c, u)

ServerNext ==
  \/ \E w \in Workers : People(w) \/ JobStep(w)
  \/ \E w \in Workers, cl \in Clusters : Redeliver(w, cl) \/ EnqueueRefresh(w, cl)
  \/ \E r \in Replicas : SweepStep(r)
  \/ \E c \in Commands : DeadlinePasses(c)
  \/ \E w \in Workers : JobFails(w)
  \/ \E r \in Replicas : SweepFails(r) \/ ReplicaDies(r)

AgentNext ==
  \E cl \in Clusters :
    \/ AgentReads(cl) \/ Disconnect(cl)
    \/ \E r \in Replicas : Connect(cl, r)
    \/ \E c \in Commands : AgentReports(cl, c)

Next == ServerNext \/ AgentNext

Spec == Init /\ [][Next]_vars

(***************************************************************************)
(* Time passes, and the sweeper's timer fires and its queries return.      *)
(***************************************************************************)
ClockRuns == \A c \in Commands : WF_vars(DeadlinePasses(c))
SweepFairness == \A r \in Replicas : WF_vars(SweepStep(r))

(***************************************************************************)
(* A started handler runs on, and the callback of a new stream is called,  *)
(* however busy the replica is with requests.                              *)
(***************************************************************************)
JobFairness ==
  /\ \A w \in Workers : WF_vars(JobStep(w))
  /\ \A r \in Replicas, cl \in Clusters :
       SF_vars(\E w \in Workers : Home[w] = r /\ Redeliver(w, cl))

JobFairSpec == Spec /\ JobFairness

-----------------------------------------------------------------------------
(***************************************************************************)
(* Type correctness.                                                       *)
(***************************************************************************)
TypeOK ==
  /\ status \in [Commands -> Status \cup {Absent}]
  /\ req \in [Commands -> Request]
  /\ approver \in [Commands -> Users \cup {NoUser}]
  /\ past \subseteq Commands
  /\ held \in [Replicas -> SUBSET Commands]
  /\ link \in [Clusters -> Replicas \cup {NoReplica}]
  /\ owed \subseteq Clusters \X Replicas
  /\ toAgent \in [Clusters -> Seq(Message)]
  /\ written \subseteq Commands
  /\ at \in [Workers -> Place]
  /\ arg \in [Workers -> Job]
  /\ todo \in [Workers -> SUBSET Commands]
  /\ sweep \in [Replicas -> Sweep]
  /\ faults \in 0..MaxFaults

(***************************************************************************)
(* What a job holds: it sends, decides and cancels recorded commands only. *)
(***************************************************************************)
Recorded(c) == c \in Commands /\ status[c] # Absent

JobOK(w) ==
  /\ at[w] \in {"approve", "reject", "withdraw", "cancel", "tell_cancel",
               "hold", "transmit", "fail", "mark"} => Recorded(arg[w].cmd)
  /\ at[w] = "approve" => arg[w].user \in Users
  /\ at[w] \in {"count_waiting", "create"} => arg[w].ask.cluster \in Clusters
  /\ \A c \in todo[w] : Recorded(c)

RowsOK ==
  /\ \A c \in past \cup written : Recorded(c)
  /\ \A r \in Replicas : \A c \in held[r] : Recorded(c)
  /\ \A r \in Replicas :
       \A c \in sweep[r].unanswered \cup sweep[r].overdue \cup sweep[r].tell : Recorded(c)
  /\ \A c \in Commands : Recorded(c) => req[c].cluster \in Clusters

JobsOK == RowsOK /\ \A w \in Workers : JobOK(w)

(***************************************************************************)
(* The four-eyes rule: a restore that needs an approval is in flight, was  *)
(* written to an agent or has been executed only if a person other than    *)
(* the one who asked approved it, whatever decisions, withdrawals, sweeps  *)
(* and re-deliveries raced with each other and whatever the agent reports. *)
(***************************************************************************)
Approved(c) == req[c].kind = "gated" => approver[c] \in Users \ {req[c].requester}
Released(c) == status[c] \in NonTerminal \cup {"SUCCEEDED", "FAILED"} \/ c \in written

FourEyes == \A c \in Commands : Released(c) => Approved(c)

\* Why it holds: no job ever has an unapproved command in hand to send.
HandApproved(w) ==
  /\ at[w] \in {"hold", "transmit", "fail", "mark"} => Approved(arg[w].cmd)
  /\ \A c \in todo[w] : Approved(c)

FourEyesInv == FourEyes /\ \A w \in Workers : HandApproved(w)

(***************************************************************************)
(* The statuses move as the lifecycle of command-state.ts allows, in the   *)
(* table that every replica updates at once: never back, never out of a    *)
(* terminal status.                                                        *)
(***************************************************************************)
Lifecycle == INSTANCE CommandLifecycle
FollowsLifecycle == Lifecycle!Spec

\* And a recorded command ends, even if no replica ever reaches its agent.
EventuallyEnds == Lifecycle!Fairness

(***************************************************************************)
(* No lost wakeup: a command that is QUEUED while its agent is connected   *)
(* to a replica with a handler is sent or ends, unless the stream breaks   *)
(* or moves, the deadline passes or the job that would send it fails.      *)
(* Recording a command and finding the stream, and registering a stream    *)
(* and reading the unsent commands, are two jobs whose steps interleave.   *)
(***************************************************************************)
QueuedIsSent ==
  \A c \in Commands, cl \in Clusters, w \in Workers :
    (status[c] = "QUEUED" /\ req[c].cluster = cl /\ link[cl] = Home[w])
      ~> (status[c] # "QUEUED" \/ link[cl] # Home[w] \/ c \in past \/ faults > 0)

(***************************************************************************)
(* Secret material is dropped: by the replica that handles the end of its  *)
(* command, or at the latest, on any other replica, by the sweep that      *)
(* finds the command's deadline behind.                                    *)
(***************************************************************************)
SecretIsForgotten ==
  \A r \in Replicas, c \in Commands : c \in held[r] ~> c \notin held[r]

=============================================================================
