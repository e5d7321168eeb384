--------------------------- MODULE CommandDelivery ---------------------------
(***************************************************************************)
(* The command pipeline of the control plane (CommandService) and the      *)
(* dispatcher of an agent (AgentDispatch), joined by the agent's stream:   *)
(* what the one writes the other handles, in order; what the dispatcher    *)
(* queues its connection manager (vfm/agent/internal/gateway/manager.go)   *)
(* sends, and what a broken stream carried is lost.                        *)
(***************************************************************************)
EXTENDS CommandService

CONSTANTS
  Cluster,       \* the one cluster whose agent is modelled
  Tasks, NoTask, CacheSize, MaxSaved, MaxConcurrent, OutboxSize, MaxRuns, MaxStops, MaxKills,
  MaxConnects    \* streams ever opened (a bound)

ASSUME CommandDeliveryAssumption ==
  /\ Cluster \in Clusters /\ NoTask \notin Tasks
  /\ CacheSize \in Nat \ {0} /\ MaxSaved \in Nat /\ MaxConcurrent \in Nat \ {0}
  /\ OutboxSize \in Nat /\ MaxRuns \in Nat /\ MaxStops \in Nat /\ MaxKills \in Nat
  /\ MaxConnects \in Nat

VARIABLES
  phase, looking, running, task, cache, dirty, saver, flushed, saved, outbox,
  made, runs, life, stops, kills,
  connects  \* streams opened so far

Agent == INSTANCE AgentDispatch WITH Ids <- Commands, NoId <- NoCommand

agent == <<phase, looking, running, task, cache, dirty, saver, flushed, saved, outbox,
           made, runs, life, stops, kills>>

DeliveryInit == Init /\ Agent!Init /\ connects = 0

(***************************************************************************)
(* The receive loop hands the dispatcher the next message of the stream.   *)
(***************************************************************************)
AgentHandles ==
  /\ toAgent[Cluster] # <<>>
  /\ LET m == Head(toAgent[Cluster])
     IN \/ m.what = "command" /\ Agent!HandleCommand(m.cmd)
        \/ m.what = "cancel" /\ Agent!HandleCancel(m.cmd)
  /\ AgentReads(Cluster)
  /\ UNCHANGED connects

(***************************************************************************)
(* The oldest message of the outbox goes to the control plane.  A stream   *)
(* that breaks takes with it the message that was being sent; what is      *)
(* still queued waits, in any order, for the next stream.                  *)
(***************************************************************************)
AgentSends ==
  /\ link[Cluster] # NoReplica
  /\ Agent!Send
  /\ LET m == Head(outbox)
     IN IF m.what = "result" THEN OnResult(Cluster, m.cmd, m.ok) ELSE OnAck(Cluster, m.cmd, m.what)
  /\ UNCHANGED <<stream, connects>>

AgentSendFails == Agent!Send /\ Disconnect(Cluster) /\ UNCHANGED connects

\* While the next stream is being opened.
AgentRequeues ==
  /\ link[Cluster] = NoReplica /\ connects < MaxConnects
  /\ Agent!Requeue
  /\ UNCHANGED <<vars, connects>>

StreamBreaks == Disconnect(Cluster) /\ UNCHANGED <<agent, connects>>

AgentConnects ==
  /\ phase = "up" /\ connects < MaxConnects
  /\ \E r \in Replicas : Connect(Cluster, r)
  /\ connects' = connects + 1
  /\ UNCHANGED agent

\* The process takes its stream with it.
AgentEnds ==
  /\ Agent!Stop \/ Agent!Kill
  /\ IF link[Cluster] # NoReplica THEN Disconnect(Cluster) ELSE UNCHANGED vars
  /\ UNCHANGED connects

AgentWorks ==
  /\ \/ Agent!LoopStep \/ Agent!SaverStep \/ Agent!SaveFails
     \/ \E t \in Tasks : Agent!TaskStep(t)
     \/ Agent!StopCommands \/ Agent!Exit \/ Agent!Start
  /\ UNCHANGED <<vars, connects>>

ServerWorks == ServerNext /\ UNCHANGED <<agent, connects>>

DeliveryNext ==
  \/ AgentHandles \/ AgentSends \/ AgentSendFails \/ AgentRequeues \/ StreamBreaks \/ AgentConnects
  \/ AgentEnds \/ AgentWorks \/ ServerWorks

DeliveryVars == <<vars, agent, connects>>

DeliverySpec == DeliveryInit /\ [][DeliveryNext]_DeliveryVars

(***************************************************************************)
(* Handlers, callbacks and goroutines run on, and a live stream carries    *)
(* what is written to it.                                                  *)
(***************************************************************************)
DeliveryFairness ==
  /\ \A w \in Workers : WF_DeliveryVars(JobStep(w) /\ UNCHANGED <<agent, connects>>)
  /\ \A r \in Replicas :
       SF_DeliveryVars(/\ \E w \in Workers : Home[w] = r /\ Redeliver(w, Cluster)
                       /\ UNCHANGED <<agent, connects>>)
  /\ WF_DeliveryVars(Agent!LoopStep /\ UNCHANGED <<vars, connects>>)
  /\ \A t \in Tasks : WF_DeliveryVars(Agent!TaskStep(t) /\ UNCHANGED <<vars, connects>>)
  /\ WF_DeliveryVars(AgentHandles)
  /\ WF_DeliveryVars(AgentSends)

DeliveryFairSpec == DeliverySpec /\ DeliveryFairness

-----------------------------------------------------------------------------
(***************************************************************************)
(* A command the control plane calls SUCCEEDED has its object in the       *)
(* cluster, and exactly one, across re-deliveries, replays, restarts and   *)
(* forgotten outcomes.                                                     *)
(***************************************************************************)
SucceededIsDone == \A c \in Commands : status[c] = "SUCCEEDED" => made[c] = 1

(***************************************************************************)
(* What the agent has in hand or has changed a cluster for is a command    *)
(* the control plane wrote to its stream, and if it is a restore that      *)
(* needs an approval, somebody other than the requester approved it.       *)
(***************************************************************************)
OnlySent ==
  \A c \in Commands :
    (looking = c \/ running[c] # NoTask \/ made[c] > 0) =>
      c \in written /\ status[c] # "REJECTED" /\ Approved(c)

(***************************************************************************)
(* A command that is unfinished while its agent is connected finishes,     *)
(* unless the stream breaks again, its deadline passes or a job fails: no  *)
(* order of its sending, the acknowledgements, the result and the          *)
(* re-delivery leaves it behind.                                           *)
(***************************************************************************)
DeliveredFinishes ==
  \A c \in Commands :
    (status[c] \in NonTerminal /\ link[Cluster] # NoReplica)
      ~> (status[c] \in Terminal \/ link[Cluster] = NoReplica \/ c \in past \/ faults > 0)
=============================================================================
