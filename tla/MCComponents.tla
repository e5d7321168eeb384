---------------------------- MODULE MCComponents ----------------------------
(***************************************************************************)
(* Components that share no state, each checked in a small instance of its *)
(* own: a behaviour is about one of them, focus, and the others stay where *)
(* they begin.  Fairness is stated here, for the component in focus.       *)
(***************************************************************************)
EXTENDS LeaderElection, LogSessions, Alerts, StreamRegistry

CONSTANTS
  CommandIds, Tasks, NoId, NoTask, CacheSize, MaxSaved, MaxConcurrent, OutboxSize, MaxRuns,
  MaxStops, MaxKills

VARIABLES
  phase, looking, running, task, cache, dirty, saver, flushed, saved, outbox, made, runs, life,
  stops, kills,
  focus

agentVars ==
  <<phase, looking, running, task, cache, dirty, saver, flushed, saved, outbox, made, runs, life,
    stops, kills>>

Agent == INSTANCE AgentDispatch WITH Ids <- CommandIds

\* One log session is open when the behaviour begins, another may be created and the agent's
\* connection may break, with one replica; or there is one session, open or to be created, and
\* several replicas, of which one may die, too.
ASSUME ComponentsAssumption == LogIds # {}

OpenBefore == CHOOSE i \in LogIds : TRUE

LogsInit ==
  \/ LogBegins({OpenBefore}, {}, 0, MaxCrashes, TRUE)
  \/ focus = "logs" /\ LogBegins({OpenBefore}, LogIds \ {OpenBefore}, 0, 0, FALSE)
  \/ focus = "logs" /\ LogBegins({}, {OpenBefore}, 0, 0, FALSE)

ComponentsInit ==
  /\ focus \in {"leader", "logs", "alerts", "streams", "agent"}
  /\ LeaderInit /\ LogsInit /\ AlertsInit /\ Init /\ Agent!Init

LeaderRuns ==
  focus = "leader" /\ LeaderNext
    /\ UNCHANGED <<focus, logVars, alertVars, vars, agentVars>>
LogsRun ==
  focus = "logs" /\ LogNext
    /\ UNCHANGED <<focus, leaderVars, alertVars, vars, agentVars>>
AlertsRun ==
  focus = "alerts" /\ AlertsNext
    /\ UNCHANGED <<focus, leaderVars, logVars, vars, agentVars>>
StreamsRun ==
  focus = "streams" /\ Next
    /\ UNCHANGED <<focus, leaderVars, logVars, alertVars, agentVars>>
AgentRuns ==
  focus = "agent" /\ Agent!Next
    /\ UNCHANGED <<focus, leaderVars, logVars, alertVars, vars>>

ComponentsNext == LeaderRuns \/ LogsRun \/ AlertsRun \/ StreamsRun \/ AgentRuns

all == <<leaderVars, logVars, alertVars, vars, agentVars, focus>>

\* Goroutines run, the election's library works, a Lease that is not renewed runs out.
LeaderFairness ==
  /\ WF_leaderVars(focus = "leader" /\ Expire)
  /\ \A r \in Pods : WF_leaderVars(focus = "leader" /\ RunSteps(r))

\* Handlers go on, timers fire and keys expire, the stream carries what is written, a log has
\* lines, and a goroutine ends that was told to, or whose session no replica watches over.
LogFairness ==
  /\ \A i \in LogIds :
       /\ WF_logVars(focus = "logs" /\ LogStep(i))
       /\ WF_logVars(focus = "logs" /\ HardTimeout(i))
       /\ WF_logVars(focus = "logs" /\ SweepOwned(i))
       /\ WF_logVars(focus = "logs" /\ tellToStop(i))
       /\ WF_logVars(focus = "logs" /\ Expires(i))
       /\ WF_logVars(focus = "logs" /\ onAgentEnded(i))
       /\ WF_logVars(focus = "logs" /\ i \in closing /\ EndSession(i))
       /\ WF_logVars(focus = "logs" /\ maker[i] = "orphaned" /\ EndSession(i))
  /\ WF_logVars(focus = "logs" /\ HandleLogs)

\* Timers fire, locks expire, queries answer and channels take over.
AlertsFairness ==
  /\ WF_alertVars(focus = "alerts" /\ LockExpires)
  /\ WF_alertVars(focus = "alerts" /\ \E r \in AlertReplicas : tick(r))
  /\ \A r \in AlertReplicas : WF_alertVars(focus = "alerts" /\ EvaluationStep(r))

\* As StreamRegistry's own Fairness.
StreamFairness ==
  /\ \A s \in Sessions : WF_vars(focus = "streams" /\ StreamStep(s))
                        /\ WF_vars(focus = "streams" /\ Recheck(s))
  /\ \A r \in Replicas : WF_vars(focus = "streams" /\ Receive(r))
                        /\ WF_vars(focus = "streams" /\ SweepStep(r))
  /\ WF_vars(focus = "streams" /\ RouteExpires)
  /\ WF_vars(focus = "streams" /\ Served = {} /\ GoesStale)

\* As AgentDispatch's own Fairness.
AgentFairness ==
  /\ WF_agentVars(focus = "agent" /\ Agent!LoopStep)
  /\ \A t \in Tasks : WF_agentVars(focus = "agent" /\ Agent!TaskStep(t))

ComponentsSpec ==
  /\ ComponentsInit /\ [][ComponentsNext]_all
  /\ LeaderFairness /\ LogFairness /\ AlertsFairness /\ StreamFairness /\ AgentFairness

-----------------------------------------------------------------------------
(***************************************************************************)
(* What the components promise in the end, each of its own behaviours.     *)
(***************************************************************************)

\* The states of the leader, the log sessions, the alerts and the streams have their types.
ComponentsTypeOK == LeaderTypeOK /\ LogTypeOK /\ AlertsTypeOK /\ TypeOK

\* SomebodyLeads (leader.go).
LeaderReturns == focus = "leader" => SomebodyLeads

\* ViewerIsTold (log-sessions.service.ts).
LogViewerIsTold == focus = "logs" => ViewerIsTold

\* AgentLetsGo (streamer.go).
LogAgentLetsGo == focus = "logs" => AgentLetsGo

\* SessionIsForgotten (log-sessions.service.ts).
LogIsForgotten == focus = "logs" => SessionIsForgotten

\* ConditionIsTold (alerts.service.ts).
AlertIsTold == focus = "alerts" => ConditionIsTold

\* EndIsNoticed (alerts.service.ts).
AlertEnds == focus = "alerts" => EndIsNoticed

\* SilenceIsNoticed (streams.service.ts): the status of a cluster nobody serves.
StreamSilenceIsNoticed == focus = "streams" => SilenceIsNoticed

\* RevokedStreamEnds (streams.service.ts).
StreamRevokedEnds == focus = "streams" => RevokedStreamEnds

\* EveryCommandIsAnswered (dispatcher.go).
AgentAnswers == focus = "agent" => Agent!EveryCommandIsAnswered
=============================================================================
