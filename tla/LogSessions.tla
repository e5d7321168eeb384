----------------------------- MODULE LogSessions -----------------------------
(***************************************************************************)
(* Live log sessions of one cluster (vfm/server/src/logs/                  *)
(* log-sessions.service.ts) and the agent's streamer                       *)
(* (vfm/agent/internal/logs/streamer.go).  A session is a record in Redis, *)
(* an entry in the memory of the replica that took the request, and a      *)
(* goroutine of the agent; a browser watches it over a channel that keeps  *)
(* nothing.  A step is what a handler does between two awaits, a call to   *)
(* Redis taking effect with the code before it.  Requests, the agent's     *)
(* stream and the browser may each be on another replica; only the one     *)
(* that took the request for a session has its timers, and it may die.     *)
(***************************************************************************)
EXTENDS Integers, Sequences, FiniteSets, SequencesExt

CONSTANTS
  LogIds,       \* the sessions ever asked for (a bound)
  MaxSessions,  \* Options.MaxSessions of the agent
  MaxCuts,      \* connections of the agent that break (a bound)
  MaxCrashes    \* replicas of the control plane that die (a bound)

ASSUME LogSessionsAssumption ==
  MaxSessions \in Nat \ {0} /\ MaxCuts \in Nat /\ MaxCrashes \in Nat

VARIABLES
  record,   \* the record: "none" before and after, "waiting" or "open"
  listed,   \* the cluster's set of sessions
  startedKey, aliveKey,
  owned,    \* LogSessionsService.owned of the replica that took the request
  maker,    \* create: "none", "recorded", "listed", "done"; "lost" when its replica
            \* died in it, "orphaned" when it died with the session's timers
  viewer,   \* the browser and its attach: "none", "found", "subscribed",
            \* "first", "watching", "left"
  told,     \* browsers that have heard that their session ended
  ender,    \* the finish that removed the record: "none", "removed",
            \* "cleared", "ended", or "lost" with its replica; and
            \* whether it tells the agent
  tells,
  published,  \* (history) how often the end of a session was published
  link,     \* the agent's stream: "up", or "down" as the agent sees it
  unnoticed,  \* a stream that broke is still registered
  toAgent,  \* messages on the stream
  order,    \* Streamer.sessions, oldest first
  closing,  \* those of them whose end was chosen
  notices,  \* ends the agent has still to be heard about
  cuts, crashes,
  single    \* the control plane is one replica (it does not change)

redis == <<record, listed, startedKey, aliveKey>>
server == <<owned, maker, viewer, told, ender, tells, published>>
agent == <<order, closing, notices>>
breakage == <<cuts, crashes, single>>
logVars == <<redis, server, link, unnoticed, toAgent, agent, breakage>>

All(value) == [i \in LogIds |-> value]
Set(f, i, value) == [f EXCEPT ![i] = value]

\* Some sessions were opened before, others were lost before; b and d of the bounds are
\* used up; and there is one replica, or there are several.
LogBegins(open, lost, b, d, one) ==
  /\ record = [i \in LogIds |-> IF i \in open THEN "open" ELSE "none"]
  /\ listed = open /\ startedKey = open /\ aliveKey = open /\ owned = open
  /\ maker = [i \in LogIds |-> IF i \in open THEN "done" ELSE IF i \in lost THEN "lost" ELSE "none"]
  /\ viewer = [i \in LogIds |-> IF i \in open THEN "watching" ELSE "none"]
  /\ told = {} /\ ender = All("none") /\ tells = {} /\ published = All(0)
  /\ link = "up" /\ unnoticed = FALSE /\ toAgent = <<>>
  /\ order = SetToSeq(open) /\ closing = {} /\ notices = {} /\ cuts = b /\ crashes = d /\ single = one

LogInit == \E one \in BOOLEAN : LogBegins({}, {}, 0, 0, one)

\* create has returned, so that the browser has the id.
Returned(i) == maker[i] \in {"done", "orphaned"}

\* Whether a caller is on the replica that has the timers.
Here == IF single THEN {TRUE} ELSE BOOLEAN

\* StreamsService.send: written to the stream that is registered, dead or alive.
Send(what, i) == toAgent' = IF link = "up" THEN Append(toAgent, <<what, i>>) ELSE toAgent
Delivered == link = "up" \/ unnoticed

-----------------------------------------------------------------------------
(***************************************************************************)
(* create: the record, the lists, the watch over it.                       *)
(***************************************************************************)
Create(i) ==
  /\ maker[i] = "none"
  /\ record' = Set(record, i, "waiting") /\ maker' = Set(maker, i, "recorded")
  /\ UNCHANGED <<listed, startedKey, aliveKey, owned, viewer, told, ender, tells, published,
                 link, unnoticed, toAgent, agent, breakage>>

CreateLists(i) ==
  /\ maker[i] = "recorded"
  /\ listed' = listed \cup {i} /\ maker' = Set(maker, i, "listed")
  /\ UNCHANGED <<record, startedKey, aliveKey, owned, viewer, told, ender, tells, published,
                 link, unnoticed, toAgent, agent, breakage>>

CreateOwns(i) ==
  /\ maker[i] = "listed"
  /\ owned' = owned \cup {i} /\ maker' = Set(maker, i, "done")
  /\ UNCHANGED <<redis, viewer, told, ender, tells, published, link, unnoticed, toAgent, agent, breakage>>

(***************************************************************************)
(* attach: the record is read, the channel subscribed, the session marked  *)
(* as watched, and started by whoever is first.                            *)
(***************************************************************************)
View(i, from, to) ==
  /\ viewer[i] = from
  /\ viewer' = Set(viewer, i, to)
  /\ UNCHANGED <<record, listed, maker, told, link, unnoticed, agent, breakage>>

AttachGet(i) ==
  /\ Returned(i) /\ record[i] # "none"
  /\ View(i, "none", "found")
  /\ UNCHANGED <<startedKey, aliveKey, owned, ender, tells, published, toAgent>>

AttachSubscribe(i) ==
  /\ View(i, "found", "subscribed")
  /\ aliveKey' = aliveKey \cup {i}
  /\ UNCHANGED <<startedKey, owned, ender, tells, published, toAgent>>

AttachFirst(i) ==
  /\ View(i, "subscribed", IF i \in startedKey THEN "watching" ELSE "first")
  /\ startedKey' = startedKey \cup {i}
  /\ UNCHANGED <<aliveKey, owned, ender, tells, published, toAgent>>

Removes_Unchecked(i, tell, here) ==   \* mutant
  /\ record' = Set(record, i, "none")
  /\ ender' = Set(ender, i, "removed")
  /\ tells' = IF tell /\ record[i] # "none" THEN tells \cup {i} ELSE tells
  /\ owned' = IF here THEN owned \ {i} ELSE owned
  /\ UNCHANGED <<listed, startedKey, aliveKey, maker, published>>

\* Mutant: only who removed the record drops the watch.
Removes_OnlyRecorded(i, tell, here) ==
  /\ record' = Set(record, i, "none")
  /\ ender' = IF record[i] = "none" THEN ender ELSE Set(ender, i, "removed")
  /\ tells' = IF tell /\ record[i] # "none" THEN tells \cup {i} ELSE tells
  /\ owned' = IF here /\ record[i] # "none" THEN owned \ {i} ELSE owned
  /\ UNCHANGED <<listed, startedKey, aliveKey, maker, published>>

(***************************************************************************)
(* finish: the record is removed by one caller, who goes on.  A caller on  *)
(* the replica that has the timers, here, drops them, and the id with      *)
(* them; any other that finds no record returns and drops nothing.         *)
(***************************************************************************)
Removes(i, tell, here) ==
  /\ record' = Set(record, i, "none")
  /\ ender' = IF record[i] = "none" THEN ender ELSE Set(ender, i, "removed")
  /\ tells' = IF tell /\ record[i] # "none" THEN tells \cup {i} ELSE tells
  /\ owned' = IF here THEN owned \ {i} ELSE owned
  /\ listed' = IF here /\ i \in owned /\ record[i] = "none" THEN listed \ {i} ELSE listed
  /\ UNCHANGED <<startedKey, aliveKey, maker, published>>

AttachStart(i) ==
  /\ viewer[i] = "first"
  /\ viewer' = Set(viewer, i, "watching")
  /\ IF Delivered
     THEN /\ Send("start", i)
          /\ record' = IF record[i] = "none" THEN record ELSE Set(record, i, "open")
          /\ UNCHANGED <<listed, startedKey, aliveKey, owned, maker, ender, tells, published>>
     ELSE \E here \in Here : Removes(i, FALSE, here) /\ UNCHANGED toAgent
  /\ UNCHANGED <<told, link, unnoticed, agent, breakage>>

\* The browser goes: nobody marks the session as watched any more.
Leave(i) ==
  /\ View(i, "watching", "left")
  /\ aliveKey' = aliveKey \ {i}
  /\ UNCHANGED <<startedKey, owned, ender, tells, published, toAgent>>

-----------------------------------------------------------------------------
(***************************************************************************)
(* The callers of finish: the person, the owner's timer and its sweep, the *)
(* agent, and the end of the agent's stream.                               *)
(***************************************************************************)
Finish(i, tell, here) ==
  Removes(i, tell, here) /\ UNCHANGED <<viewer, told, link, unnoticed, toAgent, agent, breakage>>

Stop(i) == record[i] # "none" /\ Returned(i) /\ \E here \in Here : Finish(i, TRUE, here)
HardTimeout_IfIdle(i) == i \in owned /\ i \notin aliveKey /\ Finish(i, TRUE, TRUE)   \* mutant
HardTimeout(i) == i \in owned /\ Finish(i, TRUE, TRUE)
SweepOwned(i) == i \in owned /\ i \notin aliveKey /\ Finish(i, TRUE, TRUE)

\* Nobody opened it in time; or it outlived its longest time and a minute more, both its
\* owner's timer and the agent's being gone by then.
Expires(i) ==
  /\ \/ record[i] = "waiting"
     \/ /\ record[i] = "open" /\ i \notin owned
        /\ i \notin ToSet(order) \cup notices /\ <<"start", i>> \notin ToSet(toAgent)
  /\ record' = Set(record, i, "none")
  /\ UNCHANGED <<listed, startedKey, aliveKey, server, link, unnoticed, toAgent, agent, breakage>>

\* Nobody refreshes it.
AliveExpires(i) ==
  /\ i \in aliveKey /\ viewer[i] \notin {"subscribed", "first", "watching"}
  /\ aliveKey' = aliveKey \ {i}
  /\ UNCHANGED <<record, listed, startedKey, server, link, unnoticed, toAgent, agent, breakage>>

onAgentEnded(i) ==
  /\ i \in notices
  /\ notices' = notices \ {i}
  /\ IF record[i] = "none" THEN UNCHANGED <<redis, server>>
     ELSE \E here \in Here : Removes(i, FALSE, here) /\ UNCHANGED <<viewer, told>>
  /\ UNCHANGED <<link, unnoticed, toAgent, order, closing, breakage>>

\* Each session in the cluster's set is finished in turn, here all at once, on the replica
\* that noticed the end of the stream, which has the timers of some.
endCluster ==
  /\ unnoticed
  /\ unnoticed' = FALSE
  /\ record' = [i \in LogIds |-> IF i \in listed THEN "none" ELSE record[i]]
  /\ ender' = [i \in LogIds |-> IF i \in listed /\ record[i] # "none" THEN "removed" ELSE ender[i]]
  /\ \E here \in IF single THEN {owned \cap listed} ELSE SUBSET (owned \cap listed) :
       owned' = owned \ here /\ listed' = listed \ {i \in here : record[i] = "none"}
  /\ UNCHANGED <<startedKey, aliveKey, maker, viewer, told, tells, published, link, toAgent, agent, breakage>>

\* The rest of finish: the lists, the agent, the channel.
FinishClears(i) ==
  /\ ender[i] = "removed"
  /\ ender' = Set(ender, i, "cleared")
  /\ listed' = listed \ {i} /\ startedKey' = startedKey \ {i} /\ aliveKey' = aliveKey \ {i}
  /\ UNCHANGED <<record, owned, maker, viewer, told, tells, published, link, unnoticed, toAgent,
                 agent, breakage>>

FinishPublishes(i) ==
  /\ ender[i] = "cleared"
  /\ ender' = Set(ender, i, "ended")
  /\ published' = Set(published, i, published[i] + 1)
  /\ told' = IF viewer[i] \in {"subscribed", "first", "watching"} THEN told \cup {i} ELSE told
  /\ IF i \in tells THEN Send("stop", i) ELSE UNCHANGED toAgent
  /\ UNCHANGED <<redis, owned, maker, viewer, tells, link, unnoticed, agent, breakage>>

tellToStop_Never(i) == FALSE /\ UNCHANGED logVars   \* mutant

\* A chunk of a session that has no record: the agent is told to stop.
tellToStop(i) ==
  /\ link = "up" /\ i \in ToSet(order) \ closing
  /\ record[i] = "none"
  /\ <<"stop", i>> \notin ToSet(toAgent)
  /\ Send("stop", i)
  /\ UNCHANGED <<redis, server, link, unnoticed, agent, breakage>>

-----------------------------------------------------------------------------
(***************************************************************************)
(* The agent: one session more than it may have ends the oldest.           *)
(***************************************************************************)
Live == ToSet(order) \ closing
Oldest == order[Min({p \in DOMAIN order : order[p] \in Live})]

StartSession(i) ==
  IF i \in ToSet(order) THEN UNCHANGED <<order, closing>>
  ELSE /\ order' = Append(order, i)
       /\ closing' = IF Cardinality(Live) >= MaxSessions THEN closing \cup {Oldest} ELSE closing

HandleLogs ==
  /\ toAgent # <<>>
  /\ toAgent' = Tail(toAgent)
  /\ LET what == Head(toAgent)[1]
         i == Head(toAgent)[2]
     IN \/ what = "start" /\ StartSession(i)
        \/ what = "stop" /\ closing' = closing \cup ({i} \cap ToSet(order)) /\ UNCHANGED order
  /\ UNCHANGED <<redis, server, link, unnoticed, notices, breakage>>

Forgets(i) == \E p \in DOMAIN order : order[p] = i /\ order' = RemoveAt(order, p)

EndSession_KeepsReason(i) ==   \* mutant
  /\ Forgets(i) /\ UNCHANGED closing
  /\ notices' = IF link = "up" THEN notices \cup {i} ELSE notices
  /\ UNCHANGED <<redis, server, link, unnoticed, toAgent, breakage>>

\* A goroutine ends: as it was told, or with its pod or its time; the server hears of it.
EndSession(i) ==
  /\ Forgets(i) /\ closing' = closing \ {i}
  /\ notices' = IF link = "up" THEN notices \cup {i} ELSE notices
  /\ UNCHANGED <<redis, server, link, unnoticed, toAgent, breakage>>

\* Disconnected ends every session and tells nobody: "the control plane ends its side".
Cut ==
  /\ link = "up" /\ cuts < MaxCuts
  /\ link' = "down" /\ unnoticed' = TRUE /\ cuts' = cuts + 1 /\ UNCHANGED <<crashes, single>>
  /\ toAgent' = <<>> /\ notices' = {} /\ order' = <<>> /\ closing' = {}
  /\ UNCHANGED <<redis, server>>

\* A stream on the same replica takes the place of one whose end was not noticed.
Reconnect ==
  /\ link = "down"
  /\ link' = "up" /\ unnoticed' \in {unnoticed, FALSE}
  /\ UNCHANGED <<redis, server, toAgent, agent, breakage>>

(***************************************************************************)
(* A replica dies, or shuts down without waiting (onApplicationShutdown):  *)
(* the timers it has, the requests it serves, the browsers that watch      *)
(* through it, and the end of a stream it had not noticed.                 *)
(***************************************************************************)
ReplicaGone(owners, makers, viewers, enders) ==
  /\ crashes < MaxCrashes
  /\ crashes' = crashes + 1
  /\ owned' = owned \ owners
  /\ maker' = [i \in LogIds |-> IF i \in owners THEN "orphaned"
                                ELSE IF i \in makers THEN "lost" ELSE maker[i]]
  /\ viewer' = [i \in LogIds |-> IF i \in viewers THEN "left" ELSE viewer[i]]
  /\ ender' = [i \in LogIds |-> IF i \in enders THEN "lost" ELSE ender[i]]
  /\ unnoticed' \in {unnoticed, FALSE}
  /\ UNCHANGED <<redis, told, tells, published, link, toAgent, agent, cuts, single>>

ReplicaLost ==
  \E owners \in SUBSET owned,
     makers \in SUBSET {i \in LogIds : maker[i] \in {"recorded", "listed"}},
     viewers \in SUBSET {i \in LogIds : viewer[i] \notin {"none", "left"}},
     enders \in SUBSET {i \in LogIds : ender[i] \in {"removed", "cleared"}} :
    ReplicaGone(owners, makers, viewers, enders)

-----------------------------------------------------------------------------
LogStep(i) ==
  \/ CreateLists(i) \/ CreateOwns(i) \/ AttachSubscribe(i) \/ AttachFirst(i) \/ AttachStart(i)
  \/ FinishClears(i) \/ FinishPublishes(i)

LogNext ==
  \/ \E i \in LogIds :
       \/ Create(i) \/ AttachGet(i) \/ LogStep(i) \/ Leave(i)
       \/ Stop(i) \/ HardTimeout(i) \/ SweepOwned(i) \/ Expires(i) \/ AliveExpires(i)
       \/ onAgentEnded(i) \/ tellToStop(i) \/ EndSession(i)
  \/ endCluster \/ HandleLogs \/ Cut \/ Reconnect \/ ReplicaLost

LogSpec == LogInit /\ [][LogNext]_logVars

-----------------------------------------------------------------------------
LogTypeOK ==
  /\ record \in [LogIds -> {"none", "waiting", "open"}]
  /\ listed \subseteq LogIds /\ startedKey \subseteq LogIds /\ aliveKey \subseteq LogIds
  /\ owned \subseteq LogIds /\ tells \subseteq LogIds
  /\ maker \in [LogIds -> {"none", "recorded", "listed", "done", "orphaned", "lost"}]
  /\ viewer \in [LogIds -> {"none", "found", "subscribed", "first", "watching", "left"}]
  /\ told \subseteq LogIds
  /\ ender \in [LogIds -> {"none", "removed", "cleared", "ended", "lost"}]
  /\ published \in [LogIds -> Nat]
  /\ link \in {"up", "down"} /\ unnoticed \in BOOLEAN
  /\ toAgent \in Seq({"start", "stop"} \X LogIds)
  /\ order \in Seq(LogIds) /\ closing \subseteq ToSet(order) /\ notices \subseteq LogIds
  /\ cuts \in Nat /\ crashes \in Nat /\ single \in BOOLEAN

(***************************************************************************)
(* "Ends a session once, wherever it is ended from": whoever calls finish, *)
(* and however many do, the end is published at most once, and only of a   *)
(* session whose record is gone.                                           *)
(***************************************************************************)
EndedOnce ==
  \A i \in LogIds : published[i] <= 1 /\ (published[i] = 1 => record[i] = "none")

(***************************************************************************)
(* Who is watching a session that is recorded is told of its end, also     *)
(* when the replica with its timers has died: "the agent's own hard        *)
(* timeout is the backstop".  The exceptions are the death of the replica  *)
(* that was ending it, and of the one with the timers when the agent's     *)
(* stream broke as well.                                                   *)
(***************************************************************************)
ViewerIsTold ==
  \A i \in LogIds : viewer[i] = "watching" /\ record[i] # "none"
    ~> \/ i \in told \/ viewer[i] = "left" \/ ender[i] = "lost"
       \/ maker[i] = "orphaned" /\ cuts > 0

(***************************************************************************)
(* The agent does not go on reading a log nobody asked for: neither a stop *)
(* that overtakes its start, nor a start for a session that has ended, nor *)
(* an end of which the agent was not told keeps a goroutine.               *)
(***************************************************************************)
AgentLetsGo ==
  \A i \in LogIds : i \in ToSet(order) /\ record[i] = "none" ~> i \notin ToSet(order)

(***************************************************************************)
(* And the control plane forgets a session: no record and no timer is left *)
(* of one that was asked for, whoever ended it and whichever replica died; *)
(* and the cluster's set does not keep it either, unless the replica that  *)
(* had its timers, or that was ending it, has died.                        *)
(***************************************************************************)
SessionIsForgotten ==
  \A i \in LogIds : maker[i] = "done"
    ~> /\ record[i] = "none" /\ i \notin owned
       /\ i \notin listed \/ maker[i] = "orphaned" \/ ender[i] = "lost"
=============================================================================
