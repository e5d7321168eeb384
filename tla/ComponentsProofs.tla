--------------------------- MODULE ComponentsProofs ---------------------------
(***************************************************************************)
(* Proofs about the components of MCComponents: the agent's leader         *)
(* election, the stream registry, the log sessions and the alerts, and     *)
(* what they are together.                                                 *)
(***************************************************************************)
EXTENDS MCComponents, DataLemmas

-----------------------------------------------------------------------------
(***************************************************************************)
(* Leader election.  For any number of replicas, signals, lost Leases and  *)
(* crashes, a handover is clean.  HandoverIsClean is not inductive; what   *)
(* is says who may still hold the Lease when the elector has ended, and    *)
(* why the supervisor ended the election.                                  *)
(***************************************************************************)
\* Who leads holds the Lease.
LeadersHold == \A r \in Pods : elector[r] = "leading" => lease = r

\* An election ends because the Lease was lost, or because the supervisor ended it.
EndedFor == \A r \in Pods : elector[r] = "ended" => lapsed[r] \/ supervisor[r] \in {"timeout", "ended"}

\* The supervisor ends without a timeout when the task returned, or when a stop was requested
\* before the task began: what begins after that begins late.
SupervisedFor ==
  \A r \in Pods :
    supervisor[r] = "ended" =>
      /\ job[r] = "returned" \/ stopRequested[r]
      /\ job[r] = "running" => late[r]

HandoverInv == LeaderTypeOK /\ LeadersHold /\ EndedFor /\ SupervisedFor

-----------------------------------------------------------------------------
\* The replicas begin as followers.
LEMMA InitHandover == LeaderInit => HandoverInv
  <1> SUFFICES ASSUME LeaderInit PROVE HandoverInv
    OBVIOUS
  <1> USE LeaderAssumption DEF LeaderInit
  <1>1. LeaderTypeOK
    BY DEF LeaderTypeOK
  <1>2. LeadersHold /\ EndedFor /\ SupervisedFor
    BY DEF LeadersHold, EndedFor, SupervisedFor
  <1> QED
    BY <1>1, <1>2 DEF HandoverInv

\* The Lease runs out under a replica that does not lead.
LEMMA ExpireKeeps == HandoverInv /\ Expire => HandoverInv'
  <1> SUFFICES ASSUME HandoverInv, Expire PROVE HandoverInv'
    OBVIOUS
  <1> USE LeaderAssumption DEF HandoverInv, Expire, process
  <1>1. LeaderTypeOK'
    BY DEF LeaderTypeOK
  <1>2. LeadersHold'
    BY DEF LeadersHold, LeaderTypeOK
  <1>3. EndedFor' /\ SupervisedFor'
    BY DEF EndedFor, SupervisedFor
  <1> QED
    BY <1>1, <1>2, <1>3

\* A Lease is taken by one replica, and only from nobody.
LEMMA AcquireKeeps ==
  ASSUME NEW r \in Pods, HandoverInv, Acquire(r) PROVE HandoverInv'
  <1> USE LeaderAssumption DEF HandoverInv, Acquire
  <1>1. LeaderTypeOK'
    BY DEF LeaderTypeOK
  <1>2. LeadersHold'
    BY DEF LeadersHold, LeaderTypeOK
  <1>3. EndedFor' /\ SupervisedFor'
    BY DEF EndedFor, SupervisedFor, LeaderTypeOK
  <1> QED
    BY <1>1, <1>2, <1>3

\* It is lost.
LEMMA LoseLeaseKeeps ==
  ASSUME NEW r \in Pods, HandoverInv, LoseLease(r) PROVE HandoverInv'
  <1> USE LeaderAssumption DEF HandoverInv, LoseLease, Upset
  <1>1. LeaderTypeOK'
    BY DEF LeaderTypeOK
  <1>2. LeadersHold'
    BY DEF LeadersHold, LeaderTypeOK
  <1>3. EndedFor' /\ SupervisedFor'
    BY DEF EndedFor, SupervisedFor, LeaderTypeOK
  <1> QED
    BY <1>1, <1>2, <1>3

\* It is released when the supervisor has ended the election.
LEMMA StopElectionKeeps ==
  ASSUME NEW r \in Pods, HandoverInv, StopElection(r) PROVE HandoverInv'
  <1> USE LeaderAssumption DEF HandoverInv, StopElection
  <1>1. lease' \in {lease, Nobody, r} /\ (elector[r] # "leading" => lease' = lease)
    OBVIOUS
  <1>2. LeaderTypeOK'
    BY <1>1 DEF LeaderTypeOK
  <1>3. LeadersHold'
    BY <1>1 DEF LeadersHold, LeaderTypeOK
  <1>4. EndedFor' /\ SupervisedFor'
    BY DEF EndedFor, SupervisedFor, LeaderTypeOK
  <1> QED
    BY <1>2, <1>3, <1>4

\* The task begins, late if it was told to stop first, and returns.
LEMMA TaskKeeps ==
  ASSUME NEW r \in Pods, HandoverInv, StartTask(r) \/ TaskReturns(r) PROVE HandoverInv'
  <1> USE LeaderAssumption DEF HandoverInv, Upset
  <1>1. CASE StartTask(r)
    <2> USE <1>1 DEF StartTask
    <2>1. LeaderTypeOK'
      BY DEF LeaderTypeOK
    <2>2. LeadersHold' /\ EndedFor'
      BY DEF LeadersHold, EndedFor
    <2>3. SupervisedFor'
      BY DEF SupervisedFor, LeaderTypeOK
    <2> QED
      BY <2>1, <2>2, <2>3
  <1>2. CASE TaskReturns(r)
    <2> USE <1>2 DEF TaskReturns
    <2>1. LeaderTypeOK'
      BY DEF LeaderTypeOK
    <2>2. LeadersHold' /\ EndedFor'
      BY DEF LeadersHold, EndedFor
    <2>3. SupervisedFor'
      BY DEF SupervisedFor, LeaderTypeOK
    <2> QED
      BY <2>1, <2>2, <2>3
  <1> QED
    BY <1>1, <1>2

\* A stop is requested.
LEMMA StopKeeps ==
  ASSUME NEW r \in Pods, HandoverInv, Signal(r) \/ requestStop(r) PROVE HandoverInv'
  <1> USE LeaderAssumption DEF HandoverInv
  <1>1. CASE Signal(r)
    <2> USE <1>1 DEF Signal, Upset
    <2>1. LeaderTypeOK'
      BY DEF LeaderTypeOK
    <2>2. LeadersHold' /\ EndedFor' /\ SupervisedFor'
      BY DEF LeadersHold, EndedFor, SupervisedFor
    <2> QED
      BY <2>1, <2>2
  <1>2. CASE requestStop(r)
    <2> USE <1>2 DEF requestStop
    <2>1. LeaderTypeOK'
      BY DEF LeaderTypeOK
    <2>2. LeadersHold' /\ EndedFor'
      BY DEF LeadersHold, EndedFor
    <2>3. SupervisedFor'
      BY DEF SupervisedFor, LeaderTypeOK
    <2> QED
      BY <2>1, <2>2, <2>3
  <1> QED
    BY <1>1, <1>2

\* The supervisor moves on.
LEMMA SupervisorKeeps ==
  ASSUME NEW r \in Pods, HandoverInv, awaitDone(r) \/ awaitStop(r) \/ awaitTimeout(r)
  PROVE  HandoverInv'
  <1> USE LeaderAssumption DEF HandoverInv, awaitDone, awaitStop, awaitTimeout, Supervise, taskStarted
  <1>1. LeaderTypeOK'
    BY DEF LeaderTypeOK
  <1>2. LeadersHold'
    BY DEF LeadersHold
  <1>3. EndedFor'
    BY DEF EndedFor, LeaderTypeOK
  <1>4. SupervisedFor'
    BY DEF SupervisedFor, LeaderTypeOK
  <1> QED
    BY <1>1, <1>2, <1>3, <1>4

\* Another process takes the place of the one that ended or died.
LEMMA RestartKeeps ==
  ASSUME NEW r \in Pods, HandoverInv, ExitProcess(r) \/ Crash(r) PROVE HandoverInv'
  <1>1. Restarts(r) /\ upsets' \in Nat
    BY DEF ExitProcess, Crash, Upset, HandoverInv, LeaderTypeOK
  <1> USE LeaderAssumption, <1>1 DEF HandoverInv, Restarts
  <1>2. LeaderTypeOK'
    BY DEF LeaderTypeOK
  <1>3. LeadersHold' /\ EndedFor' /\ SupervisedFor'
    BY DEF LeadersHold, EndedFor, SupervisedFor, LeaderTypeOK
  <1> QED
    BY <1>2, <1>3

LEMMA NextHandover == HandoverInv /\ [LeaderNext]_leaderVars => HandoverInv'
  <1> SUFFICES ASSUME HandoverInv, [LeaderNext]_leaderVars PROVE HandoverInv'
    OBVIOUS
  <1>1. CASE Expire
    BY <1>1, ExpireKeeps
  <1>2. ASSUME NEW r \in Pods, RunSteps(r) PROVE HandoverInv'
    <2>1. CASE Acquire(r)
      BY <2>1, AcquireKeeps
    <2>2. CASE StopElection(r)
      BY <2>2, StopElectionKeeps
    <2>3. CASE StartTask(r)
      BY <2>3, TaskKeeps
    <2>4. CASE requestStop(r)
      BY <2>4, StopKeeps
    <2>5. CASE awaitDone(r) \/ awaitStop(r) \/ awaitTimeout(r)
      BY <2>5, SupervisorKeeps
    <2>6. CASE ExitProcess(r)
      BY <2>6, RestartKeeps
    <2> QED
      BY <1>2, <2>1, <2>2, <2>3, <2>4, <2>5, <2>6 DEF RunSteps
  <1>3. ASSUME NEW r \in Pods, LoseLease(r) \/ TaskReturns(r) \/ Signal(r) \/ Crash(r)
        PROVE  HandoverInv'
    BY <1>3, LoseLeaseKeeps, TaskKeeps, StopKeeps, RestartKeeps
  <1>4. CASE UNCHANGED leaderVars
    BY <1>4 DEF leaderVars, process, HandoverInv, LeaderTypeOK, LeadersHold, EndedFor, SupervisedFor
  <1> QED
    BY <1>1, <1>2, <1>3, <1>4 DEF LeaderNext

LEMMA HandoverInvHolds == LeaderSpec => []HandoverInv
  BY InitHandover, NextHandover, PTL DEF LeaderSpec

-----------------------------------------------------------------------------
(***************************************************************************)
(* Every variable keeps its type, and a replica that has not got the Lease *)
(* runs nothing.                                                           *)
(***************************************************************************)
THEOREM LeaderTypeCorrect == LeaderSpec => []LeaderTypeOK
  <1>1. HandoverInv => LeaderTypeOK
    BY DEF HandoverInv
  <1> QED
    BY HandoverInvHolds, <1>1, PTL

(***************************************************************************)
(* "Only the leader executes", "true across a handover" (leader.go), for   *)
(* any number of replicas.                                                 *)
(***************************************************************************)
THEOREM HandoverClean == LeaderSpec => []HandoverIsClean
  <1>1. HandoverInv => HandoverIsClean
    <2> SUFFICES ASSUME HandoverInv, NEW r \in Pods, job[r] = "running", lease # r
                 PROVE  lapsed[r] \/ late[r] \/ supervisor[r] = "timeout"
      BY DEF HandoverIsClean
    <2>1. elector[r] = "ended"
      BY DEF HandoverInv, LeaderTypeOK, LeadersHold
    <2>2. lapsed[r] \/ supervisor[r] \in {"timeout", "ended"}
      BY <2>1 DEF HandoverInv, EndedFor
    <2> QED
      BY <2>2 DEF HandoverInv, SupervisedFor
  <1> QED
    BY HandoverInvHolds, <1>1, PTL

-----------------------------------------------------------------------------
(***************************************************************************)
(* The stream registry.  What each replica's registry says, for any number *)
(* of streams and replicas, whoever dies, whatever administrators do and   *)
(* whichever calls fail.                                                   *)
(***************************************************************************)
LEMMA InitType == Init => TypeOK
<1> SUFFICES ASSUME Init
             PROVE  TypeOK
  OBVIOUS
<1>1. channel \in [Replicas -> Seq(Sessions \cup {NoSession})]
  BY DEF Init, RegistryBegins
<1>2. at \in [Sessions -> Place] /\ status \in Status
  BY DEF Init, RegistryBegins, Place, Status
<1>3. sweeper \in [Replicas -> {"idle", "found", "unrouted"}]
  BY DEF Init, RegistryBegins
<1>4. streams \in [Replicas -> Sessions \cup {NoSession}]
  BY DEF Init, RegistryBegins
<1> QED
  BY <1>1, <1>2, <1>3, <1>4 DEF Init, RegistryBegins, TypeOK

(***************************************************************************)
(* Types, action by action.                                                *)
(***************************************************************************)
LEMMA AnnounceType ==
  ASSUME channel \in [Replicas -> Seq(Sessions \cup {NoSession})],
         NEW except \in Sessions \cup {NoSession}, Announce(except)
  PROVE  channel' \in [Replicas -> Seq(Sessions \cup {NoSession})]
BY DEF Announce

LEMMA StreamType ==
  ASSUME TypeOK, NEW s \in Sessions,
         \/ Open(s) \/ StreamStep(s) \/ ReadHeartbeat(s) \/ Drop(s) \/ Recheck(s)
         \/ RegisterFails(s) \/ UnregisterFails(s)
  PROVE  TypeOK'
<1> USE DEF cluster, access, faults, stream
<1>1. CASE Open(s) \/ ReadHello(s)
  BY <1>1 DEF Open, ReadHello, Move, TypeOK, Place
<1>2. CASE Register(s)
  BY <1>2 DEF Register, Move, Break, TypeOK, Place
<1>3. CASE Supersede(s)
  <2>1. channel' \in [Replicas -> Seq(Sessions \cup {NoSession})]
    BY <1>3, AnnounceType DEF Supersede, TypeOK
  <2> QED
    BY <1>3, <2>1 DEF Supersede, Move, TypeOK, Place
<1>4. CASE MarkConnected(s) \/ Heartbeat(s) \/ ReadHeartbeat(s)
  BY <1>4 DEF MarkConnected, Heartbeat, ReadHeartbeat, Move, TypeOK, Place, Status
<1>5. CASE Unregister(s)
  <2>1. streams' \in [Replicas -> Sessions \cup {NoSession}]
    BY <1>5 DEF Unregister, TypeOK
  <2> QED
    BY <1>5, <2>1 DEF Unregister, Move, TypeOK, Place
<1>6. CASE DeleteRoute(s) \/ ClearStatus(s) \/ UnregisterFails(s)
  <2>1. CASE DeleteRoute(s)
    BY <2>1 DEF DeleteRoute, Move, TypeOK, Place
  <2>2. CASE ClearStatus(s)
    BY <2>2 DEF ClearStatus, Disconnected, Move, TypeOK, Place, Status
  <2>3. CASE UnregisterFails(s)
    BY <2>3 DEF UnregisterFails, Move, TypeOK, Place
  <2> QED
    BY <1>6, <2>1, <2>2, <2>3
<1>7. CASE Drop(s) \/ Recheck(s)
  BY <1>7 DEF Drop, Recheck, Break, TypeOK
<1>8. CASE RegisterFails(s)
  <2>1. streams' \in [Replicas -> Sessions \cup {NoSession}] /\ route' \in Sessions \cup {NoSession}
    BY <1>8 DEF RegisterFails, TypeOK
  <2>2. broken' \subseteq Sessions
    <3>1. broken' = broken \cup ({streams[host[s]], s} \ {NoSession})
          \/ broken' = broken \cup ({s} \ {NoSession})
      BY <1>8 DEF RegisterFails, Break
    <3>2. streams[host[s]] \in Sessions \cup {NoSession}
      BY DEF TypeOK
    <3> QED
      BY <3>1, <3>2 DEF TypeOK
  <2> QED
    BY <1>8, <2>1, <2>2 DEF RegisterFails, Move, TypeOK, Place
<1> QED
  BY <1>1, <1>2, <1>3, <1>4, <1>5, <1>6, <1>7, <1>8 DEF StreamStep

LEMMA ReplicaType ==
  ASSUME TypeOK, NEW r \in Replicas, Receive(r) \/ PushIsLost(r) \/ SweepStep(r) \/ Dies(r)
  PROVE  TypeOK'
<1> USE DEF cluster, access, faults, stream
<1>1. CASE Receive(r) \/ PushIsLost(r)
  <2>1. channel[r] # <<>> /\ channel' = [channel EXCEPT ![r] = Tail(@)]
    BY <1>1 DEF Receive, PushIsLost, NextMessage
  <2>2. channel' \in [Replicas -> Seq(Sessions \cup {NoSession})]
    <3>1. channel \in [Replicas -> Seq(Sessions \cup {NoSession})]
      BY DEF TypeOK
    <3>2. Tail(channel[r]) \in Seq(Sessions \cup {NoSession})
      BY <2>1, <3>1
    <3> QED
      BY <2>1, <3>1, <3>2
  <2>3. Closes(r) \subseteq Sessions
    BY DEF Closes, TypeOK
  <2>4. CASE Receive(r)
    BY <2>2, <2>3, <2>4 DEF Receive, Break, TypeOK
  <2>5. CASE PushIsLost(r)
    BY <2>2, <2>3, <2>5 DEF PushIsLost, TypeOK
  <2> QED
    BY <1>1, <2>4, <2>5
<1>2. CASE SweepStep(r)
  <2>1. CASE SweepFind(r) \/ SweepRoute(r)
    BY <2>1 DEF SweepFind, SweepRoute, Sweep, TypeOK
  <2>2. CASE SweepMark(r)
    BY <2>2 DEF SweepMark, Sweep, Disconnected, TypeOK, Status
  <2> QED
    BY <1>2, <2>1, <2>2 DEF SweepStep
<1>3. CASE Dies(r)
  BY <1>3 DEF Dies, TypeOK, Place
<1> QED
  BY <1>1, <1>2, <1>3

LEMMA AdminType ==
  ASSUME TypeOK, AdminNext
  PROVE  TypeOK'
<1> USE DEF cluster, access, faults, stream
<1>1. CASE CloseCluster
  <2>1. channel' \in [Replicas -> Seq(Sessions \cup {NoSession})]
    BY <1>1, AnnounceType DEF CloseCluster, TypeOK
  <2> QED
    BY <1>1, <2>1 DEF CloseCluster, Request, TypeOK
<1>2. CASE Disable \/ RotateRevoke
  <2>1. revoked' \subseteq Sessions /\ enrolled' \in BOOLEAN
    BY <1>2 DEF Disable, RotateRevoke, Revoke
  <2>2. admin' \in {"idle", "rotating", "closing"} /\ changes' \in Nat /\ status' \in Status
    BY <1>2 DEF Disable, RotateRevoke, Request, TypeOK, Status
  <2>3. UNCHANGED <<stream, streams, route, channel, stale, sweeper, faults>>
    BY <1>2 DEF Disable, RotateRevoke, Request
  <2> QED
    BY <2>1, <2>2, <2>3 DEF TypeOK
<1>3. CASE RotateStatus \/ CloseIsLost \/ Enable
  BY <1>3 DEF RotateStatus, CloseIsLost, Enable, Request, TypeOK, Status
<1>4. CASE Enroll
  BY <1>4 DEF Enroll, TypeOK, Status
<1> QED
  BY <1>1, <1>2, <1>3, <1>4 DEF AdminNext

LEMMA NextType == TypeOK /\ [Next]_vars => TypeOK'
<1> SUFFICES ASSUME TypeOK, [Next]_vars
             PROVE  TypeOK'
  OBVIOUS
<1> USE DEF cluster, access, faults, stream
<1>1. CASE RouteExpires \/ RouteIsLost \/ GoesStale
  <2>1. CASE RouteExpires
    BY <2>1 DEF RouteExpires, TypeOK
  <2>2. CASE RouteIsLost
    BY <2>2 DEF RouteIsLost, TypeOK
  <2>3. CASE GoesStale
    BY <2>3 DEF GoesStale, TypeOK
  <2> QED
    BY <1>1, <2>1, <2>2, <2>3
<1>2. CASE UNCHANGED vars
  BY <1>2 DEF vars, TypeOK
<1> QED
  BY <1>1, <1>2, StreamType, ReplicaType, AdminType DEF Next

-----------------------------------------------------------------------------
(***************************************************************************)
(* The registry.  OpenIsListed strengthens HealthyIsRegistered to streams  *)
(* that are still being registered; it is not inductive without that.      *)
(***************************************************************************)
OpenIsListed == \A s \in Sessions : at[s] \in Registered /\ s \notin broken => streams[host[s]] = s

Inv == TypeOK /\ OpenIsListed /\ RegisteredIsHeld

\* A stream moves on, is closed, or both, and the registry stays as it is.
LEMMA StaysListed ==
  ASSUME Inv, UNCHANGED <<host, streams>>, broken \subseteq broken', failures' \in {failures, failures + 1},
         \A s \in Sessions : at'[s] \in Registered <=> at[s] \in Registered,
         \A s \in Sessions : at[s] = "ended" => at'[s] = "ended"
  PROVE  OpenIsListed' /\ RegisteredIsHeld'
<1>1. OpenIsListed'
  BY DEF Inv, OpenIsListed
<1>2. \A s \in Sessions : FailedToRegister(s) => FailedToRegister(s)'
  BY DEF Inv, TypeOK, FailedToRegister
<1>3. RegisteredIsHeld'
  BY <1>2 DEF Inv, TypeOK, RegisteredIsHeld
<1> QED
  BY <1>1, <1>3

LEMMA RegisterLists ==
  ASSUME Inv, NEW s \in Sessions, Register(s)
  PROVE  OpenIsListed' /\ RegisteredIsHeld'
<1> DEFINE r == host[s]
<1>1. r \in Replicas /\ host' = host /\ failures' = failures
  BY DEF Register, Inv, TypeOK, Move, faults
<1>2. \A q \in Replicas : streams'[q] = IF q = r THEN s ELSE streams[q]
  BY <1>1 DEF Register, Inv, TypeOK
<1>3. \A t \in Sessions : at'[t] = IF t = s THEN "routed" ELSE at[t]
  BY DEF Register, Move, Inv, TypeOK
<1>4. broken \subseteq broken' /\ \A t \in Sessions : streams[r] = t => t \in broken'
  BY StreamRegistryAssumption DEF Register, Break
<1>5. OpenIsListed'
  BY <1>1, <1>2, <1>3, <1>4 DEF Inv, TypeOK, OpenIsListed, Registered
<1>6. ASSUME NEW q \in Replicas, streams'[q] # NoSession
      PROVE  host[streams'[q]] = q /\ (at'[streams'[q]] \in Registered \/ FailedToRegister(streams[q])')
  <2>1. CASE q = r
    BY <1>2, <1>3, <2>1 DEF Registered
  <2>2. CASE q # r
    <3>1. streams[q] # NoSession /\ streams[q] \in Sessions /\ host[streams[q]] = q
          /\ (at[streams[q]] \in Registered \/ FailedToRegister(streams[q]))
      BY <1>2, <1>6, <2>2 DEF Inv, TypeOK, RegisteredIsHeld
    <3>2. streams'[q] = streams[q] /\ at'[streams[q]] = at[streams[q]]
      BY <1>2, <1>3, <2>2, <3>1
    <3> QED
      BY <1>1, <1>4, <3>1, <3>2 DEF FailedToRegister
  <2> QED
    BY <2>1, <2>2
<1>7. RegisteredIsHeld'
  BY <1>1, <1>6 DEF RegisteredIsHeld
<1> QED
  BY <1>5, <1>7

\* What a failed registration replaces in the registry is closed, and so is the stream itself.
LEMMA RegisterFailsLists ==
  ASSUME Inv, NEW s \in Sessions, RegisterFails(s)
  PROVE  OpenIsListed' /\ RegisteredIsHeld'
<1> DEFINE r == host[s]
<1>1. r \in Replicas /\ host' = host /\ failures' # 0
  BY DEF RegisterFails, Inv, TypeOK, Move
<1>2. \A t \in Sessions : at'[t] = IF t = s THEN "ended" ELSE at[t]
  BY DEF RegisterFails, Move, Inv, TypeOK
<1>3. \/ streams' = streams /\ broken \subseteq broken'
      \/ /\ streams' = [streams EXCEPT ![r] = s]
         /\ broken \subseteq broken'
         /\ \A t \in Sessions : streams[r] = t => t \in broken'
  BY StreamRegistryAssumption DEF RegisterFails, Break
<1>4. OpenIsListed'
  BY <1>1, <1>2, <1>3 DEF Inv, TypeOK, OpenIsListed, Registered
<1>5. FailedToRegister(s)'
  <2>1. s \in broken'
    BY StreamRegistryAssumption DEF RegisterFails, Break
  <2> QED
    BY <1>2, <2>1 DEF RegisterFails, Inv, TypeOK, FailedToRegister
<1>6. \A t \in Sessions : FailedToRegister(t) => FailedToRegister(t)'
  BY <1>2, <1>3 DEF RegisterFails, Inv, TypeOK, FailedToRegister
<1>7. ASSUME NEW q \in Replicas, streams'[q] # NoSession
      PROVE  host[streams'[q]] = q /\ (at'[streams'[q]] \in Registered \/ FailedToRegister(streams[q])')
  <2>1. CASE streams'[q] = s /\ host[s] = q
    BY <1>5, <2>1
  <2>2. CASE streams'[q] # s \/ host[s] # q
    <3>1. streams'[q] = streams[q] /\ streams[q] \in Sessions
      BY <1>1, <1>3, <1>7, <2>2 DEF Inv, TypeOK
    <3>2. host[streams[q]] = q /\ (at[streams[q]] \in Registered \/ FailedToRegister(streams[q]))
      BY <1>7, <3>1 DEF Inv, RegisteredIsHeld
    <3> QED
      BY <1>2, <1>6, <2>2, <3>1, <3>2
  <2> QED
    BY <2>1, <2>2
<1>8. RegisteredIsHeld'
  BY <1>1, <1>7 DEF RegisteredIsHeld
<1> QED
  BY <1>4, <1>8

LEMMA UnregisterLists ==
  ASSUME Inv, NEW s \in Sessions, Unregister(s)
  PROVE  OpenIsListed' /\ RegisteredIsHeld'
<1> DEFINE r == host[s]
<1>1. r \in Replicas /\ host' = host /\ failures' = failures /\ broken' = broken /\ s \in broken
  BY DEF Unregister, Inv, TypeOK, Move, faults
<1>2. \A q \in Replicas :
        streams'[q] = IF q = r /\ streams[q] = s THEN NoSession ELSE streams[q]
  BY <1>1 DEF Unregister, Inv, TypeOK
<1>3. \A t \in Sessions \ {s} : at'[t] = at[t]
  BY DEF Unregister, Move, Inv, TypeOK
<1>4. ASSUME NEW t \in Sessions, at'[t] \in Registered, t \notin broken
      PROVE  streams'[host[t]] = t
  <2>1. t # s /\ at[t] \in Registered /\ host[t] \in Replicas
    BY <1>1, <1>3, <1>4 DEF Inv, TypeOK
  <2>2. streams[host[t]] = t
    BY <1>4, <2>1 DEF Inv, OpenIsListed
  <2> QED
    BY <1>2, <2>1, <2>2
<1>5. ASSUME NEW q \in Replicas, streams'[q] # NoSession
      PROVE  host[streams'[q]] = q /\ (at'[streams'[q]] \in Registered \/ FailedToRegister(streams[q])')
  <2>1. streams'[q] = streams[q] /\ streams[q] \in Sessions
    BY <1>2, <1>5 DEF Inv, TypeOK
  <2>2. host[streams[q]] = q /\ (at[streams[q]] \in Registered \/ FailedToRegister(streams[q]))
    BY <1>5, <2>1 DEF Inv, RegisteredIsHeld
  <2>3. streams[q] # s
    BY <1>2, <1>5, <2>2
  <2>4. FailedToRegister(streams[q]) => FailedToRegister(streams[q])'
    BY <1>1, <1>3, <2>1, <2>3 DEF FailedToRegister
  <2> QED
    BY <1>3, <2>1, <2>2, <2>3, <2>4
<1> QED
  BY <1>1, <1>4, <1>5 DEF OpenIsListed, RegisteredIsHeld

LEMMA DiesLists ==
  ASSUME Inv, NEW r \in Replicas, Dies(r)
  PROVE  OpenIsListed' /\ RegisteredIsHeld'
<1>1. host' = host /\ failures' = failures /\ broken' = broken
  BY DEF Dies
<1>2. \A q \in Replicas : streams'[q] = IF q = r THEN NoSession ELSE streams[q]
  BY DEF Dies, Inv, TypeOK
<1>3. \A t \in Sessions : at'[t] = IF host[t] = r /\ at[t] # "unused" THEN "ended" ELSE at[t]
  BY DEF Dies, Inv, TypeOK
<1>4. ASSUME NEW s \in Sessions, at'[s] \in Registered
      PROVE  at[s] \in Registered /\ host[s] # r /\ host[s] \in Replicas
  BY <1>3, <1>4 DEF Inv, TypeOK, Registered
<1>5. OpenIsListed'
  BY <1>1, <1>2, <1>4 DEF Inv, OpenIsListed
<1>6. ASSUME NEW q \in Replicas, streams'[q] # NoSession
      PROVE  host[streams'[q]] = q /\ (at'[streams'[q]] \in Registered \/ FailedToRegister(streams[q])')
  <2>1. q # r /\ streams'[q] = streams[q] /\ streams[q] \in Sessions
    BY <1>2, <1>6 DEF Inv, TypeOK
  <2>2. host[streams[q]] = q /\ (at[streams[q]] \in Registered \/ FailedToRegister(streams[q]))
    BY <1>6, <2>1 DEF Inv, RegisteredIsHeld
  <2>3. FailedToRegister(streams[q]) => FailedToRegister(streams[q])'
    BY <1>1, <1>3, <2>1, <2>2 DEF FailedToRegister
  <2> QED
    BY <1>3, <2>1, <2>2, <2>3
<1>7. RegisteredIsHeld'
  BY <1>1, <1>6 DEF RegisteredIsHeld
<1> QED
  BY <1>5, <1>7

(***************************************************************************)
(* Every other step leaves the registry and the registered as they are.    *)
(***************************************************************************)
LEMMA NextInv == Inv /\ [Next]_vars => Inv'
<1> SUFFICES ASSUME Inv, [Next]_vars
             PROVE  Inv'
  OBVIOUS
<1> USE DEF cluster, access, faults, stream
<1>1. TypeOK'
  BY NextType DEF Inv
<1>2. ASSUME NEW s \in Sessions,
             Open(s) \/ ReadHello(s) \/ DeleteRoute(s) \/ ClearStatus(s) \/ UnregisterFails(s)
      PROVE  OpenIsListed' /\ RegisteredIsHeld'
  <2>1. /\ at[s] \notin Registered /\ at[s] # "ended"
        /\ at'[s] \notin Registered
        /\ \A t \in Sessions \ {s} : at'[t] = at[t]
    BY <1>2 DEF Open, ReadHello, DeleteRoute, ClearStatus, UnregisterFails, Move, Registered, Inv, TypeOK
  <2>2. UNCHANGED <<host, streams, broken>> /\ failures' \in {failures, failures + 1}
    BY <1>2 DEF Open, ReadHello, DeleteRoute, ClearStatus, UnregisterFails, Move
  <2>3. \A t \in Sessions : (at'[t] \in Registered <=> at[t] \in Registered)
                            /\ (at[t] = "ended" => at'[t] = "ended")
    BY <2>1
  <2> QED
    BY <2>2, <2>3, StaysListed
<1>3. ASSUME NEW s \in Sessions, Supersede(s) \/ MarkConnected(s) \/ Heartbeat(s) \/ ReadHeartbeat(s)
      PROVE  OpenIsListed' /\ RegisteredIsHeld'
  <2>1. /\ at[s] \in Registered
        /\ at'[s] \in Registered
        /\ \A t \in Sessions \ {s} : at'[t] = at[t]
    BY <1>3 DEF Supersede, MarkConnected, Heartbeat, ReadHeartbeat, Move, Registered, Inv, TypeOK
  <2>2. UNCHANGED <<host, streams, broken, failures>>
    BY <1>3 DEF Supersede, MarkConnected, Heartbeat, ReadHeartbeat, Move
  <2>3. at[s] # "ended"
    BY <2>1 DEF Registered
  <2>4. \A t \in Sessions : (at'[t] \in Registered <=> at[t] \in Registered)
                            /\ (at[t] = "ended" => at'[t] = "ended")
    BY <2>1, <2>3
  <2> QED
    BY <2>2, <2>4, StaysListed
<1>4. ASSUME NEW s \in Sessions, Drop(s) \/ Recheck(s)
      PROVE  OpenIsListed' /\ RegisteredIsHeld'
  BY <1>4, StaysListed DEF Drop, Recheck, Break
<1>5. ASSUME NEW r \in Replicas, Receive(r) \/ PushIsLost(r) \/ SweepStep(r)
      PROVE  OpenIsListed' /\ RegisteredIsHeld'
  <2>1. UNCHANGED <<at, host, streams, failures>> /\ broken \subseteq broken'
    <3>1. CASE Receive(r) \/ PushIsLost(r)
      BY <3>1 DEF Receive, PushIsLost, Break
    <3>2. CASE SweepStep(r)
      BY <3>2 DEF SweepStep, SweepFind, SweepRoute, SweepMark, Sweep
    <3> QED
      BY <1>5, <3>1, <3>2
  <2> QED
    BY <2>1, StaysListed
<1>6. ASSUME RouteExpires \/ RouteIsLost \/ GoesStale \/ AdminNext \/ UNCHANGED vars
      PROVE  OpenIsListed' /\ RegisteredIsHeld'
  <2>1. UNCHANGED <<at, host, streams, broken>> /\ failures' \in {failures, failures + 1}
    BY <1>6 DEF RouteExpires, RouteIsLost, GoesStale, vars, AdminNext, Disable, RotateRevoke, RotateStatus,
                CloseCluster, CloseIsLost, Enable, Enroll, Request
  <2> QED
    BY <2>1, StaysListed
<1>7. OpenIsListed' /\ RegisteredIsHeld'
  BY <1>2, <1>3, <1>4, <1>5, <1>6, RegisterLists, RegisterFailsLists, UnregisterLists, DiesLists
     DEF Next, StreamStep
<1> QED
  BY <1>1, <1>7 DEF Inv

-----------------------------------------------------------------------------
LEMMA InitRegistry == Init => Inv
<1>1. Init => OpenIsListed /\ RegisteredIsHeld
  BY DEF Init, RegistryBegins, OpenIsListed, RegisteredIsHeld, Registered
<1> QED
  BY <1>1, InitType DEF Inv

\* The invariant the theorems below rest on, at every step of streams.service.ts.
LEMMA RegistryInvariant == Spec => []Inv
  BY InitRegistry, NextInv, PTL DEF Spec

\* Every variable keeps its type; in particular nothing but a stream is ever closed.
THEOREM TypeCorrect == Spec => []TypeOK
<1>1. Inv => TypeOK
  BY DEF Inv
<1> QED
  BY <1>1, RegistryInvariant, PTL

\* A stream that is served and not closing is the one its replica has registered, however
\* registrations, ends, deaths and failing calls are interleaved: what is sent reaches it.
THEOREM HealthyRegistered == Spec => []HealthyIsRegistered
<1>1. Inv => HealthyIsRegistered
  BY DEF Inv, OpenIsListed, HealthyIsRegistered, Healthy, Served, Registered
<1> QED
  BY <1>1, RegistryInvariant, PTL

\* The registry names no stream of another replica, and none that has ended but one that was
\* given up and closed when a call to Redis or the database failed.
THEOREM RegisteredHeld == Spec => []RegisteredIsHeld
<1>1. Inv => RegisteredIsHeld
  BY DEF Inv
<1> QED
  BY <1>1, RegistryInvariant, PTL

-----------------------------------------------------------------------------
(***************************************************************************)
(* Log sessions.  A record is removed by one caller of finish, who is the  *)
(* only one to go on; the session is never recorded again, because create  *)
(* makes a new id.  So the steps after the removal happen once.            *)
(***************************************************************************)
EndingTypes ==
  /\ record \in [LogIds -> {"none", "waiting", "open"}]
  /\ maker \in [LogIds -> {"none", "recorded", "listed", "done", "orphaned", "lost"}]
  /\ ender \in [LogIds -> {"none", "removed", "cleared", "ended", "lost"}]
  /\ published \in [LogIds -> Nat]

\* Until it is created a session has neither record nor end; one that is recorded has no end;
\* the end is published with the last step of the caller that removed the record.
EndingOf(i) ==
  /\ maker[i] = "none" => record[i] = "none" /\ ender[i] = "none"
  /\ record[i] # "none" => ender[i] = "none"
  /\ published[i] = IF ender[i] = "ended" THEN 1 ELSE 0

EndingInv == EndingTypes /\ \A i \in LogIds : EndingOf(i)

ending == <<record, maker, ender, published>>

LEMMA EndingStays == EndingInv /\ UNCHANGED ending => EndingInv'
  BY DEF EndingInv, EndingTypes, EndingOf, ending

\* What finish does to a record and to its caller.
LEMMA RemovesKeeps ==
  ASSUME EndingInv, NEW i \in LogIds, NEW tell \in BOOLEAN, NEW here \in BOOLEAN,
         Removes(i, tell, here)
  PROVE  EndingInv'
<1>1. CASE record[i] = "none"
  <2>1. record' = record
    BY <1>1 DEF Removes, Set, EndingInv, EndingTypes
  <2>2. UNCHANGED ending
    BY <1>1, <2>1 DEF Removes, ending
  <2>3. QED  BY <2>2, EndingStays
<1>2. CASE record[i] # "none"
  <2>1. /\ record' = [record EXCEPT ![i] = "none"] /\ ender' = [ender EXCEPT ![i] = "removed"]
        /\ UNCHANGED <<maker, published>>
    BY <1>2 DEF Removes, Set
  <2>2. QED  BY <1>2, <2>1 DEF EndingInv, EndingTypes, EndingOf
<1>3. QED  BY <1>1, <1>2

\* The steps of one session.
LEMMA SessionKeeps ==
  ASSUME EndingInv, NEW i \in LogIds,
         \/ Create(i) \/ AttachGet(i) \/ LogStep(i) \/ Leave(i)
         \/ Stop(i) \/ HardTimeout(i) \/ SweepOwned(i) \/ Expires(i) \/ AliveExpires(i)
         \/ onAgentEnded(i) \/ tellToStop(i) \/ EndSession(i)
  PROVE  EndingInv'
<1>1. CASE Create(i)
  BY <1>1 DEF Create, Set, EndingInv, EndingTypes, EndingOf
<1>2. CASE CreateLists(i) \/ CreateOwns(i)
  <2>1. /\ maker[i] # "none" /\ UNCHANGED <<record, ender, published>>
        /\ \E to \in {"listed", "done"} : maker' = [maker EXCEPT ![i] = to]
    BY <1>2 DEF CreateLists, CreateOwns, Set, redis
  <2>2. QED  BY <2>1 DEF EndingInv, EndingTypes, EndingOf
<1>3. CASE AttachGet(i) \/ AttachSubscribe(i) \/ AttachFirst(i) \/ Leave(i)
  <2>1. UNCHANGED ending
    BY <1>3 DEF AttachGet, AttachSubscribe, AttachFirst, Leave, View, ending
  <2>2. QED  BY <2>1, EndingStays
<1>4. CASE AttachStart(i)
  <2>1. CASE Delivered
    <3>1. /\ UNCHANGED <<maker, ender, published>>
          /\ record' = IF record[i] = "none" THEN record ELSE [record EXCEPT ![i] = "open"]
      BY <1>4, <2>1 DEF AttachStart, Set
    <3>2. QED  BY <3>1 DEF EndingInv, EndingTypes, EndingOf
  <2>2. CASE ~Delivered
    BY <1>4, <2>2, RemovesKeeps DEF AttachStart, Here
  <2>3. QED  BY <2>1, <2>2
<1>5. CASE Stop(i) \/ HardTimeout(i) \/ SweepOwned(i)
  BY <1>5, RemovesKeeps DEF Stop, HardTimeout, SweepOwned, Finish, Here
<1>6. CASE Expires(i)
  BY <1>6 DEF Expires, Set, server, EndingInv, EndingTypes, EndingOf
<1>7. CASE onAgentEnded(i)
  <2>1. CASE record[i] = "none"
    BY <1>7, <2>1, EndingStays DEF onAgentEnded, redis, server, ending
  <2>2. CASE record[i] # "none"
    BY <1>7, <2>2, RemovesKeeps DEF onAgentEnded, Here
  <2>3. QED  BY <2>1, <2>2
<1>8. CASE FinishClears(i)
  BY <1>8 DEF FinishClears, Set, EndingInv, EndingTypes, EndingOf
<1>9. CASE FinishPublishes(i)
  <2>1. /\ ender[i] = "cleared" /\ ender' = [ender EXCEPT ![i] = "ended"]
        /\ published' = [published EXCEPT ![i] = published[i] + 1]
        /\ UNCHANGED <<record, maker>>
    BY <1>9 DEF FinishPublishes, Set, redis
  <2>2. published[i] = 0
    BY <2>1 DEF EndingInv, EndingOf
  <2>3. QED  BY <2>1, <2>2 DEF EndingInv, EndingTypes, EndingOf
<1>10. CASE tellToStop(i) \/ EndSession(i)
  BY <1>10, EndingStays DEF tellToStop, EndSession, redis, server, ending
<1>11. CASE AliveExpires(i)
  BY <1>11, EndingStays DEF AliveExpires, server, ending
<1>12. QED
  BY <1>1, <1>2, <1>3, <1>4, <1>5, <1>6, <1>7, <1>8, <1>9, <1>10, <1>11 DEF LogStep

LEMMA NextEnding == EndingInv /\ [LogNext]_logVars => EndingInv'
<1> SUFFICES ASSUME EndingInv, [LogNext]_logVars PROVE EndingInv'
  OBVIOUS
<1>1. CASE endCluster
  <2>1. /\ record' = [i \in LogIds |-> IF i \in listed THEN "none" ELSE record[i]]
        /\ ender' = [i \in LogIds |-> IF i \in listed /\ record[i] # "none" THEN "removed"
                                      ELSE ender[i]]
        /\ UNCHANGED <<maker, published>>
    BY <1>1 DEF endCluster
  <2>2. EndingTypes'
    BY <2>1 DEF EndingInv, EndingTypes
  <2>3. ASSUME NEW i \in LogIds PROVE EndingOf(i)'
    BY <2>1 DEF EndingInv, EndingTypes, EndingOf
  <2>4. QED  BY <2>2, <2>3 DEF EndingInv
<1>2. CASE HandleLogs \/ Cut \/ Reconnect \/ UNCHANGED logVars
  <2>1. UNCHANGED ending
    BY <1>2 DEF HandleLogs, Cut, Reconnect, logVars, redis, server, ending
  <2>2. QED  BY <2>1, EndingStays
<1>3. CASE ReplicaLost
  <2>1. PICK owners \in SUBSET owned,
             makers \in SUBSET {i \in LogIds : maker[i] \in {"recorded", "listed"}},
             viewers \in SUBSET {i \in LogIds : viewer[i] \notin {"none", "left"}},
             enders \in SUBSET {i \in LogIds : ender[i] \in {"removed", "cleared"}} :
          ReplicaGone(owners, makers, viewers, enders)
    BY <1>3 DEF ReplicaLost
  <2>2. /\ UNCHANGED <<record, published>>
        /\ maker' = [i \in LogIds |-> IF i \in owners THEN "orphaned"
                                      ELSE IF i \in makers THEN "lost" ELSE maker[i]]
        /\ ender' = [i \in LogIds |-> IF i \in enders THEN "lost" ELSE ender[i]]
    BY <2>1 DEF ReplicaGone, redis
  <2>3. EndingTypes'
    BY <2>2 DEF EndingInv, EndingTypes
  <2>4. ASSUME NEW i \in LogIds PROVE EndingOf(i)'
    BY <2>2 DEF EndingInv, EndingTypes, EndingOf
  <2>5. QED  BY <2>3, <2>4 DEF EndingInv
<1>4. QED
  BY <1>1, <1>2, <1>3, SessionKeeps DEF LogNext

(***************************************************************************)
(* The end of a session is published once at most, and only of a session   *)
(* whose record is gone, however many callers finish has.                  *)
(***************************************************************************)
THEOREM SessionsEndOnce == LogSpec => []EndedOnce
<1>1. LogInit => EndingInv
  BY DEF LogInit, LogBegins, All, EndingInv, EndingTypes, EndingOf
<1>2. EndingInv => EndedOnce
  BY DEF EndingInv, EndingTypes, EndingOf, EndedOnce
<1>3. QED  BY <1>1, <1>2, NextEnding, PTL DEF LogSpec

-----------------------------------------------------------------------------
(***************************************************************************)
(* Alerts.  Evaluations work from lists that may be stale, so what they    *)
(* still have to do is related to the table as it is now, not as they read *)
(* it: an entry with a time of notification is of an event people have     *)
(* heard start, and whoever still has an end to tell is the one who moved  *)
(* the event to RESOLVED.                                                  *)
(***************************************************************************)
Entry == Nat \X Conditions \X {"never", "recently", "long ago"}
Heard == [began : BOOLEAN, ended : Nat]
Evaluation ==
  [at : {"asleep", "facts", "working", "telling", "noting"}, rule : BOOLEAN,
   open : SUBSET Entry, found : SUBSET Conditions, gone : SUBSET Entry,
   message : Nat \X {"none", "fired", "renotify", "resolved"}]

AlertTables ==
  /\ alertEvents \in Seq(AlertEvent) /\ heard \in Seq(Heard)
  /\ Len(heard) = Len(alertEvents) /\ Len(alertEvents) <= MaxEvents

Ending(e) == e.at = "telling" /\ e.message[2] = "resolved"

\* What an evaluation holds, against the events and what has been heard of them.
EntriesOK(e, events, hs) ==
  /\ e.gone \subseteq e.open
  /\ \A o \in e.open : o[1] \in 1 .. Len(events) /\ (o[3] # "never" => hs[o[1]].began)

MessageOK(e, events, hs) ==
  LET m == e.message[1]
  IN /\ e.at \in {"telling", "noting"} => m \in 1 .. Len(events)
     /\ e.at = "noting" => hs[m].began
     /\ e.at = "telling" /\ e.message[2] # "fired" => hs[m].began
     /\ Ending(e) => events[m].state = "RESOLVED" /\ hs[m].ended = 0

EventOK(event, h) ==
  /\ h.ended <= 1
  /\ h.ended = 1 => h.began /\ event.state = "RESOLVED"
  /\ event.told # "never" => h.began

OneOpen ==
  \A i, j \in 1 .. Len(alertEvents) :
    /\ alertEvents[i].state = "FIRING" /\ alertEvents[j].state = "FIRING"
    /\ alertEvents[i].condition = alertEvents[j].condition
    => i = j

OneEnding ==
  \A r, s \in AlertReplicas :
    /\ Ending(evaluation[r]) /\ Ending(evaluation[s])
    /\ evaluation[r].message[1] = evaluation[s].message[1]
    => r = s

EventsOK == \A i \in 1 .. Len(alertEvents) : EventOK(alertEvents[i], heard[i])
EvaluationsOK ==
  \A r \in AlertReplicas :
    /\ EntriesOK(evaluation[r], alertEvents, heard)
    /\ MessageOK(evaluation[r], alertEvents, heard)

WorldTypes ==
  /\ holds \subseteq Conditions /\ enabled \in BOOLEAN /\ lock \in BOOLEAN
  /\ turns \in 0 .. MaxTurns /\ mishaps \in 0 .. MaxMishaps

AlertsInv ==
  /\ WorldTypes /\ AlertTables /\ evaluation \in [AlertReplicas -> Evaluation]
  /\ OneOpen /\ EventsOK /\ EvaluationsOK /\ OneEnding

-----------------------------------------------------------------------------
\* The tables only grow: no event goes, nothing that was heard is taken back, an event that has
\* ended stays so, and nobody hears of an end.
Grown(events, hs, events2, hs2) ==
  /\ Len(events) <= Len(events2)
  /\ \A i \in 1 .. Len(events) :
       /\ hs[i].began => hs2[i].began
       /\ hs2[i].ended = hs[i].ended
       /\ events[i].state = "RESOLVED" => events2[i].state = "RESOLVED"

\* Then what an evaluation holds stays right.
LEMMA GrownKeeps ==
  ASSUME NEW events \in Seq(AlertEvent), NEW hs \in Seq(Heard),
         NEW events2 \in Seq(AlertEvent), NEW hs2 \in Seq(Heard),
         Grown(events, hs, events2, hs2),
         NEW e \in Evaluation, EntriesOK(e, events, hs), MessageOK(e, events, hs)
  PROVE  EntriesOK(e, events2, hs2) /\ MessageOK(e, events2, hs2)
<1>0. /\ Len(events) \in Nat /\ Len(events2) \in Nat /\ Len(events) <= Len(events2)
      /\ 1 .. Len(events) \subseteq 1 .. Len(events2)
  BY LenProperties DEF Grown
<1>1. ASSUME NEW i \in 1 .. Len(events)
      PROVE  /\ hs[i].began => hs2[i].began
             /\ hs2[i].ended = hs[i].ended
             /\ events[i].state = "RESOLVED" => events2[i].state = "RESOLVED"
  BY DEF Grown
<1>2. EntriesOK(e, events2, hs2)
  BY <1>0, <1>1 DEF EntriesOK
<1>3. MessageOK(e, events2, hs2)
  BY <1>0, <1>1 DEF MessageOK, Ending
<1>4. QED  BY <1>2, <1>3

LEMMA RowType ==
  ASSUME AlertTables, NEW i \in 1 .. Len(alertEvents)
  PROVE  /\ alertEvents[i] \in AlertEvent /\ heard[i] \in Heard
         /\ i \in DOMAIN alertEvents /\ i \in DOMAIN heard
         /\ (i \in Firing <=> alertEvents[i].state = "FIRING")
<1>1. DOMAIN alertEvents = 1 .. Len(alertEvents) /\ DOMAIN heard = 1 .. Len(alertEvents)
  BY LenProperties DEF AlertTables
<1>2. QED  BY <1>1, ElementOfSeq DEF AlertTables, Firing

\* An evaluation goes on without touching the tables, and does not come to tell of an end.
LEMMA EvaluationChanges ==
  ASSUME AlertsInv, WorldTypes', UNCHANGED <<alertEvents, heard>>,
         NEW r \in AlertReplicas, NEW e \in Evaluation, Becomes(r, e),
         EntriesOK(e, alertEvents, heard), MessageOK(e, alertEvents, heard), ~Ending(e)
  PROVE  AlertsInv'
<1>1. evaluation' \in [AlertReplicas -> Evaluation]
  BY DEF AlertsInv, Becomes
<1>2. \A s \in AlertReplicas : evaluation'[s] = IF s = r THEN e ELSE evaluation[s]
  BY DEF AlertsInv, Becomes
<1>3. EvaluationsOK'
  BY <1>2 DEF AlertsInv, EvaluationsOK
<1>4. OneEnding'
  BY <1>2 DEF AlertsInv, OneEnding
<1>5. AlertTables' /\ OneOpen' /\ EventsOK'
  BY DEF AlertsInv, AlertTables, OneOpen, EventsOK
<1>6. QED  BY <1>1, <1>3, <1>4, <1>5 DEF AlertsInv

LEMMA TickKeeps == ASSUME AlertsInv, NEW r \in AlertReplicas, tick(r) PROVE AlertsInv'
<1> DEFINE open == {<<e, alertEvents[e].condition, alertEvents[e].told>> : e \in Firing}
           next == [Asleep EXCEPT !.at = "facts", !.rule = enabled, !.open = open]
<1>1. /\ Becomes(r, next) /\ UNCHANGED <<alertEvents, heard>> /\ WorldTypes'
  BY DEF tick, world, AlertsInv, WorldTypes
<1>2. ASSUME NEW e \in Firing
      PROVE  /\ e \in 1 .. Len(alertEvents) /\ alertEvents[e] \in AlertEvent
             /\ alertEvents[e].told # "never" => heard[e].began
  <2>1. e \in 1 .. Len(alertEvents)
    BY LenProperties DEF Firing, AlertsInv, AlertTables
  <2>2. QED  BY <2>1, RowType DEF AlertsInv, EventsOK, EventOK
<1>3. open \in SUBSET Entry
  <2>1. ASSUME NEW e \in Firing
        PROVE <<e, alertEvents[e].condition, alertEvents[e].told>> \in Entry
    <3>1. e \in Nat
      BY <1>2, LenProperties DEF AlertsInv, AlertTables
    <3>2. /\ alertEvents[e].condition \in Conditions
          /\ alertEvents[e].told \in {"never", "recently", "long ago"}
      BY <1>2 DEF AlertEvent
    <3>3. QED  BY <3>1, <3>2 DEF Entry
  <2>2. QED  BY <2>1
<1>4. ASSUME NEW o \in open
      PROVE  o[1] \in 1 .. Len(alertEvents) /\ (o[3] # "never" => heard[o[1]].began)
  BY <1>2
<1>5. /\ next.at = "facts" /\ next.open = open /\ next.gone = {} /\ next.found = {}
      /\ next \in Evaluation
  BY <1>3 DEF Asleep, Quiet, Evaluation, AlertsInv, WorldTypes
<1> HIDE DEF next, open
<1>6. EntriesOK(next, alertEvents, heard) /\ MessageOK(next, alertEvents, heard) /\ ~Ending(next)
  BY <1>4, <1>5 DEF EntriesOK, MessageOK, Ending
<1>7. QED  BY <1>1, <1>5, <1>6, EvaluationChanges

LEMMA LoadFactsKeeps == ASSUME AlertsInv, NEW r \in AlertReplicas, loadFacts(r) PROVE AlertsInv'
<1> DEFINE found == IF evaluation[r].rule THEN holds ELSE {}
           gone == {o \in evaluation[r].open : o[2] \notin found}
           next == [evaluation[r] EXCEPT !.at = "working", !.found = found, !.gone = gone]
<1>1. /\ Becomes(r, next) /\ UNCHANGED <<alertEvents, heard>> /\ WorldTypes'
  BY DEF loadFacts, world, AlertsInv, WorldTypes
<1>2. evaluation[r] \in Evaluation /\ found \subseteq Conditions /\ gone \subseteq evaluation[r].open
  BY DEF AlertsInv, WorldTypes
<1> HIDE DEF found, gone
<1>3. /\ next.at = "working" /\ next.open = evaluation[r].open /\ next.gone = gone
      /\ next \in Evaluation
  BY <1>2 DEF Evaluation
<1> HIDE DEF next
<1>4. EntriesOK(next, alertEvents, heard) /\ MessageOK(next, alertEvents, heard) /\ ~Ending(next)
  BY <1>2, <1>3 DEF EntriesOK, MessageOK, Ending, AlertsInv, EvaluationsOK
<1>5. QED  BY <1>1, <1>3, <1>4, EvaluationChanges

\* The evaluation goes back to its work, or to sleep.
LEMMA BackKeeps ==
  ASSUME AlertsInv, NEW r \in AlertReplicas, NotTakenOver(r) \/ Done(r) \/ GivenUp(r)
  PROVE  AlertsInv'
<1>1. /\ UNCHANGED <<alertEvents, heard>> /\ WorldTypes'
      /\ \/ Becomes(r, Asleep)
         \/ Becomes(r, [evaluation[r] EXCEPT !.at = "working", !.message = Quiet])
  BY AlertsAssumption DEF NotTakenOver, Done, GivenUp, Mishap, world, AlertsInv, WorldTypes
<1>2. CASE Becomes(r, Asleep)
  <2>1. Asleep \in Evaluation /\ Asleep.at = "asleep" /\ Asleep.open = {} /\ Asleep.gone = {}
    BY DEF Asleep, Quiet, Evaluation
  <2>2. EntriesOK(Asleep, alertEvents, heard) /\ MessageOK(Asleep, alertEvents, heard)
    BY <2>1 DEF EntriesOK, MessageOK, Ending
  <2>3. QED  BY <1>1, <1>2, <2>1, <2>2, EvaluationChanges DEF Ending
<1>3. CASE Becomes(r, [evaluation[r] EXCEPT !.at = "working", !.message = Quiet])
  <2> DEFINE next == [evaluation[r] EXCEPT !.at = "working", !.message = Quiet]
  <2>1. /\ next \in Evaluation /\ next.at = "working" /\ next.open = evaluation[r].open
        /\ next.gone = evaluation[r].gone
    BY DEF AlertsInv, Quiet, Evaluation
  <2> HIDE DEF next
  <2>2. EntriesOK(next, alertEvents, heard) /\ MessageOK(next, alertEvents, heard) /\ ~Ending(next)
    BY <2>1 DEF EntriesOK, MessageOK, Ending, AlertsInv, EvaluationsOK
  <2>3. Becomes(r, next)
    BY <1>3 DEF next
  <2>4. QED  BY <1>1, <2>1, <2>2, <2>3, EvaluationChanges
<1>4. QED  BY <1>1, <1>2, <1>3

LEMMA KeepKeeps ==
  ASSUME AlertsInv, NEW r \in AlertReplicas, NEW c \in Conditions, keep(r, c)
  PROVE  AlertsInv'
<1>1. evaluation[r] \in Evaluation
  BY DEF AlertsInv
<1>2. PICK o \in evaluation[r].open :
        Becomes(r, [IF o[3] = "recently" THEN evaluation[r]
                    ELSE Tells(r, o[1], IF o[3] = "never" THEN "fired" ELSE "renotify")
                      EXCEPT !.found = @ \ {c}])
  BY DEF keep, Known
<1>3. /\ UNCHANGED <<alertEvents, heard>> /\ WorldTypes' /\ evaluation[r].at = "working"
  BY DEF keep, world, AlertsInv, WorldTypes
<1>4. /\ o[1] \in 1 .. Len(alertEvents) /\ o[1] \in Nat
      /\ o[3] # "never" => heard[o[1]].began
  BY LenProperties DEF AlertsInv, AlertTables, EvaluationsOK, EntriesOK
<1>5. CASE o[3] = "recently"
  <2> DEFINE next == [evaluation[r] EXCEPT !.found = @ \ {c}]
  <2>1. /\ next \in Evaluation /\ next.at = "working" /\ next.open = evaluation[r].open
        /\ next.gone = evaluation[r].gone
    BY <1>1, <1>3 DEF Evaluation
  <2>2. Becomes(r, next)
    BY <1>2, <1>5
  <2> HIDE DEF next
  <2>3. EntriesOK(next, alertEvents, heard) /\ MessageOK(next, alertEvents, heard) /\ ~Ending(next)
    BY <2>1 DEF EntriesOK, MessageOK, Ending, AlertsInv, EvaluationsOK
  <2>4. QED  BY <1>3, <2>1, <2>2, <2>3, EvaluationChanges
<1>6. CASE o[3] # "recently"
  <2> DEFINE kind == IF o[3] = "never" THEN "fired" ELSE "renotify"
             next == [evaluation[r] EXCEPT !.at = "telling", !.message = <<o[1], kind>>,
                                           !.found = @ \ {c}]
  <2>1. /\ next \in Evaluation /\ next.at = "telling" /\ next.open = evaluation[r].open
        /\ next.gone = evaluation[r].gone /\ next.message[1] = o[1] /\ next.message[2] = kind
    BY <1>1, <1>4 DEF Evaluation
  <2>2. Becomes(r, next)
    BY <1>1, <1>2, <1>6 DEF Tells, Evaluation
  <2>3. kind # "fired" => heard[o[1]].began
    BY <1>4
  <2>4. kind # "resolved"
    OBVIOUS
  <2> HIDE DEF next, kind
  <2>5. EntriesOK(next, alertEvents, heard)
    BY <2>1 DEF EntriesOK, AlertsInv, EvaluationsOK
  <2>6. MessageOK(next, alertEvents, heard) /\ ~Ending(next)
    BY <1>4, <2>1, <2>3, <2>4 DEF MessageOK, Ending
  <2>7. QED  BY <1>3, <2>1, <2>2, <2>5, <2>6, EvaluationChanges
<1>7. QED  BY <1>5, <1>6

\* A step of one evaluation under which the tables grow.
LEMMA TablesChange ==
  ASSUME AlertsInv, WorldTypes', AlertTables', OneOpen', EventsOK',
         Grown(alertEvents, heard, alertEvents', heard'),
         NEW r \in AlertReplicas, NEW e \in Evaluation, Becomes(r, e),
         EntriesOK(e, alertEvents', heard'), MessageOK(e, alertEvents', heard'),
         \A s \in AlertReplicas \ {r} :
           ~ (Ending(e) /\ Ending(evaluation[s]) /\ evaluation[s].message[1] = e.message[1])
  PROVE  AlertsInv'
<1>1. /\ evaluation \in [AlertReplicas -> Evaluation]
      /\ evaluation' \in [AlertReplicas -> Evaluation]
      /\ \A s \in AlertReplicas : evaluation'[s] = IF s = r THEN e ELSE evaluation[s]
  BY DEF AlertsInv, Becomes
<1>2. ASSUME NEW s \in AlertReplicas
      PROVE  /\ EntriesOK(evaluation'[s], alertEvents', heard')
             /\ MessageOK(evaluation'[s], alertEvents', heard')
  <2>1. CASE s = r
    BY <1>1, <2>1
  <2>2. CASE s # r
    <3>1. /\ alertEvents \in Seq(AlertEvent) /\ heard \in Seq(Heard)
          /\ alertEvents' \in Seq(AlertEvent) /\ heard' \in Seq(Heard)
      BY DEF AlertsInv, AlertTables
    <3>2. /\ evaluation[s] \in Evaluation
          /\ EntriesOK(evaluation[s], alertEvents, heard)
          /\ MessageOK(evaluation[s], alertEvents, heard)
      BY <1>1 DEF AlertsInv, EvaluationsOK
    <3>3. QED  BY <1>1, <2>2, <3>1, <3>2, GrownKeeps
  <2>3. QED  BY <2>1, <2>2
<1>3. EvaluationsOK'
  BY <1>2 DEF EvaluationsOK
<1>4. OneEnding'
  BY <1>1 DEF AlertsInv, OneEnding
<1>5. QED  BY <1>1, <1>3, <1>4 DEF AlertsInv

LEMMA FireKeeps ==
  ASSUME AlertsInv, NEW r \in AlertReplicas, NEW c \in Conditions, fire(r, c)
  PROVE  AlertsInv'
<1>0. /\ evaluation[r] \in Evaluation /\ evaluation[r].at = "working" /\ WorldTypes'
      /\ EntriesOK(evaluation[r], alertEvents, heard)
  BY DEF fire, world, AlertsInv, WorldTypes, EvaluationsOK
<1>1. CASE OpenFor(c) # {}
  <2> DEFINE next == [evaluation[r] EXCEPT !.found = @ \ {c}]
  <2>1. /\ next \in Evaluation /\ next.at = "working" /\ next.open = evaluation[r].open
        /\ next.gone = evaluation[r].gone
    BY <1>0 DEF Evaluation
  <2>2. Becomes(r, next) /\ UNCHANGED <<alertEvents, heard>>
    BY <1>1 DEF fire
  <2> HIDE DEF next
  <2>3. EntriesOK(next, alertEvents, heard) /\ MessageOK(next, alertEvents, heard) /\ ~Ending(next)
    BY <1>0, <2>1 DEF EntriesOK, MessageOK, Ending
  <2>4. QED  BY <1>0, <2>1, <2>2, <2>3, EvaluationChanges
<1>2. CASE OpenFor(c) = {}
  <2> DEFINE n == Len(alertEvents)
             event == [condition |-> c, state |-> "FIRING", told |-> "never"]
             next == [evaluation[r] EXCEPT !.at = "telling", !.message = <<n + 1, "fired">>,
                                           !.found = @ \ {c}]
  <2>1. /\ n < MaxEvents /\ alertEvents' = Append(alertEvents, event)
        /\ heard' = Append(heard, [began |-> FALSE, ended |-> 0])
        /\ Becomes(r, next)
    BY <1>0, <1>2 DEF fire, Insert, Tells, Evaluation
  <2>2. /\ alertEvents \in Seq(AlertEvent) /\ heard \in Seq(Heard) /\ n \in Nat /\ Len(heard) = n
        /\ event \in AlertEvent /\ [began |-> FALSE, ended |-> 0] \in Heard
    BY LenProperties DEF AlertsInv, AlertTables, AlertEvent, Heard
  <2>3. /\ alertEvents' \in Seq(AlertEvent) /\ heard' \in Seq(Heard)
        /\ Len(alertEvents') = n + 1 /\ Len(heard') = n + 1
        /\ \A i \in 1 .. n : alertEvents'[i] = alertEvents[i] /\ heard'[i] = heard[i]
        /\ alertEvents'[n + 1] = event /\ heard'[n + 1] = [began |-> FALSE, ended |-> 0]
    BY <2>1, <2>2, AppendProperties
  <2>4. AlertTables'
    BY <2>1, <2>2, <2>3, AlertsAssumption DEF AlertTables
  <2>5. Grown(alertEvents, heard, alertEvents', heard')
    BY <2>2, <2>3 DEF Grown
  <2>6. ASSUME NEW i \in 1 .. n, alertEvents[i].state = "FIRING"
        PROVE  alertEvents[i].condition # c
    BY <1>2, <2>6, RowType DEF OpenFor, AlertsInv
  <2>7. OneOpen'
    <3> SUFFICES ASSUME NEW i \in 1 .. n + 1, NEW j \in 1 .. n + 1,
                        alertEvents'[i].state = "FIRING", alertEvents'[j].state = "FIRING",
                        alertEvents'[i].condition = alertEvents'[j].condition
                 PROVE  i = j
      BY <2>3 DEF OneOpen
    <3>1. CASE i \in 1 .. n /\ j \in 1 .. n
      BY <2>3, <3>1 DEF AlertsInv, OneOpen
    <3>2. CASE i = n + 1 /\ j \in 1 .. n
      BY <2>3, <2>6, <3>2
    <3>3. CASE j = n + 1 /\ i \in 1 .. n
      BY <2>3, <2>6, <3>3
    <3>4. CASE i = n + 1 /\ j = n + 1
      BY <3>4
    <3>5. QED  BY <2>2, <3>1, <3>2, <3>3, <3>4
  <2>8. EventsOK'
    <3> SUFFICES ASSUME NEW i \in 1 .. n + 1 PROVE EventOK(alertEvents'[i], heard'[i])
      BY <2>3 DEF EventsOK
    <3>1. CASE i \in 1 .. n
      BY <2>3, <3>1 DEF AlertsInv, EventsOK
    <3>2. CASE i = n + 1
      BY <2>3, <3>2 DEF EventOK
    <3>3. QED  BY <2>2, <3>1, <3>2
  <2>9. /\ next \in Evaluation /\ next.at = "telling" /\ next.open = evaluation[r].open
        /\ next.gone = evaluation[r].gone /\ next.message[1] = n + 1 /\ next.message[2] = "fired"
    <3>1. <<n + 1, "fired">> \in Nat \X {"none", "fired", "renotify", "resolved"}
      BY <2>2
    <3> HIDE DEF n
    <3>2. QED  BY <1>0, <3>1 DEF Evaluation
  <2> HIDE DEF next
  <2>10. EntriesOK(next, alertEvents', heard')
    <3>1. EntriesOK(evaluation[r], alertEvents', heard')
      BY <1>0, <2>2, <2>3, <2>5, GrownKeeps DEF AlertsInv, EvaluationsOK
    <3>2. QED  BY <2>9, <3>1 DEF EntriesOK
  <2>11. MessageOK(next, alertEvents', heard') /\ ~Ending(next)
    BY <2>2, <2>3, <2>9 DEF MessageOK, Ending
  <2>12. QED
    BY <1>0, <2>1, <2>4, <2>5, <2>7, <2>8, <2>9, <2>10, <2>11, TablesChange
<1>3. QED  BY <1>1, <1>2

LEMMA ResolveKeeps == ASSUME AlertsInv, NEW r \in AlertReplicas, resolve(r) PROVE AlertsInv'
<1>1. PICK o \in evaluation[r].gone :
        /\ alertEvents' = [alertEvents EXCEPT ![o[1]].state = "RESOLVED"]
        /\ Becomes(r, [IF o[1] \in Firing /\ evaluation[r].rule /\ o[3] # "never"
                       THEN Tells(r, o[1], "resolved") ELSE evaluation[r] EXCEPT !.gone = @ \ {o}])
  BY DEF resolve
<1>2. /\ evaluation[r] \in Evaluation /\ evaluation[r].at = "working" /\ WorldTypes'
      /\ EntriesOK(evaluation[r], alertEvents, heard) /\ heard' = heard
  BY DEF resolve, world, AlertsInv, WorldTypes, EvaluationsOK
<1> DEFINE n == Len(alertEvents)
<1>3. /\ alertEvents \in Seq(AlertEvent) /\ heard \in Seq(Heard) /\ n \in Nat /\ Len(heard) = n
      /\ o[1] \in 1 .. n /\ o[1] \in Nat
      /\ o[3] # "never" => heard[o[1]].began
  BY <1>2, LenProperties DEF EntriesOK, AlertsInv, AlertTables
<1>4. /\ alertEvents' = [alertEvents EXCEPT ![o[1]] = [@ EXCEPT !.state = "RESOLVED"]]
      /\ [alertEvents[o[1]] EXCEPT !.state = "RESOLVED"] \in AlertEvent
  BY <1>1, <1>3, RowType DEF AlertEvent, AlertsInv
<1>5. /\ alertEvents' \in Seq(AlertEvent) /\ Len(alertEvents') = n
      /\ \A i \in 1 .. n : alertEvents'[i] = IF i = o[1] THEN [alertEvents[i] EXCEPT !.state = "RESOLVED"]
                                            ELSE alertEvents[i]
  BY <1>3, <1>4, ExceptSeq
<1>6. ASSUME NEW i \in 1 .. n
      PROVE  /\ alertEvents'[i].condition = alertEvents[i].condition
             /\ alertEvents'[i].told = alertEvents[i].told
             /\ alertEvents[i].state = "RESOLVED" => alertEvents'[i].state = "RESOLVED"
             /\ alertEvents'[i].state = "FIRING" => alertEvents[i].state = "FIRING"
             /\ i = o[1] => alertEvents'[i].state = "RESOLVED"
  BY <1>5, RowType DEF AlertEvent, AlertsInv
<1>7. AlertTables'
  BY <1>2, <1>3, <1>5 DEF AlertsInv, AlertTables
<1>8. OneOpen'
  BY <1>5, <1>6 DEF AlertsInv, OneOpen
<1>9. EventsOK'
  BY <1>2, <1>5, <1>6 DEF AlertsInv, EventsOK, EventOK
<1>10. Grown(alertEvents, heard, alertEvents', heard')
  BY <1>2, <1>3, <1>5, <1>6 DEF Grown
<1>11. CASE o[1] \in Firing /\ evaluation[r].rule /\ o[3] # "never"
  <2> DEFINE next == [evaluation[r] EXCEPT !.at = "telling", !.message = <<o[1], "resolved">>,
                                           !.gone = @ \ {o}]
  <2>1. Becomes(r, next)
    BY <1>1, <1>2, <1>11 DEF Tells, Evaluation
  <2>2. /\ next \in Evaluation /\ next.at = "telling" /\ next.open = evaluation[r].open
        /\ next.gone = evaluation[r].gone \ {o} /\ next.message[1] = o[1]
        /\ next.message[2] = "resolved"
    BY <1>2, <1>3 DEF Evaluation
  <2> HIDE DEF next
  <2>3. EntriesOK(next, alertEvents', heard')
    BY <1>2, <1>3, <1>5, <2>2 DEF EntriesOK
  <2>4. alertEvents[o[1]].state = "FIRING" /\ heard[o[1]] \in Heard
    BY <1>3, <1>11, RowType DEF AlertsInv
  <2>5. heard[o[1]].ended = 0
    <3>1. EventOK(alertEvents[o[1]], heard[o[1]])
      BY <1>3 DEF AlertsInv, EventsOK
    <3>2. heard[o[1]].ended \in Nat
      BY <2>4 DEF Heard
    <3>3. QED  BY <2>4, <3>1, <3>2 DEF EventOK
  <2>6. MessageOK(next, alertEvents', heard')
    BY <1>2, <1>3, <1>5, <1>6, <1>11, <2>2, <2>5 DEF MessageOK
  <2>7. ASSUME NEW s \in AlertReplicas
        PROVE  ~ (Ending(evaluation[s]) /\ evaluation[s].message[1] = o[1])
    BY <2>4 DEF AlertsInv, EvaluationsOK, MessageOK
  <2>8. QED
    BY <1>2, <1>7, <1>8, <1>9, <1>10, <2>1, <2>2, <2>3, <2>6, <2>7, TablesChange
<1>12. CASE ~ (o[1] \in Firing /\ evaluation[r].rule /\ o[3] # "never")
  <2> DEFINE next == [evaluation[r] EXCEPT !.gone = @ \ {o}]
  <2>1. Becomes(r, next)
    BY <1>1, <1>12
  <2>2. /\ next \in Evaluation /\ next.at = "working" /\ next.open = evaluation[r].open
        /\ next.gone = evaluation[r].gone \ {o}
    BY <1>2 DEF Evaluation
  <2> HIDE DEF next
  <2>3. EntriesOK(next, alertEvents', heard')
    BY <1>2, <1>3, <1>5, <2>2 DEF EntriesOK
  <2>4. MessageOK(next, alertEvents', heard') /\ ~Ending(next)
    BY <2>2 DEF MessageOK, Ending
  <2>5. QED
    BY <1>2, <1>7, <1>8, <1>9, <1>10, <2>1, <2>2, <2>3, <2>4, TablesChange
<1>13. QED  BY <1>11, <1>12

\* The time of an event's notification changes, of one whose start has been heard.
LEMMA NotedKeeps ==
  ASSUME AlertsInv, NEW i \in 1 .. Len(alertEvents), heard[i].began,
         NEW row \in AlertEvent, row.condition = alertEvents[i].condition,
         row.state = alertEvents[i].state,
         alertEvents' = [alertEvents EXCEPT ![i] = row], UNCHANGED heard
  PROVE  /\ AlertTables' /\ OneOpen' /\ EventsOK'
         /\ Grown(alertEvents, heard, alertEvents', heard')
<1> DEFINE n == Len(alertEvents)
<1>1. /\ alertEvents \in Seq(AlertEvent) /\ heard \in Seq(Heard) /\ n \in Nat /\ Len(heard) = n
      /\ i \in 1 .. n
  BY LenProperties DEF AlertsInv, AlertTables
<1>2. /\ alertEvents' \in Seq(AlertEvent) /\ Len(alertEvents') = n
      /\ \A j \in 1 .. n : alertEvents'[j] = IF j = i THEN row ELSE alertEvents[j]
  BY <1>1, ExceptSeq
<1>3. ASSUME NEW j \in 1 .. n
      PROVE  /\ alertEvents'[j].condition = alertEvents[j].condition
             /\ alertEvents'[j].state = alertEvents[j].state
             /\ j # i => alertEvents'[j].told = alertEvents[j].told
  BY <1>2
<1>4. AlertTables'
  BY <1>1, <1>2 DEF AlertsInv, AlertTables
<1>5. OneOpen'
  BY <1>2, <1>3 DEF AlertsInv, OneOpen
<1>6. EventsOK'
  BY <1>2, <1>3 DEF AlertsInv, EventsOK, EventOK
<1>7. Grown(alertEvents, heard, alertEvents', heard')
  BY <1>1, <1>2, <1>3 DEF Grown
<1>8. QED  BY <1>4, <1>5, <1>6, <1>7

\* The row whose time is noted, as the lemma wants it.
LEMMA NotedRow ==
  ASSUME AlertTables, NEW i \in 1 .. Len(alertEvents), NEW t \in {"recently", "long ago"},
         alertEvents' = [alertEvents EXCEPT ![i].told = t]
  PROVE  \E row \in AlertEvent :
           /\ row.condition = alertEvents[i].condition /\ row.state = alertEvents[i].state
           /\ alertEvents' = [alertEvents EXCEPT ![i] = row]
<1> DEFINE row == [alertEvents[i] EXCEPT !.told = t]
<1>1. alertEvents[i] \in AlertEvent
  BY RowType
<1>2. /\ row \in AlertEvent /\ row.condition = alertEvents[i].condition
      /\ row.state = alertEvents[i].state
  BY <1>1 DEF AlertEvent
<1>3. alertEvents' = [alertEvents EXCEPT ![i] = row]
  OBVIOUS
<1>4. QED  BY <1>2, <1>3

LEMMA NoteKeeps == ASSUME AlertsInv, NEW r \in AlertReplicas, Note(r) PROVE AlertsInv'
<1> DEFINE m == evaluation[r].message[1]
           next == [evaluation[r] EXCEPT !.at = "working", !.message = Quiet]
<1>1. /\ evaluation[r] \in Evaluation /\ evaluation[r].at = "noting" /\ WorldTypes'
      /\ EntriesOK(evaluation[r], alertEvents, heard) /\ MessageOK(evaluation[r], alertEvents, heard)
      /\ UNCHANGED heard /\ Becomes(r, next)
      /\ alertEvents' = [alertEvents EXCEPT ![m].told = "recently"]
  BY DEF Note, world, AlertsInv, WorldTypes, EvaluationsOK
<1>2. m \in 1 .. Len(alertEvents) /\ heard[m].began
  BY <1>1 DEF MessageOK
<1>3. /\ AlertTables' /\ OneOpen' /\ EventsOK'
      /\ Grown(alertEvents, heard, alertEvents', heard')
  <2>1. PICK row \in AlertEvent :
          /\ row.condition = alertEvents[m].condition /\ row.state = alertEvents[m].state
          /\ alertEvents' = [alertEvents EXCEPT ![m] = row]
    BY <1>1, <1>2, NotedRow DEF AlertsInv
  <2>2. QED  BY <1>1, <1>2, <2>1, NotedKeeps
<1>4. /\ next \in Evaluation /\ next.at = "working" /\ next.open = evaluation[r].open
      /\ next.gone = evaluation[r].gone
  BY <1>1 DEF Quiet, Evaluation
<1> HIDE DEF next
<1>5. EntriesOK(evaluation[r], alertEvents', heard')
  <2>1. /\ alertEvents \in Seq(AlertEvent) /\ heard \in Seq(Heard)
        /\ alertEvents' \in Seq(AlertEvent) /\ heard' \in Seq(Heard)
    BY <1>3 DEF AlertsInv, AlertTables
  <2>2. /\ evaluation[r] \in Evaluation /\ EntriesOK(evaluation[r], alertEvents, heard)
        /\ MessageOK(evaluation[r], alertEvents, heard)
    BY <1>1
  <2>3. QED  BY <1>3, <2>1, <2>2, GrownKeeps
<1>6. EntriesOK(next, alertEvents', heard') /\ MessageOK(next, alertEvents', heard') /\ ~Ending(next)
  BY <1>4, <1>5 DEF EntriesOK, MessageOK, Ending
<1>7. QED  BY <1>1, <1>3, <1>4, <1>6, TablesChange

LEMMA IntervalKeeps == ASSUME AlertsInv, NEW e \in Firing, IntervalPasses(e) PROVE AlertsInv'
<1>1. /\ alertEvents[e].told = "recently" /\ UNCHANGED <<heard, evaluation>>
      /\ alertEvents' = [alertEvents EXCEPT ![e].told = "long ago"]
      /\ UNCHANGED <<holds, enabled, lock, mishaps>> /\ turns < MaxTurns /\ turns' = turns + 1
  BY DEF IntervalPasses
<1>8. WorldTypes'
  <2>1. turns' \in 0 .. MaxTurns
    <3>1. turns \in 0 .. MaxTurns
      BY DEF AlertsInv, WorldTypes
    <3>2. turns < MaxTurns /\ turns' = turns + 1
      BY <1>1
    <3>3. QED  BY <3>1, <3>2, AlertsAssumption
  <2>2. QED  BY <1>1, <2>1 DEF AlertsInv, WorldTypes
<1>2. e \in 1 .. Len(alertEvents)
  BY LenProperties DEF Firing, AlertsInv, AlertTables
<1>3. heard[e].began
  BY <1>1, <1>2 DEF AlertsInv, EventsOK, EventOK
<1>4. /\ AlertTables' /\ OneOpen' /\ EventsOK'
      /\ Grown(alertEvents, heard, alertEvents', heard')
  <2>1. PICK row \in AlertEvent :
          /\ row.condition = alertEvents[e].condition /\ row.state = alertEvents[e].state
          /\ alertEvents' = [alertEvents EXCEPT ![e] = row]
    BY <1>1, <1>2, NotedRow DEF AlertsInv
  <2>2. QED  BY <1>1, <1>2, <1>3, <2>1, NotedKeeps
<1>5. ASSUME NEW s \in AlertReplicas
      PROVE  /\ EntriesOK(evaluation'[s], alertEvents', heard')
             /\ MessageOK(evaluation'[s], alertEvents', heard')
  <2>1. /\ evaluation[s] \in Evaluation
        /\ EntriesOK(evaluation[s], alertEvents, heard) /\ MessageOK(evaluation[s], alertEvents, heard)
    BY DEF AlertsInv, EvaluationsOK
  <2>2. /\ alertEvents \in Seq(AlertEvent) /\ heard \in Seq(Heard)
        /\ alertEvents' \in Seq(AlertEvent) /\ heard' \in Seq(Heard)
    BY <1>4 DEF AlertsInv, AlertTables
  <2>3. QED  BY <1>1, <1>4, <2>1, <2>2, GrownKeeps
<1>6. QED
  BY <1>1, <1>8, <1>4, <1>5 DEF AlertsInv, EvaluationsOK, OneEnding

\* An end is heard: only this evaluation had it to tell.
LEMMA NotifyKeeps == ASSUME AlertsInv, NEW r \in AlertReplicas, notify(r) PROVE AlertsInv'
<1> DEFINE m == evaluation[r].message[1]
           kind == evaluation[r].message[2]
           n == Len(alertEvents)
           next == [evaluation[r] EXCEPT !.at = "noting"]
           now == CASE kind = "fired" -> [heard[m] EXCEPT !.began = TRUE]
                    [] kind = "resolved" -> [heard[m] EXCEPT !.ended = heard[m].ended + 1]
                    [] OTHER -> heard[m]
<1>1. /\ evaluation[r] \in Evaluation /\ evaluation[r].at = "telling" /\ WorldTypes'
      /\ EntriesOK(evaluation[r], alertEvents, heard) /\ MessageOK(evaluation[r], alertEvents, heard)
      /\ UNCHANGED alertEvents /\ Becomes(r, next)
      /\ heard' = [heard EXCEPT ![m] = now]
  BY DEF notify, world, AlertsInv, WorldTypes, EvaluationsOK
<1>2. /\ alertEvents \in Seq(AlertEvent) /\ heard \in Seq(Heard) /\ n \in Nat /\ Len(heard) = n
      /\ m \in 1 .. n /\ heard[m] \in Heard /\ heard[m].ended \in Nat
  <2>1. m \in 1 .. n
    BY <1>1 DEF MessageOK
  <2>2. QED  BY <2>1, RowType, LenProperties DEF AlertsInv, AlertTables, Heard
<1>3. now \in Heard
  <2> DEFINE more == heard[m].ended + 1
  <2>1. CASE kind = "fired"
    BY <1>2, <2>1 DEF Heard
  <2>2. CASE kind = "resolved"
    <3>1. more \in Nat
      BY <1>2
    <3>2. now = [heard[m] EXCEPT !.ended = more]
      BY <2>2
    <3> HIDE DEF more, now
    <3>3. QED  BY <1>2, <3>1, <3>2 DEF Heard
  <2>3. CASE kind # "fired" /\ kind # "resolved"
    BY <1>2, <2>3
  <2>4. QED  BY <2>1, <2>2, <2>3
<1>4. /\ heard' \in Seq(Heard) /\ Len(heard') = n
      /\ \A i \in 1 .. n : heard'[i] = IF i = m THEN now ELSE heard[i]
  BY <1>1, <1>2, <1>3, ExceptSeq
<1>5. now.began /\ (heard[m].began => now.began)
  BY <1>1, <1>2 DEF MessageOK, Heard
<1>6. \/ now.ended = heard[m].ended /\ kind # "resolved"
      \/ /\ now.ended = heard[m].ended + 1 /\ kind = "resolved" /\ heard[m].ended = 0
         /\ alertEvents[m].state = "RESOLVED"
  BY <1>1, <1>2 DEF MessageOK, Ending, Heard
<1> HIDE DEF now
<1>7. AlertTables'
  BY <1>1, <1>2, <1>4 DEF AlertsInv, AlertTables
<1>8. OneOpen'
  BY <1>1 DEF AlertsInv, OneOpen
<1>9. EventsOK'
  <2> SUFFICES ASSUME NEW i \in 1 .. n PROVE EventOK(alertEvents[i], heard'[i])
    BY <1>1 DEF EventsOK
  <2>1. EventOK(alertEvents[i], heard[i])
    BY DEF AlertsInv, EventsOK
  <2>2. QED  BY <1>2, <1>4, <1>5, <1>6, <2>1 DEF EventOK
<1>10. /\ next \in Evaluation /\ next.at = "noting" /\ next.open = evaluation[r].open
       /\ next.gone = evaluation[r].gone /\ next.message[1] = m
  BY <1>1 DEF Evaluation
<1> HIDE DEF next
<1>11. /\ evaluation' \in [AlertReplicas -> Evaluation]
       /\ \A s \in AlertReplicas : evaluation'[s] = IF s = r THEN next ELSE evaluation[s]
  BY <1>1, <1>10 DEF AlertsInv, Becomes
<1>12. ASSUME NEW s \in AlertReplicas
       PROVE  EntriesOK(evaluation'[s], alertEvents', heard')
  <2>1. \A o \in evaluation[s].open :
          o[1] \in 1 .. n /\ (o[3] # "never" => heard[o[1]].began)
    BY DEF AlertsInv, EvaluationsOK, EntriesOK
  <2>2. evaluation[s].gone \subseteq evaluation[s].open
    BY DEF AlertsInv, EvaluationsOK, EntriesOK
  <2>3. \A o \in evaluation[s].open :
          o[1] \in 1 .. n /\ (o[3] # "never" => heard'[o[1]].began)
    BY <1>4, <1>5, <2>1
  <2>4. evaluation'[s].open = evaluation[s].open /\ evaluation'[s].gone = evaluation[s].gone
    BY <1>10, <1>11
  <2>5. QED  BY <1>1, <2>2, <2>3, <2>4 DEF EntriesOK
<1>13. ASSUME NEW s \in AlertReplicas
       PROVE  MessageOK(evaluation'[s], alertEvents', heard')
  <2>1. CASE s = r
    BY <1>1, <1>2, <1>4, <1>5, <1>10, <1>11, <2>1 DEF MessageOK, Ending
  <2>2. CASE s # r
    <3>1. MessageOK(evaluation[s], alertEvents, heard) /\ evaluation'[s] = evaluation[s]
      BY <1>11, <2>2 DEF AlertsInv, EvaluationsOK
    <3>2. Ending(evaluation[s]) /\ evaluation[s].message[1] = m => kind # "resolved"
      BY <1>1, <2>2 DEF AlertsInv, OneEnding, Ending
    <3>3. Ending(evaluation[s]) /\ evaluation[s].message[1] = m => now.ended = heard[m].ended
      BY <1>6, <3>2
    <3>4. \A i \in 1 .. n : heard[i].began => heard'[i].began
      BY <1>4, <1>5
    <3>5. QED  BY <1>1, <1>4, <3>1, <3>3, <3>4 DEF MessageOK, Ending
  <2>3. QED  BY <2>1, <2>2
<1>14. OneEnding'
  BY <1>10, <1>11 DEF AlertsInv, OneEnding, Ending
<1>15. EvaluationsOK'
  BY <1>12, <1>13 DEF EvaluationsOK
<1>16. QED
  BY <1>1, <1>7, <1>8, <1>9, <1>11, <1>14, <1>15 DEF AlertsInv

LEMMA NextAlerts == AlertsInv /\ [AlertsNext]_alertVars => AlertsInv'
<1> SUFFICES ASSUME AlertsInv, [AlertsNext]_alertVars PROVE AlertsInv'
  OBVIOUS
<1>1. CASE LockExpires \/ Turn \/ UNCHANGED alertVars
  <2>1. UNCHANGED <<alertEvents, heard, evaluation>> /\ WorldTypes'
    <3>1. CASE LockExpires \/ UNCHANGED alertVars
      BY <1>1, <3>1 DEF LockExpires, alertVars, world, AlertsInv, WorldTypes
    <3>2. CASE Turn
      <4>1. /\ UNCHANGED <<alertEvents, heard, evaluation, lock, mishaps>>
            /\ turns < MaxTurns /\ turns' = turns + 1
            /\ holds' \subseteq Conditions
        BY <3>2 DEF Turn, AlertsInv, WorldTypes
      <4>2. turns' \in 0 .. MaxTurns
        BY <4>1, AlertsAssumption DEF AlertsInv, WorldTypes
      <4>3. enabled' \in BOOLEAN
        BY <3>2 DEF Turn, AlertsInv, WorldTypes
      <4>4. QED  BY <4>1, <4>2, <4>3 DEF AlertsInv, WorldTypes
    <3>3. QED  BY <1>1, <3>1, <3>2
  <2>2. QED
    BY <2>1 DEF AlertsInv, AlertTables, OneOpen, EventsOK, EvaluationsOK, OneEnding
<1>2. ASSUME NEW r \in AlertReplicas, tick(r) \/ EvaluationStep(r) \/ NotTakenOver(r) \/ GivenUp(r)
      PROVE  AlertsInv'
  BY <1>2, TickKeeps, LoadFactsKeeps, ResolveKeeps, NotifyKeeps, NoteKeeps, BackKeeps, FireKeeps,
     KeepKeeps DEF EvaluationStep
<1>3. QED
  BY <1>1, <1>2, IntervalKeeps DEF AlertsNext

LEMMA InitAlerts == AlertsInit => AlertsInv
<1> SUFFICES ASSUME AlertsInit PROVE AlertsInv
  OBVIOUS
<1>1. alertEvents = <<>> /\ heard = <<>> /\ Len(alertEvents) = 0 /\ Len(heard) = 0
  BY EmptySeq DEF AlertsInit
<1>2. AlertTables
  BY <1>1, EmptySeq, AlertsAssumption DEF AlertTables
<1>3. Asleep \in Evaluation /\ Asleep.at = "asleep" /\ Asleep.open = {} /\ Asleep.gone = {}
  BY DEF Asleep, Quiet, Evaluation
<1>4. evaluation \in [AlertReplicas -> Evaluation] /\ \A r \in AlertReplicas : evaluation[r] = Asleep
  BY <1>3 DEF AlertsInit
<1>5. EvaluationsOK /\ OneEnding
  BY <1>3, <1>4 DEF EvaluationsOK, EntriesOK, MessageOK, Ending, OneEnding
<1>6. OneOpen /\ EventsOK
  BY <1>1 DEF OneOpen, EventsOK
<1>7. WorldTypes
  <2>1. turns \in 0 .. MaxTurns /\ mishaps \in 0 .. MaxMishaps
    BY AlertsAssumption DEF AlertsInit
  <2>2. QED  BY <2>1 DEF AlertsInit, WorldTypes
<1>8. QED  BY <1>2, <1>4, <1>5, <1>6, <1>7 DEF AlertsInv

LEMMA AlertsAlways == AlertsSpec => []AlertsInv
  BY InitAlerts, NextAlerts, PTL DEF AlertsSpec

LEMMA AlertsInvMeans == AlertsInv => AlertsTypeOK
<1> SUFFICES ASSUME AlertsInv PROVE AlertsTypeOK
  OBVIOUS
<1>1. ASSUME NEW r \in AlertReplicas
      PROVE  /\ evaluation[r].at \in {"asleep", "facts", "working", "telling", "noting"}
             /\ evaluation[r].found \subseteq Conditions
             /\ evaluation[r].gone \subseteq evaluation[r].open
  BY DEF AlertsInv, Evaluation, EvaluationsOK, EntriesOK
<1>2. QED  BY <1>1 DEF AlertsInv, WorldTypes, AlertTables, Heard, AlertsTypeOK

\* Every variable of the alert engine keeps its type, for any number of conditions and replicas.
THEOREM AlertsTyped == AlertsSpec => []AlertsTypeOK
  BY AlertsInvMeans, AlertsAlways, PTL

(***************************************************************************)
(* A condition has one open event, and the end of an event is told once at *)
(* most, to people who heard it start, when it has ended, however many     *)
(* replicas evaluate from however stale lists.                             *)
(***************************************************************************)
THEOREM AlertsAreNotDuplicated == AlertsSpec => []NoDuplicates
<1>1. AlertsInv => NoDuplicates
  <2> SUFFICES ASSUME AlertsInv PROVE NoDuplicates
    OBVIOUS
  <2>1. DOMAIN alertEvents = 1 .. Len(alertEvents)
    BY LenProperties DEF AlertsInv, AlertTables
  <2>2. ASSUME NEW e \in Firing, NEW f \in Firing,
               alertEvents[e].condition = alertEvents[f].condition
        PROVE  e = f
    BY <2>1, <2>2 DEF Firing, AlertsInv, OneOpen
  <2>3. QED  BY <2>1, <2>2 DEF AlertsInv, EventsOK, EventOK, NoDuplicates
<1>2. QED  BY <1>1, AlertsAlways, PTL

-----------------------------------------------------------------------------
(***************************************************************************)
(* The agent's side of the log sessions.  start closes one session, the    *)
(* oldest, where the code closes as many as it takes: one is enough,       *)
(* because no more than MaxSessions are ever live, and each is listed in   *)
(* order once.                                                             *)
(***************************************************************************)
LogTypes ==
  /\ record \in [LogIds -> {"none", "waiting", "open"}]
  /\ listed \in SUBSET LogIds /\ startedKey \in SUBSET LogIds /\ aliveKey \in SUBSET LogIds
  /\ owned \in SUBSET LogIds /\ tells \in SUBSET LogIds
  /\ maker \in [LogIds -> {"none", "recorded", "listed", "done", "orphaned", "lost"}]
  /\ viewer \in [LogIds -> {"none", "found", "subscribed", "first", "watching", "left"}]
  /\ told \in SUBSET LogIds
  /\ ender \in [LogIds -> {"none", "removed", "cleared", "ended", "lost"}]
  /\ published \in [LogIds -> Nat]
  /\ link \in {"up", "down"} /\ unnoticed \in BOOLEAN
  /\ toAgent \in Seq({"start", "stop"} \X LogIds)
  /\ notices \in SUBSET LogIds /\ cuts \in Nat /\ crashes \in Nat /\ single \in BOOLEAN

AgentKeepsLimit == Cardinality(Live) <= MaxSessions

Streaming ==
  /\ order \in Seq(LogIds) /\ Once(order) /\ closing \in SUBSET ToSet(order)
  /\ AgentKeepsLimit

LogInv == LogTypes /\ Streaming

LEMMA StreamingStays == Streaming /\ UNCHANGED <<order, closing>> => Streaming'
  BY DEF Streaming, AgentKeepsLimit, Live, Once

LEMMA LogBegin ==
  ASSUME NEW open \in SUBSET LogIds, IsFiniteSet(open), Cardinality(open) <= MaxSessions,
         NEW lost \in SUBSET LogIds, NEW b \in Nat, NEW d \in Nat, NEW one \in BOOLEAN,
         LogBegins(open, lost, b, d, one)
  PROVE  LogInv
<1> USE DEF LogBegins
<1>1. LogTypes
  <2>1. toAgent \in Seq({"start", "stop"} \X LogIds)
    BY EmptySeq
  <2>2. ender \in [LogIds -> {"none", "removed", "cleared", "ended", "lost"}]
        /\ published \in [LogIds -> Nat]
    BY DEF All
  <2>3. /\ record \in [LogIds -> {"none", "waiting", "open"}]
        /\ maker \in [LogIds -> {"none", "recorded", "listed", "done", "orphaned", "lost"}]
        /\ viewer \in [LogIds -> {"none", "found", "subscribed", "first", "watching", "left"}]
    OBVIOUS
  <2>4. /\ unnoticed \in BOOLEAN /\ link \in {"up", "down"}
        /\ cuts \in Nat /\ crashes \in Nat /\ single \in BOOLEAN
    OBVIOUS
  <2> QED
    BY <2>1, <2>2, <2>3, <2>4 DEF LogTypes
<1>2. /\ order \in Seq(open) /\ ToSet(order) = open
      /\ \A i, j \in 1 .. Len(order) : order[i] = order[j] => i = j
  BY SetInOrder
<1>3. order \in Seq(LogIds) /\ Once(order)
  BY <1>2, Elements, LenProperties DEF Once
<1>4. Live = open
  BY <1>2 DEF Live
<1> QED
  BY <1>1, <1>3, <1>4 DEF LogInv, Streaming, AgentKeepsLimit

\* What is written to the stream.
LEMMA SendType ==
  ASSUME LogTypes, NEW what \in {"start", "stop"}, NEW i \in LogIds, Send(what, i)
  PROVE  toAgent' \in Seq({"start", "stop"} \X LogIds)
<1>1. <<what, i>> \in {"start", "stop"} \X LogIds
  OBVIOUS
<1>2. toAgent \in Seq({"start", "stop"} \X LogIds)
  BY DEF LogTypes
<1>3. Append(toAgent, <<what, i>>) \in Seq({"start", "stop"} \X LogIds)
  BY <1>1, <1>2, AppendProperties
<1> QED
  BY <1>2, <1>3 DEF Send

LEMMA RemovesTypes ==
  ASSUME LogTypes, NEW i \in LogIds, NEW tell \in BOOLEAN, NEW here \in BOOLEAN,
         Removes(i, tell, here)
  PROVE  /\ record' \in [LogIds -> {"none", "waiting", "open"}]
         /\ ender' \in [LogIds -> {"none", "removed", "cleared", "ended", "lost"}]
         /\ tells' \in SUBSET LogIds /\ owned' \in SUBSET LogIds /\ listed' \in SUBSET LogIds
         /\ UNCHANGED <<startedKey, aliveKey, maker, published>>
  BY DEF LogTypes, Removes, Set

\* The steps of one session but its end at the agent leave the agent's list alone.
LEMMA SessionTypes ==
  ASSUME LogInv, NEW i \in LogIds,
         \/ Create(i) \/ AttachGet(i) \/ LogStep(i) \/ Leave(i)
         \/ Stop(i) \/ HardTimeout(i) \/ SweepOwned(i) \/ Expires(i) \/ AliveExpires(i)
         \/ onAgentEnded(i) \/ tellToStop(i)
  PROVE  LogInv'
<1> USE DEF breakage
<1>0. LogTypes /\ Streaming
  BY DEF LogInv
<1>1. ASSUME LogTypes', UNCHANGED <<order, closing>> PROVE LogInv'
  BY <1>0, <1>1, StreamingStays DEF LogInv
<1>2. CASE Create(i) \/ CreateLists(i) \/ CreateOwns(i) \/ Expires(i) \/ AliveExpires(i)
  BY <1>0, <1>1, <1>2
     DEF Create, CreateLists, CreateOwns, Expires, AliveExpires, LogTypes, Set, redis, server, agent
<1>3. CASE AttachGet(i) \/ AttachSubscribe(i) \/ AttachFirst(i) \/ Leave(i)
  <2>1. /\ UNCHANGED <<record, listed, maker, told, link, unnoticed, order, closing, notices, breakage>>
        /\ UNCHANGED <<owned, ender, tells, published, toAgent>>
    BY <1>3 DEF AttachGet, AttachSubscribe, AttachFirst, Leave, View, agent
  <2>2. viewer' \in [LogIds -> {"none", "found", "subscribed", "first", "watching", "left"}]
    <3>1. ASSUME NEW from, NEW to \in {"found", "subscribed", "first", "watching", "left"},
                 View(i, from, to)
          PROVE  viewer' \in [LogIds -> {"none", "found", "subscribed", "first", "watching", "left"}]
      BY <1>0, <3>1 DEF View, Set, LogTypes
    <3>2. CASE AttachFirst(i)
      <4>1. View(i, "subscribed", "watching") \/ View(i, "subscribed", "first")
        BY <3>2 DEF AttachFirst
      <4> QED
        BY <3>1, <4>1
    <3>3. CASE AttachGet(i) \/ AttachSubscribe(i) \/ Leave(i)
      BY <3>1, <3>3 DEF AttachGet, AttachSubscribe, Leave
    <3> QED
      BY <1>3, <3>2, <3>3
  <2>3. startedKey' \in SUBSET LogIds /\ aliveKey' \in SUBSET LogIds
    BY <1>0, <1>3 DEF AttachGet, AttachSubscribe, AttachFirst, Leave, LogTypes
  <2> QED
    BY <1>0, <1>1, <2>1, <2>2, <2>3 DEF LogTypes
<1>4. CASE AttachStart(i)
  <2>1. /\ viewer' \in [LogIds -> {"none", "found", "subscribed", "first", "watching", "left"}]
        /\ UNCHANGED <<told, link, unnoticed, order, closing, notices, breakage>>
    BY <1>0, <1>4 DEF AttachStart, Set, LogTypes, agent
  <2>2. CASE Delivered
    <3>1. /\ toAgent' \in Seq({"start", "stop"} \X LogIds)
          /\ record' \in [LogIds -> {"none", "waiting", "open"}]
          /\ UNCHANGED <<listed, startedKey, aliveKey, owned, maker, ender, tells, published>>
      BY <1>0, <1>4, <2>2, SendType DEF AttachStart, Set, LogTypes
    <3> QED
      BY <1>0, <1>1, <2>1, <3>1 DEF LogTypes
  <2>3. CASE ~Delivered
    <3>1. PICK here \in BOOLEAN : Removes(i, FALSE, here) /\ UNCHANGED toAgent
      BY <1>4, <2>3 DEF AttachStart, Here
    <3> QED
      BY <1>0, <1>1, <2>1, <3>1, RemovesTypes DEF LogTypes
  <2> QED
    BY <2>2, <2>3
<1>5. CASE Stop(i) \/ HardTimeout(i) \/ SweepOwned(i)
  <2>1. PICK here \in BOOLEAN :
          /\ Removes(i, TRUE, here)
          /\ UNCHANGED <<viewer, told, link, unnoticed, toAgent, order, closing, notices, breakage>>
    BY <1>5 DEF Stop, HardTimeout, SweepOwned, Finish, Here, agent
  <2> QED
    BY <1>0, <1>1, <2>1, RemovesTypes DEF LogTypes
<1>6. CASE onAgentEnded(i)
  <2>1. notices' \in SUBSET LogIds /\ UNCHANGED <<link, unnoticed, toAgent, order, closing, breakage>>
    BY <1>0, <1>6 DEF onAgentEnded, LogTypes
  <2>2. CASE UNCHANGED <<redis, server>>
    BY <1>0, <1>1, <2>1, <2>2 DEF LogTypes, redis, server
  <2>3. ASSUME NEW here \in BOOLEAN, Removes(i, FALSE, here), UNCHANGED <<viewer, told>>
        PROVE  LogInv'
    BY <1>0, <1>1, <2>1, <2>3, RemovesTypes DEF LogTypes
  <2> QED
    BY <1>6, <2>2, <2>3 DEF onAgentEnded, Here
<1>7. CASE FinishClears(i)
  BY <1>0, <1>1, <1>7 DEF FinishClears, Set, LogTypes, agent
<1>8. CASE FinishPublishes(i)
  <2>1. /\ UNCHANGED <<record, listed, startedKey, aliveKey, owned, maker, viewer, tells, link,
                       unnoticed, order, closing, notices, breakage>>
        /\ ender' \in [LogIds -> {"none", "removed", "cleared", "ended", "lost"}]
        /\ told' \in SUBSET LogIds
    BY <1>0, <1>8 DEF FinishPublishes, Set, LogTypes, redis, agent
  <2>2. published' \in [LogIds -> Nat]
    <3>1. published[i] + 1 \in Nat
      BY <1>0 DEF LogTypes
    <3> QED
      BY <1>0, <1>8, <3>1 DEF FinishPublishes, Set, LogTypes
  <2>3. toAgent' \in Seq({"start", "stop"} \X LogIds)
    BY <1>0, <1>8, SendType DEF FinishPublishes, LogTypes
  <2> QED
    BY <1>0, <1>1, <2>1, <2>2, <2>3 DEF LogTypes
<1>9. CASE tellToStop(i)
  <2>1. Send("stop", i) /\ UNCHANGED <<redis, server, link, unnoticed, agent, breakage>>
    BY <1>9 DEF tellToStop
  <2>2. toAgent' \in Seq({"start", "stop"} \X LogIds)
    BY <1>0, <2>1, SendType
  <2> QED
    BY <1>0, <1>1, <2>1, <2>2 DEF LogTypes, redis, server, agent
<1> QED
  BY <1>2, <1>3, <1>4, <1>5, <1>6, <1>7, <1>8, <1>9 DEF LogStep

\* The oldest of the live sessions is one of them.
LEMMA OldestLives ==
  ASSUME Streaming, Live # {}
  PROVE  Oldest \in Live
<1>1. /\ order \in Seq(LogIds) /\ DOMAIN order = 1 .. Len(order) /\ Len(order) \in Nat
      /\ \A x \in Live : \E p \in DOMAIN order : order[p] = x
  BY LenProperties DEF Streaming, Live, ToSet
<1> DEFINE places == {p \in DOMAIN order : order[p] \in Live}
<1>2. places \in SUBSET Nat /\ places # {}
  BY <1>1
<1>3. \E x \in places : \A y \in places : x <= y
  <2> HIDE DEF places
  <2> QED
    BY <1>2, LeastNumber
<1>4. Min(places) \in places
  BY <1>3 DEF Min
<1> QED
  BY <1>4 DEF Oldest

LEMMA LiveIsFinite ==
  ASSUME Streaming
  PROVE  IsFiniteSet(ToSet(order)) /\ IsFiniteSet(Live) /\ Cardinality(Live) \in Nat
<1>1. IsFiniteSet(ToSet(order))
  <2>1. order \in Seq(LogIds) /\ Len(order) \in Nat /\ order \in [1 .. Len(order) -> LogIds]
        /\ ToSet(order) = {order[i] : i \in 1 .. Len(order)}
    BY Elements DEF Streaming
  <2>2. IsFiniteSet(1 .. Len(order))
    BY <2>1, FirstNumbers
  <2>3. order \in Surjection(1 .. Len(order), ToSet(order))
    BY <2>1 DEF Surjection
  <2> QED
    BY <2>2, <2>3, FS_Surjection
<1> QED
  BY <1>1, FS_Difference, FS_CardinalityType DEF Live

LEMMA HandleLogsType == LogInv /\ HandleLogs => LogInv'
<1> SUFFICES ASSUME LogInv, HandleLogs PROVE LogInv'
  OBVIOUS
<1> USE DEF breakage
<1>0. /\ LogTypes /\ Streaming /\ MaxSessions \in Nat \ {0}
      /\ order \in Seq(LogIds) /\ Once(order) /\ closing \in SUBSET ToSet(order)
      /\ Cardinality(Live) <= MaxSessions
  BY LogSessionsAssumption DEF LogInv, Streaming, AgentKeepsLimit
<1>1. PICK m \in {"start", "stop"} \X LogIds : m = Head(toAgent)
  <2>1. toAgent # <<>> /\ toAgent \in Seq({"start", "stop"} \X LogIds)
    BY <1>0 DEF HandleLogs, LogTypes
  <2> QED
    BY <2>1, TailSet
<1>2. toAgent' \in Seq({"start", "stop"} \X LogIds)
      /\ UNCHANGED <<redis, server, link, unnoticed, notices, breakage>>
  <2>1. toAgent # <<>> /\ toAgent \in Seq({"start", "stop"} \X LogIds) /\ toAgent' = Tail(toAgent)
    BY <1>0 DEF HandleLogs, LogTypes
  <2> QED
    BY <2>1, TailSet DEF HandleLogs
<1>3. LogTypes'
  BY <1>0, <1>2 DEF LogTypes, redis, server
<1>4. IsFiniteSet(Live) /\ Cardinality(Live) \in Nat
  BY <1>0, LiveIsFinite
<1>5. PICK i \in LogIds : i = m[2]
  OBVIOUS
<1>6. CASE i \notin ToSet(order) /\ order' = Append(order, i)
           /\ closing' = IF Cardinality(Live) >= MaxSessions THEN closing \cup {Oldest} ELSE closing
  <2>1. order' \in Seq(LogIds) /\ Once(order') /\ ToSet(order') = ToSet(order) \cup {i}
    BY <1>0, <1>6, AppendSet, AppendedOnce
  <2>2. CASE Cardinality(Live) >= MaxSessions
    <3>1. Live # {}
      <4>1. SUFFICES ASSUME Live = {} PROVE FALSE
        OBVIOUS
      <4>2. Cardinality(Live) = 0
        BY <4>1, FS_EmptySet
      <4> QED
        BY <1>0, <2>2, <4>2
    <3>2. Oldest \in Live /\ Oldest \in ToSet(order)
      BY <1>0, <3>1, OldestLives DEF Live
    <3>3. closing' = closing \cup {Oldest} /\ closing' \in SUBSET ToSet(order')
      BY <1>0, <1>6, <2>1, <2>2, <3>2
    <3>4. ToSet(order') \ closing' = (Live \ {Oldest}) \cup {i}
      BY <1>0, <1>6, <2>1, <3>2, <3>3 DEF Live
    <3>5. /\ IsFiniteSet(Live \ {Oldest}) /\ Cardinality(Live \ {Oldest}) = Cardinality(Live) - 1
          /\ Cardinality(Live \ {Oldest}) \in Nat
      BY <1>4, <3>2, OneLess
    <3>6. /\ Cardinality((Live \ {Oldest}) \cup {i}) = Cardinality(Live \ {Oldest}) + 1
          \/ Cardinality((Live \ {Oldest}) \cup {i}) = Cardinality(Live \ {Oldest})
      BY <3>5, FS_AddElement
    <3>7. Cardinality((Live \ {Oldest}) \cup {i}) <= MaxSessions
      BY <1>0, <1>4, <3>5, <3>6
    <3> QED
      BY <1>3, <2>1, <3>3, <3>4, <3>7 DEF LogInv, Streaming, AgentKeepsLimit, Live, Once
  <2>3. CASE ~ (Cardinality(Live) >= MaxSessions)
    <3>1. closing' = closing /\ closing' \in SUBSET ToSet(order')
      BY <1>0, <1>6, <2>1, <2>3
    <3>2. ToSet(order') \ closing' = Live \cup {i}
      BY <1>0, <1>6, <2>1, <3>1 DEF Live
    <3>3. \/ Cardinality(Live \cup {i}) = Cardinality(Live) + 1
          \/ Cardinality(Live \cup {i}) = Cardinality(Live)
      BY <1>4, FS_AddElement
    <3>4. Cardinality(Live \cup {i}) <= MaxSessions
      BY <1>0, <1>4, <2>3, <3>3
    <3> QED
      BY <1>3, <2>1, <3>1, <3>2, <3>4 DEF LogInv, Streaming, AgentKeepsLimit, Live, Once
  <2> QED
    BY <2>2, <2>3
<1>7. CASE closing' = closing \cup ({i} \cap ToSet(order)) /\ UNCHANGED order
  <2>1. closing' \in SUBSET ToSet(order')
    BY <1>0, <1>7
  <2>2. ToSet(order') \ closing' = Live \ {i}
    BY <1>7 DEF Live
  <2>3. Cardinality(Live \ {i}) <= Cardinality(Live) /\ Cardinality(Live \ {i}) \in Nat
    BY <1>4, FS_Subset, FS_CardinalityType
  <2>4. Cardinality(Live \ {i}) <= MaxSessions
    BY <1>0, <1>4, <2>3
  <2> QED
    BY <1>0, <1>3, <1>7, <2>1, <2>2, <2>4 DEF LogInv, Streaming, AgentKeepsLimit, Live, Once
<1>8. CASE UNCHANGED <<order, closing>>
  BY <1>0, <1>3, <1>8, StreamingStays DEF LogInv
<1> QED
  BY <1>1, <1>5, <1>6, <1>7, <1>8 DEF HandleLogs, StartSession

LEMMA EndSessionType ==
  ASSUME LogInv, NEW i \in LogIds, EndSession(i)
  PROVE  LogInv'
<1> USE DEF breakage
<1>0. /\ LogTypes /\ Streaming
      /\ order \in Seq(LogIds) /\ Once(order) /\ closing \in SUBSET ToSet(order)
      /\ Cardinality(Live) <= MaxSessions
  BY DEF LogInv, Streaming, AgentKeepsLimit
<1>1. PICK p \in DOMAIN order : order[p] = i /\ order' = RemoveAt(order, p)
  BY DEF EndSession, Forgets
<1>2. order' \in Seq(LogIds) /\ Once(order') /\ ToSet(order') = ToSet(order) \ {i}
  BY <1>0, <1>1, RemovedOnce
<1>3. closing' = closing \ {i} /\ notices' \in SUBSET LogIds
      /\ UNCHANGED <<redis, server, link, unnoticed, toAgent, breakage>>
  BY <1>0 DEF EndSession, LogTypes
<1>4. LogTypes'
  BY <1>0, <1>3 DEF LogTypes, redis, server
<1>5. IsFiniteSet(Live) /\ Cardinality(Live) \in Nat
  BY <1>0, LiveIsFinite
<1>6. closing' \in SUBSET ToSet(order') /\ ToSet(order') \ closing' = Live \ {i}
  BY <1>0, <1>2, <1>3 DEF Live
<1>7. Cardinality(Live \ {i}) <= Cardinality(Live) /\ Cardinality(Live \ {i}) \in Nat
  BY <1>5, FS_Subset, FS_CardinalityType
<1>8. Cardinality(Live \ {i}) <= MaxSessions
  BY <1>0, <1>5, <1>7, LogSessionsAssumption
<1> QED
  BY <1>2, <1>4, <1>6, <1>8 DEF LogInv, Streaming, AgentKeepsLimit, Live, Once

LEMMA LinkTypes == LogInv /\ (endCluster \/ Cut \/ Reconnect \/ ReplicaLost) => LogInv'
<1> SUFFICES ASSUME LogInv, endCluster \/ Cut \/ Reconnect \/ ReplicaLost PROVE LogInv'
  OBVIOUS
<1> USE DEF breakage
<1>0. LogTypes /\ Streaming
  BY DEF LogInv
<1>1. CASE endCluster
  <2>1. UNCHANGED <<startedKey, aliveKey, maker, viewer, told, tells, published, link, toAgent,
                    order, closing, notices, breakage>> /\ unnoticed' = FALSE
    BY <1>1 DEF endCluster, agent
  <2>2. /\ record' \in [LogIds -> {"none", "waiting", "open"}]
        /\ ender' \in [LogIds -> {"none", "removed", "cleared", "ended", "lost"}]
        /\ owned' \in SUBSET LogIds /\ listed' \in SUBSET LogIds
    BY <1>0, <1>1 DEF endCluster, LogTypes
  <2>3. unnoticed' \in BOOLEAN
    BY <2>1
  <2> QED
    BY <1>0, <2>1, <2>2, <2>3, StreamingStays DEF LogInv, LogTypes
<1>2. CASE Cut
  <2>1. /\ link' = "down" /\ unnoticed' = TRUE /\ cuts' = cuts + 1 /\ toAgent' = <<>>
        /\ notices' = {} /\ order' = <<>> /\ closing' = {}
        /\ UNCHANGED <<redis, server, crashes, single>>
    BY <1>2 DEF Cut
  <2>2. toAgent' \in Seq({"start", "stop"} \X LogIds) /\ cuts' \in Nat /\ unnoticed' \in BOOLEAN
    <3>1. toAgent' \in Seq({"start", "stop"} \X LogIds)
      BY <2>1, EmptySeq
    <3>2. cuts' \in Nat
      BY <1>0, <2>1 DEF LogTypes
    <3> QED
      BY <2>1, <3>1, <3>2
  <2>3. LogTypes'
    BY <1>0, <2>1, <2>2 DEF LogTypes, redis, server
  <2>4. order' \in Seq(LogIds) /\ ToSet(order') = {} /\ Once(order')
    <3>1. <<>> \in Seq(LogIds) /\ DOMAIN <<>> = 1 .. 0
      BY EmptySeq, LenProperties
    <3> QED
      BY <2>1, <3>1, EmptySet, EmptySeq DEF Once
  <2>5. Cardinality({}) = 0 /\ 0 <= MaxSessions
    BY FS_EmptySet, LogSessionsAssumption
  <2>6. closing' \in SUBSET ToSet(order') /\ ToSet(order') \ closing' = {}
    BY <2>1, <2>4
  <2> QED
    BY <2>3, <2>4, <2>5, <2>6 DEF LogInv, Streaming, AgentKeepsLimit, Live, Once
<1>3. CASE Reconnect
  <2>1. link' = "up" /\ unnoticed' \in BOOLEAN /\ UNCHANGED <<redis, server, toAgent, agent, breakage>>
    BY <1>0, <1>3 DEF Reconnect, LogTypes
  <2> QED
    BY <1>0, <2>1, StreamingStays DEF LogInv, LogTypes, redis, server, agent
<1>4. CASE ReplicaLost
  <2>1. PICK owners \in SUBSET owned,
             makers \in SUBSET {i \in LogIds : maker[i] \in {"recorded", "listed"}},
             viewers \in SUBSET {i \in LogIds : viewer[i] \notin {"none", "left"}},
             enders \in SUBSET {i \in LogIds : ender[i] \in {"removed", "cleared"}} :
          ReplicaGone(owners, makers, viewers, enders)
    BY <1>4 DEF ReplicaLost
  <2>2. UNCHANGED <<redis, told, tells, published, link, toAgent, agent, cuts, single>>
    BY <2>1 DEF ReplicaGone
  <2>3. owned' \in SUBSET LogIds /\ crashes' \in Nat
    BY <1>0, <2>1 DEF ReplicaGone, LogTypes
  <2>4. unnoticed' \in BOOLEAN
    <3>1. unnoticed' \in {unnoticed, FALSE} /\ unnoticed \in BOOLEAN
      BY <1>0, <2>1 DEF ReplicaGone, LogTypes
    <3> QED
      BY <3>1
  <2>5. maker' \in [LogIds -> {"none", "recorded", "listed", "done", "orphaned", "lost"}]
    BY <1>0, <2>1 DEF ReplicaGone, LogTypes
  <2>6. viewer' \in [LogIds -> {"none", "found", "subscribed", "first", "watching", "left"}]
    BY <1>0, <2>1 DEF ReplicaGone, LogTypes
  <2>7. ender' \in [LogIds -> {"none", "removed", "cleared", "ended", "lost"}]
    BY <1>0, <2>1 DEF ReplicaGone, LogTypes
  <2> QED
    BY <1>0, <2>2, <2>3, <2>4, <2>5, <2>6, <2>7, StreamingStays DEF LogInv, LogTypes, redis, agent
<1> QED
  BY <1>1, <1>2, <1>3, <1>4

LEMMA NextLogInv == LogInv /\ [LogNext]_logVars => LogInv'
<1> SUFFICES ASSUME LogInv, [LogNext]_logVars PROVE LogInv'
  OBVIOUS
<1> USE DEF breakage
<1>1. CASE UNCHANGED logVars
  BY <1>1, StreamingStays DEF logVars, redis, server, agent, LogInv, LogTypes
<1> QED
  BY <1>1, SessionTypes, EndSessionType, HandleLogsType, LinkTypes DEF LogNext

LEMMA LogInvMeans == LogInv => LogTypeOK /\ AgentKeepsLimit
  BY DEF LogInv, LogTypes, Streaming, LogTypeOK

(***************************************************************************)
(* For any number of sessions, cuts and any limit: what the two sides of   *)
(* the log sessions hold is of its type, an end is only asked of a session *)
(* that is listed, and no more than MaxSessions are live (start of         *)
(* streamer.go).                                                           *)
(***************************************************************************)
THEOREM LogsTyped == LogSpec => [](LogTypeOK /\ AgentKeepsLimit)
<1>1. LogInit => LogInv
  <2>1. IsFiniteSet({}) /\ Cardinality({}) = 0
    BY FS_EmptySet
  <2>2. Cardinality({}) <= MaxSessions
    BY <2>1, LogSessionsAssumption
  <2> QED
    BY <2>1, <2>2, LogBegin DEF LogInit
<1> QED
  BY <1>1, NextLogInv, LogInvMeans, PTL DEF LogSpec


-----------------------------------------------------------------------------
(***************************************************************************)
(* The components of MCComponents together: a step is of one of them, and  *)
(* the others stay as they are, so the invariant of each is kept.          *)
(***************************************************************************)
ComponentsInv == HandoverInv /\ LogInv /\ EndingInv /\ AlertsInv /\ Inv

LEMMA InitComponents == ComponentsInit => ComponentsInv
<1> SUFFICES ASSUME ComponentsInit PROVE ComponentsInv
  OBVIOUS
<1>1. LeaderInit /\ AlertsInit /\ Init
  BY DEF ComponentsInit
<1>2. PICK open \in SUBSET {OpenBefore}, lost \in SUBSET LogIds, d \in Nat, one \in BOOLEAN :
        LogBegins(open, lost, 0, d, one)
  <2>1. OpenBefore \in LogIds
    BY ComponentsAssumption DEF OpenBefore
  <2> QED
    BY <2>1, LogSessionsAssumption DEF ComponentsInit, LogsInit
<1>3. LogInv
  <2>1. OpenBefore \in LogIds
    BY ComponentsAssumption DEF OpenBefore
  <2>2. IsFiniteSet({OpenBefore}) /\ Cardinality({OpenBefore}) = 1
    BY FS_Singleton
  <2>3. Cardinality({OpenBefore}) <= MaxSessions
    BY <2>2, LogSessionsAssumption
  <2>4. /\ open \in SUBSET LogIds /\ IsFiniteSet(open)
        /\ Cardinality(open) <= MaxSessions
    BY <2>1, <2>2, <2>3, FS_Subset, FS_CardinalityType, LogSessionsAssumption
  <2> QED
    BY <1>2, <2>4, LogBegin
<1>4. EndingInv
  BY <1>2 DEF LogBegins, All, EndingInv, EndingTypes, EndingOf
<1> QED
  BY <1>1, <1>3, <1>4, InitHandover, InitAlerts, InitRegistry DEF ComponentsInv

LEMMA NextComponents == ComponentsInv /\ [ComponentsNext]_all => ComponentsInv'
<1> SUFFICES ASSUME ComponentsInv, [ComponentsNext]_all PROVE ComponentsInv'
  OBVIOUS
<1>1. /\ [LeaderNext]_leaderVars /\ [LogNext]_logVars /\ [AlertsNext]_alertVars /\ [Next]_vars
  BY DEF ComponentsNext, LeaderRuns, LogsRun, AlertsRun, StreamsRun, AgentRuns, all
<1> QED
  BY <1>1, NextHandover, NextLogInv, NextEnding, NextAlerts, NextInv DEF ComponentsInv

(***************************************************************************)
(* For any number of replicas, sessions, conditions and streams: the state *)
(* of the election, of the log sessions, of the alerts and of the stream   *)
(* registry is of its type, when sessions were open before, too.           *)
(***************************************************************************)
THEOREM ComponentsTyped == ComponentsSpec => []ComponentsTypeOK
<1>1. ComponentsInv => ComponentsTypeOK
  BY LogInvMeans, AlertsInvMeans DEF ComponentsInv, ComponentsTypeOK, HandoverInv, Inv
<1> QED
  BY <1>1, InitComponents, NextComponents, PTL DEF ComponentsSpec
=============================================================================
