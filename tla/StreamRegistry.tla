--------------------------- MODULE StreamRegistry ---------------------------
(***************************************************************************)
(* Which replica holds the stream of a cluster's agent                     *)
(* (vfm/server/src/streams/streams.service.ts): the registry in each       *)
(* replica's memory, the route in Redis, the status in the database, and   *)
(* the control channel on which a new stream closes the others.  None of   *)
(* them is changed together with another.                                  *)
(*                                                                         *)
(* Clusters do not share any of this state, so the module is about one.    *)
(* A stream is served by a coroutine of its own; a step is what it does    *)
(* between two awaits, a call to Redis taking effect with the code before  *)
(* it, for one connection keeps the order of the calls.                    *)
(***************************************************************************)
EXTENDS Integers, Sequences

CONSTANTS
  Sessions,      \* the streams ever opened (a bound)
  Replicas,
  NoSession,
  MaxChanges,    \* what administrators do (a bound)
  MaxDeaths,     \* replicas that die (a bound)
  MaxFailures    \* calls to Redis or to the database that fail (a bound)

ASSUME StreamRegistryAssumption ==
  /\ NoSession \notin Sessions
  /\ MaxChanges \in Nat /\ MaxDeaths \in Nat /\ MaxFailures \in Nat

VARIABLES
  at,        \* where each stream's coroutine is
  host,      \* the replica a stream is open to
  broken,    \* streams closed by us or dropped by the peer
  revoked,   \* streams whose certificate is on the deny-list
  streams,   \* StreamsService.streams of each replica
  route,     \* the session the Redis route names
  channel,   \* control messages each replica has still to receive
  status,    \* Cluster.status
  stale,     \* Cluster.lastSeenAt is older than the disconnect window
  enrolled,  \* the agent holds a certificate that is not revoked
  sweeper,   \* where the stale-stream sweep of each replica is
  admin,     \* what an administrator's request has still to do
  changes, deaths, failures,
  unheard    \* streams that a control message would have closed and was lost (history)

stream == <<at, host, broken>>
cluster == <<status, stale>>
access == <<revoked, enrolled, admin, changes>>
faults == <<deaths, failures, unheard>>
vars == <<stream, streams, route, channel, cluster, access, sweeper, faults>>

Place == {"unused", "hello", "admitted", "routed", "published", "serving", "beating",
          "deleting", "clearing", "ended"}
Status == {"PENDING", "ENROLLED", "CONNECTED", "DISCONNECTED", "DISABLED"}

Served == {s \in Sessions : at[s] \in {"serving", "beating"}}
Healthy == Served \ broken
Registered == {"routed", "published", "serving", "beating"}

Move(s, place) == at' = [at EXCEPT ![s] = place] /\ UNCHANGED host
Break(lost) == broken' = broken \cup (lost \ {NoSession})

\* Where the streams of over have come and gone, and c, d and f of the bounds are used up.
RegistryBegins(over, c, d, f) ==
  /\ at = [s \in Sessions |-> IF s \in over THEN "ended" ELSE "unused"]
  /\ host \in [Sessions -> Replicas]
  /\ broken = {} /\ revoked = {}
  /\ streams = [r \in Replicas |-> NoSession]
  /\ route = NoSession
  /\ channel = [r \in Replicas |-> <<>>]
  /\ status = "ENROLLED" /\ stale = FALSE /\ enrolled = TRUE
  /\ sweeper = [r \in Replicas |-> "idle"]
  /\ admin = "idle"
  /\ changes = c /\ deaths = d /\ failures = f /\ unheard = {}

Init == RegistryBegins({}, 0, 0, 0)

-----------------------------------------------------------------------------
(***************************************************************************)
(* attach: a stream is authenticated, says Hello, is registered and served.*)
(***************************************************************************)
Open(s) ==
  /\ at[s] = "unused"
  /\ enrolled /\ status # "DISABLED"
  /\ Move(s, "hello")
  /\ UNCHANGED <<broken, streams, route, channel, cluster, access, sweeper, faults>>

\* No Hello, an unacceptable one, or a disabled cluster: never registered.
ReadHello(s) ==
  /\ at[s] = "hello"
  /\ \/ s \notin broken /\ status # "DISABLED" /\ Move(s, "admitted")
     \/ Move(s, "ended")
  /\ UNCHANGED <<broken, streams, route, channel, cluster, access, sweeper, faults>>

\* Newest stream wins: what this replica held is closed, and the route is taken.
Register(s) ==
  /\ at[s] = "admitted"
  /\ Break({streams[host[s]]})
  /\ streams' = [streams EXCEPT ![host[s]] = s]
  /\ route' = s
  /\ Move(s, "routed")
  /\ UNCHANGED <<channel, cluster, access, sweeper, faults>>

Announce(except) == channel' = [r \in Replicas |-> Append(channel[r], except)]

\* Mutant: no replica is told.
Supersede_Silent(s) ==
  /\ at[s] = "routed"
  /\ Move(s, "published")
  /\ UNCHANGED <<broken, streams, route, channel, cluster, access, sweeper, faults>>

\* Every replica is told to close any other stream of the cluster.
Supersede(s) ==
  /\ at[s] = "routed"
  /\ Announce(s)
  /\ Move(s, "published")
  /\ UNCHANGED <<broken, streams, route, cluster, access, sweeper, faults>>

MarkConnected(s) ==
  /\ at[s] = "published"
  /\ status' = "CONNECTED" /\ stale' = FALSE
  /\ Move(s, "serving")
  /\ UNCHANGED <<broken, streams, route, channel, access, sweeper, faults>>

\* A call made while registering throws, the route taken or not: the stream ends
\* without its cleanup.
RegisterFails(s) ==
  /\ failures < MaxFailures
  /\ at[s] \in {"admitted", "routed", "published"}
  /\ IF at[s] = "admitted"
     THEN /\ Break({streams[host[s]], s})
          /\ streams' = [streams EXCEPT ![host[s]] = s]
          /\ route' \in {route, s}
     ELSE Break({s}) /\ UNCHANGED <<streams, route>>
  /\ Move(s, "ended")
  /\ failures' = failures + 1
  /\ UNCHANGED <<channel, cluster, access, sweeper, deaths, unheard>>

\* A heartbeat is read, and then takes the route and the time.
ReadHeartbeat(s) ==
  /\ s \in Healthy /\ at[s] = "serving"
  /\ Move(s, "beating")
  /\ UNCHANGED <<broken, streams, route, channel, cluster, access, sweeper, faults>>

Heartbeat(s) ==
  /\ at[s] = "beating"
  /\ route' = s /\ stale' = FALSE
  /\ Move(s, "serving")
  /\ UNCHANGED <<broken, streams, channel, status, access, sweeper, faults>>

\* The peer goes, the watchdog fires, the certificate expires or the budget is spent.
Drop(s) ==
  /\ at[s] \in Registered \cup {"hello", "admitted"} /\ s \notin broken
  /\ Break({s})
  /\ UNCHANGED <<at, host, streams, route, channel, cluster, access, sweeper, faults>>

\* Mutant: only the cluster is looked at.
Recheck_Cluster(s) ==
  /\ s \in Healthy
  /\ status = "DISABLED"
  /\ Break({s})
  /\ UNCHANGED <<at, host, streams, route, channel, cluster, access, sweeper, faults>>

\* An open stream asks again whether its certificate and its cluster are still good.
Recheck(s) ==
  /\ s \in Healthy
  /\ s \in revoked \/ status = "DISABLED"
  /\ Break({s})
  /\ UNCHANGED <<at, host, streams, route, channel, cluster, access, sweeper, faults>>

-----------------------------------------------------------------------------
(***************************************************************************)
(* unregister: out of the registry unless replaced there, then the route,  *)
(* then the status, each read or written in a step of its own.             *)
(***************************************************************************)

\* Mutant: the registry is cleared although a newer stream has taken the place.
Unregister_Any(s) ==
  /\ at[s] = "serving" /\ s \in broken
  /\ streams' = [streams EXCEPT ![host[s]] = NoSession]
  /\ Move(s, IF route = s THEN "deleting" ELSE IF route = NoSession THEN "clearing" ELSE "ended")
  /\ UNCHANGED <<broken, route, channel, cluster, access, sweeper, faults>>

\* Mutant: the stream stays in the registry.
Unregister_Stays(s) ==
  /\ at[s] = "serving" /\ s \in broken
  /\ Move(s, IF route = s THEN "deleting" ELSE IF route = NoSession THEN "clearing" ELSE "ended")
  /\ UNCHANGED <<broken, streams, route, channel, cluster, access, sweeper, faults>>

Unregister(s) ==
  /\ at[s] = "serving" /\ s \in broken
  /\ streams' = [streams EXCEPT ![host[s]] = IF @ = s THEN NoSession ELSE @]
  /\ Move(s, IF route = s THEN "deleting" ELSE IF route = NoSession THEN "clearing" ELSE "ended")
  /\ UNCHANGED <<broken, route, channel, cluster, access, sweeper, faults>>

DeleteRoute(s) ==
  /\ at[s] = "deleting"
  /\ route' = NoSession
  /\ Move(s, "clearing")
  /\ UNCHANGED <<broken, streams, channel, cluster, access, sweeper, faults>>

\* Only a cluster that is still marked connected.
Disconnected == status' = IF status = "CONNECTED" THEN "DISCONNECTED" ELSE status

ClearStatus(s) ==
  /\ at[s] = "clearing"
  /\ Disconnected
  /\ Move(s, "ended")
  /\ UNCHANGED <<broken, streams, route, channel, stale, access, sweeper, faults>>

UnregisterFails(s) ==
  /\ failures < MaxFailures
  /\ at[s] \in {"deleting", "clearing"}
  /\ Move(s, "ended")
  /\ failures' = failures + 1
  /\ UNCHANGED <<broken, streams, route, channel, cluster, access, sweeper, deaths, unheard>>

-----------------------------------------------------------------------------
\* What the next control message closes on replica r: what it holds, except the session
\* the message spares.
Closes(r) == {streams[r]} \ {Head(channel[r]), NoSession}

NextMessage(r) == channel[r] # <<>> /\ channel' = [channel EXCEPT ![r] = Tail(@)]

Receive(r) ==
  /\ NextMessage(r)
  /\ Break(Closes(r))
  /\ UNCHANGED <<at, host, streams, route, cluster, access, sweeper, faults>>

\* Redis delivers at most once: a replica whose subscription is down hears nothing of it.
PushIsLost(r) ==
  /\ NextMessage(r)
  /\ unheard' = unheard \cup Closes(r)
  /\ UNCHANGED <<stream, streams, route, cluster, access, sweeper, deaths, failures>>

\* The route expires: no replica that has a stream in its registry refreshes it.
RouteExpires ==
  /\ route # NoSession
  /\ \A r \in Replicas : streams[r] = NoSession
  /\ route' = NoSession
  /\ UNCHANGED <<stream, streams, channel, cluster, access, sweeper, faults>>

\* Redis loses it, or it could not be refreshed in time.
RouteIsLost ==
  /\ failures < MaxFailures /\ route # NoSession
  /\ route' = NoSession
  /\ failures' = failures + 1
  /\ UNCHANGED <<stream, streams, channel, cluster, access, sweeper, deaths, unheard>>

\* No heartbeat for longer than the window.
GoesStale ==
  /\ ~stale
  /\ stale' = TRUE
  /\ UNCHANGED <<stream, streams, route, channel, status, access, sweeper, faults>>

(***************************************************************************)
(* sweep: connected clusters not seen for long are looked up, those with   *)
(* a route are skipped, and the others are marked by a conditional UPDATE. *)
(***************************************************************************)
Sweep(r, from, to) ==
  /\ sweeper[r] = from
  /\ sweeper' = [sweeper EXCEPT ![r] = to]
  /\ UNCHANGED <<stream, streams, route, channel, stale, access, faults>>

SweepFind(r) == status = "CONNECTED" /\ stale /\ Sweep(r, "idle", "found") /\ UNCHANGED status
SweepRoute_Skips(r) == Sweep(r, "found", "idle") /\ UNCHANGED status  \* mutant
SweepRoute(r) ==
  \/ route = NoSession /\ Sweep(r, "found", "unrouted") /\ UNCHANGED status
  \/ route # NoSession /\ Sweep(r, "found", "idle") /\ UNCHANGED status
SweepMark(r) ==
  /\ Sweep(r, "unrouted", "idle")
  /\ IF stale THEN Disconnected ELSE UNCHANGED status

-----------------------------------------------------------------------------
(***************************************************************************)
(* What administrators do (vfm/server/src/clusters), one at a time.        *)
(***************************************************************************)
Request(from, to) ==
  /\ admin = from
  /\ admin' = to
  /\ changes' = IF from = "idle" THEN changes + 1 ELSE changes
  /\ from = "idle" => changes < MaxChanges
  /\ UNCHANGED <<stream, streams, route, stale, sweeper>>

Revoke ==
  /\ revoked' = {s \in Sessions : at[s] # "unused"}
  /\ enrolled' = FALSE

Disable ==
  /\ Request("idle", "closing")
  /\ Revoke
  /\ status' = "DISABLED"
  /\ UNCHANGED <<channel, faults>>

RotateRevoke ==
  /\ status # "DISABLED"
  /\ Request("idle", "rotating")
  /\ Revoke
  /\ UNCHANGED <<status, channel, faults>>

RotateStatus ==
  /\ Request("rotating", "closing")
  /\ status' = "PENDING"
  /\ UNCHANGED <<revoked, enrolled, channel, faults>>

CloseCluster ==
  /\ Request("closing", "idle")
  /\ Announce(NoSession)
  /\ UNCHANGED <<revoked, enrolled, status, faults>>

\* The push to close the streams cannot be published.
CloseIsLost ==
  /\ failures < MaxFailures
  /\ Request("closing", "idle")
  /\ failures' = failures + 1
  /\ UNCHANGED <<revoked, enrolled, status, channel, deaths, unheard>>

Enable ==
  /\ status = "DISABLED"
  /\ Request("idle", "idle")
  /\ status' = "PENDING"
  /\ UNCHANGED <<revoked, enrolled, channel, faults>>

\* The agent redeems a token for a certificate.
Enroll ==
  /\ ~enrolled /\ status # "DISABLED" /\ admin = "idle"
  /\ enrolled' = TRUE /\ status' = "ENROLLED"
  /\ UNCHANGED <<stream, streams, route, channel, stale, revoked, admin, changes, sweeper, faults>>

\* A replica dies with its registry, its streams and what they had still to do.
Dies(r) ==
  /\ deaths < MaxDeaths
  /\ deaths' = deaths + 1
  /\ at' = [s \in Sessions |-> IF host[s] = r /\ at[s] # "unused" THEN "ended" ELSE at[s]]
  /\ streams' = [streams EXCEPT ![r] = NoSession]
  /\ channel' = [channel EXCEPT ![r] = <<>>]
  /\ sweeper' = [sweeper EXCEPT ![r] = "idle"]
  /\ UNCHANGED <<host, broken, route, cluster, access, failures, unheard>>

-----------------------------------------------------------------------------
StreamStep(s) ==
  \/ ReadHello(s) \/ Register(s) \/ Supersede(s) \/ MarkConnected(s) \/ Heartbeat(s)
  \/ Unregister(s) \/ DeleteRoute(s) \/ ClearStatus(s)

SweepStep(r) == SweepFind(r) \/ SweepRoute(r) \/ SweepMark(r)

AdminNext ==
  Disable \/ RotateRevoke \/ RotateStatus \/ CloseCluster \/ CloseIsLost \/ Enable \/ Enroll

Next ==
  \/ \E s \in Sessions :
       \/ Open(s) \/ StreamStep(s) \/ ReadHeartbeat(s) \/ Drop(s) \/ Recheck(s)
       \/ RegisterFails(s) \/ UnregisterFails(s)
  \/ \E r \in Replicas : Receive(r) \/ PushIsLost(r) \/ SweepStep(r) \/ Dies(r)
  \/ RouteExpires \/ RouteIsLost \/ GoesStale
  \/ AdminNext

Spec == Init /\ [][Next]_vars

(***************************************************************************)
(* Coroutines run on, the subscriber receives, timers fire, what is not    *)
(* refreshed expires.                                                      *)
(***************************************************************************)
Fairness ==
  /\ \A s \in Sessions : WF_vars(StreamStep(s)) /\ WF_vars(Recheck(s))
  /\ \A r \in Replicas : WF_vars(Receive(r)) /\ WF_vars(SweepStep(r))
  /\ WF_vars(RouteExpires)
  /\ WF_vars(Served = {} /\ GoesStale)

FairSpec == Spec /\ Fairness

-----------------------------------------------------------------------------
(***************************************************************************)
(* Type correctness.                                                       *)
(***************************************************************************)
TypeOK ==
  /\ at \in [Sessions -> Place]
  /\ host \in [Sessions -> Replicas]
  /\ broken \subseteq Sessions /\ revoked \subseteq Sessions /\ unheard \subseteq Sessions
  /\ streams \in [Replicas -> Sessions \cup {NoSession}]
  /\ route \in Sessions \cup {NoSession}
  /\ channel \in [Replicas -> Seq(Sessions \cup {NoSession})]
  /\ status \in Status /\ stale \in BOOLEAN /\ enrolled \in BOOLEAN
  /\ sweeper \in [Replicas -> {"idle", "found", "unrouted"}]
  /\ admin \in {"idle", "rotating", "closing"}
  /\ changes \in Nat /\ deaths \in Nat /\ failures \in Nat

(***************************************************************************)
(* "Whether this replica holds the stream" (isLocal): what is registered   *)
(* is a stream of this replica that is being registered or served, or was  *)
(* given up and closed when a call failed while it was registered.  A      *)
(* message written to any other is lost and still counts as sent.          *)
(***************************************************************************)
FailedToRegister(s) == failures > 0 /\ at[s] = "ended" /\ s \in broken

RegisteredIsHeld ==
  \A r \in Replicas : streams[r] # NoSession =>
    host[streams[r]] = r /\ (at[streams[r]] \in Registered \/ FailedToRegister(streams[r]))

(***************************************************************************)
(* And a stream that is served and not closing is the one registered, so   *)
(* that what is sent on its replica reaches it.                            *)
(***************************************************************************)
HealthyIsRegistered == \A s \in Healthy : streams[host[s]] = s

(***************************************************************************)
(* "The newest wins": of two streams served at once, wherever they are,    *)
(* one is soon closed.  The exception is a stream whose own closing        *)
(* message Redis lost: nothing ends it but its peer or its certificate.    *)
(* A lost message that would have closed nothing, a replica that dies and  *)
(* a call that fails are no excuse.                                        *)
(***************************************************************************)
OneStreamRemains ==
  \A s, t \in Sessions : s # t =>
    ({s, t} \subseteq Served ~> ~({s, t} \subseteq Healthy) \/ unheard \cap {s, t} # {})

(***************************************************************************)
(* "A replica that dies cannot mark its clusters disconnected.  A sweeper  *)
(* ... marks": a cluster is not shown connected for ever when nobody       *)
(* serves its agent.                                                       *)
(***************************************************************************)
SilenceIsNoticed ==
  status = "CONNECTED" /\ Served = {}
    ~> status # "CONNECTED" \/ Served # {} \/ failures > 0

(***************************************************************************)
(* A stream whose certificate was revoked ends, even if it was being       *)
(* registered at the time and the push to close it was lost.               *)
(***************************************************************************)
RevokedStreamEnds == \A s \in Sessions : s \in revoked ~> s \notin Healthy /\ at[s] # "published"

(***************************************************************************)
(* "Cleanup after a stream never overwrites a newer connection's status"   *)
(* (DECISIONS.md): the end of one stream does not mark a cluster           *)
(* disconnected while another is being served.                             *)
(***************************************************************************)
CleanupSparesNewer ==
  [][\A s \in Sessions : at[s] = "clearing" /\ at'[s] = "ended" /\ status' # status
       => Healthy = {}]_vars

(***************************************************************************)
(* "Disabling a cluster ... leaves it DISABLED" (streams.e2e.test.ts),     *)
(* "Back to PENDING" when it is enabled (clusters.service.ts): a disabled  *)
(* cluster becomes nothing else.                                           *)
(***************************************************************************)
DisabledUntilEnabled == [][status = "DISABLED" => status' \in {"DISABLED", "PENDING"}]_vars
=============================================================================
