-------------------------- MODULE MCCommandService --------------------------
(***************************************************************************)
(* Small instances of CommandService for TLC.                              *)
(***************************************************************************)
EXTENDS CommandService, TLC

CONSTANTS u1, u2, r1, r2, w1, w2

VARIABLE scope  \* which of the two instances a behaviour is about

\* Both handlers are at work on one replica.
OneReplica == w1 :> r1 @@ w2 :> r1

(***************************************************************************)
(* Two handlers on one replica, two people and requests without a secret;  *)
(* or requests with one, faults, a second replica that may serve the       *)
(* stream, hears of results and sweeps, and a single handler, but for what *)
(* another does between the row of a command and its secret.               *)
(***************************************************************************)
AtWork == {w \in Workers : at[w] # "idle"}
Asked == {arg[w].ask : w \in Workers} \cup {req[c] : c \in Commands}

OneReplicaOnly ==
  /\ \A cl \in Clusters : link[cl] # r2
  /\ sweep[r2] = NoSweep
  /\ \A ask \in Asked : ask.kind # "secret"
  /\ faults = 0

SecretsOnly ==
  /\ AtWork \subseteq {w1} \/ at[w1] = "hold"
  /\ \A ask \in Asked : ask.cluster # NoCluster => ask.kind = "secret" /\ ask.requester = u1
  /\ \A w \in Workers : arg[w].user # u2

InScope == IF scope = "requests" THEN OneReplicaOnly ELSE SecretsOnly

ScopedNext == Next /\ UNCHANGED scope /\ InScope'

\* JobFairness and SweepFairness, in scope; the clock may stop.
ScopedFairness ==
  /\ \A w \in Workers : WF_vars(JobStep(w))
  /\ \A cl \in Clusters : SF_vars(\E w \in Workers : Redeliver(w, cl))
  /\ WF_vars(SweepStep(r1))
  /\ WF_vars(scope = "secrets" /\ SweepStep(r2))

ScopedInit == Init /\ scope \in {"requests", "secrets"}

SweepSpec == ScopedInit /\ [][ScopedNext]_<<vars, scope>> /\ ScopedFairness

(***************************************************************************)
(* With time, a recorded command ends, even if no replica ever reaches its *)
(* agent: what CommandLifecycle promises.                                  *)
(***************************************************************************)
EndsInTime == ClockRuns => EventuallyEnds

(***************************************************************************)
(* With time, SecretIsForgotten (transient.ts and the sweep).              *)
(***************************************************************************)
SecretEndsInTime == ClockRuns => SecretIsForgotten
=============================================================================
