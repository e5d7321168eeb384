---------------------------- MODULE LeaderElection ----------------------------
(***************************************************************************)
(* Leader election of the agent's replicas (vfm/agent/internal/leader/     *)
(* leader.go, and its caller in cmd/agent/main.go): the task runs while a  *)
(* replica holds the Lease.  Run has three goroutines: the elector, the    *)
(* callback that runs the task, and the supervisor (awaitTask), which ends *)
(* the election when the task has returned or has had its time.            *)
(*                                                                         *)
(* The elector is client-go's: it gives up a Lease it cannot renew before  *)
(* the Lease expires (RenewDeadline < LeaseDuration), and when it ends it  *)
(* tries to release it.                                                    *)
(***************************************************************************)
EXTENDS Integers

CONSTANTS
  Pods,         \* the replicas of the agent
  Nobody,
  MaxUpsets     \* signals, lost Leases, crashes, tasks that fail (a bound)

ASSUME LeaderAssumption == Nobody \notin Pods /\ MaxUpsets \in Nat

VARIABLES
  lease,        \* who holds the Lease
  elector,      \* of each replica: "acquiring", "leading", "ended"
  job,          \* its task: "none", "starting", "running", "returned"
  signalled,    \* SIGTERM has been received
  stopRequested,
  supervisor,   \* awaitTask: "waiting", "timing", "timeout", "ended"
  lapsed,       \* (history) the Lease was lost, not handed over
  late,         \* (history) the task began when it had been told to stop
  upsets

process == <<elector, job, signalled, stopRequested, supervisor, lapsed, late>>
leaderVars == <<lease, process, upsets>>

taskStarted(r) == job[r] \in {"running", "returned"}

LeaderInit ==
  /\ lease = Nobody
  /\ elector = [r \in Pods |-> "acquiring"]
  /\ job = [r \in Pods |-> "none"]
  /\ signalled = [r \in Pods |-> FALSE]
  /\ stopRequested = [r \in Pods |-> FALSE]
  /\ supervisor = [r \in Pods |-> "waiting"]
  /\ lapsed = [r \in Pods |-> FALSE] /\ late = [r \in Pods |-> FALSE]
  /\ upsets = 0

Upset == upsets < MaxUpsets /\ upsets' = upsets + 1

-----------------------------------------------------------------------------
(***************************************************************************)
(* The elector.  A replica finds its own Lease again when it restarts.     *)
(***************************************************************************)
Acquire(r) ==
  /\ elector[r] = "acquiring"
  /\ lease \in {Nobody, r}
  /\ lease' = r
  /\ elector' = [elector EXCEPT ![r] = "leading"]
  /\ job' = [job EXCEPT ![r] = "starting"]
  /\ UNCHANGED <<signalled, stopRequested, supervisor, lapsed, late, upsets>>

\* The Lease cannot be renewed in time; releasing it may fail too.
LoseLease(r) ==
  /\ elector[r] = "leading" /\ Upset
  /\ elector' = [elector EXCEPT ![r] = "ended"]
  /\ lapsed' = [lapsed EXCEPT ![r] = TRUE]
  /\ lease' \in {Nobody, r}
  /\ UNCHANGED <<job, signalled, stopRequested, supervisor, late>>

\* Mutant: the election's context inherits the signal, as ReleaseOnCancel would have it.
StopElection_OnSignal(r) ==
  /\ supervisor[r] \in {"timeout", "ended"} \/ signalled[r]
  /\ elector[r] # "ended"
  /\ elector' = [elector EXCEPT ![r] = "ended"]
  /\ lease' \in IF elector[r] = "leading" THEN {Nobody, r} ELSE {lease}
  /\ UNCHANGED <<job, signalled, stopRequested, supervisor, lapsed, late, upsets>>

StopElection(r) ==
  /\ supervisor[r] \in {"timeout", "ended"}
  /\ elector[r] # "ended"
  /\ elector' = [elector EXCEPT ![r] = "ended"]
  /\ lease' \in IF elector[r] = "leading" THEN {Nobody, r} ELSE {lease}
  /\ UNCHANGED <<job, signalled, stopRequested, supervisor, lapsed, late, upsets>>

\* A Lease nobody renews expires.
Expire ==
  /\ lease # Nobody /\ elector[lease] # "leading"
  /\ lease' = Nobody
  /\ UNCHANGED <<process, upsets>>

-----------------------------------------------------------------------------
\* OnStartedLeading runs in a goroutine of its own, however late.
StartTask(r) ==
  /\ job[r] = "starting"
  /\ job' = [job EXCEPT ![r] = "running"]
  /\ late' = [late EXCEPT ![r] = stopRequested[r]]
  /\ UNCHANGED <<lease, elector, signalled, stopRequested, supervisor, lapsed, upsets>>

\* A task returns when it is told to stop (or ignores it), or fails by itself.
TaskReturns(r) ==
  /\ job[r] = "running"
  /\ IF stopRequested[r] THEN UNCHANGED upsets ELSE Upset
  /\ job' = [job EXCEPT ![r] = "returned"]
  /\ UNCHANGED <<lease, elector, signalled, stopRequested, supervisor, lapsed, late>>

Signal(r) ==
  /\ ~signalled[r] /\ Upset
  /\ signalled' = [signalled EXCEPT ![r] = TRUE]
  /\ UNCHANGED <<lease, elector, job, stopRequested, supervisor, lapsed, late>>

\* After a signal, or after the elector has ended if the task was started.
requestStop(r) ==
  /\ ~stopRequested[r]
  /\ signalled[r] \/ (elector[r] = "ended" /\ taskStarted(r))
  /\ stopRequested' = [stopRequested EXCEPT ![r] = TRUE]
  /\ UNCHANGED <<lease, elector, job, signalled, supervisor, lapsed, late, upsets>>

-----------------------------------------------------------------------------
(***************************************************************************)
(* The supervisor: the task returns, or a stop is requested.  One that     *)
(* never began needs no waiting for; one that did has TaskStopTimeout.     *)
(***************************************************************************)
Supervise(r, from, to) ==
  /\ supervisor[r] \in from
  /\ supervisor' = [supervisor EXCEPT ![r] = to]
  /\ UNCHANGED <<lease, elector, job, signalled, stopRequested, lapsed, late, upsets>>

awaitDone(r) == job[r] = "returned" /\ Supervise(r, {"waiting", "timing"}, "ended")

awaitStop(r) ==
  /\ stopRequested[r]
  /\ Supervise(r, {"waiting"}, IF taskStarted(r) THEN "timing" ELSE "ended")

awaitTimeout_Never(r) == FALSE /\ Supervise(r, {"timing"}, "timeout")  \* mutant
awaitTimeout(r) == job[r] # "returned" /\ Supervise(r, {"timing"}, "timeout")

\* Run has returned, or the process dies: its pod starts another.
Restarts(r) ==
  /\ elector' = [elector EXCEPT ![r] = "acquiring"]
  /\ job' = [job EXCEPT ![r] = "none"]
  /\ signalled' = [signalled EXCEPT ![r] = FALSE]
  /\ stopRequested' = [stopRequested EXCEPT ![r] = FALSE]
  /\ supervisor' = [supervisor EXCEPT ![r] = "waiting"]
  /\ lapsed' = [lapsed EXCEPT ![r] = FALSE] /\ late' = [late EXCEPT ![r] = FALSE]
  /\ UNCHANGED lease

ExitProcess(r) ==
  /\ elector[r] = "ended" /\ supervisor[r] \in {"timeout", "ended"}
  /\ Restarts(r) /\ UNCHANGED upsets

Crash(r) == Upset /\ Restarts(r)

-----------------------------------------------------------------------------
RunSteps(r) ==
  \/ Acquire(r) \/ StopElection(r) \/ StartTask(r) \/ requestStop(r)
  \/ awaitDone(r) \/ awaitStop(r) \/ awaitTimeout(r) \/ ExitProcess(r)

LeaderNext ==
  \/ Expire
  \/ \E r \in Pods : RunSteps(r) \/ LoseLease(r) \/ TaskReturns(r) \/ Signal(r) \/ Crash(r)

LeaderSpec == LeaderInit /\ [][LeaderNext]_leaderVars

-----------------------------------------------------------------------------
LeaderTypeOK ==
  /\ lease \in Pods \cup {Nobody}
  /\ elector \in [Pods -> {"acquiring", "leading", "ended"}]
  /\ job \in [Pods -> {"none", "starting", "running", "returned"}]
  /\ signalled \in [Pods -> BOOLEAN] /\ stopRequested \in [Pods -> BOOLEAN]
  /\ supervisor \in [Pods -> {"waiting", "timing", "timeout", "ended"}]
  /\ lapsed \in [Pods -> BOOLEAN] /\ late \in [Pods -> BOOLEAN]
  /\ upsets \in Nat
  /\ \A r \in Pods : elector[r] = "acquiring" => job[r] = "none"

(***************************************************************************)
(* "Only the leader executes", "true across a handover" (leader.go): a     *)
(* task that runs without the Lease is one whose Lease was lost or ran     *)
(* out; one that began when it had been told to stop; or one that had not  *)
(* stopped when its supervisor gave up waiting for it, which releases the  *)
(* Lease although the process, and the task with it, has still to end.  As *)
(* one replica holds the Lease, two tasks run at once only then.           *)
(***************************************************************************)
HandoverIsClean ==
  \A r \in Pods :
    job[r] = "running" /\ lease # r => lapsed[r] \/ late[r] \/ supervisor[r] = "timeout"

(***************************************************************************)
(* A replica leads in the end, whoever was signalled, lost the Lease,      *)
(* crashed, or would not stop.                                             *)
(***************************************************************************)
SomebodyLeads == <>[](\E r \in Pods : job[r] = "running" /\ lease = r)
=============================================================================
