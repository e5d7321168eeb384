-------------------------- MODULE CommandLifecycle --------------------------
(***************************************************************************)
(* What the command pipeline promises, whatever the replicas, the agents   *)
(* and the people do: a command is recorded once, every change of its      *)
(* status is one the lifecycle accepts, and it ends.                       *)
(***************************************************************************)
EXTENDS CommandState

CONSTANT Commands

VARIABLE status

Absent == "ABSENT"

Init == status = [c \in Commands |-> Absent]

\* A command is written QUEUED before anything is sent, or PENDING_APPROVAL.
Record(c) ==
  /\ status[c] = Absent
  /\ \E s \in {"QUEUED", "PENDING_APPROVAL"} : status' = [status EXCEPT ![c] = s]

Apply(c, event) ==
  /\ status[c] # Absent
  /\ Transition(status[c], event) # Ignored
  /\ status' = [status EXCEPT ![c] = Transition(status[c], event)]

\* Each step of the pipeline moves at most one command.
Next == \E c \in Commands : Record(c) \/ \E event \in Event : Apply(c, event)

Spec == Init /\ [][Next]_status

\* A deadline is never forgotten.
Fairness == \A c \in Commands : WF_status(Apply(c, "timed_out"))

FairSpec == Spec /\ Fairness
=============================================================================
