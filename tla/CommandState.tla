---------------------------- MODULE CommandState ----------------------------
(***************************************************************************)
(* The command lifecycle rules of the control plane, as the pure functions *)
(* of vfm/server/src/commands/command-state.ts: which statuses there are,  *)
(* what an event does to one, and from which statuses an event is          *)
(* accepted.                                                               *)
(***************************************************************************)

NonTerminal == {"QUEUED", "SENT", "ACKED", "RUNNING"}

Terminal == {"SUCCEEDED", "FAILED", "CANCELLED", "TIMED_OUT", "REJECTED"}

Status == NonTerminal \cup Terminal \cup {"PENDING_APPROVAL"}

Event == {"sent", "acked", "running", "succeeded", "failed", "cancelled",
          "timed_out", "approved", "rejected"}

\* The result of an event the rules ignore (null in the code).
Ignored == "IGNORED"

(***************************************************************************)
(* What an event makes of a request that waits for a person, and of a      *)
(* command in flight.                                                      *)
(***************************************************************************)
Decided(event) ==
  CASE event = "approved"  -> "QUEUED"
    [] event = "rejected"  -> "REJECTED"
    [] event = "cancelled" -> "CANCELLED"
    [] event = "timed_out" -> "TIMED_OUT"
    [] OTHER               -> Ignored

Moved(current, event) ==
  CASE event = "sent"      -> IF current = "QUEUED" THEN "SENT" ELSE current
    [] event = "acked"     -> IF current \in {"QUEUED", "SENT"} THEN "ACKED" ELSE current
    [] event = "running"   -> "RUNNING"
    [] event = "succeeded" -> "SUCCEEDED"
    [] event = "failed"    -> "FAILED"
    [] event = "cancelled" -> IF current \in {"QUEUED", "SENT"} THEN "CANCELLED" ELSE Ignored
    [] event = "timed_out" -> "TIMED_OUT"
    [] OTHER               -> Ignored

Transition(current, event) ==
  IF current \in Terminal THEN Ignored
  ELSE IF current = "PENDING_APPROVAL" THEN Decided(event)
  ELSE Moved(current, event)

\* The statuses from which an event is accepted, for a conditional UPDATE.
StatusesAccepting(event) == {s \in NonTerminal : Transition(s, event) # Ignored}

=============================================================================
