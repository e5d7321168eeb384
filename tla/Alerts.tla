------------------------------- MODULE Alerts -------------------------------
(***************************************************************************)
(* The alert engine (vfm/server/src/alerts/alerts.service.ts) and its      *)
(* timer (alert-evaluator.ts): for one rule of one organization, the       *)
(* conditions it finds, the events in the database, the messages people    *)
(* hear, and the replicas that evaluate.  An evaluation holds a lock of    *)
(* Redis that expires before the next tick, so a slow one overlaps with    *)
(* the next; a step is a query, or the hand-over of a message.             *)
(***************************************************************************)
EXTENDS Integers, Sequences, FiniteSets

CONSTANTS
  AlertReplicas,
  Conditions,     \* fingerprints on a cluster
  MaxEvents,      \* events ever created (a bound)
  MaxTurns,       \* changes of a condition or of the rule, intervals that pass (a bound)
  MaxMishaps      \* crashes, messages that are not taken over (a bound)

ASSUME AlertsAssumption == MaxEvents \in Nat /\ MaxTurns \in Nat /\ MaxMishaps \in Nat

VARIABLES
  holds,        \* the conditions that are true now
  enabled,      \* the rule
  alertEvents,  \* the table, in the order of creation; told is lastNotifiedAt
  heard,        \* (history) of each event: its start, and how often its end
  lock,         \* the evaluator's lock has not expired
  evaluation,   \* of each replica
  turns, mishaps

alertVars == <<holds, enabled, alertEvents, heard, lock, evaluation, turns, mishaps>>
world == <<holds, enabled, turns>>

AlertEvent == [condition : Conditions, state : {"FIRING", "RESOLVED"},
               told : {"never", "recently", "long ago"}]
Quiet == <<0, "none">>

\* What an evaluation has read (the rule, the open events) and has still to do: conditions
\* it found, open events it did not find, the message it hands over.
Asleep == [at |-> "asleep", rule |-> FALSE, open |-> {}, found |-> {}, gone |-> {}, message |-> Quiet]

Firing == {e \in DOMAIN alertEvents : alertEvents[e].state = "FIRING"}
OpenFor(c) == {e \in Firing : alertEvents[e].condition = c}

AlertsInit ==
  /\ holds = {} /\ enabled = TRUE /\ alertEvents = <<>> /\ heard = <<>>
  /\ lock = FALSE /\ evaluation = [r \in AlertReplicas |-> Asleep]
  /\ turns = 0 /\ mishaps = 0

Becomes(r, e) == evaluation' = [evaluation EXCEPT ![r] = e]
Mishap == mishaps < MaxMishaps /\ mishaps' = mishaps + 1

-----------------------------------------------------------------------------
\* tick, and the first queries of evaluateOrg.
tick(r) ==
  /\ ~lock /\ evaluation[r].at = "asleep"
  /\ lock' = TRUE
  /\ Becomes(r, [Asleep EXCEPT !.at = "facts", !.rule = enabled,
                   !.open = {<<e, alertEvents[e].condition, alertEvents[e].told>> : e \in Firing}])
  /\ UNCHANGED <<world, alertEvents, heard, mishaps>>

LockExpires ==
  /\ lock
  /\ lock' = FALSE
  /\ UNCHANGED <<world, alertEvents, heard, evaluation, mishaps>>

\* Mutant: an organization whose rule is disabled is not looked at.
loadFacts_OnlyEnabled(r) ==
  /\ evaluation[r].at = "facts"
  /\ LET found == IF evaluation[r].rule THEN holds ELSE {}
     IN Becomes(r, [evaluation[r] EXCEPT !.at = "working", !.found = found,
                      !.gone = {o \in evaluation[r].open : evaluation[r].rule /\ o[2] \notin found}])
  /\ UNCHANGED <<world, alertEvents, heard, lock, mishaps>>

loadFacts(r) ==
  /\ evaluation[r].at = "facts"
  /\ LET found == IF evaluation[r].rule THEN holds ELSE {}
     IN Becomes(r, [evaluation[r] EXCEPT !.at = "working", !.found = found,
                      !.gone = {o \in evaluation[r].open : o[2] \notin found}])
  /\ UNCHANGED <<world, alertEvents, heard, lock, mishaps>>

Tells(r, e, kind) == [evaluation[r] EXCEPT !.at = "telling", !.message = <<e, kind>>]
Known(r, c) == {o \in evaluation[r].open : o[2] = c}

Insert(c) ==
  /\ alertEvents' = Append(alertEvents, [condition |-> c, state |-> "FIRING", told |-> "never"])
  /\ heard' = Append(heard, [began |-> FALSE, ended |-> 0])

fire_NoIndex(r, c) ==   \* mutant
  /\ evaluation[r].at = "working" /\ c \in evaluation[r].found /\ Known(r, c) = {}
  /\ Len(alertEvents) < MaxEvents /\ Insert(c)
  /\ Becomes(r, [Tells(r, Len(alertEvents) + 1, "fired") EXCEPT !.found = @ \ {c}])
  /\ UNCHANGED <<world, lock, mishaps>>

\* A new condition; the unique index over open events refuses a second.
fire(r, c) ==
  /\ evaluation[r].at = "working" /\ c \in evaluation[r].found /\ Known(r, c) = {}
  /\ IF OpenFor(c) # {}
     THEN Becomes(r, [evaluation[r] EXCEPT !.found = @ \ {c}]) /\ UNCHANGED <<alertEvents, heard>>
     ELSE /\ Len(alertEvents) < MaxEvents /\ Insert(c)
          /\ Becomes(r, [Tells(r, Len(alertEvents) + 1, "fired") EXCEPT !.found = @ \ {c}])
  /\ UNCHANGED <<world, lock, mishaps>>

keep_OnlyRepeats(r, c) ==   \* mutant
  /\ evaluation[r].at = "working" /\ c \in evaluation[r].found
  /\ \E o \in Known(r, c) :
       Becomes(r, [IF o[3] \in {"never", "recently"} THEN evaluation[r] ELSE Tells(r, o[1], "renotify")
                     EXCEPT !.found = @ \ {c}])
  /\ UNCHANGED <<world, alertEvents, heard, lock, mishaps>>

\* One that is still true: told if nobody has been, repeated when its interval is up.
keep(r, c) ==
  /\ evaluation[r].at = "working" /\ c \in evaluation[r].found
  /\ \E o \in Known(r, c) :
       Becomes(r, [IF o[3] = "recently" THEN evaluation[r]
                   ELSE Tells(r, o[1], IF o[3] = "never" THEN "fired" ELSE "renotify")
                     EXCEPT !.found = @ \ {c}])
  /\ UNCHANGED <<world, alertEvents, heard, lock, mishaps>>

resolve(r) ==
  /\ evaluation[r].at = "working" /\ evaluation[r].found = {}
  /\ \E o \in evaluation[r].gone :
       /\ alertEvents' = [alertEvents EXCEPT ![o[1]].state = "RESOLVED"]
       /\ Becomes(r, [IF o[1] \in Firing /\ evaluation[r].rule /\ o[3] # "never"
                      THEN Tells(r, o[1], "resolved") ELSE evaluation[r] EXCEPT !.gone = @ \ {o}])
  /\ UNCHANGED <<world, heard, lock, mishaps>>

-----------------------------------------------------------------------------
\* deliver: the notifier takes the message over, and then the time is noted.
notify(r) ==
  /\ evaluation[r].at = "telling"
  /\ heard' = [heard EXCEPT ![evaluation[r].message[1]] =
                 CASE evaluation[r].message[2] = "fired" -> [@ EXCEPT !.began = TRUE]
                   [] evaluation[r].message[2] = "resolved" -> [@ EXCEPT !.ended = @ + 1]
                   [] OTHER -> @]
  /\ Becomes(r, [evaluation[r] EXCEPT !.at = "noting"])
  /\ UNCHANGED <<world, alertEvents, lock, mishaps>>

NotTakenOver(r) ==
  /\ evaluation[r].at = "telling" /\ Mishap
  /\ Becomes(r, [evaluation[r] EXCEPT !.at = "working", !.message = Quiet])
  /\ UNCHANGED <<world, alertEvents, heard, lock>>

Note(r) ==
  /\ evaluation[r].at = "noting"
  /\ alertEvents' = [alertEvents EXCEPT ![evaluation[r].message[1]].told = "recently"]
  /\ Becomes(r, [evaluation[r] EXCEPT !.at = "working", !.message = Quiet])
  /\ UNCHANGED <<world, heard, lock, mishaps>>

Done(r) ==
  /\ evaluation[r].at = "working" /\ evaluation[r].found = {} /\ evaluation[r].gone = {}
  /\ Becomes(r, Asleep)
  /\ UNCHANGED <<world, alertEvents, heard, lock, mishaps>>

\* The replica dies, or a query fails: the evaluation is given up.
GivenUp(r) ==
  /\ evaluation[r].at # "asleep" /\ Mishap
  /\ Becomes(r, Asleep)
  /\ UNCHANGED <<world, alertEvents, heard, lock>>

-----------------------------------------------------------------------------
\* The re-notify interval of an event passes; evaluations are short beside it.
IntervalPasses(e) ==
  /\ e \in Firing /\ alertEvents[e].told = "recently" /\ turns < MaxTurns
  /\ \A r \in AlertReplicas : evaluation[r].at = "asleep"
  /\ alertEvents' = [alertEvents EXCEPT ![e].told = "long ago"] /\ turns' = turns + 1
  /\ UNCHANGED <<holds, enabled, heard, lock, evaluation, mishaps>>

Turn ==
  /\ turns < MaxTurns /\ turns' = turns + 1
  /\ \/ enabled' = ~enabled /\ UNCHANGED holds
     \/ UNCHANGED enabled /\ \E c \in Conditions : holds' = (holds \ {c}) \cup ({c} \ holds)
  /\ UNCHANGED <<alertEvents, heard, lock, evaluation, mishaps>>

EvaluationStep(r) ==
  \/ loadFacts(r) \/ resolve(r) \/ notify(r) \/ Note(r) \/ Done(r)
  \/ \E c \in Conditions : fire(r, c) \/ keep(r, c)

AlertsNext ==
  \/ LockExpires \/ Turn
  \/ \E r \in AlertReplicas : tick(r) \/ EvaluationStep(r) \/ NotTakenOver(r) \/ GivenUp(r)
  \/ \E e \in Firing : IntervalPasses(e)

AlertsSpec == AlertsInit /\ [][AlertsNext]_alertVars

-----------------------------------------------------------------------------
AlertsTypeOK ==
  /\ holds \subseteq Conditions /\ enabled \in BOOLEAN /\ lock \in BOOLEAN
  /\ alertEvents \in Seq(AlertEvent) /\ Len(alertEvents) <= MaxEvents
  /\ heard \in Seq([began : BOOLEAN, ended : Nat]) /\ Len(heard) = Len(alertEvents)
  /\ \A r \in AlertReplicas :
       /\ evaluation[r].at \in {"asleep", "facts", "working", "telling", "noting"}
       /\ evaluation[r].found \subseteq Conditions /\ evaluation[r].gone \subseteq evaluation[r].open
  /\ turns \in 0 .. MaxTurns /\ mishaps \in 0 .. MaxMishaps

(***************************************************************************)
(* "A restart, a missed tick or a second replica cannot [...] duplicate an *)
(* alert": whatever stale lists the evaluations work from, a condition has *)
(* one open event, and the end of an event is told once at most, to people *)
(* who heard it start, when it has ended.                                  *)
(***************************************************************************)
NoDuplicates ==
  /\ \A e, f \in Firing : alertEvents[e].condition = alertEvents[f].condition => e = f
  /\ \A e \in DOMAIN alertEvents :
       /\ heard[e].ended <= 1
       /\ heard[e].ended = 1 => heard[e].began /\ alertEvents[e].state = "RESOLVED"

(***************************************************************************)
(* Nor lose one: a condition that stays true while the rule is enabled is  *)
(* told and stays open, whatever failed on the way.                        *)
(***************************************************************************)
ConditionIsTold ==
  \A c \in Conditions :
    <>[](c \in holds /\ enabled) => <>[](\E e \in OpenFor(c) : heard[e].began)

(***************************************************************************)
(* And what is no longer true, or no longer looked for, does not stay open.*)
(***************************************************************************)
EndIsNoticed ==
  \A c \in Conditions : <>[](c \notin holds \/ ~enabled) => <>[](OpenFor(c) = {})

=============================================================================
