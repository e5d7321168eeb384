----------------------------- MODULE CaRotation -----------------------------
(***************************************************************************)
(* Replacing the internal certificate authority while agents stay          *)
(* connected (vfm/server/src/ca/ca-rotation.service.ts, ca.service.ts, the *)
(* gateway's own certificate in gateway.service.ts, enrolment and renewal  *)
(* in enrollment.service.ts): the table of authorities, what each replica  *)
(* holds of it in memory, the operators who stage, promote and retire, and *)
(* the agents that carry a certificate and the bundle they trust.          *)
(*                                                                         *)
(* A tick of the clock is the time between two checks of a replica         *)
(* (refreshMs, 30 s) and that of an operator's command: every replica      *)
(* checks the table once in it, sooner or later, and signs until then with *)
(* what it has, and every command begins and ends in it.                   *)
(***************************************************************************)
EXTENDS Integers, FiniteSets, FiniteSetsExt

CONSTANTS
  CaReplicas, CaAgents, CaOperators,
  CertLifetime,   \* AGENT_CERT_LIFETIME_MS, in ticks
  RenewAfter,     \* of those, when an agent renews (two thirds)
  MaxCas,         \* authorities ever generated (a bound)
  MaxNow          \* ticks (a bound)

ASSUME CaAssumption ==
  /\ CertLifetime \in Nat \ {0, 1} /\ RenewAfter \in 0 .. CertLifetime
  /\ MaxCas \in Nat /\ MaxNow \in Nat

VARIABLES
  authorities,  \* the table: a set of rows
  generated,    \* keys generated so far
  caSet,        \* CaService.set of each replica
  serving,      \* its gateway's certificate and the issuers it accepts
  identity,     \* of each agent: who signed it, until when, whom it trusts
  operator,     \* of each operator: the command and what it has read
  sinceStart,   \* the clock
  checked,      \* the replicas that have checked the table in this tick
  mistaken      \* (history) a replica took one table for another, or an
                \* operator one row for another, that has the same ids,
                \* or a promotion left no row that signs

clock == <<sinceStart, checked>>
caVars == <<authorities, generated, caSet, serving, identity, operator, clock, mistaken>>

Keys == 1 .. MaxCas
Row == [id : Nat, key : Keys, state : {"ACTIVE", "STAGED", "RETIRING"}, since : Nat]
NoSet == [signer |-> 0, trusted |-> {}, bundle |-> {}, version |-> {}]
NotServing == [issuer |-> 0, clients |-> {}]
NoIdentity == [issuer |-> 0, until |-> 0, trusts |-> {}]
IdleOperator == [step |-> "none", rows |-> {}]

CaInit ==
  /\ authorities = {} /\ generated = 0
  /\ caSet = [r \in CaReplicas |-> NoSet]
  /\ serving = [r \in CaReplicas |-> NotServing]
  /\ identity = [a \in CaAgents |-> NoIdentity]
  /\ operator = [o \in CaOperators |-> IdleOperator]
  /\ sinceStart = 0 /\ checked = {} /\ mistaken = FALSE

In(rows, states) == {row \in rows : row.state \in states}
KeysOf(rows) == {row.key : row \in rows}
IdsOf(rows) == {row.id : row \in rows}

\* "rows.map((r) => `${r.id}:${r.state}`)"
Version(rows) == {<<row.id, row.state>> : row \in rows}

\* What a replica makes of the table: there must be one that signs.
Loaded(rows) ==
  LET first == CHOOSE row \in In(rows, {"ACTIVE"}) :
                 \A other \in In(rows, {"ACTIVE"}) : row.id <= other.id
  IN [signer |-> first.key,
      trusted |-> KeysOf(In(rows, {"ACTIVE", "RETIRING"})),
      bundle |-> KeysOf(rows),
      version |-> Version(rows)]

Loadable(rows) == In(rows, {"ACTIVE"}) # {}

-----------------------------------------------------------------------------

(***************************************************************************)
(* A replica.  The first to load an empty table generates an authority:    *)
(* "ON CONFLICT DO NOTHING on a fixed primary key, so exactly one wins".   *)
(***************************************************************************)
GenerateFirst ==
  /\ authorities = {} /\ generated < MaxCas
  /\ generated' = generated + 1
  /\ authorities' = {[id |-> 1, key |-> generated + 1, state |-> "ACTIVE", since |-> sinceStart]}
  /\ UNCHANGED <<caSet, serving, identity, operator, clock, mistaken>>

\* The start, and every 30 seconds: nothing is done if the version is the one it has, or if
\* there is nothing that signs.
reload(r) ==
  /\ authorities # {}
  /\ checked' = checked \cup {r}
  /\ caSet' = IF Loadable(authorities) /\ Version(authorities) # caSet[r].version
                THEN [caSet EXCEPT ![r] = Loaded(authorities)] ELSE caSet
  /\ UNCHANGED <<authorities, generated, serving, identity, operator, sinceStart, mistaken>>

\* The listener of a change: the gateway's certificate and its trust are set together.
rotateServerCertificate(r) ==
  /\ caSet[r] # NoSet
  /\ serving' = [serving EXCEPT ![r] = [issuer |-> caSet[r].signer, clients |-> caSet[r].trusted]]
  /\ serving'[r] # serving[r]
  /\ UNCHANGED <<authorities, generated, caSet, identity, operator, clock, mistaken>>

Restart(r) ==
  /\ caSet[r] # NoSet
  /\ caSet' = [caSet EXCEPT ![r] = NoSet] /\ serving' = [serving EXCEPT ![r] = NotServing]
  /\ UNCHANGED <<authorities, generated, identity, operator, clock, mistaken>>

-----------------------------------------------------------------------------
(***************************************************************************)
(* An agent.                                                               *)
(***************************************************************************)
Valid(a) == sinceStart < identity[a].until

\* The gateway's certificate chains to the agent's bundle, the agent's to the gateway's trust.
Accepts(r, a) ==
  /\ serving[r].issuer \in identity[a].trusts
  /\ identity[a].issuer \in serving[r].clients \cap caSet[r].trusted

Certify(r, a) ==
  identity' = [identity EXCEPT ![a] =
    [issuer |-> caSet[r].signer, until |-> sinceStart + CertLifetime, trusts |-> caSet[r].bundle]]

\* A new token, with the bundle of the day.
EnrollAgent_BeforeReady(r, a) ==   \* mutant
  /\ ~Valid(a)
  /\ Certify(r, a)
  /\ UNCHANGED <<authorities, generated, caSet, serving, operator, clock, mistaken>>

EnrollAgent(r, a) ==
  /\ ~Valid(a) /\ serving[r] # NotServing
  /\ Certify(r, a)
  /\ UNCHANGED <<authorities, generated, caSet, serving, operator, clock, mistaken>>

Renew(r, a) ==
  /\ Valid(a) /\ identity[a].until - sinceStart <= CertLifetime - RenewAfter
  /\ Accepts(r, a)
  /\ Certify(r, a)
  /\ UNCHANGED <<authorities, generated, caSet, serving, operator, clock, mistaken>>

-----------------------------------------------------------------------------
(***************************************************************************)
(* An operator's command reads the table, and then writes to it.           *)
(***************************************************************************)
Reads(o, step) ==
  /\ operator[o] = IdleOperator
  /\ operator' = [operator EXCEPT ![o] = [step |-> step, rows |-> authorities]]
  /\ UNCHANGED <<authorities, generated, caSet, serving, identity, clock, mistaken>>

Concludes(o) ==
  /\ operator' = [operator EXCEPT ![o] = IdleOperator]
  /\ UNCHANGED <<caSet, serving, identity, clock>>

\* Ids are given again when the row that had one has been deleted; two rows never share one.
NextId(rows) == Max(IdsOf(rows)) + 1

\* "Changes exactly when the set of rows or any row's state does" is said of the version.
Mistakes(r, rows) == caSet[r].version = Version(rows) /\ caSet[r] # Loaded(rows)

StageReads(o) ==
  /\ Loadable(authorities) /\ In(authorities, {"STAGED", "RETIRING"}) = {}
  /\ generated < MaxCas
  /\ Reads(o, "stage")

Stage(o) ==
  /\ operator[o].step = "stage" /\ generated < MaxCas
  /\ generated' = generated + 1
  /\ LET id == NextId(operator[o].rows)
     IN authorities' = authorities \cup
          (IF id \in IdsOf(authorities) THEN {}
           ELSE {[id |-> id, key |-> generated + 1, state |-> "STAGED", since |-> sinceStart]})
  /\ mistaken' = (mistaken \/ \E r \in CaReplicas : Mistakes(r, authorities'))
  /\ Concludes(o)

Unstage(o) ==
  /\ operator[o] = IdleOperator /\ In(authorities, {"STAGED"}) # {}
  /\ authorities' = authorities \ In(authorities, {"STAGED"})
  /\ UNCHANGED <<generated, caSet, serving, identity, operator, clock, mistaken>>

requireWait_Short(rows) == \A row \in rows : sinceStart >= row.since + RenewAfter   \* mutant
requireWait(rows) == \A row \in rows : sinceStart >= row.since + CertLifetime

PromoteReads(o) ==
  /\ In(authorities, {"STAGED"}) # {} /\ In(authorities, {"ACTIVE"}) # {}
  /\ requireWait(In(authorities, {"STAGED"}))
  /\ Reads(o, "promote")

\* One transaction of two updates, each of the row with that id in that state; neither is
\* undone when the other finds no row ("the certificate authorities changed while promoting").
Promote(o) ==
  /\ operator[o].step = "promote"
  /\ LET was(state) == IdsOf(In(operator[o].rows, {state}))
         another(row) ==
           row.state = "STAGED" /\ row.id \in was("STAGED") /\ row \notin operator[o].rows
         moved(row) ==
           IF row.state = "ACTIVE" /\ row.id \in was("ACTIVE")
             THEN [row EXCEPT !.state = "RETIRING", !.since = sinceStart]
           ELSE IF row.state = "STAGED" /\ row.id \in was("STAGED")
             THEN [row EXCEPT !.state = "ACTIVE", !.since = sinceStart]
           ELSE row
         written == {moved(row) : row \in authorities}
     IN /\ authorities' = written
        /\ mistaken' = (mistaken \/ ~Loadable(written)
                                 \/ \E row \in authorities : another(row))
  /\ UNCHANGED generated /\ Concludes(o)

RetireReads(o) ==
  /\ In(authorities, {"RETIRING"}) # {} /\ requireWait(In(authorities, {"RETIRING"}))
  /\ Reads(o, "retire")

Retire(o) ==
  /\ operator[o].step = "retire"
  /\ authorities' = authorities \ In(authorities, {"RETIRING"})
  /\ UNCHANGED <<generated, mistaken>> /\ Concludes(o)

-----------------------------------------------------------------------------
InStep(r) == caSet[r].version = Version(authorities) /\ serving[r].issuer = caSet[r].signer
               /\ serving[r].clients = caSet[r].trusted

\* A tick ends when every replica that runs has checked.
Tick ==
  /\ sinceStart < MaxNow
  /\ \A o \in CaOperators : operator[o] = IdleOperator
  /\ \A r \in CaReplicas : r \in checked \/ caSet[r] = NoSet
  /\ sinceStart' = sinceStart + 1 /\ checked' = {}
  /\ UNCHANGED <<authorities, generated, caSet, serving, identity, operator, mistaken>>

CaNext ==
  \/ GenerateFirst \/ Tick
  \/ \E r \in CaReplicas :
       \/ reload(r) \/ rotateServerCertificate(r) \/ Restart(r)
       \/ \E a \in CaAgents : EnrollAgent(r, a) \/ Renew(r, a)
  \/ \E o \in CaOperators :
       \/ StageReads(o) \/ Stage(o) \/ Unstage(o)
       \/ PromoteReads(o) \/ Promote(o) \/ RetireReads(o) \/ Retire(o)

CaSpec == CaInit /\ [][CaNext]_caVars

-----------------------------------------------------------------------------
CaTypeOK ==
  /\ authorities \subseteq Row /\ generated \in 0 .. MaxCas
  /\ \A r \in CaReplicas :
       /\ caSet[r].signer \in Keys \cup {0}
       /\ caSet[r].trusted \subseteq Keys /\ caSet[r].bundle \subseteq Keys
       /\ serving[r].issuer \in Keys \cup {0} /\ serving[r].clients \subseteq Keys
  /\ \A a \in CaAgents :
       identity[a] = NoIdentity \/ (/\ identity[a].issuer \in Keys /\ identity[a].until \in Nat
                                   /\ identity[a].trusts \subseteq Keys)
  /\ \A o \in CaOperators : operator[o].step \in {"none", "stage", "promote", "retire"}
                            /\ operator[o].rows \subseteq Row
  /\ sinceStart \in Nat /\ checked \subseteq CaReplicas /\ mistaken \in BOOLEAN

\* What the stale window costs: a replica that checks last signs for a tick after the write
\* from which the waiting is measured, so that a wait ends a tick too early.
Lasts(a) == sinceStart + 1 < identity[a].until

(***************************************************************************)
(* "Replaces the internal CA without re-enrolling a single agent": an      *)
(* agent whose certificate lasts for more than a tick is accepted by every *)
(* replica that has caught up with the table, and accepts it, whatever the *)
(* agent has missed and whichever replica it renewed with, one that had    *)
(* not caught up among them.                                               *)
(***************************************************************************)
NobodyIsCutOff ==
  \A r \in CaReplicas, a \in CaAgents : Lasts(a) /\ InStep(r) => Accepts(r, a)

\* It is so while no id that was given again is taken for the earlier one, by a replica that
\* compares versions or by an operator whose read is older, and while no promotion overlaps
\* an unstaging (of which the operator is told).
CutOffOnlyByMistake == ~mistaken => NobodyIsCutOff

=============================================================================
