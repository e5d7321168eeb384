---------------------------- MODULE StoresProofs ----------------------------
(***************************************************************************)
(* Proofs about CaRotation, Rewrap, Organizations and Downloads, and about *)
(* what they and the agent's dispatcher are together in MCStores.          *)
(***************************************************************************)
EXTENDS MCStores, AgentDispatchProofs, DataLemmas

-----------------------------------------------------------------------------
(***************************************************************************)
(* CaRotation.  For any number of replicas, agents and operators, nobody   *)
(* is cut off but by a mistake, that is, by an id that is given again or   *)
(* by a promotion that leaves no row that signs.                           *)
(*                                                                         *)
(* The argument is about the row that signs, and the waiting times.  A     *)
(* replica may have checked before the write in the tick of the write, and *)
(* has checked after it when the next tick ends: from then on it bundles a *)
(* staged authority, and every certificate it gives carries it; and it     *)
(* signs with a promoted one, so that a certificate of the one before that *)
(* is still valid when the wait is over has not a tick to live.            *)
(***************************************************************************)
USE DEF clock

States == {"ACTIVE", "STAGED", "RETIRING"}
AnyRow == [id : Nat, key : Nat, state : States, since : Nat]

CaTypes ==
  /\ authorities \in SUBSET AnyRow /\ generated \in Nat /\ sinceStart \in Nat
  /\ checked \in SUBSET CaReplicas
  /\ caSet \in [CaReplicas -> [signer : Nat, trusted : SUBSET Nat, bundle : SUBSET Nat,
                               version : SUBSET (Nat \X States)]]
  /\ serving \in [CaReplicas -> [issuer : Nat, clients : SUBSET Nat]]
  /\ identity \in [CaAgents -> [issuer : Nat, until : Nat, trusts : SUBSET Nat]]
  /\ operator \in [CaOperators -> [step : {"none", "stage", "promote", "retire"},
                                   rows : SUBSET AnyRow]]

\* Whatever is in the table.
Anyway ==
  /\ CaTypes
  /\ \A r \in CaReplicas :
       /\ serving[r] # NotServing => caSet[r] # NoSet
       /\ caSet[r] # NoSet => \E i \in Nat : <<i, "ACTIVE">> \in caSet[r].version
  /\ \A g \in CaAgents : identity[g].until <= sinceStart + CertLifetime
  /\ \A o \in CaOperators : operator[o].step = "stage" => NextId(operator[o].rows) \in Nat

Today(rows) == \A row \in rows : row.since = sinceStart

\* Before the first authority.
Unborn ==
  /\ authorities = {}
  /\ \A r \in CaReplicas : caSet[r] = NoSet
  /\ \A o \in CaOperators : operator[o].step = "none"
  /\ \A g \in CaAgents : identity[g] = NoIdentity

-----------------------------------------------------------------------------
\* Row a signs.
Table(a) ==
  /\ In(authorities, {"ACTIVE"}) = {a}
  /\ \A row \in authorities : row.since <= sinceStart
  /\ \A row, other \in In(authorities, {"STAGED"}) : row = other /\ row.id = a.id + 1
  /\ \A row \in In(authorities, {"RETIRING"}) : row.id < a.id /\ row.since = a.since
  /\ In(authorities, {"STAGED"}) = {} \/ In(authorities, {"RETIRING"}) = {}

\* What replica r has loaded: versions that are the same are of the same set.
Known(r, a) ==
  /\ caSet[r].version = Version(authorities) => caSet[r] = Loaded(authorities)
  /\ caSet[r].version = {<<a.id, "ACTIVE">>} => caSet[r] = Loaded({a})
  /\ \A i \in Nat : /\ <<i, "RETIRING">> \in caSet[r].version => i < a.id
                    /\ <<i, "ACTIVE">> \in caSet[r].version => i <= a.id

\* Replica r has checked after what was written at that time.
Seen(r, since) == since + 1 < sinceStart \/ (since < sinceStart /\ r \in checked)

\* What follows from the checks since.
CaughtUp(r, a) ==
  caSet[r] # NoSet =>
    /\ a.key \in caSet[r].bundle
    /\ \A row \in In(authorities, {"STAGED"}) :
         Seen(r, row.since) => row.key \in caSet[r].bundle
    /\ caSet[r].signer \in {a.key} \cup KeysOf(In(authorities, {"RETIRING"}))
    /\ Seen(r, a.since) => caSet[r].signer = a.key

\* A certificate that lasts and was given when a row had been staged, or had begun to sign, for
\* more than a tick.
Certified(g, a) ==
  Lasts(g) =>
    /\ a.key \in identity[g].trusts
    /\ \A row \in In(authorities, {"STAGED"}) :
         row.since + 1 + CertLifetime < identity[g].until => row.key \in identity[g].trusts
    /\ identity[g].issuer \in {a.key} \cup KeysOf(In(authorities, {"RETIRING"}))
    /\ a.since + 1 + CertLifetime < identity[g].until => identity[g].issuer = a.key

\* What an operator is about to write, after what the others did since it has read.
Pending(o, a) ==
  /\ operator[o].step = "stage" =>
       /\ operator[o].rows = {a} /\ Today(In(authorities, {"STAGED"}))
       /\ In(authorities, {"RETIRING"}) = {}
  /\ operator[o].step = "promote" =>
       /\ requireWait(In(operator[o].rows, {"STAGED"})) /\ Today(In(authorities, {"RETIRING"}))
       /\ \A row \in In(authorities, {"STAGED"}) :
            /\ row \in operator[o].rows \/ row.since = sinceStart
            /\ a \in operator[o].rows \/ row.since + CertLifetime > sinceStart
       /\ \A p \in CaOperators : operator[p].step # "retire"
  /\ operator[o].step = "retire" =>
       /\ requireWait(In(authorities, {"RETIRING"})) /\ Today(In(authorities, {"STAGED"}))

Signing(a) ==
  /\ a \in authorities /\ Table(a)
  /\ \A r \in CaReplicas : Known(r, a) /\ CaughtUp(r, a)
  /\ \A g \in CaAgents : Certified(g, a)
  /\ \A o \in CaOperators : Pending(o, a)

CaInv == mistaken \/ (Anyway /\ (Unborn \/ \E a \in authorities : Signing(a)))

-----------------------------------------------------------------------------
\* What a replica makes of a table with one row that signs.
LEMMA LoadedIs ==
  ASSUME NEW rows \in SUBSET AnyRow, NEW a, In(rows, {"ACTIVE"}) = {a}
  PROVE  /\ a \in AnyRow /\ a \in rows /\ a.state = "ACTIVE"
         /\ Loaded(rows) = [signer |-> a.key,
                            trusted |-> KeysOf(In(rows, {"ACTIVE", "RETIRING"})),
                            bundle |-> KeysOf(rows), version |-> Version(rows)]
         /\ Loaded(rows) \in [signer : Nat, trusted : SUBSET Nat, bundle : SUBSET Nat,
                              version : SUBSET (Nat \X States)]
         /\ Loaded(rows) # NoSet
         /\ <<a.id, "ACTIVE">> \in Version(rows)
<1>1. a \in rows /\ a.state = "ACTIVE" /\ a \in AnyRow
  BY DEF In
<1>2. a.id \in Nat /\ a.key \in Nat
  BY <1>1 DEF AnyRow
<1>3. a = CHOOSE row \in In(rows, {"ACTIVE"}) :
            \A other \in In(rows, {"ACTIVE"}) : row.id <= other.id
  BY <1>2
<1>4. <<a.id, "ACTIVE">> \in Version(rows)
  BY <1>1 DEF Version
<1>5. Loaded(rows) = [signer |-> a.key,
                      trusted |-> KeysOf(In(rows, {"ACTIVE", "RETIRING"})),
                      bundle |-> KeysOf(rows), version |-> Version(rows)]
  BY <1>3 DEF Loaded
<1>6. Version(rows) \in SUBSET (Nat \X States)
  BY DEF Version, AnyRow
<1>7. KeysOf(rows) \in SUBSET Nat /\ KeysOf(In(rows, {"ACTIVE", "RETIRING"})) \in SUBSET Nat
  BY DEF KeysOf, In, AnyRow
<1>8. Loaded(rows) # NoSet
  BY <1>4, <1>5 DEF NoSet
<1> QED
  BY <1>1, <1>2, <1>4, <1>5, <1>6, <1>7, <1>8

\* A table and the row alone that signs in it.
LEMMA LoneRow ==
  ASSUME NEW rows \in SUBSET AnyRow, NEW a, In(rows, {"ACTIVE"}) = {a},
         Version(rows) = {<<a.id, "ACTIVE">>}
  PROVE  rows = {a}
<1>0. \A row \in rows : <<row.id, row.state>> \in Version(rows)
  BY DEF Version
<1>1. ASSUME NEW row \in rows PROVE row.state = "ACTIVE"
  <2>1. <<row.id, row.state>> = <<a.id, "ACTIVE">>
    BY <1>0
  <2> QED
    BY <2>1
<1> QED
  BY <1>1 DEF In

LEMMA InitCaInv == CaInit => CaInv
<1> SUFFICES ASSUME CaInit PROVE Anyway /\ Unborn
  BY DEF CaInv
<1>1. Unborn
  BY DEF CaInit, Unborn, IdleOperator
<1>2. CaTypes
  <2>1. caSet \in [CaReplicas -> [signer : Nat, trusted : SUBSET Nat, bundle : SUBSET Nat,
                                  version : SUBSET (Nat \X States)]]
    BY DEF CaInit, NoSet
  <2>2. serving \in [CaReplicas -> [issuer : Nat, clients : SUBSET Nat]]
    BY DEF CaInit, NotServing
  <2>3. identity \in [CaAgents -> [issuer : Nat, until : Nat, trusts : SUBSET Nat]]
    BY DEF CaInit, NoIdentity
  <2>4. operator \in [CaOperators -> [step : {"none", "stage", "promote", "retire"},
                                      rows : SUBSET AnyRow]]
    BY DEF CaInit, IdleOperator
  <2> QED
    BY <2>1, <2>2, <2>3, <2>4 DEF CaInit, CaTypes
<1>3. \A g \in CaAgents : identity[g].until <= sinceStart + CertLifetime
  BY CaAssumption DEF CaInit, NoIdentity
<1> QED
  BY <1>1, <1>2, <1>3 DEF Anyway, CaInit, IdleOperator

-----------------------------------------------------------------------------
(***************************************************************************)
(* The replicas and the agents while row a signs.                          *)
(***************************************************************************)
LEMMA ReloadSigning ==
  ASSUME NEW a, Anyway, Signing(a), NEW r \in CaReplicas, reload(r)
  PROVE  Anyway' /\ Signing(a)'
<1> USE DEF reload
<1>1. authorities \in SUBSET AnyRow /\ In(authorities, {"ACTIVE"}) = {a}
  BY DEF Anyway, CaTypes, Signing, Table
<1>2. /\ a \in AnyRow /\ a \in authorities /\ a.state = "ACTIVE"
      /\ Loaded(authorities) = [signer |-> a.key,
                                trusted |-> KeysOf(In(authorities, {"ACTIVE", "RETIRING"})),
                                bundle |-> KeysOf(authorities), version |-> Version(authorities)]
      /\ Loaded(authorities) \in [signer : Nat, trusted : SUBSET Nat, bundle : SUBSET Nat,
                                  version : SUBSET (Nat \X States)]
      /\ Loaded(authorities) # NoSet
      /\ <<a.id, "ACTIVE">> \in Version(authorities)
  BY <1>1, LoadedIs
<1>3. /\ caSet' = [caSet EXCEPT ![r] = Loaded(authorities)]
      /\ caSet'[r] = Loaded(authorities) /\ \A q \in CaReplicas \ {r} : caSet'[q] = caSet[q]
  <2>1. CASE Version(authorities) # caSet[r].version
    BY <1>1, <2>1 DEF Anyway, CaTypes, Loadable
  <2>2. CASE Version(authorities) = caSet[r].version
    <3>1. caSet[r] = Loaded(authorities) /\ caSet' = caSet
      BY <2>2 DEF Signing, Known
    <3> QED
      BY <3>1 DEF Anyway, CaTypes
  <2> QED
    BY <2>1, <2>2
<1>4. CaTypes'
  BY <1>2, <1>3 DEF Anyway, CaTypes
<1>5. a.id \in Nat
  BY <1>2 DEF AnyRow
<1>6. Anyway'
  <2>1. caSet'[r].version = Version(authorities)
    BY <1>2, <1>3
  <2>2. \A q \in CaReplicas :
          /\ serving'[q] # NotServing => caSet'[q] # NoSet
          /\ caSet'[q] # NoSet => \E i \in Nat : <<i, "ACTIVE">> \in caSet'[q].version
    BY <1>2, <1>3, <1>5, <2>1 DEF Anyway
  <2> QED
    BY <1>4, <2>2 DEF Anyway
<1>7. Table(a)'
  BY DEF Signing, Table
<1>8. ASSUME NEW q \in CaReplicas PROVE Known(q, a)'
  <2>1. CASE q # r
    BY <1>3, <2>1 DEF Signing, Known
  <2>2. CASE q = r
    <3>1. Version(authorities) = {<<a.id, "ACTIVE">>} => Loaded(authorities) = Loaded({a})
      BY <1>1, LoneRow
    <3>2. ASSUME NEW row \in authorities
          PROVE  /\ row.state = "RETIRING" => row.id < a.id
                 /\ row.state = "ACTIVE" => row.id <= a.id
      BY <1>1, <1>5 DEF Signing, Table, In
    <3>3. ASSUME NEW i \in Nat
          PROVE  /\ <<i, "RETIRING">> \in Version(authorities) => i < a.id
                 /\ <<i, "ACTIVE">> \in Version(authorities) => i <= a.id
      BY <3>2 DEF Version
    <3>4. caSet'[r].version = Version(authorities)
      BY <1>2, <1>3
    <3> QED
      BY <1>3, <2>2, <3>1, <3>3, <3>4 DEF Known
  <2> QED
    BY <2>1, <2>2
<1>9. ASSUME NEW q \in CaReplicas PROVE CaughtUp(q, a)'
  <2>1. CASE q # r
    BY <1>3, <2>1 DEF Signing, CaughtUp, Seen
  <2>2. CASE q = r
    <3>1. a.key \in KeysOf(authorities)
          /\ \A row \in In(authorities, {"STAGED"}) : row.key \in KeysOf(authorities)
      BY <1>2 DEF KeysOf, In
    <3> QED
      BY <1>2, <1>3, <2>2, <3>1 DEF CaughtUp
  <2> QED
    BY <2>1, <2>2
<1>10. \A g \in CaAgents : Certified(g, a)'
  BY DEF Signing, Certified, Lasts
<1>11. \A o \in CaOperators : Pending(o, a)'
  BY DEF Signing, Pending, Today, requireWait
<1> QED
  BY <1>2, <1>6, <1>7, <1>8, <1>9, <1>10, <1>11 DEF Signing

LEMMA ServesKeeps ==
  ASSUME Anyway, NEW r \in CaReplicas, rotateServerCertificate(r)
  PROVE  Anyway'
<1> USE DEF rotateServerCertificate
<1>1. CaTypes'
  BY DEF Anyway, CaTypes
<1>2. \A q \in CaReplicas : serving'[q] # NotServing => caSet[q] # NoSet
  BY DEF Anyway, CaTypes
<1> QED
  BY <1>1, <1>2 DEF Anyway

LEMMA ServesSigning ==
  ASSUME NEW a, Anyway, Signing(a), NEW r \in CaReplicas, rotateServerCertificate(r)
  PROVE  Anyway' /\ Signing(a)'
<1> USE DEF rotateServerCertificate
<1>1. Anyway'
  BY ServesKeeps
<1>2. Table(a)' /\ a \in authorities'
  BY DEF Signing, Table
<1>3. \A q \in CaReplicas : Known(q, a)' /\ CaughtUp(q, a)'
  BY DEF Signing, Known, CaughtUp, Seen
<1>4. \A g \in CaAgents : Certified(g, a)'
  BY DEF Signing, Certified, Lasts
<1>5. \A o \in CaOperators : Pending(o, a)'
  BY DEF Signing, Pending, Today, requireWait
<1> QED
  BY <1>1, <1>2, <1>3, <1>4, <1>5 DEF Signing

LEMMA RestartKeeps ==
  ASSUME Anyway, NEW r \in CaReplicas, Restart(r)
  PROVE  Anyway'
<1> USE DEF Restart
<1>1. CaTypes'
  <2>1. /\ NoSet \in [signer : Nat, trusted : SUBSET Nat, bundle : SUBSET Nat,
                      version : SUBSET (Nat \X States)]
        /\ NotServing \in [issuer : Nat, clients : SUBSET Nat]
    BY DEF NoSet, NotServing
  <2> QED
    BY <2>1 DEF Anyway, CaTypes
<1>2. \A q \in CaReplicas :
        /\ serving'[q] # NotServing => caSet'[q] # NoSet
        /\ caSet'[q] # NoSet => \E i \in Nat : <<i, "ACTIVE">> \in caSet'[q].version
  BY DEF Anyway, CaTypes
<1> QED
  BY <1>1, <1>2 DEF Anyway

LEMMA RestartSigning ==
  ASSUME NEW a, Anyway, Signing(a), NEW r \in CaReplicas, Restart(r)
  PROVE  Anyway' /\ Signing(a)'
<1> USE DEF Restart
<1>0. a \in authorities /\ a.state = "ACTIVE"
  BY DEF Signing, Table, In
<1>1. Anyway'
  BY RestartKeeps
<1>2. Table(a)' /\ a \in authorities'
  BY <1>0 DEF Signing, Table
<1>3. ASSUME NEW q \in CaReplicas PROVE Known(q, a)' /\ CaughtUp(q, a)'
  <2>1. CASE q # r
    <3>1. caSet'[q] = caSet[q]
      BY <2>1 DEF Anyway, CaTypes
    <3> QED
      BY <3>1 DEF Signing, Known, CaughtUp, Seen
  <2>2. CASE q = r
    <3>1. caSet'[q] = NoSet
      BY <2>2 DEF Anyway, CaTypes
    <3>2. NoSet.version = {} /\ Version(authorities) # {}
      BY <1>0 DEF NoSet, Version
    <3> QED
      BY <3>1, <3>2 DEF Known, CaughtUp
  <2> QED
    BY <2>1, <2>2
<1>4. \A g \in CaAgents : Certified(g, a)'
  BY DEF Signing, Certified, Lasts
<1>5. \A o \in CaOperators : Pending(o, a)'
  BY DEF Signing, Pending, Today, requireWait
<1> QED
  BY <1>1, <1>2, <1>3, <1>4, <1>5 DEF Signing

\* A certificate is signed by a replica that has loaded a set.
LEMMA CertifyKeeps ==
  ASSUME Anyway, NEW r \in CaReplicas, NEW g \in CaAgents, EnrollAgent(r, g) \/ Renew(r, g)
  PROVE  /\ Anyway'
         /\ UNCHANGED <<authorities, generated, caSet, serving, operator, clock, mistaken>>
         /\ caSet[r] # NoSet
         /\ identity'[g] = [issuer |-> caSet[r].signer, until |-> sinceStart + CertLifetime,
                            trusts |-> caSet[r].bundle]
         /\ \A h \in CaAgents \ {g} : identity'[h] = identity[h]
<1>0. /\ Certify(r, g)
      /\ UNCHANGED <<authorities, generated, caSet, serving, operator, clock, mistaken>>
  BY DEF EnrollAgent, Renew
<1>1. caSet[r] # NoSet
  <2>1. CASE EnrollAgent(r, g)
    BY <2>1 DEF EnrollAgent, Anyway
  <2>2. CASE Renew(r, g)
    BY <2>2 DEF Renew, Accepts, NoSet
  <2> QED
    BY <2>1, <2>2
<1>2. identity'[g] = [issuer |-> caSet[r].signer, until |-> sinceStart + CertLifetime,
                      trusts |-> caSet[r].bundle]
      /\ \A h \in CaAgents \ {g} : identity'[h] = identity[h]
  BY <1>0 DEF Certify, Anyway, CaTypes
<1>3. CertLifetime \in Nat /\ sinceStart \in Nat
  BY CaAssumption DEF Anyway, CaTypes
<1>4. Anyway'
  <2>1. caSet[r].signer \in Nat /\ caSet[r].bundle \in SUBSET Nat
    BY DEF Anyway, CaTypes
  <2>2. CaTypes'
    BY <1>0, <1>3, <2>1 DEF Anyway, CaTypes, Certify
  <2>3. \A h \in CaAgents : identity'[h].until <= sinceStart + CertLifetime
    BY <1>2, <1>3 DEF Anyway
  <2> QED
    BY <1>0, <2>2, <2>3 DEF Anyway
<1> QED
  BY <1>0, <1>1, <1>2, <1>4

LEMMA CertifySigning ==
  ASSUME NEW a, Anyway, Signing(a), NEW r \in CaReplicas, NEW g \in CaAgents,
         EnrollAgent(r, g) \/ Renew(r, g)
  PROVE  Anyway' /\ Signing(a)'
<1>0. /\ Anyway'
      /\ UNCHANGED <<authorities, generated, caSet, serving, operator, clock, mistaken>>
      /\ caSet[r] # NoSet
      /\ identity'[g] = [issuer |-> caSet[r].signer, until |-> sinceStart + CertLifetime,
                         trusts |-> caSet[r].bundle]
      /\ \A h \in CaAgents \ {g} : identity'[h] = identity[h]
  BY CertifyKeeps
<1>3. CertLifetime \in Nat /\ CertLifetime > 1 /\ sinceStart \in Nat /\ authorities \in SUBSET AnyRow
  BY CaAssumption DEF Anyway, CaTypes
<1>5. Table(a)' /\ a \in authorities'
  BY <1>0 DEF Signing, Table
<1>6. \A q \in CaReplicas : Known(q, a)' /\ CaughtUp(q, a)'
  BY <1>0 DEF Signing, Known, CaughtUp, Seen
<1>7. ASSUME NEW h \in CaAgents PROVE Certified(h, a)'
  <2>1. CASE h # g
    BY <1>0, <2>1 DEF Signing, Certified, Lasts
  <2>2. CASE h = g
    <3>1. a.since \in Nat /\ \A row \in In(authorities, {"STAGED"}) : row.since \in Nat
      BY <1>3 DEF Signing, AnyRow, In
    <3>2. CaughtUp(r, a)
      BY DEF Signing
    <3>3. ASSUME NEW n \in Nat, n + 1 + CertLifetime < sinceStart + CertLifetime
          PROVE  Seen(r, n)
      BY <1>3, <3>3 DEF Seen
    <3> QED
      BY <1>0, <2>2, <3>1, <3>2, <3>3 DEF Certified, CaughtUp
  <2> QED
    BY <2>1, <2>2
<1>8. \A o \in CaOperators : Pending(o, a)'
  BY <1>0 DEF Signing, Pending, Today, requireWait
<1> QED
  BY <1>0, <1>5, <1>6, <1>7, <1>8 DEF Signing

-----------------------------------------------------------------------------
(***************************************************************************)
(* The clock and the operators while row a signs.                          *)
(***************************************************************************)
LEMMA TickSigning ==
  ASSUME NEW a, Anyway, Signing(a), Tick
  PROVE  Anyway' /\ Signing(a)'
<1> USE DEF Tick
<1>1. authorities \in SUBSET AnyRow /\ In(authorities, {"ACTIVE"}) = {a} /\ a \in authorities
      /\ sinceStart \in Nat /\ sinceStart' = sinceStart + 1
      /\ CertLifetime \in Nat
  BY CaAssumption DEF Anyway, CaTypes, Signing, Table
<1>2. Anyway'
  <2>1. CaTypes'
    BY <1>1 DEF Anyway, CaTypes
  <2>2. \A g \in CaAgents : identity[g].until \in Nat
    BY DEF Anyway, CaTypes
  <2>3. \A g \in CaAgents : identity'[g].until <= sinceStart' + CertLifetime
    BY <1>1, <2>2 DEF Anyway
  <2> QED
    BY <2>1, <2>3 DEF Anyway, IdleOperator
<1>3. Table(a)' /\ a \in authorities'
  <2>1. \A row \in authorities : row.since \in Nat
    BY <1>1 DEF AnyRow
  <2>2. \A row \in authorities : row.since <= sinceStart
    BY DEF Signing, Table
  <2>3. ASSUME NEW row \in authorities PROVE row.since <= sinceStart + 1
    BY <1>1, <2>1, <2>2
  <2> QED
    BY <1>1, <2>3 DEF Signing, Table
<1>4. ASSUME NEW r \in CaReplicas PROVE Known(r, a)' /\ CaughtUp(r, a)'
  <2>1. Known(r, a)'
    BY DEF Signing, Known
  <2>2. ASSUME NEW since \in Nat, caSet[r] # NoSet, Seen(r, since)' PROVE Seen(r, since)
    BY <1>1, <2>2 DEF Seen
  <2>3. a.since \in Nat /\ \A row \in In(authorities, {"STAGED"}) : row.since \in Nat
    BY <1>1 DEF AnyRow, In
  <2>4. CaughtUp(r, a)
    BY DEF Signing
  <2> QED
    BY <2>1, <2>2, <2>3, <2>4 DEF CaughtUp
<1>5. ASSUME NEW g \in CaAgents PROVE Certified(g, a)'
  <2>1. identity[g].until \in Nat
    BY DEF Anyway, CaTypes
  <2>2. Lasts(g)' => Lasts(g)
    BY <1>1, <2>1 DEF Lasts
  <2> QED
    BY <2>2 DEF Signing, Certified
<1>6. ASSUME NEW o \in CaOperators PROVE Pending(o, a)'
  <2>1. operator'[o].step = "none"
    BY DEF IdleOperator
  <2> QED
    BY <2>1 DEF Pending
<1> QED
  BY <1>2, <1>3, <1>4, <1>5, <1>6 DEF Signing

\* What reading changes.
LEMMA ReadsSigning ==
  ASSUME NEW a, Anyway, Signing(a), NEW o \in CaOperators,
         NEW step \in {"stage", "promote", "retire"}, Reads(o, step),
         step = "stage" => NextId(authorities) \in Nat, Pending(o, a)',
         \A p \in CaOperators \ {o} : Pending(p, a)'
  PROVE  Anyway' /\ Signing(a)'
<1> USE DEF Reads
<1>1. Anyway'
  <2>1. CaTypes'
    BY DEF Anyway, CaTypes
  <2>2. \A p \in CaOperators : operator'[p].step = "stage" => NextId(operator'[p].rows) \in Nat
    BY DEF Anyway, CaTypes
  <2> QED
    BY <2>1, <2>2 DEF Anyway
<1>2. Table(a)' /\ a \in authorities'
  BY DEF Signing, Table
<1>3. \A r \in CaReplicas : Known(r, a)' /\ CaughtUp(r, a)'
  BY DEF Signing, Known, CaughtUp, Seen
<1>4. \A g \in CaAgents : Certified(g, a)'
  BY DEF Signing, Certified, Lasts
<1> QED
  BY <1>1, <1>2, <1>3, <1>4 DEF Signing

\* A row that was to wait is not one of today.
LEMMA WaitedIsNotToday ==
  ASSUME NEW rows \in SUBSET AnyRow, sinceStart \in Nat, requireWait(rows), Today(rows)
  PROVE  rows = {}
<1>1. CertLifetime \in Nat /\ CertLifetime > 0
  BY CaAssumption
<1>2. \A row \in rows : sinceStart >= sinceStart + CertLifetime
  BY DEF requireWait, Today
<1> QED
  BY <1>1, <1>2

LEMMA NextIdIs ==
  ASSUME NEW row, row.id \in Nat
  PROVE  NextId({row}) = row.id + 1
<1>1. IdsOf({row}) = {row.id}
  BY DEF IdsOf
<1>2. Max({row.id}) = row.id
  BY DEF Max
<1> QED
  BY <1>1, <1>2 DEF NextId

LEMMA StageReadsSigning ==
  ASSUME NEW a, Anyway, Signing(a), NEW o \in CaOperators, StageReads(o)
  PROVE  Anyway' /\ Signing(a)'
<1>1. Reads(o, "stage") /\ authorities = {a}
  BY DEF StageReads, Signing, Table, In, Anyway, CaTypes, AnyRow, States
<1>2. UNCHANGED <<authorities, sinceStart>>
      /\ operator'[o] = [step |-> "stage", rows |-> authorities]
      /\ \A p \in CaOperators \ {o} : operator'[p] = operator[p]
  BY <1>1 DEF Reads, Anyway, CaTypes
<1>3. Pending(o, a)'
  BY <1>1, <1>2 DEF StageReads, Pending, In, Today
<1>4. ASSUME NEW p \in CaOperators \ {o} PROVE Pending(p, a)'
  BY <1>2 DEF Signing, Pending, Today, requireWait
<1>5. NextId(authorities) \in Nat
  <2>1. a.id \in Nat
    BY <1>1 DEF Anyway, CaTypes, AnyRow
  <2> QED
    BY <1>1, <2>1, NextIdIs
<1> QED
  BY <1>1, <1>3, <1>4, <1>5, ReadsSigning

LEMMA PromoteReadsSigning ==
  ASSUME NEW a, Anyway, Signing(a), NEW o \in CaOperators, PromoteReads(o)
  PROVE  Anyway' /\ Signing(a)'
<1>1. Reads(o, "promote")
  BY DEF PromoteReads
<1>2. UNCHANGED <<authorities, sinceStart>>
      /\ operator'[o] = [step |-> "promote", rows |-> authorities]
      /\ \A p \in CaOperators \ {o} : operator'[p] = operator[p]
  BY <1>1 DEF Reads, Anyway, CaTypes
<1>3. In(authorities, {"RETIRING"}) = {} /\ a \in authorities
  BY DEF PromoteReads, Signing, Table
<1>4. ASSUME NEW p \in CaOperators, operator[p].step = "retire" PROVE FALSE
  <2>1. requireWait(In(authorities, {"STAGED"})) /\ Today(In(authorities, {"STAGED"}))
    BY <1>4 DEF PromoteReads, Signing, Pending
  <2>2. In(authorities, {"STAGED"}) \in SUBSET AnyRow /\ sinceStart \in Nat
    BY DEF In, Anyway, CaTypes
  <2> QED
    BY <2>1, <2>2, WaitedIsNotToday DEF PromoteReads
<1>5. Pending(o, a)'
  <2>1. \A row \in In(authorities, {"STAGED"}) : row \in authorities
    BY DEF In
  <2>2. \A p \in CaOperators : operator'[p].step # "retire"
    BY <1>2, <1>4
  <2>3. requireWait(In(authorities, {"STAGED"}))' /\ Today(In(authorities, {"RETIRING"}))'
    BY <1>2, <1>3 DEF PromoteReads, requireWait, Today
  <2> QED
    BY <1>2, <1>3, <2>1, <2>2, <2>3 DEF Pending
<1>6. ASSUME NEW p \in CaOperators \ {o} PROVE Pending(p, a)'
  BY <1>2 DEF Signing, Pending, Today, requireWait
<1> QED
  BY <1>1, <1>5, <1>6, ReadsSigning

LEMMA RetireReadsSigning ==
  ASSUME NEW a, Anyway, Signing(a), NEW o \in CaOperators, RetireReads(o)
  PROVE  Anyway' /\ Signing(a)'
<1>1. Reads(o, "retire")
  BY DEF RetireReads
<1>2. UNCHANGED <<authorities, sinceStart>>
      /\ operator'[o] = [step |-> "retire", rows |-> authorities]
      /\ \A p \in CaOperators \ {o} : operator'[p] = operator[p]
  BY <1>1 DEF Reads, Anyway, CaTypes
<1>3. In(authorities, {"STAGED"}) = {}
  BY DEF RetireReads, Signing, Table
<1>4. ASSUME NEW p \in CaOperators, operator[p].step = "promote" PROVE FALSE
  <2>1. requireWait(In(authorities, {"RETIRING"})) /\ Today(In(authorities, {"RETIRING"}))
    BY <1>4 DEF RetireReads, Signing, Pending
  <2>2. In(authorities, {"RETIRING"}) \in SUBSET AnyRow /\ sinceStart \in Nat
    BY DEF In, Anyway, CaTypes
  <2> QED
    BY <2>1, <2>2, WaitedIsNotToday DEF RetireReads
<1>5. Pending(o, a)'
  <2>1. requireWait(In(authorities, {"RETIRING"}))' /\ Today(In(authorities, {"STAGED"}))'
    BY <1>2, <1>3 DEF RetireReads, requireWait, Today
  <2> QED
    BY <1>2, <2>1 DEF Pending
<1>6. ASSUME NEW p \in CaOperators \ {o} PROVE Pending(p, a)'
  <2>1. operator'[p].step # "promote"
    BY <1>2, <1>4
  <2> QED
    BY <1>2, <2>1 DEF Signing, Pending, Today, requireWait
<1> QED
  BY <1>1, <1>5, <1>6, ReadsSigning

\* What an operator's write leaves alone.
LEMMA ConcludesKeeps ==
  ASSUME Anyway, NEW o \in CaOperators, operator[o].step # "none" \/ operator[o] = IdleOperator,
         operator' = [operator EXCEPT ![o] = IdleOperator],
         UNCHANGED <<caSet, serving, identity, clock>>,
         authorities' \in SUBSET AnyRow, generated' \in Nat
  PROVE  /\ Anyway'
         /\ \A p \in CaOperators :
              operator'[p] = operator[p] \/ operator'[p].step = "none"
<1>1. IdleOperator \in [step : {"none", "stage", "promote", "retire"}, rows : SUBSET AnyRow]
      /\ IdleOperator.step = "none"
  BY DEF IdleOperator
<1>2. CaTypes'
  BY <1>1 DEF Anyway, CaTypes
<1>3. \A p \in CaOperators : operator'[p] = operator[p] \/ operator'[p].step = "none"
  BY <1>1 DEF Anyway, CaTypes
<1> QED
  BY <1>2, <1>3 DEF Anyway

LEMMA StageSigning ==
  ASSUME NEW a, Anyway, Signing(a), NEW o \in CaOperators, Stage(o), ~mistaken'
  PROVE  Anyway' /\ Signing(a)'
<1>1. /\ operator[o].rows = {a} /\ Today(In(authorities, {"STAGED"}))
      /\ In(authorities, {"RETIRING"}) = {}
  BY DEF Stage, Signing, Pending
<1>2. a \in AnyRow /\ a \in authorities /\ a.state = "ACTIVE" /\ a.id \in Nat /\ a.since \in Nat
      /\ authorities \in SUBSET AnyRow /\ generated \in Nat /\ sinceStart \in Nat
      /\ CertLifetime \in Nat /\ CertLifetime > 0
  BY CaAssumption DEF Signing, Table, In, Anyway, CaTypes, AnyRow
<1>3. NextId(operator[o].rows) = a.id + 1
  BY <1>1, <1>2, NextIdIs
<1> DEFINE s == [id |-> a.id + 1, key |-> generated + 1, state |-> "STAGED", since |-> sinceStart]
<1>4. s \in AnyRow
  BY <1>2 DEF AnyRow, States
<1>5. \/ authorities' = authorities
      \/ a.id + 1 \notin IdsOf(authorities) /\ authorities' = authorities \cup {s}
  BY <1>3 DEF Stage
<1>6. UNCHANGED <<caSet, serving, identity, clock>>
      /\ operator' = [operator EXCEPT ![o] = IdleOperator]
  BY DEF Stage, Concludes
<1>7. /\ Anyway'
      /\ \A p \in CaOperators : operator'[p] = operator[p] \/ operator'[p].step = "none"
  <2>1. authorities' \in SUBSET AnyRow /\ generated' \in Nat /\ operator[o].step # "none"
    BY <1>2, <1>4, <1>5 DEF Stage
  <2> QED
    BY <1>6, <2>1, ConcludesKeeps
<1>8. /\ In(authorities', {"ACTIVE"}) = {a}
      /\ In(authorities', {"RETIRING"}) = {}
      /\ \A row \in authorities' : row \in authorities \/ row = s
  BY <1>1, <1>5 DEF Signing, Table, In
<1>9. \A row \in In(authorities', {"STAGED"}) : row.id = a.id + 1 /\ row.since = sinceStart
  BY <1>1, <1>8 DEF Signing, Table, In, Today
<1>10. \A row, other \in In(authorities', {"STAGED"}) : row = other
  <2>1. CASE authorities' = authorities
    BY <2>1 DEF Signing, Table
  <2>2. CASE a.id + 1 \notin IdsOf(authorities) /\ authorities' = authorities \cup {s}
    <3>1. In(authorities, {"STAGED"}) = {}
      BY <2>2 DEF Signing, Table, IdsOf, In
    <3>2. In(authorities', {"STAGED"}) \in SUBSET {s}
      BY <2>2, <3>1 DEF In
    <3> QED
      BY <3>2
  <2> QED
    BY <1>5, <2>1, <2>2
<1>11. Table(a)'
  <2>1. \A row \in authorities' : row.since <= sinceStart
    BY <1>2, <1>8 DEF Signing, Table
  <2> QED
    BY <1>6, <1>8, <1>9, <1>10, <2>1 DEF Table
<1>12. ASSUME NEW r \in CaReplicas PROVE Known(r, a)'
  <2>1. ~Mistakes(r, authorities')
    BY DEF Stage
  <2>2. caSet[r].version = Version(authorities') => caSet[r] = Loaded(authorities')
    BY <2>1 DEF Mistakes
  <2> QED
    BY <1>6, <2>2 DEF Signing, Known
<1>13. ASSUME NEW r \in CaReplicas PROVE CaughtUp(r, a)'
  <2>1. \A row \in In(authorities', {"STAGED"}) : ~Seen(r, row.since)
    BY <1>2, <1>9 DEF Seen
  <2>2. KeysOf(In(authorities', {"RETIRING"})) = KeysOf(In(authorities, {"RETIRING"}))
    BY <1>1, <1>8
  <2> QED
    BY <1>6, <2>1, <2>2 DEF Signing, CaughtUp, Seen
<1>14. ASSUME NEW g \in CaAgents PROVE Certified(g, a)'
  <2>1. identity[g].until \in Nat /\ identity[g].until <= sinceStart + CertLifetime
    BY DEF Anyway, CaTypes
  <2>2. \A row \in In(authorities', {"STAGED"}) : ~(row.since + 1 + CertLifetime < identity[g].until)
    BY <1>2, <1>9, <2>1
  <2>3. KeysOf(In(authorities', {"RETIRING"})) = KeysOf(In(authorities, {"RETIRING"}))
    BY <1>1, <1>8
  <2>4. Lasts(g)' <=> Lasts(g)
    BY <1>6 DEF Lasts
  <2> QED
    BY <1>6, <2>2, <2>3, <2>4 DEF Signing, Certified
<1>15. ASSUME NEW p \in CaOperators PROVE Pending(p, a)'
  <2>1. CASE operator'[p].step = "none"
    BY <2>1 DEF Pending
  <2>2. CASE operator'[p] = operator[p]
    <3>1. Pending(p, a)
      BY DEF Signing
    <3>2. /\ Today(In(authorities, {"STAGED"}))' /\ Today(In(authorities, {"RETIRING"}))'
          /\ requireWait(In(authorities, {"RETIRING"}))'
      BY <1>6, <1>8, <1>9 DEF Today, requireWait
    <3>3. requireWait(In(operator[p].rows, {"STAGED"}))
            => requireWait(In(operator[p].rows, {"STAGED"}))'
      BY <1>6, <2>2 DEF requireWait
    <3>4. \A row \in In(authorities', {"STAGED"}) : row.since + CertLifetime > sinceStart
      BY <1>2, <1>9
    <3>5. operator[p].step = "promote" => \A q \in CaOperators : operator'[q].step # "retire"
      BY <1>7, <3>1 DEF Pending
    <3> QED
      BY <1>6, <1>8, <1>9, <2>2, <3>1, <3>2, <3>3, <3>4, <3>5 DEF Pending
  <2> QED
    BY <1>7, <2>1, <2>2
<1> QED
  BY <1>2, <1>5, <1>7, <1>11, <1>12, <1>13, <1>14, <1>15 DEF Signing

\* Rows are taken away, and row a stays.
LEMMA RemovesSigning ==
  ASSUME NEW a, Anyway, Signing(a),
         UNCHANGED <<caSet, serving, identity, clock>>,
         \A p \in CaOperators : operator'[p] = operator[p] \/ operator'[p].step = "none",
         authorities' \in SUBSET authorities, a \in authorities',
         authorities' = authorities \/ authorities' = {a},
         \A row \in In(authorities, {"RETIRING"}) :
           row \in authorities' \/ row.since + CertLifetime <= sinceStart
  PROVE  Signing(a)'
<1>1. a \in AnyRow /\ a.state = "ACTIVE" /\ a.since \in Nat /\ sinceStart \in Nat
      /\ authorities \in SUBSET AnyRow
      /\ CertLifetime \in Nat /\ CertLifetime > 1
  BY CaAssumption DEF Signing, Table, In, Anyway, CaTypes, AnyRow
<1>2. \A states : In(authorities', states) \in SUBSET In(authorities, states)
  BY DEF In
<1>3. In(authorities', {"ACTIVE"}) = {a}
  BY <1>1, <1>2 DEF Signing, Table, In
<1>4. Table(a)'
  BY <1>2, <1>3 DEF Signing, Table
<1>5. ASSUME NEW r \in CaReplicas PROVE Known(r, a)'
  <2>1. CASE authorities' = authorities
    BY <2>1 DEF Signing, Known
  <2>2. CASE authorities' = {a}
    <3>1. Version({a}) = {<<a.id, "ACTIVE">>}
      BY <1>1 DEF Version
    <3> QED
      BY <2>2, <3>1 DEF Signing, Known
  <2> QED
    BY <2>1, <2>2
\* An authority that is retired signed nothing that lasts.
<1>6. ASSUME NEW row \in In(authorities, {"RETIRING"}), row \notin authorities'
      PROVE  /\ a.since + 1 < sinceStart
             /\ \A g \in CaAgents : Lasts(g) => a.since + 1 + CertLifetime < identity[g].until
  <2>1. row.since + CertLifetime <= sinceStart /\ row.since = a.since
    BY <1>6 DEF Signing, Table
  <2>2. \A g \in CaAgents : identity[g].until \in Nat
    BY DEF Anyway, CaTypes
  <2> QED
    BY <1>1, <2>1, <2>2 DEF Lasts
<1>7. \A key \in KeysOf(In(authorities, {"RETIRING"})) :
        \/ key \in KeysOf(In(authorities', {"RETIRING"}))
        \/ /\ a.since + 1 < sinceStart
           /\ \A g \in CaAgents : Lasts(g) => a.since + 1 + CertLifetime < identity[g].until
  BY <1>6 DEF KeysOf, In
<1>8. ASSUME NEW r \in CaReplicas PROVE CaughtUp(r, a)'
  BY <1>2, <1>7 DEF Signing, CaughtUp, Seen
<1>9. ASSUME NEW g \in CaAgents PROVE Certified(g, a)'
  <2>1. Lasts(g)' <=> Lasts(g)
    BY DEF Lasts
  <2> QED
    BY <1>2, <1>7, <2>1 DEF Signing, Certified
<1>10. ASSUME NEW p \in CaOperators PROVE Pending(p, a)'
  <2>1. CASE operator'[p].step = "none"
    BY <2>1 DEF Pending
  <2>2. CASE operator'[p] = operator[p]
    <3>1. Pending(p, a)
      BY DEF Signing
    <3>2. operator[p].step = "promote" => \A q \in CaOperators : operator'[q].step # "retire"
      BY <3>1 DEF Pending
    <3> QED
      BY <1>2, <2>2, <3>1, <3>2 DEF Pending, Today, requireWait
  <2> QED
    BY <2>1, <2>2
<1> QED
  BY <1>4, <1>5, <1>8, <1>9, <1>10 DEF Signing

LEMMA UnstageSigning ==
  ASSUME NEW a, Anyway, Signing(a), NEW o \in CaOperators, Unstage(o)
  PROVE  Anyway' /\ Signing(a)'
<1> USE DEF Unstage
<1>1. authorities \in SUBSET AnyRow /\ a \in authorities /\ a.state = "ACTIVE"
      /\ In(authorities, {"ACTIVE"}) = {a} /\ In(authorities, {"RETIRING"}) = {}
  BY DEF Anyway, CaTypes, Signing, Table, In
<1>2. \A row \in authorities : row \in In(authorities, {"ACTIVE"}) \/ row \in In(authorities, {"STAGED"})
                                \/ row \in In(authorities, {"RETIRING"})
  BY <1>1 DEF In, AnyRow, States
<1>3. authorities' = {a}
  BY <1>1, <1>2 DEF In
<1>4. Anyway'
  <2>1. authorities' \in SUBSET AnyRow
    BY <1>1
  <2> QED
    BY <2>1 DEF Anyway, CaTypes
<1> QED
  BY <1>1, <1>3, <1>4, RemovesSigning

LEMMA RetireSigning ==
  ASSUME NEW a, Anyway, Signing(a), NEW o \in CaOperators, Retire(o)
  PROVE  Anyway' /\ Signing(a)'
<1>1. authorities \in SUBSET AnyRow /\ a \in authorities /\ a.state = "ACTIVE"
      /\ In(authorities, {"ACTIVE"}) = {a} /\ sinceStart \in Nat /\ generated \in Nat
      /\ CertLifetime \in Nat
      /\ (In(authorities, {"STAGED"}) = {} \/ In(authorities, {"RETIRING"}) = {})
  BY CaAssumption DEF Anyway, CaTypes, Signing, Table, In
<1>2. UNCHANGED <<caSet, serving, identity, clock, generated>>
      /\ operator' = [operator EXCEPT ![o] = IdleOperator]
      /\ authorities' = authorities \ In(authorities, {"RETIRING"})
      /\ operator[o].step = "retire"
  BY DEF Retire, Concludes
<1>3. /\ Anyway'
      /\ \A p \in CaOperators : operator'[p] = operator[p] \/ operator'[p].step = "none"
  BY <1>1, <1>2, ConcludesKeeps
<1>4. \A row \in authorities : row \in In(authorities, {"ACTIVE"}) \/ row \in In(authorities, {"STAGED"})
                                \/ row \in In(authorities, {"RETIRING"})
  BY <1>1 DEF In, AnyRow, States
<1>5. a \in authorities' /\ (authorities' = authorities \/ authorities' = {a})
  <2>1. a \in authorities'
    BY <1>1, <1>2 DEF In
  <2>2. CASE In(authorities, {"RETIRING"}) = {}
    BY <1>2, <2>1, <2>2
  <2>3. CASE In(authorities, {"STAGED"}) = {}
    BY <1>1, <1>2, <1>4, <2>1, <2>3
  <2> QED
    BY <1>1, <2>1, <2>2, <2>3
<1>6. ASSUME NEW row \in In(authorities, {"RETIRING"})
      PROVE  row.since + CertLifetime <= sinceStart
  <2>1. sinceStart >= row.since + CertLifetime
    BY <1>2 DEF Signing, Pending, requireWait
  <2>2. row.since \in Nat
    BY <1>1 DEF In, AnyRow
  <2> QED
    BY <1>1, <2>1, <2>2
<1> QED
  BY <1>2, <1>3, <1>5, <1>6, RemovesSigning

-----------------------------------------------------------------------------
(***************************************************************************)
(* What promoting does, when no row is taken for another and one is left   *)
(* that signs: the row that waited takes over, or there is nothing to do.  *)
(***************************************************************************)
Promoted(rows, row) ==
  IF row.state = "ACTIVE" /\ row.id \in IdsOf(In(rows, {"ACTIVE"}))
    THEN [row EXCEPT !.state = "RETIRING", !.since = sinceStart]
  ELSE IF row.state = "STAGED" /\ row.id \in IdsOf(In(rows, {"STAGED"}))
    THEN [row EXCEPT !.state = "ACTIVE", !.since = sinceStart]
  ELSE row

LEMMA PromoteWrites ==
  ASSUME Anyway, NEW o \in CaOperators, Promote(o), ~mistaken'
  PROVE  /\ Anyway'
         /\ UNCHANGED <<caSet, serving, identity, clock>>
         /\ \A p \in CaOperators : operator'[p] = operator[p] \/ operator'[p].step = "none"
         /\ authorities' = {Promoted(operator[o].rows, row) : row \in authorities}
         /\ \A row \in In(authorities, {"STAGED"}) :
              row.id \in IdsOf(In(operator[o].rows, {"STAGED"})) => row \in operator[o].rows
         /\ In(authorities', {"ACTIVE"}) # {}
<1>1. UNCHANGED <<caSet, serving, identity, clock, generated>>
      /\ operator' = [operator EXCEPT ![o] = IdleOperator]
      /\ operator[o].step = "promote"
  BY DEF Promote, Concludes
<1>2. authorities' = {Promoted(operator[o].rows, row) : row \in authorities}
  BY DEF Promote, Promoted
<1>3. \A row \in In(authorities, {"STAGED"}) :
        row.id \in IdsOf(In(operator[o].rows, {"STAGED"})) => row \in operator[o].rows
  BY DEF Promote, In
<1>4. ASSUME NEW row \in AnyRow PROVE Promoted(operator[o].rows, row) \in AnyRow
  <2>1. sinceStart \in Nat
    BY DEF Anyway, CaTypes
  <2>2. /\ [row EXCEPT !.state = "RETIRING", !.since = sinceStart] \in AnyRow
        /\ [row EXCEPT !.state = "ACTIVE", !.since = sinceStart] \in AnyRow
    BY <2>1 DEF AnyRow, States
  <2> QED
    BY <2>2 DEF Promoted
<1>5. authorities' \in SUBSET AnyRow /\ generated' \in Nat
  BY <1>1, <1>2, <1>4 DEF Anyway, CaTypes
<1>6. /\ Anyway'
      /\ \A p \in CaOperators : operator'[p] = operator[p] \/ operator'[p].step = "none"
  BY <1>1, <1>5, ConcludesKeeps
<1>7. In(authorities', {"ACTIVE"}) # {}
  BY DEF Promote, Loadable
<1> QED
  BY <1>1, <1>2, <1>3, <1>6, <1>7

\* The row that was staged when the operator read is staged still.
LEMMA TakesOver ==
  ASSUME NEW a, Anyway, Signing(a), NEW o \in CaOperators, Promote(o), ~mistaken',
         NEW s \in In(authorities, {"STAGED"}), s \in operator[o].rows
  PROVE  \E b \in authorities' : Signing(b)'
<1>1. /\ Anyway'
      /\ UNCHANGED <<caSet, serving, identity, clock>>
      /\ \A p \in CaOperators : operator'[p] = operator[p] \/ operator'[p].step = "none"
      /\ authorities' = {Promoted(operator[o].rows, row) : row \in authorities}
  BY PromoteWrites
<1>2. /\ authorities \in SUBSET AnyRow /\ sinceStart \in Nat
      /\ CertLifetime \in Nat /\ CertLifetime > 1
  BY CaAssumption DEF Anyway, CaTypes
<1>3. /\ a \in authorities /\ a \in AnyRow /\ a.state = "ACTIVE" /\ a.id \in Nat
      /\ s \in authorities /\ s \in AnyRow /\ s.state = "STAGED" /\ s.id = a.id + 1
      /\ s.since \in Nat
      /\ In(authorities, {"RETIRING"}) = {}
  BY <1>2 DEF Signing, Table, In, AnyRow
<1>4. s.since + CertLifetime <= sinceStart
  <2>1. s \in In(operator[o].rows, {"STAGED"})
    BY <1>3 DEF In
  <2>2. sinceStart >= s.since + CertLifetime
    BY <2>1 DEF Promote, Signing, Pending, requireWait
  <2> QED
    BY <1>2, <1>3, <2>2
<1>5. /\ ~(s.since = sinceStart) /\ ~(s.since + CertLifetime > sinceStart)
      /\ \A r \in CaReplicas : Seen(r, s.since)
  BY <1>2, <1>3, <1>4 DEF Seen
<1>6. authorities = {a, s}
  <2>1. ASSUME NEW row \in authorities PROVE row = a \/ row = s
    <3>1. \/ row \in In(authorities, {"ACTIVE"}) \/ row \in In(authorities, {"STAGED"})
          \/ row \in In(authorities, {"RETIRING"})
      BY <1>2 DEF In, AnyRow, States
    <3> QED
      BY <1>3, <3>1 DEF Signing, Table
  <2> QED
    BY <1>3, <2>1
<1>7. a \in operator[o].rows
  BY <1>5 DEF Promote, Signing, Pending
<1>8. PICK b : b = [s EXCEPT !.state = "ACTIVE", !.since = sinceStart]
  OBVIOUS
<1>9. PICK old : old = [a EXCEPT !.state = "RETIRING", !.since = sinceStart]
  OBVIOUS
<1>10. authorities' = {b, old}
  <2>1. a.id \in IdsOf(In(operator[o].rows, {"ACTIVE"}))
        /\ s.id \in IdsOf(In(operator[o].rows, {"STAGED"}))
    BY <1>3, <1>7 DEF IdsOf, In
  <2>2. Promoted(operator[o].rows, a) = old /\ Promoted(operator[o].rows, s) = b
    BY <1>3, <1>8, <1>9, <2>1 DEF Promoted
  <2> QED
    BY <1>1, <1>6, <2>2
<1>11. /\ b.id = a.id + 1 /\ b.key = s.key /\ b.state = "ACTIVE" /\ b.since = sinceStart
      /\ old.id = a.id /\ old.key = a.key /\ old.state = "RETIRING" /\ old.since = sinceStart
  BY <1>3, <1>8, <1>9 DEF AnyRow
<1>12. /\ In(authorities', {"ACTIVE"}) = {b} /\ In(authorities', {"STAGED"}) = {}
       /\ In(authorities', {"RETIRING"}) = {old}
  BY <1>10, <1>11 DEF In
<1>13. Table(b)'
  <2>1. old.id < b.id /\ \A row \in authorities' : row.since <= sinceStart
    BY <1>2, <1>3, <1>10, <1>11
  <2> QED
    BY <1>1, <1>11, <1>12, <2>1 DEF Table
<1>14. ASSUME NEW r \in CaReplicas PROVE Known(r, b)'
  <2>1. ASSUME NEW i \in Nat
        PROVE  /\ <<i, "RETIRING">> \in caSet[r].version => i < a.id
               /\ <<i, "ACTIVE">> \in caSet[r].version => i <= a.id
    BY DEF Signing, Known
  <2>2. <<a.id, "RETIRING">> \in Version(authorities')
    BY <1>10, <1>11 DEF Version
  <2>3. caSet[r].version # Version(authorities')
    <3>1. ~(a.id < a.id)
      BY <1>3
    <3>2. <<a.id, "RETIRING">> \notin caSet[r].version
      BY <1>3, <2>1, <3>1
    <3> QED
      BY <2>2, <3>2
  <2>4. b.id \in Nat /\ ~(b.id <= a.id)
    BY <1>3, <1>11
  <2>5. caSet[r].version # {<<b.id, "ACTIVE">>}
    BY <2>1, <2>4
  <2>6. ASSUME NEW i \in Nat
        PROVE  (i < a.id => i < b.id) /\ (i <= a.id => i <= b.id)
    BY <1>3, <1>11
  <2> QED
    BY <1>1, <2>1, <2>3, <2>5, <2>6 DEF Known
<1>15. KeysOf(In(authorities', {"RETIRING"})) = {a.key} /\ KeysOf(In(authorities, {"RETIRING"})) = {}
  BY <1>3, <1>11, <1>12 DEF KeysOf
<1>16. (\A r \in CaReplicas : ~Seen(r, b.since)) /\ \A u \in Nat : u <= sinceStart + CertLifetime
                                     => ~(b.since + 1 + CertLifetime < u)
  BY <1>2, <1>11 DEF Seen
<1>17. ASSUME NEW r \in CaReplicas PROVE CaughtUp(r, b)'
  <2>1. caSet[r] # NoSet => s.key \in caSet[r].bundle /\ caSet[r].signer = a.key
    BY <1>5, <1>15 DEF Signing, CaughtUp
  <2> QED
    BY <1>1, <1>11, <1>12, <1>15, <1>16, <2>1 DEF CaughtUp, Seen
<1>18. ASSUME NEW g \in CaAgents PROVE Certified(g, b)'
  <2>1. identity[g].until \in Nat /\ identity[g].until <= sinceStart + CertLifetime
    BY DEF Anyway, CaTypes
  <2>2. Lasts(g) => s.since + 1 + CertLifetime < identity[g].until
    BY <1>2, <1>3, <1>4, <2>1 DEF Lasts
  <2>3. Lasts(g) => s.key \in identity[g].trusts /\ identity[g].issuer = a.key
    BY <1>15, <2>2 DEF Signing, Certified
  <2>4. ~(b.since + 1 + CertLifetime < identity[g].until)
    BY <1>16, <2>1
  <2>5. Lasts(g)' <=> Lasts(g)
    BY <1>1 DEF Lasts
  <2> QED
    BY <1>1, <1>11, <1>12, <1>15, <2>3, <2>4, <2>5 DEF Certified
<1>19. ASSUME NEW p \in CaOperators PROVE Pending(p, b)'
  <2>1. CASE operator'[p].step = "none"
    BY <2>1 DEF Pending
  <2>2. CASE operator'[p] = operator[p]
    <3>1. Pending(p, a)
      BY DEF Signing
    <3>2. operator[p].step # "stage"
      BY <1>5, <3>1 DEF Pending, Today
    <3>3. \A q \in CaOperators : operator[q].step # "retire"
      BY DEF Promote, Signing, Pending
    <3>4. \A q \in CaOperators : operator'[q].step # "retire"
      BY <1>1, <3>3
    <3>5. operator[p].step = "promote" => requireWait(In(operator[p].rows, {"STAGED"}))'
      BY <1>1, <2>2, <3>1 DEF Pending, requireWait
    <3>6. Today(In(authorities, {"RETIRING"}))'
      BY <1>1, <1>11, <1>12 DEF Today
    <3> QED
      BY <1>12, <2>2, <3>2, <3>4, <3>5, <3>6 DEF Pending
  <2> QED
    BY <1>1, <2>1, <2>2
<1>20. Signing(b)'
  BY <1>10, <1>13, <1>14, <1>17, <1>18, <1>19 DEF Signing
<1> QED
  BY <1>10, <1>20

LEMMA PromoteSigning ==
  ASSUME NEW a, Anyway, Signing(a), NEW o \in CaOperators, Promote(o), ~mistaken'
  PROVE  Anyway' /\ \E b \in authorities' : Signing(b)'
<1>1. /\ Anyway'
      /\ UNCHANGED <<caSet, serving, identity, clock>>
      /\ \A p \in CaOperators : operator'[p] = operator[p] \/ operator'[p].step = "none"
      /\ authorities' = {Promoted(operator[o].rows, row) : row \in authorities}
      /\ \A row \in In(authorities, {"STAGED"}) :
           row.id \in IdsOf(In(operator[o].rows, {"STAGED"})) => row \in operator[o].rows
      /\ In(authorities', {"ACTIVE"}) # {}
  BY PromoteWrites
<1>2. /\ authorities \in SUBSET AnyRow /\ a \in authorities /\ a \in AnyRow
      /\ a.state = "ACTIVE" /\ In(authorities, {"ACTIVE"}) = {a}
  BY DEF Anyway, CaTypes, Signing, Table, In
<1>3. CASE \E s \in In(authorities, {"STAGED"}) : s \in operator[o].rows
  BY <1>1, <1>3, TakesOver
<1>4. CASE \A s \in In(authorities, {"STAGED"}) : s \notin operator[o].rows
  <2>1. ASSUME NEW row \in authorities, row # a
        PROVE  Promoted(operator[o].rows, row) = row
    <3>1. row.state # "ACTIVE"
      BY <1>2, <2>1 DEF In
    <3>2. row.state = "STAGED" => row.id \notin IdsOf(In(operator[o].rows, {"STAGED"}))
      BY <1>1, <1>4 DEF In
    <3> QED
      BY <3>1, <3>2 DEF Promoted
  <2>2. CASE a.id \notin IdsOf(In(operator[o].rows, {"ACTIVE"}))
    <3>1. Promoted(operator[o].rows, a) = a
      BY <1>2, <2>2 DEF Promoted
    <3>2. \A row \in authorities : Promoted(operator[o].rows, row) = row
      BY <2>1, <3>1
    <3>3. authorities' = authorities
      BY <1>1, <3>2
    <3>4. \A row \in In(authorities, {"RETIRING"}) : row \in authorities'
      BY <3>3 DEF In
    <3>5. Signing(a)'
      BY <1>1, <1>2, <3>3, <3>4, RemovesSigning
    <3> QED
      BY <1>1, <1>2, <3>3, <3>5
  <2>3. CASE a.id \in IdsOf(In(operator[o].rows, {"ACTIVE"}))
    <3>1. Promoted(operator[o].rows, a).state = "RETIRING"
      BY <1>2, <2>3 DEF Promoted, AnyRow
    <3>2. \A row \in authorities : Promoted(operator[o].rows, row).state # "ACTIVE"
      BY <1>2, <2>1, <3>1 DEF In
    <3> QED
      BY <1>1, <3>2 DEF In
  <2> QED
    BY <2>2, <2>3
<1> QED
  BY <1>3, <1>4

LEMMA UnbornGrows ==
  ASSUME Anyway, Unborn, CaNext
  PROVE  Anyway' /\ (Unborn' \/ \E a \in authorities' : Signing(a)')
<1>1. /\ sinceStart \in Nat /\ generated \in Nat /\ CertLifetime \in Nat
      /\ \A states : In(authorities, states) = {}
  BY CaAssumption DEF Anyway, CaTypes, Unborn, In
<1>2. ASSUME GenerateFirst PROVE Anyway' /\ \E a \in authorities' : Signing(a)'
  <2>1. PICK a : a = [id |-> 1, key |-> generated + 1, state |-> "ACTIVE", since |-> sinceStart]
    OBVIOUS
  <2>2. /\ authorities' = {a} /\ generated' \in Nat
        /\ UNCHANGED <<caSet, serving, identity, operator, clock>>
    BY <1>1, <1>2, <2>1 DEF GenerateFirst
  <2>3. a \in AnyRow /\ a.state = "ACTIVE" /\ a.since = sinceStart
    BY <1>1, <2>1 DEF AnyRow, States
  <2>4. Anyway'
    <3>1. authorities' \in SUBSET AnyRow
      BY <2>2, <2>3
    <3> QED
      BY <2>2, <3>1 DEF Anyway, CaTypes
  <2>5. Table(a)'
    BY <1>1, <2>2, <2>3 DEF Table, In
  <2>6. Version({a}) # {}
    BY DEF Version
  <2>7. \A r \in CaReplicas : Known(r, a)' /\ CaughtUp(r, a)'
    <3>1. NoSet.version = {}
      BY DEF NoSet
    <3> QED
      BY <2>2, <2>6, <3>1 DEF Unborn, Known, CaughtUp
  <2>8. \A g \in CaAgents : Certified(g, a)'
    <3>1. ~(sinceStart + 1 < 0) /\ NoIdentity.until = 0
      BY <1>1 DEF NoIdentity
    <3> QED
      BY <2>2, <3>1 DEF Unborn, Certified, Lasts
  <2>9. \A o \in CaOperators : Pending(o, a)'
    BY <2>2 DEF Unborn, Pending
  <2>10. Signing(a)'
    BY <2>2, <2>5, <2>7, <2>8, <2>9 DEF Signing
  <2> QED
    BY <2>2, <2>4, <2>10
<1>3. ASSUME Tick PROVE Anyway' /\ Unborn'
  <2>1. \A g \in CaAgents : identity[g].until = 0
    BY DEF Unborn, NoIdentity
  <2>2. sinceStart' \in Nat /\ 0 <= sinceStart' + CertLifetime
    BY <1>1, <1>3 DEF Tick
  <2> QED
    BY <1>3, <2>1, <2>2 DEF Tick, Anyway, CaTypes, Unborn
<1>4. ASSUME NEW r \in CaReplicas, reload(r) \/ rotateServerCertificate(r) \/ Restart(r)
      PROVE  FALSE
  BY <1>1, <1>4 DEF reload, rotateServerCertificate, Restart, Loadable, Unborn
<1>5. ASSUME NEW r \in CaReplicas, NEW g \in CaAgents, EnrollAgent(r, g) \/ Renew(r, g)
      PROVE  FALSE
  BY <1>5, CertifyKeeps DEF Unborn
<1>6. ASSUME NEW o \in CaOperators,
             \/ StageReads(o) \/ Stage(o) \/ Unstage(o) \/ PromoteReads(o) \/ Promote(o)
             \/ RetireReads(o) \/ Retire(o)
      PROVE  FALSE
  BY <1>1, <1>6 DEF StageReads, Stage, Unstage, PromoteReads, Promote, RetireReads, Retire,
                    Loadable, Unborn
<1> QED
  BY <1>2, <1>3, <1>4, <1>5, <1>6 DEF CaNext

-----------------------------------------------------------------------------
LEMMA SigningGoesOn ==
  ASSUME NEW a, Anyway, Signing(a), CaNext, ~mistaken'
  PROVE  Anyway' /\ \E b \in authorities' : Signing(b)'
<1>0. ASSUME Signing(a)' PROVE \E b \in authorities' : Signing(b)'
  BY <1>0 DEF Signing
<1>1. ~GenerateFirst
  BY DEF GenerateFirst, Signing
<1>2. CASE Tick
  BY <1>0, <1>2, TickSigning
<1>3. ASSUME NEW r \in CaReplicas, reload(r) \/ rotateServerCertificate(r) \/ Restart(r)
      PROVE  Anyway' /\ \E b \in authorities' : Signing(b)'
  BY <1>0, <1>3, ReloadSigning, ServesSigning, RestartSigning
<1>4. ASSUME NEW r \in CaReplicas, NEW g \in CaAgents, EnrollAgent(r, g) \/ Renew(r, g)
      PROVE  Anyway' /\ \E b \in authorities' : Signing(b)'
  BY <1>0, <1>4, CertifySigning
<1>5. ASSUME NEW o \in CaOperators, StageReads(o) \/ PromoteReads(o) \/ RetireReads(o)
      PROVE  Anyway' /\ \E b \in authorities' : Signing(b)'
  BY <1>0, <1>5, StageReadsSigning, PromoteReadsSigning, RetireReadsSigning
<1>6. ASSUME NEW o \in CaOperators, Stage(o) \/ Unstage(o) \/ Retire(o)
      PROVE  Anyway' /\ \E b \in authorities' : Signing(b)'
  BY <1>0, <1>6, StageSigning, UnstageSigning, RetireSigning
<1>7. ASSUME NEW o \in CaOperators, Promote(o)
      PROVE  Anyway' /\ \E b \in authorities' : Signing(b)'
  BY <1>7, PromoteSigning
<1> QED
  BY <1>1, <1>2, <1>3, <1>4, <1>5, <1>6, <1>7 DEF CaNext

\* A mistake is not forgotten.
LEMMA MistakenStays == CaNext /\ mistaken => mistaken'
  BY DEF CaNext, GenerateFirst, Tick, reload, rotateServerCertificate, Restart, EnrollAgent, Renew,
         StageReads, Stage, Unstage, PromoteReads, Promote, RetireReads, Retire, Reads

LEMMA NextCaInv == CaInv /\ [CaNext]_caVars => CaInv'
<1> SUFFICES ASSUME CaInv, [CaNext]_caVars PROVE CaInv'
  OBVIOUS
<1>1. CASE UNCHANGED caVars
  <2> USE <1>1 DEF caVars
  <2>1. mistaken => mistaken'
    OBVIOUS
  <2>2. Anyway => Anyway'
    BY DEF Anyway, CaTypes
  <2>3. Unborn => Unborn'
    BY DEF Unborn
  <2>4. ASSUME NEW a \in authorities, Signing(a) PROVE Signing(a)'
    <3>1. Table(a)' /\ a \in authorities'
      BY <2>4 DEF Signing, Table
    <3>2. \A r \in CaReplicas : Known(r, a)' /\ CaughtUp(r, a)'
      BY <2>4 DEF Signing, Known, CaughtUp, Seen
    <3>3. \A g \in CaAgents : Certified(g, a)'
      BY <2>4 DEF Signing, Certified, Lasts
    <3>4. \A o \in CaOperators : Pending(o, a)'
      BY <2>4 DEF Signing, Pending, Today, requireWait
    <3> QED
      BY <3>1, <3>2, <3>3, <3>4 DEF Signing
  <2> QED
    BY <2>1, <2>2, <2>3, <2>4 DEF CaInv
<1>2. CASE CaNext
  <2>1. CASE mistaken'
    BY <2>1 DEF CaInv
  <2>2. CASE ~mistaken'
    <3>1. Anyway /\ (Unborn \/ \E a \in authorities : Signing(a))
      BY <1>2, <2>2, MistakenStays DEF CaInv
    <3>2. CASE Unborn
      BY <1>2, <3>1, <3>2, UnbornGrows DEF CaInv
    <3>3. ASSUME NEW a \in authorities, Signing(a) PROVE CaInv'
      BY <1>2, <2>2, <3>1, <3>3, SigningGoesOn DEF CaInv
    <3> QED
      BY <3>1, <3>2, <3>3
  <2> QED
    BY <2>1, <2>2
<1> QED
  BY <1>1, <1>2

LEMMA NobodyIsCutOffFollows == CaInv => CutOffOnlyByMistake
<1> SUFFICES ASSUME CaInv, ~mistaken, NEW r \in CaReplicas, NEW g \in CaAgents,
                    Lasts(g), InStep(r)
             PROVE  Accepts(r, g)
  BY DEF CutOffOnlyByMistake, NobodyIsCutOff
<1>1. Anyway /\ (Unborn \/ \E a \in authorities : Signing(a))
  BY DEF CaInv
<1>2. CASE Unborn
  <2>1. identity[g].until = 0 /\ sinceStart \in Nat
    BY <1>1, <1>2 DEF Unborn, NoIdentity, Anyway, CaTypes
  <2> QED
    BY <2>1 DEF Lasts
<1>3. ASSUME NEW a \in authorities, Signing(a) PROVE Accepts(r, g)
  <2>1. authorities \in SUBSET AnyRow /\ In(authorities, {"ACTIVE"}) = {a}
    BY <1>1, <1>3 DEF Anyway, CaTypes, Signing, Table
  <2>2. caSet[r] = Loaded(authorities)
    BY <1>3 DEF Signing, Known, InStep
  <2>3. Loaded(authorities) = [signer |-> a.key,
                               trusted |-> KeysOf(In(authorities, {"ACTIVE", "RETIRING"})),
                               bundle |-> KeysOf(authorities), version |-> Version(authorities)]
    BY <2>1, LoadedIs
  <2>4. /\ serving[r].issuer = a.key
        /\ caSet[r].trusted = KeysOf(In(authorities, {"ACTIVE", "RETIRING"}))
        /\ serving[r].clients = caSet[r].trusted
    BY <2>2, <2>3 DEF InStep
  <2>5. a.key \in identity[g].trusts
        /\ identity[g].issuer \in {a.key} \cup KeysOf(In(authorities, {"RETIRING"}))
    BY <1>3 DEF Signing, Certified
  <2>6. identity[g].issuer \in KeysOf(In(authorities, {"ACTIVE", "RETIRING"}))
    <3>1. a \in In(authorities, {"ACTIVE", "RETIRING"})
      BY <2>1 DEF In
    <3>2. In(authorities, {"RETIRING"}) \in SUBSET In(authorities, {"ACTIVE", "RETIRING"})
      BY DEF In
    <3> QED
      BY <2>5, <3>1, <3>2 DEF KeysOf
  <2> QED
    BY <2>4, <2>5, <2>6 DEF Accepts
<1> QED
  BY <1>1, <1>2, <1>3

-----------------------------------------------------------------------------
(***************************************************************************)
(* For any number of replicas, agents and operators and any waiting time   *)
(* longer than a tick, an agent whose certificate lasts for more than a    *)
(* tick (refreshMs) and a replica that has caught up with the table accept *)
(* each other, as long as no id that was given again is taken for the one  *)
(* it was before and no promotion leaves the table without a row that      *)
(* signs (ca-rotation.service.ts, ca.service.ts).                          *)
(***************************************************************************)
THEOREM CutOffOnlyByAnIdGivenAgain == CaSpec => []CutOffOnlyByMistake
  BY InitCaInv, NextCaInv, NobodyIsCutOffFollows, PTL DEF CaSpec

-----------------------------------------------------------------------------
(***************************************************************************)
(* The types, whether there have been mistakes or not.  CaTypeOK does not  *)
(* say that a replica which serves has loaded a table with a row that      *)
(* signs, nor that the ids an operator has read have a largest one.        *)
(***************************************************************************)
Bounded(rows) == \E n \in Nat : \A row \in rows : row.id <= n
TableSet == [signer : Keys \cup {0}, trusted : SUBSET Keys, bundle : SUBSET Keys,
             version : SUBSET (Nat \X States)]
Certificate == [issuer : Keys, until : Nat, trusts : SUBSET Keys]

CaTyped ==
  /\ authorities \in SUBSET Row /\ Bounded(authorities) /\ generated \in 0 .. MaxCas
  /\ caSet \in [CaReplicas -> TableSet]
  /\ serving \in [CaReplicas -> [issuer : Keys \cup {0}, clients : SUBSET Keys]]
  /\ \A r \in CaReplicas : /\ serving[r] # NotServing => caSet[r] # NoSet
                           /\ caSet[r] # NoSet => caSet[r].signer \in Keys
  /\ identity \in [CaAgents -> Certificate \cup {NoIdentity}]
  /\ operator \in [CaOperators -> [step : {"none", "stage", "promote", "retire"},
                                   rows : SUBSET Row]]
  /\ \A o \in CaOperators : /\ Bounded(operator[o].rows)
                            /\ operator[o].step = "stage" => operator[o].rows # {}
  /\ sinceStart \in Nat /\ checked \in SUBSET CaReplicas /\ mistaken \in BOOLEAN

LEMMA NextIdIsNew ==
  ASSUME NEW rows \in SUBSET Row, rows # {}, Bounded(rows)
  PROVE  NextId(rows) \in Nat
<1>1. PICK n \in Nat : \A row \in rows : row.id <= n
  BY DEF Bounded
<1>2. IdsOf(rows) \in SUBSET (0 .. n) /\ IdsOf(rows) # {}
  BY <1>1 DEF IdsOf, Row
<1>3. PICK T \in SUBSET (0 .. n) : T = IdsOf(rows)
  BY <1>2
<1>4. Max(T) \in T
  BY <1>1, <1>2, <1>3, LargestOf
<1>5. \A x \in 0 .. n : x + 1 \in Nat
  BY <1>1
<1> QED
  BY <1>3, <1>4, <1>5 DEF NextId

LEMMA LoadedTyped ==
  ASSUME NEW rows \in SUBSET Row, Loadable(rows)
  PROVE  Loaded(rows) \in TableSet /\ Loaded(rows).signer \in Keys
<1> DEFINE active == In(rows, {"ACTIVE"})
<1>1. active \in SUBSET Row /\ active # {}
  BY DEF In, Loadable
<1>2. \E row \in active : \A other \in active : row.id <= other.id
  <2>1. IdsOf(active) \in SUBSET Nat /\ IdsOf(active) # {}
    BY <1>1 DEF IdsOf, Row
  <2>2. PICK x \in IdsOf(active) : \A y \in IdsOf(active) : x <= y
    BY <2>1, LeastNumber
  <2>3. PICK row \in active : row.id = x
    BY <2>2 DEF IdsOf
  <2> QED
    BY <2>2, <2>3 DEF IdsOf
<1> HIDE DEF active
<1>3. PICK first \in active :
        first = CHOOSE row \in active : \A other \in active : row.id <= other.id
  BY <1>2
<1>4. first.key \in Keys
  BY <1>1 DEF Row
<1>5. KeysOf(rows) \in SUBSET Keys /\ KeysOf(In(rows, {"ACTIVE", "RETIRING"})) \in SUBSET Keys
  BY DEF KeysOf, In, Row
<1>6. Version(rows) \in SUBSET (Nat \X States)
  BY DEF Version, Row, States
<1>7. Loaded(rows) = [signer |-> first.key,
                      trusted |-> KeysOf(In(rows, {"ACTIVE", "RETIRING"})),
                      bundle |-> KeysOf(rows), version |-> Version(rows)]
  BY <1>3 DEF Loaded, active
<1> QED
  BY <1>4, <1>5, <1>6, <1>7 DEF TableSet

LEMMA InitCaTyped == CaInit => CaTyped
<1> SUFFICES ASSUME CaInit PROVE CaTyped
  OBVIOUS
<1> USE CaAssumption DEF CaInit
<1>1. Bounded(authorities) /\ Bounded({})
  BY DEF Bounded
<1>2. caSet \in [CaReplicas -> TableSet]
  BY DEF NoSet, TableSet
<1>3. serving \in [CaReplicas -> [issuer : Keys \cup {0}, clients : SUBSET Keys]]
  BY DEF NotServing
<1>4. operator \in [CaOperators -> [step : {"none", "stage", "promote", "retire"},
                                    rows : SUBSET Row]]
  BY DEF IdleOperator
<1>5. \A o \in CaOperators : operator[o].rows = {} /\ operator[o].step = "none"
  BY DEF IdleOperator
<1>6. \A r \in CaReplicas : serving[r] = NotServing /\ caSet[r] = NoSet
  OBVIOUS
<1>7. identity \in [CaAgents -> Certificate \cup {NoIdentity}]
  OBVIOUS
<1>8. generated \in 0 .. MaxCas /\ sinceStart \in Nat /\ checked \in SUBSET CaReplicas
  OBVIOUS
<1>10. mistaken \in BOOLEAN /\ authorities \in SUBSET Row
  OBVIOUS
<1>9. \A o \in CaOperators : Bounded(operator[o].rows)
  BY <1>1, <1>5
<1> QED
  BY <1>1, <1>2, <1>3, <1>4, <1>5, <1>6, <1>7, <1>8, <1>9, <1>10 DEF CaTyped

\* What the replicas hold in memory, and the certificates they give.
LEMMA ReplicasTyped ==
  ASSUME CaTyped, NEW r \in CaReplicas,
         \/ reload(r) \/ rotateServerCertificate(r) \/ Restart(r)
         \/ \E a \in CaAgents : EnrollAgent(r, a) \/ Renew(r, a)
  PROVE  CaTyped'
<1> USE DEF CaTyped
<1>0. 0 \notin Keys
  BY DEF Keys
<1>1. CASE reload(r)
  <2>1. /\ checked' \in SUBSET CaReplicas
        /\ UNCHANGED <<authorities, generated, serving, identity, operator, sinceStart, mistaken>>
    BY <1>1 DEF reload
  <2>2. CASE caSet' = caSet
    BY <2>1, <2>2 DEF Bounded
  <2>3. CASE caSet' # caSet
    <3>1. Loadable(authorities) /\ caSet' = [caSet EXCEPT ![r] = Loaded(authorities)]
      BY <1>1, <2>3 DEF reload
    <3>2. Loaded(authorities) \in TableSet /\ Loaded(authorities).signer \in Keys
      BY <3>1, LoadedTyped
    <3>3. Loaded(authorities) # NoSet
      BY <1>0, <3>2 DEF NoSet
    <3>4. PICK new \in TableSet : new = Loaded(authorities)
      BY <3>2
    <3>5. caSet' = [caSet EXCEPT ![r] = new]
      BY <3>1, <3>4
    <3> QED
      BY <2>1, <3>2, <3>3, <3>4, <3>5 DEF Bounded
  <2> QED
    BY <2>2, <2>3
<1>2. CASE rotateServerCertificate(r)
  <2>1. [issuer |-> caSet[r].signer, clients |-> caSet[r].trusted]
        \in [issuer : Keys \cup {0}, clients : SUBSET Keys]
    BY DEF TableSet
  <2>2. PICK new \in [issuer : Keys \cup {0}, clients : SUBSET Keys] :
          new = [issuer |-> caSet[r].signer, clients |-> caSet[r].trusted]
    BY <2>1
  <2>3. /\ caSet[r] # NoSet /\ serving' = [serving EXCEPT ![r] = new]
        /\ UNCHANGED <<authorities, generated, caSet, identity, operator, clock, mistaken>>
    BY <1>2, <2>2 DEF rotateServerCertificate
  <2> QED
    BY <2>3 DEF Bounded
<1>3. CASE Restart(r)
  <2>1. NoSet \in TableSet /\ NotServing \in [issuer : Keys \cup {0}, clients : SUBSET Keys]
    BY DEF NoSet, NotServing, TableSet
  <2>2. /\ caSet' = [caSet EXCEPT ![r] = NoSet] /\ serving' = [serving EXCEPT ![r] = NotServing]
        /\ UNCHANGED <<authorities, generated, identity, operator, clock, mistaken>>
    BY <1>3 DEF Restart
  <2> QED
    BY <2>1, <2>2 DEF Bounded
<1>4. ASSUME NEW a \in CaAgents, EnrollAgent(r, a) \/ Renew(r, a) PROVE CaTyped'
  <2>1. serving[r] # NotServing
    <3>1. CASE EnrollAgent(r, a)
      BY <3>1 DEF EnrollAgent
    <3>2. CASE Renew(r, a)
      <4>1. serving[r].issuer \in identity[a].trusts
        BY <3>2 DEF Renew, Accepts
      <4>2. identity[a].trusts \in SUBSET Keys
        BY DEF Certificate, NoIdentity
      <4> QED
        BY <1>0, <4>1, <4>2 DEF NotServing
    <3> QED
      BY <1>4, <3>1, <3>2
  <2>2. caSet[r].signer \in Keys /\ caSet[r].bundle \in SUBSET Keys
    BY <2>1 DEF TableSet
  <2>3. sinceStart + CertLifetime \in Nat
    BY CaAssumption
  <2>4. PICK new \in Certificate : new = [issuer |-> caSet[r].signer,
                                          until |-> sinceStart + CertLifetime,
                                          trusts |-> caSet[r].bundle]
    BY <2>2, <2>3 DEF Certificate
  <2>5. /\ identity' = [identity EXCEPT ![a] = new]
        /\ UNCHANGED <<authorities, generated, caSet, serving, operator, clock, mistaken>>
    BY <1>4, <2>4 DEF EnrollAgent, Renew, Certify
  <2> QED
    BY <2>5 DEF Bounded
<1> QED
  BY <1>1, <1>2, <1>3, <1>4

\* What an operator reads, and what it leaves behind.
LEMMA ReadsTyped ==
  ASSUME CaTyped, NEW o \in CaOperators,
         NEW step \in {"stage", "promote", "retire"}, Reads(o, step),
         step = "stage" => authorities # {}
  PROVE  CaTyped'
<1>1. PICK new \in [step : {"none", "stage", "promote", "retire"}, rows : SUBSET Row] :
        new = [step |-> step, rows |-> authorities]
  BY DEF CaTyped
<1>2. operator' = [operator EXCEPT ![o] = new]
      /\ UNCHANGED <<authorities, generated, caSet, serving, identity, clock, mistaken>>
  BY <1>1 DEF Reads
<1>3. Bounded(new.rows) /\ (new.step = "stage" => new.rows # {})
  BY <1>1 DEF CaTyped
<1> QED
  BY <1>2, <1>3 DEF CaTyped, Bounded

LEMMA ConcludesTyped ==
  ASSUME CaTyped, NEW o \in CaOperators, Concludes(o),
         authorities' \in SUBSET Row, Bounded(authorities'), generated' \in 0 .. MaxCas,
         mistaken' \in BOOLEAN
  PROVE  CaTyped'
<1>1. /\ IdleOperator \in [step : {"none", "stage", "promote", "retire"}, rows : SUBSET Row]
      /\ Bounded(IdleOperator.rows) /\ IdleOperator.step # "stage"
  BY DEF IdleOperator, Bounded
<1>2. operator' = [operator EXCEPT ![o] = IdleOperator]
      /\ UNCHANGED <<caSet, serving, identity, clock>>
  BY DEF Concludes
<1>3. Bounded(authorities)'
  BY DEF Bounded
<1> QED
  BY <1>1, <1>2, <1>3 DEF CaTyped, Bounded

LEMMA OperatorsTyped ==
  ASSUME CaTyped, NEW o \in CaOperators,
         \/ StageReads(o) \/ Stage(o) \/ Unstage(o)
         \/ PromoteReads(o) \/ Promote(o) \/ RetireReads(o) \/ Retire(o)
  PROVE  CaTyped'
<1>0. /\ authorities \in SUBSET Row /\ generated \in 0 .. MaxCas /\ mistaken \in BOOLEAN
      /\ sinceStart \in Nat /\ MaxCas \in Nat
  BY CaAssumption DEF CaTyped
<1>1. CASE StageReads(o)
  <2>1. authorities # {}
    BY <1>1 DEF StageReads, Loadable, In
  <2> QED
    BY <1>1, <2>1, ReadsTyped DEF StageReads
<1>2. CASE PromoteReads(o) \/ RetireReads(o)
  BY <1>2, ReadsTyped DEF PromoteReads, RetireReads
<1>3. CASE Stage(o)
  <2>1. NextId(operator[o].rows) \in Nat
    BY <1>3, NextIdIsNew DEF Stage, CaTyped
  <2>2. PICK id \in Nat : id = NextId(operator[o].rows)
    BY <2>1
  <2>3. /\ generated' = generated + 1 /\ generated < MaxCas /\ Concludes(o)
        /\ authorities' = authorities \cup
             (IF id \in IdsOf(authorities) THEN {}
              ELSE {[id |-> id, key |-> generated + 1, state |-> "STAGED", since |-> sinceStart]})
        /\ mistaken' \in BOOLEAN
    BY <1>0, <1>3, <2>2 DEF Stage
  <2>4. generated + 1 \in Keys /\ generated' \in 0 .. MaxCas
    BY <1>0, <2>3 DEF Keys
  <2>5. [id |-> id, key |-> generated + 1, state |-> "STAGED", since |-> sinceStart] \in Row
    BY <1>0, <2>4 DEF Row
  <2>6. authorities' \in SUBSET Row
    BY <1>0, <2>3, <2>5
  <2>7. Bounded(authorities')
    <3>1. PICK n \in Nat : \A row \in authorities : row.id <= n
      BY DEF CaTyped, Bounded
    <3>2. PICK m \in Nat : n <= m /\ id <= m
      OBVIOUS
    <3>3. \A row \in authorities : row.id \in Nat
      BY <1>0 DEF Row
    <3>4. \A row \in authorities' : row \in authorities \/ row.id = id
      BY <2>3
    <3>5. \A row \in authorities' : row.id <= m
      BY <3>1, <3>2, <3>3, <3>4
    <3> QED
      BY <3>5 DEF Bounded
  <2> QED
    BY <2>3, <2>4, <2>6, <2>7, ConcludesTyped
<1>4. CASE Unstage(o) \/ Retire(o)
  <2>1. authorities' \in SUBSET authorities /\ UNCHANGED <<generated, mistaken>>
    BY <1>4 DEF Unstage, Retire
  <2>2. authorities' \in SUBSET Row /\ Bounded(authorities')
    BY <2>1 DEF CaTyped, Bounded
  <2>3. CASE Retire(o)
    BY <1>0, <2>1, <2>2, <2>3, ConcludesTyped DEF Retire
  <2>4. CASE Unstage(o)
    <3>1. UNCHANGED <<generated, caSet, serving, identity, operator, clock, mistaken>>
      BY <2>4 DEF Unstage
    <3> QED
      BY <2>2, <3>1 DEF CaTyped, Bounded
  <2> QED
    BY <1>4, <2>3, <2>4
<1>5. CASE Promote(o)
  <2>1. Concludes(o) /\ UNCHANGED generated /\ mistaken' \in BOOLEAN
    BY <1>0, <1>5 DEF Promote
  <2>2. \A row \in authorities' : row \in Row /\ \E old \in authorities : row.id = old.id
    BY <1>0, <1>5 DEF Promote, Row
  <2>3. authorities' \in SUBSET Row
    BY <2>2
  <2>4. Bounded(authorities')
    BY <2>2 DEF CaTyped, Bounded
  <2> QED
    BY <1>0, <2>1, <2>3, <2>4, ConcludesTyped
<1> QED
  BY <1>1, <1>2, <1>3, <1>4, <1>5

LEMMA NextCaTyped == CaTyped /\ [CaNext]_caVars => CaTyped'
<1> SUFFICES ASSUME CaTyped, [CaNext]_caVars PROVE CaTyped'
  OBVIOUS
<1>1. CASE UNCHANGED caVars
  BY <1>1 DEF caVars, CaTyped, Bounded
<1>2. CASE GenerateFirst
  <2>1. generated + 1 \in Keys /\ generated' = generated + 1 /\ generated' \in 0 .. MaxCas
    BY <1>2, CaAssumption DEF GenerateFirst, CaTyped, Keys
  <2>2. PICK row \in Row : row = [id |-> 1, key |-> generated + 1, state |-> "ACTIVE",
                                  since |-> sinceStart]
    BY <2>1 DEF CaTyped, Row
  <2>3. authorities' = {row}
        /\ UNCHANGED <<caSet, serving, identity, operator, clock, mistaken>>
    BY <1>2, <2>2 DEF GenerateFirst
  <2>4. Bounded(authorities')
    BY <2>2, <2>3 DEF Bounded
  <2> QED
    BY <2>1, <2>3, <2>4 DEF CaTyped, Bounded
<1>3. CASE Tick
  BY <1>3 DEF Tick, CaTyped, Bounded
<1> QED
  BY <1>1, <1>2, <1>3, ReplicasTyped, OperatorsTyped DEF CaNext

LEMMA CaTypedMeans == CaTyped => CaTypeOK
<1> SUFFICES ASSUME CaTyped PROVE CaTypeOK
  OBVIOUS
<1>1. \A r \in CaReplicas :
        /\ caSet[r].signer \in Keys \cup {0}
        /\ caSet[r].trusted \subseteq Keys /\ caSet[r].bundle \subseteq Keys
        /\ serving[r].issuer \in Keys \cup {0} /\ serving[r].clients \subseteq Keys
  BY DEF CaTyped, TableSet
<1>2. \A a \in CaAgents :
        identity[a] = NoIdentity \/ (/\ identity[a].issuer \in Keys /\ identity[a].until \in Nat
                                     /\ identity[a].trusts \subseteq Keys)
  BY DEF CaTyped, Certificate
<1> QED
  BY <1>1, <1>2 DEF CaTyped, CaTypeOK

(***************************************************************************)
(* Every key in a table, in a replica's memory or in a certificate is one  *)
(* that was generated, and whoever serves or gives certificates has an     *)
(* authority that signs (reload of ca.service.ts, enrollment.service.ts).  *)
(***************************************************************************)
THEOREM CaTypesHold == CaSpec => []CaTypeOK
  BY InitCaTyped, NextCaTyped, CaTypedMeans, PTL DEF CaSpec

HIDE DEF clock

-----------------------------------------------------------------------------
(***************************************************************************)
(* Rewrap.  For any replicas, secrets and number of keys: a rotation loses *)
(* no secret and no change of one.  Neither NewestStays nor NothingIsLost  *)
(* is inductive; what is says which keys the replicas and the secrets may  *)
(* be on in each stage, and that what the job read and the row no longer   *)
(* shows is already on the new key.                                        *)
(***************************************************************************)
Listed == rotation.stage = "listed"
OlderKey == rotation.key - 1
NewRing == Ring(rotation.key, {OlderKey})

\* A rotation leaves a key behind, and replicas that have not been restarted still have it
\* alone; when it is over they may still list it.
KeyringsKnown ==
  /\ Listed => OlderKey \in MasterKeys
  /\ \A r \in KeyReplicas :
       \/ keyring[r] = NewRing
       \/ Listed /\ keyring[r] = Ring(OlderKey, {})
       \/ ~Listed /\ keyring[r] = Ring(rotation.key, {})

\* Secrets are on the key in use, or while it is listed on the one before.
SecretsKnown ==
  \A s \in Secrets : secrets[s].key = rotation.key \/ (Listed /\ secrets[s].key = OlderKey)

\* While the job runs the new key is deployed; it can open what it read, and a row that has
\* changed since has been written under the new key, as has one it is done with.
JobKnown ==
  rewrapping # NoJob =>
    /\ Listed /\ \A r \in KeyReplicas : keyring[r] = NewRing
    /\ rewrapping.read \in [Secrets -> Envelope]
    /\ \A s \in Secrets :
         /\ rewrapping.read[s].key \in {rotation.key, OlderKey}
         /\ secrets[s] = rewrapping.read[s] \/ secrets[s].key = rotation.key
         /\ s \notin rewrapping.todo => secrets[s].key = rotation.key

RewrapInv == RewrapTypeOK /\ KeyringsKnown /\ SecretsKnown /\ JobKnown /\ NewestStays

-----------------------------------------------------------------------------
\* A ring names its primary key, and all that it can open.
LEMMA RingParts ==
  ASSUME NEW k, NEW older
  PROVE  Ring(k, older).primary = k /\ Ring(k, older).all = {k} \cup older
  BY DEF Ring

LEMMA RingType ==
  ASSUME NEW k \in MasterKeys \cup {0}, NEW older \in SUBSET (MasterKeys \cup {0})
  PROVE  Ring(k, older) \in Rings
  BY DEF Ring, Rings

\* What a process started now is configured with.
LEMMA ConfiguredRing ==
  /\ Listed => Configured = NewRing
  /\ ~Listed => Configured = Ring(rotation.key, {})
  BY DEF Configured, Listed, NewRing, OlderKey

LEMMA ConfiguredType == RewrapInv => Configured \in Rings
  <1> SUFFICES ASSUME RewrapInv PROVE Configured \in Rings
    OBVIOUS
  <1>1. rotation.key \in MasterKeys /\ (Listed => OlderKey \in MasterKeys)
    BY DEF RewrapInv, RewrapTypeOK, KeyringsKnown
  <1>2. CASE Listed
    BY <1>1, <1>2, ConfiguredRing, RingType DEF NewRing
  <1>3. CASE ~Listed
    BY <1>1, <1>3, ConfiguredRing, RingType
  <1> QED
    BY <1>2, <1>3

\* There is no job on a key.
LEMMA JobHasKey == NoJob.ring.primary = 0 /\ \A k \in MasterKeys : \A p : Ring(k, p) # NoJob.ring
  BY DEF NoJob, Ring, MasterKeys

-----------------------------------------------------------------------------
LEMMA InitRewrapInv == RewrapInit => RewrapInv
  <1> SUFFICES ASSUME RewrapInit PROVE RewrapInv
    OBVIOUS
  <1> USE RewrapAssumption DEF RewrapInit
  <1>0. 1 \in MasterKeys /\ rotation.key = 1 /\ rotation.stage = "settled"
    BY DEF MasterKeys
  <1>1. RewrapTypeOK
    <2>1. Ring(1, {}) \in Rings /\ Ring(0, {}) \in Rings
      BY <1>0, RingType
    <2>2. rewrapping \in [ring : Rings, read : [Secrets -> [value : Nat, key : MasterKeys \cup {0}]],
                          todo : SUBSET Secrets, failed : BOOLEAN]
      BY <2>1 DEF NoJob
    <2> QED
      BY <1>0, <2>1, <2>2 DEF RewrapTypeOK, Envelope
  <1>2. KeyringsKnown /\ SecretsKnown /\ JobKnown /\ NewestStays
    BY <1>0 DEF KeyringsKnown, SecretsKnown, JobKnown, NewestStays, Listed
  <1> QED
    BY <1>1, <1>2 DEF RewrapInv

\* A replica has the key in use or, while it is listed, the one before; only the first once
\* the job runs.
LEMMA PrimaryKnown ==
  ASSUME RewrapInv, NEW r \in KeyReplicas
  PROVE  /\ keyring[r].primary \in MasterKeys
         /\ keyring[r].primary = rotation.key \/ (Listed /\ keyring[r].primary = OlderKey)
         /\ rewrapping # NoJob => keyring[r].primary = rotation.key
  BY RingParts DEF RewrapInv, RewrapTypeOK, KeyringsKnown, JobKnown, NewRing

LEMMA WriteKeeps ==
  ASSUME NEW r \in KeyReplicas, NEW s \in Secrets, RewrapInv, Write(r, s)
  PROVE  RewrapInv'
  <1> DEFINE sealed == [value |-> writes + 1, key |-> keyring[r].primary]
  <1>1. secrets' = [secrets EXCEPT ![s] = sealed] /\ writes' = writes + 1
        /\ latest' = [latest EXCEPT ![s] = writes + 1]
    BY DEF Write
  <1>2. UNCHANGED <<rotation, keyring, rewrapping>>
    BY DEF Write
  <1>3. RewrapTypeOK
    BY DEF RewrapInv
  <1>4. sealed \in Envelope
    BY <1>3, PrimaryKnown DEF RewrapTypeOK, Envelope
  <1>5. \A t \in Secrets : secrets'[t] = IF t = s THEN sealed ELSE secrets[t]
    BY <1>1, <1>3 DEF RewrapTypeOK
  <1>6. RewrapTypeOK'
    BY <1>1, <1>2, <1>3, <1>4 DEF RewrapTypeOK
  <1>7. KeyringsKnown'
    BY <1>2 DEF RewrapInv, KeyringsKnown, Listed, OlderKey, NewRing, Ring
  <1>8. SecretsKnown'
    BY <1>2, <1>5, PrimaryKnown DEF RewrapInv, SecretsKnown, Listed, OlderKey
  <1>9. JobKnown'
    <2>1. NoJob' = NoJob /\ NewRing' = NewRing /\ Listed' = Listed /\ OlderKey' = OlderKey
      BY <1>2 DEF NoJob, NewRing, Listed, OlderKey, Ring
    <2>2. SUFFICES ASSUME rewrapping # NoJob PROVE JobKnown'
      BY <1>2, <2>1 DEF JobKnown
    <2>3. JobKnown /\ sealed.key = rotation.key
      BY <2>2, PrimaryKnown DEF RewrapInv
    <2> QED
      BY <1>2, <1>5, <2>1, <2>2, <2>3 DEF JobKnown
  <1>10. NewestStays'
    BY <1>1, <1>3, <1>5 DEF RewrapInv, NewestStays, RewrapTypeOK
  <1> QED
    BY <1>6, <1>7, <1>8, <1>9, <1>10 DEF RewrapInv

LEMMA RestartReplicaKeeps ==
  ASSUME NEW r \in KeyReplicas, RewrapInv, RestartReplica(r)
  PROVE  RewrapInv'
  <1>1. keyring[r] # Configured /\ keyring' = [keyring EXCEPT ![r] = Configured]
    BY DEF RestartReplica
  <1>2. UNCHANGED <<secrets, latest, rotation, rewrapping, writes>>
    BY DEF RestartReplica
  <1>3. RewrapTypeOK /\ KeyringsKnown /\ JobKnown
    BY DEF RewrapInv
  <1>4. RewrapTypeOK'
    BY <1>1, <1>2, <1>3, ConfiguredType DEF RewrapTypeOK
  <1>5. \A t \in KeyReplicas : keyring'[t] = IF t = r THEN Configured ELSE keyring[t]
    BY <1>1, <1>3 DEF RewrapTypeOK
  <1>6. KeyringsKnown'
    BY <1>2, <1>3, <1>5, ConfiguredRing DEF KeyringsKnown, Listed, OlderKey, NewRing
  <1>7. rewrapping = NoJob
    BY <1>1, <1>3, ConfiguredRing DEF JobKnown
  <1>8. SecretsKnown' /\ JobKnown' /\ NewestStays'
    BY <1>2, <1>7 DEF RewrapInv, SecretsKnown, JobKnown, NewestStays, Listed, OlderKey, NoJob
  <1> QED
    BY <1>4, <1>6, <1>8 DEF RewrapInv

\* The next key, once the one before has been deployed everywhere.
LEMMA NewKeyKeeps == RewrapInv /\ NewKey => RewrapInv'
  <1> SUFFICES ASSUME RewrapInv, NewKey PROVE RewrapInv'
    OBVIOUS
  <1> USE RewrapAssumption
  <1>1. RewrapTypeOK /\ KeyringsKnown /\ SecretsKnown /\ JobKnown /\ NewestStays
    BY DEF RewrapInv
  <1>2. ~Listed /\ rotation.key \in MasterKeys /\ rotation.key < MaxKeys
    BY <1>1 DEF NewKey, Listed, RewrapTypeOK
  <1>3. \A r \in KeyReplicas : keyring[r] = Ring(rotation.key, {})
    BY <1>2, ConfiguredRing DEF NewKey, Deployed
  <1>4. rotation' = [key |-> rotation.key + 1, stage |-> "listed"]
    BY DEF NewKey
  <1>5. UNCHANGED <<secrets, latest, keyring, rewrapping, writes>>
    BY DEF NewKey
  <1>6. Listed' /\ OlderKey' = rotation.key /\ rotation'.key \in MasterKeys
    BY <1>2, <1>4 DEF Listed, OlderKey, MasterKeys
  <1>7. rewrapping = NoJob
    BY <1>1, <1>2 DEF JobKnown
  <1>8. RewrapTypeOK'
    BY <1>1, <1>4, <1>5, <1>6, <1>7 DEF RewrapTypeOK, NoJob
  <1>9. KeyringsKnown'
    BY <1>2, <1>3, <1>5, <1>6 DEF KeyringsKnown
  <1>10. SecretsKnown'
    BY <1>1, <1>2, <1>5, <1>6 DEF SecretsKnown
  <1>11. JobKnown' /\ NewestStays'
    BY <1>1, <1>5, <1>7 DEF JobKnown, NewestStays, NoJob
  <1> QED
    BY <1>8, <1>9, <1>10, <1>11 DEF RewrapInv

\* The job begins when the new key is deployed, and reads every secret.
LEMMA RunJobKeeps == RewrapInv /\ RunJob => RewrapInv'
  <1> SUFFICES ASSUME RewrapInv, RunJob PROVE RewrapInv'
    OBVIOUS
  <1>1. RewrapTypeOK /\ KeyringsKnown /\ SecretsKnown /\ NewestStays
    BY DEF RewrapInv
  <1>2. Listed /\ Configured = NewRing /\ \A r \in KeyReplicas : keyring[r] = NewRing
    BY ConfiguredRing DEF RunJob, Deployed, Listed
  <1>3. rewrapping' = [ring |-> NewRing, read |-> secrets, todo |-> Secrets, failed |-> FALSE]
    BY <1>2 DEF RunJob
  <1>4. UNCHANGED <<secrets, latest, rotation, keyring, writes>>
    BY DEF RunJob
  <1>5. NewRing' = NewRing /\ Listed' = Listed /\ OlderKey' = OlderKey
    BY <1>4 DEF NewRing, Listed, OlderKey, Ring
  <1>6. NewRing \in Rings
    BY <1>2, ConfiguredType
  <1>7. RewrapTypeOK'
    <2>1. rewrapping' \in [ring : Rings, read : [Secrets -> [value : Nat, key : MasterKeys \cup {0}]],
                           todo : SUBSET Secrets, failed : BOOLEAN]
      BY <1>1, <1>3, <1>6 DEF RewrapTypeOK, Envelope
    <2>2. rewrapping'.ring = Ring(rotation'.key, {rotation'.key - 1})
      BY <1>3, <1>4 DEF NewRing, OlderKey
    <2> QED
      BY <1>1, <1>4, <2>1, <2>2 DEF RewrapTypeOK
  <1>8. KeyringsKnown' /\ SecretsKnown' /\ NewestStays'
    BY <1>1, <1>4, <1>5 DEF KeyringsKnown, SecretsKnown, NewestStays
  <1>9. JobKnown'
    BY <1>1, <1>2, <1>3, <1>4, <1>5 DEF JobKnown, SecretsKnown, RewrapTypeOK
  <1> QED
    BY <1>7, <1>8, <1>9 DEF RewrapInv

\* There is nothing left to do: every secret is on the new key.
LEMMA JobEndsKeeps == RewrapInv /\ JobEnds => RewrapInv'
  <1> SUFFICES ASSUME RewrapInv, JobEnds PROVE RewrapInv'
    OBVIOUS
  <1>1. RewrapTypeOK /\ KeyringsKnown /\ SecretsKnown /\ JobKnown /\ NewestStays
    BY DEF RewrapInv
  <1>2. rewrapping # NoJob /\ rewrapping.todo = {} /\ rewrapping' = NoJob
    BY DEF JobEnds
  <1>3. UNCHANGED <<secrets, latest, keyring, writes>>
    BY DEF JobEnds
  <1>4. /\ Listed /\ \A r \in KeyReplicas : keyring[r] = NewRing
        /\ \A s \in Secrets : secrets[s].key = rotation.key
    BY <1>1, <1>2 DEF JobKnown
  <1>5. rotation'.key = rotation.key /\ rotation' \in [key : MasterKeys, stage : {"settled", "listed"}]
    BY <1>1 DEF JobEnds, RewrapTypeOK
  <1>6. NewRing' = NewRing /\ OlderKey' = OlderKey
    BY <1>5 DEF NewRing, OlderKey, Ring
  <1>7. NoJob' = NoJob
    BY DEF NoJob
  <1>8. RewrapTypeOK'
    <2>1. NoJob \in [ring : Rings, read : [Secrets -> [value : Nat, key : MasterKeys \cup {0}]],
                     todo : SUBSET Secrets, failed : BOOLEAN]
      BY RingType DEF NoJob
    <2> QED
      BY <1>1, <1>2, <1>3, <1>5, <1>7, <2>1 DEF RewrapTypeOK
  <1>9. KeyringsKnown' /\ SecretsKnown'
    BY <1>1, <1>3, <1>4, <1>5, <1>6 DEF KeyringsKnown, SecretsKnown
  <1>10. JobKnown' /\ NewestStays'
    BY <1>1, <1>2, <1>3, <1>7 DEF JobKnown, NewestStays
  <1> QED
    BY <1>8, <1>9, <1>10 DEF RewrapInv

LEMMA JobDiesKeeps == RewrapInv /\ JobDies => RewrapInv'
  <1> SUFFICES ASSUME RewrapInv, JobDies PROVE RewrapInv'
    OBVIOUS
  <1>1. RewrapTypeOK /\ KeyringsKnown /\ SecretsKnown /\ NewestStays
    BY DEF RewrapInv
  <1>2. rewrapping' = NoJob /\ NoJob' = NoJob
    BY DEF JobDies, NoJob
  <1>3. UNCHANGED <<secrets, latest, rotation, keyring, writes>>
    BY DEF JobDies
  <1>4. NoJob \in [ring : Rings, read : [Secrets -> [value : Nat, key : MasterKeys \cup {0}]],
                   todo : SUBSET Secrets, failed : BOOLEAN]
    BY RingType DEF NoJob
  <1>5. RewrapTypeOK'
    BY <1>1, <1>2, <1>3, <1>4 DEF RewrapTypeOK
  <1>6. KeyringsKnown' /\ SecretsKnown' /\ JobKnown' /\ NewestStays'
    BY <1>1, <1>2, <1>3
    DEF KeyringsKnown, SecretsKnown, JobKnown, NewestStays, Listed, NewRing, OlderKey, Ring
  <1> QED
    BY <1>5, <1>6 DEF RewrapInv

\* A secret that is still as it was read is sealed again under the new key; one that is not
\* has been written under it.
LEMMA RewrapKeeps ==
  ASSUME NEW s \in Secrets, RewrapInv, rewrap(s)
  PROVE  RewrapInv'
  <1>1. RewrapTypeOK /\ KeyringsKnown /\ SecretsKnown /\ JobKnown /\ NewestStays
    BY DEF RewrapInv
  <1>2. s \in rewrapping.todo /\ rewrapping # NoJob
    BY DEF rewrap, NoJob
  <1>3. /\ Listed /\ \A r \in KeyReplicas : keyring[r] = NewRing
        /\ rewrapping.ring = NewRing /\ rewrapping.read \in [Secrets -> Envelope]
    BY <1>1, <1>2 DEF RewrapTypeOK, JobKnown, NewRing, OlderKey
  <1>4. UNCHANGED <<latest, rotation, keyring, writes>>
    BY DEF rewrap
  <1>5. NewRing' = NewRing /\ Listed' = Listed /\ OlderKey' = OlderKey /\ NoJob' = NoJob
    BY <1>4 DEF NewRing, Listed, OlderKey, Ring, NoJob
  <1> DEFINE read == rewrapping.read[s]
  <1> DEFINE again == [read EXCEPT !.key = rotation.key]
  <1>6. NewRing.primary = rotation.key /\ NewRing.all = {rotation.key, OlderKey}
    BY RingParts DEF NewRing
  <1>7. read.key \in NewRing.all
    BY <1>1, <1>2, <1>6 DEF JobKnown
  <1>8. rotation.key \in MasterKeys /\ again \in Envelope /\ again.key = rotation.key
        /\ again.value = read.value
    BY <1>1, <1>3 DEF RewrapTypeOK, Envelope
  <1>9. secrets' = IF read.key # rotation.key /\ secrets[s] = read
                   THEN [secrets EXCEPT ![s] = again] ELSE secrets
    BY <1>3, <1>6, <1>7 DEF rewrap, needsRewrap
  <1>10. \A t \in Secrets :
           secrets'[t] = IF t = s /\ read.key # rotation.key /\ secrets[s] = read
                         THEN again ELSE secrets[t]
    BY <1>1, <1>9 DEF RewrapTypeOK
  <1>11. rewrapping' = [rewrapping EXCEPT !.todo = @ \ {s}]
    <2>1. rewrapping' = [rewrapping EXCEPT !.todo = @ \ {s}, !.failed = @]
      BY <1>1, <1>3, <1>7 DEF rewrap, RewrapTypeOK
    <2> QED
      BY <1>1, <2>1 DEF RewrapTypeOK
  <1>12. /\ rewrapping'.ring = rewrapping.ring /\ rewrapping'.read = rewrapping.read
         /\ rewrapping'.todo = rewrapping.todo \ {s}
    BY <1>1, <1>11 DEF RewrapTypeOK
  <1>13. RewrapTypeOK'
    <2>1. secrets' \in [Secrets -> Envelope]
      BY <1>1, <1>8, <1>9 DEF RewrapTypeOK
    <2>2. rewrapping' \in [ring : Rings, read : [Secrets -> [value : Nat, key : MasterKeys \cup {0}]],
                           todo : SUBSET Secrets, failed : BOOLEAN]
      BY <1>1, <1>11 DEF RewrapTypeOK
    <2>3. rewrapping'.ring = Ring(rotation'.key, {rotation'.key - 1})
      BY <1>3, <1>4, <1>12 DEF NewRing, OlderKey
    <2> QED
      BY <1>1, <1>4, <2>1, <2>2, <2>3 DEF RewrapTypeOK
  <1>14. KeyringsKnown' /\ SecretsKnown'
    BY <1>1, <1>4, <1>5, <1>8, <1>10 DEF KeyringsKnown, SecretsKnown
  <1>15. JobKnown'
    <2>1. \A t \in Secrets :
            /\ rewrapping.read[t].key \in {rotation.key, OlderKey}
            /\ secrets[t] = rewrapping.read[t] \/ secrets[t].key = rotation.key
            /\ t \notin rewrapping.todo => secrets[t].key = rotation.key
      BY <1>1, <1>2 DEF JobKnown
    <2>2. \A t \in Secrets :
            /\ secrets'[t] = rewrapping.read[t] \/ secrets'[t].key = rotation.key
            /\ t \notin rewrapping.todo \ {s} => secrets'[t].key = rotation.key
      BY <1>8, <1>10, <2>1
    <2> QED
      BY <1>3, <1>4, <1>5, <1>12, <2>1, <2>2 DEF JobKnown
  <1>16. NewestStays'
    BY <1>1, <1>4, <1>8, <1>10 DEF NewestStays
  <1> QED
    BY <1>13, <1>14, <1>15, <1>16 DEF RewrapInv

LEMMA StutterKeepsRewrapInv == RewrapInv /\ UNCHANGED rewrapVars => RewrapInv'
  BY DEF RewrapInv, RewrapTypeOK, KeyringsKnown, SecretsKnown, JobKnown, NewestStays,
         rewrapVars, Listed, OlderKey, NewRing, NoJob, Ring

LEMMA NextKeepsRewrapInv == RewrapInv /\ [RewrapNext]_rewrapVars => RewrapInv'
  <1> SUFFICES ASSUME RewrapInv, [RewrapNext]_rewrapVars PROVE RewrapInv'
    OBVIOUS
  <1>1. CASE \E r \in KeyReplicas : RestartReplica(r)
    BY <1>1, RestartReplicaKeeps
  <1>2. CASE \E r \in KeyReplicas, s \in Secrets : Write(r, s)
    BY <1>2, WriteKeeps
  <1>3. CASE NewKey
    BY <1>3, NewKeyKeeps
  <1>4. CASE RunJob
    BY <1>4, RunJobKeeps
  <1>5. CASE JobEnds
    BY <1>5, JobEndsKeeps
  <1>6. CASE JobDies
    BY <1>6, JobDiesKeeps
  <1>7. CASE \E s \in Secrets : rewrap(s)
    BY <1>7, RewrapKeeps
  <1>8. CASE UNCHANGED rewrapVars
    BY <1>8, StutterKeepsRewrapInv
  <1> QED
    BY <1>1, <1>2, <1>3, <1>4, <1>5, <1>6, <1>7, <1>8 DEF RewrapNext

LEMMA RewrapInvHolds == RewrapSpec => []RewrapInv
  BY InitRewrapInv, NextKeepsRewrapInv, PTL DEF RewrapSpec

\* A keyring whose primary key is the one in use lists the one before while it may be needed.
LEMMA NothingIsLostFollows == RewrapInv => NothingIsLost
  <1> SUFFICES ASSUME RewrapInv, NEW r \in KeyReplicas, NEW s \in Secrets,
                      keyring[r].primary = rotation.key
               PROVE  secrets[s].key \in keyring[r].all
    BY DEF NothingIsLost
  <1>1. RewrapTypeOK /\ KeyringsKnown /\ SecretsKnown
    BY DEF RewrapInv
  <1>2. rotation.key \in Int /\ OlderKey # rotation.key
    BY <1>1 DEF RewrapTypeOK, MasterKeys, OlderKey
  <1>3. CASE Listed
    BY <1>1, <1>2, <1>3, RingParts DEF KeyringsKnown, SecretsKnown, NewRing
  <1>4. CASE ~Listed
    BY <1>1, <1>4, RingParts DEF KeyringsKnown, SecretsKnown, NewRing
  <1> QED
    BY <1>3, <1>4

-----------------------------------------------------------------------------
(***************************************************************************)
(* The state of a rotation has its type: a job that runs has the keys that *)
(* are deployed (the key in use, and the one before).                      *)
(***************************************************************************)
THEOREM RewrapTyped == RewrapSpec => []RewrapTypeOK
  <1>1. RewrapInv => RewrapTypeOK
    BY DEF RewrapInv
  <1> QED
    BY <1>1, RewrapInvHolds, PTL

(***************************************************************************)
(* The job overwrites nothing that a person has just changed, for any      *)
(* number of jobs that die, replicas that write and keys.                  *)
(***************************************************************************)
THEOREM NewestAlwaysStays == RewrapSpec => []NewestStays
  <1>1. RewrapInv => NewestStays
    BY DEF RewrapInv
  <1> QED
    BY <1>1, RewrapInvHolds, PTL

(***************************************************************************)
(* A replica that has been given the key in use opens every secret, in     *)
(* every stage of every rotation.                                          *)
(***************************************************************************)
THEOREM NothingIsEverLost == RewrapSpec => []NothingIsLost
  BY RewrapInvHolds, NothingIsLostFollows, PTL

-----------------------------------------------------------------------------
(***************************************************************************)
(* Organizations.  For any number of people, invitations and requests at   *)
(* once: an organization keeps an owner and an invitation admits once.     *)
(* The inductive invariant adds what a request knows at each of its steps: *)
(* a transaction that has checked its rule has checked it of the roles it  *)
(* will compare on commit, and an invitation that was ever taken up is not *)
(* live again.                                                             *)
(***************************************************************************)
Roled == Roles \cup {"none"}

\* What a request carries from step to step.
Carries(x) ==
  /\ x.at # "idle" => x.who \in People
  /\ x.at \in {"replacing", "inserting", "registering", "consuming"} => x.to \in Roles
  /\ x.at \in {"sending", "registering", "consuming"} => x.letter \in Letters

\* What a transaction has checked, of the roles it read.
HasChecked(x) ==
  x.at = "checked" =>
    /\ x.seen[x.who] # "none"
    /\ x.seen[x.who] = "OWNER" /\ x.to # "OWNER" => \E p \in People \ {x.who} : x.seen[p] = "OWNER"

RequestsKnown == \A q \in Requests : Carries(request[q]) /\ HasChecked(request[q])

\* An invitation that is live is somebody's and has admitted nobody.
LettersKnown ==
  \A i \in Letters :
    /\ letter[i].state = "live" => letter[i].for \in People
    /\ letter[i].state \in {"unmade", "live"} => admitted[i] = 0
    /\ letter[i].state = "accepted" => admitted[i] = 1
    /\ admitted[i] <= 1

OrganizationsInv == OrganizationsTypeOK /\ RequestsKnown /\ LettersKnown /\ AnOwnerRemains

-----------------------------------------------------------------------------
(***************************************************************************)
(* Requests: one is replaced, the others are as they were.                 *)
(***************************************************************************)
LEMMA IdleKnown == IdleRequest \in Request /\ Carries(IdleRequest) /\ HasChecked(IdleRequest)
  BY DEF IdleRequest, Request, Carries, HasChecked

LEMMA RequestReplaced ==
  ASSUME OrganizationsInv, NEW q \in Requests, NEW x \in Request, Carries(x), HasChecked(x),
         request' = [request EXCEPT ![q] = x]
  PROVE  request' \in [Requests -> Request] /\ RequestsKnown'
  <1>1. request \in [Requests -> Request] /\ RequestsKnown
    BY DEF OrganizationsInv, OrganizationsTypeOK
  <1>2. \A p \in Requests : request'[p] = IF p = q THEN x ELSE request[p]
    BY <1>1
  <1>3. RequestsKnown'
    BY <1>1, <1>2 DEF RequestsKnown
  <1> QED
    BY <1>1, <1>3

LEMMA AnsweredKnown ==
  ASSUME OrganizationsInv, NEW q \in Requests, Answered(q)
  PROVE  request' \in [Requests -> Request] /\ RequestsKnown' /\ calls' \in Nat
  BY RequestReplaced, IdleKnown DEF Answered, OrganizationsInv, OrganizationsTypeOK

LEMMA BeginsKnown ==
  ASSUME OrganizationsInv, NEW q \in Requests, NEW x \in Request, Carries(x), HasChecked(x),
         Begins(q, x)
  PROVE  request' \in [Requests -> Request] /\ RequestsKnown' /\ calls' \in Nat
  <1>1. request' = [request EXCEPT ![q] = x] /\ calls' = calls + 1
    BY DEF Begins
  <1>2. calls \in Nat
    BY DEF OrganizationsInv, OrganizationsTypeOK
  <1>3. calls' \in Nat
    BY <1>1, <1>2
  <1>4. request' \in [Requests -> Request] /\ RequestsKnown'
    BY <1>1, RequestReplaced
  <1> QED
    BY <1>3, <1>4

LEMMA GoesKnown ==
  ASSUME OrganizationsInv, NEW q \in Requests,
         NEW at \in {"inserting", "consuming", "deleting"}, Goes(q, at),
         Carries([request[q] EXCEPT !.at = at])
  PROVE  request' \in [Requests -> Request] /\ RequestsKnown' /\ calls' \in Nat
  <1>1. request \in [Requests -> Request] /\ calls \in Nat
    BY DEF OrganizationsInv, OrganizationsTypeOK
  <1> DEFINE x == [request[q] EXCEPT !.at = at]
  <1>2. x \in Request /\ x.at = at
    BY <1>1 DEF Request
  <1>3. HasChecked(x)
    BY <1>2 DEF HasChecked
  <1>4. request' = [request EXCEPT ![q] = x] /\ calls' = calls
    BY DEF Goes
  <1> QED
    BY <1>1, <1>2, <1>3, <1>4, RequestReplaced

\* A request that changes no table.
LEMMA OnlyRequests ==
  ASSUME OrganizationsInv, UNCHANGED <<erased, account, role, letter, admitted>>,
         request' \in [Requests -> Request], RequestsKnown', calls' \in Nat
  PROVE  OrganizationsInv'
  BY DEF OrganizationsInv, OrganizationsTypeOK, LettersKnown, AnOwnerRemains

\* One that changes invitations, and no member.
LEMMA OnlyLetters ==
  ASSUME OrganizationsInv, UNCHANGED <<erased, account, role, admitted>>,
         letter' \in [Letters -> Letter], LettersKnown',
         request' \in [Requests -> Request], RequestsKnown', calls' \in Nat
  PROVE  OrganizationsInv'
  BY DEF OrganizationsInv, OrganizationsTypeOK, AnOwnerRemains

\* An invitation that is not live any more.
LEMMA LetterGoes ==
  ASSUME OrganizationsInv, NEW gone \in SUBSET Letters, UNCHANGED admitted,
         letter' = [i \in Letters |-> IF i \in gone THEN [letter[i] EXCEPT !.state = "gone"]
                                      ELSE letter[i]]
  PROVE  letter' \in [Letters -> Letter] /\ LettersKnown'
  <1>1. letter \in [Letters -> Letter] /\ LettersKnown
    BY DEF OrganizationsInv, OrganizationsTypeOK
  <1>2. \A i \in Letters : [letter[i] EXCEPT !.state = "gone"] \in Letter
    BY <1>1 DEF Letter
  <1>3. \A i \in Letters : [letter[i] EXCEPT !.state = "gone"].state = "gone"
    BY <1>1 DEF Letter
  <1>4. letter' \in [Letters -> Letter]
    BY <1>1, <1>2
  <1>5. \A i \in Letters : letter'[i] = letter[i] \/ letter'[i].state = "gone"
    BY <1>3
  <1>6. LettersKnown'
    BY <1>1, <1>5 DEF LettersKnown
  <1> QED
    BY <1>4, <1>6

-----------------------------------------------------------------------------
LEMMA InitOrganizationsInv == OrganizationsInit => OrganizationsInv
  <1> SUFFICES ASSUME OrganizationsInit PROVE OrganizationsInv
    OBVIOUS
  <1> USE OrganizationsAssumption DEF OrganizationsInit
  <1>1. NotMade \in Letter /\ NotMade.state = "unmade"
    BY DEF NotMade, Letter, Roles
  <1>2. OrganizationsTypeOK
    BY <1>1, IdleKnown DEF OrganizationsTypeOK, Roles
  <1>3. RequestsKnown /\ LettersKnown
    BY <1>1, IdleKnown DEF RequestsKnown, LettersKnown
  <1>4. AnOwnerRemains
    BY DEF AnOwnerRemains
  <1> QED
    BY <1>2, <1>3, <1>4 DEF OrganizationsInv

LEMMA AskToChangeKeeps ==
  ASSUME NEW q \in Requests, NEW actor \in People, NEW who \in People, NEW to \in Roles,
         OrganizationsInv, AskToChange(q, actor, who, to)
  PROVE  OrganizationsInv'
  <1> DEFINE x == [IdleRequest EXCEPT !.at = "asked", !.kind = "change", !.by = role[actor],
                     !.who = who, !.to = to]
  <1>1. role[actor] \in Roled
    BY DEF OrganizationsInv, OrganizationsTypeOK, Roled
  <1>2. x \in Request /\ x.at = "asked" /\ x.who = who
    BY <1>1 DEF IdleRequest, Request, Roled
  <1>3. Carries(x) /\ HasChecked(x)
    BY <1>2 DEF Carries, HasChecked
  <1> QED
    BY <1>2, <1>3, BeginsKnown, OnlyRequests DEF AskToChange

LEMMA AskToRemoveKeeps ==
  ASSUME NEW q \in Requests, NEW actor \in People, NEW who \in People,
         OrganizationsInv, AskToRemove(q, actor, who)
  PROVE  OrganizationsInv'
  <1> DEFINE x == [IdleRequest EXCEPT !.at = "asked",
                     !.kind = IF who = actor THEN "leave" ELSE "remove",
                     !.by = role[actor], !.who = who, !.to = "none"]
  <1>1. role[actor] \in Roled
    BY DEF OrganizationsInv, OrganizationsTypeOK, Roled
  <1>2. x \in Request /\ x.at = "asked" /\ x.who = who
    BY <1>1 DEF IdleRequest, Request, Roled
  <1>3. Carries(x) /\ HasChecked(x)
    BY <1>2 DEF Carries, HasChecked
  <1> QED
    BY <1>2, <1>3, BeginsKnown, OnlyRequests DEF AskToRemove

\* The rule is checked of the roles that are compared on commit.
LEMMA TransactionReadsKeeps ==
  ASSUME NEW q \in Requests, OrganizationsInv, TransactionReads(q)
  PROVE  OrganizationsInv'
  <1>1. request[q].at = "asked" /\ UNCHANGED <<erased, account, role, letter, admitted>>
    BY DEF TransactionReads
  <1>2. CASE ~Permitted(q)
    BY <1>1, <1>2, AnsweredKnown, OnlyRequests DEF TransactionReads
  <1>3. CASE Permitted(q)
    <2> DEFINE x == [request[q] EXCEPT !.at = "checked", !.seen = role]
    <2>1. request[q] \in Request /\ role \in [People -> Roled] /\ calls \in Nat
      BY DEF OrganizationsInv, OrganizationsTypeOK, Roled
    <2>2. x \in Request /\ x.at = "checked" /\ x.seen = role /\ x.who = request[q].who
          /\ x.to = request[q].to
      BY <2>1 DEF Request, Roled
    <2>3. Carries(x)
      BY <1>1, <2>2 DEF OrganizationsInv, RequestsKnown, Carries
    <2>4. HasChecked(x)
      BY <1>3, <2>2 DEF HasChecked, Permitted, assertAnotherOwner
    <2>5. request' = [request EXCEPT ![q] = x] /\ calls' = calls
      BY <1>3 DEF TransactionReads
    <2> QED
      BY <1>1, <2>1, <2>2, <2>3, <2>4, <2>5, RequestReplaced, OnlyRequests
  <1> QED
    BY <1>2, <1>3

\* What was checked still holds, if the roles are still the ones that were read.
LEMMA TransactionCommitsKeeps ==
  ASSUME NEW q \in Requests, OrganizationsInv, TransactionCommits(q)
  PROVE  OrganizationsInv'
  <1>1. request[q].at = "checked" /\ UNCHANGED <<erased, account, letter, admitted>> /\ Answered(q)
    BY DEF TransactionCommits
  <1>2. request' \in [Requests -> Request] /\ RequestsKnown' /\ calls' \in Nat
    BY <1>1, AnsweredKnown
  <1>3. CASE role' = role
    BY <1>1, <1>2, <1>3, OnlyRequests
  <1>4. CASE role' # role
    <2> DEFINE who == request[q].who
    <2> DEFINE to == request[q].to
    <2>1. role = request[q].seen /\ role' = [role EXCEPT ![who] = to]
      BY <1>4 DEF TransactionCommits, Moved
    <2>2. role \in [People -> Roled] /\ who \in People /\ to \in Roled
      BY <1>1 DEF OrganizationsInv, OrganizationsTypeOK, RequestsKnown, Carries, Request, Roled
    <2>3. \A p \in People : role'[p] = IF p = who THEN to ELSE role[p]
      BY <2>1, <2>2
    <2>4. /\ role[who] # "none"
          /\ role[who] = "OWNER" /\ to # "OWNER" => \E p \in People \ {who} : role[p] = "OWNER"
      BY <1>1, <2>1 DEF OrganizationsInv, RequestsKnown, HasChecked
    <2>5. OrganizationsTypeOK'
      <3>1. role' \in [People -> Roled]
        BY <2>1, <2>2
      <3>2. \A p \in People : role'[p] # "none" => p \in account'
        BY <1>1, <2>3, <2>4 DEF OrganizationsInv, OrganizationsTypeOK
      <3> QED
        BY <1>1, <1>2, <3>1, <3>2 DEF OrganizationsInv, OrganizationsTypeOK, Roled
    <2>6. AnOwnerRemains'
      <3> SUFFICES ASSUME ~erased PROVE \E p \in People : role'[p] = "OWNER"
        BY <1>1 DEF AnOwnerRemains
      <3>1. PICK p \in People : role[p] = "OWNER"
        BY DEF OrganizationsInv, AnOwnerRemains
      <3> QED
        BY <2>3, <2>4, <3>1
    <2>7. LettersKnown'
      BY <1>1 DEF OrganizationsInv, LettersKnown
    <2> QED
      BY <1>2, <2>5, <2>6, <2>7 DEF OrganizationsInv
  <1> QED
    BY <1>3, <1>4

-----------------------------------------------------------------------------
LEMMA InviteKeeps ==
  ASSUME NEW q \in Requests, NEW actor \in People, NEW who \in People, NEW to \in Roles,
         OrganizationsInv, Invite(q, actor, who, to)
  PROVE  OrganizationsInv'
  <1> DEFINE x == [IdleRequest EXCEPT !.at = "replacing", !.kind = "invite", !.who = who, !.to = to]
  <1>1. x \in Request /\ x.at = "replacing" /\ x.who = who /\ x.to = to
    BY DEF IdleRequest, Request
  <1>2. Carries(x) /\ HasChecked(x)
    BY <1>1 DEF Carries, HasChecked
  <1> QED
    BY <1>1, <1>2, BeginsKnown, OnlyRequests DEF Invite

LEMMA InviteReplacesKeeps ==
  ASSUME NEW q \in Requests, OrganizationsInv, InviteReplaces(q)
  PROVE  OrganizationsInv'
  <1>1. request[q].at = "replacing" /\ Goes(q, "inserting")
        /\ UNCHANGED <<erased, account, role, admitted>>
    BY DEF InviteReplaces
  <1> DEFINE gone == {i \in Letters : i \in LiveFor(request[q].who)}
  <1>2. letter' = [i \in Letters |-> IF i \in gone THEN [letter[i] EXCEPT !.state = "gone"]
                                     ELSE letter[i]]
    BY DEF InviteReplaces
  <1>3. letter' \in [Letters -> Letter] /\ LettersKnown'
    BY <1>1, <1>2, LetterGoes
  <1>4. Carries([request[q] EXCEPT !.at = "inserting"])
    <2>1. request[q] \in Request /\ Carries(request[q])
      BY DEF OrganizationsInv, OrganizationsTypeOK, RequestsKnown
    <2> QED
      BY <1>1, <2>1 DEF Carries, Request
  <1> QED
    BY <1>1, <1>3, <1>4, GoesKnown, OnlyLetters

LEMMA InviteInsertsKeeps ==
  ASSUME NEW q \in Requests, NEW i \in Letters, OrganizationsInv, InviteInserts(q, i)
  PROVE  OrganizationsInv'
  <1> DEFINE new == [state |-> "live", for |-> request[q].who, role |-> request[q].to]
  <1> DEFINE x == [request[q] EXCEPT !.at = "sending", !.letter = i]
  <1>1. /\ request[q].at = "inserting" /\ letter[i] = NotMade
        /\ letter' = [letter EXCEPT ![i] = new] /\ request' = [request EXCEPT ![q] = x]
        /\ UNCHANGED <<erased, account, role, admitted, calls>>
    BY DEF InviteInserts
  <1>2. /\ request[q] \in Request /\ letter \in [Letters -> Letter] /\ LettersKnown /\ calls \in Nat
        /\ request[q].who \in People /\ request[q].to \in Roles
    BY <1>1 DEF OrganizationsInv, OrganizationsTypeOK, RequestsKnown, Carries
  <1>3. x \in Request /\ x.at = "sending" /\ x.letter = i /\ x.who = request[q].who
    BY <1>2 DEF Request
  <1>4. Carries(x) /\ HasChecked(x)
    BY <1>2, <1>3 DEF Carries, HasChecked
  <1>5. new \in Letter
    BY <1>2 DEF Letter
  <1>6. letter' \in [Letters -> Letter]
    BY <1>1, <1>2, <1>5
  <1>7. \A j \in Letters : letter'[j] = IF j = i THEN new ELSE letter[j]
    BY <1>1, <1>2
  <1>8. admitted[i] = 0
    BY <1>1, <1>2 DEF LettersKnown, NotMade
  <1>9. LettersKnown'
    BY <1>1, <1>2, <1>7, <1>8 DEF LettersKnown
  <1> QED
    BY <1>1, <1>2, <1>3, <1>4, <1>6, <1>9, RequestReplaced, OnlyLetters

LEMMA SentKeeps ==
  ASSUME NEW q \in Requests, OrganizationsInv, Sent(q) PROVE OrganizationsInv'
  BY AnsweredKnown, OnlyRequests DEF Sent

\* It may have been taken up before it is taken back: it stays used.
LEMMA NotSentKeeps ==
  ASSUME NEW q \in Requests, OrganizationsInv, NotSent(q) PROVE OrganizationsInv'
  <1> DEFINE i == request[q].letter
  <1>1. /\ i \in Letters /\ Answered(q) /\ UNCHANGED <<erased, account, role, admitted>>
        /\ letter' = [letter EXCEPT ![i].state = "gone"]
    BY DEF NotSent, OrganizationsInv, RequestsKnown, Carries
  <1>2. letter' = [j \in Letters |-> IF j \in {i} THEN [letter[j] EXCEPT !.state = "gone"]
                                     ELSE letter[j]]
    BY <1>1 DEF OrganizationsInv, OrganizationsTypeOK
  <1> HIDE DEF i
  <1>3. letter' \in [Letters -> Letter] /\ LettersKnown'
    BY <1>1, <1>2, LetterGoes
  <1> QED
    BY <1>1, <1>3, AnsweredKnown, OnlyLetters

LEMMA RevokedKeeps ==
  ASSUME NEW i \in Letters, OrganizationsInv, Revoked(i) PROVE OrganizationsInv'
  <1>1. /\ UNCHANGED <<erased, account, role, admitted, request, calls>>
        /\ letter' = [letter EXCEPT ![i].state = "gone"]
    BY DEF Revoked
  <1>2. letter' = [j \in Letters |-> IF j \in {i} THEN [letter[j] EXCEPT !.state = "gone"]
                                     ELSE letter[j]]
    BY <1>1 DEF OrganizationsInv, OrganizationsTypeOK
  <1>3. letter' \in [Letters -> Letter] /\ LettersKnown'
    BY <1>1, <1>2, LetterGoes
  <1>4. request' \in [Requests -> Request] /\ RequestsKnown' /\ calls' \in Nat
    BY <1>1 DEF OrganizationsInv, OrganizationsTypeOK, RequestsKnown
  <1> QED
    BY <1>1, <1>3, <1>4, OnlyLetters

-----------------------------------------------------------------------------
LEMMA LookupKeeps ==
  ASSUME NEW q \in Requests, NEW i \in Letters, OrganizationsInv, Lookup(q, i)
  PROVE  OrganizationsInv'
  <1> DEFINE p == letter[i].for
  <1> DEFINE x == [IdleRequest EXCEPT !.who = p, !.to = letter[i].role, !.letter = i,
                     !.kind = IF p \in account THEN "accept" ELSE "register",
                     !.at = IF p \in account THEN "consuming" ELSE "registering"]
  <1>1. p \in People /\ letter[i].role \in Roles
    BY DEF Lookup, OrganizationsInv, OrganizationsTypeOK, LettersKnown, Letter
  <1>2. x \in Request /\ x.at \in {"consuming", "registering"} /\ x.who = p
        /\ x.to = letter[i].role /\ x.letter = i
    BY <1>1 DEF IdleRequest, Request
  <1>3. Carries(x) /\ HasChecked(x)
    BY <1>1, <1>2 DEF Carries, HasChecked
  <1> QED
    BY <1>2, <1>3, BeginsKnown, OnlyRequests DEF Lookup

LEMMA CreateAccountKeeps ==
  ASSUME NEW q \in Requests, OrganizationsInv, CreateAccount(q)
  PROVE  OrganizationsInv'
  <1>1. request[q].at = "registering" /\ UNCHANGED <<erased, role, letter, admitted>>
    BY DEF CreateAccount
  <1>2. request[q] \in Request /\ Carries(request[q]) /\ request[q].who \in People
    BY <1>1 DEF OrganizationsInv, OrganizationsTypeOK, RequestsKnown, Carries
  <1>3. CASE request[q].who \in account
    BY <1>1, <1>3, AnsweredKnown, OnlyRequests DEF CreateAccount
  <1>4. CASE request[q].who \notin account
    <2>1. Goes(q, "consuming") /\ account' = account \cup {request[q].who}
      BY <1>4 DEF CreateAccount
    <2>2. Carries([request[q] EXCEPT !.at = "consuming"])
      BY <1>1, <1>2 DEF Carries, Request
    <2>3. request' \in [Requests -> Request] /\ RequestsKnown' /\ calls' \in Nat
      BY <2>1, <2>2, GoesKnown
    <2>4. OrganizationsTypeOK'
      BY <1>1, <1>2, <2>1, <2>3 DEF OrganizationsInv, OrganizationsTypeOK
    <2>5. LettersKnown' /\ AnOwnerRemains'
      BY <1>1 DEF OrganizationsInv, LettersKnown, AnOwnerRemains
    <2> QED
      BY <2>3, <2>4, <2>5 DEF OrganizationsInv
  <1> QED
    BY <1>3, <1>4

\* Only a live invitation admits, and it admits who is not a member.
LEMMA ConsumeKeeps ==
  ASSUME NEW q \in Requests, OrganizationsInv, consume(q)
  PROVE  OrganizationsInv'
  <1> DEFINE who == request[q].who
  <1> DEFINE i == request[q].letter
  <1>1. request[q].at = "consuming" /\ UNCHANGED <<account, erased>>
    BY DEF consume
  <1>2. /\ request[q] \in Request /\ Carries(request[q]) /\ who \in People /\ i \in Letters
        /\ request[q].to \in Roles
    BY <1>1 DEF OrganizationsInv, OrganizationsTypeOK, RequestsKnown, Carries
  <1>3. CASE letter[i].state = "live" /\ role[who] = "none" /\ who \in account
    <2>1. Admit(q) /\ Answered(q)
      BY <1>3 DEF consume
    <2>2. /\ letter' = [letter EXCEPT ![i].state = "accepted"]
          /\ admitted' = [admitted EXCEPT ![i] = @ + 1]
          /\ role' = [role EXCEPT ![who] = request[q].to]
      BY <2>1 DEF Admit
    <2>3. request' \in [Requests -> Request] /\ RequestsKnown' /\ calls' \in Nat
      BY <2>1, AnsweredKnown
    <2>4. /\ letter \in [Letters -> Letter] /\ admitted \in [Letters -> Nat]
          /\ role \in [People -> Roled] /\ LettersKnown
      BY DEF OrganizationsInv, OrganizationsTypeOK, Roled
    <2> HIDE DEF who, i
    <2>5. \A p \in People : role'[p] = IF p = who THEN request[q].to ELSE role[p]
      BY <1>2, <2>2, <2>4
    <2>6. \A j \in Letters :
            /\ admitted'[j] = IF j = i THEN admitted[j] + 1 ELSE admitted[j]
            /\ letter'[j] = IF j = i THEN [letter[j] EXCEPT !.state = "accepted"] ELSE letter[j]
      BY <1>2, <2>2, <2>4
    <2>7. [letter[i] EXCEPT !.state = "accepted"] \in Letter
          /\ [letter[i] EXCEPT !.state = "accepted"].state = "accepted"
      BY <1>2, <2>4 DEF Letter
    <2>8. OrganizationsTypeOK'
      <3>1. letter' \in [Letters -> Letter]
        BY <1>2, <2>2, <2>4, <2>7
      <3>2. admitted' \in [Letters -> Nat]
        BY <1>2, <2>2, <2>4
      <3>3. role' \in [People -> Roled]
        BY <1>2, <2>2, <2>4 DEF Roled
      <3>4. \A p \in People : role'[p] # "none" => p \in account
        BY <1>3, <2>5 DEF OrganizationsInv, OrganizationsTypeOK
      <3> QED
        BY <1>1, <2>3, <3>1, <3>2, <3>3, <3>4 DEF OrganizationsInv, OrganizationsTypeOK, Roled
    <2>9. LettersKnown'
      <3> SUFFICES ASSUME NEW j \in Letters
                   PROVE  /\ letter'[j].state = "live" => letter'[j].for \in People
                          /\ letter'[j].state \in {"unmade", "live"} => admitted'[j] = 0
                          /\ letter'[j].state = "accepted" => admitted'[j] = 1
                          /\ admitted'[j] <= 1
        BY DEF LettersKnown
      <3>1. CASE j = i
        <4>1. letter'[j].state = "accepted" /\ admitted'[j] = admitted[i] + 1
          BY <2>6, <2>7, <3>1
        <4>2. admitted[i] = 0
          BY <1>2, <1>3, <2>4 DEF LettersKnown, i
        <4> QED
          BY <4>1, <4>2
      <3>2. CASE j # i
        BY <2>4, <2>6, <3>2 DEF LettersKnown
      <3> QED
        BY <3>1, <3>2
    <2>10. AnOwnerRemains'
      BY <1>1, <1>3, <2>5 DEF OrganizationsInv, AnOwnerRemains
    <2> QED
      BY <2>3, <2>8, <2>9, <2>10 DEF OrganizationsInv
  <1>4. CASE ~(letter[i].state = "live" /\ role[who] = "none" /\ who \in account)
    <2>1. /\ UNCHANGED <<role, letter, admitted>>
          /\ Goes(q, "deleting") \/ Answered(q)
      BY <1>4 DEF consume
    <2>2. Carries([request[q] EXCEPT !.at = "deleting"])
      BY <1>2 DEF Carries, Request
    <2>3. request' \in [Requests -> Request] /\ RequestsKnown' /\ calls' \in Nat
      BY <2>1, <2>2, GoesKnown, AnsweredKnown
    <2> QED
      BY <1>1, <2>1, <2>3, OnlyRequests
  <1> QED
    BY <1>3, <1>4

\* The account of a member is deleted: this is noted.
LEMMA DeleteAccountKeeps ==
  ASSUME NEW q \in Requests, OrganizationsInv, DeleteAccount(q)
  PROVE  OrganizationsInv'
  <1> DEFINE who == request[q].who
  <1>1. /\ account' = account \ {who} /\ role' = [role EXCEPT ![who] = "none"]
        /\ erased' = (erased \/ role[who] # "none")
        /\ Answered(q) /\ UNCHANGED <<letter, admitted>>
    BY DEF DeleteAccount
  <1>2. request' \in [Requests -> Request] /\ RequestsKnown' /\ calls' \in Nat
    BY <1>1, AnsweredKnown
  <1>3. role \in [People -> Roled] /\ erased \in BOOLEAN /\ who \in People
    BY DEF DeleteAccount, OrganizationsInv, OrganizationsTypeOK, RequestsKnown, Carries, Roled
  <1> HIDE DEF who
  <1>4. \A p \in People : role'[p] = IF p = who THEN "none" ELSE role[p]
    BY <1>1, <1>3
  <1>5. OrganizationsTypeOK'
    <2>1. role' \in [People -> Roled]
      BY <1>1, <1>3 DEF Roled
    <2>2. \A p \in People : role'[p] # "none" => p \in account'
      BY <1>1, <1>4 DEF OrganizationsInv, OrganizationsTypeOK
    <2>3. erased' \in BOOLEAN /\ account' \subseteq People
      BY <1>1, <1>3 DEF OrganizationsInv, OrganizationsTypeOK
    <2> QED
      BY <1>1, <1>2, <2>1, <2>2, <2>3 DEF OrganizationsInv, OrganizationsTypeOK, Roled
  <1>6. AnOwnerRemains'
    <2> SUFFICES ASSUME ~erased' PROVE \E p \in People : role'[p] = "OWNER"
      BY DEF AnOwnerRemains
    <2>1. ~erased /\ role[who] = "none"
      BY <1>1, <1>3
    <2>2. PICK p \in People : role[p] = "OWNER"
      BY <2>1 DEF OrganizationsInv, AnOwnerRemains
    <2> QED
      BY <1>4, <2>1, <2>2
  <1>7. LettersKnown'
    BY <1>1 DEF OrganizationsInv, LettersKnown
  <1> QED
    BY <1>2, <1>5, <1>6, <1>7 DEF OrganizationsInv

LEMMA AbandonedKeeps ==
  ASSUME NEW q \in Requests, OrganizationsInv, Abandoned(q) PROVE OrganizationsInv'
  BY AnsweredKnown, OnlyRequests DEF Abandoned

-----------------------------------------------------------------------------
LEMMA NextKeepsOrganizationsInv ==
  OrganizationsInv /\ [OrganizationsNext]_organizationVars => OrganizationsInv'
  <1> SUFFICES ASSUME OrganizationsInv, [OrganizationsNext]_organizationVars
               PROVE  OrganizationsInv'
    OBVIOUS
  <1>1. CASE UNCHANGED organizationVars
    BY <1>1 DEF organizationVars, OrganizationsInv, OrganizationsTypeOK, RequestsKnown,
                LettersKnown, AnOwnerRemains
  <1>2. ASSUME NEW q \in Requests, NEW actor \in People, NEW who \in People,
               \/ AskToRemove(q, actor, who)
               \/ \E to \in Roles : AskToChange(q, actor, who, to) \/ Invite(q, actor, who, to)
        PROVE  OrganizationsInv'
    BY <1>2, AskToRemoveKeeps, AskToChangeKeeps, InviteKeeps
  <1>3. ASSUME NEW q \in Requests,
               TransactionReads(q) \/ TransactionCommits(q) \/ InviteReplaces(q) \/ Sent(q)
                 \/ NotSent(q)
        PROVE  OrganizationsInv'
    BY <1>3, TransactionReadsKeeps, TransactionCommitsKeeps, InviteReplacesKeeps, SentKeeps,
       NotSentKeeps
  <1>4. ASSUME NEW q \in Requests, NEW i \in Letters,
               InviteInserts(q, i) \/ Lookup(q, i) \/ Revoked(i)
        PROVE  OrganizationsInv'
    BY <1>4, InviteInsertsKeeps, LookupKeeps, RevokedKeeps
  <1>5. ASSUME NEW q \in Requests,
               CreateAccount(q) \/ consume(q) \/ DeleteAccount(q) \/ Abandoned(q)
        PROVE  OrganizationsInv'
    BY <1>5, CreateAccountKeeps, ConsumeKeeps, DeleteAccountKeeps, AbandonedKeeps
  <1> QED
    BY <1>1, <1>2, <1>3, <1>4, <1>5 DEF OrganizationsNext

LEMMA OrganizationsInvHolds == OrganizationsSpec => []OrganizationsInv
  BY InitOrganizationsInv, NextKeepsOrganizationsInv, PTL DEF OrganizationsSpec

(***************************************************************************)
(* The tables and the requests have their types, and a member has an       *)
(* account.                                                                *)
(***************************************************************************)
THEOREM OrganizationsTyped == OrganizationsSpec => []OrganizationsTypeOK
  <1>1. OrganizationsInv => OrganizationsTypeOK
    BY DEF OrganizationsInv
  <1> QED
    BY <1>1, OrganizationsInvHolds, PTL

(***************************************************************************)
(* However many owners demote, remove or leave at once, one remains, as    *)
(* long as no member's account was deleted.                                *)
(***************************************************************************)
THEOREM AnOwnerAlwaysRemains == OrganizationsSpec => []AnOwnerRemains
  <1>1. OrganizationsInv => AnOwnerRemains
    BY DEF OrganizationsInv
  <1> QED
    BY <1>1, OrganizationsInvHolds, PTL

(***************************************************************************)
(* An invitation admits once, however many requests hold it, and whatever  *)
(* becomes of it meanwhile.                                                *)
(***************************************************************************)
THEOREM AdmitsOnce == OrganizationsSpec => []AdmittedOnce
  <1>1. OrganizationsInv => AdmittedOnce
    BY DEF OrganizationsInv, LettersKnown, AdmittedOnce
  <1> QED
    BY <1>1, OrganizationsInvHolds, PTL

-----------------------------------------------------------------------------
(***************************************************************************)
(* Downloads.  A message that says "ok" names a version that was sent, so  *)
(* that what is judged whole is a file; what is stored was judged, and a   *)
(* fetch that is retained succeeds when something is stored.  What a       *)
(* replica counts is the sum of what it holds, Held, and stays within its  *)
(* limits, step by step.                                                   *)
(***************************************************************************)
USE DEF copies

Texts ==
  {m \in [what : {"chunk", "end", "ok", "failed"}, cmd : Fetches, version : 0 .. MaxVersions,
          number : Nat] : m.what = "ok" => m.version >= 1}
Assembly == [on : BOOLEAN, chunks : Seq(Nat), complete : BOOLEAN, broken : BOOLEAN]
Memories == [on : [Fetches -> Assembly], used : Int]
Files == {Whole(version) : version \in 1 .. MaxVersions}

Open(space) == {f \in Fetches : space.on[f].on}
Held(on) == MapThenSumSet(LAMBDA f : Bytes(on[f]), Fetches)
Within(space) ==
  /\ space \in Memories /\ space.used = Held(space.on) /\ space.used <= MaxTotal
  /\ IsFiniteSet(Open(space)) /\ Cardinality(Open(space)) <= MaxPerCluster

\* The agent and its messages.
FromAgent ==
  /\ execution \in [Fetches -> [at : {"none", "sending", "done", "failed"},
                                version : 0 .. MaxVersions, next : Nat]]
  /\ \A f \in Fetches : execution[f].at \in {"sending", "done"} => execution[f].version >= 1
  /\ wire \in Seq(Texts)

Assembled ==
  /\ assemblies \in [DownloadReplicas -> [Fetches -> Assembly]]
  /\ total \in [DownloadReplicas -> Int]
  /\ \A r \in DownloadReplicas : Within(Memory(r))

\* What is judged whole, stored and held.
Left(f) == f \in retained => held[FileOf[f]] # NotHeld

Kept ==
  /\ fetch \in [Fetches -> {"SENT", "SUCCEEDED", "FAILED", "TIMED_OUT"}]
  /\ judging \in [DownloadReplicas -> [cmd : Fetches \cup {NoFetch}, ok : BOOLEAN,
                                       stored : BOOLEAN, chunks : Seq(Nat)]]
  /\ retained \subseteq Fetches /\ held \in [FileKeys -> Files \cup {NotHeld, Lapsed}]
  /\ \A r \in DownloadReplicas :
       /\ judging[r] # NotJudging => judging[r].cmd \in Fetches
       /\ judging[r].ok => judging[r].cmd \in Fetches /\ judging[r].chunks \in Files
       /\ judging[r].stored => judging[r].ok /\ Left(judging[r].cmd)
  /\ \A f \in Fetches : fetch[f] = "SUCCEEDED" => Left(f)

DownloadsInv == FromAgent /\ Assembled /\ Kept

-----------------------------------------------------------------------------
\* A file has chunks.
LEMMA FilesAreThere == NotHeld \notin Files /\ Lapsed # NotHeld /\ Files \in SUBSET Seq(Nat)
<1>1. ASSUME NEW version \in 1 .. MaxVersions
      PROVE  Whole(version) \in Seq(Nat) /\ Len(Whole(version)) = version
  BY DownloadsAssumption, <1>1 DEF Whole
<1>2. Len(NotHeld) = 0 /\ Len(Lapsed) = 1
  BY DEF NotHeld, Lapsed
<1> QED
  BY <1>1, <1>2, DownloadsAssumption DEF Files

\* The bytes of each assembly, and the sum of them: the total does not depend on the order
\* they are added up in, and a change of one assembly changes it by as much.
Weights(on) == [f \in Fetches |-> Bytes(on[f])]

LEMMA WeightsType ==
  ASSUME NEW on \in [Fetches -> Assembly]
  PROVE  Weights(on) \in [Fetches -> Int]
  BY DEF Weights, Bytes, Assembly

LEMMA HeldIsASum ==
  ASSUME NEW on \in [Fetches -> Assembly]
  PROVE  \E g : Sums(g, Weights(on), Fetches) /\ Held(on) = g[Fetches]
<1> DEFINE S == Fetches
           F(h) == [s \in SUBSET S |->
                      IF s = {} THEN 0
                      ELSE Bytes(on[CHOOSE x \in s : TRUE]) + h[s \ {CHOOSE x \in s : TRUE}]]
<1>1. IsFiniteSet(S) /\ Weights(on) \in [S -> Int]
  BY DownloadsAssumption, WeightsType
<1>2. PICK g : Sums(g, Weights(on), S)
  <2> HIDE DEF S
  <2> QED
    BY <1>1, SumsExist
<1>3. ASSUME NEW h, NEW T \in SUBSET S
      PROVE  F(h)[T] = AddedUp(h, Weights(on), T)
  <2>1. CASE T = {}
    BY <2>1 DEF AddedUp
  <2>2. CASE T # {}
    <3>1. PICK x \in T : x = CHOOSE y \in T : TRUE
      BY <2>2
    <3>2. Weights(on)[x] = Bytes(on[x])
      BY <3>1 DEF Weights
    <3> QED
      BY <2>2, <3>1, <3>2 DEF AddedUp
  <2> QED
    BY <2>1, <2>2
<1>4. g = F(g)
  <2>1. g \in [SUBSET S -> Int] /\ \A T \in SUBSET S : g[T] = F(g)[T]
    BY <1>2, <1>3 DEF Sums
  <2> QED
    BY <2>1
<1>5. \E h : h = F(h) /\ Held(on) = h[S]
  <2> DEFINE chosen == CHOOSE h : h = F(h)
  <2>1. chosen = F(chosen)
    <3> HIDE DEF F
    <3> QED
      BY <1>4
  <2>2. Held(on) = chosen[S]
    BY DEF Held, MapThenSumSet, MapThenFoldSet
  <2> HIDE DEF chosen, F
  <2> QED
    BY <2>1, <2>2
<1>6. PICK h : h = F(h) /\ Held(on) = h[S]
  BY <1>5
<1>7. \A T \in SUBSET S : h[T] = AddedUp(h, Weights(on), T)
  <2> HIDE DEF F
  <2> QED
    BY <1>3, <1>6
<1>8. h[S] = g[S]
  <2> HIDE DEF S, F
  <2> QED
    BY <1>1, <1>2, <1>7, SumsAreUnique
<1> QED
  BY <1>2, <1>6, <1>8

LEMMA HeldNothing ==
  ASSUME NEW on \in [Fetches -> Assembly], \A f \in Fetches : Bytes(on[f]) = 0
  PROVE  Held(on) = 0
<1>1. PICK g : Sums(g, Weights(on), Fetches) /\ Held(on) = g[Fetches]
  BY HeldIsASum
<1>2. \A f \in Fetches : Weights(on)[f] = 0
  BY DEF Weights
<1> QED
  BY <1>1, <1>2, SumOfNothing, DownloadsAssumption

LEMMA HeldDiffers ==
  ASSUME NEW on \in [Fetches -> Assembly], NEW f \in Fetches, NEW b \in Assembly
  PROVE  Held([on EXCEPT ![f] = b]) = (Held(on) - Bytes(on[f])) + Bytes(b)
<1>1. PICK other \in [Fetches -> Assembly] : other = [on EXCEPT ![f] = b]
  OBVIOUS
<1>2. PICK g : Sums(g, Weights(on), Fetches) /\ Held(on) = g[Fetches]
  BY HeldIsASum
<1>3. PICK h : Sums(h, Weights(other), Fetches) /\ Held(other) = h[Fetches]
  BY HeldIsASum
<1>4. /\ Weights(on)[f] = Bytes(on[f]) /\ Weights(other)[f] = Bytes(b)
      /\ \A x \in Fetches \ {f} : Weights(other)[x] = Weights(on)[x]
  BY <1>1 DEF Weights
<1>5. Weights(on) \in [Fetches -> Int] /\ Weights(other) \in [Fetches -> Int]
  BY WeightsType
<1>6. h[Fetches] = (g[Fetches] - Weights(on)[f]) + Weights(other)[f]
  BY <1>2, <1>3, <1>4, <1>5, SumsDiffer, DownloadsAssumption
<1> QED
  BY <1>1, <1>2, <1>3, <1>4, <1>6

LEMMA DropWithin ==
  ASSUME NEW r, NEW f \in Fetches, NEW space, Within(space)
  PROVE  Within(drop(r, f, space)) /\ Open(drop(r, f, space)) = Open(space) \ {f}
<1> USE DEF drop
<1>1. NoAssembly \in Assembly /\ ~NoAssembly.on
  BY EmptySeq DEF NoAssembly, Assembly
<1>2. /\ space.on \in [Fetches -> Assembly] /\ space.used \in Int
      /\ Bytes(space.on[f]) \in Nat
  BY DEF Within, Memories, Assembly, Bytes
<1>3. space.used - Bytes(space.on[f]) \in Int /\ MaxTotal \in Nat
      /\ space.used - Bytes(space.on[f]) <= MaxTotal
  BY <1>2, DownloadsAssumption DEF Within
<1>4. /\ drop(r, f, space) \in Memories
      /\ drop(r, f, space).used = Held(drop(r, f, space).on)
  <2>1. Bytes(NoAssembly) = 0
    BY DEF Bytes, NoAssembly
  <2>2. Held([space.on EXCEPT ![f] = NoAssembly])
        = (Held(space.on) - Bytes(space.on[f])) + Bytes(NoAssembly)
    BY <1>1, <1>2, HeldDiffers
  <2>3. space.used = Held(space.on)
    BY DEF Within
  <2>4. Held([space.on EXCEPT ![f] = NoAssembly]) = space.used - Bytes(space.on[f])
    BY <1>2, <2>1, <2>2, <2>3
  <2> QED
    BY <1>1, <1>2, <1>3, <2>4 DEF Memories
<1>5. Open(drop(r, f, space)) = Open(space) \ {f}
  BY <1>1, <1>2 DEF Open
<1>6. /\ IsFiniteSet(Open(space) \ {f})
      /\ Cardinality(Open(space) \ {f}) <= Cardinality(Open(space))
  BY FS_Subset DEF Within
<1>7. Cardinality(Open(space) \ {f}) \in Nat /\ Cardinality(Open(space)) \in Nat
      /\ MaxPerCluster \in Nat
  BY <1>6, FS_CardinalityType, DownloadsAssumption DEF Within
<1>8. Cardinality(Open(space) \ {f}) <= MaxPerCluster
  BY <1>6, <1>7 DEF Within
<1> QED
  BY <1>3, <1>4, <1>5, <1>6, <1>8 DEF Within

LEMMA StartWithin ==
  ASSUME NEW r \in DownloadReplicas, NEW f \in Fetches, Within(Memory(r))
  PROVE  Within(start(r, f, Memory(r)))
<1> DEFINE dropped == drop(r, f, Memory(r))
<1>1. Within(dropped) /\ Open(dropped) = Open(Memory(r)) \ {f}
  BY DropWithin
<1>2. Open(dropped) = Others(r, f)
  BY <1>1 DEF Open, Others, Memory
<1> HIDE DEF dropped
<1>3. CASE Cardinality(Others(r, f)) >= MaxPerCluster
  BY <1>1, <1>3 DEF start, dropped
<1>4. CASE ~(Cardinality(Others(r, f)) >= MaxPerCluster)
  <2>1. start(r, f, Memory(r)) = [dropped EXCEPT !.on[f] = Started]
    BY <1>4 DEF start, dropped
  <2>2. Started \in Assembly /\ Started.on
    BY EmptySeq DEF NoAssembly, Started, Assembly
  <2>3. [dropped EXCEPT !.on[f] = Started] \in Memories
    BY <1>1, <2>2 DEF Within, Memories
  <2>4. Open([dropped EXCEPT !.on[f] = Started]) = Open(dropped) \cup {f}
    BY <1>1, <2>2 DEF Open, Within, Memories
  <2>5. /\ [dropped EXCEPT !.on[f] = Started].used = dropped.used
        /\ [dropped EXCEPT !.on[f] = Started].used = Held([dropped EXCEPT !.on[f] = Started].on)
    <3>1. dropped.on \in [Fetches -> Assembly] /\ dropped.used \in Int
          /\ dropped.used = Held(dropped.on)
      BY <1>1 DEF Within, Memories
    <3>2. dropped.on[f] = NoAssembly
      BY DEF dropped, drop, Memory, Assembled, Within, Memories
    <3>3. Held([dropped.on EXCEPT ![f] = Started])
          = (Held(dropped.on) - Bytes(dropped.on[f])) + Bytes(Started)
      BY <2>2, <3>1, HeldDiffers
    <3>4. Bytes(NoAssembly) = 0 /\ Bytes(Started) = 0
      BY DEF Bytes, NoAssembly, Started
    <3>5. Held([dropped.on EXCEPT ![f] = Started]) = dropped.used
      BY <3>1, <3>2, <3>3, <3>4
    <3>6. dropped = [on |-> dropped.on, used |-> dropped.used]
      BY <1>1 DEF Within, Memories
    <3>7. [dropped EXCEPT !.on[f] = Started]
          = [on |-> [dropped.on EXCEPT ![f] = Started], used |-> dropped.used]
      BY <1>1 DEF Within, Memories
    <3> QED
      BY <3>5, <3>7
  <2>6. /\ IsFiniteSet(Open(dropped) \cup {f})
        /\ Cardinality(Open(dropped) \cup {f}) = Cardinality(Open(dropped)) + 1
    BY <1>1, FS_AddElement DEF Within
  <2>7. Cardinality(Open(dropped)) \in Nat /\ MaxPerCluster \in Nat
    BY <1>1, FS_CardinalityType, DownloadsAssumption DEF Within
  <2>8. Cardinality(Open(dropped) \cup {f}) <= MaxPerCluster
    BY <1>2, <1>4, <2>6, <2>7
  <2> QED
    BY <1>1, <2>1, <2>3, <2>4, <2>5, <2>6, <2>8 DEF Within
<1> QED
  BY <1>3, <1>4

LEMMA AddWithin ==
  ASSUME NEW r, NEW m \in Texts, m.what \in {"chunk", "end"}, NEW space, Within(space)
  PROVE  Within(add(r, m, space))
<1>1. PICK f \in Fetches : f = m.cmd
  BY DEF Texts
<1>2. PICK a \in Assembly : a = space.on[f]
  BY DEF Within, Memories
<1>3. /\ space.on \in [Fetches -> Assembly] /\ space.used \in Int /\ m.version \in Nat
      /\ MaxTotal \in Nat /\ space.used <= MaxTotal
  BY DownloadsAssumption DEF Within, Memories, Texts
<1>4. ASSUME NEW b \in Assembly, b.on = a.on, NEW n \in Int, n <= MaxTotal,
             n = (space.used - Bytes(a)) + Bytes(b)
      PROVE  Within([on |-> [space.on EXCEPT ![f] = b], used |-> n])
  <2>1. [on |-> [space.on EXCEPT ![f] = b], used |-> n] \in Memories
    BY <1>3, <1>4 DEF Memories
  <2>2. Open([on |-> [space.on EXCEPT ![f] = b], used |-> n]) = Open(space)
    BY <1>2, <1>3, <1>4 DEF Open
  <2>3. Held([space.on EXCEPT ![f] = b]) = (Held(space.on) - Bytes(space.on[f])) + Bytes(b)
    BY <1>3, HeldDiffers
  <2>4. Held([space.on EXCEPT ![f] = b]) = n
    BY <1>2, <1>4, <2>3 DEF Within
  <2> QED
    BY <1>4, <2>1, <2>2, <2>4 DEF Within
<1>5. CASE ~a.on \/ a.broken
  BY <1>1, <1>2, <1>5 DEF add
<1>6. CASE ~(~a.on \/ a.broken) /\ Broken(a, m, space)
  <2>1. [a EXCEPT !.broken = TRUE, !.chunks = <<>>] \in Assembly
        /\ [a EXCEPT !.broken = TRUE, !.chunks = <<>>].on = a.on
    BY EmptySeq DEF Assembly
  <2>2. Bytes(a) \in Nat
    BY DEF Bytes, Assembly
  <2>3. space.used - Bytes(a) \in Int /\ space.used - Bytes(a) <= MaxTotal
    BY <1>3, <2>2
  <2>4. add(r, m, space) = [on |-> [space.on EXCEPT ![f] = [a EXCEPT !.broken = TRUE, !.chunks = <<>>]],
                             used |-> space.used - Bytes(a)]
    BY <1>1, <1>2, <1>3, <1>6 DEF add
  <2>5. Bytes([a EXCEPT !.broken = TRUE, !.chunks = <<>>]) = 0
    BY DEF Bytes, Assembly
  <2>6. space.used - Bytes(a)
        = (space.used - Bytes(a)) + Bytes([a EXCEPT !.broken = TRUE, !.chunks = <<>>])
    BY <2>3, <2>5
  <2> QED
    BY <1>4, <2>1, <2>3, <2>4, <2>6
<1>7. CASE ~(~a.on \/ a.broken) /\ ~Broken(a, m, space) /\ m.what = "end"
  <2>1. [a EXCEPT !.complete = TRUE] \in Assembly /\ [a EXCEPT !.complete = TRUE].on = a.on
    BY DEF Assembly
  <2>2. add(r, m, space) = [on |-> [space.on EXCEPT ![f] = [a EXCEPT !.complete = TRUE]],
                             used |-> space.used]
    BY <1>1, <1>2, <1>3, <1>7 DEF add, Within, Memories
  <2>3. /\ Bytes([a EXCEPT !.complete = TRUE]) = Bytes(a) /\ Bytes(a) \in Int
    BY DEF Bytes, Assembly
  <2>4. space.used = (space.used - Bytes(a)) + Bytes([a EXCEPT !.complete = TRUE])
    BY <1>3, <2>3
  <2> QED
    BY <1>3, <1>4, <2>1, <2>2, <2>4
<1>8. CASE ~(~a.on \/ a.broken) /\ ~Broken(a, m, space) /\ m.what # "end"
  <2>1. [a EXCEPT !.chunks = Append(@, m.version)] \in Assembly
        /\ [a EXCEPT !.chunks = Append(@, m.version)].on = a.on
    BY <1>3, AppendProperties DEF Assembly
  <2>2. space.used + 1 \in Int /\ space.used + 1 <= MaxTotal
    BY <1>3, <1>8 DEF Broken
  <2>3. add(r, m, space) = [on |-> [space.on EXCEPT ![f] = [a EXCEPT !.chunks = Append(@, m.version)]],
                             used |-> space.used + 1]
    BY <1>1, <1>2, <1>3, <1>8 DEF add, Within, Memories
  <2>4. Bytes([a EXCEPT !.chunks = Append(@, m.version)]) = Bytes(a) + 1 /\ Bytes(a) \in Int
    BY <1>3, AppendProperties DEF Bytes, Assembly
  <2>5. space.used + 1
        = (space.used - Bytes(a)) + Bytes([a EXCEPT !.chunks = Append(@, m.version)])
    BY <1>3, <2>4
  <2> QED
    BY <1>4, <2>1, <2>2, <2>3, <2>5
<1> QED
  BY <1>5, <1>6, <1>7, <1>8

\* A replica remembers what is within its limits.
LEMMA RemembersWithin ==
  ASSUME Assembled, NEW r \in DownloadReplicas, NEW space, Within(space), Remembers(r, space)
  PROVE  Assembled'
<1>1. space.on \in [Fetches -> Assembly] /\ space.used \in Int
  BY DEF Within, Memories
<1>2. /\ assemblies' \in [DownloadReplicas -> [Fetches -> Assembly]]
      /\ total' \in [DownloadReplicas -> Int]
  BY <1>1 DEF Remembers, Assembled
<1>3. ASSUME NEW q \in DownloadReplicas PROVE Within(Memory(q))'
  <2>1. CASE q = r
    <3>1. Memory(q)' = space
      BY <1>1, <2>1 DEF Remembers, Memory, Assembled, Within, Memories
    <3> QED
      BY <3>1 DEF Within, Open
  <2>2. CASE q # r
    <3>1. Memory(q)' = Memory(q)
      BY <2>2 DEF Remembers, Memory, Assembled
    <3> QED
      BY <3>1 DEF Assembled, Within, Open
  <2> QED
    BY <2>1, <2>2
<1> QED
  BY <1>2, <1>3 DEF Assembled

LEMMA InitDownloadsInv ==
  ASSUME NEW before, DownloadsBegin(before)
  PROVE  DownloadsInv
<1> USE DEF DownloadsBegin
<1>1. FromAgent
  BY EmptySeq, DownloadsAssumption DEF FromAgent, NotSending
<1>2. NoAssembly \in Assembly /\ ~NoAssembly.on
  BY EmptySeq DEF NoAssembly, Assembly
<1>3. Assembled
  <2>1. ASSUME NEW r \in DownloadReplicas PROVE Within(Memory(r))
    <3>1. Memory(r) = [on |-> [f \in Fetches |-> NoAssembly], used |-> 0]
      BY DEF Memory
    <3>2. Open(Memory(r)) = {}
      BY <1>2, <3>1 DEF Open
    <3>3. Memory(r) \in Memories
      BY <1>2, <3>1 DEF Memories
    <3>4. IsFiniteSet(Open(Memory(r))) /\ Cardinality(Open(Memory(r))) = 0
      BY <3>2, FS_EmptySet
    <3>5. Memory(r).used = 0 /\ Memory(r).used = Held(Memory(r).on)
      <4>1. Memory(r).on \in [Fetches -> Assembly]
            /\ \A f \in Fetches : Bytes(Memory(r).on[f]) = 0
        BY <1>2, <3>1 DEF Bytes, NoAssembly
      <4> QED
        BY <3>1, <4>1, HeldNothing
    <3>6. 0 <= MaxTotal /\ 0 <= MaxPerCluster
      BY DownloadsAssumption
    <3> QED
      BY <3>3, <3>4, <3>5, <3>6 DEF Within
  <2> QED
    BY <1>2, <2>1 DEF Assembled
<1>4. Kept
  BY EmptySeq DEF Kept, NotJudging, NotHeld
<1> QED
  BY <1>1, <1>3, <1>4 DEF DownloadsInv

\* The agent queues a message.
LEMMA QueuesText ==
  ASSUME FromAgent, NEW f \in Fetches, NEW what \in {"chunk", "end", "ok", "failed"},
         NEW number \in Nat, what = "ok" => execution[f].version >= 1,
         Queues(Message(what, f, number))
  PROVE  wire' \in Seq(Texts)
<1>1. Message(what, f, number) \in Texts
  BY DownloadsAssumption DEF FromAgent, Message, Texts
<1> QED
  BY <1>1, AppendProperties DEF FromAgent, Queues

\* What the agent does is its own.
LEMMA ExecutionKeeps ==
  ASSUME DownloadsInv, NEW f \in Fetches,
         NEW e \in [at : {"none", "sending", "done", "failed"}, version : 0 .. MaxVersions,
                    next : Nat],
         e.at \in {"sending", "done"} => e.version >= 1, Execution(f, e), wire' \in Seq(Texts)
  PROVE  DownloadsInv'
<1> USE DEF Execution
<1>1. FromAgent'
  BY DEF DownloadsInv, FromAgent
<1>2. Assembled'
  BY DEF DownloadsInv, Assembled, Within, Memory, Open
<1>3. Kept'
  BY DEF DownloadsInv, Kept, Left
<1> QED
  BY <1>1, <1>2, <1>3 DEF DownloadsInv

LEMMA AgentKeepsFiles ==
  ASSUME DownloadsInv, NEW f \in Fetches,
         Deliver(f) \/ DeliverAgain(f) \/ sendChunk(f) \/ sendFailure(f)
  PROVE  DownloadsInv'
<1> DEFINE Executions == [at : {"none", "sending", "done", "failed"}, version : 0 .. MaxVersions,
                          next : Nat]
<1>1. /\ execution[f] \in Executions /\ MaxVersions \in Nat /\ FromAgent /\ wire \in Seq(Texts)
      /\ execution[f].at \in {"sending", "done"} => execution[f].version >= 1
  BY DownloadsAssumption DEF DownloadsInv, FromAgent
<1>2. CASE Deliver(f)
  <2>1. [at |-> "sending", version |-> execution[f].version + 1, next |-> 0] \in Executions
        /\ execution[f].version + 1 >= 1
    BY <1>1, <1>2 DEF Deliver
  <2> QED
    BY <1>1, <1>2, <2>1, ExecutionKeeps DEF Deliver
<1>3. CASE DeliverAgain(f)
  <2>1. wire' \in Seq(Texts)
    <3>1. PICK what \in {"ok", "failed"} : what = IF execution[f].at = "done" THEN "ok" ELSE "failed"
      OBVIOUS
    <3>2. Queues(Message(what, f, 0)) /\ (what = "ok" => execution[f].version >= 1)
      BY <1>1, <1>3, <3>1 DEF DeliverAgain
    <3> QED
      BY <1>1, <3>2, QueuesText
  <2> QED
    BY <1>1, <1>3, <2>1, ExecutionKeeps DEF DeliverAgain
<1>4. CASE sendChunk(f)
  <2>1. execution[f].at = "sending" /\ execution[f].version >= 1 /\ execution[f].next \in Nat
    BY <1>1, <1>4 DEF sendChunk
  <2>2. wire' \in Seq(Texts)
    <3>1. CASE execution[f].next < execution[f].version
      <4>1. execution[f].next # execution[f].version
        BY <1>1, <2>1, <3>1
      <4>2. Queues(Message("chunk", f, execution[f].next))
        BY <1>4, <3>1, <4>1 DEF sendChunk
      <4> QED
        BY <1>1, <2>1, <4>2, QueuesText
    <3>2. CASE ~(execution[f].next < execution[f].version) /\ execution[f].next = execution[f].version
      <4>1. Queues(Message("end", f, execution[f].next))
        BY <1>4, <3>2 DEF sendChunk
      <4> QED
        BY <1>1, <2>1, <4>1, QueuesText
    <3>3. CASE ~(execution[f].next < execution[f].version) /\ execution[f].next # execution[f].version
      <4>1. Queues(Message("ok", f, 0))
        BY <1>4, <3>3 DEF sendChunk
      <4> QED
        BY <1>1, <2>1, <4>1, QueuesText
    <3> QED
      BY <3>1, <3>2, <3>3
  <2>3. PICK e \in Executions : /\ e.version >= 1
                                /\ e = IF execution[f].next <= execution[f].version
                                       THEN [execution[f] EXCEPT !.next = @ + 1]
                                       ELSE [execution[f] EXCEPT !.at = "done"]
    <3>1. [execution[f] EXCEPT !.next = @ + 1] \in Executions
          /\ [execution[f] EXCEPT !.next = @ + 1].version = execution[f].version
      BY <1>1, <2>1
    <3>2. [execution[f] EXCEPT !.at = "done"] \in Executions
          /\ [execution[f] EXCEPT !.at = "done"].version = execution[f].version
      BY <1>1, <2>1
    <3> QED
      BY <2>1, <3>1, <3>2
  <2>4. Execution(f, e)
    BY <1>4, <2>3 DEF sendChunk
  <2> QED
    BY <2>2, <2>3, <2>4, ExecutionKeeps
<1>5. CASE sendFailure(f)
  <2>1. wire' \in Seq(Texts)
    BY <1>1, <1>5, QueuesText DEF sendFailure
  <2>2. [execution[f] EXCEPT !.at = "failed"] \in Executions
        /\ [execution[f] EXCEPT !.at = "failed"].at = "failed"
    BY <1>1
  <2> QED
    BY <1>5, <2>1, <2>2, ExecutionKeeps DEF sendFailure
<1> QED
  BY <1>2, <1>3, <1>4, <1>5

LEMMA BreaksKeepFiles ==
  ASSUME DownloadsInv, (\E lost \in 0 .. OutboxRoom : Break(lost)) \/ AgentRestarts
  PROVE  DownloadsInv'
<1>1. UNCHANGED <<fetch, assemblies, total, judging, copies>>
  BY DEF Break, AgentRestarts
<1>2. Assembled'
  BY <1>1 DEF DownloadsInv, Assembled, Within, Memory, Open
<1>3. Kept'
  BY <1>1 DEF DownloadsInv, Kept, Left
<1>4. FromAgent'
  <2>1. ASSUME NEW lost \in 0 .. OutboxRoom, Break(lost) PROVE FromAgent'
    <3>1. PICK rest : rest = SubSeq(wire, lost + 1, Len(wire))
      OBVIOUS
    <3>2. rest \in Seq(Texts)
      <4>1. wire \in Seq(Texts) /\ Len(wire) \in Nat /\ lost + 1 \in Int /\ lost \in Nat
        BY LenProperties, DownloadsAssumption DEF DownloadsInv, FromAgent
      <4>2. \A i \in (lost + 1) .. Len(wire) : wire[i] \in Texts
        BY <4>1, ElementOfSeq
      <4> QED
        BY <3>1, <4>1, <4>2, SubSeqProperties
    <3>3. rest # <<>> => Append(Tail(rest), Head(rest)) \in Seq(Texts)
      BY <3>2, HeadTailProperties, AppendProperties
    <3>4. wire' \in Seq(Texts) /\ UNCHANGED execution
      BY <2>1, <3>1, <3>2, <3>3 DEF Break
    <3> QED
      BY <3>4 DEF DownloadsInv, FromAgent
  <2>2. ASSUME AgentRestarts PROVE FromAgent'
    BY <2>2, EmptySeq DEF AgentRestarts, DownloadsInv, FromAgent
  <2> QED
    BY <2>1, <2>2
<1> QED
  BY <1>2, <1>3, <1>4 DEF DownloadsInv

-----------------------------------------------------------------------------
LEMMA ReceivesText ==
  ASSUME DownloadsInv, NEW r, Receives(r)
  PROVE  Head(wire) \in Texts /\ wire' \in Seq(Texts) /\ FromAgent'
<1>1. Head(wire) \in Texts /\ wire' \in Seq(Texts)
  BY HeadTailProperties DEF DownloadsInv, FromAgent, Receives
<1> QED
  BY <1>1 DEF DownloadsInv, FromAgent, Receives

LEMMA OnChunkKeepsFiles ==
  ASSUME DownloadsInv, NEW r \in DownloadReplicas, onChunk(r)
  PROVE  DownloadsInv'
<1>1. /\ Receives(r) /\ UNCHANGED <<fetch, judging, copies>>
      /\ Head(wire).what \in {"chunk", "end"}
  BY DEF onChunk, Receives
<1>2. PICK m \in Texts : m = Head(wire)
  BY <1>1, ReceivesText
<1>3. Assembled /\ Within(Memory(r)) /\ m.cmd \in Fetches
  BY DEF DownloadsInv, Assembled, Texts
<1>4. Assembled'
  <2>1. CASE UNCHANGED <<assemblies, total>>
    BY <1>3, <2>1 DEF Assembled, Within, Memory, Open
  <2>2. CASE Remembers(r, add(r, m, start(r, m.cmd, Memory(r))))
    <3>1. Within(start(r, m.cmd, Memory(r)))
      BY <1>3, StartWithin
    <3>2. Within(add(r, m, start(r, m.cmd, Memory(r))))
      BY <1>1, <1>2, <3>1, AddWithin
    <3> QED
      BY <1>3, <2>2, <3>2, RemembersWithin
  <2>3. CASE Remembers(r, add(r, m, Memory(r)))
    <3>1. Within(add(r, m, Memory(r)))
      BY <1>1, <1>2, <1>3, AddWithin
    <3> QED
      BY <1>3, <2>3, <3>1, RemembersWithin
  <2> QED
    BY <1>2, <2>1, <2>2, <2>3 DEF onChunk
<1>5. Kept'
  BY <1>1 DEF DownloadsInv, Kept, Left
<1> QED
  BY <1>1, <1>4, <1>5, ReceivesText DEF DownloadsInv

LEMMA OnResultKeepsFiles ==
  ASSUME DownloadsInv, NEW r \in DownloadReplicas, onResult(r)
  PROVE  DownloadsInv'
<1>1. Receives(r) /\ UNCHANGED <<fetch, copies>> /\ Head(wire).what \in {"ok", "failed"}
  BY DEF onResult, Receives
<1>2. PICK m \in Texts : m = Head(wire)
  BY <1>1, ReceivesText
<1>3. Assembled /\ Within(Memory(r)) /\ m.cmd \in Fetches
      /\ assemblies[r][m.cmd] \in Assembly
  BY DEF DownloadsInv, Assembled, Texts
<1>4. Assembled'
  <2>1. Within(drop(r, m.cmd, Memory(r)))
    BY <1>3, DropWithin
  <2>2. Remembers(r, drop(r, m.cmd, Memory(r)))
    BY <1>2 DEF onResult
  <2> QED
    BY <1>3, <2>1, <2>2, RemembersWithin
<1>5. PICK judged : judged = [cmd |-> m.cmd, ok |-> m.what = "ok" /\ finish(r, m),
                              stored |-> FALSE, chunks |-> assemblies[r][m.cmd].chunks]
  OBVIOUS
<1>6. /\ judged \in [cmd : Fetches \cup {NoFetch}, ok : BOOLEAN, stored : BOOLEAN,
                     chunks : Seq(Nat)]
      /\ judged.cmd \in Fetches /\ ~judged.stored
  BY <1>3, <1>5 DEF Assembly
<1>7. judged.ok => judged.chunks \in Files
  <2>1. SUFFICES ASSUME judged.ok PROVE judged.chunks \in Files
    OBVIOUS
  <2>2. m.what = "ok" /\ finish(r, m)
    BY <1>5, <2>1
  <2>3. m.version \in 1 .. MaxVersions
    BY <2>2, DownloadsAssumption DEF Texts
  <2>4. judged.chunks = Whole(m.version)
    BY <1>5, <2>2 DEF finish
  <2> QED
    BY <2>3, <2>4 DEF Files
<1>8. judging' = [judging EXCEPT ![r] = judged]
  BY <1>2, <1>5 DEF onResult
<1>9. Kept'
  BY <1>1, <1>6, <1>7, <1>8 DEF DownloadsInv, Kept, Left
<1> QED
  BY <1>1, <1>4, <1>9, ReceivesText DEF DownloadsInv

LEMMA JudgedKeepsFiles ==
  ASSUME DownloadsInv, NEW r \in DownloadReplicas, put(r) \/ putFails(r) \/ Finished(r)
  PROVE  DownloadsInv'
<1>1. UNCHANGED <<execution, wire, home, assemblies, total>>
  BY DEF put, putFails, Finished
<1>2. FromAgent' /\ Assembled'
  BY <1>1 DEF DownloadsInv, FromAgent, Assembled, Within, Memory, Open
<1>3. CASE put(r)
  <2>1. /\ judging[r].cmd \in Fetches /\ judging[r].chunks \in Files
        /\ judging[r].chunks # NotHeld /\ judging[r].ok /\ FileOf \in [Fetches -> FileKeys]
    BY <1>3, FilesAreThere, DownloadsAssumption DEF put, DownloadsInv, Kept
  <2> DEFINE copied == [held EXCEPT ![FileOf[judging[r].cmd]] = judging[r].chunks]
  <2>2. /\ held' = IF judging[r].cmd \in retained THEN copied ELSE held
        /\ judging' = [judging EXCEPT ![r].stored = TRUE] /\ UNCHANGED <<fetch, retained>>
    BY <1>3 DEF put
  <2>11. held \in [FileKeys -> Files \cup {NotHeld, Lapsed}]
    BY DEF DownloadsInv, Kept
  <2>12. /\ held' \in [FileKeys -> Files \cup {NotHeld, Lapsed}]
         /\ \A k \in FileKeys : held[k] # NotHeld => held'[k] # NotHeld
         /\ judging[r].cmd \in retained => held'[FileOf[judging[r].cmd]] # NotHeld
    BY <2>1, <2>2, <2>11
  <2>3. \A f \in Fetches : Left(f) => Left(f)'
    BY <2>1, <2>2, <2>12 DEF Left
  <2>5. /\ \A q \in DownloadReplicas \ {r} : judging'[q] = judging[q]
        /\ judging'[r] = [judging[r] EXCEPT !.stored = TRUE]
    BY <2>2 DEF DownloadsInv, Kept
  <2>6. /\ judging'[r].cmd = judging[r].cmd /\ judging'[r].ok = judging[r].ok
        /\ judging'[r].chunks = judging[r].chunks
        /\ judging'[r] \in [cmd : Fetches \cup {NoFetch}, ok : BOOLEAN, stored : BOOLEAN,
                            chunks : Seq(Nat)]
    <3>1. judging[r] \in [cmd : Fetches \cup {NoFetch}, ok : BOOLEAN, stored : BOOLEAN,
                          chunks : Seq(Nat)]
      BY DEF DownloadsInv, Kept
    <3> QED
      BY <2>5, <3>1
  <2>4. PICK g \in Fetches : g = judging[r].cmd /\ g = judging'[r].cmd /\ Left(g)'
    BY <2>1, <2>2, <2>6, <2>12 DEF Left
  <2>7. /\ judging' \in [DownloadReplicas -> [cmd : Fetches \cup {NoFetch}, ok : BOOLEAN,
                                              stored : BOOLEAN, chunks : Seq(Nat)]]
        /\ held' \in [FileKeys -> Files \cup {NotHeld, Lapsed}]
    BY <2>1, <2>2, <2>6, <2>12 DEF DownloadsInv, Kept
  <2>8. ASSUME NEW q \in DownloadReplicas
        PROVE  /\ judging'[q] # NotJudging => judging'[q].cmd \in Fetches
               /\ judging'[q].ok => judging'[q].cmd \in Fetches /\ judging'[q].chunks \in Files
               /\ judging'[q].stored => judging'[q].ok /\ Left(judging[q].cmd)'
    <3>1. CASE q = r
      BY <2>1, <2>4, <2>6, <3>1
    <3>2. CASE q # r
      BY <2>3, <2>5, <3>2 DEF DownloadsInv, Kept
    <3> QED
      BY <3>1, <3>2
  <2>9. \A f \in Fetches : fetch'[f] = "SUCCEEDED" => Left(f)'
    BY <2>2, <2>3 DEF DownloadsInv, Kept
  <2>10. Kept'
    BY <2>2, <2>7, <2>8, <2>9 DEF DownloadsInv, Kept
  <2> QED
    BY <1>2, <2>10 DEF DownloadsInv
<1>4. CASE putFails(r)
  <2>1. /\ judging[r].ok /\ ~judging[r].stored /\ UNCHANGED <<fetch, copies>>
        /\ judging' = [judging EXCEPT ![r].ok = FALSE]
    BY <1>4 DEF putFails
  <2>2. judging[r].cmd \in Fetches /\ judging[r].chunks \in Files
    BY <2>1 DEF DownloadsInv, Kept
  <2>3. /\ \A q \in DownloadReplicas \ {r} : judging'[q] = judging[q]
        /\ judging'[r] = [judging[r] EXCEPT !.ok = FALSE]
    BY <2>1 DEF DownloadsInv, Kept
  <2>4. judging[r] \in [cmd : Fetches \cup {NoFetch}, ok : BOOLEAN, stored : BOOLEAN,
                        chunks : Seq(Nat)]
    BY DEF DownloadsInv, Kept
  <2>5. /\ judging'[r].cmd = judging[r].cmd /\ ~judging'[r].ok /\ ~judging'[r].stored
        /\ judging'[r] \in [cmd : Fetches \cup {NoFetch}, ok : BOOLEAN, stored : BOOLEAN,
                            chunks : Seq(Nat)]
    <3>1. PICK x \in [cmd : Fetches \cup {NoFetch}, ok : BOOLEAN, stored : BOOLEAN, chunks : Seq(Nat)] :
            x = judging[r]
      BY <2>4
    <3>2. judging'[r] = [x EXCEPT !.ok = FALSE] /\ ~x.stored
      BY <2>1, <2>3, <3>1
    <3> QED
      BY <3>1, <3>2
  <2>6. judging' \in [DownloadReplicas -> [cmd : Fetches \cup {NoFetch}, ok : BOOLEAN,
                                           stored : BOOLEAN, chunks : Seq(Nat)]]
    BY <2>1, <2>5 DEF DownloadsInv, Kept
  <2>7. ASSUME NEW q \in DownloadReplicas
        PROVE  /\ judging'[q] # NotJudging => judging'[q].cmd \in Fetches
               /\ judging'[q].ok => judging'[q].cmd \in Fetches /\ judging'[q].chunks \in Files
               /\ judging'[q].stored => judging'[q].ok /\ Left(judging[q].cmd)'
    <3>1. CASE q = r
      BY <2>2, <2>5, <3>1
    <3>2. CASE q # r
      BY <2>1, <2>3, <3>2 DEF DownloadsInv, Kept, Left
    <3> QED
      BY <3>1, <3>2
  <2>8. Kept'
    BY <2>1, <2>6, <2>7 DEF DownloadsInv, Kept, Left
  <2> QED
    BY <1>2, <2>8 DEF DownloadsInv
<1>5. CASE Finished(r)
  <2>1. /\ judging[r].cmd \in Fetches
        /\ judging[r].ok => Left(judging[r].cmd)
    BY <1>5 DEF Finished, DownloadsInv, Kept
  <2>2. /\ fetch' \in [Fetches -> {"SENT", "SUCCEEDED", "FAILED", "TIMED_OUT"}]
        /\ \A f \in Fetches : fetch'[f] = "SUCCEEDED" => Left(f)
    BY <1>5, <2>1 DEF Finished, DownloadsInv, Kept
  <2>3. NotJudging \in [cmd : Fetches \cup {NoFetch}, ok : BOOLEAN, stored : BOOLEAN,
                        chunks : Seq(Nat)] /\ ~NotJudging.ok /\ ~NotJudging.stored
    BY EmptySeq DEF NotJudging
  <2>4. Kept'
    BY <1>5, <2>2, <2>3 DEF Finished, DownloadsInv, Kept, Left
  <2> QED
    BY <1>2, <2>4 DEF DownloadsInv
<1> QED
  BY <1>3, <1>4, <1>5

LEMMA EndsKeepFiles ==
  ASSUME DownloadsInv, NEW f \in Fetches,
         TimesOut(f) \/ \E r \in DownloadReplicas : expire(r, f)
  PROVE  DownloadsInv'
<1>1. CASE TimesOut(f)
  <2>1. FromAgent' /\ Assembled'
    BY <1>1 DEF TimesOut, DownloadsInv, FromAgent, Assembled, Within, Memory, Open
  <2>2. Kept'
    BY <1>1 DEF TimesOut, DownloadsInv, Kept, Left
  <2> QED
    BY <2>1, <2>2 DEF DownloadsInv
<1>2. ASSUME NEW r \in DownloadReplicas, expire(r, f) PROVE DownloadsInv'
  <2>1. Within(drop(r, f, Memory(r)))
    BY DropWithin DEF DownloadsInv, Assembled
  <2>2. Assembled'
    BY <1>2, <2>1, RemembersWithin DEF expire, DownloadsInv
  <2>3. FromAgent' /\ Kept'
    BY <1>2 DEF expire, DownloadsInv, FromAgent, Kept, Left
  <2> QED
    BY <2>2, <2>3 DEF DownloadsInv
<1> QED
  BY <1>1, <1>2

LEMMA PurgeKeepsFiles ==
  ASSUME DownloadsInv, NEW k \in FileKeys, purge(k)
  PROVE  DownloadsInv'
<1>1. FromAgent' /\ Assembled'
  BY DEF purge, DownloadsInv, FromAgent, Assembled, Within, Memory, Open
<1>2. /\ held' \in [FileKeys -> Files \cup {NotHeld, Lapsed}]
      /\ \A f \in Fetches : Left(f) => Left(f)'
  BY FilesAreThere, DownloadsAssumption DEF purge, DownloadsInv, Kept, Left
<1>3. UNCHANGED <<fetch, judging, retained>>
  BY DEF purge
<1>4. Kept'
  BY <1>2, <1>3 DEF DownloadsInv, Kept
<1> QED
  BY <1>1, <1>4 DEF DownloadsInv

LEMMA NextKeepsDownloadsInv == DownloadsInv /\ [DownloadsNext]_downloadVars => DownloadsInv'
<1> SUFFICES ASSUME DownloadsInv, [DownloadsNext]_downloadVars PROVE DownloadsInv'
  OBVIOUS
<1>1. CASE UNCHANGED downloadVars
  <2>1. FromAgent'
    BY <1>1 DEF downloadVars, DownloadsInv, FromAgent
  <2>2. Assembled'
    BY <1>1 DEF downloadVars, DownloadsInv, Assembled, Within, Memory, Open
  <2>3. Kept'
    BY <1>1 DEF downloadVars, DownloadsInv, Kept, Left
  <2> QED
    BY <2>1, <2>2, <2>3 DEF DownloadsInv
<1>2. CASE DownloadsNext
  BY <1>2, AgentKeepsFiles, BreaksKeepFiles, OnChunkKeepsFiles, OnResultKeepsFiles,
     JudgedKeepsFiles, EndsKeepFiles, PurgeKeepsFiles DEF DownloadsNext
<1> QED
  BY <1>1, <1>2

LEMMA DownloadsInvHolds == DownloadsSpec => []DownloadsInv
<1>1. DownloadsInit => DownloadsInv
  BY InitDownloadsInv DEF DownloadsInit
<1> QED
  BY <1>1, NextKeepsDownloadsInv, PTL DEF DownloadsSpec

(***************************************************************************)
(* For any number of fetches, files, replicas, chunks, versions and        *)
(* breaks, whatever the retentions, a copy that is held is one version of  *)
(* the file, whole, and a fetch that succeeded, and is retained, has left  *)
(* one, which may have expired since (download-assembler.ts,               *)
(* download-cache.service.ts, finishDownload of commands.service.ts).      *)
(***************************************************************************)
THEOREM HeldIsAlwaysWhole == DownloadsSpec => []HeldIsWhole
  <1>1. DownloadsInv => HeldIsWhole
    BY DEF DownloadsInv, Kept, HeldIsWhole, Files, Left
  <1> QED
    BY <1>1, DownloadsInvHolds, PTL

(***************************************************************************)
(* For any number of fetches, replicas, chunks and breaks, what a replica  *)
(* counts is what it holds and no more than its total, and it assembles no *)
(* more than MAX_PER_CLUSTER files of the cluster (start, add, drop and    *)
(* expire of download-assembler.ts).                                       *)
(***************************************************************************)
THEOREM AccountsAddUpHolds == DownloadsSpec => []AccountsAddUp
  <1>1. ASSUME DownloadsInv PROVE AccountsAddUp
    <2>1. ASSUME NEW r \in DownloadReplicas
          PROVE  /\ total[r] = Held(assemblies[r]) /\ total[r] <= MaxTotal
                 /\ Cardinality({f \in Fetches : assemblies[r][f].on}) <= MaxPerCluster
      <3>1. Memory(r).on = assemblies[r] /\ Memory(r).used = total[r]
        BY DEF Memory
      <3>2. Within(Memory(r))
        BY <1>1 DEF DownloadsInv, Assembled
      <3> QED
        BY <3>1, <3>2 DEF Within, Open
    <2> QED
      BY <2>1 DEF AccountsAddUp, Held
  <1> QED
    BY <1>1, DownloadsInvHolds, PTL
-----------------------------------------------------------------------------
\* The bounds of the wire, and where the stream is.
WireBounded == Len(wire) <= OutboxRoom /\ home \in DownloadReplicas /\ breaks \in 0 .. MaxBreaks

LEMMA QueuesBounded ==
  ASSUME FromAgent, NEW message \in Texts, Queues(message)
  PROVE  Len(wire') <= OutboxRoom
<1>1. wire \in Seq(Texts) /\ Len(wire) < OutboxRoom /\ wire' = Append(wire, message)
  BY DEF FromAgent, Queues
<1>2. Len(wire') = Len(wire) + 1 /\ Len(wire) \in Nat
  BY <1>1, AppendProperties, LenProperties
<1> QED
  BY <1>1, <1>2, DownloadsAssumption

LEMMA NextWireBounded == DownloadsInv /\ WireBounded /\ [DownloadsNext]_downloadVars => WireBounded'
<1> SUFFICES ASSUME DownloadsInv, WireBounded, [DownloadsNext]_downloadVars PROVE WireBounded'
  OBVIOUS
<1> USE DEF WireBounded
<1>1. /\ FromAgent /\ wire \in Seq(Texts) /\ Len(wire) \in Nat
      /\ MaxBreaks \in Nat /\ OutboxRoom \in Nat
  BY LenProperties, DownloadsAssumption DEF DownloadsInv, FromAgent
<1>2. ASSUME UNCHANGED <<wire, home, breaks>> PROVE WireBounded'
  BY <1>2
<1>3. ASSUME NEW f \in Fetches, Deliver(f) \/ DeliverAgain(f) \/ sendChunk(f) \/ sendFailure(f)
      PROVE  WireBounded'
  <2>1. UNCHANGED <<home, breaks>>
    BY <1>3 DEF Deliver, DeliverAgain, sendChunk, sendFailure, Execution
  <2>2. CASE Deliver(f)
    BY <1>2, <2>1, <2>2 DEF Deliver
  <2>3. ASSUME NEW what \in {"chunk", "end", "failed"}, NEW number \in Nat,
               Queues(Message(what, f, number))
        PROVE  WireBounded'
    <3>1. Message(what, f, number) \in Texts
      BY <1>1, DownloadsAssumption DEF FromAgent, Message, Texts
    <3> QED
      BY <1>1, <2>1, <2>3, <3>1, QueuesBounded
  <2>4. ASSUME Queues(Message("ok", f, 0)), execution[f].at \in {"sending", "done"}
        PROVE  WireBounded'
    <3>1. Message("ok", f, 0) \in Texts
      BY <1>1, <2>4, DownloadsAssumption DEF FromAgent, Message, Texts
    <3> QED
      BY <1>1, <2>1, <2>4, <3>1, QueuesBounded
  <2>5. execution[f].next \in Nat
    BY <1>1 DEF FromAgent
  <2>6. CASE DeliverAgain(f)
    BY <2>3, <2>4, <2>6 DEF DeliverAgain
  <2>7. CASE sendChunk(f)
    <3>1. \/ Queues(Message("chunk", f, execution[f].next))
          \/ Queues(Message("end", f, execution[f].next)) \/ Queues(Message("ok", f, 0))
      BY <2>7 DEF sendChunk
    <3> QED
      BY <2>3, <2>4, <2>5, <2>7, <3>1 DEF sendChunk
  <2>8. CASE sendFailure(f)
    BY <2>3, <2>8 DEF sendFailure
  <2> QED
    BY <1>3, <2>2, <2>6, <2>7, <2>8
<1>4. ASSUME NEW lost \in 0 .. OutboxRoom, Break(lost) PROVE WireBounded'
  <2> DEFINE rest == SubSeq(wire, lost + 1, Len(wire))
  <2>1. lost <= Len(wire) /\ breaks' \in 0 .. MaxBreaks /\ home' \in DownloadReplicas
    BY <1>1, <1>4 DEF Break
  <2>2. rest \in Seq(Texts) /\ Len(rest) <= Len(wire) /\ Len(rest) \in Nat
    <3>1. lost + 1 \in 1 .. Len(wire) + 1 /\ Len(wire) \in lost + 1 - 1 .. Len(wire)
      BY <1>1, <2>1
    <3>2. rest \in Seq(Texts) /\ Len(rest) = Len(wire) - (lost + 1) + 1
      BY <1>1, <3>1, PartSet
    <3> QED
      BY <1>1, <2>1, <3>2
  <2>3. wire' \in {rest} \cup (IF rest = <<>> THEN {} ELSE {Append(Tail(rest), Head(rest))})
    BY <1>4 DEF Break
  <2> HIDE DEF rest
  <2>4. rest # <<>> => Len(Append(Tail(rest), Head(rest))) = Len(rest)
    <3>1. SUFFICES ASSUME rest # <<>> PROVE Len(Append(Tail(rest), Head(rest))) = Len(rest)
      OBVIOUS
    <3>2. Head(rest) \in Texts /\ Tail(rest) \in Seq(Texts) /\ Len(Tail(rest)) = Len(rest) - 1
      BY <2>2, <3>1, TailSet
    <3>3. Len(Append(Tail(rest), Head(rest))) = Len(Tail(rest)) + 1
      BY <3>2, AppendProperties
    <3> QED
      BY <2>2, <3>2, <3>3
  <2>5. Len(wire') = Len(rest)
    BY <2>3, <2>4
  <2> QED
    BY <1>1, <2>1, <2>2, <2>5
<1>5. ASSUME AgentRestarts PROVE WireBounded'
  <2>1. wire' = <<>> /\ home' = home /\ breaks' = breaks + 1 /\ breaks < MaxBreaks
    BY <1>5 DEF AgentRestarts
  <2>2. Len(wire') = 0 /\ breaks' \in 0 .. MaxBreaks
    BY <1>1, <2>1
  <2> QED
    BY <1>1, <2>1, <2>2
<1>6. ASSUME NEW r \in DownloadReplicas, onChunk(r) \/ onResult(r) PROVE WireBounded'
  <2>1. wire # <<>> /\ wire' = Tail(wire) /\ UNCHANGED <<home, breaks>>
    BY <1>6 DEF onChunk, onResult, Receives
  <2>2. Len(wire') = Len(wire) - 1
    BY <1>1, <2>1, TailSet
  <2> QED
    BY <1>1, <2>1, <2>2
<1>7. ASSUME NEW f \in Fetches, TimesOut(f) \/ \E r \in DownloadReplicas : expire(r, f)
      PROVE  WireBounded'
  BY <1>2, <1>7 DEF TimesOut, expire
<1>10. ASSUME NEW k \in FileKeys, purge(k) PROVE WireBounded'
  BY <1>2, <1>10 DEF purge
<1>8. ASSUME NEW r \in DownloadReplicas, put(r) \/ putFails(r) \/ Finished(r) PROVE WireBounded'
  BY <1>2, <1>8 DEF put, putFails, Finished
<1>9. CASE UNCHANGED downloadVars
  BY <1>2, <1>9 DEF downloadVars
<1> QED
  BY <1>3, <1>4, <1>5, <1>6, <1>7, <1>8, <1>9, <1>10 DEF DownloadsNext

LEMMA InitWireBounded ==
  ASSUME NEW before \in 0 .. MaxBreaks, DownloadsBegin(before)
  PROVE  WireBounded
  BY DownloadsAssumption DEF DownloadsBegin, WireBounded

HIDE DEF copies

-----------------------------------------------------------------------------
(***************************************************************************)
(* The components of MCStores together: a step is of one of them, and the  *)
(* others stay as they are, so the invariant of each is kept.              *)
(***************************************************************************)
StoresInv ==
  /\ AgentInv /\ CaTyped /\ CaInv /\ DownloadsInv /\ WireBounded
  /\ RewrapInv /\ OrganizationsInv

LEMMA InitStores == StoresInit => StoresInv
<1> SUFFICES ASSUME StoresInit PROVE StoresInv
  OBVIOUS
<1>1. Init /\ CaInit /\ RewrapInit /\ OrganizationsInit
  BY DEF StoresInit
<1>3. DownloadsInv /\ WireBounded
  <2>1. PICK before \in {0, MaxBreaks} : DownloadsBegin(before)
    BY DEF StoresInit
  <2>2. before \in 0 .. MaxBreaks
    BY DownloadsAssumption
  <2> QED
    BY <2>1, <2>2, InitDownloadsInv, InitWireBounded
<1>2. CaInv
  BY <1>1, InitCaInv
<1> QED
  BY <1>1, <1>2, <1>3, InitAgentInv, InitCaTyped, InitRewrapInv, InitOrganizationsInv DEF StoresInv

LEMMA NextStores ==
  ASSUME StoresInv, [StoresNext]_<<focus, vars, caVars, downloadVars, rewrapVars, organizationVars>>
  PROVE  StoresInv'
<1>1. /\ [Next]_vars /\ [CaNext]_caVars /\ [DownloadsNext]_downloadVars
      /\ [RewrapNext]_rewrapVars /\ [OrganizationsNext]_organizationVars
  BY DEF StoresNext, AgentRuns, CaRuns, DownloadsRun, KeysRotate, OrganizationsRun
<1> QED
  BY <1>1, NextAgentInv, NextCaTyped, NextCaInv, NextKeepsDownloadsInv, NextWireBounded,
     NextKeepsRewrapInv, NextKeepsOrganizationsInv DEF StoresInv

(***************************************************************************)
(* For any number of commands, goroutines, fetches, replicas, keys,        *)
(* members and authorities: the state of the agent, of the authorities, of *)
(* the downloads, of the keys and of the organization is of its type, and  *)
(* what is on the wire of the downloads within its bound.                  *)
(***************************************************************************)
THEOREM StoresTyped == StoresSpec => []StoresTypeOK
<1>1. ASSUME StoresInv PROVE StoresTypeOK
  <2>1. TypeOK /\ CaTypeOK /\ RewrapTypeOK /\ OrganizationsTypeOK
    BY <1>1, AgentInvMeans, CaTypedMeans DEF StoresInv, RewrapInv, OrganizationsInv
  <2>2. DownloadsTypeOK
    BY <1>1 DEF StoresInv, DownloadsTypeOK, DownloadsInv, Kept, FromAgent, WireBounded
  <2> QED
    BY <2>1, <2>2 DEF StoresTypeOK
<1> QED
  BY <1>1, InitStores, NextStores, PTL DEF StoresSpec
=============================================================================
