----------------------- MODULE InventoryAddsUpProofs -----------------------
(***************************************************************************)
(* Why the rows of the control plane and all that is on its way to them    *)
(* add up to the objects in the cluster, for any numbers of names,         *)
(* changes, streams, replicas and failed transactions and any sizes of the *)
(* batches, the queues and the outbox.                                     *)
(*                                                                         *)
(* From the cluster to the table: the events in the agent are in the order *)
(* of what happened (AgentInv); what changes while a listing is sent is    *)
(* told of by an event that is kept (CoversInv); the messages of a         *)
(* snapshot are taken in their order and each once (SessionInv, LineInv);  *)
(* so the rows they make, with the events that are pending, are right for  *)
(* the notices there are (SoundInv).                                       *)
(***************************************************************************)
EXTENDS InventoryProofs

-----------------------------------------------------------------------------
(***************************************************************************)
(* What a sequence of events makes of the rows.  The row of a name is what *)
(* the last UPSERT of that name left in it, or what was there before; and  *)
(* it is Gone if a later DELETE was of that object.                        *)
(***************************************************************************)
Events == Seq(ResourceEvent)

\* No events leave the rows as they are.
LEMMA NoEvents ==
  ASSUME NEW rows \in Tables
  PROVE  <<>> \in Events /\ Patched(rows, <<>>) = rows
<1>1. <<>> \in Events /\ Len(<<>>) = 0
  BY EmptySeq DEF Events
<1>2. PICK p : RowsThrough(p, rows, <<>>)
  BY <1>1, PatchedStepwise DEF Events
<1> QED
  BY <1>1, <1>2 DEF RowsThrough

\* Events after others: the rows are those of the first, patched with the second.
LEMMA PatchedThen ==
  ASSUME NEW rows \in Tables, NEW U \in Events, NEW V \in Events
  PROVE  /\ U \o V \in Events
         /\ Patched(rows, U \o V) = Patched(Patched(rows, U), V)
<1>1. /\ U \o V \in Events /\ Len(U) \in Nat /\ Len(V) \in Nat
      /\ Len(U \o V) = Len(U) + Len(V)
      /\ \A i \in 1 .. Len(U) : (U \o V)[i] = U[i]
      /\ \A i \in 1 .. Len(V) : (U \o V)[Len(U) + i] = V[i]
  BY ConcatProperties, LenProperties DEF Events
<1>2. PICK p : RowsThrough(p, rows, U \o V)
  BY <1>1, PatchedStepwise DEF Events
<1>3. PICK q : RowsThrough(q, rows, U)
  BY PatchedStepwise DEF Events
<1>4. PICK r : RowsThrough(r, Patched(rows, U), V)
  BY PatchedStepwise, PatchedType DEF Events
<1> DEFINE S == {i \in Nat : i <= Len(U) => p[i] = q[i]}
           T == {i \in Nat : i <= Len(V) => p[Len(U) + i] = r[i]}
<1>5. Len(U) \in S
  <2>1. 0 \in S
    BY <1>2, <1>3 DEF RowsThrough
  <2>2. ASSUME NEW i \in S PROVE i + 1 \in S
    <3>1. SUFFICES ASSUME i + 1 <= Len(U) PROVE p[i + 1] = q[i + 1]
      OBVIOUS
    <3>2. i + 1 \in 1 .. Len(U) /\ i + 1 \in 1 .. Len(U \o V) /\ (i + 1) - 1 = i /\ i <= Len(U)
      BY <1>1, <3>1
    <3>3. p[i + 1] = Applied(p[i], (U \o V)[i + 1]) /\ q[i + 1] = Applied(q[i], U[i + 1])
      BY <1>2, <1>3, <3>2 DEF RowsThrough
    <3>4. p[i] = q[i] /\ (U \o V)[i + 1] = U[i + 1]
      BY <1>1, <3>2
    <3> QED
      BY <3>3, <3>4
  <2>3. S \in SUBSET Nat
    OBVIOUS
  <2> HIDE DEF S
  <2> QED
    BY <1>1, <2>1, <2>2, <2>3, NumberInduction
<1>6. p[Len(U)] = r[0]
  BY <1>1, <1>3, <1>4, <1>5 DEF RowsThrough
<1>7. Len(V) \in T
  <2>1. 0 \in T
    BY <1>1, <1>6
  <2>2. ASSUME NEW i \in T PROVE i + 1 \in T
    <3>1. SUFFICES ASSUME i + 1 <= Len(V) PROVE p[Len(U) + (i + 1)] = r[i + 1]
      OBVIOUS
    <3>2. /\ i + 1 \in 1 .. Len(V) /\ Len(U) + (i + 1) \in 1 .. Len(U \o V) /\ (i + 1) - 1 = i
          /\ i <= Len(V) /\ Len(U) + (i + 1) - 1 = Len(U) + i
      BY <1>1, <3>1
    <3>3. r[i + 1] = Applied(r[i], V[i + 1])
      BY <1>4, <3>2 DEF RowsThrough
    <3>5. PICK k : k = Len(U) + (i + 1)
      OBVIOUS
    <3>6. p[k] = Applied(p[k - 1], (U \o V)[k])
      BY <1>2, <3>2, <3>5, Zenon DEF RowsThrough
    <3>7. k - 1 = Len(U) + i
      BY <3>2, <3>5
    <3>4. p[Len(U) + i] = r[i] /\ (U \o V)[Len(U) + (i + 1)] = V[i + 1]
      BY <1>1, <3>2
    <3> QED
      BY <3>3, <3>4, <3>5, <3>6, <3>7
  <2>3. T \in SUBSET Nat
    OBVIOUS
  <2> HIDE DEF T
  <2> QED
    BY <1>1, <2>1, <2>2, <2>3, NumberInduction
<1> QED
  BY <1>1, <1>2, <1>4, <1>7 DEF RowsThrough

\* A batch of one event applies it.
LEMMA OneEvent ==
  ASSUME NEW rows \in Tables, NEW e \in ResourceEvent
  PROVE  <<e>> \in Events /\ Patched(rows, <<e>>) = Applied(rows, e)
<1>1. <<e>> \in Events /\ Len(<<e>>) = 1 /\ <<e>>[1] = e
  BY DEF Events
<1>2. PICK p : RowsThrough(p, rows, <<e>>)
  BY <1>1, PatchedStepwise DEF Events
<1>3. 1 \in 1 .. Len(<<e>>) /\ 1 - 1 = 0
  BY <1>1
<1>4. p[1] = Applied(p[0], <<e>>[1])
  BY <1>2, <1>3 DEF RowsThrough
<1> QED
  BY <1>1, <1>2, <1>4 DEF RowsThrough

\* One event more is applied last.
LEMMA PatchedAppend ==
  ASSUME NEW rows \in Tables, NEW U \in Events, NEW e \in ResourceEvent
  PROVE  /\ Append(U, e) \in Events
         /\ Patched(rows, Append(U, e)) = Applied(Patched(rows, U), e)
<1>1. Append(U, e) = U \o <<e>>
  BY AppendIsConcat DEF Events
<1>2. Patched(rows, U) \in Tables
  BY PatchedType DEF Events
<1> QED
  BY <1>1, <1>2, OneEvent, PatchedThen

\* The first event of some is applied first.
LEMMA PatchedHead ==
  ASSUME NEW rows \in Tables, NEW U \in Events, U # <<>>
  PROVE  /\ Head(U) \in ResourceEvent /\ Tail(U) \in Events /\ U = <<Head(U)>> \o Tail(U)
         /\ Patched(rows, U) = Patched(Applied(rows, Head(U)), Tail(U))
<1>1. U \in Seq(ResourceEvent) /\ Len(U) \in Nat \ {0} /\ Head(U) = U[1]
  BY EmptySeq, HeadTailProperties DEF Events
<1>2. U = SubSeq(U, 1, Len(U)) /\ Tail(U) = SubSeq(U, 2, Len(U))
  BY <1>1, SubSeqFull, TailIsSubSeq
<1>3. 1 \in 1 .. Len(U) /\ Len(U) \in 1 .. Len(U) /\ 1 + 1 = 2
  BY <1>1
<1>4. SubSeq(U, 1, Len(U)) = <<U[1]>> \o SubSeq(U, 1 + 1, Len(U))
  BY <1>1, <1>3, SubSeqRecursiveFirst
<1>5. Head(U) \in ResourceEvent /\ Tail(U) \in Events
  BY HeadTailProperties DEF Events
<1>6. PICK e \in ResourceEvent, V \in Events : e = Head(U) /\ V = Tail(U)
  BY <1>5
<1>7. U = <<e>> \o V
  BY <1>1, <1>2, <1>3, <1>4, <1>6
<1>8. Patched(rows, U) = Patched(Patched(rows, <<e>>), V)
  BY <1>7, OneEvent, PatchedThen
<1>9. Patched(rows, U) = Patched(Applied(rows, e), V)
  BY <1>8, OneEvent
<1> QED
  BY <1>5, <1>6, <1>7, <1>9

(***************************************************************************)
(* Rows that are alike but for how they say that there is no object.       *)
(***************************************************************************)
Nothing == {NoObject, Gone}
Similar(x, y) == x = y \/ (x \in Nothing /\ y \in Nothing)

\* What one event makes of one row.
LEMMA AppliedAt ==
  ASSUME NEW rows \in Tables, NEW e \in ResourceEvent, NEW n \in Names
  PROVE  Applied(rows, e)[n] =
           IF e.name # n THEN rows[n]
           ELSE IF e.type = "UPSERT" THEN e.obj
           ELSE IF rows[n] \notin Nothing /\ rows[n].uid = e.obj.uid THEN Gone ELSE rows[n]
BY EventType DEF Applied, Tables, Nothing

\* Alike rows stay alike, whatever events are applied to both.
LEMMA PatchedSimilar ==
  ASSUME NEW n \in Names, NEW rows \in Tables, NEW others \in Tables, NEW U \in Events,
         Similar(rows[n], others[n])
  PROVE  Similar(Patched(rows, U)[n], Patched(others, U)[n])
<1>1. PICK p : RowsThrough(p, rows, U)
  BY PatchedStepwise DEF Events
<1>2. PICK q : RowsThrough(q, others, U)
  BY PatchedStepwise DEF Events
<1>3. Len(U) \in Nat
  BY LenProperties DEF Events
<1> DEFINE T == {i \in Nat : i <= Len(U) => Similar(p[i][n], q[i][n])}
<1>4. 0 \in T
  BY <1>1, <1>2 DEF RowsThrough
<1>5. ASSUME NEW i \in T PROVE i + 1 \in T
  <2>1. SUFFICES ASSUME i + 1 <= Len(U) PROVE Similar(p[i + 1][n], q[i + 1][n])
    OBVIOUS
  <2>2. i \in 0 .. Len(U) /\ i + 1 \in 1 .. Len(U) /\ (i + 1) - 1 = i
    BY <1>3, <2>1
  <2>3. PICK e \in ResourceEvent : e = U[i + 1]
    BY <2>2, <1>3, ElementOfSeq DEF Events
  <2>4. p[i] \in Tables /\ q[i] \in Tables /\ Similar(p[i][n], q[i][n])
        /\ p[i + 1] = Applied(p[i], e) /\ q[i + 1] = Applied(q[i], e)
    BY <1>1, <1>2, <2>2, <2>3 DEF RowsThrough
  <2> QED
    BY <2>4, AppliedAt DEF Similar, Nothing
<1>6. Len(U) \in T
  <2>1. T \in SUBSET Nat
    OBVIOUS
  <2> HIDE DEF T
  <2> QED
    BY <1>3, <1>4, <1>5, <2>1, NumberInduction
<1> QED
  BY <1>1, <1>2, <1>3, <1>6 DEF RowsThrough
-----------------------------------------------------------------------------
(***************************************************************************)
(* The events between the informers and the batches: p is pending and q    *)
(* the notices, w the world, r what is reported, s inSnapshot and c the    *)
(* changes so far.  Events come in the order things happened; an object    *)
(* that there is has been told of, and so has the end of one there is not. *)
(***************************************************************************)
Worlds == [Names -> Object \cup {NoObject}]

Now(w, n) == [type |-> "UPSERT", name |-> n, obj |-> w[n]]

IsNow(w, e) == w[e.name] # NoObject /\ w[e.name].uid = e.obj.uid

Deletes(d, e) == d.type = "DELETE" /\ KeyOf(d) = KeyOf(e)

DeletedLater(q, i) == \E j \in 1 .. Len(q) : j > i /\ Deletes(q[j], q[i])

Earlier(a, b) ==
  a.name = b.name =>
    /\ a.obj.uid <= b.obj.uid
    /\ a.type = "DELETE" => a.obj.uid < b.obj.uid
    /\ a.type = "UPSERT" /\ b.type = "UPSERT" => a.obj.rv < b.obj.rv

InTime(q) == \A i, j \in 1 .. Len(q) : i < j => Earlier(q[i], q[j])

InTurn(p, q) == InTime(p) /\ InTime(q) /\ \A a \in ToSet(p), b \in ToSet(q) : Earlier(a, b)

Past(w, c, e) ==
  /\ e.obj.uid <= c /\ e.obj.rv <= c
  /\ w[e.name] # NoObject =>
       /\ e.obj.uid <= w[e.name].uid
       /\ e.type = "UPSERT" => e.obj.rv <= w[e.name].rv
       /\ e.type = "DELETE" => e.obj.uid < w[e.name].uid

AllPast(p, q, w, c) ==
  /\ \A n \in Names : w[n] # NoObject => w[n].uid <= c /\ w[n].rv <= c
  /\ \A e \in ToSet(p) \cup ToSet(q) : Past(w, c, e)

\* The last notice of an object that there is tells how it is.
LastTells(q, w) ==
  \A i \in 1 .. Len(q) :
    w[q[i].name] # NoObject => \E j \in 1 .. Len(q) : j >= i /\ q[j] = Now(w, q[i].name)

EndTold(q, w) ==
  \A i \in 1 .. Len(q) : q[i].type = "UPSERT" => IsNow(w, q[i]) \/ DeletedLater(q, i)

\* A pending event that shows an object is reported until its end is told.
EndReported(p, q, w, r) ==
  \A i \in 1 .. Len(p) : p[i].type = "UPSERT" =>
    \/ DeletedLater(p, i)
    \/ KeyOf(p[i]) \in r /\ (IsNow(w, p[i]) \/ \E d \in ToSet(q) : Deletes(d, p[i]))

NowTold(p, q, w) ==
  \A e \in ToSet(p) : e.type = "UPSERT" /\ IsNow(w, e) => Now(w, e.name) \in ToSet(p) \cup ToSet(q)

\* What the snapshot shows is no longer so for an object with an event pending.
Apart(p, s, c) ==
  /\ \A it \in s : it[2].rv <= c
  /\ \A e \in ToSet(p), it \in s : objectKey(it) # KeyOf(e)

Agent(p, q, w, r, s, c) ==
  /\ InTurn(p, q) /\ AllPast(p, q, w, c) /\ LastTells(q, w) /\ EndTold(q, w)
  /\ EndReported(p, q, w, r) /\ NowTold(p, q, w) /\ Apart(p, s, c)

\* Event e happens.
Change(w, v, c, e) ==
  \/ /\ e.type = "UPSERT" /\ e.obj.rv = c + 1
     /\ e.obj.uid = (IF w[e.name] = NoObject THEN c + 1 ELSE w[e.name].uid)
     /\ v = [w EXCEPT ![e.name] = e.obj]
  \/ /\ e.type = "DELETE" /\ w[e.name] # NoObject /\ e.obj = w[e.name]
     /\ v = [w EXCEPT ![e.name] = NoObject]

\* What an event is made of.
LEMMA EventParts ==
  ASSUME NEW e \in ResourceEvent
  PROVE  /\ e.type \in {"UPSERT", "DELETE"} /\ e.name \in Names /\ e.obj \in Object
         /\ e.obj.uid \in Nat /\ e.obj.rv \in Nat /\ e.obj # NoObject
         /\ \A d : KeyOf(d) = KeyOf(e) <=> d.name = e.name /\ d.obj.uid = e.obj.uid
<1>1. \A d : KeyOf(d) = KeyOf(e) <=> d.name = e.name /\ d.obj.uid = e.obj.uid
  BY DEF KeyOf
<1>2. e.type \in {"UPSERT", "DELETE"} /\ e.name \in Names /\ e.obj \in Object
  BY EventType
<1>3. e.obj.uid \in Nat /\ e.obj.rv \in Nat
  BY <1>2 DEF Object
<1>4. e.obj # NoObject
  BY <1>2, InventoryAssumption
<1> QED
  BY <1>1, <1>2, <1>3, <1>4

\* What a change does to the objects there are.
LEMMA ChangeWorld ==
  ASSUME NEW w \in Worlds, NEW v, NEW c \in Nat, NEW e \in ResourceEvent, Change(w, v, c, e)
  PROVE  /\ v \in Worlds /\ \A n \in Names : n # e.name => v[n] = w[n]
         /\ e.type = "UPSERT" => v[e.name] = e.obj /\ e.obj.rv = c + 1
              /\ e.obj.uid = (IF w[e.name] = NoObject THEN c + 1 ELSE w[e.name].uid)
         /\ e.type = "DELETE" => v[e.name] = NoObject /\ w[e.name] = e.obj /\ w[e.name] # NoObject
<1>1. e.name \in Names /\ e.obj \in Object
  BY EventParts
<1> QED
  BY <1>1 DEF Change, Worlds

\* An object there is has an age and a version.
LEMMA WorldNumbers ==
  ASSUME NEW w \in Worlds, NEW n \in Names, w[n] # NoObject
  PROVE  w[n] \in Object /\ w[n].uid \in Nat /\ w[n].rv \in Nat
BY DEF Worlds, Object

\* What was past stays past, and is earlier than the change.
LEMMA ChangePast ==
  ASSUME NEW w \in Worlds, NEW v, NEW c \in Nat, NEW e \in ResourceEvent, Change(w, v, c, e),
         NEW x \in ResourceEvent, Past(w, c, x),
         \A n \in Names : w[n] # NoObject => w[n].uid <= c /\ w[n].rv <= c
  PROVE  Past(v, c + 1, x) /\ Earlier(x, e)
<1>1. /\ x.type \in {"UPSERT", "DELETE"} /\ x.name \in Names /\ x.obj.uid \in Nat /\ x.obj.rv \in Nat
      /\ e.type \in {"UPSERT", "DELETE"} /\ e.name \in Names /\ e.obj.uid \in Nat /\ e.obj.rv \in Nat
  BY EventParts
<1>2. CASE x.name # e.name
  <2>1. v[x.name] = w[x.name]
    BY <1>1, <1>2, ChangeWorld
  <2>2. x.obj.uid <= c + 1 /\ x.obj.rv <= c + 1
    BY <1>1 DEF Past
  <2> QED
    BY <1>2, <2>1, <2>2 DEF Past, Earlier
<1>3. CASE x.name = e.name
  <2>1. w[x.name] # NoObject =>
          w[x.name].uid \in Nat /\ w[x.name].rv \in Nat /\ w[x.name].uid <= c /\ w[x.name].rv <= c
    BY <1>1, WorldNumbers
  <2>2. CASE e.type = "UPSERT"
    <3>0. /\ v[e.name] = e.obj /\ e.obj.rv = c + 1
          /\ e.obj.uid = (IF w[e.name] = NoObject THEN c + 1 ELSE w[e.name].uid)
      BY <2>2, ChangeWorld
    <3>1. /\ v[x.name] = e.obj /\ e.obj.rv = c + 1
          /\ e.obj.uid = (IF w[x.name] = NoObject THEN c + 1 ELSE w[x.name].uid)
      BY <1>3, <3>0, Zenon
    <3>2. e.obj.uid \in Nat /\ x.obj.uid <= c /\ x.obj.rv <= c
      BY <1>1 DEF Past
    <3>3. CASE w[x.name] = NoObject
      <4>1. e.obj.uid = c + 1 /\ e.obj.rv = c + 1
        BY <3>1, <3>3
      <4>2. x.obj.uid < e.obj.uid /\ x.obj.rv < e.obj.rv /\ x.obj.uid <= c + 1 /\ x.obj.rv <= c + 1
        BY <1>1, <3>2, <4>1
      <4>3. x.obj.uid <= e.obj.uid /\ x.obj.rv <= e.obj.rv
        BY <1>1, <4>2
      <4> QED
        BY <3>1, <4>2, <4>3 DEF Past, Earlier
    <3>4. CASE w[x.name] # NoObject
      <4>1. e.obj.uid = w[x.name].uid /\ e.obj.rv = c + 1
        BY <3>1, <3>4
      <4>2. x.obj.uid <= e.obj.uid /\ (x.type = "DELETE" => x.obj.uid < e.obj.uid)
        BY <3>4, <4>1 DEF Past
      <4>3. x.obj.rv < e.obj.rv /\ x.obj.rv <= e.obj.rv /\ x.obj.uid <= c + 1 /\ x.obj.rv <= c + 1
        BY <1>1, <3>2, <4>1
      <4> QED
        BY <3>1, <4>2, <4>3 DEF Past, Earlier
    <3> QED
      BY <3>3, <3>4
  <2>3. CASE e.type = "DELETE"
    <3>0. v[e.name] = NoObject /\ w[e.name] = e.obj /\ w[e.name] # NoObject
      BY <2>3, ChangeWorld
    <3>1. v[x.name] = NoObject /\ w[x.name] = e.obj /\ w[x.name] # NoObject
      BY <1>3, <3>0, Zenon
    <3>2. x.obj.uid <= c + 1 /\ x.obj.rv <= c + 1
      BY <1>1 DEF Past
    <3>3. x.obj.uid <= e.obj.uid /\ (x.type = "DELETE" => x.obj.uid < e.obj.uid)
      BY <3>1 DEF Past
    <3>4. ~(e.type = "UPSERT")
      BY <2>3
    <3> QED
      BY <3>1, <3>2, <3>3, <3>4 DEF Past, Earlier
  <2> QED
    BY <1>1, <2>2, <2>3
<1> QED
  BY <1>2, <1>3

\* The place of what was appended.
LEMMA AppendAt ==
  ASSUME NEW q \in Events, NEW e \in ResourceEvent
  PROVE  /\ Append(q, e) \in Events /\ Len(q) \in Nat /\ Len(Append(q, e)) = Len(q) + 1
         /\ \A i \in 1 .. Len(q) : Append(q, e)[i] = q[i] /\ q[i] \in ResourceEvent /\ q[i] \in ToSet(q)
         /\ Append(q, e)[Len(q) + 1] = e
         /\ ToSet(Append(q, e)) = ToSet(q) \cup {e} /\ ToSet(q) \subseteq ResourceEvent
<1>1. \A i \in 1 .. Len(q) : q[i] \in ResourceEvent /\ q[i] \in ToSet(q)
  <2>1. ToSet(q) = {q[i] : i \in 1 .. Len(q)} /\ ToSet(q) \subseteq ResourceEvent
    BY Elements DEF Events
  <2> QED
    BY <2>1
<1> QED
  BY <1>1, AppendProperties, AppendSet, Elements, LenProperties DEF Events

\* The notice of a change comes after all there are.
LEMMA WorldInTurn ==
  ASSUME NEW p \in Events, NEW q \in Events, NEW e \in ResourceEvent, InTurn(p, q),
         \A x \in ToSet(p) \cup ToSet(q) : Earlier(x, e)
  PROVE  InTurn(p, Append(q, e))
<1>1. InTime(Append(q, e))
  <2> SUFFICES ASSUME NEW i \in 1 .. Len(Append(q, e)), NEW j \in 1 .. Len(Append(q, e)), i < j
               PROVE  Earlier(Append(q, e)[i], Append(q, e)[j])
    BY DEF InTime
  <2>1. i \in 1 .. Len(q) /\ (j \in 1 .. Len(q) \/ j = Len(q) + 1)
    BY AppendAt
  <2>2. Append(q, e)[i] = q[i] /\ q[i] \in ToSet(q)
    BY <2>1, AppendAt
  <2>3. CASE j \in 1 .. Len(q)
    <3>1. Append(q, e)[j] = q[j]
      BY <2>3, AppendAt
    <3>2. Earlier(q[i], q[j])
      BY <2>1, <2>3 DEF InTurn, InTime
    <3> QED
      BY <2>2, <3>1, <3>2
  <2>4. CASE j = Len(q) + 1
    <3>1. Append(q, e)[j] = e
      BY <2>4, AppendAt
    <3> QED
      BY <2>2, <3>1
  <2> QED
    BY <2>1, <2>3, <2>4
<1>2. ToSet(Append(q, e)) = ToSet(q) \cup {e}
  BY AppendAt
<1> QED
  BY <1>1, <1>2 DEF InTurn

\* A change and its notice keep the order of the events.
LEMMA WorldAgent ==
  ASSUME NEW p \in Events, NEW q \in Events, NEW w \in Worlds, NEW r, NEW s, s \subseteq Item,
         NEW c \in Nat, NEW v, NEW e \in ResourceEvent,
         Agent(p, q, w, r, s, c), Change(w, v, c, e)
  PROVE  Agent(p, Append(q, e), v, r, s, c + 1)
<1>1. /\ e.type \in {"UPSERT", "DELETE"} /\ e.name \in Names /\ e.obj.uid \in Nat /\ e.obj.rv \in Nat
      /\ e.obj # NoObject
  BY EventParts
<1>2. /\ v \in Worlds /\ \A n \in Names : n # e.name => v[n] = w[n]
      /\ e.type = "UPSERT" => v[e.name] = e.obj /\ e.obj.rv = c + 1
           /\ e.obj.uid = (IF w[e.name] = NoObject THEN c + 1 ELSE w[e.name].uid)
      /\ e.type = "DELETE" => v[e.name] = NoObject /\ w[e.name] = e.obj /\ w[e.name] # NoObject
  BY ChangeWorld
<1>3. /\ Len(q) \in Nat /\ Len(Append(q, e)) = Len(q) + 1 /\ Append(q, e) \in Events
      /\ Append(q, e)[Len(q) + 1] = e /\ ToSet(Append(q, e)) = ToSet(q) \cup {e}
      /\ \A i \in 1 .. Len(q) : Append(q, e)[i] = q[i] /\ q[i] \in ResourceEvent /\ q[i] \in ToSet(q)
  BY AppendAt
<1>4. ToSet(p) \subseteq ResourceEvent /\ ToSet(q) \subseteq ResourceEvent
  BY Elements DEF Events
<1>5. \A x \in ToSet(p) \cup ToSet(q) : Past(v, c + 1, x) /\ Earlier(x, e)
  <2> SUFFICES ASSUME NEW x \in ToSet(p) \cup ToSet(q) PROVE Past(v, c + 1, x) /\ Earlier(x, e)
    OBVIOUS
  <2>1. x \in ResourceEvent /\ Past(w, c, x)
        /\ \A n \in Names : w[n] # NoObject => w[n].uid <= c /\ w[n].rv <= c
    BY <1>4 DEF Agent, AllPast
  <2> QED
    BY <2>1, ChangePast
<1>6. InTurn(p, Append(q, e))
  BY <1>5, WorldInTurn DEF Agent
<1>7. \A n \in Names : v[n] # NoObject => v[n].uid <= c + 1 /\ v[n].rv <= c + 1
  <2> SUFFICES ASSUME NEW n \in Names, v[n] # NoObject PROVE v[n].uid <= c + 1 /\ v[n].rv <= c + 1
    OBVIOUS
  <2>1. w[n] # NoObject => w[n].uid \in Nat /\ w[n].rv \in Nat /\ w[n].uid <= c /\ w[n].rv <= c
    BY WorldNumbers DEF Agent, AllPast
  <2>2. CASE n # e.name
    BY <1>2, <2>1, <2>2
  <2>3. CASE n = e.name
    BY <1>1, <1>2, <2>1, <2>3
  <2> QED
    BY <2>2, <2>3
<1>8. AllPast(p, Append(q, e), v, c + 1)
  <2>1. Past(v, c + 1, e)
    <3>1. CASE e.type = "UPSERT"
      BY <1>1, <1>2, <1>7, <3>1 DEF Past
    <3>2. CASE e.type = "DELETE"
      <4>1. e.obj.uid <= c /\ e.obj.rv <= c
        BY <1>1, <1>2, <3>2 DEF Agent, AllPast
      <4> QED
        BY <1>1, <1>2, <3>2, <4>1 DEF Past
    <3> QED
      BY <1>1, <3>1, <3>2
  <2> QED
    BY <1>3, <1>5, <1>7, <2>1 DEF AllPast
\* Who is now was now, or is told of by e; who was is still, or its end is told by e.
<1>9. ASSUME NEW x \in ResourceEvent, IsNow(w, x), x.type = "UPSERT"
      PROVE  IsNow(v, x) \/ Deletes(e, x)
  <2>1. x.name \in Names /\ x.obj.uid \in Nat
    BY EventParts
  <2>2. CASE x.name # e.name
    BY <1>2, <1>9, <2>1, <2>2 DEF IsNow
  <2>3. CASE x.name = e.name
    BY <1>1, <1>2, <1>9, <2>1, <2>3 DEF IsNow, Deletes, KeyOf
  <2> QED
    BY <2>2, <2>3
<1>10. LastTells(Append(q, e), v)
  <2> SUFFICES ASSUME NEW i \in 1 .. Len(q) + 1, v[Append(q, e)[i].name] # NoObject
               PROVE  \E j \in 1 .. Len(q) + 1 :
                        j >= i /\ Append(q, e)[j] = Now(v, Append(q, e)[i].name)
    BY <1>3 DEF LastTells
  <2>1. i \in 1 .. Len(q) \/ i = Len(q) + 1
    BY <1>3
  <2>2. Append(q, e)[i] \in ResourceEvent
    BY <1>3, <2>1
  <2>3. PICK n \in Names : n = Append(q, e)[i].name
    BY <2>2, EventParts
  <2>4. CASE n = e.name
    <3>1. e.type = "UPSERT" /\ v[n] = e.obj
      BY <1>1, <1>2, <2>3, <2>4
    <3>2. e = [type |-> "UPSERT", name |-> n, obj |-> v[n]]
      BY <2>4, <3>1 DEF ResourceEvent
    <3>3. Len(q) + 1 \in 1 .. Len(q) + 1 /\ Len(q) + 1 >= i
      BY <1>3
    <3> QED
      BY <1>3, <2>3, <3>2, <3>3 DEF Now
  <2>5. CASE n # e.name
    <3>1. i \in 1 .. Len(q) /\ Append(q, e)[i] = q[i]
      BY <1>3, <2>1, <2>3, <2>5
    <3>2. v[n] = w[n]
      BY <1>2, <2>5
    <3>3. PICK j \in 1 .. Len(q) : j >= i /\ q[j] = Now(w, n)
      BY <2>3, <3>1, <3>2 DEF Agent, LastTells
    <3>4. j \in 1 .. Len(q) + 1 /\ Append(q, e)[j] = q[j]
      BY <1>3
    <3> QED
      BY <2>3, <3>2, <3>3, <3>4 DEF Now
  <2> QED
    BY <2>4, <2>5
<1>11. ASSUME NEW i \in 1 .. Len(q), DeletedLater(q, i) PROVE DeletedLater(Append(q, e), i)
  <2>1. PICK j \in 1 .. Len(q) : j > i /\ Deletes(q[j], q[i])
    BY <1>11 DEF DeletedLater
  <2>2. j \in 1 .. Len(Append(q, e)) /\ Append(q, e)[j] = q[j] /\ Append(q, e)[i] = q[i]
    BY <1>3
  <2> QED
    BY <2>1, <2>2 DEF DeletedLater
<1>12. EndTold(Append(q, e), v)
  <2> SUFFICES ASSUME NEW i \in 1 .. Len(q) + 1, Append(q, e)[i].type = "UPSERT"
               PROVE  IsNow(v, Append(q, e)[i]) \/ DeletedLater(Append(q, e), i)
    BY <1>3 DEF EndTold
  <2>1. i \in 1 .. Len(q) \/ i = Len(q) + 1
    BY <1>3
  <2>2. CASE i = Len(q) + 1
    <3>1. Append(q, e)[i] = e
      BY <1>3, <2>2
    <3> QED
      BY <1>1, <1>2, <3>1 DEF IsNow
  <2>3. CASE i \in 1 .. Len(q)
    <3>1. Append(q, e)[i] = q[i] /\ q[i] \in ResourceEvent
      BY <1>3, <2>3
    <3>2. IsNow(w, q[i]) \/ DeletedLater(q, i)
      BY <2>3, <3>1 DEF Agent, EndTold
    <3>3. CASE DeletedLater(q, i)
      BY <1>11, <2>3, <3>3
    <3>4. CASE IsNow(w, q[i])
      <4>1. IsNow(v, q[i]) \/ Deletes(e, q[i])
        BY <1>9, <3>1, <3>4
      <4>2. CASE Deletes(e, q[i])
        <5>1. Len(q) + 1 \in 1 .. Len(Append(q, e)) /\ Len(q) + 1 > i
          BY <1>3, <2>3
        <5> QED
          BY <1>3, <3>1, <4>2, <5>1 DEF DeletedLater
      <4> QED
        BY <3>1, <4>1, <4>2
    <3> QED
      BY <3>2, <3>3, <3>4
  <2> QED
    BY <2>1, <2>2, <2>3
<1>13. EndReported(p, Append(q, e), v, r)
  <2> SUFFICES ASSUME NEW i \in 1 .. Len(p), p[i].type = "UPSERT", ~DeletedLater(p, i)
               PROVE  KeyOf(p[i]) \in r
                        /\ (IsNow(v, p[i]) \/ \E d \in ToSet(Append(q, e)) : Deletes(d, p[i]))
    BY DEF EndReported
  <2>1. p[i] \in ResourceEvent
    BY ElementOfSeq DEF Events
  <2>2. KeyOf(p[i]) \in r /\ (IsNow(w, p[i]) \/ \E d \in ToSet(q) : Deletes(d, p[i]))
    BY DEF Agent, EndReported
  <2>3. IsNow(w, p[i]) => IsNow(v, p[i]) \/ Deletes(e, p[i])
    BY <1>9, <2>1
  <2> QED
    BY <1>3, <2>2, <2>3
<1>14. NowTold(p, Append(q, e), v)
  <2> SUFFICES ASSUME NEW x \in ToSet(p), x.type = "UPSERT", IsNow(v, x)
               PROVE  Now(v, x.name) \in ToSet(p) \cup ToSet(Append(q, e))
    BY DEF NowTold
  <2>1. x \in ResourceEvent /\ x.name \in Names
    BY <1>4, EventParts
  <2>2. CASE x.name = e.name
    <3>1. e.type = "UPSERT" /\ v[x.name] = e.obj
      BY <1>1, <1>2, <2>2 DEF IsNow
    <3>2. e = [type |-> "UPSERT", name |-> x.name, obj |-> v[x.name]]
      BY <2>2, <3>1 DEF ResourceEvent
    <3> QED
      BY <1>3, <3>2 DEF Now
  <2>3. CASE x.name # e.name
    <3>1. v[x.name] = w[x.name]
      BY <1>2, <2>1, <2>3
    <3>2. Now(w, x.name) \in ToSet(p) \cup ToSet(q)
      BY <3>1 DEF Agent, NowTold, IsNow
    <3> QED
      BY <1>3, <3>1, <3>2 DEF Now
  <2> QED
    BY <2>2, <2>3
<1>15. Apart(p, s, c + 1)
  <2>1. ASSUME NEW it \in s PROVE it[2].rv <= c + 1
    <3>1. it[2].rv <= c /\ it[2].rv \in Nat
      BY DEF Agent, Apart, Item, Object
    <3> QED
      BY <3>1
  <2> QED
    BY <2>1 DEF Agent, Apart
<1> QED
  BY <1>6, <1>8, <1>10, <1>12, <1>13, <1>14, <1>15 DEF Agent
-----------------------------------------------------------------------------
\* The handler takes the first notice.
LEMMA TailAt ==
  ASSUME NEW q \in Events, q # <<>>
  PROVE  /\ Tail(q) \in Events /\ Len(q) \in Nat /\ Len(q) >= 1 /\ Len(Tail(q)) = Len(q) - 1
         /\ \A i \in 1 .. Len(q) - 1 : Tail(q)[i] = q[i + 1] /\ i + 1 \in 1 .. Len(q)
         /\ Head(q) = q[1] /\ Head(q) \in ResourceEvent /\ Head(q) \in ToSet(q)
         /\ ToSet(q) = {Head(q)} \cup ToSet(Tail(q))
<1>1. /\ Tail(q) \in Events /\ Len(q) \in Nat /\ Len(q) >= 1 /\ Len(Tail(q)) = Len(q) - 1
      /\ \A i \in 1 .. Len(q) - 1 : Tail(q)[i] = q[i + 1]
      /\ Head(q) = q[1] /\ Head(q) \in ResourceEvent /\ Head(q) \in ToSet(q)
      /\ ToSet(Tail(q)) \subseteq ToSet(q)
  BY TailSet, LenProperties DEF Events
<1>2. ToSet(q) \subseteq {Head(q)} \cup ToSet(Tail(q))
  <2> SUFFICES ASSUME NEW i \in 1 .. Len(q), i # 1 PROVE q[i] \in ToSet(Tail(q))
    <3>1. ToSet(q) = {q[i] : i \in 1 .. Len(q)}
      BY Elements DEF Events
    <3> QED
      BY <1>1, <3>1
  <2>1. i - 1 \in 1 .. Len(q) - 1 /\ (i - 1) + 1 = i
    BY <1>1
  <2>2. Tail(q)[i - 1] = q[i]
    BY <1>1, <2>1
  <2>3. ToSet(Tail(q)) = {Tail(q)[j] : j \in 1 .. Len(q) - 1}
    BY <1>1, Elements DEF Events
  <2> QED
    BY <2>1, <2>2, <2>3
<1>3. \A i \in 1 .. Len(q) - 1 : i + 1 \in 1 .. Len(q)
  BY <1>1
<1> QED
  BY <1>1, <1>2, <1>3

\* What the first notice says is so, or a later one takes it back.
LEMMA HeadTold ==
  ASSUME NEW q \in Events, q # <<>>, NEW w \in Worlds, InTime(q), LastTells(q, w), EndTold(q, w)
  PROVE  /\ InTime(Tail(q)) /\ LastTells(Tail(q), w) /\ EndTold(Tail(q), w)
         /\ \A b \in ToSet(Tail(q)) : Earlier(Head(q), b)
         /\ w[Head(q).name] # NoObject => Now(w, Head(q).name) \in ToSet(q)
         /\ Head(q).type = "UPSERT" =>
              IsNow(w, Head(q)) \/ \E d \in ToSet(Tail(q)) : Deletes(d, Head(q))
<1>1. /\ Tail(q) \in Events /\ Len(q) \in Nat /\ Len(q) >= 1 /\ Len(Tail(q)) = Len(q) - 1
      /\ \A i \in 1 .. Len(q) - 1 : Tail(q)[i] = q[i + 1] /\ i + 1 \in 1 .. Len(q)
      /\ Head(q) = q[1]
  BY TailAt
<1>2. ToSet(Tail(q)) = {Tail(q)[i] : i \in 1 .. Len(q) - 1} /\ ToSet(q) = {q[i] : i \in 1 .. Len(q)}
  BY <1>1, Elements DEF Events
<1>3. \A j \in 1 .. Len(q) : j > 1 => j - 1 \in 1 .. Len(q) - 1 /\ q[j] = Tail(q)[j - 1]
  <2> SUFFICES ASSUME NEW j \in 1 .. Len(q), j > 1
               PROVE  j - 1 \in 1 .. Len(q) - 1 /\ q[j] = Tail(q)[j - 1]
    OBVIOUS
  <2>1. j - 1 \in 1 .. Len(q) - 1 /\ (j - 1) + 1 = j
    BY <1>1
  <2> QED
    BY <1>1, <2>1
<1>4. InTime(Tail(q))
  <2> SUFFICES ASSUME NEW i \in 1 .. Len(q) - 1, NEW j \in 1 .. Len(q) - 1, i < j
               PROVE  Earlier(Tail(q)[i], Tail(q)[j])
    BY <1>1 DEF InTime
  <2>1. i + 1 \in 1 .. Len(q) /\ j + 1 \in 1 .. Len(q) /\ i + 1 < j + 1
    BY <1>1
  <2>2. Earlier(q[i + 1], q[j + 1])
    BY <2>1 DEF InTime
  <2> QED
    BY <1>1, <2>2
<1>5. LastTells(Tail(q), w)
  <2> SUFFICES ASSUME NEW i \in 1 .. Len(q) - 1, w[Tail(q)[i].name] # NoObject
               PROVE  \E j \in 1 .. Len(q) - 1 : j >= i /\ Tail(q)[j] = Now(w, Tail(q)[i].name)
    BY <1>1 DEF LastTells
  <2>1. i + 1 \in 1 .. Len(q) /\ Tail(q)[i] = q[i + 1]
    BY <1>1
  <2>2. PICK j \in 1 .. Len(q) : j >= i + 1 /\ q[j] = Now(w, q[i + 1].name)
    BY <2>1 DEF LastTells
  <2>3. j > 1 /\ j - 1 >= i
    BY <1>1, <2>2
  <2> QED
    BY <1>3, <2>1, <2>2, <2>3
<1>6. EndTold(Tail(q), w)
  <2> SUFFICES ASSUME NEW i \in 1 .. Len(q) - 1, Tail(q)[i].type = "UPSERT", ~IsNow(w, Tail(q)[i])
               PROVE  \E j \in 1 .. Len(q) - 1 : j > i /\ Deletes(Tail(q)[j], Tail(q)[i])
    BY <1>1 DEF EndTold, DeletedLater
  <2>1. i + 1 \in 1 .. Len(q) /\ Tail(q)[i] = q[i + 1]
    BY <1>1
  <2>2. PICK j \in 1 .. Len(q) : j > i + 1 /\ Deletes(q[j], q[i + 1])
    BY <2>1 DEF EndTold, DeletedLater
  <2>3. j > 1 /\ j - 1 > i
    BY <1>1, <2>2
  <2> QED
    BY <1>3, <2>1, <2>2, <2>3
<1>7. \A b \in ToSet(Tail(q)) : Earlier(Head(q), b)
  <2> SUFFICES ASSUME NEW i \in 1 .. Len(q) - 1 PROVE Earlier(Head(q), Tail(q)[i])
    BY <1>2
  <2>1. 1 \in 1 .. Len(q) /\ i + 1 \in 1 .. Len(q) /\ 1 < i + 1
    BY <1>1
  <2>2. Earlier(q[1], q[i + 1])
    BY <2>1 DEF InTime
  <2> QED
    BY <1>1, <2>2
<1>8. 1 \in 1 .. Len(q)
  BY <1>1
<1>9. w[Head(q).name] # NoObject => Now(w, Head(q).name) \in ToSet(q)
  BY <1>1, <1>2, <1>8 DEF LastTells
<1>10. Head(q).type = "UPSERT" =>
         IsNow(w, Head(q)) \/ \E d \in ToSet(Tail(q)) : Deletes(d, Head(q))
  <2> SUFFICES ASSUME q[1].type = "UPSERT", ~IsNow(w, q[1])
               PROVE  \E d \in ToSet(Tail(q)) : Deletes(d, q[1])
    BY <1>1
  <2>1. PICK j \in 1 .. Len(q) : j > 1 /\ Deletes(q[j], q[1])
    BY <1>8 DEF EndTold, DeletedLater
  <2>2. q[j] \in ToSet(Tail(q))
    BY <1>2, <1>3, <2>1
  <2> QED
    BY <2>1, <2>2
<1> QED
  BY <1>4, <1>5, <1>6, <1>7, <1>9, <1>10

\* The parts of a shorter queue of notices.
LEMMA TailAgent ==
  ASSUME NEW p \in Events, NEW q \in Events, q # <<>>, NEW w \in Worlds, NEW r, NEW s, NEW c \in Nat,
         Agent(p, q, w, r, s, c)
  PROVE  /\ InTurn(p, Tail(q)) /\ AllPast(p, Tail(q), w, c)
         /\ LastTells(Tail(q), w) /\ EndTold(Tail(q), w)
<1>1. ToSet(Tail(q)) \subseteq ToSet(q)
  BY TailAt
<1> QED
  BY <1>1, HeadTold DEF Agent, InTurn, AllPast

\* An event that is ignored: what p is about, it is not about.
LEMMA IgnoreAgent ==
  ASSUME NEW p \in Events, NEW q \in Events, q # <<>>, NEW w \in Worlds, NEW r, NEW s, NEW c \in Nat,
         Agent(p, q, w, r, s, c),
         \/ p = <<>>
         \/ Head(q).type = "DELETE" /\ KeyOf(Head(q)) \notin r
         \/ Head(q).type = "UPSERT" /\ ItemOf(Head(q)) \in s
  PROVE  Agent(p, Tail(q), w, r, s, c)
<1>1. /\ Head(q) \in ResourceEvent /\ ToSet(q) = {Head(q)} \cup ToSet(Tail(q))
  BY TailAt
<1>2. EndReported(p, Tail(q), w, r)
  <2> SUFFICES ASSUME NEW i \in 1 .. Len(p), p[i].type = "UPSERT", ~DeletedLater(p, i)
               PROVE  KeyOf(p[i]) \in r
                        /\ (IsNow(w, p[i]) \/ \E d \in ToSet(Tail(q)) : Deletes(d, p[i]))
    BY DEF EndReported
  <2>1. KeyOf(p[i]) \in r /\ (IsNow(w, p[i]) \/ \E d \in ToSet(q) : Deletes(d, p[i]))
    BY DEF Agent, EndReported
  <2>2. p # <<>>
    BY EmptySeq
  <2>3. ~Deletes(Head(q), p[i])
    BY <2>1, <2>2 DEF Deletes
  <2> QED
    BY <1>1, <2>1, <2>3
<1>3. NowTold(p, Tail(q), w)
  <2> SUFFICES ASSUME NEW x \in ToSet(p), x.type = "UPSERT", IsNow(w, x)
               PROVE  Now(w, x.name) \in ToSet(p) \cup ToSet(Tail(q))
    BY DEF NowTold
  <2>1. Now(w, x.name) \in ToSet(p) \cup ToSet(q)
    BY DEF Agent, NowTold
  <2>2. p # <<>>
    BY EmptySet
  <2>3. Now(w, x.name) # Head(q)
    <3>1. SUFFICES ASSUME Head(q) = Now(w, x.name) PROVE FALSE
      OBVIOUS
    <3>2. /\ Head(q).type = "UPSERT" /\ KeyOf(Head(q)) = KeyOf(x)
          /\ ItemOf(Head(q)) = <<x.name, w[x.name]>>
      BY <3>1 DEF Now, KeyOf, ItemOf, IsNow
    <3>3. ItemOf(Head(q)) \in s
      BY <2>2, <3>2
    <3>4. objectKey(ItemOf(Head(q))) = KeyOf(x)
      BY <3>2 DEF objectKey, KeyOf, IsNow
    <3> QED
      BY <3>3, <3>4 DEF Agent, Apart
  <2> QED
    BY <1>1, <2>1, <2>3
<1> QED
  BY <1>2, <1>3, TailAgent DEF Agent

\* A queue that is dropped.
LEMMA ClearAgent ==
  ASSUME NEW p \in Events, NEW q \in Events, NEW w \in Worlds, NEW r, NEW s, NEW c \in Nat,
         NEW r2, NEW s2, s2 \subseteq s, Agent(p, q, w, r, s, c)
  PROVE  <<>> \in Events /\ Agent(<<>>, q, w, r2, s2, c)
<1>1. <<>> \in Events /\ ToSet(<<>>) = {} /\ Len(<<>>) = 0 /\ 1 .. 0 = {}
  BY EmptySet, EmptySeq DEF Events
<1> QED
  BY <1>1 DEF Agent, InTurn, InTime, AllPast, EndReported, NowTold, Apart

\* The first notice joins the pending events.
LEMMA EnqueueAgent ==
  ASSUME NEW p \in Events, NEW q \in Events, q # <<>>, NEW w \in Worlds, NEW r, NEW s, NEW c \in Nat,
         s \subseteq Item, Agent(p, q, w, r, s, c), NEW e \in ResourceEvent, e = Head(q),
         NEW r2, r2 = (IF e.type = "DELETE" THEN r \ {KeyOf(e)} ELSE r \cup {KeyOf(e)})
  PROVE  Agent(Append(p, e), Tail(q), w, r2, Forget(s, e), c)
<1>1. e \in ToSet(q) /\ ToSet(q) = {e} \cup ToSet(Tail(q)) /\ Tail(q) \in Events
  BY TailAt
<1>2. e.type \in {"UPSERT", "DELETE"}
  BY EventParts
<1>3. /\ Len(p) \in Nat /\ Len(Append(p, e)) = Len(p) + 1 /\ Append(p, e) \in Events
      /\ Append(p, e)[Len(p) + 1] = e /\ ToSet(Append(p, e)) = ToSet(p) \cup {e}
      /\ \A i \in 1 .. Len(p) : Append(p, e)[i] = p[i] /\ p[i] \in ResourceEvent /\ p[i] \in ToSet(p)
  BY AppendAt
<1>4. /\ InTime(Tail(q)) /\ LastTells(Tail(q), w) /\ EndTold(Tail(q), w)
      /\ \A b \in ToSet(Tail(q)) : Earlier(e, b)
      /\ w[e.name] # NoObject => Now(w, e.name) \in ToSet(q)
      /\ e.type = "UPSERT" => IsNow(w, e) \/ \E d \in ToSet(Tail(q)) : Deletes(d, e)
  BY HeadTold DEF Agent, InTurn
<1>5. InTurn(Append(p, e), Tail(q))
  <2>1. InTime(Append(p, e))
    <3>1. \A x \in ToSet(p) \cup ToSet(<<>>) : Earlier(x, e)
      BY <1>1, EmptySet DEF Agent, InTurn
    <3> SUFFICES ASSUME NEW i \in 1 .. Len(p) + 1, NEW j \in 1 .. Len(p) + 1, i < j
                 PROVE  Earlier(Append(p, e)[i], Append(p, e)[j])
      BY <1>3 DEF InTime
    <3>2. i \in 1 .. Len(p) /\ (j \in 1 .. Len(p) \/ j = Len(p) + 1)
      BY <1>3
    <3>3. CASE j = Len(p) + 1
      BY <1>3, <3>1, <3>2, <3>3
    <3>4. CASE j \in 1 .. Len(p)
      <4>1. Earlier(p[i], p[j])
        BY <3>2, <3>4 DEF Agent, InTurn, InTime
      <4> QED
        BY <1>3, <3>2, <3>4, <4>1
    <3> QED
      BY <3>2, <3>3, <3>4
  <2> QED
    BY <1>1, <1>3, <1>4, <2>1 DEF Agent, InTurn
<1>6. AllPast(Append(p, e), Tail(q), w, c)
  BY <1>1, <1>3 DEF Agent, AllPast
<1>7. EndReported(Append(p, e), Tail(q), w, r2)
  <2> SUFFICES ASSUME NEW i \in 1 .. Len(p) + 1, Append(p, e)[i].type = "UPSERT",
                      ~DeletedLater(Append(p, e), i)
               PROVE  /\ KeyOf(Append(p, e)[i]) \in r2
                      /\ \/ IsNow(w, Append(p, e)[i])
                         \/ \E d \in ToSet(Tail(q)) : Deletes(d, Append(p, e)[i])
    BY <1>3 DEF EndReported
  <2>1. i \in 1 .. Len(p) \/ i = Len(p) + 1
    BY <1>3
  <2>2. CASE i = Len(p) + 1
    <3>1. Append(p, e)[i] = e
      BY <1>3, <2>2
    <3>2. e.type # "DELETE"
      BY <3>1
    <3> QED
      BY <1>4, <3>1, <3>2
  <2>3. CASE i \in 1 .. Len(p)
    <3>1. Append(p, e)[i] = p[i]
      BY <1>3, <2>3
    <3>2. ~Deletes(e, p[i])
      <4>1. Len(p) + 1 \in 1 .. Len(Append(p, e)) /\ Len(p) + 1 > i
        BY <1>3, <2>3
      <4> QED
        BY <1>3, <3>1, <4>1 DEF DeletedLater
    <3>3. ~DeletedLater(p, i)
      <4>1. SUFFICES ASSUME NEW j \in 1 .. Len(p), j > i, Deletes(p[j], p[i]) PROVE FALSE
        BY DEF DeletedLater
      <4>2. j \in 1 .. Len(Append(p, e)) /\ Append(p, e)[j] = p[j]
        BY <1>3
      <4> QED
        BY <3>1, <4>1, <4>2 DEF DeletedLater
    <3>4. KeyOf(p[i]) \in r /\ (IsNow(w, p[i]) \/ \E d \in ToSet(q) : Deletes(d, p[i]))
      BY <2>3, <3>1, <3>3 DEF Agent, EndReported
    <3>5. KeyOf(p[i]) \in r2
      BY <3>2, <3>4 DEF Deletes
    <3> QED
      BY <1>1, <3>1, <3>2, <3>4, <3>5
  <2> QED
    BY <2>1, <2>2, <2>3
<1>8. NowTold(Append(p, e), Tail(q), w)
  <2> SUFFICES ASSUME NEW x \in ToSet(p) \cup {e}, x.type = "UPSERT", IsNow(w, x)
               PROVE  Now(w, x.name) \in (ToSet(p) \cup {e}) \cup ToSet(Tail(q))
    BY <1>3 DEF NowTold
  <2>1. CASE x = e
    BY <1>1, <1>4, <2>1 DEF IsNow
  <2>2. CASE x \in ToSet(p)
    BY <1>1, <2>2 DEF Agent, NowTold
  <2> QED
    BY <2>1, <2>2
<1>9. Apart(Append(p, e), Forget(s, e), c)
  BY <1>3 DEF Agent, Apart, Forget
<1> QED
  BY <1>4, <1>5, <1>6, <1>7, <1>8, <1>9 DEF Agent

-----------------------------------------------------------------------------
\* Events of p in their order: with one of an object, all later ones of it.
Thinned(t, p) ==
  \E f \in [1 .. Len(t) -> 1 .. Len(p)] :
    /\ Increasing(f) /\ \A i \in 1 .. Len(t) : t[i] = p[f[i]]
    /\ \A i \in 1 .. Len(t), j \in 1 .. Len(p) :
         f[i] <= j /\ KeyOf(p[j]) = KeyOf(p[f[i]]) => \E k \in 1 .. Len(t) : f[k] = j

\* Thinned events are some of those there were, in order, the last of each object among them.
LEMMA ThinnedMeans ==
  ASSUME NEW t \in Events, NEW p \in Events, Thinned(t, p)
  PROVE  /\ ToSet(t) \subseteq ToSet(p)
         /\ InTime(p) => InTime(t)
         /\ \A i \in 1 .. Len(t) : \E m \in 1 .. Len(p) :
              /\ p[m] = t[i]
              /\ \A j \in 1 .. Len(p) : j > m /\ KeyOf(p[j]) = KeyOf(t[i]) =>
                   \E k \in 1 .. Len(t) : k > i /\ t[k] = p[j]
<1>1. PICK f \in [1 .. Len(t) -> 1 .. Len(p)] :
        /\ Increasing(f) /\ \A i \in 1 .. Len(t) : t[i] = p[f[i]]
        /\ \A i \in 1 .. Len(t), j \in 1 .. Len(p) :
             f[i] <= j /\ KeyOf(p[j]) = KeyOf(p[f[i]]) => \E k \in 1 .. Len(t) : f[k] = j
  BY DEF Thinned
<1>2. /\ Len(t) \in Nat /\ Len(p) \in Nat
      /\ ToSet(t) = {t[i] : i \in 1 .. Len(t)} /\ ToSet(p) = {p[i] : i \in 1 .. Len(p)}
  BY Elements DEF Events
<1>3. \A i, j \in 1 .. Len(t) : i < j => f[i] < f[j]
  <2>1. DOMAIN f = 1 .. Len(t) /\ Increasing(f)
    BY <1>1
  <2> QED
    BY <2>1 DEF Increasing
<1>4. ToSet(t) \subseteq ToSet(p)
  BY <1>1, <1>2
<1>5. InTime(p) => InTime(t)
  <2> SUFFICES ASSUME InTime(p), NEW i \in 1 .. Len(t), NEW j \in 1 .. Len(t), i < j
               PROVE  Earlier(t[i], t[j])
    BY DEF InTime
  <2>1. f[i] \in 1 .. Len(p) /\ f[j] \in 1 .. Len(p) /\ f[i] < f[j]
    BY <1>3
  <2>2. Earlier(p[f[i]], p[f[j]])
    BY <2>1 DEF InTime
  <2> QED
    BY <1>1, <2>2
<1>6. ASSUME NEW i \in 1 .. Len(t)
      PROVE  \E m \in 1 .. Len(p) :
              /\ p[m] = t[i]
              /\ \A j \in 1 .. Len(p) : j > m /\ KeyOf(p[j]) = KeyOf(t[i]) =>
                   \E k \in 1 .. Len(t) : k > i /\ t[k] = p[j]
  <2>1. f[i] \in 1 .. Len(p) /\ p[f[i]] = t[i]
    BY <1>1
  <2>2. ASSUME NEW j \in 1 .. Len(p), j > f[i], KeyOf(p[j]) = KeyOf(t[i])
        PROVE  \E k \in 1 .. Len(t) : k > i /\ t[k] = p[j]
    <3>1. f[i] <= j
      BY <1>2, <2>1, <2>2
    <3>2. PICK k \in 1 .. Len(t) : f[k] = j
      BY <1>1, <2>1, <2>2, <3>1
    <3>3. k > i
      <4>1. ~(k < i) /\ k # i
        BY <1>2, <1>3, <2>1, <2>2, <3>2
      <4> QED
        BY <1>2, <4>1
    <3> QED
      BY <1>1, <3>2, <3>3
  <2> QED
    BY <2>1, <2>2
<1> QED
  BY <1>4, <1>5, <1>6

\* Thinned pending events are in order still.
LEMMA ThinAgent ==
  ASSUME NEW p \in Events, NEW q \in Events, NEW w \in Worlds, NEW r, NEW s, NEW c \in Nat,
         Agent(p, q, w, r, s, c), NEW t \in Events, Thinned(t, p), NEW r2, NEW s2,
         \A e \in ToSet(t) : e.type = "UPSERT" /\ KeyOf(e) \in r => KeyOf(e) \in r2,
         Apart(t, s2, c)
  PROVE  Agent(t, q, w, r2, s2, c)
<1>1. /\ ToSet(t) \subseteq ToSet(p) /\ InTime(t)
      /\ \A i \in 1 .. Len(t) : \E m \in 1 .. Len(p) :
           /\ p[m] = t[i]
           /\ \A j \in 1 .. Len(p) : j > m /\ KeyOf(p[j]) = KeyOf(t[i]) =>
                \E k \in 1 .. Len(t) : k > i /\ t[k] = p[j]
  BY ThinnedMeans DEF Agent, InTurn
<1>2. /\ Len(t) \in Nat /\ Len(p) \in Nat /\ ToSet(p) \subseteq ResourceEvent
      /\ ToSet(t) = {t[i] : i \in 1 .. Len(t)} /\ ToSet(p) = {p[i] : i \in 1 .. Len(p)}
  BY Elements DEF Events
<1>3. EndReported(t, q, w, r2)
  <2> SUFFICES ASSUME NEW i \in 1 .. Len(t), t[i].type = "UPSERT", ~DeletedLater(t, i)
               PROVE  KeyOf(t[i]) \in r2 /\ (IsNow(w, t[i]) \/ \E d \in ToSet(q) : Deletes(d, t[i]))
    BY DEF EndReported
  <2>1. PICK m \in 1 .. Len(p) :
           /\ p[m] = t[i]
           /\ \A j \in 1 .. Len(p) : j > m /\ KeyOf(p[j]) = KeyOf(t[i]) =>
                \E k \in 1 .. Len(t) : k > i /\ t[k] = p[j]
    BY <1>1
  <2>2. ~DeletedLater(p, m)
    <3>1. SUFFICES ASSUME NEW j \in 1 .. Len(p), j > m, Deletes(p[j], p[m]) PROVE FALSE
      BY DEF DeletedLater
    <3>2. PICK k \in 1 .. Len(t) : k > i /\ t[k] = p[j]
      BY <2>1, <3>1 DEF Deletes
    <3> QED
      BY <2>1, <3>1, <3>2 DEF DeletedLater
  <2>3. KeyOf(t[i]) \in r /\ (IsNow(w, t[i]) \/ \E d \in ToSet(q) : Deletes(d, t[i]))
    BY <2>1, <2>2 DEF Agent, EndReported
  <2>4. t[i] \in ToSet(t)
    BY <1>2
  <2> QED
    BY <2>3, <2>4
<1>4. NowTold(t, q, w)
  <2> SUFFICES ASSUME NEW i \in 1 .. Len(t), t[i].type = "UPSERT", IsNow(w, t[i]),
                      Now(w, t[i].name) \notin ToSet(q)
               PROVE  Now(w, t[i].name) \in ToSet(t)
    BY <1>2 DEF NowTold
  <2>1. PICK m \in 1 .. Len(p) :
           /\ p[m] = t[i]
           /\ \A j \in 1 .. Len(p) : j > m /\ KeyOf(p[j]) = KeyOf(t[i]) =>
                \E k \in 1 .. Len(t) : k > i /\ t[k] = p[j]
    BY <1>1
  <2>2. t[i] \in ToSet(p) /\ t[i] \in ResourceEvent /\ t[i] \in ToSet(t)
    BY <1>1, <1>2
  <2>3. PICK x \in ToSet(p) : x = Now(w, t[i].name)
    BY <2>2 DEF Agent, NowTold
  <2>4. PICK j \in 1 .. Len(p) : p[j] = x
    BY <1>2
  <2>5. x.type = "UPSERT" /\ x.name = t[i].name /\ x.obj = w[t[i].name] /\ KeyOf(x) = KeyOf(t[i])
    BY <2>3 DEF Now, KeyOf, IsNow
  <2>6. CASE j > m
    BY <1>2, <2>1, <2>3, <2>4, <2>5, <2>6
  <2>7. CASE j = m
    BY <2>1, <2>2, <2>3, <2>4, <2>7
  <2>8. CASE j < m
    <3>1. Earlier(x, t[i])
      BY <2>1, <2>4, <2>8 DEF Agent, InTurn, InTime
    <3>2. x.obj.rv < t[i].obj.rv
      BY <2>5, <3>1 DEF Earlier
    <3>3. t[i].obj.rv <= x.obj.rv
      BY <2>2, <2>5 DEF Agent, AllPast, Past, IsNow
    <3>4. t[i].obj.rv \in Nat /\ x.obj.rv \in Nat
      BY <1>2, <2>2, EventParts
    <3> QED
      BY <3>2, <3>3, <3>4
  <2> QED
    BY <1>2, <2>6, <2>7, <2>8
<1>5. InTurn(t, q) /\ AllPast(t, q, w, c)
  BY <1>1 DEF Agent, InTurn, AllPast
<1> QED
  BY <1>3, <1>4, <1>5 DEF Agent
-----------------------------------------------------------------------------
\* What is kept of the pending events, and what a batch leaves.
LEMMA KeptThinned ==
  ASSUME pending \in Events, NEW items, NEW t,
         t = [k \in DOMAIN InOrder(Kept(items)) |-> pending[InOrder(Kept(items))[k]]]
  PROVE  /\ t \in Events /\ Thinned(t, pending)
         /\ \A i \in 1 .. Len(pending) : ~Repeats(items, i) =>
              \E k \in 1 .. Len(t) : t[k] = pending[i]
<1>1. PICK f : f = InOrder(Kept(items))
  OBVIOUS
<1>2. PICK c \in Nat : c = Cardinality(Kept(items))
  BY KeptType DEF Events
<1>3. /\ f \in [1 .. c -> Kept(items)] /\ Increasing(f)
      /\ \A x \in Kept(items) : \E i \in DOMAIN f : f[i] = x
      /\ t \in Seq(ResourceEvent)
  BY <1>1, <1>2, KeptType DEF Events
<1>4. DOMAIN f = 1 .. c /\ t = [k \in 1 .. c |-> pending[f[k]]]
  BY <1>1, <1>3
<1>5. Len(t) = c /\ \A k \in 1 .. c : t[k] = pending[f[k]]
  <2>1. DOMAIN t = 1 .. c /\ DOMAIN t = 1 .. Len(t) /\ Len(t) \in Nat
    BY <1>3, <1>4, LenProperties
  <2> QED
    BY <1>2, <1>4, <2>1
<1>6. DOMAIN pending = 1 .. Len(pending) /\ Len(pending) \in Nat
  BY LenProperties DEF Events
<1>7. Kept(items) \subseteq 1 .. Len(pending)
  BY <1>6 DEF Kept
<1>8. f \in [1 .. c -> 1 .. Len(pending)]
  BY <1>3, <1>7
<1>9. ASSUME NEW i \in 1 .. c, NEW j \in 1 .. Len(pending), f[i] <= j,
             KeyOf(pending[j]) = KeyOf(pending[f[i]])
      PROVE  \E k \in 1 .. c : f[k] = j
  <2>1. f[i] \in Kept(items) /\ f[i] \in 1 .. Len(pending)
    BY <1>3, <1>7
  <2>2. PICK k \in 1 .. f[i] : KeyOf(pending[k]) = KeyOf(pending[f[i]]) /\ ~Repeats(items, k)
    BY <2>1 DEF Kept
  <2>3. k \in 1 .. j
    BY <1>6, <1>9, <2>1
  <2>4. j \in Kept(items)
    BY <1>6, <1>9, <2>2, <2>3 DEF Kept
  <2> QED
    BY <1>3, <1>4, <2>4
<1>10. Thinned(t, pending)
  <2>1. f \in [1 .. Len(t) -> 1 .. Len(pending)] /\ Increasing(f)
    BY <1>3, <1>5, <1>8
  <2>2. \A i \in 1 .. Len(t) : t[i] = pending[f[i]]
    BY <1>5
  <2>3. \A i \in 1 .. Len(t), j \in 1 .. Len(pending) :
          f[i] <= j /\ KeyOf(pending[j]) = KeyOf(pending[f[i]]) => \E k \in 1 .. Len(t) : f[k] = j
    BY <1>5, <1>9
  <2> QED
    BY <2>1, <2>2, <2>3, Zenon DEF Thinned
<1>11. ASSUME NEW i \in 1 .. Len(pending), ~Repeats(items, i)
       PROVE  \E k \in 1 .. Len(t) : t[k] = pending[i]
  <2>1. i \in 1 .. i
    BY <1>6
  <2>2. i \in Kept(items)
    BY <1>6, <1>11, <2>1 DEF Kept
  <2>3. PICK k \in 1 .. c : f[k] = i
    BY <1>3, <1>4, <2>2
  <2> QED
    BY <1>5, <2>3
<1> QED
  BY <1>3, <1>10, <1>11 DEF Events

\* The events after the first n are thinned ones.
LEMMA RestThinned ==
  ASSUME NEW p \in Events, NEW n \in Nat, n <= Len(p)
  PROVE  /\ SubSeq(p, 1, n) \in Events /\ SubSeq(p, n + 1, Len(p)) \in Events
         /\ Thinned(SubSeq(p, n + 1, Len(p)), p)
         /\ p = SubSeq(p, 1, n) \o SubSeq(p, n + 1, Len(p))
<1>1. Len(p) \in Nat /\ p \in Seq(ResourceEvent)
  BY LenProperties DEF Events
<1>2. PICK m \in Nat : m = Len(p) - n
  BY <1>1
<1>3. /\ n + 1 \in 1 .. Len(p) + 1 /\ Len(p) \in (n + 1) - 1 .. Len(p) /\ Len(p) - (n + 1) + 1 = m
      /\ 1 \in 1 .. Len(p) + 1 /\ n \in 1 - 1 .. Len(p)
  BY <1>1, <1>2
<1>4. PICK t : t = SubSeq(p, n + 1, Len(p))
  OBVIOUS
<1>5. t \in Seq(ResourceEvent) /\ Len(t) = m /\ \A i \in 1 .. m : t[i] = p[(n + 1) + i - 1]
  BY <1>1, <1>3, <1>4, PartSet
<1> DEFINE f == [i \in 1 .. m |-> n + i]
<1>6. \A i \in 1 .. m : n + i \in 1 .. Len(p) /\ (n + 1) + i - 1 = n + i
  BY <1>1, <1>2
<1>7. f \in [1 .. m -> 1 .. Len(p)] /\ \A i \in 1 .. m : t[i] = p[f[i]]
  BY <1>5, <1>6
<1>8. Increasing(f)
  BY DEF Increasing
<1>9. ASSUME NEW i \in 1 .. m, NEW j \in 1 .. Len(p), f[i] <= j PROVE \E k \in 1 .. m : f[k] = j
  <2>1. n + i <= j
    BY <1>9
  <2>2. j - n \in 1 .. m /\ n + (j - n) = j
    BY <1>1, <1>2, <2>1
  <2> QED
    BY <2>2
<1>10. Thinned(t, p)
  <2> HIDE DEF f
  <2>1. \A i \in 1 .. m, j \in 1 .. Len(p) :
          f[i] <= j /\ KeyOf(p[j]) = KeyOf(p[f[i]]) => \E k \in 1 .. m : f[k] = j
    BY <1>9
  <2>2. /\ f \in [1 .. Len(t) -> 1 .. Len(p)] /\ \A i \in 1 .. Len(t) : t[i] = p[f[i]]
        /\ \A i \in 1 .. Len(t), j \in 1 .. Len(p) :
             f[i] <= j /\ KeyOf(p[j]) = KeyOf(p[f[i]]) => \E k \in 1 .. Len(t) : f[k] = j
    BY <1>5, <1>7, <2>1
  <2> QED
    BY <1>8, <2>2, Zenon DEF Thinned
<1>11. SubSeq(p, 1, n) \in Events
  BY <1>1, <1>3, PartSet DEF Events
<1>12. p = SubSeq(p, 1, n) \o SubSeq(p, n + 1, Len(p))
  <2>1. SubSeq(p, 1, n) \o SubSeq(p, n + 1, Len(p)) = SubSeq(p, 1, Len(p))
    <3>1. 1 \in 1 .. Len(p) + 1 /\ n \in 1 - 1 .. Len(p) /\ Len(p) \in n .. Len(p)
      BY <1>1, <1>3
    <3> QED
      BY <1>1, <3>1, ConcatAdjacentSubSeq
  <2> QED
    BY <1>1, <2>1, SubSeqFull
<1> QED
  BY <1>4, <1>5, <1>10, <1>11, <1>12 DEF Events

-----------------------------------------------------------------------------
(***************************************************************************)
(* The agent keeps its events in order, whatever it does.                  *)
(***************************************************************************)
ListingOK(items, c) ==
  \A a \in items : a[2].rv <= c /\ \A b \in items : a[1] = b[1] => a = b

AgentInv ==
  /\ ~connected => pending = <<>>
  /\ Agent(pending, notices, world, reported, inSnapshot, changes)
  /\ ListingOK(ToSet(sending.listing), changes)

AgentTypes ==
  /\ world \in Worlds /\ changes \in Nat /\ pending \in Events /\ notices \in Events
  /\ inSnapshot \subseteq Item /\ sending.listing \in Seq(Item)

\* The types of what the agent's invariant speaks of.
LEMMA AgentTyped == SyncerTypeOK => AgentTypes
BY DEF SyncerTypeOK, AgentTypes, Worlds, Events

\* What occurs in the cluster.
LEMMA WorldChanges ==
  ASSUME SyncerTypeOK, NEW n \in Names, Upsert(n) \/ Delete(n)
  PROVE  \E e \in ResourceEvent :
           /\ Change(world, world', changes, e) /\ changes' = changes + 1
           /\ notices' = Append(notices, e)
           /\ UNCHANGED <<connected, resyncReq, batching, sending, outbox, missed>>
<1>0. /\ world \in [Names -> Object \cup {NoObject}] /\ changes \in 1 .. MaxChanges
      /\ MaxChanges \in Nat
  BY InventoryAssumption DEF SyncerTypeOK
<1>1. CASE Upsert(n)
  <2> DEFINE obj == [uid |-> IF world[n] = NoObject THEN changes + 1 ELSE world[n].uid,
                     rv |-> changes + 1]
             e == [type |-> "UPSERT", name |-> n, obj |-> obj]
  <2>1. /\ changes < MaxChanges /\ changes' = changes + 1 /\ notices' = Append(notices, e)
        /\ world' = [world EXCEPT ![n] = obj]
        /\ UNCHANGED <<connected, resyncReq, batching, sending, outbox, missed>>
    BY <1>1 DEF Upsert, Occurs
  <2>2. world[n] # NoObject => world[n].uid \in 1 .. MaxChanges
    BY <1>0 DEF Object
  <2>3. changes + 1 \in 1 .. MaxChanges
    BY <1>0, <2>1
  <2>4. obj \in Object
    BY <2>2, <2>3 DEF Object
  <2>5. e \in ResourceEvent /\ e.name = n /\ e.type = "UPSERT" /\ e.obj = obj
    BY <2>4 DEF ResourceEvent
  <2>6. obj.rv = changes + 1 /\ obj.uid = (IF world[n] = NoObject THEN changes + 1 ELSE world[n].uid)
    OBVIOUS
  <2> HIDE DEF e, obj
  <2> QED
    BY <2>1, <2>5, <2>6 DEF Change
<1>2. CASE Delete(n)
  <2> DEFINE e == [type |-> "DELETE", name |-> n, obj |-> world[n]]
  <2>1. world[n] \in Object
    BY <1>0, <1>2 DEF Delete
  <2>2. e \in ResourceEvent /\ e.name = n /\ e.type = "DELETE" /\ e.obj = world[n]
    BY <2>1 DEF ResourceEvent
  <2>3. /\ changes' = changes + 1 /\ notices' = Append(notices, e) /\ world[n] # NoObject
        /\ world' = [world EXCEPT ![n] = NoObject]
        /\ UNCHANGED <<connected, resyncReq, batching, sending, outbox, missed>>
    BY <1>2 DEF Delete, Occurs
  <2> HIDE DEF e
  <2> QED
    BY <2>2, <2>3 DEF Change
<1> QED
  BY <1>1, <1>2

\* A listing stays one of the past.
LEMMA ListingLater ==
  ASSUME NEW items, items \subseteq Item, NEW c \in Nat, ListingOK(items, c)
  PROVE  ListingOK(items, c + 1)
<1>1. \A a \in items : a[2].rv \in Nat
  BY DEF Item, Object
<1>2. \A a \in items : a[2].rv <= c + 1
  <2> SUFFICES ASSUME NEW a \in items PROVE a[2].rv <= c + 1
    OBVIOUS
  <2>1. a[2].rv \in Nat /\ a[2].rv <= c
    BY <1>1 DEF ListingOK
  <2> QED
    BY <2>1
<1> QED
  BY <1>2 DEF ListingOK

\* It holds in the beginning, for there are no events.
LEMMA InitAgent == InventoryInit => AgentInv
<1> SUFFICES ASSUME InventoryInit PROVE AgentInv
  OBVIOUS
<1>1. SyncerBegins(1, "no") /\ SyncerTypeOK
  BY InitTyped DEF InventoryInit, InventoryBegins, TypesOK
<1>2. /\ connected = FALSE /\ pending = <<>> /\ changes = 1 /\ inSnapshot = {}
      /\ sending.listing = <<>> /\ AgentTypes
  BY <1>1, AgentTyped DEF SyncerBegins, Idle
<1>3. ToSet(<<>>) = {} /\ Len(<<>>) = 0 /\ 1 .. 0 = {}
  BY EmptySet, EmptySeq
<1>4. \A n \in Names : world[n] # NoObject => world[n] = [uid |-> 1, rv |-> 1]
  BY <1>1 DEF SyncerBegins
<1> DEFINE first == SetToSeq(Listed)
<1>5. /\ first \in Seq(Item) /\ ToSet(first) = Listed
      /\ \A i, j \in 1 .. Len(first) : first[i] = first[j] => i = j
  BY <1>1, ListedType, SetInOrder DEF SyncerTypeOK
<1>6. notices = [i \in DOMAIN first |->
                   [type |-> "UPSERT", name |-> first[i][1], obj |-> first[i][2]]]
  BY <1>1 DEF SyncerBegins
<1> HIDE DEF first
<1>7. DOMAIN first = 1 .. Len(first) /\ Len(notices) = Len(first) /\ Len(first) \in Nat
      /\ ToSet(first) = {first[i] : i \in 1 .. Len(first)}
  <2>1. DOMAIN first = 1 .. Len(first) /\ Len(first) \in Nat
        /\ ToSet(first) = {first[i] : i \in 1 .. Len(first)}
    BY <1>5, Elements
  <2>2. DOMAIN notices = DOMAIN first /\ notices \in Seq(ResourceEvent)
    BY <1>1, <1>6 DEF SyncerTypeOK
  <2>3. DOMAIN notices = 1 .. Len(notices) /\ Len(notices) \in Nat
    BY <2>2, LenProperties
  <2> QED
    BY <2>1, <2>2, <2>3
<1>8. ASSUME NEW i \in 1 .. Len(notices)
      PROVE  \E n \in Names : /\ world[n] # NoObject /\ notices[i] = Now(world, n) /\ first[i] = <<n, world[n]>>
  <2>1. first[i] \in Listed
    BY <1>5, <1>7
  <2>2. PICK n \in Names : world[n] # NoObject /\ first[i] = <<n, world[n]>>
    BY <2>1 DEF Listed
  <2>3. notices[i] = [type |-> "UPSERT", name |-> n, obj |-> world[n]]
    BY <1>6, <1>7, <2>2
  <2> QED
    BY <2>2, <2>3 DEF Now
<1>9. ASSUME NEW i \in 1 .. Len(notices)
      PROVE  /\ notices[i].name \in Names /\ notices[i] = Now(world, notices[i].name)
             /\ IsNow(world, notices[i]) /\ Past(world, 1, notices[i])
             /\ first[i] = <<notices[i].name, world[notices[i].name]>>
  <2>1. PICK n \in Names : /\ world[n] # NoObject /\ notices[i] = Now(world, n)
                           /\ first[i] = <<n, world[n]>>
    BY <1>8
  <2>2. notices[i].name = n /\ notices[i].obj = world[n] /\ notices[i].type = "UPSERT"
    BY <2>1 DEF Now
  <2>3. world[n].uid = 1 /\ world[n].rv = 1
    BY <1>4, <2>1
  <2> QED
    BY <2>1, <2>2, <2>3 DEF IsNow, Past
<1>10. InTime(notices)
  <2> SUFFICES ASSUME NEW i \in 1 .. Len(notices), NEW j \in 1 .. Len(notices), i < j,
                      notices[i].name = notices[j].name
               PROVE  FALSE
    BY DEF InTime, Earlier
  <2>1. first[i] = first[j]
    BY <1>9
  <2> QED
    BY <1>5, <1>7, <2>1
<1>11. InTurn(pending, notices)
  BY <1>2, <1>3, <1>10 DEF InTurn, InTime
<1>12. ToSet(notices) = {notices[i] : i \in 1 .. Len(notices)}
  BY <1>2, Elements DEF AgentTypes, Events
<1>13. AllPast(pending, notices, world, changes)
  <2>1. \A n \in Names : world[n] # NoObject => world[n].uid <= 1 /\ world[n].rv <= 1
    BY <1>4
  <2>2. \A e \in ToSet(notices) : Past(world, 1, e)
    BY <1>9, <1>12
  <2> QED
    BY <1>2, <1>3, <2>1, <2>2 DEF AllPast
<1>14. LastTells(notices, world) /\ EndTold(notices, world)
  <2>1. \A i \in 1 .. Len(notices) : i \in 1 .. Len(notices) /\ i >= i
    BY <1>7
  <2> QED
    BY <1>9, <2>1 DEF LastTells, EndTold
<1>15. /\ EndReported(pending, notices, world, reported) /\ NowTold(pending, notices, world)
       /\ Apart(pending, inSnapshot, changes) /\ ListingOK(ToSet(sending.listing), changes)
  BY <1>2, <1>3 DEF EndReported, NowTold, Apart, ListingOK
<1> QED
  BY <1>2, <1>11, <1>13, <1>14, <1>15 DEF AgentInv, Agent

\* It depends on the agent's own state alone.
LEMMA AgentSame ==
  AgentInv /\ UNCHANGED <<connected, pending, notices, world, reported, inSnapshot, changes, sending>>
    => AgentInv'
BY DEF AgentInv

\* Each step of the syncer keeps it.
LEMMA SyncerAgent ==
  ASSUME SyncerTypeOK, AgentInv, SyncerMoves
  PROVE  AgentInv'
<1>0. AgentTypes
  BY AgentTyped
<1>1. ToSet(sending.listing) \subseteq Item
  BY <1>0, Elements DEF AgentTypes
<1>2. CASE \E n \in Names : Upsert(n) \/ Delete(n)
  <2>1. PICK e \in ResourceEvent :
           /\ Change(world, world', changes, e) /\ changes' = changes + 1
           /\ notices' = Append(notices, e)
           /\ UNCHANGED <<connected, resyncReq, batching, sending, outbox, missed>>
    BY <1>2, WorldChanges
  <2>2. Agent(pending, Append(notices, e), world', reported, inSnapshot, changes + 1)
    BY <1>0, <2>1, WorldAgent DEF AgentTypes, AgentInv
  <2>3. ListingOK(ToSet(sending.listing), changes + 1)
    BY <1>0, <1>1, ListingLater DEF AgentTypes, AgentInv
  <2> QED
    BY <2>1, <2>2, <2>3 DEF AgentInv, batching
<1>3. CASE HandleNotice
  <2>1. notices # <<>> /\ notices' = Tail(notices) /\ UNCHANGED <<world, changes, connected, sending, outbox>>
    BY <1>3 DEF HandleNotice, stores, informers
  <2>2. PICK e \in ResourceEvent : e = Head(notices) /\ (Ignore(e) \/ Overflow(e) \/ Enqueue(e))
    BY <1>0, <1>3, <2>1, TailAt DEF HandleNotice, AgentTypes
  <2>3. CASE Ignore(e)
    <3>1. Agent(pending, Tail(notices), world, reported, inSnapshot, changes)
      BY <1>0, <2>1, <2>2, <2>3, IgnoreAgent DEF Ignore, Ignored, AgentTypes, AgentInv
    <3> QED
      BY <2>1, <2>3, <3>1 DEF Ignore, AgentInv, batching
  <2>4. CASE Overflow(e)
    <3>1. Agent(<<>>, notices, world, reported, inSnapshot, changes) /\ <<>> \in Events
      BY <1>0, ClearAgent DEF AgentTypes, AgentInv
    <3>2. Agent(<<>>, Tail(notices), world, reported, inSnapshot, changes)
      BY <1>0, <2>1, <3>1, IgnoreAgent DEF AgentTypes
    <3>3. Forget(inSnapshot, e) \subseteq inSnapshot /\ Tail(notices) \in Events
      BY <1>0, <2>1, TailAt DEF Forget, AgentTypes
    <3>4. Agent(<<>>, Tail(notices), world, reported, Forget(inSnapshot, e), changes)
      BY <1>0, <3>1, <3>2, <3>3, ClearAgent DEF AgentTypes
    <3> QED
      BY <2>1, <2>4, <3>4 DEF Overflow, AgentInv
  <2>5. CASE Enqueue(e)
    <3>1. Agent(pending', notices', world, reported', inSnapshot', changes)
      BY <1>0, <2>1, <2>2, <2>5, EnqueueAgent DEF Enqueue, AgentTypes, AgentInv
    <3> QED
      BY <2>1, <2>5, <3>1 DEF Enqueue, Ignored, AgentInv
  <2> QED
    BY <2>2, <2>3, <2>4, <2>5
<1>4. CASE ResyncTick \/ ensureInformers
  BY <1>4, AgentSame DEF ResyncTick, Resync, ensureInformers, stores, informers, batching
<1>5. CASE SendChunk
  <2>1. UNCHANGED <<connected, pending, notices, world, reported, inSnapshot, changes>>
    BY <1>5 DEF SendChunk, stores, informers, batching
  <2>2. sending'.listing = sending.listing
    BY <1>5 DEF SendChunk, SyncerTypeOK
  <2> QED
    BY <2>1, <2>2 DEF AgentInv
<1>6. CASE FinishSnapshot
  <2>1. UNCHANGED <<connected, notices, world, changes>> /\ sending' = Idle
    BY <1>6 DEF FinishSnapshot, stores, informers
  <2>2. ListingOK(ToSet(sending'.listing), changes)
    BY <2>1, EmptySet DEF Idle, ListingOK
  <2>3. CASE connected
    <3>1. PICK items : items = ToSet(sending.listing)
      OBVIOUS
    <3>2. PICK t : t = [k \in DOMAIN InOrder(Kept(items)) |-> pending[InOrder(Kept(items))[k]]]
      OBVIOUS
    <3>3. t \in Events /\ Thinned(t, pending)
      BY <1>0, <3>2, KeptThinned DEF AgentTypes
    <3>4. /\ pending' = t
          /\ inSnapshot' = {i \in items : \A e \in ToSet(t) : KeyOf(e) # objectKey(i)}
          /\ reported' = {objectKey(i) : i \in items}
                           \cup {KeyOf(e) : e \in {x \in ToSet(t) : x.type = "UPSERT"}}
      BY <1>6, <2>3, <3>1, <3>2 DEF FinishSnapshot
    <3>5. Apart(t, inSnapshot', changes)
      BY <3>1, <3>4 DEF Apart, AgentInv, ListingOK
    <3>6. \A e \in ToSet(t) : e.type = "UPSERT" /\ KeyOf(e) \in reported => KeyOf(e) \in reported'
      BY <3>4
    <3>7. Agent(t, notices, world, reported', inSnapshot', changes)
      BY <1>0, <3>3, <3>5, <3>6, ThinAgent DEF AgentTypes, AgentInv
    <3> QED
      BY <2>1, <2>2, <2>3, <3>4, <3>7 DEF AgentInv
  <2>4. CASE ~connected
    <3>1. UNCHANGED <<pending, inSnapshot, reported>>
      BY <1>6, <2>4 DEF FinishSnapshot, batching
    <3> QED
      BY <2>1, <2>2, <3>1 DEF AgentInv
  <2> QED
    BY <2>3, <2>4
<1>7. CASE Flush
  <2>1. UNCHANGED <<connected, notices, world, changes, sending, inSnapshot, reported>> /\ pending # <<>>
    BY <1>7 DEF Flush, stores, informers
  <2>2. connected
    BY <2>1 DEF AgentInv
  <2>3. Agent(pending', notices, world, reported, inSnapshot, changes)
    <3>1. CASE pending' = <<>>
      BY <1>0, <3>1, ClearAgent DEF AgentTypes, AgentInv
    <3>2. CASE pending' # <<>>
      <4>1. PICK n : /\ n = (IF Len(pending) < BatchMax THEN Len(pending) ELSE BatchMax)
                     /\ pending' = SubSeq(pending, n + 1, Len(pending))
        BY <1>7, <3>2 DEF Flush
      <4>2. n \in Nat /\ n <= Len(pending)
        BY <1>0, <4>1, SyncerAssumption, LenProperties DEF AgentTypes, Events
      <4>3. pending' \in Events /\ Thinned(pending', pending)
        BY <1>0, <4>1, <4>2, RestThinned DEF AgentTypes
      <4>4. Apart(pending', inSnapshot, changes)
        BY <1>0, <4>3, ThinnedMeans DEF AgentTypes, AgentInv, Agent, Apart
      <4> QED
        BY <1>0, <4>3, <4>4, ThinAgent DEF AgentTypes, AgentInv
    <3> QED
      BY <3>1, <3>2
  <2> QED
    BY <2>1, <2>2, <2>3 DEF AgentInv
<1>8. CASE \E id \in Fresh : StartSnapshot(id)
  <2>1. UNCHANGED <<connected, notices, world, changes, pending, inSnapshot, reported>>
    BY <1>8 DEF StartSnapshot, stores, informers
  <2>2. ListingOK(ToSet(sending'.listing), changes)
    <3>1. CASE sending' = sending
      BY <3>1 DEF AgentInv
    <3>2. CASE sending' # sending
      <4>1. PICK id : sending' = [id |-> id, listing |-> SetToSeq(Listed), next |-> 0]
        BY <1>8, <3>2 DEF StartSnapshot
      <4>2. ToSet(sending'.listing) = Listed
        BY <4>1, ListedType DEF SyncerTypeOK
      <4>3. ListingOK(Listed, changes)
        BY DEF ListingOK, Listed, AgentInv, Agent, AllPast
      <4> QED
        BY <4>2, <4>3
    <3> QED
      BY <3>1, <3>2
  <2> QED
    BY <2>1, <2>2 DEF AgentInv
<1> QED
  BY <1>2, <1>3, <1>4, <1>5, <1>6, <1>7, <1>8 DEF SyncerMoves

\* Each step of the whole keeps it.
LEMMA NextAgent == TypesOK /\ AgentInv /\ [InventoryNext]_vars => AgentInv'
<1> SUFFICES ASSUME TypesOK, AgentInv, [InventoryNext]_vars PROVE AgentInv'
  OBVIOUS
<1>1. CASE World \/ Handler \/ Ticker \/ Watch \/ StartOver \/ RunStep
  BY <1>1, SyncerStep, SyncerAgent DEF TypesOK
<1>2. CASE Dial \/ Requeue \/ Sends
  BY <1>2, AgentSame DEF Dial, Requeue, Sends, KeepSyncer, stores, informers, batching
<1>3. CASE (\E r \in Replicas : Accept(r)) \/ SessionEnds
  <2>1. /\ UNCHANGED <<notices, world, reported, inSnapshot, changes, sending>> /\ pending' = <<>>
    BY <1>3 DEF Accept, SessionEnds, OpenStream, SetConnected, stores, informers
  <2>2. Agent(<<>>, notices, world, reported, inSnapshot, changes)
    <3>1. AgentTypes
      BY AgentTyped DEF TypesOK
    <3> QED
      BY <3>1, ClearAgent DEF AgentTypes, AgentInv
  <2> QED
    BY <2>1, <2>2 DEF AgentInv
<1>4. ASSUME NEW s \in Streams, ServerHears(s) PROVE AgentInv'
  BY <1>4, HearsParts, AgentSame DEF TypesOK, syncer, stores, informers, batching
<1>5. ASSUME NEW s \in Streams, ServerWrites(s) \/ ServerFails(s) \/ ServerEnds(s) PROVE AgentInv'
  BY <1>5, AgentSame DEF ServerWrites, ServerFails, ServerEnds, syncer
<1>6. CASE UNCHANGED vars
  BY <1>6, AgentSame DEF vars, syncer
<1> QED
  BY <1>1, <1>2, <1>3, <1>4, <1>5, <1>6 DEF InventoryNext
-----------------------------------------------------------------------------
(***************************************************************************)
(* The row of a name after some events: what the last UPSERT of the name   *)
(* put there, or what was there if there is none, unless a DELETE of just  *)
(* that object came after it.                                              *)
(***************************************************************************)
Sets(e, n) == e.type = "UPSERT" /\ e.name = n

Ends(e, n, x) == e.type = "DELETE" /\ e.name = n /\ x \notin Nothing /\ x.uid = e.obj.uid

\* If no UPSERT comes after the k-th event, the row is that of then, or Gone.
LEMMA RowFrom ==
  ASSUME NEW rows \in Tables, NEW U \in Events, NEW n \in Names, NEW p, RowsThrough(p, rows, U),
         NEW k \in 0 .. Len(U), \A i \in 1 .. Len(U) : i > k => ~Sets(U[i], n)
  PROVE  Patched(rows, U)[n] =
           IF \E j \in 1 .. Len(U) : j > k /\ Ends(U[j], n, p[k][n]) THEN Gone ELSE p[k][n]
<1>1. Len(U) \in Nat
  BY LenProperties DEF Events
<1>2. PICK x : x = p[k][n]
  OBVIOUS
<1> DEFINE Ended(i) == \E j \in 1 .. Len(U) : j > k /\ j <= i /\ Ends(U[j], n, x)
           T == {i \in Nat : k <= i /\ i <= Len(U) => p[i][n] = (IF Ended(i) THEN Gone ELSE x)}
<1>3. ~Ended(k)
  BY <1>1
<1>4. 0 \in T
  BY <1>1, <1>2, <1>3
<1>5. ASSUME NEW i \in T PROVE i + 1 \in T
  <2>1. SUFFICES ASSUME k <= i + 1, i + 1 <= Len(U)
                 PROVE  p[i + 1][n] = (IF Ended(i + 1) THEN Gone ELSE x)
    OBVIOUS
  <2>2. CASE k = i + 1
    BY <1>2, <1>3, <2>2
  <2>3. CASE k # i + 1
    <3>1. k <= i /\ i <= Len(U) /\ i \in 0 .. Len(U) /\ i + 1 \in 1 .. Len(U) /\ (i + 1) - 1 = i
          /\ i + 1 > k
      BY <1>1, <2>1, <2>3
    <3>2. p[i][n] = (IF Ended(i) THEN Gone ELSE x)
      BY <3>1
    <3>3. PICK e \in ResourceEvent : e = U[i + 1]
      BY <1>1, <3>1, ElementOfSeq DEF Events
    <3>4. p[i] \in Tables /\ p[i + 1] = Applied(p[i], e) /\ ~Sets(e, n)
      BY <3>1, <3>3 DEF RowsThrough
    <3>5. p[i + 1][n] =
            IF e.name # n THEN p[i][n]
            ELSE IF p[i][n] \notin Nothing /\ p[i][n].uid = e.obj.uid THEN Gone ELSE p[i][n]
      BY <3>4, AppliedAt DEF Sets
    <3>6. e.name = n => e.type = "DELETE"
      BY <3>3, <3>4, EventParts DEF Sets
    <3>7. Ended(i + 1) <=> Ended(i) \/ Ends(e, n, x)
      <4>1. \A j \in 1 .. Len(U) : j <= i + 1 <=> j <= i \/ j = i + 1
        BY <3>1
      <4> QED
        BY <3>1, <3>3, <4>1
    <3> HIDE DEF Ended
    <3>8. CASE Ended(i)
      BY <3>2, <3>5, <3>7, <3>8 DEF Nothing
    <3>9. CASE ~Ended(i)
      BY <3>2, <3>5, <3>6, <3>7, <3>9 DEF Nothing, Ends
    <3> QED
      BY <3>8, <3>9
  <2> QED
    BY <2>2, <2>3
<1>6. Len(U) \in T
  <2>1. T \in SUBSET Nat
    OBVIOUS
  <2> HIDE DEF T
  <2> QED
    BY <1>1, <1>4, <1>5, <2>1, NumberInduction
<1>7. p[Len(U)][n] = (IF Ended(Len(U)) THEN Gone ELSE x)
  BY <1>1, <1>6
<1>8. Ended(Len(U)) <=> \E j \in 1 .. Len(U) : j > k /\ Ends(U[j], n, p[k][n])
  BY <1>1, <1>2
<1> HIDE DEF Ended
<1> QED
  BY <1>2, <1>7, <1>8 DEF RowsThrough

\* Without an UPSERT, and with one that is the last.
LEMMA RowKept ==
  ASSUME NEW rows \in Tables, NEW U \in Events, NEW n \in Names, \A e \in ToSet(U) : ~Sets(e, n)
  PROVE  Patched(rows, U)[n] =
           IF \E e \in ToSet(U) : Ends(e, n, rows[n]) THEN Gone ELSE rows[n]
<1>1. PICK p : RowsThrough(p, rows, U)
  BY PatchedStepwise DEF Events
<1>2. ToSet(U) = {U[i] : i \in 1 .. Len(U)} /\ Len(U) \in Nat
  BY Elements DEF Events
<1>3. p[0] = rows /\ 0 \in 0 .. Len(U)
  BY <1>1, <1>2 DEF RowsThrough
<1>4. \A i \in 1 .. Len(U) : i > 0 /\ ~Sets(U[i], n)
  BY <1>2
<1>5. Patched(rows, U)[n] =
        IF \E j \in 1 .. Len(U) : j > 0 /\ Ends(U[j], n, rows[n]) THEN Gone ELSE rows[n]
  BY <1>1, <1>3, <1>4, RowFrom
<1>6. (\E j \in 1 .. Len(U) : j > 0 /\ Ends(U[j], n, rows[n])) <=> \E e \in ToSet(U) : Ends(e, n, rows[n])
  BY <1>2, <1>4
<1> QED
  BY <1>5, <1>6

\* If the k-th event is the last UPSERT, the row shows its object, or is Gone.
LEMMA RowSet ==
  ASSUME NEW rows \in Tables, NEW U \in Events, NEW n \in Names,
         NEW k \in 1 .. Len(U), Sets(U[k], n), \A i \in 1 .. Len(U) : i > k => ~Sets(U[i], n)
  PROVE  Patched(rows, U)[n] = IF DeletedLater(U, k) THEN Gone ELSE U[k].obj
<1>1. PICK p : RowsThrough(p, rows, U)
  BY PatchedStepwise DEF Events
<1>2. Len(U) \in Nat /\ k \in 0 .. Len(U) /\ k - 1 \in 0 .. Len(U)
  BY LenProperties DEF Events
<1>3. PICK e \in ResourceEvent : e = U[k]
  BY ElementOfSeq DEF Events
<1>4. p[k - 1] \in Tables /\ p[k] = Applied(p[k - 1], e)
  BY <1>1, <1>2, <1>3 DEF RowsThrough
<1>5. p[k][n] = e.obj
  BY <1>3, <1>4, AppliedAt DEF Sets
<1>6. e.obj \notin Nothing
  BY EventParts, StoreAssumption DEF Nothing
<1>7. (\E j \in 1 .. Len(U) : j > k /\ Ends(U[j], n, e.obj)) <=> DeletedLater(U, k)
  BY <1>3, <1>6 DEF DeletedLater, Ends, Deletes, KeyOf, Sets
<1>8. Patched(rows, U)[n] =
        IF \E j \in 1 .. Len(U) : j > k /\ Ends(U[j], n, p[k][n]) THEN Gone ELSE p[k][n]
  BY <1>1, <1>2, RowFrom
<1> QED
  BY <1>3, <1>5, <1>7, <1>8

\* There is no UPSERT of a name, or a last one.
LEMMA LastSet ==
  ASSUME NEW U \in Events, NEW n
  PROVE  \/ \A e \in ToSet(U) : ~Sets(e, n)
         \/ \E k \in 1 .. Len(U) : Sets(U[k], n) /\ \A i \in 1 .. Len(U) : i > k => ~Sets(U[i], n)
<1>1. ToSet(U) = {U[i] : i \in 1 .. Len(U)} /\ Len(U) \in Nat
  BY Elements DEF Events
<1>2. PICK K : K = {k \in 1 .. Len(U) : Sets(U[k], n)}
  OBVIOUS
<1>3. CASE K = {}
  BY <1>1, <1>2, <1>3
<1>4. CASE K # {}
  <2>1. PICK d \in Nat : Len(U) - d \in K /\ \A y \in Nat : Len(U) - y \in K => d <= y
    <3>1. PICK D : D = {d \in Nat : Len(U) - d \in K}
      OBVIOUS
    <3>2. PICK k \in K : TRUE
      BY <1>4
    <3>3. Len(U) - k \in Nat /\ Len(U) - (Len(U) - k) = k
      BY <1>1, <1>2
    <3>4. D # {} /\ D \in SUBSET Nat
      BY <3>1, <3>2, <3>3
    <3>5. PICK d \in D : \A y \in D : d <= y
      BY <3>4, LeastNumber
    <3> QED
      BY <3>1, <3>5
  <2>2. PICK k : k = Len(U) - d
    OBVIOUS
  <2>3. k \in 1 .. Len(U) /\ Sets(U[k], n)
    BY <1>2, <2>1, <2>2
  <2>4. ASSUME NEW i \in 1 .. Len(U), i > k, Sets(U[i], n) PROVE FALSE
    <3>1. Len(U) - i \in Nat /\ Len(U) - (Len(U) - i) = i /\ i \in K
      BY <1>1, <1>2, <2>4
    <3>2. d <= Len(U) - i
      BY <2>1, <3>1
    <3> QED
      BY <1>1, <2>2, <2>3, <2>4, <3>2
  <2> QED
    BY <2>3, <2>4
<1> QED
  BY <1>3, <1>4

\* An object in a row was there or was put there.
LEMMA RowComesFrom ==
  ASSUME NEW rows \in Tables, NEW U \in Events, NEW n \in Names, Patched(rows, U)[n] \notin Nothing
  PROVE  \/ Patched(rows, U)[n] = rows[n]
         \/ \E e \in ToSet(U) : Sets(e, n) /\ e.obj = Patched(rows, U)[n]
<1>1. ToSet(U) = {U[i] : i \in 1 .. Len(U)}
  BY Elements DEF Events
<1>2. CASE \A e \in ToSet(U) : ~Sets(e, n)
  BY <1>2, RowKept DEF Nothing
<1>3. CASE ~ \A e \in ToSet(U) : ~Sets(e, n)
  <2>1. PICK k \in 1 .. Len(U) : Sets(U[k], n) /\ \A i \in 1 .. Len(U) : i > k => ~Sets(U[i], n)
    BY <1>3, LastSet
  <2>2. Patched(rows, U)[n] = U[k].obj
    BY <2>1, RowSet DEF Nothing
  <2> QED
    BY <1>1, <2>1, <2>2
<1> QED
  BY <1>2, <1>3

\* A row that no event is about.
LEMMA RowAlone ==
  ASSUME NEW rows \in Tables, NEW U \in Events, NEW n \in Names, \A e \in ToSet(U) : e.name # n
  PROVE  Patched(rows, U)[n] = rows[n]
BY RowKept DEF Sets, Ends

-----------------------------------------------------------------------------
(***************************************************************************)
(* The rows X that the messages and the pending events leave are right for *)
(* the notices q: what they show is reported, a notice that is ignored as  *)
(* shown is shown, and with the notices they show the world, but for the   *)
(* names in m.                                                             *)
(***************************************************************************)
Shown(w, row, n) == IF w[n] = NoObject THEN row \in Nothing ELSE row = w[n]

Right(X, q, w, r, s, m) ==
  /\ \A n \in Names : X[n] \notin Nothing => <<n, X[n].uid>> \in r
  /\ \A e \in ToSet(q) : e.type = "UPSERT" /\ ItemOf(e) \in s => e.name \in m \/ X[e.name] = e.obj
  /\ \A n \in Names : n \in m \/ Shown(w, Patched(X, q)[n], n)

\* Alike rows are equally right.
LEMMA RightSimilar ==
  ASSUME NEW X \in Tables, NEW Y \in Tables, \A n \in Names : Similar(X[n], Y[n]),
         NEW q \in Events, NEW w \in Worlds, NEW r, NEW s, NEW m, Right(X, q, w, r, s, m)
  PROVE  Right(Y, q, w, r, s, m)
<1>1. \A n \in Names : Y[n] \notin Nothing => Y[n] = X[n]
  BY DEF Similar
<1>2. ASSUME NEW e \in ToSet(q), e.type = "UPSERT", ItemOf(e) \in s, e.name \notin m
      PROVE  Y[e.name] = e.obj
  <2>1. e \in ResourceEvent
    BY Elements DEF Events
  <2>2. e.name \in Names /\ e.obj \notin Nothing
    BY <2>1, EventParts, StoreAssumption DEF Nothing
  <2>3. X[e.name] = e.obj
    BY <1>2 DEF Right
  <2> QED
    BY <2>2, <2>3 DEF Similar
<1>3. ASSUME NEW n \in Names, n \notin m PROVE Shown(w, Patched(Y, q)[n], n)
  <2>1. Similar(Patched(X, q)[n], Patched(Y, q)[n])
    BY PatchedSimilar
  <2>2. Shown(w, Patched(X, q)[n], n)
    BY <1>3 DEF Right
  <2>3. w[n] \in Object \cup {NoObject} /\ Gone \notin Object \cup {NoObject}
    BY StoreAssumption DEF Worlds
  <2> QED
    BY <2>1, <2>2, <2>3 DEF Shown, Similar, Nothing
<1> QED
  BY <1>1, <1>2, <1>3 DEF Right

\* A change whose notice is queued leaves right rows right.
LEMMA RightWorld ==
  ASSUME NEW X \in Tables, NEW p \in Events, NEW q \in Events, NEW w \in Worlds, NEW r, NEW s,
         s \subseteq Item, NEW m, NEW c \in Nat, NEW v, NEW e \in ResourceEvent,
         Agent(p, q, w, r, s, c), Change(w, v, c, e), Right(X, q, w, r, s, m)
  PROVE  Right(X, Append(q, e), v, r, s, m)
<1>1. /\ v \in Worlds /\ \A n \in Names : n # e.name => v[n] = w[n]
      /\ e.type = "UPSERT" => v[e.name] = e.obj /\ e.obj.rv = c + 1
           /\ e.obj.uid = (IF w[e.name] = NoObject THEN c + 1 ELSE w[e.name].uid)
      /\ e.type = "DELETE" => v[e.name] = NoObject /\ w[e.name] = e.obj /\ w[e.name] # NoObject
  BY ChangeWorld
<1>2. e.type \in {"UPSERT", "DELETE"} /\ e.obj.rv \in Nat /\ e.obj \in Object /\ e.obj # NoObject
      /\ e.name \in Names
  BY EventParts
<1>3. ToSet(Append(q, e)) = ToSet(q) \cup {e}
  BY AppendAt
<1>4. ~(e.type = "UPSERT" /\ ItemOf(e) \in s)
  <2>1. SUFFICES ASSUME e.type = "UPSERT", ItemOf(e) \in s PROVE FALSE
    OBVIOUS
  <2>2. e.obj.rv <= c
    BY <2>1 DEF Agent, Apart, ItemOf
  <2> QED
    BY <1>1, <1>2, <2>1, <2>2
<1>5. Patched(X, q) \in Tables /\ Patched(X, Append(q, e)) = Applied(Patched(X, q), e)
  BY PatchedAppend, PatchedType DEF Events
<1>6. ASSUME NEW n \in Names, n \notin m PROVE Shown(v, Patched(X, Append(q, e))[n], n)
  <2>1. Shown(w, Patched(X, q)[n], n)
    BY <1>6 DEF Right
  <2>2. Applied(Patched(X, q), e)[n] =
           IF e.name # n THEN Patched(X, q)[n]
           ELSE IF e.type = "UPSERT" THEN e.obj
           ELSE IF Patched(X, q)[n] \notin Nothing /\ Patched(X, q)[n].uid = e.obj.uid
           THEN Gone ELSE Patched(X, q)[n]
    BY <1>5, AppliedAt
  <2>3. CASE e.name # n
    BY <1>1, <1>5, <2>1, <2>2, <2>3 DEF Shown
  <2>4. CASE e.name = n /\ e.type = "UPSERT"
    BY <1>1, <1>2, <1>5, <2>2, <2>4 DEF Shown
  <2>5. CASE e.name = n /\ e.type = "DELETE"
    <3>1. Patched(X, q)[n] = e.obj /\ e.obj \notin Nothing
      BY <1>1, <1>2, <2>1, <2>5, StoreAssumption DEF Shown, Nothing
    <3>2. ~(e.type = "UPSERT")
      BY <2>5
    <3>3. Applied(Patched(X, q), e)[n] = Gone
      BY <2>2, <2>5, <3>1, <3>2
    <3>4. v[n] = NoObject
      BY <1>1, <2>5
    <3> QED
      BY <1>5, <3>3, <3>4 DEF Shown, Nothing
  <2> QED
    BY <1>2, <2>3, <2>4, <2>5
<1> QED
  BY <1>3, <1>4, <1>6 DEF Right

\* The first notice is ignored, or joins the pending events.
LEMMA RightIgnore ==
  ASSUME NEW X \in Tables, NEW q \in Events, q # <<>>, NEW w \in Worlds, NEW r, NEW s, NEW m, NEW m2,
         m \subseteq m2, Right(X, q, w, r, s, m),
         \/ Head(q).type = "DELETE" /\ KeyOf(Head(q)) \notin r
         \/ Head(q).type = "UPSERT" /\ ItemOf(Head(q)) \in s
  PROVE  Right(X, Tail(q), w, r, s, m2)
<1>1. PICK e, V : e = Head(q) /\ V = Tail(q)
  OBVIOUS
<1>2. /\ e \in ResourceEvent /\ V \in Events /\ e \in ToSet(q) /\ ToSet(q) = {e} \cup ToSet(V)
      /\ Patched(X, q) = Patched(Applied(X, e), V)
  BY <1>1, PatchedHead, TailAt
<1>3. Applied(X, e) \in Tables /\ e.name \in Names
  BY <1>2, AppliedType, EventParts
<1>4. ASSUME NEW n \in Names, n \notin m2 PROVE Shown(w, Patched(X, V)[n], n)
  <2>1. Shown(w, Patched(X, q)[n], n) /\ n \notin m
    BY <1>4 DEF Right
  <2>2. Applied(X, e)[n] =
           IF e.name # n THEN X[n]
           ELSE IF e.type = "UPSERT" THEN e.obj
           ELSE IF X[n] \notin Nothing /\ X[n].uid = e.obj.uid THEN Gone ELSE X[n]
    BY <1>2, AppliedAt
  <2>3. Applied(X, e)[n] = X[n]
    <3>1. CASE e.name # n
      BY <2>2, <3>1
    <3>2. CASE e.name = n /\ e.type = "UPSERT"
      <4>1. X[n] = e.obj
        BY <1>1, <1>2, <2>1, <3>2 DEF Right
      <4> QED
        BY <2>2, <3>2, <4>1
    <3>3. CASE e.name = n /\ e.type # "UPSERT"
      <4>1. KeyOf(e) \notin r
        BY <1>1, <3>3
      <4>2. ~(X[n] \notin Nothing /\ X[n].uid = e.obj.uid)
        BY <3>3, <4>1 DEF Right, KeyOf
      <4> QED
        BY <2>2, <3>3, <4>2
    <3> QED
      BY <3>1, <3>2, <3>3
  <2>4. Similar(Applied(X, e)[n], X[n])
    BY <2>3 DEF Similar
  <2>5. Similar(Patched(Applied(X, e), V)[n], Patched(X, V)[n])
    BY <1>2, <1>3, <2>4, PatchedSimilar
  <2>6. w[n] \in Object \cup {NoObject} /\ Gone \notin Object \cup {NoObject}
    BY StoreAssumption DEF Worlds
  <2> QED
    BY <1>2, <2>1, <2>5, <2>6 DEF Shown, Similar, Nothing
<1> QED
  BY <1>1, <1>2, <1>4 DEF Right

\* The first notice, applied to right rows, leaves them right for the rest.
LEMMA RightEnqueue ==
  ASSUME NEW X \in Tables, NEW p \in Events, NEW q \in Events, q # <<>>, NEW w \in Worlds, NEW r, NEW s,
         s \subseteq Item, NEW m, NEW c \in Nat, Agent(p, q, w, r, s, c), Right(X, q, w, r, s, m),
         NEW e, e = Head(q),
         NEW r2, r2 = (IF e.type = "DELETE" THEN r \ {KeyOf(e)} ELSE r \cup {KeyOf(e)}),
         NEW m2, m2 = (IF Outdates(e, s) THEN m \cup {e.name} ELSE m)
  PROVE  Applied(X, e) \in Tables /\ Right(Applied(X, e), Tail(q), w, r2, Forget(s, e), m2)
<1>1. PICK V : V = Tail(q)
  OBVIOUS
<1>2. /\ e \in ResourceEvent /\ V \in Events /\ ToSet(q) = {e} \cup ToSet(V)
      /\ Patched(X, q) = Patched(Applied(X, e), V)
  BY <1>1, PatchedHead, TailAt
<1>3. Applied(X, e) \in Tables /\ e.name \in Names /\ e.type \in {"UPSERT", "DELETE"}
      /\ e.obj.uid \in Nat
  BY <1>2, AppliedType, EventParts
<1>4. \A n \in Names : Applied(X, e)[n] =
           IF e.name # n THEN X[n]
           ELSE IF e.type = "UPSERT" THEN e.obj
           ELSE IF X[n] \notin Nothing /\ X[n].uid = e.obj.uid THEN Gone ELSE X[n]
  BY <1>2, AppliedAt
<1>5. ASSUME NEW n \in Names, Applied(X, e)[n] \notin Nothing
      PROVE  <<n, Applied(X, e)[n].uid>> \in r2
  <2>1. CASE e.name # n
    <3>1. Applied(X, e)[n] = X[n] /\ <<n, X[n].uid>> \in r
      BY <1>4, <1>5, <2>1 DEF Right
    <3>2. <<n, X[n].uid>> # KeyOf(e)
      BY <2>1 DEF KeyOf
    <3> QED
      BY <3>1, <3>2
  <2>2. CASE e.name = n /\ e.type = "UPSERT"
    BY <1>4, <2>2 DEF KeyOf
  <2>3. CASE e.name = n /\ e.type = "DELETE"
    <3>1. ~(e.type = "UPSERT") /\ Gone \in Nothing
      BY <2>3 DEF Nothing
    <3>2. Applied(X, e)[n] = X[n] /\ X[n] \notin Nothing /\ X[n].uid # e.obj.uid
      BY <1>4, <1>5, <2>3, <3>1
    <3>3. <<n, X[n].uid>> \in r /\ <<n, X[n].uid>> # KeyOf(e)
      BY <3>2 DEF Right, KeyOf
    <3> QED
      BY <3>2, <3>3
  <2> QED
    BY <1>3, <2>1, <2>2, <2>3
<1>6. ASSUME NEW f \in ToSet(V), f.type = "UPSERT", ItemOf(f) \in Forget(s, e), f.name \notin m2
      PROVE  Applied(X, e)[f.name] = f.obj
  <2>1. f \in ToSet(q) /\ f \in ResourceEvent /\ m \subseteq m2 /\ ItemOf(f) \in s
    BY <1>2, <1>6, Elements DEF Events, Forget
  <2>2. X[f.name] = f.obj /\ f.name \in Names /\ f.obj.uid \in Nat /\ f.obj # NoObject /\ f.obj # Gone
    BY <1>6, <2>1, EventParts, StoreAssumption DEF Right
  <2>3. CASE e.name # f.name
    BY <1>4, <2>2, <2>3
  <2>4. CASE e.name = f.name
    <3>1. f.obj.uid # e.obj.uid
      BY <1>6, <2>4 DEF Forget, objectKey, ItemOf, KeyOf
    <3>2. Earlier(e, f)
      BY <1>1, <1>6, HeadTold DEF Agent, InTurn
    <3>3. e.obj.uid < f.obj.uid
      BY <1>3, <2>2, <2>4, <3>1, <3>2 DEF Earlier
    <3>4. e.type # "UPSERT"
      <4>1. SUFFICES ASSUME e.type = "UPSERT" PROVE FALSE
        OBVIOUS
      <4>2. f.obj.uid > e.obj.uid
        BY <1>3, <2>2, <3>3
      <4>3. Outdates(e, s)
        BY <2>1, <2>4, <4>1, <4>2 DEF Outdates, ItemOf
      <4> QED
        BY <1>6, <2>4, <4>3
    <3> QED
      BY <1>4, <2>2, <2>4, <3>1, <3>4
  <2> QED
    BY <2>3, <2>4
<1>7. \A n \in Names : n \in m2 \/ Shown(w, Patched(Applied(X, e), V)[n], n)
  BY <1>2 DEF Right
<1> QED
  BY <1>1, <1>3, <1>5, <1>6, <1>7 DEF Right
-----------------------------------------------------------------------------
(***************************************************************************)
(* While the listing L is sent, the pending events p and the notices q     *)
(* tell what has changed since, but for the names in m.                    *)
(***************************************************************************)
Covers(L, p, q, w, s, m) ==
  /\ \A n \in Names : w[n] # NoObject /\ <<n, w[n]>> \notin L => Now(w, n) \in ToSet(p) \cup ToSet(q)
  /\ \A it \in L : w[it[1]] = NoObject \/ w[it[1]].uid # it[2].uid =>
       it[1] \in m \/ \E d \in ToSet(p) \cup ToSet(q) : d.type = "DELETE" /\ KeyOf(d) = objectKey(it)
  /\ \A it \in s : it[2] = w[it[1]] => it \in L

\* A change whose notice is queued is told of.
LEMMA CoversWorld ==
  ASSUME NEW L, L \subseteq Item, NEW p \in Events, NEW q \in Events, NEW w \in Worlds, NEW r, NEW s,
         s \subseteq Item, NEW m, NEW c \in Nat, NEW v, NEW e \in ResourceEvent,
         Agent(p, q, w, r, s, c), Change(w, v, c, e), Covers(L, p, q, w, s, m)
  PROVE  Covers(L, p, Append(q, e), v, s, m)
<1>1. /\ v \in Worlds /\ \A n \in Names : n # e.name => v[n] = w[n]
      /\ e.type = "UPSERT" => v[e.name] = e.obj /\ e.obj.rv = c + 1
           /\ e.obj.uid = (IF w[e.name] = NoObject THEN c + 1 ELSE w[e.name].uid)
      /\ e.type = "DELETE" => v[e.name] = NoObject /\ w[e.name] = e.obj /\ w[e.name] # NoObject
  BY ChangeWorld
<1>2. e.type \in {"UPSERT", "DELETE"} /\ e.obj # NoObject /\ e.name \in Names /\ e.obj.rv \in Nat
  BY EventParts
<1>3. ToSet(Append(q, e)) = ToSet(q) \cup {e}
  BY AppendAt
<1>4. ASSUME NEW n \in Names, v[n] # NoObject, <<n, v[n]>> \notin L
      PROVE  Now(v, n) \in ToSet(p) \cup ToSet(q) \cup {e}
  <2>1. CASE n = e.name
    <3>1. e.type = "UPSERT" /\ v[n] = e.obj
      BY <1>1, <1>2, <1>4, <2>1
    <3>2. e = [type |-> "UPSERT", name |-> n, obj |-> v[n]]
      BY <2>1, <3>1 DEF ResourceEvent
    <3> QED
      BY <3>2 DEF Now
  <2>2. CASE n # e.name
    <3>1. v[n] = w[n]
      BY <1>1, <2>2
    <3>2. Now(w, n) \in ToSet(p) \cup ToSet(q)
      BY <1>4, <3>1 DEF Covers
    <3> QED
      BY <3>1, <3>2 DEF Now
  <2> QED
    BY <2>1, <2>2
<1>5. ASSUME NEW it \in L, v[it[1]] = NoObject \/ v[it[1]].uid # it[2].uid, it[1] \notin m
      PROVE  \E d \in ToSet(p) \cup ToSet(q) \cup {e} : d.type = "DELETE" /\ KeyOf(d) = objectKey(it)
  <2>1. it[1] \in Names
    BY ItemType
  <2>2. w[it[1]] = NoObject \/ w[it[1]].uid # it[2].uid =>
          \E d \in ToSet(p) \cup ToSet(q) : d.type = "DELETE" /\ KeyOf(d) = objectKey(it)
    BY <1>5 DEF Covers
  <2>3. CASE it[1] # e.name
    <3>1. v[it[1]] = w[it[1]]
      BY <1>1, <2>1, <2>3
    <3> QED
      BY <1>5, <2>2, <3>1
  <2>4. CASE it[1] = e.name /\ e.type = "UPSERT"
    <3>1. w[it[1]] # NoObject => v[it[1]].uid = w[it[1]].uid
      BY <1>1, <2>4
    <3>2. v[it[1]] # NoObject
      BY <1>1, <1>2, <2>4
    <3> QED
      BY <1>5, <2>2, <3>1, <3>2
  <2>5. CASE it[1] = e.name /\ e.type = "DELETE"
    <3>1. CASE w[it[1]].uid # it[2].uid
      BY <2>2, <3>1
    <3>2. CASE w[it[1]].uid = it[2].uid
      <4>1. e.obj.uid = it[2].uid
        BY <1>1, <2>5, <3>2
      <4>2. KeyOf(e) = objectKey(it)
        BY <2>5, <4>1 DEF KeyOf, objectKey
      <4> QED
        BY <2>5, <4>2
    <3> QED
      BY <3>1, <3>2
  <2> QED
    BY <1>2, <2>3, <2>4, <2>5
<1>6. ASSUME NEW it \in s, it[2] = v[it[1]] PROVE it \in L
  <2>1. it[1] \in Names /\ it[2] \in Object /\ it[2] # NoObject /\ it[2].rv \in Nat
    BY InventoryAssumption, ItemType DEF Object
  <2>2. it[2].rv <= c
    BY DEF Agent, Apart
  <2>3. it[1] # e.name
    <3>1. SUFFICES ASSUME it[1] = e.name PROVE FALSE
      OBVIOUS
    <3>2. v[e.name] = it[2] /\ v[e.name] # NoObject
      BY <1>6, <2>1, <3>1
    <3>3. it[2].rv = c + 1
      BY <1>1, <1>2, <3>2
    <3> QED
      BY <2>1, <2>2, <3>3
  <2>4. v[it[1]] = w[it[1]]
    BY <1>1, <2>1, <2>3
  <2> QED
    BY <1>6, <2>4 DEF Covers
<1> QED
  BY <1>3, <1>4, <1>5, <1>6 DEF Covers

\* The first notice joins the pending events, or is ignored.
LEMMA CoversEnqueue ==
  ASSUME NEW L, NEW p \in Events, NEW q \in Events, q # <<>>, NEW w, NEW s, NEW m, NEW m2,
         m \subseteq m2, NEW e, e = Head(q), Covers(L, p, q, w, s, m)
  PROVE  Covers(L, Append(p, e), Tail(q), w, Forget(s, e), m2)
<1>1. e \in ResourceEvent /\ ToSet(q) = {e} \cup ToSet(Tail(q))
  BY TailAt
<1>2. ToSet(Append(p, e)) = ToSet(p) \cup {e}
  BY <1>1, AppendAt
<1>3. ToSet(Append(p, e)) \cup ToSet(Tail(q)) = ToSet(p) \cup ToSet(q)
  BY <1>1, <1>2
<1>4. Forget(s, e) \subseteq s
  BY DEF Forget
<1> QED
  BY <1>3, <1>4 DEF Covers

\* A notice that is ignored told nothing, or its name is known to be missed.
LEMMA CoversIgnore ==
  ASSUME NEW L, NEW p \in Events, NEW q \in Events, q # <<>>, NEW w, NEW s, NEW m, NEW m2,
         m \subseteq m2, NEW e, e = Head(q), Covers(L, p, q, w, s, m),
         \/ e.type = "DELETE" /\ ((\E it \in L : objectKey(it) = KeyOf(e)) => e.name \in m2)
         \/ e.type = "UPSERT" /\ ItemOf(e) \in s
  PROVE  Covers(L, p, Tail(q), w, s, m2)
<1>1. e \in ResourceEvent /\ ToSet(q) = {e} \cup ToSet(Tail(q))
  BY TailAt
<1>2. ASSUME NEW n \in Names, w[n] # NoObject, <<n, w[n]>> \notin L
      PROVE  Now(w, n) \in ToSet(p) \cup ToSet(Tail(q))
  <2>1. Now(w, n) \in ToSet(p) \cup ToSet(q)
    BY <1>2 DEF Covers
  <2>2. Now(w, n) # e
    <3>1. SUFFICES ASSUME e = Now(w, n) PROVE FALSE
      OBVIOUS
    <3>2. e.type = "UPSERT" /\ e.name = n /\ e.obj = w[n]
      BY <3>1 DEF Now
    <3>3. <<n, w[n]>> \in s
      BY <3>2 DEF ItemOf
    <3> QED
      BY <1>2, <3>3 DEF Covers
  <2> QED
    BY <1>1, <2>1, <2>2
<1>3. ASSUME NEW it \in L, w[it[1]] = NoObject \/ w[it[1]].uid # it[2].uid, it[1] \notin m2
      PROVE  \E d \in ToSet(p) \cup ToSet(Tail(q)) : d.type = "DELETE" /\ KeyOf(d) = objectKey(it)
  <2>1. PICK d \in ToSet(p) \cup ToSet(q) : d.type = "DELETE" /\ KeyOf(d) = objectKey(it)
    BY <1>3 DEF Covers
  <2>2. d # e
    <3>1. SUFFICES ASSUME d = e PROVE FALSE
      OBVIOUS
    <3>2. e.name = it[1]
      BY <2>1, <3>1 DEF KeyOf, objectKey
    <3>3. e.type = "DELETE" /\ objectKey(it) = KeyOf(e)
      BY <2>1, <3>1
    <3>4. e.name \in m2
      BY <3>3
    <3> QED
      BY <1>3, <3>2, <3>4
  <2> QED
    BY <1>1, <2>1, <2>2
<1> QED
  BY <1>2, <1>3 DEF Covers

-----------------------------------------------------------------------------
\* The rows of a listing.
RowsOf(L) == [n \in Names |-> RowOf(L, n)]

\* The rows of a listing show its items and no others.
LEMMA RowsOfListing ==
  ASSUME NEW L, L \subseteq Item, NEW c, ListingOK(L, c), NEW n \in Names
  PROVE  /\ RowsOf(L) \in Tables
         /\ \A o : <<n, o>> \in L => RowsOf(L)[n] = o
         /\ RowsOf(L)[n] # NoObject => RowsOf(L)[n] \in Object /\ <<n, RowsOf(L)[n]>> \in L
         /\ RowsOf(L)[n] # Gone
<1>1. ASSUME NEW k \in Names PROVE /\ RowOf(L, k) # NoObject => RowOf(L, k) \in Object /\ <<k, RowOf(L, k)>> \in L
                                   /\ \A o : <<k, o>> \in L => RowOf(L, k) = o
  <2>1. CASE \E i \in L : i[1] = k
    <3>1. PICK i : i = CHOOSE j \in L : j[1] = k
      OBVIOUS
    <3>2. i \in L /\ i[1] = k
      BY <2>1, <3>1
    <3>3. RowOf(L, k) = i[2]
      BY <2>1, <3>1 DEF RowOf
    <3>4. i = <<k, i[2]>> /\ i[2] \in Object
      BY <3>2, ItemType
    <3>5. \A o : <<k, o>> \in L => <<k, o>> = i
      BY <3>2 DEF ListingOK
    <3>6. \A o : <<k, o>> \in L => o = i[2]
      BY <3>5
    <3> QED
      BY <3>2, <3>3, <3>4, <3>6
  <2>2. CASE ~ \E i \in L : i[1] = k
    <3>1. RowOf(L, k) = NoObject /\ \A o : <<k, o>> \notin L
      BY <2>2 DEF RowOf
    <3> QED
      BY <3>1
  <2> QED
    BY <2>1, <2>2
<1>2. RowsOf(L) \in Tables
  BY <1>1 DEF RowsOf, Tables
<1>3. RowsOf(L)[n] = RowOf(L, n)
  BY DEF RowsOf
<1> QED
  BY <1>1, <1>2, <1>3, StoreAssumption

(***************************************************************************)
(* When the last chunk is queued, the rows of the listing and the pending  *)
(* events that are kept are right for the notices.                         *)
(***************************************************************************)
LEMMA FinishRight ==
  ASSUME NEW p \in Events, NEW q \in Events, NEW w \in Worlds, NEW c \in Nat, NEW s, NEW m,
         NEW L, L \subseteq Item, ListingOK(L, c), Covers(L, p, q, w, s, m),
         NEW t \in Events, ToSet(t) \subseteq ToSet(p),
         \A e \in ToSet(p) : ~(e.type = "UPSERT" /\ ItemOf(e) \in L) => e \in ToSet(t),
         NEW r2, r2 = {objectKey(i) : i \in L} \cup {KeyOf(e) : e \in {x \in ToSet(t) : x.type = "UPSERT"}},
         NEW s2, s2 = {i \in L : \A e \in ToSet(t) : KeyOf(e) # objectKey(i)},
         NEW m2, m2 = m \cup {e.name : e \in {x \in ToSet(t) : Outdates(x, L)}},
         Agent(t, q, w, r2, s2, c)
  PROVE  Right(Patched(RowsOf(L), t), q, w, r2, s2, m2)
<1>1. /\ ToSet(t) = {t[i] : i \in 1 .. Len(t)} /\ ToSet(q) = {q[i] : i \in 1 .. Len(q)}
      /\ ToSet(t) \subseteq ResourceEvent /\ ToSet(q) \subseteq ResourceEvent
      /\ Len(t) \in Nat /\ Len(q) \in Nat
  BY Elements DEF Events
<1>2. PICK B \in Tables : B = RowsOf(L)
  <2>1. Names = {} \/ Names # {}
    OBVIOUS
  <2>2. RowsOf(L) \in Tables
    <3>1. CASE Names = {}
      BY <3>1 DEF RowsOf, Tables
    <3>2. CASE Names # {}
      BY <3>2, RowsOfListing
    <3> QED
      BY <3>1, <3>2
  <2> QED
    BY <2>2
<1>3. \A n \in Names : /\ \A o : <<n, o>> \in L => B[n] = o
                       /\ B[n] # NoObject => B[n] \in Object /\ <<n, B[n]>> \in L
                       /\ B[n] # Gone
  BY <1>2, RowsOfListing
<1>4. PICK X \in Tables : X = Patched(B, t)
  BY PatchedType DEF Events
\* What is told of an object that there is.
<1>5. ASSUME NEW e \in ToSet(t) \cup ToSet(q), w[e.name] # NoObject
      PROVE  /\ e.name \in Names /\ e.obj.uid \in Nat /\ w[e.name].uid \in Nat
             /\ e.obj.rv \in Nat /\ w[e.name].rv \in Nat
             /\ e.obj.uid <= w[e.name].uid
             /\ e.type = "UPSERT" => e.obj.rv <= w[e.name].rv
             /\ e.type = "DELETE" => e.obj.uid < w[e.name].uid
  <2>1. e \in ResourceEvent /\ Past(w, c, e)
    BY <1>1 DEF Agent, AllPast
  <2>2. e.name \in Names /\ e.obj.uid \in Nat /\ e.obj.rv \in Nat
    BY <2>1, EventParts
  <2>3. w[e.name].uid \in Nat /\ w[e.name].rv \in Nat
    BY <1>5, <2>2, WorldNumbers
  <2> QED
    BY <1>5, <2>1, <2>2, <2>3 DEF Past
<1>6. ASSUME NEW n \in Names, X[n] \notin Nothing PROVE <<n, X[n].uid>> \in r2
  <2>1. X[n] = B[n] \/ \E e \in ToSet(t) : Sets(e, n) /\ e.obj = X[n]
    BY <1>4, <1>6, RowComesFrom
  <2>2. CASE X[n] = B[n]
    <3>1. <<n, X[n]>> \in L
      BY <1>3, <1>6, <2>2 DEF Nothing
    <3>2. objectKey(<<n, X[n]>>) = <<n, X[n].uid>>
      BY DEF objectKey
    <3> QED
      BY <3>1, <3>2
  <2>3. ASSUME NEW e \in ToSet(t), Sets(e, n), e.obj = X[n] PROVE <<n, X[n].uid>> \in r2
    <3>1. KeyOf(e) = <<n, X[n].uid>> /\ e.type = "UPSERT"
      BY <2>3 DEF KeyOf, Sets
    <3> QED
      BY <3>1
  <2> QED
    BY <2>1, <2>2, <2>3
<1>7. ASSUME NEW f \in ToSet(q), f.type = "UPSERT", ItemOf(f) \in s2, f.name \notin m2
      PROVE  X[f.name] = f.obj
  <2>1. /\ f \in ResourceEvent /\ f.name \in Names /\ f.obj.uid \in Nat /\ <<f.name, f.obj>> \in L
        /\ \A e \in ToSet(t) : KeyOf(e) # KeyOf(f)
    BY <1>1, <1>7, EventParts DEF ItemOf, objectKey, KeyOf
  <2>2. B[f.name] = f.obj
    BY <1>3, <2>1
  <2>3. ASSUME NEW e \in ToSet(t), Sets(e, f.name) PROVE FALSE
    <3>1. e.name = f.name /\ e.type = "UPSERT" /\ e.obj.uid # f.obj.uid /\ e.obj.uid \in Nat
      BY <1>1, <2>1, <2>3, EventParts DEF Sets, KeyOf
    <3>2. Earlier(e, f)
      BY DEF Agent, InTurn
    <3>3. f.obj.uid > e.obj.uid
      BY <2>1, <3>1, <3>2 DEF Earlier
    <3>4. Outdates(e, L)
      BY <2>1, <3>1, <3>3 DEF Outdates
    <3> QED
      BY <1>7, <3>1, <3>4
  <2>4. \A e \in ToSet(t) : ~Ends(e, f.name, B[f.name])
    BY <2>1, <2>2 DEF Ends, KeyOf
  <2> QED
    BY <1>4, <2>1, <2>2, <2>3, <2>4, RowKept
<1>8. ASSUME NEW n \in Names, n \notin m2 PROVE Shown(w, Patched(X, q)[n], n)
  <2>1. w[n] \in Object \cup {NoObject}
    BY DEF Worlds
  <2>2. CASE \E e \in ToSet(q) : Sets(e, n)
    <3>1. PICK k \in 1 .. Len(q) : Sets(q[k], n) /\ \A i \in 1 .. Len(q) : i > k => ~Sets(q[i], n)
      BY <2>2, LastSet
    <3>2. Patched(X, q)[n] = IF DeletedLater(q, k) THEN Gone ELSE q[k].obj
      BY <3>1, RowSet
    <3>3. CASE w[n] = NoObject
      <4>1. DeletedLater(q, k)
        BY <3>1, <3>3 DEF Agent, EndTold, IsNow, Sets
      <4> QED
        BY <3>2, <3>3, <4>1 DEF Shown, Nothing
    <3>4. CASE w[n] # NoObject
      <4>1. ASSUME NEW i \in 1 .. Len(q), i >= k, q[i].name = n PROVE i = k /\ q[i] = Now(w, n)
        <5>1. PICK j \in 1 .. Len(q) : j >= i /\ q[j] = Now(w, n)
          BY <3>4, <4>1 DEF Agent, LastTells
        <5>2. Sets(q[j], n)
          BY <5>1 DEF Sets, Now
        <5>3. ~(j > k)
          BY <3>1, <5>2
        <5>4. j = k /\ i = k
          BY <1>1, <4>1, <5>1, <5>3
        <5> QED
          BY <5>1, <5>4
      <4>2. k >= k /\ q[k].name = n
        BY <1>1, <3>1 DEF Sets
      <4>3. q[k].obj = w[n]
        BY <4>1, <4>2 DEF Now
      <4>4. ~DeletedLater(q, k)
        <5>1. SUFFICES ASSUME NEW j \in 1 .. Len(q), j > k, Deletes(q[j], q[k]) PROVE FALSE
          BY DEF DeletedLater
        <5>2. q[j].name = n
          BY <4>2, <5>1 DEF Deletes, KeyOf
        <5>3. j >= k /\ j # k
          BY <1>1, <5>1
        <5> QED
          BY <4>1, <5>2, <5>3
      <4> QED
        BY <3>2, <3>4, <4>3, <4>4 DEF Shown
    <3> QED
      BY <3>3, <3>4
  <2>3. CASE ~ \E e \in ToSet(q) : Sets(e, n)
    <3>1. Patched(X, q)[n] = IF \E e \in ToSet(q) : Ends(e, n, X[n]) THEN Gone ELSE X[n]
      BY <2>3, RowKept
    <3>2. (\A e \in ToSet(t) : ~Sets(e, n)) =>
            X[n] = IF \E e \in ToSet(t) : Ends(e, n, B[n]) THEN Gone ELSE B[n]
      BY <1>4, RowKept
    <3>3. ASSUME NEW k \in 1 .. Len(t), Sets(t[k], n), \A i \in 1 .. Len(t) : i > k => ~Sets(t[i], n)
          PROVE  X[n] = IF DeletedLater(t, k) THEN Gone ELSE t[k].obj
      BY <1>4, <3>3, RowSet
    <3>4. CASE w[n] = NoObject
      <4>1. CASE \A e \in ToSet(t) : ~Sets(e, n)
        <5>1. X[n] = Gone \/ X[n] = B[n]
          BY <3>2, <4>1
        <5>2. CASE X[n] = B[n] /\ B[n] # NoObject
          <6>1. <<n, B[n]>> \in L /\ <<n, B[n]>>[1] = n /\ <<n, B[n]>>[2] = B[n]
            BY <1>3, <5>2
          <6>2. n \in m \/ \E d \in ToSet(p) \cup ToSet(q) : d.type = "DELETE" /\ KeyOf(d) = objectKey(<<n, B[n]>>)
            BY <3>4, <6>1 DEF Covers
          <6>3. PICK d \in ToSet(p) \cup ToSet(q) : d.type = "DELETE" /\ KeyOf(d) = objectKey(<<n, B[n]>>)
            BY <1>8, <6>2
          <6>4. B[n] \notin Nothing
            BY <1>3, <5>2 DEF Nothing
          <6>5. Ends(d, n, B[n])
            BY <6>3, <6>4 DEF Ends, KeyOf, objectKey
          <6>6. d \in ToSet(t) \/ d \in ToSet(q)
            BY <6>3
          <6>7. CASE d \in ToSet(t)
            <7>1. X[n] = Gone
              BY <3>2, <4>1, <6>5, <6>7
            <7> QED
              BY <3>1, <3>4, <7>1 DEF Shown, Nothing
          <6>8. CASE d \in ToSet(q)
            BY <3>1, <3>4, <5>2, <6>5, <6>8 DEF Shown, Nothing
          <6> QED
            BY <6>6, <6>7, <6>8
        <5>3. CASE X[n] = Gone \/ (X[n] = B[n] /\ B[n] = NoObject)
          BY <3>1, <3>4, <5>3 DEF Shown, Nothing
        <5> QED
          BY <5>1, <5>2, <5>3
      <4>2. CASE ~ \A e \in ToSet(t) : ~Sets(e, n)
        <5>1. PICK k \in 1 .. Len(t) : Sets(t[k], n) /\ \A i \in 1 .. Len(t) : i > k => ~Sets(t[i], n)
          BY <4>2, LastSet
        <5>2. CASE DeletedLater(t, k)
          <6>1. X[n] = Gone
            BY <3>3, <5>1, <5>2
          <6> QED
            BY <3>1, <3>4, <6>1 DEF Shown, Nothing
        <5>3. CASE ~DeletedLater(t, k)
          <6>1. X[n] = t[k].obj
            BY <3>3, <5>1, <5>3
          <6>2. t[k] \in ResourceEvent
            BY <1>1
          <6>3. PICK d \in ToSet(q) : Deletes(d, t[k])
            BY <3>4, <5>1, <5>3 DEF Agent, EndReported, IsNow, Sets
          <6>4. t[k].obj \notin Nothing
            BY <6>2, EventParts, StoreAssumption DEF Nothing
          <6>5. Ends(d, n, X[n])
            BY <5>1, <6>1, <6>3, <6>4 DEF Ends, Deletes, KeyOf, Sets
          <6> QED
            BY <3>1, <3>4, <6>5 DEF Shown, Nothing
        <5> QED
          BY <5>2, <5>3
      <4> QED
        BY <4>1, <4>2
    <3>5. CASE w[n] # NoObject
      <4>1. \A e \in ToSet(q) : e.name # n
        <5>1. SUFFICES ASSUME NEW i \in 1 .. Len(q), q[i].name = n PROVE FALSE
          BY <1>1
        <5>2. PICK j \in 1 .. Len(q) : q[j] = Now(w, n)
          BY <3>5, <5>1 DEF Agent, LastTells
        <5> QED
          BY <1>1, <2>3, <5>2 DEF Sets, Now
      <4>2. Patched(X, q)[n] = X[n]
        BY <3>1, <4>1 DEF Ends
      <4>3. Now(w, n).type = "UPSERT" /\ Now(w, n).name = n /\ Now(w, n).obj = w[n]
            /\ ItemOf(Now(w, n)) = <<n, w[n]>>
        BY DEF Now, ItemOf
      <4>4. Now(w, n) \notin ToSet(q)
        BY <4>1, <4>3
      <4>5. <<n, w[n]>> \in L \/ Now(w, n) \in ToSet(t)
        <5>1. <<n, w[n]>> \notin L => Now(w, n) \in ToSet(p)
          BY <3>5, <4>4 DEF Covers
        <5> QED
          BY <4>3, <5>1
      <4>6. X[n] = w[n]
        <5>1. CASE \A e \in ToSet(t) : ~Sets(e, n)
          <6>1. <<n, w[n]>> \in L
            BY <4>3, <4>5, <5>1 DEF Sets
          <6>2. B[n] = w[n]
            BY <1>3, <6>1
          <6>3. ASSUME NEW e \in ToSet(t), Ends(e, n, B[n]) PROVE FALSE
            <7>1. e.type = "DELETE" /\ e.name = n /\ w[n].uid = e.obj.uid
              BY <6>2, <6>3 DEF Ends
            <7>2. e.obj.uid < w[n].uid /\ e.obj.uid \in Nat
              BY <1>5, <3>5, <7>1
            <7> QED
              BY <7>1, <7>2
          <6> QED
            BY <3>2, <5>1, <6>2, <6>3
        <5>2. CASE ~ \A e \in ToSet(t) : ~Sets(e, n)
          <6>1. PICK k \in 1 .. Len(t) : Sets(t[k], n) /\ \A i \in 1 .. Len(t) : i > k => ~Sets(t[i], n)
            BY <5>2, LastSet
          <6>2. PICK u \in ResourceEvent : u = t[k] /\ u \in ToSet(t)
            BY <1>1
          <6>3. u.name = n /\ u.type = "UPSERT"
            BY <6>1, <6>2 DEF Sets
          <6>4. /\ u.obj.uid \in Nat /\ w[n].uid \in Nat /\ u.obj.rv \in Nat /\ w[n].rv \in Nat
                /\ u.obj.uid <= w[n].uid /\ u.obj.rv <= w[n].rv
            BY <1>5, <3>5, <6>2, <6>3
          \* The event of the object as it is comes no later than u.
          <6>5. ASSUME Now(w, n) \in ToSet(t)
                PROVE  u = Now(w, n) \/ Earlier(Now(w, n), u)
            <7>1. PICK j \in 1 .. Len(t) : t[j] = Now(w, n)
              BY <1>1, <6>5
            <7>2. ~(j > k)
              BY <4>3, <6>1, <7>1 DEF Sets
            <7>3. j = k \/ j < k
              BY <1>1, <7>2
            <7>4. j < k => Earlier(t[j], t[k])
              BY DEF Agent, InTurn, InTime
            <7> QED
              BY <6>2, <7>1, <7>3, <7>4
          <6>6. ~DeletedLater(t, k)
            <7>1. SUFFICES ASSUME NEW j \in 1 .. Len(t), Deletes(t[j], u) PROVE FALSE
              BY <6>2 DEF DeletedLater
            <7>2. t[j] \in ToSet(t) /\ t[j].type = "DELETE" /\ t[j].name = n /\ t[j].obj.uid = u.obj.uid
              BY <1>1, <6>3, <7>1 DEF Deletes, KeyOf
            <7>3. u.obj.uid < w[n].uid
              BY <1>5, <3>5, <7>2
            <7>4. CASE <<n, w[n]>> \in L
              <8>1. w[n].uid > u.obj.uid
                BY <6>4, <7>3
              <8>2. Outdates(u, L)
                BY <6>3, <7>4, <8>1 DEF Outdates
              <8> QED
                BY <1>8, <6>2, <6>3, <8>2
            <7>5. CASE Now(w, n) \in ToSet(t)
              <8>1. u # Now(w, n)
                BY <4>3, <6>4, <7>3
              <8>2. Earlier(Now(w, n), u)
                BY <6>5, <7>5, <8>1
              <8>3. w[n].uid <= u.obj.uid
                BY <4>3, <6>3, <8>2 DEF Earlier
              <8> QED
                BY <6>4, <7>3, <8>3
            <7> QED
              BY <4>5, <7>4, <7>5
          <6>7. Now(w, n) \in ToSet(t)
            <7>1. IsNow(w, u)
              <8>1. \A d \in ToSet(q) : ~Deletes(d, u)
                BY <4>1, <6>3 DEF Deletes, KeyOf
              <8> QED
                BY <6>2, <6>3, <6>6, <8>1 DEF Agent, EndReported
            <7>2. Now(w, n) \in ToSet(t) \cup ToSet(q)
              BY <6>2, <6>3, <7>1 DEF Agent, NowTold
            <7> QED
              BY <4>4, <7>2
          <6>8. u = Now(w, n)
            <7>1. SUFFICES ASSUME Earlier(Now(w, n), u) PROVE FALSE
              BY <6>5, <6>7
            <7>2. w[n].rv < u.obj.rv
              BY <4>3, <6>3, <7>1 DEF Earlier
            <7> QED
              BY <6>4, <7>2
          <6>9. X[n] = u.obj
            BY <3>3, <6>1, <6>2, <6>6
          <6> QED
            BY <4>3, <6>8, <6>9
        <5> QED
          BY <5>1, <5>2
      <4> QED
        BY <3>5, <4>2, <4>6 DEF Shown
    <3> QED
      BY <3>4, <3>5
  <2> QED
    BY <2>2, <2>3
<1> QED
  BY <1>2, <1>4, <1>6, <1>7, <1>8 DEF Right
-----------------------------------------------------------------------------
(***************************************************************************)
(* The events of the batches on the way, message by message.               *)
(***************************************************************************)
EventsUnder(m, id) == IF m.what = "events" /\ m.id = id THEN m.events ELSE <<>>

EventsThrough(f, M, id) ==
  /\ f \in [0 .. Len(M) -> Events]
  /\ f[0] = <<>>
  /\ \A i \in 1 .. Len(M) : f[i] = f[i - 1] \o EventsUnder(M[i], id)
  /\ EventsIn(M, id) = f[Len(M)]

\* A message has events of a snapshot, if only none.
LEMMA EventsUnderType ==
  ASSUME NEW m \in Message, NEW id
  PROVE  EventsUnder(m, id) \in Events /\ <<>> \in Events
BY MessageType, EmptySeq DEF EventsUnder, Events

\* The events of messages are found message by message.
LEMMA EventsStepwise ==
  ASSUME NEW M \in Seq(Message), NEW id
  PROVE  \E f : EventsThrough(f, M, id)
<1>1. PICK n \in Nat : n = Len(M)
  BY LenProperties
<1>2. PICK seqs : seqs = [i \in DOMAIN M |-> EventsUnder(M[i], id)]
  OBVIOUS
<1>3. /\ DOMAIN M = 1 .. n /\ seqs \in [1 .. n -> Events]
      /\ \A i \in 1 .. n : seqs[i] = EventsUnder(M[i], id) /\ seqs[i] \in Events
  <2>1. DOMAIN M = 1 .. n
    BY <1>1, LenProperties
  <2>2. \A i \in 1 .. n : M[i] \in Message
    BY <1>1, ElementOfSeq
  <2> QED
    BY <1>2, <2>1, <2>2, EventsUnderType
<1>4. Len(seqs) = n /\ seqs \in Seq(Events)
  BY <1>3, IsASeq
<1>5. <<>> \in Events
  BY EmptySeq DEF Events
<1> DEFINE Goes(g, k) == g \in [0 .. k -> Events] /\ g[0] = <<>>
                           /\ \A i \in 1 .. k : g[i] = g[i - 1] \o seqs[i]
           T == {k \in Nat : k <= n => \E g : Goes(g, k)}
<1>6. n \in T
  <2>1. 0 \in T
    <3>1. PICK g : g = [i \in 0 .. 0 |-> <<>>]
      OBVIOUS
    <3>2. g \in [0 .. 0 -> Events] /\ g[0] = <<>>
      BY <1>5, <3>1
    <3>3. \A i \in 1 .. 0 : g[i] = g[i - 1] \o seqs[i]
      OBVIOUS
    <3>4. Goes(g, 0)
      BY <3>2, <3>3
    <3> HIDE DEF Goes
    <3> QED
      BY <3>4
  <2>2. ASSUME NEW k \in T PROVE k + 1 \in T
    <3>0. k \in Nat /\ k + 1 \in Nat /\ (k <= n => \E g : Goes(g, k))
      <4> HIDE DEF Goes
      <4> QED
        OBVIOUS
    <3>1. SUFFICES ASSUME k + 1 <= n PROVE \E g : Goes(g, k + 1)
      <4> HIDE DEF Goes
      <4> QED
        BY <3>0
    <3>2. k <= n /\ k \in Nat
      BY <3>0, <3>1
    <3>3. PICK g : Goes(g, k)
      <4> HIDE DEF Goes
      <4> QED
        BY <3>0, <3>2
    <3> DEFINE h == [i \in 0 .. k + 1 |-> IF i = k + 1 THEN g[k] \o seqs[k + 1] ELSE g[i]]
    <3>4. k \in 0 .. k /\ k + 1 \in 1 .. n
      BY <3>1, <3>2
    <3>5. g[k] \o seqs[k + 1] \in Events
      <4>1. g[k] \in Events /\ seqs[k + 1] \in Events
        BY <1>3, <3>3, <3>4
      <4> QED
        BY <4>1, ConcatProperties DEF Events
    <3>6. \A i \in 0 .. k + 1 : i # k + 1 => i \in 0 .. k
      BY <3>2
    <3>7. h \in [0 .. k + 1 -> Events]
      BY <3>3, <3>5, <3>6
    <3>8. h[0] = <<>>
      BY <3>2, <3>3
    <3>9. ASSUME NEW i \in 1 .. k + 1 PROVE h[i] = h[i - 1] \o seqs[i]
      <4>1. i - 1 \in 0 .. k + 1 /\ i - 1 # k + 1 /\ i \in 0 .. k + 1
        BY <3>2
      <4>2. h[i - 1] = g[i - 1]
        <5>1. PICK j : j = i - 1
          OBVIOUS
        <5>2. j \in 0 .. k + 1 /\ j # k + 1
          BY <4>1, <5>1
        <5>3. h[j] = g[j]
          BY <5>2
        <5> QED
          BY <5>1, <5>3
      <4>3. CASE i = k + 1
        <5>1. PICK j : j = k + 1
          OBVIOUS
        <5>2. h[j] = g[k] \o seqs[k + 1]
          BY <4>1, <4>3, <5>1
        <5>3. h[i] = g[k] \o seqs[i] /\ i - 1 = k
          BY <3>2, <4>3, <5>1, <5>2
        <5> HIDE DEF h
        <5> QED
          BY <4>2, <5>3
      <4>4. CASE i # k + 1
        <5>1. i \in 1 .. k /\ h[i] = g[i]
          BY <3>2, <4>1, <4>4
        <5> QED
          BY <3>3, <4>2, <5>1
      <4> QED
        BY <4>3, <4>4
    <3> HIDE DEF h
    <3>10. Goes(h, k + 1)
      BY <3>7, <3>8, <3>9
    <3> QED
      BY <3>10
  <2>3. T \in SUBSET Nat
    OBVIOUS
  <2> HIDE DEF T
  <2> QED
    BY <2>1, <2>2, <2>3, NumberInduction
<1>7. PICK g : Goes(g, n)
  <2> HIDE DEF Goes
  <2> QED
    BY <1>6
<1>8. EventsIn(M, id) = g[n]
  <2>0. EventsIn(M, id) = FlattenSeq(seqs)
    BY <1>2 DEF EventsIn, EventsUnder
  <2>1. CASE n = 0
    <3>1. seqs = <<>>
      BY <1>4, <2>1, EmptySeq
    <3>2. FlattenSeq(seqs) = seqs
      BY <1>4, <2>1 DEF FlattenSeq
    <3> QED
      BY <1>7, <2>0, <2>1, <3>1, <3>2
  <2>2. CASE n # 0
    <3> DEFINE F(h) == [i \in 1 .. n |-> IF i = 1 THEN seqs[i] ELSE h[i - 1] \o seqs[i]]
               g1 == [i \in 1 .. n |-> g[i]]
    <3>1. g1 = F(g1)
      <4>1. ASSUME NEW i \in 1 .. n PROVE g1[i] = F(g1)[i]
        <5>1. g[i] = g[i - 1] \o seqs[i]
          BY <1>7
        <5>2. CASE i = 1
          <6>1. i - 1 = 0 /\ seqs[i] \in Events
            BY <1>3, <5>2
          <6>2. g[i - 1] = <<>>
            BY <1>7, <6>1
          <6>3. <<>> \o seqs[i] = seqs[i]
            BY <6>1, ConcatEmptySeq DEF Events
          <6> QED
            BY <5>1, <5>2, <6>2, <6>3
        <5>3. CASE i # 1
          <6>1. i - 1 \in 1 .. n
            BY <1>1, <5>3
          <6>2. g1[i - 1] = g[i - 1]
            BY <6>1
          <6> QED
            BY <5>1, <5>3, <6>2
        <5> QED
          BY <5>2, <5>3
      <4> QED
        BY <4>1
    <3>2. ASSUME NEW h, h = F(h) PROVE h[n] = g[n]
      <4> DEFINE S == {i \in Nat : 1 <= i /\ i <= n => h[i] = g[i]}
      <4>1. 0 \in S
        OBVIOUS
      <4>2. ASSUME NEW i \in S PROVE i + 1 \in S
        <5>1. SUFFICES ASSUME i + 1 <= n PROVE h[i + 1] = g[i + 1]
          OBVIOUS
        <5>2. i + 1 \in 1 .. n /\ (i + 1) - 1 = i /\ i \in Nat /\ i <= n
          BY <5>1
        <5>3. F(h)[i + 1] = (IF i + 1 = 1 THEN seqs[i + 1] ELSE h[i] \o seqs[i + 1])
          BY <5>2
        <5>4. h[i + 1] = (IF i + 1 = 1 THEN seqs[i + 1] ELSE h[i] \o seqs[i + 1])
          <6> HIDE DEF F
          <6> QED
            BY <3>2, <5>3
        <5>5. g[i + 1] = g[i] \o seqs[i + 1]
          BY <1>7, <5>2
        <5>6. CASE i = 0
          <6>1. g[i] = <<>> /\ seqs[i + 1] \in Events
            BY <1>3, <1>7, <5>2, <5>6
          <6>2. <<>> \o seqs[i + 1] = seqs[i + 1]
            BY <6>1, ConcatEmptySeq DEF Events
          <6>3. i + 1 = 1
            BY <5>6
          <6> QED
            BY <5>4, <5>5, <6>1, <6>2, <6>3
        <5>7. CASE i # 0
          <6>1. h[i] = g[i] /\ i + 1 # 1
            BY <5>2, <5>7
          <6> QED
            BY <5>4, <5>5, <6>1
        <5> QED
          BY <5>6, <5>7
      <4>3. n \in S
        <5>1. S \in SUBSET Nat
          OBVIOUS
        <5> HIDE DEF S
        <5> QED
          BY <1>1, <4>1, <4>2, <5>1, NumberInduction
      <4> QED
        BY <1>1, <2>2, <4>3
    <3>3. PICK h : h = F(h) /\ FlattenSeq(seqs) = h[n]
      <4> DEFINE chosen == CHOOSE h : h = F(h)
      <4>1. chosen = F(chosen)
        <5>1. \E h : h = F(h)
          BY <3>1
        <5> HIDE DEF F, g1
        <5> QED
          BY <5>1
      <4>2. FlattenSeq(seqs) = chosen[n]
        BY <1>4, <2>2 DEF FlattenSeq
      <4> HIDE DEF chosen, F
      <4> QED
        BY <4>1, <4>2
    <3> QED
      BY <2>0, <3>2, <3>3
  <2> QED
    BY <2>1, <2>2
<1>9. EventsThrough(g, M, id)
  BY <1>1, <1>3, <1>7, <1>8 DEF EventsThrough
<1> QED
  BY <1>9

\* They are events.
LEMMA EventsInType ==
  ASSUME NEW M \in Seq(Message), NEW id
  PROVE  EventsIn(M, id) \in Events
<1>1. PICK f : EventsThrough(f, M, id)
  BY EventsStepwise
<1>2. Len(M) \in 0 .. Len(M)
  BY LenProperties
<1> QED
  BY <1>1, <1>2 DEF EventsThrough

\* Events are told in their order, however they are put together.
LEMMA EventsAssociate ==
  ASSUME NEW U \in Events, NEW V \in Events, NEW W \in Events
  PROVE  (U \o V) \o W = U \o (V \o W)
BY ConcatAssociative DEF Events

\* The events of messages after others come after theirs.
LEMMA EventsThen ==
  ASSUME NEW M \in Seq(Message), NEW N \in Seq(Message), NEW id
  PROVE  EventsIn(M \o N, id) = EventsIn(M, id) \o EventsIn(N, id)
<1>1. PICK P \in Seq(Message) : P = M \o N
  BY ConcatProperties
<1>2. PICK a \in Nat, b \in Nat : a = Len(M) /\ b = Len(N)
  BY LenProperties
<1>3. /\ Len(P) = a + b /\ \A i \in 1 .. a : P[i] = M[i]
      /\ \A i \in 1 .. b : P[a + i] = N[i]
  <2>1. \A i \in 1 .. a + b : P[i] = IF i <= a THEN M[i] ELSE N[i - a]
    BY <1>1, <1>2, ConcatProperties
  <2>2. \A i \in 1 .. a : i \in 1 .. a + b /\ i <= a
    BY <1>2
  <2>3. \A i \in 1 .. b : a + i \in 1 .. a + b /\ ~(a + i <= a) /\ (a + i) - a = i
    BY <1>2
  <2> QED
    BY <1>1, <1>2, <2>1, <2>2, <2>3, ConcatProperties
<1>4. PICK f : EventsThrough(f, M, id)
  BY EventsStepwise
<1>5. PICK g : EventsThrough(g, N, id)
  BY EventsStepwise
<1>6. PICK h : EventsThrough(h, P, id)
  BY EventsStepwise
<1>7. f[a] \in Events /\ \A i \in 0 .. b : g[i] \in Events
  <2>1. f \in [0 .. a -> Events] /\ g \in [0 .. b -> Events]
    BY <1>2, <1>4, <1>5 DEF EventsThrough
  <2>2. a \in 0 .. a
    OBVIOUS
  <2> QED
    BY <2>1, <2>2
<1> DEFINE S == {i \in Nat : i <= a => h[i] = f[i]}
           T == {i \in Nat : i <= b => h[a + i] = f[a] \o g[i]}
<1>8. a \in S
  <2>1. 0 \in S
    BY <1>4, <1>6 DEF EventsThrough
  <2>2. ASSUME NEW i \in S PROVE i + 1 \in S
    <3>1. SUFFICES ASSUME i + 1 <= a PROVE h[i + 1] = f[i + 1]
      OBVIOUS
    <3>2. i \in Nat /\ i + 1 \in 1 .. a /\ i + 1 \in 1 .. a + b /\ (i + 1) - 1 = i /\ i <= a
      BY <3>1
    <3>3. /\ h[i + 1] = h[i] \o EventsUnder(P[i + 1], id)
          /\ f[i + 1] = f[i] \o EventsUnder(M[i + 1], id)
      BY <1>2, <1>3, <1>4, <1>6, <3>2 DEF EventsThrough
    <3>4. h[i] = f[i] /\ P[i + 1] = M[i + 1]
      BY <1>3, <3>2
    <3> QED
      BY <3>3, <3>4
  <2>3. S \in SUBSET Nat
    OBVIOUS
  <2> HIDE DEF S
  <2> QED
    BY <2>1, <2>2, <2>3, NumberInduction
<1>9. b \in T
  <2>1. 0 \in T
    <3>1. h[a + 0] = f[a] /\ g[0] = <<>>
      BY <1>5, <1>8 DEF EventsThrough
    <3>2. f[a] \o <<>> = f[a]
      BY <1>7, ConcatEmptySeq DEF Events
    <3> QED
      BY <3>1, <3>2
  <2>2. ASSUME NEW i \in T PROVE i + 1 \in T
    <3>0. i \in Nat /\ (i <= b => h[a + i] = f[a] \o g[i])
      OBVIOUS
    <3>1. SUFFICES ASSUME i + 1 <= b PROVE h[a + (i + 1)] = f[a] \o g[i + 1]
      <4>1. i + 1 \in Nat
        BY <3>0
      <4>2. i + 1 \in {j \in Nat : j <= b => h[a + j] = f[a] \o g[j]}
               <=> (i + 1 \in Nat /\ (i + 1 <= b => h[a + (i + 1)] = f[a] \o g[i + 1]))
        BY Zenon
      <4> QED
        BY <4>1, <4>2
    <3>2. PICK k : k = a + (i + 1)
      OBVIOUS
    <3>3. /\ i \in Nat /\ i + 1 \in 1 .. b /\ (i + 1) - 1 = i /\ i \in 0 .. b /\ i <= b
          /\ k \in 1 .. a + b /\ k - 1 = a + i
      BY <3>0, <3>1, <3>2
    <3>4. PICK E \in Events : E = EventsUnder(N[i + 1], id)
      <4>1. N[i + 1] \in Message
        BY <1>2, <3>3, ElementOfSeq
      <4> QED
        BY <4>1, EventsUnderType
    <3>5. h[k] = h[k - 1] \o EventsUnder(P[k], id)
      BY <1>3, <1>6, <3>3 DEF EventsThrough
    <3>6. P[k] = N[i + 1] /\ h[k - 1] = f[a] \o g[i]
      BY <1>3, <3>0, <3>2, <3>3
    <3>7. g[i + 1] = g[i] \o E
      BY <1>2, <1>5, <3>3, <3>4 DEF EventsThrough
    <3>8. (f[a] \o g[i]) \o E = f[a] \o (g[i] \o E)
      <4>1. PICK A \in Events, B \in Events : A = f[a] /\ B = g[i]
        BY <1>7, <3>3
      <4>2. (A \o B) \o E = A \o (B \o E)
        BY EventsAssociate
      <4> QED
        BY <4>1, <4>2
    <3> QED
      BY <3>2, <3>4, <3>5, <3>6, <3>7, <3>8
  <2>3. T \in SUBSET Nat
    OBVIOUS
  <2> HIDE DEF T
  <2> QED
    BY <2>1, <2>2, <2>3, NumberInduction
<1>10. h[a + b] = f[a] \o g[b]
  <2>1. \A i \in T : i <= b => h[a + i] = f[a] \o g[i]
    BY Zenon
  <2>2. b <= b
    OBVIOUS
  <2> HIDE DEF T
  <2> QED
    BY <1>9, <2>1, <2>2, Zenon
<1> QED
  BY <1>1, <1>2, <1>3, <1>4, <1>5, <1>6, <1>10 DEF EventsThrough

\* One message more, or less.
LEMMA EventsOfOne ==
  ASSUME NEW m \in Message, NEW id
  PROVE  <<m>> \in Seq(Message) /\ EventsIn(<<m>>, id) = EventsUnder(m, id)
<1>1. <<m>> \in Seq(Message) /\ Len(<<m>>) = 1 /\ <<m>>[1] = m
  OBVIOUS
<1>2. PICK f : EventsThrough(f, <<m>>, id)
  BY <1>1, EventsStepwise
<1>3. 1 \in 1 .. 1 /\ 1 - 1 = 0
  OBVIOUS
<1>4. f[1] = f[0] \o EventsUnder(m, id) /\ f[0] = <<>> /\ EventsIn(<<m>>, id) = f[1]
  <2>1. f[1] = f[1 - 1] \o EventsUnder(<<m>>[1], id) /\ f[0] = <<>> /\ EventsIn(<<m>>, id) = f[Len(<<m>>)]
    BY <1>1, <1>2, <1>3 DEF EventsThrough
  <2> QED
    BY <1>1, <1>3, <2>1
<1>5. <<>> \o EventsUnder(m, id) = EventsUnder(m, id)
  BY EventsUnderType, ConcatEmptySeq DEF Events
<1> QED
  BY <1>1, <1>4, <1>5

\* Without a batch of the snapshot there are none.
LEMMA EventsOfNone ==
  ASSUME NEW M \in Seq(Message), NEW id, \A m \in ToSet(M) : m.what = "events" => m.id # id
  PROVE  EventsIn(M, id) = <<>>
<1>1. PICK f : EventsThrough(f, M, id)
  BY EventsStepwise
<1>2. Len(M) \in Nat /\ ToSet(M) = {M[i] : i \in 1 .. Len(M)}
  BY Elements
<1> DEFINE S == {i \in Nat : i <= Len(M) => f[i] = <<>>}
<1>3. 0 \in S
  BY <1>1 DEF EventsThrough
<1>4. ASSUME NEW i \in S PROVE i + 1 \in S
  <2>1. SUFFICES ASSUME i + 1 <= Len(M) PROVE f[i + 1] = <<>>
    OBVIOUS
  <2>2. i \in Nat /\ i + 1 \in 1 .. Len(M) /\ (i + 1) - 1 = i /\ i <= Len(M)
    BY <1>2, <2>1
  <2>3. f[i + 1] = f[i] \o EventsUnder(M[i + 1], id) /\ f[i] = <<>>
    BY <1>1, <2>2 DEF EventsThrough
  <2>4. EventsUnder(M[i + 1], id) = <<>>
    BY <1>2, <2>2 DEF EventsUnder
  <2>5. <<>> \o <<>> = <<>>
    BY EmptySeq, ConcatEmptySeq
  <2> QED
    BY <2>3, <2>4, <2>5
<1>5. Len(M) \in S
  <2>1. S \in SUBSET Nat
    OBVIOUS
  <2> HIDE DEF S
  <2> QED
    BY <1>2, <1>3, <1>4, <2>1, NumberInduction
<1> QED
  BY <1>1, <1>2, <1>5 DEF EventsThrough
-----------------------------------------------------------------------------
(***************************************************************************)
(* The steps while a session lasts, the informers run and no snapshot is   *)
(* asked for (Fine).                                                       *)
(***************************************************************************)
Fine == session = "accepted" /\ ~resyncReq /\ watching = "yes"

\* The snapshot that is being sent, or else the last one that was.
Id == IF Sending THEN sending.id ELSE snapshotID

WorldMoves(e) ==
  /\ Change(world, world', changes, e) /\ changes' = changes + 1
  /\ notices' = Append(notices, e)
  /\ UNCHANGED <<connected, resyncReq, batching, sending, outbox, missed>>

HandlerMoves(e) ==
  /\ notices # <<>> /\ e = Head(notices) /\ notices' = Tail(notices)
  /\ Ignore(e) \/ Enqueue(e)
  /\ UNCHANGED <<stores, connected, resyncReq, sending, outbox, snapshotID, batchSeq>>

SentBatch(n) ==
  /\ ~Sending /\ snapshotID # NoId /\ n <= Len(pending)
  /\ outbox' = Append(outbox, Batch(n)) /\ batchSeq' = batchSeq + 1
  /\ pending' = SubSeq(pending, n + 1, Len(pending))
  /\ UNCHANGED <<stores, notices, connected, resyncReq, snapshotID, inSnapshot, reported,
                 sending, missed>>

FineAgent ==
  \/ \E e \in ResourceEvent : WorldMoves(e) \/ HandlerMoves(e)
  \/ SendChunk \/ FinishSnapshot
  \/ \E n \in Nat : SentBatch(n)

ServerStep(s) == ServerHears(s) \/ ServerWrites(s) \/ ServerFails(s) \/ ServerEnds(s)

FineMoves ==
  \/ FineAgent /\ UNCHANGED <<store, session, current, overwritten>>
  \/ Sends
  \/ UNCHANGED syncer /\ \E s \in Streams : ServerStep(s)
  \/ UNCHANGED vars

Begins(id) ==
  /\ ~Fine /\ connected /\ StartSnapshot(id)
  /\ UNCHANGED <<store, session, current, overwritten>>

\* To be fine after a step is to have been fine, or to begin a snapshot.
LEMMA FineStep ==
  ASSUME TypesOK, [InventoryNext]_vars, Fine'
  PROVE  (Fine /\ FineMoves) \/ \E id \in Fresh : Begins(id)
<1>0. SyncerTypeOK /\ StoreTypeOK /\ SessionTypeOK /\ ~resyncReq' /\ session' = "accepted"
      /\ watching' = "yes"
  BY DEF TypesOK, SessionOK, Fine
<1>1. CASE World
  <2>1. PICK n \in Names : Upsert(n) \/ Delete(n)
    BY <1>1 DEF World
  <2>2. PICK e \in ResourceEvent : WorldMoves(e)
    BY <1>0, <2>1, WorldChanges DEF WorldMoves
  <2>4. UNCHANGED watching
    BY <2>1 DEF Upsert, Delete, Occurs
  <2>3. Fine
    BY <1>0, <1>1, <2>2, <2>4 DEF World, WorldMoves, Fine
  <2> QED
    BY <1>1, <2>2, <2>3 DEF World, FineMoves, FineAgent
<1>2. CASE Handler
  <2>1. notices # <<>> /\ notices' = Tail(notices)
        /\ UNCHANGED <<watching, stores, connected, sending, outbox>>
    BY <1>2 DEF Handler, HandleNotice, informers
  <2>2. PICK e \in ResourceEvent : e = Head(notices) /\ (Ignore(e) \/ Overflow(e) \/ Enqueue(e))
    BY <1>0, <1>2, <2>1, TailAt DEF Handler, HandleNotice, SyncerTypeOK, Events
  <2>3. Ignore(e) \/ Enqueue(e)
    BY <1>0, <2>2 DEF Overflow
  <2>4. UNCHANGED <<resyncReq, snapshotID, batchSeq>>
    BY <2>3 DEF Ignore, Enqueue, batching
  <2>5. HandlerMoves(e)
    BY <2>1, <2>2, <2>3, <2>4 DEF HandlerMoves
  <2>6. Fine
    BY <1>0, <1>2, <2>1, <2>4 DEF Handler, Fine
  <2> QED
    BY <1>2, <2>5, <2>6 DEF Handler, FineMoves, FineAgent
<1>3. CASE Ticker
  BY <1>0, <1>3 DEF Ticker, ResyncTick, Resync
<1>12. CASE Watch
  BY <1>0, <1>12 DEF Watch, ensureInformers
<1>4. CASE StartOver
  <2>1. PICK id \in Fresh : StartSnapshot(id)
    BY <1>4 DEF StartOver
  <2>2. ~Fine /\ UNCHANGED <<store, session, current, overwritten>>
    BY <1>4, <2>1 DEF StartOver, StartSnapshot, Fine
  <2>3. connected
    BY <1>0, <2>2 DEF SessionTypeOK
  <2> QED
    BY <2>1, <2>2, <2>3 DEF Begins
<1>5. CASE RunStep
  <2>1. UNCHANGED <<store, session, current, overwritten>>
    BY <1>5 DEF RunStep
  <2>2. CASE SendChunk
    BY <1>0, <2>1, <2>2 DEF SendChunk, Fine, FineMoves, FineAgent, informers
  <2>3. CASE FinishSnapshot
    BY <1>0, <2>1, <2>3 DEF FinishSnapshot, Fine, FineMoves, FineAgent, informers
  <2>4. CASE Flush
    <3>1. PICK n : /\ n = (IF Len(pending) < BatchMax THEN Len(pending) ELSE BatchMax)
                   /\ outbox' = Append(outbox, Batch(n))
                   /\ pending' = SubSeq(pending, n + 1, Len(pending))
                   /\ UNCHANGED <<snapshotID, resyncReq>>
      BY <1>0, <2>4 DEF Flush
    <3>2. n \in Nat /\ n <= Len(pending)
      BY <1>0, <3>1, SyncerAssumption, LenProperties DEF SyncerTypeOK
    <3>3. SentBatch(n)
      BY <2>4, <3>1, <3>2 DEF Flush, SentBatch, informers
    <3>4. UNCHANGED watching
      BY <2>4 DEF Flush, informers
    <3> QED
      BY <1>0, <2>1, <3>1, <3>2, <3>3, <3>4 DEF Fine, FineMoves, FineAgent
  <2> QED
    BY <1>5, <2>2, <2>3, <2>4 DEF RunStep
<1>6. CASE Dial \/ Requeue
  BY <1>0, <1>6 DEF Dial, Requeue
<1>7. CASE \E r \in Replicas : Accept(r)
  BY <1>0, <1>7 DEF Accept, SetConnected
<1>8. CASE SessionEnds
  BY <1>0, <1>8 DEF SessionEnds
<1>9. CASE Sends
  BY <1>0, <1>9 DEF Sends, KeepSyncer, Fine, FineMoves, informers
<1>10. ASSUME NEW s \in Streams, ServerStep(s) PROVE Fine /\ FineMoves
  <2>1. UNCHANGED <<session, current>>
    BY <1>10 DEF ServerStep, ServerHears, ServerWrites, ServerFails, ServerEnds
  <2>2. UNCHANGED syncer
    <3>1. CASE ServerHears(s)
      BY <1>0, <3>1 DEF ServerHears, requestResync, syncer, stores, informers, batching
    <3>2. CASE ~ServerHears(s)
      BY <1>10, <3>2 DEF ServerStep, ServerWrites, ServerFails, ServerEnds
    <3> QED
      BY <3>1, <3>2
  <2>3. Fine
    BY <1>0, <2>1, <2>2 DEF Fine, syncer
  <2> QED
    BY <1>10, <2>2, <2>3 DEF FineMoves
<1>11. CASE UNCHANGED vars
  BY <1>0, <1>11 DEF vars, syncer, Fine, FineMoves
<1> QED
  BY <1>1, <1>2, <1>3, <1>4, <1>5, <1>6, <1>7, <1>8, <1>9, <1>10, <1>11, <1>12
  DEF InventoryNext, ServerStep

(***************************************************************************)
(* What the session rests on.  The stream it has is the one its replica    *)
(* has a state for, and no later one is open; a snapshot that is written   *)
(* has read the rows there are, unless another stream wrote since.         *)
(***************************************************************************)
Homes ==
  /\ session = "accepted" =>
       /\ current \in Streams /\ home[current] # NoReplica /\ states[home[current]] = current
       /\ work[current] # NoWork => work[current].in = current
  /\ \A s \in Streams : s > current => home[s] = NoReplica /\ work[s] = NoWork

Seen ==
  session = "accepted" /\ work[current].what = "snapshot" /\ ~overwritten
    => work[current].seen = table

\* What was sent was seen by informers that run.
Watched == Sending \/ snapshotID # NoId => watching = "yes"

SessionInv == Homes /\ Seen /\ Watched /\ (Sending => snapshotID = NoId)

\* It holds in the beginning, for there is no session.
LEMMA InitSession == InventoryInit => SessionInv
BY DEF InventoryInit, InventoryBegins, SyncerBegins, StoreBegins, SessionInv, Homes, Seen, Watched,
       Sending, Idle

\* What the server does for its streams leaves the homes alone.
LEMMA ServerSession ==
  ASSUME TypesOK, SessionInv, NEW s \in Streams, ServerStep(s)
  PROVE  Homes' /\ Seen'
<1>0. StoreTypeOK /\ SyncerTypeOK /\ SessionTypeOK
  BY DEF TypesOK, SessionOK
<1>1. UNCHANGED <<session, current>>
  BY DEF ServerStep, ServerHears, ServerWrites, ServerFails, ServerEnds
<1>2. Homes /\ Seen /\ work \in [Streams -> Work] /\ home \in [Streams -> Replicas \cup {NoReplica}]
      /\ states \in [Replicas -> Streams \cup {NoStream}]
  BY <1>0 DEF SessionInv, StoreTypeOK
<1>3. NoWork.what = "none"
  BY DEF NoWork
<1>4. CASE ServerHears(s)
  <2>1. /\ Hears(s)
        /\ \/ IgnoreMessage(s)
           \/ \E o \in Streams, m \in Message :
                /\ m = Head(wire[s]) /\ m \in MessagesOf(s)
                /\ \/ TakeChunk(s, o, m) \/ TakeEvents(s, o, m)
                   \/ RefuseChunk(s, o, m) \/ RefuseEvents(s, o, m)
    BY <1>0, <1>4, HearsParts
  <2>2. home[s] # NoReplica /\ work[s] = NoWork /\ UNCHANGED <<table, home, states>>
    BY <2>1 DEF Hears
  <2>3. \/ work' = work
        \/ \E w : /\ work' = [work EXCEPT ![s] = w] /\ w.in = states[home[s]]
                  /\ w.what = "snapshot" => w.seen = table
    <3>1. CASE IgnoreMessage(s)
      BY <3>1 DEF IgnoreMessage
    <3>2. ASSUME NEW o \in Streams, NEW m \in Message,
                 RefuseChunk(s, o, m) \/ RefuseEvents(s, o, m)
          PROVE  work' = work
      BY <3>2 DEF RefuseChunk, RefuseEvents
    <3>3. ASSUME NEW o \in Streams, NEW m \in Message, TakeChunk(s, o, m), work' # work
          PROVE  \E w : /\ work' = [work EXCEPT ![s] = w] /\ w.in = states[home[s]]
                        /\ w.what = "snapshot" => w.seen = table
      <4>1. PICK w : w = [what |-> "snapshot", in |-> o, id |-> m.id, rows |-> Grown(o, m).rows,
                          seen |-> table, listing |-> m.listing]
        OBVIOUS
      <4>2. work' = [work EXCEPT ![s] = w] /\ states[home[s]] = o
        BY <3>3, <4>1 DEF TakeChunk, HearsChunk, Awaits
      <4>3. w.in = o /\ w.seen = table
        BY <4>1
      <4> QED
        BY <4>2, <4>3
    <3>4. ASSUME NEW o \in Streams, NEW m \in Message, TakeEvents(s, o, m), work' # work
          PROVE  \E w : /\ work' = [work EXCEPT ![s] = w] /\ w.in = states[home[s]]
                        /\ w.what = "snapshot" => w.seen = table
      <4>1. PICK w : w = [what |-> "events", in |-> o, seq |-> m.seq, events |-> m.events]
        OBVIOUS
      <4>2. work' = [work EXCEPT ![s] = w] /\ states[home[s]] = o
        BY <3>4, <4>1 DEF TakeEvents, HearsEvents, Awaits
      <4>3. w.in = o /\ w.what = "events"
        BY <4>1
      <4> QED
        BY <4>2, <4>3
    <3> QED
      BY <2>1, <3>1, <3>2, <3>3, <3>4
  <2>4. CASE work' = work
    <3>1. Homes'
      BY <1>1, <1>2, <2>2, <2>4 DEF Homes
    <3>2. session = "accepted" /\ work[current].what = "snapshot" => s # current
      BY <1>3, <2>2
    <3>3. Seen'
      BY <1>1, <1>2, <1>4, <2>2, <2>4, <3>2 DEF Seen, ServerHears
    <3> QED
      BY <3>1, <3>3
  <2>5. CASE \E w : /\ work' = [work EXCEPT ![s] = w] /\ w.in = states[home[s]]
                    /\ w.what = "snapshot" => w.seen = table
    <3>1. PICK w : /\ work' = [work EXCEPT ![s] = w] /\ w.in = states[home[s]]
                   /\ w.what = "snapshot" => w.seen = table
      BY <2>5
    <3>2. work'[s] = w /\ \A x \in Streams : x # s => work'[x] = work[x]
      BY <1>2, <3>1
    <3>3. ~(s > current)
      BY <1>2, <2>2 DEF Homes
    <3>4. Homes'
      <4>1. session = "accepted" => (work'[current] # NoWork => work'[current].in = current)
        BY <1>2, <3>1, <3>2 DEF Homes
      <4>2. \A x \in Streams : x > current => home[x] = NoReplica /\ work'[x] = NoWork
        BY <1>2, <3>2, <3>3 DEF Homes
      <4> QED
        BY <1>1, <1>2, <2>2, <4>1, <4>2 DEF Homes
    <3>5. Seen'
      <4>1. session = "accepted" => current \in Streams
        BY <1>2 DEF Homes
      <4>2. CASE s = current
        BY <1>1, <2>2, <3>1, <3>2, <4>2 DEF Seen
      <4>3. CASE s # current
        <5>1. overwritten' = overwritten
          BY <1>0, <1>4, <4>3 DEF ServerHears, SessionTypeOK
        <5> QED
          BY <1>1, <1>2, <2>2, <3>2, <4>1, <4>3, <5>1 DEF Seen
      <4> QED
        BY <4>2, <4>3
    <3> QED
      BY <3>4, <3>5
  <2> QED
    BY <2>3, <2>4, <2>5
<1>5. CASE ServerWrites(s) \/ ServerFails(s)
  <2>1. UNCHANGED <<home, states>> /\ work' = [work EXCEPT ![s] = NoWork]
    BY <1>5 DEF ServerWrites, ServerFails, CommitSnapshot, CommitEvents, FailWork, Awaits
  <2>2. work'[s] = NoWork /\ \A x \in Streams : x # s => work'[x] = work[x]
    BY <1>2, <2>1
  <2>3. Homes'
    BY <1>1, <1>2, <2>1, <2>2 DEF Homes
  <2>4. session = "accepted" => current \in Streams
    BY <1>2 DEF Homes
  <2>5. Seen'
    <3>1. CASE s = current
      BY <1>1, <1>3, <2>2, <3>1 DEF Seen
    <3>2. CASE s # current /\ ServerWrites(s)
      BY <3>2 DEF Seen, ServerWrites
    <3>3. CASE s # current /\ ServerFails(s)
      BY <1>1, <1>2, <2>2, <2>4, <3>3 DEF Seen, ServerFails, FailWork
    <3> QED
      BY <1>5, <3>1, <3>2, <3>3
  <2> QED
    BY <2>3, <2>5
<1>6. CASE ServerEnds(s)
  <2>1. /\ session # "accepted" \/ s # current
        /\ home' = [home EXCEPT ![s] = NoReplica]
        /\ states' = [r \in Replicas |-> IF states[r] = s THEN NoStream ELSE states[r]]
        /\ UNCHANGED <<table, work, overwritten>>
    BY <1>6 DEF ServerEnds, EndStream
  <2>2. home'[s] = NoReplica /\ \A x \in Streams : x # s => home'[x] = home[x]
    BY <1>2, <2>1
  <2>3. session = "accepted" => states'[home'[current]] = current
    <3>1. SUFFICES ASSUME session = "accepted" PROVE states'[home'[current]] = current
      OBVIOUS
    <3>2. current \in Streams /\ home'[current] = home[current] /\ home[current] \in Replicas
          /\ states[home[current]] = current /\ s # current
      BY <1>2, <2>1, <2>2, <3>1 DEF Homes
    <3> QED
      BY <2>1, <3>2
  <2>4. Homes'
    BY <1>1, <1>2, <2>1, <2>2, <2>3 DEF Homes
  <2>5. Seen'
    BY <1>1, <1>2, <2>1 DEF Seen
  <2> QED
    BY <2>4, <2>5
<1> QED
  BY <1>4, <1>5, <1>6 DEF ServerStep

\* Each step keeps it.
LEMMA NextSession == TypesOK /\ SessionInv /\ [InventoryNext]_vars => SessionInv'
<1> SUFFICES ASSUME TypesOK, SessionInv, [InventoryNext]_vars PROVE SessionInv'
  OBVIOUS
<1>0. SyncerTypeOK /\ StoreTypeOK /\ SessionTypeOK /\ DialsNext
  BY DEF TypesOK, SessionOK
<1>1. UNCHANGED <<home, states, work, table, session, current, overwritten>> => Homes' /\ Seen'
  BY DEF SessionInv, Homes, Seen
<1>2. UNCHANGED <<sending, snapshotID, watching>> => Watched' /\ (Sending => snapshotID = NoId)'
  BY DEF SessionInv, Watched, Sending
<1>3. CASE World \/ Handler \/ Ticker \/ Watch \/ StartOver \/ RunStep
  <2>1. SyncerMoves /\ UNCHANGED <<store, session, current, overwritten>>
    BY <1>3, SyncerStep
  <2>2. Homes' /\ Seen'
    BY <1>1, <2>1 DEF store
  <2>3. Watched' /\ (Sending => snapshotID = NoId)'
    <3>1. CASE \E n \in Names : Upsert(n) \/ Delete(n)
      BY <1>2, <3>1 DEF Upsert, Delete, Occurs, batching
    <3>2. CASE HandleNotice
      BY <3>2 DEF HandleNotice, Ignore, Overflow, Enqueue, batching, informers, SessionInv, Watched, Sending
    <3>3. CASE ResyncTick
      BY <1>2, <3>3 DEF ResyncTick, Resync, batching, informers
    <3>8. CASE ensureInformers
      BY <3>8 DEF ensureInformers, batching, SessionInv, Watched, Sending
    <3>4. CASE SendChunk
      BY <3>4 DEF SendChunk, batching, informers, SessionInv, Watched, Sending
    <3>5. CASE FinishSnapshot
      BY <3>5 DEF FinishSnapshot, Idle, informers, batching, SessionInv, Watched, Sending
    <3>6. CASE Flush
      BY <3>6 DEF Flush, informers, SessionInv, Watched, Sending
    <3>7. CASE \E id \in Fresh : StartSnapshot(id)
      BY <3>7 DEF StartSnapshot, SessionInv, Watched, Sending
    <3> QED
      BY <2>1, <3>1, <3>2, <3>3, <3>4, <3>5, <3>6, <3>7, <3>8 DEF SyncerMoves
  <2> QED
    BY <2>2, <2>3 DEF SessionInv
<1>4. CASE Dial \/ Requeue
  <2>1. /\ UNCHANGED <<home, states, work, table, current, sending, snapshotID, watching>>
        /\ session' # "accepted"
    BY <1>4 DEF Dial, Requeue, KeepSyncer, store, batching, informers
  <2> QED
    BY <1>2, <2>1 DEF SessionInv, Homes, Seen
<1>5. CASE \E r \in Replicas : Accept(r)
  <2>1. PICK r \in Replicas : Accept(r)
    BY <1>5
  <2>2. PICK s \in Streams : s = current + 1
    BY <2>1, <1>0, StoreAssumption DEF Accept, SessionTypeOK, DialsNext, Streams
  <2>3. /\ session' = "accepted" /\ current' = s
        /\ home' = [home EXCEPT ![s] = r] /\ states' = [states EXCEPT ![r] = s]
        /\ UNCHANGED <<work, table, overwritten, sending, watching>> /\ snapshotID' = NoId
    BY <2>1, <2>2 DEF Accept, OpenStream, SetConnected, informers
  <2>4. s > current /\ work[s] = NoWork /\ r # NoReplica /\ current \in Nat
    BY <1>0, <2>2, StoreAssumption DEF SessionInv, Homes, SessionTypeOK
  <2>5. home'[s] = r /\ states'[r] = s /\ \A x \in Streams : x # s => home'[x] = home[x]
    BY <1>0, <2>3 DEF StoreTypeOK
  <2>6. \A x \in Streams : x > s => home'[x] = NoReplica /\ work[x] = NoWork
    BY <2>2, <2>4, <2>5, NoNullStream DEF SessionInv, Homes
  <2>7. Homes'
    BY <2>3, <2>4, <2>5, <2>6 DEF Homes
  <2>8. Seen'
    BY <2>3, <2>4 DEF Seen, NoWork
  <2> QED
    BY <2>3, <2>7, <2>8 DEF SessionInv, Watched, Sending
<1>6. CASE SessionEnds
  <2>1. /\ UNCHANGED <<home, states, work, table, current, sending, watching>> /\ snapshotID' = NoId
        /\ session' # "accepted"
    BY <1>6 DEF SessionEnds, SetConnected, informers
  <2> QED
    BY <2>1 DEF SessionInv, Homes, Seen, Watched, Sending
<1>7. CASE Sends
  BY <1>1, <1>2, <1>7 DEF Sends, KeepSyncer, batching, informers, SessionInv
<1>8. ASSUME NEW s \in Streams, ServerStep(s) PROVE SessionInv'
  <2>1. UNCHANGED <<sending, snapshotID, watching>>
    <3>1. CASE ServerHears(s)
      BY <1>0, <3>1, HearsParts DEF syncer, batching, informers
    <3>2. CASE ~ServerHears(s)
      BY <1>8, <3>2 DEF ServerStep, ServerWrites, ServerFails, ServerEnds, syncer
    <3> QED
      BY <3>1, <3>2
  <2> QED
    BY <1>2, <1>8, <2>1, ServerSession DEF SessionInv
<1>9. CASE UNCHANGED vars
  BY <1>1, <1>2, <1>9 DEF vars, syncer, store, SessionInv
<1> QED
  BY <1>3, <1>4, <1>5, <1>6, <1>7, <1>8, <1>9 DEF InventoryNext, ServerStep
-----------------------------------------------------------------------------
\* What the snapshot being sent does not show is told or known to be missed.
CoversInv ==
  Fine /\ Sending =>
    Covers(ToSet(sending.listing), pending, notices, world, inSnapshot, missed)

\* It holds in the beginning, for no snapshot is being sent.
LEMMA InitCovers == InventoryInit => CoversInv
BY DEF InventoryInit, InventoryBegins, CoversInv, Fine

\* What a handler does to the pending events, in the terms of the lemmas.
LEMMA HandlerParts ==
  ASSUME AgentTypes, NEW e \in ResourceEvent, HandlerMoves(e), connected
  PROVE  /\ missed \subseteq missed' /\ notices # <<>> /\ e = Head(notices) /\ notices' = Tail(notices)
         /\ UNCHANGED <<world, changes>>
         /\ \/ /\ UNCHANGED <<pending, inSnapshot, reported>>
               /\ \/ e.type = "DELETE" /\ KeyOf(e) \notin reported
                     /\ ((\E it \in ToSet(sending.listing) : objectKey(it) = KeyOf(e)) => e.name \in missed')
                  \/ e.type = "UPSERT" /\ ItemOf(e) \in inSnapshot
            \/ /\ pending' = Append(pending, e) /\ inSnapshot' = Forget(inSnapshot, e)
               /\ reported' = (IF e.type = "DELETE" THEN reported \ {KeyOf(e)} ELSE reported \cup {KeyOf(e)})
               /\ missed' = (IF Outdates(e, inSnapshot) THEN missed \cup {e.name} ELSE missed)
<1>1. notices # <<>> /\ e = Head(notices) /\ notices' = Tail(notices) /\ UNCHANGED <<world, changes>>
  BY DEF HandlerMoves, stores, informers
<1>2. CASE Ignore(e)
  <2>1. UNCHANGED <<pending, inSnapshot, reported>> /\ missed \subseteq missed'
    BY <1>2 DEF Ignore, batching
  <2>2. \/ e.type = "DELETE" /\ KeyOf(e) \notin reported
        \/ e.type = "UPSERT" /\ ItemOf(e) \in inSnapshot
    BY <1>2 DEF Ignore, Ignored
  <2>3. e.type = "DELETE" /\ (\E it \in ToSet(sending.listing) : objectKey(it) = KeyOf(e)) => e.name \in missed'
    BY <1>2 DEF Ignore, Swallows
  <2> QED
    BY <1>1, <2>1, <2>2, <2>3
<1>3. CASE Enqueue(e)
  BY <1>1, <1>3 DEF Enqueue
<1> QED
  BY <1>2, <1>3 DEF HandlerMoves

\* Each step keeps it.
LEMMA NextCovers ==
  TypesOK /\ AgentInv /\ CoversInv /\ [InventoryNext]_vars => CoversInv'
<1> SUFFICES ASSUME TypesOK, AgentInv, CoversInv, [InventoryNext]_vars, Fine', Sending'
             PROVE  Covers(ToSet(sending.listing), pending, notices, world, inSnapshot, missed)'
  BY DEF CoversInv
<1>0. SyncerTypeOK /\ SessionTypeOK /\ AgentTypes
  BY AgentTyped DEF TypesOK, SessionOK
<1>1. ToSet(sending.listing) \subseteq Item
  BY <1>0, Elements DEF AgentTypes
<1>2. ASSUME NEW id \in Fresh, Begins(id)
      PROVE  Covers(ToSet(sending.listing), pending, notices, world, inSnapshot, missed)'
  <2>1. /\ sending' = [id |-> id, listing |-> SetToSeq(Listed), next |-> 0]
        /\ UNCHANGED <<pending, notices, world, inSnapshot>>
    BY <1>2 DEF Begins, StartSnapshot, stores, informers
  <2>2. ToSet(sending'.listing) = Listed
    BY <1>0, <2>1, ListedType DEF SyncerTypeOK
  <2>3. \A n \in Names : world[n] # NoObject => <<n, world[n]>> \in Listed
    BY DEF Listed
  <2>4. \A it \in Listed : it[1] \in Names /\ it[2] = world[it[1]] /\ world[it[1]] # NoObject
    BY DEF Listed
  <2>5. ASSUME NEW it \in inSnapshot, it[2] = world[it[1]] PROVE it \in Listed
    <3>1. it[1] \in Names /\ it[2] \in Object /\ it = <<it[1], it[2]>>
      BY <1>0, ItemType DEF AgentTypes
    <3>2. it[2] # NoObject
      BY <3>1, InventoryAssumption
    <3> QED
      BY <2>3, <2>5, <3>1, <3>2
  <2>6. Covers(Listed, pending, notices, world, inSnapshot, missed')
    BY <2>3, <2>4, <2>5 DEF Covers
  <2> QED
    BY <2>1, <2>2, <2>6
<1>3. CASE Fine /\ FineMoves
  <2>1. CASE FineAgent
    <3>1. ASSUME NEW e \in ResourceEvent, WorldMoves(e)
          PROVE  Covers(ToSet(sending.listing), pending, notices, world, inSnapshot, missed)'
      <4>1. UNCHANGED <<sending, pending, inSnapshot, missed>> /\ notices' = Append(notices, e)
            /\ Change(world, world', changes, e)
        BY <3>1 DEF WorldMoves, batching
      <4>2. Covers(ToSet(sending.listing), pending, notices, world, inSnapshot, missed)
        BY <1>3, <4>1 DEF CoversInv, Sending
      <4>3. Covers(ToSet(sending.listing), pending, Append(notices, e), world', inSnapshot, missed)
        BY <1>0, <1>1, <4>1, <4>2, CoversWorld DEF AgentTypes, AgentInv
      <4> QED
        BY <4>1, <4>3
    <3>2. ASSUME NEW e \in ResourceEvent, HandlerMoves(e)
          PROVE  Covers(ToSet(sending.listing), pending, notices, world, inSnapshot, missed)'
      <4>0. connected
        BY <1>0, <1>3 DEF SessionTypeOK, Fine
      <4>1. sending' = sending
        BY <3>2 DEF HandlerMoves
      <4>2. Covers(ToSet(sending.listing), pending, notices, world, inSnapshot, missed)
        BY <1>3, <4>1 DEF CoversInv, Sending
      <4>3. PICK L, m, m2 : L = ToSet(sending.listing) /\ m = missed /\ m2 = missed'
        OBVIOUS
      <4>4. /\ m \subseteq m2 /\ notices # <<>> /\ e = Head(notices) /\ notices' = Tail(notices)
            /\ UNCHANGED <<world, changes>>
            /\ \/ /\ UNCHANGED <<pending, inSnapshot, reported>>
                  /\ \/ e.type = "DELETE" /\ ((\E it \in L : objectKey(it) = KeyOf(e)) => e.name \in m2)
                     \/ e.type = "UPSERT" /\ ItemOf(e) \in inSnapshot
               \/ /\ pending' = Append(pending, e) /\ inSnapshot' = Forget(inSnapshot, e)
        BY <1>0, <3>2, <4>0, <4>3, HandlerParts
      <4>5. CASE UNCHANGED <<pending, inSnapshot, reported>>
                 /\ \/ e.type = "DELETE" /\ ((\E it \in L : objectKey(it) = KeyOf(e)) => e.name \in m2)
                    \/ e.type = "UPSERT" /\ ItemOf(e) \in inSnapshot
        <5>1. Covers(L, pending, Tail(notices), world, inSnapshot, m2)
          BY <1>0, <4>2, <4>3, <4>4, <4>5, CoversIgnore DEF AgentTypes
        <5> QED
          BY <4>1, <4>3, <4>4, <4>5, <5>1
      <4>6. CASE pending' = Append(pending, e) /\ inSnapshot' = Forget(inSnapshot, e)
        <5>1. Covers(L, Append(pending, e), Tail(notices), world, Forget(inSnapshot, e), m2)
          BY <1>0, <4>2, <4>3, <4>4, CoversEnqueue DEF AgentTypes
        <5> QED
          BY <4>1, <4>3, <4>4, <4>6, <5>1
      <4> QED
        BY <4>4, <4>5, <4>6
    <3>3. CASE SendChunk
      <4>1. UNCHANGED <<pending, notices, world, inSnapshot, missed>> /\ sending'.listing = sending.listing
        BY <1>0, <3>3 DEF SendChunk, SyncerTypeOK, stores, informers, batching
      <4>2. Sending
        BY <3>3 DEF SendChunk
      <4> QED
        BY <1>3, <4>1, <4>2 DEF CoversInv
    <3>4. CASE FinishSnapshot \/ \E n \in Nat : SentBatch(n)
      <4>1. ~Sending'
        BY <3>4 DEF FinishSnapshot, SentBatch, Idle, Sending
      <4> QED
        BY <4>1
    <3> QED
      BY <2>1, <3>1, <3>2, <3>3, <3>4 DEF FineAgent
  <2>2. CASE Sends \/ UNCHANGED syncer \/ UNCHANGED vars
    <3>1. UNCHANGED <<sending, pending, notices, world, inSnapshot, missed>>
      BY <2>2 DEF Sends, KeepSyncer, stores, informers, batching, vars, syncer
    <3> QED
      BY <1>3, <3>1 DEF CoversInv, Sending
  <2> QED
    BY <1>3, <2>1, <2>2 DEF FineMoves
<1> QED
  BY <1>2, <1>3, FineStep
-----------------------------------------------------------------------------
(***************************************************************************)
(* The line from the agent to the rows, for one snapshot: the messages on  *)
(* the way (way), the transaction of their stream (work), the snapshot it  *)
(* has in force (done) and the last batch on it (last), the rows, and      *)
(* whether another stream wrote some late.                                 *)
(***************************************************************************)
IsLine(v) ==
  /\ v.way \in Seq(Message) /\ v.work \in Work /\ v.done \in SnapshotIds \cup {NoId}
  /\ v.last \in Nat /\ v.rows \in Tables /\ v.late \in BOOLEAN

IsLast(m) == m.what = "chunk" /\ m.last

Writes(k, id) == k.what = "snapshot" /\ k.id = id

\* What may follow a message of a snapshot.
Before(a, b) ==
  /\ b.id = a.id
  /\ b.what = "chunk" => a.what = "chunk" /\ ~a.last
  /\ a.what = "events" => a.seq < b.seq

\* Nothing passes anything on the line, and nothing comes twice.
Chain(v, id) ==
  /\ \A i, j \in 1 .. Len(v.way) : i < j /\ v.way[i].id = id => Before(v.way[i], v.way[j])
  /\ v.done = id \/ Writes(v.work, id) => \A m \in ToSet(v.way) : m.id = id /\ ~IsLast(m)
  /\ v.done = id => v.work.what # "snapshot"
  /\ v.done = id /\ ~v.late =>
       /\ \A m \in ToSet(v.way) : m.what = "events" => m.seq > v.last
       /\ v.work.what = "events" => v.work.seq = v.last + 1
       /\ \A m \in ToSet(v.way) : v.work.what = "events" /\ m.what = "events" => m.seq > v.work.seq

\* The snapshot is being sent: the agent is at chunk k of the listing.
Outgoing(v, id, listing, k) ==
  /\ \A m \in ToSet(v.way) : m.id = id =>
       /\ m.what = "chunk" /\ m.listing = listing /\ m.seq < k
       /\ m.last => m.seq + 1 = Chunks(listing)
  /\ v.done = id \/ Writes(v.work, id) => k >= Chunks(listing)
  /\ Writes(v.work, id) => v.work.listing = listing
  /\ v.done = id /\ ~v.late =>
       /\ v.last = 0 /\ v.work.what # "events"
       /\ \A n \in Names : Similar(v.rows[n], RowOf(ToSet(listing), n))

\* It was sent, and so were q batches on it.
Numbered(v, id, q) ==
  /\ \A m \in ToSet(v.way) : m.id = id /\ m.what = "events" => m.seq \in 1 .. q
  /\ v.done = id /\ ~v.late => v.last <= q /\ (v.work.what = "events" => v.work.seq <= q)

\* The handler of the stream takes a message, its transaction ends, or another
\* stream's handler does something.
HearsLine(v, u, m) ==
  /\ v.work = NoWork /\ v.way # <<>> /\ m = Head(v.way) /\ u.way = Tail(v.way)
  /\ u.last = v.last /\ u.rows = v.rows
  /\ u.late = (v.late /\ u.work.what # "snapshot")
  /\ \/ /\ m.what = "chunk" /\ u.done = v.done
        /\ \/ u.work = NoWork
           \/ m.last /\ u.work.what = "snapshot" /\ u.work.id = m.id /\ u.work.listing = m.listing
     \/ /\ m.what = "events" /\ u.work = NoWork
        /\ v.done # m.id \/ m.seq > v.last + 1
        /\ u.done = IF v.done = m.id THEN NoId ELSE v.done
     \/ /\ m.what = "events" /\ v.done = m.id /\ u.done = v.done
        /\ \/ /\ m.seq = v.last + 1 /\ u.work.what = "events"
              /\ u.work.seq = m.seq /\ u.work.events = m.events
           \/ m.seq < v.last + 1 /\ u.work = NoWork

WritesLine(v, u) ==
  /\ u.way = v.way /\ u.work = NoWork /\ u.late = v.late
  /\ \/ /\ v.work.what = "snapshot" /\ u.done = v.work.id /\ u.last = 0
        /\ ~v.late => \A n \in Names : Similar(u.rows[n], RowOf(v.work.rows, n))
     \/ /\ v.work.what = "events" /\ u.done = v.done /\ u.last = v.work.seq
        /\ u.rows = Patched(v.rows, v.work.events)
     \/ v.work # NoWork /\ u.rows = v.rows /\ u.done = v.done /\ u.last = v.last

OthersLine(v, u, id) ==
  /\ u.way = v.way /\ u.work = v.work
  /\ u.done = v.done \/ u.done # id
  /\ u.late \/ (u.late = v.late /\ u.rows = v.rows /\ u.last = v.last)

\* Without a transaction nothing is being written.
LEMMA NoWorkWhat == NoWork.what = "none"
BY DEF NoWork

\* A message joins the line.
LEMMA ChainAppend ==
  ASSUME NEW v, IsLine(v), NEW id, Chain(v, id), NEW m \in Message, m.id = id,
         \A x \in ToSet(v.way) : x.id = id => Before(x, m),
         v.done = id \/ Writes(v.work, id) => ~IsLast(m),
         v.done = id /\ ~v.late /\ m.what = "events" =>
           m.seq > v.last /\ (v.work.what = "events" => m.seq > v.work.seq),
         NEW u, u.way = Append(v.way, m), u.work = v.work, u.done = v.done, u.last = v.last,
         u.late = v.late
  PROVE  Chain(u, id)
<1>1. /\ u.way \in Seq(Message) /\ Len(v.way) \in Nat /\ Len(u.way) = Len(v.way) + 1
      /\ ToSet(u.way) = ToSet(v.way) \cup {m}
  BY AppendSet, LenProperties DEF IsLine
<1>2. /\ \A i \in 1 .. Len(v.way) : u.way[i] = v.way[i] /\ v.way[i] \in ToSet(v.way)
      /\ u.way[Len(v.way) + 1] = m
  <2>1. \A i \in 1 .. Len(v.way) : v.way[i] \in ToSet(v.way)
    BY Elements DEF IsLine
  <2> QED
    BY <2>1, AppendProperties DEF IsLine
<1>3. ASSUME NEW i \in 1 .. Len(u.way), NEW j \in 1 .. Len(u.way), i < j, u.way[i].id = id
      PROVE  Before(u.way[i], u.way[j])
  <2>1. i \in 1 .. Len(v.way) /\ (j \in 1 .. Len(v.way) \/ j = Len(v.way) + 1)
    BY <1>1, <1>3
  <2>2. CASE j \in 1 .. Len(v.way)
    BY <1>2, <1>3, <2>1, <2>2 DEF Chain
  <2>3. CASE j = Len(v.way) + 1
    BY <1>2, <1>3, <2>1, <2>3
  <2> QED
    BY <2>1, <2>2, <2>3
<1>4. v.done = id \/ Writes(v.work, id) => \A x \in ToSet(u.way) : x.id = id /\ ~IsLast(x)
  BY <1>1 DEF Chain
<1>5. v.done = id /\ ~v.late =>
        /\ \A x \in ToSet(u.way) : x.what = "events" => x.seq > v.last
        /\ v.work.what = "events" => v.work.seq = v.last + 1
        /\ \A x \in ToSet(u.way) : v.work.what = "events" /\ x.what = "events" => x.seq > v.work.seq
  BY <1>1 DEF Chain
<1> QED
  BY <1>3, <1>4, <1>5 DEF Chain

\* What the line is without its first message.
LEMMA ChainTail ==
  ASSUME NEW v, IsLine(v), NEW id, Chain(v, id), v.way # <<>>
  PROVE  /\ Tail(v.way) \in Seq(Message) /\ Head(v.way) \in Message
         /\ Head(v.way) \in ToSet(v.way) /\ ToSet(Tail(v.way)) \subseteq ToSet(v.way)
         /\ \A i, j \in 1 .. Len(Tail(v.way)) :
              i < j /\ Tail(v.way)[i].id = id => Before(Tail(v.way)[i], Tail(v.way)[j])
         /\ Head(v.way).id = id => \A x \in ToSet(Tail(v.way)) : Before(Head(v.way), x)
<1> DEFINE t == Tail(v.way)
<1>1. /\ Head(v.way) \in Message /\ Head(v.way) \in ToSet(v.way) /\ Head(v.way) = v.way[1]
      /\ 1 <= Len(v.way) /\ t \in Seq(Message) /\ Len(t) = Len(v.way) - 1
      /\ ToSet(t) \subseteq ToSet(v.way)
      /\ \A i \in 1 .. Len(v.way) - 1 : t[i] = v.way[i + 1]
      /\ Len(v.way) \in Nat
  BY TailSet, LenProperties DEF IsLine
<1>2. \A i \in 1 .. Len(t) : i + 1 \in 1 .. Len(v.way) /\ t[i] = v.way[i + 1] /\ 1 < i + 1
  BY <1>1
<1>3. 1 \in 1 .. Len(v.way)
  BY <1>1
<1>4. ToSet(t) = {t[i] : i \in 1 .. Len(t)}
  BY <1>1, Elements
<1>5. ASSUME NEW i \in 1 .. Len(t), NEW j \in 1 .. Len(t), i < j, t[i].id = id
      PROVE  Before(t[i], t[j])
  <2>1. i + 1 < j + 1
    BY <1>1, <1>5
  <2> QED
    BY <1>2, <1>5, <2>1 DEF Chain
<1>6. ASSUME Head(v.way).id = id, NEW x \in ToSet(t) PROVE Before(Head(v.way), x)
  <2>1. PICK i \in 1 .. Len(t) : x = t[i]
    BY <1>4
  <2> QED
    BY <1>1, <1>2, <1>3, <1>6, <2>1 DEF Chain
<1> QED
  BY <1>1, <1>5, <1>6

\* The handler of the stream takes the first message of the line.
LEMMA LineHears ==
  ASSUME NEW v, IsLine(v), NEW id, id # NoId, Chain(v, id), NEW u, IsLine(u),
         NEW m, HearsLine(v, u, m)
  PROVE  Chain(u, id)
<1>1. /\ u.way = Tail(v.way) /\ m = Head(v.way) /\ m \in Message /\ m \in ToSet(v.way)
      /\ ToSet(u.way) \subseteq ToSet(v.way)
      /\ \A i, j \in 1 .. Len(u.way) : i < j /\ u.way[i].id = id => Before(u.way[i], u.way[j])
      /\ m.id = id => \A x \in ToSet(u.way) : Before(m, x)
  BY ChainTail DEF HearsLine
<1>2. v.work = NoWork /\ v.work.what = "none" /\ u.last = v.last
  BY NoWorkWhat DEF HearsLine
<1>3. m.what \in {"chunk", "events"} /\ "chunk" # "events"
  BY <1>1, MessageType
<1>4. CASE u.work = NoWork
  <2>1. u.done = id => v.done = id
    BY <1>4 DEF HearsLine
  <2>2. u.work.what = "none" /\ ~Writes(u.work, id) /\ u.late = v.late
    BY <1>4, NoWorkWhat DEF Writes, HearsLine, IsLine
  <2>3. u.done = id => \A x \in ToSet(u.way) : x.id = id /\ ~IsLast(x)
    BY <1>1, <2>1 DEF Chain
  <2>4. u.done = id /\ ~u.late => \A x \in ToSet(u.way) : x.what = "events" => x.seq > u.last
    BY <1>1, <1>2, <2>1, <2>2 DEF Chain
  <2> QED
    BY <1>1, <2>2, <2>3, <2>4 DEF Chain
<1>5. CASE m.last /\ m.what = "chunk" /\ u.done = v.done /\ u.work.what = "snapshot" /\ u.work.id = m.id
  <2>1. v.done # id
    BY <1>1, <1>5 DEF Chain, IsLast
  <2>2. Writes(u.work, id) => \A x \in ToSet(u.way) : x.id = id /\ ~IsLast(x)
    BY <1>1, <1>5 DEF Writes, Before, IsLast
  <2> QED
    BY <1>1, <1>5, <2>1, <2>2 DEF Chain
<1>6. CASE /\ m.what = "events" /\ v.done = m.id /\ u.done = v.done
           /\ m.seq = v.last + 1 /\ u.work.what = "events" /\ u.work.seq = m.seq
  <2>1. ~Writes(u.work, id) /\ u.late = v.late
    BY <1>6 DEF Writes, HearsLine, IsLine
  <2>2. u.done = id => \A x \in ToSet(u.way) : x.id = id /\ ~IsLast(x)
    BY <1>1, <1>6 DEF Chain
  <2>3. u.done = id /\ ~u.late => \A x \in ToSet(u.way) : x.what = "events" => x.seq > u.last
    BY <1>1, <1>2, <1>6, <2>1 DEF Chain
  <2>4. u.done = id => \A x \in ToSet(u.way) : x.what = "events" => x.seq > u.work.seq
    <3>1. SUFFICES ASSUME u.done = id, NEW x \in ToSet(u.way), x.what = "events" PROVE x.seq > u.work.seq
      OBVIOUS
    <3>2. m.seq < x.seq /\ x \in Message
      <4>1. Before(m, x)
        BY <1>1, <1>6, <3>1
      <4>2. ToSet(u.way) \subseteq Message
        BY Elements DEF IsLine
      <4> QED
        BY <1>6, <3>1, <4>1, <4>2 DEF Before
    <3>3. m.seq \in Nat /\ x.seq \in Nat
      BY <1>1, <3>2, MessageType
    <3> QED
      BY <1>6, <3>2, <3>3
  <2> QED
    BY <1>1, <1>2, <1>6, <2>1, <2>2, <2>3, <2>4 DEF Chain
<1> QED
  BY <1>4, <1>5, <1>6 DEF HearsLine

\* Its transaction ends.
LEMMA LineWrites ==
  ASSUME NEW v, IsLine(v), NEW id, Chain(v, id), NEW u, WritesLine(v, u),
         v.work.what = "events" => v.work.seq \in Nat,
         \A m \in ToSet(v.way) : m.id = id /\ m.what = "events" => m.seq > 0
  PROVE  Chain(u, id)
<1>1. u.way = v.way /\ u.work = NoWork /\ u.work.what = "none" /\ ~Writes(u.work, id) /\ u.late = v.late
  BY NoWorkWhat DEF WritesLine, Writes
<1>2. CASE v.work.what = "snapshot" /\ u.done = v.work.id /\ u.last = 0
  BY <1>1, <1>2 DEF Chain, Writes
<1>3. CASE v.work.what = "events" /\ u.done = v.done /\ u.last = v.work.seq
  BY <1>1, <1>3 DEF Chain
<1>4. CASE u.done = v.done /\ u.last = v.last
  BY <1>1, <1>4 DEF Chain
<1> QED
  BY <1>2, <1>3, <1>4 DEF WritesLine

\* The handlers of other streams leave the line in order.
LEMMA LineOthers ==
  ASSUME NEW v, NEW id, Chain(v, id), NEW u, OthersLine(v, u, id)
  PROVE  Chain(u, id)
<1>1. u.way = v.way /\ u.work = v.work /\ (u.done = id => v.done = id)
  BY DEF OthersLine
<1>2. ~u.late => ~v.late /\ u.last = v.last
  BY DEF OthersLine
<1> QED
  BY <1>1, <1>2 DEF Chain

\* The same for a snapshot that is being sent.
LEMMA OutgoingStep ==
  ASSUME NEW v, IsLine(v), NEW id, id # NoId, Chain(v, id), NEW u, IsLine(u),
         NEW listing, NEW k \in Nat, Outgoing(v, id, listing, k),
         v.work.what = "snapshot" => v.work.rows = ToSet(v.work.listing),
         (\E m : HearsLine(v, u, m)) \/ WritesLine(v, u) \/ OthersLine(v, u, id)
  PROVE  Outgoing(u, id, listing, k)
<1>1. ASSUME NEW m, HearsLine(v, u, m) PROVE Outgoing(u, id, listing, k)
  <2>1. /\ m \in Message /\ m \in ToSet(v.way) /\ ToSet(u.way) \subseteq ToSet(v.way)
        /\ v.work = NoWork /\ v.work.what = "none" /\ u.last = v.last /\ u.rows = v.rows
    BY <1>1, ChainTail, NoWorkWhat DEF HearsLine
  <2>2. \A x \in ToSet(u.way) : x.id = id =>
          /\ x.what = "chunk" /\ x.listing = listing /\ x.seq < k
          /\ x.last => x.seq + 1 = Chunks(listing)
    BY <2>1 DEF Outgoing
  <2>3. m.id = id =>
          /\ m.what = "chunk" /\ m.listing = listing /\ m.seq < k
          /\ m.last => m.seq + 1 = Chunks(listing)
    BY <2>1 DEF Outgoing
  <2>4. u.done = id => v.done = id
    BY <1>1 DEF HearsLine
  <2>5. Writes(u.work, id) => m.id = id /\ m.last /\ u.work.listing = m.listing
    BY <1>1, NoWorkWhat DEF HearsLine, Writes
  <2>6. Writes(u.work, id) => k >= Chunks(listing)
    <3>1. SUFFICES ASSUME Writes(u.work, id) PROVE k >= Chunks(listing)
      OBVIOUS
    <3>2. m.seq < k /\ m.seq + 1 = Chunks(listing) /\ m.seq \in Nat
      BY <2>1, <2>3, <2>5, <3>1, MessageType
    <3> QED
      BY <3>2
  <2>7. u.done = id => u.work.what # "events"
    <3>1. SUFFICES ASSUME u.done = id, u.work.what = "events" PROVE FALSE
      OBVIOUS
    <3>2. m.what = "events" /\ m.id = id
      BY <1>1, <2>4, <3>1, NoWorkWhat DEF HearsLine
    <3> QED
      BY <2>3, <3>2
  <2>8. u.done = id /\ ~u.late => u.work.what # "snapshot"
    <3>1. CASE u.work.what = "snapshot"
      <4>1. IsLast(m) /\ u.done = v.done
        BY <1>1, <3>1, NoWorkWhat DEF HearsLine, IsLast
      <4> QED
        BY <2>1, <2>4, <4>1 DEF Chain
    <3> QED
      BY <3>1
  <2>9. u.done = id /\ ~u.late => ~v.late
    BY <1>1, <2>8 DEF HearsLine, IsLine
  <2>10. u.done = id /\ ~u.late =>
           /\ u.last = 0 /\ u.work.what # "events"
           /\ \A n \in Names : Similar(u.rows[n], RowOf(ToSet(listing), n))
    BY <2>1, <2>4, <2>7, <2>9 DEF Outgoing
  <2>11. u.done = id \/ Writes(u.work, id) => k >= Chunks(listing)
    BY <2>4, <2>6 DEF Outgoing
  <2> QED
    BY <2>2, <2>3, <2>5, <2>10, <2>11 DEF Outgoing
<1>2. CASE WritesLine(v, u)
  <2>1. u.way = v.way /\ u.work = NoWork /\ u.work.what = "none" /\ ~Writes(u.work, id) /\ u.late = v.late
    BY <1>2, NoWorkWhat DEF WritesLine, Writes
  <2>2. CASE /\ v.work.what = "snapshot" /\ u.done = v.work.id /\ u.last = 0
             /\ ~v.late => \A n \in Names : Similar(u.rows[n], RowOf(v.work.rows, n))
    BY <2>1, <2>2 DEF Outgoing, Writes
  <2>3. CASE v.work.what = "events" /\ u.done = v.done
    BY <2>1, <2>3 DEF Outgoing
  <2>4. CASE u.done = v.done /\ u.rows = v.rows /\ u.last = v.last
    BY <2>1, <2>4 DEF Outgoing
  <2> QED
    BY <1>2, <2>2, <2>3, <2>4 DEF WritesLine
<1>3. CASE OthersLine(v, u, id)
  <2>1. u.way = v.way /\ u.work = v.work /\ (u.done = id => v.done = id)
    BY <1>3 DEF OthersLine
  <2>2. ~u.late => ~v.late /\ u.last = v.last /\ u.rows = v.rows
    BY <1>3 DEF OthersLine
  <2> QED
    BY <2>1, <2>2 DEF Outgoing
<1> QED
  BY <1>1, <1>2, <1>3

\* And for one that was sent.
LEMMA NumberedStep ==
  ASSUME NEW v, IsLine(v), NEW id, id # NoId, Chain(v, id), NEW u, IsLine(u),
         NEW q \in Nat, Numbered(v, id, q),
         (\E m : HearsLine(v, u, m)) \/ WritesLine(v, u) \/ OthersLine(v, u, id)
  PROVE  Numbered(u, id, q)
<1>1. ASSUME NEW m, HearsLine(v, u, m) PROVE Numbered(u, id, q)
  <2>1. /\ m \in Message /\ m \in ToSet(v.way) /\ ToSet(u.way) \subseteq ToSet(v.way)
        /\ v.work = NoWork /\ v.work.what = "none" /\ u.last = v.last
    BY <1>1, ChainTail, NoWorkWhat DEF HearsLine
  <2>2. u.done = id => v.done = id
    BY <1>1 DEF HearsLine
  <2>3. u.done = id => u.work.what # "snapshot"
    <3>1. CASE u.work.what = "snapshot"
      <4>1. IsLast(m) /\ u.done = v.done
        BY <1>1, <3>1, NoWorkWhat DEF HearsLine, IsLast
      <4> QED
        BY <2>1, <2>2, <4>1 DEF Chain
    <3> QED
      BY <3>1
  <2>4. u.done = id /\ ~u.late => ~v.late
    BY <1>1, <2>3 DEF HearsLine, IsLine
  <2>5. u.done = id /\ u.work.what = "events" => m.id = id /\ m.what = "events" /\ u.work.seq = m.seq
    BY <1>1, <2>2, NoWorkWhat DEF HearsLine
  <2>6. m.id = id /\ m.what = "events" => m.seq \in 1 .. q
    BY <2>1 DEF Numbered
  <2>7. u.done = id /\ u.work.what = "events" => u.work.seq <= q
    BY <2>5, <2>6
  <2>8. u.done = id /\ ~u.late => u.last <= q
    BY <2>1, <2>2, <2>4 DEF Numbered
  <2> QED
    BY <2>1, <2>7, <2>8 DEF Numbered
<1>2. CASE WritesLine(v, u)
  <2>1. u.way = v.way /\ u.work = NoWork /\ u.work.what = "none" /\ u.late = v.late
    BY <1>2, NoWorkWhat DEF WritesLine
  <2>2. CASE v.work.what = "snapshot" /\ u.last = 0
    BY <2>1, <2>2 DEF Numbered
  <2>3. CASE v.work.what = "events" /\ u.done = v.done /\ u.last = v.work.seq
    BY <2>1, <2>3 DEF Numbered
  <2>4. CASE u.done = v.done /\ u.last = v.last
    BY <2>1, <2>4 DEF Numbered
  <2> QED
    BY <1>2, <2>2, <2>3, <2>4 DEF WritesLine
<1>3. CASE OthersLine(v, u, id)
  <2>1. u.way = v.way /\ u.work = v.work /\ (u.done = id => v.done = id)
    BY <1>3 DEF OthersLine
  <2>2. ~u.late => ~v.late /\ u.last = v.last
    BY <1>3 DEF OthersLine
  <2> QED
    BY <2>1, <2>2 DEF Numbered
<1> QED
  BY <1>1, <1>2, <1>3
-----------------------------------------------------------------------------
(***************************************************************************)
(* The line of the session there is.                                       *)
(***************************************************************************)
Line ==
  [way |-> OnTheWay, work |-> work[current], done |-> completedId[current],
   last |-> lastBatch[current], rows |-> table, late |-> overwritten]

\* No other stream carries or writes anything of a snapshot.
Elsewhere(id) ==
  \A s \in Streams : s # current => ~Writes(work[s], id) /\ \A m \in MessagesOf(s) : m.id # id

LineInv ==
  Fine /\ Id # NoId =>
    /\ Chain(Line, Id) /\ Elsewhere(Id)
    /\ Sending => Outgoing(Line, Id, sending.listing, sending.next)
    /\ ~Sending => Numbered(Line, Id, batchSeq)

\* The parts of the line of the session.
LEMMA LineParts ==
  /\ Line.way = OnTheWay /\ Line.work = work[current] /\ Line.done = completedId[current]
  /\ Line.last = lastBatch[current] /\ Line.rows = table /\ Line.late = overwritten
BY DEF Line

\* It is of the type of a line.
LEMMA LineTyped == TypesOK /\ current \in Streams => IsLine(Line)
<1> SUFFICES ASSUME TypesOK, current \in Streams PROVE IsLine(Line)
  OBVIOUS
<1>1. wire[current] \in Seq(Message) /\ outbox \in Seq(Message)
  BY DEF TypesOK, SyncerTypeOK, StoreTypeOK
<1>2. OnTheWay \in Seq(Message)
  BY <1>1, ConcatProperties DEF OnTheWay
<1>3. work[current] \in Work /\ completedId[current] \in SnapshotIds \cup {NoId}
      /\ lastBatch[current] \in Nat /\ table \in Tables /\ overwritten \in BOOLEAN
  BY DEF TypesOK, StoreTypeOK, SessionOK, SessionTypeOK
<1> QED
  BY <1>2, <1>3, LineParts DEF IsLine

\* Its id is one of a snapshot.
LEMMA IdType == TypesOK /\ Id # NoId => Id \in SnapshotIds
BY DEF TypesOK, SyncerTypeOK, Id, Sending

\* Messages move along the line.
LEMMA SendsLine ==
  ASSUME TypesOK, current \in Streams, Sends, NEW id, Elsewhere(id)
  PROVE  OnTheWay' = OnTheWay /\ Line' = Line /\ Elsewhere(id)'
<1>1. /\ outbox # <<>> /\ outbox' = Tail(outbox)
      /\ wire' = [wire EXCEPT ![current] = Append(wire[current], Head(outbox))]
      /\ UNCHANGED <<table, work, completedId, lastBatch, current, overwritten>>
  BY DEF Sends, fields
<1>2. wire \in [Streams -> Seq(Message)] /\ wire[current] \in Seq(Message) /\ outbox \in Seq(Message)
  BY DEF TypesOK, SyncerTypeOK, StoreTypeOK
<1>3. wire'[current] = Append(wire[current], Head(outbox)) /\ \A s \in Streams : s # current => wire'[s] = wire[s]
  BY <1>1, <1>2
<1>4. OnTheWay' = OnTheWay
  BY <1>1, <1>2, <1>3, ConcatMoves DEF OnTheWay
<1>5. Line' = Line
  BY <1>1, <1>4 DEF Line
<1> QED
  BY <1>1, <1>3, <1>4, <1>5 DEF Elsewhere, MessagesOf

\* A message that is queued joins the line.
LEMMA QueueLine ==
  ASSUME TypesOK, current \in Streams, NEW m \in Message, outbox' = Append(outbox, m),
         UNCHANGED <<store, current, overwritten>>
  PROVE  /\ OnTheWay' = Append(OnTheWay, m) /\ Line'.way = Append(Line.way, m)
         /\ Line'.work = Line.work /\ Line'.done = Line.done /\ Line'.last = Line.last
         /\ Line'.rows = Line.rows /\ Line'.late = Line.late
<1>1. wire[current] \in Seq(Message) /\ outbox \in Seq(Message)
  BY DEF TypesOK, SyncerTypeOK, StoreTypeOK
<1>2. OnTheWay' = Append(OnTheWay, m)
  <2>1. PICK a \in Seq(Message), b \in Seq(Message) : a = wire[current] /\ b = outbox
    BY <1>1
  <2>2. a \o Append(b, m) = Append(a \o b, m)
    BY ConcatAppend
  <2>3. OnTheWay = a \o b /\ OnTheWay' = a \o Append(b, m)
    BY <2>1 DEF OnTheWay, store
  <2> QED
    BY <2>2, <2>3
<1> QED
  BY <1>2 DEF Line, store, fields

\* What the server does is a step of the line.
LEMMA OwnHears ==
  ASSUME TypesOK, SessionInv, session = "accepted", ServerHears(current), UNCHANGED syncer
  PROVE  /\ \E m \in Message : m = Head(wire[current]) /\ HearsLine(Line, Line', m)
         /\ \A s \in Streams : s # current => wire'[s] = wire[s] /\ work'[s] = work[s]
<1>0. StoreTypeOK /\ SyncerTypeOK /\ current \in Streams /\ home[current] # NoReplica
      /\ states[home[current]] = current /\ overwritten \in BOOLEAN
  BY DEF TypesOK, SessionOK, SessionTypeOK, SessionInv, Homes
<1>1. /\ Hears(current)
      /\ \/ IgnoreMessage(current)
         \/ \E o \in Streams, m \in Message :
              /\ m = Head(wire[current]) /\ m \in MessagesOf(current)
              /\ \/ TakeChunk(current, o, m) \/ TakeEvents(current, o, m)
                 \/ RefuseChunk(current, o, m) \/ RefuseEvents(current, o, m)
  BY <1>0, HearsParts
<1>2. ~IgnoreMessage(current)
  BY <1>0, NoNullStream DEF IgnoreMessage
<1>3. PICK m \in Message :
        /\ m = Head(wire[current])
        /\ \/ TakeChunk(current, current, m) \/ TakeEvents(current, current, m)
           \/ RefuseChunk(current, current, m) \/ RefuseEvents(current, current, m)
  <2>1. ASSUME NEW o \in Streams, NEW m \in Message,
               \/ TakeChunk(current, o, m) \/ TakeEvents(current, o, m)
               \/ RefuseChunk(current, o, m) \/ RefuseEvents(current, o, m)
        PROVE  o = current
    <3>1. states[home[current]] = o
      BY <2>1 DEF TakeChunk, TakeEvents, RefuseChunk, RefuseEvents, HearsChunk, HearsEvents
    <3> QED
      BY <1>0, <3>1
  <2> QED
    BY <1>1, <1>2, <2>1
<1>4. /\ work[current] = NoWork /\ wire[current] # <<>>
      /\ wire' = [wire EXCEPT ![current] = Tail(wire[current])] /\ table' = table
      /\ UNCHANGED <<current, outbox>>
  BY <1>1 DEF Hears, ServerHears, syncer
<1>5. /\ wire \in [Streams -> Seq(Message)] /\ wire[current] \in Seq(Message) /\ outbox \in Seq(Message)
      /\ work \in [Streams -> Work] /\ completedId \in [Streams -> SnapshotIds \cup {NoId}]
  BY <1>0 DEF SyncerTypeOK, StoreTypeOK
<1>6. wire'[current] = Tail(wire[current]) /\ \A s \in Streams : s # current => wire'[s] = wire[s]
  BY <1>0, <1>4, <1>5
<1>7. OnTheWay # <<>> /\ Head(OnTheWay) = m /\ OnTheWay' = Tail(OnTheWay)
  <2>1. PICK a \in Seq(Message), b \in Seq(Message) : a = wire[current] /\ b = outbox
    BY <1>5
  <2>2. a # <<>> /\ m = Head(a) /\ OnTheWay = a \o b /\ OnTheWay' = Tail(a) \o b
    BY <1>3, <1>4, <1>6, <2>1 DEF OnTheWay
  <2>3. a \o b # <<>> /\ Head(a \o b) = Head(a) /\ Tail(a \o b) = Tail(a) \o b
    BY <2>2, ConcatTail
  <2> QED
    BY <2>2, <2>3
<1>8. overwritten' = (overwritten /\ work'[current].what # "snapshot")
  <2>1. overwritten' = (overwritten /\ ~(current = current /\ work'[current].what = "snapshot"))
    BY DEF ServerHears
  <2> QED
    BY <2>1
<1>9. CASE RefuseChunk(current, current, m)
  <2>1. m.what = "chunk" /\ UNCHANGED <<completedId, lastBatch, work>>
    BY <1>9 DEF RefuseChunk, HearsChunk
  <2>2. HearsLine(Line, Line', m)
    BY <1>4, <1>7, <1>8, <2>1, LineParts DEF Line, HearsLine
  <2> QED
    BY <1>3, <1>6, <2>1, <2>2
<1>10. CASE TakeChunk(current, current, m)
  <2>1. m.what = "chunk" /\ UNCHANGED <<completedId, lastBatch>>
    BY <1>10 DEF TakeChunk, HearsChunk
  <2>2. CASE work' = work
    <3>1. HearsLine(Line, Line', m)
      BY <1>4, <1>7, <1>8, <2>1, <2>2, LineParts DEF Line, HearsLine
    <3> QED
      BY <1>3, <1>6, <2>2, <3>1
  <2>3. CASE work' # work
    <3>1. PICK w : w = [what |-> "snapshot", in |-> current, id |-> m.id, rows |-> Grown(current, m).rows,
                        seen |-> table, listing |-> m.listing]
      OBVIOUS
    <3>2. work' = [work EXCEPT ![current] = w] /\ m.last
      BY <1>10, <2>3, <3>1 DEF TakeChunk, Awaits
    <3>3. w.what = "snapshot" /\ w.id = m.id /\ w.listing = m.listing
      BY <3>1
    <3>4. work'[current] = w /\ \A s \in Streams : s # current => work'[s] = work[s]
      BY <1>0, <1>5, <3>2
    <3>5. HearsLine(Line, Line', m)
      BY <1>4, <1>7, <1>8, <2>1, <3>2, <3>3, <3>4, LineParts DEF Line, HearsLine
    <3> QED
      BY <1>3, <1>6, <3>4, <3>5
  <2> QED
    BY <2>2, <2>3
<1>11. CASE RefuseEvents(current, current, m)
  <2>1. /\ m.what = "events" /\ UNCHANGED <<lastBatch, work>>
        /\ completedId[current] # m.id \/ m.seq > lastBatch[current] + 1
        /\ completedId'[current] = IF completedId[current] = m.id THEN NoId ELSE completedId[current]
    BY <1>0, <1>5, <1>11 DEF RefuseEvents, HearsEvents
  <2>2. HearsLine(Line, Line', m)
    BY <1>4, <1>7, <1>8, <2>1, LineParts DEF Line, HearsLine
  <2> QED
    BY <1>3, <1>6, <2>1, <2>2
<1>12. CASE TakeEvents(current, current, m)
  <2>1. /\ m.what = "events" /\ UNCHANGED <<lastBatch, completedId>>
        /\ completedId[current] = m.id /\ m.seq <= lastBatch[current] + 1
    BY <1>12 DEF TakeEvents, HearsEvents
  <2>2. CASE m.seq = lastBatch[current] + 1
    <3>1. PICK w : w = [what |-> "events", in |-> current, seq |-> m.seq, events |-> m.events]
      OBVIOUS
    <3>2. work' = [work EXCEPT ![current] = w]
      BY <1>12, <2>2, <3>1 DEF TakeEvents, Awaits
    <3>3. w.what = "events" /\ w.seq = m.seq /\ w.events = m.events
      BY <3>1
    <3>4. work'[current] = w /\ \A s \in Streams : s # current => work'[s] = work[s]
      BY <1>0, <1>5, <3>2
    <3>5. HearsLine(Line, Line', m)
      BY <1>4, <1>7, <1>8, <2>1, <2>2, <3>3, <3>4, LineParts DEF Line, HearsLine
    <3> QED
      BY <1>3, <1>6, <3>4, <3>5
  <2>3. CASE m.seq # lastBatch[current] + 1
    <3>1. work' = work
      BY <1>12, <2>3 DEF TakeEvents
    <3>2. m.seq < lastBatch[current] + 1
      <4>1. m.seq \in Nat /\ lastBatch[current] \in Nat
        BY <1>0, MessageType DEF StoreTypeOK
      <4> QED
        BY <2>1, <2>3, <4>1
    <3>3. HearsLine(Line, Line', m)
      BY <1>4, <1>7, <1>8, <2>1, <3>1, <3>2, LineParts DEF Line, HearsLine
    <3> QED
      BY <1>3, <1>6, <3>1, <3>3
  <2> QED
    BY <2>2, <2>3
<1> QED
  BY <1>3, <1>9, <1>10, <1>11, <1>12
-----------------------------------------------------------------------------
\* What another stream hears does not touch the line.
LEMMA OthersHear ==
  ASSUME TypesOK, SessionInv, session = "accepted", NEW s \in Streams, s # current,
         ServerHears(s), UNCHANGED syncer, NEW id, id # NoId, Elsewhere(id)
  PROVE  OthersLine(Line, Line', id) /\ Elsewhere(id)'
<1>0. StoreTypeOK /\ SyncerTypeOK /\ current \in Streams
      /\ work \in [Streams -> Work] /\ completedId \in [Streams -> SnapshotIds \cup {NoId}]
      /\ wire \in [Streams -> Seq(Message)]
  BY DEF TypesOK, SessionInv, Homes, StoreTypeOK
<1>1. /\ Hears(s)
      /\ \/ IgnoreMessage(s)
         \/ \E o \in Streams, m \in Message :
              /\ m = Head(wire[s]) /\ m \in MessagesOf(s)
              /\ \/ TakeChunk(s, o, m) \/ TakeEvents(s, o, m)
                 \/ RefuseChunk(s, o, m) \/ RefuseEvents(s, o, m)
  BY <1>0, HearsParts
<1>2. /\ wire[s] # <<>> /\ wire' = [wire EXCEPT ![s] = Tail(wire[s])]
      /\ UNCHANGED <<table, current, outbox, overwritten>>
  <2>1. overwritten' = overwritten
    BY DEF ServerHears, TypesOK, SessionOK, SessionTypeOK
  <2> QED
    BY <1>1, <2>1 DEF Hears, ServerHears, syncer
<1>3. /\ wire'[s] = Tail(wire[s]) /\ \A x \in Streams : x # s => wire'[x] = wire[x]
      /\ ToSet(wire'[s]) \subseteq MessagesOf(s)
  <2>1. wire'[s] = Tail(wire[s]) /\ \A x \in Streams : x # s => wire'[x] = wire[x]
    BY <1>0, <1>2
  <2> QED
    BY <1>0, <1>2, <2>1, HeadMessage
<1>4. /\ \A x \in Streams : x # s => work'[x] = work[x]
      /\ ~Writes(work'[s], id)
      /\ completedId'[current] = completedId[current] \/ completedId'[current] # id
      /\ lastBatch' = lastBatch
  <2>0. ~Writes(work[s], id)
    BY DEF Elsewhere
  <2>1. CASE IgnoreMessage(s)
    BY <2>0, <2>1 DEF IgnoreMessage, fields
  <2>2. ASSUME NEW o \in Streams, NEW m \in Message, m \in MessagesOf(s), TakeChunk(s, o, m) PROVE <1>4
    <3>1. UNCHANGED <<completedId, lastBatch>>
      BY <2>2 DEF TakeChunk, HearsChunk
    <3>2. CASE work' = work
      BY <2>0, <3>1, <3>2
    <3>3. CASE work' # work
      <4>1. PICK w : w = [what |-> "snapshot", in |-> o, id |-> m.id, rows |-> Grown(o, m).rows,
                          seen |-> table, listing |-> m.listing]
        OBVIOUS
      <4>2. work' = [work EXCEPT ![s] = w]
        BY <2>2, <3>3, <4>1 DEF TakeChunk, Awaits
      <4>3. w.id = m.id /\ m.id # id
        BY <2>2, <4>1 DEF Elsewhere
      <4>4. work'[s] = w /\ \A x \in Streams : x # s => work'[x] = work[x]
        BY <1>0, <4>2
      <4> QED
        BY <3>1, <4>3, <4>4 DEF Writes
    <3> QED
      BY <3>2, <3>3
  <2>3. ASSUME NEW o \in Streams, NEW m \in Message, m \in MessagesOf(s), TakeEvents(s, o, m) PROVE <1>4
    <3>1. UNCHANGED <<completedId, lastBatch>>
      BY <2>3 DEF TakeEvents, HearsEvents
    <3>2. CASE work' = work
      BY <2>0, <3>1, <3>2
    <3>3. CASE work' # work
      <4>1. PICK w : w = [what |-> "events", in |-> o, seq |-> m.seq, events |-> m.events]
        OBVIOUS
      <4>2. work' = [work EXCEPT ![s] = w]
        BY <2>3, <3>3, <4>1 DEF TakeEvents, Awaits
      <4>3. w.what = "events"
        BY <4>1
      <4>4. work'[s] = w /\ \A x \in Streams : x # s => work'[x] = work[x]
        BY <1>0, <4>2
      <4> QED
        BY <3>1, <4>3, <4>4 DEF Writes
    <3> QED
      BY <3>2, <3>3
  <2>4. ASSUME NEW o \in Streams, NEW m \in Message, RefuseChunk(s, o, m) PROVE <1>4
    BY <2>0, <2>4 DEF RefuseChunk, HearsChunk
  <2>5. ASSUME NEW o \in Streams, NEW m \in Message, RefuseEvents(s, o, m) PROVE <1>4
    <3>1. /\ UNCHANGED <<work, lastBatch>>
          /\ completedId' = [completedId EXCEPT ![o] = IF completedId[o] = m.id THEN NoId ELSE completedId[o]]
      BY <2>5 DEF RefuseEvents, HearsEvents
    <3>2. completedId'[current] = completedId[current] \/ completedId'[current] = NoId
      BY <1>0, <3>1
    <3> QED
      BY <2>0, <3>1, <3>2
  <2> QED
    BY <1>1, <2>1, <2>2, <2>3, <2>4, <2>5
<1>5. OnTheWay' = OnTheWay
  BY <1>0, <1>2, <1>3 DEF OnTheWay
<1>6. OthersLine(Line, Line', id)
  BY <1>0, <1>2, <1>4, <1>5, LineParts DEF Line, OthersLine
<1>7. Elsewhere(id)'
  <2>1. ASSUME NEW x \in Streams, x # current
        PROVE  ~Writes(work'[x], id) /\ \A m \in ToSet(wire'[x]) : m.id # id
    BY <1>3, <1>4, <2>1 DEF Elsewhere, MessagesOf
  <2> QED
    BY <1>2, <2>1 DEF Elsewhere, MessagesOf
<1> QED
  BY <1>6, <1>7

\* A transaction ends: the line's own, or another's.
LEMMA EndsLine ==
  ASSUME TypesOK, SessionInv, session = "accepted", NEW s \in Streams,
         ServerWrites(s) \/ ServerFails(s) \/ ServerEnds(s), UNCHANGED syncer,
         NEW id, id # NoId, Elsewhere(id)
  PROVE  /\ (s = current /\ WritesLine(Line, Line')) \/ OthersLine(Line, Line', id)
         /\ Elsewhere(id)'
<1>0. /\ StoreTypeOK /\ SyncerTypeOK /\ current \in Streams
      /\ work \in [Streams -> Work] /\ completedId \in [Streams -> SnapshotIds \cup {NoId}]
      /\ wire \in [Streams -> Seq(Message)] /\ lastBatch \in [Streams -> Nat]
      /\ overwritten \in BOOLEAN /\ table \in Tables
      /\ work[current] # NoWork => work[current].in = current
  BY DEF TypesOK, SessionInv, Homes, StoreTypeOK, SessionOK, SessionTypeOK
<1>1. UNCHANGED <<current, outbox>>
  BY DEF ServerWrites, ServerFails, ServerEnds, syncer
<1>2. CASE ServerWrites(s) \/ ServerFails(s)
  <2>1. wire' = wire /\ work' = [work EXCEPT ![s] = NoWork]
    BY <1>2 DEF ServerWrites, ServerFails, CommitSnapshot, CommitEvents, FailWork, Awaits
  <2>2. work'[s] = NoWork /\ \A x \in Streams : x # s => work'[x] = work[x]
    BY <1>0, <2>1
  <2>3. OnTheWay' = OnTheWay
    BY <1>1, <2>1 DEF OnTheWay
  <2>4. Elsewhere(id)'
    <3>1. ~Writes(NoWork, id)
      BY NoWorkWhat DEF Writes
    <3>2. ASSUME NEW x \in Streams, x # current
          PROVE  ~Writes(work'[x], id) /\ \A m \in ToSet(wire'[x]) : m.id # id
      BY <2>1, <2>2, <3>1, <3>2 DEF Elsewhere, MessagesOf
    <3> QED
      BY <1>1, <3>2 DEF Elsewhere, MessagesOf
  <2>5. CASE CommitSnapshot(s) /\ ServerWrites(s)
    <3>1. PICK w : w = work[s]
      OBVIOUS
    <3>2. /\ w \in Work /\ w.what = "snapshot" /\ table' = Written(w)
          /\ completedId' = [completedId EXCEPT ![w.in] = w.id]
          /\ lastBatch' = [lastBatch EXCEPT ![w.in] = 0]
      BY <1>0, <2>5, <3>1 DEF CommitSnapshot
    <3>3. w # NoWork
      BY <3>2, NoWorkWhat
    <3>4. CASE s = current
      <4>1. w.in = current /\ overwritten' = overwritten
        BY <1>0, <2>5, <3>1, <3>3, <3>4 DEF ServerWrites
      <4>2. completedId'[current] = w.id /\ lastBatch'[current] = 0
        BY <1>0, <3>2, <4>1
      <4>3. ~overwritten => \A n \in Names : Similar(table'[n], RowOf(w.rows, n))
        <5>1. SUFFICES ASSUME ~overwritten, NEW n \in Names PROVE Similar(table'[n], RowOf(w.rows, n))
          OBVIOUS
        <5>2. w.seen = table
          BY <3>1, <3>2, <3>4, <5>1 DEF SessionInv, Seen
        <5>3. table'[n] = IF RowOf(w.rows, n) = table[n] \/ (RowOf(w.rows, n) = NoObject /\ table[n] = Gone)
                          THEN table[n]
                          ELSE IF RowOf(w.rows, n) = NoObject THEN Gone ELSE RowOf(w.rows, n)
          BY <3>2, <5>2 DEF Written
        <5> QED
          BY <5>3 DEF Similar, Nothing
      <4>4. WritesLine(Line, Line')
        <5>1. PICK v, u : v = Line /\ u = Line'
          OBVIOUS
        <5>2. u.way = v.way /\ u.work = NoWork /\ u.late = v.late /\ v.work = w
          BY <1>1, <2>2, <2>3, <3>1, <3>4, <4>1, <5>1 DEF Line
        <5>3. u.done = w.id /\ u.last = 0 /\ u.rows = table' /\ v.late = overwritten
          BY <1>1, <4>2, <5>1 DEF Line
        <5>4. WritesLine(v, u)
          BY <3>2, <4>3, <5>2, <5>3 DEF WritesLine
        <5> QED
          BY <5>1, <5>4
      <4> QED
        BY <2>4, <3>4, <4>4
    <3>5. CASE s # current
      <4>1. overwritten' = TRUE /\ w.id # id
        BY <2>5, <3>1, <3>2, <3>5 DEF ServerWrites, Elsewhere, Writes
      <4>2. completedId'[current] = completedId[current] \/ completedId'[current] # id
        BY <1>0, <3>2, <4>1
      <4>3. OthersLine(Line, Line', id)
        BY <1>0, <1>1, <2>2, <2>3, <3>5, <4>1, <4>2, LineParts DEF Line, OthersLine
      <4> QED
        BY <2>4, <4>3
    <3> QED
      BY <3>4, <3>5
  <2>6. CASE CommitEvents(s) /\ ServerWrites(s)
    <3>1. /\ work[s].what = "events" /\ table' = Patched(table, work[s].events)
          /\ lastBatch' = [lastBatch EXCEPT ![work[s].in] = work[s].seq] /\ completedId' = completedId
      BY <2>6 DEF CommitEvents
    <3>2. CASE s = current
      <4>1. work[s].in = current /\ overwritten' = overwritten
        BY <1>0, <2>6, <3>1, <3>2, NoWorkWhat DEF ServerWrites
      <4>2. lastBatch'[current] = work[current].seq
        BY <1>0, <3>1, <3>2, <4>1
      <4>3. WritesLine(Line, Line')
        <5>1. PICK v, u : v = Line /\ u = Line'
          OBVIOUS
        <5>2. u.way = v.way /\ u.work = NoWork /\ u.late = v.late /\ v.work = work[s]
          BY <1>1, <2>2, <2>3, <3>2, <4>1, <5>1 DEF Line
        <5>3. u.done = v.done /\ u.last = work[s].seq /\ u.rows = table' /\ v.rows = table
          BY <1>1, <3>1, <3>2, <4>2, <5>1 DEF Line
        <5>4. WritesLine(v, u)
          BY <3>1, <5>2, <5>3 DEF WritesLine
        <5> QED
          BY <5>1, <5>4
      <4> QED
        BY <2>4, <3>2, <4>3
    <3>3. CASE s # current
      <4>1. overwritten' = TRUE
        BY <2>6, <3>3 DEF ServerWrites
      <4>2. OthersLine(Line, Line', id)
        BY <1>0, <1>1, <2>2, <2>3, <3>1, <3>3, <4>1, LineParts DEF Line, OthersLine
      <4> QED
        BY <2>4, <4>2
    <3> QED
      BY <3>2, <3>3
  <2>7. CASE ServerFails(s)
    <3>1. work[s] # NoWork /\ UNCHANGED <<table, completedId, lastBatch, overwritten>>
      BY <2>7 DEF ServerFails, FailWork, fields
    <3>2. CASE s = current
      <4>1. WritesLine(Line, Line')
        BY <1>0, <1>1, <2>2, <2>3, <3>1, <3>2, LineParts DEF Line, WritesLine
      <4> QED
        BY <2>4, <3>2, <4>1
    <3>3. CASE s # current
      <4>1. OthersLine(Line, Line', id)
        BY <1>0, <1>1, <2>2, <2>3, <3>1, <3>3, LineParts DEF Line, OthersLine
      <4> QED
        BY <2>4, <4>1
    <3> QED
      BY <3>2, <3>3
  <2> QED
    BY <1>2, <2>5, <2>6, <2>7 DEF ServerWrites
<1>3. CASE ServerEnds(s)
  <2>1. /\ s # current /\ wire' = [wire EXCEPT ![s] = <<>>] /\ UNCHANGED <<work, table, overwritten>>
        /\ completedId' = [completedId EXCEPT ![s] = NoId] /\ lastBatch' = [lastBatch EXCEPT ![s] = 0]
    BY <1>3 DEF ServerEnds, EndStream
  <2>2. /\ wire'[s] = <<>> /\ \A x \in Streams : x # s => wire'[x] = wire[x]
        /\ completedId'[current] = completedId[current] /\ lastBatch'[current] = lastBatch[current]
    BY <1>0, <2>1
  <2>3. OnTheWay' = OnTheWay
    BY <1>0, <1>1, <2>1, <2>2 DEF OnTheWay
  <2>4. OthersLine(Line, Line', id)
    BY <1>1, <2>1, <2>2, <2>3, LineParts DEF Line, OthersLine
  <2>5. ASSUME NEW x \in Streams, x # current
        PROVE  ~Writes(work'[x], id) /\ \A m \in ToSet(wire'[x]) : m.id # id
    BY <2>1, <2>2, <2>5, EmptySet DEF Elsewhere, MessagesOf
  <2> QED
    BY <1>1, <2>4, <2>5 DEF Elsewhere, MessagesOf
<1> QED
  BY <1>2, <1>3

\* Each step of the server is one of the three of a line.
LEMMA ServerLine ==
  ASSUME TypesOK, SessionInv, session = "accepted", NEW s \in Streams, ServerStep(s),
         UNCHANGED syncer, NEW id, id # NoId, Elsewhere(id)
  PROVE  /\ \/ s = current /\ \E m \in Message : HearsLine(Line, Line', m)
            \/ s = current /\ WritesLine(Line, Line')
            \/ OthersLine(Line, Line', id)
         /\ Elsewhere(id)'
<1>1. CASE ServerHears(s) /\ s = current
  <2>1. /\ \E m \in Message : m = Head(wire[current]) /\ HearsLine(Line, Line', m)
        /\ \A x \in Streams : x # current => wire'[x] = wire[x] /\ work'[x] = work[x]
    BY <1>1, OwnHears
  <2>2. current' = current
    BY <1>1 DEF ServerHears
  <2>3. Elsewhere(id)'
    BY <2>1, <2>2 DEF Elsewhere, MessagesOf
  <2> QED
    BY <1>1, <2>1, <2>3
<1>2. CASE ServerHears(s) /\ s # current
  BY <1>2, OthersHear
<1>3. CASE ServerWrites(s) \/ ServerFails(s) \/ ServerEnds(s)
  BY <1>3, EndsLine
<1> QED
  BY <1>1, <1>2, <1>3 DEF ServerStep
-----------------------------------------------------------------------------
\* A fresh id is nowhere.
LEMMA FreshMeans ==
  ASSUME TypesOK, current \in Streams, NEW id \in Fresh
  PROVE  /\ id \in SnapshotIds /\ id # NoId /\ Elsewhere(id)
         /\ \A m \in ToSet(OnTheWay) : m.id # id
         /\ completedId[current] # id /\ ~Writes(work[current], id)
<1>1. id \in SnapshotIds /\ id # NoId /\ id \notin InUse
  BY InventoryAssumption DEF Fresh
<1>2. \A s \in Streams : \A m \in MessagesOf(s) : m.id # id
  BY <1>1, InUseMeans
<1>3. \A s \in Streams : ~Writes(work[s], id)
  <2>1. ASSUME NEW s \in Streams, Writes(work[s], id) PROVE FALSE
    <3>1. s \in {x \in Streams : work[x].what = "snapshot"} /\ work[s].id = id
      BY <2>1 DEF Writes
    <3> DEFINE A == {x \in Streams : work[x].what = "snapshot"}
               B == {work[x].id : x \in A}
    <3>2. B \subseteq InUse
      BY Zenon DEF InUse
    <3>3. s \in A
      BY <3>1
    <3> HIDE DEF A
    <3>4. work[s].id \in B
      BY <3>3, Zenon
    <3> HIDE DEF B
    <3> QED
      BY <1>1, <3>1, <3>2, <3>4
  <2> QED
    BY <2>1
<1>4. completedId[current] # id
  <2> DEFINE U(x) == {m.id : m \in MessagesOf(x)} \cup {completedId[x], assembly[x].id}
  <2>1. U(current) \subseteq UNION {U(x) : x \in Streams}
    BY Zenon
  <2>2. UNION {U(x) : x \in Streams} \subseteq InUse
    BY DEF InUse
  <2>3. completedId[current] \in U(current)
    OBVIOUS
  <2> QED
    BY <1>1, <2>1, <2>2, <2>3, Zenon
<1>5. \A m \in ToSet(outbox) : m.id # id
  BY <1>1 DEF InUse
<1>6. wire[current] \in Seq(Message) /\ outbox \in Seq(Message)
  BY DEF TypesOK, SyncerTypeOK, StoreTypeOK
<1>7. \A m \in ToSet(OnTheWay) : m \in MessagesOf(current) \/ m \in ToSet(outbox)
  <2>1. PICK a \in Seq(Message), b \in Seq(Message) : a = wire[current] /\ b = outbox
    BY <1>6
  <2>2. /\ Len(a) \in Nat /\ Len(b) \in Nat /\ a \o b \in Seq(Message) /\ Len(a \o b) = Len(a) + Len(b)
        /\ \A i \in 1 .. Len(a) + Len(b) : (a \o b)[i] = IF i <= Len(a) THEN a[i] ELSE b[i - Len(a)]
    BY ConcatProperties, LenProperties
  <2>3. /\ ToSet(a \o b) = {(a \o b)[i] : i \in 1 .. Len(a \o b)}
        /\ ToSet(a) = {a[i] : i \in 1 .. Len(a)} /\ ToSet(b) = {b[i] : i \in 1 .. Len(b)}
    BY <2>2, Elements
  <2>4. ASSUME NEW i \in 1 .. Len(a) + Len(b) PROVE (a \o b)[i] \in ToSet(a) \cup ToSet(b)
    <3>1. CASE i <= Len(a)
      <4>1. i \in 1 .. Len(a)
        BY <2>2, <3>1
      <4>2. (a \o b)[i] = a[i]
        BY <2>2, <3>1
      <4> QED
        BY <2>3, <4>1, <4>2
    <3>2. CASE ~(i <= Len(a))
      <4>1. i - Len(a) \in 1 .. Len(b)
        BY <2>2, <3>2
      <4>2. (a \o b)[i] = b[i - Len(a)]
        BY <2>2, <3>2
      <4> QED
        BY <2>3, <4>1, <4>2
    <3> QED
      BY <3>1, <3>2
  <2>5. ToSet(a \o b) \subseteq ToSet(a) \cup ToSet(b)
    BY <2>2, <2>3, <2>4
  <2> QED
    BY <2>1, <2>5 DEF OnTheWay, MessagesOf
<1> QED
  BY <1>1, <1>2, <1>3, <1>4, <1>5, <1>7 DEF Elsewhere

\* It holds in the beginning, for no snapshot was sent.
LEMMA InitLine == InventoryInit => LineInv
BY DEF InventoryInit, InventoryBegins, LineInv, Fine

\* A snapshot begins: nothing on the line is of it.
LEMMA BeginsLine ==
  ASSUME TypesOK, SessionInv, NEW id \in Fresh, Begins(id)
  PROVE  LineInv'
<1>1. session = "accepted" /\ current \in Streams
  BY DEF TypesOK, SessionOK, SessionTypeOK, SessionInv, Homes, Begins
<1>2. /\ sending' = [id |-> id, listing |-> SetToSeq(Listed), next |-> 0]
      /\ UNCHANGED <<outbox, wire, work, completedId, lastBatch, table, overwritten, current>>
  BY DEF Begins, StartSnapshot, store, fields
<1>3. OnTheWay' = OnTheWay /\ Line' = Line
  <2>1. OnTheWay' = OnTheWay
    BY <1>2 DEF OnTheWay
  <2> QED
    BY <1>2, <2>1 DEF Line
<1>4. /\ id \in SnapshotIds /\ id # NoId /\ Elsewhere(id)
      /\ \A m \in ToSet(OnTheWay) : m.id # id
      /\ completedId[current] # id /\ ~Writes(work[current], id)
  BY <1>1, FreshMeans
<1>5. OnTheWay \in Seq(Message)
  BY <1>1, LineTyped, LineParts DEF IsLine
<1>6. \A i \in 1 .. Len(OnTheWay) : OnTheWay[i].id # id
  BY <1>4, <1>5, Elements
<1>7. Chain(Line, id)
  BY <1>4, <1>6, LineParts DEF Chain
<1>8. Outgoing(Line, id, sending'.listing, sending'.next)
  BY <1>4, LineParts DEF Outgoing
<1>9. Id' = id /\ Sending'
  BY <1>2, <1>4 DEF Id, Sending
<1>10. Elsewhere(id)'
  BY <1>2, <1>4 DEF Elsewhere, MessagesOf
<1> QED
  BY <1>3, <1>7, <1>8, <1>9, <1>10 DEF LineInv

\* The agent adds to the line.
LEMMA ChunkLine ==
  ASSUME TypesOK, current \in Streams, LineInv, Fine, SendChunk,
         UNCHANGED <<store, session, current, overwritten>>
  PROVE  LineInv'
<1>0. SyncerTypeOK /\ IsLine(Line)
  BY LineTyped DEF TypesOK
<1>1. PICK id \in SnapshotIds, listing \in Seq(Item), k \in Nat :
        id = sending.id /\ listing = sending.listing /\ k = sending.next
  BY <1>0 DEF SendChunk, Sending, SyncerTypeOK
<1>2. Sending /\ Id = id /\ id # NoId /\ k < Chunks(listing)
  BY <1>1 DEF SendChunk, Sending, Id
<1>3. PICK m : m = [what |-> "chunk", id |-> id, seq |-> k, last |-> k + 1 = Chunks(listing),
                    items |-> ItemsOf(listing, k), listing |-> listing]
  OBVIOUS
<1>4. /\ outbox' = Append(outbox, m) /\ sending' = [sending EXCEPT !.next = k + 1]
      /\ UNCHANGED <<snapshotID, batchSeq, resyncReq>>
  BY <1>1, <1>3 DEF SendChunk, batching
<1>5. m \in Message /\ m.id = id /\ m.what = "chunk" /\ m.seq = k /\ m.listing = listing
      /\ m.last = (k + 1 = Chunks(listing))
  <2>1. ItemsOf(listing, k) \subseteq Item
    BY <1>2, ItemsType
  <2> QED
    BY <1>3, <2>1 DEF Message
<1>6. Chain(Line, id) /\ Elsewhere(id) /\ Outgoing(Line, id, listing, k)
  BY <1>1, <1>2 DEF LineInv
<1>7. /\ Line'.way = Append(Line.way, m) /\ Line'.work = Line.work /\ Line'.done = Line.done
      /\ Line'.last = Line.last /\ Line'.rows = Line.rows /\ Line'.late = Line.late
  BY <1>4, <1>5, QueueLine
<1>8. Chunks(listing) \in Nat
  BY <1>2, ItemsType
<1>9. ASSUME NEW x \in ToSet(Line.way), x.id = id PROVE Before(x, m)
  <2>1. /\ x.what = "chunk" /\ x.seq < k
        /\ x.last => x.seq + 1 = Chunks(listing)
    BY <1>6, <1>9 DEF Outgoing
  <2>2. x.seq \in Nat
    BY <1>0, <1>9, Elements, MessageType DEF IsLine
  <2>3. ~x.last
    BY <1>2, <1>8, <2>1, <2>2
  <2> QED
    BY <1>5, <1>9, <2>1, <2>3 DEF Before
<1>10. ~(Line.done = id \/ Writes(Line.work, id))
  BY <1>2, <1>6, <1>8 DEF Outgoing
<1>11. Chain(Line', id)
  <2>1. PICK v, u : v = Line /\ u = Line'
    OBVIOUS
  <2>2. /\ u.way = Append(v.way, m) /\ u.work = v.work /\ u.done = v.done
        /\ u.last = v.last /\ u.late = v.late
    BY <1>7, <2>1
  <2>3. \A x \in ToSet(v.way) : x.id = id => Before(x, m)
    BY <1>9, <2>1
  <2>4. IsLine(v) /\ Chain(v, id) /\ ~(v.done = id \/ Writes(v.work, id))
    BY <1>0, <1>6, <1>10, <2>1
  <2>5. Chain(u, id)
    BY <1>5, <2>2, <2>3, <2>4, ChainAppend
  <2> QED
    BY <2>1, <2>5
<1>12. Outgoing(Line', id, listing, k + 1)
  <2>1. ToSet(Line'.way) = ToSet(Line.way) \cup {m}
    BY <1>0, <1>5, <1>7, AppendSet DEF IsLine
  <2>2. ASSUME NEW x \in ToSet(Line'.way), x.id = id
        PROVE  /\ x.what = "chunk" /\ x.listing = listing /\ x.seq < k + 1
               /\ x.last => x.seq + 1 = Chunks(listing)
    <3>1. CASE x = m
      <4>1. m.last => k + 1 = Chunks(listing)
        BY <1>5, Zenon
      <4> QED
        BY <1>5, <3>1, <4>1
    <3>2. CASE x \in ToSet(Line.way)
      <4>1. /\ x.what = "chunk" /\ x.listing = listing /\ x.seq < k
            /\ x.last => x.seq + 1 = Chunks(listing)
        BY <1>6, <2>2, <3>2 DEF Outgoing
      <4>2. x.seq \in Nat
        BY <1>0, <3>2, Elements, MessageType DEF IsLine
      <4> QED
        BY <4>1, <4>2
    <3> QED
      BY <2>1, <3>1, <3>2
  <2> QED
    BY <1>7, <1>10, <2>2 DEF Outgoing
<1>13. sending'.id = id /\ sending'.listing = listing /\ sending'.next = k + 1
  BY <1>0, <1>1, <1>4 DEF SyncerTypeOK
<1>14. Sending' /\ Id' = id
  BY <1>2, <1>13 DEF Sending, Id
<1>15. Elsewhere(id)'
  BY <1>6 DEF Elsewhere, MessagesOf, store
<1> QED
  BY <1>11, <1>12, <1>13, <1>14, <1>15 DEF LineInv

\* A batch joins the line with the next number.
LEMMA BatchLine ==
  ASSUME TypesOK, current \in Streams, LineInv, Fine, NEW n \in Nat, SentBatch(n),
         UNCHANGED <<store, session, current, overwritten>>
  PROVE  LineInv' /\ Batch(n) \in Message /\ Line'.way = Append(Line.way, Batch(n))
<1>0. SyncerTypeOK /\ IsLine(Line)
  BY LineTyped DEF TypesOK
<1>1. PICK id \in SnapshotIds, q \in Nat, p \in Events : id = snapshotID /\ q = batchSeq /\ p = SubSeq(pending, 1, n)
  <2>1. SubSeq(pending, 1, n) \in Events
    BY <1>0, RestThinned DEF SentBatch, SyncerTypeOK, Events
  <2> QED
    BY <1>0, <2>1 DEF SentBatch, SyncerTypeOK
<1>2. ~Sending /\ Id = id /\ id # NoId
  BY <1>1 DEF SentBatch, Id
<1>3. PICK m : m = [what |-> "events", id |-> id, seq |-> q + 1, events |-> p]
  OBVIOUS
<1>4. outbox' = Append(outbox, m) /\ m = Batch(n) /\ batchSeq' = q + 1 /\ UNCHANGED <<snapshotID, sending>>
  BY <1>1, <1>3 DEF SentBatch, Batch
<1>5. m \in Message /\ m.id = id /\ m.what = "events" /\ m.seq = q + 1
  BY <1>3 DEF Message, Events
<1>6. Chain(Line, id) /\ Elsewhere(id) /\ Numbered(Line, id, q)
  BY <1>1, <1>2 DEF LineInv
<1>7. /\ Line'.way = Append(Line.way, m) /\ Line'.work = Line.work /\ Line'.done = Line.done
      /\ Line'.last = Line.last /\ Line'.rows = Line.rows /\ Line'.late = Line.late
  BY <1>4, <1>5, QueueLine
<1>8. Chain(Line', id) /\ Numbered(Line', id, q + 1)
  <2>1. PICK v, u : v = Line /\ u = Line'
    OBVIOUS
  <2>2. /\ u.way = Append(v.way, m) /\ u.work = v.work /\ u.done = v.done
        /\ u.last = v.last /\ u.late = v.late
    BY <1>7, <2>1
  <2>3. IsLine(v) /\ Chain(v, id) /\ Numbered(v, id, q)
    BY <1>0, <1>6, <2>1
  <2>4. \A x \in ToSet(v.way) : x \in Message /\ x.seq \in Nat /\ x.what \in {"chunk", "events"}
    BY <2>3, Elements, MessageType DEF IsLine
  <2>5. ASSUME v.done = id \/ Writes(v.work, id) PROVE \A x \in ToSet(v.way) : ~IsLast(x)
    BY <2>3, <2>5 DEF Chain
  <2>6. ASSUME NEW x \in ToSet(v.way), x.id = id PROVE Before(x, m)
    <3>1. x.what = "events" => x.seq < m.seq
      <4>1. x.what = "events" => x.seq \in 1 .. q
        BY <2>3, <2>6 DEF Numbered
      <4> QED
        BY <1>5, <2>4, <2>6, <4>1
    <3> QED
      BY <1>5, <2>6, <3>1 DEF Before
  <2>7. v.done = id /\ ~v.late => m.seq > v.last /\ (v.work.what = "events" => m.seq > v.work.seq)
    <3>1. v.last \in Nat /\ (v.work.what = "events" => v.work.seq \in Nat)
      BY <2>3, WorkType DEF IsLine
    <3>2. v.done = id /\ ~v.late => v.last <= q /\ (v.work.what = "events" => v.work.seq <= q)
      BY <2>3 DEF Numbered
    <3> QED
      BY <1>5, <3>1, <3>2
  <2>8. ~IsLast(m)
    BY <1>5 DEF IsLast
  <2>9. Chain(u, id)
    BY <1>5, <2>2, <2>3, <2>6, <2>7, <2>8, ChainAppend
  <2>10. ToSet(u.way) = ToSet(v.way) \cup {m}
    BY <1>5, <2>2, <2>3, AppendSet DEF IsLine
  <2>11. \A x \in ToSet(u.way) : x.id = id /\ x.what = "events" => x.seq \in 1 .. q + 1
    <3>1. \A x \in ToSet(v.way) : x.id = id /\ x.what = "events" => x.seq \in 1 .. q
      BY <2>3 DEF Numbered
    <3>2. q + 1 \in 1 .. q + 1 /\ 1 .. q \subseteq 1 .. q + 1
      OBVIOUS
    <3> QED
      BY <1>5, <2>10, <3>1, <3>2
  <2>12. v.done = id /\ ~v.late => v.last <= q + 1 /\ (v.work.what = "events" => v.work.seq <= q + 1)
    <3>1. v.last \in Nat /\ (v.work.what = "events" => v.work.seq \in Nat)
      BY <2>3, WorkType DEF IsLine
    <3>2. v.done = id /\ ~v.late => v.last <= q /\ (v.work.what = "events" => v.work.seq <= q)
      BY <2>3 DEF Numbered
    <3> QED
      BY <3>1, <3>2
  <2>13. Numbered(u, id, q + 1)
    BY <2>2, <2>11, <2>12 DEF Numbered
  <2> QED
    BY <2>1, <2>9, <2>13
<1>9. ~Sending' /\ Id' = id
  BY <1>1, <1>2, <1>4 DEF Sending, Id
<1>10. Elsewhere(id)'
  BY <1>6 DEF Elsewhere, MessagesOf, store
<1>11. LineInv'
  BY <1>4, <1>8, <1>9, <1>10 DEF LineInv
<1> QED
  BY <1>4, <1>5, <1>7, <1>11
-----------------------------------------------------------------------------
\* The last chunk is queued: no batch of the snapshot was sent yet.
LEMMA FinishLine ==
  ASSUME TypesOK, current \in Streams, LineInv, Fine, FinishSnapshot,
         UNCHANGED <<store, session, current, overwritten>>
  PROVE  LineInv' /\ Line' = Line /\ OnTheWay' = OnTheWay
<1>0. IsLine(Line) /\ connected
  BY LineTyped DEF TypesOK, SessionOK, SessionTypeOK, Fine
<1>1. PICK id : id = sending.id
  OBVIOUS
<1>2. Sending /\ Id = id /\ id # NoId
  BY <1>1 DEF FinishSnapshot, Sending, Id
<1>3. sending' = Idle /\ snapshotID' = id /\ batchSeq' = 0 /\ UNCHANGED outbox
  BY <1>0, <1>1 DEF FinishSnapshot
<1>4. ~Sending' /\ Id' = id
  BY <1>3 DEF Sending, Id, Idle
<1>5. Line' = Line /\ OnTheWay' = OnTheWay
  <2>1. UNCHANGED <<wire, outbox, work, completedId, lastBatch, table, overwritten, current>>
    BY <1>3 DEF store, fields
  <2>2. OnTheWay' = OnTheWay
    BY <2>1 DEF OnTheWay
  <2> QED
    BY <2>1, <2>2 DEF Line
<1>6. Chain(Line, id) /\ Elsewhere(id) /\ Outgoing(Line, id, sending.listing, sending.next)
  BY <1>2 DEF LineInv
<1>7. Numbered(Line, id, 0)
  <2>1. \A m \in ToSet(Line.way) : m.id = id => m.what = "chunk"
    BY <1>6 DEF Outgoing
  <2>2. Line.done = id /\ ~Line.late => Line.last = 0 /\ Line.work.what # "events"
    BY <1>6 DEF Outgoing
  <2> QED
    BY <2>1, <2>2 DEF Numbered
<1>8. Elsewhere(id)'
  BY <1>6 DEF Elsewhere, MessagesOf, store
<1> QED
  BY <1>3, <1>4, <1>5, <1>6, <1>7, <1>8 DEF LineInv

\* Steps that leave the line alone.
LEMMA SameLine ==
  ASSUME LineInv, Fine, Line' = Line, UNCHANGED <<sending, snapshotID, batchSeq>>,
         Elsewhere(Id) => Elsewhere(Id)'
  PROVE  LineInv'
<1>1. Id' = Id /\ (Sending' <=> Sending)
  BY DEF Id, Sending
<1> QED
  BY <1>1 DEF LineInv

\* What the server does keeps the line.
LEMMA HandledLine ==
  ASSUME TypesOK, TypesOK', SessionInv, WholeSnapshot, LineInv, Fine, NEW s \in Streams, ServerStep(s),
         UNCHANGED syncer
  PROVE  LineInv'
<1>0. /\ session = "accepted" /\ current \in Streams /\ current' = current
      /\ UNCHANGED <<sending, snapshotID, batchSeq, resyncReq, session>>
  <2>1. UNCHANGED <<current, session>>
    BY DEF ServerStep, ServerHears, ServerWrites, ServerFails, ServerEnds
  <2> QED
    BY <2>1 DEF Fine, SessionInv, Homes, syncer, batching
<1>1. IsLine(Line) /\ IsLine(Line')
  <2>1. (current \in Streams)'
    BY <1>0 DEF Streams
  <2>2. IsLine(Line)'
    BY <2>1, LineTyped, PTL
  <2> QED
    BY <1>0, <2>2, LineTyped DEF IsLine
<1>2. Id' = Id /\ (Sending' <=> Sending)
  BY <1>0 DEF Id, Sending
<1>3. SUFFICES ASSUME Id # NoId
               PROVE  /\ Chain(Line, Id)' /\ Elsewhere(Id)'
                      /\ Sending' => Outgoing(Line, Id, sending.listing, sending.next)'
                      /\ ~Sending' => Numbered(Line, Id, batchSeq)'
  BY <1>2 DEF LineInv
<1>4. PICK id, v, u : id = Id /\ v = Line /\ u = Line'
  OBVIOUS
<1>5. /\ Chain(v, id) /\ Elsewhere(id) /\ IsLine(v) /\ IsLine(u) /\ id # NoId
      /\ Sending => Outgoing(v, id, sending.listing, sending.next)
      /\ ~Sending => Numbered(v, id, batchSeq)
  BY <1>1, <1>3, <1>4 DEF LineInv
<1>6. /\ \/ \E m : HearsLine(v, u, m)
         \/ WritesLine(v, u)
         \/ OthersLine(v, u, id)
      /\ Elsewhere(id)'
  BY <1>0, <1>4, <1>5, ServerLine
<1>7. v.work.what = "snapshot" => v.work.rows = ToSet(v.work.listing)
  BY <1>0, <1>4, LineParts DEF WholeSnapshot
<1>8. sending.next \in Nat /\ batchSeq \in Nat
  BY DEF TypesOK, SyncerTypeOK
<1>9. Sending => Outgoing(u, id, sending.listing, sending.next)
  <2>1. PICK k, l : k \in Nat /\ k = sending.next /\ l = sending.listing
    BY <1>8
  <2>2. k \in Nat
    BY <2>1
  <2>3. Outgoing(v, id, l, k) => Outgoing(u, id, l, k)
    BY <1>5, <1>6, <1>7, <2>2, OutgoingStep
  <2> QED
    BY <1>5, <2>1, <2>3
<1>10. ~Sending => Numbered(u, id, batchSeq)
  <2>1. PICK q \in Nat : q = batchSeq
    BY <1>8
  <2>2. Numbered(v, id, q) => Numbered(u, id, q)
    BY <1>5, <1>6, NumberedStep
  <2> QED
    BY <1>5, <2>1, <2>2
<1>11. Chain(u, id)
  <2>1. CASE \E m : HearsLine(v, u, m)
    BY <1>5, <2>1, LineHears
  <2>2. CASE WritesLine(v, u)
    <3>1. v.work.what = "events" => v.work.seq \in Nat
      BY <1>5, WorkType DEF IsLine
    <3>2. \A m \in ToSet(v.way) : m.id = id /\ m.what = "events" => m.seq > 0
      <4>1. CASE Sending
        BY <1>5, <4>1 DEF Outgoing
      <4>2. CASE ~Sending
        <5>1. \A m \in ToSet(v.way) : m.id = id /\ m.what = "events" => m.seq \in 1 .. batchSeq
          BY <1>5, <4>2 DEF Numbered
        <5> QED
          BY <1>8, <5>1
      <4> QED
        BY <4>1, <4>2
    <3> QED
      BY <1>5, <2>2, <3>1, <3>2, LineWrites
  <2>3. CASE OthersLine(v, u, id)
    BY <1>5, <2>3, LineOthers
  <2> QED
    BY <1>6, <2>1, <2>2, <2>3
<1> QED
  BY <1>0, <1>2, <1>4, <1>6, <1>9, <1>10, <1>11

\* A message goes from the outbox to the wire: the line is as it was.
LEMMA FineSends == TypesOK /\ current \in Streams /\ Sends => Line' = Line /\ OnTheWay' = OnTheWay
<1> SUFFICES ASSUME TypesOK, current \in Streams, Sends PROVE Line' = Line /\ OnTheWay' = OnTheWay
  OBVIOUS
<1>1. /\ outbox # <<>> /\ outbox' = Tail(outbox)
      /\ wire' = [wire EXCEPT ![current] = Append(wire[current], Head(outbox))]
      /\ UNCHANGED <<table, work, completedId, lastBatch, current, overwritten>>
  BY DEF Sends, fields
<1>2. wire \in [Streams -> Seq(Message)] /\ wire[current] \in Seq(Message) /\ outbox \in Seq(Message)
  BY DEF TypesOK, SyncerTypeOK, StoreTypeOK
<1>3. wire'[current] = Append(wire[current], Head(outbox))
  BY <1>1, <1>2
<1>4. OnTheWay' = OnTheWay
  BY <1>1, <1>2, <1>3, ConcatMoves DEF OnTheWay
<1> QED
  BY <1>1, <1>4 DEF Line

\* Each step keeps the line.
LEMMA NextLine ==
  TypesOK /\ SessionInv /\ WholeSnapshot /\ LineInv /\ [InventoryNext]_vars => LineInv'
<1> SUFFICES ASSUME TypesOK, SessionInv, WholeSnapshot, LineInv, [InventoryNext]_vars PROVE LineInv'
  OBVIOUS
<1>0. TypesOK'
  BY NextTyped
<1>1. SUFFICES ASSUME Fine' PROVE LineInv'
  BY DEF LineInv
<1>2. ASSUME NEW id \in Fresh, Begins(id) PROVE LineInv'
  BY <1>2, BeginsLine
<1>3. CASE Fine /\ FineMoves
  <2>0. current \in Streams
    BY <1>3 DEF SessionInv, Homes, Fine
  <2>1. CASE FineAgent /\ UNCHANGED <<store, session, current, overwritten>>
    <3>1. ASSUME NEW e, WorldMoves(e) \/ HandlerMoves(e) PROVE LineInv'
      <4>1. UNCHANGED <<sending, snapshotID, batchSeq, outbox>>
        BY <3>1 DEF WorldMoves, HandlerMoves, batching
      <4>2. UNCHANGED <<wire, outbox, work, completedId, lastBatch, table, overwritten, current>>
        BY <2>1, <4>1 DEF store, fields
      <4>3. OnTheWay' = OnTheWay
        BY <4>2 DEF OnTheWay
      <4>4. Line' = Line
        BY <4>2, <4>3 DEF Line
      <4>5. Id' = Id
        BY <4>1 DEF Id, Sending
      <4>6. Elsewhere(Id) => Elsewhere(Id)'
        BY <4>2, <4>5 DEF Elsewhere, MessagesOf
      <4> QED
        BY <1>3, <4>1, <4>4, <4>6, SameLine
    <3>2. CASE SendChunk
      BY <1>3, <2>0, <2>1, <3>2, ChunkLine
    <3>3. CASE FinishSnapshot
      BY <1>3, <2>0, <2>1, <3>3, FinishLine
    <3>4. ASSUME NEW n \in Nat, SentBatch(n) PROVE LineInv'
      BY <1>3, <2>0, <2>1, <3>4, BatchLine
    <3> QED
      BY <2>1, <3>1, <3>2, <3>3, <3>4 DEF FineAgent
  <2>2. CASE Sends
    <3>1. UNCHANGED <<sending, snapshotID, batchSeq>>
      BY <2>2 DEF Sends, KeepSyncer, batching
    <3>2. Id' = Id
      BY <3>1 DEF Id, Sending
    <3>3. PICK id : id = Id
      OBVIOUS
    <3>4. Line' = Line
      BY <2>0, <2>2, FineSends
    <3>5. Elsewhere(id) => Elsewhere(id)'
      BY <2>0, <2>2, SendsLine
    <3>6. Elsewhere(Id) => Elsewhere(Id)'
      BY <3>2, <3>3, <3>5
    <3> QED
      BY <1>3, <3>1, <3>4, <3>6, SameLine
  <2>3. ASSUME UNCHANGED syncer, NEW s \in Streams, ServerStep(s) PROVE LineInv'
    BY <1>0, <1>3, <2>3, HandledLine
  <2>4. CASE UNCHANGED vars
    <3>1. UNCHANGED <<sending, snapshotID, batchSeq, wire, outbox, work, completedId, lastBatch, table,
                      overwritten, current>>
      BY <2>4 DEF vars, syncer, batching, store, fields
    <3>2. OnTheWay' = OnTheWay
      BY <3>1 DEF OnTheWay
    <3>3. Line' = Line
      BY <3>1, <3>2 DEF Line
    <3>4. Id' = Id
      BY <3>1 DEF Id, Sending
    <3>5. Elsewhere(Id) => Elsewhere(Id)'
      BY <3>1, <3>4 DEF Elsewhere, MessagesOf
    <3> QED
      BY <1>3, <3>1, <3>3, <3>5, SameLine
  <2> QED
    BY <1>3, <2>1, <2>2, <2>3, <2>4 DEF FineMoves
<1> QED
  BY <1>1, <1>2, <1>3, FineStep
-----------------------------------------------------------------------------
(***************************************************************************)
(* The rows that the batches on the way are for: those of the snapshot if  *)
(* its last chunk is on the way or it is being written, and if it is in    *)
(* force, with all batches due from the last one on up to q, those there   *)
(* are with the batch being written.                                       *)
(***************************************************************************)
DueOn(v, id) ==
  {m.seq : m \in BatchesOf(v.way, id)}
    \cup (IF v.work.what = "events" THEN {v.work.seq} ELSE {})

HandOf(v) == IF v.work.what = "events" THEN Patched(v.rows, v.work.events) ELSE v.rows

Holds(v, id, q) == v.done = id /\ ~v.late /\ DueOn(v, id) = v.last + 1 .. q

Base(v, id, q, B) ==
  \/ \E m \in ToSet(v.way) : IsLast(m) /\ m.id = id /\ B = RowsOf(ToSet(m.listing))
  \/ Writes(v.work, id) /\ B = RowsOf(v.work.rows)
  \/ Holds(v, id, q) /\ B = HandOf(v)

Leaves(v, id, B) == Patched(B, EventsIn(v.way, id))

Alike(X, Y) == \A n \in Names : Similar(X[n], Y[n])

\* The rows of a listing are rows.
LEMMA RowsOfType ==
  ASSUME NEW L, L \subseteq Item
  PROVE  RowsOf(L) \in Tables
<1>1. \A n \in Names : RowOf(L, n) \in Object \cup {NoObject}
  BY RowOfType
<1> QED
  BY <1>1 DEF RowsOf, Tables

\* What a base is, and what it becomes, are rows.
LEMMA BaseType ==
  ASSUME NEW v, IsLine(v), NEW id, NEW q, NEW B, Base(v, id, q, B)
  PROVE  B \in Tables /\ Leaves(v, id, B) \in Tables
<1>1. B \in Tables
  <2>1. ASSUME NEW m \in ToSet(v.way), IsLast(m), B = RowsOf(ToSet(m.listing)) PROVE B \in Tables
    <3>1. m \in Message
      BY Elements DEF IsLine
    <3>2. m.listing \in Seq(Item)
      BY <2>1, <3>1, MessageType DEF IsLast
    <3>3. ToSet(m.listing) \subseteq Item
      BY <3>2, Elements
    <3> QED
      BY <2>1, <3>3, RowsOfType
  <2>2. CASE Writes(v.work, id) /\ B = RowsOf(v.work.rows)
    <3>1. v.work.rows \subseteq Item
      BY <2>2, WorkType DEF IsLine, Writes
    <3> QED
      BY <2>2, <3>1, RowsOfType
  <2>3. CASE B = HandOf(v)
    <3>1. v.rows \in Tables /\ (v.work.what = "events" => v.work.events \in Seq(ResourceEvent))
      BY WorkType DEF IsLine
    <3> QED
      BY <2>3, <3>1, PatchedType DEF HandOf
  <2> QED
    BY <2>1, <2>2, <2>3 DEF Base
<1>2. EventsIn(v.way, id) \in Events
  BY EventsInType DEF IsLine
<1> QED
  BY <1>1, <1>2, PatchedType DEF Leaves, Events

\* The handler of the stream takes the head of the line.
LEMMA WayParts ==
  ASSUME NEW v, IsLine(v), NEW id, Chain(v, id), v.way # <<>>, NEW m, m = Head(v.way)
  PROVE  /\ m \in Message /\ m \in ToSet(v.way) /\ Tail(v.way) \in Seq(Message)
         /\ ToSet(v.way) = {m} \cup ToSet(Tail(v.way))
         /\ EventsIn(v.way, id) = EventsUnder(m, id) \o EventsIn(Tail(v.way), id)
         /\ m.id = id => \A x \in ToSet(Tail(v.way)) : Before(m, x)
<1>1. /\ m \in Message /\ m \in ToSet(v.way) /\ Tail(v.way) \in Seq(Message)
      /\ ToSet(Tail(v.way)) \subseteq ToSet(v.way)
      /\ m.id = id => \A x \in ToSet(Tail(v.way)) : Before(m, x)
  BY ChainTail
<1>2. PICK t \in Seq(Message) : t = Tail(v.way)
  BY <1>1
<1>3. <<m>> \in Seq(Message) /\ v.way = <<m>> \o t
  BY <1>2, HeadAndTail DEF IsLine
<1>4. EventsIn(v.way, id) = EventsIn(<<m>>, id) \o EventsIn(t, id)
  <2>1. PICK h \in Seq(Message) : h = <<m>>
    BY <1>3
  <2>2. EventsIn(h \o t, id) = EventsIn(h, id) \o EventsIn(t, id)
    BY EventsThen
  <2> QED
    BY <1>3, <2>1, <2>2
<1>5. EventsIn(<<m>>, id) = EventsUnder(m, id)
  BY <1>1, EventsOfOne
<1>6. \A x \in ToSet(v.way) : x = m \/ x \in ToSet(t)
  <2>1. PICK n \in Nat : n = Len(v.way) /\ n >= 1
    BY EmptySeq, LenProperties DEF IsLine
  <2>2. Len(t) = n - 1 /\ \A i \in 1 .. n - 1 : t[i] = v.way[i + 1]
    BY <1>2, <2>1, HeadTailProperties DEF IsLine
  <2>3. m = v.way[1]
    OBVIOUS
  <2>4. ToSet(v.way) = {v.way[i] : i \in 1 .. n} /\ ToSet(t) = {t[i] : i \in 1 .. n - 1}
    BY <2>1, <2>2, Elements DEF IsLine
  <2>5. ASSUME NEW i \in 1 .. n PROVE v.way[i] = m \/ v.way[i] \in ToSet(t)
    <3>1. CASE i = 1
      BY <2>3, <3>1
    <3>2. CASE i # 1
      <4>1. i - 1 \in 1 .. n - 1 /\ (i - 1) + 1 = i
        BY <2>1, <3>2
      <4> QED
        BY <2>2, <2>4, <4>1
    <3> QED
      BY <3>1, <3>2
  <2> QED
    BY <2>4, <2>5
<1> QED
  BY <1>1, <1>2, <1>4, <1>5, <1>6

\* Nothing is on the way or written that was not before: the same rows are right.
LEMMA BaseLess ==
  ASSUME NEW v, NEW u, NEW id, NEW q, NEW B, Base(u, id, q, B),
         ToSet(u.way) \subseteq ToSet(v.way), ~Writes(u.work, id),
         Holds(u, id, q) => Holds(v, id, q) /\ HandOf(u) = HandOf(v)
  PROVE  Base(v, id, q, B)
BY DEF Base

\* The handler of the stream takes a message: a base of what follows comes of a base of before.
LEMMA HearsBase ==
  ASSUME NEW v, IsLine(v), NEW id, id # NoId, Chain(v, id), NEW u, IsLine(u),
         NEW q \in Nat, NEW m, HearsLine(v, u, m),
         u.work.what = "snapshot" => u.work.rows = ToSet(u.work.listing),
         NEW B, Base(u, id, q, B)
  PROVE  \E A : Base(v, id, q, A) /\ Leaves(v, id, A) = Leaves(u, id, B)
<1>1. /\ v.work = NoWork /\ v.work.what = "none" /\ v.way # <<>> /\ m = Head(v.way)
      /\ u.way = Tail(v.way) /\ u.last = v.last /\ u.rows = v.rows
      /\ u.late = (v.late /\ u.work.what # "snapshot")
  BY NoWorkWhat DEF HearsLine
<1>2. /\ m \in Message /\ m \in ToSet(v.way) /\ u.way \in Seq(Message)
      /\ ToSet(v.way) = {m} \cup ToSet(u.way)
      /\ EventsIn(v.way, id) = EventsUnder(m, id) \o EventsIn(u.way, id)
      /\ m.id = id => \A x \in ToSet(u.way) : Before(m, x)
  <2>1. /\ m \in Message /\ m \in ToSet(v.way) /\ Tail(v.way) \in Seq(Message)
        /\ ToSet(v.way) = {m} \cup ToSet(Tail(v.way))
        /\ EventsIn(v.way, id) = EventsUnder(m, id) \o EventsIn(Tail(v.way), id)
        /\ m.id = id => \A x \in ToSet(Tail(v.way)) : Before(m, x)
    BY <1>1, WayParts
  <2>2. PICK t : t = Tail(v.way)
    OBVIOUS
  <2>3. u.way = t
    BY <1>1, <2>2
  <2> QED
    BY <2>1, <2>2, <2>3
<1>3. B \in Tables /\ EventsIn(u.way, id) \in Events
  BY BaseType, EventsInType DEF IsLine
<1>4. ToSet(u.way) \subseteq ToSet(v.way)
  BY <1>2
<1>5. ASSUME EventsUnder(m, id) = <<>>, Base(v, id, q, B)
      PROVE  \E A : Base(v, id, q, A) /\ Leaves(v, id, A) = Leaves(u, id, B)
  <2>1. EventsIn(v.way, id) = EventsIn(u.way, id)
    BY <1>2, <1>3, <1>5, ConcatEmptySeq DEF Events
  <2> QED
    BY <1>5, <2>1 DEF Leaves
<1>6. CASE m.what = "chunk" /\ u.done = v.done
  <2>1. EventsUnder(m, id) = <<>>
    BY <1>6 DEF EventsUnder
  <2>2. BatchesOf(v.way, id) = BatchesOf(u.way, id)
    BY <1>2, <1>6 DEF BatchesOf
  <2>3. CASE u.work = NoWork
    <3>1. ~Writes(u.work, id) /\ u.late = v.late /\ u.work.what = "none"
      BY <1>1, <2>3, NoWorkWhat DEF Writes, IsLine
    <3>2. DueOn(u, id) = DueOn(v, id) /\ HandOf(u) = HandOf(v)
      BY <1>1, <2>2, <3>1 DEF DueOn, HandOf
    <3>3. Holds(u, id, q) => Holds(v, id, q)
      BY <1>1, <1>6, <3>1, <3>2 DEF Holds
    <3>4. Base(v, id, q, B)
      BY <1>4, <3>1, <3>2, <3>3, BaseLess
    <3> QED
      BY <1>5, <2>1, <3>4
  <2>4. CASE m.last /\ u.work.what = "snapshot" /\ u.work.id = m.id /\ u.work.listing = m.listing
    <3>1. IsLast(m)
      BY <1>6, <2>4 DEF IsLast
    <3>2. v.done # id
      BY <1>2, <3>1 DEF Chain
    <3>3. ~Holds(u, id, q)
      BY <1>6, <3>2 DEF Holds
    <3>4. CASE Writes(u.work, id) /\ B = RowsOf(u.work.rows)
      <4>1. m.id = id /\ B = RowsOf(ToSet(m.listing))
        BY <2>4, <3>4 DEF Writes
      <4> QED
        BY <1>2, <1>5, <2>1, <3>1, <4>1 DEF Base
    <3>5. CASE \E x \in ToSet(u.way) : IsLast(x) /\ x.id = id /\ B = RowsOf(ToSet(x.listing))
      BY <1>4, <1>5, <2>1, <3>5 DEF Base
    <3> QED
      BY <3>3, <3>4, <3>5 DEF Base
  <2> QED
    BY <1>6, <2>3, <2>4, MessageType, <1>2 DEF HearsLine
<1>7. ASSUME m.what = "events", m.id # id, u.done = v.done \/ u.done = NoId, ~Writes(u.work, id)
      PROVE  \E A : Base(v, id, q, A) /\ Leaves(v, id, A) = Leaves(u, id, B)
  <2>1. EventsUnder(m, id) = <<>>
    BY <1>7 DEF EventsUnder
  <2>2. v.done # id
    BY <1>2, <1>7 DEF Chain
  <2>3. ~Holds(u, id, q)
    BY <1>7, <2>2 DEF Holds
  <2>4. Base(v, id, q, B)
    BY <1>4, <1>7, <2>3, BaseLess
  <2> QED
    BY <1>5, <2>1, <2>4
\* After a batch of the snapshot no chunk of it comes.
<1>8. ASSUME m.what = "events", m.id = id, ~Writes(u.work, id)
      PROVE  Holds(u, id, q) /\ B = HandOf(u)
  <2>1. \A x \in ToSet(u.way) : ~IsLast(x)
    BY <1>2, <1>8 DEF Before, IsLast
  <2> QED
    BY <1>8, <2>1 DEF Base
<1>9. CASE m.what = "events" /\ u.work = NoWork /\ (v.done # m.id \/ m.seq > v.last + 1)
           /\ u.done = (IF v.done = m.id THEN NoId ELSE v.done)
  <2>1. ~Writes(u.work, id)
    BY <1>9, NoWorkWhat DEF Writes
  <2>2. m.id = id => u.done # id
    BY <1>9
  <2>3. m.id # id
    BY <1>8, <1>9, <2>1, <2>2 DEF Holds
  <2> QED
    BY <1>7, <1>9, <2>1, <2>3
<1>10. CASE m.what = "events" /\ v.done = m.id /\ u.done = v.done
            /\ m.seq = v.last + 1 /\ u.work.what = "events"
            /\ u.work.seq = m.seq /\ u.work.events = m.events
  <2>1. ~Writes(u.work, id)
    BY <1>10 DEF Writes
  <2>2. CASE m.id # id
    BY <1>7, <1>10, <2>1, <2>2
  <2>3. CASE m.id = id
    <3>1. Holds(u, id, q) /\ B = HandOf(u)
      BY <1>8, <1>10, <2>1, <2>3
    <3>2. BatchesOf(v.way, id) = BatchesOf(u.way, id) \cup {m}
      BY <1>2, <1>10, <2>3 DEF BatchesOf
    <3>3. DueOn(v, id) = DueOn(u, id)
      BY <1>1, <1>10, <3>2 DEF DueOn
    <3>4. Holds(v, id, q)
      <4>1. v.late = u.late
        BY <1>1, <1>10 DEF IsLine
      <4> QED
        BY <1>1, <1>10, <3>1, <3>3, <4>1 DEF Holds
    <3>5. v.rows \in Tables /\ m.events \in Events /\ EventsUnder(m, id) = m.events
      BY <1>2, <1>10, <2>3, MessageType DEF IsLine, Events, EventsUnder
    <3>6. B = Patched(v.rows, m.events) /\ HandOf(v) = v.rows
      BY <1>1, <1>10, <3>1 DEF HandOf
    <3>7. PICK U \in Events, V \in Events : U = m.events /\ V = EventsIn(u.way, id)
      BY <1>3, <3>5
    <3>8. Patched(v.rows, U \o V) = Patched(Patched(v.rows, U), V)
      BY <3>5, PatchedThen
    <3>9. Leaves(v, id, v.rows) = Leaves(u, id, B)
      BY <1>2, <3>5, <3>6, <3>7, <3>8 DEF Leaves
    <3> QED
      BY <3>4, <3>6, <3>9 DEF Base
  <2> QED
    BY <2>2, <2>3
<1>11. CASE m.what = "events" /\ v.done = m.id /\ u.done = v.done
            /\ m.seq < v.last + 1 /\ u.work = NoWork
  <2>1. ~Writes(u.work, id)
    BY <1>11, NoWorkWhat DEF Writes
  <2>2. CASE m.id # id
    BY <1>7, <1>11, <2>1, <2>2
  <2>3. CASE m.id = id
    <3>1. Holds(u, id, q)
      BY <1>8, <1>11, <2>1, <2>3
    <3>2. ~v.late
      BY <1>1, <1>11, <3>1, NoWorkWhat DEF Holds, IsLine
    <3>3. m.seq > v.last
      BY <1>2, <1>11, <2>3, <3>2 DEF Chain
    <3>4. m.seq \in Nat /\ v.last \in Nat
      BY <1>2, MessageType DEF IsLine
    <3> QED
      BY <1>11, <3>3, <3>4
  <2> QED
    BY <2>2, <2>3
<1> QED
  BY <1>6, <1>9, <1>10, <1>11 DEF HearsLine

\* The transaction of the stream ends.
LEMMA WritesBase ==
  ASSUME NEW v, IsLine(v), NEW id, id # NoId, Chain(v, id), NEW u, IsLine(u),
         NEW q \in Nat, Numbered(v, id, q), WritesLine(v, u), NEW B, Base(u, id, q, B)
  PROVE  \E A : Base(v, id, q, A) /\ Alike(Leaves(v, id, A), Leaves(u, id, B))
<1>1. /\ u.way = v.way /\ u.work = NoWork /\ u.work.what = "none" /\ ~Writes(u.work, id)
      /\ u.late = v.late
  BY NoWorkWhat DEF WritesLine, Writes
<1>2. ASSUME Base(v, id, q, B)
      PROVE  \E A : Base(v, id, q, A) /\ Alike(Leaves(v, id, A), Leaves(u, id, B))
  BY <1>1, <1>2 DEF Leaves, Alike, Similar
<1>3. CASE \E m \in ToSet(u.way) : IsLast(m) /\ m.id = id /\ B = RowsOf(ToSet(m.listing))
  BY <1>1, <1>2, <1>3 DEF Base
<1>4. CASE Holds(u, id, q) /\ B = HandOf(u)
  <2>1. /\ u.done = id /\ ~v.late /\ B = u.rows
        /\ {m.seq : m \in BatchesOf(v.way, id)} = u.last + 1 .. q
    BY <1>1, <1>4 DEF Holds, HandOf, DueOn
  <2>2. CASE /\ v.work.what = "snapshot" /\ u.done = v.work.id
             /\ ~v.late => \A n \in Names : Similar(u.rows[n], RowOf(v.work.rows, n))
    <3>1. PICK A : A = RowsOf(v.work.rows)
      OBVIOUS
    <3>2. Base(v, id, q, A)
      BY <2>1, <2>2, <3>1 DEF Base, Writes
    <3>3. A \in Tables /\ B \in Tables /\ EventsIn(v.way, id) \in Events
      BY <3>2, BaseType, EventsInType DEF IsLine
    <3>4. \A n \in Names : Similar(A[n], B[n])
      BY <2>1, <2>2, <3>1 DEF RowsOf, Similar
    <3>5. ASSUME NEW n \in Names
          PROVE  Similar(Patched(A, EventsIn(v.way, id))[n], Patched(B, EventsIn(v.way, id))[n])
      BY <3>3, <3>4, PatchedSimilar
    <3>6. Alike(Leaves(v, id, A), Leaves(u, id, B))
      BY <1>1, <3>5 DEF Alike, Leaves
    <3> QED
      BY <3>2, <3>6
  <2>3. CASE /\ v.work.what = "events" /\ u.done = v.done /\ u.last = v.work.seq
             /\ u.rows = Patched(v.rows, v.work.events)
    <3>1. v.work.seq = v.last + 1 /\ v.work.seq <= q
      BY <2>1, <2>3 DEF Chain, Numbered
    <3>2. v.last \in Nat
      BY DEF IsLine
    <3>3. {u.last} \cup (u.last + 1 .. q) = v.last + 1 .. q
      BY <2>3, <3>1, <3>2
    <3>4. DueOn(v, id) = v.last + 1 .. q
      BY <2>1, <2>3, <3>3 DEF DueOn
    <3>5. Base(v, id, q, B)
      BY <2>1, <2>3, <3>4 DEF Base, Holds, HandOf
    <3> QED
      BY <1>2, <3>5
  <2>4. CASE v.work # NoWork /\ u.done = v.done /\ u.last = v.last
    <3>1. v.work.what = "events"
      BY <2>1, <2>4, WorkType DEF Chain, IsLine
    <3>2. v.work.seq = v.last + 1 /\ v.work.seq <= q
      BY <2>1, <2>4, <3>1 DEF Chain, Numbered
    <3>3. v.work.seq \in u.last + 1 .. q
      <4>1. v.last \in Nat
        BY DEF IsLine
      <4> QED
        BY <2>4, <3>2, <4>1
    <3>4. PICK m \in BatchesOf(v.way, id) : m.seq = v.work.seq
      BY <2>1, <3>3
    <3>5. m \in ToSet(v.way) /\ m.what = "events"
      BY <3>4 DEF BatchesOf
    <3>6. m.seq > v.work.seq
      BY <2>1, <2>4, <3>1, <3>5 DEF Chain
    <3>7. m.seq \in Nat
      BY <3>5, Elements, MessageType DEF IsLine
    <3> QED
      BY <3>4, <3>6, <3>7
  <2> QED
    BY <2>2, <2>3, <2>4 DEF WritesLine
<1> QED
  BY <1>1, <1>3, <1>4 DEF Base

\* The handler of another stream does something.
LEMMA OthersBase ==
  ASSUME NEW v, NEW id, NEW u, NEW q, OthersLine(v, u, id), NEW B, Base(u, id, q, B)
  PROVE  Base(v, id, q, B) /\ Leaves(v, id, B) = Leaves(u, id, B)
<1>1. u.way = v.way /\ u.work = v.work
  BY DEF OthersLine
<1>2. Holds(u, id, q) => Holds(v, id, q) /\ HandOf(u) = HandOf(v)
  <2>1. SUFFICES ASSUME Holds(u, id, q) PROVE Holds(v, id, q) /\ HandOf(u) = HandOf(v)
    OBVIOUS
  <2>2. u.late = v.late /\ u.rows = v.rows /\ u.last = v.last /\ v.done = id
    BY <2>1 DEF Holds, OthersLine
  <2>3. DueOn(u, id) = DueOn(v, id)
    BY <1>1 DEF DueOn
  <2> QED
    BY <1>1, <2>1, <2>2, <2>3 DEF Holds, HandOf
<1> QED
  BY <1>1, <1>2 DEF Base, Leaves
-----------------------------------------------------------------------------
(***************************************************************************)
(* The rows that the batches on the way are for become, with these batches *)
(* and the pending events, right for the notices.                          *)
(***************************************************************************)
Becomes(B) == Patched(Leaves(Line, snapshotID, B), pending)

Sound(B) == Right(Becomes(B), notices, world, reported, inSnapshot, missed)

SoundInv ==
  Fine /\ snapshotID # NoId => \A B : Base(Line, snapshotID, batchSeq, B) => Sound(B)

\* It holds in the beginning, for no snapshot was sent.
LEMMA InitSound == InventoryInit => SoundInv
BY DEF InventoryInit, InventoryBegins, SoundInv, Fine

\* The types of all that makes rows right.
LEMMA SoundTypes ==
  ASSUME TypesOK, current \in Streams, NEW id, NEW q, NEW B, Base(Line, id, q, B)
  PROVE  /\ AgentTypes /\ IsLine(Line) /\ B \in Tables /\ Leaves(Line, id, B) \in Tables
         /\ Patched(Leaves(Line, id, B), pending) \in Tables
<1>1. AgentTypes /\ IsLine(Line)
  BY AgentTyped, LineTyped DEF TypesOK
<1>2. B \in Tables /\ Leaves(Line, id, B) \in Tables
  BY <1>1, BaseType
<1> QED
  BY <1>1, <1>2, PatchedType DEF AgentTypes, Events

\* The line depends on the outbox and the server alone.
LEMMA LineStays ==
  UNCHANGED <<outbox, store, current, overwritten>> => Line' = Line /\ OnTheWay' = OnTheWay
<1> SUFFICES ASSUME UNCHANGED <<outbox, store, current, overwritten>>
             PROVE  Line' = Line /\ OnTheWay' = OnTheWay
  OBVIOUS
<1>1. UNCHANGED <<wire, outbox, work, completedId, lastBatch, table, overwritten, current>>
  BY DEF store, fields
<1>2. OnTheWay' = OnTheWay
  BY <1>1 DEF OnTheWay
<1> QED
  BY <1>1, <1>2 DEF Line

\* An object changes.
LEMMA WorldSound ==
  ASSUME TypesOK, AgentInv, SoundInv, Fine, current \in Streams, NEW e \in ResourceEvent,
         WorldMoves(e), UNCHANGED <<store, session, current, overwritten>>
  PROVE  SoundInv'
<1>1. /\ Change(world, world', changes, e) /\ notices' = Append(notices, e)
      /\ UNCHANGED <<outbox, snapshotID, batchSeq, pending, reported, inSnapshot, missed>>
  BY DEF WorldMoves, batching
<1>2. Line' = Line
  BY <1>1, LineStays
<1>3. SUFFICES ASSUME snapshotID # NoId, NEW B, Base(Line, snapshotID, batchSeq, B) PROVE Sound(B)'
  BY <1>1, <1>2 DEF SoundInv
<1>4. Sound(B)
  BY <1>3 DEF SoundInv
<1>5. AgentTypes /\ Becomes(B) \in Tables
  BY <1>3, SoundTypes DEF Becomes
<1>6. Becomes(B)' = Becomes(B)
  BY <1>1, <1>2 DEF Becomes
<1>7. PICK X \in Tables : X = Becomes(B)
  BY <1>5
<1>8. Right(X, notices, world, reported, inSnapshot, missed)
  BY <1>4, <1>7 DEF Sound
<1>9. Right(X, Append(notices, e), world', reported, inSnapshot, missed)
  BY <1>1, <1>5, <1>8, RightWorld DEF AgentTypes, AgentInv
<1> QED
  BY <1>1, <1>6, <1>7, <1>9 DEF Sound

\* A handler takes the first notice.
LEMMA HandlerSound ==
  ASSUME TypesOK, AgentInv, SoundInv, Fine, current \in Streams, NEW e \in ResourceEvent,
         HandlerMoves(e), UNCHANGED <<store, session, current, overwritten>>
  PROVE  SoundInv'
<1>0. connected /\ AgentTypes
  BY AgentTyped DEF TypesOK, SessionOK, SessionTypeOK, Fine
<1>1. UNCHANGED <<outbox, snapshotID, batchSeq>>
  BY DEF HandlerMoves
<1>2. Line' = Line
  BY <1>1, LineStays
<1>3. SUFFICES ASSUME snapshotID # NoId, NEW B, Base(Line, snapshotID, batchSeq, B) PROVE Sound(B)'
  BY <1>1, <1>2 DEF SoundInv
<1>4. PICK Y \in Tables, X \in Tables :
        Y = Leaves(Line, snapshotID, B) /\ X = Patched(Y, pending)
  BY <1>3, SoundTypes
<1>5. Right(X, notices, world, reported, inSnapshot, missed)
  BY <1>3, <1>4 DEF SoundInv, Sound, Becomes
<1>6. Becomes(B)' = Patched(Y, pending')
  BY <1>1, <1>2, <1>4 DEF Becomes
<1>7. PICK m, m2, s, r : m = missed /\ m2 = missed' /\ s = inSnapshot /\ r = reported
  OBVIOUS
<1>8. /\ m \subseteq m2 /\ notices # <<>> /\ e = Head(notices) /\ notices' = Tail(notices)
      /\ UNCHANGED <<world, changes>>
      /\ \/ /\ UNCHANGED <<pending, inSnapshot, reported>>
            /\ \/ e.type = "DELETE" /\ KeyOf(e) \notin r
               \/ e.type = "UPSERT" /\ ItemOf(e) \in s
         \/ /\ pending' = Append(pending, e) /\ inSnapshot' = Forget(s, e)
            /\ reported' = (IF e.type = "DELETE" THEN r \ {KeyOf(e)} ELSE r \cup {KeyOf(e)})
            /\ m2 = (IF Outdates(e, s) THEN m \cup {e.name} ELSE m)
  BY <1>0, <1>7, HandlerParts
<1>9. CASE /\ UNCHANGED <<pending, inSnapshot, reported>>
           /\ \/ e.type = "DELETE" /\ KeyOf(e) \notin r
              \/ e.type = "UPSERT" /\ ItemOf(e) \in s
  <2>1. Right(X, Tail(notices), world, r, s, m2)
    BY <1>0, <1>5, <1>7, <1>8, <1>9, RightIgnore DEF AgentTypes
  <2> QED
    BY <1>4, <1>6, <1>7, <1>8, <1>9, <2>1 DEF Sound
<1>10. CASE /\ pending' = Append(pending, e) /\ inSnapshot' = Forget(s, e)
            /\ reported' = (IF e.type = "DELETE" THEN r \ {KeyOf(e)} ELSE r \cup {KeyOf(e)})
            /\ m2 = (IF Outdates(e, s) THEN m \cup {e.name} ELSE m)
  <2>1. PICK r2 : r2 = (IF e.type = "DELETE" THEN r \ {KeyOf(e)} ELSE r \cup {KeyOf(e)})
    OBVIOUS
  <2>2. Agent(pending, notices, world, r, s, changes) /\ s \subseteq Item
    BY <1>0, <1>7 DEF AgentInv, AgentTypes
  <2>3. Right(Applied(X, e), Tail(notices), world, r2, Forget(s, e), m2)
    BY <1>0, <1>5, <1>7, <1>8, <1>10, <2>1, <2>2, RightEnqueue DEF AgentTypes
  <2>4. Patched(Y, Append(pending, e)) = Applied(X, e)
    BY <1>0, <1>4, PatchedAppend DEF AgentTypes
  <2> QED
    BY <1>6, <1>7, <1>8, <1>10, <2>1, <2>3, <2>4 DEF Sound
<1> QED
  BY <1>8, <1>9, <1>10

\* Alike rows become alike, and are as right.
LEMMA SoundAlike ==
  ASSUME AgentTypes, NEW Y \in Tables, NEW Z \in Tables, Alike(Y, Z),
         Right(Patched(Y, pending), notices, world, reported, inSnapshot, missed)
  PROVE  Right(Patched(Z, pending), notices, world, reported, inSnapshot, missed)
<1>1. PICK X \in Tables, W \in Tables : X = Patched(Y, pending) /\ W = Patched(Z, pending)
  BY PatchedType DEF AgentTypes, Events
<1>2. ASSUME NEW n \in Names PROVE Similar(X[n], W[n])
  <2>1. Similar(Y[n], Z[n])
    BY DEF Alike
  <2> QED
    BY <1>1, <2>1, PatchedSimilar DEF AgentTypes
<1>3. Right(X, notices, world, reported, inSnapshot, missed)
  BY <1>1
<1>4. Right(W, notices, world, reported, inSnapshot, missed)
  BY <1>2, <1>3, RightSimilar DEF AgentTypes
<1> QED
  BY <1>1, <1>4
-----------------------------------------------------------------------------
\* The last chunk is queued.
LEMMA FinishSound ==
  ASSUME TypesOK, AgentInv, AgentInv', CoversInv, WholeSnapshot, LineInv, Fine, current \in Streams,
         FinishSnapshot, UNCHANGED <<store, session, current, overwritten>>
  PROVE  SoundInv'
<1>0. connected /\ AgentTypes /\ IsLine(Line)
  BY AgentTyped, LineTyped DEF TypesOK, SessionOK, SessionTypeOK, Fine
<1>1. PICK id, listing, L : id = sending.id /\ listing = sending.listing /\ L = ToSet(listing)
  OBVIOUS
<1>2. PICK t : t = [k \in DOMAIN InOrder(Kept(L)) |-> pending[InOrder(Kept(L))[k]]]
  OBVIOUS
<1>3. PICK r2, s2, m2 :
        /\ r2 = {objectKey(i) : i \in L} \cup {KeyOf(e) : e \in {x \in ToSet(t) : x.type = "UPSERT"}}
        /\ s2 = {i \in L : \A e \in ToSet(t) : KeyOf(e) # objectKey(i)}
        /\ m2 = missed \cup {e.name : e \in {x \in ToSet(t) : Outdates(x, L)}}
  OBVIOUS
<1>4. /\ snapshotID' = id /\ batchSeq' = 0 /\ pending' = t
      /\ reported' = r2 /\ inSnapshot' = s2 /\ missed' = m2
      /\ UNCHANGED <<world, changes, notices, outbox>>
  <2>1. /\ snapshotID' = id /\ batchSeq' = 0
        /\ pending' = [k \in DOMAIN InOrder(Kept(L)) |-> pending[InOrder(Kept(L))[k]]]
    BY <1>0, <1>1 DEF FinishSnapshot
  <2>2. inSnapshot' = {i \in L : \A e \in ToSet(pending') : KeyOf(e) # objectKey(i)}
    BY <1>0, <1>1, <2>1 DEF FinishSnapshot
  <2>3. reported' = {objectKey(i) : i \in L}
                      \cup {KeyOf(e) : e \in {x \in ToSet(pending') : x.type = "UPSERT"}}
    BY <1>0, <1>1, <2>1 DEF FinishSnapshot
  <2>4. missed' = missed \cup {e.name : e \in {x \in ToSet(pending') : Outdates(x, L)}}
    BY <1>0, <1>1, <2>1 DEF FinishSnapshot
  <2>5. UNCHANGED <<world, changes, notices, outbox>>
    BY DEF FinishSnapshot, stores, informers
  <2> QED
    BY <1>2, <1>3, <2>1, <2>2, <2>3, <2>4, <2>5
<1>5. Line' = Line
  BY <1>4, LineStays
<1>6. L \subseteq Item /\ ListingOK(L, changes)
  <2>1. ToSet(sending.listing) \subseteq Item
    BY <1>0, Elements DEF AgentTypes
  <2> QED
    BY <1>1, <2>1 DEF AgentInv
<1>7. /\ t \in Events /\ Thinned(t, pending)
      /\ \A i \in 1 .. Len(pending) : ~Repeats(L, i) => \E k \in 1 .. Len(t) : t[k] = pending[i]
  <2>1. pending \in Events
    BY <1>0 DEF AgentTypes
  <2> QED
    BY <1>2, <2>1, KeptThinned
<1>8. ToSet(t) \subseteq ToSet(pending)
  BY <1>0, <1>7, ThinnedMeans DEF AgentTypes
<1>9. \A e \in ToSet(pending) : ~(e.type = "UPSERT" /\ ItemOf(e) \in L) => e \in ToSet(t)
  <2>1. ToSet(pending) = {pending[i] : i \in 1 .. Len(pending)} /\ ToSet(t) = {t[k] : k \in 1 .. Len(t)}
    BY <1>0, <1>7, Elements DEF AgentTypes, Events
  <2>2. ASSUME NEW i \in 1 .. Len(pending), ~(pending[i].type = "UPSERT" /\ ItemOf(pending[i]) \in L)
        PROVE  pending[i] \in ToSet(t)
    <3>1. ~Repeats(L, i)
      BY <2>2 DEF Repeats
    <3> QED
      BY <1>7, <2>1, <3>1
  <2> QED
    BY <2>1, <2>2
<1>10. /\ Sending /\ id # NoId /\ Id = id
       /\ Covers(L, pending, notices, world, inSnapshot, missed)
       /\ Chain(Line, id) /\ Outgoing(Line, id, listing, sending.next)
  <2>1. Sending /\ id # NoId /\ Id = id
    BY <1>1 DEF FinishSnapshot, Sending, Id
  <2> QED
    BY <1>1, <2>1 DEF CoversInv, LineInv
<1>11. Agent(t, notices, world, r2, s2, changes)
  BY <1>4 DEF AgentInv
<1>12. Right(Patched(RowsOf(L), t), notices, world, r2, s2, m2)
  <2>1. PICK p, q, w, c, s, m :
          /\ p \in Events /\ q \in Events /\ w \in Worlds /\ c \in Nat
          /\ p = pending /\ q = notices /\ w = world /\ c = changes /\ s = inSnapshot /\ m = missed
    BY <1>0 DEF AgentTypes
  <2>2. Covers(L, p, q, w, s, m) /\ ListingOK(L, c) /\ ToSet(t) \subseteq ToSet(p)
        /\ Agent(t, q, w, r2, s2, c)
    BY <1>6, <1>8, <1>10, <1>11, <2>1
  <2>3. \A e \in ToSet(p) : ~(e.type = "UPSERT" /\ ItemOf(e) \in L) => e \in ToSet(t)
    BY <1>9, <2>1
  <2>4. m2 = m \cup {e.name : e \in {x \in ToSet(t) : Outdates(x, L)}}
    BY <1>3, <2>1
  <2>5. p \in Events /\ q \in Events /\ w \in Worlds /\ c \in Nat
    BY <2>1
  <2>6. Right(Patched(RowsOf(L), t), q, w, r2, s2, m2)
    BY <1>3, <1>6, <1>7, <2>2, <2>3, <2>4, <2>5, FinishRight
  <2> QED
    BY <2>1, <2>6
<1>13. SUFFICES ASSUME NEW B, Base(Line, id, 0, B)
                PROVE  Right(Patched(Leaves(Line, id, B), t), notices, world, r2, s2, m2)
  BY <1>4, <1>5 DEF SoundInv, Sound, Becomes
<1>14. Alike(RowsOf(L), B)
  <2>1. ASSUME NEW m \in ToSet(Line.way), IsLast(m), m.id = id, B = RowsOf(ToSet(m.listing))
        PROVE  B = RowsOf(L)
    <3>1. m.listing = listing
      BY <1>10, <2>1 DEF Outgoing
    <3> QED
      BY <1>1, <2>1, <3>1
  <2>2. ASSUME Writes(Line.work, id), B = RowsOf(Line.work.rows) PROVE B = RowsOf(L)
    <3>1. Line.work.listing = listing
      BY <1>10, <2>2 DEF Outgoing
    <3>2. Line.work.rows = ToSet(Line.work.listing)
      BY <2>2, LineParts DEF WholeSnapshot, Writes
    <3> QED
      BY <1>1, <2>2, <3>1, <3>2
  <2>3. ASSUME Holds(Line, id, 0), B = HandOf(Line) PROVE Alike(RowsOf(L), B)
    <3>1. Line.work.what # "events" /\ \A n \in Names : Similar(Line.rows[n], RowOf(L, n))
      BY <1>1, <1>10, <2>3 DEF Outgoing, Holds
    <3>2. B = Line.rows
      BY <2>3, <3>1 DEF HandOf
    <3> QED
      BY <3>1, <3>2 DEF Alike, RowsOf, Similar
  <2> QED
    BY <1>13, <2>1, <2>2, <2>3 DEF Base, Alike, Similar
<1>15. Leaves(Line, id, B) = B /\ B \in Tables
  <2>1. B \in Tables
    BY <1>0, <1>13, BaseType
  <2>2. \A m \in ToSet(Line.way) : m.what = "events" => m.id # id
    BY <1>10 DEF Outgoing
  <2>3. EventsIn(Line.way, id) = <<>>
    BY <1>0, <2>2, EventsOfNone DEF IsLine
  <2> QED
    BY <2>1, <2>3, NoEvents DEF Leaves
<1>16. RowsOf(L) \in Tables
  BY <1>6, RowsOfType
<1>17. Right(Patched(B, t), notices, world, r2, s2, m2)
  <2>1. PICK Y, Z : Y = RowsOf(L) /\ Z = B
    OBVIOUS
  <2>2. Right(Patched(Y, pending), notices, world, reported, inSnapshot, missed)'
    BY <1>4, <1>12, <2>1
  <2>3. Y \in Tables /\ Z \in Tables /\ Alike(Y, Z)
    BY <1>14, <1>15, <1>16, <2>1
  <2>4. PICK X \in Tables, W \in Tables : X = Patched(Y, t) /\ W = Patched(Z, t)
    BY <1>7, <2>3, PatchedType DEF Events
  <2>5. ASSUME NEW n \in Names PROVE Similar(X[n], W[n])
    <3>1. Similar(Y[n], Z[n])
      BY <2>3 DEF Alike
    <3> QED
      BY <1>7, <2>3, <2>4, <3>1, PatchedSimilar
  <2>6. Right(X, notices, world, r2, s2, m2)
    BY <1>12, <2>1, <2>4
  <2>7. Right(W, notices, world, r2, s2, m2)
    BY <1>0, <2>5, <2>6, RightSimilar DEF AgentTypes
  <2> QED
    BY <2>1, <2>4, <2>7
<1> QED
  BY <1>15, <1>17

\* A batch is queued: what was pending is on the way.
LEMMA BatchSound ==
  ASSUME TypesOK, SoundInv, LineInv, Fine, current \in Streams, NEW n \in Nat, SentBatch(n),
         UNCHANGED <<store, session, current, overwritten>>
  PROVE  SoundInv'
<1>0. AgentTypes /\ IsLine(Line)
  BY AgentTyped, LineTyped DEF TypesOK
<1>1. PICK b : b = Batch(n)
  OBVIOUS
<1>2. b \in Message /\ Line'.way = Append(Line.way, b)
  BY <1>1, BatchLine
<1>3. PICK id \in SnapshotIds \cup {NoId}, q \in Nat : id = snapshotID /\ q = batchSeq
  BY DEF TypesOK, SyncerTypeOK
<1>4. /\ outbox' = Append(outbox, b) /\ batchSeq' = q + 1 /\ snapshotID' = id /\ id # NoId /\ n <= Len(pending)
      /\ pending' = SubSeq(pending, n + 1, Len(pending)) /\ ~Sending
      /\ UNCHANGED <<notices, world, reported, inSnapshot, missed>>
  BY <1>1, <1>3 DEF SentBatch, stores, informers
<1>5. /\ Line'.work = Line.work /\ Line'.done = Line.done /\ Line'.last = Line.last
      /\ Line'.rows = Line.rows /\ Line'.late = Line.late
  BY <1>2, <1>4, QueueLine
<1>6. b.what = "events" /\ b.id = id /\ b.seq = q + 1 /\ b.events = SubSeq(pending, 1, n)
  BY <1>1, <1>3 DEF Batch
<1>7. Numbered(Line, id, q)
  BY <1>3, <1>4 DEF LineInv, Id
<1>8. PICK v, u : v = Line /\ u = Line'
  OBVIOUS
<1>9. /\ u.way = Append(v.way, b) /\ u.work = v.work /\ u.done = v.done /\ u.last = v.last
      /\ u.rows = v.rows /\ u.late = v.late /\ IsLine(v) /\ Numbered(v, id, q)
  BY <1>0, <1>2, <1>5, <1>7, <1>8
<1>10. ToSet(u.way) = ToSet(v.way) \cup {b}
  BY <1>2, <1>9, AppendSet DEF IsLine
<1>11. Holds(u, id, q + 1) => Holds(v, id, q)
  <2>1. SUFFICES ASSUME Holds(u, id, q + 1) PROVE Holds(v, id, q)
    OBVIOUS
  <2>2. v.done = id /\ ~v.late /\ DueOn(u, id) = v.last + 1 .. q + 1
    BY <1>9, <2>1 DEF Holds
  <2>3. BatchesOf(u.way, id) = BatchesOf(v.way, id) \cup {b}
    BY <1>6, <1>10 DEF BatchesOf
  <2>4. DueOn(u, id) = DueOn(v, id) \cup {q + 1}
    BY <1>6, <1>9, <2>3 DEF DueOn
  <2>5. ~(q + 1 \in DueOn(v, id))
    <3>1. \A m \in BatchesOf(v.way, id) : m.seq # q + 1
      <4>1. \A m \in BatchesOf(v.way, id) : m.seq \in 1 .. q
        BY <1>9 DEF Numbered, BatchesOf
      <4> QED
        BY <4>1
    <3>2. v.work.what = "events" => v.work.seq # q + 1
      <4>1. v.work.what = "events" => v.work.seq <= q
        BY <1>9, <2>2 DEF Numbered
      <4> QED
        BY <4>1
    <3> QED
      BY <3>1, <3>2 DEF DueOn
  <2>6. v.last \in Nat
    BY <1>9 DEF IsLine
  <2>7. DueOn(v, id) = (v.last + 1 .. q + 1) \ {q + 1}
    BY <2>2, <2>4, <2>5
  <2>8. (v.last + 1 .. q + 1) \ {q + 1} = v.last + 1 .. q
    BY <2>6
  <2> QED
    BY <2>2, <2>7, <2>8 DEF Holds
<1>12. ASSUME NEW B, Base(u, id, q + 1, B) PROVE Base(v, id, q, B)
  <2>1. ASSUME NEW m \in ToSet(u.way), IsLast(m) PROVE m \in ToSet(v.way)
    BY <1>6, <1>10, <2>1 DEF IsLast
  <2>2. HandOf(u) = HandOf(v)
    BY <1>9 DEF HandOf
  <2> QED
    BY <1>9, <1>11, <1>12, <2>1, <2>2 DEF Base
<1>13. SUFFICES ASSUME NEW B, Base(u, id, q + 1, B) PROVE Sound(B)'
  BY <1>3, <1>4, <1>8 DEF SoundInv
<1>14. Sound(B) /\ Base(v, id, q, B)
  BY <1>3, <1>4, <1>8, <1>12, <1>13 DEF SoundInv
<1>15. PICK Y \in Tables : Y = Leaves(v, id, B)
  BY <1>9, <1>14, BaseType
<1>16. PICK first \in Events, rest \in Events : first = SubSeq(pending, 1, n) /\ rest = pending' /\ pending = first \o rest
  <2>1. pending \in Events
    BY <1>0 DEF AgentTypes
  <2> QED
    BY <1>4, <2>1, RestThinned
<1>17. Leaves(u, id, B) = Patched(Y, first)
  <2>1. PICK h \in Seq(Message), M \in Seq(Message) : h = <<b>> /\ M = v.way
    BY <1>2, <1>9, EventsOfOne DEF IsLine
  <2>2. u.way = M \o h
    BY <1>2, <1>9, <2>1, AppendIsConcat
  <2>3. EventsIn(M \o h, id) = EventsIn(M, id) \o EventsIn(h, id)
    BY EventsThen
  <2>4. EventsIn(h, id) = first
    <3>1. EventsIn(<<b>>, id) = EventsUnder(b, id)
      BY <1>2, EventsOfOne
    <3> QED
      BY <1>6, <1>16, <2>1, <3>1 DEF EventsUnder
  <2>5. EventsIn(M, id) \in Events /\ B \in Tables
    BY <1>9, <1>14, EventsInType, BaseType
  <2>6. PICK U \in Events : U = EventsIn(M, id)
    BY <2>5
  <2>7. Patched(B, U \o first) = Patched(Patched(B, U), first)
    BY <2>5, PatchedThen
  <2> QED
    BY <1>15, <2>1, <2>2, <2>3, <2>4, <2>6, <2>7 DEF Leaves
<1>18. Becomes(B)' = Patched(Patched(Y, first), rest)
  BY <1>4, <1>8, <1>16, <1>17 DEF Becomes
<1>19. Becomes(B) = Patched(Y, first \o rest)
  BY <1>3, <1>8, <1>15, <1>16 DEF Becomes
<1>20. Patched(Y, first \o rest) = Patched(Patched(Y, first), rest)
  BY PatchedThen
<1>21. Becomes(B)' = Becomes(B)
  BY <1>18, <1>19, <1>20
<1> QED
  BY <1>4, <1>14, <1>21 DEF Sound
-----------------------------------------------------------------------------
\* The server hears, writes, fails or forgets.
LEMMA ServerSound ==
  ASSUME TypesOK, TypesOK', SessionInv, WholeSnapshot', LineInv, SoundInv, Fine,
         NEW s \in Streams, ServerStep(s), UNCHANGED syncer
  PROVE  SoundInv'
<1>0. /\ session = "accepted" /\ current \in Streams /\ current' = current /\ AgentTypes
      /\ UNCHANGED <<world, notices, pending, reported, inSnapshot, missed, sending, snapshotID, batchSeq>>
  <2>1. UNCHANGED current
    BY DEF ServerStep, ServerHears, ServerWrites, ServerFails, ServerEnds
  <2> QED
    BY <2>1, AgentTyped DEF TypesOK, Fine, SessionInv, Homes, syncer, batching, stores, informers
<1>1. IsLine(Line) /\ IsLine(Line')
  <2>1. (current \in Streams)'
    BY <1>0 DEF Streams
  <2>2. IsLine(Line)'
    BY <2>1, LineTyped, PTL
  <2> QED
    BY <1>0, <2>2, LineTyped DEF IsLine
<1>2. SUFFICES ASSUME snapshotID # NoId, NEW B, Base(Line', snapshotID, batchSeq, B) PROVE Sound(B)'
  BY <1>0 DEF SoundInv
<1>3. PICK id, q, v, u : id = snapshotID /\ q = batchSeq /\ v = Line /\ u = Line' /\ q \in Nat
  BY DEF TypesOK, SyncerTypeOK
<1>4. ~Sending /\ Id = id /\ id # NoId
  BY <1>2, <1>3 DEF SessionInv, Id
<1>5. /\ Chain(v, id) /\ Elsewhere(id) /\ Numbered(v, id, q) /\ IsLine(v) /\ IsLine(u)
      /\ Base(u, id, q, B)
  BY <1>1, <1>2, <1>3, <1>4 DEF LineInv
<1>6. \/ \E m : HearsLine(v, u, m)
      \/ WritesLine(v, u)
      \/ OthersLine(v, u, id)
  BY <1>0, <1>3, <1>4, <1>5, ServerLine
<1>7. u.work.what = "snapshot" => u.work.rows = ToSet(u.work.listing)
  <2>1. u.work = work'[current]
    <3>1. Line'.work = work'[current']
      BY DEF Line
    <3> QED
      BY <1>0, <1>3, <3>1
  <2>2. work'[current].what = "snapshot" => work'[current].rows = ToSet(work'[current].listing)
    BY <1>0 DEF WholeSnapshot
  <2> QED
    BY <2>1, <2>2
<1>8. PICK A : Base(v, id, q, A) /\ Alike(Leaves(v, id, A), Leaves(u, id, B))
  <2>1. CASE \E m : HearsLine(v, u, m)
    <3>1. PICK m : HearsLine(v, u, m)
      BY <2>1
    <3>2. PICK A : Base(v, id, q, A) /\ Leaves(v, id, A) = Leaves(u, id, B)
      BY <1>3, <1>4, <1>5, <1>7, <3>1, HearsBase
    <3>3. Alike(Leaves(v, id, A), Leaves(u, id, B))
      BY <3>2 DEF Alike, Similar
    <3> QED
      BY <3>2, <3>3
  <2>2. CASE WritesLine(v, u)
    BY <1>3, <1>4, <1>5, <2>2, WritesBase
  <2>3. CASE OthersLine(v, u, id)
    <3>1. Base(v, id, q, B) /\ Leaves(v, id, B) = Leaves(u, id, B)
      BY <1>5, <2>3, OthersBase
    <3> QED
      BY <3>1 DEF Alike, Similar
  <2> QED
    BY <1>6, <2>1, <2>2, <2>3
<1>9. PICK Y \in Tables, Z \in Tables : Y = Leaves(v, id, A) /\ Z = Leaves(u, id, B)
  BY <1>5, <1>8, BaseType
<1>10. Right(Patched(Y, pending), notices, world, reported, inSnapshot, missed)
  <2>1. Sound(A)
    BY <1>0, <1>2, <1>3, <1>8 DEF SoundInv
  <2> QED
    BY <1>3, <1>9, <2>1 DEF Sound, Becomes
<1>11. Right(Patched(Z, pending), notices, world, reported, inSnapshot, missed)
  BY <1>0, <1>8, <1>9, <1>10, SoundAlike
<1> QED
  BY <1>0, <1>3, <1>9, <1>11 DEF Sound, Becomes

\* Nothing that bears on the rows, or a message on its way.
LEMMA SameSound ==
  ASSUME SoundInv, Fine, Line' = Line,
         UNCHANGED <<world, notices, pending, reported, inSnapshot, missed, snapshotID, batchSeq>>
  PROVE  SoundInv'
BY DEF SoundInv, Sound, Becomes

\* Each step keeps what is on its way right.
LEMMA NextSound ==
  ASSUME TypesOK, AgentInv, SessionInv, WholeSnapshot, CoversInv, LineInv, SoundInv,
         AgentInv', WholeSnapshot', [InventoryNext]_vars
  PROVE  SoundInv'
<1>0. TypesOK'
  BY NextTyped
<1>1. SUFFICES ASSUME Fine', snapshotID' # NoId PROVE SoundInv'
  BY DEF SoundInv
<1>2. ASSUME NEW id \in Fresh PROVE ~Begins(id)
  BY <1>1 DEF Begins, StartSnapshot
<1>3. Fine /\ FineMoves
  BY <1>1, <1>2, FineStep
<1>4. current \in Streams
  BY <1>3 DEF SessionInv, Homes, Fine
<1>5. CASE FineAgent /\ UNCHANGED <<store, session, current, overwritten>>
  <2>1. ASSUME NEW e \in ResourceEvent, WorldMoves(e) PROVE SoundInv'
    BY <1>3, <1>4, <1>5, <2>1, WorldSound
  <2>2. ASSUME NEW e \in ResourceEvent, HandlerMoves(e) PROVE SoundInv'
    BY <1>3, <1>4, <1>5, <2>2, HandlerSound
  <2>3. CASE SendChunk
    <3>1. Sending /\ snapshotID' = snapshotID
      BY <2>3 DEF SendChunk, batching
    <3> QED
      BY <1>1, <3>1 DEF SessionInv
  <2>4. CASE FinishSnapshot
    BY <1>3, <1>4, <1>5, <2>4, FinishSound
  <2>5. ASSUME NEW n \in Nat, SentBatch(n) PROVE SoundInv'
    BY <1>3, <1>4, <1>5, <2>5, BatchSound
  <2> QED
    BY <1>5, <2>1, <2>2, <2>3, <2>4, <2>5 DEF FineAgent
<1>6. CASE Sends
  <2>1. Line' = Line
    BY <1>4, <1>6, FineSends
  <2>2. UNCHANGED <<world, notices, pending, reported, inSnapshot, missed, snapshotID, batchSeq>>
    BY <1>6 DEF Sends, KeepSyncer, batching, stores, informers
  <2> QED
    BY <1>3, <2>1, <2>2, SameSound
<1>7. ASSUME UNCHANGED syncer, NEW s \in Streams, ServerStep(s) PROVE SoundInv'
  BY <1>0, <1>3, <1>7, ServerSound
<1>8. CASE UNCHANGED vars
  <2>1. UNCHANGED <<outbox, store, current, overwritten>>
    BY <1>8 DEF vars, syncer
  <2>2. Line' = Line
    BY <2>1, LineStays
  <2>3. UNCHANGED <<world, notices, pending, reported, inSnapshot, missed, snapshotID, batchSeq>>
    BY <1>8 DEF vars, syncer, batching, stores, informers
  <2> QED
    BY <1>3, <2>2, <2>3, SameSound
<1> QED
  BY <1>3, <1>5, <1>6, <1>7, <1>8 DEF FineMoves

\* With the snapshot in force the rows there are become the right ones.
LEMMA SoundAddsUp == TypesOK /\ SessionInv /\ SoundInv => AddsUp
<1> SUFFICES ASSUME TypesOK, SessionInv, SoundInv, InForce, ~overwritten, NEW n \in Names
             PROVE  Shows(Patched(table, UnderWay), n) \/ n \in missed
  BY DEF AddsUp
<1>1. /\ Fine /\ snapshotID # NoId /\ completedId[current] = snapshotID
      /\ Due = lastBatch[current] + 1 .. batchSeq
  BY DEF InForce, Fine, SessionInv, Watched
<1>2. current \in Streams /\ AgentTypes /\ IsLine(Line)
  <2>1. current \in Streams
    BY <1>1 DEF SessionInv, Homes, Fine
  <2> QED
    BY <2>1, AgentTyped, LineTyped DEF TypesOK
<1>3. PICK v, id : v = Line /\ id = snapshotID
  OBVIOUS
<1>4. /\ IsLine(v) /\ v.way = OnTheWay /\ v.work = work[current] /\ v.done = completedId[current]
      /\ v.last = lastBatch[current] /\ v.rows = table /\ v.late = overwritten
  BY <1>2, <1>3, LineParts
<1>5. DueOn(v, id) = Due
  BY <1>3, <1>4 DEF DueOn, Due
<1>6. Base(v, id, batchSeq, HandOf(v))
  BY <1>1, <1>3, <1>4, <1>5 DEF Base, Holds
<1>7. Sound(HandOf(v))
  BY <1>1, <1>3, <1>6 DEF SoundInv
<1>8. PICK K \in Events : K = (IF work[current].what = "events" THEN work[current].events ELSE <<>>)
  <2>1. work[current].what = "events" => work[current].events \in Events
    BY <1>4, WorkType DEF IsLine, Events
  <2>2. <<>> \in Events
    BY EmptySeq DEF Events
  <2> QED
    BY <2>1, <2>2
<1>9. PICK U \in Events, P \in Events, Q \in Events, T \in Tables :
        U = EventsIn(OnTheWay, snapshotID) /\ P = pending /\ Q = notices /\ T = table
  <2>1. EventsIn(OnTheWay, snapshotID) \in Events
    BY <1>4, EventsInType DEF IsLine
  <2>2. table \in Tables
    BY DEF TypesOK, StoreTypeOK
  <2> QED
    BY <1>2, <2>1, <2>2 DEF AgentTypes
<1>10. HandOf(v) = Patched(T, K)
  <2>1. Patched(T, <<>>) = T
    BY NoEvents
  <2> QED
    BY <1>4, <1>8, <1>9, <2>1 DEF HandOf
<1>11. Patched(T, K \o U \o P \o Q) = Patched(Patched(Patched(Patched(T, K), U), P), Q)
  <2>1. K \o U \in Events /\ Patched(T, K \o U) = Patched(Patched(T, K), U)
    BY PatchedThen
  <2>2. PICK KU \in Events : KU = K \o U
    BY <2>1
  <2>3. KU \o P \in Events /\ Patched(T, KU \o P) = Patched(Patched(T, KU), P)
    BY PatchedThen
  <2>4. PICK KUP \in Events : KUP = KU \o P
    BY <2>3
  <2>5. Patched(T, KUP \o Q) = Patched(Patched(T, KUP), Q)
    BY PatchedThen
  <2> QED
    BY <2>1, <2>2, <2>3, <2>4, <2>5
<1>12. Patched(table, UnderWay) = Patched(Becomes(HandOf(v)), notices)
  BY <1>3, <1>4, <1>8, <1>9, <1>10, <1>11 DEF UnderWay, Becomes, Leaves
<1>13. n \in missed \/ Shown(world, Patched(table, UnderWay)[n], n)
  BY <1>7, <1>12 DEF Sound, Right
<1> QED
  BY <1>13 DEF Shown, Shows, Nothing

(***************************************************************************)
(* With a snapshot in force at both ends, the rows and all the changes     *)
(* that are still on their way add up to the objects there are, but for    *)
(* the names known to be missed.                                           *)
(***************************************************************************)
THEOREM AddsUpHolds == InventorySpec => []AddsUp
<1> DEFINE Inv ==
  /\ TypesOK /\ SnapshotInv /\ AgentInv /\ SessionInv
  /\ CoversInv /\ LineInv /\ SoundInv
<1>1. SnapshotInv => WholeSnapshot
  BY DEF SnapshotInv, Snapshots
<1>2. SnapshotInv' => WholeSnapshot'
  BY <1>1, PTL
<1>3. InventoryInit => Inv
  BY InitTyped, InitSnapshots, InitAgent, InitSession, InitCovers, InitLine, InitSound
<1>4. Inv /\ [InventoryNext]_vars => Inv'
  <2> SUFFICES ASSUME Inv, [InventoryNext]_vars PROVE Inv'
    OBVIOUS
  <2>1. TypesOK' /\ SnapshotInv' /\ AgentInv' /\ SessionInv' /\ CoversInv'
    BY NextTyped, NextSnapshots, NextAgent, NextSession, NextCovers
  <2>2. WholeSnapshot /\ WholeSnapshot'
    BY <1>1, <1>2, <2>1
  <2>3. LineInv'
    BY <2>2, NextLine
  <2>4. SoundInv'
    BY <2>1, <2>2, NextSound
  <2> QED
    BY <2>1, <2>3, <2>4
<1>5. Inv => AddsUp
  BY SoundAddsUp
<1> QED
  BY <1>3, <1>4, <1>5, PTL DEF InventorySpec
=============================================================================
