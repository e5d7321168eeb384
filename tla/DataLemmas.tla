------------------------------ MODULE DataLemmas ------------------------------
(***************************************************************************)
(* Lemmas about numbers, finite sets, folds and sequences that the proofs  *)
(* of the components need.  They are first-order: a property of numbers    *)
(* that is proved by induction is a set of numbers, and the operator of a  *)
(* fold is a function, so that the provers can use them where the          *)
(* library's theorems have an operator as a parameter.                     *)
(***************************************************************************)
EXTENDS SequencesExt, SequenceTheorems, FiniteSetTheorems, FunctionTheorems,
        WellFoundedInduction, TLAPS

-----------------------------------------------------------------------------
(***************************************************************************)
(* Induction.                                                              *)
(***************************************************************************)
LEMMA LeastNumber ==
  ASSUME NEW T \in SUBSET Nat, T # {}
  PROVE  \E x \in T : \A y \in T : x <= y
<1>1. PICK x \in T : \A y \in T : ~ (<<y, x>> \in OpToRel(<, Nat))
  BY NatLessThanWellFounded, WFMin
<1>2. \A y \in T : <<y, x>> \in Nat \X Nat /\ (y < x => <<y, x>> \in OpToRel(<, Nat))
  BY DEF OpToRel
<1>3. \A y \in T : ~ (y < x)
  BY <1>1, <1>2, Zenon
<1>4. x \in Nat /\ \A y \in T : y \in Nat
  OBVIOUS
<1> HIDE <1>1
<1>5. \A y \in T : x <= y
  BY ONLY <1>3, <1>4
<1> QED
  BY ONLY <1>5, x \in T

\* The largest, as Max of FiniteSetsExt chooses it.
LEMMA LargestOf ==
  ASSUME NEW n \in Nat
  PROVE  /\ \A T \in SUBSET (0 .. n) : T # {} => Max(T) \in T
         /\ \A i \in 1 .. n : Max(1 .. i) = i
<1>1. ASSUME NEW T \in SUBSET (0 .. n), T # {} PROVE Max(T) \in T
  <2> DEFINE U == {n - x : x \in T}
  <2>1. U \in SUBSET Nat /\ U # {}
    <3>1. \A x \in T : x \in 0 .. n
      OBVIOUS
    <3>2. \A x \in 0 .. n : n - x \in Nat
      OBVIOUS
    <3> QED
      BY <1>1, <3>1, <3>2
  <2>2. PICK u \in U : \A v \in U : u <= v
    <3> HIDE DEF U
    <3> QED
      BY <2>1, LeastNumber
  <2>3. PICK x \in T : u = n - x
    BY <2>2
  <2>4. \A y \in T : n - y \in U
    OBVIOUS
  <2>5. \A y \in T : n - x <= n - y /\ y \in 0 .. n
    BY <2>2, <2>3, <2>4
  <2>6. x \in 0 .. n
    BY <2>3
  <2> HIDE <2>2, <2>4
  <2>7. \A y \in T : x >= y
    BY <2>5, <2>6
  <2>8. \E z \in T : \A y \in T : z >= y
    BY <2>7
  <2> QED
    BY <2>8 DEF Max
<1>2. ASSUME NEW i \in 1 .. n PROVE Max(1 .. i) = i
  <2>1. i \in 1 .. i /\ \A y \in 1 .. i : i >= y
    OBVIOUS
  <2>2. \A z \in 1 .. i : (\A y \in 1 .. i : z >= y) => z = i
    BY <2>1
  <2> QED
    BY <2>1, <2>2 DEF Max
<1> QED
  BY <1>1, <1>2

LEMMA NumberInduction ==
  ASSUME NEW T \in SUBSET Nat, 0 \in T, \A n \in T : n + 1 \in T
  PROVE  \A n \in Nat : n \in T
<1>1. SUFFICES ASSUME Nat \ T # {} PROVE FALSE
  OBVIOUS
<1>2. PICK x \in Nat \ T : \A y \in Nat \ T : x <= y
  BY <1>1, LeastNumber
<1>3. x # 0 /\ x - 1 \in Nat /\ x - 1 \in T
  BY <1>2
<1> QED
  BY <1>2, <1>3

LEMMA MinimalSubset ==
  ASSUME NEW S, IsFiniteSet(S), NEW Q \in SUBSET (SUBSET S), Q # {}
  PROVE  \E T \in Q : \A U \in Q : U \subseteq T => U = T
<1>1. PICK T \in Q : \A U \in Q : ~ (<<U, T>> \in StrictSubsetOrdering(S))
  <2>1. Q \subseteq FiniteSubsetsOf(S)
    BY FS_FiniteSubsetsOfFinite
  <2> QED
    BY <2>1, FS_StrictSubsetOrderingWellFounded, WFMin
<1>2. \A U \in Q : U \subseteq T /\ U # T => <<U, T>> \in StrictSubsetOrdering(S)
  BY DEF StrictSubsetOrdering
<1>3. \A U \in Q : U \subseteq T => U = T
  BY <1>1, <1>2, Zenon
<1> QED
  BY <1>3

\* A property of the subsets of S that {} has, and that adding an element keeps.
LEMMA FiniteInduction ==
  ASSUME NEW S, IsFiniteSet(S), NEW P \in SUBSET (SUBSET S), {} \in P,
         \A T \in P : \A x \in S \ T : T \cup {x} \in P
  PROVE  \A T \in SUBSET S : T \in P
<1>1. SUFFICES ASSUME (SUBSET S) \ P # {} PROVE FALSE
  OBVIOUS
<1> DEFINE Q == (SUBSET S) \ P
<1>2. PICK T \in Q : \A U \in Q : U \subseteq T => U = T
  <2>1. Q \in SUBSET (SUBSET S) /\ Q # {}
    BY <1>1
  <2> HIDE DEF Q
  <2> QED
    BY <2>1, MinimalSubset
<1>3. PICK x \in T : TRUE
  BY <1>2
<1>4. T \ {x} \in P /\ x \in S \ (T \ {x}) /\ (T \ {x}) \cup {x} = T
  BY <1>2
<1> QED
  BY <1>2, <1>4

LEMMA OneLess ==
  ASSUME NEW T, IsFiniteSet(T), NEW x \in T
  PROVE  /\ IsFiniteSet(T \ {x}) /\ Cardinality(T) \in Nat /\ Cardinality(T) > 0
         /\ Cardinality(T \ {x}) \in Nat /\ Cardinality(T \ {x}) = Cardinality(T) - 1
<1>1. IsFiniteSet(T \ {x}) /\ Cardinality(T \ {x}) = Cardinality(T) - 1
  BY FS_RemoveElement
<1>2. Cardinality(T) \in Nat /\ Cardinality(T \ {x}) \in Nat
  BY <1>1, FS_CardinalityType
<1> QED
  BY <1>1, <1>2

-----------------------------------------------------------------------------
(***************************************************************************)
(* Folds.  g folds step over the subsets of S, taking from each the        *)
(* element that c chooses.                                                 *)
(***************************************************************************)
Folded(g, T, base, step, c) ==
  IF T = {} THEN base ELSE step[<<c[T], g[T \ {c[T]}]>>]
Folds(g, S, base, step, c) == \A T \in SUBSET S : g[T] = Folded(g, T, base, step, c)

LEMMA FoldsExist ==
  ASSUME NEW S, IsFiniteSet(S), NEW V, NEW base \in V, NEW step \in [S \X V -> V],
         NEW c, \A T \in SUBSET S : T # {} => c[T] \in T
  PROVE  \E g \in [SUBSET S -> V] : Folds(g, S, base, step, c)
<1> DEFINE Small(n) == {T \in SUBSET S : Cardinality(T) <= n}
           Is(g, n) == \A T \in Small(n) : g[T] = Folded(g, T, base, step, c)
           Reached == {n \in Nat : \E g \in [Small(n) -> V] : Is(g, n)}
<1>1. \A T \in SUBSET S : IsFiniteSet(T) /\ Cardinality(T) \in Nat
  BY FS_Subset, FS_CardinalityType
<1>2. ASSUME NEW T \in SUBSET S, T # {}
      PROVE  /\ T \ {c[T]} \in SUBSET S /\ c[T] \in S /\ Cardinality(T) > 0
             /\ Cardinality(T \ {c[T]}) = Cardinality(T) - 1
  BY <1>1, <1>2, OneLess
<1>3. 0 \in Reached
  <2>1. \A T \in Small(0) : T = {}
    BY <1>1, FS_EmptySet
  <2>2. Is([T \in Small(0) |-> base], 0)
    BY <2>1 DEF Folded
  <2>3. [T \in Small(0) |-> base] \in [Small(0) -> V]
    OBVIOUS
  <2> QED
    BY <2>2, <2>3
<1>4. ASSUME NEW n \in Reached PROVE n + 1 \in Reached
  <2>1. PICK g \in [Small(n) -> V] : Is(g, n)
    OBVIOUS
  <2>2. ASSUME NEW T \in Small(n + 1), T # {} PROVE T \ {c[T]} \in Small(n) /\ c[T] \in S
    <3>1. T \in SUBSET S /\ Cardinality(T) <= n + 1 /\ Cardinality(T) \in Nat
      BY <1>1
    <3> QED
      BY <3>1, <1>2, <2>2
  <2>3. Small(n) \in SUBSET Small(n + 1)
    BY <1>1
  <2> DEFINE h == [T \in Small(n + 1) |-> Folded(g, T, base, step, c)]
  <2>4. h \in [Small(n + 1) -> V]
    <3>1. ASSUME NEW T \in Small(n + 1) PROVE Folded(g, T, base, step, c) \in V
      <4>1. CASE T = {}
        BY <4>1 DEF Folded
      <4>2. CASE T # {}
        BY <4>2, <2>2 DEF Folded
      <4> QED
        BY <4>1, <4>2
    <3> QED
      BY <3>1
  <2>5. \A T \in Small(n) : h[T] = g[T]
    BY <2>1, <2>3
  <2>6. ASSUME NEW T \in Small(n + 1) PROVE h[T] = Folded(h, T, base, step, c)
    <3>1. CASE T = {}
      BY <3>1 DEF Folded
    <3>2. CASE T # {}
      <4>1. T \ {c[T]} \in Small(n)
        BY <3>2, <2>2
      <4>2. g[T \ {c[T]}] = h[T \ {c[T]}]
        BY <4>1, <2>5
      <4>3. h[T] = Folded(g, T, base, step, c)
        OBVIOUS
      <4> HIDE DEF h
      <4> QED
        BY <3>2, <4>2, <4>3 DEF Folded
    <3> QED
      BY <3>1, <3>2
  <2>7. Is(h, n + 1)
    BY <2>6
  <2>8. \E f \in [Small(n + 1) -> V] : Is(f, n + 1)
    <3> HIDE DEF Is, h
    <3> QED
      BY <2>4, <2>7
  <2>9. n + 1 \in Nat
    OBVIOUS
  <2> HIDE DEF Is, Small
  <2> QED
    BY <2>8, <2>9
<1>5. Cardinality(S) \in Reached
  <2>1. Reached \in SUBSET Nat
    OBVIOUS
  <2> HIDE DEF Reached
  <2>2. \A n \in Nat : n \in Reached
    BY <1>3, <1>4, <2>1, NumberInduction
  <2> QED
    BY <2>2, FS_CardinalityType
<1>6. Small(Cardinality(S)) = SUBSET S
  BY FS_Subset
<1> QED
  BY <1>5, <1>6 DEF Folds

LEMMA FoldsAreUnique ==
  ASSUME NEW S, IsFiniteSet(S), NEW base, NEW step, NEW c,
         \A T \in SUBSET S : T # {} => c[T] \in T,
         NEW g, NEW h, Folds(g, S, base, step, c), Folds(h, S, base, step, c)
  PROVE  \A T \in SUBSET S : g[T] = h[T]
<1>1. SUFFICES ASSUME {T \in SUBSET S : g[T] # h[T]} # {} PROVE FALSE
  OBVIOUS
<1> DEFINE Q == {T \in SUBSET S : g[T] # h[T]}
<1>2. PICK T \in Q : \A U \in Q : U \subseteq T => U = T
  <2>1. Q \in SUBSET (SUBSET S) /\ Q # {}
    BY <1>1
  <2> HIDE DEF Q
  <2> QED
    BY <2>1, MinimalSubset
<1>3. T # {}
  BY <1>2 DEF Folds, Folded
<1>4. c[T] \in T /\ T \ {c[T]} \in SUBSET S
  BY <1>3
<1>5. g[T \ {c[T]}] = h[T \ {c[T]}]
  BY <1>2, <1>4
<1> QED
  BY <1>2, <1>3, <1>5 DEF Folds, Folded

-----------------------------------------------------------------------------
(***************************************************************************)
(* Sums.  g adds up w over the subsets of S, as MapThenSumSet does.        *)
(***************************************************************************)
AddedUp(g, w, T) == IF T = {} THEN 0
                    ELSE w[CHOOSE x \in T : TRUE] + g[T \ {CHOOSE x \in T : TRUE}]
Sums(g, w, S) == g \in [SUBSET S -> Int] /\ \A T \in SUBSET S : g[T] = AddedUp(g, w, T)

LEMMA SumsExist ==
  ASSUME NEW S, IsFiniteSet(S), NEW w \in [S -> Int]
  PROVE  \E g : Sums(g, w, S)
<1> DEFINE c == [T \in SUBSET S |-> CHOOSE x \in T : TRUE]
           step == [y \in S \X Int |-> w[y[1]] + y[2]]
<1>1. \A T \in SUBSET S : T # {} => c[T] \in T
  OBVIOUS
<1>2. step \in [S \X Int -> Int]
  OBVIOUS
<1>3. PICK g \in [SUBSET S -> Int] : Folds(g, S, 0, step, c)
  <2>1. 0 \in Int
    OBVIOUS
  <2> HIDE DEF c, step
  <2> QED
    BY <1>1, <1>2, <2>1, FoldsExist
<1>4. ASSUME NEW T \in SUBSET S PROVE g[T] = AddedUp(g, w, T)
  <2>1. CASE T = {}
    BY <1>3, <2>1 DEF Folds, Folded, AddedUp
  <2>2. CASE T # {}
    <3>1. c[T] \in T /\ T \ {c[T]} \in SUBSET S /\ c[T] = CHOOSE x \in T : TRUE
      BY <1>1, <2>2
    <3>2. g[T] = step[<<c[T], g[T \ {c[T]}]>>] /\ g[T \ {c[T]}] \in Int
      BY <1>3, <2>2, <3>1 DEF Folds, Folded
    <3>3. step[<<c[T], g[T \ {c[T]}]>>] = w[c[T]] + g[T \ {c[T]}]
      <4> HIDE DEF c
      <4> QED
        BY <3>1, <3>2
    <3> HIDE DEF c, step
    <3> QED
      BY <2>2, <3>1, <3>2, <3>3 DEF AddedUp
  <2> QED
    BY <2>1, <2>2
<1> QED
  BY <1>4 DEF Sums

LEMMA SumsAreUnique ==
  ASSUME NEW S, IsFiniteSet(S), NEW w, NEW g, Sums(g, w, S),
         NEW h, \A T \in SUBSET S : h[T] = AddedUp(h, w, T)
  PROVE  h[S] = g[S]
<1> DEFINE Q == {T \in SUBSET S : h[T] # g[T]}
<1>1. SUFFICES ASSUME Q # {} PROVE FALSE
  OBVIOUS
<1>2. PICK T \in Q : \A U \in Q : U \subseteq T => U = T
  <2>1. Q \in SUBSET (SUBSET S)
    OBVIOUS
  <2> HIDE DEF Q
  <2> QED
    BY <1>1, <2>1, MinimalSubset
<1>3. h[T] = AddedUp(h, w, T) /\ g[T] = AddedUp(g, w, T)
  BY DEF Sums
<1>4. T # {}
  BY <1>2, <1>3 DEF AddedUp
<1>5. PICK x \in T : x = CHOOSE y \in T : TRUE
  BY <1>4
<1>6. h[T \ {x}] = g[T \ {x}]
  BY <1>2
<1> QED
  BY <1>2, <1>3, <1>4, <1>5, <1>6 DEF AddedUp

\* One summand changes, and the sum by as much.
LEMMA SumsDiffer ==
  ASSUME NEW S, IsFiniteSet(S), NEW w \in [S -> Int], NEW v \in [S -> Int], NEW z \in S,
         \A x \in S \ {z} : v[x] = w[x], NEW g, Sums(g, w, S), NEW h, Sums(h, v, S)
  PROVE  h[S] = (g[S] - w[z]) + v[z]
<1> DEFINE Expected(T) == IF z \in T THEN (g[T] - w[z]) + v[z] ELSE g[T]
           Q == {T \in SUBSET S : h[T] # Expected(T)}
<1>1. SUFFICES ASSUME Q # {} PROVE FALSE
  OBVIOUS
<1>2. PICK T \in Q : \A U \in Q : U \subseteq T => U = T
  <2>1. Q \in SUBSET (SUBSET S)
    OBVIOUS
  <2> HIDE DEF Q
  <2> QED
    BY <1>1, <2>1, MinimalSubset
<1>3. h[T] = AddedUp(h, v, T) /\ g[T] = AddedUp(g, w, T)
  BY DEF Sums
<1>4. T # {}
  BY <1>2, <1>3 DEF AddedUp
<1>5. PICK x \in T : x = CHOOSE y \in T : TRUE
  BY <1>4
<1> DEFINE R == T \ {x}
<1>6. h[R] = Expected(R)
  BY <1>2
<1>7. h[T] = v[x] + h[R] /\ g[T] = w[x] + g[R]
  BY <1>3, <1>4, <1>5 DEF AddedUp
<1>8. h[R] \in Int /\ g[R] \in Int /\ w[x] \in Int /\ v[x] \in Int /\ w[z] \in Int /\ v[z] \in Int
  BY DEF Sums
<1>9. z \in T <=> z \in R \/ z = x
  OBVIOUS
<1>10. x \notin R /\ (x # z => v[x] = w[x])
  BY <1>2
<1>11. h[T] # Expected(T)
  BY <1>2
<1> HIDE DEF R, Q
<1> QED
  BY <1>6, <1>7, <1>8, <1>9, <1>10, <1>11

LEMMA SumOfNothing ==
  ASSUME NEW S, IsFiniteSet(S), NEW w, \A x \in S : w[x] = 0, NEW g, Sums(g, w, S)
  PROVE  g[S] = 0
<1> DEFINE Q == {T \in SUBSET S : g[T] # 0}
<1>1. SUFFICES ASSUME Q # {} PROVE FALSE
  OBVIOUS
<1>2. PICK T \in Q : \A U \in Q : U \subseteq T => U = T
  <2>1. Q \in SUBSET (SUBSET S)
    OBVIOUS
  <2> HIDE DEF Q
  <2> QED
    BY <1>1, <2>1, MinimalSubset
<1>3. g[T] = AddedUp(g, w, T)
  BY DEF Sums
<1>4. T # {}
  BY <1>2, <1>3 DEF AddedUp
<1>5. PICK x \in T : x = CHOOSE y \in T : TRUE
  BY <1>4
<1>6. g[T \ {x}] = 0
  BY <1>2
<1> QED
  BY <1>2, <1>3, <1>4, <1>5, <1>6 DEF AddedUp

-----------------------------------------------------------------------------
(***************************************************************************)
(* Sequences and what is in them.                                          *)
(***************************************************************************)
LEMMA EmptySet == ToSet(<<>>) = {}
BY EmptySeq DEF ToSet

LEMMA Elements ==
  ASSUME NEW S, NEW s \in Seq(S)
  PROVE  /\ ToSet(s) = {s[i] : i \in 1 .. Len(s)} /\ ToSet(s) \subseteq S
         /\ Len(s) \in Nat /\ DOMAIN s = 1 .. Len(s)
         /\ s \in [1 .. Len(s) -> S]
BY LenProperties, ElementOfSeq DEF ToSet

LEMMA AppendSet ==
  ASSUME NEW S, NEW s \in Seq(S), NEW x \in S
  PROVE  /\ Append(s, x) \in Seq(S) /\ Len(Append(s, x)) = Len(s) + 1
         /\ ToSet(Append(s, x)) = ToSet(s) \cup {x}
<1>1. Append(s, x) \in Seq(S) /\ Len(Append(s, x)) = Len(s) + 1 /\ Len(s) \in Nat
  BY AppendProperties, LenProperties
<1>2. \A i \in 1 .. Len(s) : Append(s, x)[i] = s[i]
  BY AppendProperties
<1>3. Append(s, x)[Len(s) + 1] = x
  BY AppendProperties
<1>4. 1 .. Len(s) + 1 = (1 .. Len(s)) \cup {Len(s) + 1}
  BY <1>1
<1>5. ToSet(Append(s, x)) = {Append(s, x)[i] : i \in 1 .. Len(s) + 1}
  BY <1>1, Elements
<1>6. ToSet(s) = {s[i] : i \in 1 .. Len(s)}
  BY Elements
<1>7. {Append(s, x)[i] : i \in 1 .. Len(s) + 1} = {s[i] : i \in 1 .. Len(s)} \cup {x}
  BY <1>2, <1>3, <1>4, Zenon
<1> QED
  BY <1>1, <1>5, <1>6, <1>7

LEMMA TailSet ==
  ASSUME NEW S, NEW s \in Seq(S), s # <<>>
  PROVE  /\ Head(s) \in S /\ Head(s) \in ToSet(s) /\ Head(s) = s[1] /\ 1 <= Len(s)
         /\ Tail(s) \in Seq(S) /\ Len(Tail(s)) = Len(s) - 1 /\ ToSet(Tail(s)) \subseteq ToSet(s)
         /\ \A i \in 1 .. Len(s) - 1 : Tail(s)[i] = s[i + 1]
<1>1. /\ Tail(s) \in Seq(S) /\ Len(Tail(s)) = Len(s) - 1
      /\ \A i \in 1 .. Len(s) - 1 : Tail(s)[i] = s[i + 1]
  BY HeadTailProperties
<1>2. Len(s) \in Nat /\ 1 <= Len(s) /\ Head(s) = s[1]
  BY EmptySeq, LenProperties
<1>3. s[1] \in S /\ s[1] \in {s[i] : i \in 1 .. Len(s)}
  BY <1>2, ElementOfSeq
<1>4. \A i \in 1 .. Len(s) - 1 : i + 1 \in 1 .. Len(s)
  BY <1>2
<1>5. {Tail(s)[i] : i \in 1 .. Len(s) - 1} \subseteq {s[i] : i \in 1 .. Len(s)}
  BY <1>1, <1>4
<1>6. ToSet(Tail(s)) = {Tail(s)[i] : i \in 1 .. Len(s) - 1} /\ ToSet(s) = {s[i] : i \in 1 .. Len(s)}
  BY <1>1, Elements
<1> QED
  BY <1>1, <1>2, <1>3, <1>5, <1>6

LEMMA PartSet ==
  ASSUME NEW S, NEW s \in Seq(S), NEW m \in 1 .. Len(s) + 1, NEW n \in m - 1 .. Len(s)
  PROVE  /\ SubSeq(s, m, n) \in Seq(S) /\ Len(SubSeq(s, m, n)) = n - m + 1
         /\ \A i \in 1 .. n - m + 1 : SubSeq(s, m, n)[i] = s[m + i - 1]
         /\ ToSet(SubSeq(s, m, n)) \subseteq ToSet(s)
<1>1. Len(s) \in Nat /\ m \in Nat /\ n \in Nat
  BY LenProperties
<1>2. /\ SubSeq(s, m, n) \in Seq(S) /\ Len(SubSeq(s, m, n)) = n - m + 1
      /\ \A i \in 1 .. n - m + 1 : SubSeq(s, m, n)[i] = s[m + i - 1]
  BY <1>1, SubSeqProperties
<1>3. \A i \in 1 .. n - m + 1 : m + i - 1 \in 1 .. Len(s)
  BY <1>1
<1>4. {SubSeq(s, m, n)[i] : i \in 1 .. n - m + 1} \subseteq {s[i] : i \in 1 .. Len(s)}
  BY <1>2, <1>3
<1>5. /\ ToSet(SubSeq(s, m, n)) = {SubSeq(s, m, n)[i] : i \in 1 .. n - m + 1}
      /\ ToSet(s) = {s[i] : i \in 1 .. Len(s)}
  BY <1>2, Elements
<1> QED
  BY <1>2, <1>4, <1>5

\* An element less: the others keep their order, and each is there as often as before.
LEMMA RemovedPlace ==
  ASSUME NEW S, NEW s \in Seq(S), NEW p \in DOMAIN s
  PROVE  /\ RemoveAt(s, p) \in Seq(S) /\ Len(RemoveAt(s, p)) = Len(s) - 1
         /\ \A i \in 1 .. Len(s) - 1 : RemoveAt(s, p)[i] = IF i < p THEN s[i] ELSE s[i + 1]
<1>1. Len(s) \in Nat /\ p \in 1 .. Len(s) /\ p \in Nat
  BY LenProperties
<1> DEFINE front == SubSeq(s, 1, p - 1)
           back == SubSeq(s, p + 1, Len(s))
<1>2. /\ front \in Seq(S) /\ Len(front) = p - 1
      /\ \A i \in 1 .. p - 1 : front[i] = s[i]
  <2>1. 1 \in 1 .. Len(s) + 1 /\ p - 1 \in 1 - 1 .. Len(s)
    BY <1>1
  <2>2. /\ SubSeq(s, 1, p - 1) \in Seq(S) /\ Len(SubSeq(s, 1, p - 1)) = (p - 1) - 1 + 1
        /\ \A i \in 1 .. (p - 1) - 1 + 1 : SubSeq(s, 1, p - 1)[i] = s[1 + i - 1]
    BY <2>1, PartSet
  <2>3. (p - 1) - 1 + 1 = p - 1 /\ \A i \in 1 .. p - 1 : 1 + i - 1 = i
    BY <1>1
  <2> QED
    BY <2>2, <2>3
<1>3. /\ back \in Seq(S) /\ Len(back) = Len(s) - p
      /\ \A i \in 1 .. Len(s) - p : back[i] = s[p + i]
  <2>1. p + 1 \in 1 .. Len(s) + 1 /\ Len(s) \in (p + 1) - 1 .. Len(s)
    BY <1>1
  <2>2. /\ SubSeq(s, p + 1, Len(s)) \in Seq(S)
        /\ Len(SubSeq(s, p + 1, Len(s))) = Len(s) - (p + 1) + 1
        /\ \A i \in 1 .. Len(s) - (p + 1) + 1 : SubSeq(s, p + 1, Len(s))[i] = s[(p + 1) + i - 1]
    BY <2>1, PartSet
  <2>3. Len(s) - (p + 1) + 1 = Len(s) - p /\ \A i \in 1 .. Len(s) - p : (p + 1) + i - 1 = p + i
    BY <1>1
  <2> QED
    BY <2>2, <2>3
<1> HIDE DEF front, back
<1>4. RemoveAt(s, p) = front \o back
  BY DEF RemoveAt, front, back
<1>5. /\ front \o back \in Seq(S) /\ Len(front \o back) = Len(front) + Len(back)
      /\ \A i \in 1 .. Len(front) + Len(back) :
           (front \o back)[i] = IF i <= Len(front) THEN front[i] ELSE back[i - Len(front)]
  BY <1>2, <1>3, ConcatProperties
<1>6. Len(front) + Len(back) = Len(s) - 1
  BY <1>1, <1>2, <1>3
<1>7. ASSUME NEW i \in 1 .. Len(s) - 1
      PROVE  (front \o back)[i] = IF i < p THEN s[i] ELSE s[i + 1]
  <2>1. CASE i < p
    <3>1. i <= Len(front) /\ i \in 1 .. p - 1
      BY <1>1, <1>2, <2>1
    <3> QED
      BY <1>2, <1>5, <1>6, <2>1, <3>1
  <2>2. CASE ~ (i < p)
    <3>1. ~ (i <= Len(front)) /\ i - (p - 1) \in 1 .. Len(s) - p /\ p + (i - (p - 1)) = i + 1
      BY <1>1, <1>2, <2>2
    <3> QED
      BY <1>2, <1>3, <1>5, <1>6, <2>2, <3>1
  <2> QED
    BY <2>1, <2>2
<1> QED
  BY <1>4, <1>5, <1>6, <1>7

Once(s) == \A i, j \in DOMAIN s : s[i] = s[j] => i = j

LEMMA RemovedOnce ==
  ASSUME NEW S, NEW s \in Seq(S), Once(s), NEW p \in DOMAIN s
  PROVE  /\ RemoveAt(s, p) \in Seq(S) /\ Once(RemoveAt(s, p))
         /\ ToSet(RemoveAt(s, p)) = ToSet(s) \ {s[p]}
<1>1. /\ RemoveAt(s, p) \in Seq(S) /\ Len(RemoveAt(s, p)) = Len(s) - 1
      /\ \A i \in 1 .. Len(s) - 1 : RemoveAt(s, p)[i] = IF i < p THEN s[i] ELSE s[i + 1]
  BY RemovedPlace
<1>2. Len(s) \in Nat /\ p \in 1 .. Len(s) /\ DOMAIN s = 1 .. Len(s)
  BY LenProperties
<1> DEFINE old(i) == IF i < p THEN i ELSE i + 1
<1>3. PICK r \in Seq(S) : r = RemoveAt(s, p)
  BY <1>1
<1>4. DOMAIN r = 1 .. Len(s) - 1
  BY <1>1, <1>2, <1>3, LenProperties
<1>5. \A i \in DOMAIN r : r[i] = s[old(i)] /\ old(i) \in DOMAIN s \ {p}
  <2>1. \A i \in 1 .. Len(s) - 1 : r[i] = s[old(i)]
    BY <1>1, <1>3
  <2>2. \A i \in 1 .. Len(s) - 1 : old(i) \in 1 .. Len(s) /\ old(i) # p
    BY <1>2
  <2> QED
    BY <1>2, <1>4, <2>1, <2>2
<1>6. \A i, j \in DOMAIN r : old(i) = old(j) => i = j
  BY <1>2, <1>4
<1>7. \A k \in DOMAIN s \ {p} : \E i \in DOMAIN r : old(i) = k
  <2>1. SUFFICES ASSUME NEW k \in DOMAIN s \ {p} PROVE \E i \in DOMAIN r : old(i) = k
    OBVIOUS
  <2>2. CASE k < p
    <3>1. k \in DOMAIN r /\ old(k) = k
      BY <1>2, <1>4, <2>2
    <3> QED
      BY <3>1
  <2>3. CASE ~ (k < p)
    <3>1. k - 1 \in DOMAIN r /\ old(k - 1) = k
      BY <1>2, <1>4, <2>3
    <3> QED
      BY <3>1
  <2> QED
    BY <2>2, <2>3
<1> HIDE DEF old
<1>8. Once(r)
  BY <1>5, <1>6 DEF Once
<1>9. ToSet(r) = ToSet(s) \ {s[p]}
  <2>1. ToSet(r) = {r[i] : i \in DOMAIN r} /\ ToSet(s) = {s[i] : i \in DOMAIN s}
    BY DEF ToSet
  <2>2. \A i \in DOMAIN s \ {p} : s[i] # s[p]
    BY DEF Once
  <2> QED
    BY <1>5, <1>7, <2>1, <2>2
<1> QED
  BY <1>1, <1>3, <1>8, <1>9

LEMMA AppendedOnce ==
  ASSUME NEW S, NEW s \in Seq(S), Once(s), NEW x \in S, x \notin ToSet(s)
  PROVE  Once(Append(s, x))
<1>1. PICK r \in Seq(S) : r = Append(s, x)
  BY AppendProperties
<1>2. /\ Len(s) \in Nat /\ DOMAIN s = 1 .. Len(s) /\ DOMAIN r = 1 .. Len(s) + 1
      /\ \A i \in 1 .. Len(s) : r[i] = s[i]
      /\ r[Len(s) + 1] = x
  BY <1>1, AppendProperties, LenProperties
<1>3. \A i \in DOMAIN s : s[i] # x
  BY DEF ToSet
<1>4. \A i \in DOMAIN r : i \in DOMAIN s \/ i = Len(s) + 1
  BY <1>2
<1>5. \A i \in DOMAIN s : r[i] = s[i]
  BY <1>2
<1> QED
  BY <1>1, <1>2, <1>3, <1>4, <1>5 DEF Once

\* A sequence that is not empty is its head and its tail.
LEMMA HeadAndTail ==
  ASSUME NEW S, NEW s \in Seq(S), s # <<>>
  PROVE  /\ Head(s) \in S /\ Tail(s) \in Seq(S) /\ <<Head(s)>> \in Seq(S)
         /\ s = <<Head(s)>> \o Tail(s)
<1>1. s \in Seq(S) /\ Len(s) \in Nat \ {0} /\ Head(s) = s[1] /\ Head(s) \in S /\ Tail(s) \in Seq(S)
  BY EmptySeq, HeadTailProperties
<1>2. s = SubSeq(s, 1, Len(s)) /\ Tail(s) = SubSeq(s, 2, Len(s))
  BY <1>1, SubSeqFull, TailIsSubSeq
<1>3. 1 \in 1 .. Len(s) /\ Len(s) \in 1 .. Len(s) /\ 1 + 1 = 2
  BY <1>1
<1>4. SubSeq(s, 1, Len(s)) = <<s[1]>> \o SubSeq(s, 1 + 1, Len(s))
  BY <1>1, <1>3, SubSeqRecursiveFirst
<1>5. PICK h \in S, t \in Seq(S) : h = Head(s) /\ t = Tail(s)
  BY <1>1
<1>6. <<h>> \in Seq(S)
  OBVIOUS
<1>7. s = <<h>> \o t
  BY <1>1, <1>2, <1>3, <1>4, <1>5
<1> QED
  BY <1>5, <1>6, <1>7

\* The head and the tail of a concatenation.
LEMMA ConcatTail ==
  ASSUME NEW S, NEW s \in Seq(S), NEW t \in Seq(S), s # <<>>
  PROVE  /\ s \o t \in Seq(S) /\ s \o t # <<>> /\ Head(s \o t) = Head(s)
         /\ Tail(s \o t) = Tail(s) \o t
<1>1. PICK a \in Nat \ {0}, b \in Nat : a = Len(s) /\ b = Len(t)
  BY EmptySeq, LenProperties
<1>2. PICK u \in Seq(S) : u = s \o t
  BY ConcatProperties
<1>3. Len(u) = a + b /\ \A i \in 1 .. a + b : u[i] = IF i <= a THEN s[i] ELSE t[i - a]
  BY <1>1, <1>2, ConcatProperties
<1>4. u # <<>>
  BY <1>1, <1>3, EmptySeq
<1>5. /\ Tail(s) \in Seq(S) /\ Len(Tail(s)) = a - 1
      /\ \A i \in 1 .. a - 1 : Tail(s)[i] = s[i + 1]
  BY <1>1, HeadTailProperties
<1>6. Tail(u) \in Seq(S) /\ Len(Tail(u)) = a + b - 1 /\ \A i \in 1 .. a + b - 1 : Tail(u)[i] = u[i + 1]
  BY <1>1, <1>3, <1>4, HeadTailProperties
<1>7. PICK r \in Seq(S) : r = Tail(s) \o t
  BY <1>5, ConcatProperties
<1>8. Len(r) = a - 1 + b
      /\ \A i \in 1 .. a - 1 + b : r[i] = IF i <= a - 1 THEN Tail(s)[i] ELSE t[i - (a - 1)]
  BY <1>1, <1>5, <1>7, ConcatProperties
<1>9. Tail(u) = r
  <2>1. \A i \in 1 .. a + b - 1 : Tail(u)[i] = r[i]
    <3>1. SUFFICES ASSUME NEW i \in 1 .. a + b - 1 PROVE Tail(u)[i] = r[i]
      OBVIOUS
    <3>2. Tail(u)[i] = u[i + 1] /\ i + 1 \in 1 .. a + b /\ i \in 1 .. a - 1 + b
      BY <1>1, <1>6
    <3>3. CASE i <= a - 1
      <4>1. i + 1 <= a /\ i \in 1 .. a - 1
        BY <1>1, <3>3
      <4>2. u[i + 1] = s[i + 1]
        BY <1>3, <3>2, <4>1
      <4>3. r[i] = s[i + 1]
        BY <1>5, <1>8, <3>2, <3>3, <4>1
      <4> QED
        BY <3>2, <4>2, <4>3
    <3>4. CASE ~(i <= a - 1)
      <4>1. ~(i + 1 <= a) /\ (i + 1) - a = i - (a - 1)
        BY <1>1, <3>4
      <4>2. u[i + 1] = t[(i + 1) - a]
        BY <1>3, <3>2, <4>1
      <4>3. r[i] = t[i - (a - 1)]
        BY <1>8, <3>2, <3>4
      <4> QED
        BY <3>2, <4>1, <4>2, <4>3
    <3> QED
      BY <3>3, <3>4
  <2> QED
    BY <1>1, <1>6, <1>8, <2>1, SeqEqual
<1>10. Head(u) = Head(s)
  <2>1. 1 \in 1 .. a + b /\ 1 <= a
    BY <1>1
  <2>2. u[1] = s[1]
    BY <1>3, <2>1
  <2> QED
    BY <1>4, <2>2
<1> QED
  BY <1>2, <1>4, <1>7, <1>9, <1>10

\* A concatenation with one element more.
LEMMA ConcatAppend ==
  ASSUME NEW S, NEW s \in Seq(S), NEW t \in Seq(S), NEW x \in S
  PROVE  s \o Append(t, x) = Append(s \o t, x)
<1>1. s \o t \in Seq(S) /\ <<x>> \in Seq(S)
  BY ConcatProperties
<1>2. Append(t, x) = t \o <<x>> /\ Append(s \o t, x) = (s \o t) \o <<x>>
  BY <1>1, AppendIsConcat
<1>3. (s \o t) \o <<x>> = s \o (t \o <<x>>)
  BY <1>1, ConcatAssociative
<1> QED
  BY <1>2, <1>3

\* The head of the second part moves to the first: the whole stays.
LEMMA ConcatMoves ==
  ASSUME NEW S, NEW s \in Seq(S), NEW t \in Seq(S), t # <<>>
  PROVE  Append(s, Head(t)) \o Tail(t) = s \o t
<1>1. PICK h \in S, r \in Seq(S) : h = Head(t) /\ r = Tail(t)
  BY HeadAndTail
<1>2. t = <<h>> \o r /\ <<h>> \in Seq(S)
  BY <1>1, HeadAndTail
<1>3. Append(s, h) = s \o <<h>>
  BY AppendIsConcat
<1>4. (s \o <<h>>) \o r = s \o (<<h>> \o r)
  BY <1>2, ConcatAssociative
<1> QED
  BY <1>1, <1>2, <1>3, <1>4

LEMMA SetInOrder ==
  ASSUME NEW S, IsFiniteSet(S)
  PROVE  /\ SetToSeq(S) \in Seq(S) /\ Len(SetToSeq(S)) = Cardinality(S)
         /\ ToSet(SetToSeq(S)) = S
         /\ \A i, j \in 1 .. Len(SetToSeq(S)) : SetToSeq(S)[i] = SetToSeq(S)[j] => i = j
<1> DEFINE n == Cardinality(S)
<1>1. n \in Nat /\ ExistsBijection(1 .. n, S)
  BY FS_CardinalityType
<1>2. PICK b \in Bijection(1 .. n, S) : TRUE
  BY <1>1 DEF ExistsBijection
<1>3. b \in [1 .. n -> S] /\ IsInjective(b)
  BY <1>2 DEF Bijection, Injection
<1> DEFINE s == SetToSeq(S)
<1>4. s \in [1 .. n -> S] /\ IsInjective(s)
  <2>1. \E f \in [1 .. n -> S] : IsInjective(f)
    BY <1>3
  <2>2. s = CHOOSE f \in [1 .. n -> S] : IsInjective(f)
    BY DEF SetToSeq
  <2> QED
    BY <2>1, <2>2
<1>5. s \in Surjection(1 .. n, S)
  <2>1. s \in Injection(1 .. n, S)
    BY <1>4 DEF Injection
  <2>2. IsFiniteSet(1 .. n) /\ Cardinality(1 .. n) = n
    BY <1>1, FS_Interval
  <2> HIDE DEF s
  <2> QED
    BY <2>1, <2>2, FS_Injection
<1>6. \A x \in S : \E i \in 1 .. n : s[i] = x
  BY <1>5 DEF Surjection
<1>7. s \in Seq(S) /\ Len(s) = n /\ DOMAIN s = 1 .. n
  BY <1>1, <1>4, IsASeq
<1>8. ToSet(s) = S
  BY <1>4, <1>6, <1>7 DEF ToSet
<1>9. \A i, j \in 1 .. n : s[i] = s[j] => i = j
  BY <1>4, <1>7 DEF IsInjective
<1> QED
  BY <1>7, <1>8, <1>9

LEMMA FirstNumbers ==
  ASSUME NEW n \in Nat
  PROVE  IsFiniteSet(1 .. n) /\ Cardinality(1 .. n) = n
<1>1. IsFiniteSet(1 .. n) /\ Cardinality(1 .. n) = IF 1 > n THEN 0 ELSE n - 1 + 1
  BY FS_Interval
<1> QED
  BY <1>1

\* A set of numbers in their order.
Increasing(k) == \A i, j \in DOMAIN k : i < j => k[i] < k[j]

LEMMA OrderExists ==
  ASSUME NEW n \in Nat, NEW S \in SUBSET (1 .. n)
  PROVE  \E k \in [1 .. Cardinality(S) -> S] : Increasing(k) /\ \A x \in S : \E i \in DOMAIN k : k[i] = x
<1> DEFINE Ordered(R) == \E k \in [1 .. Cardinality(R) -> R] :
                           Increasing(k) /\ \A x \in R : \E i \in DOMAIN k : k[i] = x
           Upto == {m \in Nat : \A R \in SUBSET (1 .. m) : Ordered(R)}
<1>1. 0 \in Upto
  <2>1. \A R \in SUBSET (1 .. 0) : R = {}
    OBVIOUS
  <2>2. 1 .. Cardinality({}) = {}
    BY FS_EmptySet
  <2>3. [i \in {} |-> 0] \in [{} -> {}]
    OBVIOUS
  <2>4. Ordered({})
    BY <2>2, <2>3 DEF Increasing
  <2> HIDE DEF Ordered
  <2> QED
    BY <2>1, <2>4
<1>2. ASSUME NEW m \in Upto PROVE m + 1 \in Upto
  <2>1. ASSUME NEW R \in SUBSET (1 .. m + 1) PROVE Ordered(R)
    <3>1. CASE m + 1 \notin R
      <4>1. R \in SUBSET (1 .. m)
        BY <3>1
      <4> QED
        BY <4>1
    <3>2. CASE m + 1 \in R
      <4> DEFINE Q == R \ {m + 1}
                 c == Cardinality(Q)
      <4>1. Q \in SUBSET (1 .. m) /\ m + 1 \notin Q
        OBVIOUS
      <4>2. IsFiniteSet(R) /\ IsFiniteSet(Q)
        <5>1. IsFiniteSet(1 .. m + 1)
          BY FS_Interval
        <5> QED
          BY <5>1, <4>1, FS_Subset
      <4>3. c \in Nat /\ Cardinality(R) = c + 1
        BY <4>2, <3>2, OneLess
      <4>4. Ordered(Q)
        BY <4>1
      <4>5. PICK k \in [1 .. c -> Q] : Increasing(k) /\ \A x \in Q : \E i \in DOMAIN k : k[i] = x
        BY <4>4
      <4> HIDE DEF c
      <4> DEFINE h == [i \in 1 .. c + 1 |-> IF i = c + 1 THEN m + 1 ELSE k[i]]
      <4>6. h \in [1 .. c + 1 -> R]
        <5>1. \A i \in 1 .. c + 1 : i # c + 1 => i \in 1 .. c
          BY <4>3
        <5> QED
          BY <5>1, <4>5, <3>2
      <4>7. Increasing(h)
        <5> SUFFICES ASSUME NEW i \in 1 .. c + 1, NEW j \in 1 .. c + 1, i < j PROVE h[i] < h[j]
          BY DEF Increasing
        <5>1. i \in 1 .. c /\ k[i] \in 1 .. m /\ h[i] = k[i]
          <6>1. i \in 1 .. c /\ i # c + 1
            BY <4>3
          <6>2. k[i] \in Q
            BY <6>1, <4>5
          <6> QED
            BY <6>1, <6>2, <4>1
        <5>2. CASE j = c + 1
          BY <5>1, <5>2
        <5>3. CASE j # c + 1
          <6>1. j \in 1 .. c /\ h[j] = k[j]
            BY <5>3, <4>3
          <6> QED
            BY <6>1, <5>1, <4>5 DEF Increasing
        <5> QED
          BY <5>2, <5>3
      <4>8. \A x \in R : \E i \in DOMAIN h : h[i] = x
        <5>1. ASSUME NEW x \in R PROVE \E i \in 1 .. c + 1 : h[i] = x
          <6>1. CASE x = m + 1
            BY <6>1, <4>3
          <6>2. CASE x # m + 1
            <7>1. PICK i \in 1 .. c : k[i] = x
              BY <6>2, <4>5
            <7>2. i \in 1 .. c + 1 /\ i # c + 1
              BY <7>1, <4>3
            <7> QED
              BY <7>1, <7>2
          <6> QED
            BY <6>1, <6>2
        <5> QED
          BY <5>1
      <4> HIDE DEF h
      <4> QED
        BY <4>3, <4>6, <4>7, <4>8
    <3> QED
      BY <3>1, <3>2
  <2>2. m + 1 \in Nat
    OBVIOUS
  <2> HIDE DEF Ordered
  <2> QED
    BY <2>1, <2>2
<1>3. n \in Upto
  <2>1. Upto \in SUBSET Nat
    OBVIOUS
  <2> HIDE DEF Upto
  <2> QED
    BY <1>1, <1>2, <2>1, NumberInduction
<1> QED
  BY <1>3
====
