------------------------------ MODULE DataLemmas ------------------------------
(***************************************************************************)
(* Facts about numbers, finite sets and sequences that the proofs of the   *)
(* other modules share: induction in the form of sets, sums, and what      *)
(* recursive functions of the community modules are worth.                 *)
(***************************************************************************)
EXTENDS Integers, Sequences, FiniteSets, SequencesExt, FiniteSetTheorems,
        WellFoundedInduction, TLAPS

-----------------------------------------------------------------------------
(* Sums and orders over finite sets.  Induction on the subsets of a finite *)
(* set takes a set of subsets where the library's theorem takes a formula. *)
Less == {r \in Nat \X Nat : r[1] < r[2]}

(* A set of numbers has a least one.                                       *)
LEMMA LeastNatural ==
  ASSUME NEW T \in SUBSET Nat, T # {}
  PROVE  \E x \in T : \A y \in T : x <= y
<1>1. OpToRel(<, Nat) = Less
  BY Zenon DEF OpToRel, Less
<1>2. IsWellFoundedOn(Less, Nat)
  BY <1>1, NatLessThanWellFounded, Zenon
<1>3. PICK x \in T : \A y \in T : <<y, x>> \notin Less
  BY <1>2, WFMin
<1>4. ASSUME NEW y \in T PROVE x <= y
  <2>1. <<y, x>>[1] = y /\ <<y, x>>[2] = x /\ <<y, x>> \in Nat \X Nat /\ x \in Nat /\ y \in Nat
    OBVIOUS
  <2>2. ~ (y < x)
    BY <1>3, <2>1 DEF Less
  <2> QED BY <2>1, <2>2
<1> QED BY <1>4

(* Induction: a set that holds 0 and n + 1 with n holds every number.      *)
LEMMA NaturalInduction ==
  ASSUME NEW H, 0 \in H, \A n \in Nat : n \in H => n + 1 \in H
  PROVE  Nat \subseteq H
<1> DEFINE Bad == {n \in Nat : n \notin H}
<1> SUFFICES ASSUME Bad # {} PROVE FALSE
  OBVIOUS
<1>1. PICK n \in Bad : \A m \in Bad : n <= m
  <2>1. Bad \in SUBSET Nat
    OBVIOUS
  <2> HIDE DEF Bad
  <2> QED BY <2>1, LeastNatural
<1>2. n # 0 /\ n - 1 \in Nat
  OBVIOUS
<1>3. n - 1 \in H
  BY <1>1, <1>2
<1> QED BY <1>2, <1>3

(* A set of subsets of S that holds {} and each T whose smaller parts it   *)
(* holds is all of SUBSET S.                                               *)
LEMMA SubsetInduction ==
  ASSUME NEW S, IsFiniteSet(S), NEW H, {} \in H,
         \A T \in SUBSET S : T # {} /\ (\A x \in T : T \ {x} \in H) => T \in H
  PROVE  SUBSET S \subseteq H
<1> SUFFICES ASSUME (SUBSET S) \ H # {} PROVE FALSE
  OBVIOUS
<1>1. PICK T \in (SUBSET S) \ H : \A U \in (SUBSET S) \ H : Cardinality(T) <= Cardinality(U)
  <2> DEFINE N == {Cardinality(U) : U \in (SUBSET S) \ H}
  <2>1. N \in SUBSET Nat /\ N # {}
    <3>1. \A U \in SUBSET S : Cardinality(U) \in Nat
      BY FS_Subset, FS_CardinalityType
    <3> QED BY <3>1
  <2>2. PICK n \in N : \A m \in N : n <= m
    BY <2>1, LeastNatural
  <2> QED BY <2>2
<1>2. PICK x \in T : T \ {x} \notin H
  <2>1. T \in SUBSET S /\ T # {} /\ T \notin H
    BY <1>1
  <2> QED BY <2>1, Zenon
<1>3. IsFiniteSet(T) /\ Cardinality(T) \in Nat
  BY FS_Subset, FS_CardinalityType
<1>4. Cardinality(T \ {x}) = Cardinality(T) - 1
  BY <1>2, <1>3, FS_RemoveElement
<1> QED BY <1>1, <1>2, <1>3, <1>4

(* SumFunction is a fold: the value at S of a function on the subsets of S *)
(* that takes one element out at a time.                                   *)
Pick(T) == CHOOSE x \in T : TRUE
FoldOf(g, f, S) == g = [T \in SUBSET S |-> IF T = {} THEN 0 ELSE f[Pick(T)] + g[T \ {Pick(T)}]]
Adds(g, f, S) ==
  /\ g[{}] = 0
  /\ \A T \in SUBSET S : T # {} => \E x \in T : g[T] = f[x] + g[T \ {x}]

(* There is such a function.                                               *)
LEMMA SumExists ==
  ASSUME NEW S, IsFiniteSet(S), NEW f \in [S -> Nat]
  PROVE  \E g : FoldOf(g, f, S)
<1> DEFINE Small(n) == {T \in SUBSET S : Cardinality(T) <= n}
           Sums(n, g) == \A T \in Small(n) : g[T] = IF T = {} THEN 0 ELSE f[Pick(T)] + g[T \ {Pick(T)}]
           Good == {n \in Nat : \E g \in [Small(n) -> Nat] : Sums(n, g)}
<1>1. \A T \in SUBSET S : IsFiniteSet(T) /\ Cardinality(T) \in Nat
  BY FS_Subset, FS_CardinalityType
<1>2. \A T \in SUBSET S : T # {} => Pick(T) \in T
  BY DEF Pick
<1>3. 0 \in Good
  <2> DEFINE g == [T \in Small(0) |-> 0]
  <2>1. \A T \in Small(0) : T = {}
    BY <1>1, FS_EmptySet
  <2>2. Sums(0, g)
    BY <2>1
  <2> QED BY <2>2
<1>4. ASSUME NEW n \in Good PROVE n + 1 \in Good
  <2>1. PICK g \in [Small(n) -> Nat] : Sums(n, g)
    OBVIOUS
  <2> DEFINE h == [T \in Small(n + 1) |-> IF T = {} THEN 0 ELSE f[Pick(T)] + g[T \ {Pick(T)}]]
  <2>2. ASSUME NEW T \in Small(n + 1), T # {}
        PROVE  Pick(T) \in S /\ T \ {Pick(T)} \in Small(n)
    <3>1. Pick(T) \in T
      BY <1>2, <2>2
    <3>2. Cardinality(T \ {Pick(T)}) = Cardinality(T) - 1
      BY <1>1, <3>1, FS_RemoveElement
    <3> QED BY <1>1, <3>1, <3>2
  <2>3. \A T \in Small(n) : T \in Small(n + 1) /\ h[T] = g[T]
    BY <1>1, <2>1
  <2>4. h \in [Small(n + 1) -> Nat]
    BY <2>2
  <2>5. Sums(n + 1, h)
    BY <2>2, <2>3
  <2>6. n + 1 \in Nat
    OBVIOUS
  <2> HIDE DEF h, Sums, Small
  <2> QED BY <2>4, <2>5, <2>6
<1> HIDE DEF Good
<1>5. Cardinality(S) \in Good
  <2>1. Nat \subseteq Good
    BY <1>3, <1>4, NaturalInduction
  <2> QED BY <1>1, <2>1
<1>6. PICK g \in [Small(Cardinality(S)) -> Nat] : Sums(Cardinality(S), g)
  BY <1>5 DEF Good
<1>7. Small(Cardinality(S)) = SUBSET S
  BY FS_Subset
<1>8. g = [T \in SUBSET S |-> IF T = {} THEN 0 ELSE f[Pick(T)] + g[T \ {Pick(T)}]]
  BY <1>6, <1>7
<1> QED BY <1>8 DEF FoldOf

(* What a sum is made of.                                                  *)
LEMMA SumSteps ==
  ASSUME NEW S, IsFiniteSet(S), NEW f \in [S -> Nat]
  PROVE  \E g : g[S] = SumFunction(f) /\ Adds(g, f, S)
<1> DEFINE g == CHOOSE g : FoldOf(g, f, S)
<1>1. FoldOf(g, f, S)
  BY SumExists
<1>2. g[S] = SumFunction(f)
  <2>1. DOMAIN f = S
    OBVIOUS
  <2>2. SumFunction(f) = SumFunctionOnSet(f, S)
    BY <2>1 DEF SumFunction
  <2> QED BY <2>2, Zenon DEF SumFunctionOnSet, FoldFunctionOnSet, MapThenFoldSet, Pick,
      FoldOf
<1> HIDE DEF g
<1>3. \A T \in SUBSET S : g[T] = IF T = {} THEN 0 ELSE f[Pick(T)] + g[T \ {Pick(T)}]
  BY <1>1 DEF FoldOf
<1>4. \A T \in SUBSET S : T # {} => Pick(T) \in T
  BY DEF Pick
<1> QED BY <1>2, <1>3, <1>4 DEF Adds

(* A sum of numbers is a number.                                           *)
LEMMA SumIsNatural ==
  ASSUME NEW S, IsFiniteSet(S), NEW f \in [S -> Nat]
  PROVE  SumFunction(f) \in Nat
<1>1. PICK g : g[S] = SumFunction(f) /\ Adds(g, f, S)
  BY SumSteps
<1> USE DEF Adds
<1> DEFINE H == {T \in SUBSET S : g[T] \in Nat}
<1>2. ASSUME NEW T \in SUBSET S, T # {}, \A x \in T : T \ {x} \in H PROVE T \in H
  <2>1. PICK x \in T : g[T] = f[x] + g[T \ {x}]
    BY <1>1, <1>2
  <2>2. g[T \ {x}] \in Nat /\ f[x] \in Nat
    BY <1>2
  <2> QED BY <2>1, <2>2
<1>3. {} \in H
  BY <1>1
<1> HIDE DEF H
<1>4. SUBSET S \subseteq H
  BY <1>2, <1>3, SubsetInduction
<1> QED BY <1>1, <1>4 DEF H

(* The sizes of disjoint sets add up to that of their union.               *)
LEMMA SumOfSizes ==
  ASSUME NEW S, IsFiniteSet(S), NEW F, IsFiniteSet(F), NEW P \in [S -> SUBSET F],
         \A x, y \in S : x # y => P[x] \cap P[y] = {}
  PROVE  SumFunction([x \in S |-> Cardinality(P[x])]) = Cardinality(UNION {P[x] : x \in S})
<1> DEFINE f == [x \in S |-> Cardinality(P[x])]
           U(T) == UNION {P[x] : x \in T}
<1>1. f \in [S -> Nat]
  BY FS_Subset, FS_CardinalityType
<1>2. PICK g : g[S] = SumFunction(f) /\ Adds(g, f, S)
  <2> HIDE DEF f
  <2> QED BY <1>1, SumSteps
<1> DEFINE H == {T \in SUBSET S : g[T] = Cardinality(U(T))}
<1>3. ASSUME NEW T \in SUBSET S, T # {}, \A x \in T : T \ {x} \in H PROVE T \in H
  <2>1. PICK x \in T : g[T] = f[x] + g[T \ {x}]
    BY <1>2, <1>3 DEF Adds
  <2>2. g[T \ {x}] = Cardinality(U(T \ {x}))
    BY <1>3
  <2>3. U(T) = P[x] \cup U(T \ {x}) /\ P[x] \cap U(T \ {x}) = {}
    OBVIOUS
  <2>4. IsFiniteSet(P[x]) /\ IsFiniteSet(U(T \ {x}))
    <3>1. P[x] \in SUBSET F /\ U(T \ {x}) \in SUBSET F
      OBVIOUS
    <3> QED BY <3>1, FS_Subset
  <2> HIDE DEF U
  <2>5. Cardinality(U(T)) = Cardinality(P[x]) + Cardinality(U(T \ {x})) - Cardinality({})
    <3> DEFINE A == P[x]  B == U(T \ {x})
    <3>1. IsFiniteSet(A) /\ IsFiniteSet(B) /\ U(T) = A \cup B /\ A \cap B = {}
      BY <2>3, <2>4
    <3> HIDE DEF A, B
    <3>2. Cardinality(A \cup B) = Cardinality(A) + Cardinality(B) - Cardinality(A \cap B)
      BY <3>1, FS_Union
    <3> QED BY <3>1, <3>2 DEF A, B
  <2>6. g[T] = Cardinality(U(T))
    BY <2>1, <2>2, <2>4, <2>5, FS_EmptySet, FS_CardinalityType
  <2> QED BY <2>6
<1>4. {} \in H
  BY <1>2, U({}) = {}, FS_EmptySet DEF Adds
<1> HIDE DEF H
<1>5. SUBSET S \subseteq H
  BY <1>3, <1>4, SubsetInduction
<1> QED BY <1>2, <1>5 DEF H

-----------------------------------------------------------------------------
(* A sequence without repetition is as long as its set is large.           *)
LEMMA LengthIsSize ==
  ASSUME NEW S, NEW s \in Seq(S), IsInjective(s)
  PROVE  IsFiniteSet(ToSet(s)) /\ Cardinality(ToSet(s)) = Len(s)
<1>1. Len(s) \in Nat /\ DOMAIN s = 1..Len(s) /\ s \in [1..Len(s) -> ToSet(s)]
  BY DEF ToSet
<1>2. s \in Bijection(1..Len(s), ToSet(s))
  BY <1>1 DEF Bijection, Injection, Surjection, IsInjective, ToSet
<1>3. ExistsBijection(1..Len(s), ToSet(s))
  BY <1>2 DEF ExistsBijection
<1>4. IsFiniteSet(1..Len(s)) /\ Cardinality(1..Len(s)) = Len(s)
  BY <1>1, FS_Interval
<1> QED BY <1>3, <1>4, FS_Bijection

(* What one more entry does to a list.                                     *)
LEMMA AppendElements ==
  ASSUME NEW S, NEW s \in Seq(S), NEW e \in S
  PROVE  /\ Append(s, e) \in Seq(S)
         /\ ToSet(Append(s, e)) = ToSet(s) \cup {e}
         /\ e \notin ToSet(s) /\ IsInjective(s) => IsInjective(Append(s, e))
BY DEF ToSet, IsInjective

(* Two lists one after the other.                                          *)
LEMMA ConcatElements ==
  ASSUME NEW S, NEW s \in Seq(S), NEW t \in Seq(S)
  PROVE  /\ s \o t \in Seq(S)
         /\ ToSet(s \o t) = ToSet(s) \cup ToSet(t)
         /\ IsInjective(s) /\ IsInjective(t) /\ ToSet(s) \cap ToSet(t) = {}
              => IsInjective(s \o t)
<1> DEFINE u == s \o t
<1>1. /\ u \in Seq(S) /\ Len(u) = Len(s) + Len(t) /\ Len(s) \in Nat /\ Len(t) \in Nat
      /\ \A k \in 1..Len(u) : u[k] = IF k <= Len(s) THEN s[k] ELSE t[k - Len(s)]
      /\ DOMAIN u = 1..Len(u) /\ DOMAIN s = 1..Len(s) /\ DOMAIN t = 1..Len(t)
  OBVIOUS
<1> HIDE DEF u
<1>2. \A k \in 1..Len(s) : k \in 1..Len(u) /\ u[k] = s[k]
  BY <1>1
<1>3. \A k \in 1..Len(t) : k + Len(s) \in 1..Len(u) /\ u[k + Len(s)] = t[k]
  <2> SUFFICES ASSUME NEW k \in 1..Len(t)
               PROVE  k + Len(s) \in 1..Len(u) /\ u[k + Len(s)] = t[k]
    OBVIOUS
  <2> DEFINE m == k + Len(s)
  <2>1. m \in 1..Len(u) /\ ~ (m <= Len(s)) /\ m - Len(s) = k
    BY <1>1
  <2> HIDE DEF m
  <2>2. u[m] = t[k]
    BY <1>1, <2>1
  <2> QED BY <2>1, <2>2 DEF m
<1>4. \A k \in 1..Len(u) : \/ k \in 1..Len(s) /\ u[k] = s[k]
                           \/ k - Len(s) \in 1..Len(t) /\ u[k] = t[k - Len(s)]
  BY <1>1
<1>5. ToSet(u) = ToSet(s) \cup ToSet(t)
  <2>1. ToSet(u) \subseteq ToSet(s) \cup ToSet(t)
    BY <1>1, <1>4 DEF ToSet
  <2>2. ToSet(s) \subseteq ToSet(u)
    BY <1>1, <1>2 DEF ToSet
  <2>3. ToSet(t) \subseteq ToSet(u)
    <3>1. ASSUME NEW k \in DOMAIN t PROVE t[k] \in ToSet(u)
      <4>1. k + Len(s) \in DOMAIN u /\ u[k + Len(s)] = t[k]
        BY <1>1, <1>3
      <4> QED BY <4>1 DEF ToSet
    <3> QED BY <3>1 DEF ToSet
  <2> QED BY <2>1, <2>2, <2>3
<1>6. ASSUME IsInjective(s), IsInjective(t), ToSet(s) \cap ToSet(t) = {}
      PROVE  IsInjective(u)
  <2> SUFFICES ASSUME NEW k \in 1..Len(u), NEW m \in 1..Len(u), u[k] = u[m]
               PROVE  k = m
    BY <1>1 DEF IsInjective
  <2>1. \A x \in 1..Len(s), y \in 1..Len(t) : s[x] # t[y]
    BY <1>1, <1>6 DEF ToSet
  <2>2. \A x, y \in 1..Len(s) : s[x] = s[y] => x = y
    BY <1>1, <1>6 DEF IsInjective
  <2>3. \A x, y \in 1..Len(t) : t[x] = t[y] => x = y
    BY <1>1, <1>6 DEF IsInjective
  <2>4. CASE k \in 1..Len(s) /\ u[k] = s[k]
    BY <1>4, <2>1, <2>2, <2>4
  <2>5. CASE k - Len(s) \in 1..Len(t) /\ u[k] = t[k - Len(s)]
    <3>1. m - Len(s) \in 1..Len(t) /\ u[m] = t[m - Len(s)]
      BY <1>4, <2>1, <2>5
    <3>2. k - Len(s) = m - Len(s)
      BY <2>3, <2>5, <3>1
    <3> QED BY <1>1, <3>2
  <2> QED BY <1>4, <2>4, <2>5
<1> QED BY <1>1, <1>5, <1>6 DEF u

-----------------------------------------------------------------------------
(* FlattenSeq is the last value of a function that adds one sequence at a  *)
(* time.                                                                   *)
Flattens(g, s) ==
  g = [i \in 1..Len(s) |-> IF i = 1 THEN s[i] ELSE g[i - 1] \o s[i]]

(* There is such a function.                                               *)
LEMMA FlattenExists ==
  ASSUME NEW S, NEW s \in Seq(Seq(S))
  PROVE  \E g : Flattens(g, s)
<1> DEFINE Adding(n, g) ==
             g = [i \in 1..n |-> IF i = 1 THEN s[i] ELSE g[i - 1] \o s[i]]
           H == {n \in Nat : \E g : Adding(n, g)}
<1>1. 0 \in H
  <2>1. Adding(0, [i \in 1..0 |-> s[i]])
    OBVIOUS
  <2> QED BY <2>1
<1>2. ASSUME NEW n \in Nat, n \in H PROVE n + 1 \in H
  <2>1. PICK g : Adding(n, g)
    BY <1>2
  <2> DEFINE h == [i \in 1..(n + 1) |-> IF i = 1 THEN s[i] ELSE g[i - 1] \o s[i]]
  <2>2. \A i \in 1..n : g[i] = IF i = 1 THEN s[i] ELSE g[i - 1] \o s[i]
    BY <2>1
  <2>3. \A i \in 1..n : i \in 1..(n + 1) /\ h[i] = g[i]
    BY <2>2
  <2>4. \A i \in 1..(n + 1) : i # 1 => i - 1 \in 1..n
    OBVIOUS
  <2>5. Adding(n + 1, h)
    BY <2>3, <2>4
  <2> HIDE DEF Adding, h
  <2> QED BY <2>5
<1> HIDE DEF H
<1>3. Nat \subseteq H
  BY <1>1, <1>2, NaturalInduction
<1>4. Len(s) \in H
  <2>1. Len(s) \in Nat
    OBVIOUS
  <2> QED BY <1>3, <2>1
<1> QED BY <1>4 DEF H, Flattens

(* What it does.                                                           *)
LEMMA FlattenSteps ==
  ASSUME NEW S, NEW s \in Seq(Seq(S)), Len(s) # 0
  PROVE  \E g : /\ g[1] = s[1] /\ g[Len(s)] = FlattenSeq(s)
                /\ \A i \in 1..(Len(s) - 1) : g[i + 1] = g[i] \o s[i + 1]
<1> DEFINE g == CHOOSE g : Flattens(g, s)
<1>1. Flattens(g, s)
  BY FlattenExists
<1>2. FlattenSeq(s) = g[Len(s)]
  BY Zenon DEF FlattenSeq, Flattens
<1> HIDE DEF g
<1>3. \A i \in 1..Len(s) : g[i] = IF i = 1 THEN s[i] ELSE g[i - 1] \o s[i]
  BY <1>1 DEF Flattens
<1>4. /\ 1 \in 1..Len(s)
      /\ \A i \in 1..(Len(s) - 1) : i + 1 \in 1..Len(s) /\ i + 1 # 1 /\ i + 1 - 1 = i
  OBVIOUS
<1>5. ASSUME NEW i \in 1..(Len(s) - 1) PROVE g[i + 1] = g[i] \o s[i + 1]
  <2> DEFINE k == i + 1
  <2>1. k \in 1..Len(s) /\ k # 1 /\ k - 1 = i
    BY <1>4
  <2> HIDE DEF k
  <2>2. g[k] = g[k - 1] \o s[k]
    BY <1>3, <2>1
  <2> QED BY <2>1, <2>2 DEF k
<1> QED BY <1>2, <1>3, <1>4, <1>5

(* Sequences one after another are a sequence.                             *)
LEMMA FlattenType ==
  ASSUME NEW S, NEW s \in Seq(Seq(S))
  PROVE  FlattenSeq(s) \in Seq(S)
<1>1. CASE Len(s) = 0
  BY <1>1, s = <<>> DEF FlattenSeq
<1>2. CASE Len(s) # 0
  <2>1. PICK g : /\ g[1] = s[1] /\ g[Len(s)] = FlattenSeq(s)
                 /\ \A i \in 1..(Len(s) - 1) : g[i + 1] = g[i] \o s[i + 1]
    BY <1>2, FlattenSteps
  <2> DEFINE H == {n \in Nat : n \in 1..Len(s) => g[n] \in Seq(S)}
  <2>2. ASSUME NEW n \in Nat, n \in H PROVE n + 1 \in H
    <3> SUFFICES ASSUME n + 1 \in 1..Len(s), n # 0 PROVE g[n + 1] \in Seq(S)
      BY <2>1
    <3>1. n \in 1..(Len(s) - 1) /\ g[n] \in Seq(S) /\ s[n + 1] \in Seq(S)
      BY <2>2
    <3>2. g[n + 1] = g[n] \o s[n + 1]
      BY <2>1, <3>1
    <3> QED BY <3>1, <3>2
  <2>3. 0 \in H
    OBVIOUS
  <2> HIDE DEF H
  <2>4. Nat \subseteq H
    BY <2>2, <2>3, NaturalInduction
  <2> QED BY <1>2, <2>1, <2>4 DEF H
<1> QED BY <1>1, <1>2

(* One more comes at the end.                                              *)
LEMMA FlattenAppend ==
  ASSUME NEW S, NEW s \in Seq(Seq(S)), NEW t \in Seq(S)
  PROVE  FlattenSeq(Append(s, t)) = FlattenSeq(s) \o t
<1> DEFINE u == Append(s, t)
<1>1. u \in Seq(Seq(S)) /\ Len(u) = Len(s) + 1 /\ u[Len(u)] = t
      /\ \A i \in 1..Len(s) : u[i] = s[i]
  OBVIOUS
<1>2. PICK h : /\ h[1] = u[1] /\ h[Len(u)] = FlattenSeq(u)
               /\ \A i \in 1..(Len(u) - 1) : h[i + 1] = h[i] \o u[i + 1]
  <2> HIDE DEF u
  <2>1. Len(u) # 0
    BY <1>1
  <2> QED BY <1>1, <2>1, FlattenSteps
<1>3. CASE Len(s) = 0
  <2>1. s = <<>> /\ FlattenSeq(s) = <<>>
    BY <1>3 DEF FlattenSeq
  <2>2. FlattenSeq(u) = t
    BY <1>1, <1>2, <1>3
  <2> QED BY <2>1, <2>2
<1>4. CASE Len(s) # 0
  <2>1. PICK g : /\ g[1] = s[1] /\ g[Len(s)] = FlattenSeq(s)
                 /\ \A i \in 1..(Len(s) - 1) : g[i + 1] = g[i] \o s[i + 1]
    BY <1>4, FlattenSteps
  <2> DEFINE H == {n \in Nat : n \in 1..Len(s) => g[n] = h[n]}
  <2> HIDE DEF u
  <2>2. ASSUME NEW n \in Nat, n \in H PROVE n + 1 \in H
    <3> SUFFICES ASSUME n + 1 \in 1..Len(s), n # 0 PROVE g[n + 1] = h[n + 1]
      BY <1>1, <1>2, <2>1
    <3>1. /\ n \in 1..(Len(s) - 1) /\ n \in 1..(Len(u) - 1) /\ g[n] = h[n]
          /\ u[n + 1] = s[n + 1]
      BY <1>1, <2>2
    <3>2. g[n + 1] = g[n] \o s[n + 1] /\ h[n + 1] = h[n] \o u[n + 1]
      BY <1>2, <2>1, <3>1
    <3> QED BY <3>1, <3>2
  <2>3. 0 \in H
    OBVIOUS
  <2> HIDE DEF H
  <2>4. Nat \subseteq H
    BY <2>2, <2>3, NaturalInduction
  <2>5. g[Len(s)] = h[Len(s)]
    BY <1>4, <2>4 DEF H
  <2>6. h[Len(s) + 1] = h[Len(s)] \o t
    <3>1. Len(s) \in 1..(Len(u) - 1) /\ u[Len(s) + 1] = t
      BY <1>1, <1>4
    <3> QED BY <1>2, <3>1
  <2> QED BY <1>1, <1>2, <2>1, <2>5, <2>6 DEF u
<1> QED BY <1>3, <1>4

(* Its elements are those of all the sequences, and when no element is     *)
(* twice in one of them or in two of them, none is twice in the whole.     *)
LEMMA FlattenElements ==
  ASSUME NEW S, NEW s \in Seq(Seq(S))
  PROVE  /\ \A x : x \in ToSet(FlattenSeq(s)) <=> \E i \in 1..Len(s) : x \in ToSet(s[i])
         /\ /\ \A i \in 1..Len(s) : IsInjective(s[i])
            /\ \A i, j \in 1..Len(s) : i # j => ToSet(s[i]) \cap ToSet(s[j]) = {}
            => IsInjective(FlattenSeq(s))
<1> DEFINE Apart == /\ \A i \in 1..Len(s) : IsInjective(s[i])
                    /\ \A i, j \in 1..Len(s) : i # j => ToSet(s[i]) \cap ToSet(s[j]) = {}
<1>1. CASE Len(s) = 0
  BY <1>1, s = <<>> DEF FlattenSeq, ToSet, IsInjective
<1>2. CASE Len(s) # 0
  <2>1. PICK g : /\ g[1] = s[1] /\ g[Len(s)] = FlattenSeq(s)
                 /\ \A i \in 1..(Len(s) - 1) : g[i + 1] = g[i] \o s[i + 1]
    BY <1>2, FlattenSteps
  <2> DEFINE Good(n) ==
               /\ g[n] \in Seq(S)
               /\ \A x : x \in ToSet(g[n]) <=> \E i \in 1..n : x \in ToSet(s[i])
               /\ Apart => IsInjective(g[n])
             H == {n \in Nat : n \in 1..Len(s) => Good(n)}
  <2> HIDE DEF Good
  <2>a. \A n : n \in H <=> n \in Nat /\ (n \in 1..Len(s) => Good(n))
    OBVIOUS
  <2> HIDE DEF H
  <2>2. ASSUME NEW n \in Nat, n \in H PROVE n + 1 \in H
    <3> SUFFICES ASSUME n + 1 \in 1..Len(s) PROVE Good(n + 1)
      BY <2>a
    <3>1. CASE n = 0
      <4>1. \A i : i \in 1..1 <=> i = 1
        OBVIOUS
      <4>2. g[1] = s[1] /\ 1 \in 1..Len(s) /\ s[1] \in Seq(S)
        BY <2>1, <1>2
      <4>3. Good(1)
        BY <4>1, <4>2 DEF Good
      <4> QED BY <3>1, <4>3
    <3>2. CASE n # 0
      <4> DEFINE a == g[n]  b == s[n + 1]
      <4>1. n \in 1..Len(s) /\ n \in 1..(Len(s) - 1)
        BY <3>2
      <4>a. Good(n)
        BY <2>a, <2>2, <4>1
      <4>b. b \in Seq(S)
        OBVIOUS
      <4>c. g[n + 1] = a \o b
        BY <2>1, <4>1
      <4>2. a \in Seq(S) /\ b \in Seq(S) /\ g[n + 1] = a \o b
        BY <4>a, <4>b, <4>c DEF Good
      <4>3. \A i : i \in 1..(n + 1) <=> i \in 1..n \/ i = n + 1
        OBVIOUS
      <4>4. Apart => ToSet(a) \cap ToSet(b) = {} /\ IsInjective(a) /\ IsInjective(b)
        <5>1. \A i \in 1..n : i \in 1..Len(s) /\ i # n + 1
          BY <4>1
        <5> QED BY <4>a, <5>1 DEF Good
      <4> HIDE DEF a, b, Apart
      <4>5. /\ a \o b \in Seq(S) /\ ToSet(a \o b) = ToSet(a) \cup ToSet(b)
            /\ Apart => IsInjective(a \o b)
        BY <4>2, <4>4, ConcatElements
      <4>6. \A x : x \in ToSet(a) <=> \E i \in 1..n : x \in ToSet(s[i])
        BY <4>a DEF a, Good
      <4>7. \A x : x \in ToSet(g[n + 1]) <=> \E i \in 1..(n + 1) : x \in ToSet(s[i])
        BY <4>2, <4>3, <4>5, <4>6 DEF b
      <4> QED BY <4>2, <4>5, <4>7 DEF Good
    <3> QED BY <3>1, <3>2
  <2>3. 0 \in H
    BY <2>a
  <2>4. Nat \subseteq H
    BY <2>2, <2>3, NaturalInduction
  <2>5. Good(Len(s))
    BY <1>2, <2>4, <2>a
  <2> QED BY <2>1, <2>5 DEF Good
<1> QED BY <1>1, <1>2

===============================================================================
