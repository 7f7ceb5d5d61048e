------------------------------ MODULE Counting ------------------------------
(***************************************************************************)
(* What the proofs of several components need of numbers: induction over   *)
(* the set of the numbers that are as they should be, least and greatest   *)
(* numbers, sums over finite sets as MapThenSumSet computes them, places   *)
(* in an order, filters and totals of lists, and lists of moments.         *)
(***************************************************************************)
EXTENDS Lists, SequencesExt, FiniteSetTheorems, WellFoundedInduction, TLAPS

(* Induction up to a number.                                               *)

\* A set of numbers has a least one.
LEMMA NatMin ==
    ASSUME NEW S \in SUBSET Nat, S # {}
    PROVE  \E m \in S : \A k \in S : ~(k < m)
<1>1. PICK m \in S : \A k \in S : <<k, m>> \notin OpToRel(<, Nat)
  BY NatLessThanWellFounded, WFMin, Zenon
<1>2. \A k \in S : k < m => <<k, m>> \in OpToRel(<, Nat)
  BY DEF OpToRel
<1> QED BY <1>1, <1>2, Zenon

\* Induction up to a number, over the set of the numbers that are as they should be.
LEMMA UpTo ==
    ASSUME NEW N \in Nat, NEW P, 0 \in P, \A n \in 0..(N-1) : n \in P => n + 1 \in P
    PROVE  \A n \in 0..N : n \in P
<1> SUFFICES ASSUME NEW n \in 0..N, n \notin P PROVE FALSE
  OBVIOUS
<1>1. PICK m \in (0..N) \ P : \A k \in (0..N) \ P : ~(k < m)
  <2>1. (0..N) \ P \in SUBSET Nat /\ (0..N) \ P # {}
    OBVIOUS
  <2> QED BY <2>1, NatMin
<1>2. m - 1 \in 0..(N-1) /\ m - 1 \notin (0..N) \ P
  BY <1>1
<1> QED BY <1>1, <1>2

\* A recursion over 1..N of values of T is a function.
Steps(step, N, T) == step \in [1..N -> [T -> T]]
Iterates(f, N, T, t, step) == f \in [0..N -> T] /\ f[0] = t /\ \A i \in 1..N : f[i] = step[i][f[i-1]]

LEMMA Recursion ==
    ASSUME NEW N \in Nat, NEW T, NEW t \in T, NEW step, Steps(step, N, T)
    PROVE  \E f : Iterates(f, N, T, t, step)
<1> DEFINE P == {n \in 0..N : \E g : Iterates(g, n, T, t, step)}
<1>1. 0 \in P
  <2>1. Iterates([i \in 0..0 |-> t], 0, T, t, step)
    BY DEF Iterates
  <2> QED BY <2>1
<1>2. ASSUME NEW n \in 0..(N-1), n \in P PROVE n + 1 \in P
  <2>1. PICK g : Iterates(g, n, T, t, step)
    BY <1>2
  <2> DEFINE h == [i \in 0..(n+1) |-> IF i = n + 1 THEN step[n+1][g[n]] ELSE g[i]]
  <2>2. Iterates(h, n + 1, T, t, step)
    BY <2>1 DEF Iterates, Steps
  <2> HIDE DEF h
  <2> QED BY <2>2
<1>3. \A n \in 0..N : n \in P
  <2> HIDE DEF P
  <2> QED BY <1>1, <1>2, UpTo
<1> QED BY <1>3

-----------------------------------------------------------------------------
(* Greatest and least.                                                      *)

\* Min of a set of numbers is one of them, and none is smaller.
LEMMA MinOf == ASSUME NEW S \in SUBSET Nat, S # {} PROVE Min(S) \in S /\ \A x \in S : Min(S) <= x
<1>1. PICK m \in S : \A x \in S : m <= x
  <2>1. PICK m \in S : \A k \in S : ~(k < m)
    BY NatMin
  <2> QED BY <2>1
<1> QED BY <1>1 DEF Min

\* Max of a finite set of numbers is one of them, and none is greater: otherwise there were
\* a least size at which it is not so.
LEMMA MaxOf ==
    ASSUME NEW S \in SUBSET Nat, IsFiniteSet(S), S # {}
    PROVE  Max(S) \in S /\ \A x \in S : x <= Max(S)
<1> DEFINE Has(T) == \E m \in T : \A x \in T : m >= x
           Bad == {n \in Nat : \E T \in SUBSET Nat : IsFiniteSet(T) /\ T # {} /\ Cardinality(T) = n /\ ~Has(T)}
<1>1. SUFFICES Has(S)
  <2>1. PICK m \in S : \A x \in S : m >= x
    BY <1>1
  <2>2. Max(S) \in S /\ \A x \in S : Max(S) >= x
    BY <2>1 DEF Max
  <2> QED BY <2>2
<1>2. Bad = {}
  <2> SUFFICES ASSUME Bad # {} PROVE FALSE
    OBVIOUS
  <2>1. PICK n \in Bad : \A k \in Bad : ~(k < n)
    <3> Bad \in SUBSET Nat
      OBVIOUS
    <3> HIDE DEF Bad
    <3> QED BY NatMin
  <2>2. PICK T \in SUBSET Nat : IsFiniteSet(T) /\ T # {} /\ Cardinality(T) = n /\ ~Has(T)
    OBVIOUS
  <2>3. PICK y \in T : TRUE
    BY <2>2
  <2>4. PICK U \in SUBSET Nat : U = T \ {y}
    OBVIOUS
  <2>5. IsFiniteSet(U) /\ Cardinality(U) = n - 1 /\ Cardinality(U) \in Nat /\ n \in Nat
    BY <2>2, <2>3, <2>4, FS_RemoveElement, FS_CardinalityType
  <2>6. U = {} \/ Has(U)
    BY <2>1, <2>5
  <2>7. CASE U = {}
    <3>1. T = {y}
      BY <2>3, <2>4, <2>7
    <3> QED BY <2>2, <3>1
  <2>8. CASE Has(U)
    <3>1. PICK m \in U : \A x \in U : m >= x
      BY <2>8
    <3>2. CASE m >= y
      BY <2>2, <2>4, <3>1, <3>2
    <3>3. CASE ~(m >= y)
      <4>1. \A x \in T : y >= x
        BY <2>3, <2>4, <3>1, <3>3
      <4> QED BY <2>2, <2>3, <4>1
    <3> QED BY <3>2, <3>3
  <2> QED BY <2>6, <2>7, <2>8
<1>3. IsFiniteSet(S) /\ Cardinality(S) \in Nat
  BY FS_CardinalityType
<1> QED BY <1>2, <1>3

-----------------------------------------------------------------------------
(* Sums over finite sets.                                                  *)

Some(s) == CHOOSE x \in s : TRUE

\* The sum of the weights, as MapThenSumSet computes it.
Sum(w, S) == LET iter[s \in SUBSET S] == IF s = {} THEN 0 ELSE w[Some(s)] + iter[s \ {Some(s)}] IN iter[S]

\* f adds up the weights of the sets of D.
SumsUp(f, w, D) ==
  /\ f \in [D -> Nat]
  /\ \A s \in D : f[s] = IF s = {} THEN 0 ELSE w[Some(s)] + f[s \ {Some(s)}]
UpToSize(S, n) == {s \in SUBSET S : Cardinality(s) <= n}

\* Without one of its elements a part is one element smaller.
LEMMA SmallSets ==
  ASSUME NEW S, IsFiniteSet(S), NEW n \in Nat, NEW s \in UpToSize(S, n)
  PROVE  /\ IsFiniteSet(s) /\ Cardinality(s) \in Nat /\ Cardinality(s) <= n
         /\ \A x \in s : s \ {x} \in UpToSize(S, n) /\ (n > 0 => s \ {x} \in UpToSize(S, n - 1))
         /\ s # {} => Some(s) \in s /\ n > 0
<1>1. IsFiniteSet(s) /\ Cardinality(s) \in Nat /\ Cardinality(s) <= n /\ s \subseteq S
  BY FS_Subset, FS_CardinalityType DEF UpToSize
<1>2. ASSUME NEW x \in s
      PROVE  s \ {x} \in UpToSize(S, n) /\ (n > 0 => s \ {x} \in UpToSize(S, n - 1))
  <2>1. Cardinality(s \ {x}) = Cardinality(s) - 1
    BY <1>1, FS_RemoveElement
  <2> QED BY <1>1, <2>1 DEF UpToSize
<1>3. s # {} => Some(s) \in s /\ n > 0
  <2>1. s # {} => Cardinality(s) # 0
    BY <1>1, FS_EmptySet
  <2> QED BY <1>1, <2>1 DEF Some
<1> QED BY <1>1, <1>2, <1>3

\* The parts of at most as many elements as the set has are all of them.
LEMMA SmallSetsGrow ==
  ASSUME NEW S, IsFiniteSet(S)
  PROVE  /\ Cardinality(S) \in Nat /\ UpToSize(S, Cardinality(S)) = SUBSET S
         /\ \A n \in Nat : UpToSize(S, n) \subseteq UpToSize(S, n + 1) /\ {} \in UpToSize(S, n)
         /\ UpToSize(S, 0) = {{}}
<1>1. Cardinality(S) \in Nat /\ \A s \in SUBSET S : IsFiniteSet(s) /\ Cardinality(s) \in Nat /\ Cardinality(s) <= Cardinality(S)
  BY FS_Subset, FS_CardinalityType
<1>2. Cardinality({}) = 0 /\ \A s \in SUBSET S : Cardinality(s) = 0 => s = {}
  BY <1>1, FS_EmptySet
<1> QED BY <1>1, <1>2 DEF UpToSize

\* The function whose value at S is that sum.
SumsOf(w, S) ==
  CHOOSE g : g = [s \in SUBSET S |-> IF s = {} THEN 0 ELSE w[Some(s)] + g[s \ {Some(s)}]]

\* The recursion that the fold computes has a value of Nat for every part.
LEMMA SumsArith ==
  ASSUME NEW S, IsFiniteSet(S), NEW w, \A x \in S : w[x] \in Nat
  PROVE  SumsUp(SumsOf(w, S), w, SUBSET S) /\ Sum(w, S) = SumsOf(w, S)[S]
<1> DEFINE P == {n \in 0..Cardinality(S) : \E g : SumsUp(g, w, UpToSize(S, n))}
<1>1. Cardinality(S) \in Nat
  BY SmallSetsGrow
<1>2. 0 \in P
  <2>1. SumsUp([s \in UpToSize(S, 0) |-> 0], w, UpToSize(S, 0))
    BY SmallSetsGrow DEF SumsUp
  <2> QED BY <1>1, <2>1
<1>3. ASSUME NEW n \in 0..(Cardinality(S) - 1), n \in P PROVE n + 1 \in P
  <2>1. PICK g : SumsUp(g, w, UpToSize(S, n))
    BY <1>3
  <2>2. n \in Nat /\ n + 1 \in Nat /\ (n + 1) - 1 = n /\ n + 1 > 0 /\ n + 1 \in 0..Cardinality(S)
    BY <1>1
  <2> DEFINE h == [s \in UpToSize(S, n + 1) |-> IF s = {} THEN 0 ELSE w[Some(s)] + g[s \ {Some(s)}]]
  <2>3. ASSUME NEW s \in UpToSize(S, n + 1), s # {}
        PROVE  Some(s) \in S /\ s \ {Some(s)} \in UpToSize(S, n) /\ s \ {Some(s)} \in UpToSize(S, n + 1)
    BY <2>2, <2>3, SmallSets DEF UpToSize
  <2>4. \A s \in UpToSize(S, n) : h[s] = g[s]
    BY <2>1, <2>2, SmallSetsGrow DEF SumsUp
  <2>5. h \in [UpToSize(S, n + 1) -> Nat]
    BY <2>1, <2>3 DEF SumsUp
  <2>6. SumsUp(h, w, UpToSize(S, n + 1))
    BY <2>3, <2>4, <2>5 DEF SumsUp
  <2> HIDE DEF h
  <2> QED BY <2>2, <2>6
<1>4. \A n \in 0..Cardinality(S) : n \in P
  <2> HIDE DEF P
  <2> QED BY <1>1, <1>2, <1>3, UpTo
<1>5. PICK g : SumsUp(g, w, SUBSET S)
  <2>1. \E g : SumsUp(g, w, UpToSize(S, Cardinality(S)))
    BY <1>1, <1>4
  <2>2. UpToSize(S, Cardinality(S)) = SUBSET S
    BY SmallSetsGrow
  <2> QED BY <2>1, <2>2
<1>6. g = [s \in SUBSET S |-> IF s = {} THEN 0 ELSE w[Some(s)] + g[s \ {Some(s)}]]
  BY <1>5 DEF SumsUp
<1>7. SumsOf(w, S) = [s \in SUBSET S |-> IF s = {} THEN 0 ELSE w[Some(s)] + SumsOf(w, S)[s \ {Some(s)}]] /\ Sum(w, S) = SumsOf(w, S)[S]
  BY <1>6 DEF Sum, SumsOf
<1> DEFINE f == SumsOf(w, S)
<1>8. \A s \in SUBSET S : f[s] = IF s = {} THEN 0 ELSE w[Some(s)] + f[s \ {Some(s)}]
  BY <1>7
<1> HIDE DEF f
<1> DEFINE Q == {n \in 0..Cardinality(S) : \A s \in UpToSize(S, n) : f[s] \in Nat}
<1>9. 0 \in Q
  <2>1. ASSUME NEW s \in UpToSize(S, 0) PROVE f[s] \in Nat
    <3>1. s = {} /\ s \in SUBSET S
      BY SmallSetsGrow
    <3>2. f[s] = 0
      BY <1>8, <3>1, Zenon
    <3> QED BY <3>2
  <2>2. 0 \in 0..Cardinality(S)
    BY <1>1
  <2> QED BY <2>1, <2>2, Zenon
<1>10. ASSUME NEW n \in 0..(Cardinality(S) - 1), n \in Q PROVE n + 1 \in Q
  <2>1. n + 1 \in Nat /\ (n + 1) - 1 = n /\ n + 1 > 0 /\ n + 1 \in 0..Cardinality(S)
    BY <1>1
  <2>2. ASSUME NEW s \in UpToSize(S, n + 1) PROVE f[s] \in Nat
    <3>1. s \in SUBSET S
      BY DEF UpToSize
    <3>2. CASE s = {}
      <4>1. f[s] = 0
        BY <1>8, <3>1, <3>2, Zenon
      <4> QED BY <4>1
    <3>3. CASE s # {}
      <4>1. Some(s) \in S /\ s \ {Some(s)} \in UpToSize(S, n)
        BY <2>1, <3>1, <3>3, SmallSets
      <4>2. f[s \ {Some(s)}] \in Nat /\ w[Some(s)] \in Nat
        BY <1>10, <4>1
      <4>3. f[s] = w[Some(s)] + f[s \ {Some(s)}]
        BY <1>8, <3>1, <3>3, Zenon
      <4> QED BY <4>2, <4>3
    <3> QED BY <3>2, <3>3
  <2> QED BY <2>1, <2>2
<1>11. \A n \in 0..Cardinality(S) : n \in Q
  <2> HIDE DEF Q
  <2> QED BY <1>1, <1>9, <1>10, UpTo
<1>12. \A s \in SUBSET S : f[s] \in Nat
  BY <1>1, <1>11, SmallSetsGrow
<1>13. SumsUp(SumsOf(w, S), w, SUBSET S)
  BY <1>7, <1>8, <1>12 DEF SumsUp, f
<1>14. Sum(w, S) = SumsOf(w, S)[S]
  BY <1>7
<1> QED BY <1>13, <1>14

\* Two tables of sums over weights that agree on S, which is within T.
SumsAlike(f, w, S, g, v, T) ==
  SumsUp(f, w, SUBSET S) /\ SumsUp(g, v, SUBSET T) /\ S \subseteq T /\ \A x \in S : w[x] = v[x]

\* Two such functions agree on the sets on which their weights do.
LEMMA SumsAgree ==
  ASSUME NEW S, IsFiniteSet(S), NEW T, NEW f, NEW g, NEW w, NEW v, SumsAlike(f, w, S, g, v, T)
  PROVE  f[S] = g[S]
<1> DEFINE P == {n \in 0..Cardinality(S) : \A s \in UpToSize(S, n) : f[s] = g[s]}
<1>1. Cardinality(S) \in Nat
  BY SmallSetsGrow
<1>2. \A s \in SUBSET S : /\ f[s] = IF s = {} THEN 0 ELSE w[Some(s)] + f[s \ {Some(s)}]
                          /\ g[s] = IF s = {} THEN 0 ELSE v[Some(s)] + g[s \ {Some(s)}]
  BY DEF SumsUp, SumsAlike
<1>3. 0 \in P
  <2>1. \A s \in UpToSize(S, 0) : f[s] = g[s]
    <3> SUFFICES f[{}] = g[{}]
      BY SmallSetsGrow
    <3>1. f[{}] = 0 /\ g[{}] = 0
      BY <1>2, Zenon
    <3> QED BY <3>1
  <2> QED BY <1>1, <2>1
<1>4. ASSUME NEW n \in 0..(Cardinality(S) - 1), n \in P PROVE n + 1 \in P
  <2>1. n + 1 \in Nat /\ (n + 1) - 1 = n /\ n + 1 > 0 /\ n + 1 \in 0..Cardinality(S)
    BY <1>1
  <2>2. ASSUME NEW s \in UpToSize(S, n + 1) PROVE f[s] = g[s]
    <3>1. s \in SUBSET S
      BY DEF UpToSize
    <3>2. CASE s = {}
      <4>1. f[s] = 0 /\ g[s] = 0
        BY <1>2, <3>1, <3>2, Zenon
      <4> QED BY <4>1
    <3>3. CASE s # {}
      <4>1. Some(s) \in S /\ s \ {Some(s)} \in UpToSize(S, n)
        BY <2>1, <3>1, <3>3, SmallSets
      <4>2. f[s \ {Some(s)}] = g[s \ {Some(s)}] /\ w[Some(s)] = v[Some(s)]
        BY <1>4, <4>1 DEF SumsAlike
      <4>3. f[s] = w[Some(s)] + f[s \ {Some(s)}] /\ g[s] = v[Some(s)] + g[s \ {Some(s)}]
        BY <1>2, <3>1, <3>3, Zenon
      <4> QED BY <4>2, <4>3, Zenon
    <3> QED BY <3>2, <3>3
  <2> QED BY <2>1, <2>2
<1>5. \A n \in 0..Cardinality(S) : n \in P
  <2> HIDE DEF P
  <2> QED BY <1>1, <1>3, <1>4, UpTo
<1> QED BY <1>1, <1>5, SmallSetsGrow

\* The sum depends on the weights of its elements only.
LEMMA SumSame ==
  ASSUME NEW S, IsFiniteSet(S), NEW w, NEW v, \A x \in S : w[x] \in Nat, \A x \in S : v[x] = w[x]
  PROVE  Sum(v, S) = Sum(w, S)
<1>1. SumsUp(SumsOf(w, S), w, SUBSET S) /\ Sum(w, S) = SumsOf(w, S)[S]
  BY SumsArith
<1>2. SumsUp(SumsOf(v, S), v, SUBSET S) /\ Sum(v, S) = SumsOf(v, S)[S]
  BY SumsArith
<1>3. SumsAlike(SumsOf(v, S), v, S, SumsOf(w, S), w, S)
  BY <1>1, <1>2 DEF SumsAlike
<1> QED BY <1>1, <1>2, <1>3, SumsAgree, Zenon

\* The sum is a number, and any element can be taken out of it.
LEMMA SumParts ==
  ASSUME NEW S, IsFiniteSet(S), NEW w, \A x \in S : w[x] \in Nat
  PROVE  /\ Sum(w, S) \in Nat
         /\ S = {} => Sum(w, S) = 0
         /\ \A x \in S : Sum(w, S) = w[x] + Sum(w, S \ {x})
<1> DEFINE f == SumsOf(w, S)
<1>1. SumsUp(f, w, SUBSET S) /\ Sum(w, S) = f[S]
  BY SumsArith
<1>2. ASSUME NEW T \in SUBSET S PROVE Sum(w, T) = f[T]
  <2>1. IsFiniteSet(T)
    BY FS_Subset
  <2>2. SumsUp(SumsOf(w, T), w, SUBSET T) /\ Sum(w, T) = SumsOf(w, T)[T]
    BY <2>1, SumsArith
  <2>3. SumsAlike(SumsOf(w, T), w, T, f, w, S)
    BY <1>1, <2>2 DEF SumsAlike
  <2>4. SumsOf(w, T)[T] = f[T]
    BY <2>1, <2>3, SumsAgree
  <2> QED BY <2>2, <2>4
<1> HIDE DEF f
<1>3. /\ \A s \in SUBSET S : f[s] = IF s = {} THEN 0 ELSE w[Some(s)] + f[s \ {Some(s)}]
      /\ \A s \in SUBSET S : f[s] \in Nat
  BY <1>1 DEF SumsUp
<1> DEFINE P == {n \in 0..Cardinality(S) :
                  \A s \in UpToSize(S, n) : \A x \in s : f[s] = w[x] + f[s \ {x}]}
<1>4. Cardinality(S) \in Nat
  BY SmallSetsGrow
<1>5. 0 \in P
  BY <1>4, SmallSetsGrow
<1>6. ASSUME NEW n \in 0..(Cardinality(S) - 1), n \in P PROVE n + 1 \in P
  <2>1. n + 1 \in Nat /\ (n + 1) - 1 = n /\ n + 1 > 0 /\ n + 1 \in 0..Cardinality(S)
    BY <1>4
  <2>2. ASSUME NEW s \in UpToSize(S, n + 1), NEW x \in s PROVE f[s] = w[x] + f[s \ {x}]
    <3>1. s \in SUBSET S /\ s # {}
      BY DEF UpToSize
    <3> DEFINE c == Some(s)
    <3>2. c \in s /\ s \ {c} \in UpToSize(S, n) /\ s \ {x} \in UpToSize(S, n)
      BY <2>1, <3>1, SmallSets
    <3>3. f[s] = w[c] + f[s \ {c}]
      BY <1>3, <3>1, Zenon
    <3> HIDE DEF c
    <3>4. CASE c = x
      BY <3>3, <3>4
    <3>5. CASE c # x
      <4>1. x \in s \ {c} /\ c \in s \ {x} /\ (s \ {c}) \ {x} = (s \ {x}) \ {c}
        BY <3>2, <3>5
      <4>2. f[s \ {c}] = w[x] + f[(s \ {c}) \ {x}] /\ f[s \ {x}] = w[c] + f[(s \ {x}) \ {c}]
        BY <1>6, <3>2, <4>1
      <4>3. w[x] \in Nat /\ w[c] \in Nat /\ f[(s \ {x}) \ {c}] \in Nat
        BY <1>3, <3>1, <3>2
      <4>4. PICK rest : rest = f[(s \ {x}) \ {c}]
        OBVIOUS
      <4>5. f[s \ {c}] = w[x] + rest /\ f[s \ {x}] = w[c] + rest
        BY <4>1, <4>2, <4>4, Zenon
      <4> QED BY <3>3, <4>3, <4>4, <4>5
    <3> QED BY <3>4, <3>5
  <2> QED BY <2>1, <2>2
<1>7. \A n \in 0..Cardinality(S) : n \in P
  <2> HIDE DEF P
  <2> QED BY <1>4, <1>5, <1>6, UpTo
<1>8. \A s \in SUBSET S : \A x \in s : f[s] = w[x] + f[s \ {x}]
  <2>1. \A s \in UpToSize(S, Cardinality(S)) : \A x \in s : f[s] = w[x] + f[s \ {x}]
    <3>1. Cardinality(S) \in P
      <4> HIDE DEF P
      <4> QED BY <1>4, <1>7
    <3> QED BY <3>1, Zenon
  <2>2. UpToSize(S, Cardinality(S)) = SUBSET S
    BY SmallSetsGrow
  <2> QED BY <2>1, <2>2, Zenon
<1>9. S = {} => f[S] = 0
  BY <1>3, Zenon
<1>10. \A x \in S : Sum(w, S) = w[x] + Sum(w, S \ {x})
  BY <1>1, <1>2, <1>8
<1> QED BY <1>1, <1>3, <1>9, <1>10

\* Taking some elements out takes no more out than their number times the largest weight.
LEMMA SumBound ==
  ASSUME NEW S, IsFiniteSet(S), NEW w, \A x \in S : w[x] \in Nat,
         NEW H \in SUBSET S, NEW B \in Nat, \A x \in H : w[x] <= B
  PROVE  Sum(w, S) <= Sum(w, S \ H) + Cardinality(H) * B
<1> DEFINE P == {n \in 0..Cardinality(H) :
                  \A h \in UpToSize(H, n) : Sum(w, S) <= Sum(w, S \ h) + Cardinality(h) * B}
<1>1. IsFiniteSet(H) /\ Cardinality(H) \in Nat
  BY FS_Subset, FS_CardinalityType
<1>2. \A h \in SUBSET H : Sum(w, S \ h) \in Nat /\ IsFiniteSet(S \ h) /\ IsFiniteSet(h) /\ Cardinality(h) \in Nat
  BY <1>1, SumParts, FS_Subset, FS_CardinalityType
<1>0. Sum(w, S) <= Sum(w, S \ {}) + Cardinality({}) * B
  <2>1. S \ {} = S /\ Cardinality({}) = 0 /\ Sum(w, S) \in Nat
    BY FS_EmptySet, SumParts
  <2>2. Cardinality({}) * B = 0
    BY <2>1
  <2> QED BY <2>1, <2>2
<1>3. 0 \in P
  <2>1. \A h \in UpToSize(H, 0) : h = {}
    BY <1>1, SmallSetsGrow
  <2>2. \A h \in UpToSize(H, 0) : Sum(w, S) <= Sum(w, S \ h) + Cardinality(h) * B
    BY <1>0, <2>1, Zenon
  <2> QED BY <1>1, <2>2
<1>4. ASSUME NEW n \in 0..(Cardinality(H) - 1), n \in P PROVE n + 1 \in P
  <2>1. n + 1 \in Nat /\ (n + 1) - 1 = n /\ n + 1 > 0 /\ n + 1 \in 0..Cardinality(H)
    BY <1>1
  <2>2. ASSUME NEW h \in UpToSize(H, n + 1) PROVE Sum(w, S) <= Sum(w, S \ h) + Cardinality(h) * B
    <3>1. h \in SUBSET H
      BY DEF UpToSize
    <3>2. CASE h = {}
      BY <1>0, <3>2, Zenon
    <3>3. CASE h # {}
      <4> DEFINE c == Some(h)
      <4>1. c \in h /\ h \ {c} \in UpToSize(H, n)
        BY <1>1, <2>1, <3>3, SmallSets
      <4> HIDE DEF c
      <4>2. Sum(w, S) <= Sum(w, S \ (h \ {c})) + Cardinality(h \ {c}) * B
        BY <1>4, <4>1
      <4>3. c \in S \ (h \ {c}) /\ (S \ (h \ {c})) \ {c} = S \ h
        BY <3>1, <4>1
      <4>4. Sum(w, S \ (h \ {c})) = w[c] + Sum(w, S \ h)
        <5>1. IsFiniteSet(S \ (h \ {c})) /\ \A x \in S \ (h \ {c}) : w[x] \in Nat
          BY FS_Subset
        <5>2. Sum(w, S \ (h \ {c})) = w[c] + Sum(w, (S \ (h \ {c})) \ {c})
          BY <4>3, <5>1, SumParts
        <5> QED BY <4>3, <5>2
      <4>5. w[c] \in Nat /\ w[c] <= B /\ Sum(w, S \ h) \in Nat
        BY <1>2, <3>1, <4>1
      <4>6. Cardinality(h \ {c}) = Cardinality(h) - 1 /\ Cardinality(h) \in Nat
        BY <1>2, <3>1, <4>1, FS_RemoveElement
      <4>7. Cardinality(h \ {c}) * B + B = Cardinality(h) * B
        BY <4>6
      <4>8. PICK some, all \in Int : some = Cardinality(h \ {c}) * B /\ all = Cardinality(h) * B
        BY <4>6
      <4>9. PICK a, b \in Nat : a = Sum(w, S) /\ b = Sum(w, S \ h)
        BY <4>5, SumParts
      <4> QED BY <4>2, <4>4, <4>5, <4>7, <4>8, <4>9
    <3> QED BY <3>2, <3>3
  <2> QED BY <2>1, <2>2
<1>5. \A n \in 0..Cardinality(H) : n \in P
  <2> HIDE DEF P
  <2> QED BY <1>1, <1>3, <1>4, UpTo
<1>6. Cardinality(H) \in P
  <2> HIDE DEF P
  <2> QED BY <1>1, <1>5
<1>7. H \in UpToSize(H, Cardinality(H))
  BY <1>1, SmallSetsGrow
<1> QED BY <1>6, <1>7

\* An element taken out takes its weight out.
LEMMA SumLess ==
  ASSUME NEW S, IsFiniteSet(S), NEW w, \A x \in S : w[x] \in Nat, NEW u
  PROVE  /\ IsFiniteSet(S \ {u}) /\ Sum(w, S \ {u}) \in Nat /\ Sum(w, S \ {u}) <= Sum(w, S)
         /\ u \in S => Sum(w, S) = w[u] + Sum(w, S \ {u})
<1>1. IsFiniteSet(S \ {u}) /\ \A x \in S \ {u} : w[x] \in Nat
  BY FS_Subset
<1>2. Sum(w, S \ {u}) \in Nat /\ Sum(w, S) \in Nat
  BY <1>1, SumParts
<1>3. CASE u \in S
  <2>1. Sum(w, S) = w[u] + Sum(w, S \ {u}) /\ w[u] \in Nat
    BY <1>3, SumParts
  <2> QED BY <1>1, <1>2, <2>1
<1>4. CASE u \notin S
  <2>1. S \ {u} = S
    BY <1>4
  <2> QED BY <1>1, <1>2, <1>4, <2>1
<1> QED BY <1>3, <1>4

\* A smaller weight makes the sum no larger.
LEMMA SumSmaller ==
  ASSUME NEW S, IsFiniteSet(S), NEW w, \A x \in S : w[x] \in Nat, NEW u,
         NEW v, \A x \in S \ {u} : v[x] = w[x], u \in S => v[u] \in Nat /\ v[u] <= w[u]
  PROVE  Sum(v, S) \in Nat /\ Sum(v, S) <= Sum(w, S)
<1>1. Sum(v, S \ {u}) = Sum(w, S \ {u})
  <2>1. IsFiniteSet(S \ {u}) /\ \A x \in S \ {u} : w[x] \in Nat
    BY FS_Subset
  <2> QED BY <2>1, SumSame
<1>2. \A x \in S : v[x] \in Nat
  <2>1. ASSUME NEW x \in S PROVE v[x] \in Nat
    <3>1. CASE x = u
      BY <3>1
    <3>2. CASE x # u
      BY <3>2
    <3> QED BY <3>1, <3>2
  <2> QED BY <2>1
<1>3. Sum(v, S) \in Nat /\ Sum(w, S) \in Nat /\ Sum(w, S \ {u}) \in Nat
  BY <1>2, SumParts, SumLess
<1>4. CASE u \in S
  <2>1. Sum(v, S) = v[u] + Sum(v, S \ {u}) /\ Sum(w, S) = w[u] + Sum(w, S \ {u})
    BY <1>2, <1>4, SumLess
  <2>2. v[u] \in Nat /\ w[u] \in Nat /\ v[u] <= w[u]
    BY <1>4
  <2> QED BY <1>1, <1>3, <2>1, <2>2
<1>5. CASE u \notin S
  <2>1. S \ {u} = S
    BY <1>5
  <2> QED BY <1>1, <1>3, <2>1
<1> QED BY <1>4, <1>5
\* The sum over a set is that over a part of it and that over the rest.
LEMMA SumSplit ==
  ASSUME NEW S, IsFiniteSet(S), NEW w, \A x \in S : w[x] \in Nat, NEW T \in SUBSET S
  PROVE  /\ Sum(w, S) = Sum(w, T) + Sum(w, S \ T)
         /\ Sum(w, S) \in Nat /\ Sum(w, T) \in Nat /\ Sum(w, S \ T) \in Nat
<1> DEFINE R == S \ T
           P == {n \in 0..Cardinality(T) :
                  \A s \in UpToSize(T, n) : Sum(w, s \cup R) = Sum(w, s) + Sum(w, R)}
<1>1. IsFiniteSet(T) /\ Cardinality(T) \in Nat /\ IsFiniteSet(R)
  BY FS_Subset, FS_CardinalityType
<1>2. \A s \in SUBSET T : IsFiniteSet(s) /\ IsFiniteSet(s \cup R) /\ \A x \in s \cup R : w[x] \in Nat
  BY <1>1, FS_Subset, FS_Union
<1>3. \A s \in SUBSET T : Sum(w, s) \in Nat /\ Sum(w, s \cup R) \in Nat
  BY <1>2, SumParts
<1>4. Sum(w, R) \in Nat /\ Sum(w, {}) = 0
  <2>1. {} \in SUBSET T /\ IsFiniteSet({})
    BY FS_EmptySet
  <2>2. \A x \in R : w[x] \in Nat
    OBVIOUS
  <2> HIDE DEF R
  <2> QED BY <1>1, <2>1, <2>2, SumParts
<1>5. 0 \in P
  <2>1. \A s \in UpToSize(T, 0) : s = {}
    BY <1>1, SmallSetsGrow
  <2>2. {} \cup R = R /\ Sum(w, R) = 0 + Sum(w, R)
    BY <1>4
  <2>3. \A s \in UpToSize(T, 0) : Sum(w, s \cup R) = Sum(w, s) + Sum(w, R)
    <3> SUFFICES ASSUME NEW s \in UpToSize(T, 0) PROVE Sum(w, s \cup R) = Sum(w, s) + Sum(w, R)
      OBVIOUS
    <3>1. s = {}
      BY <2>1
    <3> HIDE DEF R
    <3> QED BY <1>4, <2>2, <3>1
  <2>4. 0 \in 0..Cardinality(T)
    BY <1>1
  <2> HIDE DEF R
  <2> QED BY <2>3, <2>4
<1>6. ASSUME NEW n \in 0..(Cardinality(T) - 1), n \in P PROVE n + 1 \in P
  <2>1. n + 1 \in Nat /\ (n + 1) - 1 = n /\ n + 1 > 0 /\ n + 1 \in 0..Cardinality(T)
    BY <1>1
  <2>2. ASSUME NEW s \in UpToSize(T, n + 1) PROVE Sum(w, s \cup R) = Sum(w, s) + Sum(w, R)
    <3>1. s \in SUBSET T
      BY DEF UpToSize
    <3>2. CASE s = {}
      <4>1. {} \cup R = R
        OBVIOUS
      <4> HIDE DEF R
      <4> QED BY <1>4, <3>2, <4>1
    <3>3. CASE s # {}
      <4>1. PICK c : c = Some(s)
        OBVIOUS
      <4>2. c \in s /\ s \ {c} \in UpToSize(T, n) /\ s \ {c} \in SUBSET T
        BY <1>1, <2>1, <3>1, <3>3, <4>1, SmallSets
      <4>3. Sum(w, (s \ {c}) \cup R) = Sum(w, s \ {c}) + Sum(w, R)
        BY <1>6, <4>2
      <4>4. (s \cup R) \ {c} = (s \ {c}) \cup R /\ c \in s \cup R
        BY <3>1, <4>2
      <4>5. w[c] \in Nat
        BY <3>1, <4>2
      <4> HIDE DEF R, P
      <4>6. Sum(w, s \cup R) = w[c] + Sum(w, (s \cup R) \ {c})
        BY <1>2, <3>1, <4>4, SumParts
      <4>7. Sum(w, s) = w[c] + Sum(w, s \ {c})
        BY <1>2, <3>1, <4>2, SumParts
      <4>8. PICK a, b \in Nat : a = Sum(w, s \ {c}) /\ b = Sum(w, R)
        BY <1>3, <1>4, <4>2
      <4>9. Sum(w, s \cup R) = w[c] + (a + b)
        BY <4>3, <4>4, <4>6, <4>8
      <4>10. Sum(w, s) + Sum(w, R) = (w[c] + a) + b
        BY <4>7, <4>8
      <4>11. w[c] + (a + b) = (w[c] + a) + b
        BY <4>5, <4>8
      <4> QED BY <4>9, <4>10, <4>11
    <3> QED BY <3>2, <3>3
  <2> QED BY <2>1, <2>2
<1>7. \A n \in 0..Cardinality(T) : n \in P
  <2> HIDE DEF P
  <2> QED BY <1>1, <1>5, <1>6, UpTo
<1>8. Cardinality(T) \in P
  <2> HIDE DEF P
  <2> QED BY <1>1, <1>7
<1>9. T \in UpToSize(T, Cardinality(T)) /\ T \cup R = S
  BY <1>1, SmallSetsGrow
<1>10. Sum(w, S) = Sum(w, T) + Sum(w, R)
  BY <1>8, <1>9
<1>11. Sum(w, S) \in Nat /\ Sum(w, T) \in Nat
  <2>1. T \in SUBSET T
    OBVIOUS
  <2> HIDE DEF R
  <2> QED BY <1>3, <1>9, <2>1
<1> QED BY <1>4, <1>10, <1>11

\* A part has no larger sum than the whole.
LEMMA SumWithin ==
  ASSUME NEW S, IsFiniteSet(S), NEW w, \A x \in S : w[x] \in Nat, NEW T \in SUBSET S
  PROVE  Sum(w, T) \in Nat /\ Sum(w, S) \in Nat /\ Sum(w, T) <= Sum(w, S)
<1>1. PICK a, b \in Nat : a = Sum(w, T) /\ b = Sum(w, S \ T)
  BY SumSplit
<1>2. Sum(w, S) = a + b
  BY <1>1, SumSplit
<1> QED BY <1>1, <1>2

\* What a weight grows by the sum grows by.
LEMMA SumGrows ==
  ASSUME NEW S, IsFiniteSet(S), NEW w, \A x \in S : w[x] \in Nat, NEW u \in S, NEW k \in Nat,
         NEW v, \A x \in S \ {u} : v[x] = w[x], v[u] = w[u] + k
  PROVE  Sum(v, S) \in Nat /\ Sum(w, S) \in Nat /\ Sum(v, S) = Sum(w, S) + k
<1>1. Sum(v, S \ {u}) = Sum(w, S \ {u})
  <2>1. IsFiniteSet(S \ {u}) /\ \A x \in S \ {u} : w[x] \in Nat
    BY FS_Subset
  <2> QED BY <2>1, SumSame
<1>2. \A x \in S : v[x] \in Nat
  <2>1. ASSUME NEW x \in S PROVE v[x] \in Nat
    <3>1. CASE x = u
      BY <3>1
    <3>2. CASE x # u
      BY <3>2
    <3> QED BY <3>1, <3>2
  <2> QED BY <2>1
<1>3. Sum(v, S) \in Nat /\ Sum(w, S) \in Nat /\ Sum(w, S \ {u}) \in Nat
  BY <1>2, SumParts, SumLess
<1>4. Sum(v, S) = v[u] + Sum(v, S \ {u}) /\ Sum(w, S) = w[u] + Sum(w, S \ {u})
  BY <1>2, SumLess
<1> QED BY <1>1, <1>3, <1>4

\* Nothing adds up to nothing.
LEMMA SumOfNothing ==
  ASSUME NEW S, IsFiniteSet(S), NEW w, \A x \in S : w[x] = 0
  PROVE  Sum(w, S) = 0
<1>1. IsFiniteSet(S) /\ \A x \in S : w[x] \in Nat
  OBVIOUS
<1>2. Sum(w, S) <= Sum(w, S \ S) + Cardinality(S) * 0
  BY <1>1, SumBound
<1>3. S \ S = {} /\ Cardinality(S) * 0 = 0 /\ IsFiniteSet({}) /\ \A x \in {} : w[x] \in Nat
  BY FS_CardinalityType, FS_EmptySet
<1>4. Sum(w, {}) = 0 /\ Sum(w, S) \in Nat
  BY <1>1, <1>3, SumParts
<1> QED BY <1>2, <1>3, <1>4

\* Where the sum is positive something weighs something.
LEMMA SumOfSome ==
  ASSUME NEW S, IsFiniteSet(S), NEW w, \A x \in S : w[x] \in Nat, Sum(w, S) # 0
  PROVE  \E x \in S : w[x] > 0
BY SumOfNothing

-----------------------------------------------------------------------------
(* Places in an order.                                                     *)

\* Places of which no two are alike are as many as the members.
LEMMA PlacesFill ==
  ASSUME NEW S, IsFiniteSet(S), NEW n \in Nat, NEW f, \A x \in S : f[x] \in 1..n,
         \A x, y \in S : x # y => f[x] # f[y]
  PROVE  /\ Cardinality(S) <= n
         /\ Cardinality(S) = n => {f[x] : x \in S} = 1..n
<1> DEFINE T == {f[x] : x \in S}
           g == [x \in S |-> f[x]]
<1>1. T \in SUBSET (1..n)
  OBVIOUS
<1>2. IsFiniteSet(1..n) /\ Cardinality(1..n) = n
  BY FS_Interval
<1>3. IsFiniteSet(T) /\ Cardinality(T) <= n /\ (Cardinality(T) = n => T = 1..n)
  <2> HIDE DEF T
  <2>1. /\ IsFiniteSet(T) /\ Cardinality(T) <= Cardinality(1..n)
        /\ Cardinality(1..n) = Cardinality(T) => 1..n = T
    BY <1>1, <1>2, FS_Subset, Zenon
  <2> QED BY <1>2, <2>1
<1>4. g \in [S -> T] /\ \A x, y \in S : x # y => g[x] # g[y]
  OBVIOUS
<1>5. Cardinality(S) \in Nat /\ Cardinality(T) \in Nat
  BY <1>3, FS_CardinalityType
<1>6. ~(Cardinality(T) < Cardinality(S))
  <2> HIDE DEF T, g
  <2>1. ASSUME Cardinality(T) < Cardinality(S) PROVE FALSE
    <3>1. \E x, y \in S : x # y /\ g[x] = g[y]
      BY <1>3, <1>4, <2>1, FS_PigeonHole
    <3> QED BY <1>4, <3>1
  <2> QED BY <2>1
<1> HIDE DEF T, g
<1>7. Cardinality(S) <= n /\ (Cardinality(S) = n => T = 1..n)
  BY <1>3, <1>5, <1>6
<1> QED BY <1>7 DEF T

\* As many of the numbers of S are no greater than i.
RankIn(S, i) == Cardinality({j \in S : j <= i})

\* The ranks of the numbers of a set are one, two, and so on in their order.
LEMMA Ranks ==
  ASSUME NEW S \in SUBSET Nat, IsFiniteSet(S)
  PROVE  /\ Cardinality(S) \in Nat
         /\ \A i \in S : RankIn(S, i) \in 1..Cardinality(S)
         /\ \A i, j \in S : i < j => RankIn(S, i) < RankIn(S, j)
         /\ \A k \in 1..Cardinality(S) : \E i \in S : RankIn(S, i) = k
         /\ \A i \in S : (\A j \in S : i <= j) => RankIn(S, i) = 1
         /\ \A i \in S : (\A j \in S : j <= i) => RankIn(S, i) = Cardinality(S)
<1> DEFINE B(i) == {j \in S : j <= i}
<1>1. Cardinality(S) \in Nat
  BY FS_CardinalityType
<1>2. ASSUME NEW i \in S
      PROVE  IsFiniteSet(B(i)) /\ Cardinality(B(i)) \in 1..Cardinality(S)
  <2>1. IsFiniteSet(B(i)) /\ Cardinality(B(i)) <= Cardinality(S) /\ i \in B(i)
    BY FS_Subset
  <2>2. Cardinality(B(i)) # 0 /\ Cardinality(B(i)) \in Nat
    <3> HIDE DEF B
    <3> QED BY <2>1, FS_EmptySet, FS_CardinalityType
  <2> QED BY <1>1, <2>1, <2>2
<1>3. ASSUME NEW i \in S, NEW j \in S, i < j PROVE Cardinality(B(i)) < Cardinality(B(j))
  <2>0. i \in Nat /\ j \in Nat /\ \A x \in S : x \in Nat
    OBVIOUS
  <2>1. B(i) \in SUBSET B(j) /\ j \in B(j) /\ j \notin B(i)
    <3>1. ~(j <= i) /\ j <= j /\ \A x \in S : x <= i => x <= j
      BY <1>3, <2>0
    <3> QED BY <3>1
  <2>2. IsFiniteSet(B(j)) /\ Cardinality(B(i)) \in Nat /\ Cardinality(B(j)) \in Nat
    BY <1>2
  <2> HIDE DEF B
  <2>3. Cardinality(B(i)) <= Cardinality(B(j)) /\ Cardinality(B(j)) # Cardinality(B(i))
    BY <2>1, <2>2, FS_Subset
  <2> QED BY <2>2, <2>3
<1>4. \A k \in 1..Cardinality(S) : \E i \in S : Cardinality(B(i)) = k
  <2> DEFINE rank == [i \in S |-> Cardinality(B(i))]
  <2>1. \A i \in S : rank[i] \in 1..Cardinality(S)
    <3> HIDE DEF B
    <3> QED BY <1>2
  <2>2. \A i, j \in S : i # j => rank[i] # rank[j]
    <3> SUFFICES ASSUME NEW i \in S, NEW j \in S, i # j PROVE rank[i] # rank[j]
      OBVIOUS
    <3>1. i < j \/ j < i
      OBVIOUS
    <3>2. rank[i] = Cardinality(B(i)) /\ rank[j] = Cardinality(B(j))
      OBVIOUS
    <3> HIDE DEF B, rank
    <3>3. PICK a, b \in Nat : a = Cardinality(B(i)) /\ b = Cardinality(B(j))
      BY <1>2
    <3> QED BY <1>3, <3>1, <3>2, <3>3
  <2>3. \A k \in 1..Cardinality(S) : \E i \in S : rank[i] = k
    <3> HIDE DEF rank
    <3>1. PICK U, g, n : U = S /\ g = rank /\ n = Cardinality(S)
      OBVIOUS
    <3>2. IsFiniteSet(U) /\ n \in Nat /\ Cardinality(U) = n /\ \A x \in U : g[x] \in 1..n
      BY <1>1, <2>1, <3>1
    <3>3. \A x, y \in U : x # y => g[x] # g[y]
      BY <2>2, <3>1
    <3>4. {g[x] : x \in U} = 1..n
      BY <3>2, <3>3, PlacesFill
    <3>5. \A k \in 1..n : \E x \in U : g[x] = k
      BY <3>4
    <3> QED BY <3>1, <3>5
  <2>4. \A i \in S : rank[i] = Cardinality(B(i))
    OBVIOUS
  <2> HIDE DEF rank, B
  <2> QED BY <2>3, <2>4
<1>5. ASSUME NEW i \in S, \A j \in S : i <= j PROVE Cardinality(B(i)) = 1
  <2>0. i \in Nat /\ \A x \in S : x \in Nat
    OBVIOUS
  <2>1. \A x \in S : x <= i <=> x = i
    BY <1>5, <2>0
  <2>2. B(i) = {i}
    BY <2>1
  <2> HIDE DEF B
  <2> QED BY <2>2, FS_Singleton
<1>6. ASSUME NEW i \in S, \A j \in S : j <= i PROVE B(i) = S
  BY <1>6
<1>7. \A i : RankIn(S, i) = Cardinality(B(i))
  BY DEF RankIn
<1> HIDE DEF B
<1> QED BY <1>1, <1>2, <1>3, <1>4, <1>5, <1>6, <1>7

\* The places of those ranks, in their order.
PlaceOf(S, k) == CHOOSE i \in S : RankIn(S, i) = k

LEMMA PlacesInOrder ==
  ASSUME NEW S \in SUBSET Nat, IsFiniteSet(S)
  PROVE  /\ Cardinality(S) \in Nat
         /\ \A k \in 1..Cardinality(S) : PlaceOf(S, k) \in S /\ RankIn(S, PlaceOf(S, k)) = k
         /\ \A k, m \in 1..Cardinality(S) : k < m => PlaceOf(S, k) < PlaceOf(S, m)
         /\ \A i \in S : (\A j \in S : i <= j) => PlaceOf(S, 1) = i /\ Cardinality(S) >= 1
         /\ \A i \in S : (\A j \in S : j <= i) => PlaceOf(S, Cardinality(S)) = i
<1>1. \A k \in 1..Cardinality(S) : PlaceOf(S, k) \in S /\ RankIn(S, PlaceOf(S, k)) = k
  BY Ranks DEF PlaceOf
<1>2. Cardinality(S) \in Nat /\ \A i \in S : RankIn(S, i) \in 1..Cardinality(S)
  BY Ranks
<1>3. ASSUME NEW i \in S, NEW j \in S, RankIn(S, i) = RankIn(S, j) PROVE i = j
  <2>1. i < j \/ j < i \/ i = j
    OBVIOUS
  <2>2. PICK a \in Nat : a = RankIn(S, i) /\ a = RankIn(S, j)
    BY <1>2, <1>3
  <2>3. i < j => a < a
    BY <2>2, Ranks
  <2>4. j < i => a < a
    BY <2>2, Ranks
  <2> QED BY <2>1, <2>3, <2>4
<1>4. ASSUME NEW k \in 1..Cardinality(S), NEW m \in 1..Cardinality(S), k < m PROVE PlaceOf(S, k) < PlaceOf(S, m)
  <2>1. PICK i, j \in S : i = PlaceOf(S, k) /\ j = PlaceOf(S, m) /\ RankIn(S, i) = k /\ RankIn(S, j) = m
    BY <1>1
  <2>2. i < j \/ j < i \/ i = j
    OBVIOUS
  <2>3. j < i => m < k
    BY <2>1, Ranks
  <2>4. k \in Nat /\ m \in Nat
    BY <1>2
  <2> QED BY <1>4, <2>1, <2>2, <2>3, <2>4
<1>5. ASSUME NEW i \in S, \A j \in S : i <= j PROVE PlaceOf(S, 1) = i /\ Cardinality(S) >= 1
  <2>1. RankIn(S, i) = 1 /\ 1 \in 1..Cardinality(S) /\ Cardinality(S) >= 1
    BY <1>2, <1>5, Ranks
  <2>2. PICK p \in S : p = PlaceOf(S, 1) /\ RankIn(S, p) = 1
    BY <1>1, <2>1
  <2>3. p = i
    BY <1>3, <2>1, <2>2
  <2> QED BY <2>1, <2>2, <2>3
<1>6. ASSUME NEW i \in S, \A j \in S : j <= i PROVE PlaceOf(S, Cardinality(S)) = i
  <2>1. RankIn(S, i) = Cardinality(S) /\ Cardinality(S) \in 1..Cardinality(S)
    BY <1>2, <1>6, Ranks
  <2> QED BY <1>1, <1>3, <2>1
<1> QED BY <1>1, <1>2, <1>4, <1>5, <1>6

-----------------------------------------------------------------------------
(* Filters.                                                                 *)

\* out is made of the elements of a list up to the place n that are in a set: each of
\* them has its place there, in the same order, and none is passed over.
Sifts(place, out, list, set, n) ==
  /\ place \in [1..Len(out) -> 1..n]
  /\ \A k, l \in 1..Len(out) : k < l => place[k] < place[l]
  /\ \A k \in 1..Len(out) : out[k] = list[place[k]] /\ list[place[k]] \in set
  /\ \A i \in 1..n : list[i] \in set => \E k \in 1..Len(out) : place[k] = i
Sifted(out, list, set, n) == \E place : Sifts(place, out, list, set, n)

\* One element more.
LEMMA SiftedNext ==
  ASSUME NEW T, NEW list \in Seq(T), NEW set, NEW n \in Nat, n + 1 \in 1..Len(list),
         NEW out \in Seq(T), Sifted(out, list, set, n)
  PROVE  Sifted(IF list[n+1] \in set THEN Append(out, list[n+1]) ELSE out, list, set, n + 1)
<1>1. PICK place : Sifts(place, out, list, set, n)
  BY DEF Sifted
<1>2. CASE list[n+1] \in set
  <2> DEFINE more == Append(out, list[n+1])
             at == [k \in 1..(Len(out) + 1) |-> IF k = Len(out) + 1 THEN n + 1 ELSE place[k]]
  <2>1. /\ Len(out) \in Nat /\ list[n+1] \in T /\ Len(more) = Len(out) + 1 /\ more[Len(out) + 1] = list[n+1]
        /\ \A k \in 1..Len(out) : more[k] = out[k]
    OBVIOUS
  <2>2. \A k \in 1..(Len(out) + 1) : k = Len(out) + 1 \/ k \in 1..Len(out)
    BY <2>1
  <2>3. /\ \A k \in 1..Len(out) : at[k] = place[k] /\ place[k] \in 1..n
        /\ at[Len(out) + 1] = n + 1
    <3>1. Len(out) + 1 \in 1..(Len(out) + 1) /\ \A k \in 1..Len(out) : k \in 1..(Len(out) + 1) /\ k # Len(out) + 1
      BY <2>1
    <3>2. \A k \in 1..Len(out) : place[k] \in 1..n
      BY <1>1 DEF Sifts
    <3> QED BY <3>1, <3>2
  <2> HIDE DEF more
  <2>4. at \in [1..(Len(out) + 1) -> 1..(n+1)]
    <3>1. 1..n \subseteq 1..(n+1) /\ n + 1 \in 1..(n+1)
      OBVIOUS
    <3> QED BY <2>2, <2>3, <3>1
  <2> HIDE DEF at
  <2>5. \A k, l \in 1..(Len(out) + 1) : k < l => at[k] < at[l]
    <3>1. \A k, l \in 1..Len(out) : k < l => at[k] < at[l]
      BY <1>1, <2>3 DEF Sifts
    <3>2. \A k \in 1..Len(out) : at[k] < at[Len(out) + 1]
      BY <2>3
    <3>3. \A k, l \in 1..(Len(out) + 1) : k < l => k \in 1..Len(out)
      BY <2>1
    <3> QED BY <2>2, <3>1, <3>2, <3>3
  <2>6. \A k \in 1..(Len(out) + 1) : more[k] = list[at[k]] /\ list[at[k]] \in set
    BY <1>1, <1>2, <2>1, <2>2, <2>3 DEF Sifts
  <2>7. \A i \in 1..(n+1) : list[i] \in set => \E k \in 1..(Len(out) + 1) : at[k] = i
    <3> SUFFICES ASSUME NEW i \in 1..(n+1), list[i] \in set PROVE \E k \in 1..(Len(out) + 1) : at[k] = i
      OBVIOUS
    <3>1. CASE i = n + 1
      BY <2>1, <2>3, <3>1
    <3>2. CASE i \in 1..n
      <4>1. PICK k \in 1..Len(out) : place[k] = i
        BY <1>1, <3>2 DEF Sifts
      <4>2. k \in 1..(Len(out) + 1) /\ at[k] = i
        BY <2>1, <2>3, <4>1
      <4> QED BY <4>2
    <3> QED BY <3>1, <3>2
  <2>8. Sifts(at, more, list, set, n + 1)
    BY <2>1, <2>4, <2>5, <2>6, <2>7 DEF Sifts
  <2>9. more = IF list[n+1] \in set THEN Append(out, list[n+1]) ELSE out
    BY <1>2 DEF more
  <2> QED BY <2>8, <2>9 DEF Sifted
<1>3. CASE list[n+1] \notin set
  <2>1. place \in [1..Len(out) -> 1..(n+1)]
    BY <1>1 DEF Sifts
  <2>2. \A i \in 1..(n+1) : i = n + 1 \/ i \in 1..n
    OBVIOUS
  <2>3. Sifts(place, out, list, set, n + 1)
    BY <1>1, <1>3, <2>1, <2>2 DEF Sifts
  <2> QED BY <1>3, <2>3 DEF Sifted
<1> QED BY <1>2, <1>3

\* What Those does at a place.
Sift(s, list, set, i) == IF list[i] \in set THEN Append(s, list[i]) ELSE s

\* What Those computes is picked.
LEMMA ThoseSifted ==
  ASSUME NEW T, NEW list \in Seq(T), NEW set
  PROVE  Those(list, set) \in Seq(T) /\ Sifted(Those(list, set), list, set, Len(list))
<1>0. PICK N : N = Len(list)
  OBVIOUS
<1> DEFINE step == [i \in 1..N |-> [s \in Seq(T) |-> Sift(s, list, set, i)]]
           f == CHOOSE g : g = [n \in 0..N |-> IF n = 0 THEN <<>> ELSE Sift(g[n - 1], list, set, n)]
           P == {n \in 0..N : f[n] \in Seq(T) /\ Sifted(f[n], list, set, n)}
<1>1. N \in Nat /\ (\A i \in 1..N : list[i] \in T) /\ <<>> \in Seq(T)
  BY <1>0
<1>2. \A i \in 1..N, s \in Seq(T) : Sift(s, list, set, i) \in Seq(T)
  BY <1>1 DEF Sift
<1>3. Steps(step, N, Seq(T)) /\ \A i \in 1..N, s \in Seq(T) : step[i][s] = Sift(s, list, set, i)
  BY <1>1, <1>2 DEF Steps
<1> HIDE DEF step
<1>4. PICK g : Iterates(g, N, Seq(T), <<>>, step)
  BY <1>1, <1>3, Recursion
<1>5. g = [n \in 0..N |-> IF n = 0 THEN <<>> ELSE Sift(g[n - 1], list, set, n)]
  <2>1. ASSUME NEW n \in 1..N PROVE g[n] = Sift(g[n - 1], list, set, n)
    <3>1. g[n-1] \in Seq(T) /\ g[n] = step[n][g[n-1]]
      BY <1>1, <1>4 DEF Iterates
    <3> QED BY <1>3, <3>1
  <2>2. g \in [0..N -> Seq(T)] /\ g[0] = <<>>
    BY <1>4 DEF Iterates
  <2>3. \A n \in 0..N : n = 0 \/ n \in 1..N
    BY <1>1
  <2> QED BY <2>1, <2>2, <2>3
<1>6. /\ f = [n \in 0..N |-> IF n = 0 THEN <<>> ELSE Sift(f[n - 1], list, set, n)]
      /\ Those(list, set) = f[N]
  BY <1>0, <1>5, Zenon DEF Those, Sift
<1> HIDE DEF f
<1>7. f[0] = <<>> /\ \A n \in 0..(N-1) : f[n+1] = Sift(f[n], list, set, n + 1)
  <2>1. \A n \in 0..(N-1) : n + 1 \in 0..N /\ n + 1 # 0 /\ (n + 1) - 1 = n
    BY <1>1
  <2>2. 0 \in 0..N
    BY <1>1
  <2> QED BY <1>6, <2>1, <2>2
<1> HIDE DEF P
<1>8. 0 \in P
  <2>1. Sifts(<<>>, <<>>, list, set, 0)
    BY DEF Sifts
  <2>2. Sifted(f[0], list, set, 0)
    BY <1>7, <2>1 DEF Sifted
  <2>3. 0 \in 0..N /\ f[0] \in Seq(T)
    BY <1>1, <1>7
  <2> QED BY <2>2, <2>3 DEF P
<1>9. ASSUME NEW n \in 0..(N-1), n \in P PROVE n + 1 \in P
  <2>1. n \in Nat /\ n + 1 \in 1..N /\ n + 1 \in 1..Len(list) /\ n + 1 \in 0..N
    BY <1>0, <1>1
  <2>2. f[n] \in Seq(T) /\ Sifted(f[n], list, set, n)
    BY <1>9 DEF P
  <2>3. Sifted(Sift(f[n], list, set, n + 1), list, set, n + 1)
    BY <2>1, <2>2, SiftedNext DEF Sift
  <2>4. Sift(f[n], list, set, n + 1) \in Seq(T)
    BY <1>2, <2>1, <2>2
  <2> QED BY <1>7, <2>1, <2>3, <2>4 DEF P
<1>10. \A n \in 0..N : n \in P
  BY <1>1, <1>8, <1>9, UpTo
<1> QED BY <1>0, <1>1, <1>6, <1>10 DEF P

OnceEach(list) == \A i, j \in 1..Len(list) : list[i] = list[j] => i = j

LEMMA InRange ==
  ASSUME NEW T, NEW list \in Seq(T)
  PROVE  /\ Range(list) \subseteq T
         /\ \A x : x \in Range(list) <=> \E i \in 1..Len(list) : list[i] = x
BY DEF Range

LEMMA ListOfOne ==
  ASSUME NEW T, NEW x \in T
  PROVE  <<x>> \in Seq(T) /\ Len(<<x>>) = 1 /\ <<x>>[1] = x /\ Range(<<x>>) = {x} /\ OnceEach(<<x>>)
<1>1. PICK list : list = <<x>>
  OBVIOUS
<1>2. list \in Seq(T) /\ Len(list) = 1 /\ list[1] = x
  BY <1>1
<1>3. \A y : y \in Range(list) <=> \E i \in 1..1 : list[i] = y
  BY <1>2, InRange
<1>4. \A i \in 1..1 : i = 1
  OBVIOUS
<1>5. \A y : y \in Range(list) <=> y = x
  <2>1. 1 \in 1..1
    OBVIOUS
  <2> QED BY <1>2, <1>3, <1>4, <2>1
<1>6. Range(list) = {x}
  BY <1>5
<1>7. OnceEach(list)
  BY <1>2 DEF OnceEach
<1> QED BY <1>1, <1>2, <1>6, <1>7

\* What is picked is what is in the set, without repetitions if the list has none.
LEMMA ThoseMembers ==
  ASSUME NEW T, NEW list \in Seq(T), NEW set
  PROVE  /\ Those(list, set) \in Seq(T) /\ Len(Those(list, set)) \in 0..Len(list)
         /\ Range(Those(list, set)) = Range(list) \cap set
         /\ OnceEach(list) => OnceEach(Those(list, set))
<1>0. PICK out : out = Those(list, set)
  OBVIOUS
<1>1. out \in Seq(T) /\ Sifted(out, list, set, Len(list))
  BY <1>0, ThoseSifted
<1>2. PICK place : Sifts(place, out, list, set, Len(list))
  BY <1>1 DEF Sifted
<1>3. Len(out) \in Nat /\ Len(list) \in Nat
  BY <1>1
<1>4. \A k \in 1..Len(out) : out[k] \in set /\ \E i \in 1..Len(list) : list[i] = out[k]
  BY <1>2 DEF Sifts
<1>5. \A i \in 1..Len(list) : list[i] \in set => \E k \in 1..Len(out) : out[k] = list[i]
  BY <1>2 DEF Sifts
<1>6. \A k, l \in 1..Len(out) : k # l => place[k] # place[l]
  <2>1. \A k, l \in 1..Len(out) : k # l => k < l \/ l < k
    BY <1>3
  <2>2. \A k \in 1..Len(out) : place[k] \in Int
    BY <1>2, <1>3 DEF Sifts
  <2> QED BY <1>2, <2>1, <2>2 DEF Sifts
<1>7. OnceEach(list) => OnceEach(out)
  <2> SUFFICES ASSUME OnceEach(list), NEW k \in 1..Len(out), NEW l \in 1..Len(out), out[k] = out[l] PROVE k = l
    BY DEF OnceEach
  <2>1. place[k] \in 1..Len(list) /\ place[l] \in 1..Len(list) /\ list[place[k]] = list[place[l]]
    BY <1>2 DEF Sifts
  <2> QED BY <1>6, <2>1 DEF OnceEach
<1>8. Len(out) <= Len(list)
  <2>1. \A n \in Nat : IsFiniteSet(1..n) /\ Cardinality(1..n) = n
    BY FS_Interval
  <2>2. \A k \in 1..Len(out) : place[k] \in 1..Len(list)
    BY <1>2 DEF Sifts
  <2>3. IsFiniteSet(1..Len(out)) /\ Cardinality(1..Len(out)) = Len(out)
    BY <1>3, <2>1
  <2> QED BY <1>3, <1>6, <2>2, <2>3, PlacesFill
<1>9. \A x : x \in Range(out) <=> \E k \in 1..Len(out) : out[k] = x
  BY <1>1, InRange
<1>10. \A x : x \in Range(list) <=> \E i \in 1..Len(list) : list[i] = x
  BY InRange
<1>11. Range(out) = Range(list) \cap set
  <2>1. Range(out) \subseteq Range(list) \cap set
    BY <1>4, <1>9, <1>10
  <2>2. ASSUME NEW x \in Range(list) \cap set PROVE x \in Range(out)
    <3>1. PICK i \in 1..Len(list) : list[i] = x
      BY <1>10
    <3> QED BY <1>5, <1>9, <3>1
  <2> QED BY <2>1, <2>2
<1> QED BY <1>0, <1>1, <1>3, <1>7, <1>8, <1>11

\* A list without repetitions is as long as its elements are many.
LEMMA ListCount ==
  ASSUME NEW T, NEW list \in Seq(T), OnceEach(list)
  PROVE  IsFiniteSet(Range(list)) /\ Cardinality(Range(list)) = Len(list)
<1>1. PICK n \in Nat : n = Len(list)
  OBVIOUS
<1>2. PICK f : f = [i \in 1..n |-> list[i]]
  OBVIOUS
<1>3. \A x : x \in Range(list) <=> \E i \in 1..n : list[i] = x
  BY <1>1, InRange
<1>4. PICK R : R = Range(list)
  OBVIOUS
<1>5. f \in Surjection(1..n, R)
  BY <1>2, <1>3, <1>4 DEF Surjection
<1>6. \A i, j \in 1..n : list[i] = list[j] => i = j
  BY <1>1 DEF OnceEach
<1>6a. f \in Injection(1..n, R)
  <2>1. \A i, j \in 1..n : f[i] = f[j] => i = j
    BY <1>2, <1>6
  <2>2. f \in [1..n -> R]
    BY <1>5 DEF Surjection
  <2> QED BY <2>1, <2>2 DEF Injection, IsInjective
<1>7. IsFiniteSet(1..n) /\ Cardinality(1..n) = n
  BY FS_Interval
<1>8. IsFiniteSet(R) /\ Cardinality(R) = Cardinality(1..n)
  BY <1>5, <1>6a, <1>7, FS_Surjection
<1> QED BY <1>1, <1>4, <1>7, <1>8

LEMMA AppendedOnce ==
  ASSUME NEW T, NEW list \in Seq(T), OnceEach(list), NEW x \in T, x \notin Range(list)
  PROVE  /\ Append(list, x) \in Seq(T) /\ OnceEach(Append(list, x)) /\ Len(Append(list, x)) = Len(list) + 1
         /\ Range(Append(list, x)) = Range(list) \cup {x}
<1>1. PICK n \in Nat : n = Len(list)
  OBVIOUS
<1>2. PICK all : all = Append(list, x)
  OBVIOUS
<1>3. /\ all \in Seq(T) /\ Len(all) = n + 1 /\ all[n + 1] = x /\ \A i \in 1..n : all[i] = list[i]
      /\ \A i \in 1..(n+1) : i = n + 1 \/ i \in 1..n
  BY <1>1, <1>2
<1>4. /\ \A y : y \in Range(list) <=> \E i \in 1..n : list[i] = y
      /\ \A y : y \in Range(all) <=> \E i \in 1..(n+1) : all[i] = y
  BY <1>1, <1>3, InRange
<1>5. OnceEach(all)
  BY <1>1, <1>3, <1>4 DEF OnceEach
<1>6. Range(all) \subseteq Range(list) \cup {x}
  BY <1>3, <1>4
<1>7. Range(list) \cup {x} \subseteq Range(all)
  <2>1. \A i \in 1..n : i \in 1..(n+1)
    OBVIOUS
  <2>2. n + 1 \in 1..(n+1)
    OBVIOUS
  <2> QED BY <1>3, <1>4, <2>1, <2>2
<1> QED BY <1>1, <1>2, <1>3, <1>5, <1>6, <1>7

-----------------------------------------------------------------------------
(* What the elements of a list weigh together.                              *)

AddsUp(f, w, list) ==
  f \in [0..Len(list) -> Nat] /\ f[0] = 0 /\ \A i \in 1..Len(list) : f[i] = f[i-1] + w[list[i]]

\* What Total does at a place.
Plus(s, w, list, i) == s + w[list[i]]

\* Total adds up the weights along the list.
LEMMA TotalAdds ==
  ASSUME NEW T, NEW list \in Seq(T), NEW w \in [T -> Nat]
  PROVE  \E f : AddsUp(f, w, list) /\ Total(w, list) = f[Len(list)]
<1>0. PICK N : N = Len(list)
  OBVIOUS
<1> DEFINE step == [i \in 1..N |-> [s \in Nat |-> Plus(s, w, list, i)]]
           f == CHOOSE g : g = [n \in 0..N |-> IF n = 0 THEN 0 ELSE Plus(g[n - 1], w, list, n)]
<1>1. N \in Nat /\ \A i \in 1..N : w[list[i]] \in Nat
  BY <1>0
<1>2. \A i \in 1..N, s \in Nat : Plus(s, w, list, i) \in Nat
  BY <1>1 DEF Plus
<1>3. Steps(step, N, Nat) /\ \A i \in 1..N, s \in Nat : step[i][s] = Plus(s, w, list, i)
  BY <1>1, <1>2 DEF Steps
<1> HIDE DEF step
<1>4. PICK g : Iterates(g, N, Nat, 0, step)
  BY <1>1, <1>3, Recursion
<1>5. ASSUME NEW n \in 1..N PROVE g[n] = Plus(g[n - 1], w, list, n)
  <2>1. g[n-1] \in Nat /\ g[n] = step[n][g[n-1]]
    BY <1>1, <1>4 DEF Iterates
  <2> QED BY <1>3, <2>1
<1>6. g = [n \in 0..N |-> IF n = 0 THEN 0 ELSE Plus(g[n - 1], w, list, n)]
  <2>1. g \in [0..N -> Nat] /\ g[0] = 0
    BY <1>4 DEF Iterates
  <2>2. \A n \in 0..N : n = 0 \/ n \in 1..N
    BY <1>1
  <2> QED BY <1>5, <2>1, <2>2
<1>7. /\ f = [n \in 0..N |-> IF n = 0 THEN 0 ELSE Plus(f[n - 1], w, list, n)]
      /\ Total(w, list) = f[N]
  BY <1>0, <1>6 DEF Total, Plus
<1> HIDE DEF f
<1>8. f[0] = 0 /\ \A n \in 1..N : f[n] = Plus(f[n - 1], w, list, n)
  <2>1. 0 \in 0..N /\ \A n \in 1..N : n \in 0..N /\ n # 0
    BY <1>1
  <2> QED BY <1>7, <2>1
<1> DEFINE P == {n \in 0..N : f[n] \in Nat}
<1>9. 0 \in P
  BY <1>1, <1>8
<1>10. ASSUME NEW n \in 0..(N-1), n \in P PROVE n + 1 \in P
  <2>1. n + 1 \in 1..N /\ n + 1 \in 0..N /\ (n + 1) - 1 = n /\ f[n] \in Nat
    BY <1>1, <1>10
  <2>2. f[n + 1] = Plus(f[n], w, list, n + 1)
    BY <1>8, <2>1
  <2> QED BY <1>2, <2>1, <2>2
<1>11. \A n \in 0..N : f[n] \in Nat
  <2>1. \A n \in 0..N : n \in P
    <3> HIDE DEF P
    <3> QED BY <1>1, <1>9, <1>10, UpTo
  <2> QED BY <2>1
<1>12. f \in [0..N -> Nat]
  BY <1>7, <1>11
<1>13. AddsUp(f, w, list)
  BY <1>0, <1>8, <1>12 DEF AddsUp, Plus
<1> QED BY <1>0, <1>7, <1>13

\* One element more weighs what it weighs more.
LEMMA TotalAppend ==
  ASSUME NEW T, NEW list \in Seq(T), NEW w \in [T -> Nat], NEW x \in T
  PROVE  Total(w, list) \in Nat /\ Total(w, Append(list, x)) = Total(w, list) + w[x]
<1>1. PICK f : AddsUp(f, w, list) /\ Total(w, list) = f[Len(list)]
  BY TotalAdds
<1>2. PICK more \in Seq(T) : more = Append(list, x)
  <2>1. Append(list, x) \in Seq(T)
    OBVIOUS
  <2> QED BY <2>1
<1>3. PICK g : AddsUp(g, w, more) /\ Total(w, more) = g[Len(more)]
  BY TotalAdds
<1>4. PICK N \in Nat : N = Len(list)
  OBVIOUS
<1>5. Len(more) = N + 1 /\ more[N + 1] = x /\ \A i \in 1..N : more[i] = list[i]
  BY <1>2, <1>4
<1>6. /\ f[0] = 0 /\ g[0] = 0 /\ \A i \in 1..N : f[i] = f[i - 1] + w[list[i]] /\ g[i] = g[i - 1] + w[list[i]]
      /\ g[N + 1] = g[N] + w[x] /\ f[N] \in Nat
  <2>1. \A i \in 1..N : i \in 1..(N + 1)
    OBVIOUS
  <2>2. N + 1 \in 1..(N + 1) /\ (N + 1) - 1 = N /\ N \in 0..N
    OBVIOUS
  <2> QED BY <1>1, <1>3, <1>4, <1>5, <2>1, <2>2 DEF AddsUp
<1> DEFINE P == {n \in 0..N : f[n] = g[n]}
<1>7. ASSUME NEW n \in 0..(N-1), n \in P PROVE n + 1 \in P
  <2>1. n + 1 \in 1..N /\ n + 1 \in 0..N /\ (n + 1) - 1 = n
    OBVIOUS
  <2> QED BY <1>6, <1>7, <2>1
<1>8. 0 \in P
  BY <1>6
<1>9. N \in P
  <2> HIDE DEF P
  <2>1. \A n \in 0..N : n \in P
    BY <1>7, <1>8, UpTo
  <2>2. N \in 0..N
    OBVIOUS
  <2> QED BY <2>1, <2>2
<1> QED BY <1>1, <1>2, <1>3, <1>4, <1>5, <1>6, <1>9

\* Elements of the same weight.
LEMMA TotalOfEqual ==
  ASSUME NEW T, NEW list \in Seq(T), NEW w \in [T -> Nat], NEW c \in Nat, \A x \in T : w[x] = c
  PROVE  Total(w, list) = Len(list) * c
<1>1. PICK f : AddsUp(f, w, list) /\ Total(w, list) = f[Len(list)]
  BY TotalAdds
<1>2. PICK N \in Nat : N = Len(list)
  OBVIOUS
<1>3. f[0] = 0 /\ \A i \in 1..N : f[i] = f[i - 1] + c
  BY <1>1, <1>2 DEF AddsUp
<1> DEFINE P == {n \in 0..N : f[n] = n * c}
<1>4. ASSUME NEW n \in 0..(N-1), n \in P PROVE n + 1 \in P
  <2>1. n + 1 \in 1..N /\ n + 1 \in 0..N /\ (n + 1) - 1 = n /\ f[n] = n * c
    BY <1>4
  <2>2. f[n + 1] = f[n] + c
    BY <1>3, <2>1
  <2>3. (n + 1) * c = n * c + c
    OBVIOUS
  <2> QED BY <2>1, <2>2, <2>3
<1>5. 0 \in P
  BY <1>3
<1>6. N \in P
  <2> HIDE DEF P
  <2>1. \A n \in 0..N : n \in P
    BY <1>4, <1>5, UpTo
  <2>2. N \in 0..N
    OBVIOUS
  <2> QED BY <2>1, <2>2
<1> QED BY <1>1, <1>2, <1>6
-----------------------------------------------------------------------------
(* Lists.                                                                   *)

LEMMA ListOf ==
    ASSUME NEW S, NEW list \in Seq(S)
    PROVE  Len(list) \in Nat /\ list \in [1..Len(list) -> S] /\ DOMAIN list = 1..Len(list)
OBVIOUS

LEMMA ListAppend ==
    ASSUME NEW S, NEW list \in Seq(S), NEW x \in S
    PROVE  /\ Append(list, x) \in Seq(S) /\ Append(list, x) # <<>> /\ Len(Append(list, x)) = Len(list) + 1
           /\ \A i \in 1..Len(list) : Append(list, x)[i] = list[i]
           /\ Append(list, x)[Len(list) + 1] = x
OBVIOUS

LEMMA ListEmpty ==
    ASSUME NEW S
    PROVE  <<>> \in Seq(S) /\ Len(<<>>) = 0 /\ \A list \in Seq(S) : list # <<>> => Len(list) \in Nat \ {0}
OBVIOUS

LEMMA ListEqual ==
    ASSUME NEW S, NEW list \in Seq(S), NEW other \in Seq(S),
           Len(list) = Len(other), \A i \in 1..Len(list) : list[i] = other[i]
    PROVE  list = other
OBVIOUS

-----------------------------------------------------------------------------
(* Lists of moments, the later behind the earlier.                         *)

\* A list of moments up to n, in their order.
Rising(s) == \A i, j \in DOMAIN s : i <= j => s[i] <= s[j]
Moments(n) == {s \in Seq(Nat) : Rising(s) /\ \A i \in DOMAIN s : s[i] <= n}

\* What is later than a moment.
Later(s, x) == FromFirst(s, {i \in DOMAIN s : s[i] > x})

\* The first r - 1 of s are dropped.
DropsTo(t, s, r) ==
  /\ r \in 1..Len(s) + 1 /\ t \in Seq(Nat) /\ Len(t) = Len(s) - r + 1
  /\ \A j \in 1..Len(t) : t[j] = s[r - 1 + j]

LEMMA FirstPlace ==
  ASSUME NEW s \in Seq(Nat), NEW places \in SUBSET DOMAIN s
  PROVE  \E r : /\ DropsTo(FromFirst(s, places), s, r)
                /\ \A k \in places : k >= r
                /\ r <= Len(s) => r \in places
<1>1. Len(s) \in Nat /\ DOMAIN s = 1..Len(s)
  OBVIOUS
<1>2. CASE places = {}
  <2>1. DropsTo(FromFirst(s, places), s, Len(s) + 1)
    BY <1>1, <1>2 DEF FromFirst, DropsTo
  <2> QED BY <1>1, <1>2, <2>1
<1>3. CASE places # {}
  <2> DEFINE r == Min(places)
  <2>1. r \in places /\ \A k \in places : r <= k
    <3>1. places \in SUBSET Nat
      BY <1>1
    <3> QED BY <1>3, <3>1, MinOf
  <2>2. FromFirst(s, places) = SubSeq(s, r, Len(s)) /\ r \in 1..Len(s)
    BY <1>1, <1>3, <2>1 DEF FromFirst
  <2> HIDE DEF r
  <2>3. DropsTo(FromFirst(s, places), s, r)
    BY <1>1, <2>2 DEF DropsTo
  <2>4. \A k \in places : k >= r
    BY <1>1, <2>1
  <2> QED BY <2>1, <2>3, <2>4
<1> QED BY <1>2, <1>3

\* For moments in order, the later ones are the last.
LEMMA LaterIs ==
  ASSUME NEW n \in Nat, NEW s \in Moments(n), NEW x \in Int
  PROVE  \E r : /\ DropsTo(Later(s, x), s, r)
                /\ \A k \in DOMAIN s : s[k] > x <=> k >= r
<1>1. s \in Seq(Nat) /\ Len(s) \in Nat /\ DOMAIN s = 1..Len(s) /\ Rising(s)
  BY DEF Moments
<1> DEFINE places == {i \in DOMAIN s : s[i] > x}
<1>2. PICK r : /\ DropsTo(FromFirst(s, places), s, r)
               /\ \A k \in places : k >= r
               /\ r <= Len(s) => r \in places
  <2>1. places \in SUBSET DOMAIN s
    OBVIOUS
  <2> HIDE DEF places
  <2> QED BY <1>1, <2>1, FirstPlace
<1>3. ASSUME NEW k \in DOMAIN s PROVE s[k] > x <=> k >= r
  <2>1. r \in Nat /\ k \in Nat /\ s[k] \in Nat
    BY <1>1, <1>2 DEF DropsTo
  <2>2. CASE k >= r
    <3>1. r \in DOMAIN s /\ s[r] > x /\ s[r] \in Nat
      BY <1>1, <1>2, <2>1, <2>2
    <3>2. s[r] <= s[k]
      BY <1>1, <2>1, <2>2, <3>1 DEF Rising
    <3> QED BY <2>1, <2>2, <3>1, <3>2
  <2>3. CASE ~(k >= r)
    BY <1>2, <2>3
  <2> QED BY <2>2, <2>3
<1> QED BY <1>2, <1>3 DEF Later

LEMMA LaterFacts ==
  ASSUME NEW n \in Nat, NEW s \in Moments(n), NEW x \in Int
  PROVE  /\ Later(s, x) \in Moments(n) /\ Later(s, x) \in Seq(Nat) /\ Len(Later(s, x)) <= Len(s)
         /\ \A j \in DOMAIN Later(s, x) : Later(s, x)[j] > x
         /\ Later(s, x) # <<>> <=> s # <<>> /\ Last(s) > x
         /\ Later(s, x) # <<>> => Last(Later(s, x)) = Last(s) /\ Head(Later(s, x)) > x
         /\ s # <<>> /\ Head(s) > x => Later(s, x) = s
         /\ s # <<>> /\ Head(s) <= x => Len(Later(s, x)) < Len(s)
<1>1. s \in Seq(Nat) /\ Len(s) \in Nat /\ DOMAIN s = 1..Len(s) /\ Rising(s) /\ \A i \in DOMAIN s : s[i] <= n
  BY DEF Moments
<1> DEFINE t == Later(s, x)
<1>2. PICK r : DropsTo(t, s, r) /\ \A k \in DOMAIN s : s[k] > x <=> k >= r
  BY LaterIs
<1> HIDE DEF t
<1>3. t \in Seq(Nat) /\ Len(t) \in Nat /\ DOMAIN t = 1..Len(t) /\ Len(t) = Len(s) - r + 1 /\ r \in 1..Len(s) + 1
      /\ \A j \in 1..Len(t) : t[j] = s[r - 1 + j] /\ r - 1 + j \in 1..Len(s) /\ r - 1 + j >= r
  BY <1>1, <1>2 DEF DropsTo
<1>4. Rising(t)
  <2> SUFFICES ASSUME NEW i \in DOMAIN t, NEW j \in DOMAIN t, i <= j PROVE t[i] <= t[j]
    BY DEF Rising
  <2>1. r - 1 + i \in DOMAIN s /\ r - 1 + j \in DOMAIN s /\ t[i] = s[r - 1 + i] /\ t[j] = s[r - 1 + j]
    <3>1. i \in 1..Len(t) /\ j \in 1..Len(t)
      BY <1>3
    <3> QED BY <1>1, <1>3, <3>1
  <2>3. r - 1 + i <= r - 1 + j
    BY <1>3
  <2>2. s[r - 1 + i] <= s[r - 1 + j]
    BY <1>1, <2>1, <2>3 DEF Rising
  <2> QED BY <2>1, <2>2
<1>5. t \in Moments(n) /\ Len(t) <= Len(s)
  <2>1. \A j \in DOMAIN t : t[j] <= n
    <3> TAKE j \in DOMAIN t
    <3>1. r - 1 + j \in DOMAIN s /\ t[j] = s[r - 1 + j]
      BY <1>1, <1>3
    <3> QED BY <1>1, <3>1
  <2>2. Len(t) <= Len(s)
    BY <1>1, <1>3
  <2> QED BY <1>3, <1>4, <2>1, <2>2 DEF Moments
<1>6. \A j \in DOMAIN t : t[j] > x
  BY <1>1, <1>2, <1>3
<1>7. t # <<>> <=> s # <<>> /\ Last(s) > x
  <2>1. (t # <<>> <=> Len(t) # 0) /\ (s # <<>> <=> Len(s) # 0)
    BY <1>1, <1>3
  <2>2. CASE s = <<>>
    BY <1>3, <2>1, <2>2
  <2>3. CASE s # <<>>
    <3>1. Len(s) \in DOMAIN s /\ Last(s) = s[Len(s)]
      BY <1>1, <2>1, <2>3 DEF Last
    <3>2. Last(s) > x <=> Len(s) >= r
      BY <1>2, <3>1
    <3> QED BY <1>1, <1>3, <2>1, <2>3, <3>2
  <2> QED BY <2>2, <2>3
<1>8. ASSUME t # <<>> PROVE Last(t) = Last(s) /\ Head(t) > x
  <2>1. Len(t) \in DOMAIN t /\ 1 \in DOMAIN t /\ Head(t) = t[1] /\ Last(t) = t[Len(t)]
    BY <1>3, <1>8 DEF Last
  <2>2. r - 1 + Len(t) = Len(s) /\ Last(s) = s[Len(s)]
    BY <1>1, <1>3 DEF Last
  <2>3. t[Len(t)] = s[r - 1 + Len(t)]
    BY <1>3, <2>1
  <2> QED BY <1>6, <2>1, <2>2, <2>3
<1>9. ASSUME s # <<>>, Head(s) > x PROVE t = s
  <2>1. Head(s) = s[1] /\ 1 \in DOMAIN s
    BY <1>1, <1>9
  <2>2. r = 1
    BY <1>2, <1>3, <1>9, <2>1
  <2>3. Len(t) = Len(s) /\ \A j \in 1..Len(t) : t[j] = s[j]
    BY <1>1, <1>3, <2>2
  <2> QED BY <1>1, <1>3, <2>3, ListEqual
<1>10. ASSUME s # <<>>, Head(s) <= x PROVE Len(t) < Len(s)
  <2>1. Head(s) = s[1] /\ 1 \in DOMAIN s /\ s[1] \in Nat
    BY <1>1, <1>10
  <2>2. ~(1 >= r)
    BY <1>2, <1>10, <2>1
  <2> QED BY <1>1, <1>3, <2>2
<1> QED BY <1>3, <1>5, <1>6, <1>7, <1>8, <1>9, <1>10 DEF t

\* Dropping what is older twice is dropping it once.
LEMMA LaterAgain ==
  ASSUME NEW n \in Nat, NEW s \in Moments(n), NEW x \in Int, NEW y \in Int, x <= y
  PROVE  /\ Later(Later(s, x), y) = Later(s, y)
         /\ Len(Later(s, y)) <= Len(Later(s, x))
<1>1. s \in Seq(Nat) /\ Len(s) \in Nat /\ DOMAIN s = 1..Len(s)
  BY DEF Moments
<1> DEFINE t == Later(s, x)
           u == Later(t, y)
           v == Later(s, y)
<1>2. t \in Moments(n)
  BY LaterFacts
<1>3. PICK r : DropsTo(t, s, r) /\ \A k \in DOMAIN s : s[k] > x <=> k >= r
  BY LaterIs
<1>4. PICK q : DropsTo(v, s, q) /\ \A k \in DOMAIN s : s[k] > y <=> k >= q
  BY LaterIs
<1>5. PICK p : DropsTo(u, t, p) /\ \A k \in DOMAIN t : t[k] > y <=> k >= p
  <2> HIDE DEF t
  <2> QED BY <1>2, LaterIs
<1> HIDE DEF t, u, v
<1>6. /\ t \in Seq(Nat) /\ Len(t) \in Nat /\ DOMAIN t = 1..Len(t) /\ Len(t) = Len(s) - r + 1 /\ r \in 1..Len(s) + 1
      /\ \A j \in 1..Len(t) : t[j] = s[r - 1 + j]
  BY <1>1, <1>3 DEF DropsTo
<1>7. /\ v \in Seq(Nat) /\ Len(v) \in Nat /\ Len(v) = Len(s) - q + 1 /\ q \in 1..Len(s) + 1
      /\ \A j \in 1..Len(v) : v[j] = s[q - 1 + j]
  BY <1>1, <1>4 DEF DropsTo
<1>8. /\ u \in Seq(Nat) /\ Len(u) \in Nat /\ Len(u) = Len(t) - p + 1 /\ p \in 1..Len(t) + 1
      /\ \A j \in 1..Len(u) : u[j] = t[p - 1 + j]
  BY <1>5, <1>6 DEF DropsTo
<1>9. r <= q
  <2>1. CASE q = Len(s) + 1
    BY <1>6, <2>1
  <2>2. CASE q \in 1..Len(s)
    <3>1. s[q] > y /\ s[q] \in Nat
      BY <1>1, <1>4, <2>2
    <3>2. s[q] > x
      BY <3>1
    <3> QED BY <1>1, <1>3, <2>2, <3>2
  <2> QED BY <1>7, <2>1, <2>2
<1>10. p = q - r + 1
  <2>1. CASE q = Len(s) + 1
    <3>1. p = Len(t) + 1
      <4> SUFFICES ASSUME p \in 1..Len(t) PROVE FALSE
        BY <1>8
      <4>1. t[p] > y /\ t[p] = s[r - 1 + p]
        <5>1. p \in DOMAIN t /\ p >= p
          BY <1>6
        <5> QED BY <1>5, <1>6, <5>1
      <4>2. r - 1 + p \in DOMAIN s
        BY <1>1, <1>6
      <4>3. r - 1 + p >= q
        BY <1>4, <4>1, <4>2
      <4> QED BY <1>1, <2>1, <4>2, <4>3
    <3> QED BY <1>6, <2>1, <3>1
  <2>2. CASE q \in 1..Len(s)
    <3>1. q - r + 1 \in 1..Len(t) /\ t[q - r + 1] = s[q] /\ s[q] > y
      <4>1. q - r + 1 \in 1..Len(t) /\ r - 1 + (q - r + 1) = q
        BY <1>6, <1>9, <2>2
      <4>2. t[q - r + 1] = s[r - 1 + (q - r + 1)]
        BY <1>6, <4>1
      <4> QED BY <1>1, <1>4, <2>2, <4>1, <4>2
    <3>2. q - r + 1 >= p
      BY <1>5, <1>6, <3>1
    <3>3. p \in 1..Len(t)
      BY <1>8, <3>1, <3>2
    <3>4. t[p] > y /\ t[p] = s[r - 1 + p] /\ r - 1 + p \in 1..Len(s)
      <4>1. t[p] > y /\ t[p] = s[r - 1 + p]
        <5>1. p \in DOMAIN t /\ p >= p
          BY <1>6, <3>3
        <5> QED BY <1>5, <1>6, <3>3, <5>1
      <4>2. r - 1 + p \in 1..Len(s)
        BY <1>1, <1>6, <3>3
      <4> QED BY <4>1, <4>2
    <3>5. r - 1 + p >= q
      BY <1>1, <1>4, <3>4
    <3> QED BY <1>6, <1>7, <1>8, <3>2, <3>5
  <2> QED BY <1>7, <2>1, <2>2
<1>11. Len(u) = Len(v) /\ Len(v) <= Len(t)
  BY <1>1, <1>6, <1>7, <1>8, <1>9, <1>10
<1>12. ASSUME NEW j \in 1..Len(u) PROVE u[j] = v[j]
  <2>1. u[j] = t[p - 1 + j] /\ p - 1 + j \in 1..Len(t) /\ v[j] = s[q - 1 + j]
    <3>1. u[j] = t[p - 1 + j]
      BY <1>8
    <3>2. v[j] = s[q - 1 + j]
      BY <1>7, <1>11
    <3>3. p - 1 + j \in 1..Len(t)
      <4>1. j \in Nat /\ j >= 1 /\ j <= Len(t) - p + 1
        BY <1>8
      <4>2. Len(t) \in Nat /\ p \in Nat /\ p >= 1
        BY <1>6, <1>8
      <4> QED BY <4>1, <4>2
    <3> QED BY <3>1, <3>2, <3>3
  <2>2. t[p - 1 + j] = s[r - 1 + (p - 1 + j)] /\ r - 1 + (p - 1 + j) = q - 1 + j
    <3>1. t[p - 1 + j] = s[r - 1 + (p - 1 + j)]
      BY <1>6, <2>1
    <3>2. j \in Nat /\ q \in Nat /\ r \in Nat
      BY <1>6, <1>7
    <3> QED BY <1>10, <3>1, <3>2
  <2> QED BY <2>1, <2>2
<1>13. u = v
  BY <1>7, <1>8, <1>11, <1>12, ListEqual
<1> QED BY <1>11, <1>13 DEF t, u, v

\* A new moment comes last.
LEMMA LaterAppend ==
  ASSUME NEW n \in Nat, NEW s \in Moments(n), NEW m \in Nat, n <= m
  PROVE  /\ Append(s, m) \in Moments(m) /\ Append(s, m) # <<>> /\ Last(Append(s, m)) = m
         /\ Len(Append(s, m)) = Len(s) + 1
         /\ \A x \in Int : x < m => Later(Append(s, m), x) = Append(Later(s, x), m)
<1> DEFINE a == Append(s, m)
<1>1. s \in Seq(Nat) /\ Len(s) \in Nat /\ DOMAIN s = 1..Len(s) /\ Rising(s) /\ \A i \in DOMAIN s : s[i] <= n
  BY DEF Moments
<1>2. /\ a \in Seq(Nat) /\ Len(a) = Len(s) + 1 /\ DOMAIN a = 1..Len(s) + 1 /\ a[Len(s) + 1] = m
      /\ \A i \in 1..Len(s) : a[i] = s[i]
  BY <1>1
<1>3. Last(a) = m /\ a # <<>>
  BY <1>1, <1>2 DEF Last
<1> HIDE DEF a
<1>4. \A i \in DOMAIN a : a[i] <= m
  BY <1>1, <1>2
<1>5. Rising(a)
  <2> SUFFICES ASSUME NEW i \in DOMAIN a, NEW j \in DOMAIN a, i <= j PROVE a[i] <= a[j]
    BY DEF Rising
  <2>1. CASE j = Len(s) + 1
    BY <1>2, <1>4, <2>1
  <2>2. CASE j # Len(s) + 1
    <3>1. i \in 1..Len(s) /\ j \in 1..Len(s)
      BY <1>1, <1>2, <2>2
    <3> QED BY <1>1, <1>2, <3>1 DEF Rising
  <2> QED BY <2>1, <2>2
<1>6. a \in Moments(m)
  BY <1>2, <1>4, <1>5 DEF Moments
<1>7. ASSUME NEW x \in Int, x < m PROVE Later(a, x) = Append(Later(s, x), m)
  <2> DEFINE t == Later(s, x)
             u == Later(a, x)
  <2>1. PICK r : DropsTo(t, s, r) /\ \A k \in DOMAIN s : s[k] > x <=> k >= r
    BY LaterIs
  <2>2. PICK q : DropsTo(u, a, q) /\ \A k \in DOMAIN a : a[k] > x <=> k >= q
    BY <1>6, LaterIs
  <2> HIDE DEF t, u
  <2>3. /\ t \in Seq(Nat) /\ Len(t) \in Nat /\ Len(t) = Len(s) - r + 1 /\ r \in 1..Len(s) + 1
        /\ \A j \in 1..Len(t) : t[j] = s[r - 1 + j]
    BY <1>1, <2>1 DEF DropsTo
  <2>4. /\ u \in Seq(Nat) /\ Len(u) \in Nat /\ Len(u) = Len(s) - q + 2 /\ q \in 1..Len(s) + 2
        /\ \A j \in 1..Len(u) : u[j] = a[q - 1 + j]
    BY <1>1, <1>2, <2>2 DEF DropsTo
  <2>5. q <= Len(s) + 1
    BY <1>1, <1>2, <1>7, <2>2
  <2>6. q = r
    <3>1. q <= r
      <4>1. CASE r = Len(s) + 1
        BY <2>5, <4>1
      <4>2. CASE r \in 1..Len(s)
        <5>1. s[r] > x
          BY <1>1, <2>1, <4>2
        <5>2. a[r] = s[r] /\ r \in DOMAIN a
          BY <1>1, <1>2, <4>2
        <5> QED BY <2>2, <5>1, <5>2
      <4> QED BY <2>3, <4>1, <4>2
    <3>2. r <= q
      <4>1. CASE q = Len(s) + 1
        BY <2>3, <4>1
      <4>2. CASE q \in 1..Len(s)
        <5>1. a[q] = s[q] /\ q \in DOMAIN s /\ q \in DOMAIN a
          BY <1>1, <1>2, <4>2
        <5>2. a[q] > x
          <6>1. q >= q
            BY <2>4
          <6> QED BY <2>2, <5>1, <6>1
        <5> QED BY <2>1, <5>1, <5>2
      <4> QED BY <2>4, <2>5, <4>1, <4>2
    <3> QED BY <2>3, <2>4, <3>1, <3>2
  <2>7. Append(t, m) \in Seq(Nat) /\ Len(Append(t, m)) = Len(t) + 1 /\ Append(t, m)[Len(t) + 1] = m
        /\ \A j \in 1..Len(t) : Append(t, m)[j] = t[j]
    <3>1. t \in Seq(Nat) /\ m \in Nat
      BY <2>3
    <3> QED BY <3>1, ListAppend
  <2>8. Len(u) = Len(t) + 1
    BY <1>1, <2>3, <2>4, <2>6
  <2>9. ASSUME NEW j \in 1..Len(u) PROVE u[j] = Append(t, m)[j]
    <3>1. CASE j = Len(t) + 1
      <4>1. u[j] = a[Len(s) + 1]
        <5>1. q - 1 + j = Len(s) + 1
          BY <1>1, <2>3, <2>6, <3>1
        <5> QED BY <2>4, <5>1
      <4> QED BY <1>2, <2>7, <3>1, <4>1
    <3>2. CASE j # Len(t) + 1
      <4>1. j \in 1..Len(t) /\ r - 1 + j \in 1..Len(s)
        <5>1. j \in 1..Len(t)
          BY <2>3, <2>8, <3>2
        <5> QED BY <1>1, <2>3, <5>1
      <4>2. u[j] = a[r - 1 + j] /\ t[j] = s[r - 1 + j] /\ a[r - 1 + j] = s[r - 1 + j]
        BY <1>2, <2>3, <2>4, <2>6, <4>1
      <4> QED BY <2>7, <4>1, <4>2
    <3> QED BY <3>1, <3>2
  <2>10. u = Append(t, m)
    <3> HIDE <2>7
    <3> QED BY <2>4, <2>7, <2>8, <2>9, ListEqual
  <2> QED BY <2>10 DEF t, u
<1> QED BY <1>2, <1>3, <1>6, <1>7 DEF a

LEMMA NoMoments ==
  ASSUME NEW n \in Nat
  PROVE  /\ <<>> \in Moments(n) /\ \A x \in Int : Later(<<>>, x) = <<>>
         /\ \A m \in Nat : n <= m => Moments(n) \subseteq Moments(m)
<1>1. <<>> \in Moments(n)
  BY DEF Moments, Rising
<1>2. \A x \in Int : Later(<<>>, x) = <<>>
  BY DEF Later, FromFirst
<1>3. ASSUME NEW m \in Nat, n <= m, NEW s \in Moments(n) PROVE s \in Moments(m)
  BY <1>3 DEF Moments
<1> QED BY <1>1, <1>2, <1>3
=============================================================================
