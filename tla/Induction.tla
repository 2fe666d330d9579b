----------------------------- MODULE Induction ------------------------------
(***************************************************************************)
(* Induction over numbers and sequences in the form the provers can use.   *)
(* The library states induction for an operator, NEW P(_), which no        *)
(* back-end instantiates; a set of numbers that has an element has a       *)
(* least one says the same of sets, and of the counterexamples to a claim  *)
(* the least contradicts it.                                               *)
(***************************************************************************)
EXTENDS Integers, Sequences, SequencesExt, FiniteSets, FiniteSetsExt, Functions, TLAPS,
        WellFoundedInduction, FiniteSetTheorems, SequenceTheorems

\* From the well-foundedness of the order of the naturals.
LEMMA LeastNatural == ASSUME NEW T, T \subseteq Nat, T # {}  PROVE \E m \in T : \A n \in T : m <= n
<1>1. IsWellFoundedOn(OpToRel(<,Nat), Nat)
  BY NatLessThanWellFounded
<1>2. \E m \in T : \A n \in T : ~(<<n, m>> \in OpToRel(<,Nat))
  BY <1>1, WFMin
<1>3. \A n, m \in Nat : <<n, m>> \in OpToRel(<,Nat) <=> n < m
  BY DEF OpToRel
<1>4. PICK m \in T : \A n \in T : ~(n < m)
  BY <1>2, <1>3
<1>. QED  BY <1>4

\* The same for a set of numbers that holds zero and each successor.
LEMMA InductiveSet ==
    ASSUME NEW T, 0 \in T, \A n \in Nat : n \in T => n + 1 \in T
    PROVE  Nat \subseteq T
<1>1. SUFFICES ASSUME Nat \ T # {}  PROVE FALSE
  OBVIOUS
<1>2. PICK m \in Nat \ T : \A n \in Nat \ T : m <= n
  BY <1>1, LeastNatural
<1>3. m # 0 /\ m - 1 \in Nat /\ m - 1 \in T
  BY <1>2
<1>. QED  BY <1>2, <1>3

\* Induction over the subsets of a finite set: T holds each whose parts, short
\* of one element, it holds.
Grows(T, S) == \A s \in SUBSET S : (\A x \in s : s \ {x} \in T) => s \in T

LEMMA FiniteSubsets ==
    ASSUME NEW S, IsFiniteSet(S), NEW T, Grows(T, S)
    PROVE  SUBSET S \subseteq T
<1> DEFINE N == {k \in Nat : \A s \in SUBSET S : Cardinality(s) = k => s \in T}
<1>1. \A s \in SUBSET S : /\ IsFiniteSet(s) /\ Cardinality(s) \in Nat /\ (Cardinality(s) = 0 => s = {})
                          /\ \A x \in s : s \ {x} \in SUBSET S /\ Cardinality(s \ {x}) = Cardinality(s) - 1
  BY FS_Subset, FS_CardinalityType, FS_EmptySet, FS_RemoveElement
<1>2. 0 \in N
  BY <1>1 DEF Grows
<1>3. ASSUME NEW k \in Nat, k \in N
      PROVE  k + 1 \in N
  <2>1. ASSUME NEW s \in SUBSET S, Cardinality(s) = k + 1
        PROVE  s \in T
    <3>1. \A x \in s : s \ {x} \in SUBSET S /\ Cardinality(s \ {x}) = k
      <4>1. ASSUME NEW x \in s  PROVE Cardinality(s \ {x}) = k
        <5>1. Cardinality(s \ {x}) = Cardinality(s) - 1
          BY <1>1
        <5>. QED  BY <2>1, <5>1
      <4>. QED  BY <4>1
    <3>2. \A t \in SUBSET S : Cardinality(t) = k => t \in T
      BY <1>3
    <3>3. \A x \in s : s \ {x} \in T
      <4>. HIDE DEF N
      <4>. QED  BY <3>1, <3>2
    <3>. QED  BY <3>3 DEF Grows
  <2>. QED  BY <2>1
<1>. HIDE DEF N
<1>4. Nat \subseteq N
  BY <1>2, <1>3, InductiveSet
<1>. QED  BY <1>1, <1>4 DEF N

-----------------------------------------------------------------------------
(* Images of finite sets, under a function: the library's theorem is about *)
(* an operator.                                                            *)

LEMMA ImageIsFinite ==
    ASSUME NEW S, IsFiniteSet(S), NEW f
    PROVE  /\ IsFiniteSet({f[x] : x \in S})
           /\ Cardinality({f[x] : x \in S}) <= Cardinality(S)
           /\ (\A x, y \in S : f[x] = f[y] => x = y) => Cardinality({f[x] : x \in S}) = Cardinality(S)
<1> DEFINE image == {f[x] : x \in S}
           g == [x \in S |-> f[x]]
<1>1. g \in [S -> image] /\ \A t \in image : \E x \in S : g[x] = t
  OBVIOUS
<1>2. g \in Surjection(S, image)
  BY <1>1 DEF Surjection
<1>3. (\A x, y \in S : f[x] = f[y] => x = y) => g \in Injection(S, image)
  BY <1>1 DEF Injection, IsInjective
<1>. HIDE DEF g, image
<1>4. IsFiniteSet(image) /\ Cardinality(image) <= Cardinality(S)
      /\ (g \in Injection(S, image) => Cardinality(image) = Cardinality(S))
  BY <1>2, FS_Surjection
<1>. QED  BY <1>3, <1>4 DEF image

-----------------------------------------------------------------------------
(* Least and greatest elements. *)

\* Of finitely many things one has the least number, and one the greatest.
LEMMA Extremes ==
    ASSUME NEW S, IsFiniteSet(S), S # {}, NEW val \in [S -> Int]
    PROVE  \E lo, hi \in S : \A x \in S : val[lo] <= val[x] /\ val[x] <= val[hi]
<1> DEFINE Bounded(s) == \E lo, hi \in s : \A x \in s : val[lo] <= val[x] /\ val[x] <= val[hi]
           Upto(k) == \A s \in SUBSET S : s # {} /\ Cardinality(s) <= k => Bounded(s)
           T == {k \in Nat : Upto(k)}
<1>1. \A s \in SUBSET S : IsFiniteSet(s) /\ Cardinality(s) \in Nat /\ (Cardinality(s) = 0 <=> s = {})
  BY FS_Subset, FS_CardinalityType, FS_EmptySet
<1>2. Upto(0)
  <2>1. \A s \in SUBSET S : Cardinality(s) <= 0 => s = {}
    BY <1>1
  <2>. HIDE DEF Bounded
  <2>. QED  BY <2>1
<1>3. ASSUME NEW k \in Nat, Upto(k)
      PROVE  Upto(k + 1)
  <2>1. SUFFICES ASSUME NEW s \in SUBSET S, s # {}, Cardinality(s) <= k + 1
                 PROVE  Bounded(s)
    OBVIOUS
  <2>2. PICK y \in s : TRUE
    BY <2>1
  <2> DEFINE rest == s \ {y}
  <2>3. rest \in SUBSET S /\ Cardinality(rest) <= k
    BY <1>1, <2>1, <2>2, FS_RemoveElement
  <2>4. CASE rest = {}
    <3>1. \A x \in s : x = y
      BY <2>4
    <3>. QED  BY <2>2, <3>1
  <2>5. CASE rest # {}
    <3>1. PICK lo, hi \in rest : \A x \in rest : val[lo] <= val[x] /\ val[x] <= val[hi]
      BY <1>3, <2>3, <2>5
    <3> DEFINE a == IF val[y] <= val[lo] THEN y ELSE lo
               b == IF val[hi] <= val[y] THEN y ELSE hi
    <3>2. a \in s /\ b \in s /\ val[lo] \in Int /\ val[hi] \in Int /\ val[y] \in Int
      BY <2>2
    <3>3. \A x \in s : val[a] <= val[x] /\ val[x] <= val[b]
      <4>1. \A x \in s : val[x] \in Int /\ (x = y \/ x \in rest)
        OBVIOUS
      <4>. HIDE DEF rest
      <4>. QED  BY <3>1, <3>2, <4>1
    <3>. HIDE DEF a, b
    <3>. QED  BY <3>2, <3>3
  <2>. QED  BY <2>4, <2>5
<1>. HIDE DEF Upto
<1>4. \A k \in Nat : k \in T => k + 1 \in T
  BY <1>3
<1>5. Cardinality(S) \in T
  <2>1. 0 \in T
    BY <1>2
  <2>. HIDE DEF T
  <2>. QED  BY <1>1, <1>4, <2>1, InductiveSet
<1>6. Bounded(S)
  <2>1. S \in SUBSET S /\ Cardinality(S) <= Cardinality(S)
    BY <1>1
  <2>. HIDE DEF Bounded
  <2>. QED  BY <1>5, <2>1 DEF Upto
<1>. QED  BY <1>6

LEMMA MaxOfNumbers ==
    ASSUME NEW S, IsFiniteSet(S), S # {}, S \subseteq Int
    PROVE  /\ Max(S) \in S /\ \A x \in S : x <= Max(S)
           /\ Min(S) \in S /\ \A x \in S : Min(S) <= x
<1> DEFINE val == [x \in S |-> x]
<1>1. PICK lo, hi \in S : \A x \in S : val[lo] <= val[x] /\ val[x] <= val[hi]
  <2>1. val \in [S -> Int]
    OBVIOUS
  <2>. HIDE DEF val
  <2>. QED  BY <2>1, Extremes
<1>2. /\ \E a \in S : \A x \in S : a >= x
      /\ \E a \in S : \A x \in S : a <= x
  BY <1>1
<1>. QED  BY <1>2 DEF Max, Min

\* Of the first numbers the last is the greatest.
LEMMA LastIsMax ==
    ASSUME NEW k \in Nat, k > 0
    PROVE  Max(1..k) = k /\ (1..k) \ {k} = 1..(k - 1)
<1> DEFINE D == 1..k
<1>1. IsFiniteSet(D)
  BY FS_Interval
<1>2. k \in D /\ D \subseteq Int /\ (\A x \in D : x \in Int /\ x <= k) /\ D \ {k} = 1..(k - 1)
  OBVIOUS
<1>. HIDE DEF D
<1>3. Max(D) \in D /\ \A x \in D : x <= Max(D)
  BY <1>1, <1>2, MaxOfNumbers
<1>4. Max(D) = k
  BY <1>2, <1>3
<1>. QED  BY <1>2, <1>4 DEF D

\* A set of some of them has a greatest.
LEMMA MaxIsPicked ==
    ASSUME NEW n \in Nat
    PROVE  /\ IsFiniteSet(1..n)
           /\ \A s \in SUBSET (1..n) : s # {} => Max(s) \in s /\ Max(s) \in 1..n /\ s \ {Max(s)} \in SUBSET (1..n)
<1> DEFINE D == 1..n
<1>1. IsFiniteSet(D) /\ D \subseteq Int
  BY FS_Interval
<1>. HIDE DEF D
<1>2. ASSUME NEW s \in SUBSET D, s # {}
      PROVE  Max(s) \in s
  <2>1. IsFiniteSet(s) /\ s \subseteq Int
    BY <1>1, FS_Subset
  <2>. QED  BY <1>2, <2>1, MaxOfNumbers
<1>3. \A s \in SUBSET D : s # {} => Max(s) \in s /\ Max(s) \in D /\ s \ {Max(s)} \in SUBSET D
  BY <1>2
<1>. QED  BY <1>1, <1>3 DEF D

-----------------------------------------------------------------------------
(* Folds over finite sets.  What a fold does with the element it picks is  *)
(* a function here, so that one lemma serves every fold.                   *)

Foldable(S, X, base, pick, next) ==
    /\ IsFiniteSet(S) /\ \A s \in SUBSET S : s # {} => pick[s] \in s
    /\ base \in X /\ next \in [S -> [X -> X]]

Folds(g, S, base, pick, next) ==
    \A s \in SUBSET S : g[s] = IF s = {} THEN base ELSE next[pick[s]][g[s \ {pick[s]}]]

\* There is a function that recurs as a fold demands, whatever is picked.
LEMMA FoldExists ==
    ASSUME NEW S, NEW X, NEW base, NEW pick, NEW next, Foldable(S, X, base, pick, next)
    PROVE  \E g \in [SUBSET S -> X] : Folds(g, S, base, pick, next)
<1>0. /\ IsFiniteSet(S) /\ \A s \in SUBSET S : s # {} => pick[s] \in s
      /\ base \in X /\ next \in [S -> [X -> X]]
  BY DEF Foldable
<1> DEFINE Recurring(g, s) == g[s] = IF s = {} THEN base ELSE next[pick[s]][g[s \ {pick[s]}]]
           Upto(k) == \E g \in [SUBSET S -> X] : \A s \in SUBSET S : Cardinality(s) <= k => Recurring(g, s)
           T == {k \in Nat : Upto(k)}
<1>1. \A s \in SUBSET S : IsFiniteSet(s) /\ Cardinality(s) \in Nat /\ (Cardinality(s) = 0 <=> s = {})
  BY <1>0, FS_Subset, FS_CardinalityType, FS_EmptySet
<1>2. Upto(0)
  <2> DEFINE g == [s \in SUBSET S |-> base]
  <2>1. g \in [SUBSET S -> X]
    BY <1>0
  <2>2. \A s \in SUBSET S : Cardinality(s) <= 0 => s = {} /\ g[s] = base
    BY <1>1
  <2>. QED  BY <2>1, <2>2
<1>3. ASSUME NEW k \in Nat, Upto(k)
      PROVE  Upto(k + 1)
  <2>1. PICK g \in [SUBSET S -> X] : \A s \in SUBSET S : Cardinality(s) <= k => Recurring(g, s)
    BY <1>3
  <2> DEFINE h == [s \in SUBSET S |-> IF Cardinality(s) = k + 1 THEN next[pick[s]][g[s \ {pick[s]}]] ELSE g[s]]
  <2>2. \A s \in SUBSET S : s # {} =>
            /\ pick[s] \in S /\ s \ {pick[s]} \in SUBSET S
            /\ Cardinality(s \ {pick[s]}) = Cardinality(s) - 1
    BY <1>0, <1>1, FS_RemoveElement
  <2>3. h \in [SUBSET S -> X]
    <3>1. \A s \in SUBSET S : Cardinality(s) = k + 1 => s # {}
      BY <1>1
    <3>2. \A s \in SUBSET S : Cardinality(s) = k + 1 => next[pick[s]][g[s \ {pick[s]}]] \in X
      BY <1>0, <2>2, <3>1
    <3>. QED  BY <3>2
  <2>4. ASSUME NEW s \in SUBSET S, Cardinality(s) <= k + 1
        PROVE  Recurring(h, s)
    <3>1. s # {} => h[s \ {pick[s]}] = g[s \ {pick[s]}]
      <4>1. s # {} => Cardinality(s \ {pick[s]}) # k + 1 /\ s \ {pick[s]} \in SUBSET S
        BY <1>1, <2>2, <2>4
      <4>. QED  BY <4>1
    <3>2. CASE Cardinality(s) = k + 1
      <4>1. s # {}
        BY <1>1, <3>2
      <4>. QED  BY <3>1, <3>2, <4>1
    <3>3. CASE Cardinality(s) # k + 1
      <4>1. Cardinality(s) <= k /\ h[s] = g[s]
        BY <1>1, <2>4, <3>3
      <4>. QED  BY <2>1, <3>1, <4>1
    <3>. QED  BY <3>2, <3>3
  <2>. HIDE DEF h
  <2>. QED  BY <2>3, <2>4
<1>. HIDE DEF Upto
<1>4. \A k \in Nat : k \in T => k + 1 \in T
  BY <1>3
<1>5. Cardinality(S) \in T
  <2>1. 0 \in T
    BY <1>2
  <2>. HIDE DEF T
  <2>. QED  BY <1>1, <1>4, <2>1, InductiveSet
<1>6. PICK g \in [SUBSET S -> X] : \A s \in SUBSET S : Cardinality(s) <= Cardinality(S) => Recurring(g, s)
  BY <1>5 DEF Upto
<1>7. \A s \in SUBSET S : Cardinality(s) <= Cardinality(S)
  BY <1>0, FS_Subset
<1>. QED  BY <1>6, <1>7 DEF Folds

Steps(n, X, base, next) == n \in Nat /\ base \in X /\ next \in [1..n -> [X -> X]]

FoldsUp(g, n, base, next) ==
    \A s \in SUBSET (1..n) : g[s] = IF s = {} THEN base ELSE next[Max(s)][g[s \ {Max(s)}]]

\* The same of a sequence, whose elements are taken from the first to the last.
LEMMA PrefixFoldExists ==
    ASSUME NEW n, NEW X, NEW base, NEW next, Steps(n, X, base, next)
    PROVE  \E g \in [SUBSET (1..n) -> X] : FoldsUp(g, n, base, next)
<1> DEFINE D == 1..n
           pick == [s \in SUBSET D |-> Max(s)]
<1>0. n \in Nat /\ base \in X /\ next \in [1..n -> [X -> X]]
  BY DEF Steps
<1>1. IsFiniteSet(D) /\ \A s \in SUBSET D : s # {} => Max(s) \in s
  BY <1>0, MaxIsPicked
<1>2. next \in [D -> [X -> X]]
  BY <1>0
<1>. HIDE DEF D
<1>3. \A s \in SUBSET D : pick[s] = Max(s)
  OBVIOUS
<1>. HIDE DEF pick
<1>4. \A s \in SUBSET D : s # {} => pick[s] \in s
  BY <1>1, <1>3
<1>5. PICK g \in [SUBSET D -> X] : Folds(g, D, base, pick, next)
  <2>1. Foldable(D, X, base, pick, next)
    BY <1>0, <1>1, <1>2, <1>4 DEF Foldable
  <2>. QED  BY <2>1, FoldExists
<1>6. \A s \in SUBSET D : g[s] = IF s = {} THEN base ELSE next[Max(s)][g[s \ {Max(s)}]]
  BY <1>3, <1>5 DEF Folds
<1>. QED  BY <1>6 DEF D, FoldsUp

\* How it recurs on the prefixes.
LEMMA PrefixFold ==
    ASSUME NEW n \in Nat, NEW base, NEW g, NEW next, FoldsUp(g, n, base, next)
    PROVE  g[1..0] = base /\ \A k \in 1..n : g[1..k] = next[k][g[1..(k - 1)]]
<1>1. g[1..0] = base
  <2>1. 1..0 = {} /\ {} \in SUBSET (1..n)
    OBVIOUS
  <2>. QED  BY <2>1 DEF FoldsUp
<1>2. ASSUME NEW k \in 1..n
      PROVE  g[1..k] = next[k][g[1..(k - 1)]]
  <2>1. k \in Nat /\ k > 0 /\ k \in 1..k /\ 1..k \in SUBSET (1..n) /\ 1..k # {}
    OBVIOUS
  <2>2. Max(1..k) = k /\ (1..k) \ {k} = 1..(k - 1)
    BY <2>1, LastIsMax
  <2> DEFINE s == 1..k
  <2>3. g[s] = next[Max(s)][g[s \ {Max(s)}]]
    BY <2>1 DEF FoldsUp
  <2>. QED  BY <2>2, <2>3
<1>. QED  BY <1>1, <1>2

-----------------------------------------------------------------------------
(* Sums over finite sets. *)

IterSum(f, S) ==
    LET iter[s \in SUBSET S] ==
            IF s = {} THEN 0 ELSE LET x == CHOOSE x \in s : TRUE IN f[x] + iter[s \ {x}]
    IN  iter

\* g gives each subset of S the sum of f over it, whatever element is taken last.
SumsUp(g, f, S) ==
    (\A s \in SUBSET S : g[s] \in Int) /\ g[{}] = 0 /\ \A s \in SUBSET S : \A x \in s : g[s] = f[x] + g[s \ {x}]

LEMMA SumExists ==
    ASSUME NEW S, IsFiniteSet(S), NEW f \in [S -> Int]
    PROVE  \E g : SumsUp(g, f, S) /\ SumFunction(f) = g[S]
<1> DEFINE pick == [s \in SUBSET S |-> CHOOSE x \in s : TRUE]
           next == [x \in S |-> [n \in Int |-> f[x] + n]]
           Good(h) == h = [s \in SUBSET S |-> IF s = {} THEN 0
                                              ELSE LET x == CHOOSE x \in s : TRUE IN f[x] + h[s \ {x}]]
           g == IterSum(f, S)
<1>1. SumFunction(f) = IterSum(f, DOMAIN f)[DOMAIN f]
  BY DEF SumFunction, SumFunctionOnSet, FoldFunctionOnSet, MapThenFoldSet, IterSum
<1>2. SumFunction(f) = g[S]
  <2>1. DOMAIN f = S
    OBVIOUS
  <2>. HIDE DEF g
  <2>. QED  BY <1>1, <2>1 DEF g
<1>3. \A s \in SUBSET S : s # {} => pick[s] \in s /\ pick[s] = CHOOSE x \in s : TRUE
  OBVIOUS
<1>4. PICK h \in [SUBSET S -> Int] : Folds(h, S, 0, pick, next)
  <2>1. Foldable(S, Int, 0, pick, next)
    BY <1>3 DEF Foldable
  <2>. HIDE DEF pick, next
  <2>. QED  BY <2>1, FoldExists
<1>5. Good(h)
  <2>1. \A s \in SUBSET S : h[s] = IF s = {} THEN 0 ELSE f[pick[s]] + h[s \ {pick[s]}]
    <3>1. \A s \in SUBSET S : s # {} => pick[s] \in S /\ h[s \ {pick[s]}] \in Int
      BY <1>3
    <3>. QED  BY <1>4, <3>1 DEF Folds
  <2>. HIDE DEF pick
  <2>. QED  BY <1>3, <2>1
<1>6. Good(g)
  <2>1. g = CHOOSE k : Good(k)
    BY DEF IterSum
  <2>. HIDE DEF Good, g
  <2>. QED  BY <1>5, <2>1
<1>. HIDE DEF g
<1>7. \A s \in SUBSET S : g[s] = IF s = {} THEN 0 ELSE f[pick[s]] + g[s \ {pick[s]}]
  BY <1>6
<1>. HIDE DEF pick, next
<1>8. g[{}] = 0
  BY <1>7
<1>9. \A s \in SUBSET S : g[s] \in Int
  <2> DEFINE T == {s \in SUBSET S : g[s] \in Int}
  <2>1. ASSUME NEW s \in SUBSET S, \A x \in s : s \ {x} \in T
        PROVE  s \in T
    <3>1. CASE s = {}
      BY <1>8, <3>1
    <3>2. CASE s # {}
      <4>1. pick[s] \in s /\ g[s] = f[pick[s]] + g[s \ {pick[s]}]
        BY <1>3, <1>7, <3>2
      <4>2. s \ {pick[s]} \in T
        BY <2>1, <4>1
      <4>3. g[s \ {pick[s]}] \in Int /\ f[pick[s]] \in Int
        BY <4>1, <4>2
      <4>. QED  BY <4>1, <4>3
    <3>. QED  BY <3>1, <3>2
  <2>. HIDE DEF T
  <2>2. SUBSET S \subseteq T
    <3>1. Grows(T, S)
      BY <2>1 DEF Grows
    <3>. QED  BY <3>1, FiniteSubsets
  <2>. QED  BY <2>2 DEF T
<1> DEFINE T == {s \in SUBSET S : \A x \in s : g[s] = f[x] + g[s \ {x}]}
<1>10. ASSUME NEW s \in SUBSET S, \A x \in s : s \ {x} \in T
       PROVE  s \in T
  <2>1. CASE s = {}
    BY <2>1
  <2>2. CASE s # {}
    <3> DEFINE p == pick[s]
    <3>1. p \in s /\ p \in S /\ g[s] = f[p] + g[s \ {p}]
      BY <1>3, <1>7, <2>2
    <3>. HIDE DEF p
    <3>2. ASSUME NEW x \in s, x # p
          PROVE  g[s] = f[x] + g[s \ {x}]
      <4> DEFINE rest == s \ {p, x}
      <4>1. rest = (s \ {p}) \ {x} /\ rest = (s \ {x}) \ {p} /\ x \in s \ {p} /\ p \in s \ {x} /\ x \in S
            /\ rest \in SUBSET S /\ s \ {p} \in SUBSET S /\ s \ {x} \in SUBSET S
        BY <3>1, <3>2
      <4>2. s \ {p} \in T /\ s \ {x} \in T
        BY <1>10, <3>1
      <4>. HIDE DEF rest
      <4>3. g[s \ {p}] = f[x] + g[rest] /\ g[s \ {x}] = f[p] + g[rest]
        BY <4>1, <4>2
      <4>4. g[rest] \in Int /\ g[s \ {p}] \in Int /\ g[s \ {x}] \in Int /\ f[x] \in Int /\ f[p] \in Int
        BY <1>9, <3>1, <4>1
      <4>. QED  BY <3>1, <4>3, <4>4
    <3>. QED  BY <3>1, <3>2
  <2>. QED  BY <2>1, <2>2
<1>11. \A s \in SUBSET S : \A x \in s : g[s] = f[x] + g[s \ {x}]
  <2>. HIDE DEF T
  <2>1. SUBSET S \subseteq T
    <3>1. Grows(T, S)
      BY <1>10 DEF Grows
    <3>. QED  BY <3>1, FiniteSubsets
  <2>. QED  BY <2>1 DEF T
<1>. QED  BY <1>2, <1>8, <1>9, <1>11 DEF SumsUp

\* A sum lies between as many times the least and as many times the greatest.
LEMMA SumIsBetween ==
    ASSUME NEW S, IsFiniteSet(S), NEW f \in [S -> Int], NEW lo \in Int, NEW hi \in Int,
           \A x \in S : lo <= f[x] /\ f[x] <= hi
    PROVE  /\ SumFunction(f) \in Int
           /\ lo * Cardinality(S) <= SumFunction(f) /\ SumFunction(f) <= hi * Cardinality(S)
<1>1. PICK g : SumsUp(g, f, S) /\ SumFunction(f) = g[S]
  BY SumExists
<1> DEFINE T == {s \in SUBSET S : lo * Cardinality(s) <= g[s] /\ g[s] <= hi * Cardinality(s)}
<1>2. ASSUME NEW s \in SUBSET S, \A x \in s : s \ {x} \in T
      PROVE  s \in T
  <2>1. IsFiniteSet(s) /\ Cardinality(s) \in Nat /\ g[s] \in Int
    BY <1>1, FS_Subset, FS_CardinalityType DEF SumsUp
  <2>2. CASE s = {}
    <3>1. Cardinality(s) = 0 /\ g[s] = 0
      BY <1>1, <2>2, FS_EmptySet DEF SumsUp
    <3>2. lo * Cardinality(s) = 0 /\ hi * Cardinality(s) = 0
      BY <3>1
    <3>. QED  BY <3>1, <3>2
  <2>3. CASE s # {}
    <3>1. PICK x \in s : TRUE
      BY <2>3
    <3> DEFINE c == Cardinality(s \ {x})
               d == g[s \ {x}]
    <3>2. Cardinality(s) = c + 1 /\ c \in Nat
      <4>1. IsFiniteSet(s \ {x}) /\ c = Cardinality(s) - 1
        BY <2>1, FS_RemoveElement
      <4>2. c \in Nat
        BY <4>1, FS_CardinalityType
      <4>. QED  BY <2>1, <4>1, <4>2
    <3>3. lo * c <= d /\ d <= hi * c /\ d \in Int /\ g[s] = f[x] + d /\ f[x] \in Int /\ lo <= f[x] /\ f[x] <= hi
      <4>1. s \ {x} \in T
        BY <1>2
      <4>2. lo * c <= d /\ d <= hi * c
        BY <4>1
      <4>3. d \in Int /\ g[s] = f[x] + d
        BY <1>1 DEF SumsUp
      <4>4. f[x] \in Int /\ lo <= f[x] /\ f[x] <= hi
        OBVIOUS
      <4>. QED  BY <4>2, <4>3, <4>4
    <3>. HIDE DEF c, d
    <3>4. lo * (c + 1) = lo * c + lo /\ hi * (c + 1) = hi * c + hi /\ lo * c \in Int /\ hi * c \in Int
      BY <3>2
    <3>. QED  BY <3>2, <3>3, <3>4
  <2>. QED  BY <2>2, <2>3
<1>3. SUBSET S \subseteq T
  <2>. HIDE DEF T
  <2>1. Grows(T, S)
    BY <1>2 DEF Grows
  <2>. QED  BY <2>1, FiniteSubsets
<1>. QED  BY <1>1, <1>3 DEF SumsUp

\* h gives the elements of S other names, R, by which e is what f was.
Moved(h, S, f, R, e) ==
    /\ R = {h[x] : x \in S} /\ \A x, y \in S : h[x] = h[y] => x = y
    /\ f \in [S -> Int] /\ e \in [R -> Int] /\ \A x \in S : e[h[x]] = f[x]

LEMMA SumMoves ==
    ASSUME NEW S, IsFiniteSet(S), NEW f, NEW h, NEW R, NEW e, Moved(h, S, f, R, e)
    PROVE  SumFunction(e) = SumFunction(f)
<1>0. /\ R = {h[x] : x \in S} /\ \A x, y \in S : h[x] = h[y] => x = y
      /\ f \in [S -> Int] /\ e \in [R -> Int] /\ \A x \in S : e[h[x]] = f[x]
  BY DEF Moved
<1>1. PICK g : SumsUp(g, f, S) /\ SumFunction(f) = g[S]
  BY <1>0, SumExists
<1>2. IsFiniteSet(R)
  BY <1>0, ImageIsFinite
<1>3. PICK k : SumsUp(k, e, R) /\ SumFunction(e) = k[R]
  BY <1>0, <1>2, SumExists
<1> DEFINE image == [s \in SUBSET S |-> {h[x] : x \in s}]
           T == {s \in SUBSET S : k[image[s]] = g[s]}
<1>4. ASSUME NEW s \in SUBSET S, \A x \in s : s \ {x} \in T
      PROVE  s \in T
  <2>1. CASE s = {}
    <3>1. image[s] = {}
      BY <2>1
    <3>. QED  BY <1>1, <1>3, <2>1, <3>1 DEF SumsUp
  <2>2. CASE s # {}
    <3>1. PICK x \in s : TRUE
      BY <2>2
    <3>2. image[s \ {x}] = image[s] \ {h[x]} /\ h[x] \in image[s] /\ image[s] \in SUBSET R
      BY <1>0
    <3>. HIDE DEF image
    <3>3. k[image[s]] = e[h[x]] + k[image[s \ {x}]]
      <4>1. k[image[s]] = e[h[x]] + k[image[s] \ {h[x]}]
        BY <1>3, <3>2 DEF SumsUp
      <4>. QED  BY <3>2, <4>1
    <3>4. g[s] = f[x] + g[s \ {x}]
      BY <1>1 DEF SumsUp
    <3>5. k[image[s \ {x}]] = g[s \ {x}]
      <4>1. s \ {x} \in T
        BY <1>4
      <4>. QED  BY <4>1
    <3>6. e[h[x]] = f[x]
      BY <1>0
    <3>7. k[image[s]] = g[s]
      BY <3>3, <3>4, <3>5, <3>6
    <3>. QED  BY <3>7
  <2>. QED  BY <2>1, <2>2
<1>5. SUBSET S \subseteq T
  <2>. HIDE DEF T
  <2>1. Grows(T, S)
    BY <1>4 DEF Grows
  <2>. QED  BY <2>1, FiniteSubsets
<1>6. image[S] = R /\ S \in T
  BY <1>0, <1>5
<1>. QED  BY <1>1, <1>3, <1>6

-----------------------------------------------------------------------------
(* A sum of cardinalities. *)

\* P gives each element of K a part of S, and no element of S is in two.
Parts(P, K, S) ==
    /\ IsFiniteSet(K) /\ IsFiniteSet(S) /\ \A k \in K : P[k] \in SUBSET S
    /\ \A j, k \in K : j # k => P[j] \cap P[k] = {}

LEMMA SumOfParts ==
    ASSUME NEW K, NEW S, NEW P, Parts(P, K, S)
    PROVE  /\ SumFunction([k \in K |-> Cardinality(P[k])]) = Cardinality(UNION {P[k] : k \in K})
           /\ IsFiniteSet(UNION {P[k] : k \in K})
<1> DEFINE f == [k \in K |-> Cardinality(P[k])]
           all == [s \in SUBSET K |-> UNION {P[k] : k \in s}]
<1>0. /\ IsFiniteSet(K) /\ IsFiniteSet(S) /\ \A k \in K : P[k] \in SUBSET S
      /\ \A j, k \in K : j # k => P[j] \cap P[k] = {}
  BY DEF Parts
<1>1. \A k \in K : IsFiniteSet(P[k]) /\ Cardinality(P[k]) \in Nat
  BY <1>0, FS_Subset, FS_CardinalityType
<1>2. f \in [K -> Int]
  BY <1>1
<1>3. \A s \in SUBSET K : all[s] \in SUBSET S /\ IsFiniteSet(all[s])
  <2>1. \A s \in SUBSET K : all[s] \in SUBSET S
    BY <1>0
  <2>. QED  BY <1>0, <2>1, FS_Subset
<1>. HIDE DEF f
<1>4. PICK g : SumsUp(g, f, K) /\ SumFunction(f) = g[K]
  BY <1>0, <1>2, SumExists
<1> DEFINE T == {s \in SUBSET K : g[s] = Cardinality(all[s])}
<1>5. ASSUME NEW s \in SUBSET K, \A x \in s : s \ {x} \in T
      PROVE  s \in T
  <2>1. CASE s = {}
    <3>1. all[s] = {}
      BY <2>1
    <3>. QED  BY <1>4, <2>1, <3>1, FS_EmptySet DEF SumsUp
  <2>2. CASE s # {}
    <3>1. PICK x \in s : TRUE
      BY <2>2
    <3> DEFINE rest == s \ {x}
    <3>2. /\ all[s] = P[x] \cup all[rest] /\ P[x] \cap all[rest] = {}
          /\ rest \in SUBSET K /\ x \in K
      <4>1. all[s] = P[x] \cup all[rest]
        BY <3>1
      <4>2. P[x] \cap all[rest] = {}
        BY <1>0, <3>1
      <4>. QED  BY <4>1, <4>2
    <3>3. g[s] = f[x] + g[rest] /\ g[rest] = Cardinality(all[rest]) /\ f[x] = Cardinality(P[x])
      <4>1. g[s] = f[x] + g[rest]
        BY <1>4 DEF SumsUp
      <4>2. rest \in T
        BY <1>5
      <4>3. f[x] = Cardinality(P[x])
        BY DEF f
      <4>. QED  BY <4>1, <4>2, <4>3
    <3>. HIDE DEF all, rest
    <3> DEFINE A == P[x]
               B == all[rest]
    <3>4. IsFiniteSet(A) /\ IsFiniteSet(B)
      BY <1>1, <1>3, <3>2
    <3>5. Cardinality(A) \in Nat /\ Cardinality(B) \in Nat /\ Cardinality({}) = 0
      BY <3>4, FS_CardinalityType, FS_EmptySet
    <3>6. Cardinality(A \cup B) = Cardinality(A) + Cardinality(B) - Cardinality(A \cap B)
      BY <3>4, FS_Union
    <3>7. A \cap B = {} /\ all[s] = A \cup B
      BY <3>2
    <3>8. g[s] = Cardinality(A) + Cardinality(B)
      BY <3>3
    <3>. HIDE DEF A, B
    <3>9. g[s] = Cardinality(all[s])
      <4>1. Cardinality(A \cap B) = 0
        BY <3>5, <3>7
      <4>2. Cardinality(all[s]) = Cardinality(A) + Cardinality(B) - 0
        BY <3>6, <3>7, <4>1
      <4>. QED  BY <3>5, <3>8, <4>2
    <3>. QED  BY <3>9
  <2>. QED  BY <2>1, <2>2
<1>6. SUBSET K \subseteq T
  <2>. HIDE DEF T, all
  <2>1. Grows(T, K)
    BY <1>5 DEF Grows
  <2>. QED  BY <1>0, <2>1, FiniteSubsets
<1>7. all[K] = UNION {P[k] : k \in K} /\ K \in T
  BY <1>6
<1>8. SumFunction(f) = Cardinality(all[K])
  BY <1>4, <1>7
<1>. QED  BY <1>3, <1>7, <1>8 DEF f

\* A sum of zeros and ones counts the ones.
LEMMA SumOfOnes ==
    ASSUME NEW S, IsFiniteSet(S), NEW f \in [S -> {0, 1}]
    PROVE  SumFunction(f) = Cardinality({x \in S : f[x] = 1})
<1> DEFINE P == [x \in S |-> IF f[x] = 1 THEN {x} ELSE {}]
<1>1. Parts(P, S, S)
  BY DEF Parts
<1>2. [x \in S |-> Cardinality(P[x])] = f
  <2>1. \A x \in S : Cardinality(P[x]) = f[x]
    BY FS_EmptySet, FS_Singleton
  <2>. HIDE DEF P
  <2>. QED  BY <2>1
<1>3. UNION {P[x] : x \in S} = {x \in S : f[x] = 1}
  OBVIOUS
<1>. HIDE DEF P
<1>. QED  BY <1>1, <1>2, <1>3, SumOfParts

-----------------------------------------------------------------------------
(* Sums of sequences. *)

SeqSum(seq) == FoldLeft(+, 0, seq)

Iterate(seq) ==
    LET iter[s \in SUBSET DOMAIN seq] == IF s = {} THEN 0 ELSE iter[s \ {Max(s)}] + seq[Max(s)]
    IN  iter

\* The sum of a sequence is that of one element less, and the last.
LEMMA SumOfPrefixes ==
    ASSUME NEW seq \in Seq(Int)
    PROVE  /\ SeqSum(seq) = Iterate(seq)[1..Len(seq)]
           /\ Iterate(seq)[1..0] = 0
           /\ \A k \in 1..Len(seq) : Iterate(seq)[1..k] = Iterate(seq)[1..(k - 1)] + seq[k]
<1> DEFINE n == Len(seq)
<1>1. n \in Nat /\ DOMAIN seq = 1..n
  OBVIOUS
<1>2. SeqSum(seq) = Iterate(seq)[DOMAIN seq]
  BY DEF SeqSum, FoldLeft, MapThenFoldSet, Iterate
<1> DEFINE next == [i \in 1..n |-> [a \in Int |-> a + seq[i]]]
           Good(f) == f = [s \in SUBSET (1..n) |-> IF s = {} THEN 0 ELSE f[s \ {Max(s)}] + seq[Max(s)]]
<1>. HIDE DEF n
<1>3. PICK g \in [SUBSET (1..n) -> Int] :
          \A s \in SUBSET (1..n) : g[s] = IF s = {} THEN 0 ELSE next[Max(s)][g[s \ {Max(s)}]]
  <2>1. Steps(n, Int, 0, next)
    BY <1>1 DEF Steps
  <2>. HIDE DEF next, Good
  <2>2. \E g \in [SUBSET (1..n) -> Int] : FoldsUp(g, n, 0, next)
    BY <2>1, PrefixFoldExists
  <2>. QED  BY <2>2 DEF FoldsUp
<1>4. \A s \in SUBSET (1..n) : s # {} => Max(s) \in 1..n /\ s \ {Max(s)} \in SUBSET (1..n)
  BY <1>1, MaxIsPicked
<1>5. Good(g)
  <2>1. \A s \in SUBSET (1..n) : g[s] = IF s = {} THEN 0 ELSE g[s \ {Max(s)}] + seq[Max(s)]
    BY <1>3, <1>4
  <2>. QED  BY <2>1
<1>6. Good(Iterate(seq))
  <2>1. Iterate(seq) = CHOOSE f : Good(f)
    BY <1>1 DEF Iterate
  <2>. HIDE DEF Good
  <2>. QED  BY <1>5, <2>1
<1>7. \A s \in SUBSET (1..n) :
          Iterate(seq)[s] = IF s = {} THEN 0 ELSE Iterate(seq)[s \ {Max(s)}] + seq[Max(s)]
  BY <1>6
<1>8. Iterate(seq)[1..0] = 0
  <2>1. 1..0 = {} /\ {} \in SUBSET (1..n)
    OBVIOUS
  <2>. QED  BY <1>7, <2>1
<1>9. ASSUME NEW k \in 1..n
      PROVE  Iterate(seq)[1..k] = Iterate(seq)[1..(k - 1)] + seq[k]
  <2>1. k \in Nat /\ k > 0 /\ k \in 1..k /\ 1..k \in SUBSET (1..n) /\ 1..k # {}
    BY <1>1
  <2>2. Max(1..k) = k /\ (1..k) \ {k} = 1..(k - 1)
    BY <2>1, LastIsMax
  <2> DEFINE s == 1..k
  <2>3. Iterate(seq)[s] = Iterate(seq)[s \ {Max(s)}] + seq[Max(s)]
    BY <1>7, <2>1
  <2>. QED  BY <2>2, <2>3
<1>. QED  BY <1>1, <1>2, <1>8, <1>9 DEF n

\* The mean of numbers of a range lies in the range.
LEMMA SumIsBounded ==
    ASSUME NEW lo \in Int, NEW hi \in Int, NEW seq \in Seq(lo..hi)
    PROVE  SeqSum(seq) \in Int /\ SeqSum(seq) \in (lo * Len(seq))..(hi * Len(seq))
<1> DEFINE n == Len(seq)
           part(k) == Iterate(seq)[1..k]
           T == {k \in Nat : k <= n => part(k) \in Int /\ lo * k <= part(k) /\ part(k) <= hi * k}
<1>1. n \in Nat /\ seq \in Seq(Int) /\ \A k \in 1..n : seq[k] \in lo..hi
  BY SeqMonotonic
<1>2. /\ SeqSum(seq) = part(n) /\ part(0) = 0
      /\ \A k \in 1..n : part(k) = part(k - 1) + seq[k]
  BY <1>1, SumOfPrefixes
<1>. HIDE DEF n, part
<1>3. 0 \in T
  BY <1>2
<1>4. ASSUME NEW k \in Nat, k \in T, k + 1 <= n
      PROVE  part(k + 1) \in Int /\ lo * (k + 1) <= part(k + 1) /\ part(k + 1) <= hi * (k + 1)
  <2>1. part(k + 1) = part(k) + seq[k + 1] /\ seq[k + 1] \in lo..hi
    BY <1>1, <1>2, <1>4
  <2>2. part(k) \in Int /\ lo * k <= part(k) /\ part(k) <= hi * k
    BY <1>1, <1>4
  <2>3. lo * (k + 1) = lo * k + lo /\ hi * (k + 1) = hi * k + hi /\ lo * k \in Int /\ hi * k \in Int
    OBVIOUS
  <2>4. seq[k + 1] \in Int /\ lo <= seq[k + 1] /\ seq[k + 1] <= hi
    BY <2>1
  <2>. QED  BY <2>1, <2>2, <2>3, <2>4, SMTT(30)
<1>5. \A k \in Nat : k \in T => k + 1 \in T
  BY <1>4
<1>6. n \in T
  <2>. HIDE DEF T
  <2>. QED  BY <1>1, <1>3, <1>5, InductiveSet
<1>. QED  BY <1>1, <1>2, <1>6 DEF n

-----------------------------------------------------------------------------
(* The order of a finite set. *)

StrictOrder(B, S) ==
    /\ \A x \in S : <<x, x>> \notin B
    /\ \A x, y, z \in S : <<x, y>> \in B /\ <<y, z>> \in B => <<x, z>> \in B
    /\ \A x, y \in S : x = y \/ <<x, y>> \in B \/ <<y, x>> \in B

Ahead(B, S, x) == Cardinality({y \in S : <<y, x>> \in B})
PlacedAt(B, S, n) == CHOOSE x \in S : Ahead(B, S, x) = n - 1

\* The elements by the number of those ahead of them: each has a place, and the
\* places are in order.
InPlaces(B, S) ==
    /\ Cardinality(S) \in Nat
    /\ \A n \in 1..Cardinality(S) : PlacedAt(B, S, n) \in S
    /\ \A i, j \in 1..Cardinality(S) : i < j => <<PlacedAt(B, S, i), PlacedAt(B, S, j)>> \in B
    /\ \A x \in S : \E n \in 1..Cardinality(S) : x = PlacedAt(B, S, n)

LEMMA PlacesAreInOrder ==
    ASSUME NEW S, IsFiniteSet(S), NEW B, StrictOrder(B, S)
    PROVE  InPlaces(B, S)
<1> DEFINE c == Cardinality(S)
           ahead(x) == {y \in S : <<y, x>> \in B}
           f == [x \in S |-> Ahead(B, S, x)]
           D == 0..(c - 1)
           R == {f[x] : x \in S}
<1>1. c \in Nat
  BY FS_CardinalityType
<1>2. \A x \in S : IsFiniteSet(ahead(x)) /\ f[x] = Cardinality(ahead(x)) /\ f[x] \in Nat
  <2>1. \A x \in S : IsFiniteSet(ahead(x)) /\ f[x] = Cardinality(ahead(x))
    BY FS_Subset DEF Ahead
  <2>. HIDE DEF ahead, f
  <2>. QED  BY <2>1, FS_CardinalityType
<1>. f \in [S -> Nat]
  BY <1>2
<1>3. ASSUME NEW x \in S  PROVE f[x] < c
  <2> DEFINE a == ahead(x)
             m == f[x]
  <2>1. a \in SUBSET S /\ a # S
    BY DEF StrictOrder
  <2>2. m = Cardinality(a) /\ m \in Nat
    BY <1>2
  <2>. HIDE DEF a, m
  <2>3. Cardinality(a) <= Cardinality(S) /\ Cardinality(a) # Cardinality(S)
    BY <2>1, FS_Subset
  <2>4. m < Cardinality(S)
    BY <1>1, <2>2, <2>3
  <2>. QED  BY <2>4 DEF m
<1>4. ASSUME NEW x \in S, NEW y \in S, <<x, y>> \in B  PROVE f[x] < f[y]
  <2> DEFINE a == ahead(x)
             b == ahead(y)
             m == f[x]
             n == f[y]
  <2>1. a \in SUBSET b /\ x \in b /\ x \notin a
    BY <1>4 DEF StrictOrder
  <2>2. IsFiniteSet(b) /\ m = Cardinality(a) /\ n = Cardinality(b) /\ m \in Nat /\ n \in Nat
    BY <1>2
  <2>. HIDE DEF a, b, m, n
  <2>3. Cardinality(a) <= Cardinality(b) /\ Cardinality(a) # Cardinality(b)
    BY <2>1, <2>2, FS_Subset
  <2>4. m < n
    BY <2>2, <2>3
  <2>. QED  BY <2>4 DEF m, n
<1>5. \A x, y \in S : f[x] = f[y] => x = y
  <2>1. SUFFICES ASSUME NEW x \in S, NEW y \in S, f[x] = f[y], x # y  PROVE FALSE
    OBVIOUS
  <2>2. <<x, y>> \in B \/ <<y, x>> \in B
    BY <2>1 DEF StrictOrder
  <2>. HIDE DEF f
  <2>. QED  BY <1>4, <2>1, <2>2
<1>. HIDE DEF ahead
<1>6. R = D
  <2>. HIDE DEF f
  <2>1. IsFiniteSet(R) /\ Cardinality(R) = c
    BY <1>5, ImageIsFinite
  <2>2. R \in SUBSET D
    BY <1>1, <1>3
  <2>3. IsFiniteSet(D) /\ Cardinality(D) = c
    <3>1. 0 \in Int /\ c - 1 \in Int
      BY <1>1
    <3>2. IsFiniteSet(0..(c - 1)) /\ Cardinality(0..(c - 1)) = IF 0 > c - 1 THEN 0 ELSE c - 1 - 0 + 1
      BY <3>1, FS_Interval
    <3>. QED  BY <1>1, <3>2
  <2>. HIDE DEF R, D, c
  <2>. QED  BY <2>1, <2>2, <2>3, FS_Subset
<1>7. ASSUME NEW n \in 1..c  PROVE PlacedAt(B, S, n) \in S /\ f[PlacedAt(B, S, n)] = n - 1
  <2>1. n - 1 \in D
    BY <1>1
  <2>2. \E x \in S : f[x] = n - 1
    <3>. HIDE DEF f, D
    <3>. QED  BY <1>6, <2>1
  <2>3. \E x \in S : Ahead(B, S, x) = n - 1
    BY <2>2
  <2>. QED  BY <2>3 DEF PlacedAt
<1>8. ASSUME NEW x \in S  PROVE \E n \in 1..c : x = PlacedAt(B, S, n)
  <2>1. f[x] + 1 \in 1..c
    <3>. HIDE DEF f
    <3>. QED  BY <1>1, <1>3
  <2> DEFINE n == f[x] + 1
  <2>2. n - 1 = f[x]
    <3>. HIDE DEF f
    <3>. QED  OBVIOUS
  <2>. HIDE DEF n, f
  <2>3. PlacedAt(B, S, n) \in S /\ f[PlacedAt(B, S, n)] = f[x] /\ n \in 1..c
    BY <1>7, <2>1, <2>2 DEF n
  <2>. QED  BY <1>5, <2>3
<1>9. ASSUME NEW i \in 1..c, NEW j \in 1..c, i < j  PROVE <<PlacedAt(B, S, i), PlacedAt(B, S, j)>> \in B
  <2> DEFINE p == PlacedAt(B, S, i)
             q == PlacedAt(B, S, j)
  <2>1. p \in S /\ q \in S /\ f[p] = i - 1 /\ f[q] = j - 1
    BY <1>7
  <2>. HIDE DEF p, q, f
  <2>2. f[p] < f[q]
    BY <1>1, <1>9, <2>1
  <2>3. p = q \/ <<p, q>> \in B \/ <<q, p>> \in B
    BY <2>1 DEF StrictOrder
  <2>4. <<q, p>> \in B => f[q] < f[p]
    BY <1>4, <2>1
  <2>5. f[p] \in Nat /\ f[q] \in Nat
    BY <1>2, <2>1
  <2>. QED  BY <2>2, <2>3, <2>4, <2>5 DEF p, q
<1>. QED  BY <1>1, <1>7, <1>8, <1>9 DEF InPlaces
=============================================================================
