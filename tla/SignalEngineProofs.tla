------------------------- MODULE SignalEngineProofs -------------------------
(***************************************************************************)
(* For every set of trades and all periods: the incremental indicators are *)
(* what their definitions over the whole session say, the signals are      *)
(* those of the definitions, the studies are what the tape says, and the   *)
(* value area holds just enough.                                           *)
(* The sums, powers and the growth of the value area are recursive: each   *)
(* is met by induction over a finite set, where strict inclusion is        *)
(* well-founded.  Then one lemma per indicator carries what it holds from  *)
(* a session to the session with one more trade, and the invariant         *)
(* composes them.                                                          *)
(***************************************************************************)
EXTENDS SignalEngine, FiniteSetTheorems, SequenceTheorems, TLAPS

-----------------------------------------------------------------------------
(* Induction: strict inclusion of finite sets is well-founded, so a set of  *)
(* finite sets that holds none has a smallest counterexample.                *)

\* A family of subsets of a finite set has a member no smaller one by an element is in.
LEMMA SmallestSubset ==
    ASSUME NEW S, IsFiniteSet(S), NEW Q \in SUBSET (SUBSET S), Q # {}
    PROVE  \E T \in Q : \A x \in T : T \ {x} \notin Q
<1>1. Q \subseteq FiniteSubsetsOf(S)
  BY FS_FiniteSubsetsOfFinite
<1>2. PICK T \in Q : \A U \in Q : <<U, T>> \notin StrictSubsetOrdering(S)
  BY <1>1, FS_StrictSubsetOrderingWellFounded, WFMin
<1>3. ASSUME NEW x \in T PROVE <<T \ {x}, T>> \in StrictSubsetOrdering(S)
  BY <1>2, <1>3 DEF StrictSubsetOrdering
<1>4. QED
  BY <1>2, <1>3

\* What holds of the empty set, and of a set with one element more, holds of a finite set.
LEMMA SubsetInduction ==
    ASSUME NEW S, IsFiniteSet(S), NEW P \in SUBSET (SUBSET S), {} \in P,
           \A T \in P, x \in S : x \notin T => T \union {x} \in P
    PROVE  S \in P
<1> SUFFICES ASSUME S \notin P PROVE FALSE
  OBVIOUS
<1> DEFINE Q == (SUBSET S) \ P
<1>1. Q \in SUBSET (SUBSET S) /\ Q # {}
  OBVIOUS
<1>2. PICK T \in Q : \A x \in T : T \ {x} \notin Q
  <2> HIDE DEF Q
  <2>1. QED
    BY <1>1, SmallestSubset
<1>3. PICK x \in T : TRUE
  BY <1>2
<1>4. T \ {x} \in P
  BY <1>2, <1>3
<1>5. T = (T \ {x}) \union {x} /\ x \in S /\ x \notin T \ {x}
  BY <1>2, <1>3
<1>6. T \in P
  BY <1>4, <1>5
<1>7. QED
  BY <1>2, <1>6

\* Of a set of numbers that holds 0 and with n also n + 1.
LEMMA NumberInduction ==
    ASSUME NEW n \in Nat, NEW P, 0 \in P, \A k \in 0 .. n : k \in P => k + 1 \in P
    PROVE  n \in P
<1> DEFINE F == {T \in SUBSET (1 .. n) : Cardinality(T) \in P}
<1>1. IsFiniteSet(1 .. n) /\ Cardinality(1 .. n) = n
  BY FS_Interval
<1>2. {} \in F
  BY FS_EmptySet
<1>3. ASSUME NEW T \in F, NEW x \in 1 .. n, x \notin T PROVE T \union {x} \in F
  <2>1. IsFiniteSet(T) /\ Cardinality(T) <= n /\ Cardinality(T) \in Nat
    BY <1>1, FS_Subset, FS_CardinalityType
  <2>2. Cardinality(T \union {x}) = Cardinality(T) + 1
    BY <1>3, <2>1, FS_AddElement
  <2>3. Cardinality(T) + 1 \in P
    BY <2>1
  <2>4. QED
    BY <2>2, <2>3
<1>4. 1 .. n \in F
  <2>1. F \in SUBSET (SUBSET (1 .. n))
    OBVIOUS
  <2> HIDE DEF F
  <2>2. QED
    BY <1>1, <1>2, <1>3, <2>1, SubsetInduction
<1>5. QED
  BY <1>1, <1>4

-----------------------------------------------------------------------------
(* Sums *)

Some(s) == CHOOSE x \in s : TRUE

\* What SumFunctionOnSet(f, S) takes at S.
Folding(f, S, g) == g = [s \in SUBSET S |-> IF s = {} THEN 0 ELSE f[Some(s)] + g[s \ {Some(s)}]]

\* A sum may be taken in any order.
IsSum(f, S, g) ==
    /\ g \in [SUBSET S -> Int] /\ g[{}] = 0
    /\ \A T \in SUBSET S : \A x \in T : g[T] = f[x] + g[T \ {x}]

\* The sum is the value, at the whole set, of the function that folds every subset.
LEMMA SumUnfolds ==
    ASSUME NEW f, NEW S PROVE SumFunctionOnSet(f, S) = (CHOOSE g : Folding(f, S, g))[S]
BY Zenon DEF SumFunctionOnSet, FoldFunctionOnSet, MapThenFoldSet, Folding, Some

\* Such a function exists, built up from the small subsets.
LEMMA FoldingExists ==
    ASSUME NEW f, NEW S, IsFiniteSet(S), \A x \in S : f[x] \in Int
    PROVE  \E g \in [SUBSET S -> Int] : Folding(f, S, g)
<1> DEFINE Small(n) == {s \in SUBSET S : Cardinality(s) <= n}
           Up(n, g) == \A s \in Small(n) :
                           g[s] = IF s = {} THEN 0 ELSE f[Some(s)] + g[s \ {Some(s)}]
           P == {n \in Nat : \E g \in [Small(n) -> Int] : Up(n, g)}
<1>1. \A s \in SUBSET S : /\ IsFiniteSet(s) /\ Cardinality(s) \in Nat
                          /\ Cardinality(s) <= Cardinality(S)
                          /\ (Cardinality(s) = 0 <=> s = {})
  BY FS_Subset, FS_CardinalityType, FS_EmptySet
<1>2. \A s \in SUBSET S : s # {} =>
          /\ Some(s) \in s /\ s \ {Some(s)} \in SUBSET S
          /\ Cardinality(s \ {Some(s)}) = Cardinality(s) - 1
  BY <1>1, FS_RemoveElement DEF Some
<1>3. 0 \in P
  <2>1. Small(0) = {{}}
    BY <1>1
  <2>2. [s \in Small(0) |-> 0] \in [Small(0) -> Int] /\ Up(0, [s \in Small(0) |-> 0])
    BY <2>1
  <2>3. QED
    BY <2>2
<1>4. ASSUME NEW n \in Nat, n \in P PROVE n + 1 \in P
  <2>1. PICK g \in [Small(n) -> Int] : Up(n, g)
    BY <1>4
  <2> DEFINE h == [s \in Small(n + 1) |->
                      IF Cardinality(s) <= n THEN g[s] ELSE f[Some(s)] + g[s \ {Some(s)}]]
  <2>2. ASSUME NEW s \in Small(n + 1), s # {}
        PROVE  s \ {Some(s)} \in Small(n) /\ f[Some(s)] \in Int /\ s \in SUBSET S
               /\ Cardinality(s \ {Some(s)}) <= n
    BY <1>1, <1>2, <2>2
  <2>3. \A s \in Small(n) : s \in Small(n + 1) /\ h[s] = g[s]
    BY <1>1
  <2>4. ASSUME NEW s \in Small(n + 1) PROVE h[s] \in Int
    BY <1>1, <2>1, <2>2
  <2>5. ASSUME NEW s \in Small(n + 1)
        PROVE  h[s] = IF s = {} THEN 0 ELSE f[Some(s)] + h[s \ {Some(s)}]
    <3>1. CASE s = {}
      BY <1>1, <2>1, <2>3, <3>1
    <3>2. CASE s # {} /\ Cardinality(s) <= n
      <4>1. s \in Small(n) /\ s \ {Some(s)} \in Small(n)
        BY <2>2, <3>2
      <4>2. g[s] = f[Some(s)] + g[s \ {Some(s)}]
        BY <2>1, <3>2, <4>1
      <4>3. QED
        BY <2>3, <3>2, <4>1, <4>2
    <3>3. CASE s # {} /\ ~(Cardinality(s) <= n)
      BY <2>2, <2>3, <3>3
    <3>4. QED
      BY <3>1, <3>2, <3>3
  <2>6. h \in [Small(n + 1) -> Int] /\ Up(n + 1, h)
    <3>1. h \in [Small(n + 1) -> Int]
      BY <2>4
    <3> HIDE DEF h, Small
    <3>2. QED
      BY <2>5, <3>1
  <2>7. n + 1 \in Nat
    OBVIOUS
  <2> HIDE DEF h
  <2>8. QED
    BY <2>6, <2>7
<1>5. Cardinality(S) \in P
  <2> HIDE DEF P
  <2>1. QED
    BY <1>1, <1>3, <1>4, NumberInduction
<1>6. PICK g \in [Small(Cardinality(S)) -> Int] : Up(Cardinality(S), g)
  BY <1>5
<1>7. Small(Cardinality(S)) = SUBSET S
  BY <1>1
<1>8. Folding(f, S, g)
  BY <1>6, <1>7 DEF Folding
<1>9. QED
  BY <1>6, <1>7, <1>8

\* It adds in any order: taking out any element takes out its value.
LEMMA FoldingIsSum ==
    ASSUME NEW f, NEW S, IsFiniteSet(S), \A x \in S : f[x] \in Int,
           NEW g \in [SUBSET S -> Int], Folding(f, S, g)
    PROVE  IsSum(f, S, g)
<1> DEFINE Q == {T \in SUBSET S : ~ \A x \in T : g[T] = f[x] + g[T \ {x}]}
<1>1. g[{}] = 0 /\ \A s \in SUBSET S : s # {} => g[s] = f[Some(s)] + g[s \ {Some(s)}]
  BY DEF Folding
<1>2. Q = {}
  <2> SUFFICES ASSUME Q # {} PROVE FALSE
    OBVIOUS
  <2>1. PICK T \in Q : \A x \in T : T \ {x} \notin Q
    <3>1. Q \in SUBSET (SUBSET S)
      OBVIOUS
    <3> HIDE DEF Q
    <3>2. QED
      BY <3>1, SmallestSubset
  <2>2. PICK x \in T : g[T] # f[x] + g[T \ {x}]
    BY <2>1
  <2> DEFINE c == Some(T)
  <2>3. T \in SUBSET S /\ c \in T /\ g[T] = f[c] + g[T \ {c}] /\ c # x
    BY <1>1, <2>1, <2>2 DEF Some
  <2>4. T \ {c} \in SUBSET S /\ T \ {x} \in SUBSET S /\ x \in T \ {c} /\ c \in T \ {x}
    BY <2>2, <2>3
  <2>5. g[T \ {c}] = f[x] + g[(T \ {c}) \ {x}]
    BY <2>1, <2>3, <2>4
  <2>6. g[T \ {x}] = f[c] + g[(T \ {x}) \ {c}]
    BY <2>1, <2>2, <2>4
  <2>7. (T \ {x}) \ {c} = (T \ {c}) \ {x} /\ (T \ {c}) \ {x} \in SUBSET S
    BY <2>3
  <2>8. PICK v \in Int : g[(T \ {c}) \ {x}] = v
    BY <2>7
  <2>9. f[x] \in Int /\ f[c] \in Int
    BY <2>3, <2>4
  <2>10. g[T \ {c}] = f[x] + v /\ g[T \ {x}] = f[c] + v
    BY <2>5, <2>6, <2>7, <2>8
  <2> HIDE DEF c
  <2>11. QED
    BY <2>2, <2>3, <2>9, <2>10
<1>3. QED
  BY <1>1, <1>2 DEF IsSum

\* Two functions that add in any order agree.
LEMMA SumIsUnique ==
    ASSUME NEW f, NEW S, IsFiniteSet(S), NEW g, NEW h,
           IsSum(f, S, g), NEW R, S \subseteq R, IsSum(f, R, h)
    PROVE  g[S] = h[S]
<1> DEFINE P == {T \in SUBSET S : g[T] = h[T]}
<1>1. {} \in P
  BY DEF IsSum
<1>2. ASSUME NEW T \in P, NEW x \in S, x \notin T PROVE T \union {x} \in P
  <2>1. x \in T \union {x} /\ T \union {x} \in SUBSET S /\ T \union {x} \in SUBSET R
        /\ (T \union {x}) \ {x} = T
    BY <1>2
  <2>2. g[T \union {x}] = f[x] + g[(T \union {x}) \ {x}]
        /\ h[T \union {x}] = f[x] + h[(T \union {x}) \ {x}]
    BY <2>1 DEF IsSum
  <2>3. QED
    BY <2>1, <2>2
<1>3. S \in P
  <2>1. P \in SUBSET (SUBSET S)
    OBVIOUS
  <2> HIDE DEF P
  <2>2. QED
    BY <1>1, <1>2, <2>1, SubsetInduction
<1>4. QED
  BY <1>3

\* So the sum is the value of a function that adds in any order.
LEMMA SumIsSum ==
    ASSUME NEW f, NEW S, IsFiniteSet(S), \A x \in S : f[x] \in Int
    PROVE  \E g : IsSum(f, S, g) /\ SumFunctionOnSet(f, S) = g[S]
<1> DEFINE g == CHOOSE h : Folding(f, S, h)
<1>1. PICK h \in [SUBSET S -> Int] : Folding(f, S, h)
  BY FoldingExists
<1>2. Folding(f, S, g)
  BY <1>1
<1>3. \A s \in SUBSET S : s # {} => s \ {Some(s)} \in SUBSET S /\ Some(s) \in S
  BY DEF Some
<1>4. g \in [SUBSET S -> Int]
  <2> HIDE DEF g
  <2> DEFINE Q == {s \in SUBSET S : g[s] \notin Int}
  <2>1. g = [s \in SUBSET S |-> g[s]]
        /\ \A s \in SUBSET S : g[s] = IF s = {} THEN 0 ELSE f[Some(s)] + g[s \ {Some(s)}]
    BY <1>2 DEF Folding
  <2>2. Q = {}
    <3> SUFFICES ASSUME Q # {} PROVE FALSE
      OBVIOUS
    <3>1. PICK T \in Q : \A x \in T : T \ {x} \notin Q
      <4>1. Q \in SUBSET (SUBSET S)
        OBVIOUS
      <4> HIDE DEF Q
      <4>2. QED
        BY <4>1, SmallestSubset
    <3>2. T # {}
      <4>1. {} \in SUBSET S
        OBVIOUS
      <4>2. g[{}] = 0
        BY <2>1, <4>1
      <4>3. g[T] \notin Int
        BY <3>1
      <4>4. QED
        BY <4>2, <4>3
    <3>6. Some(T) \in T
      BY <3>2 DEF Some
    <3>3. g[T] = f[Some(T)] + g[T \ {Some(T)}]
      BY <2>1, <3>1, <3>2
    <3>4. g[T \ {Some(T)}] \in Int /\ f[Some(T)] \in Int
      BY <1>3, <3>1, <3>2, <3>6
    <3>5. QED
      BY <3>1, <3>3, <3>4
  <2>3. QED
    BY <2>1, <2>2
<1>5. IsSum(f, S, g)
  <2> HIDE DEF g
  <2>1. QED
    BY <1>2, <1>4, FoldingIsSum
<1>6. QED
  BY <1>5, SumUnfolds

\* What the rest uses of sums.
LEMMA SumOfNone == ASSUME NEW f PROVE SumFunctionOnSet(f, {}) = 0
BY SumIsSum, FS_EmptySet DEF IsSum

\* A sum of integers is one.
LEMMA SumType ==
    ASSUME NEW f, NEW S, IsFiniteSet(S), \A x \in S : f[x] \in Int
    PROVE  SumFunctionOnSet(f, S) \in Int
<1>1. PICK g : IsSum(f, S, g) /\ SumFunctionOnSet(f, S) = g[S]
  BY SumIsSum
<1>2. QED
  BY <1>1 DEF IsSum

\* One element more adds its value.
LEMMA SumWithOneMore ==
    ASSUME NEW f, NEW S, NEW x, IsFiniteSet(S), x \notin S, \A y \in S \union {x} : f[y] \in Int
    PROVE  SumFunctionOnSet(f, S \union {x}) = SumFunctionOnSet(f, S) + f[x]
<1>1. IsFiniteSet(S \union {x})
  BY FS_AddElement
<1>2. PICK g : IsSum(f, S, g) /\ SumFunctionOnSet(f, S) = g[S]
  BY SumIsSum
<1>3. PICK h : IsSum(f, S \union {x}, h) /\ SumFunctionOnSet(f, S \union {x}) = h[S \union {x}]
  BY <1>1, SumIsSum
<1>4. g[S] = h[S]
  BY <1>2, <1>3, SumIsUnique
<1>5. h[S \union {x}] = f[x] + h[S] /\ h[S] \in Int
  <2>1. (S \union {x}) \ {x} = S /\ S \in SUBSET (S \union {x})
        /\ S \union {x} \in SUBSET (S \union {x}) /\ x \in S \union {x}
    OBVIOUS
  <2>2. QED
    BY <1>3, <2>1 DEF IsSum
<1>6. QED
  BY <1>2, <1>3, <1>4, <1>5

\* Values that agree have the same sum.
LEMMA SumAgrees ==
    ASSUME NEW f, NEW g, NEW S, IsFiniteSet(S), \A x \in S : f[x] \in Int /\ g[x] = f[x]
    PROVE  SumFunctionOnSet(g, S) = SumFunctionOnSet(f, S)
<1> DEFINE P == {T \in SUBSET S : SumFunctionOnSet(g, T) = SumFunctionOnSet(f, T)}
<1>1. {} \in P
  BY SumOfNone
<1>2. ASSUME NEW T \in P, NEW x \in S, x \notin T PROVE T \union {x} \in P
  <2>1. IsFiniteSet(T) /\ (\A y \in T \union {x} : f[y] \in Int)
        /\ (\A y \in T \union {x} : g[y] \in Int)
    BY <1>2, FS_Subset
  <2>2. SumFunctionOnSet(g, T \union {x}) = SumFunctionOnSet(g, T) + g[x]
        /\ SumFunctionOnSet(f, T \union {x}) = SumFunctionOnSet(f, T) + f[x]
    BY <1>2, <2>1, SumWithOneMore
  <2>3. QED
    BY <1>2, <2>2
<1>3. S \in P
  <2>1. P \in SUBSET (SUBSET S)
    OBVIOUS
  <2> HIDE DEF P
  <2>2. QED
    BY <1>1, <1>2, <2>1, SubsetInduction
<1>4. QED
  BY <1>3

\* Sums over the places of a sequence.
SumTo(f, n) == SumFunctionOnSet(f, 1 .. n)

LEMMA SumToType ==
    ASSUME NEW n \in Nat, NEW f, \A i \in 1 .. n : f[i] \in Int PROVE SumTo(f, n) \in Int
<1>1. IsFiniteSet(1 .. n)
  BY FS_Interval
<1>2. QED
  BY <1>1, SumType DEF SumTo

LEMMA SumToZero == ASSUME NEW f PROVE SumTo(f, 0) = 0
<1>1. 1 .. 0 = {}
  OBVIOUS
<1>2. QED
  BY <1>1, SumOfNone DEF SumTo

LEMMA SumToNext ==
    ASSUME NEW n \in Nat, NEW f, \A i \in 1 .. n + 1 : f[i] \in Int
    PROVE  SumTo(f, n + 1) = SumTo(f, n) + f[n + 1]
<1>1. 1 .. n + 1 = (1 .. n) \union {n + 1} /\ n + 1 \notin 1 .. n /\ IsFiniteSet(1 .. n)
  BY FS_Interval
<1>2. \A i \in (1 .. n) \union {n + 1} : f[i] \in Int
  BY <1>1
<1>3. SumFunctionOnSet(f, (1 .. n) \union {n + 1}) = SumFunctionOnSet(f, 1 .. n) + f[n + 1]
  <2> DEFINE S == 1 .. n
             x == n + 1
  <2>1. IsFiniteSet(S) /\ x \notin S /\ \A i \in S \union {x} : f[i] \in Int
    BY <1>1, <1>2
  <2> HIDE DEF S, x
  <2>2. SumFunctionOnSet(f, S \union {x}) = SumFunctionOnSet(f, S) + f[x]
    BY <2>1, SumWithOneMore
  <2>3. QED
    BY <2>2 DEF S, x
<1>4. QED
  BY <1>1, <1>3 DEF SumTo

LEMMA SumToAgrees ==
    ASSUME NEW n \in Nat, NEW f, NEW g, \A i \in 1 .. n : f[i] \in Int /\ g[i] = f[i]
    PROVE  SumTo(g, n) = SumTo(f, n)
<1>1. IsFiniteSet(1 .. n)
  BY FS_Interval
<1>2. QED
  BY <1>1, SumAgrees DEF SumTo

LEMMA SumOfSequence ==
    ASSUME NEW n \in Nat, NEW f, DOMAIN f = 1 .. n PROVE SumFunction(f) = SumTo(f, n)
BY DEF SumFunction, SumTo

\* Sums are linear.
Linear(h, n, a, f, b, g, c) ==
    \A i \in 1 .. n : f[i] \in Int /\ g[i] \in Int /\ h[i] = a * f[i] + b * g[i] + c

LEMMA SumIsLinear ==
    ASSUME NEW n \in Nat, NEW f, NEW g, NEW h, NEW a \in Int, NEW b \in Int, NEW c \in Int,
           Linear(h, n, a, f, b, g, c)
    PROVE  SumTo(h, n) = a * SumTo(f, n) + b * SumTo(g, n) + c * n
<1> USE DEF Linear
<1> DEFINE P == {k \in 0 .. n : SumTo(h, k) = a * SumTo(f, k) + b * SumTo(g, k) + c * k}
<1>1. 0 \in P
  BY SumToZero
<1>2. ASSUME NEW k \in 0 .. n, k \in P, k + 1 <= n PROVE k + 1 \in P
  <2>1. /\ \A i \in 1 .. k + 1 : f[i] \in Int /\ g[i] \in Int /\ h[i] \in Int
        /\ h[k + 1] = a * f[k + 1] + b * g[k + 1] + c
    BY <1>2
  <2>2. PICK sf \in Int, sg \in Int, vf \in Int, vg \in Int :
            SumTo(f, k) = sf /\ SumTo(g, k) = sg /\ f[k + 1] = vf /\ g[k + 1] = vg
    <3>1. SumTo(f, k) \in Int /\ SumTo(g, k) \in Int
      BY <2>1, SumToType
    <3>2. QED
      BY <2>1, <3>1
  <2>3. /\ SumTo(f, k + 1) = sf + vf /\ SumTo(g, k + 1) = sg + vg
        /\ SumTo(h, k + 1) = SumTo(h, k) + h[k + 1]
    BY <2>1, <2>2, SumToNext
  <2>4. SumTo(h, k + 1) = a * sf + b * sg + c * k + (a * vf + b * vg + c)
    BY <1>2, <2>1, <2>2, <2>3
  <2>5. a * sf + b * sg + c * k + (a * vf + b * vg + c) = a * (sf + vf) + b * (sg + vg) + c * (k + 1)
    OBVIOUS
  <2>6. QED
    BY <1>2, <2>3, <2>4, <2>5
<1>3. n \in P
  <2> DEFINE R == P \union {k \in Nat : k > n}
  <2>1. 0 \in R /\ \A k \in 0 .. n : k \in R => k + 1 \in R
    BY <1>1, <1>2
  <2> HIDE DEF R
  <2>2. n \in R
    BY <2>1, NumberInduction
  <2>3. QED
    BY <2>2 DEF R
<1>4. QED
  BY <1>3

LEMMA SumShifts ==
    ASSUME NEW n \in Nat, NEW f, NEW g,
           \A i \in 1 .. n + 1 : f[i] \in Int, \A i \in 1 .. n : g[i] = f[i + 1]
    PROVE  SumTo(f, n + 1) = f[1] + SumTo(g, n)
<1> DEFINE P == {k \in Nat : k <= n => SumTo(f, k + 1) = f[1] + SumTo(g, k)}
<1>1. 0 \in P
  <2>1. SumTo(f, 0 + 1) = SumTo(f, 0) + f[0 + 1]
    BY SumToNext
  <2>2. QED
    BY <2>1, SumToZero
<1>2. ASSUME NEW k \in 0 .. n, k \in P, k + 1 <= n PROVE k + 1 \in P
  <2>1. SumTo(f, (k + 1) + 1) = SumTo(f, k + 1) + f[(k + 1) + 1]
    BY <1>2, SumToNext
  <2>2. SumTo(g, k + 1) = SumTo(g, k) + g[k + 1] /\ SumTo(g, k) \in Int /\ g[k + 1] = f[(k + 1) + 1]
    <3>1. \A i \in 1 .. k + 1 : g[i] \in Int
      BY <1>2
    <3>2. QED
      BY <1>2, <3>1, SumToNext, SumToType
  <2>3. SumTo(f, k + 1) = f[1] + SumTo(g, k) /\ f[1] \in Int /\ f[(k + 1) + 1] \in Int
    BY <1>2
  <2>4. QED
    BY <2>1, <2>2, <2>3
<1>3. n \in P
  <2>1. \A k \in 0 .. n : k \in P => k + 1 \in P
    BY <1>2
  <2> HIDE DEF P
  <2>2. QED
    BY <1>1, <2>1, NumberInduction
<1>4. QED
  BY <1>3

LEMMA SumNotNegative ==
    ASSUME NEW n \in Nat, NEW f, \A i \in 1 .. n : f[i] \in Nat PROVE SumTo(f, n) \in Nat
<1> DEFINE P == {k \in Nat : k <= n => SumTo(f, k) \in Nat}
<1>1. 0 \in P
  BY SumToZero
<1>2. ASSUME NEW k \in 0 .. n, k \in P PROVE k + 1 \in P
  BY <1>2, SumToNext
<1>3. n \in P
  <2> HIDE DEF P
  <2>1. QED
    BY <1>1, <1>2, NumberInduction
<1>4. QED
  BY <1>3

\* The mean lies between the least and the greatest value.
LEMMA MeanIsBetween ==
    ASSUME NEW n \in Nat \ {0}, NEW f, \A i \in 1 .. n : f[i] \in Int
    PROVE  /\ \E i \in 1 .. n : f[i] * n <= SumTo(f, n)
           /\ \E i \in 1 .. n : SumTo(f, n) <= f[i] * n
<1> DEFINE P == {k \in Nat : k \in 1 .. n =>
                     /\ \E i \in 1 .. k : f[i] * k <= SumTo(f, k)
                     /\ \E i \in 1 .. k : SumTo(f, k) <= f[i] * k}
<1>1. 0 \in P
  OBVIOUS
<1>2. ASSUME NEW k \in Nat, k \in P, k + 1 <= n PROVE k + 1 \in P
  <2>1. PICK t \in Int, v \in Int :
            SumTo(f, k) = t /\ f[k + 1] = v /\ SumTo(f, k + 1) = t + v
    BY <1>2, SumToType, SumToNext
  <2>2. CASE k = 0
    <3>1. t = 0
      BY <2>1, <2>2, SumToZero
    <3>2. f[1] * 1 = t + v /\ 1 \in 1 .. k + 1 /\ k + 1 = 1
      BY <2>1, <2>2, <3>1
    <3>3. QED
      BY <2>1, <3>2
  <2>3. CASE k # 0
    <3>1. PICK i \in 1 .. k : f[i] * k <= t
      BY <1>2, <2>1, <2>3
    <3>2. PICK j \in 1 .. k : t <= f[j] * k
      BY <1>2, <2>1, <2>3
    <3>3. PICK x \in Int, y \in Int : f[i] = x /\ f[j] = y
      BY <1>2
    <3>4. \E m \in 1 .. k + 1 : f[m] * (k + 1) <= t + v
      <4>1. x * (k + 1) = x * k + x /\ v * (k + 1) = v * k + v
        OBVIOUS
      <4>2. CASE x <= v
        BY <3>1, <3>3, <4>1, <4>2
      <4>3. CASE v < x
        <5>1. v * k <= x * k
          BY <4>3
        <5>2. v * (k + 1) <= t + v
          BY <3>1, <3>3, <4>1, <5>1
        <5>3. QED
          BY <2>1, <5>2
      <4>4. QED
        BY <4>2, <4>3
    <3>5. \E m \in 1 .. k + 1 : t + v <= f[m] * (k + 1)
      <4>1. y * (k + 1) = y * k + y /\ v * (k + 1) = v * k + v
        OBVIOUS
      <4>2. CASE v <= y
        BY <3>2, <3>3, <4>1, <4>2
      <4>3. CASE y < v
        <5>1. y * k <= v * k
          BY <4>3
        <5>2. t + v <= v * (k + 1)
          BY <3>2, <3>3, <4>1, <5>1
        <5>3. QED
          BY <2>1, <5>2
      <4>4. QED
        BY <4>2, <4>3
    <3>6. QED
      BY <2>1, <3>4, <3>5
  <2>4. QED
    BY <2>2, <2>3
<1>3. n \in P
  <2>1. ASSUME NEW k \in 0 .. n, k \in P PROVE k + 1 \in P
    <3>1. CASE k + 1 <= n
      BY <1>2, <2>1, <3>1
    <3>2. CASE ~(k + 1 <= n)
      BY <3>2
    <3>3. QED
      BY <3>1, <3>2
  <2> HIDE DEF P
  <2>2. QED
    BY <1>1, <2>1, NumberInduction
<1>4. QED
  BY <1>3

-----------------------------------------------------------------------------
(* Powers, which the closed form of Wilder's average needs. *)

\* The recursive function behind Power exists, and unfolds.
LEMMA PowerIsRecursive ==
    ASSUME NEW b \in Nat, NEW n \in Nat
    PROVE  Power(b, 0) = 1 /\ Power(b, n + 1) = b * Power(b, n)
<1> DEFINE Upto(k, h) == h \in [0 .. k -> Nat] /\ h[0] = 1 /\ \A i \in 1 .. k : h[i] = b * h[i - 1]
           Is(g) == g = [i \in Nat |-> IF i = 0 THEN 1 ELSE b * g[i - 1]]
           P == {k \in Nat : \E h : Upto(k, h)}
           Same(k) == \A m \in Nat : k <= m =>
                         \A h, j : Upto(k, h) /\ Upto(m, j) => h[k] = j[k]
           R == {k \in Nat : Same(k)}
<1>1. ASSUME NEW k \in Nat PROVE k \in P
  <2>1. 0 \in P
    <3>1. Upto(0, [i \in 0 .. 0 |-> 1])
      OBVIOUS
    <3>2. QED
      BY <3>1
  <2>2. ASSUME NEW m \in 0 .. k, m \in P PROVE m + 1 \in P
    <3>1. PICK h : Upto(m, h)
      BY <2>2
    <3>2. Upto(m + 1, [i \in 0 .. m + 1 |-> IF i <= m THEN h[i] ELSE b * h[m]])
      BY <3>1
    <3>3. m + 1 \in Nat
      OBVIOUS
    <3> HIDE DEF Upto
    <3>4. QED
      BY <3>2, <3>3
  <2> HIDE DEF P
  <2>3. QED
    BY <2>1, <2>2, NumberInduction
<1>2. ASSUME NEW k \in Nat PROVE k \in R
  <2>1. 0 \in R
    OBVIOUS
  <2>2. ASSUME NEW i \in 0 .. k, i \in R PROVE i + 1 \in R
    <3>1. ASSUME NEW m \in Nat, NEW h, NEW j, i + 1 <= m, Upto(i + 1, h), Upto(m, j)
          PROVE  h[i + 1] = j[i + 1]
      <4> DEFINE l == [x \in 0 .. i |-> h[x]]
      <4>1. Upto(i, l) /\ l[i] = h[i]
        <5>1. l \in [0 .. i -> Nat] /\ l[i] = h[i] /\ l[0] = 1
          <6>1. i \in Nat /\ \A x \in 0 .. i : x \in 0 .. i + 1
            OBVIOUS
          <6>2. \A x \in 0 .. i : h[x] \in Nat
            BY <3>1, <6>1
          <6>3. h[0] = 1 /\ 0 \in 0 .. i /\ i \in 0 .. i
            BY <3>1
          <6>4. QED
            BY <6>2, <6>3
        <5>2. ASSUME NEW x \in 1 .. i PROVE l[x] = b * l[x - 1]
          <6>1. x \in 1 .. i + 1 /\ x \in 0 .. i /\ x - 1 \in 0 .. i
            OBVIOUS
          <6>2. QED
            BY <3>1, <6>1
        <5> HIDE DEF l
        <5>3. QED
          BY <5>1, <5>2
      <4>2. l[i] = j[i]
        <5> HIDE DEF l, Upto
        <5>1. QED
          BY <2>2, <3>1, <4>1
      <4>3. h[i + 1] = b * h[i] /\ j[i + 1] = b * j[i]
        BY <3>1
      <4>4. QED
        BY <4>1, <4>2, <4>3
    <3>2. i + 1 \in Nat
      OBVIOUS
    <3> HIDE DEF Upto
    <3>3. QED
      BY <3>1, <3>2
  <2> HIDE DEF R
  <2>3. QED
    BY <2>1, <2>2, NumberInduction
<1> DEFINE H(k) == CHOOSE h : Upto(k, h)
           G == [k \in Nat |-> H(k)[k]]
<1>3. ASSUME NEW k \in Nat PROVE Upto(k, H(k))
  <2> HIDE DEF Upto
  <2>1. QED
    BY <1>1
<1>4. Is(G)
  <2>1. ASSUME NEW i \in Nat PROVE G[i] = IF i = 0 THEN 1 ELSE b * G[i - 1]
    <3>1. CASE i = 0
      BY <1>3, <3>1
    <3>2. CASE i # 0
      <4>1. i - 1 \in Nat /\ i - 1 <= i /\ i \in 1 .. i
        BY <3>2
      <4>2. H(i)[i] = b * H(i)[i - 1]
        BY <1>3, <4>1
      <4>3. H(i - 1)[i - 1] = H(i)[i - 1]
        <5>1. Upto(i - 1, H(i - 1)) /\ Upto(i, H(i)) /\ i - 1 \in R
          BY <1>2, <1>3, <4>1
        <5> HIDE DEF Upto, H
        <5>2. QED
          BY <4>1, <5>1
      <4>4. G[i] = H(i)[i] /\ G[i - 1] = H(i - 1)[i - 1]
        BY <4>1
      <4> HIDE DEF G, H, Upto
      <4>5. QED
        BY <3>2, <4>2, <4>3, <4>4
    <3>3. QED
      BY <3>1, <3>2
  <2> HIDE DEF H, Upto
  <2>2. QED
    BY <2>1
<1> DEFINE power == CHOOSE g : Is(g)
<1>5. Is(power)
  <2> HIDE DEF G, Is
  <2>1. QED
    BY <1>4
<1>6. \A k \in Nat : Power(b, k) = power[k]
  BY Zenon DEF Power
<1>7. \A i \in Nat : power[i] = IF i = 0 THEN 1 ELSE b * power[i - 1]
  <2> HIDE DEF power
  <2>1. QED
    BY <1>5
<1>8. power[0] = 1 /\ power[n + 1] = b * power[n]
  <2> HIDE DEF power
  <2>1. n + 1 \in Nat /\ (n + 1) - 1 = n /\ n + 1 # 0 /\ 0 \in Nat
    OBVIOUS
  <2>2. power[n + 1] = b * power[(n + 1) - 1]
    BY <1>7, <2>1
  <2>3. QED
    BY <1>7, <2>1, <2>2
<1>9. QED
  <2> HIDE DEF power
  <2>1. QED
    BY <1>6, <1>8

LEMMA PowerType == ASSUME NEW b \in Nat, NEW n \in Nat PROVE Power(b, n) \in Nat
<1> DEFINE P == {k \in Nat : Power(b, k) \in Nat}
<1>1. 0 \in P
  BY PowerIsRecursive
<1>2. ASSUME NEW k \in 0 .. n, k \in P PROVE k + 1 \in P
  BY <1>2, PowerIsRecursive
<1>3. n \in P
  <2> HIDE DEF P
  <2>1. QED
    BY <1>1, <1>2, NumberInduction
<1>4. QED
  BY <1>3

\* A term of Wilder's sum over n changes.
Term(change, p, n, i) ==
    change[i] * Power(p, Positive(i - p)) * Power(p - 1, Positive(n - p) - Positive(i - p))

\* Wilder's closed form, as a sum over the places of the changes.
LEMMA WilderIsSum ==
    ASSUME NEW p \in Nat \ {0}, NEW change \in Seq(Nat)
    PROVE  WilderSum(change, p) =
               SumTo([i \in 1 .. Len(change) |-> Term(change, p, Len(change), i)], Len(change))
<1> DEFINE n == Len(change)
           terms == [i \in 1 .. n |-> Term(change, p, n, i)]
<1>1. n \in Nat /\ DOMAIN change = 1 .. n /\ DOMAIN terms = 1 .. n
  OBVIOUS
<1>2. WilderSum(change, p) = SumFunction(terms)
  BY <1>1 DEF WilderSum, Term
<1>3. SumFunction(terms) = SumTo(terms, n)
  <2> HIDE DEF terms, n
  <2>1. QED
    BY <1>1, SumOfSequence
<1>4. QED
  BY <1>2, <1>3

LEMMA TermType ==
    ASSUME NEW p \in Nat \ {0}, NEW change \in Seq(Nat), NEW n \in Nat,
           NEW i \in 1 .. Len(change), i <= n
    PROVE  Term(change, p, n, i) \in Nat
<1>1. p \in Nat /\ p - 1 \in Nat /\ Positive(i - p) \in Nat
      /\ Positive(n - p) - Positive(i - p) \in Nat /\ change[i] \in Nat
  BY DEF Positive
<1>2. Power(p, Positive(i - p)) \in Nat /\ Power(p - 1, Positive(n - p) - Positive(i - p)) \in Nat
  BY <1>1, PowerType
<1>3. QED
  BY <1>1, <1>2 DEF Term

LEMMA WilderType ==
    ASSUME NEW p \in Nat \ {0}, NEW change \in Seq(Nat) PROVE WilderSum(change, p) \in Nat
<1> DEFINE n == Len(change)
           terms == [i \in 1 .. n |-> Term(change, p, n, i)]
<1>1. n \in Nat /\ \A i \in 1 .. n : terms[i] \in Nat
  BY TermType
<1>2. SumTo(terms, n) \in Nat
  <2> HIDE DEF terms, n
  <2>1. QED
    BY <1>1, SumNotNegative
<1>3. QED
  BY <1>2, WilderIsSum

LEMMA WilderOfNone == ASSUME NEW p \in Nat \ {0} PROVE WilderSum(<<>>, p) = 0
<1>1. <<>> \in Seq(Nat) /\ Len(<<>>) = 0
  OBVIOUS
<1>2. QED
  BY <1>1, WilderIsSum, SumToZero

\* Up to the first period the sum is plain.
LEMMA WilderSeed ==
    ASSUME NEW p \in Nat \ {0}, NEW change \in Seq(Nat), NEW c \in Nat, Len(change) < p
    PROVE  WilderSum(Append(change, c), p) = WilderSum(change, p) + c
<1> DEFINE n == Len(change)
           more == Append(change, c)
           old == [i \in 1 .. n |-> Term(change, p, n, i)]
           new == [i \in 1 .. n + 1 |-> Term(more, p, n + 1, i)]
<1>1. /\ n \in Nat /\ more \in Seq(Nat) /\ Len(more) = n + 1
      /\ more[n + 1] = c /\ \A i \in 1 .. n : more[i] = change[i] /\ change[i] \in Nat
  OBVIOUS
<1>2. Power(p, 0) = 1 /\ Power(p - 1, 0) = 1
  BY PowerIsRecursive
<1>3. ASSUME NEW i \in 1 .. n + 1 PROVE new[i] = more[i]
  <2>1. Positive(i - p) = 0 /\ Positive((n + 1) - p) - Positive(i - p) = 0 /\ more[i] \in Nat
    BY <1>1 DEF Positive
  <2>2. QED
    BY <1>2, <2>1 DEF Term
<1>4. ASSUME NEW i \in 1 .. n PROVE old[i] = change[i]
  <2>1. Positive(i - p) = 0 /\ Positive(n - p) - Positive(i - p) = 0 /\ change[i] \in Nat
    BY <1>1 DEF Positive
  <2>2. QED
    BY <1>2, <2>1 DEF Term
<1>5. WilderSum(change, p) = SumTo(old, n) /\ WilderSum(more, p) = SumTo(new, n + 1)
  <2>1. WilderSum(more, p) = SumTo([i \in 1 .. Len(more) |-> Term(more, p, Len(more), i)], Len(more))
    BY <1>1, WilderIsSum
  <2>2. QED
    BY <1>1, <2>1, WilderIsSum
<1>6. \A i \in 1 .. n : old[i] \in Int /\ new[i] = old[i]
  BY <1>1, <1>3, <1>4
<1>7. \A i \in 1 .. n + 1 : new[i] \in Int
  BY <1>1, <1>3
<1>8. new[n + 1] = c
  BY <1>1, <1>3
<1> HIDE DEF n, more, old, new
<1>9. SumTo(new, n + 1) = SumTo(new, n) + c /\ SumTo(new, n) = SumTo(old, n)
  BY <1>1, <1>6, <1>7, <1>8, SumToNext, SumToAgrees
<1>10. QED
  BY <1>5, <1>9 DEF more

\* After it each change discounts all those before it.
LEMMA WilderSmooths ==
    ASSUME NEW p \in Nat \ {0}, NEW change \in Seq(Nat), NEW c \in Nat, p <= Len(change)
    PROVE  WilderSum(Append(change, c), p)
               = WilderSum(change, p) * (p - 1) + c * p * Power(p, Len(change) - p)
<1> DEFINE n == Len(change)
           more == Append(change, c)
           old == [i \in 1 .. n |-> Term(change, p, n, i)]
           new == [i \in 1 .. n + 1 |-> Term(more, p, n + 1, i)]
<1>1. /\ n \in Nat /\ more \in Seq(Nat) /\ Len(more) = n + 1 /\ n - p \in Nat
      /\ more[n + 1] = c /\ \A i \in 1 .. n : more[i] = change[i] /\ change[i] \in Nat
  OBVIOUS
<1>2. ASSUME NEW i \in 1 .. n PROVE new[i] = (p - 1) * old[i] /\ old[i] \in Nat
  <2> DEFINE a == Positive(i - p)
             b == Positive(n - p) - a
  <2>1. a \in Nat /\ b \in Nat /\ Positive((n + 1) - p) - a = b + 1 /\ p - 1 \in Nat /\ p \in Nat
    BY <1>1 DEF Positive
  <2>2. PICK x \in Nat, y \in Nat, v \in Nat :
            Power(p, a) = x /\ Power(p - 1, b) = y /\ change[i] = v
    <3>1. Power(p, a) \in Nat /\ Power(p - 1, b) \in Nat
      BY <2>1, PowerType
    <3>2. QED
      BY <1>1, <3>1
  <2>3. Power(p - 1, b + 1) = (p - 1) * y
    BY <2>1, <2>2, PowerIsRecursive
  <2>4. new[i] = v * x * ((p - 1) * y) /\ old[i] = v * x * y
    <3>1. new[i] = more[i] * Power(p, a) * Power(p - 1, Positive((n + 1) - p) - a)
      BY DEF Term
    <3>2. old[i] = change[i] * Power(p, a) * Power(p - 1, b)
      BY DEF Term
    <3>3. more[i] = change[i]
      BY <1>1
    <3> HIDE DEF a, b, new, old, more, n
    <3>4. QED
      BY <2>1, <2>2, <2>3, <3>1, <3>2, <3>3
  <2>5. v * x * ((p - 1) * y) = (p - 1) * (v * x * y)
    OBVIOUS
  <2>6. v * x * y \in Nat
    OBVIOUS
  <2>7. QED
    BY <2>4, <2>5, <2>6
<1>3. new[n + 1] = c * p * Power(p, n - p)
  <2>1. Positive((n + 1) - p) = (n - p) + 1
    BY <1>1 DEF Positive
  <2>2. Power(p, (n - p) + 1) = p * Power(p, n - p) /\ Power(p, n - p) \in Nat
    BY <1>1, PowerIsRecursive, PowerType
  <2>3. Power(p - 1, 0) = 1
    BY PowerIsRecursive
  <2>4. Term(more, p, n + 1, n + 1) = c * (p * Power(p, n - p)) * 1
    BY <1>1, <2>1, <2>2, <2>3 DEF Term
  <2>5. c * (p * Power(p, n - p)) * 1 = c * p * Power(p, n - p)
    BY <2>2
  <2>6. QED
    BY <1>1, <2>4, <2>5
<1>4. WilderSum(change, p) = SumTo(old, n) /\ WilderSum(more, p) = SumTo(new, n + 1)
  <2>1. WilderSum(more, p) = SumTo([i \in 1 .. Len(more) |-> Term(more, p, Len(more), i)], Len(more))
    BY <1>1, WilderIsSum
  <2>2. QED
    BY <1>1, <2>1, WilderIsSum
<1>5. c * p * Power(p, n - p) \in Nat
  <2>1. Power(p, n - p) \in Nat
    BY <1>1, PowerType
  <2>2. QED
    BY <2>1
<1> HIDE DEF n, more, old, new
<1>6. \A i \in 1 .. n + 1 : new[i] \in Int
  <2>1. ASSUME NEW i \in 1 .. n PROVE new[i] \in Int
    <3>1. PICK v \in Nat : old[i] = v
      BY <1>2
    <3>2. QED
      BY <1>2, <3>1
  <2>2. new[n + 1] \in Int
    BY <1>3, <1>5
  <2>3. ASSUME NEW i \in 1 .. n + 1 PROVE i = n + 1 \/ i \in 1 .. n
    BY <1>1
  <2>4. QED
    BY <2>1, <2>2, <2>3
<1>7. PICK a \in Int, z \in Int : a = p - 1 /\ z = 0
  OBVIOUS
<1>12. Linear(new, n, a, old, z, old, z)
  BY <1>2, <1>7 DEF Linear
<1>8. SumTo(new, n + 1) = SumTo(new, n) + new[n + 1]
  BY <1>1, <1>6, SumToNext
<1>9. SumTo(new, n) = a * SumTo(old, n) + z * SumTo(old, n) + z * n
  BY <1>1, <1>12, SumIsLinear
<1>10. SumTo(old, n) \in Int
  <2>1. \A i \in 1 .. n : old[i] \in Int
    BY <1>2
  <2>2. QED
    BY <1>1, <2>1, SumToType
<1>11. QED
  BY <1>1, <1>3, <1>4, <1>7, <1>8, <1>9, <1>10 DEF more, n

-----------------------------------------------------------------------------
(* Sequences: what an indicator keeps of the last values. *)

\* A bounded buffer of the last values, pushed to, is that of one value more.
LEMMA PushKeepsLast ==
    ASSUME NEW S, NEW q \in Seq(S), NEW v \in S, NEW n \in Nat \ {0}
    PROVE  Push(LastOf(q, n), n, v) = LastOf(Append(q, v), n)
<1> DEFINE m == Len(q)
           more == Append(q, v)
<1>1. /\ m \in Nat /\ more \in Seq(S) /\ Len(more) = m + 1 /\ more[m + 1] = v
      /\ \A i \in 1 .. m : more[i] = q[i]
  OBVIOUS
<1>2. CASE m < n
  <2>1. LastOf(q, n) = q /\ LastOf(more, n) = more
    BY <1>1, <1>2 DEF LastOf
  <2>2. QED
    BY <1>2, <2>1 DEF Push
<1>3. CASE m >= n
  <2> DEFINE b == LastOf(q, n)
             r == LastOf(more, n)
             t == Append(Tail(b), v)
  <2>1. b \in Seq(S) /\ Len(b) = n /\ \A i \in 1 .. n : b[i] = q[(m - n) + i]
    BY <1>1, <1>3 DEF LastOf
  <2>2. Push(b, n, v) = t
    BY <2>1 DEF Push
  <2>3. r = SubSeq(more, (m - n) + 2, m + 1)
    <3> HIDE DEF more, m
    <3>1. ~(Len(more) <= n) /\ Len(more) - n + 1 = (m - n) + 2
      BY <1>1, <1>3
    <3>2. LastOf(more, n) = SubSeq(more, Len(more) - n + 1, Len(more))
      BY <3>1, Zenon DEF LastOf
    <3>3. QED
      BY <1>1, <3>1, <3>2
  <2>4. r \in Seq(S) /\ Len(r) = n /\ \A i \in 1 .. n : r[i] = more[(m - n) + 1 + i]
    <3> HIDE DEF more, m
    <3>1. QED
      BY <1>1, <1>3, <2>3
  <2>5. t \in Seq(S) /\ Len(t) = n /\ t[n] = v /\ \A i \in 1 .. n - 1 : t[i] = b[i + 1]
    <3> HIDE DEF b
    <3>1. QED
      BY <2>1
  <2> HIDE DEF b, r, t, more, m
  <2>6. ASSUME NEW i \in 1 .. n PROVE t[i] = r[i]
    <3>1. CASE i < n
      <4>1. t[i] = b[i + 1] /\ b[i + 1] = q[(m - n) + (i + 1)]
        BY <2>1, <2>5, <3>1
      <4>2. r[i] = more[(m - n) + 1 + i] /\ (m - n) + 1 + i \in 1 .. m
        BY <1>1, <1>3, <2>4, <3>1
      <4>3. (m - n) + (i + 1) = (m - n) + 1 + i
        BY <1>1
      <4>4. QED
        BY <1>1, <4>1, <4>2, <4>3
    <3>2. CASE i = n
      <4>1. (m - n) + 1 + n = m + 1
        BY <1>1
      <4>2. QED
        BY <1>1, <2>4, <2>5, <3>2, <4>1
    <3>3. QED
      BY <3>1, <3>2
  <2>7. t = r
    BY <2>4, <2>5, <2>6, SeqEqual
  <2>8. QED
    BY <2>2, <2>7 DEF b, r, more
<1>4. QED
  BY <1>1, <1>2, <1>3

LEMMA LastOfType ==
    ASSUME NEW S, NEW q \in Seq(S), NEW n \in Nat \ {0}
    PROVE  /\ LastOf(q, n) \in Seq(S) /\ Len(LastOf(q, n)) <= n
           /\ Len(LastOf(q, n)) = (IF Len(q) <= n THEN Len(q) ELSE n)
           /\ q # <<>> => LastOf(q, n)[Len(LastOf(q, n))] = q[Len(q)]
BY DEF LastOf

\* The sum over a sequence, with a value at its end and without its head.
LEMMA SumOfAppend ==
    ASSUME NEW b \in Seq(Int), NEW v \in Int
    PROVE  SumFunction(Append(b, v)) = SumFunction(b) + v /\ SumFunction(b) \in Int
<1> DEFINE n == Len(b)
           r == Append(b, v)
<1>1. /\ n \in Nat /\ DOMAIN b = 1 .. n /\ DOMAIN r = 1 .. n + 1 /\ r[n + 1] = v
      /\ \A i \in 1 .. n : b[i] \in Int /\ r[i] = b[i]
      /\ \A i \in 1 .. n + 1 : r[i] \in Int
  OBVIOUS
<1> HIDE DEF n, r
<1>2. SumFunction(b) = SumTo(b, n) /\ SumFunction(r) = SumTo(r, n + 1)
  BY <1>1, SumOfSequence
<1>3. SumTo(r, n + 1) = SumTo(r, n) + v /\ SumTo(r, n) = SumTo(b, n) /\ SumTo(b, n) \in Int
  BY <1>1, SumToNext, SumToAgrees, SumToType
<1>4. QED
  BY <1>2, <1>3 DEF r

LEMMA SumOfTail ==
    ASSUME NEW b \in Seq(Int), b # <<>>
    PROVE  SumFunction(b) = Head(b) + SumFunction(Tail(b))
<1> DEFINE n == Len(b) - 1
           r == Tail(b)
<1>1. /\ n \in Nat /\ DOMAIN b = 1 .. n + 1 /\ DOMAIN r = 1 .. n /\ Head(b) = b[1]
      /\ \A i \in 1 .. n + 1 : b[i] \in Int
      /\ \A i \in 1 .. n : r[i] = b[i + 1]
  OBVIOUS
<1> HIDE DEF n, r
<1>2. SumFunction(b) = SumTo(b, n + 1) /\ SumFunction(r) = SumTo(r, n)
  <2>1. n + 1 \in Nat
    BY <1>1
  <2>2. QED
    BY <1>1, <2>1, SumOfSequence
<1>3. SumTo(b, n + 1) = b[1] + SumTo(r, n)
  BY <1>1, SumShifts
<1>4. QED
  BY <1>1, <1>2, <1>3 DEF r

Price == Nat \ {NoPrice}

\* What the assumption says of a trade.
LEMMA TradeType ==
    ASSUME NEW t \in Trades PROVE t.price \in Price /\ t.price \in Nat /\ t.qty \in Nat
BY EngineAssumption DEF Price

LEMMA ToSetOfAppend ==
    ASSUME NEW S, NEW q \in Seq(S), NEW v \in S
    PROVE  ToSet(Append(q, v)) = ToSet(q) \union {v} /\ (ToSet(q) = {} <=> q = <<>>)
           /\ ToSet(q) \subseteq S
<1> DEFINE r == Append(q, v)
<1>1. DOMAIN r = 1 .. Len(q) + 1 /\ DOMAIN q = 1 .. Len(q) /\ Len(q) \in Nat
      /\ r[Len(q) + 1] = v /\ \A i \in 1 .. Len(q) : r[i] = q[i]
  OBVIOUS
<1>2. ToSet(r) = ToSet(q) \union {v}
  <2> HIDE DEF r
  <2>1. QED
    BY <1>1 DEF ToSet
<1>3. ToSet(q) = {} <=> q = <<>>
  BY DEF ToSet
<1>4. ToSet(q) \subseteq S
  BY DEF ToSet
<1>5. QED
  BY <1>2, <1>3, <1>4

LEMMA PricesType ==
    ASSUME NEW q \in Seq(Trades)
    PROVE  PricesOf(q) \in Seq(Price) /\ Len(PricesOf(q)) = Len(q)
BY TradeType DEF PricesOf

\* The prices of a session with one trade more.
LEMMA PricesOfAppend ==
    ASSUME NEW q \in Seq(Trades), NEW t \in Trades
    PROVE  /\ PricesOf(q) \in Seq(Price) /\ PricesOf(q) \in Seq(Nat) /\ PricesOf(q) \in Seq(Int)
           /\ Len(PricesOf(q)) = Len(q)
           /\ PricesOf(Append(q, t)) = Append(PricesOf(q), t.price)
<1>1. PricesOf(q) \in Seq(Price) /\ Len(PricesOf(q)) = Len(q)
  BY PricesType
<1>2. Append(q, t) \in Seq(Trades) /\ Len(Append(q, t)) = Len(q) + 1
      /\ Append(q, t)[Len(q) + 1] = t /\ \A i \in 1 .. Len(q) : Append(q, t)[i] = q[i]
  OBVIOUS
<1>3. PricesOf(Append(q, t)) \in Seq(Price) /\ Len(PricesOf(Append(q, t))) = Len(q) + 1
  BY <1>2, TradeType DEF PricesOf
<1>4. Append(PricesOf(q), t.price) \in Seq(Price) /\ Len(Append(PricesOf(q), t.price)) = Len(q) + 1
  BY <1>1, TradeType
<1>5. ASSUME NEW i \in 1 .. Len(q) + 1
      PROVE  PricesOf(Append(q, t))[i] = Append(PricesOf(q), t.price)[i]
  <2>1. PricesOf(Append(q, t))[i] = Append(q, t)[i].price
    BY <1>2 DEF PricesOf
  <2>2. CASE i = Len(q) + 1
    <3>1. Append(PricesOf(q), t.price)[i] = t.price
      BY <1>1, <2>2, TradeType
    <3>2. QED
      BY <1>2, <2>1, <2>2, <3>1
  <2>3. CASE i \in 1 .. Len(q)
    <3>1. Append(PricesOf(q), t.price)[i] = PricesOf(q)[i]
      BY <1>1, <2>3, TradeType
    <3>2. PricesOf(q)[i] = q[i].price
      BY <2>3 DEF PricesOf
    <3>3. QED
      BY <1>2, <2>1, <2>3, <3>1, <3>2
  <2>4. i = Len(q) + 1 \/ i \in 1 .. Len(q)
    <3>1. Len(q) \in Nat
      OBVIOUS
    <3>2. QED
      BY <3>1
  <2>5. QED
    BY <2>2, <2>3, <2>4
<1>6. PricesOf(Append(q, t)) = Append(PricesOf(q), t.price)
  <2> DEFINE a == PricesOf(Append(q, t))
             b == Append(PricesOf(q), t.price)
  <2>1. a \in Seq(Price) /\ b \in Seq(Price) /\ Len(a) = Len(q) + 1 /\ Len(b) = Len(q) + 1
        /\ \A i \in 1 .. Len(q) + 1 : a[i] = b[i]
    BY <1>3, <1>4, <1>5
  <2> HIDE DEF a, b
  <2>2. a = b
    BY <2>1, SeqEqual
  <2>3. QED
    BY <2>2 DEF a, b
<1>7. Price \subseteq Nat /\ Price \subseteq Int
  BY DEF Price
<1>8. PricesOf(q) \in Seq(Nat) /\ PricesOf(q) \in Seq(Int)
  <2> DEFINE a == PricesOf(q)
  <2>1. a \in Seq(Price)
    BY <1>1
  <2> HIDE DEF a
  <2>2. Len(a) \in Nat /\ a \in [1 .. Len(a) -> Price]
    BY <2>1
  <2>3. a \in [1 .. Len(a) -> Nat] /\ a \in [1 .. Len(a) -> Int]
    BY <1>7, <2>2
  <2>4. a \in Seq(Nat) /\ a \in Seq(Int)
    BY <2>2, <2>3
  <2>5. QED
    BY <2>4 DEF a
<1>9. QED
  BY <1>1, <1>6, <1>8

\* Multiplication keeps an order.
LEMMA TimesMonotone ==
    ASSUME NEW a \in Int, NEW b \in Int, NEW c \in Nat, a <= b
    PROVE  a * c <= b * c /\ c * a <= c * b
OBVIOUS

-----------------------------------------------------------------------------
(* Wilder's RSI *)

Ups(prices) == [i \in 1 .. Len(prices) - 1 |-> Positive(prices[i + 1] - prices[i])]
Downs(prices) == [i \in 1 .. Len(prices) - 1 |-> Positive(prices[i] - prices[i + 1])]

\* The state after those prices.
RSIOf(prices, p) ==
    IF prices = <<>> THEN NewRSI
    ELSE [gain |-> WilderSum(Ups(prices), p), loss |-> WilderSum(Downs(prices), p),
          scale |-> Power(p, Positive(Len(prices) - 1 - p)),
          prev |-> prices[Len(prices)], count |-> Len(prices) - 1]

\* A price more is a rise or a fall more.
LEMMA ChangesOfAppend ==
    ASSUME NEW q \in Seq(Price), NEW v \in Price, q # <<>>
    PROVE  /\ Ups(q) \in Seq(Nat) /\ Downs(q) \in Seq(Nat)
           /\ Len(Ups(q)) = Len(q) - 1 /\ Len(Downs(q)) = Len(q) - 1
           /\ Ups(Append(q, v)) = Append(Ups(q), Positive(v - q[Len(q)]))
           /\ Downs(Append(q, v)) = Append(Downs(q), Positive(q[Len(q)] - v))
<1> DEFINE n == Len(q) - 1
           r == Append(q, v)
           last == q[Len(q)]
<1>1. /\ n \in Nat /\ Len(q) = n + 1 /\ Len(r) = n + 2
      /\ \A i \in 1 .. n + 1 : q[i] \in Nat /\ r[i] = q[i]
      /\ r[n + 2] = v /\ v \in Nat /\ last = q[n + 1]
  BY DEF Price
<1>2. \A x, y \in Int : Positive(x - y) \in Nat
  BY DEF Positive
<1> HIDE DEF n, r, last
<1>3. Ups(q) = [i \in 1 .. n |-> Positive(q[i + 1] - q[i])]
      /\ Downs(q) = [i \in 1 .. n |-> Positive(q[i] - q[i + 1])]
  BY <1>1 DEF Ups, Downs
<1>4. Ups(r) = [i \in 1 .. n + 1 |-> Positive(r[i + 1] - r[i])]
      /\ Downs(r) = [i \in 1 .. n + 1 |-> Positive(r[i] - r[i + 1])]
  <2>1. Len(r) - 1 = n + 1
    BY <1>1
  <2>2. QED
    BY <2>1 DEF Ups, Downs
<1>5. Ups(q) \in Seq(Nat) /\ Downs(q) \in Seq(Nat) /\ Len(Ups(q)) = n /\ Len(Downs(q)) = n
  <2>1. \A i \in 1 .. n : Positive(q[i + 1] - q[i]) \in Nat /\ Positive(q[i] - q[i + 1]) \in Nat
    <3>1. \A i \in 1 .. n : i \in 1 .. n + 1 /\ i + 1 \in 1 .. n + 1
      BY <1>1
    <3>2. \A i \in 1 .. n : q[i] \in Int /\ q[i + 1] \in Int
      BY <1>1, <3>1
    <3>3. QED
      BY <1>2, <3>2
  <2>2. QED
    BY <1>1, <1>3, <2>1
<1>6. \A i \in 1 .. n + 1 : Positive(r[i + 1] - r[i]) \in Nat /\ Positive(r[i] - r[i + 1]) \in Nat
  <2>1. ASSUME NEW i \in 1 .. n + 1 PROVE r[i] \in Int /\ r[i + 1] \in Int
    <3>1. CASE i = n + 1
      <4>1. n + 1 \in 1 .. n + 1 /\ n + 1 + 1 = n + 2
        BY <1>1
      <4>2. r[n + 1] \in Nat /\ r[n + 1 + 1] \in Nat
        BY <1>1, <4>1
      <4>3. QED
        BY <3>1, <4>2
    <3>2. CASE i \in 1 .. n
      <4>1. i + 1 \in 1 .. n + 1 /\ i \in 1 .. n + 1
        BY <1>1, <3>2
      <4>2. r[i] \in Nat /\ r[i + 1] \in Nat
        BY <1>1, <4>1
      <4>3. QED
        BY <4>2
    <3>3. i = n + 1 \/ i \in 1 .. n
      BY <1>1
    <3>4. QED
      BY <3>1, <3>2, <3>3
  <2>2. QED
    BY <1>2, <2>1
<1>7. Ups(r) \in Seq(Nat) /\ Downs(r) \in Seq(Nat) /\ Len(Ups(r)) = n + 1 /\ Len(Downs(r)) = n + 1
  BY <1>1, <1>4, <1>6
<1>8. Positive(v - last) \in Nat /\ Positive(last - v) \in Nat
  <2>1. v \in Int /\ last \in Int
    <3>1. n + 1 \in 1 .. n + 1
      BY <1>1
    <3>2. QED
      BY <1>1, <3>1
  <2>2. QED
    BY <1>2, <2>1
<1>9. \A i \in 1 .. n : Ups(r)[i] = Ups(q)[i] /\ Downs(r)[i] = Downs(q)[i]
  <2>1. ASSUME NEW i \in 1 .. n PROVE r[i] = q[i] /\ r[i + 1] = q[i + 1] /\ i \in 1 .. n + 1
    <3>1. i \in 1 .. n + 1 /\ i + 1 \in 1 .. n + 1
      BY <1>1
    <3>2. QED
      BY <1>1, <3>1
  <2>2. QED
    BY <1>3, <1>4, <2>1
<1>10. Ups(r)[n + 1] = Positive(v - last) /\ Downs(r)[n + 1] = Positive(last - v)
  <2>1. n + 1 \in 1 .. n + 1 /\ n + 1 + 1 = n + 2
    BY <1>1
  <2>2. r[n + 1] = last /\ r[n + 1 + 1] = v
    BY <1>1, <2>1
  <2>3. QED
    BY <1>4, <2>1, <2>2
<1>11. ASSUME NEW a \in Seq(Nat), NEW b \in Seq(Nat), NEW x \in Nat, Len(a) = n, Len(b) = n + 1,
              \A i \in 1 .. n : b[i] = a[i], b[n + 1] = x
       PROVE  b = Append(a, x)
  <2>1. Append(a, x) \in Seq(Nat) /\ Len(Append(a, x)) = n + 1 /\ Append(a, x)[n + 1] = x
        /\ \A i \in 1 .. n : Append(a, x)[i] = a[i]
    BY <1>1, <1>11
  <2>2. ASSUME NEW i \in 1 .. n + 1 PROVE i = n + 1 \/ i \in 1 .. n
    BY <1>1
  <2>3. ASSUME NEW i \in 1 .. n + 1 PROVE b[i] = Append(a, x)[i]
    BY <1>11, <2>1, <2>2
  <2>4. QED
    BY <1>11, <2>1, <2>3, SeqEqual
<1>12. Ups(r) = Append(Ups(q), Positive(v - last))
  BY <1>5, <1>7, <1>8, <1>9, <1>10, <1>11
<1>13. Downs(r) = Append(Downs(q), Positive(last - v))
  BY <1>5, <1>7, <1>8, <1>9, <1>10, <1>11
<1>14. QED
  BY <1>1, <1>5, <1>12, <1>13 DEF r, last

\* Smoothing the averages is what the closed form says of one price more.
LEMMA RSIFollows ==
    ASSUME NEW q \in Seq(Price), NEW v \in Price, NEW p \in Nat \ {0}
    PROVE  UpdateRSI(RSIOf(q, p), p, v) = RSIOf(Append(q, v), p)
<1>1. CASE q = <<>>
  <2> DEFINE r == Append(q, v)
  <2>1. r # <<>> /\ Len(r) = 1 /\ r[1] = v
    BY <1>1
  <2>2. Ups(r) = <<>> /\ Downs(r) = <<>>
    <3>1. 1 .. Len(r) - 1 = {}
      BY <2>1
    <3>2. QED
      BY <3>1 DEF Ups, Downs
  <2>3. Positive(Len(r) - 1 - p) = 0 /\ Power(p, 0) = 1 /\ WilderSum(<<>>, p) = 0
    <3> HIDE DEF r
    <3>1. Positive(Len(r) - 1 - p) = 0
      BY <2>1 DEF Positive
    <3>2. p \in Nat /\ 0 \in Nat
      OBVIOUS
    <3>3. QED
      BY <3>1, <3>2, PowerIsRecursive, WilderOfNone
  <2>4. RSIOf(r, p) = [gain |-> 0, loss |-> 0, scale |-> 1, prev |-> v, count |-> 0]
    <3> HIDE DEF r
    <3>1. QED
      BY <2>1, <2>2, <2>3 DEF RSIOf
  <2>5. UpdateRSI(RSIOf(q, p), p, v) = [gain |-> 0, loss |-> 0, scale |-> 1, prev |-> v, count |-> 0]
    BY <1>1 DEF RSIOf, NewRSI, UpdateRSI, NoPrice
  <2>6. QED
    BY <2>4, <2>5
<1>2. CASE q # <<>>
  <2> DEFINE r == Append(q, v)
             n == Len(q) - 1
             last == q[Len(q)]
             up == Positive(v - last)
             down == Positive(last - v)
             G == WilderSum(Ups(q), p)
             L == WilderSum(Downs(q), p)
             scale == Power(p, Positive(n - p))
  <2>1. n \in Nat /\ Len(q) = n + 1 /\ Len(r) = n + 2 /\ r # <<>> /\ r[n + 2] = v
        /\ last \in Nat /\ last # NoPrice /\ v \in Nat /\ r \in Seq(Price)
    <3>1. n \in Nat /\ Len(q) = n + 1 /\ Len(r) = n + 2 /\ r # <<>> /\ r[n + 2] = v
          /\ last \in Price /\ r \in Seq(Price)
      BY <1>2
    <3>2. QED
      BY <3>1 DEF Price
  <2>2. /\ Ups(q) \in Seq(Nat) /\ Downs(q) \in Seq(Nat) /\ Len(Ups(q)) = n /\ Len(Downs(q)) = n
        /\ Ups(r) = Append(Ups(q), up) /\ Downs(r) = Append(Downs(q), down)
    BY <1>2, ChangesOfAppend
  <2>3. up \in Nat /\ down \in Nat
    BY <2>1 DEF Positive
  <2>4. RSIOf(q, p) = [gain |-> G, loss |-> L, scale |-> scale, prev |-> last, count |-> n]
    BY <1>2, <2>1 DEF RSIOf
  <2>5. RSIOf(r, p) = [gain |-> WilderSum(Ups(r), p), loss |-> WilderSum(Downs(r), p),
                       scale |-> Power(p, Positive((n + 1) - p)), prev |-> v, count |-> n + 1]
    <3>1. Len(r) - 1 = n + 1
      BY <2>1
    <3>2. QED
      BY <2>1, <3>1 DEF RSIOf
  <2> HIDE DEF r, n, last, up, down, G, L, scale
  <2>6. CASE n < p
    <3>1. UpdateRSI(RSIOf(q, p), p, v)
              = [gain |-> G + up, loss |-> L + down, scale |-> scale, prev |-> v, count |-> n + 1]
      <4> DEFINE old == [gain |-> G, loss |-> L, scale |-> scale, prev |-> last, count |-> n]
      <4>1. UpdateRSI(old, p, v)
                = [old EXCEPT !.prev = v, !.count = @ + 1, !.gain = @ + up, !.loss = @ + down]
        BY <2>1, <2>6 DEF UpdateRSI, up, down
      <4>2. QED
        BY <2>4, <4>1
    <3>2. WilderSum(Ups(r), p) = G + up /\ WilderSum(Downs(r), p) = L + down
      BY <2>2, <2>3, <2>6, WilderSeed DEF G, L
    <3>3. Positive((n + 1) - p) = 0 /\ Positive(n - p) = 0
      BY <2>1, <2>6 DEF Positive
    <3>4. QED
      BY <2>5, <3>1, <3>2, <3>3 DEF scale, r
  <2>7. CASE p <= n
    <3>1. Positive(n - p) = n - p /\ Positive((n + 1) - p) = (n - p) + 1 /\ n - p \in Nat
      BY <2>1, <2>7 DEF Positive
    <3>2. scale = Power(p, n - p) /\ scale \in Nat /\ Power(p, (n - p) + 1) = p * scale
      BY <3>1, PowerIsRecursive, PowerType DEF scale
    <3>3. UpdateRSI(RSIOf(q, p), p, v)
              = [gain |-> G * (p - 1) + up * p * scale, loss |-> L * (p - 1) + down * p * scale,
                 scale |-> scale * p, prev |-> v, count |-> n + 1]
      BY <2>1, <2>4, <2>7 DEF UpdateRSI, Smoothed, up, down
    <3>4. WilderSum(Ups(r), p) = G * (p - 1) + up * p * scale
          /\ WilderSum(Downs(r), p) = L * (p - 1) + down * p * scale
      BY <2>2, <2>3, <2>7, <3>2, WilderSmooths DEF G, L
    <3>5. scale * p = Power(p, Positive((n + 1) - p))
      BY <3>1, <3>2
    <3>6. QED
      BY <2>5, <3>3, <3>4, <3>5 DEF r
  <2>8. QED
    BY <2>1, <2>6, <2>7
<1>3. QED
  BY <1>1, <1>2

LEMMA RSIType ==
    ASSUME NEW q \in Seq(Price), NEW p \in Nat \ {0}
    PROVE  RSIOf(q, p) \in [gain : Nat, loss : Nat, scale : Nat, prev : Nat, count : Nat]
<1>1. CASE q = <<>>
  BY <1>1 DEF RSIOf, NewRSI, NoPrice
<1>2. CASE q # <<>>
  <2>1. 1 \in Price /\ Len(q) - 1 \in Nat /\ q[Len(q)] \in Nat
    BY <1>2 DEF Price, NoPrice
  <2>2. Ups(q) \in Seq(Nat) /\ Downs(q) \in Seq(Nat)
    BY <1>2, <2>1, ChangesOfAppend
  <2>3. WilderSum(Ups(q), p) \in Nat /\ WilderSum(Downs(q), p) \in Nat
    BY <2>2, WilderType
  <2>4. Positive(Len(q) - 1 - p) \in Nat
    BY <2>1 DEF Positive
  <2>5. Power(p, Positive(Len(q) - 1 - p)) \in Nat
    BY <2>4, PowerType
  <2>6. QED
    BY <1>2, <2>1, <2>3, <2>5 DEF RSIOf
<1>3. QED
  BY <1>1, <1>2

-----------------------------------------------------------------------------
(* The averages: each holds of its state and of the values it has seen, and   *)
(* the update carries it to one value more.                                   *)

EmaHolds(e, q) ==
    /\ e \in [num : Nat, den : Nat, count : Nat]
    /\ e.count = Len(q)
    /\ e.den = 0 <=> q = <<>>
    /\ Between(e.num, e.den, ToSet(q))

\* An average of the old mean and the new value lies between those seen.
LEMMA EmaFollows ==
    ASSUME NEW q \in Seq(Price), NEW v \in Price, NEW p \in Nat \ {0}, NEW e, EmaHolds(e, q)
    PROVE  EmaHolds(UpdateEMA(e, p, v), Append(q, v))
<1> DEFINE r == Append(q, v)
           f == UpdateEMA(e, p, v)
<1>1. v \in Nat /\ Len(r) = Len(q) + 1 /\ r # <<>> /\ ToSet(r) = ToSet(q) \union {v}
      /\ (ToSet(q) = {} <=> q = <<>>) /\ ToSet(q) \subseteq Nat
  <2>1. Len(r) = Len(q) + 1 /\ r # <<>>
    BY AppendProperties
  <2>2. v \in Nat /\ Price \subseteq Nat
    BY DEF Price
  <2>3. QED
    BY <2>1, <2>2, ToSetOfAppend
<1>2. PICK num \in Nat, den \in Nat : e.num = num /\ e.den = den /\ e.count = Len(q)
  BY DEF EmaHolds
<1>3. CASE den = 0
  <2>1. f = [num |-> v, den |-> 1, count |-> Len(q) + 1]
    BY <1>2, <1>3 DEF UpdateEMA
  <2>2. ToSet(r) = {v}
    BY <1>1, <1>2, <1>3 DEF EmaHolds
  <2>3. Between(v, 1, {v})
    BY <1>1 DEF Between
  <2> HIDE DEF f, r
  <2>4. QED
    <3>1. Len(q) + 1 \in Nat
      OBVIOUS
    <3>2. f \in [num : Nat, den : Nat, count : Nat] /\ f.count = Len(r) /\ f.den = 1 /\ f.num = v
      BY <1>1, <2>1, <3>1
    <3>3. Between(f.num, f.den, ToSet(r))
      BY <2>2, <2>3, <3>2
    <3>4. EmaHolds(f, r)
      BY <1>1, <3>2, <3>3 DEF EmaHolds
    <3>5. QED
      BY <3>4 DEF f, r
<1>4. CASE den # 0
  <2> DEFINE num2 == 2 * v * den + (p - 1) * num
             den2 == den * (p + 1)
  <2>1. f = [num |-> num2, den |-> den2, count |-> Len(q) + 1]
    BY <1>2, <1>4 DEF UpdateEMA
  <2>2. num2 \in Nat /\ den2 \in Nat /\ den2 # 0
    <3>1. PICK a \in Nat : a = p - 1
      OBVIOUS
    <3>2. 2 * v * den \in Nat /\ a * num \in Nat
      BY <1>1
    <3>3. den * (p + 1) \in Nat /\ den * (p + 1) # 0
      BY <1>4
    <3>4. QED
      BY <3>1, <3>2, <3>3
  <2>3. PICK low \in ToSet(q), high \in ToSet(q) : low * den <= num /\ num <= high * den
    BY <1>1, <1>2, <1>4 DEF EmaHolds, Between
  <2>4. low \in Nat /\ high \in Nat
    BY <1>1, <2>3
  \* Both the mean and the new value lie on one side of w.
  <2>5. ASSUME NEW w \in Nat
        PROVE  /\ w * den <= num /\ w <= v => w * den2 <= num2
               /\ num <= w * den /\ v <= w => num2 <= w * den2
    <3>1. PICK a \in Nat, x \in Nat, y \in Nat : a = p - 1 /\ x = w * den /\ y = v * den
      BY <1>1
    <3>2. w * den2 = 2 * x + a * x
      BY <3>1
    <3>3. num2 = 2 * y + a * num
      BY <1>1, <3>1
    <3>4. /\ x <= num => a * x <= a * num
          /\ num <= x => a * num <= a * x
      BY TimesMonotone
    <3>5. /\ w <= v => x <= y
          /\ v <= w => y <= x
      BY <1>1, <3>1, TimesMonotone
    <3>6. a * x \in Nat /\ a * num \in Nat
      OBVIOUS
    <3> HIDE DEF num2, den2
    <3>7. QED
      BY <3>1, <3>2, <3>3, <3>4, <3>5, <3>6
  <2>6. \E m \in ToSet(r) : m * den2 <= num2
    <3>1. CASE low <= v
      BY <1>1, <2>3, <2>4, <2>5, <3>1
    <3>2. CASE v < low
      <4>1. v * den <= low * den
        BY <1>1, <2>4, <3>2, TimesMonotone
      <4>2. v * den <= num /\ v <= v
        BY <1>1, <2>3, <2>4, <4>1
      <4>3. v * den2 <= num2
        BY <1>1, <2>5, <4>2
      <4>4. QED
        BY <1>1, <4>3
    <3>3. QED
      BY <1>1, <2>4, <3>1, <3>2
  <2>7. \E m \in ToSet(r) : num2 <= m * den2
    <3>1. CASE v <= high
      BY <1>1, <2>3, <2>4, <2>5, <3>1
    <3>2. CASE high < v
      <4>1. high * den <= v * den
        BY <1>1, <2>4, <3>2, TimesMonotone
      <4>2. num <= v * den /\ v <= v
        BY <1>1, <2>3, <2>4, <4>1
      <4>3. num2 <= v * den2
        BY <1>1, <2>5, <4>2
      <4>4. QED
        BY <1>1, <4>3
    <3>3. QED
      BY <1>1, <2>4, <3>1, <3>2
  <2> HIDE DEF f, r, num2, den2
  <2>8. Between(num2, den2, ToSet(r))
    BY <2>6, <2>7 DEF Between
  <2>9. QED
    BY <1>1, <2>1, <2>2, <2>8 DEF EmaHolds, f, r
<1>5. QED
  BY <1>2, <1>3, <1>4

-----------------------------------------------------------------------------
(* The session's volume-weighted price. *)

Quantities(trades) == [i \in DOMAIN trades |-> trades[i].qty]
Values(trades) == [i \in DOMAIN trades |-> trades[i].price * trades[i].qty]
PricesWithVolume(trades) == {t.price : t \in {u \in ToSet(trades) : u.qty > 0}}

\* Quantities and values of a session with one trade more.
LEMMA ByTradeOfAppend ==
    ASSUME NEW q \in Seq(Trades), NEW t \in Trades
    PROVE  /\ Quantities(q) \in Seq(Int) /\ Values(q) \in Seq(Int)
           /\ Quantities(Append(q, t)) = Append(Quantities(q), t.qty)
           /\ Values(Append(q, t)) = Append(Values(q), t.price * t.qty)
           /\ t.price * t.qty \in Nat
<1> DEFINE n == Len(q)
           r == Append(q, t)
<1>1. n \in Nat /\ DOMAIN q = 1 .. n /\ DOMAIN r = 1 .. n + 1 /\ r[n + 1] = t
      /\ (\A i \in 1 .. n : r[i] = q[i]) /\ \A i \in 1 .. n + 1 : r[i] \in Trades
  OBVIOUS
<1>2. \A i \in 1 .. n : q[i] \in Trades
  BY <1>1
<1>3. \A u \in Trades : u.qty \in Int /\ u.price * u.qty \in Int
  <2>1. \A u \in Trades : u.qty \in Int /\ u.price \in Int
    BY TradeType
  <2>2. QED
    BY <2>1
<1>4. t.price * t.qty \in Nat /\ t.qty \in Nat
  BY TradeType
<1>5. \A i \in 1 .. n + 1 : i = n + 1 \/ i \in 1 .. n
  BY <1>1
<1> HIDE DEF n, r
<1>6. Quantities(q) = [i \in 1 .. n |-> q[i].qty] /\ Values(q) = [i \in 1 .. n |-> q[i].price * q[i].qty]
      /\ Quantities(r) = [i \in 1 .. n + 1 |-> r[i].qty]
      /\ Values(r) = [i \in 1 .. n + 1 |-> r[i].price * r[i].qty]
  BY <1>1 DEF Quantities, Values
<1>7. Quantities(q) \in Seq(Int) /\ Values(q) \in Seq(Int) /\ Len(Quantities(q)) = n /\ Len(Values(q)) = n
      /\ Quantities(r) \in Seq(Int) /\ Values(r) \in Seq(Int)
      /\ Len(Quantities(r)) = n + 1 /\ Len(Values(r)) = n + 1
  <2>1. n + 1 \in Nat
    BY <1>1
  <2>2. QED
    BY <1>1, <1>2, <1>3, <1>6, <2>1
<1>8. ASSUME NEW a \in Seq(Int), NEW b \in Seq(Int), NEW x \in Int, Len(a) = n, Len(b) = n + 1,
             \A i \in 1 .. n : b[i] = a[i], b[n + 1] = x
      PROVE  b = Append(a, x)
  <2>1. Append(a, x) \in Seq(Int) /\ Len(Append(a, x)) = n + 1 /\ Append(a, x)[n + 1] = x
        /\ \A i \in 1 .. n : Append(a, x)[i] = a[i]
    BY <1>1, <1>8
  <2>2. ASSUME NEW i \in 1 .. n + 1 PROVE b[i] = Append(a, x)[i]
    BY <1>5, <1>8, <2>1
  <2>3. QED
    BY <1>8, <2>1, <2>2, SeqEqual
<1>9. n + 1 \in 1 .. n + 1 /\ \A i \in 1 .. n : i \in 1 .. n + 1
  BY <1>1
<1>10. Quantities(r) = Append(Quantities(q), t.qty)
  <2>1. Quantities(r)[n + 1] = t.qty /\ \A i \in 1 .. n : Quantities(r)[i] = Quantities(q)[i]
    BY <1>1, <1>6, <1>9
  <2>2. QED
    BY <1>4, <1>7, <1>8, <2>1
<1>11. Values(r) = Append(Values(q), t.price * t.qty)
  <2>1. Values(r)[n + 1] = t.price * t.qty /\ \A i \in 1 .. n : Values(r)[i] = Values(q)[i]
    BY <1>1, <1>6, <1>9
  <2>2. QED
    BY <1>4, <1>7, <1>8, <2>1
<1>12. QED
  BY <1>4, <1>7, <1>10, <1>11 DEF r

VwapHolds(w, trades) ==
    /\ w \in [pq : Nat, q : Nat]
    /\ w.pq = SumFunction(Values(trades)) /\ w.q = SumFunction(Quantities(trades))
    /\ w.q = 0 <=> PricesWithVolume(trades) = {}
    /\ w.q = 0 => w.pq = 0
    /\ Between(w.pq, w.q, PricesWithVolume(trades))

\* The sums of the VWAP, and its place between the prices that have a volume.
LEMMA VwapFollows ==
    ASSUME NEW trades \in Seq(Trades), NEW t \in Trades, NEW w, VwapHolds(w, trades)
    PROVE  VwapHolds(UpdateVWAP(w, t.price, t.qty), Append(trades, t))
<1> DEFINE r == Append(trades, t)
           x == UpdateVWAP(w, t.price, t.qty)
           old == PricesWithVolume(trades)
           new == PricesWithVolume(r)
<1>1. PICK pq \in Nat, q \in Nat, price \in Nat, qty \in Nat :
          w.pq = pq /\ w.q = q /\ t.price = price /\ t.qty = qty
  BY TradeType DEF VwapHolds
<1>2. x = [pq |-> pq + price * qty, q |-> q + qty] /\ price * qty \in Nat
      /\ pq + price * qty \in Nat /\ q + qty \in Nat
  BY <1>1 DEF UpdateVWAP
<1>3. SumFunction(Values(r)) = pq + price * qty /\ SumFunction(Quantities(r)) = q + qty
  <2>1. /\ Quantities(trades) \in Seq(Int) /\ Values(trades) \in Seq(Int)
        /\ Quantities(r) = Append(Quantities(trades), qty)
        /\ Values(r) = Append(Values(trades), price * qty)
    BY <1>1, ByTradeOfAppend
  <2>2. SumFunction(Append(Values(trades), price * qty)) = SumFunction(Values(trades)) + price * qty
    BY <1>2, <2>1, SumOfAppend
  <2>3. SumFunction(Append(Quantities(trades), qty)) = SumFunction(Quantities(trades)) + qty
    BY <1>2, <2>1, SumOfAppend
  <2>4. QED
    BY <1>1, <2>1, <2>2, <2>3 DEF VwapHolds
<1>4. ToSet(r) = ToSet(trades) \union {t} /\ ToSet(trades) \subseteq Trades
  BY ToSetOfAppend
<1>5. old \subseteq Nat /\ new = IF qty > 0 THEN old \union {price} ELSE old
  <2>1. old \subseteq Nat
    BY <1>4, TradeType DEF PricesWithVolume
  <2>2. {u \in ToSet(r) : u.qty > 0} = IF qty > 0 THEN {u \in ToSet(trades) : u.qty > 0} \union {t}
                                       ELSE {u \in ToSet(trades) : u.qty > 0}
    BY <1>1, <1>4
  <2>3. QED
    BY <1>1, <2>1, <2>2 DEF PricesWithVolume
<1>6. (q = 0 <=> old = {}) /\ (q = 0 => pq = 0) /\ Between(pq, q, old)
  BY <1>1 DEF VwapHolds
<1> HIDE DEF r, x, old, new
<1>7. Between(pq + price * qty, q + qty, new)
  <2>1. CASE qty = 0
    BY <1>1, <1>5, <1>6, <2>1
  <2>2. CASE qty > 0 /\ old = {}
    <3>1. new = {price} /\ q = 0 /\ pq = 0
      BY <1>5, <1>6, <2>2
    <3>2. price * (q + qty) = pq + price * qty
      BY <3>1
    <3>3. QED
      BY <1>2, <3>1, <3>2 DEF Between
  <2>3. CASE qty > 0 /\ old # {}
    <3>1. PICK low \in old, high \in old : low * q <= pq /\ pq <= high * q
      BY <1>6, <2>3 DEF Between
    <3>2. low \in Nat /\ high \in Nat
      BY <1>5, <3>1
    <3>3. \A m \in Nat : m * (q + qty) = m * q + m * qty /\ m * q \in Nat /\ m * qty \in Nat
      OBVIOUS
    <3>4. \E m \in new : m * (q + qty) <= pq + price * qty
      <4>1. CASE low <= price
        <5>1. low * qty <= price * qty
          BY <3>2, <4>1, TimesMonotone
        <5>2. low * (q + qty) <= pq + price * qty
          BY <1>2, <3>1, <3>2, <3>3, <5>1
        <5>3. QED
          BY <1>5, <2>3, <3>1, <5>2
      <4>2. CASE price < low
        <5>1. price * q <= low * q
          BY <3>2, <4>2, TimesMonotone
        <5>2. price * (q + qty) <= pq + price * qty
          BY <1>2, <3>1, <3>2, <3>3, <5>1
        <5>3. QED
          BY <1>5, <2>3, <5>2
      <4>3. QED
        BY <3>2, <4>1, <4>2
    <3>5. \E m \in new : pq + price * qty <= m * (q + qty)
      <4>1. CASE price <= high
        <5>1. price * qty <= high * qty
          BY <3>2, <4>1, TimesMonotone
        <5>2. pq + price * qty <= high * (q + qty)
          BY <1>2, <3>1, <3>2, <3>3, <5>1
        <5>3. QED
          BY <1>5, <2>3, <3>1, <5>2
      <4>2. CASE high < price
        <5>1. high * q <= price * q
          BY <3>2, <4>2, TimesMonotone
        <5>2. pq + price * qty <= price * (q + qty)
          BY <1>2, <3>1, <3>2, <3>3, <5>1
        <5>3. QED
          BY <1>5, <2>3, <5>2
      <4>3. QED
        BY <3>2, <4>1, <4>2
    <3>6. QED
      BY <3>4, <3>5 DEF Between
  <2>4. QED
    BY <2>1, <2>2, <2>3
<1>8. (q + qty = 0 <=> new = {}) /\ (q + qty = 0 => pq + price * qty = 0)
  <2>1. CASE qty = 0
    <3>1. price * qty = 0
      BY <2>1
    <3>2. QED
      BY <1>5, <1>6, <2>1, <3>1
  <2>2. CASE qty > 0
    BY <1>5, <2>2
  <2>3. QED
    BY <2>1, <2>2
<1>9. QED
  BY <1>2, <1>3, <1>7, <1>8 DEF VwapHolds, r, x, new

-----------------------------------------------------------------------------
(* The moving average, from the last prices. *)

SmaHolds(s, q) ==
    /\ s.buf = LastOf(q, Window) /\ s.total = SumFunction(s.buf)
    /\ s = [buf |-> s.buf, total |-> s.total]

\* What the assumption says of the periods.
LEMMA WindowType == Window \in Nat \ {0} /\ BandPeriod \in Nat \ {0} /\ RsiPeriod \in Nat \ {0}
                    /\ FastPeriod \in Nat \ {0} /\ SlowPeriod \in Nat \ {0}
BY EngineAssumption

\* The running total loses what the full buffer drops.
LEMMA SumOfPush ==
    ASSUME NEW b \in Seq(Int), NEW v \in Int, NEW n \in Nat \ {0}, Len(b) <= n
    PROVE  SumFunction(Push(b, n, v)) = SumFunction(b) - Leaving(b, n) + v
<1>1. CASE Len(b) < n
  <2>1. Push(b, n, v) = Append(b, v) /\ Leaving(b, n) = 0
    BY <1>1 DEF Push, Leaving
  <2>2. QED
    BY <2>1, SumOfAppend
<1>2. CASE Len(b) = n
  <2>1. Push(b, n, v) = Append(Tail(b), v) /\ Leaving(b, n) = Head(b)
    BY <1>2 DEF Push, Leaving
  <2>2. b # <<>> /\ Tail(b) \in Seq(Int) /\ Head(b) \in Int
    BY <1>2
  <2>3. SumFunction(b) = Head(b) + SumFunction(Tail(b))
    BY <2>2, SumOfTail
  <2>4. SumFunction(Append(Tail(b), v)) = SumFunction(Tail(b)) + v /\ SumFunction(Tail(b)) \in Int
    BY <2>2, SumOfAppend
  <2>5. QED
    BY <2>1, <2>2, <2>3, <2>4
<1>3. QED
  BY <1>1, <1>2

\* The buffer holds the last prices and the total is their sum.
LEMMA SmaFollows ==
    ASSUME NEW q \in Seq(Price), NEW v \in Price, NEW s, SmaHolds(s, q)
    PROVE  SmaHolds(UpdateSMA(s, Window, v), Append(q, v))
<1> DEFINE b == s.buf
           f == UpdateSMA(s, Window, v)
<1>1. f = [buf |-> Push(b, Window, v), total |-> s.total - Leaving(b, Window) + v]
  BY DEF UpdateSMA
<1>2. b = LastOf(q, Window) /\ s.total = SumFunction(b)
  BY DEF SmaHolds
<1>3. b \in Seq(Price) /\ Len(b) <= Window
  BY <1>2, WindowType, LastOfType
<1>4. b \in Seq(Int) /\ v \in Int
  <2>1. Len(b) \in Nat /\ b \in [1 .. Len(b) -> Price]
    BY <1>3
  <2>2. b \in [1 .. Len(b) -> Int] /\ v \in Int
    BY <2>1 DEF Price
  <2>3. QED
    BY <2>1, <2>2
<1>5. Push(b, Window, v) = LastOf(Append(q, v), Window)
  BY <1>2, WindowType, PushKeepsLast
<1> HIDE DEF b, f
<1>6. SumFunction(Push(b, Window, v)) = SumFunction(b) - Leaving(b, Window) + v
  BY <1>3, <1>4, WindowType, SumOfPush
<1>7. QED
  BY <1>1, <1>2, <1>5, <1>6 DEF SmaHolds, f

\* So the average lies between them.
LEMMA SmaIsBetween ==
    ASSUME NEW q \in Seq(Price), NEW s, SmaHolds(s, q)
    PROVE  Between(s.total, Len(s.buf), ToSet(LastOf(q, Window)))
<1> DEFINE b == LastOf(q, Window)
           n == Len(b)
<1>1. b \in Seq(Price) /\ s.buf = b /\ s.total = SumFunction(b)
  BY WindowType, LastOfType DEF SmaHolds
<1>2. n \in Nat /\ DOMAIN b = 1 .. n /\ \A i \in 1 .. n : b[i] \in Price
  <2> HIDE DEF b
  <2>1. QED
    BY <1>1
<1>3. \A i \in 1 .. n : b[i] \in Int
  BY <1>2 DEF Price
<1>4. ToSet(b) = {b[i] : i \in 1 .. n}
  <2> HIDE DEF b
  <2>1. QED
    BY <1>2 DEF ToSet
<1> HIDE DEF b
<1>5. CASE n = 0
  BY <1>1, <1>4, <1>5 DEF Between, b
<1>6. CASE n # 0
  <2>1. SumFunction(b) = SumTo(b, n)
    BY <1>2, SumOfSequence
  <2>2. (\E i \in 1 .. n : b[i] * n <= SumTo(b, n)) /\ \E i \in 1 .. n : SumTo(b, n) <= b[i] * n
    BY <1>2, <1>3, <1>6, MeanIsBetween
  <2>3. Between(SumTo(b, n), n, ToSet(b))
    BY <1>4, <2>2 DEF Between
  <2>4. QED
    BY <1>1, <2>1, <2>3 DEF b
<1>7. QED
  BY <1>5, <1>6

-----------------------------------------------------------------------------
(* The delta: purchases less sales, and its last values. *)

Deltas(q) == [i \in 1 .. Len(q) |-> DeltaAfter(q, i)]

DeltaHolds(d, q) ==
    /\ d = [buy |-> d.buy, sell |-> d.sell, cum |-> d.cum, history |-> d.history]
    /\ d.buy \in Int /\ d.sell \in Int
    /\ d.cum = d.buy - d.sell
    /\ d.cum = DeltaAfter(q, Len(q))
    /\ d.history = LastOf(Deltas(q), Window)

LEMMA SignedType == ASSUME NEW t \in Trades PROVE Signed(t) \in Int
BY TradeType DEF Signed

\* The reference delta is a sum over the first trades.
LEMMA DeltaIsSum ==
    ASSUME NEW q \in Seq(Trades), NEW n \in 0 .. Len(q)
    PROVE  /\ DeltaAfter(q, n) = SumTo([i \in 1 .. n |-> Signed(q[i])], n)
           /\ DeltaAfter(q, n) \in Int
<1> DEFINE f == [i \in 1 .. n |-> Signed(q[i])]
<1>1. n \in Nat /\ DOMAIN f = 1 .. n /\ \A i \in 1 .. n : i \in 1 .. Len(q)
  OBVIOUS
<1>2. \A i \in 1 .. n : q[i] \in Trades
  BY <1>1
<1>3. \A i \in 1 .. n : f[i] \in Int
  BY <1>2, SignedType
<1>4. DeltaAfter(q, n) = SumFunction(f)
  BY DEF DeltaAfter
<1> HIDE DEF f
<1>5. SumFunction(f) = SumTo(f, n) /\ SumTo(f, n) \in Int
  BY <1>1, <1>3, SumOfSequence, SumToType
<1>6. QED
  BY <1>4, <1>5 DEF f

\* One trade more adds its signed quantity, and one value to the history.
LEMMA DeltaOfAppend ==
    ASSUME NEW q \in Seq(Trades), NEW t \in Trades
    PROVE  /\ DeltaAfter(Append(q, t), Len(q) + 1) = DeltaAfter(q, Len(q)) + Signed(t)
           /\ DeltaAfter(q, Len(q)) \in Int
           /\ Deltas(q) \in Seq(Int)
           /\ Deltas(Append(q, t)) = Append(Deltas(q), DeltaAfter(q, Len(q)) + Signed(t))
<1> DEFINE n == Len(q)
           r == Append(q, t)
<1>1. n \in Nat /\ r \in Seq(Trades) /\ Len(r) = n + 1 /\ r[n + 1] = t
      /\ (\A i \in 1 .. n : r[i] = q[i]) /\ (\A i \in 1 .. n : q[i] \in Trades)
      /\ \A i \in 1 .. n + 1 : r[i] \in Trades
  OBVIOUS
<1>2. n \in 0 .. Len(q) /\ \A i \in 0 .. n + 1 : i \in 0 .. Len(r)
  BY <1>1
<1>3. n + 1 \in 0 .. Len(r) /\ n \in 0 .. n /\ n \in 0 .. Len(r)
  BY <1>1
<1> HIDE DEF n, r
<1>4. ASSUME NEW k \in 0 .. n PROVE DeltaAfter(r, k) = DeltaAfter(q, k) /\ DeltaAfter(q, k) \in Int
  <2> DEFINE f == [i \in 1 .. k |-> Signed(q[i])]
             g == [i \in 1 .. k |-> Signed(r[i])]
  <2>1. k \in Nat /\ k \in 0 .. Len(q) /\ k \in 0 .. Len(r) /\ \A i \in 1 .. k : i \in 1 .. n
    BY <1>1 DEF n
  <2>2. \A i \in 1 .. k : q[i] \in Trades /\ r[i] = q[i]
    BY <1>1, <2>1
  <2>3. \A i \in 1 .. k : f[i] \in Int /\ g[i] = f[i]
    BY <2>2, SignedType
  <2>4. DeltaAfter(q, k) = SumTo(f, k) /\ DeltaAfter(r, k) = SumTo(g, k) /\ DeltaAfter(q, k) \in Int
    BY <1>1, <2>1, DeltaIsSum
  <2> HIDE DEF f, g
  <2>5. SumTo(g, k) = SumTo(f, k)
    BY <2>1, <2>3, SumToAgrees
  <2>6. QED
    BY <2>4, <2>5
<1>5. DeltaAfter(r, n + 1) = DeltaAfter(r, n) + Signed(t)
  <2> DEFINE f == [i \in 1 .. n |-> Signed(r[i])]
             g == [i \in 1 .. n + 1 |-> Signed(r[i])]
  <2>1. \A i \in 1 .. n : i \in 1 .. n + 1
    BY <1>1
  <2>2. (\A i \in 1 .. n + 1 : g[i] \in Int) /\ (\A i \in 1 .. n : f[i] = g[i] /\ g[i] \in Int)
    BY <1>1, <2>1, SignedType
  <2>3. n + 1 \in 1 .. n + 1
    BY <1>1
  <2>4. g[n + 1] = Signed(t)
    BY <1>1, <2>3
  <2>5. DeltaAfter(r, n + 1) = SumTo(g, n + 1) /\ DeltaAfter(r, n) = SumTo(f, n)
    BY <1>1, <1>3, DeltaIsSum
  <2> HIDE DEF f, g
  <2>6. SumTo(g, n + 1) = SumTo(g, n) + g[n + 1] /\ SumTo(f, n) = SumTo(g, n)
    BY <1>1, <2>2, SumToNext, SumToAgrees
  <2>7. QED
    BY <2>4, <2>5, <2>6
<1>6. DeltaAfter(r, n + 1) = DeltaAfter(q, n) + Signed(t) /\ DeltaAfter(q, n) + Signed(t) \in Int
  <2>1. Signed(t) \in Int
    BY SignedType
  <2>2. QED
    BY <1>3, <1>4, <1>5, <2>1
<1>7. Deltas(q) = [i \in 1 .. n |-> DeltaAfter(q, i)] /\ Deltas(r) = [i \in 1 .. n + 1 |-> DeltaAfter(r, i)]
  <2>1. Len(q) = n /\ Len(r) = n + 1
    BY <1>1 DEF n
  <2>2. QED
    BY <2>1 DEF Deltas
<1>8. \A i \in 1 .. n : i \in 0 .. n /\ i \in 1 .. n + 1
  BY <1>1
<1>9. \A i \in 1 .. n + 1 : i = n + 1 \/ i \in 1 .. n
  BY <1>1
<1>10. Deltas(q) \in Seq(Int) /\ Len(Deltas(q)) = n
  <2>1. \A i \in 1 .. n : DeltaAfter(q, i) \in Int
    BY <1>4, <1>8
  <2>2. QED
    BY <1>1, <1>7, <2>1
<1>11. Deltas(r) \in Seq(Int) /\ Len(Deltas(r)) = n + 1
  <2>1. \A i \in 1 .. n + 1 : DeltaAfter(r, i) \in Int
    BY <1>4, <1>6, <1>8, <1>9
  <2>2. QED
    BY <1>1, <1>7, <2>1
<1>12. Deltas(r) = Append(Deltas(q), DeltaAfter(q, n) + Signed(t))
  <2> DEFINE x == DeltaAfter(q, n) + Signed(t)
             a == Deltas(q)
             b == Deltas(r)
  <2>1. b[n + 1] = x /\ \A i \in 1 .. n : b[i] = a[i]
    <3>1. n + 1 \in 1 .. n + 1
      BY <1>1
    <3>2. QED
      BY <1>4, <1>6, <1>7, <1>8, <3>1
  <2>2. a \in Seq(Int) /\ b \in Seq(Int) /\ x \in Int /\ Len(a) = n /\ Len(b) = n + 1
    BY <1>6, <1>10, <1>11
  <2> HIDE DEF a, b, x
  <2>3. Append(a, x) \in Seq(Int) /\ Len(Append(a, x)) = n + 1 /\ Append(a, x)[n + 1] = x
        /\ \A i \in 1 .. n : Append(a, x)[i] = a[i]
    BY <1>1, <2>2
  <2>4. ASSUME NEW i \in 1 .. n + 1 PROVE b[i] = Append(a, x)[i]
    BY <1>9, <2>1, <2>3
  <2>5. b = Append(a, x)
    BY <2>2, <2>3, <2>4, SeqEqual
  <2>6. QED
    BY <2>5 DEF a, b, x
<1>13. QED
  BY <1>3, <1>4, <1>6, <1>10, <1>12 DEF n, r

\* The accumulated delta and its history are those of the tape.
LEMMA DeltaFollows ==
    ASSUME NEW q \in Seq(Trades), NEW t \in Trades, NEW d, DeltaHolds(d, q)
    PROVE  DeltaHolds(UpdateDelta(d, Window, t.qty, t.side), Append(q, t))
<1> DEFINE r == Append(q, t)
           f == UpdateDelta(d, Window, t.qty, t.side)
           cum == d.cum + Signed(t)
<1>1. PICK qty \in Nat : t.qty = qty
  BY TradeType
<1>2. Len(r) = Len(q) + 1
  OBVIOUS
<1>3. /\ d.cum = DeltaAfter(q, Len(q)) /\ d.cum \in Int
      /\ DeltaAfter(r, Len(q) + 1) = cum
      /\ Deltas(q) \in Seq(Int) /\ Deltas(r) = Append(Deltas(q), cum)
  BY DeltaOfAppend DEF DeltaHolds
<1>4. Signed(t) \in Int /\ cum \in Int
  BY <1>3, SignedType
<1>5. Accumulate(d.cum, t.qty, t.side) = cum
  BY <1>1, <1>3 DEF Accumulate, Signed
<1>6. Push(d.history, Window, cum) = LastOf(Deltas(r), Window)
  <2>1. Push(LastOf(Deltas(q), Window), Window, cum) = LastOf(Append(Deltas(q), cum), Window)
    <3> HIDE DEF cum
    <3>1. QED
      BY <1>3, <1>4, WindowType, PushKeepsLast
  <2>2. QED
    BY <1>3, <2>1 DEF DeltaHolds
<1>7. f = [buy |-> IF t.side = "B" THEN d.buy + qty ELSE d.buy,
           sell |-> IF t.side = "B" THEN d.sell ELSE d.sell + qty,
           cum |-> cum, history |-> Push(d.history, Window, cum)]
  <2> HIDE DEF cum
  <2>1. QED
    BY <1>1, <1>5 DEF UpdateDelta
<1>8. d.buy \in Int /\ d.sell \in Int /\ d.cum = d.buy - d.sell
  BY DEF DeltaHolds
<1>9. f.buy \in Int /\ f.sell \in Int /\ cum = f.buy - f.sell /\ f.cum = cum
      /\ f.history = Push(d.history, Window, cum)
      /\ f = [buy |-> f.buy, sell |-> f.sell, cum |-> f.cum, history |-> f.history]
  <2>1. Signed(t) = IF t.side = "B" THEN qty ELSE -qty
    BY <1>1 DEF Signed
  <2>2. CASE t.side = "B"
    <3>1. f = [buy |-> d.buy + qty, sell |-> d.sell, cum |-> cum,
               history |-> Push(d.history, Window, cum)]
      BY <1>7, <2>2
    <3> HIDE DEF f
    <3>2. QED
      BY <1>8, <2>1, <2>2, <3>1
  <2>3. CASE t.side # "B"
    <3>1. f = [buy |-> d.buy, sell |-> d.sell + qty, cum |-> cum,
               history |-> Push(d.history, Window, cum)]
      BY <1>7, <2>3
    <3> HIDE DEF f
    <3>2. QED
      BY <1>8, <2>1, <2>3, <3>1
  <2>4. QED
    BY <2>2, <2>3
<1> HIDE DEF f, r, cum
<1>10. QED
  BY <1>2, <1>3, <1>6, <1>9 DEF DeltaHolds, f, r

-----------------------------------------------------------------------------
(* The volume profile: finitely many levels, holding all that was traded. *)

ProfileTypes(p) ==
    /\ IsFiniteSet(DOMAIN p) /\ DOMAIN p \subseteq Nat
    /\ \A k \in DOMAIN p : p[k] \in [buy : Nat, sell : Nat]

ProfileHolds(p, q) == ProfileTypes(p) /\ ProfileTotal(p) = SumFunction(Quantities(q))

\* The total of a profile sums the volumes of its levels.
LEMMA VolumesType ==
    ASSUME NEW p, ProfileTypes(p)
    PROVE  /\ DOMAIN Volumes(p) = DOMAIN p
           /\ \A k \in DOMAIN p : Volumes(p)[k] = LevelVolume(p, k) /\ LevelVolume(p, k) \in Nat
           /\ ProfileTotal(p) = SumFunctionOnSet(Volumes(p), DOMAIN p)
<1>1. DOMAIN Volumes(p) = DOMAIN p /\ \A k \in DOMAIN p : Volumes(p)[k] = LevelVolume(p, k)
  BY DEF Volumes
<1>2. \A k \in DOMAIN p : LevelVolume(p, k) \in Nat
  <2>1. ASSUME NEW k \in DOMAIN p PROVE LevelVolume(p, k) \in Nat
    <3>1. p[k].buy \in Nat /\ p[k].sell \in Nat
      BY DEF ProfileTypes
    <3>2. QED
      BY <3>1 DEF LevelVolume
  <2>2. QED
    BY <2>1
<1>3. ProfileTotal(p) = SumFunctionOnSet(Volumes(p), DOMAIN p)
  BY <1>1 DEF ProfileTotal, SumFunction
<1>4. QED
  BY <1>1, <1>2, <1>3

\* One value of a summed function grows.
LEMMA SumGrows ==
    ASSUME NEW f, NEW g, NEW S, IsFiniteSet(S), NEW x, NEW n \in Int,
           \A y \in S : f[y] \in Int,
           \A y \in S \ {x} : g[y] = f[y],
           g[x] = (IF x \in S THEN f[x] ELSE 0) + n
    PROVE  SumFunctionOnSet(g, S \union {x}) = SumFunctionOnSet(f, S) + n
<1> DEFINE R == S \ {x}
<1>1. IsFiniteSet(R) /\ x \notin R
  BY FS_RemoveElement
<1>2. S \union {x} = R \union {x} /\ R \subseteq S
  OBVIOUS
<1>3. g[x] \in Int
  OBVIOUS
<1>4. \A y \in R \union {x} : g[y] \in Int
  BY <1>3
<1> HIDE DEF R
<1>5. SumFunctionOnSet(g, S \union {x}) = SumFunctionOnSet(g, R) + g[x]
  <2>1. SumFunctionOnSet(g, R \union {x}) = SumFunctionOnSet(g, R) + g[x]
    BY <1>1, <1>4, SumWithOneMore
  <2>2. QED
    BY <1>2, <2>1
<1>6. SumFunctionOnSet(g, R) = SumFunctionOnSet(f, R) /\ SumFunctionOnSet(f, R) \in Int
  <2>1. \A y \in R : f[y] \in Int /\ g[y] = f[y]
    BY DEF R
  <2>2. QED
    BY <1>1, <2>1, SumAgrees, SumType
<1>7. CASE x \in S
  <2>1. S = R \union {x} /\ \A y \in R \union {x} : f[y] \in Int
    BY <1>7 DEF R
  <2>2. SumFunctionOnSet(f, S) = SumFunctionOnSet(f, R) + f[x]
    BY <1>1, <2>1, SumWithOneMore
  <2>3. QED
    BY <1>5, <1>6, <1>7, <2>2
<1>8. CASE x \notin S
  <2>1. S = R
    BY <1>8 DEF R
  <2>2. QED
    BY <1>5, <1>6, <1>8, <2>1
<1>9. QED
  BY <1>7, <1>8

\* A trade adds its quantity to one level and so to the total.
LEMMA ProfileFollows ==
    ASSUME NEW q \in Seq(Trades), NEW t \in Trades, NEW p, ProfileHolds(p, q)
    PROVE  ProfileHolds(UpdateProfile(p, t.price, t.qty, t.side), Append(q, t))
<1> DEFINE price == t.price
           old == IF price \in DOMAIN p THEN p[price] ELSE [buy |-> 0, sell |-> 0]
           new == IF t.side = "B" THEN [old EXCEPT !.buy = @ + t.qty]
                                  ELSE [old EXCEPT !.sell = @ + t.qty]
           r == UpdateProfile(p, t.price, t.qty, t.side)
<1>1. price \in Nat /\ t.qty \in Nat
  BY TradeType
<1>2. r = [k \in DOMAIN p \union {price} |-> IF k = price THEN new ELSE p[k]]
  BY DEF UpdateProfile
<1>3. ProfileTypes(p) /\ ProfileTotal(p) = SumFunction(Quantities(q))
  BY DEF ProfileHolds
<1>4. old \in [buy : Nat, sell : Nat]
      /\ old.buy + old.sell = IF price \in DOMAIN p THEN LevelVolume(p, price) ELSE 0
  <2>1. CASE price \in DOMAIN p
    BY <1>3, <2>1 DEF ProfileTypes, LevelVolume
  <2>2. CASE price \notin DOMAIN p
    BY <2>2
  <2>3. QED
    BY <2>1, <2>2
<1>5. new \in [buy : Nat, sell : Nat] /\ new.buy + new.sell = old.buy + old.sell + t.qty
  <2> HIDE DEF old
  <2>1. PICK a \in Nat, b \in Nat : old = [buy |-> a, sell |-> b]
    BY <1>4
  <2>2. CASE t.side = "B"
    <3>1. new = [buy |-> a + t.qty, sell |-> b]
      BY <2>1, <2>2
    <3> HIDE DEF new
    <3>2. QED
      BY <1>1, <2>1, <3>1
  <2>3. CASE t.side # "B"
    <3>1. new = [buy |-> a, sell |-> b + t.qty]
      BY <2>1, <2>3
    <3> HIDE DEF new
    <3>2. QED
      BY <1>1, <2>1, <3>1
  <2>4. QED
    BY <2>2, <2>3
<1> HIDE DEF old, new, r, price
<1>6. ProfileTypes(r)
  <2>1. IsFiniteSet(DOMAIN p \union {price})
    BY <1>3, FS_AddElement DEF ProfileTypes
  <2>2. QED
    BY <1>1, <1>2, <1>3, <1>5, <2>1 DEF ProfileTypes
<1>7. ProfileTotal(r) = ProfileTotal(p) + t.qty
  <2> DEFINE f == Volumes(p)
             g == Volumes(r)
             S == DOMAIN p
  <2>1. /\ \A k \in S : f[k] = LevelVolume(p, k) /\ f[k] \in Int
        /\ ProfileTotal(p) = SumFunctionOnSet(f, S)
    BY <1>3, VolumesType
  <2>2. /\ DOMAIN r = S \union {price}
        /\ \A k \in S \union {price} : g[k] = LevelVolume(r, k) /\ LevelVolume(r, k) \in Nat
        /\ ProfileTotal(r) = SumFunctionOnSet(g, S \union {price})
    <3>1. DOMAIN r = S \union {price}
      BY <1>2
    <3>2. QED
      BY <1>6, <3>1, VolumesType
  <2>3. \A k \in S \ {price} : g[k] = f[k]
    <3>1. \A k \in S \ {price} : r[k] = p[k]
      BY <1>2
    <3>2. QED
      BY <2>1, <2>2, <3>1 DEF LevelVolume
  <2>4. g[price] = (IF price \in S THEN f[price] ELSE 0) + t.qty
    <3>1. r[price] = new
      BY <1>2
    <3>2. g[price] = new.buy + new.sell
      BY <2>2, <3>1 DEF LevelVolume
    <3>3. QED
      BY <1>4, <1>5, <2>1, <3>2
  <2>5. IsFiniteSet(S) /\ t.qty \in Int
    BY <1>1, <1>3 DEF ProfileTypes
  <2> HIDE DEF f, g, S
  <2>6. SumFunctionOnSet(g, S \union {price}) = SumFunctionOnSet(f, S) + t.qty
    BY <2>1, <2>3, <2>4, <2>5, SumGrows
  <2>7. QED
    BY <2>1, <2>2, <2>6
<1>8. SumFunction(Quantities(Append(q, t))) = SumFunction(Quantities(q)) + t.qty
  <2>1. Quantities(q) \in Seq(Int) /\ Quantities(Append(q, t)) = Append(Quantities(q), t.qty)
    BY ByTradeOfAppend
  <2>2. t.qty \in Int
    BY <1>1
  <2>3. QED
    BY <2>1, <2>2, SumOfAppend
<1>9. QED
  BY <1>3, <1>6, <1>7, <1>8 DEF ProfileHolds, r

LEMMA NewProfileHolds == ProfileHolds(NewProfile, <<>>)
<1>1. DOMAIN NewProfile = {}
  BY DEF NewProfile
<1>2. ProfileTypes(NewProfile)
  BY <1>1, FS_EmptySet DEF ProfileTypes
<1>3. ProfileTotal(NewProfile) = 0
  BY <1>1, <1>2, VolumesType, SumOfNone
<1>4. SumFunction(Quantities(<<>>)) = 0
  <2>1. DOMAIN Quantities(<<>>) = {}
    BY DEF Quantities
  <2>2. QED
    BY <2>1, SumOfNone DEF SumFunction
<1>5. QED
  BY <1>2, <1>3, <1>4 DEF ProfileHolds

-----------------------------------------------------------------------------
(* Least and greatest levels. *)

\* A function on a finite set has a greatest value.
LEMMA GreatestExists ==
    ASSUME NEW S, IsFiniteSet(S), S # {}, NEW f, \A x \in S : f[x] \in Int
    PROVE  \E x \in S : \A y \in S : f[y] <= f[x]
<1> DEFINE P == {T \in SUBSET S : T = {} \/ \E x \in T : \A y \in T : f[y] <= f[x]}
<1>1. {} \in P
  OBVIOUS
<1>2. ASSUME NEW T \in P, NEW z \in S PROVE T \union {z} \in P
  <2> DEFINE R == T \union {z}
  <2>1. R \in SUBSET S /\ z \in R
    OBVIOUS
  <2>2. \E x \in R : \A y \in R : f[y] <= f[x]
    <3>1. CASE T = {}
      BY <3>1
    <3>2. CASE T # {}
      <4>1. PICK x \in T : \A y \in T : f[y] <= f[x]
        BY <3>2
      <4>2. CASE f[x] <= f[z]
        BY <4>1, <4>2
      <4>3. CASE f[z] <= f[x]
        BY <4>1, <4>3
      <4>4. f[x] <= f[z] \/ f[z] <= f[x]
        BY <4>1
      <4>5. QED
        BY <4>2, <4>3, <4>4
    <3>3. QED
      BY <3>1, <3>2
  <2>3. QED
    BY <2>1, <2>2
<1>3. S \in P
  <2>1. P \in SUBSET (SUBSET S) /\ \A T \in P, x \in S : x \notin T => T \union {x} \in P
    BY <1>2
  <2> HIDE DEF P
  <2>2. QED
    BY <1>1, <2>1, SubsetInduction
<1>4. QED
  BY <1>3

\* Max and Min are what their names say, of finite sets of levels.
LEMMA MaxOfFinite ==
    ASSUME NEW S \in SUBSET Nat, IsFiniteSet(S), S # {}
    PROVE  Max(S) \in S /\ \A y \in S : y <= Max(S)
<1> DEFINE f == [x \in S |-> x]
<1>1. \A x \in S : f[x] = x /\ f[x] \in Int
  OBVIOUS
<1> HIDE DEF f
<1>2. PICK x \in S : \A y \in S : f[y] <= f[x]
  BY <1>1, GreatestExists
<1>3. \A y \in S : x >= y
  BY <1>1, <1>2
<1>4. Max(S) \in S /\ \A y \in S : Max(S) >= y
  BY <1>3, Zenon DEF Max
<1>5. QED
  BY <1>4

LEMMA MinOfFinite ==
    ASSUME NEW S \in SUBSET Nat, IsFiniteSet(S), S # {}
    PROVE  Min(S) \in S /\ \A y \in S : Min(S) <= y
<1> DEFINE f == [x \in S |-> -x]
<1>1. \A x \in S : f[x] = -x /\ f[x] \in Int
  OBVIOUS
<1> HIDE DEF f
<1>2. PICK x \in S : \A y \in S : f[y] <= f[x]
  BY <1>1, GreatestExists
<1>3. \A y \in S : x =< y
  BY <1>1, <1>2
<1>4. QED
  BY <1>3, Zenon DEF Min

-----------------------------------------------------------------------------
(* Iteration: a step that lowers a bounded measure until it stops. *)

Iterates(g, X, stop, next) == \A x \in X : g[x] = IF x \in stop THEN x ELSE g[next[x]]

Lowers(X, stop, next, measure) ==
    \A x \in X \ stop : next[x] \in X /\ measure[next[x]] < measure[x]

\* The recursive function of such an iteration exists.
LEMMA IterationExists ==
    ASSUME NEW X, NEW stop, NEW next, NEW bound \in Nat, NEW measure \in [X -> 0 .. bound],
           Lowers(X, stop, next, measure)
    PROVE  \E g : g = [x \in X |-> IF x \in stop THEN x ELSE g[next[x]]]
<1> DEFINE Upto(n, g) == \A x \in X : measure[x] < n =>
                             g[x] = IF x \in stop THEN x ELSE g[next[x]]
           P == {n \in Nat : \E g : Upto(n, g)}
<1>1. 0 \in P
  OBVIOUS
<1>2. ASSUME NEW n \in Nat, n \in P PROVE n + 1 \in P
  <2>1. PICK g : Upto(n, g)
    BY <1>2
  <2> DEFINE h == [x \in X |-> IF measure[x] < n THEN g[x]
                               ELSE IF x \in stop THEN x ELSE g[next[x]]]
  <2>2. ASSUME NEW x \in X, measure[x] < n + 1
        PROVE  h[x] = IF x \in stop THEN x ELSE h[next[x]]
    <3>1. CASE x \in stop
      <4>1. measure[x] < n => g[x] = x
        BY <2>1, <3>1
      <4>2. QED
        BY <3>1, <4>1
    <3>2. CASE x \notin stop
      <4>1. next[x] \in X /\ measure[next[x]] < measure[x]
        BY <3>2 DEF Lowers
      <4>2. measure[x] \in Int /\ measure[next[x]] \in Int
        BY <4>1
      <4>3. measure[next[x]] < n
        BY <2>2, <4>1, <4>2
      <4>4. h[next[x]] = g[next[x]]
        BY <4>1, <4>3
      <4>5. measure[x] < n => g[x] = g[next[x]]
        BY <2>1, <3>2
      <4>6. h[x] = g[next[x]]
        BY <3>2, <4>5
      <4>7. QED
        BY <3>2, <4>4, <4>6
    <3>3. QED
      BY <3>1, <3>2
  <2>3. Upto(n + 1, h)
    <3> HIDE DEF h
    <3>1. QED
      BY <2>2
  <2> HIDE DEF h, Upto
  <2>4. QED
    BY <2>3
<1>3. bound + 1 \in P
  <2>1. bound + 1 \in Nat
    OBVIOUS
  <2> HIDE DEF P
  <2>2. QED
    BY <1>1, <1>2, <2>1, NumberInduction
<1>4. PICK g : Upto(bound + 1, g)
  BY <1>3
<1> DEFINE h == [x \in X |-> g[x]]
<1>5. ASSUME NEW x \in X PROVE h[x] = IF x \in stop THEN x ELSE h[next[x]]
  <2>1. measure[x] < bound + 1
    OBVIOUS
  <2>2. g[x] = IF x \in stop THEN x ELSE g[next[x]]
    BY <1>4, <2>1
  <2>3. x \notin stop => next[x] \in X
    BY DEF Lowers
  <2>4. QED
    BY <2>2, <2>3
<1>6. h = [x \in X |-> IF x \in stop THEN x ELSE h[next[x]]]
  <2>1. h = [x \in X |-> h[x]]
    OBVIOUS
  <2> HIDE DEF h
  <2>2. QED
    BY <1>5, <2>1
<1> HIDE DEF h
<1>7. QED
  BY <1>6

\* It stops, and what every step keeps holds where it stops.
LEMMA IterationKeeps ==
    ASSUME NEW X, NEW stop, NEW next, NEW bound \in Nat, NEW measure \in [X -> 0 .. bound],
           Lowers(X, stop, next, measure), NEW g, Iterates(g, X, stop, next),
           NEW J \in SUBSET X, \A x \in J \ stop : next[x] \in J, NEW y \in J
    PROVE  g[y] \in J /\ g[y] \in stop
<1> DEFINE P == {n \in Nat : \A x \in J : measure[x] < n => g[x] \in J /\ g[x] \in stop}
<1>1. 0 \in P
  OBVIOUS
<1>2. ASSUME NEW n \in Nat, n \in P PROVE n + 1 \in P
  <2>1. ASSUME NEW x \in J, measure[x] < n + 1 PROVE g[x] \in J /\ g[x] \in stop
    <3>1. CASE x \in stop
      BY <3>1 DEF Iterates
    <3>2. CASE x \notin stop
      <4>1. next[x] \in J /\ measure[next[x]] < measure[x] /\ g[x] = g[next[x]]
        BY <3>2 DEF Lowers, Iterates
      <4>2. measure[x] \in Int /\ measure[next[x]] \in Int
        BY <4>1
      <4>3. measure[next[x]] < n
        BY <2>1, <4>1, <4>2
      <4>4. QED
        BY <1>2, <4>1, <4>3
    <3>3. QED
      BY <3>1, <3>2
  <2>2. QED
    BY <2>1
<1>3. bound + 1 \in P
  <2>1. bound + 1 \in Nat
    OBVIOUS
  <2> HIDE DEF P
  <2>2. QED
    BY <1>1, <1>2, <2>1, NumberInduction
<1>4. measure[y] < bound + 1
  OBVIOUS
<1>5. QED
  BY <1>3, <1>4

-----------------------------------------------------------------------------
(* The value area: it grows by one level until it holds enough. *)

Areas(p) == (DOMAIN p) \X (DOMAIN p)
Grown(p) == [area \in Areas(p) |->
    IF Downwards(p, area) THEN <<Max(LevelsBelow(p, area[1])), area[2]>>
                          ELSE <<area[1], Min(LevelsAbove(p, area[2]))>>]
Stopped(p) == {area \in Areas(p) : Complete(p, area)}
Within(p, area) == {k \in DOMAIN p : k >= area[1] /\ k <= area[2]}
Beyond(p) == [area \in Areas(p) |->
    Cardinality(LevelsBelow(p, area[1])) + Cardinality(LevelsAbove(p, area[2]))]

\* The volume of an area sums the levels within it.
LEMMA AreaVolumeType ==
    ASSUME NEW p, ProfileTypes(p), NEW area \in Areas(p)
    PROVE  /\ IsFiniteSet(Within(p, area)) /\ AreaVolume(p, area) \in Int
           /\ AreaVolume(p, area) = SumFunctionOnSet(Volumes(p), Within(p, area))
<1>1. Within(p, area) \subseteq DOMAIN p
  BY DEF Within
<1>2. IsFiniteSet(Within(p, area))
  BY <1>1, FS_Subset DEF ProfileTypes
<1>3. \A k \in Within(p, area) : Volumes(p)[k] \in Int
  BY <1>1, VolumesType
<1>4. AreaVolume(p, area) = SumFunctionOnSet(Volumes(p), Within(p, area))
  BY DEF AreaVolume, Within
<1>5. QED
  BY <1>2, <1>3, <1>4, SumType

\* Below and above a level there are at most all levels.
LEMMA LevelsAreFinite ==
    ASSUME NEW p, ProfileTypes(p), NEW k \in DOMAIN p
    PROVE  /\ LevelsBelow(p, k) \in SUBSET Nat /\ IsFiniteSet(LevelsBelow(p, k))
           /\ Cardinality(LevelsBelow(p, k)) \in 0 .. Cardinality(DOMAIN p)
           /\ LevelsAbove(p, k) \in SUBSET Nat /\ IsFiniteSet(LevelsAbove(p, k))
           /\ Cardinality(LevelsAbove(p, k)) \in 0 .. Cardinality(DOMAIN p)
<1> DEFINE D == DOMAIN p
<1>1. D \subseteq Nat /\ IsFiniteSet(D)
  BY DEF ProfileTypes
<1>2. LevelsBelow(p, k) \in SUBSET D /\ LevelsAbove(p, k) \in SUBSET D
  BY DEF LevelsBelow, LevelsAbove
<1> HIDE DEF D
<1>3. /\ IsFiniteSet(LevelsBelow(p, k)) /\ Cardinality(LevelsBelow(p, k)) <= Cardinality(D)
      /\ IsFiniteSet(LevelsAbove(p, k)) /\ Cardinality(LevelsAbove(p, k)) <= Cardinality(D)
  BY <1>1, <1>2, FS_Subset
<1>4. Cardinality(LevelsBelow(p, k)) \in Nat /\ Cardinality(LevelsAbove(p, k)) \in Nat
      /\ Cardinality(D) \in Nat
  BY <1>1, <1>3, FS_CardinalityType
<1>5. QED
  BY <1>1, <1>2, <1>3, <1>4 DEF D

\* A step adds the nearest level on one side.
LEMMA GrownByOne ==
    ASSUME NEW p, ProfileTypes(p), NEW area \in Areas(p), area \notin Stopped(p)
    PROVE  /\ Grown(p)[area] \in Areas(p)
           /\ Beyond(p)[Grown(p)[area]] < Beyond(p)[area]
           /\ \E k \in DOMAIN p :
                /\ \/ k < area[1] /\ Grown(p)[area] = <<k, area[2]>>
                   \/ k > area[2] /\ Grown(p)[area] = <<area[1], k>>
                /\ k \notin Within(p, area)
                /\ area[1] <= area[2] => Within(p, Grown(p)[area]) = Within(p, area) \union {k}
<1> DEFINE B == LevelsBelow(p, area[1])
           A == LevelsAbove(p, area[2])
           D == DOMAIN p
<1>1. PICK lo \in D, hi \in D : area = <<lo, hi>>
  BY DEF Areas
<1>2. D \subseteq Nat /\ lo \in Nat /\ hi \in Nat
  BY <1>1 DEF ProfileTypes
<1>3. B = {j \in D : j < lo} /\ A = {j \in D : j > hi}
  BY <1>1 DEF LevelsBelow, LevelsAbove
<1>4. IsFiniteSet(A) /\ IsFiniteSet(B) /\ A \in SUBSET Nat /\ B \in SUBSET Nat
  BY <1>1, LevelsAreFinite
<1>5. Downwards(p, area) => B # {}
  BY DEF Downwards
<1>6. ~Downwards(p, area) => A # {}
  BY DEF Stopped, Complete, Downwards
<1>7. Within(p, area) = {j \in D : j >= lo /\ j <= hi}
  BY <1>1 DEF Within
<1>8. Beyond(p)[area] = Cardinality(B) + Cardinality(A)
  BY DEF Beyond
<1>9. CASE Downwards(p, area)
  <2> DEFINE k == Max(B)
             next == <<k, hi>>
  <2>1. k \in B /\ \A j \in B : j <= k
    BY <1>4, <1>5, <1>9, MaxOfFinite
  <2>2. Grown(p)[area] = next
    BY <1>1, <1>9 DEF Grown
  <2> HIDE DEF k
  <2>3. k \in D /\ k < lo /\ k \in Nat
    BY <1>2, <1>3, <2>1
  <2>4. next \in Areas(p) /\ next[1] = k /\ next[2] = hi
    BY <1>1, <2>3 DEF Areas
  <2>5. k \notin Within(p, area)
    BY <1>2, <1>7, <2>3
  <2>6. lo <= hi => Within(p, next) = Within(p, area) \union {k}
    <3>1. Within(p, next) = {j \in D : j >= k /\ j <= hi}
      BY <2>4 DEF Within
    <3>2. \A j \in D : j >= k <=> j >= lo \/ j = k
      BY <1>2, <1>3, <2>1, <2>3
    <3>3. QED
      BY <1>2, <1>7, <2>3, <3>1, <3>2
  <2>7. Beyond(p)[next] < Beyond(p)[area]
    <3> DEFINE C == LevelsBelow(p, k)
    <3>1. Beyond(p)[next] = Cardinality(C) + Cardinality(A)
      BY <1>1, <2>4 DEF Beyond
    <3>2. C \in SUBSET B /\ k \in B /\ k \notin C
      BY <1>2, <1>3, <2>1, <2>3 DEF LevelsBelow
    <3> HIDE DEF A, B, C
    <3>3. Cardinality(C) <= Cardinality(B) /\ (Cardinality(B) = Cardinality(C) => B = C)
          /\ IsFiniteSet(C)
      BY <1>4, <3>2, FS_Subset
    <3>4. Cardinality(C) \in Nat /\ Cardinality(B) \in Nat /\ Cardinality(A) \in Nat
      BY <1>4, <3>3, FS_CardinalityType
    <3>5. B # C
      BY <3>2
    <3>6. QED
      BY <1>8, <3>1, <3>3, <3>4, <3>5
  <2> HIDE DEF next, A, B
  <2>8. Grown(p)[area] = <<k, area[2]>> /\ area[1] = lo /\ area[2] = hi
    BY <1>1, <2>2 DEF next
  <2>9. QED
    BY <2>2, <2>3, <2>4, <2>5, <2>6, <2>7, <2>8
<1>10. CASE ~Downwards(p, area)
  <2> DEFINE k == Min(A)
             next == <<lo, k>>
  <2>1. k \in A /\ \A j \in A : k <= j
    BY <1>4, <1>6, <1>10, MinOfFinite
  <2>2. Grown(p)[area] = next
    BY <1>1, <1>10 DEF Grown
  <2> HIDE DEF k
  <2>3. k \in D /\ k > hi /\ k \in Nat
    BY <1>2, <1>3, <2>1
  <2>4. next \in Areas(p) /\ next[1] = lo /\ next[2] = k
    BY <1>1, <2>3 DEF Areas
  <2>5. k \notin Within(p, area)
    BY <1>2, <1>7, <2>3
  <2>6. lo <= hi => Within(p, next) = Within(p, area) \union {k}
    <3>1. Within(p, next) = {j \in D : j >= lo /\ j <= k}
      BY <2>4 DEF Within
    <3>2. \A j \in D : j <= k <=> j <= hi \/ j = k
      BY <1>2, <1>3, <2>1, <2>3
    <3>3. QED
      BY <1>2, <1>7, <2>3, <3>1, <3>2
  <2>7. Beyond(p)[next] < Beyond(p)[area]
    <3> DEFINE C == LevelsAbove(p, k)
    <3>1. Beyond(p)[next] = Cardinality(B) + Cardinality(C)
      BY <1>1, <2>4 DEF Beyond
    <3>2. C \in SUBSET A /\ k \in A /\ k \notin C
      BY <1>2, <1>3, <2>1, <2>3 DEF LevelsAbove
    <3> HIDE DEF A, B, C
    <3>3. Cardinality(C) <= Cardinality(A) /\ (Cardinality(A) = Cardinality(C) => A = C)
          /\ IsFiniteSet(C)
      BY <1>4, <3>2, FS_Subset
    <3>4. Cardinality(C) \in Nat /\ Cardinality(B) \in Nat /\ Cardinality(A) \in Nat
      BY <1>4, <3>3, FS_CardinalityType
    <3>5. A # C
      BY <3>2
    <3>6. QED
      BY <1>8, <3>1, <3>3, <3>4, <3>5
  <2> HIDE DEF next, A, B
  <2>8. Grown(p)[area] = <<area[1], k>> /\ area[1] = lo /\ area[2] = hi
    BY <1>1, <2>2 DEF next
  <2>9. QED
    BY <2>2, <2>3, <2>4, <2>5, <2>6, <2>7, <2>8
<1>11. QED
  BY <1>9, <1>10

\* So every step lowers the number of levels beyond the area.
LEMMA GrowthLowers ==
    ASSUME NEW p, ProfileTypes(p)
    PROVE  \E bound \in Nat : /\ Beyond(p) \in [Areas(p) -> 0 .. bound]
                              /\ Lowers(Areas(p), Stopped(p), Grown(p), Beyond(p))
<1> DEFINE c == Cardinality(DOMAIN p)
<1>1. c \in Nat
  BY FS_CardinalityType DEF ProfileTypes
<1>2. ASSUME NEW area \in Areas(p) PROVE Beyond(p)[area] \in 0 .. c + c
  <2>1. area[1] \in DOMAIN p /\ area[2] \in DOMAIN p
    BY DEF Areas
  <2>2. /\ Cardinality(LevelsBelow(p, area[1])) \in 0 .. c
        /\ Cardinality(LevelsAbove(p, area[2])) \in 0 .. c
    BY <2>1, LevelsAreFinite
  <2> HIDE DEF c
  <2>3. QED
    BY <1>1, <2>2 DEF Beyond
<1>3. Beyond(p) \in [Areas(p) -> 0 .. c + c]
  <2> HIDE DEF c
  <2>1. QED
    BY <1>2 DEF Beyond
<1>4. Lowers(Areas(p), Stopped(p), Grown(p), Beyond(p))
  BY GrownByOne DEF Lowers
<1>5. QED
  BY <1>1, <1>3, <1>4

\* The recursion of ValueArea, as the iteration of its step.
LEMMA ValueAreaIterates ==
    ASSUME NEW p, ProfileTypes(p)
    PROVE  \E g : /\ Iterates(g, Areas(p), Stopped(p), Grown(p))
                  /\ ValueArea(p) = g[<<PointOfControl(p), PointOfControl(p)>>]
<1> DEFINE X == Areas(p)
           Is(g) == g = [area \in (DOMAIN p) \X (DOMAIN p) |->
               IF Complete(p, area) THEN area
               ELSE IF Downwards(p, area) THEN g[<<Max(LevelsBelow(p, area[1])), area[2]>>]
               ELSE g[<<area[1], Min(LevelsAbove(p, area[2]))>>]]
           grow == CHOOSE g : Is(g)
<1>1. ValueArea(p) = grow[<<PointOfControl(p), PointOfControl(p)>>]
  BY Zenon DEF ValueArea
<1>2. PICK g : g = [x \in X |-> IF x \in Stopped(p) THEN x ELSE g[Grown(p)[x]]]
  <2>1. PICK bound \in Nat : Beyond(p) \in [X -> 0 .. bound]
                             /\ Lowers(X, Stopped(p), Grown(p), Beyond(p))
    BY GrowthLowers
  <2> HIDE DEF X
  <2>2. QED
    BY <2>1, IterationExists
<1>3. ASSUME NEW h, NEW x \in X
      PROVE  (IF x \in Stopped(p) THEN x ELSE h[Grown(p)[x]])
             = IF Complete(p, x) THEN x
               ELSE IF Downwards(p, x) THEN h[<<Max(LevelsBelow(p, x[1])), x[2]>>]
               ELSE h[<<x[1], Min(LevelsAbove(p, x[2]))>>]
  BY DEF Stopped, Grown
<1>4. Is(g)
  BY <1>2, <1>3 DEF Areas
<1>5. Is(grow)
  <2> HIDE DEF Is
  <2>1. QED
    BY <1>4
<1> HIDE DEF grow
<1>6. Iterates(grow, X, Stopped(p), Grown(p))
  <2>1. ASSUME NEW x \in X
        PROVE  grow[x] = IF Complete(p, x) THEN x
                         ELSE IF Downwards(p, x) THEN grow[<<Max(LevelsBelow(p, x[1])), x[2]>>]
                         ELSE grow[<<x[1], Min(LevelsAbove(p, x[2]))>>]
    BY <1>5 DEF Areas
  <2>2. ASSUME NEW x \in X
        PROVE  grow[x] = IF x \in Stopped(p) THEN x ELSE grow[Grown(p)[x]]
    BY <1>3, <2>1
  <2>3. QED
    BY <2>2 DEF Iterates
<1>7. QED
  BY <1>1, <1>6

\* What the value area is to be.
JustEnough(p, area) ==
    LET poc == PointOfControl(p)
        total == ProfileTotal(p)
        without(k) == AreaVolume(p, area) - LevelVolume(p, k)
    IN  /\ area[1] <= poc /\ poc <= area[2]
        /\ area # <<poc, poc>> =>
               \E k \in {area[1], area[2]} \ {poc} : 10 * without(k) < 7 * total

\* Where something was traded there is a point of control.
LEMMA ControlIsALevel ==
    ASSUME NEW p, ProfileTypes(p), ProfileTotal(p) > 0
    PROVE  PointOfControl(p) \in DOMAIN p
<1> DEFINE D == DOMAIN p
           T == {k \in D : \A j \in D : LevelVolume(p, j) <= LevelVolume(p, k)}
           f == [k \in D |-> LevelVolume(p, k)]
<1>1. IsFiniteSet(D) /\ D \subseteq Nat
  BY DEF ProfileTypes
<1>2. D # {}
  <2>1. SUFFICES ASSUME D = {} PROVE FALSE
    OBVIOUS
  <2>2. ProfileTotal(p) = 0
    BY <2>1, VolumesType, SumOfNone
  <2>3. QED
    BY <2>2
<1>3. \A k \in D : f[k] = LevelVolume(p, k) /\ f[k] \in Int
  BY VolumesType
<1>4. T # {}
  <2> HIDE DEF f, D
  <2>1. \E k \in D : \A j \in D : f[j] <= f[k]
    BY <1>1, <1>2, <1>3, GreatestExists
  <2>2. QED
    BY <1>3, <2>1
<1>5. T \in SUBSET Nat /\ IsFiniteSet(T)
  BY <1>1, FS_Subset
<1>6. PointOfControl(p) = Min(T)
  BY DEF PointOfControl
<1> HIDE DEF T
<1>7. Min(T) \in T
  BY <1>4, <1>5, MinOfFinite
<1>8. QED
  BY <1>6, <1>7 DEF T

\* A step is taken only while the area is too small, and adds the level that was missing.
LEMMA ValueAreaIsJustEnough ==
    ASSUME NEW p, ProfileTypes(p), ProfileTotal(p) > 0
    PROVE  JustEnough(p, ValueArea(p)) /\ 10 * AreaVolume(p, ValueArea(p)) >= 7 * ProfileTotal(p)
<1> DEFINE poc == PointOfControl(p)
           total == ProfileTotal(p)
           J == {area \in Areas(p) : JustEnough(p, area)}
           D == DOMAIN p
<1>1. poc \in D /\ D \subseteq Nat /\ IsFiniteSet(D)
  BY ControlIsALevel DEF ProfileTypes
<1>2. total \in Int /\ total = SumFunctionOnSet(Volumes(p), D)
  BY <1>1, VolumesType, SumType
<1>3. <<poc, poc>> \in J
  BY <1>1 DEF Areas, JustEnough
<1>4. ASSUME NEW area \in J \ Stopped(p) PROVE Grown(p)[area] \in J
  <2>1. area \in Areas(p) /\ area \notin Stopped(p) /\ JustEnough(p, area)
    OBVIOUS
  <2> DEFINE next == Grown(p)[area]
  <2>2. next \in Areas(p)
    BY <2>1, GrownByOne
  <2>3. PICK k \in D :
          /\ \/ k < area[1] /\ next = <<k, area[2]>>
             \/ k > area[2] /\ next = <<area[1], k>>
          /\ k \notin Within(p, area)
          /\ area[1] <= area[2] => Within(p, next) = Within(p, area) \union {k}
    BY <2>1, GrownByOne
  <2>4. PICK lo \in D, hi \in D : area = <<lo, hi>>
    BY <2>1 DEF Areas
  <2> HIDE DEF next
  <2>5. lo \in Nat /\ hi \in Nat /\ k \in Nat /\ poc \in Nat /\ lo <= poc /\ poc <= hi
    BY <1>1, <2>1, <2>4 DEF JustEnough
  <2>6. Within(p, next) = Within(p, area) \union {k}
    BY <2>3, <2>4, <2>5
  <2>7. 10 * AreaVolume(p, area) < 7 * total
    <3>1. ~(10 * AreaVolume(p, area) >= 7 * total) /\ AreaVolume(p, area) \in Int
      BY <2>1, AreaVolumeType DEF Stopped, Complete, Reached
    <3> HIDE DEF total
    <3>2. QED
      BY <1>2, <3>1
  <2>8. AreaVolume(p, next) = AreaVolume(p, area) + LevelVolume(p, k)
    <3>1. \A y \in Within(p, area) \union {k} : Volumes(p)[y] \in Int
      BY <2>3, VolumesType DEF Within
    <3>2. SumFunctionOnSet(Volumes(p), Within(p, area) \union {k})
              = SumFunctionOnSet(Volumes(p), Within(p, area)) + Volumes(p)[k]
      BY <2>1, <2>3, <3>1, AreaVolumeType, SumWithOneMore
    <3>3. QED
      BY <2>1, <2>2, <2>3, <2>6, <3>2, AreaVolumeType, VolumesType
  <2>9. AreaVolume(p, next) - LevelVolume(p, k) = AreaVolume(p, area)
    BY <2>1, <2>3, <2>8, AreaVolumeType, VolumesType
  <2>10. next[1] <= poc /\ poc <= next[2] /\ k \in {next[1], next[2]} /\ k # poc
    BY <2>3, <2>4, <2>5
  <2>11. JustEnough(p, next)
    BY <2>7, <2>9, <2>10 DEF JustEnough
  <2>12. QED
    BY <2>2, <2>11 DEF next
<1>5. PICK g : Iterates(g, Areas(p), Stopped(p), Grown(p)) /\ ValueArea(p) = g[<<poc, poc>>]
  BY ValueAreaIterates
<1>6. PICK bound \in Nat : /\ Beyond(p) \in [Areas(p) -> 0 .. bound]
                           /\ Lowers(Areas(p), Stopped(p), Grown(p), Beyond(p))
  BY GrowthLowers
<1>7. g[<<poc, poc>>] \in J /\ g[<<poc, poc>>] \in Stopped(p)
  <2>1. J \in SUBSET Areas(p)
    OBVIOUS
  <2> HIDE DEF J
  <2>2. QED
    BY <1>3, <1>4, <1>5, <1>6, <2>1, IterationKeeps
<1>8. PICK area \in Areas(p) : area = ValueArea(p) /\ JustEnough(p, area) /\ Complete(p, area)
  BY <1>5, <1>7 DEF Stopped
<1>9. 10 * AreaVolume(p, area) >= 7 * total
  <2>1. CASE Reached(AreaVolume(p, area), total)
    BY <2>1 DEF Reached
  <2>2. CASE LevelsBelow(p, area[1]) = {} /\ LevelsAbove(p, area[2]) = {}
    <3>1. Within(p, area) = D
      <4>1. area[1] \in D /\ area[2] \in D
        BY DEF Areas
      <4>2. QED
        BY <1>1, <2>2, <4>1 DEF LevelsBelow, LevelsAbove, Within
    <3>2. AreaVolume(p, area) = total
      BY <1>2, <3>1, AreaVolumeType
    <3> HIDE DEF total
    <3>3. total > 0
      BY DEF total
    <3>4. QED
      BY <1>2, <3>2, <3>3
  <2>3. QED
    BY <1>8, <2>1, <2>2 DEF Complete
<1>10. QED
  BY <1>8, <1>9

-----------------------------------------------------------------------------
(* The signals, from what the indicators hold. *)

\* Below 30 and above 70, of the closed form.
LEMMA RSISignalsMatch ==
    ASSUME NEW q \in Seq(Price), q # <<>>, NEW st, st.rsi = RSIOf(q, RsiPeriod)
    PROVE  RSISignal(st) = RefRSI(q)
<1> DEFINE n == Len(q) - 1
           p == RsiPeriod
           buy == <<"RSI", "BUY">>
           sell == <<"RSI", "SELL">>
<1>1. p \in Nat \ {0} /\ n \in Nat
  BY WindowType
<1>2. PICK g \in Nat, l \in Nat : g = WilderSum(Ups(q), p) /\ l = WilderSum(Downs(q), p)
  <2>1. \E v : v \in Price
    <3>1. 1 \in Price
      BY DEF Price, NoPrice
    <3>2. QED
      BY <3>1
  <2>2. Ups(q) \in Seq(Nat) /\ Downs(q) \in Seq(Nat)
    BY <2>1, ChangesOfAppend
  <2>3. QED
    BY <1>1, <2>2, WilderType
<1>3. st.rsi.gain = g /\ st.rsi.loss = l /\ st.rsi.count = n
  BY <1>2 DEF RSIOf
<1> HIDE DEF n, p
<1>4. RSISignal(st) = {sig \in {buy, sell} : IF sig[2] = "BUY" THEN n >= p /\ 3 * l > 7 * g
                                                              ELSE n >= p /\ 3 * g > 7 * l}
  BY <1>3 DEF RSISignal, RSIBelow30, RSIAbove70, p
<1>5. RefRSI(q) = IF n < p THEN {}
                  ELSE IF 10 * g < 3 * (g + l) THEN {buy}
                  ELSE IF 10 * g > 7 * (g + l) THEN {sell} ELSE {}
  BY <1>2 DEF RefRSI, Ups, Downs, n, p
<1>6. buy[2] = "BUY" /\ sell[2] # "BUY" /\ buy # sell
  OBVIOUS
<1> HIDE DEF buy, sell
<1>7. /\ buy \in RSISignal(st) <=> n >= p /\ 3 * l > 7 * g
      /\ sell \in RSISignal(st) <=> n >= p /\ 3 * g > 7 * l
      /\ RSISignal(st) \subseteq {buy, sell}
  BY <1>4, <1>6
<1>8. CASE n < p
  BY <1>1, <1>5, <1>7, <1>8
<1>9. CASE n >= p /\ 3 * l > 7 * g
  <2>1. 10 * g < 3 * (g + l) /\ ~(3 * g > 7 * l)
    BY <1>9
  <2>2. RefRSI(q) = {buy}
    BY <1>1, <1>5, <1>9, <2>1
  <2>3. QED
    BY <1>7, <1>9, <2>1, <2>2
<1>10. CASE n >= p /\ 3 * g > 7 * l
  <2>1. ~(10 * g < 3 * (g + l)) /\ 10 * g > 7 * (g + l) /\ ~(3 * l > 7 * g)
    BY <1>10
  <2>2. RefRSI(q) = {sell}
    BY <1>1, <1>5, <1>10, <2>1
  <2>3. QED
    BY <1>7, <1>10, <2>1, <2>2
<1>11. CASE n >= p /\ ~(3 * l > 7 * g) /\ ~(3 * g > 7 * l)
  <2>1. ~(10 * g < 3 * (g + l)) /\ ~(10 * g > 7 * (g + l))
    BY <1>11
  <2>2. RefRSI(q) = {}
    BY <1>1, <1>5, <1>11, <2>1
  <2>3. QED
    BY <1>7, <1>11, <2>2
<1>12. QED
  BY <1>1, <1>8, <1>9, <1>10, <1>11

\* Sums over n numbers: of themselves, of their squares.
Squares(b, n) == [i \in 1 .. n |-> b[i] * b[i]]
PairsOf(b, n, i) == SumFunction([j \in 1 .. n |-> (b[i] - b[j]) * (b[i] - b[j])])
Apart(b, n) == [i \in 1 .. n |-> PairsOf(b, n, i)]

LEMMA SquaresType ==
    ASSUME NEW n \in Nat, NEW b, \A i \in 1 .. n : b[i] \in Int
    PROVE  /\ \A i \in 1 .. n : Squares(b, n)[i] = b[i] * b[i] /\ Squares(b, n)[i] \in Int
           /\ SumTo(Squares(b, n), n) \in Int /\ SumTo(b, n) \in Int
<1>1. \A x \in Int : x * x \in Int
  OBVIOUS
<1>2. \A i \in 1 .. n : Squares(b, n)[i] = b[i] * b[i]
  BY DEF Squares
<1>3. \A i \in 1 .. n : Squares(b, n)[i] \in Int
  BY <1>1, <1>2
<1>4. QED
  BY <1>2, <1>3, SumToType

\* The squared distances of one number from all, and of all from all.
LEMMA OnePairs ==
    ASSUME NEW n \in Nat, NEW b, \A i \in 1 .. n : b[i] \in Int, NEW i \in 1 .. n
    PROVE  /\ PairsOf(b, n, i) = n * b[i] * b[i] - 2 * b[i] * SumTo(b, n) + SumTo(Squares(b, n), n)
           /\ PairsOf(b, n, i) \in Nat
<1> DEFINE h == [j \in 1 .. n |-> (b[i] - b[j]) * (b[i] - b[j])]
           sq == Squares(b, n)
<1>1. PICK x \in Int, a \in Int, c \in Int, one \in Int :
          x = b[i] /\ a = -2 * x /\ c = x * x /\ one = 1
  OBVIOUS
<1>2. \A j \in 1 .. n : b[j] \in Int /\ sq[j] \in Int /\ h[j] = a * b[j] + one * sq[j] + c
  <2>1. ASSUME NEW j \in 1 .. n PROVE h[j] = a * b[j] + one * sq[j] + c
    <3>1. PICK y \in Int : y = b[j]
      OBVIOUS
    <3>2. h[j] = (x - y) * (x - y) /\ sq[j] = y * y
      BY <1>1, <3>1, SquaresType
    <3>3. (x - y) * (x - y) = a * y + one * (y * y) + c
      BY <1>1
    <3> HIDE DEF h, sq
    <3>4. QED
      BY <3>1, <3>2, <3>3
  <2>2. QED
    BY <2>1, SquaresType
<1>3. \A j \in 1 .. n : h[j] \in Nat
  <2>1. ASSUME NEW j \in 1 .. n PROVE h[j] \in Nat
    <3>1. PICK d \in Int : d = b[i] - b[j]
      OBVIOUS
    <3>2. d * d \in Nat
      OBVIOUS
    <3>3. QED
      BY <3>1, <3>2
  <2>2. QED
    BY <2>1
<1>4. PairsOf(b, n, i) = SumFunction(h) /\ DOMAIN h = 1 .. n
  BY DEF PairsOf
<1> HIDE DEF h, sq
<1>5. SumFunction(h) = SumTo(h, n) /\ SumTo(h, n) \in Nat
  BY <1>3, <1>4, SumOfSequence, SumNotNegative
<1>6. SumTo(h, n) = a * SumTo(b, n) + one * SumTo(sq, n) + c * n
  <2>1. Linear(h, n, a, b, one, sq, c)
    BY <1>2 DEF Linear
  <2>2. QED
    BY <2>1, SumIsLinear
<1>7. PICK M \in Int, S \in Int : M = SumTo(b, n) /\ S = SumTo(sq, n)
  BY SquaresType DEF sq
<1>8. a * M + one * S + c * n = n * x * x - 2 * x * M + S
  BY <1>1
<1>9. QED
  BY <1>1, <1>4, <1>5, <1>6, <1>7, <1>8 DEF sq

LEMMA AllPairs ==
    ASSUME NEW n \in Nat, NEW b, \A i \in 1 .. n : b[i] \in Int
    PROVE  /\ SumFunction(Apart(b, n))
                = 2 * (n * SumTo(Squares(b, n), n) - SumTo(b, n) * SumTo(b, n))
           /\ SumFunction(Apart(b, n)) \in Nat
<1> DEFINE h == Apart(b, n)
           sq == Squares(b, n)
<1>1. PICK M \in Int, S \in Int, a \in Int : M = SumTo(b, n) /\ S = SumTo(sq, n) /\ a = -2 * M
  BY SquaresType
<1>2. DOMAIN h = 1 .. n /\ \A i \in 1 .. n : h[i] = PairsOf(b, n, i) /\ h[i] \in Nat
  BY OnePairs DEF Apart
<1> HIDE DEF h
<1>3. Linear(h, n, n, sq, a, b, S)
  <2>1. ASSUME NEW i \in 1 .. n PROVE h[i] = n * sq[i] + a * b[i] + S
    <3>1. PICK x \in Int : x = b[i]
      OBVIOUS
    <3>2. h[i] = n * x * x - 2 * x * M + S
      BY <1>1, <1>2, <3>1, OnePairs
    <3>3. sq[i] = x * x
      BY <3>1, SquaresType
    <3>4. n * x * x - 2 * x * M + S = n * (x * x) + a * x + S
      BY <1>1
    <3> HIDE DEF sq
    <3>5. QED
      BY <3>1, <3>2, <3>3, <3>4
  <2>2. \A i \in 1 .. n : sq[i] \in Int
    BY SquaresType
  <2> HIDE DEF sq
  <2>3. QED
    BY <2>1, <2>2 DEF Linear
<1> HIDE DEF sq
<1>4. SumFunction(h) = SumTo(h, n) /\ SumTo(h, n) \in Nat
  BY <1>2, SumOfSequence, SumNotNegative
<1>5. SumTo(h, n) = n * SumTo(sq, n) + a * SumTo(b, n) + S * n
  BY <1>3, SumIsLinear
<1>6. n * S + a * M + S * n = 2 * (n * S - M * M)
  BY <1>1
<1>7. QED
  BY <1>1, <1>4, <1>5, <1>6 DEF h, sq

\* The code's variance: n times the sum of squares less the square of the sum.
LEMMA VarianceOf ==
    ASSUME NEW n \in Nat, NEW b \in Seq(Int), Len(b) = n
    PROVE  BandVariance(b, n) = n * (n * SumTo(Squares(b, n), n) - SumTo(b, n) * SumTo(b, n))
<1> DEFINE mean == SumFunction(b)
           h == [i \in 1 .. n |-> (n * b[i] - mean) * (n * b[i] - mean)]
           sq == Squares(b, n)
<1>1. DOMAIN b = 1 .. n /\ DOMAIN h = 1 .. n /\ \A i \in 1 .. n : b[i] \in Int
  OBVIOUS
<1>2. BandVariance(b, n) = SumFunction(h)
  BY <1>1 DEF BandVariance
<1>3. PICK M \in Int, S \in Int, a \in Int, k \in Int, c \in Int :
          /\ M = SumTo(b, n) /\ S = SumTo(sq, n)
          /\ a = n * n /\ k = -2 * n * M /\ c = M * M
  <2>1. SumTo(b, n) \in Int /\ SumTo(sq, n) \in Int
    BY <1>1, SquaresType
  <2>2. PICK M \in Int : M = SumTo(b, n)
    BY <2>1
  <2>3. n * n \in Int /\ -2 * n * M \in Int /\ M * M \in Int
    OBVIOUS
  <2>4. QED
    BY <2>1, <2>2, <2>3
<1>4. mean = M
  BY <1>1, <1>3, SumOfSequence
<1>5. Linear(h, n, a, sq, k, b, c)
  <2>1. ASSUME NEW i \in 1 .. n PROVE h[i] = a * sq[i] + k * b[i] + c
    <3>1. PICK x \in Int : x = b[i]
      BY <1>1
    <3>2. h[i] = (n * x - M) * (n * x - M)
      BY <1>4, <3>1
    <3>3. sq[i] = x * x
      BY <1>1, <3>1, SquaresType
    <3>4. (n * x - M) * (n * x - M) = a * (x * x) + k * x + c
      <4>1. (n * x - M) * (n * x - M) = (n * n) * (x * x) + (-2 * n * M) * x + M * M
        OBVIOUS
      <4>2. QED
        BY <1>3, <4>1
    <3> HIDE DEF sq, h
    <3>5. QED
      BY <3>1, <3>2, <3>3, <3>4
  <2>2. \A i \in 1 .. n : sq[i] \in Int
    BY <1>1, SquaresType
  <2> HIDE DEF sq, h
  <2>3. QED
    BY <1>1, <2>1, <2>2 DEF Linear
<1> HIDE DEF sq, h, mean
<1>6. SumFunction(h) = SumTo(h, n)
  BY <1>1, SumOfSequence
<1>7. SumTo(h, n) = a * SumTo(sq, n) + k * SumTo(b, n) + c * n
  BY <1>5, SumIsLinear
<1>8. a * S + k * M + c * n = n * (n * S - M * M)
  <2>1. (n * n) * S + (-2 * n * M) * M + (M * M) * n = n * (n * S - M * M)
    OBVIOUS
  <2>2. QED
    BY <1>3, <2>1
<1>9. QED
  BY <1>2, <1>3, <1>6, <1>7, <1>8 DEF sq

LEMMA PricesAreNumbers == ASSUME NEW q \in Seq(Price) PROVE q \in Seq(Int) /\ q \in Seq(Nat)
<1>1. Len(q) \in Nat /\ q \in [1 .. Len(q) -> Price]
  OBVIOUS
<1>2. q \in [1 .. Len(q) -> Int] /\ q \in [1 .. Len(q) -> Nat]
  BY <1>1 DEF Price
<1>3. QED
  BY <1>1, <1>2

\* So both definitions of the band agree on which side of it the last price is.
LEMMA BollingerSignalsMatch ==
    ASSUME NEW q \in Seq(Price), NEW st, st.bb = LastOf(q, BandPeriod)
    PROVE  BollingerSignal(st) = RefBollinger(q)
<1> DEFINE n == BandPeriod
           b == LastOf(q, n)
           buy == <<"BOLLINGER", "BUY">>
           sell == <<"BOLLINGER", "SELL">>
           away == [i \in 1 .. n |-> b[n] - b[i]]
<1>1. n \in Nat \ {0} /\ b \in Seq(Price) /\ Len(q) \in Nat
      /\ Len(b) = IF Len(q) <= n THEN Len(q) ELSE n
  BY WindowType, LastOfType
<1>2. b \in Seq(Int)
  BY <1>1, PricesAreNumbers
<1>3. RefBollinger(q) = IF Len(q) < n \/ 200 * SumFunction(away) * SumFunction(away)
                                             <= 324 * SumFunction(Apart(b, n))
                        THEN {} ELSE {<<"BOLLINGER", IF SumFunction(away) < 0 THEN "BUY" ELSE "SELL">>}
  BY DEF RefBollinger, Apart, PairsOf
<1>4. BollingerSignal(st) = {sig \in {buy, sell} : IF sig[2] = "BUY" THEN BandLower(b, n)
                                                                    ELSE BandUpper(b, n)}
  BY DEF BollingerSignal
<1>5. buy[2] = "BUY" /\ sell[2] # "BUY" /\ buy # sell
  OBVIOUS
<1> HIDE DEF n, b, away
<1>6. CASE Len(q) < n
  <2>1. Len(b) # n
    BY <1>1, <1>6
  <2>2. ~BandLower(b, n) /\ ~BandUpper(b, n)
    BY <2>1 DEF BandLower, BandUpper
  <2>3. BollingerSignal(st) = {} /\ RefBollinger(q) = {}
    BY <1>3, <1>4, <1>6, <2>2
  <2>4. QED
    BY <2>3
<1>7. CASE Len(q) >= n
  <2>1. Len(b) = n /\ n \in 1 .. n /\ DOMAIN b = 1 .. n /\ \A i \in 1 .. n : b[i] \in Int
    BY <1>1, <1>2, <1>7
  <2>2. PICK M \in Int, last \in Int, V \in Int, minus \in Int, zero \in Int :
            /\ M = SumTo(b, n) /\ last = b[n] /\ minus = -1 /\ zero = 0
            /\ V = n * SumTo(Squares(b, n), n) - SumTo(b, n) * SumTo(b, n)
    <3>1. PICK s \in Int, m \in Int : s = SumTo(Squares(b, n), n) /\ m = SumTo(b, n)
      BY <1>1, <2>1, SquaresType
    <3>2. n * s - m * m \in Int
      BY <1>1
    <3>3. QED
      BY <2>1, <3>1, <3>2
  <2>3. PICK off \in Int : off = SumFunction(away) /\ off = n * last - M
    <3>1. DOMAIN away = 1 .. n /\ \A i \in 1 .. n : away[i] = last - b[i]
      BY <2>2 DEF away
    <3>2. Linear(away, n, minus, b, zero, b, last)
      BY <2>1, <2>2, <3>1 DEF Linear
    <3>3. SumFunction(away) = SumTo(away, n)
      BY <1>1, <3>1, SumOfSequence
    <3>4. SumTo(away, n) = minus * SumTo(b, n) + zero * SumTo(b, n) + last * n
      BY <1>1, <3>2, SumIsLinear
    <3>5. minus * M + zero * M + last * n = n * last - M
      BY <1>1, <2>2
    <3>6. n * last - M \in Int
      BY <1>1
    <3>7. QED
      BY <2>2, <3>3, <3>4, <3>5, <3>6
  <2>4. SumFunction(Apart(b, n)) = 2 * V /\ 2 * V >= 0
    BY <1>1, <2>1, <2>2, AllPairs
  <2>5. BandOffset(b, n) = off
    BY <1>1, <2>1, <2>2, <2>3, SumOfSequence DEF BandOffset
  <2>6. BandVariance(b, n) = n * V
    BY <1>1, <1>2, <2>1, <2>2, VarianceOf
  <2>7. OutsideBand(b, n) <=> 200 * off * off > 324 * (2 * V)
    <3>1. OutsideBand(b, n) <=> 100 * n * off * off > 324 * (n * V)
      BY <2>5, <2>6 DEF OutsideBand
    <3>2. PICK d \in Int : d = 100 * off * off - 324 * V
      <4>1. 100 * off * off - 324 * V \in Int
        OBVIOUS
      <4>2. QED
        BY <4>1
    <3>3. 100 * n * off * off - 324 * (n * V) = n * d
      BY <1>1, <3>2
    <3>4. n * d > 0 <=> d > 0
      <4>1. n \in Nat /\ n >= 1
        BY <1>1
      <4>2. CASE d > 0
        <5>1. n * d > 0
          BY <4>1, <4>2
        <5>2. QED
          BY <4>2, <5>1
      <4>3. CASE d <= 0
        <5>1. n * d <= n * 0
          BY <4>1, <4>3, TimesMonotone
        <5>2. QED
          BY <4>1, <4>3, <5>1
      <4>4. QED
        BY <4>2, <4>3
    <3>5. 100 * n * off * off > 324 * (n * V) <=> n * d > 0
      <4>1. PICK x \in Int, y \in Int : x = 100 * n * off * off /\ y = 324 * (n * V)
        <5>1. 100 * n * off * off \in Int /\ 324 * (n * V) \in Int
          BY <1>1
        <5>2. QED
          BY <5>1
      <4>2. x - y = n * d
        BY <3>3, <4>1
      <4>3. QED
        BY <4>1, <4>2
    <3>6. 200 * off * off > 324 * (2 * V) <=> d > 0
      <4>1. PICK z \in Int : z = off * off
        OBVIOUS
      <4>2. 200 * off * off = 200 * z /\ 100 * off * off = 100 * z
        BY <4>1
      <4>3. QED
        BY <3>2, <4>2
    <3>7. QED
      BY <3>1, <3>4, <3>5, <3>6
  <2>8. off = 0 => ~(200 * off * off > 324 * (2 * V))
    BY <2>4
  <2>9. PICK x \in Int, y \in Int : x = 200 * off * off /\ y = 324 * (2 * V)
    <3>1. 200 * off * off \in Int /\ 324 * (2 * V) \in Int
      OBVIOUS
    <3>2. QED
      BY <3>1
  <2>10. BandLower(b, n) <=> off < 0 /\ x > y
    BY <2>1, <2>5, <2>7, <2>9 DEF BandLower
  <2>11. BandUpper(b, n) <=> off > 0 /\ x > y
    BY <2>1, <2>5, <2>7, <2>9 DEF BandUpper
  <2>12. RefBollinger(q) = IF x <= y THEN {} ELSE IF off < 0 THEN {buy} ELSE {sell}
    <3>1. PICK f \in Int, g \in Int : f = SumFunction(away) /\ g = SumFunction(Apart(b, n))
      BY <2>3, <2>4
    <3>2. RefBollinger(q) = IF Len(q) < n \/ 200 * f * f <= 324 * g THEN {}
                            ELSE {<<"BOLLINGER", IF f < 0 THEN "BUY" ELSE "SELL">>}
      BY <1>3, <3>1
    <3>3. f = off /\ g = 2 * V
      BY <2>3, <2>4, <3>1
    <3>4. 200 * f * f = x /\ 324 * g = y
      BY <2>9, <3>3
    <3>5. RefBollinger(q) = IF Len(q) < n \/ x <= y THEN {}
                            ELSE {<<"BOLLINGER", IF off < 0 THEN "BUY" ELSE "SELL">>}
      BY <3>2, <3>3, <3>4
    <3>6. ~(Len(q) < n)
      BY <1>1, <1>7
    <3>7. QED
      BY <3>5, <3>6
  <2>13. off = 0 => x <= y
    BY <2>8, <2>9
  <2> HIDE DEF buy, sell
  <2>14. BollingerSignal(st) = (IF BandLower(b, n) THEN {buy} ELSE {})
                              \union (IF BandUpper(b, n) THEN {sell} ELSE {})
    BY <1>4, <1>5
  <2>15. CASE x <= y
    BY <2>10, <2>11, <2>12, <2>14, <2>15
  <2>16. CASE x > y /\ off < 0
    <3>1. BandLower(b, n) /\ ~BandUpper(b, n) /\ ~(x <= y)
      BY <2>10, <2>11, <2>16
    <3>2. QED
      BY <2>12, <2>14, <2>16, <3>1
  <2>17. CASE x > y /\ off > 0
    <3>1. ~BandLower(b, n) /\ BandUpper(b, n) /\ ~(x <= y) /\ ~(off < 0)
      BY <2>10, <2>11, <2>17
    <3>2. QED
      BY <2>12, <2>14, <2>17, <3>1
  <2>18. QED
    BY <2>13, <2>15, <2>16, <2>17
<1>8. QED
  BY <1>1, <1>6, <1>7

-----------------------------------------------------------------------------
(* The side of the volume-weighted price. *)

Now(w, price) == IF w.q = 0 THEN "none" ELSE Side(PriceAbove(w, price))

\* The price is above the VWAP where the distances weighted by volume add up to more than 0.
LEMMA SideMatches ==
    ASSUME NEW q \in Seq(Trades), q # <<>>, NEW w, VwapHolds(w, q)
    PROVE  Now(w, q[Len(q)].price) = RefSide(q)
<1> DEFINE n == Len(q)
           h == [i \in 1 .. n |-> q[i].qty * (q[n].price - q[i].price)]
<1>1. n \in Nat /\ n \in 1 .. n /\ DOMAIN q = 1 .. n /\ \A i \in 1 .. n : q[i] \in Trades
  OBVIOUS
<1>2. \A i \in 1 .. n : q[i].qty \in Nat /\ q[i].price \in Nat
  BY <1>1, TradeType
<1> HIDE DEF n
<1>3. PICK pq \in Nat, v \in Nat, price \in Int, minus \in Int, zero \in Int :
          w.pq = pq /\ w.q = v /\ price = q[n].price /\ minus = -1 /\ zero = 0
  BY <1>1, <1>2 DEF VwapHolds
<1>4. v = 0 <=> \A i \in 1 .. n : q[i].qty = 0
  <2>1. ToSet(q) = {q[i] : i \in 1 .. n}
    BY <1>1 DEF ToSet
  <2>2. PricesWithVolume(q) = {} <=> \A i \in 1 .. n : q[i].qty = 0
    <3>1. PricesWithVolume(q) = {} <=> {u \in ToSet(q) : u.qty > 0} = {}
      BY DEF PricesWithVolume
    <3>2. {u \in ToSet(q) : u.qty > 0} = {} <=> \A i \in 1 .. n : ~(q[i].qty > 0)
      BY <2>1
    <3>3. \A i \in 1 .. n : q[i].qty = 0 <=> ~(q[i].qty > 0)
      BY <1>2
    <3>4. QED
      BY <3>1, <3>2, <3>3
  <2>3. QED
    BY <1>3, <2>2 DEF VwapHolds
<1>5. /\ DOMAIN Quantities(q) = 1 .. n /\ DOMAIN Values(q) = 1 .. n
      /\ \A i \in 1 .. n : Quantities(q)[i] = q[i].qty /\ Values(q)[i] = q[i].price * q[i].qty
  BY <1>1 DEF Quantities, Values
<1>6. pq = SumTo(Values(q), n) /\ v = SumTo(Quantities(q), n)
  BY <1>1, <1>3, <1>5, SumOfSequence DEF VwapHolds
<1>7. Linear(h, n, price, Quantities(q), minus, Values(q), zero)
  <2>1. ASSUME NEW i \in 1 .. n
        PROVE  /\ h[i] = price * Quantities(q)[i] + minus * Values(q)[i] + zero
               /\ Quantities(q)[i] \in Int /\ Values(q)[i] \in Int
    <3>1. PICK x \in Int, y \in Int : x = q[i].qty /\ y = q[i].price
      BY <1>2
    <3>2. h[i] = x * (price - y) /\ Quantities(q)[i] = x /\ Values(q)[i] = y * x
      BY <1>3, <1>5, <3>1
    <3>3. x * (price - y) = price * x + minus * (y * x) + zero
      BY <1>3
    <3>4. y * x \in Int
      OBVIOUS
    <3> HIDE DEF h
    <3>5. QED
      BY <3>2, <3>3, <3>4
  <2> HIDE DEF h
  <2>2. QED
    BY <2>1 DEF Linear
<1>8. DOMAIN h = 1 .. n
  OBVIOUS
<1>9. RefSide(q) = IF \A i \in 1 .. n : q[i].qty = 0 THEN "none" ELSE Side(SumFunction(h) > 0)
  BY DEF RefSide, n
<1> HIDE DEF h
<1>10. SumFunction(h) = price * v - pq
  <2>1. SumTo(h, n) = price * SumTo(Quantities(q), n) + minus * SumTo(Values(q), n) + zero * n
    BY <1>1, <1>7, SumIsLinear
  <2>2. price * v + minus * pq + zero * n = price * v - pq
    BY <1>1, <1>3
  <2>3. QED
    BY <1>1, <1>6, <1>8, <2>1, <2>2, SumOfSequence
<1>11. PriceAbove(w, q[n].price) <=> SumFunction(h) > 0
  <2>1. PICK x \in Int : x = price * v
    OBVIOUS
  <2>2. QED
    BY <1>3, <1>10, <2>1 DEF PriceAbove
<1>12. Side(PriceAbove(w, q[n].price)) = Side(SumFunction(h) > 0)
  BY <1>11 DEF Side
<1>13. QED
  BY <1>3, <1>4, <1>9, <1>12 DEF Now, n

HasVolume(q) == \E i \in 1 .. Len(q) : q[i].qty > 0

\* A session has a volume once a trade of it has.
LEMMA VolumeOfAppend ==
    ASSUME NEW q \in Seq(Trades), NEW t \in Trades
    PROVE  HasVolume(Append(q, t)) <=> HasVolume(q) \/ t.qty > 0
<1> DEFINE n == Len(q)
           r == Append(q, t)
<1>1. n \in Nat /\ Len(r) = n + 1 /\ r[n + 1] = t /\ \A i \in 1 .. n : r[i] = q[i]
  OBVIOUS
<1> HIDE DEF n, r
<1>2. (\A i \in 1 .. n + 1 : i = n + 1 \/ i \in 1 .. n) /\ n + 1 \in 1 .. n + 1
      /\ \A i \in 1 .. n : i \in 1 .. n + 1
  BY <1>1
<1>3. HasVolume(r) <=> \E i \in 1 .. n + 1 : r[i].qty > 0
  BY <1>1 DEF HasVolume
<1>4. HasVolume(q) <=> \E i \in 1 .. n : q[i].qty > 0
  BY DEF HasVolume, n
<1>5. QED
  BY <1>1, <1>2, <1>3, <1>4 DEF r

\* With a volume there is a side.
LEMMA SideWithVolume ==
    ASSUME NEW q \in Seq(Trades), HasVolume(q)
    PROVE  RefSide(q) \in {"above", "below"}
<1>1. ~\A i \in 1 .. Len(q) : q[i].qty = 0
  BY DEF HasVolume
<1>2. QED
  BY <1>1 DEF RefSide, Side

-----------------------------------------------------------------------------
(* One symbol: what holds of its state and of its session, one trade further. *)

StateHolds(st, q) ==
    /\ st.rsi = RSIOf(PricesOf(q), RsiPeriod)
    /\ st.bb = LastOf(PricesOf(q), BandPeriod)
    /\ EmaHolds(st.ema9, PricesOf(q)) /\ EmaHolds(st.ema21, PricesOf(q))
    /\ VwapHolds(st.vwap, q)

CrossHolds(prev, q) ==
    prev \in {"none", "above", "below"} /\ (HasVolume(q) => prev = RefSide(q))

StudyHolds(d, q) ==
    DeltaHolds(d.delta, q) /\ ProfileHolds(d.profile, q) /\ SmaHolds(d.sma, PricesOf(q))

\* The five indicators of the engine together.
LEMMA StateFollows ==
    ASSUME NEW q \in Seq(Trades), NEW t \in Trades, NEW st, StateHolds(st, q)
    PROVE  StateHolds(UpdateState(st, t.price, t.qty), Append(q, t))
<1> DEFINE now == UpdateState(st, t.price, t.qty)
           prices == PricesOf(q)
           v == t.price
<1>1. prices \in Seq(Price) /\ v \in Price /\ PricesOf(Append(q, t)) = Append(prices, v)
  BY TradeType, PricesOfAppend
<1>2. now = [rsi |-> UpdateRSI(st.rsi, RsiPeriod, v), bb |-> Push(st.bb, BandPeriod, v),
             ema9 |-> UpdateEMA(st.ema9, FastPeriod, v),
             ema21 |-> UpdateEMA(st.ema21, SlowPeriod, v),
             vwap |-> UpdateVWAP(st.vwap, v, t.qty)]
  BY DEF UpdateState
<1> HIDE DEF now, prices
<1>3. now.rsi = RSIOf(Append(prices, v), RsiPeriod)
  BY <1>1, <1>2, WindowType, RSIFollows DEF StateHolds, prices
<1>4. now.bb = LastOf(Append(prices, v), BandPeriod)
  BY <1>1, <1>2, WindowType, PushKeepsLast DEF StateHolds, prices
<1>5. EmaHolds(now.ema9, Append(prices, v)) /\ EmaHolds(now.ema21, Append(prices, v))
  BY <1>1, <1>2, WindowType, EmaFollows DEF StateHolds, prices
<1>6. VwapHolds(now.vwap, Append(q, t))
  BY <1>2, VwapFollows DEF StateHolds
<1>7. QED
  BY <1>1, <1>3, <1>4, <1>5, <1>6 DEF StateHolds, now

\* A trade at the end of a session.
LEMMA LastTradeOfAppend ==
    ASSUME NEW q \in Seq(Trades), NEW t \in Trades
    PROVE  /\ Append(q, t) \in Seq(Trades) /\ Append(q, t) # <<>>
           /\ Len(Append(q, t)) = Len(q) + 1 /\ Append(q, t)[Len(Append(q, t))] = t
           /\ SubSeq(Append(q, t), 1, Len(Append(q, t)) - 1) = q
           /\ \A i \in 1 .. Len(q) : Append(q, t)[i] = q[i]
<1> DEFINE r == Append(q, t)
           n == Len(q)
<1>1. n \in Nat /\ r \in Seq(Trades) /\ Len(r) = n + 1 /\ r[n + 1] = t
      /\ \A i \in 1 .. n : r[i] = q[i]
  OBVIOUS
<1>2. r # <<>>
  BY AppendProperties
<1> HIDE DEF r
<1>3. SubSeq(r, 1, n) = q
  <2> DEFINE s == SubSeq(r, 1, n)
  <2>1. s \in Seq(Trades) /\ Len(s) = n /\ \A i \in 1 .. n : s[i] = r[i]
    BY <1>1
  <2> HIDE DEF s
  <2>2. \A i \in 1 .. Len(s) : s[i] = q[i]
    BY <1>1, <2>1
  <2>3. s = q
    BY <2>1, <2>2, SeqEqual
  <2>4. QED
    BY <2>3 DEF s
<1>4. Len(r) - 1 = n
  BY <1>1
<1>5. QED
  BY <1>1, <1>2, <1>3, <1>4 DEF r

\* The side compared after a trade is that of the session with it.
LEMMA NowIsSide ==
    ASSUME NEW q \in Seq(Trades), NEW t \in Trades, NEW w, VwapHolds(w, Append(q, t))
    PROVE  Now(w, t.price) = RefSide(Append(q, t))
BY LastTradeOfAppend, SideMatches

\* The side kept is that of the session, as soon as it has a volume.
LEMMA CrossFollows ==
    ASSUME NEW q \in Seq(Trades), NEW t \in Trades, NEW w, VwapHolds(w, Append(q, t)),
           NEW prev, CrossHolds(prev, q)
    PROVE  CrossHolds(IF Now(w, t.price) = "none" THEN prev ELSE Now(w, t.price), Append(q, t))
<1> DEFINE r == Append(q, t)
           now == Now(w, t.price)
<1>1. now = RefSide(r) /\ r \in Seq(Trades)
  BY NowIsSide, LastTradeOfAppend
<1>2. HasVolume(r) => now # "none"
  <2> HIDE DEF r, now
  <2>1. HasVolume(r) => now \in {"above", "below"}
    BY <1>1, SideWithVolume
  <2>2. QED
    BY <2>1
<1>3. now \in {"none", "above", "below"}
  BY DEF Now, Side
<1> HIDE DEF r, now
<1>4. CASE now = "none"
  BY <1>1, <1>2, <1>4 DEF CrossHolds, r, now
<1>5. CASE now # "none"
  BY <1>1, <1>3, <1>5 DEF CrossHolds, r, now
<1>6. QED
  BY <1>4, <1>5

\* The signals of a trade are the reference signals of the session with it.
LEMMA SignalsFollow ==
    ASSUME NEW q \in Seq(Trades), NEW t \in Trades, NEW st, StateHolds(st, Append(q, t)),
           HasVolume(q), NEW prev, CrossHolds(prev, q)
    PROVE  RSISignal(st) \union BollingerSignal(st) \union VWAPCrossSignal(prev, Now(st.vwap, t.price))
           = RefRSI(PricesOf(Append(q, t))) \union RefBollinger(PricesOf(Append(q, t)))
                 \union RefCross(Append(q, t))
<1> DEFINE r == Append(q, t)
           prices == PricesOf(r)
<1>1. r \in Seq(Trades) /\ Len(r) = Len(q) + 1 /\ SubSeq(r, 1, Len(r) - 1) = q
  BY LastTradeOfAppend
<1>2. prices \in Seq(Price) /\ Len(prices) = Len(q) + 1
  <2> HIDE DEF r
  <2>1. \E u : u \in Trades
    OBVIOUS
  <2>2. QED
    BY <1>1, <2>1, PricesOfAppend
<1>3. prices # <<>>
  <2> HIDE DEF prices
  <2>1. Len(q) \in Nat /\ Len(<<>>) = 0
    OBVIOUS
  <2>2. QED
    BY <1>2, <2>1
<1>4. st.rsi = RSIOf(prices, RsiPeriod) /\ st.bb = LastOf(prices, BandPeriod) /\ VwapHolds(st.vwap, r)
  BY DEF StateHolds
<1> HIDE DEF prices
<1>5. RSISignal(st) = RefRSI(prices)
  BY <1>2, <1>3, <1>4, RSISignalsMatch
<1>6. BollingerSignal(st) = RefBollinger(prices)
  BY <1>2, <1>4, BollingerSignalsMatch
<1>7. VWAPCrossSignal(prev, Now(st.vwap, t.price)) = RefCross(r)
  <2>1. Now(st.vwap, t.price) = RefSide(r) /\ prev = RefSide(q)
    BY <1>4, NowIsSide DEF CrossHolds
  <2> HIDE DEF r
  <2>2. RefCross(r) = VWAPCrossSignal(RefSide(q), RefSide(r))
    BY <1>1 DEF RefCross
  <2>3. QED
    BY <2>1, <2>2
<1>8. QED
  BY <1>5, <1>6, <1>7 DEF prices

\* Delta, profile and moving average together.
LEMMA StudyFollows ==
    ASSUME NEW q \in Seq(Trades), NEW t \in Trades, NEW d, StudyHolds(d, q), NEW e,
           e.delta = UpdateDelta(d.delta, Window, t.qty, t.side),
           e.profile = UpdateProfile(d.profile, t.price, t.qty, t.side),
           e.sma = UpdateSMA(d.sma, Window, t.price)
    PROVE  StudyHolds(e, Append(q, t))
<1>1. PricesOf(q) \in Seq(Price) /\ t.price \in Price
      /\ PricesOf(Append(q, t)) = Append(PricesOf(q), t.price)
  BY TradeType, PricesOfAppend
<1>2. DeltaHolds(e.delta, Append(q, t)) /\ ProfileHolds(e.profile, Append(q, t))
  BY DeltaFollows, ProfileFollows DEF StudyHolds
<1>3. SmaHolds(e.sma, PricesOf(Append(q, t)))
  BY <1>1, SmaFollows DEF StudyHolds
<1>4. QED
  BY <1>2, <1>3 DEF StudyHolds

\* Before any trade.
LEMMA NothingHolds ==
    /\ StateHolds(NewState, <<>>) /\ StudyHolds(NewStudy, <<>>) /\ ~HasVolume(<<>>)
<1>1. PricesOf(<<>>) = <<>> /\ Quantities(<<>>) = <<>> /\ Values(<<>>) = <<>> /\ Deltas(<<>>) = <<>>
      /\ ToSet(<<>>) = {}
  BY DEF PricesOf, Quantities, Values, Deltas, ToSet
<1>2. SumFunction(<<>>) = 0
  <2>1. DOMAIN <<>> = {}
    OBVIOUS
  <2>2. QED
    BY <2>1, SumOfNone DEF SumFunction
<1>3. Len(<<>>) = 0 /\ \A n \in Nat : LastOf(<<>>, n) = <<>>
  BY DEF LastOf
<1>4. EmaHolds(NewEMA, <<>>)
  BY <1>1, <1>3 DEF EmaHolds, NewEMA, Between
<1>5. PricesWithVolume(<<>>) = {}
  BY <1>1 DEF PricesWithVolume
<1>6. VwapHolds(NewVWAP, <<>>)
  BY <1>1, <1>2, <1>5 DEF VwapHolds, NewVWAP, Between
<1>7. StateHolds(NewState, <<>>)
  BY <1>1, <1>3, <1>4, <1>6, WindowType DEF StateHolds, NewState, RSIOf
<1>8. DeltaHolds(NewDelta, <<>>)
  <2>1. DeltaAfter(<<>>, 0) = 0
    <3>1. DOMAIN [i \in 1 .. 0 |-> Signed(<<>>[i])] = {}
      OBVIOUS
    <3>2. QED
      BY <3>1, SumOfNone DEF DeltaAfter, SumFunction
  <2>2. QED
    BY <1>1, <1>3, <2>1, WindowType DEF DeltaHolds, NewDelta
<1>9. SmaHolds(NewSMA, PricesOf(<<>>))
  BY <1>1, <1>2, <1>3, WindowType DEF SmaHolds, NewSMA
<1>10. StudyHolds(NewStudy, <<>>)
  BY <1>8, <1>9, NewProfileHolds DEF StudyHolds, NewStudy
<1>11. ~HasVolume(<<>>)
  BY <1>3 DEF HasVolume
<1>12. QED
  BY <1>7, <1>10, <1>11

\* A session is the end of the tape, and grows with it.
LEMMA SessionOfAppend ==
    ASSUME NEW q \in Seq(Trades), NEW t \in Trades, NEW o \in 0 .. Len(q)
    PROVE  /\ SubSeq(q, o + 1, Len(q)) \in Seq(Trades)
           /\ SubSeq(Append(q, t), o + 1, Len(Append(q, t))) = Append(SubSeq(q, o + 1, Len(q)), t)
<1> DEFINE n == Len(q)
           r == Append(q, t)
           a == SubSeq(q, o + 1, n)
           b == SubSeq(r, o + 1, n + 1)
           c == Append(a, t)
<1>1. n \in Nat /\ o \in Nat /\ o <= n /\ r \in Seq(Trades) /\ Len(r) = n + 1 /\ r[n + 1] = t
      /\ \A i \in 1 .. n : r[i] = q[i]
  OBVIOUS
<1>2. a \in Seq(Trades) /\ Len(a) = n - o /\ \A i \in 1 .. n - o : a[i] = q[i + o]
  BY <1>1
<1> HIDE DEF r
<1>3. b \in Seq(Trades) /\ Len(b) = n - o + 1 /\ \A i \in 1 .. n - o + 1 : b[i] = r[i + o]
  BY <1>1
<1> HIDE DEF a, b
<1>4. c \in Seq(Trades) /\ Len(c) = n - o + 1 /\ c[n - o + 1] = t /\ \A i \in 1 .. n - o : c[i] = a[i]
  BY <1>1, <1>2
<1> HIDE DEF c, n
<1>5. ASSUME NEW i \in 1 .. n - o + 1 PROVE b[i] = c[i]
  <2>1. CASE i = n - o + 1
    <3>1. i + o = n + 1
      BY <1>1, <2>1
    <3>2. QED
      BY <1>1, <1>3, <1>4, <2>1, <3>1
  <2>2. CASE i \in 1 .. n - o
    <3>1. i + o \in 1 .. n
      BY <1>1, <2>2
    <3>2. QED
      BY <1>1, <1>2, <1>3, <1>4, <2>2, <3>1
  <2>3. i = n - o + 1 \/ i \in 1 .. n - o
    BY <1>1
  <2>4. QED
    BY <2>1, <2>2, <2>3
<1>6. b = c
  BY <1>3, <1>4, <1>5, SeqEqual
<1>7. QED
  BY <1>1, <1>2, <1>6 DEF a, b, c, n, r

LEMMA NoSession ==
    ASSUME NEW q \in Seq(Trades) PROVE SubSeq(q, Len(q) + 1, Len(q)) = <<>>
OBVIOUS

-----------------------------------------------------------------------------
(* The inductive invariant. *)

\* The variables are functions of the symbols; a session is a part of the tape.
EngineShape ==
    /\ states = [s \in Symbols |-> states[s]] /\ prevAbove = [s \in Symbols |-> prevAbove[s]]
    /\ study = [s \in Symbols |-> study[s]]
    /\ tape \in [Symbols -> Seq(Trades)]
    /\ opened = [s \in Symbols |-> opened[s]] /\ \A s \in Symbols : opened[s] \in 0 .. Len(tape[s])
    /\ results.symbol \in Symbols \union {NoSymbol}
    /\ resets \in 0 .. MaxResets

SymbolHolds(s) ==
    /\ StateHolds(states[s], Session(s))
    /\ CrossHolds(prevAbove[s], Session(s))
    /\ StudyHolds(study[s], tape[s])

EngineInvariant ==
    /\ EngineShape
    /\ \A s \in Symbols : SymbolHolds(s)
    /\ SignalsMatchReference

\* The invariant holds at first, and every step keeps it.
LEMMA InitInvariant == Init => EngineInvariant
<1> SUFFICES ASSUME Init PROVE EngineInvariant
  OBVIOUS
<1>1. EngineShape
  <2>1. study = [s \in Symbols |-> study[s]]
    BY DEF Init
  <2>2. tape \in [Symbols -> Seq(Trades)] /\ \A s \in Symbols : opened[s] \in 0 .. Len(tape[s])
    BY DEF Init
  <2>3. resets \in 0 .. MaxResets
    BY EngineAssumption DEF Init
  <2>4. QED
    BY <2>1, <2>2, <2>3 DEF Init, EngineShape
<1>2. ASSUME NEW s \in Symbols PROVE SymbolHolds(s)
  <2>1. states[s] = NewState /\ prevAbove[s] = "none" /\ study[s] = NewStudy /\ tape[s] = <<>>
    BY DEF Init
  <2>2. Session(s) = <<>>
    BY <2>1 DEF Session
  <2>3. CrossHolds("none", <<>>)
    BY NothingHolds DEF CrossHolds
  <2>4. QED
    BY <2>1, <2>2, <2>3, NothingHolds DEF SymbolHolds
<1>3. SignalsMatchReference
  BY DEF Init, SignalsMatchReference
<1>4. QED
  BY <1>1, <1>2, <1>3 DEF EngineInvariant

LEMMA OnTradeStep ==
    ASSUME EngineInvariant, NEW s \in Symbols, NEW t \in Trades, OnTrade(s, t)
    PROVE  EngineInvariant'
<1> DEFINE q == Session(s)
           r == Append(q, t)
           st == UpdateState(states[s], t.price, t.qty)
           now == Now(st.vwap, t.price)
           d == [delta |-> UpdateDelta(study[s].delta, Window, t.qty, t.side),
                 profile |-> UpdateProfile(study[s].profile, t.price, t.qty, t.side),
                 sma |-> UpdateSMA(study[s].sma, Window, t.price)]
<1>1. EngineShape /\ \A u \in Symbols : SymbolHolds(u)
  BY DEF EngineInvariant
<1>2. tape[s] \in Seq(Trades) /\ opened[s] \in 0 .. Len(tape[s])
  BY <1>1 DEF EngineShape
\* What the step assigns.
<1>3. /\ states' = [states EXCEPT ![s] = st]
      /\ prevAbove' = IF now = "none" THEN prevAbove ELSE [prevAbove EXCEPT ![s] = now]
      /\ results' = [symbol |-> s, signals |-> RSISignal(st) \union BollingerSignal(st)
                                                \union VWAPCrossSignal(prevAbove[s], now)]
      /\ tape' = [tape EXCEPT ![s] = Append(tape[s], t)]
      /\ opened' = opened /\ resets' = resets
  BY DEF OnTrade, Now
<1>4. study' = [u \in Symbols |-> IF u = s THEN d ELSE study[u]]
  <2>1. study' = [study EXCEPT ![s] = d]
    BY DEF OnTrade
  <2> HIDE DEF d
  <2>2. QED
    BY <1>1, <2>1 DEF EngineShape
<1> HIDE DEF st, now, d
<1>5. \A u \in Symbols :
        /\ states'[u] = IF u = s THEN st ELSE states[u]
        /\ prevAbove'[u] = IF u = s /\ now # "none" THEN now ELSE prevAbove[u]
        /\ tape'[u] = IF u = s THEN Append(tape[s], t) ELSE tape[u]
        /\ study'[u] = IF u = s THEN d ELSE study[u]
  BY <1>1, <1>3, <1>4 DEF EngineShape
<1>6. q \in Seq(Trades) /\ Session(s)' = r /\ \A u \in Symbols \ {s} : Session(u)' = Session(u)
  <2>1. /\ SubSeq(tape[s], opened[s] + 1, Len(tape[s])) \in Seq(Trades)
        /\ SubSeq(Append(tape[s], t), opened[s] + 1, Len(Append(tape[s], t)))
             = Append(SubSeq(tape[s], opened[s] + 1, Len(tape[s])), t)
    BY <1>2, SessionOfAppend
  <2>2. tape'[s] = Append(tape[s], t) /\ opened'[s] = opened[s]
    BY <1>3, <1>5
  <2>3. QED
    BY <1>3, <1>5, <2>1, <2>2 DEF Session
<1> HIDE DEF q, r
<1>7. SymbolHolds(s)
  BY <1>1
<1>8. StateHolds(states[s], q) /\ CrossHolds(prevAbove[s], q) /\ StudyHolds(study[s], tape[s])
  BY <1>7 DEF SymbolHolds, q
<1>9. StateHolds(st, r)
  BY <1>6, <1>8, StateFollows DEF st, r
<1>10. VwapHolds(st.vwap, r)
  BY <1>9 DEF StateHolds
<1>11. CrossHolds(IF now = "none" THEN prevAbove[s] ELSE now, r)
  BY <1>6, <1>8, <1>10, CrossFollows DEF now, r
<1>12. StudyHolds(d, Append(tape[s], t))
  <2>1. /\ d.delta = UpdateDelta(study[s].delta, Window, t.qty, t.side)
        /\ d.profile = UpdateProfile(study[s].profile, t.price, t.qty, t.side)
        /\ d.sma = UpdateSMA(study[s].sma, Window, t.price)
    BY DEF d
  <2>2. QED
    BY <1>2, <1>8, <2>1, StudyFollows
<1>13. EngineShape'
  <2>1. states' = [u \in Symbols |-> states'[u]] /\ prevAbove' = [u \in Symbols |-> prevAbove'[u]]
    BY <1>1, <1>3 DEF EngineShape
  <2>2. study' = [u \in Symbols |-> study'[u]]
    BY <1>4
  <2>3. tape' \in [Symbols -> Seq(Trades)]
    <3>1. Append(tape[s], t) \in Seq(Trades)
      BY <1>2
    <3>2. QED
      BY <1>1, <1>3, <3>1 DEF EngineShape
  <2>4. opened' = [u \in Symbols |-> opened'[u]]
    BY <1>1, <1>3 DEF EngineShape
  <2>5. ASSUME NEW u \in Symbols PROVE opened'[u] \in 0 .. Len(tape'[u])
    <3>1. CASE u = s
      <4>1. Len(Append(tape[s], t)) = Len(tape[s]) + 1 /\ Len(tape[s]) \in Nat
        BY <1>2
      <4>2. QED
        BY <1>2, <1>3, <1>5, <3>1, <4>1
    <3>2. CASE u # s
      BY <1>1, <1>3, <1>5, <3>2 DEF EngineShape
    <3>3. QED
      BY <3>1, <3>2
  <2>6. results'.symbol \in Symbols \union {NoSymbol} /\ resets' \in 0 .. MaxResets
    BY <1>1, <1>3 DEF EngineShape
  <2>7. QED
    BY <2>1, <2>2, <2>3, <2>4, <2>5, <2>6 DEF EngineShape
<1>14. ASSUME NEW u \in Symbols PROVE SymbolHolds(u)'
  <2>1. CASE u = s
    <3>1. states'[u] = st /\ Session(u)' = r /\ tape'[u] = Append(tape[s], t) /\ study'[u] = d
          /\ prevAbove'[u] = IF now = "none" THEN prevAbove[s] ELSE now
      BY <1>5, <1>6, <2>1
    <3>2. QED
      BY <1>9, <1>11, <1>12, <3>1 DEF SymbolHolds
  <2>2. CASE u # s
    <3>1. states'[u] = states[u] /\ Session(u)' = Session(u) /\ tape'[u] = tape[u]
          /\ study'[u] = study[u] /\ prevAbove'[u] = prevAbove[u]
      BY <1>5, <1>6, <2>2
    <3>2. SymbolHolds(u)
      BY <1>1
    <3>3. QED
      BY <3>1, <3>2 DEF SymbolHolds
  <2>3. QED
    BY <2>1, <2>2
<1>15. SignalsMatchReference'
  <2>1. results'.symbol = s
        /\ results'.signals = RSISignal(st) \union BollingerSignal(st)
                                  \union VWAPCrossSignal(prevAbove[s], now)
    BY <1>3
  <2>2. (\E i \in 1 .. Len(r) - 1 : r[i].qty > 0) => HasVolume(q)
    <3>1. Len(r) = Len(q) + 1 /\ \A i \in 1 .. Len(q) : r[i] = q[i]
      BY <1>6, LastTradeOfAppend DEF r
    <3>2. Len(q) \in Nat
      BY <1>6
    <3>3. Len(r) - 1 = Len(q)
      BY <3>1, <3>2
    <3>4. QED
      BY <3>1, <3>3 DEF HasVolume
  <2>3. HasVolume(q) =>
          results'.signals = RefRSI(PricesOf(r)) \union RefBollinger(PricesOf(r)) \union RefCross(r)
    BY <1>6, <1>8, <1>9, <2>1, SignalsFollow DEF now, r
  <2>4. QED
    BY <1>6, <2>1, <2>2, <2>3 DEF SignalsMatchReference
<1>16. QED
  BY <1>13, <1>14, <1>15 DEF EngineInvariant

LEMMA SessionResetStep ==
    ASSUME EngineInvariant, NEW S \in SUBSET Symbols, SessionReset(S)
    PROVE  EngineInvariant'
<1>1. EngineShape /\ \A u \in Symbols : SymbolHolds(u)
  BY DEF EngineInvariant
<1>2. /\ resets < MaxResets /\ resets' = resets + 1
      /\ states' = [s \in Symbols |-> IF s \in S THEN NewState ELSE states[s]]
      /\ opened' = [s \in Symbols |-> IF s \in S THEN Len(tape[s]) ELSE opened[s]]
      /\ results' = [symbol |-> NoSymbol, signals |-> {}]
      /\ prevAbove' = prevAbove /\ study' = study /\ tape' = tape
  BY DEF SessionReset
<1>3. EngineShape'
  <2>1. states' = [s \in Symbols |-> states'[s]] /\ opened' = [s \in Symbols |-> opened'[s]]
    BY <1>2
  <2>2. \A s \in Symbols : opened'[s] \in 0 .. Len(tape'[s])
    <3>1. \A s \in Symbols : opened[s] \in 0 .. Len(tape[s]) /\ Len(tape[s]) \in Nat
      BY <1>1 DEF EngineShape
    <3>2. QED
      BY <1>2, <3>1
  <2>3. resets' \in 0 .. MaxResets
    BY <1>1, <1>2, EngineAssumption DEF EngineShape
  <2>4. results'.symbol \in Symbols \union {NoSymbol}
    BY <1>2
  <2>5. QED
    BY <1>1, <1>2, <2>1, <2>2, <2>3, <2>4 DEF EngineShape
<1>4. ASSUME NEW s \in Symbols PROVE SymbolHolds(s)'
  <2>1. StateHolds(states[s], Session(s)) /\ CrossHolds(prevAbove[s], Session(s))
        /\ StudyHolds(study[s], tape[s])
    BY <1>1 DEF SymbolHolds
  <2>2. CASE s \in S
    <3>1. Session(s)' = <<>>
      <4>1. tape[s] \in Seq(Trades)
        BY <1>1 DEF EngineShape
      <4>2. opened'[s] = Len(tape[s]) /\ tape'[s] = tape[s]
        BY <1>2, <2>2
      <4>3. QED
        BY <4>1, <4>2, NoSession DEF Session
    <3>2. states'[s] = NewState
      BY <1>2, <2>2
    <3>3. CrossHolds(prevAbove[s], <<>>)
      BY <2>1, NothingHolds DEF CrossHolds
    <3>4. QED
      BY <1>2, <2>1, <3>1, <3>2, <3>3, NothingHolds DEF SymbolHolds
  <2>3. CASE s \notin S
    <3>1. states'[s] = states[s] /\ opened'[s] = opened[s]
      BY <1>2, <2>3
    <3>2. Session(s)' = Session(s)
      BY <1>2, <3>1 DEF Session
    <3>3. QED
      BY <1>2, <2>1, <3>1, <3>2 DEF SymbolHolds
  <2>4. QED
    BY <2>2, <2>3
<1>5. SignalsMatchReference'
  BY <1>2 DEF SignalsMatchReference
<1>6. QED
  BY <1>3, <1>4, <1>5 DEF EngineInvariant

\* In every behaviour each symbol holds what its session and its tape say: OnTrade
\* and session_reset (engine.py:113-139) keep the invariant.
THEOREM EngineInvariance == Spec => []EngineInvariant
<1>1. Init => EngineInvariant
  BY InitInvariant
<1>2. EngineInvariant /\ [Next]_vars => EngineInvariant'
  <2> SUFFICES ASSUME EngineInvariant, [Next]_vars PROVE EngineInvariant'
    OBVIOUS
  <2>1. ASSUME NEW s \in Symbols, NEW t \in Trades, OnTrade(s, t) PROVE EngineInvariant'
    BY <2>1, OnTradeStep
  <2>2. ASSUME NEW s \in Symbols, SessionReset({s}) PROVE EngineInvariant'
    <3>1. {s} \in SUBSET Symbols
      OBVIOUS
    <3>2. QED
      BY <2>2, <3>1, SessionResetStep
  <2>3. CASE SessionReset(Symbols)
    <3>1. Symbols \in SUBSET Symbols
      OBVIOUS
    <3>2. QED
      BY <2>3, <3>1, SessionResetStep
  <2>4. CASE UNCHANGED vars
    BY <2>4 DEF vars, EngineInvariant, EngineShape, SymbolHolds, Session, SignalsMatchReference
  <2>5. QED
    BY <2>1, <2>2, <2>3, <2>4 DEF Next
<1>3. QED
  BY <1>1, <1>2, PTL DEF Spec

\* A session is a sequence of trades.
LEMMA SessionType ==
    ASSUME EngineShape, NEW s \in Symbols
    PROVE  Session(s) \in Seq(Trades) /\ PricesOf(Session(s)) \in Seq(Price)
           /\ Len(PricesOf(Session(s))) = Len(Session(s))
<1>1. tape[s] \in Seq(Trades) /\ opened[s] \in 0 .. Len(tape[s])
  BY DEF EngineShape
<1>2. Session(s) \in Seq(Trades)
  BY <1>1 DEF Session
<1>3. QED
  BY <1>2, PricesType

\* Indicators hold natural numbers and no deque outgrows its size: what a program
\* of floats divides by is never negative (base.py:24-47, rsi.py:14-33).
THEOREM EngineTypes == Spec => []TypeOK
<1>1. EngineInvariant => TypeOK
  <2> SUFFICES ASSUME EngineInvariant PROVE TypeOK
    OBVIOUS
  <2>1. EngineShape /\ \A s \in Symbols : SymbolHolds(s)
    BY DEF EngineInvariant
  <2>2. ASSUME NEW s \in Symbols
        PROVE  /\ states[s].rsi \in [gain : Nat, loss : Nat, scale : Nat, prev : Nat, count : Nat]
               /\ Len(states[s].bb) <= BandPeriod
               /\ {states[s].ema9, states[s].ema21} \subseteq [num : Nat, den : Nat, count : Nat]
               /\ states[s].vwap \in [pq : Nat, q : Nat]
               /\ prevAbove[s] \in {"none", "above", "below"}
               /\ opened[s] \in 0 .. Len(tape[s])
               /\ Len(study[s].delta.history) <= Window /\ Len(study[s].sma.buf) <= Window
    <3>1. StateHolds(states[s], Session(s)) /\ CrossHolds(prevAbove[s], Session(s))
          /\ StudyHolds(study[s], tape[s])
      BY <2>1 DEF SymbolHolds
    <3>2. PricesOf(Session(s)) \in Seq(Price)
      BY <2>1, SessionType
    <3>3. states[s].rsi \in [gain : Nat, loss : Nat, scale : Nat, prev : Nat, count : Nat]
      BY <3>1, <3>2, WindowType, RSIType DEF StateHolds
    <3>4. Len(states[s].bb) <= BandPeriod
      BY <3>1, <3>2, WindowType, LastOfType DEF StateHolds
    <3>5. {states[s].ema9, states[s].ema21} \subseteq [num : Nat, den : Nat, count : Nat]
          /\ states[s].vwap \in [pq : Nat, q : Nat]
      BY <3>1 DEF StateHolds, EmaHolds, VwapHolds
    <3>6. tape[s] \in Seq(Trades) /\ opened[s] \in 0 .. Len(tape[s])
      BY <2>1 DEF EngineShape
    <3>7. Deltas(tape[s]) \in Seq(Int)
      <4>1. \A i \in 1 .. Len(tape[s]) : DeltaAfter(tape[s], i) \in Int
        <5>1. \A i \in 1 .. Len(tape[s]) : i \in 0 .. Len(tape[s])
          BY <3>6
        <5>2. QED
          BY <3>6, <5>1, DeltaIsSum
      <4>2. QED
        BY <3>6, <4>1 DEF Deltas
    <3>8. Len(study[s].delta.history) <= Window
      BY <3>1, <3>7, WindowType, LastOfType DEF StudyHolds, DeltaHolds
    <3>9. Len(study[s].sma.buf) <= Window
      <4>1. PricesOf(tape[s]) \in Seq(Price)
        BY <3>6, PricesType
      <4>2. QED
        BY <3>1, <4>1, WindowType, LastOfType DEF StudyHolds, SmaHolds
    <3>10. QED
      BY <3>1, <3>3, <3>4, <3>5, <3>6, <3>8, <3>9 DEF CrossHolds
  <2>3. results.symbol \in Symbols \union {NoSymbol} /\ resets \in 0 .. MaxResets
    BY <2>1 DEF EngineShape
  <2>4. QED
    BY <2>2, <2>3 DEF TypeOK
<1>2. QED
  BY <1>1, EngineInvariance, PTL

\* The incremental signals (engine.py:18-74) are those computed from the whole
\* session, for any trades, symbols and periods.
THEOREM EngineSignalsMatchReference == Spec => []SignalsMatchReference
<1>1. EngineInvariant => SignalsMatchReference
  BY DEF EngineInvariant
<1>2. QED
  BY <1>1, EngineInvariance, PTL

\* Averages, VWAP and delta (moving_average.py, vwap.py, delta.py) are what the tape
\* says, however long it is: the running total and the recursions do not drift.
THEOREM EngineStudiesMatchTape == Spec => []StudiesMatchTape
<1>1. EngineInvariant => StudiesMatchTape
  <2> SUFFICES ASSUME EngineInvariant, NEW s \in Symbols
               PROVE  LET n == Len(tape[s])
                          session == ToSet(PricesOf(Session(s)))
                          sma == study[s].sma
                          delta == study[s].delta
                      IN  /\ Between(sma.total, Len(sma.buf), ToSet(LastOf(PricesOf(tape[s]), Window)))
                          /\ Between(states[s].ema9.num, states[s].ema9.den, session)
                          /\ Between(states[s].ema21.num, states[s].ema21.den, session)
                          /\ states[s].ema9.count = Len(Session(s))
                          /\ Between(states[s].vwap.pq, states[s].vwap.q,
                                     {t.price : t \in {u \in ToSet(Session(s)) : u.qty > 0}})
                          /\ delta.cum = DeltaAfter(tape[s], n)
                          /\ delta.cum = delta.buy - delta.sell
                          /\ delta.history = LastOf([i \in 1 .. n |-> DeltaAfter(tape[s], i)], Window)
    BY DEF StudiesMatchTape
  <2>1. EngineShape /\ SymbolHolds(s)
    BY DEF EngineInvariant
  <2>2. StateHolds(states[s], Session(s)) /\ StudyHolds(study[s], tape[s])
    BY <2>1 DEF SymbolHolds
  <2>3. tape[s] \in Seq(Trades) /\ PricesOf(tape[s]) \in Seq(Price)
        /\ Len(PricesOf(Session(s))) = Len(Session(s))
    BY <2>1, PricesType, SessionType DEF EngineShape
  <2>4. Between(study[s].sma.total, Len(study[s].sma.buf), ToSet(LastOf(PricesOf(tape[s]), Window)))
    BY <2>2, <2>3, SmaIsBetween DEF StudyHolds
  <2>5. /\ Between(states[s].ema9.num, states[s].ema9.den, ToSet(PricesOf(Session(s))))
        /\ Between(states[s].ema21.num, states[s].ema21.den, ToSet(PricesOf(Session(s))))
        /\ states[s].ema9.count = Len(Session(s))
    BY <2>2, <2>3 DEF StateHolds, EmaHolds
  <2>6. Between(states[s].vwap.pq, states[s].vwap.q,
                {t.price : t \in {u \in ToSet(Session(s)) : u.qty > 0}})
    BY <2>2 DEF StateHolds, VwapHolds, PricesWithVolume
  <2>7. /\ study[s].delta.cum = DeltaAfter(tape[s], Len(tape[s]))
        /\ study[s].delta.cum = study[s].delta.buy - study[s].delta.sell
        /\ study[s].delta.history
             = LastOf([i \in 1 .. Len(tape[s]) |-> DeltaAfter(tape[s], i)], Window)
    BY <2>2 DEF StudyHolds, DeltaHolds, Deltas
  <2>8. QED
    BY <2>4, <2>5, <2>6, <2>7
<1>2. QED
  BY <1>1, EngineInvariance, PTL

\* The value area of volume_profile.py:76-98 holds seven tenths of the volume, and
\* would not without the level added last, for any profile with a volume.
THEOREM EngineValueArea == Spec => []ValueAreaJustEnough
<1>1. EngineInvariant => ValueAreaJustEnough
  <2> SUFFICES ASSUME EngineInvariant, NEW s \in Symbols
               PROVE  LET p == study[s].profile
                          total == ProfileTotal(p)
                          area == ValueArea(p)
                          poc == PointOfControl(p)
                          without(k) == AreaVolume(p, area) - LevelVolume(p, k)
                      IN  /\ total = SumFunction([i \in DOMAIN tape[s] |-> tape[s][i].qty])
                          /\ total > 0 =>
                              /\ area[1] <= poc /\ poc <= area[2]
                              /\ 10 * AreaVolume(p, area) >= 7 * total
                              /\ area # <<poc, poc>> =>
                                     \E k \in {area[1], area[2]} \ {poc} : 10 * without(k) < 7 * total
    BY DEF ValueAreaJustEnough
  <2> DEFINE p == study[s].profile
  <2>1. SymbolHolds(s)
    BY DEF EngineInvariant
  <2>2. ProfileTypes(p) /\ ProfileTotal(p) = SumFunction(Quantities(tape[s]))
    BY <2>1 DEF SymbolHolds, StudyHolds, ProfileHolds
  <2> HIDE DEF p
  <2>3. ProfileTotal(p) > 0 =>
            JustEnough(p, ValueArea(p)) /\ 10 * AreaVolume(p, ValueArea(p)) >= 7 * ProfileTotal(p)
    BY <2>2, ValueAreaIsJustEnough
  <2>4. QED
    BY <2>2, <2>3 DEF Quantities, JustEnough, p
<1>2. QED
  BY <1>1, EngineInvariance, PTL
=============================================================================
