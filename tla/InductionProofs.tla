--------------------------- MODULE InductionProofs ---------------------------
(***************************************************************************)
(* Induction for the proofs of the other modules.  The induction theorems  *)
(* of the library take an operator; these lemmas take a set instead, and   *)
(* rest on the least counterexample.  With them, the functions that folds  *)
(* and recursive definitions choose are shown to exist.                    *)
(***************************************************************************)
EXTENDS Integers, FiniteSetsExt, WellFoundedInduction, NaturalsInduction, TLAPS

\* A set of naturals has a least element: what the proofs use in the place of
\* induction, on the least counterexample.
LEMMA LeastNatural ==
  ASSUME NEW T, T \subseteq Nat, T # {}
  PROVE  \E x \in T : \A y \in T : x <= y
<1> DEFINE R == {ss \in Nat \X Nat : ss[1] < ss[2]}
<1>1. IsWellFoundedOn(R, Nat)
  BY NatLessThanWellFounded DEF OpToRel
<1>2. \E x \in T : \A y \in T : ~ (<<y, x>> \in R)
  <2> HIDE DEF R
  <2> QED
    BY <1>1, WFMin
<1>3. PICK x \in T : \A y \in T : ~ (<<y, x>> \in R)
  BY <1>2
<1>4. ASSUME NEW y \in T PROVE x <= y
  <2>1. <<y, x>> \notin R
    BY <1>3
  <2>2. x \in Nat /\ y \in Nat
    OBVIOUS
  <2>3. ~ (y < x)
    BY <2>1, <2>2
  <2> QED
    BY <2>2, <2>3
<1> HIDE DEF R
<1> QED
  BY <1>4

\* Induction: a set that holds 0 and is closed under successor holds all
\* naturals.
LEMMA Induction ==
  ASSUME NEW H, 0 \in H, \A n \in Nat : n \in H => n + 1 \in H
  PROVE  \A n \in Nat : n \in H
<1> DEFINE Miss == {n \in Nat : n \notin H}
<1>1. SUFFICES ASSUME Miss # {} PROVE FALSE
  OBVIOUS
<1>2. PICK x \in Miss : \A y \in Miss : x <= y
  <2>1. Miss \subseteq Nat
    OBVIOUS
  <2> HIDE DEF Miss
  <2> QED
    BY <1>1, <2>1, LeastNatural
<1>3. x \in Nat /\ x # 0
  OBVIOUS
<1>4. x - 1 \in Nat
  BY <1>3
<1>5. x - 1 \in H
  <2>1. x - 1 \notin Miss
    <3>1. ~ (x <= x - 1)
      BY <1>3
    <3> QED
      BY <1>2, <3>1
  <2> QED
    BY <1>4, <2>1
<1>6. x - 1 + 1 \in H
  BY <1>4, <1>5
<1>7. x - 1 + 1 = x
  BY <1>3
<1> QED
  BY <1>6, <1>7

\* A set of naturals that is bounded has a greatest element.
LEMMA GreatestNatural ==
  ASSUME NEW n \in Nat, NEW T, T \subseteq 0..n, T # {}
  PROVE  \E x \in T : \A y \in T : y <= x
<1> DEFINE D == {n - y : y \in T}
<1>1. D \subseteq Nat /\ D # {}
  <2>1. \A y \in T : y \in Int /\ 0 <= y /\ y <= n
    OBVIOUS
  <2>2. \A y \in T : n - y \in Nat
    BY <2>1
  <2> QED
    BY <2>2
<1>2. PICK d \in D : \A e \in D : d <= e
  <2> HIDE DEF D
  <2> QED
    BY <1>1, LeastNatural
<1>3. PICK x \in T : d = n - x
  BY <1>2
<1>4. ASSUME NEW y \in T PROVE y <= x
  <2>1. n - y \in D
    OBVIOUS
  <2>2. n - x <= n - y
    BY <1>2, <1>3, <2>1
  <2>3. x \in Int /\ y \in Int /\ n \in Int
    OBVIOUS
  <2> HIDE DEF D
  <2> QED
    BY <2>2, <2>3
<1> HIDE DEF D
<1> QED
  BY <1>4

LEMMA MaxOfRange ==
  ASSUME NEW n \in Nat
  PROVE  /\ \A S \in SUBSET (1..n) : S # {} => Max(S) \in S /\ \A y \in S : y <= Max(S)
         /\ n > 0 => Max(1..n) = n
<1>1. ASSUME NEW S \in SUBSET (1..n), S # {}
      PROVE  Max(S) \in S /\ \A y \in S : y <= Max(S)
  <2>1. S \subseteq 0..n
    OBVIOUS
  <2>2. \E x \in S : \A y \in S : y <= x
    BY <1>1, <2>1, GreatestNatural
  <2>3. \E x \in S : \A y \in S : x >= y
    <3>1. PICK x \in S : \A y \in S : y <= x
      BY <2>2
    <3>2. \A y \in S : x \in Int /\ y \in Int
      OBVIOUS
    <3> QED
      BY <3>1, <3>2
  <2>4. Max(S) \in S /\ \A y \in S : Max(S) >= y
    BY <2>3 DEF Max
  <2>5. ASSUME NEW y \in S PROVE y <= Max(S)
    <3> DEFINE m == Max(S)
    <3>1. m >= y /\ m \in S
      BY <2>4
    <3> HIDE DEF m
    <3>2. m \in Int /\ y \in Int
      BY <3>1
    <3>3. y <= m
      BY <3>1, <3>2
    <3> QED
      BY <3>3 DEF m
  <2> QED
    BY <2>4, <2>5
<1>2. ASSUME n > 0 PROVE Max(1..n) = n
  <2>1. n \in 1..n /\ 1..n # {}
    BY <1>2
  <2>2. Max(1..n) \in 1..n /\ n <= Max(1..n)
    BY <1>1, <2>1
  <2> QED
    BY <2>2
<1> QED
  BY <1>1, <1>2

\* The functions FoldLeft() is defined by: step[x] is the effect of element x[1]
\* of a sequence of n elements on what was computed so far, x[2].
IsFold(g, T, n, base, step) ==
  /\ g \in [SUBSET (1..n) -> T]
  /\ \A s \in SUBSET (1..n) :
       g[s] = IF s = {} THEN base ELSE step[<<Max(s), g[s \ {Max(s)}]>>]

\* They exist.
LEMMA FoldExists ==
  ASSUME NEW T, NEW base \in T, NEW N \in Nat,
         NEW step \in [(1..N) \X T -> T]
  PROVE  \E g : IsFold(g, T, N, base, step)
<1> DEFINE OK(n, g) == \A s \in SUBSET (1..n) :
             g[s] = IF s = {} THEN base ELSE step[<<Max(s), g[s \ {Max(s)}]>>]
           H == {n \in Nat : n <= N => \E g \in [SUBSET (1..n) -> T] : OK(n, g)}
<1>1. 0 \in H
  <2> DEFINE g == [s \in SUBSET (1..0) |-> base]
  <2>1. \A s \in SUBSET (1..0) : s = {}
    OBVIOUS
  <2>2. g \in [SUBSET (1..0) -> T] /\ OK(0, g)
    BY <2>1
  <2>3. \E f \in [SUBSET (1..0) -> T] : OK(0, f)
    BY <2>2
  <2> HIDE DEF OK
  <2> QED
    BY <2>3
<1>2. ASSUME NEW n \in Nat, n \in H PROVE n + 1 \in H
  <2> SUFFICES ASSUME n + 1 <= N
               PROVE  \E g \in [SUBSET (1..n + 1) -> T] : OK(n + 1, g)
    <3>1. n + 1 \in Nat
      OBVIOUS
    <3> HIDE DEF OK
    <3> QED
      BY <3>1
  <2>1. PICK g \in [SUBSET (1..n) -> T] : OK(n, g)
    <3>1. n <= N
      OBVIOUS
    <3> HIDE DEF OK
    <3> QED
      BY <1>2, <3>1
  <2>2. n + 1 \in 1..N
    OBVIOUS
  <2> DEFINE h == [s \in SUBSET (1..n + 1) |->
                     IF n + 1 \in s THEN step[<<n + 1, g[s \ {n + 1}]>>] ELSE g[s]]
  <2>3. \A s \in SUBSET (1..n + 1) : s \ {n + 1} \in SUBSET (1..n)
    OBVIOUS
  <2>4. \A s \in SUBSET (1..n + 1) : n + 1 \notin s => s \in SUBSET (1..n)
    <3> TAKE s \in SUBSET (1..n + 1)
    <3> HAVE n + 1 \notin s
    <3>1. s \ {n + 1} = s
      OBVIOUS
    <3> QED
      BY <2>3, <3>1
  <2>5. h \in [SUBSET (1..n + 1) -> T]
    BY <2>2, <2>3, <2>4
  <2>6. ASSUME NEW s \in SUBSET (1..n + 1)
        PROVE  h[s] = IF s = {} THEN base ELSE step[<<Max(s), h[s \ {Max(s)}]>>]
    <3>1. CASE n + 1 \in s
      <4>1. Max(s) = n + 1
        <5>1. Max(s) \in s /\ n + 1 <= Max(s)
          <6>1. n + 1 \in Nat /\ s # {}
            BY <3>1
          <6>2. \A S \in SUBSET (1..n + 1) :
                  S # {} => Max(S) \in S /\ \A y \in S : y <= Max(S)
            BY <6>1, MaxOfRange
          <6> QED
            BY <3>1, <6>1, <6>2
        <5> DEFINE m == Max(s)
        <5>2. m \in s /\ n + 1 <= m
          BY <5>1
        <5> HIDE DEF m
        <5>3. m \in 1..n + 1
          BY <5>2
        <5>4. m = n + 1
          BY <5>2, <5>3
        <5> QED
          BY <5>4 DEF m
      <4>2. s \ {n + 1} \in SUBSET (1..n + 1) /\ n + 1 \notin s \ {n + 1}
        OBVIOUS
      <4>3. h[s \ {n + 1}] = g[s \ {n + 1}]
        BY <4>2
      <4>4. h[s] = step[<<n + 1, g[s \ {n + 1}]>>]
        BY <3>1
      <4> QED
        BY <3>1, <4>1, <4>3, <4>4
    <3>2. CASE n + 1 \notin s
      <4>1. s \in SUBSET (1..n)
        BY <2>4, <3>2
      <4>2. s # {} => Max(s) \in s
        BY <4>1, MaxOfRange
      <4>3. s \ {Max(s)} \in SUBSET (1..n + 1) /\ n + 1 \notin s \ {Max(s)}
        BY <3>2
      <4>4. h[s] = g[s] /\ h[s \ {Max(s)}] = g[s \ {Max(s)}]
        BY <3>2, <4>3
      <4> QED
        BY <2>1, <4>1, <4>4
    <3> QED
      BY <3>1, <3>2
  <2> HIDE DEF h
  <2> QED
    BY <2>5, <2>6
<1> HIDE DEF H
<1>3. \A n \in Nat : n \in H
  BY <1>1, <1>2, Induction
<1>4. N \in H /\ N <= N
  BY <1>3
<1>5. \E g \in [SUBSET (1..N) -> T] : OK(N, g)
  <2> HIDE DEF OK
  <2> QED
    BY <1>4 DEF H
<1>6. PICK g \in [SUBSET (1..N) -> T] : OK(N, g)
  BY <1>5
<1>7. IsFold(g, T, N, base, step)
  BY <1>6 DEF IsFold
<1> QED
  BY <1>7

\* The places of a sequence up to k.
LEMMA Prefix ==
  ASSUME NEW n \in Nat, NEW k \in 1..n
  PROVE  /\ 1..k \in SUBSET (1..n) /\ 1..k # {}
         /\ Max(1..k) = k /\ (1..k) \ {k} = 1..k - 1
<1>1. k \in Nat /\ k > 0
  OBVIOUS
<1>2. Max(1..k) = k
  BY <1>1, MaxOfRange
<1>3. 1..k \in SUBSET (1..n) /\ 1..k # {} /\ (1..k) \ {k} = 1..k - 1
  BY <1>1
<1> QED
  BY <1>2, <1>3

\* A recursive function over 0..N: f[i] is step[<<i, f[i - 1]>>].
IsRecursion(f, T, N, base, step) ==
  /\ f \in [0..N -> T]
  /\ f[0] = base
  /\ \A i \in 1..N : f[i] = step[<<i, f[i - 1]>>]

\* It exists.
LEMMA RecursionExists ==
  ASSUME NEW T, NEW base \in T, NEW N \in Nat,
         NEW step \in [(1..N) \X T -> T]
  PROVE  \E f : IsRecursion(f, T, N, base, step)
<1>1. PICK g : IsFold(g, T, N, base, step)
  BY FoldExists
<1>2. g \in [SUBSET (1..N) -> T]
  BY <1>1 DEF IsFold
<1> DEFINE f == [i \in 0..N |-> g[1..i]]
<1>3. f \in [0..N -> T]
  <2>1. \A i \in 0..N : 1..i \in SUBSET (1..N)
    OBVIOUS
  <2> QED
    BY <1>2, <2>1
<1>4. f[0] = base
  <2>1. 1..0 = {} /\ {} \in SUBSET (1..N)
    OBVIOUS
  <2>2. g[{}] = base
    BY <1>1, <2>1 DEF IsFold
  <2>3. f[0] = g[1..0]
    OBVIOUS
  <2> QED
    BY <2>1, <2>2, <2>3
<1>5. ASSUME NEW i \in 1..N PROVE f[i] = step[<<i, f[i - 1]>>]
  <2>1. /\ 1..i \in SUBSET (1..N) /\ 1..i # {}
        /\ Max(1..i) = i /\ (1..i) \ {i} = 1..i - 1
    BY Prefix
  <2>2. g[1..i] = step[<<Max(1..i), g[(1..i) \ {Max(1..i)}]>>]
    BY <1>1, <2>1 DEF IsFold
  <2>3. i \in 0..N /\ i - 1 \in 0..N
    OBVIOUS
  <2>4. f[i] = g[1..i] /\ f[i - 1] = g[1..i - 1]
    BY <2>3
  <2> QED
    BY <2>1, <2>2, <2>4
<1> HIDE DEF f
<1>6. IsRecursion(f, T, N, base, step)
  BY <1>3, <1>4, <1>5 DEF IsRecursion
<1> QED
  BY <1>6

==============================================================================
