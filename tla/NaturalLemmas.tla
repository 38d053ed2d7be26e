--------------------------- MODULE NaturalLemmas ---------------------------
(***************************************************************************)
(* Lemmas about the naturals that the proofs about the compiler rest on:   *)
(* least and greatest elements of sets, induction, recursion and finite    *)
(* sums.  They speak of sets and functions where the library's theorems    *)
(* speak of operators, so that a proof can cite them.                      *)
(***************************************************************************)
EXTENDS Integers, Sequences, FiniteSetsExt, TLAPS, FiniteSetTheorems

(* A nonempty set of naturals has a least element: of the intervals that   *)
(* end in an element, one has no other as a proper subset.                 *)
LEMMA NatMin ==
    ASSUME NEW T \in SUBSET Nat, T # {}
    PROVE  \E x \in T : \A y \in T : x <= y
<1> DEFINE F == {1..n : n \in T}
<1>1. ASSUME NEW n \in T  PROVE 1..n \in FiniteSubsetsOf(Nat)
  <2>1. n \in Int /\ 1 \in Int
    OBVIOUS
  <2>2. IsFiniteSet(1..n)
    BY <2>1, FS_Interval
  <2>3. 1..n \in SUBSET Nat
    OBVIOUS
  <2> QED BY <2>2, <2>3 DEF FiniteSubsetsOf
<1>2. F \subseteq FiniteSubsetsOf(Nat) /\ F # {}
  BY <1>1
<1>3. PICK S \in F : \A U \in F : <<U, S>> \notin StrictSubsetOrdering(Nat)
  BY <1>2, FS_StrictSubsetOrderingWellFounded, WFMin
<1>4. PICK x \in T : S = 1..x
  BY <1>3
<1>5. ASSUME NEW y \in T PROVE x <= y
  <2> SUFFICES ASSUME y < x PROVE FALSE
    OBVIOUS
  <2>1. 1..y \subseteq 1..x /\ x \in 1..x /\ x \notin 1..y
    OBVIOUS
  <2>2. <<1..y, 1..x>> \in StrictSubsetOrdering(Nat)
    BY <2>1, <1>1 DEF StrictSubsetOrdering, FiniteSubsetsOf
  <2> QED BY <2>2, <1>3, <1>4
<1> QED BY <1>5

(* A nonempty finite set of naturals has a greatest element: of the sets   *)
(* of the elements from one on, one has no other as a proper subset.       *)
LEMMA NatMax ==
    ASSUME NEW T \in SUBSET Nat, T # {}, IsFiniteSet(T)
    PROVE  Max(T) \in T /\ \A y \in T : Max(T) >= y
<1> DEFINE From(n) == {x \in T : x >= n}
           F == {From(n) : n \in T}
<1>1. \A n \in T : From(n) \in FiniteSubsetsOf(Nat)
  BY FS_Subset DEF FiniteSubsetsOf
<1>2. F \subseteq FiniteSubsetsOf(Nat) /\ F # {}
  BY <1>1
<1>3. PICK S \in F : \A U \in F : <<U, S>> \notin StrictSubsetOrdering(Nat)
  BY <1>2, FS_StrictSubsetOrderingWellFounded, WFMin
<1>4. PICK x \in T : S = From(x)
  BY <1>3
<1>5. ASSUME NEW y \in T PROVE x >= y
  <2> SUFFICES ASSUME y > x PROVE FALSE
    OBVIOUS
  <2> x \in Nat /\ y \in Nat
    OBVIOUS
  <2>1. \A z \in T : z \in Nat /\ (z >= y => z >= x)
    OBVIOUS
  <2>3. x \in From(x) /\ x \notin From(y)
    OBVIOUS
  <2>2. <<From(y), From(x)>> \in StrictSubsetOrdering(Nat)
    BY <2>1, <2>3, <1>1 DEF StrictSubsetOrdering, FiniteSubsetsOf
  <2> QED BY <2>2, <1>3, <1>4
<1> QED BY <1>5 DEF Max

(* Max and Min return the element that they should. *)
LEMMA MaxIs ==
    ASSUME NEW T \in SUBSET Nat, NEW x \in T, \A y \in T : x >= y
    PROVE  Max(T) = x
<1>1. Max(T) \in T /\ \A y \in T : Max(T) >= y
  BY DEF Max
<1>2. x <= Max(T) /\ Max(T) <= x
  BY <1>1
<1>3. \A y, z \in T : y <= z /\ z <= y => y = z
  OBVIOUS
<1> QED BY <1>1, <1>2, <1>3

LEMMA MinIs ==
    ASSUME NEW T \in SUBSET Nat, NEW x \in T, \A y \in T : x <= y
    PROVE  Min(T) = x
<1>1. Min(T) \in T /\ \A y \in T : Min(T) <= y
  BY DEF Min
<1>2. Min(T) <= x /\ x <= Min(T)
  BY <1>1
<1>3. \A y, z \in T : y <= z /\ z <= y => y = z
  OBVIOUS
<1> QED BY <1>1, <1>2, <1>3

LEMMA IntervalMax ==
    ASSUME NEW n \in Nat, NEW T \in SUBSET (1..n), T # {}
    PROVE  Max(T) \in T /\ \A y \in T : Max(T) >= y
<1>1. IsFiniteSet(1..n)
  BY 1 \in Int, n \in Int, FS_Interval
<1>2. IsFiniteSet(T)
  BY <1>1, FS_Subset
<1>3. T \in SUBSET Nat
  OBVIOUS
<1> QED BY <1>2, <1>3, NatMax

(* Induction. *)
LEMMA NatInduct ==
    ASSUME NEW P \in SUBSET Nat, 0 \in P, \A n \in P : n + 1 \in P
    PROVE  P = Nat
<1> SUFFICES ASSUME Nat \ P # {} PROVE FALSE
  OBVIOUS
<1>1. PICK m \in Nat \ P : \A y \in Nat \ P : m <= y
  BY NatMin
<1>2. m # 0 /\ m - 1 \in Nat /\ ~ (m <= m - 1)
  BY <1>1
<1>3. m - 1 \in P
  BY <1>1, <1>2
<1> QED BY <1>1, <1>2, <1>3, m - 1 + 1 = m

(* A function on 0..n is defined by its first value and the step from each *)
(* value to the next.                                                      *)
Steps(n, V) == [1..n -> [V -> V]]

Iterates(f, n, V, base, step) ==
    f \in [0..n -> V] /\ f[0] = base /\ \A i \in 1..n : f[i] = step[i][f[i - 1]]

LEMMA Recursion ==
    ASSUME NEW n \in Nat, NEW V, NEW base \in V, NEW step \in Steps(n, V)
    PROVE  \E f : Iterates(f, n, V, base, step)
<1> USE DEF Steps, Iterates
<1> DEFINE Made(k, f) ==
               /\ f \in [0..k -> V]
               /\ f[0] = base
               /\ \A i \in 1..k : f[i] = step[i][f[i - 1]]
           P == {k \in Nat : k > n \/ \E f : Made(k, f)}
<1>1. 0 \in P
  <2>1. Made(0, [i \in 0..0 |-> base])
    OBVIOUS
  <2> QED BY <2>1
<1>2. ASSUME NEW k \in P PROVE k + 1 \in P
  <2>1. CASE k + 1 > n
    BY <2>1
  <2>2. CASE k + 1 <= n
    <3>1. PICK f : Made(k, f)
      BY <2>2
    <3> DEFINE g == [i \in 0..(k + 1) |-> IF i = k + 1 THEN step[k + 1][f[k]] ELSE f[i]]
    <3>2. k \in Nat /\ k + 1 \in 1..n /\ f[k] \in V
      BY <2>2, <3>1
    <3>3. step[k + 1][f[k]] \in V
      BY <3>2
    <3>4. g \in [0..(k + 1) -> V]
      BY <3>1, <3>2, <3>3
    <3>5. g[0] = base
      BY <3>1, <3>2
    <3>6. ASSUME NEW i \in 1..(k + 1) PROVE g[i] = step[i][g[i - 1]]
      <4>1. i - 1 \in 0..k /\ g[i - 1] = f[i - 1]
        BY <3>2
      <4>2. CASE i = k + 1
        BY <3>2, <4>1, <4>2
      <4>3. CASE i # k + 1
        BY <3>1, <3>2, <4>1, <4>3
      <4> QED BY <4>2, <4>3
    <3> HIDE DEF g
    <3>7. Made(k + 1, g)
      BY <3>4, <3>5, <3>6
    <3> QED BY <3>7
  <2>3. k \in Nat
    OBVIOUS
  <2>4. k + 1 > n \/ k + 1 <= n
    BY <2>3
  <2> HIDE DEF P
  <2> QED BY <2>1, <2>2, <2>4
<1> HIDE DEF P
<1>3. P = Nat
  BY <1>1, <1>2, NatInduct DEF P
<1>4. n \in P /\ ~ (n > n)
  BY <1>3
<1>5. PICK f : Made(n, f)
  <2> HIDE DEF Made
  <2> QED BY <1>4 DEF P
<1> QED BY <1>5

(* Division by the number of accumulation steps. *)
LEMMA DivMod ==
    ASSUME NEW a \in Nat, NEW n \in Nat \ {0}
    PROVE  a \div n \in Nat /\ a % n \in 0..(n - 1) /\ a = (n * (a \div n)) + (a % n)
BY SMT

LEMMA DivUnique ==
    ASSUME NEW n \in Nat \ {0}, NEW q \in Nat, NEW r \in 0..(n - 1)
    PROVE  ((n * q) + r) \div n = q /\ ((n * q) + r) % n = r
BY SMT

(* The next mini-batch of a group, and the first of the next group. *)
LEMMA NextBatch ==
    ASSUME NEW a \in Nat, NEW n \in Nat \ {0}
    PROVE  /\ a % n # n - 1 =>
                  (a + 1) \div n = a \div n /\ (a + 1) % n = (a % n) + 1
           /\ a % n = n - 1 =>
                  /\ (a + 1) \div n = (a \div n) + 1 /\ (a + 1) % n = 0
                  /\ n * ((a \div n) + 1) = a + 1
<1> DEFINE q == a \div n
           r == a % n
<1>1. q \in Nat /\ r \in 0..(n - 1) /\ a = (n * q) + r
  BY DivMod
<1> HIDE DEF q, r
<1>2. n * (q + 1) = (n * q) + n /\ n * q \in Nat
  BY <1>1, SMT
<1>3. CASE r # n - 1
  <2>1. r + 1 \in 0..(n - 1) /\ a + 1 = (n * q) + (r + 1)
    BY <1>1, <1>2, <1>3
  <2>2. (a + 1) \div n = q /\ (a + 1) % n = r + 1
    BY <1>1, <2>1, DivUnique
  <2> QED BY <2>2, <1>3 DEF q, r
<1>4. CASE r = n - 1
  <2>1. 0 \in 0..(n - 1) /\ q + 1 \in Nat /\ a + 1 = (n * (q + 1)) + 0
    BY <1>1, <1>2, <1>4
  <2>2. ((n * (q + 1)) + 0) \div n = q + 1 /\ ((n * (q + 1)) + 0) % n = 0
    BY <2>1, DivUnique
  <2>3. n * (q + 1) = a + 1
    BY <1>1, <1>2, <1>4
  <2> QED BY <2>1, <2>2, <2>3, <1>4 DEF q, r
<1> QED BY <1>3, <1>4 DEF q, r

-----------------------------------------------------------------------------
(* Sums over finite sets: what MapThenSumSet computes, as a function on    *)
(* the subsets.                                                            *)
(* The sum of the values of a function over a set. *)
Total(f, S) == MapThenSumSet(LAMBDA t : f[t], S)

Some(s) == CHOOSE x \in s : TRUE

(* What the fold computes for the subsets of a set. *)
Folded(f, S, g) ==
    /\ g = [s \in SUBSET S |-> IF s = {} THEN 0 ELSE f[Some(s)] + g[s \ {Some(s)}]]

LEMMA FoldExists ==
    ASSUME NEW f, NEW S, IsFiniteSet(S)
    PROVE  \E g : Folded(f, S, g)
<1> DEFINE Small(n) == {s \in SUBSET S : Cardinality(s) < n}
           Made(n, g) == g = [s \in Small(n) |-> IF s = {} THEN 0 ELSE f[Some(s)] + g[s \ {Some(s)}]]
           P == {n \in Nat : \E g : Made(n, g)}
<1>1. 0 \in P
  <2>1. \A s \in SUBSET S : Cardinality(s) \in Nat
    BY FS_Subset, FS_CardinalityType
  <2>2. Small(0) = {}
    BY <2>1
  <2>3. Made(0, [s \in {} |-> 0])
    BY <2>2
  <2> QED BY <2>3
<1>2. ASSUME NEW n \in P PROVE n + 1 \in P
  <2>1. PICK g : Made(n, g)
    BY <1>2
  <2> DEFINE h == [s \in Small(n + 1) |-> IF s = {} THEN 0 ELSE f[Some(s)] + g[s \ {Some(s)}]]
  <2>2. ASSUME NEW s \in Small(n + 1), s # {} PROVE s \ {Some(s)} \in Small(n)
    <3>1. Some(s) \in s
      BY <2>2 DEF Some
    <3>2. IsFiniteSet(s)
      BY <2>2, FS_Subset
    <3>3. Cardinality(s \ {Some(s)}) = Cardinality(s) - 1 /\ Cardinality(s) \in Nat
      BY <3>1, <3>2, FS_RemoveElement, FS_CardinalityType
    <3> QED BY <3>3, <2>2
  <2>3. ASSUME NEW s \in Small(n) PROVE s \in Small(n + 1) /\ h[s] = g[s]
    <3>1. Cardinality(s) \in Nat
      BY FS_Subset, FS_CardinalityType
    <3>2. s \in Small(n + 1)
      BY <3>1
    <3> HIDE DEF Small
    <3>3. g[s] = IF s = {} THEN 0 ELSE f[Some(s)] + g[s \ {Some(s)}]
      BY <2>1
    <3> QED BY <3>2, <3>3
  <2>4. \A s \in Small(n + 1) : s # {} => h[s \ {Some(s)}] = g[s \ {Some(s)}]
    BY <2>2, <2>3
  <2>5. h = [s \in Small(n + 1) |-> IF s = {} THEN 0 ELSE f[Some(s)] + h[s \ {Some(s)}]]
    <3> DEFINE k == [s \in Small(n + 1) |-> IF s = {} THEN 0 ELSE f[Some(s)] + h[s \ {Some(s)}]]
    <3>1. \A s \in Small(n + 1) : (IF s = {} THEN 0 ELSE f[Some(s)] + h[s \ {Some(s)}])
                = (IF s = {} THEN 0 ELSE f[Some(s)] + g[s \ {Some(s)}])
      <4> HIDE DEF h, Small
      <4> QED BY <2>4
    <3> QED BY <3>1
  <2> HIDE DEF h
  <2>6. Made(n + 1, h)
    BY <2>5
  <2>7. n + 1 \in Nat
    OBVIOUS
  <2> HIDE DEF Made
  <2> QED BY <2>6, <2>7
<1>3. P = Nat
  <2> HIDE DEF P
  <2>1. P \in SUBSET Nat
    BY DEF P
  <2> QED BY <1>1, <1>2, <2>1, NatInduct
<1>4. Cardinality(S) + 1 \in P
  <2>1. Cardinality(S) + 1 \in Nat
    BY FS_CardinalityType
  <2> HIDE DEF P
  <2> QED BY <1>3, <2>1
<1>5. Small(Cardinality(S) + 1) = SUBSET S
  <2>1. ASSUME NEW s \in SUBSET S PROVE Cardinality(s) < Cardinality(S) + 1
    <3>1. IsFiniteSet(s) /\ Cardinality(s) <= Cardinality(S)
      BY FS_Subset
    <3>2. Cardinality(s) \in Nat /\ Cardinality(S) \in Nat
      BY <3>1, FS_CardinalityType
    <3> QED BY <3>1, <3>2
  <2> QED BY <2>1
<1> QED BY <1>4, <1>5 DEF Folded

LEMMA TotalIsFold ==
    ASSUME NEW f, NEW S, IsFiniteSet(S)
    PROVE  \E g : Folded(f, S, g) /\ Total(f, S) = g[S]
<1> DEFINE iter == CHOOSE g : g = [s \in SUBSET S |-> IF s = {} THEN 0 ELSE f[CHOOSE x \in s : TRUE] + g[s \ {CHOOSE x \in s : TRUE}]]
<1>1. Total(f, S) = iter[S]
  BY DEF Total, MapThenSumSet, MapThenFoldSet
<1>2. \E g : g = [s \in SUBSET S |-> IF s = {} THEN 0 ELSE f[CHOOSE x \in s : TRUE] + g[s \ {CHOOSE x \in s : TRUE}]]
  <2>1. PICK g : Folded(f, S, g)
    BY FoldExists
  <2> QED BY <2>1 DEF Folded, Some
<1>3. iter = [s \in SUBSET S |-> IF s = {} THEN 0 ELSE f[CHOOSE x \in s : TRUE] + iter[s \ {CHOOSE x \in s : TRUE}]]
  BY <1>2
<1> HIDE DEF iter
<1>4. Folded(f, S, iter)
  BY <1>3 DEF Folded, Some
<1> QED BY <1>1, <1>4

LEMMA FoldStep ==
    ASSUME NEW f, NEW S, NEW g, Folded(f, S, g), NEW s \in SUBSET S
    PROVE  /\ s = {} => g[s] = 0
           /\ s # {} => Some(s) \in s /\ g[s] = f[Some(s)] + g[s \ {Some(s)}]
BY DEF Folded, Some

LEMMA FoldUnique ==
    ASSUME NEW f, NEW S, IsFiniteSet(S), NEW T \in SUBSET S,
           NEW g, Folded(f, S, g), NEW h, Folded(f, T, h)
    PROVE  \A s \in SUBSET T : g[s] = h[s]
<1> DEFINE P == {n \in Nat : \A s \in SUBSET T : Cardinality(s) = n => g[s] = h[s]}
<1>0. ASSUME NEW s \in SUBSET T
      PROVE  /\ IsFiniteSet(s) /\ Cardinality(s) \in Nat /\ (Cardinality(s) = 0 <=> s = {})
             /\ s # {} => Some(s) \in s /\ Cardinality(s \ {Some(s)}) = Cardinality(s) - 1
  <2>1. IsFiniteSet(s)
    BY FS_Subset
  <2>2. s # {} => Some(s) \in s
    BY DEF Some
  <2> QED BY <2>1, <2>2, FS_CardinalityType, FS_EmptySet, FS_RemoveElement
<1>1. 0 \in P
  <2>1. \A s \in SUBSET T : Cardinality(s) = 0 => g[s] = 0 /\ h[s] = 0
    BY <1>0, FoldStep
  <2> QED BY <2>1
<1>2. ASSUME NEW n \in P PROVE n + 1 \in P
  <2>1. ASSUME NEW s \in SUBSET T, Cardinality(s) = n + 1 PROVE g[s] = h[s]
    <3>1. s # {} /\ n \in Nat
      <4>1. n \in Nat /\ n + 1 # 0
        OBVIOUS
      <4> HIDE DEF P
      <4> QED BY <1>0, <2>1, <4>1
    <3>2. s \ {Some(s)} \in SUBSET T /\ Cardinality(s \ {Some(s)}) = n
      BY <1>0, <2>1, <3>1
    <3>3. g[s \ {Some(s)}] = h[s \ {Some(s)}]
      BY <3>2
    <3>4. s \in SUBSET S
      OBVIOUS
    <3>5. g[s] = f[Some(s)] + g[s \ {Some(s)}] /\ h[s] = f[Some(s)] + h[s \ {Some(s)}]
      BY <3>1, <3>4, FoldStep
    <3> QED BY <3>3, <3>5
  <2> QED BY <2>1
<1>3. P = Nat
  <2>1. P \in SUBSET Nat
    OBVIOUS
  <2> HIDE DEF P
  <2> QED BY <1>1, <1>2, <2>1, NatInduct
<1> QED BY <1>0, <1>3

(* A sum is that over the other elements, and the value of one of them. *)
LEMMA TotalStep ==
    ASSUME NEW f, NEW S, IsFiniteSet(S)
    PROVE  /\ S = {} => Total(f, S) = 0
           /\ S # {} => Some(S) \in S /\ Total(f, S) = f[Some(S)] + Total(f, S \ {Some(S)})
<1>1. PICK g : Folded(f, S, g) /\ Total(f, S) = g[S]
  BY TotalIsFold
<1>2. CASE S = {}
  BY <1>1, <1>2, FoldStep
<1>3. CASE S # {}
  <2> DEFINE T == S \ {Some(S)}
  <2>1. T \in SUBSET S /\ IsFiniteSet(T)
    BY FS_Subset
  <2> HIDE DEF T
  <2>2. PICK h : Folded(f, T, h) /\ Total(f, T) = h[T]
    BY <2>1, TotalIsFold
  <2>3. g[T] = h[T]
    BY <1>1, <2>1, <2>2, FoldUnique
  <2>4. Some(S) \in S /\ g[S] = f[Some(S)] + g[T]
    BY <1>1, <1>3, FoldStep DEF T
  <2> QED BY <1>1, <1>3, <2>2, <2>3, <2>4 DEF T
<1> QED BY <1>2, <1>3

(* Sums of naturals: whichever element comes last. *)
LEMMA TotalAdd ==
    ASSUME NEW f, NEW S, IsFiniteSet(S), \A x \in S : f[x] \in Nat
    PROVE  \A T \in SUBSET S :
               /\ Total(f, T) \in Nat
               /\ \A x \in S \ T : Total(f, T \cup {x}) = f[x] + Total(f, T)
<1> DEFINE Adds(T) == /\ Total(f, T) \in Nat
                      /\ \A x \in S \ T : Total(f, T \cup {x}) = f[x] + Total(f, T)
           P == {n \in Nat : \A T \in SUBSET S : Cardinality(T) <= n => Adds(T)}
<1>0. \A T \in SUBSET S : IsFiniteSet(T) /\ Cardinality(T) \in Nat
  BY FS_Subset, FS_CardinalityType
<1>1. 0 \in P
  <2>1. ASSUME NEW T \in SUBSET S, Cardinality(T) <= 0 PROVE Adds(T)
    <3>1. T = {}
      BY <1>0, <2>1, FS_EmptySet
    <3>2. Total(f, {}) = 0
      BY FS_EmptySet, TotalStep
    <3>3. ASSUME NEW x \in S PROVE Total(f, {x}) = f[x] + 0
      <4>1. IsFiniteSet({x}) /\ Some({x}) \in {x}
        BY FS_Singleton DEF Some
      <4>2. Some({x}) = x /\ {x} \ {x} = {} /\ {x} # {}
        BY <4>1
      <4> DEFINE U == {x}
      <4>4. IsFiniteSet(U) /\ U # {}
        BY <4>1, <4>2
      <4>5. Some(U) = x /\ U \ {x} = {}
        BY <4>2
      <4> HIDE DEF U
      <4>3. Total(f, U) = f[Some(U)] + Total(f, U \ {Some(U)})
        BY <4>4, TotalStep
      <4>6. U \ {Some(U)} = {}
        BY <4>5
      <4>7. Total(f, U) = f[x] + 0
        BY <3>2, <4>3, <4>5, <4>6
      <4> QED BY <4>7 DEF U
    <3>4. Total(f, T) = 0
      BY <3>1, <3>2
    <3>5. ASSUME NEW x \in S \ T PROVE Total(f, T \cup {x}) = f[x] + Total(f, T)
      <4>1. T \cup {x} = {x}
        BY <3>1
      <4> QED BY <3>3, <3>4, <4>1
    <3> QED BY <3>4, <3>5
  <2> HIDE DEF Adds
  <2> QED BY <2>1
<1>2. ASSUME NEW n \in P PROVE n + 1 \in P
  <2>0. n \in Nat /\ n + 1 \in Nat
    OBVIOUS
  <2>1. ASSUME NEW T \in SUBSET S, Cardinality(T) <= n + 1 PROVE Adds(T)
    <3>1. CASE T = {}
      <4>1. Cardinality(T) <= n
        BY <2>0, <3>1, FS_EmptySet
      <4> QED BY <4>1
    <3>2. CASE T # {}
      <4> DEFINE c == Some(T)
                 U == T \ {c}
      <4>1. c \in T /\ c \in S /\ c \notin U /\ T = U \cup {c} /\ U \in SUBSET S
        BY <3>2 DEF Some
      <4>2. Cardinality(U) = Cardinality(T) - 1
        BY <1>0, <4>1, FS_RemoveElement
      <4>3. Cardinality(U) <= n /\ Cardinality(U) \in Nat
        BY <1>0, <2>0, <2>1, <4>1, <4>2
      <4>4. Adds(U)
        BY <2>0, <4>1, <4>3
      <4>5. Total(f, T) = f[c] + Total(f, U)
        BY <1>0, <3>2, TotalStep
      <4> HIDE DEF c, U
      <4>6. Total(f, T) \in Nat /\ f[c] \in Nat /\ Total(f, U) \in Nat
        BY <4>1, <4>4, <4>5
      <4>7. ASSUME NEW x \in S \ T PROVE Total(f, T \cup {x}) = f[x] + Total(f, T)
        <5> DEFINE V == T \cup {x}
                   d == Some(V)
                   W == V \ {d}
        <5>1. V \in SUBSET S /\ V # {} /\ d \in V /\ IsFiniteSet(V)
          BY <1>0 DEF Some
        <5>2. Total(f, V) = f[d] + Total(f, W)
          BY <5>1, TotalStep
        <5>3. CASE d = x
          <6>1. W = T
            BY <5>3
          <6> QED BY <5>2, <5>3, <6>1
        <5>4. CASE d # x
          <6> DEFINE R == T \ {d}
          <6>1. d \in T /\ d \in S /\ d \notin R /\ x \in S \ R /\ T = R \cup {d} /\ W = R \cup {x}
                /\ R \in SUBSET S
            BY <5>1, <5>4
          <6>2. Cardinality(R) = Cardinality(T) - 1
            <7>1. IsFiniteSet(T)
              BY <1>0
            <7> HIDE DEF d
            <7> QED BY <6>1, <7>1, FS_RemoveElement
          <6>3. Cardinality(R) <= n
            BY <1>0, <2>0, <2>1, <6>1, <6>2
          <6>4. Adds(R)
            BY <2>0, <6>1, <6>3
          <6> HIDE DEF V, d, W, R
          <6>5. Total(f, W) = f[x] + Total(f, R) /\ Total(f, T) = f[d] + Total(f, R)
                /\ Total(f, R) \in Nat
            BY <6>1, <6>4
          <6>6. f[x] \in Nat /\ f[d] \in Nat
            BY <6>1
          <6>7. Total(f, V) = f[x] + Total(f, T)
            BY <5>2, <6>5, <6>6
          <6> QED BY <6>7 DEF V
        <5> QED BY <5>3, <5>4
      <4> QED BY <4>6, <4>7
    <3> QED BY <3>1, <3>2
  <2> HIDE DEF Adds
  <2> QED BY <2>0, <2>1
<1>3. P = Nat
  <2>1. P \in SUBSET Nat
    BY DEF P
  <2> HIDE DEF P
  <2> QED BY <1>1, <1>2, <2>1, NatInduct
<1>4. ASSUME NEW T \in SUBSET S PROVE Adds(T)
  <2>1. Cardinality(T) \in P /\ Cardinality(T) \in Nat
    <3> HIDE DEF P
    <3> QED BY <1>0, <1>3
  <2> HIDE DEF Adds
  <2> QED BY <2>1
<1> QED BY <1>4


(* Induction over the subsets of a finite set. *)
LEMMA FiniteInduct ==
    ASSUME NEW S, IsFiniteSet(S), NEW P \in SUBSET (SUBSET S), {} \in P,
           \A T \in P : \A x \in S \ T : T \cup {x} \in P
    PROVE  P = SUBSET S
<1> DEFINE Q == {n \in Nat : \A T \in SUBSET S : Cardinality(T) = n => T \in P}
<1>0. \A T \in SUBSET S : IsFiniteSet(T) /\ Cardinality(T) \in Nat
  BY FS_Subset, FS_CardinalityType
<1>1. 0 \in Q
  BY <1>0, FS_EmptySet
<1>2. ASSUME NEW n \in Q PROVE n + 1 \in Q
  <2>0. n \in Nat /\ n + 1 \in Nat /\ n + 1 # 0 /\ (n + 1) - 1 = n
    OBVIOUS
  <2>1. ASSUME NEW T \in SUBSET S, Cardinality(T) = n + 1 PROVE T \in P
    <3>1. T # {}
      <4> HIDE DEF Q
      <4> QED BY <2>0, <2>1, FS_EmptySet
    <3>2. PICK x \in T : TRUE
      BY <3>1
    <3>3. IsFiniteSet(T)
      BY <1>0
    <3>4. Cardinality(T \ {x}) = n
      <4> HIDE DEF Q
      <4> QED BY <2>0, <2>1, <3>2, <3>3, FS_RemoveElement
    <3>5. T \ {x} \in P
      BY <3>4
    <3>6. x \in S \ (T \ {x}) /\ (T \ {x}) \cup {x} = T
      BY <3>2
    <3> QED BY <3>5, <3>6
  <2> QED BY <2>0, <2>1
<1>3. Q = Nat
  <2>1. Q \in SUBSET Nat
    OBVIOUS
  <2> HIDE DEF Q
  <2> QED BY <1>1, <1>2, <2>1, NatInduct
<1> QED BY <1>0, <1>3

LEMMA TotalUnion ==
    ASSUME NEW f, NEW S, IsFiniteSet(S), \A x \in S : f[x] \in Nat,
           NEW T \in SUBSET S, NEW U \in SUBSET S, T \cap U = {}
    PROVE  Total(f, T \cup U) = Total(f, T) + Total(f, U)
<1> DEFINE P == {V \in SUBSET U : Total(f, T \cup V) = Total(f, T) + Total(f, V)}
<1>0. IsFiniteSet(U) /\ \A V \in SUBSET U : V \in SUBSET S /\ T \cup V \in SUBSET S
  BY FS_Subset
<1>1. {} \in P
  <2>1. Total(f, T) \in Nat /\ Total(f, {}) = 0
    BY TotalAdd, TotalStep, FS_EmptySet
  <2>2. T \cup {} = T /\ Total(f, T) + 0 = Total(f, T)
    BY <2>1
  <2> QED BY <2>1, <2>2
<1>2. ASSUME NEW V \in P, NEW x \in U \ V PROVE V \cup {x} \in P
  <2> DEFINE W == T \cup V
  <2>1. V \in SUBSET S /\ W \in SUBSET S /\ x \in S \ V /\ x \in S \ W
    BY <1>0
  <2>2. Total(f, V \cup {x}) = f[x] + Total(f, V) /\ Total(f, W \cup {x}) = f[x] + Total(f, W)
        /\ Total(f, V) \in Nat
    <3> HIDE DEF W, P
    <3> QED BY <2>1, TotalAdd
  <2>3. W \cup {x} = T \cup (V \cup {x}) /\ Total(f, W) = Total(f, T) + Total(f, V)
    OBVIOUS
  <2>4. Total(f, T) \in Nat /\ f[x] \in Nat
    BY <2>1, TotalAdd
  <2> HIDE DEF W
  <2>5. Total(f, T \cup (V \cup {x})) = Total(f, T) + Total(f, V \cup {x})
    <3> DEFINE a == Total(f, T)
               b == Total(f, V)
               n == f[x]
    <3>1. a \in Nat /\ b \in Nat /\ n \in Nat
      BY <2>2, <2>4
    <3>2. Total(f, T \cup (V \cup {x})) = n + (a + b) /\ Total(f, V \cup {x}) = n + b
      BY <2>2, <2>3
    <3> HIDE DEF a, b, n
    <3>3. n + (a + b) = a + (n + b)
      BY <3>1
    <3> QED BY <3>2, <3>3 DEF a
  <2> QED BY <2>5
<1>3. P = SUBSET U
  <2>1. P \in SUBSET (SUBSET U)
    OBVIOUS
  <2> HIDE DEF P
  <2> QED BY <1>0, <1>1, <1>2, <2>1, FiniteInduct
<1> QED BY <1>3

LEMMA TotalSubset ==
    ASSUME NEW f, NEW S, IsFiniteSet(S), \A x \in S : f[x] \in Nat,
           NEW U \in SUBSET S, NEW T \in SUBSET U
    PROVE  Total(f, T) <= Total(f, U) /\ Total(f, U \ T) = Total(f, U) - Total(f, T)
<1> DEFINE V == U \ T
<1>1. T \cup V = U /\ T \cap V = {} /\ T \in SUBSET S /\ V \in SUBSET S
  OBVIOUS
<1> HIDE DEF V
<1>2. Total(f, U) = Total(f, T) + Total(f, V)
  BY <1>1, TotalUnion
<1>3. Total(f, T) \in Nat /\ Total(f, V) \in Nat
  BY <1>1, TotalAdd
<1> QED BY <1>2, <1>3 DEF V

(* The sum over the images is no larger. *)
LEMMA TotalImage ==
    ASSUME NEW f, NEW S, IsFiniteSet(S), \A x \in S : f[x] \in Nat,
           NEW r, \A x \in S : r[x] \in S /\ f[r[x]] = f[x],
           NEW T \in SUBSET S
    PROVE  Total(f, {r[x] : x \in T}) <= Total(f, T)
<1> DEFINE Image(V) == {r[x] : x \in V}
           P == {V \in SUBSET S : Total(f, Image(V)) <= Total(f, V)}
<1>0. \A V \in SUBSET S : Image(V) \in SUBSET S /\ Total(f, V) \in Nat /\ Total(f, Image(V)) \in Nat
  <2>1. \A V \in SUBSET S : Image(V) \in SUBSET S
    OBVIOUS
  <2> HIDE DEF Image
  <2> QED BY <2>1, TotalAdd
<1>1. {} \in P
  <2>1. Image({}) = {} /\ Total(f, {}) = 0
    BY TotalStep, FS_EmptySet
  <2> QED BY <2>1
<1>2. ASSUME NEW V \in P, NEW x \in S \ V PROVE V \cup {x} \in P
  <2>1. Image(V \cup {x}) = Image(V) \cup {r[x]} /\ V \in SUBSET S /\ r[x] \in S /\ f[r[x]] = f[x]
        /\ V \cup {x} \in SUBSET S
    OBVIOUS
  <2>2. Total(f, Image(V)) <= Total(f, V)
    OBVIOUS
  <2>3. Total(f, V \cup {x}) = f[x] + Total(f, V) /\ f[x] \in Nat
    BY <2>1, TotalAdd
  <2> HIDE DEF Image
  <2>4. CASE r[x] \in Image(V)
    <3>1. Image(V \cup {x}) = Image(V)
      BY <2>1, <2>4
    <3>2. Total(f, Image(V)) <= Total(f, V \cup {x})
      BY <1>0, <2>1, <2>2, <2>3
    <3> QED BY <2>1, <3>1, <3>2
  <2>5. CASE r[x] \notin Image(V)
    <3>1. Total(f, Image(V) \cup {r[x]}) = f[r[x]] + Total(f, Image(V))
      BY <1>0, <2>1, <2>5, TotalAdd
    <3>2. Total(f, Image(V) \cup {r[x]}) <= Total(f, V \cup {x})
      <4> DEFINE p == Total(f, Image(V))
                 q == Total(f, V)
                 n == f[x]
      <4>1. p \in Nat /\ q \in Nat /\ n \in Nat /\ p <= q
        BY <1>0, <2>1, <2>2, <2>3
      <4>2. Total(f, Image(V) \cup {r[x]}) = n + p /\ Total(f, V \cup {x}) = n + q
        BY <2>1, <2>3, <3>1
      <4> HIDE DEF p, q, n
      <4> QED BY <4>1, <4>2
    <3> QED BY <2>1, <3>2
  <2> QED BY <2>4, <2>5
<1>3. P = SUBSET S
  <2>1. P \in SUBSET (SUBSET S)
    OBVIOUS
  <2> HIDE DEF P
  <2> QED BY <1>1, <1>2, <2>1, FiniteInduct
<1> QED BY <1>3

(* Ranges of these lengths hold no more numbers than the lengths add up to. *)
LEMMA RangesCounted ==
    ASSUME NEW f, NEW S, IsFiniteSet(S), \A x \in S : f[x] \in Nat /\ f[x] > 0,
           NEW lo, \A x \in S : lo[x] \in Nat
    PROVE  LET all == UNION {lo[x]..(lo[x] + f[x] - 1) : x \in S}
           IN  IsFiniteSet(all) /\ Cardinality(all) <= Total(f, S)
<1> DEFINE All(V) == UNION {lo[x]..(lo[x] + f[x] - 1) : x \in V}
           P == {V \in SUBSET S : IsFiniteSet(All(V)) /\ Cardinality(All(V)) <= Total(f, V)}
<1>1. {} \in P
  <2>1. All({}) = {} /\ Total(f, {}) = 0
    BY TotalStep, FS_EmptySet
  <2> QED BY <2>1, FS_EmptySet
<1>2. ASSUME NEW V \in P, NEW x \in S \ V PROVE V \cup {x} \in P
  <2> DEFINE new == lo[x]..(lo[x] + f[x] - 1)
  <2>1. All(V \cup {x}) = All(V) \cup new /\ V \in SUBSET S /\ V \cup {x} \in SUBSET S
        /\ IsFiniteSet(All(V)) /\ Cardinality(All(V)) <= Total(f, V)
    OBVIOUS
  <2>2. lo[x] \in Int /\ lo[x] + f[x] - 1 \in Int /\ f[x] \in Nat
        /\ lo[x] <= lo[x] + f[x] - 1 /\ (lo[x] + f[x] - 1) - lo[x] + 1 = f[x]
    OBVIOUS
  <2>3. IsFiniteSet(new) /\ Cardinality(new) = f[x]
    <3> DEFINE a == lo[x]
               b == lo[x] + f[x] - 1
    <3>1. a \in Int /\ b \in Int /\ a <= b /\ b - a + 1 = f[x]
      BY <2>2
    <3> HIDE DEF a, b
    <3>2. IsFiniteSet(a..b) /\ Cardinality(a..b) = IF a > b THEN 0 ELSE b - a + 1
      BY <3>1, FS_Interval
    <3>3. Cardinality(a..b) = f[x]
      BY <3>1, <3>2
    <3> QED BY <3>2, <3>3 DEF a, b
  <2>4. Total(f, V \cup {x}) = f[x] + Total(f, V) /\ Total(f, V) \in Nat
    BY <2>1, TotalAdd
  <2> HIDE DEF All, new
  <2>5. /\ IsFiniteSet(All(V) \cup new)
        /\ Cardinality(All(V) \cup new)
               = Cardinality(All(V)) + Cardinality(new) - Cardinality(All(V) \cap new)
    BY <2>1, <2>3, FS_Union
  <2>6. Cardinality(All(V) \cap new) \in Nat /\ Cardinality(All(V)) \in Nat
    BY <2>1, FS_Intersection, FS_CardinalityType
  <2>7. Cardinality(All(V) \cup new) <= Total(f, V \cup {x})
    BY <2>1, <2>2, <2>3, <2>4, <2>5, <2>6
  <2> QED BY <2>1, <2>5, <2>7
<1>3. P = SUBSET S
  <2>1. P \in SUBSET (SUBSET S)
    OBVIOUS
  <2> HIDE DEF P
  <2> QED BY <1>1, <1>2, <2>1, FiniteInduct
<1>4. S \in P
  <2> HIDE DEF P
  <2> QED BY <1>3
<1> QED BY <1>4
=============================================================================
