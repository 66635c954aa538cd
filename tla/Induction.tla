------------------------------ MODULE Induction ------------------------------
(***************************************************************************)
(* Induction over the natural numbers for the proofs of this project.  The *)
(* property to be shown is given as the set of the numbers that have it.   *)
(***************************************************************************)
EXTENDS Integers, WellFoundedInduction, TLAPS

Below == {p \in Nat \X Nat : p[1] < p[2]}

\* A set of natural numbers that has an element has a least one.
LEMMA HasLeast ==
  ASSUME NEW S \in SUBSET Nat, NEW x \in S
  PROVE  \E m \in S : \A y \in S : m <= y
<1>1. IsWellFoundedOn(Below, Nat)
  BY NatLessThanWellFounded DEF Below, OpToRel
<1>2. PICK m \in S : \A y \in S : <<y, m>> \notin Below
  BY <1>1, WFMin
<1>3. ASSUME NEW y \in S PROVE m <= y
  <2>1. <<y, m>>[1] = y /\ <<y, m>>[2] = m /\ <<y, m>> \in Nat \X Nat
    OBVIOUS
  <2>2. ~ (y < m)
    BY <1>2, <2>1 DEF Below
  <2> QED
    BY <2>2
<1> QED
  BY <1>3

\* Induction from 0 up to a bound, which holds for all numbers up to it.
LEMMA UpTo ==
  ASSUME NEW n \in Nat, NEW T, 0 \in T,
         \A k \in 0 .. n - 1 : k \in T => k + 1 \in T
  PROVE  0 .. n \subseteq T
<1> SUFFICES ASSUME NEW x \in (0 .. n) \ T PROVE FALSE
  OBVIOUS
<1>1. PICK m \in (0 .. n) \ T : \A y \in (0 .. n) \ T : m <= y
  <2>1. (0 .. n) \ T \in SUBSET Nat
    OBVIOUS
  <2> QED
    BY <2>1, HasLeast
<1>2. m # 0 /\ m - 1 \in 0 .. n - 1 /\ (m - 1) + 1 = m
  BY <1>1
<1>3. m - 1 \in T
  BY <1>1, <1>2
<1> QED
  BY <1>1, <1>2, <1>3

\* Induction over all natural numbers.
LEMMA Everywhere ==
  ASSUME NEW T, 0 \in T, \A k \in Nat : k \in T => k + 1 \in T
  PROVE  Nat \subseteq T
<1> SUFFICES ASSUME NEW n \in Nat PROVE n \in T
  OBVIOUS
<1>1. 0 .. n \subseteq T
  BY UpTo
<1> QED
  BY <1>1

\* Induction from a bound downwards.
LEMMA Downwards ==
  ASSUME NEW N \in Nat, NEW T,
         \A i \in 1 .. N : (\A j \in 1 .. N : j > i => j \in T) => i \in T
  PROVE  1 .. N \subseteq T
<1> DEFINE D == {d \in 0 .. N : \A j \in 1 .. N : j > N - d => j \in T}
<1>1. 0 \in D
  OBVIOUS
<1>2. ASSUME NEW d \in 0 .. N - 1, d \in D PROVE d + 1 \in D
  <2>1. PICK m \in 1 .. N : m = N - d
    OBVIOUS
  <2>2. m \in T
    BY <1>2, <2>1
  <2>3. \A j \in 1 .. N : j > N - (d + 1) => j = m \/ j > N - d
    BY <2>1
  <2>4. d + 1 \in 0 .. N
    OBVIOUS
  <2> QED
    BY <1>2, <2>2, <2>3, <2>4
<1> HIDE DEF D
<1>3. 0 .. N \subseteq D
  BY <1>1, <1>2, UpTo
<1>4. N \in D
  BY <1>3
<1>5. \A j \in 1 .. N : j > N - N
  OBVIOUS
<1> QED
  BY <1>4, <1>5 DEF D

\* Every number in 1 .. N has a later one, those of stop excepted.
Later(N, stop, next) == \A i \in 1 .. N : i \notin stop => next[i] > i

\* The value of f at each number in 1 .. N is given, or made from its value at
\* another one.
Recurs(f, N, stop, base, next, step) ==
  \A i \in 1 .. N : f[i] = IF i \in stop THEN base[i] ELSE step[<<i, f[next[i]]>>]

\* A function whose value is made from that at a later number exists.
LEMMA BackwardRecursion ==
  ASSUME NEW N \in Nat, NEW V, NEW stop, NEW base \in [1 .. N -> V],
         NEW next \in [1 .. N -> 1 .. N],
         Later(N, stop, next),
         NEW step \in [(1 .. N) \X V -> V]
  PROVE  \E f \in [1 .. N -> V] : Recurs(f, N, stop, base, next, step)
<1> DEFINE Right(f, i) == f[i] = IF i \in stop THEN base[i] ELSE step[<<i, f[next[i]]>>]
           T == {d \in 0 .. N : \E f \in [1 .. N -> V] :
                                  \A i \in 1 .. N : i > N - d => Right(f, i)}
<1>1. 0 \in T
  <2>1. \A i \in 1 .. N : ~ (i > N - 0)
    OBVIOUS
  <2> QED
    BY <2>1
<1>2. ASSUME NEW d \in 0 .. N - 1, d \in T PROVE d + 1 \in T
  <2>1. PICK f \in [1 .. N -> V] : \A i \in 1 .. N : i > N - d => Right(f, i)
    BY <1>2
  <2>2. PICK m \in 1 .. N : m = N - d
    OBVIOUS
  <2>3. <<m, f[next[m]]>> \in (1 .. N) \X V
    OBVIOUS
  <2>4. PICK v \in V : v = IF m \in stop THEN base[m] ELSE step[<<m, f[next[m]]>>]
    BY <2>3
  <2> DEFINE g == [f EXCEPT ![m] = v]
  <2>5. g \in [1 .. N -> V] /\ g[m] = v /\ \A i \in 1 .. N : i # m => g[i] = f[i]
    OBVIOUS
  <2> HIDE DEF g
  <2>6. ASSUME NEW i \in 1 .. N, i > N - (d + 1) PROVE Right(g, i)
    <3>1. i \notin stop => next[i] > m /\ g[next[i]] = f[next[i]]
      BY <2>2, <2>5, <2>6 DEF Later
    <3>2. CASE i = m
      BY <2>4, <2>5, <3>1, <3>2
    <3>3. CASE i # m
      <4>0. i > N - d
        BY <2>2, <2>6, <3>3
      <4>1. Right(f, i) /\ g[i] = f[i]
        BY <2>1, <2>5, <3>3, <4>0
      <4> QED
        BY <3>1, <4>1
    <3> QED
      BY <3>2, <3>3
  <2>7. d + 1 \in 0 .. N
    OBVIOUS
  <2> QED
    BY <2>5, <2>6, <2>7
<1> HIDE DEF T
<1>3. 0 .. N \subseteq T
  BY <1>1, <1>2, UpTo
<1>4. N \in T
  BY <1>3
<1>5. PICK f \in [1 .. N -> V] : \A i \in 1 .. N : i > N - N => Right(f, i)
  BY <1>4 DEF T
<1>6. \A i \in 1 .. N : i > N - N
  OBVIOUS
<1> QED
  BY <1>5, <1>6 DEF Recurs
==============================================================================
