------------------------------ MODULE FoldLemmas ----------------------------
(***************************************************************************)
(* Facts about loops over data, for every length of the data: sums over    *)
(* sets and the selections of module Selection. They rest on induction,    *)
(* and that on the least number of a set: the induction theorems of the    *)
(* library take an operator, this one a set, and a step is a function, so  *)
(* that each can be named where it is used.                                *)
(***************************************************************************)
EXTENDS Selection, FiniteSetTheorems, WellFoundedInduction, TLAPS

(* Induction, and functions defined by it.                                 *)

\* The order of the numbers.
Less == {p \in Nat \X Nat : p[1] < p[2]}

\* The order of the natural numbers is well-founded, as a set of pairs.
LEMMA LessWellFounded == IsWellFoundedOn(Less, Nat)
  BY Zenon, NatLessThanWellFounded DEF OpToRel, Less

\* Every nonempty set of numbers has a least element.
LEMMA LeastNumber ==
  ASSUME NEW S \in SUBSET Nat, S # {}
  PROVE  \E n \in S : \A m \in S : n <= m
<1>1. \E n \in S : \A m \in S : ~ (<<m, n>> \in Less)
  BY LessWellFounded, WFMin, Zenon
<1>2. PICK n \in S : \A m \in S : ~ (<<m, n>> \in Less)
  BY <1>1
<1>3. \A m \in S : n <= m
  <2> TAKE m \in S
  <2>1. <<m, n>> \notin Less
    BY <1>2
  <2>2. m \in Nat /\ n \in Nat /\ ~ (m < n)
    BY <2>1 DEF Less
  <2> QED
    BY <2>2
<1> QED
  BY <1>3

\* Induction: a set that has 0, and n + 1 with n, has every number.
LEMMA Induction ==
  ASSUME NEW S, 0 \in S, \A n \in Nat : n \in S => n + 1 \in S
  PROVE  \A n \in Nat : n \in S
<1> SUFFICES ASSUME NEW k \in Nat, k \notin S
             PROVE  FALSE
  OBVIOUS
<1> DEFINE T == {n \in Nat : n \notin S}
<1>1. PICK n \in T : \A m \in T : n <= m
  <2>1. T \in SUBSET Nat /\ T # {}
    OBVIOUS
  <2> HIDE DEF T
  <2> QED
    BY <2>1, LeastNumber
<1>2. n \in Nat /\ n # 0 /\ n \notin S
  BY <1>1
<1>3. n - 1 \in Nat /\ n - 1 \notin T
  BY <1>1, <1>2
<1>4. (n - 1) + 1 = n
  BY <1>2
<1> QED
  BY <1>2, <1>3, <1>4

\* The runs of n steps from a.
Runs(A, a, step, n) ==
  {p \in [0..n -> A] : p[0] = a /\ \A i \in 0..n - 1 : p[i + 1] = step[<<p[i], i>>]}

\* A step can be repeated any number of times ...
LEMMA RunsExist ==
  ASSUME NEW A, NEW a \in A, NEW step \in [A \X Nat -> A], NEW k \in Nat
  PROVE  Runs(A, a, step, k) # {}
<1> DEFINE S == {n \in Nat : Runs(A, a, step, n) # {}}
<1>1. 0 \in S
  <2>1. [i \in 0..0 |-> a] \in Runs(A, a, step, 0)
    BY DEF Runs
  <2> QED
    BY <2>1
<1>2. ASSUME NEW n \in Nat, n \in S
      PROVE  n + 1 \in S
  <2>1. PICK p : p \in Runs(A, a, step, n)
    BY <1>2
  <2>2. p \in [0..n -> A] /\ p[0] = a /\ \A i \in 0..n - 1 : p[i + 1] = step[<<p[i], i>>]
    BY <2>1 DEF Runs
  <2>3. p[n] \in A /\ step[<<p[n], n>>] \in A
    BY <2>2
  <2> DEFINE q == [i \in 0..n + 1 |-> IF i = n + 1 THEN step[<<p[n], n>>] ELSE p[i]]
  <2>4. q \in [0..n + 1 -> A] /\ q[0] = a
    BY <2>2, <2>3
  <2>5. \A i \in 0..n : q[i] = p[i]
    OBVIOUS
  <2>6. q[n + 1] = step[<<p[n], n>>]
    OBVIOUS
  <2> HIDE DEF q
  <2>7. ASSUME NEW i \in 0..(n + 1) - 1
        PROVE  q[i + 1] = step[<<q[i], i>>]
    <3>1. CASE i = n
      BY <3>1, <2>5, <2>6
    <3>2. CASE i # n
      <4>1. i \in 0..n - 1 /\ i \in 0..n /\ i + 1 \in 0..n
        BY <3>2
      <4> QED
        BY <4>1, <2>2, <2>5
    <3> QED
      BY <3>1, <3>2
  <2>8. q \in Runs(A, a, step, n + 1)
    BY <2>4, <2>7 DEF Runs
  <2> QED
    BY <2>8
<1> HIDE DEF S
<1>3. k \in S
  BY <1>1, <1>2, Induction
<1> QED
  BY <1>3 DEF S

\* ... and a longer run begins like a shorter one.
LEMMA RunsAgree ==
  ASSUME NEW A, NEW a \in A, NEW step \in [A \X Nat -> A], NEW n \in Nat, NEW k \in 0..n,
         NEW p \in Runs(A, a, step, n), NEW q \in Runs(A, a, step, n + 1)
  PROVE  p[k] = q[k]
<1> DEFINE S == {m \in Nat : m <= n => p[m] = q[m]}
<1>1. 0 \in S
  BY DEF Runs
<1>2. ASSUME NEW m \in Nat, m \in S
      PROVE  m + 1 \in S
  <2> SUFFICES ASSUME m + 1 <= n
               PROVE  p[m + 1] = q[m + 1]
    OBVIOUS
  <2>1. m \in 0..n - 1 /\ m \in 0..(n + 1) - 1
    OBVIOUS
  <2>2. p[m + 1] = step[<<p[m], m>>] /\ q[m + 1] = step[<<q[m], m>>]
    BY <2>1 DEF Runs
  <2>3. p[m] = q[m]
    BY <1>2, <2>1
  <2> QED
    BY <2>2, <2>3
<1> HIDE DEF S
<1>3. k \in S
  BY <1>1, <1>2, Induction
<1> QED
  BY <1>3 DEF S

\* f has the value after every number of steps.
Iterates(f, A, a, step) ==
  /\ f \in [Nat -> A]
  /\ f[0] = a
  /\ \A n \in Nat : f[n + 1] = step[<<f[n], n>>]

\* There is the function that a start value and a step define.
LEMMA Recursion ==
  ASSUME NEW A, NEW a \in A, NEW step \in [A \X Nat -> A]
  PROVE  \E f : Iterates(f, A, a, step)
<1> DEFINE ch == [n \in Nat |-> CHOOSE p : p \in Runs(A, a, step, n)]
           f == [n \in Nat |-> ch[n][n]]
<1>1. \A n \in Nat : ch[n] \in Runs(A, a, step, n)
  BY RunsExist
<1> HIDE DEF ch
<1>2. f \in [Nat -> A]
  <2> SUFFICES ASSUME NEW n \in Nat
               PROVE  ch[n][n] \in A
    OBVIOUS
  <2> QED
    BY <1>1 DEF Runs
<1>3. f[0] = a
  BY <1>1 DEF Runs
<1>4. ASSUME NEW n \in Nat
      PROVE  f[n + 1] = step[<<f[n], n>>]
  <2>1. ch[n] \in Runs(A, a, step, n) /\ ch[n + 1] \in Runs(A, a, step, n + 1)
    BY <1>1
  <2>2. ch[n][n] = ch[n + 1][n]
    BY <2>1, RunsAgree
  <2>3. n \in 0..(n + 1) - 1
    OBVIOUS
  <2>4. ch[n + 1][n + 1] = step[<<ch[n + 1][n], n>>]
    BY <2>1, <2>3 DEF Runs
  <2> QED
    BY <2>2, <2>4
<1> HIDE DEF f
<1> QED
  BY <1>2, <1>3, <1>4 DEF Iterates

\* g is defined from the set without the element that ch takes out.
TakesOut(g, S, A, base, step, ch) ==
  /\ g \in [SUBSET S -> A]
  /\ \A T \in SUBSET S :
        g[T] = IF T = {} THEN base ELSE step[<<g[T \ {ch[T]}], ch[T]>>]

\* There is the function on the subsets of a finite set that takes out one
\* element after the other.
LEMMA SetRecursion ==
  ASSUME NEW S, IsFiniteSet(S), NEW A, NEW base \in A, NEW step \in [A \X S -> A],
         NEW ch, \A T \in SUBSET S : T # {} => ch[T] \in T
  PROVE  \E g : TakesOut(g, S, A, base, step, ch)
<1> DEFINE B == [SUBSET S -> A]
           b == [T \in SUBSET S |-> base]
           Up(h) == [T \in SUBSET S |-> IF T = {} THEN base ELSE step[<<h[T \ {ch[T]}], ch[T]>>]]
           st == [p \in B \X Nat |-> Up(p[1])]
<1>1. b \in B
  OBVIOUS
<1>2. ASSUME NEW h \in B
      PROVE  Up(h) \in B
  <2> SUFFICES ASSUME NEW T \in SUBSET S, T # {}
               PROVE  step[<<h[T \ {ch[T]}], ch[T]>>] \in A
    OBVIOUS
  <2>1. ch[T] \in S /\ T \ {ch[T]} \in SUBSET S
    OBVIOUS
  <2>2. h[T \ {ch[T]}] \in A
    BY <2>1
  <2> QED
    BY <2>1, <2>2
<1>3. st \in [B \X Nat -> B]
  <2> HIDE DEF B, Up
  <2> QED
    BY <1>2
<1>4. \A h \in B, n \in Nat : st[<<h, n>>] = Up(h)
  <2> HIDE DEF B, Up
  <2> QED
    OBVIOUS
<1>5. PICK H \in [Nat -> B] : H[0] = b /\ \A n \in Nat : H[n + 1] = st[<<H[n], n>>]
  <2> HIDE DEF B, b, st, Up
  <2>1. PICK H : Iterates(H, B, b, st)
    BY <1>1, <1>3, Recursion
  <2> QED
    BY <2>1 DEF Iterates
<1>6. \A n \in Nat : H[n + 1] = Up(H[n])
  <2> HIDE DEF B, Up, st
  <2> QED
    BY <1>4, <1>5
<1> DEFINE g == [T \in SUBSET S |-> H[Cardinality(T)][T]]
<1>7. \A T \in SUBSET S : IsFiniteSet(T) /\ Cardinality(T) \in Nat
  BY FS_Subset, FS_CardinalityType
<1>8. g \in [SUBSET S -> A]
  <2> SUFFICES ASSUME NEW T \in SUBSET S
               PROVE  H[Cardinality(T)][T] \in A
    OBVIOUS
  <2>1. H[Cardinality(T)] \in B
    BY <1>5, <1>7
  <2> QED
    BY <2>1
<1>9. ASSUME NEW T \in SUBSET S
      PROVE  g[T] = IF T = {} THEN base ELSE step[<<g[T \ {ch[T]}], ch[T]>>]
  <2>1. CASE T = {}
    <3>1. Cardinality(T) = 0
      BY <2>1, FS_EmptySet
    <3>2. b[T] = base
      OBVIOUS
    <3> QED
      BY <2>1, <3>1, <3>2, <1>5
  <2>2. CASE T # {}
    <3> DEFINE R == T \ {ch[T]}
    <3>1. ch[T] \in T /\ R \in SUBSET S
      BY <2>2
    <3>2. Cardinality(T) = Cardinality(R) + 1
      <4>1. Cardinality(R) = Cardinality(T) - 1
        BY <3>1, <1>7, FS_RemoveElement
      <4> QED
        BY <4>1, <1>7
    <3>3. H[Cardinality(T)] = Up(H[Cardinality(R)])
      BY <3>1, <3>2, <1>6, <1>7
    <3>4. H[Cardinality(T)][T] = step[<<H[Cardinality(R)][R], ch[T]>>]
      BY <3>3, <2>2
    <3>5. g[R] = H[Cardinality(R)][R]
      BY <3>1
    <3> QED
      BY <2>2, <3>4, <3>5
  <2> QED
    BY <2>1, <2>2
<1> HIDE DEF g
<1> QED
  BY <1>8, <1>9 DEF TakesOut

\* Induction on a finite set: a property of {} that any other subset has if it
\* has it without some element.
LEMMA SetInduction ==
  ASSUME NEW S, IsFiniteSet(S), NEW U, {} \in U,
         \A T \in SUBSET S : T # {} => \E x \in T : T \ {x} \in U => T \in U
  PROVE  \A T \in SUBSET S : T \in U
<1> DEFINE N == {n \in Nat : \A T \in SUBSET S : Cardinality(T) = n => T \in U}
<1>1. \A T \in SUBSET S : IsFiniteSet(T) /\ Cardinality(T) \in Nat
  BY FS_Subset, FS_CardinalityType
<1>2. 0 \in N
  BY <1>1, FS_EmptySet
<1>3. ASSUME NEW n \in Nat, n \in N
      PROVE  n + 1 \in N
  <2> SUFFICES ASSUME NEW T \in SUBSET S, Cardinality(T) = n + 1
               PROVE  T \in U
    OBVIOUS
  <2>1. T # {}
    <3> SUFFICES ASSUME T = {}
                 PROVE  FALSE
      OBVIOUS
    <3>1. Cardinality({}) = 0
      BY FS_EmptySet
    <3> QED
      BY <3>1
  <2>2. PICK x \in T : T \ {x} \in U => T \in U
    BY <2>1
  <2>3. Cardinality(T \ {x}) = Cardinality(T) - 1
    BY <1>1, FS_RemoveElement
  <2>4. Cardinality(T \ {x}) = n
    BY <2>3
  <2>5. T \ {x} \in U
    BY <2>4, <1>3
  <2> QED
    BY <2>2, <2>5
<1>4. \A n \in Nat : n \in N
  <2> HIDE DEF N
  <2> QED
    BY <1>2, <1>3, Induction
<1> QED
  BY <1>1, <1>4

\* Every nonempty finite set of numbers has a greatest element.
LEMMA GreatestNumber ==
  ASSUME NEW S \in SUBSET Nat, IsFiniteSet(S), S # {}
  PROVE  \E n \in S : \A m \in S : n >= m
<1> DEFINE U == {T \in SUBSET S : T # {} => \E n \in T : \A m \in T : n >= m}
<1>1. {} \in U
  OBVIOUS
<1>2. ASSUME NEW T \in SUBSET S, T # {}
      PROVE  \E x \in T : T \ {x} \in U => T \in U
  <2>1. PICK x : x \in T
    BY <1>2
  <2>2. ASSUME T \ {x} \in U
        PROVE  \E n \in T : \A m \in T : n >= m
    <3>1. CASE T \ {x} = {}
      <4>1. T = {x} /\ x \in Nat
        BY <3>1, <2>1
      <4> QED
        BY <4>1
    <3>2. CASE T \ {x} # {}
      <4>1. PICK n \in T \ {x} : \A m \in T \ {x} : n >= m
        BY <2>2, <3>2
      <4>2. x \in Nat /\ n \in Nat /\ \A m \in T \ {x} : m \in Nat
        BY <2>1
      <4>3. CASE n >= x
        BY <4>1, <4>3
      <4>4. CASE x > n
        <5>1. \A m \in T \ {x} : x >= m
          BY <4>1, <4>2, <4>4
        <5>2. x >= x
          BY <4>2
        <5> QED
          BY <5>1, <5>2, <2>1
      <4> QED
        BY <4>2, <4>3, <4>4
    <3> QED
      BY <3>1, <3>2
  <2> QED
    BY <2>1, <2>2
<1>3. S \in U
  <2> HIDE DEF U
  <2>1. \A T \in SUBSET S : T \in U
    BY <1>1, <1>2, SetInduction
  <2>2. S \in SUBSET S
    OBVIOUS
  <2> QED
    BY <2>1, <2>2
<1> QED
  BY <1>3

\* A multiple leaves no remainder.
LEMMA MultipleLeavesNothing ==
  ASSUME NEW z \in Int, NEW w \in Nat \ {0}
  PROVE  (z * w) % w = 0
OBVIOUS

-----------------------------------------------------------------------------
(* Sums: SumFunctionOnSet of the community modules.                        *)

\* g has the sum of f over every subset of S.
Sums(g, f, S) ==
  /\ g \in [SUBSET S -> Int]
  /\ \A T \in SUBSET S :
       g[T] = IF T = {} THEN 0 ELSE LET x == CHOOSE x \in T : TRUE IN f[x] + g[T \ {x}]

\* SumFunctionOnSet is a sum: it takes out one element after the other.
LEMMA SumsExist ==
  ASSUME NEW S, IsFiniteSet(S), NEW f, \A x \in S : f[x] \in Int
  PROVE  \E g : Sums(g, f, S) /\ SumFunctionOnSet(f, S) = g[S]
<1> DEFINE Eq(g) == g = [T \in SUBSET S |->
               IF T = {} THEN 0 ELSE LET x == CHOOSE x \in T : TRUE IN f[x] + g[T \ {x}]]
           G == CHOOSE g : Eq(g)
           ch == [T \in SUBSET S |-> CHOOSE x \in T : TRUE]
           step == [p \in Int \X S |-> f[p[2]] + p[1]]
<1>1. SumFunctionOnSet(f, S) = G[S]
  BY DEF SumFunctionOnSet, FoldFunctionOnSet, MapThenFoldSet
<1>2. \A T \in SUBSET S : T # {} => ch[T] \in T
  OBVIOUS
<1>3. step \in [Int \X S -> Int]
  OBVIOUS
<1>4. \A i \in Int, x \in S : step[<<i, x>>] = f[x] + i
  OBVIOUS
<1>5. \A T \in SUBSET S : ch[T] = CHOOSE x \in T : TRUE
  OBVIOUS
<1> HIDE DEF ch, step
<1>6. PICK g \in [SUBSET S -> Int] :
         \A T \in SUBSET S :
            g[T] = IF T = {} THEN 0 ELSE step[<<g[T \ {ch[T]}], ch[T]>>]
  <2>1. PICK g : TakesOut(g, S, Int, 0, step, ch)
    <3>1. 0 \in Int
      OBVIOUS
    <3> QED
      BY <1>2, <1>3, <3>1, SetRecursion
  <2> QED
    BY <2>1 DEF TakesOut
<1>7. ASSUME NEW T \in SUBSET S, T # {}
      PROVE  g[T] = f[ch[T]] + g[T \ {ch[T]}]
  <2>1. ch[T] \in S /\ T \ {ch[T]} \in SUBSET S
    BY <1>2, <1>7
  <2>2. g[T \ {ch[T]}] \in Int
    BY <2>1, <1>6
  <2> QED
    BY <2>1, <2>2, <1>6, <1>7, <1>4
<1>8. \A T \in SUBSET S :
         g[T] = IF T = {} THEN 0 ELSE LET x == CHOOSE x \in T : TRUE IN f[x] + g[T \ {x}]
  BY <1>5, <1>6, <1>7
<1>9. Eq(g)
  BY <1>6, <1>8
<1>10. Eq(G)
  <2> HIDE DEF Eq
  <2> QED
    BY <1>9
<1> HIDE DEF Eq, G
<1>11. DOMAIN G = SUBSET S
  BY <1>10 DEF Eq
<1>12. \A T \in SUBSET S :
         G[T] = IF T = {} THEN 0 ELSE LET x == CHOOSE x \in T : TRUE IN f[x] + G[T \ {x}]
  BY <1>10 DEF Eq
<1>13. \A T \in SUBSET S : G[T] \in Int
  <2> DEFINE U == {T \in SUBSET S : G[T] \in Int}
  <2>1. {} \in U
    <3>1. G[{}] = 0
      BY <1>12, Zenon
    <3> QED
      BY <3>1
  <2>2. ASSUME NEW T \in SUBSET S, T # {}
        PROVE  \E x \in T : T \ {x} \in U => T \in U
    <3>1. (CHOOSE x \in T : TRUE) \in T
      BY <2>2
    <3>2. PICK x \in T : x = CHOOSE y \in T : TRUE
      BY <3>1
    <3>3. G[T] = f[x] + G[T \ {x}]
      BY <1>12, <2>2, <3>2
    <3>4. f[x] \in Int
      OBVIOUS
    <3>5. T \ {x} \in U => T \in U
      BY <3>3, <3>4
    <3> QED
      BY <3>5
  <2>3. \A T \in SUBSET S : T \in U
    <3> HIDE DEF U
    <3> QED
      BY <2>1, <2>2, SetInduction
  <2> QED
    BY <2>3
<1>14. G \in [SUBSET S -> Int]
  BY <1>10, <1>11, <1>13 DEF Eq
<1>15. Sums(G, f, S)
  BY <1>12, <1>14 DEF Sums
<1> QED
  BY <1>1, <1>15

\* The sums over a subset do not depend on the set they are part of.
LEMMA SumsAgree ==
  ASSUME NEW f, NEW S, IsFiniteSet(S), NEW T \in SUBSET S,
         NEW g, Sums(g, f, S), NEW h, Sums(h, f, T), NEW R \in SUBSET T
  PROVE  g[R] = h[R]
<1> DEFINE U == {Q \in SUBSET T : g[Q] = h[Q]}
<1>1. {} \in U
  <2>1. g[{}] = 0 /\ h[{}] = 0
    BY Zenon DEF Sums
  <2> QED
    BY <2>1
<1>2. ASSUME NEW Q \in SUBSET T, Q # {}
      PROVE  \E x \in Q : Q \ {x} \in U => Q \in U
  <2>1. PICK x \in Q : x = CHOOSE y \in Q : TRUE
    BY <1>2
  <2>2. g[Q] = f[x] + g[Q \ {x}] /\ h[Q] = f[x] + h[Q \ {x}]
    BY <1>2, <2>1 DEF Sums
  <2>3. Q \ {x} \in U => Q \in U
    BY <2>2
  <2> QED
    BY <2>3
<1>3. IsFiniteSet(T)
  BY FS_Subset
<1>4. R \in U
  <2> HIDE DEF U
  <2> QED
    BY <1>1, <1>2, <1>3, SetInduction
<1> QED
  BY <1>4

\* The sum of nothing is 0.
LEMMA SumEmpty == ASSUME NEW f PROVE SumFunctionOnSet(f, {}) = 0
<1>1. IsFiniteSet({})
  BY FS_EmptySet
<1>2. PICK g : Sums(g, f, {}) /\ SumFunctionOnSet(f, {}) = g[{}]
  BY <1>1, SumsExist
<1>3. g[{}] = 0
  BY <1>2, Zenon DEF Sums
<1> QED
  BY <1>2, <1>3

\* A sum of integers is one.
LEMMA SumType ==
  ASSUME NEW S, IsFiniteSet(S), NEW f, \A x \in S : f[x] \in Int
  PROVE  SumFunctionOnSet(f, S) \in Int
<1>1. PICK g : Sums(g, f, S) /\ SumFunctionOnSet(f, S) = g[S]
  BY SumsExist
<1> QED
  BY <1>1 DEF Sums

\* Some element can be taken out of a sum.
LEMMA SumChosen ==
  ASSUME NEW S, IsFiniteSet(S), S # {}, NEW f, \A x \in S : f[x] \in Int
  PROVE  \E x \in S : SumFunctionOnSet(f, S) = f[x] + SumFunctionOnSet(f, S \ {x})
<1>1. PICK g : Sums(g, f, S) /\ SumFunctionOnSet(f, S) = g[S]
  BY SumsExist
<1>2. PICK x \in S : x = CHOOSE y \in S : TRUE
  OBVIOUS
<1>3. g[S] = f[x] + g[S \ {x}]
  BY <1>1, <1>2 DEF Sums
<1>4. IsFiniteSet(S \ {x})
  BY FS_Subset
<1>5. PICK h : Sums(h, f, S \ {x}) /\ SumFunctionOnSet(f, S \ {x}) = h[S \ {x}]
  BY <1>4, SumsExist
<1>6. g[S \ {x}] = h[S \ {x}]
  BY <1>1, <1>5, SumsAgree
<1> QED
  BY <1>1, <1>3, <1>5, <1>6

\* Any element can be taken out of a sum.
LEMMA SumTakeOut ==
  ASSUME NEW S, IsFiniteSet(S), NEW f, \A x \in S : f[x] \in Int, NEW y \in S
  PROVE  SumFunctionOnSet(f, S) = f[y] + SumFunctionOnSet(f, S \ {y})
<1> DEFINE Sum(T) == SumFunctionOnSet(f, T)
           N == {n \in Nat : \A T \in SUBSET S : Cardinality(T) = n =>
                               \A z \in T : Sum(T) = f[z] + Sum(T \ {z})}
<1>1. \A T \in SUBSET S : IsFiniteSet(T) /\ Cardinality(T) \in Nat
  BY FS_Subset, FS_CardinalityType
<1>2. \A T \in SUBSET S : Sum(T) \in Int
  BY <1>1, SumType
<1>3. \A T \in SUBSET S : \A z \in T : Cardinality(T \ {z}) = Cardinality(T) - 1
  BY <1>1, FS_RemoveElement
<1>4. 0 \in N
  BY <1>1, FS_EmptySet
<1>5. ASSUME NEW n \in Nat, n \in N
      PROVE  n + 1 \in N
  <2> SUFFICES ASSUME NEW T \in SUBSET S, Cardinality(T) = n + 1, NEW z \in T
               PROVE  Sum(T) = f[z] + Sum(T \ {z})
    OBVIOUS
  <2>1. PICK x \in T : Sum(T) = f[x] + Sum(T \ {x})
    BY <1>1, SumChosen
  <2> HIDE DEF Sum
  <2>2. CASE x = z
    BY <2>1, <2>2
  <2>3. CASE x # z
    <3> DEFINE R == (T \ {x}) \ {z}
    <3>1. Cardinality(T \ {x}) = n /\ Cardinality(T \ {z}) = n
      BY <1>3
    <3>2. T \ {x} \in SUBSET S /\ T \ {z} \in SUBSET S /\ z \in T \ {x} /\ x \in T \ {z}
      BY <2>3
    <3>3. Sum(T \ {x}) = f[z] + Sum((T \ {x}) \ {z})
      BY <1>5, <3>1, <3>2
    <3>4. Sum(T \ {z}) = f[x] + Sum((T \ {z}) \ {x})
      BY <1>5, <3>1, <3>2
    <3>5. (T \ {z}) \ {x} = R
      OBVIOUS
    <3>6. Sum(R) \in Int /\ f[x] \in Int /\ f[z] \in Int
      BY <1>2
    <3> HIDE DEF R
    <3>7. Sum(T \ {x}) = f[z] + Sum(R) /\ Sum(T \ {z}) = f[x] + Sum(R)
      BY <3>3, <3>4, <3>5 DEF R
    <3> QED
      BY <2>1, <3>6, <3>7
  <2> QED
    BY <2>2, <2>3
<1>6. Cardinality(S) \in N
  <2> HIDE DEF N
  <2> QED
    BY <1>1, <1>4, <1>5, Induction
<1> QED
  BY <1>6

\* A sum is made of the values it adds and of nothing else.
LEMMA SumCongruent ==
  ASSUME NEW S, IsFiniteSet(S), NEW f, NEW g, \A x \in S : f[x] \in Int /\ f[x] = g[x]
  PROVE  SumFunctionOnSet(f, S) = SumFunctionOnSet(g, S)
<1> DEFINE U == {T \in SUBSET S : SumFunctionOnSet(f, T) = SumFunctionOnSet(g, T)}
<1>1. {} \in U
  BY SumEmpty
<1>2. ASSUME NEW T \in SUBSET S, T # {}
      PROVE  \E x \in T : T \ {x} \in U => T \in U
  <2>1. PICK x : x \in T
    BY <1>2
  <2>2. IsFiniteSet(T)
    BY FS_Subset
  <2>3. /\ SumFunctionOnSet(f, T) = f[x] + SumFunctionOnSet(f, T \ {x})
        /\ SumFunctionOnSet(g, T) = g[x] + SumFunctionOnSet(g, T \ {x})
    BY <2>1, <2>2, SumTakeOut
  <2>4. T \ {x} \in U => T \in U
    BY <2>1, <2>3
  <2> QED
    BY <2>1, <2>4
<1>3. S \in U
  <2>1. S \in SUBSET S
    OBVIOUS
  <2> HIDE DEF U
  <2>2. \A T \in SUBSET S : T \in U
    BY <1>1, <1>2, SetInduction
  <2> QED
    BY <2>1, <2>2
<1> QED
  BY <1>3

\* Larger values have a larger sum.
LEMMA SumMonotonic ==
  ASSUME NEW S, IsFiniteSet(S), NEW f, NEW g,
         \A x \in S : f[x] \in Int /\ g[x] \in Int /\ f[x] <= g[x]
  PROVE  SumFunctionOnSet(f, S) <= SumFunctionOnSet(g, S)
<1> DEFINE U == {T \in SUBSET S : SumFunctionOnSet(f, T) <= SumFunctionOnSet(g, T)}
<1>1. {} \in U
  BY SumEmpty
<1>2. ASSUME NEW T \in SUBSET S, T # {}
      PROVE  \E x \in T : T \ {x} \in U => T \in U
  <2>1. PICK x : x \in T
    BY <1>2
  <2>2. IsFiniteSet(T) /\ IsFiniteSet(T \ {x})
    BY FS_Subset
  <2>3. /\ SumFunctionOnSet(f, T) = f[x] + SumFunctionOnSet(f, T \ {x})
        /\ SumFunctionOnSet(g, T) = g[x] + SumFunctionOnSet(g, T \ {x})
    BY <2>1, <2>2, SumTakeOut
  <2>4. SumFunctionOnSet(f, T \ {x}) \in Int /\ SumFunctionOnSet(g, T \ {x}) \in Int
    BY <2>2, SumType
  <2>5. f[x] \in Int /\ g[x] \in Int /\ f[x] <= g[x]
    BY <2>1
  <2>6. T \ {x} \in U => T \in U
    BY <2>3, <2>4, <2>5
  <2> QED
    BY <2>1, <2>6
<1>3. S \in U
  <2>1. S \in SUBSET S
    OBVIOUS
  <2> HIDE DEF U
  <2>2. \A T \in SUBSET S : T \in U
    BY <1>1, <1>2, SetInduction
  <2> QED
    BY <2>1, <2>2
<1> QED
  BY <1>3

\* Where nothing is added, the sum may be taken over more.
LEMMA SumOfZeros ==
  ASSUME NEW S, IsFiniteSet(S), NEW f, \A x \in S : f[x] \in Int,
         NEW R \in SUBSET S, \A x \in S \ R : f[x] = 0
  PROVE  SumFunctionOnSet(f, S) = SumFunctionOnSet(f, R)
<1> DEFINE U == {T \in SUBSET (S \ R) :
                   SumFunctionOnSet(f, R \cup T) = SumFunctionOnSet(f, R)}
<1>1. {} \in U
  <2>1. R \cup {} = R
    OBVIOUS
  <2> QED
    BY <2>1
<1>2. ASSUME NEW T \in SUBSET (S \ R), T # {}
      PROVE  \E x \in T : T \ {x} \in U => T \in U
  <2>1. PICK x : x \in T
    BY <1>2
  <2>2. IsFiniteSet(R \cup T) /\ IsFiniteSet(R \cup (T \ {x}))
    BY FS_Subset
  <2>3. (R \cup T) \ {x} = R \cup (T \ {x})
    BY <2>1
  <2>4. \A z \in R \cup T : f[z] \in Int
    OBVIOUS
  <2>5. SumFunctionOnSet(f, R \cup T) = f[x] + SumFunctionOnSet(f, (R \cup T) \ {x})
    BY <2>1, <2>2, <2>4, SumTakeOut
  <2>6. SumFunctionOnSet(f, R \cup (T \ {x})) \in Int
    BY <2>2, SumType
  <2>7. f[x] = 0
    BY <2>1
  <2>8. SumFunctionOnSet(f, R \cup T) = SumFunctionOnSet(f, R \cup (T \ {x}))
    <3>1. SumFunctionOnSet(f, R \cup T) = f[x] + SumFunctionOnSet(f, R \cup (T \ {x}))
      BY <2>3, <2>5
    <3> QED
      BY <3>1, <2>6, <2>7
  <2>9. T \ {x} \in U => T \in U
    BY <2>8
  <2> QED
    BY <2>1, <2>9
<1>3. IsFiniteSet(S \ R)
  BY FS_Subset
<1>4. S \ R \in U
  <2> DEFINE D == S \ R
  <2> HIDE DEF U
  <2>1. \A T \in SUBSET D : T # {} => \E x \in T : T \ {x} \in U => T \in U
    BY <1>2
  <2>2. IsFiniteSet(D)
    BY <1>3
  <2> HIDE DEF D
  <2>3. \A T \in SUBSET D : T \in U
    BY <1>1, <2>1, <2>2, SetInduction
  <2>4. D \in SUBSET D
    OBVIOUS
  <2>5. D \in U
    BY <2>3, <2>4
  <2> QED
    BY <2>5 DEF D
<1>5. R \cup (S \ R) = S
  OBVIOUS
<1> QED
  BY <1>4, <1>5

\* A part adds up to no more than the whole.
LEMMA SumOfPart ==
  ASSUME NEW S, IsFiniteSet(S), NEW f, \A x \in S : f[x] \in Nat, NEW R \in SUBSET S
  PROVE  SumFunctionOnSet(f, R) <= SumFunctionOnSet(f, S)
<1> DEFINE g == [x \in S |-> IF x \in R THEN f[x] ELSE 0]
<1>1. IsFiniteSet(R)
  BY FS_Subset
<1>2. \A x \in S : g[x] \in Int /\ f[x] \in Int /\ g[x] <= f[x]
  OBVIOUS
<1>3. \A x \in S \ R : g[x] = 0
  OBVIOUS
<1>4. \A x \in R : g[x] \in Int /\ g[x] = f[x]
  OBVIOUS
<1> HIDE DEF g
<1>5. SumFunctionOnSet(g, S) = SumFunctionOnSet(g, R)
  BY <1>2, <1>3, SumOfZeros
<1>6. SumFunctionOnSet(g, R) = SumFunctionOnSet(f, R)
  BY <1>1, <1>4, SumCongruent
<1>7. SumFunctionOnSet(g, S) <= SumFunctionOnSet(f, S)
  BY <1>2, SumMonotonic
<1> QED
  BY <1>5, <1>6, <1>7

\* A request more in one bucket is one more in all.
LEMMA SumOneMore ==
  ASSUME NEW S, IsFiniteSet(S), NEW f \in [S -> Nat], NEW x \in S
  PROVE  SumFunctionOnSet([f EXCEPT ![x] = @ + 1], S) = SumFunctionOnSet(f, S) + 1
<1> DEFINE g == [f EXCEPT ![x] = @ + 1]
           R == S \ {x}
<1>1. IsFiniteSet(R)
  BY FS_Subset
<1>2. \A y \in S : f[y] \in Int /\ g[y] \in Int
  OBVIOUS
<1>3. \A y \in R : g[y] \in Int /\ g[y] = f[y]
  OBVIOUS
<1>4. g[x] = f[x] + 1
  OBVIOUS
<1> HIDE DEF g
<1>5. SumFunctionOnSet(f, S) = f[x] + SumFunctionOnSet(f, R)
  BY <1>2, SumTakeOut
<1>6. SumFunctionOnSet(g, S) = g[x] + SumFunctionOnSet(g, R)
  BY <1>2, SumTakeOut
<1> HIDE DEF R
<1>7. SumFunctionOnSet(g, R) = SumFunctionOnSet(f, R)
  BY <1>1, <1>3, SumCongruent
<1>8. SumFunctionOnSet(f, R) \in Int
  <2>1. \A y \in R : f[y] \in Int
    BY <1>2 DEF R
  <2> QED
    BY <1>1, <2>1, SumType
<1>9. SumFunctionOnSet(g, S) = SumFunctionOnSet(f, S) + 1
  BY <1>2, <1>4, <1>5, <1>6, <1>7, <1>8
<1> QED
  BY <1>9 DEF g

\* The elements of I that c puts in K.
Within(I, c, K) == {j \in I : c[j] \in K}

\* The elements of classes add up.
LEMMA PartsAddUp ==
  ASSUME NEW I, IsFiniteSet(I), NEW c, NEW n \in Nat, NEW f,
         \A k \in 1..n : f[k] = Cardinality(Within(I, c, {k}))
  PROVE  SumFunctionOnSet(f, 1..n) = Cardinality(Within(I, c, 1..n))
<1> DEFINE Of(k) == Within(I, c, {k})
           UpTo(k) == Within(I, c, 1..k)
           N == {k \in Nat : k <= n => SumFunctionOnSet(f, 1..k) = Cardinality(UpTo(k))}
<1>1. \A k \in Nat : /\ IsFiniteSet(Of(k)) /\ Cardinality(Of(k)) \in Nat
                     /\ IsFiniteSet(UpTo(k)) /\ Cardinality(UpTo(k)) \in Nat
  <2> TAKE k \in Nat
  <2>1. Of(k) \in SUBSET I /\ UpTo(k) \in SUBSET I
    BY DEF Within
  <2> HIDE DEF Of, UpTo
  <2> QED
    BY <2>1, FS_Subset, FS_CardinalityType
<1>2. 0 \in N
  <2>1. 1..0 = {} /\ UpTo(0) = {}
    BY DEF Within
  <2>2. Cardinality({}) = 0
    BY FS_EmptySet
  <2>3. SumFunctionOnSet(f, {}) = 0
    BY SumEmpty
  <2> QED
    BY <2>1, <2>2, <2>3
<1>3. ASSUME NEW k \in Nat, k \in N
      PROVE  k + 1 \in N
  <2> HIDE DEF UpTo, Of
  <2> SUFFICES ASSUME k + 1 <= n
               PROVE  SumFunctionOnSet(f, 1..k + 1) = Cardinality(UpTo(k + 1))
    OBVIOUS
  <2>1. SumFunctionOnSet(f, 1..k) = Cardinality(UpTo(k))
    BY <1>3
  <2>2. UpTo(k + 1) = UpTo(k) \cup Of(k + 1) /\ UpTo(k) \cap Of(k + 1) = {}
    <3>1. 1..k + 1 = (1..k) \cup {k + 1} /\ k + 1 \notin 1..k
      OBVIOUS
    <3> QED
      BY <3>1 DEF UpTo, Of, Within
  <2>3. f[k + 1] = Cardinality(Of(k + 1))
    BY DEF Of
  <2>4. \A i \in 1..k + 1 : f[i] \in Int
    <3> SUFFICES ASSUME NEW i \in 1..k + 1
                 PROVE  f[i] \in Int
      OBVIOUS
    <3>1. i \in 1..n /\ i \in Nat
      OBVIOUS
    <3>2. f[i] = Cardinality(Of(i))
      BY <3>1 DEF Of
    <3>3. Cardinality(Of(i)) \in Nat
      BY <1>1, <3>1
    <3> QED
      BY <3>2, <3>3
  <2>5. Cardinality(UpTo(k + 1)) = Cardinality(UpTo(k)) + Cardinality(Of(k + 1))
    <3>1. k + 1 \in Nat /\ Cardinality({}) = 0
      BY FS_EmptySet
    <3>2. /\ IsFiniteSet(UpTo(k)) /\ Cardinality(UpTo(k)) \in Nat
          /\ IsFiniteSet(Of(k + 1)) /\ Cardinality(Of(k + 1)) \in Nat
      BY <1>1, <3>1
    <3>3. Cardinality(UpTo(k) \cup Of(k + 1))
            = Cardinality(UpTo(k)) + Cardinality(Of(k + 1)) - Cardinality(UpTo(k) \cap Of(k + 1))
      BY <3>2, FS_Union
    <3>4. Cardinality(UpTo(k) \cup Of(k + 1)) = Cardinality(UpTo(k)) + Cardinality(Of(k + 1)) - 0
      BY <2>2, <3>1, <3>3
    <3>5. Cardinality(UpTo(k) \cup Of(k + 1)) = Cardinality(UpTo(k)) + Cardinality(Of(k + 1))
      BY <3>2, <3>4
    <3> QED
      BY <2>2, <3>5
  <2>6. SumFunctionOnSet(f, 1..k + 1) = f[k + 1] + SumFunctionOnSet(f, 1..k)
    <3> DEFINE T == 1..k + 1
    <3>1. k + 1 \in T /\ IsFiniteSet(T) /\ T \ {k + 1} = 1..k
      BY FS_Interval
    <3>2. \A i \in T : f[i] \in Int
      BY <2>4
    <3> HIDE DEF T
    <3>3. SumFunctionOnSet(f, T) = f[k + 1] + SumFunctionOnSet(f, T \ {k + 1})
      BY <3>1, <3>2, SumTakeOut
    <3> QED
      BY <3>1, <3>3 DEF T
  <2>7. Cardinality(UpTo(k)) \in Nat /\ Cardinality(Of(k + 1)) \in Nat
    BY <1>1
  <2> QED
    BY <2>1, <2>3, <2>5, <2>6, <2>7
<1>4. n \in N
  <2> HIDE DEF N
  <2> QED
    BY <1>2, <1>3, Induction
<1> QED
  BY <1>4

-----------------------------------------------------------------------------
(* Selections from a sequence.                                             *)

\* A sequence has finitely many elements.
LEMMA FiniteRange ==
  ASSUME NEW B, NEW seq \in Seq(B)
  PROVE  IsFiniteSet(Range(seq))
<1>1. DOMAIN seq = 1..Len(seq) /\ Len(seq) \in Nat
  OBVIOUS
<1>2. IsFiniteSet(DOMAIN seq)
  BY <1>1, FS_Interval
<1> DEFINE D == DOMAIN seq
           R == Range(seq)
<1>3. [i \in D |-> seq[i]] \in Surjection(D, R)
  BY DEF Surjection, Range
<1> HIDE DEF D, R
<1>4. IsFiniteSet(R)
  BY <1>2, <1>3, FS_Surjection DEF D
<1> QED
  BY <1>4 DEF R

\* Induction on sequences, by appending.
LEMMA SeqInduction ==
  ASSUME NEW A, NEW U, <<>> \in U,
         \A s \in Seq(A), e \in A : s \in U => Append(s, e) \in U
  PROVE  \A s \in Seq(A) : s \in U
<1> DEFINE N == {n \in Nat : \A s \in Seq(A) : Len(s) = n => s \in U}
<1>1. 0 \in N
  <2>1. \A s \in Seq(A) : Len(s) = 0 => s = <<>>
    OBVIOUS
  <2> QED
    BY <2>1
<1>2. ASSUME NEW n \in Nat, n \in N
      PROVE  n + 1 \in N
  <2> SUFFICES ASSUME NEW s \in Seq(A), Len(s) = n + 1
               PROVE  s \in U
    OBVIOUS
  <2> DEFINE r == [i \in 1..n |-> s[i]]
  <2>1. r \in Seq(A) /\ Len(r) = n /\ s[n + 1] \in A
    OBVIOUS
  <2>2. s = Append(r, s[n + 1])
    OBVIOUS
  <2>3. r \in U
    BY <2>1, <1>2
  <2> HIDE DEF r
  <2> QED
    BY <2>1, <2>2, <2>3
<1>3. \A n \in Nat : n \in N
  <2> HIDE DEF N
  <2> QED
    BY <1>1, <1>2, Induction
<1> QED
  BY <1>3

\* out has what is selected after every position.
Picks(out, B, seq, I) ==
  /\ out \in [0..Len(seq) -> Seq(B)]
  /\ out[0] = <<>>
  /\ \A i \in 1..Len(seq) :
       out[i] = IF i \in I THEN Append(out[i - 1], seq[i]) ELSE out[i - 1]

\* At is the loop over the sequence.
LEMMA AtPicks ==
  ASSUME NEW B, NEW seq \in Seq(B), NEW I
  PROVE  \E out : Picks(out, B, seq, I) /\ At(seq, I) = out[Len(seq)]
<1> DEFINE n == Len(seq)
           A == Seq(B)
           Eq(out) == out = [i \in 0..n |->
                        IF i = 0 THEN <<>>
                        ELSE IF i \in I THEN Append(out[i - 1], seq[i]) ELSE out[i - 1]]
           G == CHOOSE out : Eq(out)
           step == [p \in A \X Nat |->
                      IF p[2] + 1 \in I /\ p[2] + 1 \in 1..n
                        THEN Append(p[1], seq[p[2] + 1]) ELSE p[1]]
<1>1. At(seq, I) = G[n]
  BY DEF At
<1>2. step \in [A \X Nat -> A] /\ <<>> \in A
  <2>1. ASSUME NEW p \in A \X Nat
        PROVE  step[p] \in A
    OBVIOUS
  <2> QED
    BY <2>1
<1>3. \A a \in A, i \in 0..n - 1 :
         step[<<a, i>>] = IF i + 1 \in I THEN Append(a, seq[i + 1]) ELSE a
  OBVIOUS
<1>4. PICK f : Iterates(f, A, <<>>, step)
  <2> HIDE DEF A, step
  <2> QED
    BY <1>2, Recursion
<1> DEFINE g == [i \in 0..n |-> f[i]]
<1>5. g \in [0..n -> A] /\ g[0] = <<>>
  BY <1>4 DEF Iterates
<1>6. ASSUME NEW i \in 1..n
      PROVE  g[i] = IF i \in I THEN Append(g[i - 1], seq[i]) ELSE g[i - 1]
  <2> DEFINE j == i - 1
  <2>1. j \in Nat /\ j \in 0..n - 1 /\ j \in 0..n /\ j + 1 = i /\ i \in 0..n
    OBVIOUS
  <2> HIDE DEF j
  <2>2. f[j + 1] = step[<<f[j], j>>] /\ f[j] \in A
    BY <2>1, <1>4 DEF Iterates
  <2>3. f[j + 1] = IF j + 1 \in I THEN Append(f[j], seq[j + 1]) ELSE f[j]
    BY <2>1, <2>2, <1>3
  <2>4. g[i] = f[i] /\ g[j] = f[j]
    BY <2>1
  <2> QED
    BY <2>1, <2>3, <2>4 DEF j
<1> HIDE DEF g
<1>7. Eq(g)
  <2>1. \A i \in 0..n : i # 0 => i \in 1..n
    OBVIOUS
  <2> QED
    BY <1>5, <1>6, <2>1
<1>8. Eq(G)
  <2> HIDE DEF Eq
  <2> QED
    BY <1>7
<1> HIDE DEF G
<1>9. /\ G[0] = <<>>
      /\ \A i \in 1..n : G[i] = IF i \in I THEN Append(G[i - 1], seq[i]) ELSE G[i - 1]
  <2>1. \A i \in 0..n :
           G[i] = IF i = 0 THEN <<>>
                  ELSE IF i \in I THEN Append(G[i - 1], seq[i]) ELSE G[i - 1]
    BY <1>8
  <2>2. 0 \in 0..n /\ \A i \in 1..n : i \in 0..n /\ i # 0
    OBVIOUS
  <2> HIDE DEF n
  <2> QED
    BY <2>1, <2>2, Zenon
<1>10. \A i \in 0..n : G[i] \in A
  <2> DEFINE N == {i \in Nat : i \in 0..n => G[i] \in A}
  <2>1. 0 \in N
    BY <1>2, <1>9
  <2>2. ASSUME NEW i \in Nat, i \in N
        PROVE  i + 1 \in N
    <3> SUFFICES ASSUME i + 1 \in 0..n
                 PROVE  G[i + 1] \in A
      OBVIOUS
    <3>1. i \in 0..n /\ i + 1 \in 1..n /\ (i + 1) - 1 = i
      OBVIOUS
    <3>2. G[i] \in A
      BY <2>2, <3>1
    <3>3. G[i + 1] = IF i + 1 \in I THEN Append(G[i], seq[i + 1]) ELSE G[i]
      BY <1>9, <3>1
    <3> QED
      BY <3>1, <3>2, <3>3
  <2>3. \A i \in Nat : i \in N
    <3> HIDE DEF N
    <3> QED
      BY <2>1, <2>2, Induction
  <2> QED
    BY <2>3
<1>11. Picks(G, B, seq, I)
  <2>1. DOMAIN G = 0..n
    BY <1>8
  <2>2. G = [i \in 0..n |-> G[i]]
    BY <1>8
  <2>3. G \in [0..n -> A]
    BY <1>10, <2>1, <2>2
  <2> QED
    BY <1>9, <2>3 DEF Picks
<1> QED
  BY <1>1, <1>11

\* Nothing is selected from nothing.
LEMMA AtEmpty == ASSUME NEW I PROVE At(<<>>, I) = <<>>
<1>1. <<>> \in Seq({}) /\ Len(<<>>) = 0
  OBVIOUS
<1>2. PICK out : Picks(out, {}, <<>>, I) /\ At(<<>>, I) = out[Len(<<>>)]
  BY <1>1, AtPicks
<1> QED
  BY <1>1, <1>2 DEF Picks

\* Positions beyond a sequence do not matter to the selection from it, and those
\* in it are decided on one after the other.
LEMMA PicksAgree ==
  ASSUME NEW B, NEW s \in Seq(B), NEW e \in B, NEW I, NEW J,
         \A i \in 1..Len(s) : i \in I <=> i \in J,
         NEW out, Picks(out, B, s, I), NEW more, Picks(more, B, Append(s, e), J),
         NEW k \in 0..Len(s)
  PROVE  out[k] = more[k]
<1> DEFINE N == {i \in Nat : i \in 0..Len(s) => out[i] = more[i]}
<1>1. 0 \in N
  BY DEF Picks
<1>2. ASSUME NEW i \in Nat, i \in N
      PROVE  i + 1 \in N
  <2> SUFFICES ASSUME i + 1 \in 0..Len(s)
               PROVE  out[i + 1] = more[i + 1]
    OBVIOUS
  <2> DEFINE j == i + 1
  <2>1. j \in 1..Len(s) /\ j - 1 = i /\ i \in 0..Len(s)
    OBVIOUS
  <2>2. j \in 1..Len(Append(s, e)) /\ Append(s, e)[j] = s[j]
    BY <2>1
  <2> HIDE DEF j
  <2>3. out[j] = IF j \in I THEN Append(out[i], s[j]) ELSE out[i]
    BY <2>1 DEF Picks
  <2>4. more[j] = IF j \in J THEN Append(more[i], s[j]) ELSE more[i]
    BY <2>1, <2>2 DEF Picks
  <2>5. out[i] = more[i]
    BY <1>2, <2>1
  <2>6. out[j] = more[j]
    BY <2>1, <2>3, <2>4, <2>5
  <2> QED
    BY <2>6 DEF j
<1>3. \A i \in Nat : i \in N
  <2> HIDE DEF N
  <2> QED
    BY <1>1, <1>2, Induction
<1> QED
  BY <1>3

\* The loop reaches the last element last: it is appended if it is selected.
LEMMA AtAppend ==
  ASSUME NEW B, NEW s \in Seq(B), NEW e \in B, NEW I, NEW J,
         \A i \in 1..Len(s) : i \in I <=> i \in J
  PROVE  At(Append(s, e), J) =
           IF Len(s) + 1 \in J THEN Append(At(s, I), e) ELSE At(s, I)
<1> DEFINE t == Append(s, e)
           n == Len(s)
<1>1. t \in Seq(B) /\ Len(t) = n + 1 /\ t[n + 1] = e /\ n \in Nat
  OBVIOUS
<1>2. PICK out : Picks(out, B, s, I) /\ At(s, I) = out[n]
  BY AtPicks
<1>3. PICK more : Picks(more, B, t, J) /\ At(t, J) = more[Len(t)]
  BY <1>1, AtPicks
<1>4. out[n] = more[n]
  <2>1. n \in 0..Len(s)
    OBVIOUS
  <2> QED
    BY <1>2, <1>3, <2>1, PicksAgree
<1> HIDE DEF t
<1>5. more[n + 1] = IF n + 1 \in J THEN Append(more[n], e) ELSE more[n]
  <2>1. n + 1 \in 1..Len(t) /\ (n + 1) - 1 = n
    BY <1>1
  <2> QED
    BY <1>1, <1>3, <2>1 DEF Picks
<1> QED
  BY <1>1, <1>2, <1>3, <1>4, <1>5 DEF t

\* What is selected is of the same type.
LEMMA AtType ==
  ASSUME NEW B, NEW seq \in Seq(B), NEW I
  PROVE  At(seq, I) \in Seq(B)
<1>1. PICK out : Picks(out, B, seq, I) /\ At(seq, I) = out[Len(seq)]
  BY AtPicks
<1>2. Len(seq) \in 0..Len(seq)
  OBVIOUS
<1> QED
  BY <1>1, <1>2 DEF Picks

\* Append adds its element.
LEMMA RangeAppend ==
  ASSUME NEW B, NEW s \in Seq(B), NEW e \in B
  PROVE  Range(Append(s, e)) = Range(s) \cup {e}
<1> DEFINE t == Append(s, e)
<1>1. /\ DOMAIN t = 1..Len(s) + 1 /\ DOMAIN s = 1..Len(s) /\ Len(s) \in Nat
      /\ t[Len(s) + 1] = e /\ \A i \in 1..Len(s) : t[i] = s[i]
  OBVIOUS
<1> HIDE DEF t
<1>2. ASSUME NEW x \in Range(t)
      PROVE  x \in Range(s) \cup {e}
  <2>1. PICK i \in 1..Len(s) + 1 : x = t[i]
    BY <1>1 DEF Range
  <2>2. CASE i = Len(s) + 1
    BY <2>1, <2>2, <1>1
  <2>3. CASE i \in 1..Len(s)
    BY <2>1, <2>3, <1>1 DEF Range
  <2> QED
    BY <2>2, <2>3, <1>1
<1>3. ASSUME NEW x \in Range(s) \cup {e}
      PROVE  x \in Range(t)
  <2>1. CASE x = e
    <3>1. Len(s) + 1 \in 1..Len(s) + 1
      BY <1>1
    <3> QED
      BY <2>1, <3>1, <1>1 DEF Range
  <2>2. CASE x \in Range(s)
    <3>1. PICK i \in 1..Len(s) : x = s[i]
      BY <2>2, <1>1 DEF Range
    <3>2. i \in 1..Len(s) + 1 /\ x = t[i]
      BY <3>1, <1>1
    <3> QED
      BY <3>2, <1>1 DEF Range
  <2> QED
    BY <2>1, <2>2
<1>4. Range(t) = Range(s) \cup {e}
  BY <1>2, <1>3
<1> QED
  BY <1>4 DEF t

\* A selection has the elements at the selected positions.
LEMMA AtRange ==
  ASSUME NEW B, NEW seq \in Seq(B), NEW I
  PROVE  Range(At(seq, I)) = {seq[i] : i \in I \cap (1..Len(seq))}
<1> DEFINE Has(s) == {s[i] : i \in I \cap (1..Len(s))}
           U == {s \in Seq(B) : Range(At(s, I)) = Has(s)}
<1>1. <<>> \in U
  <2>1. At(<<>>, I) = <<>> /\ <<>> \in Seq(B)
    BY AtEmpty
  <2>2. Range(<<>>) = {} /\ Has(<<>>) = {}
    BY DEF Range
  <2> QED
    BY <2>1, <2>2
<1>2. ASSUME NEW s \in Seq(B), NEW e \in B, s \in U
      PROVE  Append(s, e) \in U
  <2> DEFINE n == Len(s)
             t == Append(s, e)
  <2>1. At(t, I) = IF n + 1 \in I THEN Append(At(s, I), e) ELSE At(s, I)
    BY AtAppend
  <2>2. t \in Seq(B) /\ Len(t) = n + 1 /\ t[n + 1] = e /\ \A i \in 1..n : t[i] = s[i]
    OBVIOUS
  <2>3. At(s, I) \in Seq(B)
    BY AtType
  <2>4. Range(Append(At(s, I), e)) = Range(At(s, I)) \cup {e}
    BY <2>3, RangeAppend
  <2>5. Has(t) = Has(s) \cup (IF n + 1 \in I THEN {e} ELSE {})
    <3>1. I \cap (1..Len(t)) = (I \cap (1..n)) \cup (I \cap {n + 1})
      BY <2>2
    <3> HIDE DEF t
    <3> QED
      BY <2>2, <3>1
  <2> HIDE DEF Has, t
  <2>6. Range(At(s, I)) = Has(s)
    BY <1>2
  <2>7. Range(At(t, I)) = Has(t)
    BY <2>1, <2>4, <2>5, <2>6
  <2> QED
    BY <2>2, <2>7 DEF t
<1>3. seq \in U
  <2> HIDE DEF U
  <2> QED
    BY <1>1, <1>2, SeqInduction
<1> QED
  BY <1>3

\* ... and as many of them, in their order.
LEMMA AtLen ==
  ASSUME NEW B, NEW seq \in Seq(B), NEW I
  PROVE  Len(At(seq, I)) = Cardinality(I \cap (1..Len(seq)))
<1> DEFINE Here(s) == I \cap (1..Len(s))
           U == {s \in Seq(B) : Len(At(s, I)) = Cardinality(Here(s))}
<1>1. <<>> \in U
  <2>1. At(<<>>, I) = <<>> /\ <<>> \in Seq(B)
    BY AtEmpty
  <2>2. Here(<<>>) = {} /\ Cardinality({}) = 0
    BY FS_EmptySet
  <2> QED
    BY <2>1, <2>2
<1>2. ASSUME NEW s \in Seq(B), NEW e \in B, s \in U
      PROVE  Append(s, e) \in U
  <2> DEFINE n == Len(s)
             t == Append(s, e)
  <2>1. At(t, I) = IF n + 1 \in I THEN Append(At(s, I), e) ELSE At(s, I)
    BY AtAppend
  <2>2. t \in Seq(B) /\ Len(t) = n + 1 /\ n \in Nat
    OBVIOUS
  <2>3. At(s, I) \in Seq(B) /\ Len(Append(At(s, I), e)) = Len(At(s, I)) + 1
    BY AtType
  <2>4. IsFiniteSet(Here(s))
    BY FS_Interval, FS_Subset
  <2>5. Here(t) = Here(s) \cup (IF n + 1 \in I THEN {n + 1} ELSE {}) /\ n + 1 \notin Here(s)
    BY <2>2
  <2> HIDE DEF Here, t
  <2>6. Cardinality(Here(s)) = Len(At(s, I))
    BY <1>2
  <2>7. CASE n + 1 \in I
    <3>1. Cardinality(Here(t)) = Cardinality(Here(s)) + 1
      BY <2>4, <2>5, <2>7, FS_AddElement
    <3>2. Len(At(t, I)) = Cardinality(Here(t))
      BY <3>1, <2>1, <2>3, <2>6, <2>7
    <3> QED
      BY <3>2, <2>2 DEF t
  <2>8. CASE n + 1 \notin I
    <3>1. Len(At(t, I)) = Cardinality(Here(t))
      BY <2>1, <2>5, <2>6, <2>8
    <3> QED
      BY <3>1, <2>2 DEF t
  <2> QED
    BY <2>7, <2>8
<1>3. seq \in U
  <2> HIDE DEF U
  <2> QED
    BY <1>1, <1>2, SeqInduction
<1> QED
  BY <1>3

\* A filter that leaves the first leaves it in front.
LEMMA AtFirst ==
  ASSUME NEW B, NEW seq \in Seq(B), seq # <<>>, NEW I, 1 \in I
  PROVE  At(seq, I) # <<>> /\ At(seq, I)[1] = seq[1]
<1> DEFINE n == Len(seq)
<1>1. n \in Nat /\ n # 0 /\ DOMAIN seq = 1..n
  OBVIOUS
<1>2. PICK out : Picks(out, B, seq, I) /\ At(seq, I) = out[n]
  BY AtPicks
<1> DEFINE N == {i \in Nat : i + 1 \in 1..n => Len(out[i + 1]) >= 1 /\ out[i + 1][1] = seq[1]}
<1>3. /\ out \in [0..n -> Seq(B)] /\ out[0] = <<>>
      /\ \A i \in 1..n : out[i] = IF i \in I THEN Append(out[i - 1], seq[i]) ELSE out[i - 1]
  BY <1>2 DEF Picks
<1> HIDE DEF n
<1>4. 0 \in N
  <2>1. 1 \in 1..n
    BY <1>1
  <2>2. out[1] = Append(<<>>, seq[1])
    <3>1. 1 - 1 = 0
      OBVIOUS
    <3> QED
      BY <2>1, <3>1, <1>3
  <2>3. seq[1] \in B
    BY <1>1
  <2> QED
    BY <2>2, <2>3
<1>5. ASSUME NEW i \in Nat, i \in N
      PROVE  i + 1 \in N
  <2> SUFFICES ASSUME (i + 1) + 1 \in 1..n
               PROVE  Len(out[(i + 1) + 1]) >= 1 /\ out[(i + 1) + 1][1] = seq[1]
    OBVIOUS
  <2>1. i + 1 \in 1..n /\ ((i + 1) + 1) - 1 = i + 1 /\ i + 1 \in 0..n
    BY <1>1
  <2>2. Len(out[i + 1]) >= 1 /\ out[i + 1][1] = seq[1] /\ out[i + 1] \in Seq(B)
    BY <1>3, <1>5, <2>1
  <2>3. seq[(i + 1) + 1] \in B
    BY <1>1
  <2>4. out[(i + 1) + 1] = out[i + 1] \/ out[(i + 1) + 1] = Append(out[i + 1], seq[(i + 1) + 1])
    BY <1>3, <2>1
  <2> DEFINE p == out[i + 1]
             e == seq[(i + 1) + 1]
  <2>5. p \in Seq(B) /\ e \in B /\ Len(p) >= 1 /\ p[1] = seq[1]
    BY <2>2, <2>3
  <2> HIDE DEF p, e
  <2>6. Len(Append(p, e)) >= 1 /\ Append(p, e)[1] = seq[1]
    BY <2>5
  <2> QED
    BY <2>4, <2>5, <2>6 DEF p, e
<1>6. \A i \in Nat : i \in N
  <2> HIDE DEF N
  <2> QED
    BY <1>4, <1>5, Induction
<1>7. n - 1 \in Nat /\ (n - 1) + 1 = n /\ n \in 1..n /\ n \in 0..n
  BY <1>1
<1>8. Len(out[n]) >= 1 /\ out[n][1] = seq[1] /\ out[n] \in Seq(B)
  BY <1>6, <1>7, <1>3
<1> QED
  BY <1>2, <1>8

\* Reversing a sequence does not change how many of its elements are kept.
LEMMA ReverseLen ==
  ASSUME NEW B, NEW seq \in Seq(B), NEW I, NEW J,
         \A i \in 1..Len(seq) : i \in J <=> Len(seq) + 1 - i \in I
  PROVE  Len(At(Reverse(seq), J)) = Len(At(seq, I))
<1> DEFINE n == Len(seq)
           P == I \cap (1..n)
           Q == J \cap (1..n)
           t == Reverse(seq)
<1>1. t \in Seq(B) /\ Len(t) = n /\ n \in Nat
  BY DEF Reverse
<1>2. IsFiniteSet(P)
  <2>1. IsFiniteSet(1..n) /\ P \in SUBSET (1..n)
    BY <1>1, FS_Interval
  <2> HIDE DEF P, n
  <2> QED
    BY <2>1, FS_Subset
<1> DEFINE m == [i \in P |-> n + 1 - i]
<1>3. m \in Bijection(P, Q)
  <2>1. m \in [P -> Q]
    <3> SUFFICES ASSUME NEW i \in P
                 PROVE  n + 1 - i \in J /\ n + 1 - i \in 1..n
      OBVIOUS
    <3>1. n + 1 - i \in 1..n /\ n + 1 - (n + 1 - i) = i
      BY <1>1
    <3> QED
      BY <3>1
  <2>2. \A i, j \in P : m[i] = m[j] => i = j
    BY <1>1
  <2>3. \A j \in Q : \E i \in P : m[i] = j
    <3> SUFFICES ASSUME NEW j \in Q
                 PROVE  n + 1 - j \in P /\ n + 1 - (n + 1 - j) = j
      BY DEF m
    <3> QED
      BY <1>1
  <2> HIDE DEF P, Q, m
  <2> QED
    <3>1. m \in Injection(P, Q)
      BY <2>1, <2>2, Zenon DEF Injection, IsInjective
    <3>2. m \in Surjection(P, Q)
      BY <2>1, <2>3, Zenon DEF Surjection
    <3> QED
      BY <3>1, <3>2 DEF Bijection
<1>4. Cardinality(P) = Cardinality(Q)
  <2>1. ExistsBijection(P, Q)
    BY <1>3 DEF ExistsBijection
  <2> HIDE DEF P, Q
  <2> QED
    BY <1>2, <2>1, FS_Bijection
<1>5. Len(At(seq, I)) = Cardinality(P)
  BY AtLen
<1> HIDE DEF t
<1>6. Len(At(t, J)) = Cardinality(Q)
  <2>1. Len(At(t, J)) = Cardinality(J \cap (1..Len(t)))
    BY <1>1, AtLen
  <2> QED
    BY <1>1, <2>1
<1> QED
  BY <1>4, <1>5, <1>6 DEF t

\* A filter leaves what passes it.
LEMMA SelectRange ==
  ASSUME NEW B, NEW seq \in Seq(B), NEW S, NEW I,
         I = {i \in DOMAIN seq : seq[i] \in S}
  PROVE  /\ At(seq, I) \in Seq(B)
         /\ Range(At(seq, I)) = Range(seq) \cap S
<1>1. DOMAIN seq = 1..Len(seq)
  OBVIOUS
<1>2. Range(At(seq, I)) = {seq[i] : i \in I \cap (1..Len(seq))}
  BY AtRange
<1>3. {seq[i] : i \in I \cap (1..Len(seq))} = Range(seq) \cap S
  BY <1>1 DEF Range
<1> QED
  BY <1>2, <1>3, AtType

-----------------------------------------------------------------------------
(* The best element of a sequence.                                         *)

\* best has the best one after every position.
Bests(best, B, seq, better, nil) ==
  /\ best \in [0..Len(seq) -> B \cup {nil}]
  /\ best[0] = nil
  /\ \A i \in 1..Len(seq) :
       best[i] = IF best[i - 1] = nil \/ <<seq[i], best[i - 1]>> \in better
                   THEN seq[i] ELSE best[i - 1]

\* BestIn is the loop over the sequence.
LEMMA BestInBests ==
  ASSUME NEW B, NEW seq \in Seq(B), NEW better, NEW nil
  PROVE  \E best : Bests(best, B, seq, better, nil) /\ BestIn(seq, better, nil) = best[Len(seq)]
<1> DEFINE n == Len(seq)
           A == B \cup {nil}
           Eq(best) == best = [i \in 0..n |->
                         IF i = 0 THEN nil
                         ELSE LET b == best[i - 1]
                              IN  IF b = nil \/ <<seq[i], b>> \in better THEN seq[i] ELSE b]
           G == CHOOSE best : Eq(best)
           step == [p \in A \X Nat |->
                      IF p[2] + 1 \in 1..n /\ (p[1] = nil \/ <<seq[p[2] + 1], p[1]>> \in better)
                        THEN seq[p[2] + 1] ELSE p[1]]
<1>1. BestIn(seq, better, nil) = G[n]
  BY DEF BestIn
<1>2. step \in [A \X Nat -> A] /\ nil \in A
  <2>1. ASSUME NEW p \in A \X Nat
        PROVE  step[p] \in A
    OBVIOUS
  <2> QED
    BY <2>1
<1>3. \A b \in A, i \in 0..n - 1 :
         step[<<b, i>>] = IF b = nil \/ <<seq[i + 1], b>> \in better THEN seq[i + 1] ELSE b
  OBVIOUS
<1>4. PICK f : Iterates(f, A, nil, step)
  <2> HIDE DEF A, step
  <2> QED
    BY <1>2, Recursion
<1> DEFINE g == [i \in 0..n |-> f[i]]
<1>5. g \in [0..n -> A] /\ g[0] = nil
  BY <1>4 DEF Iterates
<1>6. ASSUME NEW i \in 1..n
      PROVE  g[i] = IF g[i - 1] = nil \/ <<seq[i], g[i - 1]>> \in better
                      THEN seq[i] ELSE g[i - 1]
  <2> DEFINE j == i - 1
  <2>1. j \in Nat /\ j \in 0..n - 1 /\ j \in 0..n /\ j + 1 = i /\ i \in 0..n
    OBVIOUS
  <2> HIDE DEF j
  <2>2. f[j + 1] = step[<<f[j], j>>] /\ f[j] \in A
    BY <2>1, <1>4 DEF Iterates
  <2>3. f[j + 1] = IF f[j] = nil \/ <<seq[j + 1], f[j]>> \in better THEN seq[j + 1] ELSE f[j]
    BY <2>1, <2>2, <1>3
  <2>4. g[i] = f[i] /\ g[j] = f[j]
    BY <2>1
  <2> QED
    BY <2>1, <2>3, <2>4 DEF j
<1> HIDE DEF g
<1>7. Eq(g)
  <2>1. \A i \in 0..n : i # 0 => i \in 1..n
    OBVIOUS
  <2> QED
    BY <1>5, <1>6, <2>1
<1>8. Eq(G)
  <2> HIDE DEF Eq
  <2> QED
    BY <1>7
<1> HIDE DEF G
<1>9. /\ G[0] = nil
      /\ \A i \in 1..n : G[i] = IF G[i - 1] = nil \/ <<seq[i], G[i - 1]>> \in better
                                  THEN seq[i] ELSE G[i - 1]
  <2>1. \A i \in 0..n :
           G[i] = IF i = 0 THEN nil
                  ELSE IF G[i - 1] = nil \/ <<seq[i], G[i - 1]>> \in better
                         THEN seq[i] ELSE G[i - 1]
    BY <1>8
  <2>2. 0 \in 0..n /\ \A i \in 1..n : i \in 0..n /\ i # 0
    OBVIOUS
  <2> HIDE DEF n
  <2> QED
    BY <2>1, <2>2, Zenon
<1>10. \A i \in 0..n : G[i] \in A
  <2> DEFINE N == {i \in Nat : i \in 0..n => G[i] \in A}
  <2>1. 0 \in N
    BY <1>2, <1>9
  <2>2. ASSUME NEW i \in Nat, i \in N
        PROVE  i + 1 \in N
    <3> SUFFICES ASSUME i + 1 \in 0..n
                 PROVE  G[i + 1] \in A
      OBVIOUS
    <3>1. i \in 0..n /\ i + 1 \in 1..n /\ (i + 1) - 1 = i
      OBVIOUS
    <3>2. G[i] \in A /\ seq[i + 1] \in A
      BY <2>2, <3>1
    <3>3. G[i + 1] \in {seq[i + 1], G[i]}
      BY <1>9, <3>1
    <3> QED
      BY <3>2, <3>3
  <2>3. \A i \in Nat : i \in N
    <3> HIDE DEF N
    <3> QED
      BY <2>1, <2>2, Induction
  <2> QED
    BY <2>3
<1>11. Bests(G, B, seq, better, nil)
  <2>1. G = [i \in 0..n |-> G[i]]
    BY <1>8
  <2>2. G \in [0..n -> A]
    BY <1>10, <2>1
  <2> QED
    BY <1>9, <2>2 DEF Bests
<1> QED
  BY <1>1, <1>11

\* What better is a strict order of.
StrictlyOrders(better, S) ==
  /\ \A x \in S : <<x, x>> \notin better
  /\ \A x, y, z \in S : <<x, y>> \in better /\ <<y, z>> \in better => <<x, z>> \in better

\* The best of a sequence is in it, and nothing in it is better.
LEMMA BestInIsBest ==
  ASSUME NEW B, NEW seq \in Seq(B), NEW nil, nil \notin B, NEW better,
         StrictlyOrders(better, Range(seq))
  PROVE  LET best == BestIn(seq, better, nil)
         IN  IF seq = <<>> THEN best = nil
             ELSE best \in Range(seq) /\ \A x \in Range(seq) : <<x, best>> \notin better
<1>1. PICK best : Bests(best, B, seq, better, nil) /\ BestIn(seq, better, nil) = best[Len(seq)]
  BY BestInBests
<1> DEFINE n == Len(seq)
           Good(k) == /\ best[k] \in {seq[i] : i \in 1..k}
                      /\ \A i \in 1..k : <<seq[i], best[k]>> \notin better
           N == {k \in Nat : k \in 1..n => Good(k)}
<1>2. \A i \in 1..n : seq[i] \in B /\ seq[i] # nil /\ seq[i] \in Range(seq)
  BY DEF Range
<1>3. best[0] = nil
  BY <1>1 DEF Bests
<1>4. 0 \in N
  OBVIOUS
<1>5. ASSUME NEW k \in Nat, k \in N
      PROVE  k + 1 \in N
  <2> SUFFICES ASSUME k + 1 \in 1..n
               PROVE  Good(k + 1)
    OBVIOUS
  <2> DEFINE e == seq[k + 1]
             b == best[k]
  <2>1. best[k + 1] = IF b = nil \/ <<e, b>> \in better THEN e ELSE b
    <3>1. (k + 1) - 1 = k
      OBVIOUS
    <3> QED
      BY <1>1, <3>1 DEF Bests
  <2>2. \A i \in 1..k + 1 : i \in 1..k \/ i = k + 1
    OBVIOUS
  <2>3. 1..k \subseteq 1..n /\ 1..k \subseteq 1..k + 1 /\ k + 1 \in 1..k + 1
    OBVIOUS
  <2>4. <<e, e>> \notin better
    BY <1>2 DEF StrictlyOrders
  <2>5. CASE k = 0
    <3>1. best[k + 1] = e
      BY <1>3, <2>1, <2>5
    <3>2. \A i \in 1..k + 1 : i = k + 1
      BY <2>5
    <3> QED
      BY <2>3, <2>4, <3>1, <3>2
  <2>6. CASE k # 0
    <3>1. k \in 1..n
      BY <2>6
    <3>2. Good(k)
      BY <1>5, <3>1
    <3>3. PICK j \in 1..k : b = seq[j]
      BY <3>2
    <3>4. b \in Range(seq) /\ b # nil /\ e \in Range(seq)
      BY <1>2, <2>3, <3>3
    <3>5. \A i \in 1..k : seq[i] \in Range(seq)
      BY <1>2, <2>3
    <3>6. CASE <<e, b>> \in better
      <4>1. best[k + 1] = e
        BY <2>1, <3>6
      <4>2. ASSUME NEW i \in 1..k
            PROVE  <<seq[i], e>> \notin better
        <5>1. <<seq[i], b>> \notin better /\ seq[i] \in Range(seq)
          BY <3>2, <3>5
        <5> HIDE DEF e, b
        <5> QED
          BY <3>4, <3>6, <5>1 DEF StrictlyOrders
      <4> HIDE DEF e, b
      <4>3. best[k + 1] \in {seq[i] : i \in 1..k + 1}
        BY <2>3, <4>1 DEF e
      <4> QED
        BY <2>2, <2>4, <4>1, <4>2, <4>3 DEF e
    <3>7. CASE <<e, b>> \notin better
      <4>1. best[k + 1] = b
        BY <2>1, <3>4, <3>7
      <4>2. best[k + 1] \in {seq[i] : i \in 1..k + 1}
        BY <2>3, <3>3, <4>1
      <4>3. \A i \in 1..k : <<seq[i], b>> \notin better
        BY <3>2
      <4> QED
        BY <2>2, <3>7, <4>1, <4>2, <4>3
    <3> QED
      BY <3>6, <3>7
  <2> QED
    BY <2>5, <2>6
<1>6. \A k \in Nat : k \in N
  <2> HIDE DEF N
  <2> QED
    BY <1>4, <1>5, Induction
<1>7. CASE seq = <<>>
  <2>1. n = 0
    BY <1>7
  <2> QED
    BY <1>1, <1>3, <1>7, <2>1
<1>8. CASE seq # <<>>
  <2>1. n \in 1..n /\ n \in Nat
    BY <1>8
  <2>2. Good(n)
    BY <1>6, <2>1
  <2>3. Range(seq) = {seq[i] : i \in 1..n}
    BY DEF Range
  <2> HIDE DEF n
  <2>4. best[n] \in Range(seq) /\ \A x \in Range(seq) : <<x, best[n]>> \notin better
    BY <2>2, <2>3
  <2> QED
    BY <1>1, <1>8, <2>4 DEF n
<1> QED
  BY <1>7, <1>8

=============================================================================
