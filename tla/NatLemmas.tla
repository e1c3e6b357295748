------------------------------ MODULE NatLemmas ------------------------------
(***************************************************************************)
(* The least element of a set of numbers, the greatest of a bounded one,   *)
(* and induction: facts the proofs need wherever a definition chooses the  *)
(* first or the last index with a property.  They are about sets, so that  *)
(* they can be used for any property a set can be defined by.              *)
(***************************************************************************)
EXTENDS Integers, FiniteSetsExt, WellFoundedInduction, TLAPS

Less == {p \in Nat \X Nat : p[1] < p[2]}

LEMMA LessIsWellFounded == IsWellFoundedOn(Less, Nat)
<1>1. Less = OpToRel(<, Nat)
  BY DEF OpToRel, Less
<1> QED
  BY <1>1, NatLessThanWellFounded

(* A set of natural numbers that is not empty has a least element. *)
LEMMA Least ==
  ASSUME NEW T, T \subseteq Nat, T # {}
  PROVE  \E i \in T : \A j \in T : i <= j
<1>1. PICK i \in T : \A j \in T : ~(<<j, i>> \in Less)
  BY LessIsWellFounded, WFMin
<1>2. \A j \in T : i <= j
  <2>1. SUFFICES ASSUME NEW j \in T, ~(i <= j)
                 PROVE  FALSE
    OBVIOUS
  <2>2. j < i /\ i \in Nat /\ j \in Nat
    BY <2>1
  <2>3. <<j, i>> \in Less
    BY <2>2 DEF Less
  <2> QED
    BY <1>1, <2>3
<1> QED
  BY <1>2

(* One that is bounded has a greatest. *)
LEMMA Greatest ==
  ASSUME NEW n \in Nat, NEW T, T \subseteq 0 .. n, T # {}
  PROVE  \E i \in T : \A j \in T : j <= i
<1> DEFINE U == {n - i : i \in T}
<1>1. U \subseteq Nat /\ U # {}
  <2>1. \A i \in T : i \in 0 .. n /\ n - i \in Nat
    OBVIOUS
  <2> QED
    BY <2>1
<1>2. PICK u \in U : \A v \in U : u <= v
  <2> HIDE DEF U
  <2> QED
    BY <1>1, Least
<1>3. PICK i \in T : u = n - i
  BY <1>2
<1>4. \A j \in T : j \in 0 .. n /\ u <= n - j
  BY <1>2
<1> HIDE DEF U
<1>5. \A j \in T : j <= i
  BY <1>3, <1>4
<1> QED
  BY <1>5

(* A set of numbers that has 0, and with each number the next, has all. *)
LEMMA Induction ==
  ASSUME NEW T, 0 \in T, \A n \in Nat : n \in T => n + 1 \in T
  PROVE  Nat \subseteq T
<1> DEFINE N == Nat \ T
<1>1. SUFFICES ASSUME N # {}
               PROVE  FALSE
  OBVIOUS
<1>2. N \subseteq Nat
  OBVIOUS
<1>3. PICK s \in N : \A j \in N : s <= j
  <2> HIDE DEF N
  <2> QED
    BY <1>1, <1>2, Least
<1>4. s - 1 \in Nat /\ s - 1 \notin N
  BY <1>3
<1> QED
  BY <1>3, <1>4

(* The least and the greatest index of a set of them. *)
LEMMA MinIndex ==
  ASSUME NEW n \in Nat, NEW T, T \subseteq 0 .. n, T # {}
  PROVE  Min(T) \in T /\ \A j \in T : Min(T) <= j
<1>1. T \subseteq Nat
  OBVIOUS
<1>2. \E i \in T : \A j \in T : i <= j
  BY <1>1, Least
<1> QED
  BY <1>2 DEF Min

LEMMA MaxIndex ==
  ASSUME NEW n \in Nat, NEW T, T \subseteq 0 .. n, T # {}
  PROVE  Max(T) \in T /\ \A j \in T : j <= Max(T)
<1>1. PICK i \in T : \A j \in T : j <= i
  BY Greatest
<1>2. \A j \in T : i >= j
  BY <1>1
<1>3. Max(T) \in T /\ \A j \in T : Max(T) >= j
  BY <1>2 DEF Max
<1> QED
  BY <1>3

(* The same up to a bound. *)
LEMMA UpTo ==
  ASSUME NEW n \in Nat, NEW T, 0 \in T, \A i \in 1 .. n : i - 1 \in T => i \in T
  PROVE  0 .. n \subseteq T
<1> DEFINE U == {i \in Nat : i <= n => i \in T}
<1>1. 0 \in U
  OBVIOUS
<1>2. \A i \in Nat : i \in U => i + 1 \in U
  <2>1. SUFFICES ASSUME NEW i \in Nat, i \in U, i + 1 <= n
                 PROVE  i + 1 \in T
    OBVIOUS
  <2>2. i + 1 \in 1 .. n /\ (i + 1) - 1 = i /\ i \in T
    BY <2>1
  <2> QED
    BY <2>2
<1>3. Nat \subseteq U
  <2> HIDE DEF U
  <2> QED
    BY <1>1, <1>2, Induction
<1> QED
  BY <1>3

(* A function that is defined from one number to the next exists. *)
IsRecursive(f, n, S, b, G) ==
  f \in [0 .. n -> S] /\ f[0] = b /\ \A i \in 1 .. n : f[i] = G[i][f[i - 1]]

LEMMA Recursion ==
  ASSUME NEW n \in Nat, NEW S, NEW b \in S, NEW G \in [1 .. n -> [S -> S]]
  PROVE  \E f : IsRecursive(f, n, S, b, G)
<1> DEFINE Upto(m, f) == f[0] = b /\ \A i \in 1 .. m : f[i] = G[i][f[i - 1]]
           T == {m \in 0 .. n : \E f \in [0 .. m -> S] : Upto(m, f)}
<1>1. 0 \in T
  <2>1. [i \in 0 .. 0 |-> b] \in [0 .. 0 -> S] /\ Upto(0, [i \in 0 .. 0 |-> b])
    OBVIOUS
  <2> HIDE DEF Upto
  <2>2. \E f \in [0 .. 0 -> S] : Upto(0, f)
    BY <2>1
  <2>3. 0 \in 0 .. n
    OBVIOUS
  <2> QED
    BY <2>2, <2>3
<1>2. \A m \in 1 .. n : m - 1 \in T => m \in T
  <2>1. SUFFICES ASSUME NEW m \in 1 .. n, m - 1 \in T
                 PROVE  m \in T
    OBVIOUS
  <2>2. PICK f \in [0 .. m - 1 -> S] : Upto(m - 1, f)
    BY <2>1
  <2> DEFINE g == [i \in 0 .. m |-> IF i < m THEN f[i] ELSE G[m][f[m - 1]]]
  <2>3. f[m - 1] \in S /\ G[m] \in [S -> S] /\ G[m][f[m - 1]] \in S
    OBVIOUS
  <2>4. g \in [0 .. m -> S]
    BY <2>3
  <2>5. \A i \in 0 .. m - 1 : g[i] = f[i]
    OBVIOUS
  <2>6. g[m] = G[m][f[m - 1]]
    OBVIOUS
  <2> HIDE DEF g
  <2>7. \A i \in 1 .. m : g[i] = G[i][g[i - 1]]
    <3>1. SUFFICES ASSUME NEW i \in 1 .. m
                   PROVE  g[i] = G[i][g[i - 1]]
      OBVIOUS
    <3>2. CASE i = m
      BY <2>5, <2>6, <3>2
    <3>3. CASE i < m
      BY <2>2, <2>5, <3>3
    <3> QED
      BY <3>2, <3>3
  <2>8. Upto(m, g)
    BY <2>2, <2>5, <2>7
  <2> HIDE DEF Upto
  <2>9. \E h \in [0 .. m -> S] : Upto(m, h)
    BY <2>4, <2>8
  <2>10. m \in 0 .. n
    OBVIOUS
  <2> QED
    BY <2>9, <2>10
<1>3. 0 .. n \subseteq T
  <2> HIDE DEF T
  <2> QED
    BY <1>1, <1>2, UpTo
<1>4. PICK f \in [0 .. n -> S] : Upto(n, f)
  BY <1>3
<1>5. IsRecursive(f, n, S, b, G)
  BY <1>4 DEF IsRecursive
<1> QED
  BY <1>5

=============================================================================
