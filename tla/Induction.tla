----------------------------- MODULE Induction -----------------------------
(***************************************************************************)
(* Induction over numbers, in the form of sets that contain an interval:   *)
(* it comes from the well-founded order on finite sets and takes no        *)
(* operator as a parameter.                                                *)
(***************************************************************************)
EXTENDS Integers, FiniteSets, FiniteSetTheorems, WellFoundedInduction, TLAPS

(* A set of numbers that is not empty has a least one. *)
LEMMA LeastExists ==
  ASSUME NEW T \in SUBSET Nat, T # {}
  PROVE  \E x \in T : \A y \in T : x <= y
<1> DEFINE R == StrictSubsetOrdering(Nat)
           U == {0 .. x : x \in T}
<1>1. IsWellFoundedOn(R, FiniteSubsetsOf(Nat))
  BY FS_StrictSubsetOrderingWellFounded
<1>2. U \subseteq FiniteSubsetsOf(Nat) /\ U # {}
  <2>1. \A x \in T : IsFiniteSet(0 .. x) /\ 0 .. x \subseteq Nat
    BY FS_Interval
  <2> QED
    BY <2>1 DEF FiniteSubsetsOf
<1>3. PICK u \in U : \A v \in U : <<v, u>> \notin R
  <2> HIDE DEF R, U
  <2> QED
    BY <1>1, <1>2, WFMin
<1>4. PICK x \in T : u = 0 .. x
  OBVIOUS
<1>5. ASSUME NEW y \in T, y < x PROVE FALSE
  <2>1. x \in Nat /\ y \in Nat
    OBVIOUS
  <2>2. 0 .. y \subseteq 0 .. x
    BY <1>5, <2>1
  <2>3. x \in 0 .. x /\ x \notin 0 .. y
    BY <1>5, <2>1
  <2>4. <<0 .. y, 0 .. x>> \in R
    BY <2>1, <2>2, <2>3 DEF StrictSubsetOrdering
  <2> QED
    BY <1>3, <1>4, <2>4
<1> QED
  BY <1>5

(* Upward: what holds of a number when it holds of all smaller ones.       *)
LEMMA UpInduction ==
  ASSUME NEW S, NEW M \in Nat,
         \A n \in 0 .. M : (\A m \in 0 .. n - 1 : m \in S) => n \in S
  PROVE  \A n \in 0 .. M : n \in S
<1> SUFFICES ASSUME ~ \A n \in 0 .. M : n \in S PROVE FALSE
  OBVIOUS
<1> DEFINE T == {n \in 0 .. M : n \notin S}
<1>1. PICK x \in T : \A y \in T : x <= y
  <2>1. T # {} /\ T \subseteq Nat
    OBVIOUS
  <2> HIDE DEF T
  <2> QED
    BY <2>1, LeastExists
<1>2. \A m \in 0 .. x - 1 : m \in S
  BY <1>1
<1> QED
  BY <1>1, <1>2

(* Downward: what holds of a number when it holds of all larger ones.      *)
LEMMA DownInduction ==
  ASSUME NEW S, NEW M \in Nat,
         \A n \in 0 .. M : (\A m \in n + 1 .. M : m \in S) => n \in S
  PROVE  \A n \in 0 .. M : n \in S
<1> DEFINE T == {n \in 0 .. M : M - n \in S}
<1>1. ASSUME NEW n \in 0 .. M, \A m \in 0 .. n - 1 : m \in T
      PROVE  n \in T
  <2>1. \A k \in (M - n) + 1 .. M : k \in S
    <3> TAKE k \in (M - n) + 1 .. M
    <3>1. M - k \in 0 .. n - 1 /\ M - (M - k) = k
      OBVIOUS
    <3> QED
      BY <1>1, <3>1
  <2>2. M - n \in 0 .. M
    OBVIOUS
  <2> QED
    BY <2>1, <2>2
<1>2. \A n \in 0 .. M : n \in T
  <2> HIDE DEF T
  <2> QED
    BY <1>1, UpInduction
<1> SUFFICES ASSUME NEW n \in 0 .. M PROVE n \in S
  OBVIOUS
<1>3. M - n \in 0 .. M /\ M - (M - n) = n
  OBVIOUS
<1> QED
  BY <1>2, <1>3

(* Sums of the first weights exist: a recursive definition along an        *)
(* interval has a value.                                                   *)
IsSums(f, w, M) ==
  f \in [0 .. M -> Nat] /\ f[0] = 0 /\ \A i \in 1 .. M : f[i] = f[i - 1] + w[i]

LEMMA SumsExist ==
  ASSUME NEW M \in Nat, NEW w, \A i \in 1 .. M : w[i] \in Nat
  PROVE  \E f : IsSums(f, w, M)
<1> DEFINE S == {k \in 0 .. M : \E f : IsSums(f, w, k)}
<1>1. ASSUME NEW k \in 0 .. M, \A m \in 0 .. k - 1 : m \in S
      PROVE  k \in S
  <2>1. CASE k = 0
    <3> DEFINE e == [n \in 0 .. 0 |-> 0]
    <3>1. IsSums(e, w, 0)
      BY DEF IsSums
    <3> HIDE DEF e
    <3> QED
      BY <2>1, <3>1
  <2>2. CASE k # 0
    <3>1. k - 1 \in 0 .. k - 1 /\ k \in 1 .. M
      BY <2>2
    <3>2. PICK f : IsSums(f, w, k - 1)
      BY <1>1, <3>1
    <3> DEFINE g == [n \in 0 .. k |-> IF n = k THEN f[k - 1] + w[k] ELSE f[n]]
    <3>3. /\ f \in [0 .. k - 1 -> Nat] /\ f[0] = 0 /\ w[k] \in Nat
          /\ \A i \in 1 .. k - 1 : f[i] = f[i - 1] + w[i]
      BY <3>1, <3>2 DEF IsSums
    <3>4. g \in [0 .. k -> Nat] /\ g[0] = 0
      BY <2>2, <3>1, <3>3
    <3>5. ASSUME NEW i \in 1 .. k
          PROVE  g[i] = g[i - 1] + w[i]
      <4>1. g[i - 1] = f[i - 1]
        BY <3>1
      <4>2. CASE i = k
        BY <3>1, <4>1, <4>2
      <4>3. CASE i # k
        <5>1. i \in 1 .. k - 1
          BY <3>1, <4>3
        <5> QED
          BY <3>1, <3>3, <4>1, <4>3, <5>1
      <4> QED
        BY <4>2, <4>3
    <3>6. IsSums(g, w, k)
      <4> HIDE DEF g
      <4> QED
        BY <3>4, <3>5 DEF IsSums
    <3> HIDE DEF g
    <3> QED
      BY <3>6
  <2> QED
    BY <2>1, <2>2
<1>2. \A k \in 0 .. M : k \in S
  <2> HIDE DEF S
  <2> QED
    BY <1>1, UpInduction
<1> QED
  BY <1>2
=============================================================================
