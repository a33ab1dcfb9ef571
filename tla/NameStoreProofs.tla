--------------------------- MODULE NameStoreProofs ---------------------------
(***************************************************************************)
(* Proofs about NameStore: numbers go round in order, so the names in the  *)
(* arena lie one after the other, oldest first, from head to cur.          *)
(***************************************************************************)
EXTENDS NameStore, Induction

-----------------------------------------------------------------------------
(* Remainders.                                                             *)

(* r is what is left of a when as many K as fit are taken away. *)
IsRest(a, K, r) == r \in 0 .. K - 1 /\ \E q \in Nat : a = q * K + r

LEMMA RestIsMod ==
  ASSUME NEW a \in Nat, NEW K \in Nat \ {0}, NEW r, IsRest(a, K, r)
  PROVE  a % K = r
BY DEF IsRest

LEMMA ModIsRest ==
  ASSUME NEW a \in Nat, NEW K \in Nat \ {0}
  PROVE  IsRest(a, K, a % K)
<1> DEFINE S == {x \in 0 .. a : \E r \in Nat : IsRest(x, K, r)}
<1>1. ASSUME NEW n \in 0 .. a, \A m \in 0 .. n - 1 : m \in S
      PROVE  n \in S
  <2>1. CASE n < K
    <3>1. n = 0 * K + n /\ n \in 0 .. K - 1
      BY <2>1
    <3>2. \E q \in Nat : n = q * K + n
      <4> WITNESS 0 \in Nat
      <4> QED
        BY <3>1
    <3>3. IsRest(n, K, n)
      BY <3>1, <3>2 DEF IsRest
    <3> QED
      BY <3>3
  <2>2. CASE ~(n < K)
    <3>1. n - K \in 0 .. n - 1
      BY <2>2
    <3>2. PICK r \in Nat : IsRest(n - K, K, r)
      BY <1>1, <3>1
    <3>3. PICK q \in Nat : n - K = q * K + r
      BY <3>2 DEF IsRest
    <3>4. (q + 1) * K = q * K + K /\ q * K \in Nat
      OBVIOUS
    <3>5. n = (q + 1) * K + r /\ q + 1 \in Nat
      BY <3>3, <3>4
    <3> QED
      BY <3>2, <3>5 DEF IsRest
  <2> QED
    BY <2>1, <2>2
<1>2. a \in S
  <2>1. \A n \in 0 .. a : n \in S
    <3> HIDE DEF S
    <3> QED
      BY <1>1, UpInduction
  <2> QED
    BY <2>1
<1>3. PICK r \in Nat : IsRest(a, K, r)
  BY <1>2
<1>4. a % K = r
  BY <1>3, RestIsMod
<1> QED
  BY <1>3, <1>4

(* One turn further is the same place. *)
LEMMA ModTurn ==
  ASSUME NEW a \in Nat, NEW K \in Nat \ {0}
  PROVE  (a + K) % K = a % K
<1>1. PICK r : r = a % K
  OBVIOUS
<1>2. IsRest(a, K, r)
  BY <1>1, ModIsRest
<1>3. PICK q \in Nat : a = q * K + r
  BY <1>2 DEF IsRest
<1>4. (q + 1) * K = q * K + K /\ q * K \in Nat /\ r \in Nat
  BY <1>2 DEF IsRest
<1>5. a + K = (q + 1) * K + r /\ q + 1 \in Nat
  BY <1>3, <1>4
<1>6. IsRest(a + K, K, r)
  BY <1>2, <1>5 DEF IsRest
<1>7. a + K \in Nat
  OBVIOUS
<1>8. (a + K) % K = r
  BY <1>6, <1>7, RestIsMod
<1> QED
  BY <1>1, <1>8

(* Places less than a turn apart are different. *)
LEMMA ModDiffers ==
  ASSUME NEW a \in Nat, NEW b \in Nat, NEW K \in Nat \ {0}, a < b, b - a < K
  PROVE  a % K # b % K
<1>1. PICK r : r = a % K
  OBVIOUS
<1> SUFFICES ASSUME r = b % K PROVE FALSE
  BY <1>1
<1>2. IsRest(a, K, r) /\ IsRest(b, K, r)
  BY <1>1, ModIsRest
<1>3. PICK p \in Nat : a = p * K + r
  BY <1>2 DEF IsRest
<1>4. PICK q \in Nat : b = q * K + r
  BY <1>2 DEF IsRest
<1>5. p * K \in Nat /\ q * K \in Nat /\ r \in Nat
  BY <1>2 DEF IsRest
<1>6. p * K < q * K /\ q * K < p * K + K
  BY <1>3, <1>4, <1>5
<1>7. (p + 1) * K = p * K + K
  OBVIOUS
<1>8. p < q \/ q <= p
  OBVIOUS
<1>9. CASE q <= p
  <2>1. q * K <= p * K
    BY <1>9
  <2> QED
    BY <1>5, <1>6, <2>1
<1>10. CASE p < q
  <2>1. p + 1 <= q /\ p + 1 \in Nat
    BY <1>10
  <2>2. (p + 1) * K <= q * K
    BY <2>1
  <2> QED
    BY <1>5, <1>6, <1>7, <2>2
<1> QED
  BY <1>8, <1>9, <1>10

(* A place is a step on from its own rest. *)
LEMMA ModPlus ==
  ASSUME NEW a \in Nat, NEW b \in Nat, NEW K \in Nat \ {0}
  PROVE  ((a % K) + b) % K = (a + b) % K
<1>1. PICK r : r = a % K
  OBVIOUS
<1>2. IsRest(a, K, r)
  BY <1>1, ModIsRest
<1>3. PICK q \in Nat : a = q * K + r
  BY <1>2 DEF IsRest
<1>4. r \in Nat /\ r + b \in Nat
  BY <1>2 DEF IsRest
<1>5. PICK u : u = (r + b) % K
  OBVIOUS
<1>6. IsRest(r + b, K, u)
  BY <1>4, <1>5, ModIsRest
<1>7. PICK p \in Nat : r + b = p * K + u
  BY <1>6 DEF IsRest
<1>8. q * K \in Nat /\ p * K \in Nat /\ u \in Nat /\ (q + p) * K = q * K + p * K
  BY <1>6 DEF IsRest
<1>9. a + b = (q + p) * K + u /\ q + p \in Nat
  BY <1>3, <1>4, <1>7, <1>8
<1>10. IsRest(a + b, K, u) /\ a + b \in Nat
  <2>1. \E x \in Nat : a + b = x * K + u
    <3> DEFINE x == q + p
    <3>1. a + b = x * K + u /\ x \in Nat
      BY <1>9
    <3> HIDE DEF x
    <3> QED
      BY <3>1
  <2>2. u \in 0 .. K - 1
    BY <1>6 DEF IsRest
  <2> QED
    BY <2>1, <2>2 DEF IsRest
<1>11. (a + b) % K = u
  BY <1>10, RestIsMod
<1> QED
  BY <1>1, <1>5, <1>11

-----------------------------------------------------------------------------
(* The sum over a set of names.                                            *)

(* MapThenSumSet as a recursive function. *)
IsTotal(u, nm, S) ==
  u = [T \in SUBSET S |->
         IF T = {} THEN 0
         ELSE nm[CHOOSE x \in T : TRUE].len + u[T \ {CHOOSE x \in T : TRUE}]]
Total(nm, S) == (CHOOSE u : IsTotal(u, nm, S))[S]

LEMMA SumIsTotal ==
  ASSUME NEW S
  PROVE  MapThenSumSet(LAMBDA s : names[s].len, S) = Total(names, S)
BY DEF MapThenSumSet, MapThenFoldSet, Total, IsTotal

(* The same sum taken in the order of the insertions. *)
Weights(nm, T, M) == [i \in 1 .. M |-> IF i \in T THEN nm[i].len ELSE 0]
Sums(nm, T, M) == CHOOSE f : IsSums(f, Weights(nm, T, M), M)

IsSumOf(f, nm, T, M) ==
  /\ f \in [0 .. M -> Nat] /\ f[0] = 0
  /\ \A i \in 1 .. M : f[i] = f[i - 1] + IF i \in T THEN nm[i].len ELSE 0

LEMMA SumsFacts ==
  ASSUME NEW M \in Nat, NEW nm, \A i \in 1 .. M : nm[i].len \in Nat, NEW T
  PROVE  IsSumOf(Sums(nm, T, M), nm, T, M)
<1> DEFINE w == Weights(nm, T, M)
<1>1. \A i \in 1 .. M : w[i] \in Nat /\ w[i] = IF i \in T THEN nm[i].len ELSE 0
  BY DEF Weights
<1> HIDE DEF w
<1>2. \E f : IsSums(f, w, M)
  BY <1>1, SumsExist
<1>3. IsSums(Sums(nm, T, M), w, M)
  BY <1>2 DEF Sums, w
<1> QED
  BY <1>1, <1>3 DEF IsSums, IsSumOf

LEMMA SumsOfNone ==
  ASSUME NEW M \in Nat, NEW nm, \A i \in 1 .. M : nm[i].len \in Nat
  PROVE  Sums(nm, {}, M)[M] = 0
<1> DEFINE f == Sums(nm, {}, M)
           S == {i \in 0 .. M : f[i] = 0}
<1>0. IsSumOf(f, nm, {}, M)
  BY SumsFacts
<1>1. f[0] = 0 /\ \A i \in 1 .. M : f[i] = f[i - 1] + 0
  <2> HIDE DEF f
  <2> QED
    BY <1>0 DEF IsSumOf
<1> HIDE DEF f
<1>2. ASSUME NEW n \in 0 .. M, \A m \in 0 .. n - 1 : m \in S
      PROVE  n \in S
  <2>1. CASE n = 0
    BY <1>1, <2>1
  <2>2. CASE n # 0
    <3>1. n \in 1 .. M /\ n - 1 \in 0 .. n - 1 /\ n - 1 \in S
      BY <1>2, <2>2
    <3> QED
      BY <1>1, <3>1
  <2> QED
    BY <2>1, <2>2
<1>3. \A n \in 0 .. M : n \in S
  <2> HIDE DEF S
  <2> QED
    BY <1>2, UpInduction
<1> QED
  BY <1>3 DEF f

LEMMA SumsOfLess ==
  ASSUME NEW M \in Nat, NEW nm, \A i \in 1 .. M : nm[i].len \in Nat,
         NEW T \in SUBSET (1 .. M), NEW c \in T
  PROVE  Sums(nm, T, M)[M] = nm[c].len + Sums(nm, T \ {c}, M)[M]
<1> PICK U : U = T \ {c}
  OBVIOUS
<1> DEFINE f == Sums(nm, T, M)
           g == Sums(nm, U, M)
           d(i) == IF c <= i THEN nm[c].len ELSE 0
           S == {i \in 0 .. M : f[i] = g[i] + d(i)}
<1>1. /\ f \in [0 .. M -> Nat] /\ f[0] = 0
      /\ \A i \in 1 .. M : f[i] = f[i - 1] + IF i \in T THEN nm[i].len ELSE 0
  <2>1. IsSumOf(f, nm, T, M)
    BY SumsFacts
  <2> HIDE DEF f
  <2> QED
    BY <2>1 DEF IsSumOf
<1>2. /\ g \in [0 .. M -> Nat] /\ g[0] = 0
      /\ \A i \in 1 .. M : g[i] = g[i - 1] + IF i \in U THEN nm[i].len ELSE 0
  <2>1. IsSumOf(g, nm, U, M)
    BY SumsFacts
  <2> HIDE DEF g
  <2> QED
    BY <2>1 DEF IsSumOf
<1>3. c \in 1 .. M /\ nm[c].len \in Nat
  OBVIOUS
<1>4. \A i \in 1 .. M : i # c => (i \in U <=> i \in T)
  OBVIOUS
<1>5. c \notin U
  OBVIOUS
<1> HIDE DEF f, g
<1>6. ASSUME NEW n \in 0 .. M, \A m \in 0 .. n - 1 : m \in S
      PROVE  n \in S
  <2>1. CASE n = 0
    BY <1>1, <1>2, <1>3, <2>1
  <2>2. CASE n # 0
    <3>1. n \in 1 .. M /\ n - 1 \in 0 .. M /\ f[n - 1] = g[n - 1] + d(n - 1)
      BY <1>6, <2>2
    <3>2. g[n - 1] \in Nat /\ nm[n].len \in Nat
      BY <1>2, <3>1
    <3>3. CASE n = c
      <4>1. /\ f[n] = f[n - 1] + nm[n].len /\ g[n] = g[n - 1] + 0
            /\ d(n) = nm[n].len /\ d(n - 1) = 0
        BY <1>1, <1>2, <1>3, <1>5, <3>1, <3>3
      <4> QED
        BY <3>1, <3>2, <4>1
    <3>4. CASE n # c
      <4>1. d(n) = d(n - 1)
        BY <1>3, <3>1, <3>4
      <4>2. d(n) \in Nat
        BY <1>3
      <4>3. CASE n \in T
        <5>1. f[n] = f[n - 1] + nm[n].len /\ g[n] = g[n - 1] + nm[n].len
          BY <1>1, <1>2, <1>4, <3>1, <3>4, <4>3
        <5> HIDE DEF d
        <5> QED
          BY <3>1, <3>2, <4>1, <4>2, <5>1
      <4>4. CASE n \notin T
        <5>1. f[n] = f[n - 1] + 0 /\ g[n] = g[n - 1] + 0
          BY <1>1, <1>2, <1>4, <3>1, <3>4, <4>4
        <5> HIDE DEF d
        <5> QED
          BY <3>1, <3>2, <4>1, <4>2, <5>1
      <4> QED
        BY <4>3, <4>4
    <3> QED
      BY <3>3, <3>4
  <2> QED
    BY <2>1, <2>2
<1>7. \A n \in 0 .. M : n \in S
  <2> HIDE DEF S
  <2> QED
    BY <1>6, UpInduction
<1>8. f[M] = g[M] + d(M) /\ d(M) = nm[c].len /\ g[M] \in Nat
  BY <1>2, <1>3, <1>7
<1> QED
  BY <1>3, <1>8 DEF f, g

LEMMA TotalIsSums ==
  ASSUME NEW M \in Nat, NEW nm, \A i \in 1 .. M : nm[i].len \in Nat,
         NEW R \in SUBSET (1 .. M)
  PROVE  Total(nm, R) = Sums(nm, R, M)[M]
<1> DEFINE c(T) == CHOOSE x \in T : TRUE
           W(T) == Sums(nm, T, M)[M]
<1>1. \A T \in SUBSET R : T # {} => c(T) \in T /\ W(T) = nm[c(T)].len + W(T \ {c(T)})
  <2> TAKE T \in SUBSET R
  <2> HAVE T # {}
  <2>1. c(T) \in T /\ T \in SUBSET (1 .. M)
    OBVIOUS
  <2> HIDE DEF c
  <2> QED
    BY <2>1, SumsOfLess
<1>2. W({}) = 0
  BY SumsOfNone
<1> HIDE DEF W
<1>3. \E u : IsTotal(u, nm, R)
  <2> DEFINE u == [T \in SUBSET R |-> W(T)]
  <2>1. u = [T \in SUBSET R |-> IF T = {} THEN 0 ELSE nm[c(T)].len + u[T \ {c(T)}]]
    BY <1>1, <1>2
  <2>2. IsTotal(u, nm, R)
    BY <2>1 DEF IsTotal
  <2> HIDE DEF u
  <2> QED
    BY <2>2
<1> DEFINE v == CHOOSE u : IsTotal(u, nm, R)
<1>4. IsTotal(v, nm, R)
  BY <1>3
<1> HIDE DEF v
<1>5. \A T \in SUBSET R : v[T] = IF T = {} THEN 0 ELSE nm[c(T)].len + v[T \ {c(T)}]
  BY <1>4 DEF IsTotal
<1> HIDE DEF c
<1>6. \A T \in SUBSET R : IsFiniteSet(T) /\ Cardinality(T) \in 0 .. M
  <2> TAKE T \in SUBSET R
  <2>1. IsFiniteSet(1 .. M) /\ Cardinality(1 .. M) = M
    BY FS_Interval
  <2>2. T \subseteq 1 .. M
    OBVIOUS
  <2>3. IsFiniteSet(T) /\ Cardinality(T) <= M
    BY <2>1, <2>2, FS_Subset
  <2>4. Cardinality(T) \in Nat
    BY <2>3, FS_CardinalityType
  <2> QED
    BY <2>3, <2>4
<1> DEFINE S == {k \in 0 .. M : \A T \in SUBSET R : Cardinality(T) = k => v[T] = W(T)}
<1>7. ASSUME NEW k \in 0 .. M, \A m \in 0 .. k - 1 : m \in S
      PROVE  k \in S
  <2> SUFFICES ASSUME NEW T \in SUBSET R, Cardinality(T) = k
               PROVE  v[T] = W(T)
    OBVIOUS
  <2>1. CASE T = {}
    BY <1>2, <1>5, <2>1
  <2>2. CASE T # {}
    <3>1. c(T) \in T /\ T \ {c(T)} \in SUBSET R /\ IsFiniteSet(T)
      BY <1>1, <1>6, <2>2
    <3>2. Cardinality(T \ {c(T)}) = k - 1
      BY <3>1, FS_RemoveElement
    <3>3. Cardinality(T \ {c(T)}) \in 0 .. M
      BY <1>6, <3>1
    <3>4. k - 1 \in 0 .. k - 1 /\ k - 1 \in S
      BY <1>7, <3>2, <3>3
    <3>5. v[T \ {c(T)}] = W(T \ {c(T)})
      BY <3>1, <3>2, <3>4
    <3> QED
      BY <1>1, <1>5, <2>2, <3>5
  <2> QED
    BY <2>1, <2>2
<1>8. \A k \in 0 .. M : k \in S
  <2> HIDE DEF S
  <2> QED
    BY <1>7, UpInduction
<1>9. v[R] = W(R)
  BY <1>6, <1>8
<1> QED
  BY <1>9 DEF Total, v, W
-----------------------------------------------------------------------------
(* The invariant.                                                          *)

Count == Cardinality(DOMAIN names)
Round == NumIds - RESERVED_INODES

NamesInv ==
  /\ Count \in 0 .. MaxInserts /\ DOMAIN names = 1 .. Count
  /\ \A s \in 1 .. Count : names[s].id \in 2 .. NumIds - 1 /\ names[s].len \in NameLens

(* Numbers go round in order; a name has the generation of its round.      *)
Handed(s, g) ==
  s - 1 = (g - 1) * Round + (names[s].id - 2) /\ names[s].gen = g % NumGens
TurnInv ==
  /\ gen \in Nat
  /\ Count = 0 => id = 1 /\ gen = 0
  /\ Count # 0 => /\ gen >= 1 /\ id \in 2 .. NumIds - 1
                  /\ Count - 1 = (gen - 1) * Round + (id - 2)
  /\ \A s \in 1 .. Count : \E g \in 1 .. gen : Handed(s, g)

(* The oldest name whose number is not handed out again. *)
Oldest(n) == IF n <= Round THEN 1 ELSE n - Round + 1

(* p[s] is how many bytes of the arena the names before s took: names lie  *)
(* there in the order of their insertion.  The dead names that were given  *)
(* back put head in front of the oldest.                                   *)
Taken(len) == IF Long(len) THEN len ELSE 0
ArenaInv(p) ==
  /\ p \in [1 .. Count + 1 -> Nat] /\ p[1] = 0
  /\ \A s \in 1 .. Count : p[s + 1] = p[s] + Taken(names[s].len)
  /\ \A s, t \in 1 .. Count + 1 : s <= t => p[s] <= p[t]
  /\ cur = p[Count + 1] /\ head = p[Oldest(Count)] + given /\ cur - head < allocsz
  /\ given \in Nat /\ allocsz \in Nat /\ ArenaSz <= allocsz

(* What the entry of name s holds. *)
HoldsName(s, p) ==
  /\ ent[names[s].id].slen = names[s].len
  /\ ~Long(names[s].len) => ent[names[s].id].serial = s
  /\ Long(names[s].len) /\ ~turned => ent[names[s].id].off = p[s] % allocsz
EntriesInv(p) ==
  /\ \A s \in Oldest(Count) .. Count : HoldsName(s, p)
  /\ \A n \in Numbers : ent[n].slen \in Nat

Byte(s, k) == <<s, k>>
BytesInv(p) ==
  ~turned /\ ~overrun =>
    \A s \in Oldest(Count) .. Count : Long(names[s].len) =>
      \A k \in 0 .. names[s].len - 1 : data[(p[s] + k) % allocsz] = Byte(s, k)

Running ==
  /\ NamesInv /\ TurnInv
  /\ \E p : ArenaInv(p) /\ EntriesInv(p) /\ BytesInv(p)
IInv == TypeOK /\ SafeOnNewFiles /\ (~hung => Running)

-----------------------------------------------------------------------------
(* Numbers.                                                                *)

LEMMA Constants ==
  /\ NumIds \in Nat /\ NumGens \in Nat \ {0} /\ NumLens \in Nat /\ Inline \in Nat \ {0}
  /\ ArenaSz \in Nat \ {0} /\ NumLens <= ArenaSz /\ Inline < NumLens /\ MaxInserts \in Nat
  /\ 2 < NumIds /\ Round \in Nat \ {0} /\ NumIds = Round + 2
  /\ \A l \in NameLens : l \in Nat /\ 1 <= l /\ l < NumLens
BY NameStoreAssumption DEF RESERVED_INODES, Round

IdAt(s) == 2 + ((s - 1) % Round)

LEMMA IdsTurn ==
  ASSUME NEW s \in Nat \ {0}
  PROVE  IdAt(s + Round) = IdAt(s)
<1>1. s - 1 \in Nat /\ (s + Round) - 1 = (s - 1) + Round /\ Round \in Nat \ {0}
  BY Constants
<1> QED
  BY <1>1, ModTurn DEF IdAt

LEMMA IdsDiffer ==
  ASSUME NEW s \in Nat \ {0}, NEW t \in Nat \ {0}, s < t, t - s < Round
  PROVE  IdAt(s) # IdAt(t)
<1>1. s - 1 \in Nat /\ t - 1 \in Nat /\ Round \in Nat \ {0} /\ s - 1 < t - 1
      /\ (t - 1) - (s - 1) < Round
  BY Constants
<1> DEFINE x == (s - 1) % Round
           y == (t - 1) % Round
<1>2. x # y
  BY <1>1, ModDiffers
<1>3. x \in Nat /\ y \in Nat
  BY <1>1
<1>4. IdAt(s) = 2 + x /\ IdAt(t) = 2 + y
  BY DEF IdAt
<1> HIDE DEF x, y
<1> QED
  BY <1>2, <1>3, <1>4

(* The next number and the generation it begins or continues.              *)
LEMMA NextInTurn ==
  ASSUME NamesInv, TurnInv
  PROVE  /\ Count = (NextGen(NextId) - 1) * Round + (NextId - 2)
         /\ NextId \in 2 .. NumIds - 1
         /\ NextGen(NextId) \in Nat /\ NextGen(NextId) >= 1
<1>1. /\ Count \in Nat /\ Round \in Nat \ {0} /\ NumIds = Round + 2 /\ 2 < NumIds
      /\ gen \in Nat
  BY Constants DEF NamesInv, TurnInv
<1>2. CASE Count = 0
  <2>1. id = 1 /\ gen = 0 /\ id + 1 = 2
    BY <1>2 DEF TurnInv
  <2>2. 2 % NumIds = 2
    BY <1>1
  <2>3. NextId = 2
    BY <2>1, <2>2 DEF NextId, RESERVED_INODES
  <2>4. NextGen(NextId) = 1
    BY <2>1, <2>3 DEF NextGen, RESERVED_INODES
  <2>5. 0 = (1 - 1) * Round + (2 - 2)
    BY <1>1
  <2> QED
    BY <1>1, <1>2, <2>3, <2>4, <2>5
<1>3. CASE Count # 0
  <2>1. gen >= 1 /\ id \in 2 .. NumIds - 1 /\ Count - 1 = (gen - 1) * Round + (id - 2)
    BY <1>3 DEF TurnInv
  <2>2. (gen - 1) * Round \in Int
    BY <1>1
  <2>3. CASE id + 1 < NumIds
    <3>1. (id + 1) % NumIds = id + 1
      BY <1>1, <2>1, <2>3
    <3>2. NextId = id + 1 /\ NextId # 2
      BY <1>1, <2>1, <3>1 DEF NextId, RESERVED_INODES
    <3>3. NextGen(NextId) = gen
      BY <3>2 DEF NextGen, RESERVED_INODES
    <3>4. Count = (gen - 1) * Round + ((id + 1) - 2)
      <4> DEFINE x == (gen - 1) * Round
      <4>1. x \in Int /\ Count - 1 = x + (id - 2) /\ id \in Int
        BY <2>1, <2>2
      <4> HIDE DEF x
      <4>2. Count = x + ((id + 1) - 2)
        BY <1>1, <4>1
      <4> QED
        BY <4>2 DEF x
    <3> QED
      BY <1>1, <2>1, <2>3, <3>2, <3>3, <3>4
  <2>4. CASE ~(id + 1 < NumIds)
    <3>1. id + 1 = NumIds /\ id - 2 = Round - 1
      BY <1>1, <2>1, <2>4
    <3>2. NumIds % NumIds = 0
      <4>1. NumIds = 1 * NumIds + 0 /\ 0 \in 0 .. NumIds - 1
        BY <1>1
      <4>2. IsRest(NumIds, NumIds, 0)
        BY <4>1 DEF IsRest
      <4> QED
        BY <1>1, <4>2, RestIsMod
    <3>3. NextId = 2
      BY <3>1, <3>2 DEF NextId, RESERVED_INODES
    <3>4. NextGen(NextId) = gen + 1
      BY <3>3 DEF NextGen, RESERVED_INODES
    <3>5. (gen - 1) * Round = gen * Round - Round /\ gen * Round \in Nat
      BY <1>1
    <3>6. Count = gen * Round + (2 - 2)
      <4> DEFINE x == gen * Round
      <4>1. x \in Nat /\ Count - 1 = (x - Round) + (Round - 1)
        BY <2>1, <3>1, <3>5
      <4> HIDE DEF x
      <4>2. Count = x + (2 - 2)
        BY <1>1, <4>1
      <4> QED
        BY <4>2 DEF x
    <3>7. (gen + 1) - 1 = gen
      BY <1>1
    <3> QED
      <4>1. Count = ((gen + 1) - 1) * Round + (2 - 2)
        BY <3>6, <3>7, Zenon
      <4>3. gen + 1 \in Nat /\ gen + 1 >= 1
        BY <1>1
      <4>2. 2 \in 2 .. NumIds - 1
        BY <1>1
      <4> QED
        BY <3>3, <3>4, <4>1, <4>2, <4>3, Zenon
  <2> QED
    BY <2>3, <2>4
<1> QED
  BY <1>2, <1>3

LEMMA IdsInTurn ==
  ASSUME NamesInv, TurnInv
  PROVE  /\ \A s \in 1 .. Count : names[s].id = IdAt(s)
         /\ NextId = IdAt(Count + 1) /\ NextId \in 2 .. NumIds - 1
<1>1. /\ Count \in Nat /\ Round \in Nat \ {0} /\ NumIds = Round + 2 /\ 2 < NumIds
      /\ gen \in Nat
  BY Constants DEF NamesInv, TurnInv
<1>2. ASSUME NEW s \in 1 .. Count
      PROVE  names[s].id = IdAt(s)
  <2>1. PICK g \in 1 .. gen : s - 1 = (g - 1) * Round + (names[s].id - 2)
    BY DEF TurnInv, Handed
  <2> DEFINE r == names[s].id - 2
             q == g - 1
  <2>2. r \in 0 .. Round - 1 /\ q \in Nat /\ names[s].id = 2 + r
    BY <1>1 DEF NamesInv
  <2>3. s - 1 = q * Round + r /\ s - 1 \in Nat
    BY <1>1, <2>1
  <2> HIDE DEF q, r
  <2>4. IsRest(s - 1, Round, r)
    BY <2>2, <2>3 DEF IsRest
  <2>5. (s - 1) % Round = r
    BY <1>1, <2>3, <2>4, RestIsMod
  <2> QED
    BY <2>2, <2>5 DEF IdAt
<1>3. NextId = IdAt(Count + 1) /\ NextId \in 2 .. NumIds - 1
  <2> DEFINE r == NextId - 2
             q == NextGen(NextId) - 1
  <2>1. Count = q * Round + r /\ q \in Nat /\ r \in 0 .. Round - 1 /\ NextId = 2 + r
        /\ NextId \in 2 .. NumIds - 1
    BY <1>1, NextInTurn
  <2> HIDE DEF q, r
  <2>2. IsRest(Count, Round, r)
    BY <2>1 DEF IsRest
  <2>3. Count % Round = r /\ (Count + 1) - 1 = Count
    BY <1>1, <2>2, RestIsMod
  <2> QED
    BY <2>1, <2>3 DEF IdAt
<1> QED
  BY <1>2, <1>3
(* What an insertion does to the history and to the counters. *)
LEMMA InsertionFacts ==
  ASSUME NamesInv, TurnInv, NEW len \in NameLens, NewInode(len)
  PROVE  /\ Count \in Nat /\ Count + 1 <= MaxInserts
         /\ Count' = Count + 1 /\ DOMAIN names' = 1 .. Count + 1
         /\ \A s \in 1 .. Count : names'[s] = names[s]
         /\ names'[Count + 1].id = NextId /\ names'[Count + 1].len = len
         /\ names'[Count + 1].gen = NextGen(NextId) % NumGens
         /\ id' = NextId /\ gen' = NextGen(NextId)
         /\ TakeNumber(NextId, NextGen(NextId)) /\ ~Endless(len, head')
         /\ NextGen(NextId) \in Nat /\ NextGen(NextId) >= 1
<1> DEFINE n == Count + 1
           new == [id |-> NextId, gen |-> NextGen(NextId) % NumGens, len |-> len]
<1>1. Count \in Nat
  BY Constants DEF NamesInv
<1>2. /\ n <= MaxInserts /\ id' = NextId /\ gen' = NextGen(NextId)
      /\ TakeNumber(NextId, NextGen(NextId)) /\ ~Endless(len, head')
      /\ names' = [i \in 1 .. n |-> IF i = n THEN new ELSE names[i]]
  BY DEF NewInode, TakeNumber, Count
<1> HIDE DEF new
<1>3. DOMAIN names' = 1 .. n /\ names'[n] = new /\ \A s \in 1 .. Count : names'[s] = names[s]
  BY <1>1, <1>2
<1>4. Count' = n
  <2>1. Cardinality(1 .. n) = n
    BY <1>1, FS_Interval
  <2> QED
    BY <1>3, <2>1 DEF Count
<1>5. NextGen(NextId) \in Nat /\ NextGen(NextId) >= 1
  BY NextInTurn
<1> QED
  BY <1>1, <1>2, <1>3, <1>4, <1>5 DEF new

LEMMA TurnStep ==
  ASSUME NamesInv, TurnInv, NEW len \in NameLens, NewInode(len)
  PROVE  NamesInv' /\ TurnInv'
<1> PICK n : n = Count + 1
  OBVIOUS
<1> PICK g : g = NextGen(NextId)
  OBVIOUS
<1>1. /\ Count \in Nat /\ n <= MaxInserts /\ Count' = n /\ DOMAIN names' = 1 .. n
      /\ \A s \in 1 .. Count : names'[s] = names[s]
      /\ names'[n].id = NextId /\ names'[n].len = len /\ names'[n].gen = g % NumGens
      /\ id' = NextId /\ gen' = g /\ g \in Nat /\ g >= 1
  BY InsertionFacts
<1>2. NextId \in 2 .. NumIds - 1
  BY IdsInTurn
<1>3. n - 1 = (g - 1) * Round + (NextId - 2)
  BY <1>1, NextInTurn
<1>4. gen \in Nat /\ gen <= g
  BY DEF TurnInv, NextGen
<1>5. NamesInv'
  <2>1. \A s \in 1 .. n : names'[s].id \in 2 .. NumIds - 1 /\ names'[s].len \in NameLens
    <3> TAKE s \in 1 .. n
    <3>1. CASE s = n
      BY <1>1, <1>2, <3>1
    <3>2. CASE s # n
      <4>1. s \in 1 .. Count
        BY <1>1, <3>2
      <4> QED
        BY <1>1, <4>1 DEF NamesInv
    <3> QED
      BY <3>1, <3>2
  <2>2. n \in 0 .. MaxInserts
    BY <1>1, Constants
  <2> QED
    BY <1>1, <2>1, <2>2 DEF NamesInv
<1>6. TurnInv'
  <2>1. \A s \in 1 .. n : \E h \in 1 .. g : Handed(s, h)'
    <3> TAKE s \in 1 .. n
    <3>1. CASE s = n
      <4>1. names'[s].id = NextId /\ names'[s].gen = g % NumGens
            /\ s - 1 = (g - 1) * Round + (NextId - 2)
        BY <1>1, <1>3, <3>1
      <4>2. Handed(s, g)'
        BY <4>1 DEF Handed, Round
      <4>3. g \in 1 .. g
        BY <1>1
      <4> QED
        BY <4>2, <4>3
    <3>2. CASE s # n
      <4>1. s \in 1 .. Count
        BY <1>1, <3>2
      <4>2. PICK h \in 1 .. gen : Handed(s, h)
        BY <4>1 DEF TurnInv
      <4>3. Handed(s, h)'
        BY <1>1, <4>1, <4>2 DEF Handed
      <4>4. h \in 1 .. g
        BY <1>1, <1>4
      <4> QED
        BY <4>3, <4>4
    <3> QED
      BY <3>1, <3>2
  <2>2. n # 0
    BY <1>1
  <2> QED
    BY <1>1, <1>2, <1>3, <2>1, <2>2 DEF TurnInv
<1> QED
  BY <1>5, <1>6

(* A number is in use for one round. *)
LEMMA LiveIs ==
  ASSUME NamesInv, TurnInv
  PROVE  Live = Oldest(Count) .. Count
<1>1. /\ Count \in Nat /\ Round \in Nat \ {0} /\ DOMAIN names = 1 .. Count
      /\ \A s \in 1 .. Count : names[s].id = IdAt(s)
  BY Constants, IdsInTurn DEF NamesInv
<1>2. ASSUME NEW s \in 1 .. Count
      PROVE  s \in Live <=> s \in Oldest(Count) .. Count
  <2>1. CASE s + Round <= Count
    <3>1. s + Round \in 1 .. Count /\ s + Round > s
      BY <1>1, <2>1
    <3>2. names[s + Round].id = names[s].id
      BY <1>1, <3>1, IdsTurn
    <3>3. s \notin Live
      BY <1>1, <3>1, <3>2 DEF Live
    <3>4. s \notin Oldest(Count) .. Count
      BY <1>1, <2>1 DEF Oldest
    <3> QED
      BY <3>3, <3>4
  <2>2. CASE ~(s + Round <= Count)
    <3>1. ASSUME NEW t \in 1 .. Count, t > s
          PROVE  names[t].id # names[s].id
      <4>1. t - s < Round /\ s < t /\ s \in Nat \ {0} /\ t \in Nat \ {0}
        BY <1>1, <2>2, <3>1
      <4> QED
        BY <1>1, <4>1, IdsDiffer
    <3>2. s \in Live
      BY <1>1, <3>1 DEF Live
    <3>3. s \in Oldest(Count) .. Count
      BY <1>1, <2>2 DEF Oldest
    <3> QED
      BY <3>2, <3>3
  <2> QED
    BY <2>1, <2>2
<1>3. Live \subseteq 1 .. Count /\ Oldest(Count) .. Count \subseteq 1 .. Count
  BY <1>1 DEF Live, Oldest
<1> QED
  BY <1>2, <1>3
-----------------------------------------------------------------------------
(* The arena.                                                              *)

LEMMA OldestFacts ==
  ASSUME Count \in Nat
  PROVE  /\ Oldest(Count) \in 1 .. Count + 1 /\ Oldest(Count + 1) \in 1 .. Count + 1
         /\ Oldest(Count) <= Oldest(Count + 1)
         /\ \A s \in Oldest(Count + 1) .. Count : s \in 1 .. Count /\ s \in Oldest(Count) .. Count
BY Constants DEF Oldest

LEMMA Within ==
  ASSUME NEW a \in Nat, NEW b \in Nat, a <= b
  PROVE  /\ 0 .. a - 1 \subseteq 0 .. b - 1
         /\ \A x \in Nat : x < a => x \in 0 .. a - 1
OBVIOUS

(* Names that stay in use do not have the number that is handed out.       *)
LEMMA OthersKeepNumbers ==
  ASSUME NamesInv, TurnInv
  PROVE  \A s \in Oldest(Count + 1) .. Count : names[s].id # NextId
<1> TAKE s \in Oldest(Count + 1) .. Count
<1>1. Count \in Nat /\ Round \in Nat \ {0}
  BY Constants DEF NamesInv
<1>2. s \in 1 .. Count /\ (Count + 1) - s < Round
  BY <1>1, OldestFacts DEF Oldest
<1>3. IdAt(s) # IdAt(Count + 1)
  BY <1>1, <1>2, IdsDiffer
<1> QED
  BY <1>2, <1>3, IdsInTurn

(* In the first round a dead name may be given back, later it is the name  *)
(* at head.                                                                *)
LEMMA HeadMoves ==
  ASSUME NamesInv, TurnInv, NEW p, ArenaInv(p), EntriesInv(p),
         TakeNumber(NextId, NextGen(NextId))
  PROVE  /\ head' = p[Oldest(Count + 1)] + given'
         /\ p[Oldest(Count + 1)] \in Nat /\ p[Oldest(Count + 1)] <= cur
         /\ {head, head', cur, given, given'} \subseteq Nat
         /\ head <= head' /\ given <= given'
<1>1. /\ Count \in Nat /\ Round \in Nat \ {0} /\ Inline \in Nat /\ given \in Nat
      /\ head = p[Oldest(Count)] + given /\ cur = p[Count + 1]
      /\ p \in [1 .. Count + 1 -> Nat]
      /\ \A s, t \in 1 .. Count + 1 : s <= t => p[s] <= p[t]
  BY Constants DEF NamesInv, ArenaInv
<1>2. /\ head' = GiveBack(NextId, NextGen(NextId)) /\ NextGen(NextId) # 0
      /\ given' = IF OfDeadRun(NextId) THEN given + (head' - head) ELSE given
  <2>1. NextGen(NextId) \in Nat /\ NextGen(NextId) >= 1
    BY NextInTurn
  <2> QED
    BY <2>1 DEF TakeNumber
<1>3. /\ NextId = IdAt(Count + 1) /\ NextId \in Numbers
      /\ \A s \in 1 .. Count : names[s].id = IdAt(s)
      /\ DOMAIN names = 1 .. Count
  BY IdsInTurn, Constants DEF Numbers, NamesInv
<1>4. ent[NextId].slen \in Nat
  BY <1>3 DEF EntriesInv
<1>5. /\ Oldest(Count) \in 1 .. Count + 1 /\ Oldest(Count + 1) \in 1 .. Count + 1
      /\ Oldest(Count) <= Oldest(Count + 1) /\ Oldest(Count + 1) <= Count + 1
      /\ Count + 1 \in 1 .. Count + 1
  BY <1>1, OldestFacts
<1>6. p[Oldest(Count)] \in Nat /\ p[Oldest(Count + 1)] \in Nat /\ cur \in Nat /\ head \in Nat
  BY <1>1, <1>5
<1>7. head' = p[Oldest(Count + 1)] + given' /\ given' \in Nat /\ given <= given' /\ head <= head'
  <2>1. CASE Count < Round
    <3>1. OfDeadRun(NextId)
      <4>1. Oldest(Count + 1) = 1
        BY <1>1, <2>1 DEF Oldest
      <4> QED
        BY <1>3, <4>1, OthersKeepNumbers DEF OfDeadRun
    <3>2. given' = given + (head' - head)
      BY <1>2, <3>1
    <3>3. Oldest(Count) = 1 /\ Oldest(Count + 1) = 1
      BY <1>1, <2>1 DEF Oldest
    <3>4. head' \in Nat /\ head <= head'
      <4>1. CASE Long(ent[NextId].slen)
        BY <1>2, <1>4, <1>6, <4>1 DEF GiveBack
      <4>2. CASE ~Long(ent[NextId].slen)
        BY <1>2, <1>6, <4>2 DEF GiveBack
      <4> QED
        BY <4>1, <4>2
    <3> PICK o : o = p[Oldest(Count)]
      OBVIOUS
    <3>5. o \in Nat /\ head = o + given /\ o = p[Oldest(Count + 1)]
      BY <1>1, <1>6, <3>3
    <3>6. given \in Nat /\ head \in Nat
      BY <1>1, <1>6
    <3>7. head' = o + given' /\ given' \in Nat /\ given <= given'
      BY <3>2, <3>4, <3>5, <3>6
    <3> QED
      BY <3>4, <3>5, <3>7
  <2>2. CASE ~(Count < Round)
    <3> DEFINE f == Count - Round + 1
    <3>1. /\ f \in 1 .. Count /\ f \in Nat \ {0} /\ f + Round = Count + 1
          /\ Oldest(Count) = f /\ Oldest(Count + 1) = f + 1
      BY <1>1, <2>2 DEF Oldest
    <3> HIDE DEF f
    <3>2. names[f].id = NextId
      BY <1>3, <3>1, IdsTurn
    <3>3. ent[NextId].slen = names[f].len
      <4>1. f \in Oldest(Count) .. Count
        BY <3>1
      <4>2. HoldsName(f, p)
        BY <4>1 DEF EntriesInv
      <4> QED
        BY <3>2, <4>2 DEF HoldsName
    <3>4. /\ p[f + 1] = p[f] + Taken(names[f].len) /\ head = p[f] + given /\ p[f] \in Nat
          /\ Taken(names[f].len) \in Nat
      <4>1. f \in 1 .. Count + 1
        BY <1>1, <3>1
      <4> QED
        BY <1>1, <1>4, <3>1, <3>3, <4>1 DEF ArenaInv, Taken
    <3>5. head' = head + Taken(names[f].len)
      <4>1. CASE Long(names[f].len)
        BY <1>2, <3>3, <4>1 DEF GiveBack, Taken
      <4>2. CASE ~Long(names[f].len)
        BY <1>2, <1>6, <3>3, <3>4, <4>2 DEF GiveBack, Taken
      <4> QED
        BY <4>1, <4>2
    <3>6. given' = given
      <4>1. ~OfDeadRun(NextId)
        BY <1>3, <3>1, <3>2 DEF OfDeadRun
      <4> QED
        BY <1>2, <4>1
    <3> PICK x, y, z : x = p[f] /\ y = p[f + 1] /\ z = Taken(names[f].len)
      OBVIOUS
    <3>7. x \in Nat /\ z \in Nat /\ y = x + z /\ head = x + given /\ head' = head + z
      BY <3>4, <3>5
    <3>8. head' = y + given /\ head <= head'
      <4>1. given \in Nat
        BY <1>1
      <4> QED
        BY <3>7, <4>1
    <3> QED
      BY <1>1, <3>1, <3>6, <3>8
  <2> QED
    BY <2>1, <2>2
<1>8. p[Oldest(Count + 1)] <= cur
  BY <1>1, <1>5
<1> QED
  BY <1>1, <1>6, <1>7, <1>8

LEMMA RoomIsEnough ==
  ASSUME NEW a \in Nat, NEW h \in Nat, NEW b \in Nat, NEW A \in Nat, NEW len \in Nat,
         h <= b, a - h < A, len < A
  PROVE  /\ a - b < A /\ A \in Nat \ {0} /\ (a + len) - b < 2 * A
         /\ ~(a + len - b >= A) => (a + len) - b < A
OBVIOUS

(* What an insertion does to the arena and to its entry.                   *)
NewEntry(e, len) ==
  /\ e \in [slen: 0 .. NumLens - 1, gen: 0 .. NumGens - 1, off: 0 .. allocsz' - 1,
            serial: 0 .. MaxInserts]
  /\ e.slen = len
  /\ ~Long(len) => e.serial = Count + 1
  /\ Long(len) => e.off = cur % allocsz'

LEMMA ArenaFacts ==
  ASSUME NamesInv, TurnInv, NEW p, ArenaInv(p), EntriesInv(p), NEW len \in NameLens, NewInode(len)
  PROVE  /\ allocsz' \in {allocsz, 2 * allocsz}
         /\ cur' = cur + Taken(len) /\ cur' - head' < allocsz'
         /\ ~turned' => ~turned /\ (allocsz' = allocsz \/ cur <= allocsz)
         /\ turned' => turned \/ cur > allocsz
         /\ (overrun' <=> overrun \/ (Long(len) /\ cur' - (head' - given') > allocsz'))
         /\ \E e : NewEntry(e, len) /\ ent' = [ent EXCEPT ![NextId] = e]
<1>1. /\ Count \in Nat /\ Count + 1 <= MaxInserts /\ head' \in Nat /\ head \in Nat /\ cur \in Nat
      /\ head <= head'
      /\ cur - head < allocsz /\ allocsz \in Nat /\ ArenaSz <= allocsz
      /\ len \in Nat /\ 1 <= len /\ len < NumLens /\ NumLens <= ArenaSz
      /\ NumLens \in Nat /\ ArenaSz \in Nat \ {0} /\ NumGens \in Nat \ {0}
      /\ MaxInserts \in Nat /\ NextGen(NextId) \in Nat
  BY Constants, HeadMoves, InsertionFacts DEF ArenaInv
<1> DEFINE g == NextGen(NextId) % NumGens
           n == Count + 1
<1>2. g \in 0 .. NumGens - 1 /\ n \in 0 .. MaxInserts
  BY <1>1
<1>3. /\ cur - head' < allocsz /\ allocsz \in Nat \ {0} /\ (cur + len) - head' < 2 * allocsz
      /\ ~(cur + len - head' >= allocsz) => (cur + len) - head' < allocsz
  <2>1. len < allocsz
    BY <1>1
  <2> QED
    BY <1>1, <2>1, RoomIsEnough
<1>4. IF Long(len) THEN PutInArena(NextId, NextGen(NextId), n, len)
                   ELSE PutInEntry(NextId, NextGen(NextId), n, len)
  BY DEF NewInode, Count
<1> HIDE DEF g, n
<1>5. CASE Long(len)
  <2> DEFINE size == Room(len, head')
             e == [slen |-> len, gen |-> g, off |-> cur % size, serial |-> 0]
  <2>1. /\ allocsz' = size /\ cur' = cur + len
        /\ turned' = (turned \/ (size # allocsz /\ cur > allocsz))
        /\ overrun' = (overrun \/ cur' - (head' - given') > size)
        /\ ent' = [ent EXCEPT ![NextId] = e]
    BY <1>4, <1>5 DEF PutInArena, g
  <2>2. size \in {allocsz, 2 * allocsz} /\ (cur + len) - head' < size /\ size \in Nat \ {0}
    <3>1. CASE cur + len - head' >= allocsz
      <4>1. size = 2 * allocsz
        BY <3>1 DEF Room
      <4>2. 2 * allocsz \in Nat \ {0}
        BY <1>3
      <4> HIDE DEF size
      <4> QED
        BY <1>3, <4>1, <4>2
    <3>2. CASE ~(cur + len - head' >= allocsz)
      <4>1. size = allocsz
        BY <3>2 DEF Room
      <4> HIDE DEF size
      <4> QED
        BY <1>3, <3>2, <4>1
    <3> QED
      BY <3>1, <3>2
  <2> HIDE DEF size
  <2>3. cur % size \in 0 .. size - 1 /\ len \in 0 .. NumLens - 1 /\ 0 \in 0 .. MaxInserts
    BY <1>1, <2>2
  <2>4. NewEntry(e, len)
    BY <1>2, <1>5, <2>1, <2>3 DEF NewEntry
  <2>5. ~turned' => ~turned /\ (allocsz' = allocsz \/ cur <= allocsz)
    <3>1. allocsz \in Nat /\ cur \in Nat
      BY <1>1
    <3>2. cur > allocsz \/ cur <= allocsz
      BY <3>1
    <3> QED
      BY <2>1, <3>2
  <2> HIDE DEF e
  <2>6. \E x : NewEntry(x, len) /\ ent' = [ent EXCEPT ![NextId] = x]
    BY <2>1, <2>4
  <2> QED
    BY <1>5, <2>1, <2>2, <2>5, <2>6 DEF Taken
<1>6. CASE ~Long(len)
  <2> DEFINE e == [slen |-> len, gen |-> g, off |-> 0, serial |-> n]
  <2>1. ent' = [ent EXCEPT ![NextId] = e] /\ UNCHANGED <<data, allocsz, cur, turned, overrun>>
    BY <1>4, <1>6 DEF PutInEntry, g
  <2>2. len \in 0 .. NumLens - 1 /\ 0 \in 0 .. allocsz' - 1
    BY <1>1, <2>1
  <2>3. NewEntry(e, len)
    BY <1>2, <1>6, <2>2 DEF NewEntry, n
  <2>4. cur' = cur + 0 /\ cur' - head' < allocsz'
    <3>1. cur' = cur /\ allocsz' = allocsz /\ cur + 0 = cur
      BY <1>1, <2>1
    <3> QED
      BY <1>3, <3>1
  <2> HIDE DEF e
  <2>5. \E x : NewEntry(x, len) /\ ent' = [ent EXCEPT ![NextId] = x]
    BY <2>1, <2>3
  <2> QED
    BY <1>6, <2>1, <2>4, <2>5 DEF Taken
<1> QED
  BY <1>5, <1>6

LEMMA SizeFacts ==
  ASSUME NamesInv, TurnInv, NEW p, ArenaInv(p), EntriesInv(p), NEW len \in NameLens, NewInode(len)
  PROVE  allocsz \in Nat \ {0} /\ allocsz' \in Nat \ {0} /\ allocsz <= allocsz'
<1>1. allocsz \in Nat /\ ArenaSz <= allocsz /\ ArenaSz \in Nat \ {0}
  BY Constants DEF ArenaInv
<1>2. allocsz' \in {allocsz, 2 * allocsz}
  BY ArenaFacts
<1> QED
  BY <1>1, <1>2

(* The bytes of a new name, and what it leaves alone.                      *)
LEMMA DataFacts ==
  ASSUME NamesInv, TurnInv, NEW p, ArenaInv(p), EntriesInv(p), NEW len \in NameLens, NewInode(len),
         Long(len)
  PROVE  /\ \A k \in 0 .. len - 1 : data'[(cur + k) % allocsz'] = Byte(Count + 1, k)
         /\ \A c \in 0 .. allocsz' - 1 :
              (\A k \in 0 .. len - 1 : (cur + k) % allocsz' # c) =>
                data'[c] = Extended(allocsz')[c]
         /\ DOMAIN data' = 0 .. allocsz' - 1
<1> PICK size : size = allocsz'
  OBVIOUS
<1> PICK n : n = Count + 1
  OBVIOUS
<1>1. /\ size \in Nat \ {0} /\ len \in Nat /\ len <= size /\ cur \in Nat
  <2>1. /\ allocsz \in Nat /\ ArenaSz <= allocsz /\ ArenaSz \in Nat \ {0}
        /\ len \in Nat /\ len < NumLens /\ NumLens <= ArenaSz /\ NumLens \in Nat
    BY Constants DEF ArenaInv
  <2>2. size \in {allocsz, 2 * allocsz}
    BY ArenaFacts
  <2>3. cur \in Nat
    BY InsertionFacts, HeadMoves
  <2> QED
    BY <2>1, <2>2, <2>3
<1>2. PutInArena(NextId, NextGen(NextId), n, len) /\ size = Room(len, head')
  BY DEF NewInode, Count, PutInArena
<1> DEFINE cell(k) == Cell(cur % size, k, size)
           fresh(c) == \E k \in 0 .. len - 1 : cell(k) = c
           old == Extended(size)
<1>3. data' = [c \in 0 .. size - 1 |->
                 IF fresh(c) THEN <<n, CHOOSE k \in 0 .. len - 1 : cell(k) = c>> ELSE old[c]]
  BY <1>2 DEF PutInArena
<1>4. \A k \in 0 .. len - 1 : cell(k) = (cur + k) % size
  BY <1>1, ModPlus DEF Cell
<1>5. \A k \in 0 .. len - 1 : cell(k) \in 0 .. size - 1
  <2> TAKE k \in 0 .. len - 1
  <2>1. cur + k \in Nat
    BY <1>1
  <2>2. (cur + k) % size \in 0 .. size - 1
    <3>1. IsRest(cur + k, size, (cur + k) % size)
      BY <1>1, <2>1, ModIsRest
    <3> QED
      BY <3>1 DEF IsRest
  <2> QED
    BY <1>4, <2>2
<1>6. \A k, m \in 0 .. len - 1 : cell(k) = cell(m) => k = m
  <2> TAKE k, m \in 0 .. len - 1
  <2>1. /\ cur + k \in Nat /\ cur + m \in Nat
        /\ k < m => cur + k < cur + m /\ (cur + m) - (cur + k) < size
        /\ m < k => cur + m < cur + k /\ (cur + k) - (cur + m) < size
        /\ k < m \/ m < k \/ k = m
    BY <1>1
  <2>2. cell(k) = (cur + k) % size /\ cell(m) = (cur + m) % size
    BY <1>4
  <2>3. k < m => (cur + k) % size # (cur + m) % size
    BY <1>1, <2>1, ModDiffers
  <2>4. m < k => (cur + m) % size # (cur + k) % size
    BY <1>1, <2>1, ModDiffers
  <2> HIDE DEF cell
  <2> QED
    BY <2>1, <2>2, <2>3, <2>4, Zenon
<1> HIDE DEF cell, old
<1>7. \A k \in 0 .. len - 1 : data'[cell(k)] = Byte(n, k)
  <2> TAKE k \in 0 .. len - 1
  <2>1. fresh(cell(k)) /\ (CHOOSE m \in 0 .. len - 1 : cell(m) = cell(k)) = k
    BY <1>6
  <2> QED
    BY <1>3, <1>5, <2>1 DEF Byte
<1>8. \A c \in 0 .. size - 1 : (\A k \in 0 .. len - 1 : (cur + k) % size # c) => data'[c] = old[c]
  BY <1>3, <1>4
<1> QED
  BY <1>3, <1>4, <1>7, <1>8 DEF old
(* p with the place where the next name will begin. *)
LEMMA ArenaStep ==
  ASSUME NamesInv, TurnInv, NEW p, ArenaInv(p), EntriesInv(p), NEW len \in NameLens, NewInode(len)
  PROVE  \E q : /\ ArenaInv(q)' /\ q[Count + 1] = cur
                /\ \A s \in 1 .. Count + 1 : q[s] = p[s]
<1> PICK n : n = Count + 1
  OBVIOUS
<1>1. /\ n \in Nat /\ n >= 1 /\ Count' = n /\ n - 1 = Count /\ n \in 1 .. n
      /\ \A s \in 1 .. Count : names'[s] = names[s]
      /\ names'[n].len = len
  BY InsertionFacts
<1>2. /\ p \in [1 .. n -> Nat] /\ p[1] = 0 /\ cur = p[n]
      /\ \A s \in 1 .. Count : p[s + 1] = p[s] + Taken(names[s].len)
      /\ \A s, t \in 1 .. n : s <= t => p[s] <= p[t]
      /\ allocsz \in Nat /\ ArenaSz <= allocsz
  BY DEF ArenaInv
<1>3. /\ allocsz' \in {allocsz, 2 * allocsz} /\ cur' = cur + Taken(len) /\ cur' - head' < allocsz'
      /\ head' = p[Oldest(n)] + given' /\ given' \in Nat /\ Oldest(n) \in 1 .. n
  BY <1>1, ArenaFacts, InsertionFacts, HeadMoves, OldestFacts
<1>4. Taken(len) \in Nat
  BY Constants DEF Taken
<1> PICK top : top = cur + Taken(len)
  OBVIOUS
<1> DEFINE q == [s \in 1 .. n + 1 |-> IF s = n + 1 THEN top ELSE p[s]]
<1>5. top \in Nat /\ cur \in Nat /\ cur <= top
  BY <1>1, <1>2, <1>4
<1>6. /\ q \in [1 .. n + 1 -> Nat] /\ q[n + 1] = top
      /\ \A s \in 1 .. n : q[s] = p[s]
  BY <1>1, <1>2, <1>5
<1> HIDE DEF q
<1>7. \A s \in 1 .. n : q[s + 1] = q[s] + Taken(names'[s].len)
  <2> TAKE s \in 1 .. n
  <2>1. CASE s = n
    BY <1>1, <1>2, <1>6, <2>1
  <2>2. CASE s # n
    <3>1. s \in 1 .. Count /\ s + 1 \in 1 .. n
      BY <1>1, <2>2
    <3> QED
      BY <1>1, <1>2, <1>6, <3>1
  <2> QED
    BY <2>1, <2>2
<1>8. \A s, t \in 1 .. n + 1 : s <= t => q[s] <= q[t]
  <2> SUFFICES ASSUME NEW s \in 1 .. n + 1, NEW t \in 1 .. n + 1, s <= t
               PROVE  q[s] <= q[t]
    OBVIOUS
  <2>1. CASE t = n + 1
    <3>1. CASE s = n + 1
      BY <1>5, <1>6, <2>1, <3>1
    <3>2. CASE s # n + 1
      <4>1. s \in 1 .. n /\ s <= n
        BY <1>1, <3>2
      <4>2. q[s] = p[s] /\ p[s] <= cur /\ p[s] \in Nat
        BY <1>1, <1>2, <1>6, <4>1
      <4> QED
        BY <1>5, <1>6, <2>1, <4>2
    <3> QED
      BY <3>1, <3>2
  <2>2. CASE t # n + 1
    <3>1. s \in 1 .. n /\ t \in 1 .. n
      BY <1>1, <2>2
    <3> QED
      BY <1>2, <1>6, <3>1
  <2> QED
    BY <2>1, <2>2
<1>9. allocsz' \in Nat /\ ArenaSz <= allocsz'
  <2>1. allocsz \in Nat /\ allocsz' \in Nat /\ allocsz <= allocsz' /\ ArenaSz \in Nat
    BY SizeFacts, Constants
  <2> QED
    BY <1>2, <2>1
<1>10. q[1] = 0 /\ cur' = q[n + 1] /\ head' = q[Oldest(n)] + given'
  <2>1. 1 \in 1 .. n /\ n + 1 \in 1 .. n + 1 /\ ~(n + 1 <= n)
    BY <1>1
  <2>2. Oldest(n) \in 1 .. n
    BY <1>3
  <2>3. q[1] = 0
    BY <1>1, <1>2, <1>6, <2>1
  <2>4. cur' = q[n + 1]
    BY <1>3, <1>6
  <2>5. head' = q[Oldest(n)] + given'
    BY <1>1, <1>3, <1>6, <2>2
  <2> QED
    BY <2>3, <2>4, <2>5
<1>11. Oldest(Count)' = Oldest(n)
  BY <1>1 DEF Oldest, Round
<1>12. ArenaInv(q)'
  BY <1>1, <1>3, <1>6, <1>7, <1>8, <1>9, <1>10, <1>11 DEF ArenaInv, Taken, Long
<1>13. q[Count + 1] = cur /\ \A s \in 1 .. Count + 1 : q[s] = p[s]
  BY <1>1, <1>2, <1>6
<1> QED
  BY <1>12, <1>13

LEMMA NewEntryStep ==
  ASSUME TypeOK, NamesInv, TurnInv, NEW p, ArenaInv(p), EntriesInv(p),
         NEW len \in NameLens, NewInode(len)
  PROVE  \E e : /\ NewEntry(e, len) /\ ent'[NextId] = e
                /\ \A m \in Numbers : m # NextId => ent'[m] = ent[m]
<1>1. PICK e : NewEntry(e, len) /\ ent' = [ent EXCEPT ![NextId] = e]
  BY ArenaFacts
<1>2. DOMAIN ent = Numbers /\ NextId \in Numbers
  <2>1. NextId \in 2 .. NumIds - 1
    BY IdsInTurn
  <2>2. NextId \in Numbers
    BY <2>1, Constants DEF Numbers
  <2> QED
    BY <2>2 DEF TypeOK
<1> QED
  BY <1>1, <1>2

(* Where the bytes of a name lie does not change, unless the arena grows   *)
(* after chunks have gone round its end.                                   *)
LEMMA PlacesStay ==
  ASSUME NamesInv, TurnInv, NEW p, ArenaInv(p), EntriesInv(p), NEW len \in NameLens, NewInode(len),
         ~turned'
  PROVE  /\ ~turned
         /\ \A x \in Nat : x < cur =>
              x % allocsz' = x % allocsz /\ (x % allocsz) \in 0 .. allocsz - 1
<1>1. /\ ~turned /\ (allocsz' = allocsz \/ cur <= allocsz)
      /\ cur \in Nat /\ allocsz \in Nat \ {0} /\ allocsz' \in Nat \ {0} /\ allocsz <= allocsz'
  BY ArenaFacts, InsertionFacts, HeadMoves, SizeFacts
<1> SUFFICES ASSUME NEW x \in Nat, x < cur
             PROVE  x % allocsz' = x % allocsz /\ (x % allocsz) \in 0 .. allocsz - 1
  BY <1>1
<1>2. (x % allocsz) \in 0 .. allocsz - 1
  <2>1. IsRest(x, allocsz, x % allocsz)
    BY <1>1, ModIsRest
  <2> QED
    BY <2>1 DEF IsRest
<1>3. CASE allocsz' = allocsz
  BY <1>2, <1>3
<1>4. CASE cur <= allocsz
  <2>1. x \in 0 .. allocsz - 1 /\ x \in 0 .. allocsz' - 1
    <3>1. x < allocsz
      BY <1>1, <1>4
    <3> QED
      BY <1>1, <3>1, Within
  <2>2. \A A \in Nat \ {0} : x \in 0 .. A - 1 => x % A = x
    OBVIOUS
  <2>3. x % allocsz = x
    BY <1>1, <2>1, <2>2
  <2>4. x % allocsz' = x
    BY <1>1, <2>1, <2>2
  <2> QED
    BY <1>2, <2>3, <2>4
<1> QED
  BY <1>1, <1>3, <1>4

(* A long name lies before cur and, while it is in use, not before head.   *)
LEMMA NamePlace ==
  ASSUME NamesInv, NEW p, ArenaInv(p), NEW s \in 1 .. Count, Long(names[s].len)
  PROVE  /\ p[s] \in Nat /\ names[s].len \in Nat /\ 1 <= names[s].len
         /\ p[s] + names[s].len <= cur
         /\ \A o \in 1 .. s : p[o] \in Nat /\ p[o] <= p[s]
<1>1. Count \in Nat /\ names[s].len \in Nat /\ 1 <= names[s].len
  BY Constants DEF NamesInv
<1>2. s \in 1 .. Count + 1 /\ s + 1 \in 1 .. Count + 1 /\ Count + 1 \in 1 .. Count + 1
      /\ s + 1 <= Count + 1
  BY <1>1
<1>3. /\ p[s] \in Nat /\ p[s + 1] = p[s] + names[s].len /\ p[s + 1] <= p[Count + 1]
      /\ cur = p[Count + 1]
  BY <1>1, <1>2 DEF ArenaInv, Taken
<1>4. \A o \in 1 .. s : p[o] \in Nat /\ p[o] <= p[s]
  <2> TAKE o \in 1 .. s
  <2>1. o \in 1 .. Count + 1 /\ o <= s
    BY <1>1
  <2> QED
    BY <1>2, <2>1 DEF ArenaInv
<1> QED
  BY <1>1, <1>3, <1>4

LEMMA EntriesStep ==
  ASSUME TypeOK, NamesInv, TurnInv, NEW p, ArenaInv(p), EntriesInv(p),
         NEW len \in NameLens, NewInode(len),
         NEW q, q[Count + 1] = cur, \A s \in 1 .. Count + 1 : q[s] = p[s]
  PROVE  EntriesInv(q)'
<1> PICK n : n = Count + 1
  OBVIOUS
<1>1. /\ Count \in Nat /\ Count' = n /\ n \in Nat \ {0} /\ n - 1 = Count
      /\ \A s \in 1 .. Count : names'[s] = names[s]
      /\ names'[n].id = NextId /\ names'[n].len = len
  BY InsertionFacts
<1>2. PICK e : NewEntry(e, len) /\ ent'[NextId] = e
               /\ \A m \in Numbers : m # NextId => ent'[m] = ent[m]
  BY NewEntryStep
<1>3. \A s \in 1 .. Count : names[s].id \in Numbers
  BY DEF NamesInv, Numbers
<1>4. Oldest(Count)' = Oldest(n)
  BY <1>1 DEF Oldest, Round
<1>5. \A s \in Oldest(n) .. n : HoldsName(s, q)'
  <2> TAKE s \in Oldest(n) .. n
  <2>1. CASE s = n
    <3>1. /\ names'[s].id = NextId /\ names'[s].len = len /\ q[s] = cur
          /\ e.slen = len /\ (~Long(len) => e.serial = s) /\ (Long(len) => e.off = cur % allocsz')
      BY <1>1, <1>2, <2>1 DEF NewEntry
    <3> QED
      BY <1>2, <3>1 DEF HoldsName, Long
  <2>2. CASE s # n
    <3>1. s \in Oldest(Count + 1) .. Count
      BY <1>1, <2>2, OldestFacts
    <3>2. s \in 1 .. Count /\ s \in Oldest(Count) .. Count /\ s \in 1 .. Count + 1
      BY <1>1, <3>1, OldestFacts
    <3>3. names[s].id # NextId
      BY <3>1, OthersKeepNumbers
    <3>4. ent'[names'[s].id] = ent[names[s].id] /\ names'[s] = names[s] /\ q[s] = p[s]
      BY <1>1, <1>2, <1>3, <3>2, <3>3
    <3>5. HoldsName(s, p)
      BY <3>2 DEF EntriesInv
    <3>6. ASSUME Long(names[s].len), ~turned'
          PROVE  ent[names[s].id].off = p[s] % allocsz'
      <4>1. p[s] \in Nat /\ p[s] < cur
        <5>1. /\ p[s] \in Nat /\ names[s].len \in Nat /\ 1 <= names[s].len
              /\ p[s] + names[s].len <= cur
          BY <3>2, <3>6, NamePlace
        <5>2. cur \in Nat
          BY InsertionFacts, HeadMoves
        <5> QED
          BY <5>1, <5>2
      <4>2. ~turned /\ p[s] % allocsz' = p[s] % allocsz
        BY <3>6, <4>1, PlacesStay
      <4> QED
        BY <3>5, <3>6, <4>2 DEF HoldsName
    <3> QED
      BY <3>4, <3>5, <3>6 DEF HoldsName, Long
  <2> QED
    BY <2>1, <2>2
<1>6. \A m \in Numbers : ent'[m].slen \in Nat
  <2> TAKE m \in Numbers
  <2>1. CASE m = NextId
    <3>1. e.slen = len /\ len \in Nat
      BY <1>2, Constants DEF NewEntry
    <3> QED
      BY <1>2, <2>1, <3>1
  <2>2. CASE m # NextId
    BY <1>2, <2>2 DEF EntriesInv
  <2> QED
    BY <2>1, <2>2
<1> QED
  BY <1>1, <1>4, <1>5, <1>6 DEF EntriesInv, Numbers

LEMMA BytesStep ==
  ASSUME TypeOK, NamesInv, TurnInv, NEW p, ArenaInv(p), EntriesInv(p), BytesInv(p),
         NEW len \in NameLens, NewInode(len),
         NEW q, q[Count + 1] = cur, \A s \in 1 .. Count + 1 : q[s] = p[s]
  PROVE  BytesInv(q)'
<1> PICK n : n = Count + 1
  OBVIOUS
<1>1. /\ Count \in Nat /\ Count' = n /\ n \in Nat \ {0} /\ n - 1 = Count
      /\ \A s \in 1 .. Count : names'[s] = names[s]
      /\ names'[n].id = NextId /\ names'[n].len = len
  BY InsertionFacts
<1>2. Oldest(Count)' = Oldest(n)
  BY <1>1 DEF Oldest, Round
<1> PICK first : first = p[Oldest(n)]
  OBVIOUS
<1>3. /\ cur \in Nat /\ first \in Nat /\ first <= cur /\ head' - given' = first
      /\ allocsz \in Nat \ {0} /\ allocsz' \in Nat \ {0} /\ allocsz <= allocsz'
      /\ cur' = cur + Taken(len)
      /\ (overrun' <=> overrun \/ (Long(len) /\ cur' - first > allocsz'))
  <2>1. Oldest(n) = Oldest(Count + 1)
    OBVIOUS
  <2>2. /\ cur \in Nat /\ first \in Nat /\ head' = first + given' /\ given' \in Nat
        /\ first <= cur
    BY InsertionFacts, HeadMoves
  <2>3. head' - given' = first
    BY <2>2
  <2> QED
    BY <2>2, <2>3, ArenaFacts, SizeFacts
<1> SUFFICES ASSUME ~turned', ~overrun', NEW s \in Oldest(n) .. n, Long(names'[s].len),
                    NEW k \in 0 .. names'[s].len - 1
             PROVE  data'[(q[s] + k) % allocsz'] = Byte(s, k)
  BY <1>1, <1>2 DEF BytesInv, Long
<1>4. CASE s = n
  <2>1. names'[s].len = len /\ q[s] = cur /\ Long(len)
    BY <1>1, <1>4
  <2> QED
    BY <1>4, <2>1, DataFacts
<1>5. CASE s # n
  <2>1. s \in Oldest(Count + 1) .. Count
    BY <1>1, <1>5, OldestFacts
  <2>2. /\ s \in 1 .. Count /\ s \in Oldest(Count) .. Count /\ s \in 1 .. Count + 1
        /\ Oldest(n) \in 1 .. s
    BY <1>1, <2>1, OldestFacts
  <2>3. names'[s] = names[s] /\ q[s] = p[s] /\ Long(names[s].len)
    BY <1>1, <2>2
  <2>4. /\ p[s] \in Nat /\ names[s].len \in Nat /\ p[s] + names[s].len <= cur
        /\ first <= p[s]
    BY <1>3, <2>2, <2>3, NamePlace
  <2> PICK x : x = p[s] + k
    OBVIOUS
  <2>5. x \in Nat /\ x < cur /\ first <= x
    BY <1>3, <2>3, <2>4
  <2>6. ~turned /\ x % allocsz' = x % allocsz /\ (x % allocsz) \in 0 .. allocsz - 1
    BY <2>5, PlacesStay
  <2>7. data[x % allocsz] = Byte(s, k)
    BY <1>3, <2>2, <2>3, <2>6 DEF BytesInv
  <2> PICK c : c = x % allocsz
    OBVIOUS
  <2>8. c \in 0 .. allocsz - 1 /\ c \in 0 .. allocsz' - 1 /\ data[c] = Byte(s, k)
    BY <1>3, <2>6, <2>7
  <2>9. data'[c] = data[c]
    <3>1. CASE Long(len)
      <4>1. \A m \in 0 .. len - 1 : (cur + m) % allocsz' # c
        <5> TAKE m \in 0 .. len - 1
        <5>1. len \in Nat /\ Taken(len) = len
          BY <3>1, Constants DEF Taken
        <5>2. x < cur + m /\ (cur + m) - x < allocsz' /\ cur + m \in Nat /\ allocsz' \in Nat \ {0}
          <6>1. (cur + len) - first <= allocsz'
            BY <1>3, <3>1, <5>1
          <6> QED
            BY <1>3, <2>5, <5>1, <6>1
        <5>3. x % allocsz' # (cur + m) % allocsz'
          BY <2>5, <5>2, ModDiffers
        <5> QED
          BY <2>6, <5>3
      <4>2. data'[c] = Extended(allocsz')[c]
        BY <2>8, <3>1, <4>1, DataFacts
      <4>3. c \in DOMAIN data
        BY <2>8 DEF TypeOK
      <4> QED
        BY <2>8, <4>2, <4>3 DEF Extended
    <3>2. CASE ~Long(len)
      BY <3>2 DEF NewInode, PutInEntry
    <3> QED
      BY <3>1, <3>2
  <2> QED
    BY <2>3, <2>6, <2>8, <2>9
<1> QED
  BY <1>4, <1>5

LEMMA TypeStep ==
  ASSUME TypeOK, NamesInv, TurnInv, NEW p, ArenaInv(p), EntriesInv(p),
         NEW len \in NameLens, NewInode(len)
  PROVE  TypeOK'
<1>1. /\ id' = NextId /\ gen' = NextGen(NextId) /\ gen' \in Nat /\ NextId \in 2 .. NumIds - 1
  BY InsertionFacts, IdsInTurn
<1>2. cur \in Nat /\ cur' = cur + Taken(len) /\ Taken(len) \in Nat
  BY InsertionFacts, HeadMoves, ArenaFacts, Constants DEF Taken
<1>3. head' \in Nat /\ given' \in Nat /\ head' - given' \in 0 .. cur'
  <2> PICK first : first = p[Oldest(Count + 1)]
    OBVIOUS
  <2>1. head' = first + given' /\ first \in Nat /\ first <= cur /\ {head', given'} \subseteq Nat
    BY InsertionFacts, HeadMoves
  <2> QED
    BY <1>2, <2>1
<1>7. {hung', turned', overrun'} \subseteq BOOLEAN
  <2>1. hung' = FALSE
    BY DEF NewInode
  <2>2. turned' \in BOOLEAN /\ overrun' \in BOOLEAN
    <3>1. CASE Long(len)
      BY <3>1 DEF NewInode, PutInArena
    <3>2. CASE ~Long(len)
      BY <3>2 DEF NewInode, PutInEntry, TypeOK
    <3> QED
      BY <3>1, <3>2
  <2> QED
    BY <2>1, <2>2
<1>4. allocsz \in Nat /\ allocsz' \in Nat /\ allocsz <= allocsz'
  BY SizeFacts
<1>5. DOMAIN data' = 0 .. allocsz' - 1
  <2>1. CASE Long(len)
    BY <2>1, DataFacts
  <2>2. CASE ~Long(len)
    BY <2>2 DEF NewInode, PutInEntry, TypeOK
  <2> QED
    BY <2>1, <2>2
<1>6. ent' \in [Numbers -> [slen: 0 .. NumLens - 1, gen: 0 .. NumGens - 1,
                            off: 0 .. allocsz' - 1, serial: 0 .. MaxInserts]]
  <2> DEFINE Old == [slen: 0 .. NumLens - 1, gen: 0 .. NumGens - 1,
                     off: 0 .. allocsz - 1, serial: 0 .. MaxInserts]
             New == [slen: 0 .. NumLens - 1, gen: 0 .. NumGens - 1,
                     off: 0 .. allocsz' - 1, serial: 0 .. MaxInserts]
  <2>1. Old \subseteq New
    <3>1. 0 .. allocsz - 1 \subseteq 0 .. allocsz' - 1
      BY <1>4, Within
    <3> QED
      BY <3>1
  <2>2. PICK e : NewEntry(e, len) /\ ent' = [ent EXCEPT ![NextId] = e]
    BY ArenaFacts
  <2>3. e \in New
    BY <2>2 DEF NewEntry
  <2>4. ent \in [Numbers -> Old]
    BY DEF TypeOK
  <2> HIDE DEF Old, New
  <2>5. ent' \in [Numbers -> New]
    BY <2>1, <2>2, <2>3, <2>4
  <2> QED
    BY <2>5 DEF New
<1>8. id' \in 1 .. NumIds - 1 /\ id' # 1
  BY <1>1, Constants
<1> QED
  BY <1>1, <1>3, <1>5, <1>6, <1>7, <1>8 DEF TypeOK, Numbers

-----------------------------------------------------------------------------
(* Theorems.                                                               *)

LEMMA NamesInit == Init => IInv
<1> SUFFICES ASSUME Init PROVE IInv
  OBVIOUS
<1>1. Count = 0 /\ DOMAIN names = {} /\ 1 .. 0 = {}
  <2>1. DOMAIN names = {}
    BY DEF Init
  <2> QED
    BY <2>1, FS_EmptySet DEF Count
<1>2. NamesInv /\ TurnInv
  BY <1>1, Constants DEF NamesInv, TurnInv, Init
<1>3. TypeOK
  <2>1. id = 1 /\ gen = 0 /\ head = 0 /\ cur = 0 /\ given = 0 /\ allocsz = ArenaSz
    BY DEF Init
  <2>2. id \in 1 .. NumIds - 1 /\ gen \in Nat /\ {head, given} \subseteq Nat
        /\ head - given \in 0 .. cur
    BY <2>1, Constants
  <2>3. {hung, turned, overrun} \subseteq BOOLEAN /\ DOMAIN data = 0 .. allocsz - 1
    BY DEF Init
  <2>4. /\ 0 \in 0 .. NumLens - 1 /\ 0 \in 0 .. NumGens - 1 /\ 0 \in 0 .. ArenaSz - 1
        /\ 0 \in 0 .. MaxInserts
    BY Constants
  <2>5. PICK last \in 1 .. FirstTotal - 1 : \E old \in [2 .. last -> NameLens] :
          ent = [m \in Numbers |-> [slen |-> IF m \in 2 .. last THEN old[m] ELSE 0,
                                   gen |-> 0, off |-> 0, serial |-> 0]]
    BY DEF Init
  <2>6. PICK old \in [2 .. last -> NameLens] :
          ent = [m \in Numbers |-> [slen |-> IF m \in 2 .. last THEN old[m] ELSE 0,
                                   gen |-> 0, off |-> 0, serial |-> 0]]
    BY <2>5
  <2>7. \A m \in 2 .. last : old[m] \in 0 .. NumLens - 1
    <3> TAKE m \in 2 .. last
    <3>1. old[m] \in NameLens
      BY <2>6
    <3> QED
      BY <3>1, Constants
  <2>8. ent \in [Numbers -> [slen: 0 .. NumLens - 1, gen: 0 .. NumGens - 1,
                             off: 0 .. ArenaSz - 1, serial: 0 .. MaxInserts]]
    BY <2>4, <2>6, <2>7
  <2> QED
    BY <2>1, <2>2, <2>3, <2>8 DEF TypeOK
<1> DEFINE z == [s \in 1 .. 1 |-> 0]
<1>4. ArenaInv(z)
  <2>1. z \in [1 .. 1 -> Nat] /\ z[1] = 0 /\ \A s, t \in 1 .. 1 : z[s] <= z[t]
    OBVIOUS
  <2>2. Oldest(0) = 1
    BY Constants DEF Oldest
  <2> HIDE DEF z
  <2>3. /\ Count = 0 /\ 0 + 1 = 1 /\ cur = 0 /\ head = 0 /\ given = 0
        /\ allocsz = ArenaSz /\ ArenaSz \in Nat \ {0}
    BY <1>1, Constants DEF Init
  <2> QED
    BY <1>1, <2>1, <2>2, <2>3 DEF ArenaInv
<1>5. EntriesInv(z) /\ BytesInv(z)
  <2>1. Oldest(Count) .. Count = {}
    BY <1>1, Constants DEF Oldest
  <2>2. \A m \in Numbers : ent[m].slen \in Nat
    <3> TAKE m \in Numbers
    <3>1. ent[m].slen \in 0 .. NumLens - 1
      BY <1>3 DEF TypeOK
    <3> QED
      BY <3>1
  <2> QED
    BY <2>1, <2>2 DEF EntriesInv, BytesInv
<1> HIDE DEF z
<1>6. SafeOnNewFiles
  BY DEF Init, SafeOnNewFiles
<1> QED
  BY <1>2, <1>3, <1>4, <1>5, <1>6 DEF IInv, Running

(* Only a chunk taken, or a head moved, by a dead name does harm; and the  *)
(* arena goes round only when it was given back a name of its own.         *)
LEMMA SafeStep ==
  ASSUME SafeOnNewFiles, NamesInv, TurnInv, NEW p, ArenaInv(p), EntriesInv(p),
         NEW len \in NameLens, NewInode(len)
  PROVE  SafeOnNewFiles'
<1> SUFFICES ASSUME given' = 0
             PROVE  ~hung' /\ ~overrun' /\ (turned' => gen' > 1)
  BY DEF SafeOnNewFiles
<1> PICK old, new : old = p[Oldest(Count)] /\ new = p[Oldest(Count + 1)]
  OBVIOUS
<1>1. /\ head' = new + given' /\ new \in Nat /\ {head, head', cur, given, given'} \subseteq Nat
      /\ given <= given'
  BY InsertionFacts, HeadMoves
<1>2. given = 0
  BY <1>1
<1>3. ~overrun /\ (turned => gen > 1)
  BY <1>2 DEF SafeOnNewFiles
<1>4. /\ cur' = cur + Taken(len) /\ cur' - head' < allocsz'
      /\ (turned' => turned \/ cur > allocsz)
      /\ (overrun' <=> overrun \/ (Long(len) /\ cur' - (head' - given') > allocsz'))
  BY ArenaFacts
<1>5. ~overrun'
  <2>1. allocsz' \in Nat /\ Taken(len) \in Nat
    BY SizeFacts, Constants DEF Taken
  <2> QED
    BY <1>1, <1>3, <1>4, <2>1
<1>6. gen' = NextGen(NextId) /\ gen \in Nat /\ gen' \in Nat /\ gen <= gen'
  BY InsertionFacts DEF TurnInv, NextGen
<1>7. ASSUME cur > allocsz PROVE gen' > 1
  <2>1. /\ head = old + given /\ cur - head < allocsz /\ allocsz \in Nat /\ p[1] = 0
    BY DEF ArenaInv
  <2>2. old # 0
    BY <1>1, <1>2, <1>7, <2>1
  <2>3. Oldest(Count) # 1
    BY <2>1, <2>2
  <2>4. Count \in Nat /\ Round \in Nat \ {0} /\ Count > Round
    BY <2>3, Constants DEF Oldest, NamesInv
  <2>5. /\ Count = (gen' - 1) * Round + (NextId - 2) /\ NextId - 2 < Round
        /\ NextId \in Nat /\ gen' >= 1
    BY <1>6, NextInTurn, Constants
  <2>6. gen' # 1
    <3> SUFFICES ASSUME gen' = 1 PROVE FALSE
      OBVIOUS
    <3>1. (gen' - 1) * Round = 0
      BY <2>4
    <3> QED
      BY <2>4, <2>5, <3>1
  <2> QED
    BY <1>6, <2>5, <2>6
<1>8. turned' => gen' > 1
  BY <1>3, <1>4, <1>6, <1>7
<1>9. ~hung'
  BY DEF NewInode
<1> QED
  BY <1>5, <1>8, <1>9

(* On new files head stays behind cur. *)
LEMMA HangStep ==
  ASSUME TypeOK, SafeOnNewFiles, NamesInv, TurnInv, NEW p, ArenaInv(p), EntriesInv(p),
         NEW len \in NameLens, NewInodeHangs(len)
  PROVE  TypeOK' /\ SafeOnNewFiles' /\ hung'
<1>1. /\ TakeNumber(NextId, NextGen(NextId)) /\ id' = NextId /\ gen' = NextGen(NextId)
      /\ Long(len) /\ cur + len < head' /\ hung' = TRUE
      /\ UNCHANGED <<ent, data, allocsz, cur, names, turned, overrun>>
  BY DEF NewInodeHangs, TakeNumber, Endless
<1>2. /\ NextId \in 2 .. NumIds - 1 /\ gen' \in Nat
  BY <1>1, NextInTurn
<1> PICK first : first = p[Oldest(Count + 1)]
  OBVIOUS
<1>3. /\ head' = first + given' /\ first \in Nat /\ first <= cur
      /\ {head, head', cur, given, given'} \subseteq Nat
  BY <1>1, HeadMoves
<1>4. TypeOK'
  <2>1. head' - given' \in 0 .. cur
    BY <1>3
  <2>2. id' \in 1 .. NumIds - 1 /\ id' # 1
    BY <1>1, <1>2, Constants
  <2>3. {hung', turned', overrun'} \subseteq BOOLEAN
    BY <1>1 DEF TypeOK
  <2> QED
    BY <1>1, <1>2, <1>3, <2>1, <2>2, <2>3 DEF TypeOK, Numbers
<1>5. given' # 0
  <2>1. len \in Nat
    BY Constants
  <2> QED
    BY <1>1, <1>3, <2>1
<1> QED
  BY <1>1, <1>4, <1>5 DEF SafeOnNewFiles

LEMMA NamesNext == IInv /\ [Next]_vars => IInv'
<1> SUFFICES ASSUME IInv, [Next]_vars PROVE IInv'
  OBVIOUS
<1>0. TypeOK /\ SafeOnNewFiles
  BY DEF IInv
<1>1. CASE UNCHANGED vars
  <2>1. TypeOK' /\ SafeOnNewFiles'
    BY <1>0, <1>1 DEF vars, TypeOK, SafeOnNewFiles
  <2>2. ASSUME ~hung PROVE Running'
    <3>1. NamesInv /\ TurnInv
      BY <2>2 DEF IInv, Running
    <3>2. PICK p : ArenaInv(p) /\ EntriesInv(p) /\ BytesInv(p)
      BY <2>2 DEF IInv, Running
    <3>3. NamesInv' /\ TurnInv'
      BY <1>1, <3>1 DEF vars, NamesInv, TurnInv, Handed, Count
    <3>4. ArenaInv(p)' /\ EntriesInv(p)' /\ BytesInv(p)'
      BY <1>1, <3>2 DEF vars, ArenaInv, EntriesInv, HoldsName, BytesInv, Count, Oldest, Round,
                        Taken, Long
    <3> QED
      BY <3>3, <3>4 DEF Running
  <2> QED
    BY <1>1, <2>1, <2>2 DEF IInv, vars
<1>2. ASSUME NEW len \in NameLens, NewInode(len) \/ NewInodeHangs(len)
      PROVE  IInv'
  <2>1. ~hung /\ NamesInv /\ TurnInv
    BY <1>2 DEF IInv, Running, NewInode, NewInodeHangs
  <2>2. PICK p : ArenaInv(p) /\ EntriesInv(p) /\ BytesInv(p)
    BY <2>1 DEF IInv, Running
  <2>3. CASE NewInodeHangs(len)
    BY <1>0, <2>1, <2>2, <2>3, HangStep DEF IInv
  <2>4. CASE NewInode(len)
    <3>1. TypeOK' /\ SafeOnNewFiles' /\ NamesInv' /\ TurnInv'
      BY <1>0, <2>1, <2>2, <2>4, TypeStep, TurnStep, SafeStep
    <3>2. PICK q : /\ ArenaInv(q)' /\ q[Count + 1] = cur
                   /\ \A s \in 1 .. Count + 1 : q[s] = p[s]
      BY <2>1, <2>2, <2>4, ArenaStep
    <3>3. EntriesInv(q)'
      BY <1>0, <2>1, <2>2, <2>4, <3>2, EntriesStep
    <3>4. BytesInv(q)'
      BY <1>0, <2>1, <2>2, <2>4, <3>2, BytesStep
    <3> QED
      BY <3>1, <3>2, <3>3, <3>4 DEF IInv, Running
  <2> QED
    BY <1>2, <2>3, <2>4
<1> QED
  BY <1>1, <1>2 DEF Next

LEMMA NamesInvariance == Spec => []IInv
BY NamesInit, NamesNext, PTL DEF Spec

(* Every field keeps its type, on new files and on those of any dead run:  *)
(* in particular the arena is never given back more of this run's own      *)
(* names than it took in.                                                  *)
THEOREM TypeCorrect == Spec => []TypeOK
BY NamesInvariance, PTL DEF IInv

(* On new files, which nothing but their removal between runs (test.sh:5)  *)
(* makes of old ones, head never passes cur: no insertion hangs in the     *)
(* doubling of the arena, no name is written over another, and no chunk    *)
(* goes round the end of an arena that grows before all numbers were       *)
(* handed out once.                                                        *)
THEOREM NewFilesAreSafe == Spec => []SafeOnNewFiles
BY NamesInvariance, PTL DEF IInv

LEMMA IntactOfRunning == TypeOK /\ Running => NamesIntact
<1> SUFFICES ASSUME TypeOK, Running, ~turned, ~overrun, NEW s \in Live
             PROVE  Reads(s)
  BY DEF NamesIntact
<1>1. TypeOK /\ NamesInv /\ TurnInv
  BY DEF Running
<1>2. PICK p : ArenaInv(p) /\ EntriesInv(p) /\ BytesInv(p)
  BY DEF Running
<1>3. s \in Oldest(Count) .. Count /\ s \in 1 .. Count
  <2>1. Count \in Nat
    BY <1>1 DEF NamesInv
  <2>2. Oldest(Count) \in 1 .. Count + 1
    BY <2>1, OldestFacts
  <2> QED
    BY <1>1, <2>1, <2>2, LiveIs
<1> PICK e : e = ent[names[s].id]
  OBVIOUS
<1>4. /\ e.slen = names[s].len /\ (~Long(e.slen) => e.serial = s)
      /\ (Long(e.slen) => e.off = p[s] % allocsz)
  BY <1>2, <1>3 DEF EntriesInv, HoldsName
<1>5. ASSUME Long(e.slen), NEW k \in 0 .. e.slen - 1
      PROVE  data[(e.off + k) % allocsz] = <<s, k>>
  <2>1. p[s] \in Nat /\ k \in Nat /\ allocsz \in Nat \ {0}
    <3>1. allocsz \in Nat /\ ArenaSz <= allocsz /\ ArenaSz \in Nat \ {0}
      BY <1>2, Constants DEF ArenaInv
    <3>2. p[s] \in Nat /\ names[s].len \in Nat
      BY <1>1, <1>2, <1>3, <1>4, <1>5, NamePlace
    <3> QED
      BY <1>4, <3>1, <3>2
  <2>2. (e.off + k) % allocsz = (p[s] + k) % allocsz
    BY <1>4, <1>5, <2>1, ModPlus
  <2>3. data[(p[s] + k) % allocsz] = Byte(s, k)
    BY <1>2, <1>3, <1>4, <1>5 DEF BytesInv
  <2> QED
    BY <2>2, <2>3 DEF Byte
<1> QED
  BY <1>4, <1>5 DEF Reads

(* An insertion that does not come back changes nothing that is read.      *)
LEMMA IntactNext == IInv /\ NamesIntact /\ [Next]_vars => NamesIntact'
<1> SUFFICES ASSUME IInv, NamesIntact, [Next]_vars PROVE NamesIntact'
  OBVIOUS
<1>1. IInv'
  BY NamesNext
<1>2. CASE ~hung'
  <2>1. TypeOK' /\ Running'
    BY <1>1, <1>2 DEF IInv
  <2>2. (TypeOK /\ Running => NamesIntact)'
    BY IntactOfRunning, PTL
  <2> QED
    BY <2>1, <2>2
<1>3. CASE hung'
  <2>1. UNCHANGED <<ent, data, allocsz, names, turned, overrun>>
    BY <1>3 DEF Next, NewInode, NewInodeHangs, vars
  <2> QED
    BY <2>1 DEF NamesIntact, Live, Reads, Long
<1> QED
  BY <1>2, <1>3

(* Every name whose number is in use reads as it was inserted, for every   *)
(* width of numbers and lengths and every mix of names in the entries and  *)
(* names in the arena, on new and on kept files: through every growth of   *)
(* the arena that does not come after chunks have gone round its end, and  *)
(* until a chunk is taken where a name in use lies, which dead names that  *)
(* were given back can lead to (NewFilesAreSafe: nothing else can).        *)
THEOREM NamesStayIntact == Spec => []NamesIntact
<1>1. Init => NamesIntact
  BY NamesInit, IntactOfRunning DEF IInv, Init
<1>2. IInv /\ NamesIntact /\ [Next]_vars => NamesIntact'
  BY IntactNext
<1> QED
  BY <1>1, <1>2, NamesInvariance, PTL DEF Spec

(* The sum over a run of names is the distance between two places.         *)
IsPlaces(p, nm, M) ==
  /\ p \in [1 .. M + 1 -> Nat]
  /\ \A s \in 1 .. M : nm[s].len \in Nat /\ p[s + 1] = p[s] + Taken(nm[s].len)
IsRun(T, nm, o, M) ==
  o \in 1 .. M + 1 /\ \A i \in 1 .. M : i \in T <=> o <= i /\ Long(nm[i].len)

LEMMA SumOfRun ==
  ASSUME NEW M \in Nat, NEW nm, NEW p, IsPlaces(p, nm, M),
         NEW o, NEW T, IsRun(T, nm, o, M), NEW f, IsSumOf(f, nm, T, M)
  PROVE  f[M] = p[M + 1] - p[o]
<1>1. /\ p \in [1 .. M + 1 -> Nat] /\ o \in 1 .. M + 1
      /\ \A s \in 1 .. M : nm[s].len \in Nat /\ p[s + 1] = p[s] + Taken(nm[s].len)
  BY DEF IsPlaces, IsRun
<1> DEFINE S == {i \in 0 .. M : f[i] = IF i < o THEN 0 ELSE p[i + 1] - p[o]}
<1>2. f[0] = 0 /\ \A i \in 1 .. M : f[i] = f[i - 1] + IF i \in T THEN nm[i].len ELSE 0
  BY DEF IsSumOf
<1>3. \A i \in 1 .. M : (IF i \in T THEN nm[i].len ELSE 0) = IF i < o THEN 0 ELSE Taken(nm[i].len)
  BY <1>1 DEF Taken, IsRun
<1>4. ASSUME NEW n \in 0 .. M, \A m \in 0 .. n - 1 : m \in S
      PROVE  n \in S
  <2>1. CASE n = 0
    BY <1>2, <1>1, <2>1
  <2>2. CASE n # 0
    <3>1. n \in 1 .. M /\ n - 1 \in 0 .. n - 1 /\ (n - 1) + 1 = n
      BY <2>2
    <3>2. n - 1 \in S
      <4> HIDE DEF S
      <4> QED
        BY <1>4, <3>1
    <3>3. n \in 1 .. M /\ n - 1 \in S /\ (n - 1) + 1 = n
      BY <3>1, <3>2, Zenon
    <3>4. f[n - 1] = IF n - 1 < o THEN 0 ELSE p[n] - p[o]
      BY <3>3
    <3>5. f[n] = f[n - 1] + IF n < o THEN 0 ELSE Taken(nm[n].len)
      BY <1>2, <1>3, <3>3
    <3>6. p[n + 1] = p[n] + Taken(nm[n].len) /\ p[n] \in Nat /\ p[n + 1] \in Nat /\ p[o] \in Nat
      <4>1. n \in 1 .. M + 1 /\ n + 1 \in 1 .. M + 1
        BY <3>3
      <4>2. p[n] \in Nat /\ p[n + 1] \in Nat /\ p[o] \in Nat
        BY <1>1, <4>1
      <4>3. p[n + 1] = p[n] + Taken(nm[n].len)
        BY <1>1, <3>3
      <4> QED
        BY <4>2, <4>3
    <3>7. o \in Int /\ n \in Int
      BY <1>1
    <3>8. f[n] = IF n < o THEN 0 ELSE p[n + 1] - p[o]
      <4>1. CASE n < o
        BY <3>4, <3>5, <3>7, <4>1
      <4>2. CASE n = o
        <5>1. ~(n < o) /\ n - 1 < o /\ p[n] = p[o]
          BY <3>7, <4>2
        <5>2. f[n] = 0 + Taken(nm[n].len)
          BY <3>4, <3>5, <5>1
        <5>3. Taken(nm[n].len) \in Nat
          BY <1>1, <3>3 DEF Taken
        <5> QED
          BY <3>6, <5>1, <5>2, <5>3
      <4>3. CASE n > o
        <5>1. ~(n < o) /\ ~(n - 1 < o)
          BY <3>7, <4>3
        <5>2. f[n] = (p[n] - p[o]) + Taken(nm[n].len)
          BY <3>4, <3>5, <5>1
        <5>3. Taken(nm[n].len) \in Nat
          BY <1>1, <3>3 DEF Taken
        <5> QED
          BY <3>6, <5>1, <5>2, <5>3
      <4> QED
        BY <3>7, <4>1, <4>2, <4>3
    <3> QED
      BY <3>8
  <2> QED
    BY <2>1, <2>2
<1>5. \A n \in 0 .. M : n \in S
  <2> HIDE DEF S
  <2> QED
    BY <1>4, UpInduction
<1>6. f[M] = IF M < o THEN 0 ELSE p[M + 1] - p[o]
  BY <1>5
<1>7. CASE M < o
  <2>1. o = M + 1 /\ p[o] \in Nat
    BY <1>7, <1>1
  <2> QED
    BY <1>6, <1>7, <1>1, <2>1
<1> QED
  BY <1>6, <1>7

LEMMA ExactOfIInv == IInv => ArenaExact
<1> SUFFICES ASSUME IInv, ~hung
             PROVE  cur + given - head
                      = MapThenSumSet(LAMBDA s : names[s].len, {s \in Live : Long(names[s].len)})
  BY DEF ArenaExact
<1>1. NamesInv /\ TurnInv
  BY DEF IInv, Running
<1>2. PICK p : ArenaInv(p)
  BY DEF IInv, Running
<1>3. /\ Count \in Nat /\ Live = Oldest(Count) .. Count
      /\ \A i \in 1 .. Count : names[i].len \in Nat
  BY <1>1, LiveIs, Constants DEF NamesInv
<1>4. Oldest(Count) \in 1 .. Count + 1
  BY <1>3, OldestFacts
<1>5. /\ p \in [1 .. Count + 1 -> Nat] /\ cur = p[Count + 1]
      /\ head = p[Oldest(Count)] + given /\ given \in Nat
      /\ \A s \in 1 .. Count : p[s + 1] = p[s] + Taken(names[s].len)
  BY <1>2 DEF ArenaInv
<1> DEFINE T == {s \in Live : Long(names[s].len)}
<1>6. Total(names, T) = p[Count + 1] - p[Oldest(Count)]
  <2> PICK f : f = Sums(names, T, Count)
    OBVIOUS
  <2>1. T \in SUBSET (1 .. Count)
        /\ \A i \in 1 .. Count : i \in T <=> Oldest(Count) <= i /\ Long(names[i].len)
    BY <1>3, <1>4
  <2> HIDE DEF T
  <2>2. IsSumOf(f, names, T, Count)
    BY <1>3, SumsFacts
  <2>3. Total(names, T) = f[Count]
    BY <1>3, <2>1, TotalIsSums
  <2>4. f[Count] = p[Count + 1] - p[Oldest(Count)]
    <3> PICK nm : nm = names
      OBVIOUS
    <3> PICK M : M = Count
      OBVIOUS
    <3> PICK o : o = Oldest(Count)
      OBVIOUS
    <3>1. M \in Nat /\ o \in 1 .. M + 1 /\ \A i \in 1 .. M : nm[i].len \in Nat
      BY <1>3, <1>4
    <3>2. IsPlaces(p, nm, M)
      BY <1>5, <3>1 DEF IsPlaces
    <3>3. IsRun(T, nm, o, M)
      BY <2>1, <3>1 DEF IsRun
    <3>4. IsSumOf(f, nm, T, M)
      BY <2>2
    <3>5. f[M] = p[M + 1] - p[o]
      BY <3>1, <3>2, <3>3, <3>4, SumOfRun
    <3> QED
      BY <3>5
  <2> QED
    BY <2>3, <2>4
<1>7. MapThenSumSet(LAMBDA s : names[s].len, T) = Total(names, T)
  BY SumIsTotal
<1>8. cur + given - head = p[Count + 1] - p[Oldest(Count)]
  <2> PICK x, y : x = p[Oldest(Count)] /\ y = p[Count + 1]
    OBVIOUS
  <2>1. x \in Nat /\ y \in Nat /\ cur = y /\ head = x + given
    BY <1>3, <1>4, <1>5
  <2>2. cur + given - head = y - x
    BY <1>5, <2>1
  <2> QED
    BY <2>2
<1> QED
  BY <1>6, <1>7, <1>8

(* What lies between head and cur is the long names in use, short of the   *)
(* dead names that were given back: what falls out of use is given back    *)
(* once and in full, and else only what an entry of a dead run says.       *)
THEOREM ArenaIsExact == Spec => []ArenaExact
BY NamesInvariance, ExactOfIInv, PTL

(* Generations begin again after 2^16 rounds, so that many names have a    *)
(* number and generation of their own.                                     *)
LEMMA UniqueOfRunning ==
  ASSUME MaxInserts <= NumGens * Round
  PROVE  Running => PairsUnique
<1> SUFFICES ASSUME Running, NEW s \in DOMAIN names, NEW t \in DOMAIN names,
                    names[s].id = names[t].id, names[s].gen = names[t].gen
             PROVE  s = t
  BY DEF PairsUnique
<1>1. /\ NamesInv /\ TurnInv /\ s \in 1 .. Count /\ t \in 1 .. Count /\ Count \in Nat
      /\ Count <= MaxInserts /\ MaxInserts \in Nat
      /\ gen \in Nat /\ NumGens \in Nat \ {0} /\ Round \in Nat \ {0} /\ NumIds = Round + 2
  BY Constants DEF Running, NamesInv, TurnInv
<1>2. gen <= NumGens
  <2> SUFFICES ASSUME NumGens <= gen - 1 PROVE FALSE
    BY <1>1
  <2>1. Count - 1 = (gen - 1) * Round + (id - 2) /\ id \in 2 .. NumIds - 1 /\ gen - 1 \in Nat
    BY <1>1 DEF TurnInv
  <2>2. NumGens * Round <= (gen - 1) * Round
    BY <1>1, <2>1
  <2>3. NumGens * Round \in Nat /\ (gen - 1) * Round \in Nat
    BY <1>1, <2>1
  <2> QED
    BY <1>1, <2>1, <2>2, <2>3
<1>3. PICK g \in 1 .. gen : Handed(s, g)
  BY <1>1 DEF TurnInv
<1>4. PICK h \in 1 .. gen : Handed(t, h)
  BY <1>1 DEF TurnInv
<1>5. g % NumGens = h % NumGens /\ g \in Nat /\ h \in Nat /\ 1 <= g /\ 1 <= h
      /\ g <= NumGens /\ h <= NumGens
  <2>1. g % NumGens = h % NumGens
    BY <1>3, <1>4 DEF Handed
  <2> QED
    BY <1>1, <1>2, <2>1
<1>6. g = h
  <2>1. g < h => h - g < NumGens
    BY <1>1, <1>5
  <2>2. h < g => g - h < NumGens
    BY <1>1, <1>5
  <2>3. ~(g < h)
    BY <1>1, <1>5, <2>1, ModDiffers
  <2>4. ~(h < g)
    BY <1>1, <1>5, <2>2, ModDiffers
  <2> QED
    BY <1>5, <2>3, <2>4
<1>7. s - 1 = t - 1
  BY <1>3, <1>4, <1>6 DEF Handed
<1> QED
  BY <1>1, <1>7

(* A number and a generation together name one insertion, as               *)
(* fuse_kernel.h:601 demands, for the first (2^32 - 2) * 2^16 insertions:  *)
(* as many as there are pairs.                                             *)
THEOREM PairsAreUnique ==
  ASSUME MaxInserts <= NumGens * Round
  PROVE  Spec => []PairsUnique
<1>1. Init => PairsUnique
  BY DEF Init, PairsUnique
<1>2. IInv /\ PairsUnique /\ [Next]_vars => PairsUnique'
  <2> SUFFICES ASSUME IInv, PairsUnique, [Next]_vars PROVE PairsUnique'
    OBVIOUS
  <2>1. IInv'
    BY NamesNext
  <2>2. CASE ~hung'
    <3>1. Running'
      BY <2>1, <2>2 DEF IInv
    <3>2. (Running => PairsUnique)'
      BY UniqueOfRunning, PTL
    <3> QED
      BY <3>1, <3>2
  <2>3. CASE hung'
    <3>1. names' = names
      BY <2>3 DEF Next, NewInode, NewInodeHangs, vars
    <3> QED
      BY <3>1 DEF PairsUnique
  <2> QED
    BY <2>2, <2>3
<1> QED
  BY <1>1, <1>2, NamesInvariance, PTL DEF Spec
=============================================================================
