--------------------------- MODULE InodeTreeProofs ---------------------------
(***************************************************************************)
(* Proofs about the operators of InodeTree.                                *)
(*                                                                         *)
(* The descent and the path are recursive functions, on tables of any      *)
(* size.  What is proved about them goes by induction along the numbers of *)
(* the entries: a link leads to a larger number, a parent is a smaller     *)
(* one.                                                                    *)
(***************************************************************************)
EXTENDS InodeTree, SequencesExt, Induction

-----------------------------------------------------------------------------
(* The descent and the path as recursive functions.                        *)

IsWalk(w, t, parent, name) ==
  w = [n \in Ids |->
         LET side == Side(t.ent[n], parent, name)
         IN  IF side = "found" \/ t.ent[n][side] = 0 THEN [node |-> n, side |-> side]
             ELSE w[t.ent[n][side]]]
Walk(t, parent, name) == CHOOSE w : IsWalk(w, t, parent, name)

IsClimb(u, t) ==
  u = [n \in Ids |-> IF n = 0 THEN <<>> ELSE Append(u[t.ent[n].parent], t.ent[n].name)]
Climb(t) == CHOOSE u : IsClimb(u, t)

LEMMA DescendIsWalk ==
  ASSUME NEW t, NEW parent, NEW name
  PROVE  Descend(t, parent, name) = Walk(t, parent, name)[1]
BY DEF Descend, Walk, IsWalk

LEMMA PathIsClimb ==
  ASSUME NEW t, NEW n
  PROVE  PathOf(t, n) = Climb(t)[n]
BY DEF PathOf, Climb, IsClimb

DownRecursion(f, M, stop, res, next) ==
  f = [n \in 0 .. M |-> IF stop[n] THEN res[n] ELSE f[next[n]]]
UpRecursion(f, M, up, x) ==
  f = [n \in 0 .. M |-> IF n = 0 THEN <<>> ELSE Append(f[up[n]], x[n])]

(* Both exist: a function that is defined along decreasing or increasing   *)
(* arguments.                                                              *)
LEMMA RecursionDown ==
  ASSUME NEW M \in Nat, NEW stop, NEW res, NEW next,
         \A n \in 0 .. M : ~stop[n] => next[n] \in n + 1 .. M
  PROVE  \E f : DownRecursion(f, M, stop, res, next)
<1> DEFINE Upto(k) == \E f : f = [n \in k .. M |-> IF stop[n] THEN res[n] ELSE f[next[n]]]
           S == {k \in 0 .. M : Upto(k)}
<1>1. ASSUME NEW k \in 0 .. M, \A m \in k + 1 .. M : m \in S
      PROVE  k \in S
  <2>1. PICK f : f = [n \in k + 1 .. M |-> IF stop[n] THEN res[n] ELSE f[next[n]]]
    <3>1. CASE k = M
      <4> DEFINE e == [n \in {} |-> 0]
      <4>1. k + 1 .. M = {}
        BY <3>1
      <4>2. e = [n \in k + 1 .. M |-> IF stop[n] THEN res[n] ELSE e[next[n]]]
        BY <4>1
      <4> QED
        BY <4>2
    <3>2. CASE k # M
      <4>1. k + 1 \in k + 1 .. M
        BY <3>2
      <4> QED
        BY <4>1, <1>1
    <3> QED
      BY <3>1, <3>2
  <2> DEFINE g == [n \in k .. M |-> IF n = k THEN (IF stop[k] THEN res[k] ELSE f[next[k]])
                                    ELSE f[n]]
  <2>2. ASSUME NEW n \in k .. M
        PROVE  g[n] = IF stop[n] THEN res[n] ELSE g[next[n]]
    <3>1. ~stop[n] => next[n] \in n + 1 .. M
      OBVIOUS
    <3>2. ~stop[n] => g[next[n]] = f[next[n]]
      BY <3>1
    <3>3. CASE n = k
      BY <3>2, <3>3
    <3>4. CASE n # k
      <4>1. n \in k + 1 .. M
        BY <3>4
      <4>2. f[n] = IF stop[n] THEN res[n] ELSE f[next[n]]
        BY <4>1, <2>1
      <4> QED
        BY <3>4, <4>2, <3>2
    <3> QED
      BY <3>3, <3>4
  <2>3. g = [n \in k .. M |-> IF stop[n] THEN res[n] ELSE g[next[n]]]
    BY <2>2
  <2>4. Upto(k)
    <3> HIDE DEF g
    <3> QED
      BY <2>3
  <2> QED
    BY <2>4
<1>2. \A k \in 0 .. M : k \in S
  <2> HIDE DEF S
  <2> QED
    BY <1>1, DownInduction
<1> QED
  BY <1>2 DEF DownRecursion

LEMMA RecursionUp ==
  ASSUME NEW M \in Nat, NEW up, NEW x,
         \A n \in 1 .. M : up[n] \in 0 .. n - 1
  PROVE  \E f : UpRecursion(f, M, up, x)
<1> DEFINE Upto(k) ==
             \E f : f = [n \in 0 .. k |-> IF n = 0 THEN <<>> ELSE Append(f[up[n]], x[n])]
           S == {k \in 0 .. M : Upto(k)}
<1>1. ASSUME NEW k \in 0 .. M, \A m \in 0 .. k - 1 : m \in S
      PROVE  k \in S
  <2>1. CASE k = 0
    <3> DEFINE e == [n \in 0 .. 0 |-> <<>>]
    <3>1. e = [n \in 0 .. 0 |-> IF n = 0 THEN <<>> ELSE Append(e[up[n]], x[n])]
      OBVIOUS
    <3>2. Upto(0)
      <4> HIDE DEF e
      <4> QED
        BY <3>1
    <3> QED
      BY <2>1, <3>2
  <2>2. CASE k # 0
    <3>1. PICK f : f = [n \in 0 .. k - 1 |->
                          IF n = 0 THEN <<>> ELSE Append(f[up[n]], x[n])]
      <4>1. k - 1 \in 0 .. k - 1
        BY <2>2
      <4> QED
        BY <4>1, <1>1
    <3> DEFINE g == [n \in 0 .. k |-> IF n = k THEN Append(f[up[k]], x[k]) ELSE f[n]]
    <3>2. ASSUME NEW n \in 0 .. k
          PROVE  g[n] = IF n = 0 THEN <<>> ELSE Append(g[up[n]], x[n])
      <4>1. n # 0 => up[n] \in 0 .. n - 1
        OBVIOUS
      <4>2. n # 0 => g[up[n]] = f[up[n]]
        BY <4>1
      <4>3. CASE n = k
        BY <4>2, <4>3, <2>2
      <4>4. CASE n # k
        <5>1. n \in 0 .. k - 1
          BY <4>4
        <5>2. f[n] = IF n = 0 THEN <<>> ELSE Append(f[up[n]], x[n])
          BY <5>1, <3>1
        <5> QED
          BY <4>4, <5>2, <4>2
      <4> QED
        BY <4>3, <4>4
    <3>3. g = [n \in 0 .. k |-> IF n = 0 THEN <<>> ELSE Append(g[up[n]], x[n])]
      BY <3>2
    <3>4. Upto(k)
      <4> HIDE DEF g
      <4> QED
        BY <3>3
    <3> QED
      BY <3>4
  <2> QED
    BY <2>1, <2>2
<1>2. \A k \in 0 .. M : k \in S
  <2> HIDE DEF S
  <2> QED
    BY <1>1, UpInduction
<1>3. M \in S
  <2> HIDE DEF S
  <2> QED
    BY <1>2
<1> QED
  BY <1>3 DEF UpRecursion

-----------------------------------------------------------------------------
(* Tables.                                                                 *)

Table == [id : 1 .. MaxId, total : Nat, ent : [Ids -> Entry], arena : Arena]

Sides == {"left", "right"}

(* A link leads to a larger number, and to an entry in use if it is in one. *)
Acyclic(t) ==
  \A n \in Ids, side \in Sides :
    t.ent[n][side] # 0 => /\ t.ent[n][side] \in n + 1 .. MaxId
                          /\ n \in 1 .. t.id => t.ent[n][side] <= t.id

(* A directory has a smaller number than what is in it. *)
ParentsFirst(t) == \A n \in 1 .. MaxId : t.ent[n].parent < n

LEMMA EntryFields ==
  ASSUME NEW e \in Entry
  PROVE  /\ e.name \in Int /\ e.parent \in Nat
         /\ e.left \in Nat /\ e.right \in Nat
         /\ \A side \in Sides : e[side] \in Nat
BY DEF Entry, Sides

LEMMA TableFields ==
  ASSUME NEW t \in Table
  PROVE  /\ t.id \in 1 .. MaxId /\ t.total \in Nat
         /\ t.ent \in [Ids -> Entry] /\ t.arena \in Arena
         /\ \A n \in Ids : t.ent[n] \in Entry
BY DEF Table

LEMMA SideKinds ==
  ASSUME NEW e, NEW parent, NEW name
  PROVE  Side(e, parent, name) \in {"found"} \cup Sides
BY DEF Side, Sides

LEMMA FoundIsKey ==
  ASSUME NEW e \in Entry, NEW parent \in Int, NEW name \in Int
  PROVE  Side(e, parent, name) = "found" <=> e.parent = parent /\ e.name = name
BY EntryFields DEF Side, CmpNode

LEMMA SideOfKey ==
  ASSUME NEW e, NEW f, NEW parent, NEW name, e.parent = f.parent, e.name = f.name
  PROVE  Side(e, parent, name) = Side(f, parent, name)
BY DEF Side, CmpNode

(* One step of a descent. *)
LEMMA WalkStep ==
  ASSUME NEW t \in Table, Acyclic(t), NEW parent, NEW name
  PROVE  \A n \in Ids :
           LET w    == Walk(t, parent, name)
               side == Side(t.ent[n], parent, name)
           IN  IF side = "found" \/ t.ent[n][side] = 0
               THEN w[n] = [node |-> n, side |-> side]
               ELSE w[n] = w[t.ent[n][side]]
<1> DEFINE sd(m) == Side(t.ent[m], parent, name)
           stop == [m \in Ids |-> sd(m) = "found" \/ t.ent[m][sd(m)] = 0]
           res == [m \in Ids |-> [node |-> m, side |-> sd(m)]]
           next == [m \in Ids |-> t.ent[m][sd(m)]]
<1>1. MaxId \in Nat
  BY TableAssumption
<1>2. \A m \in 0 .. MaxId : ~stop[m] => next[m] \in m + 1 .. MaxId
  <2> SUFFICES ASSUME NEW m \in Ids, ~stop[m] PROVE next[m] \in m + 1 .. MaxId
    BY DEF Ids
  <2>1. sd(m) \in Sides
    BY SideKinds
  <2> QED
    BY <2>1 DEF Acyclic
<1>3. \E f : DownRecursion(f, MaxId, stop, res, next)
  <2> HIDE DEF stop, res, next
  <2> QED
    BY <1>1, <1>2, RecursionDown
<1>4. \E f : IsWalk(f, t, parent, name)
  <2>1. PICK f : f = [m \in 0 .. MaxId |-> IF stop[m] THEN res[m] ELSE f[next[m]]]
    BY <1>3 DEF DownRecursion
  <2>2. f = [m \in Ids |->
               IF sd(m) = "found" \/ t.ent[m][sd(m)] = 0 THEN [node |-> m, side |-> sd(m)]
               ELSE f[t.ent[m][sd(m)]]]
    BY <2>1 DEF Ids
  <2> QED
    BY <2>2 DEF IsWalk
<1>5. IsWalk(Walk(t, parent, name), t, parent, name)
  BY <1>4 DEF Walk
<1> QED
  BY <1>5 DEF IsWalk

(* What a step may rely on. *)
LEMMA LinkRange ==
  ASSUME NEW t \in Table, Acyclic(t), NEW n \in 1 .. t.id, NEW side \in Sides,
         t.ent[n][side] # 0
  PROVE  t.ent[n][side] \in n + 1 .. t.id
BY TableFields, TableAssumption DEF Acyclic, Ids

(* A descent ends at an entry in use; if that is not the one, the link to  *)
(* follow is missing.                                                      *)
LEMMA WalkEnds ==
  ASSUME NEW t \in Table, Acyclic(t), NEW parent, NEW name
  PROVE  \A n \in 1 .. t.id :
           \E m \in n .. t.id :
             LET side == Side(t.ent[m], parent, name)
             IN  /\ Walk(t, parent, name)[n] = [node |-> m, side |-> side]
                 /\ side # "found" => t.ent[m][side] = 0
<1> DEFINE w == Walk(t, parent, name)
           Ends(n) == \E m \in n .. t.id :
                        LET side == Side(t.ent[m], parent, name)
                        IN  /\ w[n] = [node |-> m, side |-> side]
                            /\ side # "found" => t.ent[m][side] = 0
           S == {n \in 0 .. t.id : n # 0 => Ends(n)}
<1>1. t.id \in Nat /\ 1 .. t.id \subseteq Ids
  BY TableFields, TableAssumption DEF Ids
<1>2. ASSUME NEW n \in 0 .. t.id, \A k \in n + 1 .. t.id : k \in S
      PROVE  n \in S
  <2> SUFFICES ASSUME n # 0 PROVE Ends(n)
    OBVIOUS
  <2> DEFINE side == Side(t.ent[n], parent, name)
  <2>1. n \in Ids /\ n \in 1 .. t.id /\ n \in n .. t.id
    BY <1>1
  <2> HIDE DEF w
  <2>4. IF side = "found" \/ t.ent[n][side] = 0 THEN w[n] = [node |-> n, side |-> side]
        ELSE w[n] = w[t.ent[n][side]]
    BY <2>1, WalkStep DEF w
  <2>2. CASE side = "found" \/ t.ent[n][side] = 0
    <3>1. w[n] = [node |-> n, side |-> side]
      BY <2>2, <2>4
    <3> QED
      BY <2>1, <2>2, <3>1
  <2>3. CASE side # "found" /\ t.ent[n][side] # 0
    <3>1. side \in Sides
      BY <2>3, SideKinds
    <3>2. t.ent[n][side] \in n + 1 .. t.id
      BY <2>1, <2>3, <3>1, LinkRange
    <3>3. w[n] = w[t.ent[n][side]]
      BY <2>3, <2>4
    <3>4. Ends(t.ent[n][side])
      BY <3>2, <1>2, <1>1
    <3> QED
      BY <3>2, <3>3, <3>4
  <2> QED
    BY <2>2, <2>3
<1>3. \A n \in 0 .. t.id : n \in S
  <2> HIDE DEF S
  <2> QED
    BY <1>1, <1>2, DownInduction
<1> QED
  BY <1>3, <1>1

(* The keys and links of the first m entries are the same in two tables.   *)
SameKeys(t, u, m) ==
  \A n \in 1 .. m : /\ u.ent[n].parent = t.ent[n].parent
                    /\ u.ent[n].name = t.ent[n].name
SameLinks(t, u, m) ==
  \A n \in 1 .. m, side \in Sides : u.ent[n][side] = t.ent[n][side]

(* Descents look at nothing else. *)
LEMMA SameWalk ==
  ASSUME NEW t \in Table, Acyclic(t), NEW u \in Table, Acyclic(u), u.id = t.id,
         SameKeys(t, u, t.id), SameLinks(t, u, t.id), NEW parent, NEW name
  PROVE  \A n \in 1 .. t.id : Walk(u, parent, name)[n] = Walk(t, parent, name)[n]
<1> DEFINE v == Walk(t, parent, name)
           w == Walk(u, parent, name)
           S == {n \in 0 .. t.id : n # 0 => w[n] = v[n]}
<1>1. t.id \in Nat /\ 1 .. t.id \subseteq Ids
  BY TableFields, TableAssumption DEF Ids
<1>2. ASSUME NEW n \in 0 .. t.id, \A k \in n + 1 .. t.id : k \in S
      PROVE  n \in S
  <2> SUFFICES ASSUME n # 0 PROVE w[n] = v[n]
    OBVIOUS
  <2> DEFINE side == Side(t.ent[n], parent, name)
  <2>1. n \in Ids /\ n \in 1 .. t.id
    BY <1>1
  <2>2. Side(u.ent[n], parent, name) = side
    BY <2>1, SideOfKey DEF SameKeys
  <2>3. side # "found" => side \in Sides /\ u.ent[n][side] = t.ent[n][side]
    BY <2>1, SideKinds DEF SameLinks
  <2>4. IF side = "found" \/ t.ent[n][side] = 0 THEN v[n] = [node |-> n, side |-> side]
        ELSE v[n] = v[t.ent[n][side]]
    BY <2>1, WalkStep
  <2>5. IF side = "found" \/ u.ent[n][side] = 0 THEN w[n] = [node |-> n, side |-> side]
        ELSE w[n] = w[u.ent[n][side]]
    BY <2>1, <2>2, WalkStep
  <2>6. side # "found" /\ t.ent[n][side] # 0 => t.ent[n][side] \in n + 1 .. t.id
    BY <2>1, <2>3, LinkRange
  <2> HIDE DEF w, v, side
  <2> QED
    BY <2>3, <2>4, <2>5, <2>6, <1>2, <1>1
<1>3. \A n \in 0 .. t.id : n \in S
  <2> HIDE DEF S
  <2> QED
    BY <1>1, <1>2, DownInduction
<1> QED
  BY <1>3, <1>1

(* A new entry at a free link: descents that ended there go on to it, all  *)
(* others end where they did.                                              *)
LEMMA InsertWalk ==
  ASSUME NEW t \in Table, Acyclic(t), NEW u \in Table, Acyclic(u), u.id = t.id + 1,
         SameKeys(t, u, t.id), NEW at \in 1 .. t.id, NEW free \in Sides,
         t.ent[at][free] = 0,
         \A n \in 1 .. t.id, side \in Sides :
           u.ent[n][side] = IF n = at /\ side = free THEN t.id + 1 ELSE t.ent[n][side],
         NEW parent, NEW name
  PROVE  \A n \in 1 .. t.id :
           Walk(u, parent, name)[n] =
             IF Walk(t, parent, name)[n] = [node |-> at, side |-> free]
             THEN Walk(u, parent, name)[t.id + 1] ELSE Walk(t, parent, name)[n]
<1> DEFINE v == Walk(t, parent, name)
           w == Walk(u, parent, name)
           Goes(n) == w[n] = IF v[n] = [node |-> at, side |-> free] THEN w[t.id + 1] ELSE v[n]
           S == {n \in 0 .. t.id : n # 0 => Goes(n)}
<1>1. t.id \in Nat /\ 1 .. t.id \subseteq Ids
  BY TableFields, TableAssumption DEF Ids
<1>2. ASSUME NEW n \in 0 .. t.id, \A k \in n + 1 .. t.id : k \in S
      PROVE  n \in S
  <2> SUFFICES ASSUME n # 0 PROVE Goes(n)
    OBVIOUS
  <2> DEFINE side == Side(t.ent[n], parent, name)
  <2>1. n \in Ids /\ n \in 1 .. t.id
    BY <1>1
  <2>2. Side(u.ent[n], parent, name) = side
    BY <2>1, SideOfKey DEF SameKeys
  <2>3. side # "found" =>
          /\ side \in Sides
          /\ u.ent[n][side] = IF n = at /\ side = free THEN t.id + 1 ELSE t.ent[n][side]
    BY <2>1, SideKinds
  <2>4. IF side = "found" \/ t.ent[n][side] = 0 THEN v[n] = [node |-> n, side |-> side]
        ELSE v[n] = v[t.ent[n][side]]
    BY <2>1, WalkStep
  <2>5. IF side = "found" \/ u.ent[n][side] = 0 THEN w[n] = [node |-> n, side |-> side]
        ELSE w[n] = w[u.ent[n][side]]
    BY <2>1, <2>2, WalkStep
  <2>6. side # "found" /\ t.ent[n][side] # 0 => t.ent[n][side] \in n + 1 .. t.id
    BY <2>1, <2>3, LinkRange
  <2>7. "found" \notin Sides
    BY DEF Sides
  <2>8. CASE side = "found"
    <3>1. v[n] = [node |-> n, side |-> "found"] /\ w[n] = [node |-> n, side |-> "found"]
      BY <2>4, <2>5, <2>8
    <3> HIDE DEF w, v
    <3>2. v[n] # [node |-> at, side |-> free]
      BY <3>1, <2>7
    <3> QED
      BY <3>1, <3>2
  <2>9. CASE side # "found" /\ t.ent[n][side] = 0
    <3>1. v[n] = [node |-> n, side |-> side]
      BY <2>4, <2>9
    <3> HIDE DEF w, v, side
    <3>2. CASE n = at /\ side = free
      <4>1. u.ent[n][side] = t.id + 1 /\ t.id + 1 # 0
        BY <3>2, <2>3, <2>9, <1>1
      <4>2. w[n] = w[t.id + 1]
        BY <4>1, <2>5, <2>9
      <4> QED
        BY <3>1, <3>2, <4>2
    <3>3. CASE ~(n = at /\ side = free)
      <4>1. w[n] = [node |-> n, side |-> side]
        BY <3>3, <2>3, <2>5, <2>9
      <4>2. v[n] # [node |-> at, side |-> free]
        BY <3>1, <3>3
      <4> QED
        BY <3>1, <4>1, <4>2
    <3> QED
      BY <3>2, <3>3
  <2>10. CASE side # "found" /\ t.ent[n][side] # 0
    <3> HIDE DEF w, v, side
    <3>1. u.ent[n][side] = t.ent[n][side]
      BY <2>10, <2>3
    <3>2. v[n] = v[t.ent[n][side]] /\ w[n] = w[t.ent[n][side]]
      BY <2>10, <2>4, <2>5, <3>1
    <3>3. t.ent[n][side] \in S /\ t.ent[n][side] # 0
      BY <2>10, <2>6, <1>2
    <3> QED
      BY <3>2, <3>3
  <2> QED
    BY <2>8, <2>9, <2>10
<1>3. \A n \in 0 .. t.id : n \in S
  <2> HIDE DEF S
  <2> QED
    BY <1>1, <1>2, DownInduction
<1> QED
  BY <1>3, <1>1

-----------------------------------------------------------------------------
(* Paths.                                                                  *)

LEMMA ClimbStep ==
  ASSUME NEW t \in Table, ParentsFirst(t)
  PROVE  \A n \in Ids : Climb(t)[n] = IF n = 0 THEN <<>>
                                      ELSE Append(Climb(t)[t.ent[n].parent], t.ent[n].name)
<1> DEFINE up == [n \in Ids |-> t.ent[n].parent]
           x == [n \in Ids |-> t.ent[n].name]
<1>1. MaxId \in Nat
  BY TableAssumption
<1>2. \A n \in 1 .. MaxId : up[n] \in 0 .. n - 1
  <2> TAKE n \in 1 .. MaxId
  <2>1. n \in Ids
    BY <1>1 DEF Ids
  <2>2. t.ent[n].parent \in Nat /\ t.ent[n].parent < n
    BY <2>1, TableFields, EntryFields DEF ParentsFirst
  <2> QED
    BY <2>1, <2>2
<1>3. \E f : UpRecursion(f, MaxId, up, x)
  <2> HIDE DEF up, x
  <2> QED
    BY <1>1, <1>2, RecursionUp
<1>4. \E f : IsClimb(f, t)
  <2>1. PICK f : UpRecursion(f, MaxId, up, x)
    BY <1>3
  <2>2. f = [n \in Ids |-> IF n = 0 THEN <<>> ELSE Append(f[t.ent[n].parent], t.ent[n].name)]
    BY <2>1 DEF UpRecursion, Ids
  <2> QED
    BY <2>2 DEF IsClimb
<1>5. IsClimb(Climb(t), t)
  BY <1>4 DEF Climb
<1> QED
  BY <1>5 DEF IsClimb

(* The path of an entry is a matter of the keys of the entries up to it.   *)
LEMMA SamePath ==
  ASSUME NEW t \in Table, ParentsFirst(t), NEW u \in Table, ParentsFirst(u),
         NEW m \in 0 .. MaxId, SameKeys(t, u, m)
  PROVE  \A n \in 0 .. m : PathOf(u, n) = PathOf(t, n)
<1> DEFINE v == Climb(t)
           w == Climb(u)
           S == {n \in 0 .. m : w[n] = v[n]}
<1>1. m \in Nat /\ 0 .. m \subseteq Ids /\ MaxId \in Nat
  BY TableAssumption DEF Ids
<1>2. ASSUME NEW n \in 0 .. m, \A k \in 0 .. n - 1 : k \in S
      PROVE  n \in S
  <2>1. n \in Ids
    BY <1>1
  <2>2. v[n] = IF n = 0 THEN <<>> ELSE Append(v[t.ent[n].parent], t.ent[n].name)
    BY <2>1, ClimbStep
  <2>3. w[n] = IF n = 0 THEN <<>> ELSE Append(w[u.ent[n].parent], u.ent[n].name)
    BY <2>1, ClimbStep
  <2> HIDE DEF v, w
  <2>4. CASE n = 0
    BY <2>2, <2>3, <2>4
  <2>5. CASE n # 0
    <3>1. n \in 1 .. m /\ n \in 1 .. MaxId
      BY <2>5, <1>1
    <3>2. u.ent[n].parent = t.ent[n].parent /\ u.ent[n].name = t.ent[n].name
      BY <3>1 DEF SameKeys
    <3>3. t.ent[n].parent \in 0 .. n - 1
      BY <3>1, <2>1, TableFields, EntryFields DEF ParentsFirst
    <3>4. w[t.ent[n].parent] = v[t.ent[n].parent]
      BY <3>3, <1>2
    <3> QED
      BY <2>2, <2>3, <2>5, <3>2, <3>4
  <2> QED
    BY <2>4, <2>5
<1>3. \A n \in 0 .. m : n \in S
  <2> HIDE DEF S
  <2> QED
    BY <1>1, <1>2, UpInduction
<1> QED
  BY <1>3, PathIsClimb

-----------------------------------------------------------------------------
(* The walk of a directory as a recursive function.                        *)

IsListing(w, t, d) ==
  w = [n \in Ids |->
         IF n = 0 THEN <<>>
         ELSE LET e == t.ent[n]
              IN  IF e.parent = d THEN <<n>> \o w[e.left] \o w[e.right]
                  ELSE IF e.parent < d THEN w[e.right] ELSE w[e.left]]
Listing(t, d) == CHOOSE w : IsListing(w, t, d)

LEMMA ChildrenIsListing ==
  ASSUME NEW t, NEW d
  PROVE  Children(t, d) = Listing(t, d)[1]
BY DEF Children, Listing, IsListing

(* A function that is defined along two increasing arguments exists.       *)
TwoRecursion(f, dom, own, here, left, right) ==
  f = [n \in dom |->
         IF n = 0 THEN <<>>
         ELSE IF here[n] = "own" THEN own[n] \o f[left[n]] \o f[right[n]]
         ELSE IF here[n] = "right" THEN f[right[n]] ELSE f[left[n]]]

LEMMA RecursionTwice ==
  ASSUME NEW M \in Nat, NEW own, NEW here, NEW left, NEW right,
         \A n \in 1 .. M : /\ left[n] \in {0} \cup n + 1 .. M
                           /\ right[n] \in {0} \cup n + 1 .. M
  PROVE  \E f : TwoRecursion(f, 0 .. M, own, here, left, right)
<1> DEFINE Dom(k) == {0} \cup k + 1 .. M
           Upto(k) == \E f : TwoRecursion(f, Dom(k), own, here, left, right)
           S == {k \in 0 .. M : Upto(k)}
<1>1. ASSUME NEW k \in 0 .. M, \A m \in k + 1 .. M : m \in S
      PROVE  k \in S
  <2>1. CASE k = M
    <3> DEFINE e == [n \in {0} |-> <<>>]
    <3>1. Dom(k) = {0}
      BY <2>1
    <3>2. TwoRecursion(e, {0}, own, here, left, right)
      BY DEF TwoRecursion
    <3> QED
      BY <3>1, <3>2
  <2>2. CASE k # M
    <3> DEFINE j == k + 1
    <3>1. j \in k + 1 .. M /\ j \in 1 .. M /\ j # 0
      BY <2>2
    <3>2. PICK f : TwoRecursion(f, Dom(j), own, here, left, right)
      BY <3>1, <1>1
    <3>3. Dom(k) = Dom(j) \cup {j} /\ j \notin Dom(j)
      BY <3>1
    <3>4. \A n \in Dom(k) : n # 0 => left[n] \in Dom(j) /\ right[n] \in Dom(j)
      <4> SUFFICES ASSUME NEW n \in k + 1 .. M
                   PROVE  left[n] \in Dom(j) /\ right[n] \in Dom(j)
        OBVIOUS
      <4>1. n \in 1 .. M /\ n + 1 .. M \subseteq j + 1 .. M
        OBVIOUS
      <4> QED
        BY <4>1
    <3> DEFINE at == IF here[j] = "own" THEN own[j] \o f[left[j]] \o f[right[j]]
                     ELSE IF here[j] = "right" THEN f[right[j]] ELSE f[left[j]]
               g == [n \in Dom(k) |-> IF n = j THEN at ELSE f[n]]
    <3> HIDE DEF Dom, j
    <3>5. \A n \in Dom(j) : g[n] = f[n]
      BY <3>3
    <3>6. g[j] = at
      BY <3>3
    <3>7. \A n \in Dom(j) :
            f[n] = IF n = 0 THEN <<>>
                   ELSE IF here[n] = "own" THEN own[n] \o f[left[n]] \o f[right[n]]
                   ELSE IF here[n] = "right" THEN f[right[n]] ELSE f[left[n]]
      BY <3>2 DEF TwoRecursion
    <3>8. g = [n \in Dom(k) |-> g[n]]
      OBVIOUS
    <3>9. g[j] = IF here[j] = "own" THEN own[j] \o g[left[j]] \o g[right[j]]
                 ELSE IF here[j] = "right" THEN g[right[j]] ELSE g[left[j]]
      BY <3>1, <3>3, <3>4, <3>5, <3>6
    <3> HIDE DEF g, at
    <3>10. ASSUME NEW n \in Dom(k)
           PROVE  g[n] = IF n = 0 THEN <<>>
                         ELSE IF here[n] = "own" THEN own[n] \o g[left[n]] \o g[right[n]]
                         ELSE IF here[n] = "right" THEN g[right[n]] ELSE g[left[n]]
      <4>1. CASE n = j
        BY <3>1, <3>9, <4>1
      <4>2. CASE n # j
        <5>1. n \in Dom(j) /\ g[n] = f[n]
          BY <3>3, <3>5, <4>2
        <5>2. n # 0 => g[left[n]] = f[left[n]] /\ g[right[n]] = f[right[n]]
          BY <3>4, <3>5
        <5> QED
          BY <3>7, <5>1, <5>2
      <4> QED
        BY <4>1, <4>2
    <3>11. TwoRecursion(g, Dom(k), own, here, left, right)
      BY <3>8, <3>10 DEF TwoRecursion
    <3> QED
      BY <3>11
  <2> QED
    BY <2>1, <2>2
<1>2. \A k \in 0 .. M : k \in S
  <2> HIDE DEF S
  <2> QED
    BY <1>1, DownInduction
<1>3. Upto(0) /\ Dom(0) = 0 .. M
  <2>1. 0 \in 0 .. M
    OBVIOUS
  <2> QED
    BY <1>2, <2>1
<1> QED
  BY <1>3

(* One step of the walk. *)
LEMMA ListingStep ==
  ASSUME NEW t \in Table, Acyclic(t), NEW d
  PROVE  /\ Listing(t, d)[0] = <<>>
         /\ \A n \in Ids \ {0} :
              Listing(t, d)[n] =
                IF t.ent[n].parent = d
                THEN <<n>> \o Listing(t, d)[t.ent[n].left] \o Listing(t, d)[t.ent[n].right]
                ELSE IF t.ent[n].parent < d THEN Listing(t, d)[t.ent[n].right]
                ELSE Listing(t, d)[t.ent[n].left]
<1> DEFINE own == [n \in Ids |-> <<n>>]
           here == [n \in Ids |-> IF t.ent[n].parent = d THEN "own"
                                  ELSE IF t.ent[n].parent < d THEN "right" ELSE "left"]
           left == [n \in Ids |-> t.ent[n].left]
           right == [n \in Ids |-> t.ent[n].right]
<1>1. MaxId \in Nat /\ 1 .. MaxId \subseteq Ids /\ Ids = 0 .. MaxId
  BY TableAssumption DEF Ids
<1>2. \A n \in 1 .. MaxId : /\ left[n] \in {0} \cup n + 1 .. MaxId
                            /\ right[n] \in {0} \cup n + 1 .. MaxId
  BY <1>1 DEF Acyclic, Sides
<1>3. PICK f : TwoRecursion(f, 0 .. MaxId, own, here, left, right)
  <2> HIDE DEF own, here, left, right
  <2> QED
    BY <1>1, <1>2, RecursionTwice
<1>4. IsListing(f, t, d)
  <2>1. f = [n \in Ids |->
               IF n = 0 THEN <<>>
               ELSE IF here[n] = "own" THEN own[n] \o f[left[n]] \o f[right[n]]
               ELSE IF here[n] = "right" THEN f[right[n]] ELSE f[left[n]]]
    BY <1>1, <1>3 DEF TwoRecursion
  <2>2. \A n \in Ids :
          (IF n = 0 THEN <<>>
           ELSE IF here[n] = "own" THEN own[n] \o f[left[n]] \o f[right[n]]
           ELSE IF here[n] = "right" THEN f[right[n]] ELSE f[left[n]])
          = IF n = 0 THEN <<>>
            ELSE LET e == t.ent[n]
                 IN  IF e.parent = d THEN <<n>> \o f[e.left] \o f[e.right]
                     ELSE IF e.parent < d THEN f[e.right] ELSE f[e.left]
    OBVIOUS
  <2> HIDE DEF own, here, left, right
  <2> QED
    BY <2>1, <2>2 DEF IsListing
<1>5. IsListing(Listing(t, d), t, d)
  BY <1>4 DEF Listing
<1> DEFINE w == Listing(t, d)
<1> HIDE DEF w
<1>6. w = [n \in Ids |->
             IF n = 0 THEN <<>>
             ELSE IF t.ent[n].parent = d THEN <<n>> \o w[t.ent[n].left] \o w[t.ent[n].right]
             ELSE IF t.ent[n].parent < d THEN w[t.ent[n].right] ELSE w[t.ent[n].left]]
  BY <1>5 DEF IsListing, w
<1>7. 0 \in Ids
  BY <1>1
<1>8. w[0] = <<>>
  BY <1>6, <1>7
<1>9. \A n \in Ids \ {0} :
        w[n] = IF t.ent[n].parent = d THEN <<n>> \o w[t.ent[n].left] \o w[t.ent[n].right]
               ELSE IF t.ent[n].parent < d THEN w[t.ent[n].right] ELSE w[t.ent[n].left]
  BY <1>6
<1> QED
  BY <1>8, <1>9 DEF w

(* The same for the entries in use. *)
LEMMA ListingInUse ==
  ASSUME NEW t \in Table, Acyclic(t), NEW d
  PROVE  /\ Listing(t, d)[0] = <<>>
         /\ \A n \in 1 .. t.id :
              LET l == t.ent[n].left
                  r == t.ent[n].right
              IN  /\ l \in {0} \cup n + 1 .. t.id
                  /\ r \in {0} \cup n + 1 .. t.id
                  /\ Listing(t, d)[n] =
                       IF t.ent[n].parent = d
                       THEN <<n>> \o Listing(t, d)[l] \o Listing(t, d)[r]
                       ELSE IF t.ent[n].parent < d THEN Listing(t, d)[r] ELSE Listing(t, d)[l]
<1>1. 0 \in Ids /\ \A n \in 1 .. t.id : n \in Ids /\ n # 0
  BY TableFields, TableAssumption DEF Ids
<1>2. Listing(t, d)[0] = <<>>
  BY ListingStep
<1>3. ASSUME NEW n \in 1 .. t.id
      PROVE  /\ t.ent[n].left \in {0} \cup n + 1 .. t.id
             /\ t.ent[n].right \in {0} \cup n + 1 .. t.id
  BY LinkRange DEF Sides
<1>4. ASSUME NEW n \in 1 .. t.id
      PROVE  Listing(t, d)[n] =
               IF t.ent[n].parent = d
               THEN <<n>> \o Listing(t, d)[t.ent[n].left] \o Listing(t, d)[t.ent[n].right]
               ELSE IF t.ent[n].parent < d THEN Listing(t, d)[t.ent[n].right]
               ELSE Listing(t, d)[t.ent[n].left]
  BY <1>1, ListingStep
<1> QED
  BY <1>2, <1>3, <1>4

(* The walk meets entries in use only. *)
LEMMA ListingRange ==
  ASSUME NEW t \in Table, Acyclic(t), NEW d
  PROVE  \A n \in 0 .. t.id : Listing(t, d)[n] \in Seq(1 .. t.id)
<1> DEFINE w == Listing(t, d)
           S == {n \in 0 .. t.id : w[n] \in Seq(1 .. t.id)}
<1>1. t.id \in Nat
  BY TableFields
<1>2. ASSUME NEW n \in 0 .. t.id, \A k \in n + 1 .. t.id : k \in S
      PROVE  n \in S
  <2>1. w[0] \in Seq(1 .. t.id)
    <3>1. w[0] = <<>>
      BY ListingInUse
    <3> HIDE DEF w
    <3> QED
      BY <3>1
  <2>2. CASE n = 0
    BY <2>1, <2>2
  <2>3. CASE n # 0
    <3> DEFINE l == t.ent[n].left
               r == t.ent[n].right
    <3>1. n \in 1 .. t.id
      BY <2>3
    <3>2. /\ l \in {0} \cup n + 1 .. t.id
          /\ r \in {0} \cup n + 1 .. t.id
          /\ w[n] = IF t.ent[n].parent = d THEN <<n>> \o w[l] \o w[r]
                    ELSE IF t.ent[n].parent < d THEN w[r] ELSE w[l]
      BY <3>1, ListingInUse
    <3> HIDE DEF w, l, r
    <3>3. w[l] \in Seq(1 .. t.id) /\ w[r] \in Seq(1 .. t.id)
      BY <1>2, <2>1, <3>2
    <3>4. <<n>> \in Seq(1 .. t.id)
      BY <3>1
    <3>5. <<n>> \o w[l] \o w[r] \in Seq(1 .. t.id)
      BY <3>3, <3>4
    <3> QED
      BY <3>2, <3>3, <3>5
  <2> QED
    BY <2>2, <2>3
<1>3. \A n \in 0 .. t.id : n \in S
  <2> HIDE DEF S
  <2> QED
    BY <1>1, <1>2, DownInduction
<1> QED
  BY <1>3

(* The walk of a directory looks at keys and links only. *)
LEMMA SameListing ==
  ASSUME NEW t \in Table, Acyclic(t), NEW u \in Table, Acyclic(u), u.id = t.id,
         SameKeys(t, u, t.id), SameLinks(t, u, t.id), NEW d
  PROVE  \A n \in 0 .. t.id : Listing(u, d)[n] = Listing(t, d)[n]
<1> DEFINE v == Listing(t, d)
           w == Listing(u, d)
           S == {n \in 0 .. t.id : w[n] = v[n]}
<1>1. t.id \in Nat
  BY TableFields
<1>2. ASSUME NEW n \in 0 .. t.id, \A k \in n + 1 .. t.id : k \in S
      PROVE  n \in S
  <2>1. v[0] = <<>> /\ w[0] = <<>>
    BY ListingInUse
  <2>2. CASE n = 0
    BY <2>1, <2>2
  <2>3. CASE n # 0
    <3> DEFINE l == t.ent[n].left
               r == t.ent[n].right
    <3>1. n \in 1 .. t.id /\ n \in 1 .. u.id
      BY <2>3
    <3>2. u.ent[n].parent = t.ent[n].parent /\ u.ent[n].left = l /\ u.ent[n].right = r
      BY <3>1 DEF SameKeys, SameLinks, Sides
    <3>3. /\ l \in {0} \cup n + 1 .. t.id
          /\ r \in {0} \cup n + 1 .. t.id
          /\ v[n] = IF t.ent[n].parent = d THEN <<n>> \o v[l] \o v[r]
                    ELSE IF t.ent[n].parent < d THEN v[r] ELSE v[l]
      BY <3>1, ListingInUse
    <3>4. w[n] = IF t.ent[n].parent = d THEN <<n>> \o w[l] \o w[r]
                 ELSE IF t.ent[n].parent < d THEN w[r] ELSE w[l]
      <4>1. w[n] = IF u.ent[n].parent = d THEN <<n>> \o w[u.ent[n].left] \o w[u.ent[n].right]
                   ELSE IF u.ent[n].parent < d THEN w[u.ent[n].right] ELSE w[u.ent[n].left]
        BY <3>1, ListingInUse
      <4> QED
        BY <3>2, <4>1
    <3> HIDE DEF v, w, l, r
    <3>5. w[l] = v[l] /\ w[r] = v[r]
      BY <1>2, <2>1, <3>3
    <3> QED
      BY <3>3, <3>4, <3>5
  <2> QED
    BY <2>2, <2>3
<1>3. \A n \in 0 .. t.id : n \in S
  <2> HIDE DEF S
  <2> QED
    BY <1>1, <1>2, DownInduction
<1> QED
  BY <1>3

(* A new entry does not show in the walk of another directory. *)
LEMMA InsertListing ==
  ASSUME NEW t \in Table, Acyclic(t), NEW u \in Table, Acyclic(u), u.id = t.id + 1,
         SameKeys(t, u, t.id), NEW at \in 1 .. t.id, NEW free \in Sides,
         t.ent[at][free] = 0,
         \A n \in 1 .. t.id, side \in Sides :
           u.ent[n][side] = IF n = at /\ side = free THEN t.id + 1 ELSE t.ent[n][side],
         \A side \in Sides : u.ent[u.id][side] = 0,
         NEW d, u.ent[u.id].parent # d
  PROVE  \A n \in 0 .. t.id : Listing(u, d)[n] = Listing(t, d)[n]
<1> DEFINE v == Listing(t, d)
           w == Listing(u, d)
           S == {n \in 0 .. t.id : w[n] = v[n]}
<1>1. t.id \in Nat /\ u.id \in 1 .. u.id
  BY TableFields
<1>2. v[0] = <<>> /\ w[0] = <<>>
  BY ListingInUse
<1>3. w[t.id + 1] = <<>>
  <2>1. u.ent[u.id].left = 0 /\ u.ent[u.id].right = 0
    BY DEF Sides
  <2> DEFINE i == u.id
  <2>2. w[i] = IF u.ent[i].parent = d THEN <<i>> \o w[u.ent[i].left] \o w[u.ent[i].right]
               ELSE IF u.ent[i].parent < d THEN w[u.ent[i].right] ELSE w[u.ent[i].left]
    <3> HIDE DEF i
    <3>1. i \in 1 .. u.id
      BY <1>1 DEF i
    <3> QED
      BY <3>1, ListingInUse
  <2> HIDE DEF v, w
  <2> QED
    BY <1>2, <2>1, <2>2
<1>4. ASSUME NEW n \in 0 .. t.id, \A k \in n + 1 .. t.id : k \in S
      PROVE  n \in S
  <2>1. CASE n = 0
    BY <1>2, <2>1
  <2>2. CASE n # 0
    <3>1. n \in 1 .. t.id /\ n \in 1 .. u.id
      BY <2>2, <1>1
    <3>2. /\ t.ent[n].left \in {0} \cup n + 1 .. t.id
          /\ t.ent[n].right \in {0} \cup n + 1 .. t.id
          /\ v[n] = IF t.ent[n].parent = d THEN <<n>> \o v[t.ent[n].left] \o v[t.ent[n].right]
                    ELSE IF t.ent[n].parent < d THEN v[t.ent[n].right] ELSE v[t.ent[n].left]
      BY <3>1, ListingInUse
    <3>3. w[n] = IF u.ent[n].parent = d THEN <<n>> \o w[u.ent[n].left] \o w[u.ent[n].right]
                 ELSE IF u.ent[n].parent < d THEN w[u.ent[n].right] ELSE w[u.ent[n].left]
      BY <3>1, ListingInUse
    <3>4. u.ent[n].parent = t.ent[n].parent
      BY <3>1 DEF SameKeys
    <3>5. /\ u.ent[n].left \in {t.ent[n].left, t.id + 1}
          /\ u.ent[n].left = t.id + 1 => t.ent[n].left = 0
          /\ u.ent[n].right \in {t.ent[n].right, t.id + 1}
          /\ u.ent[n].right = t.id + 1 => t.ent[n].right = 0
      <4>1. \A side \in Sides : \/ u.ent[n][side] = t.ent[n][side]
                                \/ u.ent[n][side] = t.id + 1 /\ t.ent[n][side] = 0
        BY <3>1
      <4>2. t.ent[n].left # t.id + 1 /\ t.ent[n].right # t.id + 1
        BY <1>1, <3>2
      <4> QED
        BY <4>1, <4>2 DEF Sides
    <3> HIDE DEF v, w
    <3>6. \A k \in {0} \cup n + 1 .. t.id : w[k] = v[k]
      BY <1>2, <1>4
    <3>7. w[u.ent[n].left] = v[t.ent[n].left] /\ w[u.ent[n].right] = v[t.ent[n].right]
      BY <1>2, <1>3, <3>2, <3>5, <3>6
    <3> QED
      BY <3>2, <3>3, <3>4, <3>7
  <2> QED
    BY <2>1, <2>2
<1>5. \A n \in 0 .. t.id : n \in S
  <2> HIDE DEF S
  <2> QED
    BY <1>1, <1>4, DownInduction
<1> QED
  BY <1>5

-----------------------------------------------------------------------------
(* The walk meets the children of a directory, each once.                  *)

(* No entry is linked twice. *)
LinksOnce(t) ==
  \A m, n \in 1 .. t.id, a, b \in Sides :
    t.ent[m][a] # 0 /\ t.ent[m][a] = t.ent[n][b] => m = n /\ a = b

(* The entries that links lead to from entry n, itself among them: the     *)
(* least set with n that no link leaves.                                   *)
NoLinkLeaves(t, C) ==
  \A n \in C, side \in Sides : t.ent[n][side] # 0 => t.ent[n][side] \in C
Below(t, n) ==
  {m \in 1 .. t.id :
     \A C \in SUBSET (1 .. t.id) : n \in C /\ NoLinkLeaves(t, C) => m \in C}

LEMMA BelowFacts ==
  ASSUME NEW t \in Table, Acyclic(t), NEW n \in 1 .. t.id
  PROVE  /\ n \in Below(t, n) /\ Below(t, n) \subseteq n .. t.id
         /\ NoLinkLeaves(t, Below(t, n))
         /\ \A m \in Below(t, n) : Below(t, m) \subseteq Below(t, n)
         /\ \A m \in Below(t, n) \ {n} :
              \E p \in Below(t, n), side \in Sides : t.ent[p][side] = m /\ m # 0
<1> DEFINE B == Below(t, n)
<1>1. t.id \in Nat /\ B \subseteq 1 .. t.id
  BY TableFields DEF Below
<1>2. n \in B
  BY DEF Below
<1>3. NoLinkLeaves(t, n .. t.id)
  <2> SUFFICES ASSUME NEW m \in n .. t.id, NEW side \in Sides, t.ent[m][side] # 0
               PROVE  t.ent[m][side] \in n .. t.id
    BY DEF NoLinkLeaves
  <2>1. m \in 1 .. t.id
    BY <1>1
  <2>2. t.ent[m][side] \in m + 1 .. t.id
    BY <2>1, LinkRange
  <2> QED
    BY <2>2, <1>1
<1>4. B \subseteq n .. t.id
  <2>1. n .. t.id \in SUBSET (1 .. t.id) /\ n \in n .. t.id
    BY <1>1
  <2> QED
    BY <1>3, <2>1 DEF Below
<1>5. NoLinkLeaves(t, B)
  <2> SUFFICES ASSUME NEW m \in B, NEW side \in Sides, t.ent[m][side] # 0
               PROVE  t.ent[m][side] \in B
    BY DEF NoLinkLeaves
  <2>1. m \in 1 .. t.id
    BY <1>1
  <2>2. t.ent[m][side] \in 1 .. t.id
    <3>1. t.ent[m][side] \in m + 1 .. t.id
      BY <2>1, LinkRange
    <3> QED
      BY <3>1, <2>1, <1>1
  <2>3. ASSUME NEW C \in SUBSET (1 .. t.id), n \in C, NoLinkLeaves(t, C)
        PROVE  t.ent[m][side] \in C
    <3>1. m \in C
      BY <2>3 DEF Below
    <3> QED
      BY <3>1, <2>3 DEF NoLinkLeaves
  <2> QED
    BY <2>2, <2>3 DEF Below
<1>6. ASSUME NEW m \in B PROVE Below(t, m) \subseteq B
  <2>1. B \in SUBSET (1 .. t.id)
    BY <1>1
  <2> QED
    BY <1>5, <1>6, <2>1 DEF Below
<1>7. ASSUME NEW m \in B \ {n}
      PROVE  \E p \in B, side \in Sides : t.ent[p][side] = m /\ m # 0
  <2> SUFFICES ASSUME \A p \in B, side \in Sides : t.ent[p][side] # m
               PROVE  FALSE
    BY <1>1
  <2> DEFINE C == B \ {m}
  <2>1. C \in SUBSET (1 .. t.id) /\ n \in C
    BY <1>1, <1>2, <1>7
  <2>2. NoLinkLeaves(t, C)
    <3> SUFFICES ASSUME NEW p \in C, NEW side \in Sides, t.ent[p][side] # 0
                 PROVE  t.ent[p][side] \in C
      BY DEF NoLinkLeaves
    <3>1. t.ent[p][side] \in B
      BY <1>5 DEF NoLinkLeaves
    <3> QED
      BY <3>1
  <2>3. m \in C
    <3>1. m \in Below(t, n)
      BY <1>7
    <3> HIDE DEF C
    <3> QED
      BY <2>1, <2>2, <3>1 DEF Below
  <2> QED
    BY <2>3
<1> QED
  BY <1>2, <1>4, <1>5, <1>6, <1>7

(* The two subtrees of an entry have nothing in common. *)
LEMMA SubtreesDisjoint ==
  ASSUME NEW t \in Table, Acyclic(t), LinksOnce(t), NEW n \in 1 .. t.id,
         t.ent[n].left # 0, t.ent[n].right # 0
  PROVE  Below(t, t.ent[n].left) \cap Below(t, t.ent[n].right) = {}
<1> DEFINE l == t.ent[n].left
           r == t.ent[n].right
           T == Below(t, l) \cap Below(t, r)
<1>1. t.id \in Nat
  BY TableFields
<1>2. l \in n + 1 .. t.id /\ r \in n + 1 .. t.id
  BY LinkRange DEF Sides
<1>3. l \in 1 .. t.id /\ r \in 1 .. t.id
  BY <1>1, <1>2
<1>4. l # r
  <2>1. \A a, b \in Sides : t.ent[n][a] # 0 /\ t.ent[n][a] = t.ent[n][b] => a = b
    BY DEF LinksOnce
  <2>2. "left" # "right" /\ "left" \in Sides /\ "right" \in Sides
    BY DEF Sides
  <2> QED
    BY <2>1, <2>2
<1> HIDE DEF l, r
<1>5. /\ Below(t, l) \subseteq l .. t.id
      /\ \A m \in Below(t, l) \ {l} :
              \E p \in Below(t, l), side \in Sides : t.ent[p][side] = m /\ m # 0
  BY <1>3, BelowFacts
<1>6. /\ Below(t, r) \subseteq r .. t.id
      /\ \A m \in Below(t, r) \ {r} :
              \E p \in Below(t, r), side \in Sides : t.ent[p][side] = m /\ m # 0
  BY <1>3, BelowFacts
<1>7. \A i \in 1 .. t.id, side \in Sides : t.ent[i][side] # 0 => t.ent[i][side] > i
  <2> SUFFICES ASSUME NEW i \in 1 .. t.id, NEW side \in Sides, t.ent[i][side] # 0
               PROVE  t.ent[i][side] > i
    OBVIOUS
  <2>1. t.ent[i][side] \in i + 1 .. t.id
    BY LinkRange
  <2> QED
    BY <2>1
<1>8. SUFFICES ASSUME T # {} PROVE FALSE
  BY DEF l, r
<1>9. PICK x \in T : \A y \in T : x <= y
  <2>1. T \subseteq Nat
    BY <1>3, <1>5
  <2> HIDE DEF T
  <2> QED
    BY <1>8, <2>1, LeastExists
<1>10. x \in l .. t.id /\ x \in r .. t.id
  BY <1>5, <1>6, <1>9
<1>11. \A i \in 1 .. t.id, side \in Sides :
         /\ t.ent[i][side] = l => i = n
         /\ t.ent[i][side] = r => i = n
  <2>1. t.ent[n]["left"] = l /\ t.ent[n]["right"] = r /\ l # 0 /\ r # 0
    BY DEF l, r
  <2>2. "left" \in Sides /\ "right" \in Sides
    BY DEF Sides
  <2> QED
    BY <2>1, <2>2 DEF LinksOnce
<1>12. CASE x = l
  <2>1. PICK p \in Below(t, r), side \in Sides : t.ent[p][side] = l
    BY <1>4, <1>6, <1>9, <1>12
  <2>2. p \in r .. t.id /\ p \in 1 .. t.id
    BY <1>1, <1>3, <1>6
  <2>3. p = n
    BY <1>11, <2>1, <2>2
  <2> QED
    BY <1>2, <2>2, <2>3
<1>13. CASE x = r
  <2>1. PICK p \in Below(t, l), side \in Sides : t.ent[p][side] = r
    BY <1>4, <1>5, <1>9, <1>13
  <2>2. p \in l .. t.id /\ p \in 1 .. t.id
    BY <1>1, <1>3, <1>5
  <2>3. p = n
    BY <1>11, <2>1, <2>2
  <2> QED
    BY <1>2, <2>2, <2>3
<1>14. CASE x # l /\ x # r
  <2>1. PICK p \in Below(t, l), a \in Sides : t.ent[p][a] = x /\ x # 0
    BY <1>5, <1>9, <1>14
  <2>2. PICK q \in Below(t, r), b \in Sides : t.ent[q][b] = x
    BY <1>6, <1>9, <1>14
  <2>3. p \in 1 .. t.id /\ q \in 1 .. t.id
    BY <1>1, <1>3, <1>5, <1>6
  <2>4. p = q
    BY <2>1, <2>2, <2>3 DEF LinksOnce
  <2>5. p \in T /\ x > p
    BY <1>7, <2>1, <2>3, <2>4
  <2> QED
    BY <1>9, <1>10, <2>3, <2>5
<1> QED
  BY <1>12, <1>13, <1>14

LEMMA ConcatSets ==
  ASSUME NEW X, NEW s \in Seq(X), NEW v \in Seq(X)
  PROVE  /\ ToSet(s \o v) = ToSet(s) \cup ToSet(v)
         /\ IsInjective(s) /\ IsInjective(v) /\ ToSet(s) \cap ToSet(v) = {} => IsInjective(s \o v)
<1> DEFINE c == s \o v
<1>1. /\ Len(s) \in Nat /\ Len(v) \in Nat
      /\ DOMAIN s = 1 .. Len(s) /\ DOMAIN v = 1 .. Len(v)
      /\ DOMAIN c = 1 .. Len(s) + Len(v)
  OBVIOUS
<1>2. \A i \in 1 .. Len(s) : c[i] = s[i] /\ i \in DOMAIN c
  BY <1>1
<1>3. \A i \in 1 .. Len(v) : c[i + Len(s)] = v[i] /\ i + Len(s) \in DOMAIN c
  BY <1>1
<1>4. \A i \in DOMAIN c : \/ i \in 1 .. Len(s)
                          \/ i - Len(s) \in 1 .. Len(v) /\ c[i] = v[i - Len(s)]
  BY <1>1
<1> HIDE DEF c
<1>5. ToSet(c) \subseteq ToSet(s) \cup ToSet(v)
  BY <1>1, <1>2, <1>4 DEF ToSet
<1>6. ToSet(s) \subseteq ToSet(c)
  BY <1>1, <1>2 DEF ToSet
<1>7. ToSet(v) \subseteq ToSet(c)
  BY <1>1, <1>3 DEF ToSet
<1>8. ASSUME IsInjective(s), IsInjective(v), ToSet(s) \cap ToSet(v) = {}
      PROVE  IsInjective(c)
  <2> SUFFICES ASSUME NEW i \in DOMAIN c, NEW j \in DOMAIN c, c[i] = c[j] PROVE i = j
    BY DEF IsInjective
  <2>1. CASE i \in 1 .. Len(s) /\ j \in 1 .. Len(s)
    BY <1>1, <1>2, <1>8, <2>1 DEF IsInjective
  <2>2. CASE i \notin 1 .. Len(s) /\ j \notin 1 .. Len(s)
    <3>1. i - Len(s) = j - Len(s)
      BY <1>1, <1>4, <1>8, <2>2 DEF IsInjective
    <3> QED
      BY <3>1, <1>1
  <2>3. ASSUME NEW a \in DOMAIN c, NEW b \in DOMAIN c, c[a] = c[b],
               a \in 1 .. Len(s), b \notin 1 .. Len(s)
        PROVE  FALSE
    <3>1. c[a] \in ToSet(s)
      BY <1>1, <1>2, <2>3 DEF ToSet
    <3>2. c[b] \in ToSet(v)
      BY <1>1, <1>4, <2>3 DEF ToSet
    <3> QED
      BY <1>8, <2>3, <3>1, <3>2
  <2> QED
    BY <2>1, <2>2, <2>3
<1> QED
  BY <1>5, <1>6, <1>7, <1>8 DEF c

(* A list of entry n's own and of what its subtrees give. *)
LEMMA ThreeLists ==
  ASSUME NEW X, NEW n \in X, NEW s \in Seq(X), NEW v \in Seq(X), NEW o, o = <<n>>
  PROVE  /\ ToSet(o \o s \o v) = {n} \cup ToSet(s) \cup ToSet(v)
         /\ /\ IsInjective(s) /\ IsInjective(v) /\ ToSet(s) \cap ToSet(v) = {}
            /\ n \notin ToSet(s) /\ n \notin ToSet(v)
            => IsInjective(o \o s \o v)
<1>1. o \in Seq(X) /\ ToSet(o) = {n} /\ IsInjective(o)
  BY DEF ToSet, IsInjective
<1>2. o \o s \in Seq(X)
  BY <1>1
<1>3. /\ ToSet(o \o s) = {n} \cup ToSet(s)
      /\ IsInjective(s) /\ n \notin ToSet(s) => IsInjective(o \o s)
  <2>1. /\ ToSet(o \o s) = ToSet(o) \cup ToSet(s)
        /\ IsInjective(o) /\ IsInjective(s) /\ ToSet(o) \cap ToSet(s) = {} =>
             IsInjective(o \o s)
    BY ZenonT(30), <1>1, ConcatSets
  <2> QED
    BY <1>1, <2>1
<1>4. /\ ToSet(o \o s \o v) = ToSet(o \o s) \cup ToSet(v)
      /\ IsInjective(o \o s) /\ IsInjective(v) /\ ToSet(o \o s) \cap ToSet(v) = {} =>
           IsInjective(o \o s \o v)
  BY <1>2, ConcatSets
<1> QED
  BY <1>3, <1>4

(* Nothing is met twice, and nothing that is not in the subtree. *)
LEMMA ListingOnce ==
  ASSUME NEW t \in Table, Acyclic(t), LinksOnce(t), NEW d
  PROVE  \A n \in 1 .. t.id : /\ IsInjective(Listing(t, d)[n])
                              /\ ToSet(Listing(t, d)[n]) \subseteq Below(t, n)
<1> DEFINE w == Listing(t, d)
           Once(n) == /\ IsInjective(w[n])
                      /\ ToSet(w[n]) \subseteq IF n = 0 THEN {} ELSE Below(t, n)
           S == {n \in 0 .. t.id : Once(n)}
<1>1. t.id \in Nat
  BY TableFields
<1>2. ASSUME NEW n \in 0 .. t.id, \A k \in n + 1 .. t.id : k \in S
      PROVE  n \in S
  <2>1. Once(0)
    <3>1. w[0] = <<>>
      BY ListingInUse
    <3> HIDE DEF w
    <3> QED
      BY <3>1 DEF IsInjective, ToSet
  <2>2. CASE n = 0
    BY <2>1, <2>2
  <2>3. CASE n # 0
    <3> DEFINE l == t.ent[n].left
               r == t.ent[n].right
    <3>1. n \in 1 .. t.id
      BY <2>3
    <3>2. /\ l \in {0} \cup n + 1 .. t.id
          /\ r \in {0} \cup n + 1 .. t.id
          /\ w[n] = IF t.ent[n].parent = d THEN <<n>> \o w[l] \o w[r]
                    ELSE IF t.ent[n].parent < d THEN w[r] ELSE w[l]
      BY SMTT(30), <3>1, ListingInUse
    <3>3. /\ n \in Below(t, n) /\ NoLinkLeaves(t, Below(t, n))
          /\ \A m \in Below(t, n) : Below(t, m) \subseteq Below(t, n)
      BY <3>1, BelowFacts
    <3>4. /\ l # 0 => l \in Below(t, n)
          /\ r # 0 => r \in Below(t, n)
      BY <3>3 DEF NoLinkLeaves, Sides
    <3>5. l # 0 /\ r # 0 => Below(t, l) \cap Below(t, r) = {}
      BY <3>1, SubtreesDisjoint
    <3>6. \A k \in n + 1 .. t.id : n \notin Below(t, k)
      <4> SUFFICES ASSUME NEW k \in n + 1 .. t.id PROVE n \notin Below(t, k)
        OBVIOUS
      <4>1. k \in 1 .. t.id
        BY <3>1
      <4>2. Below(t, k) \subseteq k .. t.id
        BY <4>1, BelowFacts
      <4> QED
        BY <4>2
    <3>7. \A k \in 0 .. t.id : w[k] \in Seq(1 .. t.id)
      BY ListingRange
    <3> HIDE DEF w, l, r
    <3>8. Once(l) /\ Once(r)
      BY <1>2, <2>1, <3>2
    <3>9. w[l] \in Seq(1 .. t.id) /\ w[r] \in Seq(1 .. t.id)
      <4>1. l \in 0 .. t.id /\ r \in 0 .. t.id
        BY <1>1, <3>1, <3>2
      <4> QED
        BY <3>7, <4>1
    <3>10. /\ IsInjective(w[l]) /\ IsInjective(w[r]) /\ ToSet(w[l]) \cap ToSet(w[r]) = {}
           /\ n \notin ToSet(w[l]) /\ n \notin ToSet(w[r])
           /\ ToSet(w[l]) \subseteq Below(t, n) /\ ToSet(w[r]) \subseteq Below(t, n)
      BY <3>2, <3>3, <3>4, <3>5, <3>6, <3>8
    <3>11. /\ ToSet(<<n>> \o w[l] \o w[r]) = {n} \cup ToSet(w[l]) \cup ToSet(w[r])
           /\ IsInjective(<<n>> \o w[l] \o w[r])
      <4> DEFINE s == w[l]
                 v == w[r]
                 o == <<n>>
                 X == 1 .. t.id
      <4>1. s \in Seq(X) /\ v \in Seq(X) /\ n \in X
        BY <3>1, <3>9
      <4>2. /\ IsInjective(s) /\ IsInjective(v) /\ ToSet(s) \cap ToSet(v) = {}
            /\ n \notin ToSet(s) /\ n \notin ToSet(v)
        BY <3>10
      <4>3. o = <<n>>
        OBVIOUS
      <4> HIDE DEF s, v, o, X
      <4>4. /\ ToSet(o \o s \o v) = {n} \cup ToSet(s) \cup ToSet(v)
            /\ IsInjective(o \o s \o v)
        BY <4>1, <4>2, <4>3, ThreeLists
      <4> QED
        BY <4>4 DEF s, v, o
    <3>12. IsInjective(w[n]) /\ ToSet(w[n]) \subseteq Below(t, n)
      BY <3>2, <3>3, <3>10, <3>11
    <3> QED
      BY <2>3, <3>12
  <2> QED
    BY <2>2, <2>3
<1>3. \A n \in 0 .. t.id : n \in S
  <2> HIDE DEF S
  <2> QED
    BY <1>1, <1>2, DownInduction
<1> QED
  BY <1>3, <1>1

(* What is met is in the directory, and what is in the directory is met    *)
(* wherever a descent to it leads.                                         *)
LEMMA ListingMeets ==
  ASSUME NEW t \in Table, Acyclic(t), NEW d \in Int
  PROVE  \A n \in 1 .. t.id :
           /\ \A m \in ToSet(Listing(t, d)[n]) : t.ent[m].parent = d
           /\ \A m \in 1 .. t.id :
                /\ t.ent[m].parent = d
                /\ Walk(t, d, t.ent[m].name)[n] = [node |-> m, side |-> "found"]
                => m \in ToSet(Listing(t, d)[n])
<1> DEFINE w == Listing(t, d)
           Leads(n, m) == Walk(t, d, t.ent[m].name)[n] = [node |-> m, side |-> "found"]
           Meets(n) == /\ \A m \in ToSet(w[n]) : t.ent[m].parent = d
                       /\ n # 0 => \A m \in 1 .. t.id :
                            t.ent[m].parent = d /\ Leads(n, m) => m \in ToSet(w[n])
           S == {n \in 0 .. t.id : Meets(n)}
<1>1. t.id \in Nat /\ 1 .. t.id \subseteq Ids /\ \A m \in Ids : t.ent[m] \in Entry
  BY TableFields, TableAssumption DEF Ids
<1>2. ASSUME NEW n \in 0 .. t.id, \A k \in n + 1 .. t.id : k \in S
      PROVE  n \in S
  <2>1. ToSet(w[0]) = {}
    <3>1. w[0] = <<>>
      BY ListingInUse
    <3> HIDE DEF w
    <3> QED
      BY <3>1 DEF ToSet
  <2>2. CASE n = 0
    <3> HIDE DEF w, Leads
    <3> QED
      BY <2>1, <2>2
  <2>3. CASE n # 0
    <3> DEFINE l == t.ent[n].left
               r == t.ent[n].right
               p == t.ent[n].parent
    <3>1. n \in 1 .. t.id /\ n \in Ids
      BY <2>3, <1>1
    <3>2. /\ l \in {0} \cup n + 1 .. t.id
          /\ r \in {0} \cup n + 1 .. t.id
          /\ w[n] = IF p = d THEN <<n>> \o w[l] \o w[r]
                    ELSE IF p < d THEN w[r] ELSE w[l]
      BY <3>1, ListingInUse
    <3>3. \A k \in 0 .. t.id : w[k] \in Seq(1 .. t.id)
      BY ListingRange
    <3>4. p \in Int /\ t.ent[n].name \in Int
      BY <3>1, <1>1, EntryFields
    <3>5. ASSUME NEW m \in 1 .. t.id, Leads(n, m), m # n
          PROVE  \/ l # 0 /\ Leads(l, m) /\ p >= d
                 \/ r # 0 /\ Leads(r, m) /\ p <= d
      <4> DEFINE side == Side(t.ent[n], d, t.ent[m].name)
      <4>1. IF side = "found" \/ t.ent[n][side] = 0
            THEN Walk(t, d, t.ent[m].name)[n] = [node |-> n, side |-> side]
            ELSE Walk(t, d, t.ent[m].name)[n] = Walk(t, d, t.ent[m].name)[t.ent[n][side]]
        BY <3>1, WalkStep
      <4>2. side # "found" /\ t.ent[n][side] # 0 /\ Leads(t.ent[n][side], m)
        BY <3>5, <4>1
      <4>3. t.ent[m].name \in Int
        BY <1>1, EntryFields
      <4>4. \/ side = "left" /\ p >= d
            \/ side = "right" /\ p <= d
            \/ side = "found"
        BY <3>4, <4>3 DEF Side, CmpNode
      <4> HIDE DEF side, Leads
      <4> QED
        BY <4>2, <4>4
    <3> HIDE DEF w, l, r, p, Leads
    <3>6. w[l] \in Seq(1 .. t.id) /\ w[r] \in Seq(1 .. t.id)
      <4>1. l \in 0 .. t.id /\ r \in 0 .. t.id
        BY <1>1, <3>1, <3>2
      <4> QED
        BY <3>3, <4>1
    <3>7. ToSet(<<n>> \o w[l] \o w[r]) = {n} \cup ToSet(w[l]) \cup ToSet(w[r])
      <4> DEFINE s == w[l]
                 v == w[r]
                 o == <<n>>
                 X == 1 .. t.id
      <4>1. s \in Seq(X) /\ v \in Seq(X) /\ n \in X
        BY <3>1, <3>6
      <4>2. o = <<n>>
        OBVIOUS
      <4> HIDE DEF s, v, o, X
      <4>3. ToSet(o \o s \o v) = {n} \cup ToSet(s) \cup ToSet(v)
        BY <4>1, <4>2, ThreeLists
      <4> QED
        BY <4>3 DEF s, v, o
    <3>8. /\ \A m \in ToSet(w[l]) \cup ToSet(w[r]) : t.ent[m].parent = d
          /\ \A m \in 1 .. t.id :
               /\ t.ent[m].parent = d /\ l # 0 /\ Leads(l, m) => m \in ToSet(w[l])
               /\ t.ent[m].parent = d /\ r # 0 /\ Leads(r, m) => m \in ToSet(w[r])
      BY <1>2, <2>1, <3>2
    <3>9. \A m \in ToSet(w[n]) : t.ent[m].parent = d
      BY <3>2, <3>7, <3>8 DEF p
    <3>10. ASSUME NEW m \in 1 .. t.id, t.ent[m].parent = d, Leads(n, m)
           PROVE  m \in ToSet(w[n])
      <4>1. CASE m = n
        <5>1. p = d
          BY <3>10, <4>1 DEF p
        <5> QED
          BY <3>2, <3>7, <4>1, <5>1
      <4>2. CASE m # n
        <5>1. \/ l # 0 /\ Leads(l, m) /\ p >= d
              \/ r # 0 /\ Leads(r, m) /\ p <= d
          BY <3>5, <3>10, <4>2
        <5>2. \/ m \in ToSet(w[l]) /\ p >= d
              \/ m \in ToSet(w[r]) /\ p <= d
          BY <3>8, <3>10, <5>1
        <5> QED
          BY <3>2, <3>4, <3>7, <5>2
      <4> QED
        BY <4>1, <4>2
    <3> QED
      BY <3>9, <3>10
  <2> QED
    BY <2>2, <2>3
<1>3. \A n \in 0 .. t.id : n \in S
  <2> HIDE DEF S
  <2> QED
    BY <1>1, <1>2, DownInduction
<1> QED
  BY <1>3, <1>1

-----------------------------------------------------------------------------
(* The invariant of the tree.                                              *)

(* Every entry in use is where a search for its key ends. *)
Findable(t) ==
  \A n \in 1 .. t.id :
    Descend(t, t.ent[n].parent, t.ent[n].name) = [node |-> n, side |-> "found"]

TreeOK(t) ==
  /\ t \in Table
  /\ t.id < t.total
  /\ Acyclic(t)
  /\ ParentsFirst(t)
  /\ LinksOnce(t)
  /\ t.ent[1].parent = 0 /\ t.ent[1].name = RootName
  /\ Findable(t)

(* A search ends at the entry with the key or at a free link. *)
LEMMA DescentEnds ==
  ASSUME NEW t, TreeOK(t), NEW parent \in Int, NEW name \in Int
  PROVE  \/ \E n \in 1 .. t.id : /\ Descend(t, parent, name) = [node |-> n, side |-> "found"]
                                 /\ t.ent[n].parent = parent /\ t.ent[n].name = name
         \/ \E n \in 1 .. t.id, side \in Sides :
               /\ Descend(t, parent, name) = [node |-> n, side |-> side]
               /\ t.ent[n][side] = 0
<1>1. t \in Table /\ Acyclic(t) /\ 1 \in 1 .. t.id /\ 1 .. t.id \subseteq Ids
  BY TableFields, TableAssumption DEF TreeOK, Ids
<1>2. PICK m \in 1 .. t.id :
        LET side == Side(t.ent[m], parent, name)
        IN  /\ Walk(t, parent, name)[1] = [node |-> m, side |-> side]
            /\ side # "found" => t.ent[m][side] = 0
  BY <1>1, WalkEnds
<1> DEFINE side == Side(t.ent[m], parent, name)
<1>3. Descend(t, parent, name) = [node |-> m, side |-> side]
  BY <1>2, DescendIsWalk
<1>4. t.ent[m] \in Entry
  BY <1>1, TableFields
<1>5. CASE side = "found"
  BY <1>3, <1>4, <1>5, FoundIsKey
<1>6. CASE side # "found"
  <2>1. side \in Sides
    BY <1>6, SideKinds
  <2>2. t.ent[m][side] = 0
    BY <1>2, <1>6
  <2> HIDE DEF side
  <2> QED
    BY <1>3, <2>1, <2>2
<1> QED
  BY <1>5, <1>6

(* find_path() answers with the entry of the name if there is one, and     *)
(* else with none.                                                         *)
LEMMA FindPathFinds ==
  ASSUME NEW t, TreeOK(t), NEW parent \in Int, NEW name \in Int
  PROVE  /\ \/ FindPath(t, parent, name) = Missing
            \/ /\ FindPath(t, parent, name) \in 1 .. t.id
               /\ t.ent[FindPath(t, parent, name)].parent = parent
               /\ t.ent[FindPath(t, parent, name)].name = name
         /\ \A n \in 1 .. t.id :
              t.ent[n].parent = parent /\ t.ent[n].name = name =>
                FindPath(t, parent, name) = n
<1>1. "found" \notin Sides
  BY DEF Sides
<1>2. \/ FindPath(t, parent, name) = Missing
      \/ /\ FindPath(t, parent, name) \in 1 .. t.id
         /\ t.ent[FindPath(t, parent, name)].parent = parent
         /\ t.ent[FindPath(t, parent, name)].name = name
  BY <1>1, DescentEnds DEF FindPath
<1>3. ASSUME NEW n \in 1 .. t.id, t.ent[n].parent = parent, t.ent[n].name = name
      PROVE  FindPath(t, parent, name) = n
  <2>1. Descend(t, parent, name) = [node |-> n, side |-> "found"]
    BY <1>3 DEF TreeOK, Findable
  <2> QED
    BY <2>1 DEF FindPath
<1> QED
  BY <1>2, <1>3

(* No two entries in use have the same key. *)
LEMMA KeysDistinct ==
  ASSUME NEW t, TreeOK(t), NEW m \in 1 .. t.id, NEW n \in 1 .. t.id,
         t.ent[m].parent = t.ent[n].parent, t.ent[m].name = t.ent[n].name
  PROVE  m = n
<1>1. [node |-> m, side |-> "found"] = [node |-> n, side |-> "found"]
  BY DEF TreeOK, Findable
<1> QED
  BY <1>1

(* READDIR's walk gives the entries of the directory, each once. *)
LEMMA ChildrenExact ==
  ASSUME NEW t, TreeOK(t), NEW d \in Int
  PROVE  /\ IsInjective(Children(t, d))
         /\ ToSet(Children(t, d)) = {n \in 1 .. t.id : t.ent[n].parent = d}
<1>1. t \in Table /\ Acyclic(t) /\ LinksOnce(t) /\ 1 \in 1 .. t.id
  BY TableFields DEF TreeOK
<1> DEFINE c == Listing(t, d)[1]
<1>2. Children(t, d) = c
  BY ChildrenIsListing
<1>3. IsInjective(c) /\ ToSet(c) \subseteq Below(t, 1)
  BY <1>1, ListingOnce
<1>4. \A m \in ToSet(c) : m \in 1 .. t.id /\ t.ent[m].parent = d
  <2>1. \A m \in ToSet(c) : t.ent[m].parent = d
    BY <1>1, ListingMeets
  <2> QED
    BY <1>3, <2>1 DEF Below
<1>5. ASSUME NEW m \in 1 .. t.id, t.ent[m].parent = d
      PROVE  m \in ToSet(c)
  <2>1. Walk(t, d, t.ent[m].name)[1] = [node |-> m, side |-> "found"]
    BY <1>5, DescendIsWalk DEF TreeOK, Findable
  <2> QED
    BY <1>1, <1>5, <2>1, ListingMeets
<1> HIDE DEF c
<1> QED
  BY <1>2, <1>3, <1>4, <1>5

(* A step that changes neither keys nor links does not disturb the tree.   *)
SameShape(t, u) ==
  \A n \in Ids : /\ u.ent[n].parent = t.ent[n].parent
                 /\ u.ent[n].name = t.ent[n].name
                 /\ \A side \in Sides : u.ent[n][side] = t.ent[n][side]

LEMMA SameTree ==
  ASSUME NEW t, TreeOK(t), NEW u \in Table, u.id = t.id, u.total = t.total, SameShape(t, u)
  PROVE  /\ TreeOK(u)
         /\ \A parent, name : FindPath(u, parent, name) = FindPath(t, parent, name)
         /\ \A n \in 0 .. t.id : PathOf(u, n) = PathOf(t, n)
         /\ \A d : Children(u, d) = Children(t, d)
<1>1. t \in Table /\ Acyclic(t) /\ ParentsFirst(t) /\ t.id < t.total
  BY DEF TreeOK
<1>2. /\ t.id \in 1 .. MaxId /\ MaxId \in Nat /\ 1 \in 1 .. t.id
      /\ 1 .. t.id \subseteq Ids /\ 1 .. MaxId \subseteq Ids
  BY <1>1, TableFields, TableAssumption DEF Ids
<1>3. SameKeys(t, u, t.id) /\ SameLinks(t, u, t.id)
  BY <1>2 DEF SameShape, SameKeys, SameLinks
<1>4. Acyclic(u)
  BY <1>1 DEF Acyclic, SameShape
<1>5. ParentsFirst(u)
  BY <1>1, <1>2 DEF ParentsFirst, SameShape
<1>6. \A parent, name : Descend(u, parent, name) = Descend(t, parent, name)
  BY <1>1, <1>2, <1>3, <1>4, SameWalk, DescendIsWalk
<1>7. Findable(u)
  <2> SUFFICES ASSUME NEW n \in 1 .. t.id
               PROVE  Descend(u, u.ent[n].parent, u.ent[n].name) = [node |-> n, side |-> "found"]
    BY DEF Findable
  <2>1. Descend(t, t.ent[n].parent, t.ent[n].name) = [node |-> n, side |-> "found"]
    BY DEF TreeOK, Findable
  <2>2. u.ent[n].parent = t.ent[n].parent /\ u.ent[n].name = t.ent[n].name
    BY <1>3 DEF SameKeys
  <2> QED
    BY <1>6, <2>1, <2>2
<1>8. u.ent[1].parent = 0 /\ u.ent[1].name = RootName
  BY <1>2, <1>3 DEF TreeOK, SameKeys
<1>9. TreeOK(u)
  <2>1. LinksOnce(u)
    BY <1>3 DEF TreeOK, LinksOnce, SameLinks
  <2> QED
    BY <1>1, <1>4, <1>5, <1>7, <1>8, <2>1 DEF TreeOK
<1>10. \A n \in 0 .. t.id : PathOf(u, n) = PathOf(t, n)
  BY <1>1, <1>2, <1>3, <1>5, SamePath
<1>11. \A d : Children(u, d) = Children(t, d)
  <2> TAKE d
  <2>1. 1 \in 0 .. t.id
    BY <1>2
  <2>2. Listing(u, d)[1] = Listing(t, d)[1]
    BY <1>1, <1>3, <1>4, <2>1, SameListing
  <2> QED
    BY <2>2, ChildrenIsListing
<1> QED
  BY <1>6, <1>9, <1>10, <1>11 DEF FindPath

(* A new entry linked where the search for its key ended. *)
LEMMA InsertTree ==
  ASSUME NEW t, TreeOK(t), NEW u \in Table, u.id = t.id + 1, u.id < u.total,
         NEW parent \in 1 .. t.id, NEW name \in Int,
         NEW at \in 1 .. t.id, NEW free \in Sides,
         Descend(t, parent, name) = [node |-> at, side |-> free], t.ent[at][free] = 0,
         u.ent[u.id].parent = parent, u.ent[u.id].name = name,
         \A side \in Sides : u.ent[u.id][side] = 0,
         \A n \in Ids \ {u.id} :
           /\ u.ent[n].parent = t.ent[n].parent /\ u.ent[n].name = t.ent[n].name
           /\ \A side \in Sides :
                u.ent[n][side] = IF n = at /\ side = free THEN u.id ELSE t.ent[n][side]
  PROVE  TreeOK(u) /\ \A d : d # parent => Children(u, d) = Children(t, d)
<1>1. t \in Table /\ Acyclic(t) /\ ParentsFirst(t) /\ t.id < t.total
  BY DEF TreeOK
<1>2. /\ t.id \in 1 .. MaxId /\ MaxId \in Nat /\ 1 \in 1 .. t.id
      /\ 1 .. t.id \subseteq Ids /\ 1 .. MaxId \subseteq Ids
      /\ u.id \in 1 .. MaxId /\ u.id = t.id + 1
      /\ \A n \in 1 .. t.id : n \in Ids \ {u.id}
  BY <1>1, TableFields, TableAssumption DEF Ids
<1>3. SameKeys(t, u, t.id)
  BY <1>2 DEF SameKeys
<1>4. \A n \in 1 .. t.id, side \in Sides :
        u.ent[n][side] = IF n = at /\ side = free THEN t.id + 1 ELSE t.ent[n][side]
  BY <1>2
<1>5. Acyclic(u)
  <2> SUFFICES ASSUME NEW n \in Ids, NEW side \in Sides, u.ent[n][side] # 0
               PROVE  /\ u.ent[n][side] \in n + 1 .. MaxId
                      /\ n \in 1 .. u.id => u.ent[n][side] <= u.id
    BY DEF Acyclic
  <2>1. n # u.id
    OBVIOUS
  <2>2. CASE n = at /\ side = free
    BY <2>1, <2>2, <1>2
  <2>3. CASE ~(n = at /\ side = free)
    <3>1. u.ent[n][side] = t.ent[n][side]
      BY <2>1, <2>3
    <3>2. /\ t.ent[n][side] \in n + 1 .. MaxId
          /\ n \in 1 .. t.id => t.ent[n][side] <= t.id
      BY <3>1, <1>1 DEF Acyclic
    <3>3. n \in Nat
      BY TableAssumption DEF Ids
    <3> QED
      BY <3>1, <3>2, <3>3, <2>1, <1>2
  <2> QED
    BY <2>2, <2>3
<1>6. ParentsFirst(u)
  <2> SUFFICES ASSUME NEW n \in 1 .. MaxId PROVE u.ent[n].parent < n
    BY DEF ParentsFirst
  <2>1. CASE n = u.id
    BY <2>1, <1>2
  <2>2. CASE n # u.id
    BY <2>2, <1>1, <1>2 DEF ParentsFirst
  <2> QED
    BY <2>1, <2>2
<1>7. u.ent[1].parent = 0 /\ u.ent[1].name = RootName
  BY <1>2 DEF TreeOK
<1>8. \A q, x : Descend(u, q, x) = IF Descend(t, q, x) = [node |-> at, side |-> free]
                                   THEN Walk(u, q, x)[u.id] ELSE Descend(t, q, x)
  BY <1>1, <1>2, <1>3, <1>4, <1>5, InsertWalk, DescendIsWalk
<1>9. "found" \notin Sides
  BY DEF Sides
<1>10. Findable(u)
  <2> SUFFICES ASSUME NEW n \in 1 .. u.id
               PROVE  Descend(u, u.ent[n].parent, u.ent[n].name) =
                        [node |-> n, side |-> "found"]
    BY DEF Findable
  <2>1. CASE n = u.id
    <3>1. Descend(u, parent, name) = Walk(u, parent, name)[u.id]
      BY <1>8
    <3>2. u.id \in Ids /\ u.ent[u.id] \in Entry
      BY <1>2, TableFields
    <3>3. Side(u.ent[u.id], parent, name) = "found"
      BY <3>2, <1>2, FoundIsKey
    <3>4. Walk(u, parent, name)[u.id] = [node |-> u.id, side |-> "found"]
      BY <3>2, <3>3, <1>5, WalkStep
    <3> QED
      BY <2>1, <3>1, <3>4
  <2>2. CASE n \in 1 .. t.id
    <3>1. u.ent[n].parent = t.ent[n].parent /\ u.ent[n].name = t.ent[n].name
      BY <2>2, <1>3 DEF SameKeys
    <3>2. Descend(t, t.ent[n].parent, t.ent[n].name) = [node |-> n, side |-> "found"]
      BY <2>2 DEF TreeOK, Findable
    <3>3. [node |-> n, side |-> "found"] # [node |-> at, side |-> free]
      BY <1>9
    <3> QED
      BY <1>8, <3>1, <3>2, <3>3
  <2> QED
    BY <2>1, <2>2, <1>2
<1>11. LinksOnce(u)
  <2> SUFFICES ASSUME NEW m \in 1 .. u.id, NEW n \in 1 .. u.id, NEW a \in Sides, NEW b \in Sides,
                      u.ent[m][a] # 0, u.ent[m][a] = u.ent[n][b]
               PROVE  m = n /\ a = b
    BY DEF LinksOnce
  <2>1. m \in 1 .. t.id /\ n \in 1 .. t.id
    BY <1>2
  <2>2. /\ u.ent[m][a] = IF m = at /\ a = free THEN u.id ELSE t.ent[m][a]
        /\ u.ent[n][b] = IF n = at /\ b = free THEN u.id ELSE t.ent[n][b]
    BY <1>2, <1>4, <2>1
  <2>3. /\ t.ent[m][a] # 0 => t.ent[m][a] \in m + 1 .. t.id
        /\ t.ent[n][b] # 0 => t.ent[n][b] \in n + 1 .. t.id
    BY <1>1, <2>1, LinkRange
  <2>4. t.ent[m][a] # u.id /\ t.ent[n][b] # u.id
    BY <1>2, <2>3
  <2>5. CASE m = at /\ a = free
    BY <2>2, <2>4, <2>5
  <2>6. CASE ~(m = at /\ a = free)
    <3>1. t.ent[m][a] # 0 /\ t.ent[m][a] = t.ent[n][b]
      BY <2>2, <2>4, <2>6
    <3> QED
      BY <2>1, <3>1 DEF TreeOK, LinksOnce
  <2> QED
    BY <2>5, <2>6
<1>12. ASSUME NEW d, d # parent
       PROVE  Children(u, d) = Children(t, d)
  <2>1. u.ent[u.id].parent # d /\ 1 \in 0 .. t.id
    BY <1>2, <1>12
  <2>2. Listing(u, d)[1] = Listing(t, d)[1]
    BY <1>1, <1>2, <1>3, <1>4, <1>5, <2>1, InsertListing
  <2> QED
    BY <2>2, ChildrenIsListing
<1> QED
  BY <1>5, <1>6, <1>7, <1>10, <1>11, <1>12 DEF TreeOK

-----------------------------------------------------------------------------
(* OutputInfo.                                                             *)

SameAttrs(t, u, n) ==
  /\ u.ent[n].bDir = t.ent[n].bDir /\ u.ent[n].bSym = t.ent[n].bSym
  /\ u.ent[n].bList = t.ent[n].bList /\ u.ent[n].size = t.ent[n].size
SameOpens(t, u) ==
  \A n \in Ids : /\ u.ent[n].opened_file = t.ent[n].opened_file
                 /\ u.ent[n].refcnt = t.ent[n].refcnt

(* What find_or_insert_path() and the filling in do to a table u for a     *)
(* name in directory d: node is the entry claimed, or 0.                   *)
Claimed(t, u, node, d) ==
  /\ TreeOK(u)
  /\ u.id \in {t.id, t.id + 1}
  /\ node \in {0} \cup 2 .. u.id
  /\ u.id = t.id + 1 => node = u.id
  /\ node # 0 => u.ent[node].parent = d /\ ~u.ent[node].bList
  /\ SameKeys(t, u, t.id)
  /\ \A c : c # d => Children(u, c) = Children(t, c)
  /\ \A n \in Ids \ {node} : SameAttrs(t, u, n)
  /\ SameOpens(t, u)

(* f is entry e filled in. *)
FilledIn(f, e, d, name) ==
  /\ f \in Entry /\ f.parent = d /\ f.name = name /\ f.bList = FALSE
  /\ f.left = 0 /\ f.right = 0
  /\ f.opened_file = e.opened_file /\ f.refcnt = e.refcnt

LEMMA FilledEntry ==
  ASSUME NEW e \in Entry, NEW d \in Nat, NEW name \in Int, NEW isDir \in BOOLEAN
  PROVE  FilledIn(Filled(e, d, name, isDir), e, d, name)
BY DEF Filled, FilledIn, Entry

(* The newest entry has no links yet, so filling it in again cuts nothing  *)
(* off.                                                                    *)
LEMMA RefillKeeps ==
  ASSUME NEW t, TreeOK(t), NEW d \in 1 .. t.id, NEW name \in Int,
         t.ent[t.id].parent = d, t.ent[t.id].name = name,
         NEW f, FilledIn(f, t.ent[t.id], d, name),
         NEW u, u = [id |-> t.id, total |-> t.total, ent |-> [t.ent EXCEPT ![t.id] = f],
                     arena |-> t.arena]
  PROVE  Claimed(t, u, t.id, d)
<1>1. /\ t \in Table /\ t.id \in 1 .. MaxId /\ MaxId \in Nat
      /\ t.id \in Ids /\ 1 .. t.id \subseteq Ids
      /\ t.total \in Nat /\ t.ent \in [Ids -> Entry] /\ t.arena \in Arena
  BY TableFields, TableAssumption DEF TreeOK, Ids
<1>2. t.id # 1
  BY <1>1 DEF TreeOK
<1> DEFINE e == t.ent[t.id]
<1>3. /\ f \in Entry /\ f.parent = d /\ f.name = name /\ f.bList = FALSE
      /\ f.left = 0 /\ f.right = 0
      /\ f.opened_file = e.opened_file /\ f.refcnt = e.refcnt
  BY DEF FilledIn
<1>4. e.left = 0 /\ e.right = 0
  <2>1. \A side \in Sides : e[side] # 0 => e[side] \in t.id + 1 .. t.id
    BY <1>1, LinkRange DEF TreeOK
  <2> QED
    BY <2>1, <1>1 DEF Sides
<1>5. /\ u \in Table /\ u.id = t.id /\ u.total = t.total
      /\ u.ent[t.id] = f /\ \A n \in Ids \ {t.id} : u.ent[n] = t.ent[n]
  BY <1>1, <1>3 DEF Table
<1>6. SameShape(t, u)
  BY <1>3, <1>4, <1>5 DEF SameShape, Sides
<1>7. TreeOK(u) /\ \A c : Children(u, c) = Children(t, c)
  BY <1>5, <1>6, SameTree
<1>8. SameKeys(t, u, t.id)
  BY <1>1, <1>6 DEF SameKeys, SameShape
<1>9. SameOpens(t, u)
  BY <1>3, <1>5 DEF SameOpens
<1>10. \A n \in Ids \ {t.id} : SameAttrs(t, u, n)
  BY <1>5 DEF SameAttrs
<1>11. t.id \in {0} \cup 2 .. u.id /\ u.id \in {t.id, t.id + 1} /\ u.id # t.id + 1
  BY <1>1, <1>2, <1>5
<1>12. u.ent[t.id].parent = d /\ ~u.ent[t.id].bList
  BY <1>3, <1>5
<1> QED
  BY <1>7, <1>8, <1>9, <1>10, <1>11, <1>12 DEF Claimed

(* g is entry e with one of its links set. *)
LinkedIn(g, e, free, i) ==
  /\ g \in Entry
  /\ \A side \in Sides : g[side] = IF side = free THEN i ELSE e[side]
  /\ g.parent = e.parent /\ g.name = e.name
  /\ g.bDir = e.bDir /\ g.bSym = e.bSym /\ g.bList = e.bList /\ g.size = e.size
  /\ g.opened_file = e.opened_file /\ g.refcnt = e.refcnt

LEMMA LinkedEntry ==
  ASSUME NEW e \in Entry, NEW free \in Sides, NEW i \in Nat
  PROVE  LinkedIn([e EXCEPT ![free] = i], e, free, i)
<1>1. CASE free = "left"
  BY <1>1 DEF Entry, Sides, LinkedIn
<1>2. CASE free = "right"
  BY <1>2 DEF Entry, Sides, LinkedIn
<1> QED
  BY <1>1, <1>2 DEF Sides

(* A new entry, linked and filled in. *)
LEMMA InsertKeeps ==
  ASSUME NEW t, TreeOK(t), NEW d \in 1 .. t.id, NEW name \in Int,
         NEW at \in 1 .. t.id, NEW free \in Sides, t.ent[at][free] = 0,
         Descend(t, d, name) = [node |-> at, side |-> free],
         NEW u \in Table, u.id = t.id + 1, u.id < u.total,
         LinkedIn(u.ent[at], t.ent[at], free, u.id),
         FilledIn(u.ent[u.id], t.ent[u.id], d, name),
         \A n \in Ids \ {at, u.id} : u.ent[n] = t.ent[n]
  PROVE  Claimed(t, u, u.id, d)
<1>1. /\ t \in Table /\ t.id \in 1 .. MaxId /\ MaxId \in Nat
      /\ at \in Ids /\ u.id \in Ids /\ u.id # at /\ 1 .. t.id \subseteq Ids
      /\ u.id \in 2 .. u.id
  BY TableFields, TableAssumption DEF TreeOK, Ids
<1>2. \A n \in Ids \ {u.id} :
        /\ u.ent[n].parent = t.ent[n].parent /\ u.ent[n].name = t.ent[n].name
        /\ \A side \in Sides :
             u.ent[n][side] = IF n = at /\ side = free THEN u.id ELSE t.ent[n][side]
  <2> TAKE n \in Ids \ {u.id}
  <2>1. CASE n = at
    BY <2>1 DEF LinkedIn
  <2>2. CASE n # at
    BY <2>2
  <2> QED
    BY <2>1, <2>2
<1>3. /\ u.ent[u.id].parent = d /\ u.ent[u.id].name = name
      /\ \A side \in Sides : u.ent[u.id][side] = 0
  BY DEF FilledIn, Sides
<1>4. TreeOK(u) /\ \A c : c # d => Children(u, c) = Children(t, c)
  BY <1>2, <1>3, InsertTree
<1>5. SameKeys(t, u, t.id)
  <2>1. \A n \in 1 .. t.id : n \in Ids \ {u.id}
    BY <1>1
  <2> QED
    BY <2>1, <1>2 DEF SameKeys
<1>6. SameOpens(t, u)
  <2> SUFFICES ASSUME NEW n \in Ids
               PROVE  /\ u.ent[n].opened_file = t.ent[n].opened_file
                      /\ u.ent[n].refcnt = t.ent[n].refcnt
    BY DEF SameOpens
  <2>1. CASE n = u.id
    BY <2>1 DEF FilledIn
  <2>2. CASE n = at
    BY <2>2 DEF LinkedIn
  <2>3. CASE n \notin {at, u.id}
    BY <2>3
  <2> QED
    BY <2>1, <2>2, <2>3
<1>7. \A n \in Ids \ {u.id} : SameAttrs(t, u, n)
  <2> TAKE n \in Ids \ {u.id}
  <2>1. CASE n = at
    BY <2>1 DEF LinkedIn, SameAttrs
  <2>2. CASE n # at
    BY <2>2 DEF SameAttrs
  <2> QED
    BY <2>1, <2>2
<1>8. u.ent[u.id].parent = d /\ ~u.ent[u.id].bList
  BY DEF FilledIn
<1> QED
  BY <1>1, <1>4, <1>5, <1>6, <1>7, <1>8 DEF Claimed

(* The arena of a table stays one. *)
LEMMA StoredIsNat ==
  ASSUME NEW name
  PROVE  Stored(name) \in Nat
BY TableAssumption DEF Stored

LEMMA HeldIsNat ==
  ASSUME NEW t, NEW i
  PROVE  Held(t, i) \in Nat
BY StoredIsNat DEF Held

LEMMA TakenIsArena ==
  ASSUME NEW a \in Arena, NEW old \in Nat, NEW new \in Nat
  PROVE  Taken(a, old, new) \in Arena
<1> DEFINE head == a.head + old
           cur == a.cur + new
           size == IF new > 0 /\ cur - head >= a.size THEN 2 * a.size ELSE a.size
           whole == a.whole /\ (new > 0 => head <= cur /\ cur <= size)
<1>1. head \in Nat /\ cur \in Nat /\ size \in Nat
  BY DEF Arena
<1>2. whole \in BOOLEAN
  BY DEF Arena
<1>3. Taken(a, old, new) = [head |-> head, cur |-> cur, size |-> size, whole |-> whole]
  BY DEF Taken
<1> HIDE DEF head, cur, size, whole
<1> QED
  BY <1>1, <1>2, <1>3 DEF Arena

TakenOf(t, name) == Taken(t.arena, Held(t, t.id + 1), Stored(name))

LEMMA TakenOfIsArena ==
  ASSUME NEW t \in Table, NEW name
  PROVE  TakenOf(t, name) \in Arena
BY TableFields, StoredIsNat, HeldIsNat, TakenIsArena DEF TakenOf

(* find_or_insert_path() as a table written out. *)
LEMMA LinkedTable ==
  ASSUME NEW t \in Table, NEW at \in Ids, NEW free \in Sides, NEW name
  PROVE  LinkAt(t, [node |-> at, side |-> free], name) =
           [t |-> [id |-> t.id + 1,
                   total |-> IF t.id + 1 >= t.total THEN 2 * t.total ELSE t.total,
                   ent |-> [t.ent EXCEPT ![at] = [t.ent[at] EXCEPT ![free] = t.id + 1]],
                   arena |-> TakenOf(t, name)],
            node |-> t.id + 1]
<1>1. NewInode(t, name) = [id |-> t.id + 1,
                     total |-> IF t.id + 1 >= t.total THEN 2 * t.total ELSE t.total,
                     ent |-> t.ent, arena |-> TakenOf(t, name)]
  <2> DEFINE tot == IF t.id + 1 >= t.total THEN 2 * t.total ELSE t.total
             new == t.id + 1
             taken == TakenOf(t, name)
  <2>1. t = [id |-> t.id, total |-> t.total, ent |-> t.ent, arena |-> t.arena]
    BY DEF Table
  <2>2. NewInode(t, name) = [t EXCEPT !.id = new, !.total = tot, !.arena = taken]
    BY Zenon DEF NewInode, TakenOf
  <2> HIDE DEF tot, new, taken
  <2> DEFINE x == [t EXCEPT !.id = new]
             y == [x EXCEPT !.total = tot]
  <2>3. x = [id |-> new, total |-> t.total, ent |-> t.ent, arena |-> t.arena]
    BY <2>1
  <2>4. [t EXCEPT !.id = new, !.total = tot, !.arena = taken] = [y EXCEPT !.arena = taken]
    OBVIOUS
  <2> HIDE DEF x
  <2>5. y = [id |-> new, total |-> tot, ent |-> t.ent, arena |-> t.arena]
    BY <2>3
  <2> HIDE DEF y
  <2>6. [y EXCEPT !.arena = taken] = [id |-> new, total |-> tot, ent |-> t.ent, arena |-> taken]
    BY <2>5
  <2> QED
    BY <2>2, <2>4, <2>6 DEF tot, new, taken
<1> DEFINE taken == TakenOf(t, name)
<1> HIDE DEF taken
<1>2. CASE free = "left"
  BY <1>1, <1>2 DEF LinkAt, taken
<1>3. CASE free = "right"
  BY <1>1, <1>3 DEF LinkAt, taken
<1> QED
  BY <1>2, <1>3 DEF Sides

(* Both, and the case where an older entry has the name. *)
LEMMA ClaimKeeps ==
  ASSUME NEW t, TreeOK(t), NEW node, NEW held, NEW d \in 1 .. t.id, NEW name \in Int,
         NEW isDir \in BOOLEAN,
         NEW c, c = Claim([t |-> t, node |-> node, name |-> held], d, name, isDir),
         c.t.id <= MaxId
  PROVE  /\ c = [t |-> c.t, node |-> c.node, name |-> held]
         /\ Claimed(t, c.t, c.node, d)
<1> DEFINE s == [t |-> t, node |-> node, name |-> held]
           r == FindOrInsert(t, d, name)
           fill == Filled(r.t.ent[r.node], d, name, isDir)
<1>1. /\ t \in Table /\ t.id \in 1 .. MaxId /\ d \in Int /\ d \in Nat /\ MaxId \in Nat
      /\ t.ent \in [Ids -> Entry] /\ t.total \in Nat /\ t.id < t.total
      /\ 1 .. MaxId \subseteq Ids /\ 1 .. t.id \subseteq Ids
      /\ t = [id |-> t.id, total |-> t.total, ent |-> t.ent, arena |-> t.arena]
  BY TableFields, TableAssumption DEF TreeOK, Ids, Table
<1>2. c = IF r.node # r.t.id THEN [t |-> r.t, node |-> 0, name |-> held]
          ELSE [t |-> [r.t EXCEPT !.ent[r.node] = fill], node |-> r.node, name |-> held]
  <2>1. c = ClaimEntry(s, r, d, name, isDir)
    BY DEF Claim
  <2> HIDE DEF r
  <2> QED
    BY <2>1 DEF ClaimEntry, Newest
<1>3. r = LinkAt(t, Descend(t, d, name), name)
  BY DEF FindOrInsert
<1> HIDE DEF r, fill, s
<1>4. CASE \E n \in 1 .. t.id : /\ Descend(t, d, name) = [node |-> n, side |-> "found"]
                                /\ t.ent[n].parent = d /\ t.ent[n].name = name
  <2>1. PICK n \in 1 .. t.id : /\ Descend(t, d, name) = [node |-> n, side |-> "found"]
                               /\ t.ent[n].parent = d /\ t.ent[n].name = name
    BY <1>4
  <2>2. r = [t |-> t, node |-> n]
    BY <2>1, <1>3 DEF LinkAt
  <2>3. CASE n = t.id
    <3>1. c = [t |-> [t EXCEPT !.ent[t.id] = fill], node |-> t.id, name |-> held]
      BY <1>2, <2>2, <2>3
    <3>2. [t EXCEPT !.ent[t.id] = fill] =
            [id |-> t.id, total |-> t.total, ent |-> [t.ent EXCEPT ![t.id] = fill],
             arena |-> t.arena]
      BY <1>1
    <3>3. FilledIn(fill, t.ent[t.id], d, name)
      <4>1. t.ent[t.id] \in Entry
        BY <1>1
      <4>2. fill = Filled(t.ent[t.id], d, name, isDir)
        BY <2>2, <2>3 DEF fill
      <4> QED
        BY <4>1, <4>2, <1>1, FilledEntry
    <3>4. Claimed(t, [t EXCEPT !.ent[t.id] = fill], t.id, d)
      BY <2>1, <2>3, <3>2, <3>3, RefillKeeps
    <3> QED
      BY <3>1, <3>4
  <2>4. CASE n # t.id
    <3>1. c = [t |-> t, node |-> 0, name |-> held]
      BY <1>2, <2>2, <2>4
    <3>2. Claimed(t, t, 0, d)
      BY <1>1 DEF Claimed, SameKeys, SameAttrs, SameOpens
    <3> QED
      BY <3>1, <3>2
  <2> QED
    BY <2>3, <2>4
<1>5. CASE \E n \in 1 .. t.id, side \in Sides :
             /\ Descend(t, d, name) = [node |-> n, side |-> side]
             /\ t.ent[n][side] = 0
  <2>1. PICK n \in 1 .. t.id, side \in Sides :
               /\ Descend(t, d, name) = [node |-> n, side |-> side]
               /\ t.ent[n][side] = 0
    BY <1>5
  <2> DEFINE i == t.id + 1
             total == IF i >= t.total THEN 2 * t.total ELSE t.total
             g == [t.ent[n] EXCEPT ![side] = i]
             taken == TakenOf(t, name)
             l == [id |-> i, total |-> total, ent |-> [t.ent EXCEPT ![n] = g], arena |-> taken]
  <2>2. r = [t |-> l, node |-> i]
    BY <1>1, <1>3, <2>1, LinkedTable
  <2>3. i \in Nat /\ n # i /\ total \in Nat /\ i < total /\ taken \in Arena
    BY <1>1, TakenOfIsArena
  <2> HIDE DEF i, total, g, taken
  <2>4. c = [t |-> [l EXCEPT !.ent[i] = fill], node |-> i, name |-> held]
    BY <1>2, <2>2
  <2>5. [l EXCEPT !.ent[i] = fill] =
          [id |-> i, total |-> total, ent |-> [[t.ent EXCEPT ![n] = g] EXCEPT ![i] = fill],
           arena |-> taken]
    OBVIOUS
  <2>6. i <= MaxId
    BY <2>4, <2>5
  <2>7. FilledIn(fill, t.ent[i], d, name)
    <3>1. i \in Ids
      BY <2>6, <1>1 DEF i
    <3>2. fill = Filled(t.ent[i], d, name, isDir)
      BY <2>2, <2>3, <3>1, <1>1 DEF fill
    <3>3. t.ent[i] \in Entry
      BY <3>1, <1>1
    <3> QED
      BY <3>2, <3>3, <1>1, FilledEntry
  <2> DEFINE u == [l EXCEPT !.ent[i] = fill]
  <2>8. LinkedIn(g, t.ent[n], side, i)
    <3>1. t.ent[n] \in Entry
      BY <1>1
    <3> QED
      BY <2>3, <3>1, LinkedEntry DEF g
  <2>9. fill \in Entry /\ g \in Entry /\ n \in Ids /\ i \in Ids /\ i \in 1 .. MaxId
    BY <2>3, <2>6, <2>7, <2>8, <1>1 DEF FilledIn, LinkedIn, i
  <2>10. /\ u.id = i /\ u.total = total /\ u \in Table
         /\ u.ent[i] = fill /\ u.ent[n] = g
         /\ \A m \in Ids \ {n, i} : u.ent[m] = t.ent[m]
    BY <2>3, <2>5, <2>9, <1>1 DEF Table
  <2>11. c = [t |-> u, node |-> i, name |-> held]
    BY <2>4
  <2> HIDE DEF u, l
  <2>12. u.id = t.id + 1
    BY <2>10 DEF i
  <2>13. Claimed(t, u, i, d)
    BY <2>1, <2>3, <2>7, <2>8, <2>10, <2>12, InsertKeeps
  <2> QED
    BY <2>11, <2>13
<1> QED
  BY <1>1, <1>4, <1>5, DescentEnds

(* What a filled entry shows. *)
ShowsName(f, d, name, isDir) ==
  f.parent = d /\ f.name = name /\ (f.bDir <=> isDir) /\ ~f.bSym

LEMMA FilledShows ==
  ASSUME NEW e \in Entry, NEW d \in Nat, NEW name \in Int, NEW isDir \in BOOLEAN
  PROVE  ShowsName(Filled(e, d, name, isDir), d, name, isDir)
BY DEF Filled, Entry, ShowsName

(* What is claimed is the newest entry, and nothing is claimed when an     *)
(* older one has the name.                                                 *)
HasOlder(t, d, name) ==
  \E n \in 1 .. t.id : t.ent[n].parent = d /\ t.ent[n].name = name /\ n # t.id

LEMMA ClaimSays ==
  ASSUME NEW t, TreeOK(t), NEW node, NEW held, NEW d \in 1 .. t.id, NEW name \in Int,
         NEW isDir \in BOOLEAN,
         NEW c, c = Claim([t |-> t, node |-> node, name |-> held], d, name, isDir),
         c.t.id <= MaxId
  PROVE  IF c.node = 0 THEN c.t = t /\ HasOlder(t, d, name)
         ELSE c.node = c.t.id /\ ShowsName(c.t.ent[c.node], d, name, isDir)
<1> DEFINE s == [t |-> t, node |-> node, name |-> held]
           r == FindOrInsert(t, d, name)
           fill == Filled(r.t.ent[r.node], d, name, isDir)
<1>1. /\ t \in Table /\ t.id \in 1 .. MaxId /\ d \in Int /\ d \in Nat /\ MaxId \in Nat
      /\ t.ent \in [Ids -> Entry] /\ t.id \in Nat
      /\ 1 .. MaxId \subseteq Ids /\ 1 .. t.id \subseteq Ids
  BY TableFields, TableAssumption DEF TreeOK, Ids, Table
<1>2. c = IF r.node # r.t.id THEN [t |-> r.t, node |-> 0, name |-> held]
          ELSE [t |-> [r.t EXCEPT !.ent[r.node] = fill], node |-> r.node, name |-> held]
  <2>1. c = ClaimEntry(s, r, d, name, isDir)
    BY DEF Claim
  <2> HIDE DEF r
  <2> QED
    BY <2>1 DEF ClaimEntry, Newest
<1>3. r = LinkAt(t, Descend(t, d, name), name)
  BY DEF FindOrInsert
<1> HIDE DEF r, fill, s
<1>4. CASE \E n \in 1 .. t.id : /\ Descend(t, d, name) = [node |-> n, side |-> "found"]
                                /\ t.ent[n].parent = d /\ t.ent[n].name = name
  <2>1. PICK n \in 1 .. t.id : /\ Descend(t, d, name) = [node |-> n, side |-> "found"]
                               /\ t.ent[n].parent = d /\ t.ent[n].name = name
    BY <1>4
  <2>2. r = [t |-> t, node |-> n]
    BY <2>1, <1>3 DEF LinkAt
  <2>3. CASE n = t.id
    <3>1. c = [t |-> [t EXCEPT !.ent[n] = fill], node |-> n, name |-> held]
      BY <1>2, <2>2, <2>3
    <3>2. c.node # 0 /\ n \in Ids /\ c.node = c.t.id /\ c.t.ent[c.node] = fill
      BY <1>1, <2>3, <3>1 DEF Table
    <3>3. fill = Filled(t.ent[n], d, name, isDir) /\ t.ent[n] \in Entry
      BY <1>1, <2>2 DEF fill
    <3> QED
      BY <1>1, <3>2, <3>3, FilledShows
  <2>4. CASE n # t.id
    <3>1. c = [t |-> t, node |-> 0, name |-> held]
      BY <1>2, <2>2, <2>4
    <3> QED
      BY <2>1, <2>4, <3>1 DEF HasOlder
  <2> QED
    BY <2>3, <2>4
<1>5. CASE \E n \in 1 .. t.id, side \in Sides :
             /\ Descend(t, d, name) = [node |-> n, side |-> side]
             /\ t.ent[n][side] = 0
  <2>1. PICK n \in 1 .. t.id, side \in Sides :
               /\ Descend(t, d, name) = [node |-> n, side |-> side]
               /\ t.ent[n][side] = 0
    BY <1>5
  <2> DEFINE i == t.id + 1
             total == IF i >= t.total THEN 2 * t.total ELSE t.total
             g == [t.ent[n] EXCEPT ![side] = i]
             taken == TakenOf(t, name)
             l == [id |-> i, total |-> total, ent |-> [t.ent EXCEPT ![n] = g], arena |-> taken]
  <2>2. r = [t |-> l, node |-> i]
    BY <1>1, <1>3, <2>1, LinkedTable
  <2>3. i \in Nat /\ n # i /\ i # 0
    BY <1>1
  <2> HIDE DEF i, total, g, taken
  <2>4. c = [t |-> [l EXCEPT !.ent[i] = fill], node |-> i, name |-> held]
    BY <1>2, <2>2
  <2>5. [l EXCEPT !.ent[i] = fill] =
          [id |-> i, total |-> total, ent |-> [[t.ent EXCEPT ![n] = g] EXCEPT ![i] = fill],
           arena |-> taken]
    OBVIOUS
  <2>6. i <= MaxId /\ i \in Ids
    <3> DEFINE u == [id |-> i, total |-> total,
                     ent |-> [[t.ent EXCEPT ![n] = g] EXCEPT ![i] = fill],
                     arena |-> taken]
    <3>1. c.t = u
      BY <2>4, <2>5
    <3>2. u.id = i
      OBVIOUS
    <3> HIDE DEF u
    <3>3. i <= MaxId
      BY <3>1, <3>2
    <3> QED
      BY <1>1, <2>3, <3>3 DEF Ids
  <2>7. c.node = i /\ c.t.id = i /\ c.t.ent[i] = fill
    BY <1>1, <2>4, <2>5, <2>6
  <2>8. fill = Filled(t.ent[i], d, name, isDir) /\ t.ent[i] \in Entry
    BY <2>2, <2>3, <2>6, <1>1 DEF fill
  <2> QED
    BY <1>1, <2>3, <2>7, <2>8, FilledShows
<1> QED
  BY <1>1, <1>4, <1>5, DescentEnds

-----------------------------------------------------------------------------
(* The arena of a daemon on new files: nothing is ever given back, because *)
(* the entries that no number stands for yet have no name in it, and every *)
(* name it took lies in it.                                                *)

RoomLeft(a) == a.whole /\ a.head = 0 /\ a.cur <= a.size /\ ArenaSz <= a.size
NewEntries(t) == \A n \in Ids : n > t.id => Stored(t.ent[n].name) = 0
OnNewFiles(t) == RoomLeft(t.arena) /\ NewEntries(t)

LEMMA TakenHasRoom ==
  ASSUME NEW a \in Arena, RoomLeft(a), NEW new \in 0 .. ArenaSz
  PROVE  RoomLeft(Taken(a, 0, new))
<1> DEFINE b == Taken(a, 0, new)
<1>1. /\ a.cur \in Nat /\ a.size \in Nat /\ ArenaSz \in Nat /\ new \in Nat /\ new <= ArenaSz
      /\ a.head = 0 /\ a.cur <= a.size /\ ArenaSz <= a.size /\ a.whole
  BY TableAssumption DEF Arena, RoomLeft
<1>2. /\ b.head = a.head + 0 /\ b.cur = a.cur + new
      /\ b.size = IF new > 0 /\ b.cur - b.head >= a.size THEN 2 * a.size ELSE a.size
      /\ b.whole = (a.whole /\ (new > 0 => b.head <= b.cur /\ b.cur <= b.size))
  BY DEF Taken
<1> HIDE DEF b
<1>3. b.head = 0 /\ b.cur <= b.size /\ ArenaSz <= b.size
  <2>1. CASE new > 0 /\ a.cur + new >= a.size
    BY <1>1, <1>2, <2>1
  <2>2. CASE ~(new > 0 /\ a.cur + new >= a.size)
    BY <1>1, <1>2, <2>2
  <2> QED
    BY <2>1, <2>2
<1>4. b.head <= b.cur
  BY <1>1, <1>2
<1> QED
  BY <1>1, <1>2, <1>3, <1>4 DEF RoomLeft, b

LEMMA StoredFits == ASSUME NEW name PROVE Stored(name) \in 0 .. ArenaSz
BY TableAssumption DEF Stored

LEMMA NextHasRoom ==
  ASSUME NEW t \in Table, OnNewFiles(t), NEW name
  PROVE  RoomLeft(TakenOf(t, name))
<1>1. Held(t, t.id + 1) = 0
  BY TableFields DEF Held, OnNewFiles, NewEntries
<1> QED
  BY <1>1, TableFields, StoredFits, TakenHasRoom DEF TakenOf, OnNewFiles

LEMMA ClaimHasRoom ==
  ASSUME NEW t, TreeOK(t), OnNewFiles(t), NEW node, NEW held, NEW d \in 1 .. t.id,
         NEW name \in Int, NEW isDir \in BOOLEAN,
         NEW c, c = Claim([t |-> t, node |-> node, name |-> held], d, name, isDir)
  PROVE  /\ RoomLeft(c.t.arena)
         /\ c.t.id <= MaxId => OnNewFiles(c.t)
<1> DEFINE s == [t |-> t, node |-> node, name |-> held]
           r == FindOrInsert(t, d, name)
           fill == Filled(r.t.ent[r.node], d, name, isDir)
<1>1. /\ t \in Table /\ t.id \in 1 .. MaxId /\ d \in Int /\ MaxId \in Nat
      /\ t.ent \in [Ids -> Entry] /\ t.id \in Nat /\ Ids \subseteq Nat
      /\ 1 .. MaxId \subseteq Ids /\ 1 .. t.id \subseteq Ids
      /\ t = [id |-> t.id, total |-> t.total, ent |-> t.ent, arena |-> t.arena]
  BY TableFields, TableAssumption DEF TreeOK, Ids, Table
<1>2. c = IF r.node # r.t.id THEN [t |-> r.t, node |-> 0, name |-> held]
          ELSE [t |-> [r.t EXCEPT !.ent[r.node] = fill], node |-> r.node, name |-> held]
  <2>1. c = ClaimEntry(s, r, d, name, isDir)
    BY DEF Claim
  <2> HIDE DEF r
  <2> QED
    BY <2>1 DEF ClaimEntry, Newest
<1>3. r = LinkAt(t, Descend(t, d, name), name)
  BY DEF FindOrInsert
<1> HIDE DEF r, fill, s
<1>4. CASE \E n \in 1 .. t.id : Descend(t, d, name) = [node |-> n, side |-> "found"]
  <2>1. PICK n \in 1 .. t.id : Descend(t, d, name) = [node |-> n, side |-> "found"]
    BY <1>4
  <2>2. r = [t |-> t, node |-> n]
    BY <2>1, <1>3 DEF LinkAt
  <2>3. CASE n = t.id
    <3>1. c.t = [t EXCEPT !.ent[t.id] = fill]
      BY <1>2, <2>2, <2>3
    <3>2. [t EXCEPT !.ent[t.id] = fill] =
            [id |-> t.id, total |-> t.total, ent |-> [t.ent EXCEPT ![t.id] = fill],
             arena |-> t.arena]
      BY <1>1
    <3>3. c.t.id = t.id /\ c.t.arena = t.arena /\ c.t.ent = [t.ent EXCEPT ![t.id] = fill]
      BY <3>1, <3>2
    <3>4. \A m \in Ids : m > t.id => c.t.ent[m] = t.ent[m]
      BY <1>1, <3>3
    <3> QED
      BY <3>3, <3>4 DEF OnNewFiles, NewEntries
  <2>4. CASE n # t.id
    BY <1>2, <2>2, <2>4 DEF OnNewFiles
  <2> QED
    BY <2>3, <2>4
<1>5. CASE \E n \in 1 .. t.id, side \in Sides : Descend(t, d, name) = [node |-> n, side |-> side]
  <2>1. PICK n \in 1 .. t.id, side \in Sides : Descend(t, d, name) = [node |-> n, side |-> side]
    BY <1>5
  <2> DEFINE i == t.id + 1
             total == IF i >= t.total THEN 2 * t.total ELSE t.total
             g == [t.ent[n] EXCEPT ![side] = i]
             taken == TakenOf(t, name)
             l == [id |-> i, total |-> total, ent |-> [t.ent EXCEPT ![n] = g], arena |-> taken]
  <2>2. r = [t |-> l, node |-> i]
    BY <1>1, <1>3, <2>1, LinkedTable
  <2>3. RoomLeft(taken) /\ i \in Nat /\ i > t.id /\ n \in Nat /\ n <= t.id
    BY <1>1, NextHasRoom
  <2> HIDE DEF i, total, g, taken
  <2>4. c.t = [l EXCEPT !.ent[i] = fill]
    BY <1>2, <2>2
  <2>5. [l EXCEPT !.ent[i] = fill] =
          [id |-> i, total |-> total, ent |-> [[t.ent EXCEPT ![n] = g] EXCEPT ![i] = fill],
           arena |-> taken]
    OBVIOUS
  <2>6. c.t.id = i /\ c.t.arena = taken /\ c.t.ent = [[t.ent EXCEPT ![n] = g] EXCEPT ![i] = fill]
    BY <2>4, <2>5
  <2>7. \A m \in Ids : m > i => c.t.ent[m] = t.ent[m]
    <3> SUFFICES ASSUME NEW m \in Ids, m > i PROVE c.t.ent[m] = t.ent[m]
      OBVIOUS
    <3>1. m # i /\ m # n
      BY <1>1, <2>3
    <3> QED
      BY <1>1, <2>6, <3>1
  <2>8. \A m \in Ids : m > i => m > t.id
    BY <1>1, <2>3
  <2> QED
    BY <2>3, <2>6, <2>7, <2>8 DEF OnNewFiles, NewEntries
<1> QED
  BY <1>1, <1>4, <1>5, DescentEnds

(* The table of a daemon whose files were empty. *)
LEMMA InitOnNewFiles == OnNewFiles(InitTable)
<1>1. /\ InitTable.arena = [head |-> 0, cur |-> 0, size |-> ArenaSz, whole |-> TRUE]
      /\ InitTable.id = 1 /\ \A n \in Ids : InitTable.ent[n] = InitEntry(Blank, n)
  BY DEF InitTable, InitTableOn
<1>2. \A n \in Ids : InitEntry(Blank, n).name = RootName
  BY DEF InitEntry, Blank
<1>3. Stored(RootName) = 0
  BY TableAssumption DEF Stored
<1>4. ArenaSz \in Nat
  BY TableAssumption
<1> QED
  BY <1>1, <1>2, <1>3, <1>4 DEF OnNewFiles, RoomLeft, NewEntries

-----------------------------------------------------------------------------
(* The table a daemon starts with, on an empty file or on an earlier one.  *)

(* Five fields of an entry are set anew. *)
Reset(e, name, parent, isDir) ==
  [e EXCEPT !.name = name, !.parent = parent, !.bDir = isDir, !.left = 0, !.right = 0]
ResetFrom(r, e, name, parent, isDir) ==
  /\ r \in Entry /\ r.parent = parent /\ r.name = name
  /\ r.left = 0 /\ r.right = 0
  /\ r.bDir = isDir /\ r.bSym = e.bSym /\ r.bList = e.bList /\ r.size = e.size
  /\ r.opened_file = e.opened_file /\ r.refcnt = e.refcnt

LEMMA ResetEntry ==
  ASSUME NEW e \in Entry, NEW name \in Int, NEW parent \in Nat, NEW isDir \in BOOLEAN
  PROVE  ResetFrom(Reset(e, name, parent, isDir), e, name, parent, isDir)
BY DEF Reset, ResetFrom, Entry

LEMMA RootEntry ==
  ASSUME NEW e \in Entry
  PROVE  ResetFrom(InitEntry(e, 1), e, RootName, 0, TRUE)
<1>1. ~(1 >= FirstTotal)
  BY TableAssumption
<1>2. InitEntry(e, 1) = Reset(e, RootName, 0, TRUE)
  BY <1>1 DEF InitEntry, Reset
<1>3. RootName \in Int
  BY DEF RootName
<1> QED
  BY <1>2, <1>3, ResetEntry

LEMMA InitTree ==
  ASSUME NEW ent \in [Ids -> Entry],
         \A n \in Ids, side \in Sides : ent[n][side] # 0 => ent[n][side] \in n + 1 .. MaxId,
         \A n \in 1 .. MaxId : ent[n].parent < n
  PROVE  /\ TreeOK(InitTableOn(ent)) /\ InitTableOn(ent).id = 1
         /\ LET r == InitTableOn(ent).ent[1]
            IN  /\ r.bDir = TRUE /\ r.bSym = ent[1].bSym /\ r.bList = ent[1].bList
                /\ r.size = ent[1].size
<1> DEFINE u == InitTableOn(ent)
           r == u.ent[1]
<1>1. /\ MaxId \in Nat /\ 1 \in Ids /\ FirstTotal \in Nat /\ FirstTotal > 1
      /\ 1 .. MaxId \subseteq Ids /\ Ids \subseteq Nat
  BY TableAssumption DEF Ids
<1>2. Blank \in Entry /\ Blank.left = 0 /\ Blank.right = 0 /\ Blank.parent = 0
  BY DEF Blank, Entry, RootName
<1>3. u.id = 1 /\ u.total = FirstTotal /\ \A n \in Ids : u.ent[n] = InitEntry(ent[n], n)
  BY DEF InitTableOn
<1>4. \A n \in Ids : \/ InitEntry(ent[n], n) \in {Blank, ent[n]}
                     \/ n = 1
  BY DEF InitEntry
<1>5. /\ r \in Entry /\ r.parent = 0 /\ r.name = RootName /\ r.left = 0 /\ r.right = 0
      /\ r.bDir = TRUE /\ r.bSym = ent[1].bSym /\ r.bList = ent[1].bList
      /\ r.size = ent[1].size
  <2>1. r = InitEntry(ent[1], 1) /\ ent[1] \in Entry
    BY <1>1, <1>3
  <2> HIDE DEF r, u
  <2> QED
    BY <2>1, RootEntry DEF ResetFrom
<1>6. \A n \in Ids : u.ent[n] \in {Blank, ent[n]} \/ n = 1
  BY <1>3, <1>4
<1>7. \A n \in Ids : u.ent[n] \in Entry
  BY <1>2, <1>5, <1>6
<1>8. u \in Table
  <2>1. u = [id |-> 1, total |-> FirstTotal, ent |-> u.ent, arena |-> u.arena]
        /\ u.arena \in Arena
    BY TableAssumption DEF InitTableOn, Arena
  <2>2. u.ent \in [Ids -> Entry]
    <3>1. u.ent = [n \in Ids |-> InitEntry(ent[n], n)]
      BY DEF InitTableOn
    <3>2. \A n \in Ids : InitEntry(ent[n], n) \in Entry
      BY <1>3, <1>7
    <3> HIDE DEF u
    <3> QED
      BY <3>1, <3>2
  <2>3. 1 \in 1 .. MaxId
    BY TableAssumption
  <2> HIDE DEF u
  <2> QED
    BY <1>1, <2>1, <2>2, <2>3 DEF Table
<1> HIDE DEF u
<1>9. Acyclic(u)
  <2> SUFFICES ASSUME NEW n \in Ids, NEW side \in Sides, u.ent[n][side] # 0
               PROVE  /\ u.ent[n][side] \in n + 1 .. MaxId
                      /\ n \in 1 .. u.id => u.ent[n][side] <= u.id
    BY DEF Acyclic
  <2>1. n # 1
    BY <1>5 DEF Sides
  <2>2. u.ent[n] = ent[n]
    BY <1>2, <1>6, <2>1 DEF Sides
  <2>3. n \notin 1 .. u.id
    BY <1>1, <1>3, <2>1
  <2> QED
    BY <2>2, <2>3
<1>10. ParentsFirst(u)
  <2> SUFFICES ASSUME NEW n \in 1 .. MaxId PROVE u.ent[n].parent < n
    BY DEF ParentsFirst
  <2>1. n \in Ids /\ n \in Nat /\ n > 0
    BY <1>1
  <2>2. CASE n = 1
    BY <1>5, <2>2
  <2>3. CASE n # 1
    BY <1>2, <1>6, <2>1, <2>3
  <2> QED
    BY <2>2, <2>3
<1>11. Findable(u)
  <2>1. 1 .. u.id = {1}
    BY <1>3
  <2>2. Side(u.ent[1], 0, RootName) = "found"
    BY <1>5, FoundIsKey DEF RootName
  <2>3. Walk(u, 0, RootName)[1] = [node |-> 1, side |-> "found"]
    BY <1>1, <1>8, <1>9, <2>2, WalkStep
  <2>4. Descend(u, 0, RootName) = [node |-> 1, side |-> "found"]
    BY <2>3, DescendIsWalk
  <2> QED
    BY <1>5, <2>1, <2>4 DEF Findable
<1>12. TreeOK(u)
  <2>1. LinksOnce(u)
    BY <1>3, <1>5 DEF LinksOnce, Sides
  <2> QED
    BY <2>1, <1>1, <1>3, <1>5, <1>8, <1>9, <1>10, <1>11 DEF TreeOK
<1> QED
  BY <1>3, <1>5, <1>12 DEF u
=============================================================================
