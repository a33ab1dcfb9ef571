----------------------------- MODULE P4FsProofs -----------------------------
(***************************************************************************)
(* Proofs about P4Fs: what the handlers do to the inode table, to the      *)
(* descriptors and to what the kernel was told.                            *)
(***************************************************************************)
EXTENDS P4Fs, InodeTreeProofs

-----------------------------------------------------------------------------
(* The inductive invariant.                                                *)

FieldTags == {"size", "bSym"}
Line == [tag : {"dir", "depotFile"}, val : Names] \cup [tag : {"size"}, val : Nat]
          \cup [tag : {"bSym"}, val : BOOLEAN]

(* A listing runs in a directory that the kernel knows and that is not yet *)
(* marked as listed; at most one name waits for it.                        *)
Busy == job.cmd # "none"
JobInv ==
  /\ job \in [cmd : {"none", "dirs", "fstat"}, dir : Ids, todo : SUBSET Depot,
              lines : Seq(Line), want : SUBSET HeardNames]
  /\ Len(job.lines) < 4
  /\ ~Busy => job = NoJob
  /\ Busy => job.dir \in KnownNodes /\ ~table.ent[job.dir].bList
  /\ \A x, y \in job.want : x = y

(* The entry that takes the next field is in the directory that is listed. *)
FieldInv ==
  /\ p4u = [node |-> p4u.node, name |-> p4u.name]
  /\ p4u.node \in {0} \cup InUse /\ p4u.name \in Names \cup {RootName}
  /\ p4u.node # 0 /\ job.lines # <<>> /\ Head(job.lines).tag \in FieldTags =>
       p4u.node # 1 /\ table.ent[p4u.node].parent = job.dir

(* What the kernel was told is what the entries hold, and the directories  *)
(* above what it knows were listed.                                        *)
KnownInv ==
  /\ Told(InitTable, 1, 0, RootName) \in known
  /\ \A k \in known :
       /\ k.node \in InUse
       /\ k = Told(table, k.node, k.parent, k.name)
       /\ table.ent[k.node].parent = k.parent /\ table.ent[k.node].name = k.name
       /\ k.node # 1 => k.parent \in KnownNodes /\ table.ent[k.parent].bList

(* Only nodes the kernel knows are marked; every entry is in a directory   *)
(* that the kernel knows and that is marked or being listed; the root is   *)
(* marked before anything else is known.                                   *)
ListInv ==
  /\ \A n \in InUse : table.ent[n].bList => n \in KnownNodes
  /\ \A n \in InUse \ {1} : /\ table.ent[n].parent \in KnownNodes
                            /\ \/ table.ent[table.ent[n].parent].bList
                               \/ Busy /\ table.ent[n].parent = job.dir
  /\ KnownNodes # {1} => table.ent[1].bList

(* The numbers not yet in use carry no open file, or none will ever be     *)
(* used: the table was kept from an earlier run and its root is marked.    *)
Sealed == table.id = 1 /\ table.ent[1].bList /\ ~Busy /\ KnownNodes = {1}
OpenInv ==
  /\ handles \in [Ids -> Nat]
  /\ HandlesCounted
  /\ \A n \in InUse : handles[n] > 0 => n \in KnownNodes /\ ~table.ent[n].bDir
  /\ \A n \in Ids : n > table.id =>
       /\ handles[n] = 0
       /\ Sealed \/ (table.ent[n].refcnt = 0 /\ table.ent[n].opened_file = 0)

FdsInv ==
  /\ local \subseteq {e.path : e \in Depot}
  /\ DOMAIN fds \subseteq 3 .. 2 + MaxHandles
  /\ \A f \in DOMAIN fds : fds[f] \in local
  /\ FdsOwned
  /\ FdsOnOwnFile

IInv ==
  /\ TreeOK(table)
  /\ JobInv
  /\ FieldInv
  /\ KnownInv
  /\ ListInv
  /\ OpenInv
  /\ FdsInv
  /\ cut \subseteq InUse

(* What every step keeps: numbers stay what they are, listed directories   *)
(* keep their children in order, and the kernel is told of an entry in use *)
(* of a directory it knew, or of nothing.                                  *)
Handed ==
  \E n \in InUse' : /\ table'.ent[n].parent \in KnownNodes
                    /\ known' = known \cup {Told(table', n, table'.ent[n].parent,
                                                          table'.ent[n].name)}
Grows ==
  /\ table'.id \in {table.id, table.id + 1}
  /\ SameKeys(table, table', table.id)
  /\ \A d \in InUse : table.ent[d].bList => Children(table', d) = Children(table, d)
  /\ known' = known \/ Handed

-----------------------------------------------------------------------------
(* What the parts of the invariant say of types.                           *)

LEMMA NamesAreInt == Names \subseteq Int /\ RootName \in Int
<1>1. ASSUME NEW e \in Depot PROVE Last(e.path) \in Int
  <2>1. e.path \in Seq(Int) /\ Len(e.path) > 1
    BY DepotAssumption
  <2> QED
    BY <2>1 DEF Last
<1> QED
  BY <1>1 DEF Names, RootName

LEMMA HeardIsInt == HeardNames \subseteq Int
<1> SUFFICES ASSUME NEW asked \in Names \cup DOMAIN Overlong PROVE Heard(asked) \in Int
  BY DEF HeardNames, Asked
<1>1. CASE asked \in DOMAIN Overlong
  BY <1>1, DepotAssumption DEF Heard
<1>2. CASE asked \notin DOMAIN Overlong
  BY <1>2, NamesAreInt DEF Heard
<1> QED
  BY <1>1, <1>2

LEMMA TreeFacts ==
  ASSUME TreeOK(table)
  PROVE  /\ table \in Table /\ table.id \in 1 .. MaxId /\ table.total \in Nat
         /\ MaxId \in Nat /\ table.ent \in [Ids -> Entry]
         /\ InUse \subseteq Ids /\ InUse \subseteq Nat /\ 1 \in InUse /\ 0 \notin InUse
         /\ \A n \in Ids : /\ table.ent[n] \in Entry
                           /\ table.ent[n].parent \in Nat /\ table.ent[n].name \in Int
                           /\ table.ent[n].bDir \in BOOLEAN /\ table.ent[n].bSym \in BOOLEAN
                           /\ table.ent[n].bList \in BOOLEAN /\ table.ent[n].size \in Nat
                           /\ table.ent[n].opened_file \in Int /\ table.ent[n].refcnt \in Nat
         /\ \A n \in InUse : table.ent[n].parent < n /\ table.ent[n].parent \in Ids
         /\ table.ent[1].parent = 0
<1>1. table \in Table
  BY DEF TreeOK
<1>2. /\ table.id \in 1 .. MaxId /\ table.total \in Nat /\ table.ent \in [Ids -> Entry]
      /\ \A n \in Ids : table.ent[n] \in Entry
  BY <1>1, TableFields
<1>3. /\ MaxId \in Nat /\ InUse \subseteq Ids /\ InUse \subseteq Nat /\ 1 \in InUse
      /\ 0 \notin InUse /\ InUse \subseteq 1 .. MaxId
  BY <1>2, TableAssumption DEF InUse, Ids
<1>4. \A n \in InUse : table.ent[n].parent < n
  BY <1>3 DEF TreeOK, ParentsFirst
<1>5. \A e \in Entry : /\ e.parent \in Nat /\ e.name \in Int
                       /\ e.bDir \in BOOLEAN /\ e.bSym \in BOOLEAN /\ e.bList \in BOOLEAN
                       /\ e.size \in Nat /\ e.opened_file \in Int /\ e.refcnt \in Nat
  BY DEF Entry
<1>6. \A n \in Ids : /\ table.ent[n] \in Entry
                     /\ table.ent[n].parent \in Nat /\ table.ent[n].name \in Int
                     /\ table.ent[n].bDir \in BOOLEAN /\ table.ent[n].bSym \in BOOLEAN
                     /\ table.ent[n].bList \in BOOLEAN /\ table.ent[n].size \in Nat
                     /\ table.ent[n].opened_file \in Int /\ table.ent[n].refcnt \in Nat
  BY <1>2, <1>5
<1>7. \A n \in InUse : table.ent[n].parent \in Ids
  <2> TAKE n \in InUse
  <2>1. n \in 1 .. MaxId /\ table.ent[n].parent \in Nat /\ table.ent[n].parent < n
    BY <1>3, <1>4, <1>6
  <2> QED
    BY <2>1, <1>3 DEF Ids
<1> QED
  BY <1>1, <1>2, <1>3, <1>4, <1>6, <1>7 DEF TreeOK

LEMMA KnownInUse ==
  ASSUME KnownInv
  PROVE  KnownNodes \subseteq InUse /\ 1 \in KnownNodes
<1>1. Told(InitTable, 1, 0, RootName).node = 1
  BY DEF Told
<1> QED
  BY <1>1 DEF KnownInv, KnownNodes

(* The root is a directory and no link. *)
LEMMA RootIsDir ==
  ASSUME KnownInv
  PROVE  table.ent[1].bDir /\ ~table.ent[1].bSym
<1> DEFINE k == Told(InitTable, 1, 0, RootName)
<1>1. k.node = 1
  BY DEF Told
<1>2. InitTable.ent[1].bDir = TRUE /\ InitTable.ent[1].bSym = FALSE
  <2>1. 1 \in Ids /\ FirstTotal \in Nat /\ FirstTotal > 1
    BY TableAssumption DEF Ids
  <2>2. InitTable.ent[1] = InitEntry(Blank, 1)
    BY <2>1 DEF InitTable, InitTableOn
  <2>3. InitEntry(Blank, 1).bDir = TRUE /\ InitEntry(Blank, 1).bSym = FALSE
    BY <2>1 DEF InitEntry, Blank
  <2> QED
    BY <2>2, <2>3
<1>3. k.bDir = TRUE /\ k.bSym = FALSE
  BY <1>2 DEF Told
<1>4. k = Told(table, k.node, k.parent, k.name)
  BY DEF KnownInv
<1>5. k.bDir = table.ent[1].bDir /\ k.bSym = table.ent[1].bSym
  <2> HIDE DEF k
  <2> QED
    BY <1>1, <1>4 DEF Told
<1> QED
  BY <1>3, <1>5

-----------------------------------------------------------------------------
(* Steps that touch one entry and leave keys and links alone.              *)

(* u is t but for the marks of entry n. *)
Touched(t, u, n) ==
  /\ u \in Table /\ u.id = t.id /\ u.total = t.total /\ u.arena = t.arena
  /\ \A m \in Ids \ {n} : u.ent[m] = t.ent[m]
  /\ u.ent[n].parent = t.ent[n].parent /\ u.ent[n].name = t.ent[n].name
  /\ u.ent[n].left = t.ent[n].left /\ u.ent[n].right = t.ent[n].right
  /\ u.ent[n].bDir = t.ent[n].bDir /\ u.ent[n].bSym = t.ent[n].bSym
  /\ u.ent[n].size = t.ent[n].size

LEMMA TouchedShape ==
  ASSUME NEW t, TreeOK(t), NEW n \in Ids, NEW u, Touched(t, u, n)
  PROVE  /\ TreeOK(u)
         /\ \A parent, name : FindPath(u, parent, name) = FindPath(t, parent, name)
         /\ \A m \in 0 .. t.id : PathOf(u, m) = PathOf(t, m)
         /\ SameKeys(t, u, t.id)
         /\ \A d : Children(u, d) = Children(t, d)
         /\ \A m \in Ids : \A parent, name :
              Told(u, m, parent, name) = Told(t, m, parent, name)
<1>1. SameShape(t, u)
  BY DEF Touched, SameShape, Sides
<1>2. u \in Table /\ u.id = t.id /\ u.total = t.total
  BY DEF Touched
<1>3. \A m \in Ids : /\ u.ent[m].bDir = t.ent[m].bDir /\ u.ent[m].bSym = t.ent[m].bSym
                     /\ u.ent[m].size = t.ent[m].size
  BY DEF Touched
<1>4. SameKeys(t, u, t.id)
  <2>1. 1 .. t.id \subseteq Ids
    BY TableFields, TableAssumption DEF TreeOK, Ids
  <2> QED
    BY <2>1, <1>1 DEF SameShape, SameKeys
<1> QED
  BY <1>1, <1>2, <1>3, <1>4, SameTree DEF Told

(* The updates of the handlers as operators. *)
Marked(t, n) == [t EXCEPT !.ent[n].bList = TRUE]
WithFd(t, n, fd) == [t EXCEPT !.ent[n].opened_file = fd]
WithCount(t, n, c) == [t EXCEPT !.ent[n].refcnt = c]
Shared(t, n) == [t EXCEPT !.ent[n].bList = TRUE, !.ent[n].refcnt = @ + 1]
FirstOpen(t, n, fd) ==
  [t EXCEPT !.ent[n].bList = TRUE, !.ent[n].opened_file = fd, !.ent[n].refcnt = @ + 1]
Closed(t, n) == [t EXCEPT !.ent[n].refcnt = 0, !.ent[n].opened_file = 0]
Left(t, n) == [t EXCEPT !.ent[n].refcnt = @ - 1]

LEMMA MarkedTouches ==
  ASSUME NEW t \in Table, NEW n \in Ids
  PROVE  LET u == Marked(t, n)
         IN  /\ Touched(t, u, n) /\ u.ent[n].bList = TRUE
             /\ u.ent[n].opened_file = t.ent[n].opened_file
             /\ u.ent[n].refcnt = t.ent[n].refcnt
BY DEF Table, Entry, Touched, Marked

LEMMA FdTouches ==
  ASSUME NEW t \in Table, NEW n \in Ids, NEW fd \in Int
  PROVE  LET u == WithFd(t, n, fd)
         IN  /\ Touched(t, u, n) /\ u.ent[n].bList = t.ent[n].bList
             /\ u.ent[n].opened_file = fd /\ u.ent[n].refcnt = t.ent[n].refcnt
BY DEF Table, Entry, Touched, WithFd

LEMMA CountTouches ==
  ASSUME NEW t \in Table, NEW n \in Ids, NEW c \in Nat
  PROVE  LET u == WithCount(t, n, c)
         IN  /\ Touched(t, u, n) /\ u.ent[n].bList = t.ent[n].bList
             /\ u.ent[n].opened_file = t.ent[n].opened_file /\ u.ent[n].refcnt = c
BY DEF Table, Entry, Touched, WithCount

LEMMA TouchedTwice ==
  ASSUME NEW t, NEW u, NEW v, NEW n, Touched(t, u, n), Touched(u, v, n)
  PROVE  Touched(t, v, n)
BY DEF Touched

LEMMA ShareTouches ==
  ASSUME NEW t \in Table, NEW n \in Ids
  PROVE  LET u == Shared(t, n)
         IN  /\ Touched(t, u, n) /\ u.ent[n].bList = TRUE
             /\ u.ent[n].opened_file = t.ent[n].opened_file
             /\ u.ent[n].refcnt = t.ent[n].refcnt + 1
<1> DEFINE v == Marked(t, n)
           c == t.ent[n].refcnt + 1
<1>1. /\ Touched(t, v, n) /\ v.ent[n].bList = TRUE
      /\ v.ent[n].opened_file = t.ent[n].opened_file /\ v.ent[n].refcnt = t.ent[n].refcnt
  BY MarkedTouches
<1>2. v \in Table /\ c \in Nat
  BY <1>1 DEF Touched, Table, Entry
<1>3. Shared(t, n) = WithCount(v, n, c)
  <2>1. Shared(t, n) = [v EXCEPT !.ent[n].refcnt = @ + 1]
    BY DEF Shared, Marked
  <2>2. [v EXCEPT !.ent[n].refcnt = @ + 1] = WithCount(v, n, v.ent[n].refcnt + 1)
    <3> HIDE DEF v
    <3> QED
      BY <1>2 DEF WithCount, Table
  <2> QED
    BY <1>1, <2>1, <2>2
<1> HIDE DEF v, c
<1>4. LET u == WithCount(v, n, c)
      IN  /\ Touched(v, u, n) /\ u.ent[n].bList = v.ent[n].bList
          /\ u.ent[n].opened_file = v.ent[n].opened_file /\ u.ent[n].refcnt = c
  BY <1>2, CountTouches
<1> QED
  BY <1>1, <1>3, <1>4, TouchedTwice DEF c

LEMMA OpenTouches ==
  ASSUME NEW t \in Table, NEW n \in Ids, NEW fd \in Int
  PROVE  LET u == FirstOpen(t, n, fd)
         IN  /\ Touched(t, u, n) /\ u.ent[n].bList = TRUE
             /\ u.ent[n].opened_file = fd /\ u.ent[n].refcnt = t.ent[n].refcnt + 1
<1> DEFINE v == Marked(t, n)
           w == WithFd(v, n, fd)
           c == t.ent[n].refcnt + 1
<1>1. /\ Touched(t, v, n) /\ v.ent[n].bList = TRUE /\ v.ent[n].refcnt = t.ent[n].refcnt
  BY MarkedTouches
<1>2. v \in Table /\ c \in Nat
  BY <1>1 DEF Touched, Table, Entry
<1>3. /\ Touched(v, w, n) /\ w.ent[n].bList = v.ent[n].bList
      /\ w.ent[n].opened_file = fd /\ w.ent[n].refcnt = v.ent[n].refcnt
  <2> HIDE DEF v
  <2> QED
    BY <1>2, FdTouches
<1>4. w \in Table
  BY <1>3 DEF Touched
<1>5. FirstOpen(t, n, fd) = WithCount(w, n, c)
  <2>1. FirstOpen(t, n, fd) = [w EXCEPT !.ent[n].refcnt = @ + 1]
    BY ZenonT(30) DEF FirstOpen, Marked, WithFd
  <2>2. [w EXCEPT !.ent[n].refcnt = @ + 1] = WithCount(w, n, w.ent[n].refcnt + 1)
    <3> HIDE DEF w
    <3> QED
      BY <1>4 DEF WithCount, Table
  <2> QED
    BY <1>1, <1>3, <2>1, <2>2
<1> HIDE DEF v, w, c
<1>6. LET u == WithCount(w, n, c)
      IN  /\ Touched(w, u, n) /\ u.ent[n].bList = w.ent[n].bList
          /\ u.ent[n].opened_file = w.ent[n].opened_file /\ u.ent[n].refcnt = c
  BY <1>2, <1>4, CountTouches
<1>7. Touched(t, WithCount(w, n, c), n)
  BY <1>1, <1>3, <1>6, TouchedTwice
<1> QED
  BY <1>1, <1>3, <1>5, <1>6, <1>7 DEF c

LEMMA CloseTouches ==
  ASSUME NEW t \in Table, NEW n \in Ids
  PROVE  LET u == Closed(t, n)
         IN  /\ Touched(t, u, n) /\ u.ent[n].bList = t.ent[n].bList
             /\ u.ent[n].opened_file = 0 /\ u.ent[n].refcnt = 0
<1> DEFINE v == WithCount(t, n, 0)
<1>1. Closed(t, n) = WithFd(v, n, 0)
  BY DEF Closed, WithCount, WithFd
<1>2. /\ Touched(t, v, n) /\ v.ent[n].bList = t.ent[n].bList /\ v.ent[n].refcnt = 0
  BY CountTouches
<1>3. v \in Table
  BY <1>2 DEF Touched
<1> HIDE DEF v
<1>4. LET u == WithFd(v, n, 0)
      IN  /\ Touched(v, u, n) /\ u.ent[n].bList = v.ent[n].bList
          /\ u.ent[n].opened_file = 0 /\ u.ent[n].refcnt = v.ent[n].refcnt
  BY <1>3, FdTouches
<1> QED
  BY <1>1, <1>2, <1>4, TouchedTwice

LEMMA LeaveTouches ==
  ASSUME NEW t \in Table, NEW n \in Ids, t.ent[n].refcnt > 0
  PROVE  LET u == Left(t, n)
         IN  /\ Touched(t, u, n) /\ u.ent[n].bList = t.ent[n].bList
             /\ u.ent[n].opened_file = t.ent[n].opened_file
             /\ u.ent[n].refcnt = t.ent[n].refcnt - 1
BY DEF Table, Entry, Touched, Left

LEMMA IdleIsFree == Idle => ~Busy
BY DEF Idle, NoJob, Busy

(* What a handler that touches one known node keeps. *)
LEMMA TouchKeeps ==
  ASSUME IInv, Idle, NEW n \in KnownNodes, Touched(table, table', n),
         table.ent[n].bList => table'.ent[n].bList,
         UNCHANGED <<known, p4u, job, cut>>
  PROVE  /\ TreeOK(table)' /\ JobInv' /\ FieldInv' /\ KnownInv' /\ ListInv'
         /\ (cut \subseteq InUse)'
         /\ Sealed => Sealed'
         /\ Grows
<1>1. /\ TreeOK(table) /\ JobInv /\ FieldInv /\ KnownInv /\ ListInv /\ cut \subseteq InUse
      /\ ~Busy
  BY IdleIsFree DEF IInv
<1>2. KnownNodes \subseteq InUse /\ 1 \in KnownNodes
  BY <1>1, KnownInUse
<1>3. InUse \subseteq Ids /\ table \in Table
  BY <1>1, TreeFacts
<1>4. /\ TreeOK(table)' /\ SameKeys(table, table', table.id)
      /\ \A c : Children(table', c) = Children(table, c)
      /\ \A m \in Ids : \A parent, name :
           Told(table', m, parent, name) = Told(table, m, parent, name)
  BY <1>1, <1>2, <1>3, TouchedShape
<1>5. table'.id = table.id /\ InUse' = InUse
  BY DEF Touched, InUse
<1>6. KnownNodes' = KnownNodes /\ Busy' = Busy /\ job' = job /\ p4u' = p4u /\ known' = known
  BY DEF KnownNodes, Busy
<1>7. \A m \in InUse : table.ent[m].bList => table'.ent[m].bList
  BY <1>3 DEF Touched
<1>8. \A m \in InUse : table'.ent[m].bList => table.ent[m].bList \/ m = n
  BY <1>3 DEF Touched
<1>9. \A m \in InUse : /\ table'.ent[m].parent = table.ent[m].parent
                       /\ table'.ent[m].name = table.ent[m].name
  BY <1>4 DEF SameKeys, InUse
<1>10. JobInv'
  BY <1>1, <1>6 DEF JobInv
<1>11. FieldInv'
  BY <1>1, <1>5, <1>6, <1>9 DEF FieldInv
<1>12. KnownInv'
  <2> SUFFICES ASSUME NEW k \in known
               PROVE  /\ k.node \in InUse
                      /\ k = Told(table', k.node, k.parent, k.name)
                      /\ table'.ent[k.node].parent = k.parent
                      /\ table'.ent[k.node].name = k.name
                      /\ k.node # 1 => k.parent \in KnownNodes /\ table'.ent[k.parent].bList
    BY <1>1, <1>5, <1>6 DEF KnownInv
  <2>1. /\ k.node \in InUse
        /\ k = Told(table, k.node, k.parent, k.name)
        /\ table.ent[k.node].parent = k.parent /\ table.ent[k.node].name = k.name
        /\ k.node # 1 => k.parent \in KnownNodes /\ table.ent[k.parent].bList
    BY <1>1 DEF KnownInv
  <2>2. k = Told(table', k.node, k.parent, k.name)
    BY <2>1, <1>3, <1>4
  <2> QED
    BY <2>1, <2>2, <1>2, <1>7, <1>9
<1>13. ListInv'
  <2>1. \A m \in InUse : table'.ent[m].bList => m \in KnownNodes
    BY <1>1, <1>8 DEF ListInv
  <2>2. \A m \in InUse \ {1} : /\ table'.ent[m].parent \in KnownNodes
                               /\ table'.ent[table'.ent[m].parent].bList
    <3> TAKE m \in InUse \ {1}
    <3>1. table.ent[table.ent[m].parent].bList /\ table.ent[m].parent \in KnownNodes
      BY <1>1 DEF ListInv
    <3>2. table.ent[m].parent \in Ids
      BY <1>1, TreeFacts
    <3>3. table'.ent[table.ent[m].parent].bList
      BY <3>1, <3>2 DEF Touched
    <3> QED
      BY <3>1, <3>3, <1>9
  <2>3. KnownNodes # {1} => table'.ent[1].bList
    BY <1>1, <1>2, <1>7 DEF ListInv
  <2> QED
    BY <2>1, <2>2, <2>3, <1>5, <1>6 DEF ListInv
<1>14. Sealed => Sealed'
  BY <1>2, <1>5, <1>6, <1>7 DEF Sealed
<1>15. (cut \subseteq InUse)'
  BY <1>1, <1>5
<1>16. Grows
  BY <1>4, <1>5, <1>6 DEF Grows
<1> QED
  BY <1>4, <1>10, <1>11, <1>12, <1>13, <1>14, <1>15, <1>16

(* Steps that open and close nothing keep the counts. *)
LEMMA OpenKept ==
  ASSUME TreeOK(table), TreeOK(table'), OpenInv, handles' = handles, SameOpens(table, table'),
         table'.id \in {table.id, table.id + 1}, Sealed => Sealed',
         KnownNodes \subseteq KnownNodes',
         \A n \in KnownNodes : n \in InUse /\ table'.ent[n].bDir = table.ent[n].bDir
  PROVE  OpenInv'
<1>1. /\ table.id \in 1 .. MaxId /\ table'.id \in 1 .. MaxId /\ MaxId \in Nat
      /\ InUse \subseteq Ids /\ InUse = 1 .. table.id /\ InUse' = 1 .. table'.id
      /\ InUse' \subseteq Ids
  BY TableFields, TableAssumption DEF TreeOK, InUse, Ids
<1>2. Sealed => table'.id = table.id
  BY DEF Sealed
<1>3. /\ handles \in [Ids -> Nat]
      /\ \A n \in InUse : /\ table.ent[n].refcnt = handles[n]
                          /\ table.ent[n].opened_file # 0 <=> handles[n] > 0
      /\ \A n \in InUse : handles[n] > 0 => n \in KnownNodes /\ ~table.ent[n].bDir
      /\ \A n \in Ids : n > table.id =>
           /\ handles[n] = 0
           /\ Sealed \/ (table.ent[n].refcnt = 0 /\ table.ent[n].opened_file = 0)
  BY DEF OpenInv, HandlesCounted
<1>4. \A n \in Ids : /\ table'.ent[n].opened_file = table.ent[n].opened_file
                     /\ table'.ent[n].refcnt = table.ent[n].refcnt
  BY DEF SameOpens
<1>5. \A n \in InUse' : n \in InUse \/ (n \in Ids /\ n > table.id /\ ~Sealed)
  BY <1>1, <1>2
<1>6. HandlesCounted'
  <2> SUFFICES ASSUME NEW n \in InUse'
               PROVE  /\ table'.ent[n].refcnt = handles[n]
                      /\ table'.ent[n].opened_file # 0 <=> handles[n] > 0
    BY DEF HandlesCounted
  <2>1. n \in Ids
    BY <1>1
  <2>2. CASE n \in InUse
    <3>1. /\ table'.ent[n].opened_file = table.ent[n].opened_file
          /\ table'.ent[n].refcnt = table.ent[n].refcnt
      BY <1>4, <2>1
    <3>2. /\ table.ent[n].refcnt = handles[n]
          /\ table.ent[n].opened_file # 0 <=> handles[n] > 0
      BY <1>3, <2>2
    <3> QED
      BY <3>1, <3>2
  <2>3. CASE n > table.id /\ ~Sealed
    <3>1. handles[n] = 0 /\ table.ent[n].refcnt = 0 /\ table.ent[n].opened_file = 0
      BY <1>3, <2>1, <2>3
    <3> QED
      BY <1>4, <2>1, <3>1
  <2> QED
    BY <1>5, <2>2, <2>3
<1>7. \A n \in InUse' : handles[n] > 0 => n \in KnownNodes' /\ ~table'.ent[n].bDir
  <2> SUFFICES ASSUME NEW n \in InUse', handles[n] > 0
               PROVE  n \in KnownNodes' /\ ~table'.ent[n].bDir
    OBVIOUS
  <2>1. n \in InUse
    <3>1. n \in Ids /\ n > table.id => handles[n] = 0
      BY <1>3
    <3> QED
      BY <1>5, <3>1
  <2> QED
    BY <1>3, <2>1
<1>8. \A n \in Ids : n > table'.id =>
        /\ handles[n] = 0
        /\ Sealed' \/ (table'.ent[n].refcnt = 0 /\ table'.ent[n].opened_file = 0)
  <2> SUFFICES ASSUME NEW n \in Ids, n > table'.id
               PROVE  /\ handles[n] = 0
                      /\ Sealed' \/ (table'.ent[n].refcnt = 0 /\ table'.ent[n].opened_file = 0)
    OBVIOUS
  <2>1. n > table.id
    BY <1>1 DEF Ids
  <2> QED
    BY <1>3, <1>4, <2>1
<1> QED
  BY <1>3, <1>6, <1>7, <1>8 DEF OpenInv

(* Steps that leave the descriptors alone. *)
LEMMA FdsKept ==
  ASSUME FdsInv, fds' = fds, local \subseteq local', local' \subseteq {e.path : e \in Depot},
         Owners' = Owners,
         \A n \in Owners : /\ table'.ent[n].opened_file = table.ent[n].opened_file
                           /\ PathOf(table', n) = PathOf(table, n)
  PROVE  FdsInv'
<1>1. FdsOwned'
  <2>1. {table'.ent[n].opened_file : n \in Owners'} = {table.ent[n].opened_file : n \in Owners}
    OBVIOUS
  <2> QED
    BY <2>1 DEF FdsInv, FdsOwned
<1>2. FdsOnOwnFile'
  BY DEF FdsInv, FdsOnOwnFile
<1> QED
  BY <1>1, <1>2 DEF FdsInv

LEMMA SyncGrows ==
  ASSUME local \subseteq {e.path : e \in Depot}, NEW n, SyncOnce(n)
  PROVE  local \subseteq local' /\ local' \subseteq {e.path : e \in Depot}
<1>1. CASE UNCHANGED local
  BY <1>1
<1>2. CASE /\ \E e \in Depot : e.path = PathOf(table, n) /\ e.kind # "dir" /\ ~e.gone
           /\ local' = local \cup {PathOf(table, n)}
  BY <1>2
<1> QED
  BY <1>1, <1>2 DEF SyncOnce, Sync

-----------------------------------------------------------------------------
(* READLINK, OPEN and RELEASE.                                             *)

LEMMA ReadlinkPreserves ==
  ASSUME IInv, NEW n \in KnownNodes, Readlink(n)
  PROVE  IInv' /\ Grows
<1>1. /\ Idle /\ SyncOnce(n) /\ table' = Marked(table, n)
      /\ UNCHANGED <<fds, known, p4u, job, handles, cut>>
  BY DEF Readlink, Marked
<1>2. TreeOK(table) /\ KnownInv /\ OpenInv /\ FdsInv
  BY DEF IInv
<1>3. /\ n \in InUse /\ n \in Ids /\ table \in Table /\ InUse \subseteq Ids
      /\ KnownNodes \subseteq InUse
  BY <1>2, KnownInUse, TreeFacts
<1>4. /\ Touched(table, table', n) /\ table'.ent[n].bList = TRUE
      /\ table'.ent[n].opened_file = table.ent[n].opened_file
      /\ table'.ent[n].refcnt = table.ent[n].refcnt
  BY <1>1, <1>3, MarkedTouches
<1>5. /\ TreeOK(table)' /\ JobInv' /\ FieldInv' /\ KnownInv' /\ ListInv'
      /\ (cut \subseteq InUse)'
      /\ Sealed => Sealed'
      /\ Grows
  BY <1>1, <1>4, TouchKeeps
<1>6. SameOpens(table, table')
  BY <1>4 DEF SameOpens, Touched
<1>7. table'.id = table.id /\ \A m \in Ids : table'.ent[m].bDir = table.ent[m].bDir
  BY <1>4 DEF Touched
<1>8. OpenInv'
  <2>1. KnownNodes' = KnownNodes
    BY <1>1 DEF KnownNodes
  <2> QED
    BY <1>1, <1>2, <1>3, <1>5, <1>6, <1>7, <2>1, OpenKept
<1>9. FdsInv'
  <2>1. \A m \in InUse : PathOf(table', m) = PathOf(table, m)
    BY <1>2, <1>3, <1>4, TouchedShape, TreeFacts DEF InUse
  <2>2. Owners' = Owners
    BY <1>3, <1>6, <1>7 DEF Owners, InUse, SameOpens
  <2>3. local \subseteq local' /\ local' \subseteq {e.path : e \in Depot}
    BY <1>1, <1>2, SyncGrows DEF FdsInv
  <2> QED
    BY <1>1, <1>2, <1>3, <1>6, <2>1, <2>2, <2>3, FdsKept DEF Owners, SameOpens
<1> QED
  BY <1>5, <1>8, <1>9 DEF IInv

(* The counts of one node change together. *)
LEMMA HandleChange ==
  ASSUME TreeOK(table), OpenInv, NEW n \in KnownNodes, n \in InUse,
         Touched(table, table', n), KnownNodes' = KnownNodes, Sealed => Sealed',
         NEW h \in Nat, handles' = [handles EXCEPT ![n] = h],
         table'.ent[n].refcnt = h, table'.ent[n].opened_file # 0 <=> h > 0,
         h > 0 => ~table.ent[n].bDir
  PROVE  OpenInv'
<1>1. InUse \subseteq Ids /\ InUse' = InUse /\ table'.id = table.id /\ n \in Ids
  BY TreeFacts DEF InUse, Touched
<1>2. /\ handles \in [Ids -> Nat] /\ HandlesCounted
      /\ \A m \in InUse : handles[m] > 0 => m \in KnownNodes /\ ~table.ent[m].bDir
      /\ \A m \in Ids : m > table.id =>
           /\ handles[m] = 0
           /\ Sealed \/ (table.ent[m].refcnt = 0 /\ table.ent[m].opened_file = 0)
  BY DEF OpenInv
<1>3. /\ handles' \in [Ids -> Nat] /\ handles'[n] = h
      /\ \A m \in Ids \ {n} : handles'[m] = handles[m] /\ table'.ent[m] = table.ent[m]
  BY <1>1, <1>2 DEF Touched
<1>4. HandlesCounted'
  <2> SUFFICES ASSUME NEW m \in InUse
               PROVE  /\ table'.ent[m].refcnt = handles'[m]
                      /\ table'.ent[m].opened_file # 0 <=> handles'[m] > 0
    BY <1>1 DEF HandlesCounted
  <2>1. CASE m = n
    BY <1>3, <2>1
  <2>2. CASE m # n
    <3>1. /\ table.ent[m].refcnt = handles[m]
          /\ table.ent[m].opened_file # 0 <=> handles[m] > 0
      BY <1>2 DEF HandlesCounted
    <3>2. handles'[m] = handles[m] /\ table'.ent[m] = table.ent[m]
      BY <1>1, <1>3, <2>2
    <3> QED
      BY <3>1, <3>2
  <2> QED
    BY <2>1, <2>2
<1>5. \A m \in InUse : handles'[m] > 0 => m \in KnownNodes /\ ~table'.ent[m].bDir
  <2> TAKE m \in InUse
  <2>1. CASE m = n
    BY <1>3, <2>1 DEF Touched
  <2>2. CASE m # n
    <3>1. handles'[m] = handles[m] /\ table'.ent[m] = table.ent[m]
      BY <1>1, <1>3, <2>2
    <3> QED
      BY <1>2, <3>1
  <2> QED
    BY <2>1, <2>2
<1>6. \A m \in Ids : m > table'.id =>
        /\ handles'[m] = 0
        /\ Sealed' \/ (table'.ent[m].refcnt = 0 /\ table'.ent[m].opened_file = 0)
  <2> TAKE m \in Ids
  <2>1. m > table'.id => m # n
    <3>1. n \in Nat /\ n <= table.id /\ table.id \in Nat /\ table'.id = table.id
      BY <1>1, TreeFacts DEF InUse
    <3>2. m \in Nat
      BY TableAssumption DEF Ids
    <3> QED
      BY <3>1, <3>2
  <2> QED
    BY <1>1, <1>2, <1>3, <2>1
<1> QED
  BY <1>1, <1>3, <1>4, <1>5, <1>6 DEF OpenInv

LEMMA OpenPreserves ==
  ASSUME IInv, NEW n \in KnownNodes, Open(n)
  PROVE  IInv' /\ Grows
<1>1. /\ Idle /\ ~table.ent[n].bDir /\ SyncOnce(n)
      /\ handles' = [handles EXCEPT ![n] = @ + 1]
      /\ UNCHANGED <<known, p4u, job, cut>>
  BY DEF Open
<1>2. TreeOK(table) /\ KnownInv /\ OpenInv /\ FdsInv
  BY DEF IInv
<1>3. /\ n \in InUse /\ n \in Ids /\ table \in Table /\ InUse \subseteq Ids
      /\ KnownNodes \subseteq InUse /\ table.ent[n].refcnt \in Nat
      /\ \A m \in InUse : table.ent[m].opened_file \in Int
  BY <1>2, KnownInUse, TreeFacts
<1>4. /\ handles[n] \in Nat /\ table.ent[n].refcnt = handles[n]
      /\ table.ent[n].opened_file # 0 <=> handles[n] > 0
      /\ handles' = [handles EXCEPT ![n] = handles[n] + 1]
  BY <1>1, <1>2, <1>3 DEF OpenInv, HandlesCounted
<1>5. \/ /\ table.ent[n].opened_file = 0 /\ Openable(n)
         /\ \E fd \in FreeFds :
              /\ table' = FirstOpen(table, n, fd)
              /\ fds' = Opened(fd, PathOf(table, n))
      \/ /\ table.ent[n].opened_file = 0
         /\ table' = FirstOpen(table, n, -1)
         /\ fds' = fds
      \/ /\ table.ent[n].opened_file # 0
         /\ table' = Shared(table, n)
         /\ fds' = fds
  BY DEF Open, FirstOpen, Shared
<1>6. /\ Touched(table, table', n) /\ table'.ent[n].bList = TRUE
      /\ table'.ent[n].refcnt = handles[n] + 1 /\ table'.ent[n].opened_file # 0
      /\ \/ /\ table.ent[n].opened_file = 0 /\ Openable(n)
            /\ \E fd \in FreeFds : /\ table'.ent[n].opened_file = fd
                                   /\ fds' = Opened(fd, PathOf(table, n))
         \/ /\ table.ent[n].opened_file = 0 /\ table'.ent[n].opened_file = -1
            /\ fds' = fds
         \/ /\ table.ent[n].opened_file # 0
            /\ table'.ent[n].opened_file = table.ent[n].opened_file
            /\ fds' = fds
  <2>1. CASE /\ table.ent[n].opened_file = 0 /\ Openable(n)
             /\ \E fd \in FreeFds :
                  /\ table' = FirstOpen(table, n, fd)
                  /\ fds' = Opened(fd, PathOf(table, n))
    <3>1. PICK fd \in FreeFds :
                 /\ table' = FirstOpen(table, n, fd)
                 /\ fds' = Opened(fd, PathOf(table, n))
      BY <2>1
    <3>2. fd \in Int /\ fd # 0
      BY DepotAssumption DEF FreeFds
    <3>3. /\ Touched(table, table', n) /\ table'.ent[n].bList = TRUE
          /\ table'.ent[n].opened_file = fd
          /\ table'.ent[n].refcnt = table.ent[n].refcnt + 1
      BY <1>3, <3>1, <3>2, OpenTouches
    <3> QED
      BY <1>4, <2>1, <3>1, <3>2, <3>3
  <2>2. CASE /\ table.ent[n].opened_file = 0
             /\ table' = FirstOpen(table, n, -1)
             /\ fds' = fds
    <3>1. -1 \in Int /\ -1 # 0
      OBVIOUS
    <3>2. /\ Touched(table, table', n) /\ table'.ent[n].bList = TRUE
          /\ table'.ent[n].opened_file = -1
          /\ table'.ent[n].refcnt = table.ent[n].refcnt + 1
      BY <1>3, <2>2, <3>1, OpenTouches
    <3> QED
      BY <1>4, <2>2, <3>1, <3>2
  <2>3. CASE /\ table.ent[n].opened_file # 0
             /\ table' = Shared(table, n)
             /\ fds' = fds
    <3>1. /\ Touched(table, table', n) /\ table'.ent[n].bList = TRUE
          /\ table'.ent[n].opened_file = table.ent[n].opened_file
          /\ table'.ent[n].refcnt = table.ent[n].refcnt + 1
      BY <1>3, <2>3, ShareTouches
    <3> QED
      BY <1>4, <2>3, <3>1
  <2> QED
    BY <1>5, <2>1, <2>2, <2>3
<1>7. /\ TreeOK(table)' /\ JobInv' /\ FieldInv' /\ KnownInv' /\ ListInv'
      /\ (cut \subseteq InUse)'
      /\ Sealed => Sealed'
      /\ Grows
  BY <1>1, <1>6, TouchKeeps
<1>8. OpenInv'
  <2>1. KnownNodes' = KnownNodes
    BY <1>1 DEF KnownNodes
  <2>2. handles[n] + 1 \in Nat /\ handles[n] + 1 > 0
    BY <1>4
  <2> QED
    BY <1>1, <1>2, <1>3, <1>4, <1>6, <1>7, <2>1, <2>2, HandleChange
<1>9. FdsInv'
  <2>1. /\ InUse' = InUse
        /\ \A m \in InUse : PathOf(table', m) = PathOf(table, m)
        /\ \A m \in InUse \ {n} : table'.ent[m].opened_file = table.ent[m].opened_file
    <3>1. InUse' = InUse /\ table'.id = table.id
      BY <1>6 DEF InUse, Touched
    <3>2. \A m \in 0 .. table.id : PathOf(table', m) = PathOf(table, m)
      BY <1>2, <1>3, <1>6, TouchedShape
    <3>3. \A m \in InUse : m \in 0 .. table.id
      BY <1>2, TreeFacts DEF InUse
    <3>4. \A m \in InUse \ {n} : table'.ent[m] = table.ent[m]
      BY <1>3, <1>6 DEF Touched
    <3> QED
      BY <3>1, <3>2, <3>3, <3>4
  <2>2. local \subseteq local' /\ local' \subseteq {e.path : e \in Depot}
    BY <1>1, <1>2, SyncGrows DEF FdsInv
  <2>3. CASE fds' = fds /\ ~(table'.ent[n].opened_file > 0 /\ n \notin Owners)
             /\ (n \in Owners => table'.ent[n].opened_file = table.ent[n].opened_file)
    <3>1. Owners' = Owners
      BY <1>3, <2>1, <2>3 DEF Owners
    <3> QED
      BY <1>2, <2>1, <2>2, <2>3, <3>1, FdsKept DEF Owners
  <2>4. CASE /\ table.ent[n].opened_file = 0 /\ Openable(n)
             /\ \E fd \in FreeFds : /\ table'.ent[n].opened_file = fd
                                    /\ fds' = Opened(fd, PathOf(table, n))
    <3>1. PICK fd \in FreeFds : /\ table'.ent[n].opened_file = fd
                                /\ fds' = Opened(fd, PathOf(table, n))
      BY <2>4
    <3>2. fd \in 3 .. 2 + MaxHandles /\ fd > 0 /\ fd \notin DOMAIN fds
      BY DepotAssumption DEF FreeFds
    <3>3. Owners' = Owners \cup {n} /\ n \notin Owners
      BY <1>3, <2>1, <2>4, <3>1, <3>2 DEF Owners
    <3>4. /\ DOMAIN fds' = DOMAIN fds \cup {fd} /\ fds'[fd] = PathOf(table, n)
          /\ \A f \in DOMAIN fds : fds'[f] = fds[f]
      BY <3>1, <3>2 DEF Opened
    <3>5. \A m \in Owners : /\ m \in InUse \ {n}
                            /\ table'.ent[m].opened_file = table.ent[m].opened_file
                            /\ table.ent[m].opened_file \in DOMAIN fds
      BY <1>2, <2>1, <3>3 DEF Owners, FdsInv, FdsOwned
    <3>6. FdsOwned'
      <4>1. DOMAIN fds' = {table'.ent[m].opened_file : m \in Owners'}
        <5>1. DOMAIN fds = {table.ent[m].opened_file : m \in Owners}
          BY <1>2 DEF FdsInv, FdsOwned
        <5> QED
          BY <5>1, <3>1, <3>3, <3>4, <3>5
      <4>2. \A l, m \in Owners' :
              table'.ent[l].opened_file = table'.ent[m].opened_file => l = m
        <5>1. \A l, m \in Owners :
                table.ent[l].opened_file = table.ent[m].opened_file => l = m
          BY <1>2 DEF FdsInv, FdsOwned
        <5> QED
          BY <5>1, <3>1, <3>2, <3>3, <3>5
      <4> QED
        BY <4>1, <4>2 DEF FdsOwned
    <3>7. FdsOnOwnFile'
      <4>1. \A m \in Owners : fds[table.ent[m].opened_file] = PathOf(table, m)
        BY <1>2, <3>5 DEF FdsInv, FdsOnOwnFile
      <4>2. \A m \in Owners' : fds'[table'.ent[m].opened_file] = PathOf(table', m)
        BY <4>1, <1>3, <2>1, <3>1, <3>3, <3>4, <3>5
      <4> QED
        BY <4>2 DEF FdsOnOwnFile
    <3>8. \A f \in DOMAIN fds' : fds'[f] \in local'
      BY <1>2, <2>2, <2>4, <3>4 DEF FdsInv, Openable
    <3>9. DOMAIN fds' \subseteq 3 .. 2 + MaxHandles
      BY <1>2, <3>2, <3>4 DEF FdsInv
    <3> QED
      BY <2>2, <3>6, <3>7, <3>8, <3>9 DEF FdsInv
  <2>5. CASE table.ent[n].opened_file = 0 /\ table'.ent[n].opened_file = -1 /\ fds' = fds
    BY <2>3, <2>5 DEF Owners
  <2>6. CASE /\ table.ent[n].opened_file # 0
             /\ table'.ent[n].opened_file = table.ent[n].opened_file /\ fds' = fds
    <3>1. table'.ent[n].opened_file > 0 => n \in Owners
      BY <1>3, <2>6 DEF Owners
    <3> QED
      BY <2>3, <2>6, <3>1
  <2> QED
    BY <1>6, <2>4, <2>5, <2>6
<1> QED
  BY <1>7, <1>8, <1>9 DEF IInv

LEMMA ReleasePreserves ==
  ASSUME IInv, NEW n \in KnownNodes, Release(n)
  PROVE  IInv' /\ Grows
<1>1. /\ Idle /\ handles[n] > 0 /\ handles' = [handles EXCEPT ![n] = handles[n] - 1]
      /\ UNCHANGED <<local, known, p4u, job, cut>>
  BY DEF Release
<1>2. TreeOK(table) /\ KnownInv /\ OpenInv /\ FdsInv
  BY DEF IInv
<1>3. /\ n \in InUse /\ n \in Ids /\ table \in Table /\ InUse \subseteq Ids
      /\ KnownNodes \subseteq InUse /\ table.ent[n].refcnt \in Nat
      /\ \A m \in InUse : table.ent[m].opened_file \in Int
  BY <1>2, KnownInUse, TreeFacts
<1>4. /\ handles[n] \in Nat /\ table.ent[n].refcnt = handles[n]
      /\ table.ent[n].opened_file # 0 /\ ~table.ent[n].bDir
  BY <1>1, <1>2, <1>3 DEF OpenInv, HandlesCounted
<1> DEFINE fd == table.ent[n].opened_file
<1>5. \/ /\ handles[n] = 1 /\ table' = Closed(table, n)
         /\ fds' = RestrictDomain(fds, LAMBDA f : f # fd)
      \/ /\ handles[n] # 1 /\ table' = Left(table, n) /\ fds' = fds
  BY <1>4 DEF Release, Closed, Left
<1>6. /\ Touched(table, table', n) /\ table'.ent[n].bList = table.ent[n].bList
      /\ table'.ent[n].refcnt = handles[n] - 1
      /\ \/ /\ handles[n] = 1 /\ table'.ent[n].opened_file = 0
            /\ fds' = RestrictDomain(fds, LAMBDA f : f # fd)
         \/ /\ handles[n] # 1 /\ table'.ent[n].opened_file = fd /\ fds' = fds
  <2>1. CASE /\ handles[n] = 1 /\ table' = Closed(table, n)
             /\ fds' = RestrictDomain(fds, LAMBDA f : f # fd)
    BY <1>3, <2>1, CloseTouches
  <2>2. CASE handles[n] # 1 /\ table' = Left(table, n) /\ fds' = fds
    <3>1. table.ent[n].refcnt > 0
      BY <1>1, <1>4
    <3> QED
      BY <1>3, <1>4, <2>2, <3>1, LeaveTouches
  <2> QED
    BY <1>5, <2>1, <2>2
<1>7. /\ TreeOK(table)' /\ JobInv' /\ FieldInv' /\ KnownInv' /\ ListInv'
      /\ (cut \subseteq InUse)'
      /\ Sealed => Sealed'
      /\ Grows
  BY <1>1, <1>6, TouchKeeps
<1>8. OpenInv'
  <2>1. KnownNodes' = KnownNodes
    BY <1>1 DEF KnownNodes
  <2>2. handles[n] - 1 \in Nat /\ (handles[n] - 1 > 0 <=> handles[n] # 1)
    BY <1>1, <1>4
  <2>3. table'.ent[n].opened_file # 0 <=> handles[n] - 1 > 0
    BY <1>4, <1>6, <2>2
  <2> QED
    BY <1>1, <1>2, <1>3, <1>4, <1>6, <1>7, <2>1, <2>2, <2>3, HandleChange
<1>9. /\ InUse' = InUse
      /\ \A m \in InUse : PathOf(table', m) = PathOf(table, m)
      /\ \A m \in InUse \ {n} : table'.ent[m].opened_file = table.ent[m].opened_file
  <2>1. InUse' = InUse /\ table'.id = table.id
    BY <1>6 DEF InUse, Touched
  <2>2. \A m \in 0 .. table.id : PathOf(table', m) = PathOf(table, m)
    BY <1>2, <1>3, <1>6, TouchedShape
  <2>3. \A m \in InUse : m \in 0 .. table.id
    BY <1>2, TreeFacts DEF InUse
  <2>4. \A m \in InUse \ {n} : table'.ent[m] = table.ent[m]
    BY <1>3, <1>6 DEF Touched
  <2> QED
    BY <2>1, <2>2, <2>3, <2>4
<1>10. FdsInv'
  <2>1. CASE table'.ent[n].opened_file = fd /\ fds' = fds
    <3>1. Owners' = Owners
      BY <1>3, <1>9, <2>1 DEF Owners
    <3>2. \A m \in Owners : /\ table'.ent[m].opened_file = table.ent[m].opened_file
                            /\ PathOf(table', m) = PathOf(table, m)
      BY <1>9, <2>1 DEF Owners
    <3> QED
      BY <1>1, <1>2, <2>1, <3>1, <3>2, FdsKept DEF FdsInv
  <2>2. CASE table'.ent[n].opened_file = 0 /\ fds' = RestrictDomain(fds, LAMBDA f : f # fd)
    <3>1. DOMAIN fds' = DOMAIN fds \ {fd} /\ \A f \in DOMAIN fds' : fds'[f] = fds[f]
      BY <2>2 DEF RestrictDomain, Restrict
    <3>2. Owners' = Owners \ {n}
      BY <1>3, <1>9, <2>2 DEF Owners
    <3>3. \A m \in Owners' : /\ m \in Owners /\ m # n /\ m \in InUse
                             /\ table'.ent[m].opened_file = table.ent[m].opened_file
                             /\ PathOf(table', m) = PathOf(table, m)
      BY <1>9, <3>2 DEF Owners
    <3>4. /\ DOMAIN fds = {table.ent[m].opened_file : m \in Owners}
          /\ \A l, m \in Owners :
               table.ent[l].opened_file = table.ent[m].opened_file => l = m
      BY <1>2 DEF FdsInv, FdsOwned
    <3>5. \A m \in Owners' : table.ent[m].opened_file # fd
      <4> TAKE m \in Owners'
      <4>1. table.ent[m].opened_file > 0
        BY <3>3 DEF Owners
      <4>2. table.ent[m].opened_file = fd => n \in Owners
        BY <1>3, <4>1 DEF Owners
      <4> QED
        BY <3>3, <3>4, <4>2
    <3>6. DOMAIN fds' = {table'.ent[m].opened_file : m \in Owners'}
      BY <3>1, <3>2, <3>3, <3>4, <3>5
    <3>7. FdsOwned'
      BY <3>3, <3>4, <3>6 DEF FdsOwned
    <3>8. FdsOnOwnFile'
      BY <1>2, <3>1, <3>3, <3>5 DEF FdsInv, FdsOnOwnFile
    <3> QED
      BY <1>1, <1>2, <3>1, <3>7, <3>8 DEF FdsInv
  <2> QED
    BY <1>6, <2>1, <2>2
<1> QED
  BY <1>7, <1>8, <1>10 DEF IInv

-----------------------------------------------------------------------------
(* The listing: its start, the lines of the answer, the ends of commands.  *)

LEMMA ListingStarts ==
  ASSUME IInv, Idle, NEW d \in KnownNodes, ~table.ent[d].bList,
         NEW want \in SUBSET HeardNames, \A x, y \in want : x = y, StartListing(d, want),
         UNCHANGED <<local, fds, p4u, handles, cut>>
  PROVE  IInv' /\ Grows
<1>1. /\ TreeOK(table) /\ JobInv /\ FieldInv /\ KnownInv /\ ListInv /\ OpenInv /\ FdsInv
      /\ cut \subseteq InUse /\ ~Busy
  BY IdleIsFree DEF IInv
<1>2. d \in Ids /\ d \in InUse /\ KnownNodes \subseteq InUse
  BY <1>1, KnownInUse, TreeFacts
<1>3. /\ job'.cmd = "dirs" /\ job'.dir = d /\ job'.lines = <<>> /\ job'.want = want
      /\ job' \in [cmd : {"none", "dirs", "fstat"}, dir : Ids, todo : SUBSET Depot,
                   lines : Seq(Line), want : SUBSET HeardNames]
      /\ table' = table /\ known' = known
  BY <1>2 DEF StartListing, Under
<1>4. Busy' /\ InUse' = InUse /\ KnownNodes' = KnownNodes
  BY <1>3 DEF Busy, InUse, KnownNodes
<1>5. JobInv'
  BY <1>3, <1>4 DEF JobInv
<1>6. FieldInv'
  BY <1>1, <1>3, <1>4 DEF FieldInv
<1>7. KnownInv'
  BY <1>1, <1>3, <1>4 DEF KnownInv
<1>8. ListInv'
  BY <1>1, <1>3, <1>4 DEF ListInv
<1>9. OpenInv'
  <2>1. ~Sealed
    BY DEF Sealed
  <2>2. HandlesCounted'
    BY <1>1, <1>3, <1>4 DEF OpenInv, HandlesCounted
  <2> QED
    BY <1>1, <1>3, <1>4, <2>1, <2>2 DEF OpenInv
<1>10. FdsInv'
  BY <1>1, <1>3, <1>4 DEF FdsInv, FdsOwned, FdsOnOwnFile, Owners
<1>11. Grows
  BY <1>3 DEF Grows, SameKeys
<1> QED
  BY <1>1, <1>3, <1>4, <1>5, <1>6, <1>7, <1>8, <1>9, <1>10, <1>11 DEF IInv

(* A record or the second command: the listing goes on where it was. *)
LEMMA ListingGoesOn ==
  ASSUME IInv, Busy, UNCHANGED <<table, local, fds, known, p4u, handles>>,
         job' \in [cmd : {"none", "dirs", "fstat"}, dir : Ids, todo : SUBSET Depot,
                   lines : Seq(Line), want : SUBSET HeardNames],
         Len(job'.lines) < 4, Busy', job'.dir = job.dir, job'.want = job.want,
         job'.lines # <<>> => Head(job'.lines).tag \notin FieldTags,
         cut' \subseteq cut \cup {job.dir}
  PROVE  IInv' /\ Grows
<1>1. /\ TreeOK(table) /\ JobInv /\ FieldInv /\ KnownInv /\ ListInv /\ OpenInv /\ FdsInv
      /\ cut \subseteq InUse
  BY DEF IInv
<1>2. InUse' = InUse /\ KnownNodes' = KnownNodes /\ job.dir \in KnownNodes
  BY <1>1 DEF InUse, KnownNodes, JobInv
<1>3. KnownNodes \subseteq InUse
  BY <1>1, KnownInUse
<1>4. JobInv'
  BY <1>1, <1>2 DEF JobInv
<1>5. FieldInv'
  BY <1>1, <1>2 DEF FieldInv
<1>6. KnownInv'
  BY <1>1, <1>2 DEF KnownInv
<1>7. ListInv'
  BY <1>1, <1>2 DEF ListInv
<1>8. OpenInv'
  <2>1. ~Sealed
    BY DEF Sealed
  <2>2. HandlesCounted'
    BY <1>1, <1>2 DEF OpenInv, HandlesCounted
  <2> QED
    BY <1>1, <1>2, <2>1, <2>2 DEF OpenInv
<1>9. FdsInv'
  BY <1>1, <1>2 DEF FdsInv, FdsOwned, FdsOnOwnFile, Owners
<1>10. Grows
  BY DEF Grows, SameKeys
<1> QED
  BY <1>1, <1>2, <1>3, <1>4, <1>5, <1>6, <1>7, <1>8, <1>9, <1>10 DEF IInv

LEMMA ShortSeqs ==
  ASSUME NEW S, NEW a \in S, NEW b \in S, NEW c \in S
  PROVE  /\ <<a>> \in Seq(S) /\ Len(<<a>>) < 4 /\ <<a>> # <<>> /\ Head(<<a>>) = a
         /\ <<a, b>> \in Seq(S) /\ Len(<<a, b>>) < 4 /\ <<a, b>> # <<>>
         /\ Head(<<a, b>>) = a
         /\ <<a, b, c>> \in Seq(S) /\ Len(<<a, b, c>>) < 4 /\ <<a, b, c>> # <<>>
         /\ Head(<<a, b, c>>) = a
OBVIOUS

LEMMA RecordLines ==
  ASSUME NEW e \in Depot, NEW typeFirst \in BOOLEAN
  PROVE  /\ Record(e, typeFirst) \in Seq(Line) /\ Len(Record(e, typeFirst)) < 4
         /\ Record(e, typeFirst) # <<>>
         /\ Head(Record(e, typeFirst)).tag \notin FieldTags
<1> DEFINE type == [tag |-> "bSym", val |-> e.kind = "link"]
           size == [tag |-> "size", val |-> e.size]
           file == [tag |-> "depotFile", val |-> Last(e.path)]
           dir == [tag |-> "dir", val |-> Last(e.path)]
<1>1. Last(e.path) \in Names
  BY DEF Names
<1>2. file \in Line /\ dir \in Line
  BY <1>1 DEF Line
<1>3. type \in Line
  BY DEF Line
<1>4. size \in Line
  BY DepotAssumption DEF Line
<1>5. file.tag = "depotFile" /\ dir.tag = "dir"
  OBVIOUS
<1>6. "depotFile" \notin FieldTags /\ "dir" \notin FieldTags
  BY DEF FieldTags
<1>7. Record(e, typeFirst) \in {<<dir>>, <<file, type>>, <<file, type, size>>,
                                <<file, size, type>>}
  BY DEF Record
<1> HIDE DEF type, size, file, dir
<1> DEFINE Good(r) == /\ r \in Seq(Line) /\ Len(r) < 4 /\ r # <<>>
                      /\ Head(r).tag \notin FieldTags
<1>8. Good(<<dir>>)
  BY <1>2, <1>5, <1>6, ShortSeqs
<1>9. Good(<<file, type>>)
  BY <1>2, <1>3, <1>5, <1>6, ShortSeqs
<1>10. Good(<<file, type, size>>)
  BY <1>2, <1>3, <1>4, <1>5, <1>6, ShortSeqs
<1>11. Good(<<file, size, type>>)
  BY <1>2, <1>3, <1>4, <1>5, <1>6, ShortSeqs
<1> QED
  BY <1>7, <1>8, <1>9, <1>10, <1>11

LEMMA OutputStatPreserves ==
  ASSUME IInv, NEW e \in Depot, NEW typeFirst \in BOOLEAN, OutputStat(e, typeFirst)
  PROVE  IInv' /\ Grows
<1> DEFINE r == Record(e, typeFirst)
<1>1. /\ job # NoJob /\ job.lines = <<>>
      /\ job' = [job EXCEPT !.todo = @ \ {e}, !.lines = r]
      /\ UNCHANGED <<table, local, fds, known, p4u, handles, cut>>
  BY DEF OutputStat, Idle
<1>2. r \in Seq(Line) /\ Len(r) < 4 /\ Head(r).tag \notin FieldTags
  BY RecordLines
<1>3. JobInv
  BY DEF IInv
<1>4. Busy
  BY <1>1, <1>3 DEF JobInv
<1> HIDE DEF r
<1>5. /\ job' \in [cmd : {"none", "dirs", "fstat"}, dir : Ids, todo : SUBSET Depot,
                   lines : Seq(Line), want : SUBSET HeardNames]
      /\ job'.cmd = job.cmd /\ job'.dir = job.dir /\ job'.want = job.want /\ job'.lines = r
  BY <1>1, <1>2, <1>3 DEF JobInv
<1>6. Busy'
  BY <1>4, <1>5 DEF Busy
<1> QED
  BY <1>1, <1>2, <1>4, <1>5, <1>6, ListingGoesOn

LEMMA EndDirsPreserves ==
  ASSUME IInv, EndDirs
  PROVE  IInv' /\ Grows
<1>1. /\ job.cmd = "dirs" /\ job.lines = <<>> /\ cut' \subseteq cut \cup {job.dir}
      /\ job' = [job EXCEPT !.cmd = "fstat",
                            !.todo = Under(PathOf(table, job.dir), {"file", "link"})]
      /\ UNCHANGED <<table, local, fds, known, p4u, handles>>
  BY DEF EndDirs, EndCommand
<1>2. JobInv
  BY DEF IInv
<1>3. Under(PathOf(table, job.dir), {"file", "link"}) \subseteq Depot
  BY DEF Under
<1>4. /\ job' \in [cmd : {"none", "dirs", "fstat"}, dir : Ids, todo : SUBSET Depot,
                   lines : Seq(Line), want : SUBSET HeardNames]
      /\ job'.cmd = "fstat" /\ job'.dir = job.dir /\ job'.want = job.want
      /\ job'.lines = job.lines
  BY <1>1, <1>2, <1>3 DEF JobInv
<1>5. Busy /\ Busy' /\ Len(job'.lines) < 4
  BY <1>1, <1>2, <1>4 DEF Busy, JobInv
<1> QED
  BY <1>1, <1>4, <1>5, ListingGoesOn

(* A LOOKUP is answered, at once or when its listing is over: the          *)
(* directory is then marked.                                               *)
LEMMA AnswerKeeps ==
  ASSUME IInv, NEW d \in KnownNodes, Touched(table, table', d), table'.ent[d].bList,
         SameOpens(table, table'), Busy => job.dir = d, job' = NoJob,
         NEW want \in SUBSET HeardNames, \A x, y \in want : x = y,
         known' = known \cup LookupReply(table', d, want),
         cut' \subseteq cut \cup {d}, UNCHANGED <<local, fds, p4u, handles>>
  PROVE  IInv' /\ Grows
<1>1. /\ TreeOK(table) /\ JobInv /\ FieldInv /\ KnownInv /\ ListInv /\ OpenInv /\ FdsInv
      /\ cut \subseteq InUse
  BY DEF IInv
<1>2. KnownNodes \subseteq InUse /\ 1 \in KnownNodes
  BY <1>1, KnownInUse
<1>3. /\ InUse \subseteq Ids /\ table \in Table /\ d \in Ids /\ d \in InUse /\ d \in Int
      /\ table.id \in Nat
  BY <1>1, <1>2, TreeFacts
<1>4. /\ TreeOK(table)' /\ SameKeys(table, table', table.id)
      /\ \A c : Children(table', c) = Children(table, c)
      /\ \A m \in Ids : \A parent, name :
           Told(table', m, parent, name) = Told(table, m, parent, name)
      /\ \A m \in 0 .. table.id : PathOf(table', m) = PathOf(table, m)
  BY <1>1, <1>3, TouchedShape
<1>5. table'.id = table.id /\ InUse' = InUse
  BY DEF Touched, InUse
<1>6. \A m \in InUse : table.ent[m].bList => table'.ent[m].bList
  BY <1>3 DEF Touched
<1>7. \A m \in InUse : table'.ent[m].bList => table.ent[m].bList \/ m = d
  BY <1>3 DEF Touched
<1>8. \A m \in InUse : /\ table'.ent[m].parent = table.ent[m].parent
                       /\ table'.ent[m].name = table.ent[m].name
  BY <1>4 DEF SameKeys, InUse
<1>9. ~Busy' /\ KnownNodes \subseteq KnownNodes'
  BY DEF Busy, NoJob, KnownNodes
<1>10. \A k \in LookupReply(table', d, want) :
         /\ k.node \in InUse
         /\ k = Told(table', k.node, k.parent, k.name)
         /\ table'.ent[k.node].parent = k.parent /\ table'.ent[k.node].name = k.name
         /\ k.parent = d
  <2> TAKE k \in LookupReply(table', d, want)
  <2>1. PICK name \in want : /\ FindPath(table', d, name) # Missing
                             /\ k = Told(table', FindPath(table', d, name), d, name)
    BY DEF LookupReply
  <2> DEFINE n == FindPath(table', d, name)
  <2>2. name \in Int
    BY HeardIsInt
  <2>3. n \in 1 .. table'.id /\ table'.ent[n].parent = d /\ table'.ent[n].name = name
    BY <1>3, <1>4, <2>1, <2>2, FindPathFinds
  <2> HIDE DEF n
  <2>4. k = Told(table', n, d, name)
    BY <2>1 DEF n
  <2>5. k.node = n /\ k.parent = d /\ k.name = name
    BY <2>4 DEF Told
  <2>6. n \in InUse
    BY <1>5, <2>3 DEF InUse
  <2> QED
    BY <2>3, <2>4, <2>5, <2>6
<1>11. JobInv'
  <2>1. /\ job' \in [cmd : {"none", "dirs", "fstat"}, dir : Ids, todo : SUBSET Depot,
                     lines : Seq(Line), want : SUBSET HeardNames]
        /\ Len(job'.lines) < 4 /\ job'.want = {}
    BY TableAssumption DEF NoJob, Ids
  <2> QED
    BY <1>9, <2>1 DEF JobInv
<1>12. FieldInv'
  <2>1. job'.lines = <<>>
    BY DEF NoJob
  <2> QED
    BY <1>1, <1>5, <2>1 DEF FieldInv
<1>13. KnownInv'
  <2> SUFFICES ASSUME NEW k \in known'
               PROVE  /\ k.node \in InUse
                      /\ k = Told(table', k.node, k.parent, k.name)
                      /\ table'.ent[k.node].parent = k.parent
                      /\ table'.ent[k.node].name = k.name
                      /\ k.node # 1 => k.parent \in KnownNodes' /\ table'.ent[k.parent].bList
    BY <1>1, <1>5 DEF KnownInv
  <2>1. CASE k \in known
    <3>1. /\ k.node \in InUse
          /\ k = Told(table, k.node, k.parent, k.name)
          /\ table.ent[k.node].parent = k.parent /\ table.ent[k.node].name = k.name
          /\ k.node # 1 => k.parent \in KnownNodes /\ table.ent[k.parent].bList
      BY <1>1, <2>1 DEF KnownInv
    <3>2. k = Told(table', k.node, k.parent, k.name)
      <4>1. k.node \in Ids
        BY <3>1, <1>3
      <4>2. Told(table', k.node, k.parent, k.name) = Told(table, k.node, k.parent, k.name)
        BY <4>1, <1>4
      <4> QED
        BY <3>1, <4>2
    <3> QED
      BY <3>1, <3>2, <1>2, <1>6, <1>8, <1>9
  <2>2. CASE k \in LookupReply(table', d, want)
    BY <1>9, <1>10, <2>2
  <2> QED
    BY <2>1, <2>2
<1>14. LookupReply(table', d, want) # {} => KnownNodes # {1} \/ d = 1
  BY <1>2
<1>15. ListInv'
  <2>1. \A m \in InUse : table'.ent[m].bList => m \in KnownNodes
    BY <1>1, <1>7 DEF ListInv
  <2>2. \A m \in InUse \ {1} : /\ table'.ent[m].parent \in KnownNodes
                               /\ table'.ent[table'.ent[m].parent].bList
    <3> TAKE m \in InUse \ {1}
    <3>1. /\ table.ent[table.ent[m].parent].bList \/ table.ent[m].parent = d
          /\ table.ent[m].parent \in KnownNodes
      BY <1>1 DEF ListInv
    <3>2. table.ent[m].parent \in Ids
      BY <1>1, TreeFacts
    <3>3. table'.ent[table.ent[m].parent].bList
      BY <3>1, <3>2 DEF Touched
    <3> QED
      BY <3>1, <3>3, <1>8
  <2>3. KnownNodes' # {1} => table'.ent[1].bList
    <3>1. CASE KnownNodes # {1}
      BY <1>1, <1>2, <1>6, <3>1 DEF ListInv
    <3>2. CASE KnownNodes = {1}
      BY <3>2
    <3> QED
      BY <3>1, <3>2
  <2> QED
    BY <1>5, <1>9, <2>1, <2>2, <2>3 DEF ListInv
<1>16. Sealed => Sealed'
  <2> SUFFICES ASSUME Sealed PROVE Sealed'
    OBVIOUS
  <2>1. table.id = 1 /\ KnownNodes = {1} /\ table.ent[1].bList /\ d = 1
    BY DEF Sealed
  <2>2. LookupReply(table', d, want) = {}
    <3> SUFFICES ASSUME NEW k \in LookupReply(table', d, want) PROVE FALSE
      OBVIOUS
    <3>1. k.node = 1 /\ table'.ent[k.node].parent = 1
      BY <1>10, <2>1 DEF InUse
    <3>2. table'.ent[1].parent = 0
      BY <1>4 DEF TreeOK
    <3> QED
      BY <3>1, <3>2
  <2>3. KnownNodes' = {1}
    BY <2>1, <2>2 DEF KnownNodes
  <2> QED
    BY <1>5, <1>6, <1>9, <2>1, <2>3, <1>2 DEF Sealed
<1>17. OpenInv'
  <2>1. \A m \in KnownNodes : m \in InUse /\ table'.ent[m].bDir = table.ent[m].bDir
    BY <1>2, <1>3 DEF Touched
  <2> QED
    BY <1>1, <1>4, <1>5, <1>9, <1>16, <2>1, OpenKept
<1>18. FdsInv'
  <2>1. \A m \in InUse : m \in 0 .. table.id
    BY <1>3 DEF InUse
  <2>2. Owners' = Owners
    BY <1>3, <1>5 DEF Owners, SameOpens
  <2>3. \A m \in Owners : /\ table'.ent[m].opened_file = table.ent[m].opened_file
                          /\ PathOf(table', m) = PathOf(table, m)
    BY <1>3, <1>4, <2>1 DEF Owners, SameOpens
  <2> QED
    BY <1>1, <2>2, <2>3, FdsKept DEF FdsInv
<1>19. Grows
  <2>1. CASE LookupReply(table', d, want) = {}
    BY <1>4, <1>5, <2>1 DEF Grows
  <2>2. CASE LookupReply(table', d, want) # {}
    <3>1. PICK k \in LookupReply(table', d, want) : TRUE
      BY <2>2
    <3>2. \A l \in LookupReply(table', d, want) : l = k
      BY <3>1 DEF LookupReply
    <3>3. known' = known \cup {k}
      BY <3>1, <3>2
    <3>4. Handed
      BY <1>5, <1>10, <3>1, <3>3 DEF Handed
    <3> QED
      BY <1>4, <1>5, <3>4 DEF Grows
  <2> QED
    BY <2>1, <2>2
<1> QED
  BY <1>1, <1>3, <1>4, <1>5, <1>11, <1>12, <1>13, <1>15, <1>17, <1>18, <1>19 DEF IInv

LEMMA TouchesNothing ==
  ASSUME NEW t \in Table, NEW n
  PROVE  Touched(t, t, n) /\ SameOpens(t, t)
BY DEF Touched, SameOpens

LEMMA LookupPreserves ==
  ASSUME IInv, NEW d \in KnownNodes, NEW asked \in Asked, Lookup(d, asked)
  PROVE  IInv' /\ Grows
<1>0. PICK name : name = Heard(asked)
  OBVIOUS
<1>n. name \in HeardNames /\ name \in Int
  BY <1>0, HeardIsInt DEF HeardNames
<1>1. Idle /\ UNCHANGED <<local, fds, p4u, handles, cut>>
  BY DEF Lookup, KnownDir
<1>2. CASE FindPath(table, d, name) = Missing /\ ~table.ent[d].bList
  <2>1. StartListing(d, {name})
    BY <1>0, <1>2 DEF Lookup
  <2> QED
    BY <1>n, <1>1, <1>2, <2>1, ListingStarts
<1>3. CASE ~(FindPath(table, d, name) = Missing /\ ~table.ent[d].bList)
  <2>1. known' = known \cup LookupReply(table, d, {name}) /\ table' = table /\ job' = job
    BY <1>0, <1>3 DEF Lookup
  <2>2. /\ TreeOK(table) /\ ListInv /\ KnownInv /\ ~Busy /\ job' = NoJob
    BY <1>1, <2>1, IdleIsFree DEF IInv, Idle
  <2>3. d \in InUse /\ d \in Int /\ table \in Table /\ name \in Int
    BY <1>n, <2>2, KnownInUse, TreeFacts
  <2>4. table.ent[d].bList
    <3> SUFFICES ASSUME ~table.ent[d].bList PROVE FALSE
      OBVIOUS
    <3> DEFINE n == FindPath(table, d, name)
    <3>1. n \in 1 .. table.id /\ table.ent[n].parent = d
      <4>1. n # Missing
        BY <1>3
      <4>2. TreeOK(table) /\ d \in Int /\ name \in Int
        BY <2>2, <2>3
      <4> QED
        BY <4>1, <4>2, FindPathFinds
    <3>2. n # 1
      BY <2>2, <2>3, <3>1, TreeFacts
    <3> HIDE DEF n
    <3> QED
      BY <2>2, <3>1, <3>2 DEF ListInv, InUse
  <2>5. Touched(table, table', d) /\ SameOpens(table, table')
    BY <2>1, <2>3, TouchesNothing
  <2> QED
    BY <1>n, <1>1, <2>1, <2>2, <2>4, <2>5, AnswerKeeps
<1> QED
  BY <1>2, <1>3

LEMMA ReaddirPreserves ==
  ASSUME IInv, NEW d \in KnownNodes, Readdir(d)
  PROVE  IInv' /\ Grows
<1>1. /\ Idle /\ ~table.ent[d].bList /\ StartListing(d, {})
      /\ UNCHANGED <<local, fds, p4u, handles, cut>>
  BY DEF Readdir, KnownDir
<1> QED
  BY <1>1, ListingStarts

LEMMA EndFstatPreserves ==
  ASSUME IInv, EndFstat
  PROVE  IInv' /\ Grows
<1>1. /\ job.cmd = "fstat" /\ cut' \subseteq cut \cup {job.dir}
      /\ table' = Marked(table, job.dir)
      /\ known' = known \cup LookupReply(table', job.dir, job.want)
      /\ job' = NoJob /\ UNCHANGED <<local, fds, p4u, handles>>
  BY DEF EndFstat, EndCommand, Marked
<1>2. TreeOK(table) /\ KnownInv /\ JobInv /\ Busy
  BY <1>1 DEF IInv, Busy
<1>3. /\ job.dir \in KnownNodes /\ job.dir \in Ids /\ table \in Table
      /\ job.want \subseteq HeardNames /\ \A x, y \in job.want : x = y
  BY <1>2, TreeFacts DEF JobInv
<1> DEFINE d == job.dir
           want == job.want
<1>4. /\ Touched(table, table', d) /\ table'.ent[d].bList = TRUE
      /\ table'.ent[d].opened_file = table.ent[d].opened_file
      /\ table'.ent[d].refcnt = table.ent[d].refcnt
  BY <1>1, <1>3, MarkedTouches
<1>5. SameOpens(table, table')
  BY <1>4 DEF SameOpens, Touched
<1>6. /\ d \in KnownNodes /\ want \in SUBSET HeardNames
      /\ known' = known \cup LookupReply(table', d, want) /\ cut' \subseteq cut \cup {d}
      /\ Busy => job.dir = d
      /\ \A x, y \in want : x = y
  BY <1>1, <1>3
<1> HIDE DEF d, want
<1> QED
  BY <1>1, <1>4, <1>5, <1>6, AnswerKeeps

(* One call of OutputInfo that claims an entry of the directory, or none.  *)
LEMMA ClaimPreserves ==
  ASSUME IInv, Busy, Claimed(table, table', p4u'.node, job.dir),
         p4u' = [node |-> p4u'.node, name |-> p4u'.name],
         p4u'.name \in Names \cup {RootName},
         job.lines # <<>>, job' = [job EXCEPT !.lines = Tail(@)],
         UNCHANGED <<local, fds, known, handles, cut>>
  PROVE  IInv' /\ Grows
<1> DEFINE node == p4u'.node
           d == job.dir
<1>1. /\ TreeOK(table) /\ JobInv /\ FieldInv /\ KnownInv /\ ListInv /\ OpenInv /\ FdsInv
      /\ cut \subseteq InUse
  BY DEF IInv
<1>2. /\ KnownNodes \subseteq InUse /\ 1 \in KnownNodes /\ d \in KnownNodes
      /\ ~table.ent[d].bList /\ KnownNodes' = KnownNodes
  BY <1>1, KnownInUse DEF JobInv, KnownNodes
<1>3. /\ InUse \subseteq Ids /\ InUse \subseteq Nat /\ table.id \in 1 .. MaxId /\ MaxId \in Nat
      /\ \A n \in InUse : table.ent[n].parent \in Ids /\ table.ent[n].parent < n
      /\ table \in Table /\ ParentsFirst(table)
  BY <1>1, TreeFacts DEF TreeOK
<1>4. /\ TreeOK(table') /\ table'.id \in {table.id, table.id + 1}
      /\ node \in {0} \cup 2 .. table'.id
      /\ table'.id = table.id + 1 => node = table'.id
      /\ node # 0 => table'.ent[node].parent = d /\ ~table'.ent[node].bList
      /\ SameKeys(table, table', table.id)
      /\ \A c : c # d => Children(table', c) = Children(table, c)
      /\ \A n \in Ids \ {node} : SameAttrs(table, table', n)
      /\ SameOpens(table, table')
  BY DEF Claimed
<1> HIDE DEF node, d
<1>5. /\ table'.id \in 1 .. MaxId /\ table' \in Table /\ ParentsFirst(table')
      /\ InUse' = 1 .. table'.id /\ InUse = 1 .. table.id
  BY <1>4, TableFields DEF TreeOK, InUse
<1>6. /\ InUse \subseteq InUse' /\ \A n \in InUse' : n \in InUse \/ (n = node /\ n = table.id + 1)
      /\ InUse' \subseteq Ids
  BY <1>3, <1>4, <1>5 DEF Ids
<1>7. \A m \in InUse : /\ table'.ent[m].parent = table.ent[m].parent
                       /\ table'.ent[m].name = table.ent[m].name
  BY <1>4, <1>5 DEF SameKeys
<1>8. node \notin KnownNodes
  <2> SUFFICES ASSUME node \in KnownNodes PROVE FALSE
    OBVIOUS
  <2>1. node \in InUse /\ node # 0 /\ node # 1
    BY <1>2, <1>3, <1>4, <1>5
  <2>2. table.ent[node].parent = d
    BY <1>4, <1>7, <2>1
  <2>3. PICK k \in known : k.node = node
    BY DEF KnownNodes
  <2> QED
    BY <1>1, <1>2, <2>1, <2>2, <2>3 DEF KnownInv
<1>9. \A m \in KnownNodes : m \in InUse /\ m \in Ids /\ SameAttrs(table, table', m)
  BY <1>2, <1>3, <1>4, <1>8
<1>10. /\ Busy' /\ job'.dir = d /\ job'.cmd = job.cmd /\ job'.want = job.want
       /\ Len(job'.lines) < 4
       /\ job' \in [cmd : {"none", "dirs", "fstat"}, dir : Ids, todo : SUBSET Depot,
                    lines : Seq(Line), want : SUBSET HeardNames]
  <2>1. /\ job.lines \in Seq(Line) /\ Len(job.lines) < 4
        /\ job \in [cmd : {"none", "dirs", "fstat"}, dir : Ids, todo : SUBSET Depot,
                    lines : Seq(Line), want : SUBSET HeardNames]
    BY <1>1 DEF JobInv
  <2>2. Tail(job.lines) \in Seq(Line) /\ Len(Tail(job.lines)) < 4
    BY <2>1
  <2>3. /\ job'.cmd = job.cmd /\ job'.dir = job.dir /\ job'.want = job.want
        /\ job'.lines = Tail(job.lines)
        /\ job' \in [cmd : {"none", "dirs", "fstat"}, dir : Ids, todo : SUBSET Depot,
                     lines : Seq(Line), want : SUBSET HeardNames]
    BY <2>1, <2>2
  <2> QED
    BY <2>2, <2>3 DEF Busy, d
<1>11. JobInv'
  <2>1. job'.dir \in KnownNodes' /\ ~table'.ent[job'.dir].bList
    BY <1>2, <1>9, <1>10 DEF SameAttrs
  <2> QED
    BY <1>1, <1>10, <2>1 DEF JobInv
<1>12. FieldInv'
  <2>1. node \in {0} \cup InUse'
    BY <1>3, <1>4, <1>5
  <2>2. node # 0 => node # 1 /\ table'.ent[node].parent = job'.dir
    BY <1>4, <1>5, <1>10
  <2> QED
    BY <2>1, <2>2 DEF FieldInv, node
<1>13. KnownInv'
  <2> SUFFICES ASSUME NEW k \in known
               PROVE  /\ k.node \in InUse'
                      /\ k = Told(table', k.node, k.parent, k.name)
                      /\ table'.ent[k.node].parent = k.parent
                      /\ table'.ent[k.node].name = k.name
                      /\ k.node # 1 => k.parent \in KnownNodes /\ table'.ent[k.parent].bList
    BY <1>1, <1>2 DEF KnownInv
  <2>1. /\ k.node \in InUse /\ k.node \in KnownNodes
        /\ k = Told(table, k.node, k.parent, k.name)
        /\ table.ent[k.node].parent = k.parent /\ table.ent[k.node].name = k.name
        /\ k.node # 1 => k.parent \in KnownNodes /\ table.ent[k.parent].bList
    BY <1>1 DEF KnownInv, KnownNodes
  <2>2. Told(table', k.node, k.parent, k.name) = Told(table, k.node, k.parent, k.name)
    BY <1>9, <2>1 DEF SameAttrs, Told
  <2>3. k.node # 1 => table'.ent[k.parent].bList
    BY <1>9, <2>1 DEF SameAttrs
  <2>4. k = Told(table', k.node, k.parent, k.name)
    BY <2>1, <2>2
  <2> QED
    BY <2>1, <2>3, <2>4, <1>6, <1>7
<1>14. ListInv'
  <2>1. \A m \in InUse' : table'.ent[m].bList => m \in KnownNodes
    <3> SUFFICES ASSUME NEW m \in InUse', table'.ent[m].bList PROVE m \in KnownNodes
      OBVIOUS
    <3>1. m # node
      BY <1>3, <1>4, <1>5
    <3>2. m \in InUse /\ m \in Ids
      BY <1>6, <3>1
    <3>3. SameAttrs(table, table', m)
      BY <1>4, <3>1, <3>2
    <3>4. table.ent[m].bList
      BY <3>3 DEF SameAttrs
    <3> QED
      BY <1>1, <3>2, <3>4 DEF ListInv
  <2>2. \A m \in InUse' \ {1} : /\ table'.ent[m].parent \in KnownNodes
                                /\ \/ table'.ent[table'.ent[m].parent].bList
                                   \/ Busy' /\ table'.ent[m].parent = job'.dir
    <3> TAKE m \in InUse' \ {1}
    <3>1. CASE m = node
      BY <1>2, <1>3, <1>4, <1>5, <1>10, <3>1
    <3>2. CASE m # node
      <4>1. m \in InUse /\ table'.ent[m].parent = table.ent[m].parent
        BY <1>6, <1>7, <3>2
      <4>2. /\ table.ent[m].parent \in KnownNodes
            /\ table.ent[table.ent[m].parent].bList \/ table.ent[m].parent = d
        BY <1>1, <4>1 DEF ListInv, d
      <4> QED
        BY <1>9, <1>10, <4>1, <4>2 DEF SameAttrs
    <3> QED
      BY <3>1, <3>2
  <2>3. KnownNodes # {1} => table'.ent[1].bList
    BY <1>1, <1>2, <1>9 DEF ListInv, SameAttrs
  <2> QED
    BY <1>2, <2>1, <2>2, <2>3 DEF ListInv
<1>15. OpenInv'
  <2>1. Sealed => Sealed'
    BY DEF Sealed
  <2>2. \A m \in KnownNodes : m \in InUse /\ table'.ent[m].bDir = table.ent[m].bDir
    BY <1>9 DEF SameAttrs
  <2> QED
    BY <1>1, <1>2, <1>4, <2>1, <2>2, OpenKept
<1>16. FdsInv'
  <2>1. \A m \in 0 .. table.id : PathOf(table', m) = PathOf(table, m)
    BY <1>3, <1>4, <1>5, SamePath
  <2>2. \A m \in Ids : table'.ent[m].opened_file = table.ent[m].opened_file
    BY <1>4 DEF SameOpens
  <2>3. \A m \in InUse' : m \notin InUse => table'.ent[m].opened_file = 0
    <3> SUFFICES ASSUME NEW m \in InUse', m \notin InUse PROVE table'.ent[m].opened_file = 0
      OBVIOUS
    <3>1. m \in Ids /\ m > table.id
      BY <1>3, <1>6
    <3>2. ~Sealed
      BY DEF Sealed
    <3>3. table.ent[m].opened_file = 0
      BY <1>1, <3>1, <3>2 DEF OpenInv
    <3> QED
      BY <2>2, <3>1, <3>3
  <2>4. Owners' = Owners
    BY <1>3, <1>6, <2>2, <2>3 DEF Owners
  <2>5. \A m \in Owners : /\ table'.ent[m].opened_file = table.ent[m].opened_file
                          /\ PathOf(table', m) = PathOf(table, m)
    <3> TAKE m \in Owners
    <3>1. m \in InUse /\ m \in Ids /\ m \in 0 .. table.id
      BY <1>3, <1>5 DEF Owners
    <3> QED
      BY <2>1, <2>2, <3>1
  <2> QED
    BY <1>1, <2>4, <2>5, FdsKept DEF FdsInv
<1>17. Grows
  BY <1>2, <1>4 DEF Grows
<1> QED
  BY <1>1, <1>4, <1>6, <1>11, <1>12, <1>13, <1>14, <1>15, <1>16, <1>17 DEF IInv

(* A field that is set changes an attribute of the entry claimed.          *)
LEMMA FieldKeeps ==
  ASSUME NEW t, NEW u, NEW v, NEW d, NEW node, node # 0, t.id \in Nat,
         Claimed(t, u, node, d), v \in Table, v.id = u.id, v.total = u.total,
         SameShape(u, v), SameOpens(u, v),
         \A n \in Ids \ {node} : SameAttrs(u, v, n), v.ent[node].bList = u.ent[node].bList
  PROVE  Claimed(t, v, node, d)
<1>1. /\ TreeOK(u) /\ u.id \in {t.id, t.id + 1} /\ node \in {0} \cup 2 .. u.id
      /\ (u.id = t.id + 1 => node = u.id)
      /\ u.ent[node].parent = d /\ ~u.ent[node].bList
      /\ SameKeys(t, u, t.id)
      /\ \A c : c # d => Children(u, c) = Children(t, c)
      /\ \A n \in Ids \ {node} : SameAttrs(t, u, n)
      /\ SameOpens(t, u)
  BY DEF Claimed
<1>2. TreeOK(v) /\ \A c : Children(v, c) = Children(u, c)
  BY <1>1, SameTree
<1>3. u.id \in 1 .. MaxId /\ node \in Ids
  BY <1>1, TableFields, TableAssumption DEF TreeOK, Ids
<1>4. SameKeys(t, v, t.id)
  <2> SUFFICES ASSUME NEW n \in 1 .. t.id
               PROVE  v.ent[n].parent = t.ent[n].parent /\ v.ent[n].name = t.ent[n].name
    BY DEF SameKeys
  <2>1. u.ent[n].parent = t.ent[n].parent /\ u.ent[n].name = t.ent[n].name
    BY <1>1 DEF SameKeys
  <2>2. n \in Ids
    <3>1. t.id <= u.id /\ MaxId \in Nat
      BY <1>1, TableAssumption
    <3> QED
      BY <3>1, <1>3 DEF Ids
  <2> QED
    BY <2>1, <2>2 DEF SameShape
<1>5. \A n \in Ids \ {node} : SameAttrs(t, v, n)
  BY <1>1 DEF SameAttrs
<1>6. SameOpens(t, v)
  BY <1>1 DEF SameOpens
<1>7. v.ent[node].parent = d /\ ~v.ent[node].bList
  BY <1>1, <1>3 DEF SameShape
<1> QED
  BY <1>1, <1>2, <1>4, <1>5, <1>6, <1>7 DEF Claimed

WithSize(t, n, size) == [t EXCEPT !.ent[n].size = size]
WithSym(t, n, sym) == [t EXCEPT !.ent[n].bSym = sym]

LEMMA SizeKeeps ==
  ASSUME NEW t \in Table, NEW n \in Ids, NEW size \in Nat
  PROVE  LET v == WithSize(t, n, size)
         IN  /\ v \in Table /\ v.id = t.id /\ v.total = t.total /\ v.arena = t.arena
             /\ SameShape(t, v) /\ SameOpens(t, v)
             /\ \A m \in Ids \ {n} : SameAttrs(t, v, m)
             /\ v.ent[n].bList = t.ent[n].bList
<1> DEFINE v == WithSize(t, n, size)
<1>1. v \in Table /\ v.id = t.id /\ v.total = t.total /\ v.arena = t.arena
  BY DEF Table, Entry, WithSize
<1>2. \A m \in Ids \ {n} : v.ent[m] = t.ent[m]
  BY DEF Table, WithSize
<1>3. /\ v.ent[n].parent = t.ent[n].parent /\ v.ent[n].name = t.ent[n].name
      /\ v.ent[n].left = t.ent[n].left /\ v.ent[n].right = t.ent[n].right
      /\ v.ent[n].opened_file = t.ent[n].opened_file /\ v.ent[n].refcnt = t.ent[n].refcnt
      /\ v.ent[n].bList = t.ent[n].bList
  BY DEF Table, Entry, WithSize
<1> HIDE DEF v
<1> QED
  BY <1>1, <1>2, <1>3 DEF SameShape, SameOpens, SameAttrs, Sides, v

LEMMA SymKeeps ==
  ASSUME NEW t \in Table, NEW n \in Ids, NEW sym \in BOOLEAN
  PROVE  LET v == WithSym(t, n, sym)
         IN  /\ v \in Table /\ v.id = t.id /\ v.total = t.total /\ v.arena = t.arena
             /\ SameShape(t, v) /\ SameOpens(t, v)
             /\ \A m \in Ids \ {n} : SameAttrs(t, v, m)
             /\ v.ent[n].bList = t.ent[n].bList
<1> DEFINE v == WithSym(t, n, sym)
<1>1. v \in Table /\ v.id = t.id /\ v.total = t.total /\ v.arena = t.arena
  BY DEF Table, Entry, WithSym
<1>2. \A m \in Ids \ {n} : v.ent[m] = t.ent[m]
  BY DEF Table, WithSym
<1>3. /\ v.ent[n].parent = t.ent[n].parent /\ v.ent[n].name = t.ent[n].name
      /\ v.ent[n].left = t.ent[n].left /\ v.ent[n].right = t.ent[n].right
      /\ v.ent[n].opened_file = t.ent[n].opened_file /\ v.ent[n].refcnt = t.ent[n].refcnt
      /\ v.ent[n].bList = t.ent[n].bList
  BY DEF Table, Entry, WithSym
<1> HIDE DEF v
<1> QED
  BY <1>1, <1>2, <1>3 DEF SameShape, SameOpens, SameAttrs, Sides, v

LEMMA FieldTable ==
  ASSUME NEW t, NEW node, NEW name, node # 0, NEW line
  PROVE  SetField([t |-> t, node |-> node, name |-> name], line) =
           [t |-> IF line.tag = "size" THEN WithSize(t, node, line.val)
                  ELSE WithSym(t, node, line.val), node |-> node, name |-> name]
BY DEF SetField, WithSize, WithSym

(* A value of a tag. *)
LEMMA LineKinds ==
  ASSUME NEW line \in Line
  PROVE  \/ line.tag \in {"dir", "depotFile"} /\ line.val \in Names
         \/ line.tag = "size" /\ line.val \in Nat
         \/ line.tag = "bSym" /\ line.val \in BOOLEAN
BY DEF Line

(* A call of OutputInfo: it claims an entry of the directory, or none.     *)
LEMMA OutputInfoClaims ==
  ASSUME NEW t, TreeOK(t), NEW node, NEW name \in Names \cup {RootName},
         NEW d \in 1 .. t.id, NEW line \in Line,
         node # 0 /\ line.tag \in FieldTags => Claimed(t, t, node, d),
         OutputInfo([t |-> t, node |-> node, name |-> name], d, line).t.id <= MaxId
  PROVE  LET s == OutputInfo([t |-> t, node |-> node, name |-> name], d, line)
         IN  s.name \in Names \cup {RootName} /\ Claimed(t, s.t, s.node, d)
<1> DEFINE s0 == [t |-> t, node |-> node, name |-> name]
           s == OutputInfo(s0, d, line)
<1>1. t \in Table /\ t.id \in 1 .. MaxId /\ t.id \in Nat /\ MaxId \in Nat /\ name \in Int
  <2>1. t \in Table
    BY DEF TreeOK
  <2>2. t.id \in 1 .. MaxId /\ MaxId \in Nat
    BY <2>1, TableFields, TableAssumption
  <2>3. name \in Int
    BY NamesAreInt
  <2> HIDE DEF s
  <2> QED
    BY <2>1, <2>2, <2>3
<1>2. CASE line.tag = "dir"
  <2>1. line.val \in Names /\ line.val \in Int
    BY <1>2, LineKinds, NamesAreInt
  <2> DEFINE c == Claim([t |-> t, node |-> node, name |-> line.val], d, line.val, TRUE)
  <2>2. [s0 EXCEPT !.name = line.val] = [t |-> t, node |-> node, name |-> line.val]
    OBVIOUS
  <2>3. s = Claim([s0 EXCEPT !.name = line.val], d, line.val, TRUE)
    <3> HIDE DEF s0
    <3> QED
      BY <1>2 DEF OutputInfo
  <2>4. s = c
    BY <2>2, <2>3
  <2>5. c.t.id <= MaxId
    BY <2>4
  <2>6. /\ c = [t |-> c.t, node |-> c.node, name |-> line.val]
        /\ Claimed(t, c.t, c.node, d)
    BY <2>1, <2>5, ClaimKeeps
  <2> HIDE DEF c, s
  <2>7. c.name = line.val
    BY <2>6
  <2> QED
    BY <2>1, <2>4, <2>6, <2>7 DEF s
<1>3. CASE line.tag = "depotFile"
  <2>1. line.val \in Names
    BY <1>3, LineKinds
  <2>2. s.t = t /\ s.node = 0 /\ s.name = line.val
    BY <1>3 DEF OutputInfo
  <2>3. /\ SameKeys(t, t, t.id) /\ SameOpens(t, t)
        /\ \A n : SameAttrs(t, t, n)
    BY DEF SameKeys, SameOpens, SameAttrs
  <2>4. Claimed(t, t, 0, d)
    BY <1>1, <2>3 DEF Claimed
  <2> HIDE DEF s
  <2> QED
    BY <2>1, <2>2, <2>4 DEF s
<1>4. CASE line.tag \in FieldTags
  <2> DEFINE c == IF node = 0 THEN Claim(s0, d, name, FALSE) ELSE s0
             v == IF line.tag = "size" THEN WithSize(c.t, c.node, line.val)
                  ELSE WithSym(c.t, c.node, line.val)
  <2>1. s = SetField(c, line)
    BY <1>4 DEF OutputInfo, FieldTags
  <2> HIDE DEF s
  <2>2. SetField(c, line).t.id = c.t.id
    <3> HIDE DEF c
    <3> QED
      BY DEF SetField
  <2>3. /\ c = [t |-> c.t, node |-> c.node, name |-> name]
        /\ Claimed(t, c.t, c.node, d)
    <3>1. CASE node = 0
      <4>1. c = Claim(s0, d, name, FALSE)
        BY <3>1
      <4>2. c.t.id <= MaxId
        BY <2>1, <2>2 DEF s
      <4> DEFINE k == Claim([t |-> t, node |-> node, name |-> name], d, name, FALSE)
      <4>3. c = k
        BY <4>1
      <4>4. k.t.id <= MaxId
        BY <4>2, <4>3
      <4>5. /\ k = [t |-> k.t, node |-> k.node, name |-> name]
            /\ Claimed(t, k.t, k.node, d)
        BY <1>1, <4>4, ClaimKeeps
      <4> HIDE DEF k, c
      <4> QED
        BY <4>3, <4>5
    <3>2. CASE node # 0
      BY <1>4, <3>2
    <3> QED
      BY <3>1, <3>2
  <2> HIDE DEF c
  <2>4. CASE c.node = 0
    <3>1. s = c
      BY <2>1, <2>4 DEF SetField
    <3> QED
      BY <2>3, <3>1 DEF s
  <2>5. CASE c.node # 0
    <3>1. s = [t |-> v, node |-> c.node, name |-> name]
      <4>1. SetField(c, line) = SetField([t |-> c.t, node |-> c.node, name |-> name], line)
        BY <2>3
      <4>2. SetField([t |-> c.t, node |-> c.node, name |-> name], line) =
              [t |-> v, node |-> c.node, name |-> name]
        BY <2>5, FieldTable
      <4> QED
        BY <2>1, <4>1, <4>2
    <3>2. c.t \in Table /\ c.node \in Ids
      BY <2>3, TableFields, TableAssumption DEF Claimed, TreeOK, Ids
    <3>3. /\ v \in Table /\ v.id = c.t.id /\ v.total = c.t.total
          /\ SameShape(c.t, v) /\ SameOpens(c.t, v)
          /\ \A m \in Ids \ {c.node} : SameAttrs(c.t, v, m)
          /\ v.ent[c.node].bList = c.t.ent[c.node].bList
      <4>1. CASE line.tag = "size"
        <5>1. line.val \in Nat
          BY <4>1, LineKinds
        <5> QED
          BY <3>2, <4>1, <5>1, SizeKeeps
      <4>2. CASE line.tag = "bSym"
        <5>1. line.val \in BOOLEAN
          BY <4>2, LineKinds
        <5> QED
          BY <3>2, <4>2, <5>1, SymKeeps
      <4> QED
        BY <1>4, <4>1, <4>2 DEF FieldTags
    <3> HIDE DEF v
    <3>4. Claimed(t, v, c.node, d)
      BY <1>1, <2>3, <2>5, <3>3, FieldKeeps
    <3> QED
      BY <3>1, <3>4 DEF s
  <2> QED
    BY <2>4, <2>5
<1> QED
  BY <1>2, <1>3, <1>4, LineKinds DEF FieldTags

(* The next line of the listing that runs does no more than that.         *)
LEMMA OutputLineClaims ==
  ASSUME IInv, OutputLine
  PROVE  /\ Busy /\ job.lines # <<>> /\ Head(job.lines) \in Line
         /\ job' = [job EXCEPT !.lines = Tail(@)]
         /\ Claimed(table, table', p4u'.node, job.dir)
         /\ p4u' = [node |-> p4u'.node, name |-> p4u'.name]
         /\ p4u'.name \in Names \cup {RootName}
         /\ UNCHANGED <<local, fds, known, handles, cut>>
<1> DEFINE line == Head(job.lines)
           d == job.dir
           s0 == [t |-> table, node |-> p4u.node, name |-> p4u.name]
           s == OutputInfo(s0, d, line)
<1>1. /\ job.lines # <<>> /\ s.t.id <= MaxId
      /\ table' = s.t /\ p4u' = [node |-> s.node, name |-> s.name]
      /\ job' = [job EXCEPT !.lines = Tail(@)]
      /\ UNCHANGED <<local, fds, known, handles, cut>>
  BY DEF OutputLine, NextLine
<1>2. TreeOK(table) /\ JobInv /\ FieldInv /\ KnownInv /\ ListInv
  BY DEF IInv
<1>3. Busy
  BY <1>1, <1>2 DEF JobInv, NoJob
<1>4. /\ d \in KnownNodes /\ d \in 1 .. table.id /\ ~table.ent[d].bList
      /\ table \in Table
  BY <1>2, <1>3, KnownInUse, TreeFacts DEF JobInv, InUse
<1>5. line \in Line
  <2>1. job.lines \in Seq(Line) /\ job.lines # <<>>
    BY <1>1, <1>2 DEF JobInv
  <2> QED
    BY <2>1
<1>6. p4u.name \in Names \cup {RootName}
  BY <1>2 DEF FieldInv
<1>7. p4u.node # 0 /\ line.tag \in FieldTags => Claimed(table, table, p4u.node, d)
  <2> SUFFICES ASSUME p4u.node # 0, line.tag \in FieldTags
               PROVE  Claimed(table, table, p4u.node, d)
    OBVIOUS
  <2> DEFINE n == p4u.node
  <2>1. n \in InUse /\ n # 1 /\ table.ent[n].parent = d
    BY <1>1, <1>2 DEF FieldInv
  <2>2. ~table.ent[n].bList
    <3> SUFFICES ASSUME table.ent[n].bList PROVE FALSE
      OBVIOUS
    <3>1. PICK k \in known : k.node = n
      BY <1>2, <2>1 DEF ListInv, KnownNodes
    <3>2. k.parent = d /\ table.ent[k.parent].bList
      BY <1>2, <2>1, <3>1 DEF KnownInv
    <3> QED
      BY <1>4, <3>2
  <2>3. n \in 2 .. table.id /\ table.id \in Nat
    BY <1>2, <2>1, TreeFacts DEF InUse
  <2>4. /\ SameKeys(table, table, table.id) /\ SameOpens(table, table)
        /\ \A m : SameAttrs(table, table, m)
    BY DEF SameKeys, SameOpens, SameAttrs
  <2> HIDE DEF n
  <2>5. Claimed(table, table, n, d)
    BY <1>2, <2>1, <2>2, <2>3, <2>4 DEF Claimed
  <2> QED
    BY <2>5 DEF n
<1> HIDE DEF line, d
<1>8. s.name \in Names \cup {RootName} /\ Claimed(table, s.t, s.node, d)
  BY <1>1, <1>2, <1>4, <1>5, <1>6, <1>7, OutputInfoClaims
<1> HIDE DEF s
<1>9. /\ Claimed(table, table', p4u'.node, d)
      /\ p4u' = [node |-> p4u'.node, name |-> p4u'.name]
      /\ p4u'.name \in Names \cup {RootName}
  BY <1>1, <1>8
<1> QED
  BY <1>1, <1>3, <1>5, <1>9 DEF d, line

LEMMA OutputLinePreserves ==
  ASSUME IInv, OutputLine
  PROVE  IInv' /\ Grows
BY OutputLineClaims, ClaimPreserves

-----------------------------------------------------------------------------
(* The first state of a daemon, on a table that has only the root in use.  *)

(* The entries beyond the root carry no open file, or none will be used.   *)
Fresh ==
  /\ TreeOK(table) /\ table.id = 1
  /\ Told(table, 1, 0, RootName) = Told(InitTable, 1, 0, RootName)
  /\ table.ent[1].opened_file = 0 /\ table.ent[1].refcnt = 0
  /\ \/ table.ent[1].bList
     \/ \A n \in Ids : n > 1 => table.ent[n].refcnt = 0 /\ table.ent[n].opened_file = 0
  /\ known = {Told(InitTable, 1, 0, RootName)} /\ fds = [f \in {} |-> <<>>]
  /\ p4u = [node |-> 0, name |-> RootName] /\ job = NoJob /\ handles = [n \in Ids |-> 0]
  /\ local \subseteq {e.path : e \in Depot} /\ cut \subseteq {1}

LEMMA FreshStart == Fresh => IInv
<1> SUFFICES ASSUME Fresh PROVE IInv
  OBVIOUS
<1>1. InUse = {1} /\ 1 \in Ids /\ 0 \in Ids /\ Ids \subseteq Nat
  BY TableAssumption DEF InUse, Ids, Fresh
<1>2. Told(table, 1, 0, RootName).node = 1
  BY DEF Told
<1>3. KnownNodes = {1} /\ ~Busy
  BY <1>2 DEF KnownNodes, Busy, NoJob, Fresh
<1>4. JobInv
  BY <1>1, <1>3 DEF JobInv, NoJob, Fresh
<1>5. FieldInv
  BY DEF FieldInv, NoJob, Fresh
<1>6. KnownInv
  BY <1>1, <1>2 DEF KnownInv, Told, TreeOK, Fresh
<1>7. ListInv
  BY <1>1, <1>3 DEF ListInv, Fresh
<1>8. OpenInv
  <2>1. HandlesCounted
    BY <1>1 DEF HandlesCounted, Fresh
  <2>2. table.ent[1].bList => Sealed
    BY <1>3 DEF Sealed, Fresh
  <2> QED
    BY <1>1, <2>1, <2>2 DEF OpenInv, Fresh
<1>9. FdsInv
  <2>1. Owners = {}
    BY <1>1 DEF Owners, Fresh
  <2> QED
    BY <2>1 DEF FdsInv, FdsOwned, FdsOnOwnFile, Fresh
<1> QED
  BY <1>1, <1>4, <1>5, <1>6, <1>7, <1>8, <1>9 DEF IInv, Fresh

(* The empty table. *)
LEMMA BlankTable ==
  /\ TreeOK(InitTable) /\ InitTable.id = 1
  /\ \A n \in Ids : InitTable.ent[n].refcnt = 0 /\ InitTable.ent[n].opened_file = 0
<1> DEFINE ent == [i \in Ids |-> Blank]
<1>1. /\ Blank \in Entry /\ Blank.left = 0 /\ Blank.right = 0 /\ Blank.parent = 0
      /\ Blank.opened_file = 0 /\ Blank.refcnt = 0
  BY DEF Blank, Entry, RootName
<1>2. ent \in [Ids -> Entry] /\ \A n \in Ids : ent[n] = Blank
  BY <1>1
<1>3. 1 .. MaxId \subseteq Ids
  BY TableAssumption DEF Ids
<1>4. \A n \in Ids, side \in Sides : ent[n][side] = 0
  BY <1>1, <1>2 DEF Sides
<1>5. \A n \in 1 .. MaxId : ent[n].parent < n
  BY <1>1, <1>2, <1>3
<1>6. InitTable = InitTableOn(ent)
  BY DEF InitTable
<1>7. TreeOK(InitTable) /\ InitTable.id = 1
  <2> HIDE DEF ent
  <2> QED
    BY <1>2, <1>4, <1>5, <1>6, InitTree
<1>8. \A n \in Ids : InitTable.ent[n] = InitEntry(Blank, n)
  BY DEF InitTable, InitTableOn
<1>9. \A n \in Ids : /\ InitEntry(Blank, n).refcnt = 0
                     /\ InitEntry(Blank, n).opened_file = 0
  BY DEF InitEntry, Blank
<1> QED
  BY <1>7, <1>8, <1>9

LEMMA InitInvariant == Init => IInv
<1> SUFFICES ASSUME Init PROVE Fresh
  BY FreshStart
<1>1. 1 \in Ids
  BY TableAssumption DEF Ids
<1> QED
  BY <1>1, BlankTable DEF Init, Fresh

LEMMA NextPreserves == IInv /\ [Next]_vars => IInv' /\ Grows
<1> SUFFICES ASSUME IInv, [Next]_vars PROVE IInv' /\ Grows
  OBVIOUS
<1>1. ASSUME NEW d \in KnownNodes, NEW asked \in Asked, Lookup(d, asked)
      PROVE  IInv' /\ Grows
  BY <1>1, LookupPreserves
<1>2. ASSUME NEW d \in KnownNodes, Readdir(d) PROVE IInv' /\ Grows
  BY <1>2, ReaddirPreserves
<1>3. ASSUME NEW e \in Depot, NEW typeFirst \in BOOLEAN, OutputStat(e, typeFirst)
      PROVE  IInv' /\ Grows
  BY <1>3, OutputStatPreserves
<1>4. CASE OutputLine
  BY <1>4, OutputLinePreserves
<1>5. CASE EndDirs
  BY <1>5, EndDirsPreserves
<1>6. CASE EndFstat
  BY <1>6, EndFstatPreserves
<1>7. ASSUME NEW n \in KnownNodes, Readlink(n) PROVE IInv' /\ Grows
  BY <1>7, ReadlinkPreserves
<1>8. ASSUME NEW n \in KnownNodes, Open(n) PROVE IInv' /\ Grows
  BY <1>8, OpenPreserves
<1>9. ASSUME NEW n \in KnownNodes, Release(n) PROVE IInv' /\ Grows
  BY <1>9, ReleasePreserves
<1>10. CASE UNCHANGED vars
  <2>1. UNCHANGED <<table, local, fds, known, p4u, job, handles, cut>>
    BY <1>10 DEF vars
  <2>2. InUse' = InUse /\ KnownNodes' = KnownNodes /\ Busy' = Busy /\ Owners' = Owners
    BY <2>1 DEF InUse, KnownNodes, Busy, Owners
  <2>3. /\ TreeOK(table)' /\ JobInv' /\ FieldInv' /\ KnownInv' /\ ListInv'
        /\ (cut \subseteq InUse)'
    BY <2>1, <2>2 DEF IInv, JobInv, FieldInv, KnownInv, ListInv
  <2>4. OpenInv' /\ FdsInv'
    BY <2>1, <2>2 DEF IInv, OpenInv, FdsInv, HandlesCounted, FdsOwned, FdsOnOwnFile, Sealed
  <2>5. Grows
    BY <2>1 DEF Grows, SameKeys
  <2> QED
    BY <2>3, <2>4, <2>5 DEF IInv
<1> QED
  BY <1>1, <1>2, <1>3, <1>4, <1>5, <1>6, <1>7, <1>8, <1>9, <1>10 DEF Next

LEMMA Invariance == Spec => []IInv
BY InitInvariant, NextPreserves, PTL DEF Spec

-----------------------------------------------------------------------------
(* A mark is never taken back, and the counts of the entries that are not  *)
(* in use do not change.                                                   *)
Stay == /\ \A n \in InUse : table.ent[n].bList => table'.ent[n].bList
        /\ \A n \in Ids \ InUse : table'.ent[n].refcnt = table.ent[n].refcnt

LEMMA TouchStays ==
  ASSUME NEW n \in InUse, InUse \subseteq Ids, Touched(table, table', n),
         table.ent[n].bList => table'.ent[n].bList
  PROVE  Stay
BY DEF Stay, Touched

LEMMA ClaimStays ==
  ASSUME IInv, OutputLine
  PROVE  Stay
<1>1. /\ Busy /\ Claimed(table, table', p4u'.node, job.dir)
      /\ TreeOK(table) /\ JobInv /\ KnownInv /\ ListInv
  BY OutputLineClaims DEF IInv
<1>2. InUse \subseteq Ids
  BY <1>1, TreeFacts
<1> DEFINE c == p4u'.node
<1>3. ASSUME NEW n \in InUse, table.ent[n].bList
      PROVE  table'.ent[n].bList
  <2>1. CASE n # c
    BY <1>1, <1>2, <1>3, <2>1 DEF Claimed, SameAttrs
  <2>2. CASE n = c
    <3>1. PICK k \in known : k.node = n
      BY <1>1, <1>3 DEF ListInv, KnownNodes
    <3>2. n # 0 /\ table.ent[n].parent = table'.ent[n].parent
      BY <1>1, <1>2, TreeFacts DEF Claimed, SameKeys, InUse
    <3>3. table.ent[n].parent = job.dir /\ n # 1
      BY <1>1, <2>2, <3>2, TreeFacts DEF Claimed
    <3>4. table.ent[job.dir].bList
      BY <1>1, <3>1, <3>3 DEF KnownInv
    <3> QED
      BY <1>1, <3>4 DEF JobInv
  <2> QED
    BY <2>1, <2>2
<1> QED
  BY <1>1, <1>3 DEF Stay, Claimed, SameOpens

(* OPEN and READLINK leave the node marked. *)
LEMMA OpenMarks ==
  ASSUME IInv, NEW n \in KnownNodes, Open(n)
  PROVE  table'.ent[n].bList
<1>1. \/ \E fd \in FreeFds \cup {-1} : table' = FirstOpen(table, n, fd)
      \/ table' = Shared(table, n)
  BY DEF Open, FirstOpen, Shared
<1>2. n \in Ids /\ table \in Table
  BY TreeFacts, KnownInUse DEF IInv
<1>3. \A fd \in FreeFds \cup {-1} : fd \in Int
  BY DepotAssumption DEF FreeFds
<1>4. CASE table' = Shared(table, n)
  BY <1>2, <1>4, ShareTouches
<1>5. CASE table' # Shared(table, n)
  <2>1. PICK fd \in FreeFds \cup {-1} : table' = FirstOpen(table, n, fd)
    BY <1>1, <1>5
  <2>2. fd \in Int
    BY <1>3
  <2> QED
    BY <1>2, <2>1, <2>2, OpenTouches
<1> QED
  BY <1>4, <1>5

LEMMA ReadlinkMarks ==
  ASSUME IInv, NEW n \in KnownNodes, Readlink(n)
  PROVE  table'.ent[n].bList
<1>1. table' = Marked(table, n)
  BY DEF Readlink, Marked
<1>2. n \in Ids /\ table \in Table
  BY TreeFacts, KnownInUse DEF IInv
<1> QED
  BY <1>1, <1>2, MarkedTouches

LEMMA MarksStay ==
  ASSUME IInv, [Next]_vars
  PROVE  Stay
<1>1. /\ TreeOK(table) /\ JobInv /\ KnownInv /\ OpenInv /\ KnownNodes \subseteq InUse
      /\ InUse \subseteq Ids /\ table \in Table
      /\ \A n \in InUse : table.ent[n].refcnt \in Nat
  BY TreeFacts, KnownInUse DEF IInv
<1>2. ASSUME UNCHANGED table PROVE Stay
  BY <1>2 DEF Stay
<1>3. ASSUME NEW n \in KnownNodes, table' = Marked(table, n)
      PROVE  Stay
  <2>1. Touched(table, table', n) /\ table'.ent[n].bList = TRUE
    BY <1>1, <1>3, MarkedTouches
  <2> QED
    BY <1>1, <2>1, TouchStays
<1>4. CASE EndFstat
  <2>1. table' = Marked(table, job.dir) /\ job.dir \in KnownNodes
    BY <1>1, <1>4 DEF EndFstat, EndCommand, Marked, JobInv, Busy
  <2> QED
    BY <1>3, <2>1
<1>5. ASSUME NEW n \in KnownNodes, Readlink(n) PROVE Stay
  BY <1>3, <1>5 DEF Readlink, Marked
<1>6. ASSUME NEW n \in KnownNodes, Open(n) PROVE Stay
  <2>1. \/ \E fd \in FreeFds \cup {-1} : table' = FirstOpen(table, n, fd)
        \/ table' = Shared(table, n)
    BY <1>6 DEF Open, FirstOpen, Shared
  <2>2. n \in InUse /\ n \in Ids /\ \A fd \in FreeFds \cup {-1} : fd \in Int
    BY <1>1, DepotAssumption DEF FreeFds
  <2>3. Touched(table, table', n) /\ table'.ent[n].bList = TRUE
    <3>1. CASE table' = Shared(table, n)
      BY <1>1, <2>2, <3>1, ShareTouches
    <3>2. CASE table' # Shared(table, n)
      <4>1. PICK fd \in FreeFds \cup {-1} : table' = FirstOpen(table, n, fd)
        BY <2>1, <3>2
      <4>2. fd \in Int
        BY <2>2
      <4> QED
        BY <1>1, <2>2, <4>1, <4>2, OpenTouches
    <3> QED
      BY <3>1, <3>2
  <2> QED
    BY <1>1, <2>2, <2>3, TouchStays
<1>7. ASSUME NEW n \in KnownNodes, Release(n) PROVE Stay
  <2>1. table' = Closed(table, n) \/ table' = Left(table, n)
    BY <1>7 DEF Release, Closed, Left
  <2>2. n \in InUse /\ n \in Ids /\ table.ent[n].refcnt > 0
    BY <1>1, <1>7 DEF Release, OpenInv, HandlesCounted
  <2>3. Touched(table, table', n) /\ table'.ent[n].bList = table.ent[n].bList
    BY <1>1, <2>1, <2>2, CloseTouches, LeaveTouches
  <2> QED
    BY <1>1, <2>2, <2>3, TouchStays
<1>8. ASSUME NEW d \in KnownNodes, NEW asked \in Asked, Lookup(d, asked)
      PROVE  UNCHANGED table
  BY <1>8 DEF Lookup, StartListing
<1>9. ASSUME NEW d \in KnownNodes, Readdir(d)
      PROVE  UNCHANGED table
  BY <1>9 DEF Readdir, StartListing
<1>10. ASSUME NEW e \in Depot, NEW typeFirst \in BOOLEAN, OutputStat(e, typeFirst)
       PROVE  UNCHANGED table
  BY <1>10 DEF OutputStat
<1>11. EndDirs \/ UNCHANGED vars => UNCHANGED table
  BY DEF EndDirs, vars
<1> QED
  BY <1>2, <1>4, <1>5, <1>6, <1>7, <1>8, <1>9, <1>10, <1>11, ClaimStays DEF Next

-----------------------------------------------------------------------------
(* The arena of a daemon on new files.                                     *)

(* A call of OutputInfo finds room, whether the model's array has it or    *)
(* not.                                                                    *)
LEMMA LineHasRoom ==
  ASSUME NEW t, TreeOK(t), OnNewFiles(t), NEW node \in {0} \cup 1 .. t.id,
         NEW name \in Names \cup {RootName}, NEW d \in 1 .. t.id, NEW line \in Line
  PROVE  LET s == OutputInfo([t |-> t, node |-> node, name |-> name], d, line)
         IN  RoomLeft(s.t.arena) /\ (s.t.id <= MaxId => OnNewFiles(s.t))
<1> DEFINE s0 == [t |-> t, node |-> node, name |-> name]
           s == OutputInfo(s0, d, line)
<1>1. /\ t \in Table /\ t.id \in 1 .. MaxId /\ MaxId \in Nat /\ name \in Int
      /\ RoomLeft(t.arena) /\ 1 .. t.id \subseteq Ids
  <2>1. t \in Table
    BY DEF TreeOK
  <2>2. t.id \in 1 .. MaxId /\ MaxId \in Nat
    BY <2>1, TableFields, TableAssumption
  <2>3. name \in Int
    BY NamesAreInt
  <2> HIDE DEF s
  <2> QED
    BY <2>1, <2>2, <2>3 DEF OnNewFiles, Ids
<1>2. CASE line.tag = "dir"
  <2>1. line.val \in Int
    BY <1>2, LineKinds, NamesAreInt
  <2> DEFINE c == Claim([t |-> t, node |-> node, name |-> line.val], d, line.val, TRUE)
  <2>2. [s0 EXCEPT !.name = line.val] = [t |-> t, node |-> node, name |-> line.val]
    OBVIOUS
  <2>3. s = Claim([s0 EXCEPT !.name = line.val], d, line.val, TRUE)
    <3> HIDE DEF s0
    <3> QED
      BY <1>2 DEF OutputInfo
  <2>4. s = c
    BY <2>2, <2>3
  <2>5. RoomLeft(c.t.arena) /\ (c.t.id <= MaxId => OnNewFiles(c.t))
    BY <2>1, ClaimHasRoom
  <2> HIDE DEF c, s
  <2> QED
    BY <2>4, <2>5 DEF s
<1>3. CASE line.tag = "depotFile"
  <2>1. s.t = t
    BY <1>3 DEF OutputInfo
  <2> HIDE DEF s
  <2> QED
    BY <1>1, <2>1 DEF s
<1>4. CASE line.tag \in FieldTags
  <2> DEFINE k == Claim([t |-> t, node |-> node, name |-> name], d, name, FALSE)
             c == IF node = 0 THEN k ELSE s0
  <2>1. s = SetField(c, line)
    BY <1>4 DEF OutputInfo, FieldTags
  <2>2. /\ RoomLeft(c.t.arena)
        /\ c.t.id <= MaxId => OnNewFiles(c.t)
        /\ c.t.id <= MaxId => /\ c = [t |-> c.t, node |-> c.node, name |-> name]
                              /\ c.t \in Table /\ c.node \in Ids
    <3>1. CASE node = 0
      <4>1. c = k
        BY <3>1
      <4>2. RoomLeft(k.t.arena) /\ (k.t.id <= MaxId => OnNewFiles(k.t))
        BY <1>1, ClaimHasRoom
      <4>3. ASSUME k.t.id <= MaxId
            PROVE  k = [t |-> k.t, node |-> k.node, name |-> name] /\ Claimed(t, k.t, k.node, d)
        BY <1>1, <4>3, ClaimKeeps
      <4> HIDE DEF k, c
      <4>4. ASSUME k.t.id <= MaxId PROVE k.t \in Table /\ k.node \in Ids
        BY <4>3, <4>4, TableFields, TableAssumption DEF Claimed, TreeOK, Ids
      <4> QED
        BY <4>1, <4>2, <4>3, <4>4
    <3>2. CASE node # 0
      <4>1. c = s0
        BY <3>2
      <4> HIDE DEF c
      <4> QED
        BY <1>1, <3>2, <4>1
    <3> QED
      BY <3>1, <3>2
  <2> HIDE DEF c, k
  <2>3. SetField(c, line).t.arena = c.t.arena /\ SetField(c, line).t.id = c.t.id
    BY DEF SetField
  <2>4. ASSUME c.t.id <= MaxId PROVE NewEntries(s.t)
    <3>1. NewEntries(c.t) /\ c.t \in Table /\ c.node \in Ids
          /\ c = [t |-> c.t, node |-> c.node, name |-> name]
      BY <2>2, <2>4 DEF OnNewFiles
    <3>2. CASE c.node = 0
      <4>1. s = c
        BY <2>1, <3>2 DEF SetField
      <4> HIDE DEF s
      <4> QED
        BY <3>1, <4>1 DEF s
    <3>3. CASE c.node # 0
      <4> DEFINE v == IF line.tag = "size" THEN WithSize(c.t, c.node, line.val)
                      ELSE WithSym(c.t, c.node, line.val)
      <4>1. s.t = v
        <5>1. SetField(c, line) = SetField([t |-> c.t, node |-> c.node, name |-> name], line)
          BY <3>1
        <5>2. SetField([t |-> c.t, node |-> c.node, name |-> name], line) =
                [t |-> v, node |-> c.node, name |-> name]
          BY <3>3, FieldTable
        <5> HIDE DEF v, s
        <5> QED
          BY <2>1, <5>1, <5>2 DEF s
      <4>2. v.id = c.t.id /\ SameShape(c.t, v)
        <5>1. CASE line.tag = "size"
          <6>1. line.val \in Nat
            BY <5>1, LineKinds
          <6> QED
            BY <3>1, <5>1, <6>1, SizeKeeps
        <5>2. CASE line.tag = "bSym"
          <6>1. line.val \in BOOLEAN
            BY <5>2, LineKinds
          <6> QED
            BY <3>1, <5>2, <6>1, SymKeeps
        <5> QED
          BY <1>4, <5>1, <5>2 DEF FieldTags
      <4> HIDE DEF v
      <4>3. NewEntries(v)
        BY <3>1, <4>2 DEF NewEntries, SameShape
      <4> HIDE DEF s
      <4> QED
        BY <4>1, <4>3 DEF s
    <3> QED
      BY <3>2, <3>3
  <2> HIDE DEF s
  <2> QED
    BY <2>1, <2>2, <2>3, <2>4 DEF s, OnNewFiles
<1> QED
  BY <1>2, <1>3, <1>4, LineKinds DEF FieldTags

LEMMA NextLineHasRoom ==
  ASSUME IInv, OnNewFiles(table), job.lines # <<>>
  PROVE  RoomLeft(NextLine.t.arena) /\ (NextLine.t.id <= MaxId => OnNewFiles(NextLine.t))
<1>1. TreeOK(table) /\ JobInv /\ FieldInv /\ KnownInv /\ Busy
  BY DEF IInv, JobInv, NoJob
<1>2. job.dir \in 1 .. table.id /\ p4u.node \in {0} \cup 1 .. table.id
      /\ p4u.name \in Names \cup {RootName}
  BY <1>1, KnownInUse DEF JobInv, FieldInv, InUse
<1>3. Head(job.lines) \in Line
  <2>1. job.lines \in Seq(Line)
    BY <1>1 DEF JobInv
  <2> QED
    BY <2>1
<1> QED
  BY <1>1, <1>2, <1>3, LineHasRoom DEF NextLine

LEMMA NewFilesGoOn ==
  ASSUME IInv, OnNewFiles(table)
  PROVE  ~Stuck
BY NextLineHasRoom DEF Stuck, RoomLeft

LEMMA TouchOnNewFiles ==
  ASSUME NEW t, NEW u, NEW n \in Ids, Touched(t, u, n), OnNewFiles(t)
  PROVE  OnNewFiles(u)
<1>1. u.id = t.id /\ u.arena = t.arena /\ \A m \in Ids : u.ent[m].name = t.ent[m].name
  BY DEF Touched
<1> QED
  BY <1>1 DEF OnNewFiles, NewEntries

LEMMA NewFilesStay ==
  ASSUME IInv, OnNewFiles(table), [Next]_vars
  PROVE  OnNewFiles(table')
<1>1. /\ TreeOK(table) /\ JobInv /\ KnownInv /\ OpenInv /\ KnownNodes \subseteq InUse
      /\ InUse \subseteq Ids /\ table \in Table
      /\ \A n \in InUse : table.ent[n].refcnt \in Nat
  BY TreeFacts, KnownInUse DEF IInv
<1>2. ASSUME UNCHANGED table PROVE OnNewFiles(table')
  BY <1>2
<1>3. ASSUME NEW n \in KnownNodes, table' = Marked(table, n)
      PROVE  OnNewFiles(table')
  <2>1. n \in Ids /\ Touched(table, table', n)
    BY <1>1, <1>3, MarkedTouches
  <2> QED
    BY <2>1, TouchOnNewFiles
<1>4. CASE EndFstat
  <2>1. table' = Marked(table, job.dir) /\ job.dir \in KnownNodes
    BY <1>1, <1>4 DEF EndFstat, EndCommand, Marked, JobInv, Busy
  <2> QED
    BY <1>3, <2>1
<1>5. ASSUME NEW n \in KnownNodes, Readlink(n) PROVE OnNewFiles(table')
  BY <1>3, <1>5 DEF Readlink, Marked
<1>6. ASSUME NEW n \in KnownNodes, Open(n) PROVE OnNewFiles(table')
  <2>1. \/ \E fd \in FreeFds \cup {-1} : table' = FirstOpen(table, n, fd)
        \/ table' = Shared(table, n)
    BY <1>6 DEF Open, FirstOpen, Shared
  <2>2. n \in InUse /\ n \in Ids /\ \A fd \in FreeFds \cup {-1} : fd \in Int
    BY <1>1, DepotAssumption DEF FreeFds
  <2>3. Touched(table, table', n)
    <3>1. CASE table' = Shared(table, n)
      BY <1>1, <2>2, <3>1, ShareTouches
    <3>2. CASE table' # Shared(table, n)
      <4>1. PICK fd \in FreeFds \cup {-1} : table' = FirstOpen(table, n, fd)
        BY <2>1, <3>2
      <4>2. fd \in Int
        BY <2>2
      <4> QED
        BY <1>1, <2>2, <4>1, <4>2, OpenTouches
    <3> QED
      BY <3>1, <3>2
  <2> QED
    BY <2>2, <2>3, TouchOnNewFiles
<1>7. ASSUME NEW n \in KnownNodes, Release(n) PROVE OnNewFiles(table')
  <2>1. table' = Closed(table, n) \/ table' = Left(table, n)
    BY <1>7 DEF Release, Closed, Left
  <2>2. n \in InUse /\ n \in Ids /\ table.ent[n].refcnt > 0
    BY <1>1, <1>7 DEF Release, OpenInv, HandlesCounted
  <2>3. Touched(table, table', n)
    BY <1>1, <2>1, <2>2, CloseTouches, LeaveTouches
  <2> QED
    BY <2>2, <2>3, TouchOnNewFiles
<1>8. ASSUME NEW d \in KnownNodes, NEW asked \in Asked, Lookup(d, asked)
      PROVE  UNCHANGED table
  BY <1>8 DEF Lookup, StartListing
<1>9. ASSUME NEW d \in KnownNodes, Readdir(d)
      PROVE  UNCHANGED table
  BY <1>9 DEF Readdir, StartListing
<1>10. ASSUME NEW e \in Depot, NEW typeFirst \in BOOLEAN, OutputStat(e, typeFirst)
       PROVE  UNCHANGED table
  BY <1>10 DEF OutputStat
<1>11. EndDirs \/ UNCHANGED vars => UNCHANGED table
  BY DEF EndDirs, vars
<1>12. CASE OutputLine
  <2>1. job.lines # <<>> /\ table' = NextLine.t /\ NextLine.t.id <= MaxId
    BY <1>12 DEF OutputLine
  <2> QED
    BY <2>1, NextLineHasRoom
<1> QED
  BY <1>2, <1>4, <1>5, <1>6, <1>7, <1>8, <1>9, <1>10, <1>11, <1>12 DEF Next

-----------------------------------------------------------------------------
(* What the invariant says of the runs' properties.                        *)

LEMMA InvTypes == IInv => TypeOK
<1> SUFFICES ASSUME IInv PROVE TypeOK
  OBVIOUS
<1>1. TreeOK(table) /\ JobInv /\ FieldInv /\ KnownInv /\ OpenInv /\ FdsInv /\ cut \subseteq InUse
  BY DEF IInv
<1>2. /\ table.id \in Ids /\ table.total \in Nat /\ table.ent \in [Ids -> Entry]
      /\ table.arena \in Arena /\ KnownNodes \subseteq InUse
  BY <1>1, TreeFacts, TableFields, KnownInUse, TableAssumption DEF Ids
<1>3. /\ job.cmd \in {"none", "dirs", "fstat"} /\ job.dir \in {0} \cup InUse
      /\ job.todo \subseteq Depot /\ Len(job.lines) < 4 /\ job.want \subseteq HeardNames
  <2>1. job.dir \in {0} \cup InUse
    <3>1. CASE Busy
      BY <1>1, <1>2, <3>1 DEF JobInv
    <3>2. CASE ~Busy
      BY <1>1, <3>2 DEF JobInv, NoJob
    <3> QED
      BY <3>1, <3>2
  <2> QED
    BY <1>1, <2>1 DEF JobInv
<1>4. p4u.node \in {0} \cup InUse /\ p4u.name \in Names \cup {RootName}
  BY <1>1 DEF FieldInv
<1>5. /\ local \subseteq {e.path : e \in Depot} /\ DOMAIN fds \subseteq 3 .. 2 + MaxHandles
      /\ \A f \in DOMAIN fds : fds[f] \in local
  BY <1>1 DEF FdsInv
<1>6. handles \in [Ids -> Nat]
  BY <1>1 DEF OpenInv
<1> QED
  BY <1>1, <1>2, <1>3, <1>4, <1>5, <1>6 DEF TypeOK

LEMMA InvFindable == IInv => EveryNodeFindable
<1> SUFFICES ASSUME IInv, NEW n \in InUse \ {1}
             PROVE  FindPath(table, table.ent[n].parent, table.ent[n].name) = n
  BY DEF EveryNodeFindable
<1>1. TreeOK(table)
  BY DEF IInv
<1>2. n \in 1 .. table.id /\ table.ent[n].parent \in Int /\ table.ent[n].name \in Int
  BY <1>1, TreeFacts DEF InUse
<1> QED
  BY <1>1, <1>2, FindPathFinds

LEMMA InvListing == IInv => ListingExact
<1> SUFFICES ASSUME IInv, NEW d \in InUse
             PROVE  /\ IsInjective(Children(table, d))
                    /\ ToSet(Children(table, d)) = {n \in InUse : table.ent[n].parent = d}
  BY DEF ListingExact
<1>1. TreeOK(table)
  BY DEF IInv
<1>2. d \in Int
  BY <1>1, TreeFacts
<1> QED
  BY <1>1, <1>2, ChildrenExact DEF InUse

LEMMA InvTold == IInv => ToldStaysTrue
<1> SUFFICES ASSUME IInv, NEW k \in known
             PROVE  /\ FindPath(table, k.parent, k.name) = k.node
                    /\ k = Told(table, k.node, k.parent, k.name)
  BY DEF ToldStaysTrue
<1>1. TreeOK(table) /\ KnownInv
  BY DEF IInv
<1>2. /\ k.node \in InUse /\ k = Told(table, k.node, k.parent, k.name)
      /\ table.ent[k.node].parent = k.parent /\ table.ent[k.node].name = k.name
  BY <1>1 DEF KnownInv
<1>3. k.node \in 1 .. table.id /\ k.parent \in Int /\ k.name \in Int
  BY <1>1, <1>2, TreeFacts DEF InUse
<1>4. FindPath(table, k.parent, k.name) = k.node
  BY <1>1, <1>2, <1>3, FindPathFinds
<1> QED
  BY <1>2, <1>4

-----------------------------------------------------------------------------
(* The abstract map of node numbers.                                       *)

NodeFn(t) == [n \in 1 .. t.id |-> <<t.ent[n].parent, t.ent[n].name>>]
KnownMap(ks) == {<<k.node, k.parent, k.name>> : k \in ks}

LEMMA InitIsMap == Init => Nodes!Init
<1> SUFFICES ASSUME Init PROVE Nodes!Init
  OBVIOUS
<1>1. IInv
  BY InitInvariant
<1>2. table.id = 1
  BY DEF Init, InitTable, InitTableOn
<1>3. InUse = {1} /\ table.ent[1].parent = 0 /\ table.ent[1].name = 0
  BY <1>1, <1>2 DEF IInv, TreeOK, InUse, RootName
<1>4. [n \in InUse |-> <<table.ent[n].parent, table.ent[n].name>>] = [i \in {1} |-> <<0, 0>>]
  BY <1>3
<1>5. {<<k.node, k.parent, k.name>> : k \in known} = {<<1, 0, 0>>}
  <2> DEFINE k0 == Told(InitTable, 1, 0, RootName)
  <2>1. k0.node = 1 /\ k0.parent = 0 /\ k0.name = 0
    BY DEF Told, RootName
  <2>2. known = {k0}
    BY DEF Init
  <2> HIDE DEF k0
  <2> QED
    BY <2>1, <2>2
<1> QED
  BY <1>4, <1>5 DEF Nodes!Init

LEMMA TableIsMap ==
  ASSUME NEW t, TreeOK(t)
  PROVE  /\ DOMAIN NodeFn(t) = 1 .. Cardinality(DOMAIN NodeFn(t))
         /\ Nodes!Distinct(NodeFn(t))
<1>1. t.id \in Nat
  BY TableFields, TableAssumption DEF TreeOK
<1>2. DOMAIN NodeFn(t) = 1 .. t.id /\ Cardinality(1 .. t.id) = t.id
  BY <1>1, FS_Interval DEF NodeFn
<1>3. Nodes!Distinct(NodeFn(t))
  <2> SUFFICES ASSUME NEW i \in 1 .. t.id, NEW j \in 1 .. t.id, NodeFn(t)[i] = NodeFn(t)[j]
               PROVE  i = j
    BY <1>2 DEF Nodes!Distinct
  <2>1. t.ent[i].parent = t.ent[j].parent /\ t.ent[i].name = t.ent[j].name
    BY DEF NodeFn
  <2> QED
    BY <2>1, KeysDistinct
<1> QED
  BY <1>2, <1>3

LEMMA SameCardinality ==
  ASSUME NEW S
  PROVE  Nodes!Cardinality(S) = Cardinality(S)
BY DEF Nodes!Cardinality, Cardinality

LEMMA StepIsMap == IInv /\ [Next]_vars => [Nodes!Next]_Nodes!vars
<1> SUFFICES ASSUME IInv, [Next]_vars PROVE Nodes!Next
  OBVIOUS
<1>1. IInv' /\ Grows
  BY NextPreserves
<1>2. TreeOK(table) /\ TreeOK(table')
  BY <1>1 DEF IInv
<1>3. /\ table'.id \in {table.id, table.id + 1} /\ SameKeys(table, table', table.id)
      /\ known' = known \/ Handed
  BY <1>1 DEF Grows
<1>4. table.id \in Nat /\ table'.id \in Nat
  BY <1>2, TableFields, TableAssumption DEF TreeOK
<1> DEFINE f == NodeFn(table)
           g == NodeFn(table')
           a == KnownMap(known)
           b == KnownMap(known')
<1>5. /\ DOMAIN g = 1 .. Cardinality(DOMAIN g)
      /\ DOMAIN f \subseteq DOMAIN g
      /\ \A i \in DOMAIN f : g[i] = f[i]
      /\ Nodes!Distinct(g)
  <2>1. DOMAIN g = 1 .. Cardinality(DOMAIN g) /\ Nodes!Distinct(g)
    BY <1>2, TableIsMap
  <2>2. DOMAIN f = 1 .. table.id /\ DOMAIN g = 1 .. table'.id
    BY DEF NodeFn
  <2>3. 1 .. table.id \subseteq 1 .. table'.id
    BY <1>3, <1>4
  <2>4. \A i \in 1 .. table.id : g[i] = f[i]
    BY <1>3, <2>3 DEF NodeFn, SameKeys
  <2> QED
    BY <2>1, <2>2, <2>3, <2>4
<1>6. b = a \/ \E i \in DOMAIN g : /\ \E k \in a : k[1] = g[i][1]
                                   /\ b = a \cup {<<i, g[i][1], g[i][2]>>}
  <2>1. CASE known' = known
    BY <2>1
  <2>2. CASE Handed
    <3>1. PICK n \in InUse' : /\ table'.ent[n].parent \in KnownNodes
                              /\ known' = known \cup {Told(table', n, table'.ent[n].parent,
                                                           table'.ent[n].name)}
      BY <2>2 DEF Handed
    <3> DEFINE d == table'.ent[n].parent
               m == table'.ent[n].name
               k == Told(table', n, d, m)
    <3>2. k.node = n /\ k.parent = d /\ k.name = m
      BY DEF Told
    <3>3. n \in DOMAIN g /\ g[n] = <<d, m>>
      BY <3>1 DEF NodeFn, InUse
    <3>4. b = a \cup {<<n, d, m>>}
      <4> HIDE DEF k
      <4>1. known' = known \cup {k}
        BY <3>1 DEF k
      <4> QED
        BY <4>1, <3>2 DEF KnownMap
    <3>5. \E l \in a : l[1] = d
      <4>1. PICK l \in known : l.node = d
        BY <3>1 DEF KnownNodes
      <4>2. <<l.node, l.parent, l.name>> \in a
        BY DEF KnownMap
      <4> QED
        BY <4>1, <4>2
    <3> HIDE DEF d, m, g, a, b
    <3> QED
      BY <3>3, <3>4, <3>5
  <2> QED
    BY <1>3, <2>1, <2>2
<1>7. DOMAIN g = 1 .. Nodes!Cardinality(DOMAIN g)
  BY <1>5, SameCardinality
<1> QED
  BY <1>5, <1>6, <1>7 DEF Nodes!Next, Nodes!Grow, Nodes!Hand, NodeFn, KnownMap, InUse

-----------------------------------------------------------------------------
(* The theorems.                                                           *)

(* The state has its type in every state: in particular the kernel knows   *)
(* only numbers in use and every descriptor is on a synced file.           *)
THEOREM TypeCorrect == Spec => []TypeOK
BY Invariance, InvTypes, PTL

(* The part of the array that is mapped holds every number in use:         *)
(* new_inode() grows it in time.                                           *)
THEOREM EntriesStayMapped == Spec => []EntriesMapped
<1>1. IInv => EntriesMapped
  BY DEF IInv, TreeOK, EntriesMapped
<1> QED
  BY Invariance, <1>1, PTL

(* Whatever is inserted in whatever order, and although OutputInfo() fills *)
(* the newest entry in again, a search for the parent and the name of an   *)
(* entry ends at that entry.                                               *)
THEOREM NothingIsLost == Spec => []EveryNodeFindable
BY Invariance, InvFindable, PTL

(* READDIR's walk, which prunes by the order of the parents, meets every   *)
(* child of a directory, nothing else and nothing twice.                   *)
THEOREM ListingsAreExact == Spec => []ListingExact
BY Invariance, InvListing, PTL

(* The children of a listed directory keep their places, so the offsets    *)
(* the kernel resumes READDIR at stay right however the tree grows.        *)
THEOREM ListingsAreStable == Spec => ListingStable
<1>1. IInv /\ [Next]_vars =>
        [\A d \in InUse : table.ent[d].bDir /\ table.ent[d].bList =>
           Children(table', d) = Children(table, d)]_vars
  BY NextPreserves DEF Grows
<1> QED
  BY <1>1, Invariance, PTL DEF Spec, ListingStable

(* What a LOOKUP reply told the kernel stays true for as long as it may    *)
(* cache it, which is for ever.                                            *)
THEOREM CacheStaysTrue == Spec => []ToldStaysTrue
BY Invariance, InvTold, PTL

(* On new files no listing is stopped by the arena and no name is put over *)
(* another one: what holds until a daemon is stuck holds for ever.         *)
THEOREM NeverGetsStuck == Spec => []NeverStuck
<1>1. Init => OnNewFiles(table)
  BY InitOnNewFiles DEF Init
<1>2. IInv /\ OnNewFiles(table) /\ [Next]_vars => OnNewFiles(table)'
  BY NewFilesStay
<1>3. IInv /\ OnNewFiles(table) => NeverStuck
  BY NewFilesGoOn DEF NeverStuck
<1> QED
  BY <1>1, <1>2, <1>3, Invariance, PTL DEF Spec

(* refcnt counts the open files of the kernel, and opened_file is set      *)
(* exactly while there are some.                                           *)
THEOREM HandlesAreCounted == Spec => []HandlesCounted
<1>1. IInv => HandlesCounted
  BY DEF IInv, OpenInv
<1> QED
  BY Invariance, <1>1, PTL

(* No descriptor is leaked, closed too early or shared by two nodes.       *)
THEOREM FdsAreOwned == Spec => []FdsOwned
<1>1. IInv => FdsOwned
  BY DEF IInv, FdsInv
<1> QED
  BY Invariance, <1>1, PTL

(* READ reads the workspace file of the node that was opened.              *)
THEOREM FdsStayOnFile == Spec => []FdsOnOwnFile
<1>1. IInv => FdsOnOwnFile
  BY DEF IInv, FdsInv
<1> QED
  BY Invariance, <1>1, PTL

(* The handlers implement the map of node numbers that the kernel relies   *)
(* on: a number stands for one parent and name for ever, and is handed out *)
(* only for a child of a directory the kernel knew.                        *)
THEOREM ImplementsMap == Spec => ImplementsNodeMap
BY InitIsMap, StepIsMap, Invariance, PTL DEF Spec, ImplementsNodeMap, Nodes!Spec
=============================================================================
