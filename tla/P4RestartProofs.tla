--------------------------- MODULE P4RestartProofs ---------------------------
(***************************************************************************)
(* Proofs about P4Restart: the invariant of P4Fs holds through deaths and  *)
(* restarts, on kept and on removed files; and what a listed directory     *)
(* shows is what the p4 server has in it, with and without restarts.       *)
(***************************************************************************)
EXTENDS P4Restart, P4FsProofs, SequenceTheorems

(* A table kept from a dead run has the root alone in use.  The entries    *)
(* the dead run had open keep their counts; they are never used again,     *)
(* because nothing is known but the root before the root is marked, and a  *)
(* marked root is not listed again.                                        *)
LEMMA KeptTable ==
  ASSUME IInv
  PROVE  LET t == InitTableOn(table.ent)
         IN  /\ TreeOK(t) /\ t.id = 1
             /\ Told(t, 1, 0, RootName) = Told(InitTable, 1, 0, RootName)
             /\ t.ent[1].opened_file = 0 /\ t.ent[1].refcnt = 0
             /\ \/ t.ent[1].bList
                \/ \A n \in Ids : n > 1 => t.ent[n].refcnt = 0 /\ t.ent[n].opened_file = 0
<1> DEFINE t == InitTableOn(table.ent)
<1>1. TreeOK(table) /\ KnownInv /\ ListInv /\ OpenInv
  BY DEF IInv
<1>2. /\ table.ent \in [Ids -> Entry] /\ 1 \in InUse /\ InUse \subseteq Ids /\ Ids \subseteq Nat
      /\ 1 \in Ids /\ InUse = 1 .. table.id /\ table.id \in Nat
  BY <1>1, TreeFacts, TableAssumption DEF Ids, InUse
<1>3. /\ TreeOK(t) /\ t.id = 1
      /\ t.ent[1].bDir = TRUE /\ t.ent[1].bSym = table.ent[1].bSym
      /\ t.ent[1].bList = table.ent[1].bList /\ t.ent[1].size = table.ent[1].size
  <2>1. /\ \A n \in Ids, side \in Sides :
             table.ent[n][side] # 0 => table.ent[n][side] \in n + 1 .. MaxId
        /\ \A n \in 1 .. MaxId : table.ent[n].parent < n
    BY <1>1 DEF TreeOK, Acyclic, ParentsFirst
  <2> QED
    BY <1>2, <2>1, InitTree
<1>4. \A n \in Ids : t.ent[n] = InitEntry(table.ent[n], n)
  BY DEF InitTableOn
<1>5. table.ent[1].refcnt = 0 /\ table.ent[1].opened_file = 0
  <2>1. ~(handles[1] > 0)
    BY <1>1, <1>2, RootIsDir DEF OpenInv
  <2>2. handles[1] \in Nat /\ table.ent[1].refcnt = handles[1]
        /\ (table.ent[1].opened_file # 0 <=> handles[1] > 0)
    BY <1>1, <1>2 DEF OpenInv, HandlesCounted
  <2> QED
    BY <2>1, <2>2
<1>6. t.ent[1].opened_file = 0 /\ t.ent[1].refcnt = 0
  <2>1. ResetFrom(t.ent[1], table.ent[1], RootName, 0, TRUE)
    BY <1>2, <1>4, RootEntry
  <2> QED
    BY <1>5, <2>1 DEF ResetFrom
<1>7. Told(t, 1, 0, RootName) = Told(InitTable, 1, 0, RootName)
  <2> DEFINE k == Told(InitTable, 1, 0, RootName)
  <2>1. k.node = 1 /\ k.parent = 0 /\ k.name = RootName
    BY DEF Told
  <2>2. k = Told(table, k.node, k.parent, k.name)
    BY <1>1 DEF KnownInv
  <2>3. k = Told(table, 1, 0, RootName)
    <3> HIDE DEF k
    <3> QED
      BY <2>1, <2>2
  <2>4. table.ent[1].bDir
    BY <1>1, RootIsDir
  <2>5. table.ent[1].bDir = TRUE
    BY <1>1, <1>2, <2>4, TreeFacts
  <2>6. Told(t, 1, 0, RootName) = Told(table, 1, 0, RootName)
    BY <1>3, <2>5 DEF Told
  <2> QED
    BY <2>3, <2>6
<1>8. ASSUME ~table.ent[1].bList, NEW n \in Ids, n > 1
      PROVE  t.ent[n].refcnt = 0 /\ t.ent[n].opened_file = 0
  <2>1. KnownNodes = {1} /\ ~Sealed
    BY <1>1, <1>8 DEF ListInv, Sealed
  <2>2. table.ent[n].refcnt = 0 /\ table.ent[n].opened_file = 0
    <3>1. CASE n \in InUse
      <4>1. ~(handles[n] > 0) /\ handles[n] \in Nat
        BY <1>1, <1>8, <2>1, <3>1 DEF OpenInv
      <4> QED
        BY <1>1, <3>1, <4>1 DEF OpenInv, HandlesCounted
    <3>2. CASE n \notin InUse
      <4>1. n > table.id
        BY <1>2, <1>8, <3>2
      <4> QED
        BY <1>1, <2>1, <4>1 DEF OpenInv
    <3> QED
      BY <3>1, <3>2
  <2>3. Blank.refcnt = 0 /\ Blank.opened_file = 0
    BY DEF Blank
  <2>4. t.ent[n] \in {Blank, table.ent[n]}
    <3>1. n # 1
      BY <1>2, <1>8
    <3>2. InitEntry(table.ent[n], n) \in {Blank, table.ent[n]}
      BY <3>1 DEF InitEntry
    <3> QED
      BY <1>4, <1>8, <3>2
  <2> QED
    BY <2>2, <2>3, <2>4
<1> HIDE DEF t
<1> QED
  BY <1>3, <1>6, <1>7, <1>8 DEF t

LEMMA StartFresh ==
  ASSUME IInv, RestartKept \/ RestartRemoved
  PROVE  Fresh'
<1>1. /\ fds' = [f \in {} |-> <<>>] /\ known' = {Told(InitTable, 1, 0, RootName)}
      /\ p4u' = [node |-> 0, name |-> RootName] /\ job' = NoJob
      /\ handles' = [n \in Ids |-> 0] /\ cut' \subseteq {1}
  BY DEF RestartKept, RestartRemoved, Start
<1>2. CASE RestartKept
  <2>1. table' = InitTableOn(table.ent) /\ local' = local
    BY <1>2 DEF RestartKept, Start
  <2>2. local \subseteq {e.path : e \in Depot}
    BY DEF IInv, FdsInv
  <2> QED
    BY <1>1, <2>1, <2>2, KeptTable DEF Fresh
<1>3. CASE RestartRemoved
  <2>1. table' = InitTable /\ local' = {}
    BY <1>3 DEF RestartRemoved, Start, InitTable
  <2>2. 1 \in Ids
    BY TableAssumption DEF Ids
  <2> QED
    BY <1>1, <2>1, <2>2, BlankTable DEF Fresh
<1> QED
  BY <1>2, <1>3

LEMMA InvarianceR == SpecR => []IInv
<1>1. InitR => IInv
  BY InitInvariant DEF InitR
<1>2. IInv /\ [NextR]_rvars => IInv' \/ Fresh'
  <2> SUFFICES ASSUME IInv, [NextR]_rvars PROVE IInv' \/ Fresh'
    OBVIOUS
  <2>1. CASE Next
    BY <2>1, NextPreserves
  <2>2. CASE UNCHANGED rvars
    <3>1. UNCHANGED vars
      BY <2>2 DEF rvars, vars
    <3> QED
      BY <3>1, NextPreserves
  <2>3. CASE RestartKept \/ RestartRemoved
    BY <2>3, StartFresh
  <2> QED
    BY <2>1, <2>2, <2>3 DEF NextR
<1> QED
  BY <1>1, <1>2, FreshStart, PTL DEF SpecR

(* A daemon that was killed at any step and started again on what it left  *)
(* has a state of the right type.                                          *)
THEOREM RestartTypeCorrect == SpecR => []TypeOK
BY InvarianceR, InvTypes, PTL

(* The counts of a dead run are not taken over by its successor.           *)
THEOREM RestartHandlesCounted == SpecR => []HandlesCounted
<1>1. IInv => HandlesCounted
  BY DEF IInv, OpenInv
<1> QED
  BY InvarianceR, <1>1, PTL

(* Nor are its descriptors.                                                *)
THEOREM RestartFdsOwned == SpecR => []FdsOwned
<1>1. IInv => FdsOwned
  BY DEF IInv, FdsInv
<1> QED
  BY InvarianceR, <1>1, PTL

(* Every descriptor is on the workspace file of its node, in every run.    *)
THEOREM RestartFdsOnFile == SpecR => []FdsOnOwnFile
<1>1. IInv => FdsOnOwnFile
  BY DEF IInv, FdsInv
<1> QED
  BY InvarianceR, <1>1, PTL

(* A daemon on removed files is one on new files. *)
LEMMA NewFilesR == SpecR => [](kept = FALSE => OnNewFiles(table))
<1> DEFINE Room == kept = FALSE => OnNewFiles(table)
<1>1. InitR => Room
  BY InitOnNewFiles DEF InitR, Init
<1>2. IInv /\ Room /\ [NextR]_rvars => Room'
  <2> SUFFICES ASSUME IInv, Room, [NextR]_rvars, kept' = FALSE PROVE OnNewFiles(table')
    OBVIOUS
  <2>1. CASE Next /\ UNCHANGED <<restarts, kept>>
    BY <2>1, NewFilesStay
  <2>2. CASE UNCHANGED rvars
    BY <2>2 DEF rvars
  <2>3. CASE RestartKept
    BY <2>3 DEF RestartKept
  <2>4. CASE RestartRemoved
    <3>1. table' = InitTable
      BY <2>4 DEF RestartRemoved, Start, InitTable
    <3> QED
      BY <3>1, InitOnNewFiles
  <2> QED
    BY <2>1, <2>2, <2>3, <2>4 DEF NextR
<1> HIDE DEF Room
<1>3. SpecR => []Room
  BY InvarianceR, <1>1, <1>2, PTL DEF SpecR
<1> QED
  BY <1>3, PTL DEF Room

LEMMA KeptIsBoolean == SpecR => [](kept \in BOOLEAN)
<1>1. InitR => kept \in BOOLEAN
  BY DEF InitR
<1>2. kept \in BOOLEAN /\ [NextR]_rvars => (kept \in BOOLEAN)'
  BY DEF NextR, RestartKept, RestartRemoved, rvars
<1> QED
  BY <1>1, <1>2, PTL DEF SpecR

(* Only the lengths of dead names can stop a daemon or make it lose a      *)
(* name, and only one that was started on the files of another: on removed *)
(* files, after any deaths, every listing has room for all its names.      *)
THEOREM StuckOnlyOnKept == SpecR => []StuckOnKept
<1>1. IInv /\ kept \in BOOLEAN /\ (kept = FALSE => OnNewFiles(table)) => StuckOnKept
  BY NewFilesGoOn DEF StuckOnKept
<1> QED
  BY InvarianceR, NewFilesR, KeptIsBoolean, <1>1, PTL

(* Of an old entry beyond the root, whose number is handed out again, the  *)
(* length of its name is taken over, and may get a daemon on kept files    *)
(* stuck.  Short of that, which ends the model, nothing of it leads a      *)
(* search or a listing astray, and what a LOOKUP told the kernel of the    *)
(* new mount stays true; on removed files nothing ends it.                 *)
THEOREM RestartTreeSound ==
  SpecR => [](EveryNodeFindable /\ ToldStaysTrue /\ ListingExact /\ StuckOnKept)
BY InvarianceR, InvFindable, InvTold, InvListing, StuckOnlyOnKept, PTL

-----------------------------------------------------------------------------
(* What a listed directory shows: the inductive invariant, on top of the   *)
(* one of P4FsProofs.                                                      *)

In(path) == {e \in Depot : Front(e.path) = path}

(* The entry has the kind and the size of the record. *)
Shows(f, e) ==
  /\ f.bDir <=> e.kind = "dir"
  /\ f.bSym <=> e.kind = "link"
  /\ e.kind # "dir" /\ ~e.gone => f.size = e.size

IsTrue(t, n) == \E e \in Depot : e.path = PathOf(t, n) /\ Shows(t.ent[n], e)
Has(t, d, name) == \E n \in 1 .. t.id : t.ent[n].parent = d /\ t.ent[n].name = name

(* Every entry is true, except the one whose fields are still to come. *)
AwaitsField(n) == job.lines # <<>> /\ Head(job.lines).tag \in FieldTags /\ p4u.node = n
TrueInv == \A n \in InUse \ {1} : IsTrue(table, n) \/ AwaitsField(n)

(* A directory that is marked and was not cut short lacks nothing. *)
ShownInv ==
  \A d \in InUse :
    table.ent[d].bDir /\ table.ent[d].bList /\ d \notin cut =>
      \A e \in In(PathOf(table, d)) : Has(table, d, Last(e.path))

(* Nor does the directory that is listed lack what the server has told,    *)
(* but for the record whose entry is not claimed yet.                      *)
ToldSoFar(e) == e \notin job.todo /\ (e.kind = "dir" \/ job.cmd = "fstat")
Unclaimed(name) ==
  /\ job.lines # <<>>
  /\ \/ Head(job.lines).tag \notin FieldTags /\ Head(job.lines).val = name
     \/ Head(job.lines).tag \in FieldTags /\ p4u.node = 0 /\ p4u.name = name
ListedSoFar ==
  Busy =>
    /\ job.todo \subseteq In(PathOf(table, job.dir))
    /\ job.dir \notin cut =>
         \A e \in In(PathOf(table, job.dir)) :
           ToldSoFar(e) => Has(table, job.dir, Last(e.path)) \/ Unclaimed(Last(e.path))

(* The lines to come are the rest of one record, and the fields that came  *)
(* are in the entry, unless an older entry has the name.                   *)
TypeLine(e) == [tag |-> "bSym", val |-> e.kind = "link"]
SizeLine(e) == [tag |-> "size", val |-> e.size]

Half(d, e, typeFirst, f) ==
  /\ f.parent = d /\ f.name = Last(e.path) /\ ~f.bDir
  /\ IF typeFirst THEN f.bSym <=> e.kind = "link" ELSE f.size = e.size

RestOf(e, typeFirst) ==
  \/ job.lines = Record(e, typeFirst)
  \/ /\ e.kind # "dir" /\ p4u.node = 0 /\ p4u.name = Last(e.path)
     /\ job.lines = Tail(Record(e, typeFirst))
  \/ /\ e.kind # "dir" /\ ~e.gone /\ p4u.name = Last(e.path)
     /\ job.lines = <<IF typeFirst THEN SizeLine(e) ELSE TypeLine(e)>>
     /\ IF p4u.node = 0
        THEN HasOlder(table, job.dir, Last(e.path))
        ELSE Half(job.dir, e, typeFirst, table.ent[p4u.node])
RecordInv ==
  Busy /\ job.lines # <<>> =>
    \E e \in In(PathOf(table, job.dir)), typeFirst \in BOOLEAN : RestOf(e, typeFirst)

TInv ==
  /\ TrueInv
  /\ ShownInv
  /\ ListedSoFar
  /\ RecordInv

-----------------------------------------------------------------------------
(* What steps keep.                                                        *)

LEMMA TrueKept ==
  ASSUME NEW t, TreeOK(t), NEW u, TreeOK(u), SameKeys(t, u, t.id), NEW n \in 1 .. t.id,
         u.ent[n].bDir = t.ent[n].bDir, u.ent[n].bSym = t.ent[n].bSym,
         u.ent[n].size = t.ent[n].size, IsTrue(t, n)
  PROVE  IsTrue(u, n)
<1>1. PathOf(u, n) = PathOf(t, n)
  <2>1. t.id \in 0 .. MaxId /\ n \in 0 .. t.id
    BY TableFields, TableAssumption DEF TreeOK
  <2> QED
    BY <2>1, SamePath DEF TreeOK
<1> QED
  BY <1>1 DEF IsTrue, Shows

(* Paths and keys stay. *)
LEMMA PathsKept ==
  ASSUME IInv, IInv', Grows
  PROVE  /\ InUse \subseteq InUse' /\ 0 \notin InUse' /\ 1 \in InUse
         /\ \A n \in InUse : /\ PathOf(table', n) = PathOf(table, n)
                             /\ table'.ent[n].parent = table.ent[n].parent
                             /\ table'.ent[n].name = table.ent[n].name
         /\ \A d, name : Has(table, d, name) => Has(table', d, name)
<1>1. /\ TreeOK(table) /\ TreeOK(table') /\ SameKeys(table, table', table.id)
      /\ table'.id \in {table.id, table.id + 1}
  BY DEF IInv, Grows
<1>2. table.id \in 1 .. MaxId /\ MaxId \in Nat /\ 1 .. table.id \subseteq 1 .. table'.id
  BY <1>1, TableFields, TableAssumption DEF TreeOK
<1>3. \A n \in InUse : PathOf(table', n) = PathOf(table, n)
  <2>1. table.id \in 0 .. MaxId /\ \A n \in InUse : n \in 0 .. table.id
    BY <1>2 DEF InUse
  <2> QED
    BY <1>1, <2>1, SamePath DEF TreeOK
<1>4. \A n \in InUse : /\ table'.ent[n].parent = table.ent[n].parent
                       /\ table'.ent[n].name = table.ent[n].name
  BY <1>1 DEF SameKeys, InUse
<1>5. \A d, name : Has(table, d, name) => Has(table', d, name)
  BY <1>2, <1>4 DEF Has, InUse
<1>6. InUse \subseteq InUse' /\ 0 \notin InUse' /\ 1 \in InUse
  BY <1>1, <1>2 DEF InUse
<1> QED
  BY <1>3, <1>4, <1>5, <1>6

(* A handler marks a node that is no directory, or none. *)
LEMMA MarkKeeps ==
  ASSUME IInv, IInv', Grows, TInv, Idle, NEW n \in InUse, Touched(table, table', n),
         table'.ent[n].bList => table.ent[n].bList \/ ~table.ent[n].bDir,
         UNCHANGED <<p4u, job, cut>>
  PROVE  TInv'
<1>1. /\ TreeOK(table) /\ TreeOK(table') /\ SameKeys(table, table', table.id)
      /\ InUse' = InUse /\ InUse = 1 .. table.id /\ InUse \subseteq Ids
  BY TreeFacts DEF IInv, Grows, Touched, InUse
<1>2. job.lines = <<>> /\ job.cmd = "none"
  BY DEF Idle, NoJob
<1>3. \A m \in InUse : /\ table'.ent[m].bDir = table.ent[m].bDir
                       /\ table'.ent[m].bSym = table.ent[m].bSym
                       /\ table'.ent[m].size = table.ent[m].size
                       /\ table'.ent[m].bList => table.ent[m].bList \/ ~table.ent[m].bDir
  BY <1>1 DEF Touched
<1>4. TrueInv'
  <2>1. \A m \in InUse \ {1} : IsTrue(table, m)
    BY <1>2 DEF TInv, TrueInv, AwaitsField
  <2>2. \A m \in InUse \ {1} : IsTrue(table', m)
    BY <1>1, <1>3, <2>1, TrueKept
  <2> QED
    BY <1>1, <2>2 DEF TrueInv
<1>5. ShownInv'
  <2> SUFFICES ASSUME NEW d \in InUse, table'.ent[d].bDir, table'.ent[d].bList, d \notin cut,
                      NEW e \in In(PathOf(table', d))
               PROVE  Has(table', d, Last(e.path))
    BY <1>1 DEF ShownInv
  <2>1. PathOf(table', d) = PathOf(table, d)
    BY PathsKept
  <2>2. table.ent[d].bDir /\ table.ent[d].bList
    BY <1>3
  <2>3. Has(table, d, Last(e.path))
    BY <2>1, <2>2 DEF TInv, ShownInv
  <2> QED
    BY <2>3, PathsKept
<1>6. ListedSoFar' /\ RecordInv'
  BY <1>2 DEF ListedSoFar, RecordInv, Busy
<1> QED
  BY <1>4, <1>5, <1>6 DEF TInv

(* A link is no directory: an entry has the kind of its record.             *)
LEMMA LinkIsNoDir ==
  ASSUME IInv, TInv, Idle, NEW n \in KnownNodes, table.ent[n].bSym
  PROVE  ~table.ent[n].bDir
<1>1. n \in InUse /\ n # 1
  BY KnownInUse, RootIsDir DEF IInv
<1>2. IsTrue(table, n)
  BY <1>1 DEF TInv, TrueInv, AwaitsField, Idle, NoJob
<1> QED
  BY <1>2 DEF IsTrue, Shows

LEMMA ReadlinkTruth ==
  ASSUME IInv, IInv', Grows, TInv, NEW n \in KnownNodes, Readlink(n)
  PROVE  TInv'
<1>1. /\ Idle /\ table.ent[n].bSym /\ table' = Marked(table, n)
      /\ UNCHANGED <<p4u, job, cut>>
  BY DEF Readlink, Marked
<1>2. n \in InUse /\ n \in Ids /\ table \in Table
  BY KnownInUse, TreeFacts DEF IInv
<1>3. Touched(table, table', n)
  BY <1>1, <1>2, MarkedTouches
<1> QED
  BY <1>1, <1>2, <1>3, LinkIsNoDir, MarkKeeps

LEMMA OpenTruth ==
  ASSUME IInv, IInv', Grows, TInv, NEW n \in KnownNodes, Open(n)
  PROVE  TInv'
<1>1. Idle /\ ~table.ent[n].bDir /\ UNCHANGED <<p4u, job, cut>>
  BY DEF Open
<1>2. n \in InUse /\ n \in Ids /\ table \in Table
  BY KnownInUse, TreeFacts DEF IInv
<1>3. \/ \E fd \in FreeFds \cup {-1} : table' = FirstOpen(table, n, fd)
      \/ table' = Shared(table, n)
  BY DEF Open, FirstOpen, Shared
<1>4. FreeFds \cup {-1} \subseteq Int
  BY DepotAssumption DEF FreeFds
<1>5. Touched(table, table', n)
  <2>1. ASSUME NEW fd \in FreeFds \cup {-1}, table' = FirstOpen(table, n, fd)
        PROVE  Touched(table, table', n)
    <3>1. fd \in Int
      BY <1>4
    <3> QED
      BY <1>2, <2>1, <3>1, OpenTouches
  <2>2. CASE table' = Shared(table, n)
    BY <1>2, <2>2, ShareTouches
  <2> QED
    BY <1>3, <2>1, <2>2
<1> QED
  BY <1>1, <1>2, <1>5, MarkKeeps

LEMMA ReleaseTruth ==
  ASSUME IInv, IInv', Grows, TInv, NEW n \in KnownNodes, Release(n)
  PROVE  TInv'
<1>1. Idle /\ handles[n] > 0 /\ UNCHANGED <<p4u, job, cut>>
  BY DEF Release
<1>2. n \in InUse /\ n \in Ids /\ table \in Table
  BY KnownInUse, TreeFacts DEF IInv
<1>3. table' = Closed(table, n) \/ table' = Left(table, n)
  BY DEF Release, Closed, Left
<1>4. table.ent[n].refcnt > 0
  BY <1>1, <1>2 DEF IInv, OpenInv, HandlesCounted
<1>5. Touched(table, table', n) /\ table'.ent[n].bList = table.ent[n].bList
  BY <1>2, <1>3, <1>4, CloseTouches, LeaveTouches
<1> QED
  BY <1>1, <1>2, <1>5, MarkKeeps

-----------------------------------------------------------------------------
(* A listing, but for the lines.                                           *)

(* While no line is to come every entry is true, and goes on to be.        *)
LEMMA AllTrue ==
  ASSUME IInv, IInv', Grows, TInv, job.lines = <<>>,
         table'.id = table.id,
         \A m \in InUse : /\ table'.ent[m].bDir = table.ent[m].bDir
                          /\ table'.ent[m].bSym = table.ent[m].bSym
                          /\ table'.ent[m].size = table.ent[m].size
  PROVE  TrueInv'
<1>1. /\ TreeOK(table) /\ TreeOK(table') /\ SameKeys(table, table', table.id)
      /\ InUse' = InUse /\ InUse = 1 .. table.id
  BY DEF IInv, Grows, InUse
<1>2. \A m \in InUse \ {1} : IsTrue(table, m)
  BY DEF TInv, TrueInv, AwaitsField
<1>3. \A m \in InUse \ {1} : IsTrue(table', m)
  BY <1>1, <1>2, TrueKept
<1> QED
  BY <1>1, <1>3 DEF TrueInv

LEMMA StartTruth ==
  ASSUME IInv, IInv', Grows, TInv, Idle, NEW d \in KnownNodes, NEW want,
         StartListing(d, want), UNCHANGED <<p4u, cut>>
  PROVE  TInv'
<1>1. /\ table' = table /\ job'.cmd = "dirs" /\ job'.dir = d /\ job'.lines = <<>>
      /\ job'.todo = Under(PathOf(table, d), {"dir"})
      /\ job.lines = <<>>
  BY DEF StartListing, Idle, NoJob
<1>2. TrueInv'
  BY <1>1, AllTrue
<1>3. ShownInv'
  BY <1>1 DEF TInv, ShownInv, InUse
<1>4. ListedSoFar'
  <2>1. job'.todo \subseteq In(PathOf(table, d))
    BY <1>1 DEF Under, In
  <2>2. \A e \in In(PathOf(table, d)) : ~ToldSoFar(e)'
    BY <1>1 DEF ToldSoFar, Under, In
  <2> QED
    BY <1>1, <2>1, <2>2 DEF ListedSoFar
<1>5. RecordInv'
  BY <1>1 DEF RecordInv
<1> QED
  BY <1>2, <1>3, <1>4, <1>5 DEF TInv

LEMMA LookupTruth ==
  ASSUME IInv, IInv', Grows, TInv, NEW d \in KnownNodes, NEW asked \in Asked, Lookup(d, asked)
  PROVE  TInv'
<1>0. PICK name : name = Heard(asked)
  OBVIOUS
<1>1. Idle /\ UNCHANGED <<p4u, cut>>
  BY DEF Lookup, KnownDir
<1>2. CASE StartListing(d, {name})
  BY <1>1, <1>2, StartTruth
<1>3. CASE UNCHANGED <<table, job>>
  <2>1. d \in InUse /\ Touched(table, table', d)
    BY <1>3, TouchesNothing, TreeFacts, KnownInUse DEF IInv
  <2> QED
    BY <1>1, <1>3, <2>1, MarkKeeps
<1> QED
  BY <1>0, <1>2, <1>3 DEF Lookup

LEMMA ReaddirTruth ==
  ASSUME IInv, IInv', Grows, TInv, NEW d \in KnownNodes, Readdir(d)
  PROVE  TInv'
BY StartTruth DEF Readdir, KnownDir

LEMMA RecordHead ==
  ASSUME NEW e \in Depot, NEW typeFirst \in BOOLEAN
  PROVE  /\ Record(e, typeFirst) # <<>>
         /\ Head(Record(e, typeFirst)).tag \notin FieldTags
         /\ Head(Record(e, typeFirst)).val = Last(e.path)
BY DEF Record, FieldTags

LEMMA OutputStatTruth ==
  ASSUME IInv, IInv', Grows, TInv, NEW e \in Depot, NEW typeFirst \in BOOLEAN,
         OutputStat(e, typeFirst)
  PROVE  TInv'
<1>1. /\ Busy /\ job.lines = <<>> /\ e \in job.todo /\ UNCHANGED <<table, p4u, cut>>
      /\ job' = [job EXCEPT !.todo = @ \ {e}, !.lines = Record(e, typeFirst)]
  BY DEF OutputStat, IInv, JobInv, Idle
<1>2. /\ job'.cmd = job.cmd /\ job'.dir = job.dir /\ job'.todo = job.todo \ {e}
      /\ job'.lines = Record(e, typeFirst)
  BY <1>1 DEF IInv, JobInv
<1>3. TrueInv'
  BY <1>1, AllTrue
<1>4. ShownInv'
  BY <1>1 DEF TInv, ShownInv, InUse
<1>5. /\ job.todo \subseteq In(PathOf(table, job.dir))
      /\ job.dir \notin cut =>
           \A x \in In(PathOf(table, job.dir)) :
             ToldSoFar(x) => Has(table, job.dir, Last(x.path))
  BY <1>1 DEF TInv, ListedSoFar, Unclaimed
<1>6. ListedSoFar'
  <2> SUFFICES ASSUME job.dir \notin cut, NEW x \in In(PathOf(table, job.dir)), ToldSoFar(x)'
               PROVE  Has(table, job.dir, Last(x.path)) \/ Unclaimed(Last(x.path))'
    BY <1>1, <1>2, <1>5 DEF ListedSoFar
  <2>1. CASE x = e
    BY <1>2, <2>1, RecordHead DEF Unclaimed
  <2>2. CASE x # e
    <3>1. ToldSoFar(x)
      BY <1>2, <2>2 DEF ToldSoFar
    <3> QED
      BY <1>5, <3>1
  <2> QED
    BY <2>1, <2>2
<1>7. RecordInv'
  <2>1. e \in In(PathOf(table', job'.dir))
    BY <1>1, <1>2, <1>5
  <2>2. RestOf(e, typeFirst)'
    BY <1>2 DEF RestOf
  <2> QED
    BY <2>1, <2>2 DEF RecordInv
<1> QED
  BY <1>3, <1>4, <1>6, <1>7 DEF TInv

(* A command that told everything leaves nothing out.                      *)
LEMMA CommandTold ==
  ASSUME TInv, Busy, job.lines = <<>>, job.todo = {}, job.dir \notin cut
  PROVE  \A e \in In(PathOf(table, job.dir)) :
           e.kind = "dir" \/ job.cmd = "fstat" => Has(table, job.dir, Last(e.path))
BY DEF TInv, ListedSoFar, ToldSoFar, Unclaimed

LEMMA EndDirsTruth ==
  ASSUME IInv, IInv', Grows, TInv, EndDirs
  PROVE  TInv'
<1>1. /\ Busy /\ job.lines = <<>> /\ UNCHANGED <<table, p4u>>
      /\ cut' = IF job.todo = {} THEN cut ELSE cut \cup {job.dir}
      /\ job' = [job EXCEPT !.cmd = "fstat",
                            !.todo = Under(PathOf(table, job.dir), {"file", "link"})]
  BY DEF EndDirs, EndCommand, Busy
<1>2. /\ job'.cmd = "fstat" /\ job'.dir = job.dir /\ job'.lines = <<>>
      /\ job'.todo = Under(PathOf(table, job.dir), {"file", "link"})
  BY <1>1 DEF IInv, JobInv
<1>3. TrueInv'
  BY <1>1, AllTrue
<1>4. ShownInv'
  BY <1>1 DEF TInv, ShownInv, InUse
<1>5. ListedSoFar'
  <2>1. job'.todo \subseteq In(PathOf(table, job.dir))
    BY <1>2 DEF Under, In
  <2> SUFFICES ASSUME job.dir \notin cut', NEW x \in In(PathOf(table, job.dir)), ToldSoFar(x)'
               PROVE  Has(table, job.dir, Last(x.path))
    BY <1>1, <1>2, <2>1 DEF ListedSoFar
  <2>2. job.todo = {} /\ job.dir \notin cut
    BY <1>1
  <2>3. x.kind = "dir"
    BY <1>2, DepotAssumption DEF ToldSoFar, Under, In
  <2> QED
    BY <1>1, <2>2, <2>3, CommandTold
<1>6. RecordInv'
  BY <1>2 DEF RecordInv
<1> QED
  BY <1>3, <1>4, <1>5, <1>6 DEF TInv

LEMMA EndFstatTruth ==
  ASSUME IInv, IInv', Grows, TInv, EndFstat
  PROVE  TInv'
<1>1. /\ Busy /\ job.cmd = "fstat" /\ job.lines = <<>>
      /\ cut' = IF job.todo = {} THEN cut ELSE cut \cup {job.dir}
      /\ table' = Marked(table, job.dir) /\ job'.cmd = "none"
  BY DEF EndFstat, EndCommand, Busy, Marked, NoJob
<1>2. /\ job.dir \in InUse /\ job.dir \in Ids /\ table \in Table /\ InUse \subseteq Ids
      /\ InUse = 1 .. table.id
  BY <1>1, KnownInUse, TreeFacts DEF IInv, JobInv, InUse
<1>3. Touched(table, table', job.dir)
  BY <1>1, <1>2, MarkedTouches
<1>4. /\ table'.id = table.id /\ InUse' = InUse
      /\ \A m \in InUse : /\ table'.ent[m].bDir = table.ent[m].bDir
                          /\ table'.ent[m].bSym = table.ent[m].bSym
                          /\ table'.ent[m].size = table.ent[m].size
                          /\ m # job.dir => table'.ent[m].bList = table.ent[m].bList
  BY <1>2, <1>3 DEF Touched, InUse
<1>5. TrueInv'
  BY <1>1, <1>4, AllTrue
<1>6. ShownInv'
  <2> SUFFICES ASSUME NEW d \in InUse, table'.ent[d].bDir, table'.ent[d].bList, d \notin cut',
                      NEW e \in In(PathOf(table', d))
               PROVE  Has(table', d, Last(e.path))
    BY <1>4 DEF ShownInv
  <2>1. e \in In(PathOf(table, d)) /\ d \notin cut
    BY <1>1, PathsKept
  <2>2. Has(table, d, Last(e.path))
    <3>1. CASE d = job.dir
      BY <1>1, <2>1, <3>1, CommandTold
    <3>2. CASE d # job.dir
      BY <1>4, <2>1, <3>2 DEF TInv, ShownInv
    <3> QED
      BY <3>1, <3>2
  <2> QED
    BY <2>2, PathsKept
<1>7. ListedSoFar' /\ RecordInv'
  BY <1>1 DEF ListedSoFar, RecordInv, Busy
<1> QED
  BY <1>5, <1>6, <1>7 DEF TInv

-----------------------------------------------------------------------------
(* A line of the listing.                                                  *)

(* What the entry claimed for a record shows, if one is. *)
Settled(t, s, d, name, isDir) ==
  IF s.node = 0 THEN s.t = t /\ HasOlder(t, d, name)
  ELSE s.node = s.t.id /\ ShowsName(s.t.ent[s.node], d, name, isDir)

LEMMA DirSays ==
  ASSUME NEW t, TreeOK(t), NEW node, NEW name, NEW d \in 1 .. t.id,
         NEW line, line.tag = "dir", line.val \in Int,
         NEW s, s = OutputInfo([t |-> t, node |-> node, name |-> name], d, line),
         s.t.id <= MaxId
  PROVE  Settled(t, s, d, line.val, TRUE)
<1> DEFINE s0 == [t |-> t, node |-> node, name |-> name]
           c == Claim([t |-> t, node |-> node, name |-> line.val], d, line.val, TRUE)
<1>1. [s0 EXCEPT !.name = line.val] = [t |-> t, node |-> node, name |-> line.val]
  OBVIOUS
<1>2. s = Claim([s0 EXCEPT !.name = line.val], d, line.val, TRUE)
  <2> HIDE DEF s0
  <2>1. s = OutputInfo(s0, d, line)
    BY DEF s0
  <2> QED
    BY <2>1 DEF OutputInfo
<1>3. s = c
  BY <1>1, <1>2
<1>4. c.t.id <= MaxId
  BY <1>3
<1>5. IF c.node = 0 THEN c.t = t /\ HasOlder(t, d, line.val)
      ELSE c.node = c.t.id /\ ShowsName(c.t.ent[c.node], d, line.val, TRUE)
  BY <1>4, ClaimSays
<1> HIDE DEF c
<1> QED
  BY <1>3, <1>5 DEF Settled

LEMMA FileSays ==
  ASSUME NEW t, NEW node, NEW name, NEW d, NEW line, line.tag = "depotFile",
         NEW s, s = OutputInfo([t |-> t, node |-> node, name |-> name], d, line)
  PROVE  s.t = t /\ s.node = 0 /\ s.name = line.val
BY DEF OutputInfo

(* A field is set and the rest of the entry stays.                         *)
SetIn(f, e, line) ==
  /\ f.parent = e.parent /\ f.name = e.name /\ f.bDir = e.bDir
  /\ IF line.tag = "size" THEN f.size = line.val /\ f.bSym = e.bSym
     ELSE f.bSym = line.val /\ f.size = e.size

LEMMA FieldFills ==
  ASSUME NEW t \in Table, NEW node \in Ids, node # 0, NEW name,
         NEW line \in Line, line.tag \in FieldTags,
         NEW s, s = SetField([t |-> t, node |-> node, name |-> name], line)
  PROVE  /\ s.node = node /\ s.name = name /\ s.t.id = t.id
         /\ SetIn(s.t.ent[node], t.ent[node], line)
<1>1. s = [t |-> IF line.tag = "size" THEN WithSize(t, node, line.val)
                 ELSE WithSym(t, node, line.val), node |-> node, name |-> name]
  BY FieldTable
<1>2. CASE line.tag = "size"
  <2> DEFINE u == WithSize(t, node, line.val)
  <2>1. u.id = t.id /\ SetIn(u.ent[node], t.ent[node], line)
    BY <1>2 DEF WithSize, Table, Entry, SetIn
  <2> HIDE DEF u
  <2>2. s = [t |-> u, node |-> node, name |-> name]
    BY <1>1, <1>2 DEF u
  <2> QED
    BY <2>1, <2>2
<1>3. CASE line.tag = "bSym"
  <2> DEFINE u == WithSym(t, node, line.val)
  <2>1. u.id = t.id /\ SetIn(u.ent[node], t.ent[node], line)
    BY <1>3 DEF WithSym, Table, Entry, SetIn
  <2> HIDE DEF u
  <2>2. s = [t |-> u, node |-> node, name |-> name]
    BY <1>1, <1>3 DEF u
  <2> QED
    BY <2>1, <2>2
<1> QED
  BY <1>2, <1>3 DEF FieldTags

(* The first field of a record claims the entry. *)
Begun(t, s, d, name, line) ==
  /\ s.name = name
  /\ IF s.node = 0 THEN s.t = t /\ HasOlder(t, d, name)
     ELSE /\ s.node = s.t.id
          /\ \E e : ShowsName(e, d, name, FALSE) /\ SetIn(s.t.ent[s.node], e, line)

LEMMA FieldSays ==
  ASSUME NEW t, TreeOK(t), NEW name \in Int, NEW d \in 1 .. t.id,
         NEW line \in Line, line.tag \in FieldTags,
         NEW s, s = OutputInfo([t |-> t, node |-> 0, name |-> name], d, line),
         s.t.id <= MaxId
  PROVE  Begun(t, s, d, name, line)
<1> DEFINE c == Claim([t |-> t, node |-> 0, name |-> name], d, name, FALSE)
<1>1. s = SetField(c, line)
  BY DEF OutputInfo, FieldTags
<1>2. c.t.id <= MaxId
  <2> HIDE DEF c
  <2>1. SetField(c, line).t.id = c.t.id
    BY DEF SetField
  <2> QED
    BY <1>1, <2>1
<1>3. /\ c = [t |-> c.t, node |-> c.node, name |-> name]
      /\ Claimed(t, c.t, c.node, d)
  BY <1>2, ClaimKeeps
<1>4. IF c.node = 0 THEN c.t = t /\ HasOlder(t, d, name)
      ELSE c.node = c.t.id /\ ShowsName(c.t.ent[c.node], d, name, FALSE)
  BY <1>2, ClaimSays
<1> HIDE DEF c
<1>5. CASE c.node = 0
  <2>1. s = c
    BY <1>1, <1>5 DEF SetField
  <2>2. s.name = name /\ s.node = 0
    BY <1>3, <1>5, <2>1
  <2>3. s.t = t /\ HasOlder(t, d, name)
    BY <1>4, <1>5, <2>1
  <2> QED
    BY <2>2, <2>3 DEF Begun
<1>6. CASE c.node # 0
  <2>1. c.t \in Table /\ c.node \in Ids
    BY <1>3, TableFields, TableAssumption DEF Claimed, TreeOK, Ids
  <2>2. s = SetField([t |-> c.t, node |-> c.node, name |-> name], line)
    BY <1>1, <1>3
  <2>3. /\ s.node = c.node /\ s.name = name /\ s.t.id = c.t.id
        /\ SetIn(s.t.ent[c.node], c.t.ent[c.node], line)
    BY <1>6, <2>1, <2>2, FieldFills
  <2> QED
    BY <1>4, <1>6, <2>3 DEF Begun
<1> QED
  BY <1>5, <1>6

(* The path of an entry. *)
LEMMA PathOfEntry ==
  ASSUME NEW t, TreeOK(t), NEW n \in 1 .. t.id
  PROVE  PathOf(t, n) = Append(PathOf(t, t.ent[n].parent), t.ent[n].name)
<1>1. t \in Table /\ ParentsFirst(t) /\ n \in Ids /\ n # 0
  BY TableFields, TableAssumption DEF TreeOK, Ids
<1> QED
  BY <1>1, ClimbStep, PathIsClimb

(* A path is a sequence of names. *)
LEMMA PathIsSeq ==
  ASSUME NEW t, TreeOK(t)
  PROVE  \A n \in 0 .. t.id : PathOf(t, n) \in Seq(Int)
<1> DEFINE S == {n \in 0 .. t.id : PathOf(t, n) \in Seq(Int)}
<1>1. t \in Table /\ ParentsFirst(t) /\ t.id \in 1 .. MaxId /\ MaxId \in Nat
  BY TableFields, TableAssumption DEF TreeOK
<1>2. \A n \in 0 .. t.id : (\A m \in 0 .. n - 1 : m \in S) => n \in S
  <2> TAKE n \in 0 .. t.id
  <2> HAVE \A m \in 0 .. n - 1 : m \in S
  <2>1. n \in Ids
    BY <1>1 DEF Ids
  <2>2. CASE n = 0
    <3>1. PathOf(t, n) = <<>>
      BY <1>1, <2>1, <2>2, ClimbStep, PathIsClimb
    <3> QED
      BY <3>1
  <2>3. CASE n # 0
    <3>1. n \in 1 .. t.id /\ n \in 1 .. MaxId
      BY <1>1, <2>3
    <3>2. PathOf(t, n) = Append(PathOf(t, t.ent[n].parent), t.ent[n].name)
      BY <3>1, PathOfEntry
    <3>3. t.ent[n].parent \in 0 .. n - 1 /\ t.ent[n].name \in Int
      BY <1>1, <2>1, <3>1, TableFields, EntryFields DEF ParentsFirst
    <3>4. PathOf(t, t.ent[n].parent) \in Seq(Int)
      BY <3>3
    <3>5. \A p \in Seq(Int), x \in Int : Append(p, x) \in Seq(Int)
      OBVIOUS
    <3>6. PathOf(t, n) \in Seq(Int)
      BY <3>2, <3>3, <3>4, <3>5
    <3> QED
      BY <3>6
  <2> QED
    BY <2>2, <2>3
<1>3. \A n \in 0 .. t.id : n \in S
  <2> HIDE DEF S
  <2> QED
    BY <1>1, <1>2, UpInduction
<1> QED
  BY <1>3

LEMMA FrontOfAppend ==
  ASSUME NEW s \in Seq(Int), NEW x \in Int
  PROVE  Front(Append(s, x)) = s /\ Last(Append(s, x)) = x
BY DEF Front, Last

LEMMA FrontLast ==
  ASSUME NEW e \in Depot
  PROVE  e.path = Append(Front(e.path), Last(e.path)) /\ Last(e.path) \in Int
BY DepotAssumption DEF Front, Last

LEMMA PathOfRecord ==
  ASSUME NEW t, TreeOK(t), NEW n \in 1 .. t.id, NEW d, t.ent[n].parent = d,
         NEW e \in In(PathOf(t, d)), t.ent[n].name = Last(e.path)
  PROVE  e.path = PathOf(t, n)
BY PathOfEntry, FrontLast DEF In

(* The invariant after a line, from what the line did for its record e.    *)
LEMMA LineKeeps ==
  ASSUME IInv, IInv', Grows, TInv, OutputLine, NEW e \in In(PathOf(table, job.dir)),
         \A name : Unclaimed(name) => name = Last(e.path),
         Has(table', job.dir, Last(e.path)) \/ Unclaimed(Last(e.path))',
         (p4u.node # 0 => IsTrue(table, p4u.node) \/ AwaitsField(p4u.node))',
         p4u.node # 0 /\ AwaitsField(p4u.node) => p4u'.node = p4u.node,
         job'.lines # <<>> => \E typeFirst \in BOOLEAN : RestOf(e, typeFirst)'
  PROVE  TInv'
<1> DEFINE node == p4u'.node
<1>1. /\ Busy /\ Claimed(table, table', node, job.dir) /\ cut' = cut
      /\ job' = [job EXCEPT !.lines = Tail(@)]
  BY OutputLineClaims
<1>2. /\ job'.cmd = job.cmd /\ job'.dir = job.dir /\ job'.todo = job.todo
      /\ job.dir \in InUse
  BY <1>1, KnownInUse DEF IInv, JobInv
<1>3. /\ TreeOK(table) /\ TreeOK(table') /\ SameKeys(table, table', table.id)
      /\ InUse = 1 .. table.id /\ InUse \subseteq Ids /\ table.id \in Nat
      /\ InUse' = 1 .. table'.id
  BY TreeFacts DEF IInv, Grows, InUse
<1>4. \A n \in InUse' : n # node =>
        /\ n \in InUse
        /\ table'.ent[n].bDir = table.ent[n].bDir
        /\ table'.ent[n].bSym = table.ent[n].bSym
        /\ table'.ent[n].bList = table.ent[n].bList
        /\ table'.ent[n].size = table.ent[n].size
  <2> TAKE n \in InUse'
  <2> HAVE n # node
  <2>1. n \in InUse
    BY <1>1, <1>3 DEF Claimed
  <2>2. SameAttrs(table, table', n)
    BY <1>1, <1>3, <2>1 DEF Claimed
  <2> QED
    BY <2>1, <2>2 DEF SameAttrs
<1>5. TrueInv'
  <2> SUFFICES ASSUME NEW n \in InUse' \ {1} PROVE IsTrue(table', n) \/ AwaitsField(n)'
    BY DEF TrueInv
  <2>1. CASE n = node
    <3>1. node # 0
      BY <1>3, <2>1
    <3> QED
      BY <2>1, <3>1 DEF AwaitsField
  <2>2. CASE n # node
    <3>1. n \in InUse \ {1} /\ n # 0
      BY <1>3, <1>4, <2>2
    <3>2. ~AwaitsField(n)
      BY <2>2, <3>1 DEF AwaitsField
    <3>3. IsTrue(table, n)
      BY <3>1, <3>2 DEF TInv, TrueInv
    <3> QED
      BY <1>3, <1>4, <2>2, <3>1, <3>3, TrueKept
  <2> QED
    BY <2>1, <2>2
<1>6. ShownInv'
  <2> SUFFICES ASSUME NEW d \in InUse', table'.ent[d].bDir, table'.ent[d].bList, d \notin cut,
                      NEW x \in In(PathOf(table', d))
               PROVE  Has(table', d, Last(x.path))
    BY <1>1 DEF ShownInv
  <2>1. d # 0 /\ d # node
    BY <1>1, <1>3 DEF Claimed
  <2>2. d \in InUse /\ table.ent[d].bDir /\ table.ent[d].bList
    BY <1>4, <2>1
  <2>3. x \in In(PathOf(table, d))
    BY <2>2, PathsKept
  <2>4. Has(table, d, Last(x.path))
    BY <2>2, <2>3 DEF TInv, ShownInv
  <2> QED
    BY <2>4, PathsKept
<1>7. PathOf(table', job'.dir) = PathOf(table, job.dir)
  BY <1>2, PathsKept
<1>8. ListedSoFar'
  <2>1. job.todo \subseteq In(PathOf(table, job.dir))
    BY <1>1 DEF TInv, ListedSoFar
  <2> SUFFICES ASSUME job.dir \notin cut, NEW x \in In(PathOf(table, job.dir)), ToldSoFar(x)'
               PROVE  Has(table', job.dir, Last(x.path)) \/ Unclaimed(Last(x.path))'
    BY <1>1, <1>2, <1>7, <2>1 DEF ListedSoFar
  <2>2. ToldSoFar(x)
    BY <1>2 DEF ToldSoFar
  <2>3. Has(table, job.dir, Last(x.path)) \/ Unclaimed(Last(x.path))
    BY <1>1, <2>2 DEF TInv, ListedSoFar
  <2>4. CASE Has(table, job.dir, Last(x.path))
    BY <2>4, PathsKept
  <2>5. CASE Unclaimed(Last(x.path))
    <3>1. Last(x.path) = Last(e.path)
      BY <2>5
    <3> QED
      BY <3>1
  <2> QED
    BY <2>3, <2>4, <2>5
<1>9. RecordInv'
  BY <1>2, <1>7 DEF RecordInv
<1> QED
  BY <1>5, <1>6, <1>8, <1>9 DEF TInv

(* The lines of a record. *)
LEMMA ShortTails ==
  ASSUME NEW a, NEW b, NEW c
  PROVE  /\ Tail(<<a>>) = <<>>
         /\ Tail(<<a, b>>) = <<b>> /\ Head(<<a, b>>) = a
         /\ Tail(<<a, b, c>>) = <<b, c>> /\ Head(<<a, b, c>>) = a
<1>1. Tail(<<a>>) = <<>>
  <2>1. Tail(<<a>>) \in Seq({a}) /\ Len(Tail(<<a>>)) = 0
    OBVIOUS
  <2> QED
    BY <2>1, EmptySeq
<1>2. /\ Tail(<<a, b>>) = <<b>> /\ Head(<<a, b>>) = a
      /\ Tail(<<a, b, c>>) = <<b, c>> /\ Head(<<a, b, c>>) = a
  OBVIOUS
<1> QED
  BY <1>1, <1>2

LEMMA RecordOfDir ==
  ASSUME NEW e \in Depot, e.kind = "dir", NEW typeFirst \in BOOLEAN
  PROVE  LET r == Record(e, typeFirst)
         IN  r # <<>> /\ Head(r).tag = "dir" /\ Head(r).val = Last(e.path) /\ Tail(r) = <<>>
<1>1. Record(e, typeFirst) = <<[tag |-> "dir", val |-> Last(e.path)]>>
  BY DEF Record
<1> QED
  BY <1>1, ShortTails

LEMMA RecordOfFile ==
  ASSUME NEW e \in Depot, e.kind # "dir", NEW typeFirst \in BOOLEAN
  PROVE  LET r == Record(e, typeFirst)
         IN  /\ r # <<>> /\ Head(r).tag = "depotFile" /\ Head(r).val = Last(e.path)
             /\ Tail(r) # <<>> /\ Head(Tail(r)).tag \in FieldTags
             /\ e.gone => Head(Tail(r)) = TypeLine(e) /\ Tail(Tail(r)) = <<>>
             /\ ~e.gone =>
                  /\ Head(Tail(r)) = IF typeFirst THEN TypeLine(e) ELSE SizeLine(e)
                  /\ Tail(Tail(r)) = <<IF typeFirst THEN SizeLine(e) ELSE TypeLine(e)>>
<1> DEFINE file == [tag |-> "depotFile", val |-> Last(e.path)]
           type == TypeLine(e)
           size == SizeLine(e)
<1>1. /\ file.tag = "depotFile" /\ file.val = Last(e.path)
      /\ type.tag \in FieldTags /\ size.tag \in FieldTags
  BY DEF TypeLine, SizeLine, FieldTags
<1>2. Record(e, typeFirst) = IF e.gone THEN <<file, type>>
                             ELSE IF typeFirst THEN <<file, type, size>>
                             ELSE <<file, size, type>>
  BY DEF Record, TypeLine, SizeLine
<1> HIDE DEF file, type, size
<1>3. CASE e.gone
  <2>1. Record(e, typeFirst) = <<file, type>>
    BY <1>2, <1>3
  <2>2. Tail(Record(e, typeFirst)) = <<type>> /\ Tail(<<type>>) = <<>>
    BY <2>1, ShortTails
  <2> QED
    BY <1>1, <1>3, <2>1, <2>2 DEF type
<1>4. CASE ~e.gone /\ typeFirst
  <2>1. Record(e, typeFirst) = <<file, type, size>>
    BY <1>2, <1>4
  <2>2. Tail(Record(e, typeFirst)) = <<type, size>> /\ Tail(<<type, size>>) = <<size>>
    BY <2>1, ShortTails
  <2>3. /\ (IF typeFirst THEN type ELSE size) = type
        /\ (IF typeFirst THEN size ELSE type) = size
    BY <1>4
  <2> DEFINE r == Record(e, typeFirst)
  <2>4. /\ r # <<>> /\ Head(r) = file /\ Tail(r) # <<>>
        /\ Head(Tail(r)) = type /\ Tail(Tail(r)) = <<size>>
    BY <2>1, <2>2, ShortTails
  <2> HIDE DEF r
  <2> QED
    BY <1>1, <1>4, <2>3, <2>4 DEF type, size, r
<1>5. CASE ~e.gone /\ ~typeFirst
  <2>1. Record(e, typeFirst) = <<file, size, type>>
    BY <1>2, <1>5
  <2>2. Tail(Record(e, typeFirst)) = <<size, type>> /\ Tail(<<size, type>>) = <<type>>
    BY <2>1, ShortTails
  <2>3. /\ (IF typeFirst THEN type ELSE size) = size
        /\ (IF typeFirst THEN size ELSE type) = type
    BY <1>5
  <2> DEFINE r == Record(e, typeFirst)
  <2>4. /\ r # <<>> /\ Head(r) = file /\ Tail(r) # <<>>
        /\ Head(Tail(r)) = size /\ Tail(Tail(r)) = <<type>>
    BY <2>1, <2>2, ShortTails
  <2> HIDE DEF r
  <2> QED
    BY <1>1, <1>5, <2>3, <2>4 DEF type, size, r
<1> QED
  BY <1>3, <1>4, <1>5

(* What a call of OutputInfo works on. *)
LEMMA LineStep ==
  ASSUME IInv, IInv', OutputLine
  PROVE  /\ Busy /\ job.lines # <<>> /\ Head(job.lines) \in Line
         /\ job'.lines = Tail(job.lines) /\ job'.dir = job.dir
         /\ job.dir \in 1 .. table.id /\ TreeOK(table) /\ TreeOK(table')
         /\ table'.id \in Nat /\ table.id \in Nat /\ SameKeys(table, table', table.id)
         /\ table'.id \in {table.id, table.id + 1}
         /\ PathOf(table', job.dir) = PathOf(table, job.dir)
         /\ p4u'.node # 0 => p4u'.node \in 1 .. table'.id
         /\ \E s : /\ s = OutputInfo([t |-> table, node |-> p4u.node, name |-> p4u.name],
                                     job.dir, Head(job.lines))
                   /\ s.t.id <= MaxId /\ table' = s.t
                   /\ p4u'.node = s.node /\ p4u'.name = s.name
<1>1. /\ Busy /\ job.lines # <<>> /\ Head(job.lines) \in Line
      /\ job' = [job EXCEPT !.lines = Tail(@)]
      /\ Claimed(table, table', p4u'.node, job.dir)
  BY OutputLineClaims
<1>2. job'.lines = Tail(job.lines) /\ job'.dir = job.dir
  BY <1>1 DEF IInv, JobInv
<1>3. /\ TreeOK(table) /\ TreeOK(table') /\ SameKeys(table, table', table.id)
      /\ table'.id \in {table.id, table.id + 1} /\ table.id \in 1 .. MaxId
      /\ table'.id \in 1 .. MaxId /\ MaxId \in Nat
  BY <1>1, TableFields, TableAssumption DEF IInv, Claimed, TreeOK
<1>4. job.dir \in 1 .. table.id
  BY <1>1, KnownInUse DEF IInv, JobInv, InUse
<1>5. PathOf(table', job.dir) = PathOf(table, job.dir)
  <2>1. table.id \in 0 .. MaxId /\ job.dir \in 0 .. table.id
    BY <1>3, <1>4
  <2> QED
    BY <1>3, <2>1, SamePath DEF TreeOK
<1>6. p4u'.node # 0 => p4u'.node \in 1 .. table'.id
  BY DEF IInv, FieldInv, InUse
<1>7. \E s : /\ s = OutputInfo([t |-> table, node |-> p4u.node, name |-> p4u.name],
                               job.dir, Head(job.lines))
             /\ s.t.id <= MaxId /\ table' = s.t
             /\ p4u'.node = s.node /\ p4u'.name = s.name
  <2> DEFINE o == OutputInfo([t |-> table, node |-> p4u.node, name |-> p4u.name],
                             job.dir, Head(job.lines))
  <2>1. o.t.id <= MaxId /\ table' = o.t /\ p4u' = [node |-> o.node, name |-> o.name]
    BY DEF OutputLine, NextLine
  <2> HIDE DEF o
  <2>2. p4u'.node = o.node /\ p4u'.name = o.name
    BY <2>1
  <2> QED
    BY <2>1, <2>2 DEF o
<1> QED
  BY <1>1, <1>2, <1>3, <1>4, <1>5, <1>6, <1>7

(* An older entry with the name, or the one claimed, is one with the name. *)
LEMMA OlderIsOne == \A t, d, name : HasOlder(t, d, name) => Has(t, d, name)
BY DEF HasOlder, Has

LEMMA OutputLineTruth ==
  ASSUME IInv, IInv', Grows, TInv, OutputLine
  PROVE  TInv'
<1> DEFINE d == job.dir
           line == Head(job.lines)
<1>1. /\ Busy /\ job.lines # <<>> /\ line \in Line
      /\ job'.lines = Tail(job.lines) /\ job'.dir = d
      /\ d \in 1 .. table.id /\ TreeOK(table) /\ TreeOK(table')
      /\ table'.id \in Nat /\ table.id \in Nat /\ SameKeys(table, table', table.id)
      /\ table'.id \in {table.id, table.id + 1}
      /\ PathOf(table', d) = PathOf(table, d)
      /\ p4u'.node # 0 => p4u'.node \in 1 .. table'.id
  BY LineStep
<1>2. PICK s : /\ s = OutputInfo([t |-> table, node |-> p4u.node, name |-> p4u.name], d, line)
               /\ s.t.id <= MaxId /\ table' = s.t
               /\ p4u'.node = s.node /\ p4u'.name = s.name
  BY LineStep
<1>3. PICK e \in In(PathOf(table, d)), typeFirst \in BOOLEAN : RestOf(e, typeFirst)
  BY <1>1 DEF TInv, RecordInv
<1> DEFINE name == Last(e.path)
<1>4. e \in Depot /\ name \in Int /\ e \in In(PathOf(table', d))
  BY <1>1, FrontLast DEF In
<1> HIDE DEF d, line, name
<1>5. SUFFICES /\ \A x : Unclaimed(x) => x = name
               /\ Has(table', d, name) \/ Unclaimed(name)'
               /\ (p4u.node # 0 => IsTrue(table, p4u.node) \/ AwaitsField(p4u.node))'
               /\ p4u.node # 0 /\ AwaitsField(p4u.node) => p4u'.node = p4u.node
               /\ job'.lines # <<>> => RestOf(e, typeFirst)'
  BY LineKeeps DEF d, name
(* The entry claimed has the path of the record. *)
<1>6. ASSUME s.node # 0, table'.ent[s.node].parent = d, table'.ent[s.node].name = name
      PROVE  /\ Has(table', d, name)
             /\ Shows(table'.ent[s.node], e) => IsTrue(table', s.node)
  <2>1. s.node \in 1 .. table'.id
    BY <1>1, <1>2, <1>6
  <2>2. Has(table', d, name)
    BY <1>6, <2>1 DEF Has
  <2>3. e.path = PathOf(table', s.node)
    BY <1>1, <1>4, <1>6, <2>1, PathOfRecord DEF name
  <2> QED
    BY <1>4, <2>2, <2>3 DEF IsTrue
<1>7. CASE job.lines = Record(e, typeFirst) /\ e.kind = "dir"
  <2>1. line.tag = "dir" /\ line.val = name /\ job'.lines = <<>>
    BY <1>1, <1>4, <1>7, RecordOfDir DEF line, name
  <2>2. Settled(table, s, d, name, TRUE)
    BY <1>1, <1>2, <1>4, <2>1, DirSays
  <2>3. \A x : Unclaimed(x) => x = name
    BY <2>1 DEF Unclaimed, FieldTags, line
  <2>4. ~AwaitsField(p4u.node)
    BY <2>1 DEF AwaitsField, FieldTags, line
  <2>5. CASE s.node = 0
    <3>1. Has(table', d, name)
      BY <1>2, <2>2, <2>5, OlderIsOne DEF Settled
    <3> QED
      BY <1>2, <2>1, <2>3, <2>4, <2>5, <3>1
  <2>6. CASE s.node # 0
    <3>1. ShowsName(table'.ent[s.node], d, name, TRUE)
      BY <1>2, <2>2, <2>6 DEF Settled
    <3>2. Shows(table'.ent[s.node], e)
      BY <1>7, <3>1 DEF Shows, ShowsName
    <3>3. Has(table', d, name) /\ IsTrue(table', s.node)
      BY <1>6, <2>6, <3>1, <3>2 DEF ShowsName
    <3> QED
      BY <1>2, <2>1, <2>3, <2>4, <3>3
  <2> QED
    BY <2>5, <2>6
<1>8. CASE job.lines = Record(e, typeFirst) /\ e.kind # "dir"
  <2>1. /\ line.tag = "depotFile" /\ line.val = name
        /\ job'.lines = Tail(Record(e, typeFirst))
        /\ job'.lines # <<>> /\ Head(job'.lines).tag \in FieldTags
    BY <1>1, <1>4, <1>8, RecordOfFile DEF line, name
  <2>2. p4u'.node = 0 /\ p4u'.name = name
    BY <1>2, <2>1, FileSays
  <2>3. \A x : Unclaimed(x) => x = name
    BY <2>1 DEF Unclaimed, FieldTags, line
  <2>4. ~AwaitsField(p4u.node)
    BY <2>1 DEF AwaitsField, FieldTags, line
  <2>5. Unclaimed(name)'
    BY <2>1, <2>2 DEF Unclaimed
  <2>6. RestOf(e, typeFirst)'
    BY <1>8, <2>1, <2>2 DEF RestOf, name
  <2> QED
    BY <2>2, <2>3, <2>4, <2>5, <2>6
<1>9. CASE /\ e.kind # "dir" /\ p4u.node = 0 /\ p4u.name = name
           /\ job.lines = Tail(Record(e, typeFirst))
  <2>1. /\ line.tag \in FieldTags
        /\ e.gone => line = TypeLine(e) /\ job'.lines = <<>>
        /\ ~e.gone =>
             /\ line = IF typeFirst THEN TypeLine(e) ELSE SizeLine(e)
             /\ job'.lines = <<IF typeFirst THEN SizeLine(e) ELSE TypeLine(e)>>
    BY <1>1, <1>4, <1>9, RecordOfFile DEF line
  <2>2. /\ s.name = name
        /\ IF s.node = 0 THEN s.t = table /\ HasOlder(table, d, name)
           ELSE /\ s.node = s.t.id
                /\ \E f : ShowsName(f, d, name, FALSE) /\ SetIn(s.t.ent[s.node], f, line)
    <3>1. s = OutputInfo([t |-> table, node |-> 0, name |-> name], d, line)
      BY <1>2, <1>9
    <3>2. Begun(table, s, d, name, line)
      BY <1>1, <1>2, <1>4, <2>1, <3>1, FieldSays
    <3> QED
      BY <3>2 DEF Begun
  <2>3. \A x : Unclaimed(x) => x = name
    BY <1>9, <2>1 DEF Unclaimed, line
  <2>4. CASE s.node = 0
    <3>1. table' = table /\ HasOlder(table', d, name) /\ Has(table', d, name)
      BY <1>2, <2>2, <2>4, OlderIsOne
    <3>2. job'.lines # <<>> => RestOf(e, typeFirst)'
      BY <1>1, <1>2, <1>9, <2>1, <2>2, <2>4, <3>1 DEF RestOf, SizeLine, TypeLine, name
    <3> QED
      BY <1>2, <1>9, <2>3, <2>4, <3>1, <3>2
  <2>5. CASE s.node # 0
    <3>1. PICK f : ShowsName(f, d, name, FALSE) /\ SetIn(table'.ent[s.node], f, line)
      BY <1>2, <2>2, <2>5
    <3> DEFINE g == table'.ent[s.node]
    <3>2. /\ g.parent = d /\ g.name = name /\ ~g.bDir
          /\ line.tag # "size" => g.bSym = line.val
          /\ line.tag = "size" => g.size = line.val
      BY <3>1 DEF ShowsName, SetIn
    <3>3. Has(table', d, name) /\ (Shows(g, e) => IsTrue(table', s.node))
      BY <1>6, <2>5, <3>2
    <3>4. CASE e.gone
      <4>1. Shows(g, e)
        <5>1. line.tag # "size" /\ line.val = (e.kind = "link")
          BY <2>1, <3>4 DEF TypeLine
        <5> QED
          BY <1>9, <3>2, <3>4, <5>1 DEF Shows
      <4> QED
        BY <1>2, <1>9, <2>1, <2>3, <3>3, <3>4, <4>1
    <3>5. CASE ~e.gone
      <4>1. Half(d, e, typeFirst, g)
        <5>1. CASE typeFirst
          <6>1. line.tag # "size" /\ line.val = (e.kind = "link")
            BY <2>1, <3>5, <5>1 DEF TypeLine
          <6> QED
            BY <3>2, <5>1, <6>1 DEF Half, name
        <5>2. CASE ~typeFirst
          <6>1. line.tag = "size" /\ line.val = e.size
            BY <2>1, <3>5, <5>2 DEF SizeLine
          <6> QED
            BY <3>2, <5>2, <6>1 DEF Half, name
        <5> QED
          BY <5>1, <5>2
      <4>2. RestOf(e, typeFirst)'
        <5>1. /\ p4u'.name = name /\ p4u'.node # 0 /\ job'.dir = d
              /\ job'.lines = <<IF typeFirst THEN SizeLine(e) ELSE TypeLine(e)>>
              /\ Half(d, e, typeFirst, table'.ent[p4u'.node])
          BY <1>1, <1>2, <2>1, <2>2, <2>5, <3>5, <4>1
        <5> QED
          BY <1>9, <3>5, <5>1 DEF RestOf, name
      <4>3. AwaitsField(p4u.node)'
        BY <2>1, <3>5 DEF AwaitsField, SizeLine, TypeLine, FieldTags
      <4> QED
        BY <1>9, <2>3, <3>3, <4>2, <4>3
    <3> QED
      BY <3>4, <3>5
  <2> QED
    BY <2>4, <2>5
<1>10. CASE /\ e.kind # "dir" /\ ~e.gone /\ p4u.name = name
            /\ job.lines = <<IF typeFirst THEN SizeLine(e) ELSE TypeLine(e)>>
            /\ IF p4u.node = 0 THEN HasOlder(table, d, name)
               ELSE Half(d, e, typeFirst, table.ent[p4u.node])
  <2>1. /\ line = IF typeFirst THEN SizeLine(e) ELSE TypeLine(e)
        /\ line.tag \in FieldTags /\ job'.lines = <<>>
    BY <1>1, <1>10, ShortTails DEF line, SizeLine, TypeLine, FieldTags
  <2>2. \A x : Unclaimed(x) => x = name
    BY <1>10, <2>1 DEF Unclaimed, line
  <2>3. CASE p4u.node = 0
    <3>1. IF s.node = 0 THEN s.t = table /\ HasOlder(table, d, name)
          ELSE /\ s.node = s.t.id
               /\ \E f : ShowsName(f, d, name, FALSE) /\ SetIn(s.t.ent[s.node], f, line)
      <4>1. s = OutputInfo([t |-> table, node |-> 0, name |-> name], d, line)
        BY <1>2, <1>10, <2>3
      <4>2. Begun(table, s, d, name, line)
        BY <1>1, <1>2, <1>4, <2>1, <4>1, FieldSays
      <4> QED
        BY <4>2 DEF Begun
    (* The older entry would have the same key as the newest. *)
    <3>2. s.node = 0
      <4> SUFFICES ASSUME s.node # 0 PROVE FALSE
        OBVIOUS
      <4>1. /\ s.node = table'.id /\ table'.id \in 1 .. table'.id
            /\ table'.ent[s.node].parent = d /\ table'.ent[s.node].name = name
        BY <1>1, <1>2, <3>1 DEF ShowsName, SetIn
      <4>2. PICK m \in 1 .. table.id :
                   table.ent[m].parent = d /\ table.ent[m].name = name /\ m # table.id
        BY <1>10, <2>3 DEF HasOlder
      <4>3. /\ table'.ent[m].parent = d /\ table'.ent[m].name = name
            /\ m \in 1 .. table'.id /\ m # table'.id
        BY <1>1, <4>2 DEF SameKeys
      <4> QED
        BY <1>1, <4>1, <4>3, KeysDistinct
    <3>3. Has(table', d, name)
      BY <1>2, <3>1, <3>2, OlderIsOne
    <3> QED
      BY <1>2, <2>1, <2>2, <2>3, <3>2, <3>3
  <2>4. CASE p4u.node # 0
    <3> DEFINE f == table.ent[p4u.node]
               g == table'.ent[p4u.node]
    <3>1. table \in Table /\ p4u.node \in Ids
      BY <1>1, TreeFacts DEF TreeOK, IInv, FieldInv
    <3>2. s = SetField([t |-> table, node |-> p4u.node, name |-> p4u.name], line)
      BY <1>2, <2>1, <2>4 DEF OutputInfo, FieldTags
    <3>3. s.node = p4u.node /\ SetIn(g, f, line)
      BY <1>1, <1>2, <2>1, <2>4, <3>1, <3>2, FieldFills
    <3>4. Half(d, e, typeFirst, f)
      BY <1>10, <2>4
    <3>5. g.parent = d /\ g.name = name /\ Shows(g, e)
      <4>1. /\ g.parent = f.parent /\ g.name = f.name /\ g.bDir = f.bDir
            /\ line.tag = "size" => g.size = line.val /\ g.bSym = f.bSym
            /\ line.tag # "size" => g.bSym = line.val /\ g.size = f.size
        BY <3>3 DEF SetIn
      <4>2. /\ f.parent = d /\ f.name = name /\ ~f.bDir
            /\ typeFirst => (f.bSym <=> e.kind = "link")
            /\ ~typeFirst => f.size = e.size
        BY <3>4 DEF Half, name
      <4>3. CASE typeFirst
        <5>1. line.tag = "size" /\ line.val = e.size
          BY <2>1, <4>3 DEF SizeLine
        <5> QED
          BY <1>10, <4>1, <4>2, <4>3, <5>1 DEF Shows
      <4>4. CASE ~typeFirst
        <5>1. line.tag # "size" /\ line.val = (e.kind = "link")
          BY <2>1, <4>4 DEF TypeLine
        <5> QED
          BY <1>10, <4>1, <4>2, <4>4, <5>1 DEF Shows
      <4> QED
        BY <4>3, <4>4
    <3>6. Has(table', d, name) /\ IsTrue(table', s.node)
      BY <1>6, <2>4, <3>3, <3>5
    <3> QED
      BY <1>2, <2>1, <2>2, <3>3, <3>6
  <2> QED
    BY <2>3, <2>4
<1> QED
  BY <1>3, <1>7, <1>8, <1>9, <1>10 DEF RestOf, d, name

-----------------------------------------------------------------------------
(* The invariant of both specifications.                                   *)

LEMMA NextTruth == IInv /\ TInv /\ [Next]_vars => IInv' /\ TInv'
<1> SUFFICES ASSUME IInv, TInv, [Next]_vars PROVE IInv' /\ TInv'
  OBVIOUS
<1>1. IInv' /\ Grows
  BY NextPreserves
<1>2. TInv'
  <2>1. ASSUME NEW d \in KnownNodes, NEW asked \in Asked, Lookup(d, asked) PROVE TInv'
    BY <1>1, <2>1, LookupTruth
  <2>2. ASSUME NEW d \in KnownNodes, Readdir(d) PROVE TInv'
    BY <1>1, <2>2, ReaddirTruth
  <2>3. ASSUME NEW e \in Depot, NEW typeFirst \in BOOLEAN, OutputStat(e, typeFirst)
        PROVE  TInv'
    BY <1>1, <2>3, OutputStatTruth
  <2>4. CASE OutputLine
    BY <1>1, <2>4, OutputLineTruth
  <2>5. CASE EndDirs
    BY <1>1, <2>5, EndDirsTruth
  <2>6. CASE EndFstat
    BY <1>1, <2>6, EndFstatTruth
  <2>7. ASSUME NEW n \in KnownNodes, Readlink(n) PROVE TInv'
    BY <1>1, <2>7, ReadlinkTruth
  <2>8. ASSUME NEW n \in KnownNodes, Open(n) PROVE TInv'
    BY <1>1, <2>8, OpenTruth
  <2>9. ASSUME NEW n \in KnownNodes, Release(n) PROVE TInv'
    BY <1>1, <2>9, ReleaseTruth
  <2>10. CASE UNCHANGED vars
    BY <2>10 DEF vars, TInv, TrueInv, ShownInv, ListedSoFar, RecordInv, AwaitsField, InUse,
              Busy, ToldSoFar, Unclaimed, RestOf
  <2> QED
    BY <2>1, <2>2, <2>3, <2>4, <2>5, <2>6, <2>7, <2>8, <2>9, <2>10 DEF Next
<1> QED
  BY <1>1, <1>2

(* A daemon starts with nothing shown, or with a root that is cut short.   *)
FreshCut == Fresh /\ (table.ent[1].bList => 1 \in cut)

LEMMA FreshTruth == FreshCut => IInv /\ TInv
<1> SUFFICES ASSUME FreshCut PROVE IInv /\ TInv
  OBVIOUS
<1>1. /\ Fresh /\ (table.ent[1].bList => 1 \in cut) /\ InUse = {1}
      /\ job.cmd = "none" /\ job.lines = <<>>
  BY DEF FreshCut, Fresh, InUse, NoJob
<1>2. IInv
  BY <1>1, FreshStart
<1>3. TInv
  BY <1>1 DEF TInv, TrueInv, ShownInv, ListedSoFar, RecordInv, Busy
<1> QED
  BY <1>2, <1>3

LEMMA InitFreshCut == Init => FreshCut
<1> SUFFICES ASSUME Init PROVE FreshCut
  OBVIOUS
<1>1. 1 \in Ids
  BY TableAssumption DEF Ids
<1>2. table.ent[1].bList = FALSE
  <2>1. table.ent[1] = InitEntry(Blank, 1)
    BY <1>1 DEF Init, InitTable, InitTableOn
  <2>2. Blank \in Entry /\ Blank.bList = FALSE
    BY DEF Blank, Entry, RootName
  <2> QED
    BY <2>1, <2>2, RootEntry DEF ResetFrom
<1>3. Fresh
  BY <1>1, BlankTable DEF Init, Fresh
<1> QED
  BY <1>2, <1>3 DEF FreshCut

LEMMA TruthInvariance == Spec => [](IInv /\ TInv)
BY InitFreshCut, FreshTruth, NextTruth, PTL DEF Spec

LEMMA TruthInvarianceR == SpecR => [](IInv /\ TInv)
<1>1. InitR => FreshCut
  BY InitFreshCut DEF InitR
<1>2. IInv /\ TInv /\ [NextR]_rvars => (IInv /\ TInv)' \/ FreshCut'
  <2> SUFFICES ASSUME IInv, TInv, [NextR]_rvars PROVE (IInv /\ TInv)' \/ FreshCut'
    OBVIOUS
  <2>1. CASE Next
    BY <2>1, NextTruth
  <2>2. CASE UNCHANGED rvars
    <3>1. UNCHANGED vars
      BY <2>2 DEF rvars, vars
    <3> QED
      BY <3>1, NextTruth
  <2>3. CASE RestartKept \/ RestartRemoved
    <3>1. Fresh'
      BY <2>3, StartFresh
    <3>2. table'.ent[1].bList => 1 \in cut'
      BY <2>3 DEF RestartKept, RestartRemoved, Start
    <3> QED
      BY <3>1, <3>2 DEF FreshCut
  <2> QED
    BY <2>1, <2>2, <2>3 DEF NextR
<1> QED
  BY <1>1, <1>2, FreshTruth, PTL DEF SpecR

(* What the invariant says of a listed directory.                          *)
LEMMA TruthListed == IInv /\ TInv => ListedTruthful
<1> SUFFICES ASSUME IInv, TInv, NEW d \in InUse, NEW name \in Names,
                    table.ent[d].bDir, table.ent[d].bList, d \notin cut
             PROVE  LET n    == FindPath(table, d, name)
                        here == {e \in Depot : e.path = Append(PathOf(table, d), name)}
                    IN  IF n = Missing THEN here = {}
                        ELSE \E e \in here : Shows(table.ent[n], e)
  BY DEF ListedTruthful, Shows
<1> DEFINE n    == FindPath(table, d, name)
           here == {e \in Depot : e.path = Append(PathOf(table, d), name)}
<1>1. /\ TreeOK(table) /\ InUse = 1 .. table.id /\ d \in Int /\ name \in Int /\ d # 0
      /\ table.id \in Nat /\ table.ent[1].parent = 0
  BY TreeFacts, NamesAreInt DEF IInv, InUse
<1>2. /\ n = Missing \/ (n \in InUse /\ table.ent[n].parent = d /\ table.ent[n].name = name)
      /\ \A m \in InUse : table.ent[m].parent = d /\ table.ent[m].name = name => n = m
  BY <1>1, FindPathFinds
<1> HIDE DEF n
<1>3. CASE n = Missing
  <2> SUFFICES ASSUME NEW e \in here PROVE FALSE
    BY <1>3 DEF n
  <2>1. e \in In(PathOf(table, d)) /\ Last(e.path) = name
    <3>1. e.path = Append(PathOf(table, d), name) /\ e \in Depot
      OBVIOUS
    <3>2. PathOf(table, d) \in Seq(Int)
      BY <1>1, PathIsSeq
    <3> QED
      BY <1>1, <3>1, <3>2, FrontOfAppend DEF In
  <2>2. Has(table, d, name)
    BY <2>1 DEF TInv, ShownInv
  <2>3. n \in InUse
    BY <1>1, <1>2, <2>2 DEF Has
  <2> QED
    BY <1>1, <1>3, <2>3 DEF Missing
<1>4. CASE n # Missing
  <2>1. /\ n \in InUse \ {1} /\ n \in 1 .. table.id
        /\ table.ent[n].parent = d /\ table.ent[n].name = name
    BY <1>1, <1>2, <1>4
  <2>2. ~AwaitsField(n)
    <3> SUFFICES ASSUME AwaitsField(n) PROVE FALSE
      OBVIOUS
    <3>1. job.dir = d /\ Busy
      BY <2>1, <1>1 DEF IInv, FieldInv, JobInv, AwaitsField, NoJob
    <3> QED
      BY <3>1 DEF IInv, JobInv
  <2>3. PICK e \in Depot : e.path = PathOf(table, n) /\ Shows(table.ent[n], e)
    BY <2>1, <2>2 DEF TInv, TrueInv, IsTrue
  <2>4. e.path = Append(PathOf(table, d), name)
    BY <1>1, <2>1, <2>3, PathOfEntry
  <2> QED
    BY <1>4, <2>3, <2>4 DEF n
<1> QED
  BY <1>3, <1>4

-----------------------------------------------------------------------------
(* The theorems.                                                           *)

(* A directory whose two commands told everything shows exactly what the   *)
(* p4 server has in it: no name is missing, none is invented, and kind and *)
(* size are those of the name's own record, although the lines of a record *)
(* come in either order and the newest entry may be filled in twice.       *)
THEOREM ListingsAreTruthful == Spec => []ListedTruthful
BY TruthInvariance, TruthListed, PTL

(* So does a directory that is listed by a daemon that was started again,  *)
(* of which no old entry but the root's mark shows anything: on removed    *)
(* files always, on kept ones unless the lengths of the dead names got the *)
(* daemon stuck, which ends the model before a name is lost.               *)
THEOREM RestartTruthful == SpecR => [](ListedTruthful /\ StuckOnKept)
BY TruthInvarianceR, TruthListed, StuckOnlyOnKept, PTL
=============================================================================
