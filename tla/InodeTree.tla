----------------------------- MODULE InodeTree -----------------------------
(***************************************************************************)
(* The inode table of p4fuse (inode_store.cpp) and the one writer of it,   *)
(* MyClientUser::OutputInfo (main.cpp), as operators on a table.           *)
(*                                                                         *)
(* The table is an array of entries that is at the same time a binary      *)
(* search tree ordered by (parent, name): entry 1 is the root of the tree  *)
(* and the root directory.  A link or a node number 0 means none.          *)
(*                                                                         *)
(* A name is an integer, ordered as strncmp and the lengths order the byte *)
(* strings; RootName is the name "/" of entry 1.  Names longer than eight  *)
(* bytes lie in the arena (NameStore has its bytes): here it is counted    *)
(* what they take, and given up once it is not whole.  The reuse of        *)
(* numbers is not modelled: tables hold at most MaxId.                     *)
(***************************************************************************)
EXTENDS Integers, Sequences

CONSTANTS
  MaxId,        \* bound: entries the model's array can hold
  FirstTotal,   \* entries mapped by init_table (1 << 10)
  LongNames,    \* names that lie in the arena, and their bytes
  ArenaSz       \* bytes of the arena at the start (1 << 16)

RootName == 0

(* Parents fit in an s32: cmp_node() returns their u32 difference as one.  *)
S32Max == 2147483647
ASSUME TableAssumption ==
  /\ MaxId \in Nat \ {0} /\ MaxId <= S32Max
  /\ FirstTotal \in Nat /\ FirstTotal > 1
  /\ ArenaSz \in Nat /\ RootName \notin DOMAIN LongNames
  /\ \A x \in DOMAIN LongNames : LongNames[x] \in 1 .. ArenaSz

Ids == 0 .. MaxId
Missing == -1   \* find_path's bit 32

Entry == [name: Int, parent: Nat, bDir: BOOLEAN, bSym: BOOLEAN, bList: BOOLEAN,
          size: Nat, left: Nat, right: Nat, opened_file: Int, refcnt: Nat]

Arena == [head: Nat, cur: Nat, size: Nat, whole: BOOLEAN]

(* A page of the file inf.temp that was never written. *)
Blank == [name |-> RootName, parent |-> 0, bDir |-> FALSE, bSym |-> FALSE, bList |-> FALSE,
          size |-> 0, left |-> 0, right |-> 0, opened_file |-> 0, refcnt |-> 0]

(* Mutant: the root is also marked as not listed. *)
InitEntryUnlisted(e, i) ==
  IF i >= FirstTotal THEN Blank
  ELSE IF i = 1 THEN [e EXCEPT !.name = RootName, !.parent = 0, !.bDir = TRUE,
                               !.bList = FALSE, !.left = 0, !.right = 0]
  ELSE e

(* What init_table() leaves of entry i of an earlier run's file: the file  *)
(* is cut to FirstTotal entries and six fields of the root are set anew.   *)
InitEntry(e, i) ==
  IF i >= FirstTotal THEN Blank
  ELSE IF i = 1 THEN [e EXCEPT !.name = RootName, !.parent = 0, !.bDir = TRUE,
                               !.left = 0, !.right = 0]
  ELSE e

(* init_table() on the entries the file inf.temp holds. *)
InitTableOn(ent) ==
  [id |-> 1, total |-> FirstTotal, ent |-> [i \in Ids |-> InitEntry(ent[i], i)],
   arena |-> [head |-> 0, cur |-> 0, size |-> ArenaSz, whole |-> TRUE]]
InitTable == InitTableOn([i \in Ids |-> Blank])

(* Mutant: the names alone are compared. *)
CmpNames(e, parent, name) == name - e.name

(* cmp_node(): negative goes left, positive goes right. *)
CmpNode(e, parent, name) ==
  IF parent # e.parent THEN parent - e.parent ELSE name - e.name

(* The link to follow from an entry to reach a name, if it is not the one. *)
Side(e, parent, name) ==
  LET c == CmpNode(e, parent, name)
  IN  IF c = 0 THEN "found" ELSE IF c < 0 THEN "left" ELSE "right"

(* The descent shared by find_path() and find_or_insert_path(): the entry  *)
(* where it ends and on which side, if any, the name would be linked.      *)
Descend(t, parent, name) ==
  LET walk[n \in Ids] ==
        LET side == Side(t.ent[n], parent, name)
        IN  IF side = "found" \/ t.ent[n][side] = 0 THEN [node |-> n, side |-> side]
            ELSE walk[t.ent[n][side]]
  IN  walk[1]

FindPath(t, parent, name) ==
  LET d == Descend(t, parent, name)
  IN  IF d.side # "found" THEN Missing ELSE d.node

(* Mutant: the arena does not grow. *)
TakenNoGrowth(a, old, new) ==
  [head |-> a.head + old, cur |-> a.cur + new, size |-> a.size,
   whole |-> a.whole /\ (new > 0 => a.head + old <= a.cur + new /\ a.cur + new <= a.size)]

(* The arena after a number was handed out: the bytes of the entry's old   *)
(* name are given back, those of the new one taken.  It is not whole when  *)
(* head is in front of cur, where desired - head wraps and no size is      *)
(* enough, and when names of this run, all of which are in use, overlap.   *)
Taken(a, old, new) ==
  LET head == a.head + old
      cur  == a.cur + new
      size == IF new > 0 /\ cur - head >= a.size THEN 2 * a.size ELSE a.size
  IN  [head |-> head, cur |-> cur, size |-> size,
       whole |-> a.whole /\ (new > 0 => head <= cur /\ cur <= size)]

(* The bytes a name has in the arena, and those an entry says it has. *)
Stored(name) == IF name \in DOMAIN LongNames THEN LongNames[name] ELSE 0
Held(t, id) == IF id \in Ids THEN Stored(t.ent[id].name) ELSE 0

(* Mutant: the array grows one entry too late. *)
NewInodeLate(t, name) ==
  LET id == t.id + 1
  IN  [t EXCEPT !.id = id, !.total = IF id > t.total THEN 2 * t.total ELSE t.total,
                !.arena = Taken(t.arena, Held(t, id), Stored(name))]

(* next_id() and new_inode(): the next number; the mapped part of the      *)
(* array doubles when it is full.  The entry itself keeps what it held:    *)
(* of it slen is read, which says what a dead run's name had in the arena  *)
(* of that run, and given back to this one (gen is 1 from the first        *)
(* number on).                                                             *)
NewInode(t, name) ==
  LET id == t.id + 1
  IN  [t EXCEPT !.id = id, !.total = IF id >= t.total THEN 2 * t.total ELSE t.total,
                !.arena = Taken(t.arena, Held(t, id), Stored(name))]

(* find_or_insert_path(): the table with the new entry linked, and its     *)
(* number; the caller fills the entry in.                                  *)
LinkAt(t, at, name) ==
  IF at.side = "found" THEN [t |-> t, node |-> at.node]
  ELSE IF at.side = "left"
  THEN [t |-> [NewInode(t, name) EXCEPT !.ent[at.node].left = t.id + 1], node |-> t.id + 1]
  ELSE [t |-> [NewInode(t, name) EXCEPT !.ent[at.node].right = t.id + 1], node |-> t.id + 1]
FindOrInsert(t, parent, name) == LinkAt(t, Descend(t, parent, name), name)

(* Mutant: the walk prunes the wrong side. *)
ChildrenPruned(t, parent) ==
  LET walk[n \in Ids] ==
        IF n = 0 THEN <<>>
        ELSE LET e == t.ent[n]
             IN  IF e.parent = parent THEN <<n>> \o walk[e.left] \o walk[e.right]
                 ELSE IF e.parent > parent THEN walk[e.right] ELSE walk[e.left]
  IN  walk[1]

(* find_all_with_parent(): the children of a directory in the order the    *)
(* walk meets them, which is the order READDIR's offsets count in.         *)
Children(t, parent) ==
  LET walk[n \in Ids] ==
        IF n = 0 THEN <<>>
        ELSE LET e == t.ent[n]
             IN  IF e.parent = parent THEN <<n>> \o walk[e.left] \o walk[e.right]
                 ELSE IF e.parent < parent THEN walk[e.right] ELSE walk[e.left]
  IN  walk[1]

(* build_path(): the names from the root down to a node. *)
PathOf(t, node) ==
  LET up[n \in Ids] == IF n = 0 THEN <<>> ELSE Append(up[t.ent[n].parent], t.ent[n].name)
  IN  up[node]

-----------------------------------------------------------------------------
(* OutputInfo(): what one line of the output of a p4 command does to the   *)
(* table.  s holds the table and the members name and node of p4u: the     *)
(* entry the current record's fields go to, 0 when it has none yet.        *)

(* Mutant: bSym is left to the line with the type. *)
FilledKeepsSym(e, dir, name, isDir) ==
  [e EXCEPT !.name = name, !.parent = dir, !.bDir = isDir,
            !.bList = FALSE, !.left = 0, !.right = 0]

(* What a new entry is filled with; size, opened_file and refcnt are not   *)
(* touched.                                                                *)
Filled(e, dir, name, isDir) ==
  [e EXCEPT !.name = name, !.parent = dir, !.bDir = isDir, !.bSym = FALSE,
            !.bList = FALSE, !.left = 0, !.right = 0]

(* Mutant: the entry is filled in whether it is the newest or not. *)
NewestAny(r) == TRUE

(* The entry of a name, if it is the newest of the table (table->id): it   *)
(* is then taken for one this call has just made and filled in.            *)
Newest(r) == r.node = r.t.id
ClaimEntry(s, r, dir, name, isDir) ==
  IF ~Newest(r) THEN [s EXCEPT !.t = r.t, !.node = 0]
  ELSE [s EXCEPT !.t = [r.t EXCEPT !.ent[r.node] = Filled(@, dir, name, isDir)],
                 !.node = r.node]
Claim(s, dir, name, isDir) ==
  ClaimEntry(s, FindOrInsert(s.t, dir, name), dir, name, isDir)

(* A field of the current record goes to its entry, if it has one. *)
SetField(s, line) ==
  IF s.node = 0 THEN s
  ELSE IF line.tag = "size" THEN [s EXCEPT !.t.ent[s.node].size = line.val]
  ELSE [s EXCEPT !.t.ent[s.node].bSym = line.val]

(* Mutant: a new record does not begin with no entry. *)
OutputInfoKeeps(s, dir, line) ==
  CASE line.tag = "dir"       -> Claim([s EXCEPT !.name = line.val], dir, line.val, TRUE)
    [] line.tag = "depotFile" -> [s EXCEPT !.name = line.val]
    [] OTHER -> SetField(IF s.node = 0 THEN Claim(s, dir, s.name, FALSE) ELSE s, line)

(* A line is a directory, the name of a file, or one of its fields: size   *)
(* for fileSize, bSym for headType.                                        *)
OutputInfo(s, dir, line) ==
  CASE line.tag = "dir"       -> Claim([s EXCEPT !.name = line.val], dir, line.val, TRUE)
    [] line.tag = "depotFile" -> [s EXCEPT !.name = line.val, !.node = 0]
    [] OTHER -> SetField(IF s.node = 0 THEN Claim(s, dir, s.name, FALSE) ELSE s, line)
=============================================================================
