----------------------------- MODULE NameStore -----------------------------
(***************************************************************************)
(* Where the inode table keeps names (inode_store.cpp): numbers are handed *)
(* out in order and, at the end of their range, again from 2 on; a name    *)
(* longer than eight bytes lies in a circular arena of bytes, which is a   *)
(* file mapped twice in a row, so that a chunk may run over its end.  The  *)
(* arena gives a name back when its number is handed out again, and        *)
(* doubles when it is full.                                                *)
(*                                                                         *)
(* The first number handed out begins generation 1, so new_inode() always  *)
(* reads the length its entry has, also where no name of this run was: on  *)
(* the files of a dead run (main.cpp:837 keeps what is in them) that is    *)
(* the length of a dead name, which this arena never took in.              *)
(*                                                                         *)
(* InodeTree has the tree; here a name is its length and the serial number *)
(* of the insertion, a byte of it <<serial, position>>.  The widths are    *)
(* parameters, the arithmetic is theirs.                                   *)
(***************************************************************************)
EXTENDS Integers, FiniteSetsExt

CONSTANTS
  NumIds,      \* values of a number, a u32 (2^32)
  NumGens,     \* values of inode_entry_t.gen (2^16)
  NumLens,     \* values of inode_entry_t.slen and of name_len (2^8)
  Inline,      \* bytes of a name an entry holds itself (8)
  ArenaSz,     \* size of the arena at the start (1 << 16)
  FirstTotal,  \* entries of the table at the start (1 << 10)
  NameLens,    \* lengths of the names inserted
  MaxInserts   \* bound: insertions

RESERVED_INODES == 2
Numbers == 0 .. NumIds - 1

(* One doubling always makes room for a name.  That a length fits in its   *)
(* field is assumed of the depot: "max filename size of 256"               *)
(* (inode_store.cpp:20) is one too many for it.                            *)
ASSUME NameStoreAssumption ==
  /\ {NumIds, NumGens, NumLens, Inline, ArenaSz} \subseteq Nat \ {0}
  /\ RESERVED_INODES < NumIds
  /\ FirstTotal \in RESERVED_INODES .. NumIds
  /\ Inline < NumLens /\ NumLens <= ArenaSz
  /\ NameLens \subseteq 1 .. NumLens - 1
  /\ MaxInserts \in Nat

VARIABLES
  id, gen,     \* inode_table_t.id and .gen
  ent,         \* the entries: length, generation, and the union of name and offset
  data,        \* the cells of the arena's file
  allocsz,     \* str_arena.allocsz
  head, cur,   \* str_arena.head and .cur
  hung,        \* an insertion does not come back
  names,       \* history: the names inserted: number, generation, length
  turned,      \* history: the arena grew after chunks had gone round its end
  given,       \* history: bytes of dead runs' names given back to this arena
  overrun      \* history: a chunk was taken where a name in use lies

vars == <<id, gen, ent, data, allocsz, head, cur, hung, names, turned, given, overrun>>

(* init_table().  The entries of numbers 2 to last have the lengths that a *)
(* dead run left there, of which only the first FirstTotal are kept; on    *)
(* new files last is 1.  Nothing else of an old entry is read before it is *)
(* written.                                                                *)
Init ==
  /\ id = 1 /\ gen = 0
  /\ \E last \in 1 .. FirstTotal - 1 : \E old \in [2 .. last -> NameLens] :
       ent = [n \in Numbers |-> [slen |-> IF n \in 2 .. last THEN old[n] ELSE 0,
                                gen |-> 0, off |-> 0, serial |-> 0]]
  /\ data = [c \in 0 .. ArenaSz - 1 |-> <<0, 0>>]
  /\ allocsz = ArenaSz /\ head = 0 /\ cur = 0
  /\ hung = FALSE /\ names = [s \in {} |-> <<>>]
  /\ turned = FALSE /\ given = 0 /\ overrun = FALSE

(* Mutant: only 0 is reserved. *)
NextIdOne == IF (id + 1) % NumIds = 0 THEN 1 ELSE id + 1

(* next_id(): the loop skips the reserved numbers; each time round begins  *)
(* a generation.                                                           *)
NextId == IF (id + 1) % NumIds < RESERVED_INODES THEN RESERVED_INODES ELSE id + 1

(* Mutant: the test for the first number is off by one. *)
NextGenNever(lid) == IF lid < RESERVED_INODES THEN gen + 1 ELSE gen

NextGen(lid) == IF lid = RESERVED_INODES THEN gen + 1 ELSE gen

Long(slen) == slen > Inline

(* Mutant: nothing is given back. *)
GiveBackNothing(lid, g) == head

(* The entry's old name, if it was in the arena, is the oldest there.      *)
GiveBack(lid, g) ==
  IF g # 0 /\ Long(ent[lid].slen) THEN head + ent[lid].slen ELSE head

(* Mutant: the arena does not grow. *)
RoomNever(sz, hd) == allocsz

(* arena_alloc_chunk_atomic() and the loop around it: the size the arena   *)
(* has when the chunk is taken.                                            *)
Room(sz, hd) == IF cur + sz - hd >= allocsz THEN 2 * allocsz ELSE allocsz

(* The file after ftruncate(): what was in it and zeros. *)
Extended(size) ==
  [c \in 0 .. size - 1 |-> IF c \in DOMAIN data THEN data[c] ELSE <<0, 0>>]

(* Mutant: the arena is mapped once. *)
CellOnce(off, k, size) == off + k

(* A chunk may run over the end of the arena into its second mapping.      *)
Cell(off, k, size) == (off + k) % size

(* A new entry and the memcpy of its name: insertion s.                    *)
PutInArena(lid, g, s, slen) ==
  LET size == Room(slen, head')
      off  == cur % size
      old  == Extended(size)
  IN  /\ allocsz' = size
      /\ cur' = cur + slen
      /\ turned' = (turned \/ (size # allocsz /\ cur > allocsz))
      /\ overrun' = (overrun \/ cur' - (head' - given') > size)
      /\ data' = [c \in 0 .. size - 1 |->
                    IF \E k \in 0 .. slen - 1 : Cell(off, k, size) = c
                    THEN <<s, CHOOSE k \in 0 .. slen - 1 : Cell(off, k, size) = c>>
                    ELSE old[c]]
      /\ ent' = [ent EXCEPT ![lid] = [slen |-> slen, gen |-> g % NumGens,
                                      off |-> off, serial |-> 0]]

(* A name that fits in the entry. *)
PutInEntry(lid, g, s, slen) ==
  /\ ent' = [ent EXCEPT ![lid] = [slen |-> slen, gen |-> g % NumGens, off |-> 0, serial |-> s]]
  /\ UNCHANGED <<data, allocsz, cur, turned, overrun>>

OfDeadRun(lid) == \A s \in DOMAIN names : names[s].id # lid

(* What every insertion begins with. *)
TakeNumber(lid, g) ==
  /\ id' = lid /\ gen' = g
  /\ head' = GiveBack(lid, g)
  /\ given' = IF OfDeadRun(lid) THEN given + (head' - head) ELSE given

(* desired - head (line 115) is unsigned: with head in front of it no size *)
(* is enough, and the loop that doubles the arena never ends.              *)
Endless(len, hd) == Long(len) /\ cur + len < hd

(* new_inode() and what OutputInfo() does to the new entry's name. *)
NewInode(len) ==
  LET lid  == NextId
      g    == NextGen(lid)
      s    == Cardinality(DOMAIN names) + 1
  IN  /\ ~hung /\ s <= MaxInserts
      /\ TakeNumber(lid, g)
      /\ ~Endless(len, head')
      /\ names' = [i \in 1 .. s |-> IF i = s THEN [id |-> lid, gen |-> g % NumGens, len |-> len]
                                    ELSE names[i]]
      /\ IF Long(len) THEN PutInArena(lid, g, s, len) ELSE PutInEntry(lid, g, s, len)
      /\ hung' = FALSE

(* new_inode() does not come back. *)
NewInodeHangs(len) ==
  /\ ~hung /\ Cardinality(DOMAIN names) < MaxInserts
  /\ TakeNumber(NextId, NextGen(NextId))
  /\ Endless(len, head')
  /\ hung' = TRUE
  /\ UNCHANGED <<ent, data, allocsz, cur, names, turned, overrun>>

Next == \E len \in NameLens : NewInode(len) \/ NewInodeHangs(len)

Spec == Init /\ [][Next]_vars
-----------------------------------------------------------------------------
(* Properties.                                                             *)

(* Of its own names the arena never gives back more than it took.          *)
TypeOK ==
  /\ id \in 1 .. NumIds - 1 /\ (id = 1 => gen = 0) /\ gen \in Nat
  /\ ent \in [Numbers -> [slen: 0 .. NumLens - 1, gen: 0 .. NumGens - 1,
                          off: 0 .. allocsz - 1, serial: 0 .. MaxInserts]]
  /\ DOMAIN data = 0 .. allocsz - 1
  /\ head \in Nat /\ given \in Nat /\ head - given \in 0 .. cur
  /\ {hung, turned, overrun} \subseteq BOOLEAN

(* Names whose number has not been handed out again. *)
Live == {s \in DOMAIN names : \A t \in DOMAIN names : t > s => names[t].id # names[s].id}

(* node_name() and slen give back what was inserted. *)
Reads(s) ==
  LET e == ent[names[s].id]
  IN  /\ e.slen = names[s].len
      /\ IF Long(e.slen)
         THEN \A k \in 0 .. e.slen - 1 : data[(e.off + k) % allocsz] = <<s, k>>
         ELSE e.serial = s

(* No name is overwritten by another or cut by the growth of the arena,    *)
(* however names in the entries and names in the arena alternate, also     *)
(* where head was moved by dead names, as long as no chunk was taken where *)
(* a name in use lies: the order of the tree and every path rest on it.    *)
(* Growth does not move what lies in the arena, so this ends when the      *)
(* arena grows after chunks have gone round its end.                       *)
NamesIntact == ~turned /\ ~overrun => \A s \in Live : Reads(s)

(* On new files head never runs ahead: every insertion comes back and no   *)
(* chunk is taken where a name in use lies; and nothing goes round the end *)
(* of an arena that grows before numbers are used again.                   *)
SafeOnNewFiles == given = 0 => ~hung /\ ~overrun /\ (turned => gen > 1)

(* The arena holds the long names that are in use, and is short of exactly *)
(* the dead names it was given back: head moves by what falls out of use   *)
(* in this run and by those, and by nothing else.                          *)
ArenaExact ==
  ~hung => cur + given - head
             = MapThenSumSet(LAMBDA s : names[s].len, {s \in Live : Long(names[s].len)})

(* fuse_kernel.h:601: "nodeid:gen must be unique for the fs's lifetime".   *)
PairsUnique ==
  \A s, t \in DOMAIN names :
    names[s].id = names[t].id /\ names[s].gen = names[t].gen => s = t
=============================================================================
