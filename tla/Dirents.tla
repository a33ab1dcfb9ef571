------------------------------ MODULE Dirents ------------------------------
(***************************************************************************)
(* The bytes of a directory listing: how READDIR (main.cpp 629-674) lays   *)
(* its records out with alloc_dirs() (315-326), which part of them one     *)
(* reply carries, and how the kernel takes a reply apart and asks for the  *)
(* next part.                                                              *)
(*                                                                         *)
(* The daemon keeps nothing between two READDIRs: it builds the listing    *)
(* again, wherever out_buf has room, and sends the part that begins at the *)
(* offset the kernel asks for, which is one the daemon told it (fuse_dirent*)
(* .off).  Sizes are the real ones, in bytes.                              *)
(*                                                                         *)
(* Records lie at multiples of 8 of out_buf, the payload begins wherever   *)
(* the header ends (FuseLoop's RecordsAligned says that this differs).  At *)
(* such a place the payload begins with padding, and what the kernel takes *)
(* for a record is none.                                                   *)
(*                                                                         *)
(* The children and their order stay the same (P4Fs, ListingStable); a     *)
(* record that does not fit in out_buf is FuseLoop's Die.                  *)
(***************************************************************************)
EXTENDS FuseWire, Sequences

CONSTANTS
  Lens,       \* lengths of the names of the children, in the order of the walk
  Starts,     \* where in out_buf the payload of a reply may begin
  ReadSizes,  \* values of fuse_read_in.size
  MaxSeeks    \* bound: how often the reader goes back

(* FUSE_DIRENT_SIZE of child i. *)
DirentSize(i) == FUSE_REC_ALIGN(fuse_dirent + Lens[i])

(* p4's names are taken to be shorter than 256 bytes, as the store does    *)
(* (inode_store.cpp:20); every record then fits in the smallest buffer, a  *)
(* page, that the kernel reads a directory with.                           *)
ASSUME DirentsAssumption ==
  /\ Lens \in Seq(1 .. 255)
  /\ Starts \subseteq Nat
  /\ ReadSizes \subseteq Nat
  /\ \A i \in DOMAIN Lens, sz \in ReadSizes : DirentSize(i) <= sz
  /\ MaxSeeks \in Nat

VARIABLES
  phase,   \* "kernel": between replies, "walk": in the handler, "parse": reply there
  prev,    \* the handler's t: where the payload begins in out_buf
  cur_sz,  \* the end of what is allocated in out_buf
  recs,    \* the records of the walk so far: where they are and their off
  args,    \* offset and size of the fuse_read_in
  reply,   \* the part of the payload that was sent: [from, to)
  at,      \* how far the kernel has parsed it
  pos,     \* the kernel's position in the directory (ctx->pos)
  seen,    \* history: the last child the reader was given
  eof,     \* the reader was told that the directory is over
  garbled, \* the kernel took bytes for a record that are none
  told,    \* history: the positions the reader knows, with what was seen then
  seeks    \* bound: how often it went back

vars == <<phase, prev, cur_sz, recs, args, reply, at, pos, seen, eof, garbled, told, seeks>>

Init ==
  /\ phase = "kernel"
  /\ prev = 0 /\ cur_sz = 0 /\ recs = <<>>
  /\ args = [offset |-> 0, size |-> 0] /\ reply = [from |-> 0, to |-> 0]
  /\ at = 0 /\ pos = 0 /\ seen = 0 /\ eof = FALSE /\ garbled = FALSE
  /\ told = {[pos |-> 0, seen |-> 0]} /\ seeks = 0

-----------------------------------------------------------------------------
(* The daemon.                                                             *)

(* FUSE_READDIR arrives; the fuse_dirent of the prologue's chunk is given  *)
(* back, the walk begins.                                                  *)
ReaddirBegins(start, size) ==
  /\ phase = "kernel" /\ ~eof /\ ~garbled
  /\ phase' = "walk"
  /\ args' = [offset |-> pos, size |-> size]
  /\ prev' = start /\ cur_sz' = start /\ recs' = <<>>
  /\ UNCHANGED <<reply, at, pos, seen, eof, garbled, told, seeks>>

(* Mutants: off is not rounded; off counts from the start of out_buf; its  *)
(* operands are swapped; off is where the record itself begins.            *)
AllocDirsAt(lo, hi, off) ==
  /\ cur_sz' = hi
  /\ recs' = Append(recs, [at |-> lo, off |-> off])
AllocDirsUnrounded ==
  LET lo == FUSE_REC_ALIGN(cur_sz)
      hi == lo + fuse_dirent + Lens[Len(recs) + 1]
  IN  AllocDirsAt(lo, hi, hi - prev)
AllocDirsAbsolute ==
  LET lo == FUSE_REC_ALIGN(cur_sz)
      hi == lo + fuse_dirent + Lens[Len(recs) + 1]
  IN  AllocDirsAt(lo, hi, FUSE_REC_ALIGN(hi))
AllocDirsSwapped ==
  LET lo == FUSE_REC_ALIGN(cur_sz)
      hi == lo + fuse_dirent + Lens[Len(recs) + 1]
  IN  AllocDirsAt(lo, hi, FUSE_REC_ALIGN(prev - hi))

AllocDirsItself ==
  LET lo == FUSE_REC_ALIGN(cur_sz)
      hi == lo + fuse_dirent + Lens[Len(recs) + 1]
  IN  AllocDirsAt(lo, hi, FUSE_REC_ALIGN(lo - prev))

(* alloc_dirs(): the record of the next child. *)
AllocDirs ==
  LET lo == FUSE_REC_ALIGN(cur_sz)
      hi == lo + fuse_dirent + Lens[Len(recs) + 1]
  IN  /\ cur_sz' = hi
      /\ recs' = Append(recs, [at |-> lo, off |-> FUSE_REC_ALIGN(hi - prev)])

Walk ==
  /\ phase = "walk" /\ Len(recs) < Len(Lens)
  /\ AllocDirs
  /\ UNCHANGED <<phase, prev, args, reply, at, pos, seen, eof, garbled, told, seeks>>

(* Mutant: the payload ends where the last record does. *)
PayloadUnrounded == cur_sz - prev

(* ss: the size of the whole listing. *)
PayloadSize == FUSE_REC_ALIGN(cur_sz - prev)

(* The walk is over: send_message_offs() of what is asked for. ss - offset *)
(* is unsigned; OffsetInside says that it does not wrap.                   *)
SendDirents ==
  LET rest == PayloadSize - args.offset
      len  == IF rest < args.size THEN rest ELSE args.size
  IN  /\ phase = "walk" /\ Len(recs) = Len(Lens)
      /\ phase' = "parse"
      /\ reply' = [from |-> args.offset, to |-> args.offset + len]
      /\ at' = args.offset
      /\ UNCHANGED <<prev, cur_sz, recs, args, pos, seen, eof, garbled, told, seeks>>

-----------------------------------------------------------------------------
(* The kernel.                                                             *)

(* The record that lies at a place of the payload, 0 if none does.         *)
RecordAt(p) ==
  IF \E i \in DOMAIN recs : recs[i].at - prev = p
  THEN CHOOSE i \in DOMAIN recs : recs[i].at - prev = p
  ELSE 0

(* A fuse_dirent is there in full. *)
WholeAt(p) ==
  /\ p + fuse_dirent <= reply.to
  /\ RecordAt(p) # 0 => p + DirentSize(RecordAt(p)) <= reply.to

(* The next record goes to the reader; its off is the new position.        *)
ParseDirent ==
  /\ phase = "parse" /\ WholeAt(at)
  /\ LET i == RecordAt(at)
     IN  /\ i # 0
         /\ seen' = i
         /\ at' = at + DirentSize(i)
         /\ pos' = recs[i].off
         /\ told' = told \cup {[pos |-> pos', seen |-> i]}
  /\ UNCHANGED <<phase, prev, cur_sz, recs, args, reply, eof, garbled, seeks>>

(* Bytes that are no record are taken for one.  Whether that is an error,  *)
(* a name nobody has or an early end depends on what lies there; the model *)
(* follows the reader no further, until it goes back.                      *)
ParseGarbage ==
  /\ phase = "parse" /\ WholeAt(at) /\ RecordAt(at) = 0
  /\ phase' = "kernel" /\ garbled' = TRUE
  /\ UNCHANGED <<prev, cur_sz, recs, args, reply, at, pos, seen, eof, told, seeks>>

(* No whole record is left; a reply without any is the end.                *)
ParseEnds ==
  /\ phase = "parse" /\ ~WholeAt(at)
  /\ phase' = "kernel"
  /\ eof' = (at = reply.from)
  /\ UNCHANGED <<prev, cur_sz, recs, args, reply, at, pos, seen, garbled, told, seeks>>

(* seekdir() and rewinddir(): back to a position the reader was told.      *)
Seek(p) ==
  /\ phase = "kernel" /\ p \in told
  /\ seeks < MaxSeeks /\ seeks' = seeks + 1
  /\ pos' = p.pos /\ seen' = p.seen /\ eof' = FALSE /\ garbled' = FALSE
  /\ UNCHANGED <<phase, prev, cur_sz, recs, args, reply, at, told>>

Next ==
  \/ \E start \in Starts, size \in ReadSizes : ReaddirBegins(start, size)
  \/ Walk
  \/ SendDirents
  \/ ParseDirent
  \/ ParseGarbage
  \/ ParseEnds
  \/ \E p \in told : Seek(p)

(* The reader reads on and the daemon answers.                             *)
Fairness ==
  WF_vars(\/ \E start \in Starts, size \in ReadSizes : ReaddirBegins(start, size)
          \/ Walk \/ SendDirents \/ ParseDirent \/ ParseGarbage \/ ParseEnds)

Spec == Init /\ [][Next]_vars
FairSpec == Spec /\ Fairness
-----------------------------------------------------------------------------
(* Properties.                                                             *)

TypeOK ==
  /\ phase \in {"kernel", "walk", "parse"}
  /\ prev \in Nat /\ cur_sz \in Nat
  /\ recs \in Seq([at: Nat, off: Nat]) /\ Len(recs) <= Len(Lens)
  /\ args \in [offset: Nat, size: Nat]
  /\ reply \in [from: Nat, to: Nat]
  /\ at \in Nat /\ pos \in Nat /\ seen \in 0 .. Len(Lens) /\ eof \in BOOLEAN
  /\ garbled \in BOOLEAN
  /\ told \subseteq [pos: Nat, seen: 0 .. Len(Lens)]
  /\ seeks \in 0 .. MaxSeeks

(* Whatever the sizes of the reads and wherever in out_buf the listings    *)
(* were built, a reader is given the children one after the other: none    *)
(* twice, none skipped, nothing else.  A listing that is not at a multiple *)
(* of 8 gives it no child at all, which garbled says.                      *)
EachInOrder ==
  [][phase = "parse" /\ phase' = "parse" => seen' = seen + 1]_vars

(* Only a listing that is not at a multiple of 8 has bytes the kernel      *)
(* takes for a record and that are none, wherever the listings before it   *)
(* were built, which told the offset it is read from.                      *)
OnlyMisplacedGarbles == garbled => prev % 8 # 0

(* The end of a directory is told only when every child was given: a reply *)
(* that carries no whole record is not mistaken for the end.  (Where       *)
(* garbled is set the kernel may come to an early end: that is not eof.)   *)
EndIsEnd == eof => seen = Len(Lens)

(* main.cpp:668: the unsigned ss - read_in.offset never wraps, although ss *)
(* is computed anew and the offset comes from an earlier listing, which    *)
(* was built elsewhere: at a multiple of 8, or it would have told nothing. *)
OffsetInside ==
  phase = "walk" /\ Len(recs) = Len(Lens) => args.offset <= PayloadSize

(* A reader that keeps reading comes to the end, or to a listing that is   *)
(* not at a multiple of 8.                                                 *)
ReadsToEnd == <>[](eof \/ garbled)
=============================================================================
