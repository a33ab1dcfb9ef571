--------------------------- MODULE FuseWireProofs ---------------------------
(***************************************************************************)
(* Proofs about the messages: FuseLoop's assumptions hold for their real   *)
(* sizes, and a reader of a directory is given what is in it (Dirents).    *)
(***************************************************************************)
EXTENDS Dirents, Induction

CONSTANTS Ops, PreadFails, MaxReqs

(* Those of FuseLoop, which shares cur_sz with Dirents. *)
VARIABLES pc, cur, head, rbuf, num_rqs, queue_next, reads, flying, cq,
          reqs, answered, rejected

L == INSTANCE FuseLoop WITH
  BUF_SZ <- BUF_SZ, RBUF_SZ <- BUF_SZ, ALIGN <- u64,
  HDR <- fuse_out_header, IN_HDR <- fuse_in_header, OutSz <- OutKinds,
  STATFS_SZ <- fuse_statfs_out, DIRENT_SZ <- fuse_dirent, LinkSizes <- LinkBuffers,
  ReadSizes <- ReadLens, DirBytes <- Nat, ReqLens <- RequestLens

(* What the header's structures come to. *)
LEMMA Sizes ==
  /\ fuse_in_header = 40 /\ fuse_out_header = 16 /\ fuse_dirent = 24
  /\ fuse_init_out = 64 /\ fuse_attr_out = 104 /\ fuse_entry_out = 128
  /\ fuse_open_out = 16 /\ fuse_lseek_out = 8 /\ fuse_statfs_out = 80
  /\ fuse_write_in = 40
BY DEF u16, u32, u64, fuse_in_header, fuse_out_header, fuse_attr, fuse_attr_out,
       fuse_entry_out, fuse_init_out, fuse_open_out, fuse_lseek_out, fuse_kstatfs,
       fuse_statfs_out, fuse_write_in, fuse_dirent

LEMMA Replies ==
  /\ OutKinds \in [L!PrologueOps -> Nat \ {0}]
  /\ \A op \in L!PrologueOps : OutKinds[op] <= 128
BY Sizes DEF L!PrologueOps, OutKinds, u8

LEMMA Mega == MiB \in Nat /\ 4096 <= MiB
BY SMT DEF MiB

LEMMA Lengths ==
  \A l \in RequestLens : l \in Nat /\ 40 <= l /\ l <= 80 + 4 * MiB
<1>1. BUF_SZ \div 8 = 4 * MiB
  BY Mega DEF BUF_SZ
<1> QED
  BY <1>1, Sizes, Mega DEF RequestLens, max_write

LEMMA Buffers ==
  \A s \in LinkBuffers : s \in Nat /\ 128 <= s /\ s <= 4096
BY DEF LinkBuffers

(* The three assumptions of FuseLoop hold for out_buf and read_buf of      *)
(* 32 MiB (main.cpp:34), the structures of fuse_kernel.h, reads of up to   *)
(* 1 MiB, links of up to a page and WRITEs of max_write (main.cpp:404):    *)
(* what is proved of FuseLoop is true of the daemon's own sizes.           *)
THEOREM RealSizes ==
  ASSUME Ops \subseteq STRING, PreadFails \in BOOLEAN, MaxReqs \in Nat
  PROVE  L!SizesLegal /\ L!RepliesFit /\ L!RingHolds
<1>1. BUF_SZ \in Nat /\ 2 * MiB <= BUF_SZ /\ 16 * MiB <= BUF_SZ
  BY Mega DEF BUF_SZ
<1>2. L!SizesLegal
  <2>1. {BUF_SZ, u64, fuse_out_header, fuse_in_header, fuse_statfs_out, fuse_dirent}
          \subseteq Nat \ {0}
    BY <1>1, Sizes, Mega DEF u64
  <2>2. ReadLens \subseteq Nat
    BY Mega DEF ReadLens
  <2>3. LinkBuffers \subseteq Nat /\ \A s \in LinkBuffers : fuse_out_header <= s
    BY Sizes, Buffers
  <2>4. RequestLens \subseteq Nat /\ \A l \in RequestLens : fuse_in_header <= l
    BY Sizes, Lengths
  <2>5. fuse_out_header <= fuse_statfs_out
    BY Sizes
  <2> QED
    BY <2>1, <2>2, <2>3, <2>4, <2>5, Replies DEF L!SizesLegal
<1>3. L!RepliesFit
  <2>1. \A op \in L!PrologueOps : fuse_out_header + OutKinds[op] <= BUF_SZ
    BY <1>1, Sizes, Replies, Mega
  <2>2. \A s \in ReadLens \cup LinkBuffers : s \in Nat /\ s <= MiB
    <3>1. \A s \in LinkBuffers : s \in Nat /\ s <= 4096
      BY Buffers
    <3>2. \A s \in ReadLens : s \in Nat /\ s <= MiB
      BY Mega DEF ReadLens
    <3> QED
      BY <3>1, <3>2, Mega
  <2>3. \A s \in ReadLens \cup LinkBuffers : fuse_out_header + s <= BUF_SZ
    BY <1>1, <2>2, Sizes, Mega
  <2>4. /\ fuse_out_header + fuse_statfs_out <= BUF_SZ
        /\ fuse_out_header + fuse_dirent <= BUF_SZ
        /\ fuse_out_header + 1 <= BUF_SZ
    BY <1>1, Sizes, Mega
  <2> QED
    BY <2>1, <2>3, <2>4 DEF L!RepliesFit
<1>4. L!RingHolds
  BY <1>1, Lengths, Mega DEF L!RingHolds
<1> QED
  BY <1>2, <1>3, <1>4

-----------------------------------------------------------------------------
(* The bytes of a directory listing (Dirents).                             *)

LEMMA Rounding ==
  /\ FUSE_REC_ALIGN(0) = 0
  /\ \A x \in Nat : /\ FUSE_REC_ALIGN(x) \in Nat /\ FUSE_REC_ALIGN(x) % 8 = 0
                    /\ x <= FUSE_REC_ALIGN(x)
                    /\ x % 8 = 0 => FUSE_REC_ALIGN(x) = x
  /\ \A b, x \in Nat : b % 8 = 0 => FUSE_REC_ALIGN(b + x) = b + FUSE_REC_ALIGN(x)
BY DEF FUSE_REC_ALIGN, u64

(* The size of a listing that is not at a multiple of 8. *)
LEMMA RoundedDistance ==
  ASSUME NEW p \in Nat, NEW c \in Nat, p <= c
  PROVE  LET d == FUSE_REC_ALIGN(c) - FUSE_REC_ALIGN(p)
         IN  /\ d <= FUSE_REC_ALIGN(c - p) /\ FUSE_REC_ALIGN(c - p) <= d + 8
             /\ p % 8 = 0 => FUSE_REC_ALIGN(c - p) = d
BY DEF FUSE_REC_ALIGN, u64

N == Len(Lens)

LEMMA RecordSizes ==
  /\ N \in Nat /\ DOMAIN Lens = 1 .. N
  /\ \A i \in 1 .. N : /\ Lens[i] \in Nat
                       /\ DirentSize(i) \in Nat /\ DirentSize(i) % 8 = 0
                       /\ fuse_dirent + Lens[i] <= DirentSize(i)
                       /\ \A sz \in ReadSizes : DirentSize(i) <= sz
<1>1. N \in Nat /\ DOMAIN Lens = 1 .. N
  BY DirentsAssumption DEF N
<1>2. ASSUME NEW i \in 1 .. N
      PROVE  /\ Lens[i] \in Nat
             /\ DirentSize(i) \in Nat /\ DirentSize(i) % 8 = 0
             /\ fuse_dirent + Lens[i] <= DirentSize(i)
             /\ \A sz \in ReadSizes : DirentSize(i) <= sz
  <2>1. Lens[i] \in Nat
    <3> DEFINE S == 1 .. 255
    <3>1. Lens \in Seq(S) /\ \A l \in S : l \in Nat
      BY DirentsAssumption
    <3> HIDE DEF S
    <3>2. Lens[i] \in S
      BY <1>1, <3>1
    <3> QED
      BY <3>1, <3>2
  <2>2. fuse_dirent + Lens[i] \in Nat
    BY <2>1, Sizes
  <2>3. \A sz \in ReadSizes : DirentSize(i) <= sz
    BY <1>1, DirentsAssumption
  <2> QED
    BY <2>1, <2>2, <2>3, Rounding DEF DirentSize
<1> QED
  BY <1>1, <1>2

(* Where record i ends in the payload, and with it the next one begins:    *)
(* the same in every listing, wherever in out_buf it was built.            *)
IsEnds(f) == IsSums(f, [i \in 1 .. N |-> DirentSize(i)], N)
Ends == CHOOSE f : IsEnds(f)

LEMMA EndsExist ==
  /\ Ends \in [0 .. N -> Nat] /\ Ends[0] = 0
  /\ \A i \in 1 .. N : Ends[i] = Ends[i - 1] + DirentSize(i)
<1> DEFINE w == [i \in 1 .. N |-> DirentSize(i)]
<1>1. N \in Nat /\ \A i \in 1 .. N : w[i] \in Nat
  BY RecordSizes
<1>2. \E f : IsSums(f, w, N)
  <2> HIDE DEF w
  <2> QED
    BY <1>1, SumsExist
<1>3. IsSums(Ends, w, N)
  BY <1>2 DEF Ends, IsEnds
<1> QED
  BY <1>3 DEF IsSums

(* Records lie one after the other, at multiples of 8.                     *)
LEMMA EndsFacts ==
  /\ \A i \in 0 .. N : Ends[i] \in Nat /\ Ends[i] % 8 = 0
  /\ \A i \in 1 .. N : Ends[i] = Ends[i - 1] + DirentSize(i)
  /\ \A i, j \in 0 .. N : i < j => Ends[i] < Ends[j]
<1>1. /\ Ends \in [0 .. N -> Nat] /\ Ends[0] = 0
      /\ \A i \in 1 .. N : Ends[i] = Ends[i - 1] + DirentSize(i)
      /\ N \in Nat
  BY EndsExist, RecordSizes
<1>2. \A i \in 1 .. N : DirentSize(i) \in Nat /\ DirentSize(i) % 8 = 0 /\ DirentSize(i) > 0
  BY RecordSizes, Sizes
<1> DEFINE S == {k \in 0 .. N : Ends[k] % 8 = 0 /\ \A i \in 0 .. k - 1 : Ends[i] < Ends[k]}
<1>3. ASSUME NEW k \in 0 .. N, \A m \in 0 .. k - 1 : m \in S
      PROVE  k \in S
  <2>1. CASE k = 0
    BY <1>1, <2>1
  <2>2. CASE k # 0
    <3>1. k - 1 \in 0 .. k - 1 /\ k - 1 \in S /\ k \in 1 .. N
      BY <1>1, <1>3, <2>2
    <3>2. Ends[k] = Ends[k - 1] + DirentSize(k) /\ Ends[k - 1] \in Nat /\ Ends[k - 1] % 8 = 0
      BY <1>1, <3>1
    <3>3. Ends[k] % 8 = 0 /\ Ends[k - 1] < Ends[k] /\ Ends[k] \in Nat
      BY <1>2, <3>1, <3>2
    <3>4. ASSUME NEW i \in 0 .. k - 1
          PROVE  Ends[i] < Ends[k]
      <4>1. Ends[i] \in Nat
        BY <1>1
      <4>2. i = k - 1 \/ Ends[i] < Ends[k - 1]
        BY <1>1, <3>1
      <4> QED
        BY <3>2, <3>3, <4>1, <4>2
    <3> QED
      BY <3>3, <3>4
  <2> QED
    BY <2>1, <2>2
<1>4. \A k \in 0 .. N : k \in S
  <2> HIDE DEF S
  <2> QED
    BY <1>1, <1>3, UpInduction
<1> QED
  BY <1>1, <1>4

(* The inductive invariant.                                                *)

(* The records of the walk lie where every listing has them, behind the    *)
(* padding if there is any.                                                *)
RecordsPlaced ==
  \A i \in DOMAIN recs : /\ recs[i].at = FUSE_REC_ALIGN(prev) + Ends[i - 1]
                         /\ prev % 8 = 0 => recs[i].off = Ends[i]
WalkInv ==
  /\ prev <= cur_sz
  /\ FUSE_REC_ALIGN(cur_sz) = FUSE_REC_ALIGN(prev) + Ends[Len(recs)]
  /\ RecordsPlaced

(* A position is the end of the record of the last child that was given.   *)
ReaderInv ==
  /\ seen \in 0 .. N /\ pos = Ends[seen]
  /\ \A p \in told : p.seen \in 0 .. N /\ p.pos = Ends[p.seen]

(* A reply begins where the reader was, which is now some records on.      *)
Sent(j) ==
  /\ reply.from = Ends[j]
  /\ reply.to = Ends[j] + IF PayloadSize - Ends[j] < args.size THEN PayloadSize - Ends[j]
                          ELSE args.size
ReplyInv ==
  /\ phase # "kernel" => ~eof /\ args.size \in ReadSizes
  /\ phase = "walk" => args.offset = pos
  /\ phase = "parse" => /\ Len(recs) = N /\ at = pos
                        /\ \E j \in 0 .. seen : Sent(j)

DInv == TypeOK /\ WalkInv /\ ReaderInv /\ ReplyInv /\ EndIsEnd /\ OnlyMisplacedGarbles

LEMMA DirentsInit == Init => DInv
<1> SUFFICES ASSUME Init PROVE DInv
  OBVIOUS
<1>1. Ends[0] = 0 /\ N \in Nat /\ MaxSeeks \in Nat
  BY EndsExist, RecordSizes, DirentsAssumption
<1>2. recs = <<>> /\ Len(recs) = 0 /\ DOMAIN recs = {}
  BY DEF Init
<1>3. TypeOK
  <2>1. recs \in Seq([at: Nat, off: Nat]) /\ Len(recs) <= Len(Lens)
    BY <1>1, <1>2 DEF N
  <2>2. seen \in 0 .. Len(Lens) /\ told \subseteq [pos: Nat, seen: 0 .. Len(Lens)]
    <3>1. seen = 0 /\ told = {[pos |-> 0, seen |-> 0]} /\ Len(Lens) \in Nat
      BY <1>1 DEF Init, N
    <3> QED
      BY <3>1
  <2>3. args \in [offset: Nat, size: Nat] /\ reply \in [from: Nat, to: Nat]
    BY DEF Init
  <2>4. seeks \in 0 .. MaxSeeks
    BY <1>1 DEF Init
  <2>5. phase \in {"kernel", "walk", "parse"} /\ eof \in BOOLEAN /\ garbled \in BOOLEAN
    BY DEF Init
  <2>6. prev \in Nat /\ cur_sz \in Nat /\ at \in Nat /\ pos \in Nat
    BY DEF Init
  <2> QED
    BY <2>1, <2>2, <2>3, <2>4, <2>5, <2>6 DEF TypeOK
<1>4. WalkInv
  <2>1. prev = 0 /\ cur_sz = 0
    BY DEF Init
  <2>2. Ends[Len(recs)] = 0 /\ FUSE_REC_ALIGN(cur_sz) = 0 /\ FUSE_REC_ALIGN(prev) = 0
    BY <1>1, <1>2, <2>1, Rounding
  <2>3. \A i \in DOMAIN recs : FALSE
    BY <1>2
  <2> QED
    BY <2>1, <2>2, <2>3 DEF WalkInv, RecordsPlaced
<1>5. ReaderInv /\ ReplyInv /\ EndIsEnd /\ OnlyMisplacedGarbles
  BY <1>1 DEF Init, ReaderInv, ReplyInv, EndIsEnd, OnlyMisplacedGarbles
<1> QED
  BY <1>3, <1>4, <1>5 DEF DInv

(* A listing holds every record, and less than a record more. *)
LEMMA WholeListing ==
  ASSUME DInv, Len(recs) = N
  PROVE  /\ PayloadSize \in Nat /\ Ends[N] <= PayloadSize /\ PayloadSize <= Ends[N] + 8
         /\ prev % 8 = 0 => PayloadSize = Ends[N]
<1>1. /\ prev \in Nat /\ cur_sz \in Nat /\ prev <= cur_sz /\ N \in Nat
      /\ FUSE_REC_ALIGN(cur_sz) = FUSE_REC_ALIGN(prev) + Ends[N]
  BY RecordSizes DEF DInv, TypeOK, WalkInv
<1>2. Ends[N] \in Nat /\ FUSE_REC_ALIGN(prev) \in Nat /\ cur_sz - prev \in Nat
  <2>1. N \in 0 .. N /\ cur_sz - prev \in Nat
    BY <1>1
  <2>2. Ends[N] \in Nat
    BY <2>1, EndsFacts
  <2>3. FUSE_REC_ALIGN(prev) \in Nat
    BY <1>1, Rounding
  <2> QED
    BY <2>1, <2>2, <2>3
<1>3. FUSE_REC_ALIGN(cur_sz) - FUSE_REC_ALIGN(prev) = Ends[N]
  BY <1>1, <1>2
<1>4. FUSE_REC_ALIGN(cur_sz - prev) \in Nat
  BY <1>2, Rounding
<1> QED
  BY <1>1, <1>3, <1>4, RoundedDistance DEF PayloadSize

(* What a reader comes to: in a listing at a multiple of 8 the record      *)
(* after the last it was given, in any other no record.                    *)
LEMMA OffBeat ==
  ASSUME NEW b \in Nat, NEW x \in Nat, NEW y \in Nat, NEW p \in Nat,
         b % 8 = 0, x % 8 = 0, y % 8 = 0, p % 8 # 0
  PROVE  b + x - p # y
OBVIOUS

LEMMA NextRecord ==
  ASSUME DInv, phase = "parse"
  PROVE  /\ seen < N /\ prev % 8 = 0 => /\ RecordAt(at) = seen + 1
                                        /\ recs[seen + 1].off = Ends[seen + 1]
                                        /\ Ends[seen + 1] = at + DirentSize(seen + 1)
         /\ prev % 8 # 0 => RecordAt(at) = 0
         /\ seen = N => ~WholeAt(at)
         /\ seen < N /\ at = reply.from => WholeAt(at)
<1>1. /\ TypeOK /\ N \in Nat /\ Len(recs) = N /\ DOMAIN recs = 1 .. N
      /\ seen \in 0 .. N /\ at = Ends[seen] /\ args.size \in ReadSizes
      /\ args.size \in Nat /\ prev \in Nat
  BY RecordSizes DEF DInv, TypeOK, ReaderInv, ReplyInv
<1>2. PICK j \in 0 .. seen : Sent(j)
  BY <1>1 DEF DInv, ReplyInv
<1>3. /\ Ends[seen] \in Nat /\ Ends[N] \in Nat /\ Ends[j] \in Nat
      /\ Ends[j] <= Ends[seen] /\ Ends[seen] <= Ends[N] /\ Ends[seen] % 8 = 0
  <2>1. j \in 0 .. N /\ N \in 0 .. N /\ (j = seen \/ j < seen) /\ (seen = N \/ seen < N)
    BY <1>1
  <2> QED
    BY <1>1, <2>1, EndsFacts
<1>4. /\ PayloadSize \in Nat /\ Ends[N] <= PayloadSize /\ PayloadSize <= Ends[N] + 8
      /\ reply.to \in Nat /\ reply.to <= PayloadSize
  <2>1. PayloadSize \in Nat /\ Ends[N] <= PayloadSize /\ PayloadSize <= Ends[N] + 8
    BY <1>1, WholeListing
  <2> HIDE DEF PayloadSize
  <2> QED
    BY <1>1, <1>2, <1>3, <2>1 DEF Sent
<1> DEFINE base == FUSE_REC_ALIGN(prev)
<1>5. base \in Nat /\ base % 8 = 0 /\ (prev % 8 = 0 => base = prev)
  BY <1>1, Rounding
<1>6. ASSUME NEW i \in 1 .. N
      PROVE  /\ Ends[i - 1] \in Nat /\ Ends[i - 1] % 8 = 0
             /\ recs[i].at = base + Ends[i - 1]
             /\ prev % 8 = 0 => recs[i].at - prev = Ends[i - 1] /\ recs[i].off = Ends[i]
  <2>1. Ends[i - 1] \in Nat /\ Ends[i - 1] % 8 = 0
    <3>1. i - 1 \in 0 .. N
      BY <1>1
    <3> QED
      BY <1>1, <3>1, EndsFacts
  <2>2. recs[i].at = base + Ends[i - 1] /\ (prev % 8 = 0 => recs[i].off = Ends[i])
    BY <1>1 DEF DInv, WalkInv, RecordsPlaced
  <2> HIDE DEF base
  <2> QED
    BY <1>1, <1>5, <2>1, <2>2
<1> HIDE DEF base
<1>7. ASSUME seen < N
      PROVE  /\ seen + 1 \in 1 .. N /\ (seen + 1) - 1 = seen
             /\ Ends[seen + 1] = at + DirentSize(seen + 1)
             /\ Ends[seen + 1] \in Nat /\ Ends[seen + 1] <= Ends[N]
             /\ DirentSize(seen + 1) <= args.size /\ DirentSize(seen + 1) \in Nat
             /\ fuse_dirent <= DirentSize(seen + 1)
  <2>1. seen + 1 \in 1 .. N /\ (seen + 1) - 1 = seen /\ seen + 1 \in 0 .. N /\ N \in 0 .. N
        /\ (seen + 1 = N \/ seen + 1 < N)
    BY <1>1, <1>7
  <2>2. Ends[seen + 1] = at + DirentSize(seen + 1) /\ Ends[seen + 1] \in Nat
    BY <1>1, <2>1, EndsFacts
  <2>3. Ends[seen + 1] <= Ends[N]
    BY <1>3, <2>1, <2>2, EndsFacts
  <2>4. /\ DirentSize(seen + 1) <= args.size /\ DirentSize(seen + 1) \in Nat
        /\ fuse_dirent + Lens[seen + 1] <= DirentSize(seen + 1) /\ Lens[seen + 1] \in Nat
    BY <1>1, <2>1, RecordSizes
  <2>5. fuse_dirent <= DirentSize(seen + 1)
    BY <2>4, Sizes
  <2> QED
    BY <2>1, <2>2, <2>3, <2>4, <2>5
<1>8. ASSUME seen < N, prev % 8 = 0
      PROVE  RecordAt(at) = seen + 1 /\ recs[seen + 1].off = Ends[seen + 1]
  <2>1. recs[seen + 1].at - prev = at /\ recs[seen + 1].off = Ends[seen + 1]
        /\ seen + 1 \in DOMAIN recs
    BY <1>1, <1>6, <1>7, <1>8
  <2>2. ASSUME NEW i \in DOMAIN recs, recs[i].at - prev = at
        PROVE  i = seen + 1
    <3>1. Ends[i - 1] = Ends[seen] /\ i - 1 \in 0 .. N /\ i \in Int
      BY <1>1, <1>6, <1>8, <2>2
    <3>2. ~(Ends[i - 1] < Ends[seen]) /\ ~(Ends[seen] < Ends[i - 1])
      BY <1>3, <3>1
    <3>3. ~(i - 1 < seen) /\ ~(seen < i - 1)
      BY <1>1, <3>1, <3>2, EndsFacts
    <3> QED
      BY <1>1, <3>1, <3>3
  <2>3. \E i \in DOMAIN recs : recs[i].at - prev = at
    BY <2>1
  <2>4. \A i \in DOMAIN recs : recs[i].at - prev = at <=> i = seen + 1
    BY <2>1, <2>2
  <2>5. (CHOOSE i \in DOMAIN recs : recs[i].at - prev = at) = seen + 1
    BY <2>1, <2>4
  <2> QED
    BY <2>1, <2>3, <2>5 DEF RecordAt
<1>9. ASSUME prev % 8 # 0
      PROVE  RecordAt(at) = 0
  <2>1. ASSUME NEW i \in DOMAIN recs
        PROVE  recs[i].at - prev # at
    <3> PICK x : x = Ends[i - 1]
      OBVIOUS
    <3>1. x \in Nat /\ x % 8 = 0 /\ recs[i].at = base + x
      BY <1>1, <1>6
    <3>2. at \in Nat /\ at % 8 = 0
      BY <1>1, <1>3
    <3>3. base + x - prev # at
      BY <1>1, <1>5, <1>9, <3>1, <3>2, OffBeat
    <3>4. recs[i].at - prev = base + x - prev
      BY <1>1, <1>5, <3>1
    <3> QED
      BY <3>3, <3>4
  <2> QED
    BY <2>1 DEF RecordAt
<1>10. ASSUME seen = N
       PROVE  ~WholeAt(at)
  <2>1. at \in Nat /\ reply.to \in Nat /\ reply.to <= at + 8
    <3> HIDE DEF PayloadSize
    <3> QED
      BY <1>1, <1>3, <1>4, <1>10
  <2> QED
    BY <2>1, Sizes DEF WholeAt
<1>11. ASSUME seen < N, at = reply.from
       PROVE  WholeAt(at)
  <2>1. at = Ends[j] /\ at \in Nat
    BY <1>1, <1>2, <1>3, <1>11 DEF Sent
  <2>2. at + DirentSize(seen + 1) <= reply.to
    <3> PICK e, d, ps : e = Ends[N] /\ d = DirentSize(seen + 1) /\ ps = PayloadSize
      OBVIOUS
    <3>0. /\ e \in Nat /\ d \in Nat /\ ps \in Nat /\ e <= ps /\ at + d <= e /\ d <= args.size
          /\ args.size \in Nat
      BY <1>1, <1>3, <1>4, <1>7, <1>11
    <3>1. reply.to = at + IF ps - at < args.size THEN ps - at ELSE args.size
      BY <1>2, <2>1 DEF Sent
    <3>2. at + d <= reply.to
      BY <2>1, <3>0, <3>1
    <3> QED
      BY <3>2
  <2>3. at + fuse_dirent <= reply.to
    BY <1>4, <1>7, <1>11, <2>1, <2>2, Sizes
  <2>4. CASE prev % 8 = 0
    BY <1>8, <1>11, <2>2, <2>3, <2>4 DEF WholeAt
  <2>5. CASE prev % 8 # 0
    BY <1>9, <2>3, <2>5 DEF WholeAt
  <2> QED
    BY <2>4, <2>5
<1> QED
  BY <1>7, <1>8, <1>9, <1>10, <1>11

LEMMA WalkPreserves ==
  ASSUME DInv, Walk
  PROVE  DInv'
<1> DEFINE k == Len(recs)
           lo == FUSE_REC_ALIGN(cur_sz)
           hi == lo + fuse_dirent + Lens[k + 1]
<1>1. /\ phase = "walk" /\ k < N /\ cur_sz' = hi
      /\ recs' = Append(recs, [at |-> lo, off |-> FUSE_REC_ALIGN(hi - prev)])
      /\ UNCHANGED <<phase, prev, args, reply, at, pos, seen, eof, garbled, told, seeks>>
  BY DEF Walk, AllocDirs, N
<1>2. /\ TypeOK /\ WalkInv /\ ReaderInv /\ ReplyInv /\ EndIsEnd /\ OnlyMisplacedGarbles
      /\ k \in Nat /\ N \in Nat /\ k + 1 \in 1 .. N /\ k \in 0 .. N
      /\ DOMAIN recs = 1 .. k /\ (k + 1) - 1 = k
      /\ prev \in Nat /\ cur_sz \in Nat
  <2>1. TypeOK /\ WalkInv /\ ReaderInv /\ ReplyInv /\ EndIsEnd /\ OnlyMisplacedGarbles
    BY DEF DInv
  <2>2. k \in Nat /\ DOMAIN recs = 1 .. k
    <3> DEFINE S == [at: Nat, off: Nat]
    <3>1. recs \in Seq(S)
      BY <2>1 DEF TypeOK
    <3> HIDE DEF S
    <3> QED
      BY <3>1
  <2>3. prev \in Nat /\ cur_sz \in Nat
    BY <2>1 DEF TypeOK
  <2> HIDE DEF k
  <2> QED
    BY <1>1, <2>1, <2>2, <2>3, RecordSizes
<1>3. /\ Ends[k] \in Nat /\ Ends[k] % 8 = 0
      /\ Ends[k + 1] = Ends[k] + DirentSize(k + 1) /\ Ends[k + 1] \in Nat
      /\ Lens[k + 1] \in Nat
  <2>1. k + 1 \in 0 .. N
    BY <1>2
  <2> QED
    BY <1>2, <2>1, EndsFacts, RecordSizes
<1> DEFINE base == FUSE_REC_ALIGN(prev)
<1>4. /\ lo = base + Ends[k] /\ base \in Nat /\ base % 8 = 0 /\ prev <= base
      /\ prev % 8 = 0 => base = prev
  BY <1>2, Rounding DEF WalkInv
<1>5. /\ hi = base + (Ends[k] + (fuse_dirent + Lens[k + 1]))
      /\ hi \in Nat /\ prev <= hi /\ hi - prev \in Nat
  <2>1. fuse_dirent = 24 /\ Lens[k + 1] \in Nat /\ Ends[k] \in Nat /\ prev \in Nat
    BY <1>2, <1>3, Sizes
  <2>2. hi = (base + Ends[k]) + fuse_dirent + Lens[k + 1]
    BY <1>4
  <2> HIDE DEF k, lo, hi, base
  <2> QED
    BY <1>4, <2>1, <2>2
<1>6. /\ FUSE_REC_ALIGN(hi) = base + Ends[k + 1] /\ FUSE_REC_ALIGN(hi - prev) \in Nat
      /\ prev % 8 = 0 => FUSE_REC_ALIGN(hi - prev) = Ends[k + 1]
  <2>1. fuse_dirent + Lens[k + 1] \in Nat /\ Ends[k] + (fuse_dirent + Lens[k + 1]) \in Nat
    BY <1>3, Sizes
  <2>2. FUSE_REC_ALIGN(Ends[k] + (fuse_dirent + Lens[k + 1])) = Ends[k + 1]
    BY <1>3, <2>1, Rounding DEF DirentSize
  <2>3. FUSE_REC_ALIGN(hi) = base + FUSE_REC_ALIGN(Ends[k] + (fuse_dirent + Lens[k + 1]))
    <3> PICK x : x = Ends[k] + (fuse_dirent + Lens[k + 1])
      OBVIOUS
    <3>1. x \in Nat /\ hi = base + x
      BY <1>5, <2>1
    <3> HIDE DEF base, hi
    <3>2. FUSE_REC_ALIGN(base + x) = base + FUSE_REC_ALIGN(x)
      BY <1>4, <3>1, Rounding
    <3> QED
      BY <3>1, <3>2
  <2>4. prev % 8 = 0 => hi - prev = Ends[k] + (fuse_dirent + Lens[k + 1])
    <3> HIDE DEF base, hi
    <3> QED
      BY <1>2, <1>4, <1>5, <2>1
  <2> HIDE DEF k, lo, hi, base
  <2> QED
    BY <1>5, <2>2, <2>3, <2>4, Rounding
<1> DEFINE new == [at |-> lo, off |-> FUSE_REC_ALIGN(hi - prev)]
           S == [at: Nat, off: Nat]
<1>7. new \in S /\ new.at = base + Ends[k] /\ (prev % 8 = 0 => new.off = Ends[k + 1])
  <2> HIDE DEF hi, base
  <2> QED
    BY <1>3, <1>4, <1>6
<1>8. recs \in Seq(S)
  BY <1>2 DEF TypeOK
<1>9. recs' = Append(recs, new)
  BY <1>1
<1> HIDE DEF new, S
<1>10. /\ recs' \in Seq(S) /\ Len(recs') = k + 1 /\ DOMAIN recs' = 1 .. k + 1
       /\ recs'[k + 1] = new /\ \A i \in 1 .. k : recs'[i] = recs[i]
  BY <1>2, <1>7, <1>8, <1>9
<1> HIDE DEF k, lo, hi, base
<1>11. TypeOK'
  <2>1. cur_sz' \in Nat /\ Len(recs') <= Len(Lens)
    BY <1>1, <1>2, <1>5, <1>10 DEF N
  <2>2. recs' \in Seq([at: Nat, off: Nat])
    BY <1>10 DEF S
  <2> QED
    BY <1>1, <1>2, <2>1, <2>2 DEF TypeOK
<1>12. WalkInv'
  <2>1. \A i \in 1 .. k + 1 : /\ recs'[i].at = base + Ends[i - 1]
                              /\ prev % 8 = 0 => recs'[i].off = Ends[i]
    <3> TAKE i \in 1 .. k + 1
    <3>1. CASE i = k + 1
      BY <1>2, <1>7, <1>10, <3>1
    <3>2. CASE i # k + 1
      <4>1. i \in 1 .. k
        BY <1>2, <3>2
      <4> QED
        BY <1>2, <1>10, <4>1 DEF WalkInv, RecordsPlaced, base
    <3> QED
      BY <3>1, <3>2
  <2>2. prev' = prev /\ prev' <= cur_sz' /\ FUSE_REC_ALIGN(cur_sz') = base + Ends[Len(recs')]
    BY <1>1, <1>5, <1>6, <1>10
  <2>3. /\ prev' <= cur_sz'
        /\ FUSE_REC_ALIGN(cur_sz') = FUSE_REC_ALIGN(prev') + Ends[Len(recs')]
    BY <2>2 DEF base
  <2>4. RecordsPlaced'
    <3> SUFFICES ASSUME NEW i \in DOMAIN recs'
                 PROVE  /\ recs'[i].at = FUSE_REC_ALIGN(prev') + Ends[i - 1]
                        /\ prev' % 8 = 0 => recs'[i].off = Ends[i]
      BY DEF RecordsPlaced
    <3>1. i \in 1 .. k + 1
      BY <1>10
    <3>2. FUSE_REC_ALIGN(prev') = base /\ prev' = prev
      BY <2>2 DEF base
    <3>3. /\ recs'[i].at = base + Ends[i - 1]
          /\ prev % 8 = 0 => recs'[i].off = Ends[i]
      BY <2>1, <3>1
    <3> QED
      BY <3>2, <3>3
  <2> QED
    BY <2>3, <2>4 DEF WalkInv
<1>13. ReaderInv' /\ ReplyInv' /\ EndIsEnd' /\ OnlyMisplacedGarbles'
  BY <1>1, <1>2 DEF ReaderInv, ReplyInv, EndIsEnd, OnlyMisplacedGarbles
<1> QED
  BY <1>11, <1>12, <1>13 DEF DInv

LEMMA SendPreserves ==
  ASSUME DInv, SendDirents
  PROVE  DInv'
<1>1. /\ TypeOK /\ WalkInv /\ ReaderInv /\ ReplyInv /\ EndIsEnd /\ OnlyMisplacedGarbles
      /\ N \in Nat /\ seen \in 0 .. N /\ Len(recs) = N /\ args.size \in Nat
      /\ args.offset = Ends[seen] /\ args.size \in ReadSizes /\ ~eof
  BY RecordSizes DEF DInv, TypeOK, ReaderInv, ReplyInv, SendDirents, N
<1>2. Ends[seen] \in Nat /\ Ends[N] \in Nat /\ Ends[seen] <= Ends[N]
  <2>1. N \in 0 .. N /\ (seen = N \/ seen < N)
    BY <1>1
  <2> QED
    BY <1>1, <2>1, EndsFacts
<1>3. PayloadSize \in Nat /\ Ends[N] <= PayloadSize
  BY <1>1, WholeListing
<1> PICK ps : ps = PayloadSize
  OBVIOUS
<1> DEFINE len == IF ps - Ends[seen] < args.size THEN ps - Ends[seen] ELSE args.size
<1>4. /\ phase' = "parse"
      /\ reply' = [from |-> Ends[seen], to |-> Ends[seen] + len]
      /\ at' = Ends[seen]
      /\ UNCHANGED <<prev, cur_sz, recs, args, pos, seen, eof, garbled, told, seeks>>
  BY <1>1 DEF SendDirents
<1>5. TypeOK'
  <2>1. len \in Nat
    BY <1>1, <1>2, <1>3
  <2>2. reply' \in [from: Nat, to: Nat] /\ at' \in Nat
    <3> HIDE DEF len
    <3> QED
      BY <1>2, <1>4, <2>1
  <2> QED
    BY <1>1, <1>4, <2>2 DEF TypeOK
<1>6. ReplyInv'
  <2>1. Sent(seen)'
    <3>1. PayloadSize' = ps
      BY <1>4 DEF PayloadSize
    <3> QED
      BY <1>4, <3>1 DEF Sent
  <2>2. seen' \in 0 .. seen'
    BY <1>1, <1>4
  <2>3. \E j \in 0 .. seen' : Sent(j)'
    BY <1>4, <2>1, <2>2
  <2> QED
    BY <1>1, <1>4, <2>3 DEF ReplyInv, ReaderInv
<1>7. WalkInv' /\ ReaderInv' /\ EndIsEnd' /\ OnlyMisplacedGarbles'
  BY <1>1, <1>4 DEF WalkInv, RecordsPlaced, ReaderInv, EndIsEnd, OnlyMisplacedGarbles
<1> QED
  BY <1>5, <1>6, <1>7 DEF DInv

LEMMA ParsePreserves ==
  ASSUME DInv, ParseDirent
  PROVE  DInv' /\ seen' = seen + 1
<1>1. /\ TypeOK /\ WalkInv /\ ReaderInv /\ ReplyInv /\ EndIsEnd /\ OnlyMisplacedGarbles
      /\ N \in Nat /\ seen \in 0 .. N /\ phase = "parse" /\ WholeAt(at)
  BY RecordSizes DEF DInv, ReaderInv, ParseDirent
<1>2. /\ seen < N /\ RecordAt(at) = seen + 1 /\ recs[seen + 1].off = Ends[seen + 1]
      /\ Ends[seen + 1] = at + DirentSize(seen + 1)
      /\ seen + 1 \in 0 .. N /\ seen + 1 # 0
  <2>1. RecordAt(at) # 0
    BY DEF ParseDirent
  <2>2. prev % 8 = 0 /\ seen < N
    BY <1>1, <2>1, NextRecord
  <2> QED
    BY <1>1, <2>2, NextRecord
<1>3. Ends[seen + 1] \in Nat
  BY <1>2, EndsFacts
<1>4. /\ seen' = seen + 1 /\ at' = Ends[seen + 1] /\ pos' = Ends[seen + 1]
      /\ told' = told \cup {[pos |-> Ends[seen + 1], seen |-> seen + 1]}
      /\ UNCHANGED <<phase, prev, cur_sz, recs, args, reply, eof, garbled, seeks>>
  BY <1>2 DEF ParseDirent
<1>5. TypeOK'
  <2>1. seen + 1 \in 0 .. Len(Lens)
    BY <1>1, <1>2 DEF N
  <2> QED
    BY <1>1, <1>3, <1>4, <2>1 DEF TypeOK
<1>6. ReaderInv'
  BY <1>1, <1>2, <1>4 DEF ReaderInv
<1>7. ReplyInv' /\ EndIsEnd' /\ WalkInv' /\ OnlyMisplacedGarbles'
  <2>1. PICK j \in 0 .. seen : Sent(j)
    BY <1>1 DEF ReplyInv
  <2>2. j \in 0 .. seen' /\ Sent(j)'
    <3>1. j \in 0 .. seen'
      BY <1>1, <1>4, <2>1
    <3>2. PayloadSize' = PayloadSize
      BY <1>4 DEF PayloadSize
    <3> QED
      BY <1>4, <2>1, <3>1, <3>2 DEF Sent
  <2> QED
    BY <1>1, <1>4, <2>2 DEF ReplyInv, EndIsEnd, WalkInv, RecordsPlaced, OnlyMisplacedGarbles
<1> QED
  BY <1>4, <1>5, <1>6, <1>7 DEF DInv

LEMMA DirentsNext == DInv /\ [Next]_vars => DInv'
<1> SUFFICES ASSUME DInv, [Next]_vars PROVE DInv'
  OBVIOUS
<1>1. /\ TypeOK /\ WalkInv /\ ReaderInv /\ ReplyInv /\ EndIsEnd /\ OnlyMisplacedGarbles
      /\ N \in Nat /\ seen \in 0 .. N
  BY RecordSizes DEF DInv, ReaderInv
<1>2. ASSUME NEW start \in Starts, NEW size \in ReadSizes, ReaddirBegins(start, size)
      PROVE  DInv'
  <2>1. start \in Nat /\ size \in Nat
    BY DirentsAssumption
  <2>2. /\ phase = "kernel" /\ ~eof /\ ~garbled /\ phase' = "walk"
        /\ args' = [offset |-> pos, size |-> size]
        /\ prev' = start /\ cur_sz' = start /\ recs' = <<>>
        /\ UNCHANGED <<reply, at, pos, seen, eof, garbled, told, seeks>>
    BY <1>2 DEF ReaddirBegins
  <2>3. TypeOK'
    BY <1>1, <2>1, <2>2 DEF TypeOK, N
  <2>4. WalkInv'
    <3>1. prev' = start /\ cur_sz' = start /\ prev' <= cur_sz' /\ Ends[Len(recs')] = 0
      BY <2>1, <2>2, EndsExist
    <3>2. \A i \in DOMAIN recs' : FALSE
      BY <2>2
    <3>3. FUSE_REC_ALIGN(start) = FUSE_REC_ALIGN(start) + 0
      BY <2>1, Rounding
    <3> QED
      BY <3>1, <3>2, <3>3 DEF WalkInv, RecordsPlaced
  <2>5. ReaderInv' /\ ReplyInv' /\ EndIsEnd' /\ OnlyMisplacedGarbles'
    BY <1>1, <2>2 DEF ReaderInv, ReplyInv, EndIsEnd, OnlyMisplacedGarbles
  <2> QED
    BY <2>3, <2>4, <2>5 DEF DInv
<1>3. CASE Walk
  BY <1>3, WalkPreserves
<1>4. CASE SendDirents
  BY <1>4, SendPreserves
<1>5. CASE ParseDirent
  BY <1>5, ParsePreserves
<1>6. CASE ParseEnds
  <2>1. /\ phase = "parse" /\ phase' = "kernel" /\ eof' = (at = reply.from) /\ ~WholeAt(at)
        /\ UNCHANGED <<prev, cur_sz, recs, args, reply, at, pos, seen, garbled, told, seeks>>
    BY <1>6 DEF ParseEnds
  <2>2. eof' => seen = N
    <3>1. seen < N \/ seen = N
      BY <1>1
    <3>2. seen < N => at # reply.from
      BY <2>1, NextRecord
    <3> QED
      BY <2>1, <3>1, <3>2
  <2>3. TypeOK' /\ WalkInv' /\ ReaderInv' /\ ReplyInv' /\ OnlyMisplacedGarbles'
    BY <1>1, <2>1 DEF TypeOK, WalkInv, RecordsPlaced, ReaderInv, ReplyInv, OnlyMisplacedGarbles
  <2> QED
    BY <2>1, <2>2, <2>3 DEF DInv, EndIsEnd, N
<1>7. ASSUME NEW p \in told, Seek(p)
      PROVE  DInv'
  <2>1. /\ phase = "kernel" /\ seeks < MaxSeeks /\ seeks' = seeks + 1
        /\ pos' = p.pos /\ seen' = p.seen /\ eof' = FALSE /\ garbled' = FALSE
        /\ UNCHANGED <<phase, prev, cur_sz, recs, args, reply, at, told>>
    BY <1>7 DEF Seek
  <2>2. p.seen \in 0 .. N /\ p.pos = Ends[p.seen]
    BY <1>1 DEF ReaderInv
  <2>3. p.pos \in Nat
    BY <2>2, EndsFacts
  <2>4. TypeOK'
    <3>1. seeks' \in 0 .. MaxSeeks
      BY <1>1, <2>1, DirentsAssumption DEF TypeOK
    <3>2. seen' \in 0 .. Len(Lens)
      BY <1>1, <2>1, <2>2 DEF N
    <3> QED
      BY <1>1, <2>1, <2>3, <3>1, <3>2 DEF TypeOK
  <2>5. WalkInv' /\ ReaderInv' /\ ReplyInv' /\ EndIsEnd' /\ OnlyMisplacedGarbles'
    BY <1>1, <2>1, <2>2 DEF WalkInv, RecordsPlaced, ReaderInv, ReplyInv, EndIsEnd, OnlyMisplacedGarbles
  <2> QED
    BY <2>4, <2>5 DEF DInv
<1>8. CASE UNCHANGED vars
  BY <1>1, <1>8 DEF vars, DInv, TypeOK, WalkInv, RecordsPlaced, ReaderInv, ReplyInv, Sent, PayloadSize,
                    EndIsEnd, OnlyMisplacedGarbles
<1>9. CASE ParseGarbage
  <2>1. /\ phase = "parse" /\ phase' = "kernel" /\ RecordAt(at) = 0 /\ WholeAt(at)
        /\ UNCHANGED <<prev, cur_sz, recs, args, reply, at, pos, seen, eof, told, seeks>>
        /\ garbled' = TRUE
    BY <1>9 DEF ParseGarbage
  <2>2. prev % 8 # 0
    <3>1. seen < N
      BY <1>1, <2>1, NextRecord
    <3>2. seen + 1 # 0
      BY <1>1
    <3> QED
      BY <2>1, <3>1, <3>2, NextRecord
  <2>3. TypeOK' /\ WalkInv' /\ ReaderInv' /\ ReplyInv' /\ EndIsEnd'
    BY <1>1, <2>1 DEF TypeOK, WalkInv, RecordsPlaced, ReaderInv, ReplyInv, EndIsEnd
  <2> QED
    BY <2>1, <2>2, <2>3 DEF DInv, OnlyMisplacedGarbles
<1> QED
  BY <1>2, <1>3, <1>4, <1>5, <1>6, <1>7, <1>8, <1>9 DEF Next

LEMMA DirentsInvariance == Spec => []DInv
BY DirentsInit, DirentsNext, PTL DEF Spec

(* The state of the daemon's listing and of its reader keeps its types: in *)
(* particular what a reader was given last is always a child.              *)
THEOREM DirentsTypeCorrect == Spec => []TypeOK
BY DirentsInvariance, PTL DEF DInv

(* A reader is told that a directory is over (a reply without a whole      *)
(* record, main.cpp:668-672) only when it was given every child.           *)
THEOREM EndIsTrue == Spec => []EndIsEnd
BY DirentsInvariance, PTL DEF DInv

LEMMA InsideOfDInv == DInv => OffsetInside
<1> SUFFICES ASSUME DInv, phase = "walk", Len(recs) = Len(Lens)
             PROVE  args.offset <= PayloadSize
  BY DEF OffsetInside
<1>1. /\ args.offset = Ends[seen] /\ seen \in 0 .. N /\ N \in Nat
      /\ PayloadSize \in Nat /\ Ends[N] <= PayloadSize
  BY RecordSizes, WholeListing DEF DInv, ReaderInv, ReplyInv, N
<1>2. N \in 0 .. N /\ (seen = N \/ seen < N)
  BY <1>1
<1>3. Ends[seen] \in Nat /\ Ends[N] \in Nat /\ Ends[seen] <= Ends[N]
  BY <1>1, <1>2, EndsFacts
<1> QED
  BY <1>1, <1>3

(* The unsigned subtraction of main.cpp:668 never wraps: the offset, told  *)
(* in an earlier listing, is never past the end of this one.               *)
THEOREM OffsetsInside == Spec => []OffsetInside
BY DirentsInvariance, InsideOfDInv, PTL

(* Bytes that are no record reach the reader only from a listing that does *)
(* not begin at a multiple of 8 of out_buf (the chunks of RELEASE, READ    *)
(* and the like leave cur_sz there): the offset it is read from, told by a *)
(* listing built elsewhere, and the size of the read never are the reason. *)
THEOREM MisplacedGarbles == Spec => []OnlyMisplacedGarbles
BY DirentsInvariance, PTL DEF DInv

LEMMA StepInOrder ==
  DInv /\ [Next]_vars => [phase = "parse" /\ phase' = "parse" => seen' = seen + 1]_vars
<1> SUFFICES ASSUME DInv, [Next]_vars, phase = "parse", phase' = "parse", ~UNCHANGED vars
             PROVE  seen' = seen + 1
  OBVIOUS
<1>1. CASE ParseDirent
  BY <1>1, ParsePreserves
<1>2. /\ ~Walk /\ ~SendDirents /\ ~ParseEnds /\ ~ParseGarbage
      /\ ~\E start \in Starts, size \in ReadSizes : ReaddirBegins(start, size)
      /\ ~\E p \in told : Seek(p)
  BY DEF Walk, SendDirents, ReaddirBegins, Seek, ParseEnds, ParseGarbage
<1> QED
  BY <1>1, <1>2 DEF Next

(* Whatever the sizes of the replies, wherever in out_buf each listing was *)
(* built and wherever the reader went back to, each record it is given is  *)
(* the next child's: the off of a record is where the next one begins in   *)
(* every later listing at a multiple of 8, and a listing that is at none   *)
(* gives no child.                                                         *)
THEOREM GivenInOrder == Spec => EachInOrder
BY DirentsInvariance, StepInOrder, PTL DEF Spec, EachInOrder
=============================================================================
