------------------------------ MODULE FuseLoop ------------------------------
(***************************************************************************)
(* The event loop of the p4fuse daemon (main.cpp): one thread that reads   *)
(* FUSE requests from /dev/fuse into the ring read_buf, serves them one    *)
(* after the other in process_commands(), builds every reply in out_buf    *)
(* and hands it to the kernel as an asynchronous io_uring write.           *)
(*                                                                         *)
(* Three actors share the state: the loop, the kernel completing the read  *)
(* that is in flight (it writes read_buf), and the kernel completing the   *)
(* writes that are in flight (it reads out_buf).  Completions are posted   *)
(* in any order and consumed in the order they were posted.                *)
(*                                                                         *)
(* What a handler does to the inode table is the subject of P4Fs; here a   *)
(* handler is what it does to the two buffers and the counters, with every *)
(* early return.  A request carries the one number its buffer use depends  *)
(* on, "arg": the size of a READ, the buffer a READLINK ends up needing,   *)
(* the bytes of the records a READDIR produces.                            *)
(***************************************************************************)
EXTENDS Integers, Sequences, FiniteSets

CONSTANTS
  BUF_SZ,       \* bytes of out_buf (BUF_SZ, 1 << 25, in the code)
  RBUF_SZ,      \* bytes of read_buf (the same BUF_SZ in the code)
  ALIGN,        \* alignment of a directory record (8)
  HDR,          \* sizeof(fuse_out_header)
  IN_HDR,       \* sizeof(fuse_in_header)
  OutSz,        \* size of the reply structure of each opcode of PrologueOps
  STATFS_SZ,    \* sizeof(fuse_statfs_out)
  DIRENT_SZ,    \* sizeof(fuse_dirent)
  LinkSizes,    \* the buffer sizes READLINK tries, 128 << k
  ReadSizes,    \* values of fuse_read_in.size
  DirBytes,     \* bytes of the records of a whole directory, padding included
  ReqLens,      \* values of hdr.len
  Ops,          \* opcodes the clients of the mount use
  PreadFails,   \* whether pread() on an opened file may return -1
  MaxReqs       \* bound: requests the kernel delivers

(* Opcodes whose handler starts with FUSE_MESSAGE_PROLOGUE and then sends. *)
PrologueOps ==
  {"INIT", "GETATTR", "LSEEK", "FLUSH", "ACCESS", "OPEN", "RELEASE", "LOOKUP"}

(* Opcodes answered with a bare header carrying -ENOSYS. *)
NosysOps == {"GETXATTR", "LISTXATTR", "IOCTL", "OPENDIR"}

(* Opcodes that are consumed without a reply. *)
SilentOps == {"INTERRUPT", "FORGET", "BATCH_FORGET"}

KnownOps == PrologueOps \cup NosysOps \cup SilentOps
              \cup {"STATFS", "READLINK", "READDIR", "READ"}

(* The sizes are those of C objects; a request holds at least its header,  *)
(* and READLINK's buffers and fuse_statfs_out are no smaller than the      *)
(* header of a reply.                                                      *)
SizesLegal ==
  /\ {BUF_SZ, RBUF_SZ, ALIGN, HDR, IN_HDR, STATFS_SZ, DIRENT_SZ} \subseteq Nat \ {0}
  /\ OutSz \in [PrologueOps -> Nat \ {0}]
  /\ ReadSizes \subseteq Nat /\ DirBytes \subseteq Nat
  /\ LinkSizes \subseteq Nat /\ \A s \in LinkSizes : HDR <= s
  /\ ReqLens \subseteq Nat /\ \A l \in ReqLens : IN_HDR <= l
  /\ HDR <= STATFS_SZ
  /\ Ops \subseteq STRING
  /\ PreadFails \in BOOLEAN
  /\ MaxReqs \in Nat
ASSUME SizesAssumption == SizesLegal

(* Every single reply fits in an empty out_buf, except a READDIR of a huge *)
(* directory: the kernel's own limits (1 MiB reads, PATH_MAX links) are    *)
(* far below 32 MiB.                                                       *)
RepliesFit ==
  /\ \A op \in PrologueOps : HDR + OutSz[op] <= BUF_SZ
  /\ \A s \in ReadSizes \cup LinkSizes : HDR + s <= BUF_SZ
  /\ HDR + STATFS_SZ <= BUF_SZ /\ HDR + DIRENT_SZ <= BUF_SZ /\ HDR + 1 <= BUF_SZ
ASSUME RepliesFitAssumption == RepliesFit

(* INIT negotiates max_write = BUF_SZ >> 3, so three requests of any       *)
(* length fit in read_buf.                                                 *)
RingHolds == \A l \in ReqLens : 3 * l <= RBUF_SZ
ASSUME RingAssumption == RingHolds

VARIABLES
  pc,           \* "wait": at io_uring_wait_cqes; "serve": in process_commands
                \* "down": the process has exited or crashed
  cur, head,    \* bytes of the request stream served / received
  rbuf,         \* read_buf: which byte of which request each cell holds
  cur_sz,       \* bytes of out_buf handed out by alloc_chunk
  num_rqs,      \* the code's count of replies not yet completed
  queue_next,   \* back-pressure: process_commands returned -2
  reads,        \* reads of /dev/fuse in flight
  flying,       \* replies in flight: the kernel may still read their bytes
  cq,           \* completion queue of the ring
  reqs,         \* history: the requests the kernel delivered
  answered,     \* history: requests whose reply the kernel accepted
  rejected      \* history: requests whose reply the kernel refused

loopVars   == <<pc, queue_next>>
inVars     == <<cur, head, rbuf, reads, reqs>>
outVars    == <<cur_sz, num_rqs, flying>>
kernelVars == <<cq, answered, rejected>>
vars == <<pc, cur, head, rbuf, cur_sz, num_rqs, queue_next, reads, flying, cq,
          reqs, answered, rejected>>

NoReply == [n |-> 0, lo |-> 0, hi |-> 0, ok |-> FALSE, pad |-> 0]

(* A reply: the request it answers, the chunk [lo, hi) of out_buf written  *)
(* for it, whether its length is at least a header, and how far the first  *)
(* directory record lies from the start of the payload that is sent.       *)
Reply == [n: Nat, lo: Nat, hi: Nat, ok: BOOLEAN, pad: Nat]

Cqe == [kind: {"open", "read", "reply"}, res: Int, reply: Reply]

Request == [op: STRING, arg: Nat, len: Nat, at: Nat]

(* The cell of read_buf that byte k of a read starting at cell th lands in *)
(* (the read's two iovecs: th to the end of the buffer, then its start).   *)
Slot(th, k) == IF k < RBUF_SZ - th THEN th + k ELSE k - (RBUF_SZ - th)

AlignUp(x) == ((x + ALIGN - 1) \div ALIGN) * ALIGN

ArgsOf(op) ==
  CASE op = "READ"     -> ReadSizes
    [] op = "READLINK" -> LinkSizes
    [] op = "READDIR"  -> DirBytes
    [] OTHER           -> {0}

-----------------------------------------------------------------------------
(* The daemon starts its loop after waiting for /dev/fuse to be opened.    *)
Init ==
  /\ pc = "wait"
  /\ cur = 0 /\ head = 0
  /\ rbuf = [i \in 0 .. RBUF_SZ - 1 |-> <<0, 0>>]
  /\ cur_sz = 0 /\ num_rqs = 0 /\ queue_next = FALSE
  /\ reads = {} /\ flying = {}
  /\ \E res \in {-1, 3} : cq = <<[kind |-> "open", res |-> res, reply |-> NoReply]>>
  /\ reqs = <<>> /\ answered = {} /\ rejected = {}

-----------------------------------------------------------------------------
(* The kernel.                                                             *)

(* A read completes with exactly one request, copied through the iovecs.   *)
KernelRead(r, op, arg, len) ==
  /\ r \in reads
  /\ Len(reqs) < MaxReqs
  /\ len <= r.room
  /\ LET n == Len(reqs) + 1 IN
     /\ reqs' = Append(reqs, [op |-> op, arg |-> arg, len |-> len, at |-> head])
     /\ rbuf' = [i \in 0 .. RBUF_SZ - 1 |->
                   IF \E k \in 0 .. len - 1 : Slot(r.th, k) = i
                   THEN <<n, CHOOSE k \in 0 .. len - 1 : Slot(r.th, k) = i>>
                   ELSE rbuf[i]]
  /\ reads' = reads \ {r}
  /\ cq' = Append(cq, [kind |-> "read", res |-> len, reply |-> NoReply])
  /\ UNCHANGED <<loopVars, outVars, cur, head, answered, rejected>>

(* A read fails, as it does when the mount is taken down.                  *)
KernelReadFails(r) ==
  /\ r \in reads
  /\ reads' = reads \ {r}
  /\ cq' = Append(cq, [kind |-> "read", res |-> -1, reply |-> NoReply])
  /\ UNCHANGED <<loopVars, outVars, cur, head, rbuf, reqs, answered, rejected>>

(* A write completes: the kernel has read the reply out of out_buf.  It    *)
(* refuses one that is shorter than a header.                              *)
KernelTakesReply(w) ==
  /\ w \in flying
  /\ flying' = flying \ {w}
  /\ cq' = Append(cq, [kind |-> "reply", res |-> 0, reply |-> w])
  /\ IF w.ok
     THEN answered' = answered \cup {w.n} /\ UNCHANGED rejected
     ELSE rejected' = rejected \cup {w.n} /\ UNCHANGED answered
  /\ UNCHANGED <<loopVars, inVars, cur_sz, num_rqs>>

-----------------------------------------------------------------------------
(* The main loop: one action per kind of completion.                       *)

Consume(kind) ==
  /\ pc = "wait"
  /\ cq # <<>>
  /\ Head(cq).kind = kind
  /\ cq' = Tail(cq)

(* queue_read() with the given value of head.                              *)
QueueRead(hd) ==
  LET th == hd % RBUF_SZ
  IN  reads' = reads \cup {[th |-> th, room |-> (RBUF_SZ - th) + cur]}

(* case 30: mount, then start reading; a failed open makes mount fail.     *)
OnOpened ==
  /\ Consume("open")
  /\ IF Head(cq).res < 0
     THEN pc' = "down" /\ UNCHANGED reads
     ELSE QueueRead(head) /\ UNCHANGED pc
  /\ UNCHANGED <<outVars, cur, head, rbuf, reqs, queue_next, answered, rejected>>

(* Mutants of OnRead: the result is added unchecked; the next read is      *)
(* queued before head moves; no read is queued while replies are in flight.*)
OnReadUnchecked ==
  /\ Consume("read")
  /\ head' = head + Head(cq).res
  /\ IF queue_next
     THEN UNCHANGED <<pc, reads>>
     ELSE QueueRead(head') /\ pc' = "serve"
  /\ UNCHANGED <<outVars, cur, rbuf, reqs, queue_next, answered, rejected>>

OnReadStaleHead ==
  /\ Consume("read")
  /\ IF Head(cq).res < 0
     THEN pc' = "down" /\ UNCHANGED <<head, reads>>
     ELSE /\ head' = head + Head(cq).res
          /\ IF queue_next
             THEN UNCHANGED <<pc, reads>>
             ELSE QueueRead(head) /\ pc' = "serve"
  /\ UNCHANGED <<outVars, cur, rbuf, reqs, queue_next, answered, rejected>>

OnReadThrottled ==
  /\ Consume("read")
  /\ IF Head(cq).res < 0
     THEN pc' = "down" /\ UNCHANGED <<head, reads>>
     ELSE /\ head' = head + Head(cq).res
          /\ IF queue_next
             THEN UNCHANGED <<pc, reads>>
             ELSE /\ IF num_rqs > 0 THEN UNCHANGED reads ELSE QueueRead(head')
                  /\ pc' = "serve"
  /\ UNCHANGED <<outVars, cur, rbuf, reqs, queue_next, answered, rejected>>

(* case 1: unless stalled, queue the next read and serve what is there.    *)
OnRead ==
  /\ Consume("read")
  /\ IF Head(cq).res < 0
     THEN pc' = "down" /\ UNCHANGED <<head, reads>>
     ELSE /\ head' = head + Head(cq).res
          /\ IF queue_next
             THEN UNCHANGED <<pc, reads>>
             ELSE QueueRead(head') /\ pc' = "serve"
  /\ UNCHANGED <<outVars, cur, rbuf, reqs, queue_next, answered, rejected>>

(* Mutants of OnReply: out_buf is emptied by every completion; it is never *)
(* emptied; the stall is never lifted; lifting it queues another read.     *)
OnReplyEager ==
  /\ Consume("reply")
  /\ num_rqs' = num_rqs - 1 /\ cur_sz' = 0 /\ queue_next' = FALSE
  /\ UNCHANGED <<inVars, pc, flying, answered, rejected>>

OnReplyNoReset ==
  /\ Consume("reply")
  /\ num_rqs' = num_rqs - 1
  /\ queue_next' = (queue_next /\ num_rqs' # 0)
  /\ UNCHANGED <<inVars, pc, cur_sz, flying, answered, rejected>>

OnReplyKeepsStall ==
  /\ Consume("reply")
  /\ num_rqs' = num_rqs - 1
  /\ cur_sz' = IF num_rqs' = 0 THEN 0 ELSE cur_sz
  /\ UNCHANGED <<inVars, pc, queue_next, flying, answered, rejected>>

OnReplyRequeues ==
  /\ Consume("reply")
  /\ num_rqs' = num_rqs - 1
  /\ IF num_rqs' = 0
     THEN cur_sz' = 0 /\ queue_next' = FALSE
     ELSE UNCHANGED <<cur_sz, queue_next>>
  /\ IF queue_next /\ num_rqs' = 0 THEN QueueRead(head) ELSE UNCHANGED reads
  /\ UNCHANGED <<cur, head, rbuf, reqs, pc, flying, answered, rejected>>

(* case 2: the last completion empties out_buf and lifts the stall.        *)
OnReply ==
  /\ Consume("reply")
  /\ num_rqs' = num_rqs - 1
  /\ IF num_rqs' = 0
     THEN cur_sz' = 0 /\ queue_next' = FALSE
     ELSE UNCHANGED <<cur_sz, queue_next>>
  /\ UNCHANGED <<inVars, pc, flying, answered, rejected>>

-----------------------------------------------------------------------------
(* process_commands(): one action per group of handlers.                   *)

(* The request whose header is decoded at cur; bytes that are not the      *)
(* start of a request decode as an opcode the daemon does not know.        *)
CurN == rbuf[cur % RBUF_SZ][1]
CurReq ==
  IF CurN \in DOMAIN reqs /\ rbuf[cur % RBUF_SZ][2] = 0
  THEN reqs[CurN]
  ELSE [op |-> "garbage", arg |-> 0, len |-> IN_HDR, at |-> 0]

(* Mutant: a request is complete only when another byte follows it.        *)
HasCommandLate == cur + IN_HDR <= head /\ cur + CurReq.len < head

(* A whole request is there. *)
HasCommand == cur + IN_HDR <= head /\ cur + CurReq.len <= head

(* return -1: wait for more bytes. *)
OutOfCommands ==
  /\ pc = "serve" /\ ~HasCommand
  /\ pc' = "wait"
  /\ UNCHANGED <<inVars, outVars, kernelVars, queue_next>>

Serving(ops) == pc = "serve" /\ HasCommand /\ CurReq.op \in ops

(* alloc_chunk(sz, 1) does not return NULL. *)
Fits(sz) == cur_sz + sz <= BUF_SZ

(* The reply to the current request, in the chunk from cur_sz to hi. *)
ReplyTo(hi, ok, pad) == [n |-> CurN, lo |-> cur_sz, hi |-> hi, ok |-> ok, pad |-> pad]

(* Mutant: num_rqs++ forgotten.                                            *)
SendUncounted(hi, ok, pad) ==
  /\ flying' = flying \cup {ReplyTo(hi, ok, pad)}
  /\ cur_sz' = hi
  /\ cur' = cur + CurReq.len
  /\ UNCHANGED <<loopVars, kernelVars, head, rbuf, reads, reqs, num_rqs>>

(* Mutants: the request stays at cur; cur moves by the size of the header; *)
(* cur moves over everything received.                                     *)
SendTo(c, hi, ok, pad) ==
  /\ flying' = flying \cup {ReplyTo(hi, ok, pad)}
  /\ num_rqs' = num_rqs + 1
  /\ cur_sz' = hi
  /\ cur' = c
  /\ UNCHANGED <<loopVars, kernelVars, head, rbuf, reads, reqs>>
SendStays(hi, ok, pad)   == SendTo(cur, hi, ok, pad)
SendHdrOnly(hi, ok, pad) == SendTo(cur + IN_HDR, hi, ok, pad)
SendAll(hi, ok, pad)     == SendTo(head, hi, ok, pad)

(* num_rqs++, send_message(outh), cur += hdr.len. *)
Send(hi, ok, pad) ==
  /\ flying' = flying \cup {ReplyTo(hi, ok, pad)}
  /\ num_rqs' = num_rqs + 1
  /\ cur_sz' = hi
  /\ cur' = cur + CurReq.len
  /\ UNCHANGED <<loopVars, kernelVars, head, rbuf, reads, reqs>>

(* return -2: what the handler had already allocated stays allocated, the  *)
(* request stays at cur, and the loop stops reading.                       *)
Stall(leak) ==
  /\ pc' = "wait" /\ queue_next' = TRUE
  /\ cur_sz' = cur_sz + leak
  /\ UNCHANGED <<inVars, kernelVars, num_rqs, flying>>

(* A NULL chunk is written to, or the process exits. *)
Die ==
  /\ pc' = "down"
  /\ UNCHANGED <<inVars, outVars, kernelVars, queue_next>>

(* INIT, GETATTR, LSEEK, FLUSH, ACCESS, OPEN, RELEASE, LOOKUP. *)
ServePrologue ==
  /\ Serving(PrologueOps)
  /\ LET sz == HDR + OutSz[CurReq.op] IN
     \/ Fits(sz) /\ Send(cur_sz + sz, TRUE, 0)
     \/ ~Fits(sz) /\ Stall(0)

(* GETXATTR, LISTXATTR, IOCTL, OPENDIR: a bare header. *)
ServeNosys ==
  /\ Serving(NosysOps)
  /\ \/ Fits(HDR) /\ Send(cur_sz + HDR, TRUE, 0)
     \/ ~Fits(HDR) /\ Stall(0)

(* STATFS: the second chunk is used without a test for NULL. *)
ServeStatfs ==
  /\ Serving({"STATFS"})
  /\ \/ Fits(HDR + STATFS_SZ) /\ Send(cur_sz + HDR + STATFS_SZ, TRUE, 0)
     \/ ~Fits(HDR) /\ Stall(0)
     \/ Fits(HDR) /\ ~Fits(HDR + STATFS_SZ) /\ Die

(* READLINK: the buffer doubles until the target fits; when it cannot grow *)
(* the header and the sizes already taken stay allocated.                  *)
ServeReadlink ==
  /\ Serving({"READLINK"})
  /\ LET got == {s \in LinkSizes : s < CurReq.arg /\ Fits(HDR + s)} IN
     \/ Fits(HDR + CurReq.arg) /\ Send(cur_sz + HDR + CurReq.arg, TRUE, 0)
     \/ ~Fits(HDR) /\ Stall(0)
     \/ Fits(HDR) /\ got = {} /\ ~Fits(HDR + CurReq.arg) /\ Stall(HDR)
     \/ /\ ~Fits(HDR + CurReq.arg)
        /\ \E s \in got : (\A s2 \in got : s2 <= s) /\ Stall(HDR + s)

(* READDIR: the records start at the next ALIGN boundary of out_buf, the   *)
(* payload at the end of the header; a record that does not fit is written *)
(* through NULL.                                                           *)
ServeReaddir ==
  /\ Serving({"READDIR"})
  /\ LET t   == cur_sz + HDR
         pad == IF CurReq.arg = 0 THEN 0 ELSE AlignUp(t) - t
         end == t + pad + CurReq.arg IN
     \/ ~Fits(HDR + DIRENT_SZ) /\ Stall(0)
     \/ Fits(HDR + DIRENT_SZ) /\ end <= BUF_SZ /\ Send(end, TRUE, pad)
     \/ Fits(HDR + DIRENT_SZ) /\ end > BUF_SZ /\ Die

(* READ: a failed pread makes the reply one byte shorter than a header.    *)
ServeRead ==
  /\ Serving({"READ"})
  /\ \/ ~Fits(HDR + 1) /\ Stall(0)
     \/ Fits(HDR + 1) /\ ~Fits(HDR + CurReq.arg) /\ Stall(HDR)
     \/ /\ Fits(HDR + 1) /\ Fits(HDR + CurReq.arg)
        /\ \E ok \in {TRUE, ~PreadFails} : Send(cur_sz + HDR + CurReq.arg, ok, 0)

(* INTERRUPT, FORGET, BATCH_FORGET. *)
ServeSilent ==
  /\ Serving(SilentOps)
  /\ cur' = cur + CurReq.len
  /\ UNCHANGED <<loopVars, outVars, kernelVars, head, rbuf, reads, reqs>>

(* default: exit_group. *)
ServeUnknown == pc = "serve" /\ HasCommand /\ CurReq.op \notin KnownOps /\ Die

-----------------------------------------------------------------------------
Loop ==
  \/ OnOpened \/ OnRead \/ OnReply \/ OutOfCommands
  \/ ServePrologue \/ ServeNosys \/ ServeStatfs \/ ServeReadlink
  \/ ServeReaddir \/ ServeRead \/ ServeSilent \/ ServeUnknown

Kernel ==
  \/ \E r \in reads : KernelReadFails(r)
  \/ \E r \in reads, op \in Ops : \E arg \in ArgsOf(op), len \in ReqLens :
       KernelRead(r, op, arg, len)
  \/ \E w \in flying : KernelTakesReply(w)

Next == Loop \/ Kernel

(* The daemon keeps running and the kernel completes every write it was    *)
(* given.  Nobody has to send another request.                             *)
Fairness ==
  /\ WF_vars(Loop)
  /\ \A n \in 1 .. MaxReqs : WF_vars(\E w \in flying : w.n = n /\ KernelTakesReply(w))

Spec == Init /\ [][Next]_vars
FairSpec == Spec /\ Fairness
-----------------------------------------------------------------------------
(* Properties.                                                             *)

(* Every variable has its type (main.cpp's globals and ring contents).     *)
TypeOK ==
  /\ pc \in {"wait", "serve", "down"}
  /\ cur \in Nat /\ head \in Nat /\ cur_sz \in Nat /\ num_rqs \in Nat
  /\ queue_next \in BOOLEAN
  /\ rbuf \in [0 .. RBUF_SZ - 1 -> Nat \X Nat]
  /\ reads \subseteq [th: 0 .. RBUF_SZ - 1, room: Nat]
  /\ flying \subseteq Reply
  /\ cq \in Seq(Cqe)
  /\ reqs \in Seq(Request)
  /\ answered \subseteq Nat /\ rejected \subseteq Nat

(* Replies whose write has completed but whose completion the loop has not *)
(* consumed, and all replies the loop must count.                          *)
PostedAt == {i \in DOMAIN cq : cq[i].kind = "reply"}
Posted == {cq[i].reply : i \in PostedAt}
Outstanding == flying \cup Posted

(* num_rqs is exactly the number of replies submitted and not yet          *)
(* consumed: no handler forgets to count one and no completion is counted  *)
(* twice.  The reset of out_buf relies on it.                              *)
NumRqsExact == num_rqs = Cardinality(flying) + Cardinality(PostedAt)

(* A reply the kernel may still read is never handed out again: the chunks *)
(* of replies in flight lie inside the allocated part of out_buf and no    *)
(* two of them overlap, although out_buf is emptied over and over.         *)
RepliesIntact ==
  /\ cur_sz <= BUF_SZ
  /\ \A w \in flying : w.lo + HDR <= w.hi /\ w.hi <= cur_sz
  /\ \A w1, w2 \in flying : w1 # w2 => w1.hi <= w2.lo \/ w2.hi <= w1.lo

(* The loop stalls only while a reply is outstanding: process_commands     *)
(* returns -2 only for lack of room that some completion will give back,   *)
(* so a stall never waits for nothing.                                     *)
StallHasReply == queue_next => num_rqs > 0

(* Every byte received and not yet served is in read_buf where             *)
(* process_commands looks for it: the read that is in flight while         *)
(* commands are served or wait never overwrites a request not yet served.  *)
RingIntact ==
  \A n \in DOMAIN reqs :
    \A k \in 0 .. reqs[n].len - 1 :
      LET c == reqs[n].at + k IN
      cur <= c => rbuf[c % RBUF_SZ] = <<n, k>>

(* At most one read is in flight or waiting to be consumed, and it lands   *)
(* exactly behind the last byte received, with room for any request.       *)
OneRead ==
  /\ Cardinality(reads) + Cardinality({i \in DOMAIN cq : cq[i].kind # "reply"}) <= 1
  /\ \A r \in reads : /\ r.th = head % RBUF_SZ
                      /\ \A l \in ReqLens : l <= r.room

(* The loop stops reading /dev/fuse only with a request it has not served: *)
(* with nothing to serve a read is always queued, so no new request is     *)
(* ever missed by an idle daemon.                                          *)
IdleIsListening ==
  pc = "wait" /\ cur = head =>
    reads # {} \/ \E i \in DOMAIN cq : cq[i].kind # "reply"

(* No reply is sent twice: a request is in flight, posted, answered or     *)
(* refused in only one way, even when its handler ran more than once       *)
(* because of return -2.                                                   *)
RepliedOnce ==
  /\ \A w1, w2 \in flying : w1.n = w2.n => w1 = w2
  /\ \A w \in flying : w.n \notin answered \cup rejected

(* cur only moves over requests that are complete in read_buf, and never   *)
(* past what was received.                                                 *)
ServesWholeRequests ==
  [][cur' # cur => /\ cur' <= head
                   /\ \E n \in DOMAIN reqs : /\ cur = reqs[n].at
                                             /\ cur' = cur + reqs[n].len]_vars

(* A stall is always lifted (unless the daemon ends): the outstanding      *)
(* replies complete and the last completion resets queue_next.             *)
StallLifted == queue_next ~> (~queue_next \/ pc = "down")

(* fuse_kernel.h:527 marks one opcode, FORGET, "no reply"; its batch form  *)
(* and INTERRUPT are not waited for either.  Every other request that was  *)
(* delivered is eventually answered by a reply the kernel accepts, unless  *)
(* the daemon ends.                                                        *)
EveryRequestReplied ==
  \A n \in 1 .. MaxReqs :
    (n \in DOMAIN reqs /\ reqs[n].op \notin SilentOps)
      ~> (n \in answered \/ pc = "down")

(* fuse_kernel.h:926: records are aligned to 64 bits, seen from the start  *)
(* of the payload that carries them: a directory's first record is where   *)
(* the payload starts.                                                     *)
RecordsAligned == \A w \in flying : w.pad = 0

(* The loop implements the abstract server: requests are served in order,  *)
(* one at a time, each replied to at most once and never before.           *)
Server == INSTANCE RequestServer WITH
  arrived <- Len(reqs),
  served  <- Cardinality({n \in DOMAIN reqs : reqs[n].at + reqs[n].len <= cur}),
  replied <- answered \cup rejected,
  up      <- pc # "down"
ImplementsServer == Server!Spec
=============================================================================
