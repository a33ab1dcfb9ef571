--------------------------- MODULE FuseLoopProofs ---------------------------
(***************************************************************************)
(* Proofs about FuseLoop for every size of the buffers, every set of       *)
(* requests and any number of them: first out_buf, then read_buf and the   *)
(* refinement of RequestServer.                                            *)
(***************************************************************************)
EXTENDS FuseLoop, FunctionTheorems, FiniteSetTheorems, TLAPS

-----------------------------------------------------------------------------
(* Counting the completed replies that wait in a completion queue.         *)

PostedIn(q) == {i \in DOMAIN q : q[i].kind = "reply"}

LEMMA PostedFinite ==
  ASSUME NEW q \in Seq(Cqe)
  PROVE  /\ IsFiniteSet(PostedIn(q))
         /\ Cardinality(PostedIn(q)) \in Nat
<1>1. PostedIn(q) \in SUBSET (1 .. Len(q)) /\ Len(q) \in Int
  BY DEF PostedIn
<1>2. IsFiniteSet(1 .. Len(q))
  BY <1>1, FS_Interval
<1>3. IsFiniteSet(PostedIn(q))
  BY <1>1, <1>2, FS_Subset
<1> QED
  BY <1>3, FS_CardinalityType

LEMMA PostedAppend ==
  ASSUME NEW q \in Seq(Cqe), NEW e \in Cqe
  PROVE  Cardinality(PostedIn(Append(q, e)))
           = Cardinality(PostedIn(q)) + (IF e.kind = "reply" THEN 1 ELSE 0)
<1> DEFINE n == Len(q) + 1
<1>1. PostedIn(Append(q, e)) = IF e.kind = "reply" THEN PostedIn(q) \cup {n} ELSE PostedIn(q)
  BY DEF PostedIn
<1>2. n \notin PostedIn(q)
  BY DEF PostedIn
<1>3. IsFiniteSet(PostedIn(q)) /\ Cardinality(PostedIn(q)) \in Nat
  BY PostedFinite
<1>4. Cardinality(PostedIn(q) \cup {n}) = Cardinality(PostedIn(q)) + 1
  BY <1>2, <1>3, FS_AddElement
<1> QED
  BY <1>1, <1>3, <1>4

LEMMA PostedTail ==
  ASSUME NEW q \in Seq(Cqe), q # <<>>
  PROVE  Cardinality(PostedIn(q))
           = Cardinality(PostedIn(Tail(q))) + (IF Head(q).kind = "reply" THEN 1 ELSE 0)
<1> DEFINE S == PostedIn(Tail(q))
           T == PostedIn(q) \ {1}
           f == [i \in S |-> i + 1]
<1>1. Len(q) \in Nat /\ Len(q) > 0 /\ DOMAIN q = 1 .. Len(q)
  OBVIOUS
<1>2. Tail(q) \in Seq(Cqe) /\ DOMAIN Tail(q) = 1 .. Len(q) - 1
  BY <1>1
<1>3. \A i \in 1 .. Len(q) - 1 : Tail(q)[i] = q[i + 1]
  BY <1>1
<1>4. f \in Bijection(S, T)
  <2>1. \A i \in S : i \in Nat /\ i + 1 \in T
    BY <1>1, <1>2, <1>3 DEF PostedIn
  <2>2. \A j \in T : j \in Nat /\ j - 1 \in S /\ (j - 1) + 1 = j
    BY <1>1, <1>2, <1>3 DEF PostedIn
  <2>3. f \in [S -> T]
    BY <2>1
  <2>4. \A i, j \in S : f[i] = f[j] => i = j
    BY <2>1
  <2>5. \A j \in T : \E i \in S : f[i] = j
    BY <2>2
  <2> QED
    BY <2>3, <2>4, <2>5 DEF Bijection, Injection, Surjection, IsInjective
<1>5. IsFiniteSet(S) /\ IsFiniteSet(PostedIn(q)) /\ Cardinality(S) \in Nat
  BY <1>2, PostedFinite
<1>6. ExistsBijection(S, T)
  BY <1>4 DEF ExistsBijection
<1>7. Cardinality(T) = Cardinality(S)
  BY <1>5, <1>6, FS_Bijection
<1>8. 1 \in PostedIn(q) <=> Head(q).kind = "reply"
  BY <1>1 DEF PostedIn
<1>9. Cardinality(T) = IF 1 \in PostedIn(q) THEN Cardinality(PostedIn(q)) - 1
                                            ELSE Cardinality(PostedIn(q))
  BY <1>5, FS_RemoveElement
<1>10. Cardinality(PostedIn(q)) \in Nat
  BY PostedFinite
<1> QED
  BY <1>5, <1>7, <1>8, <1>9, <1>10
-----------------------------------------------------------------------------
(* The inductive invariant.                                                *)

(* An out_buf nobody is waiting on has been emptied: what a stalled handler*)
(* leaves allocated is given back too.                                     *)
EmptyWhenIdle == num_rqs = 0 => cur_sz = 0

(* The number a request carries is one its opcode can carry.               *)
ArgsLegal ==
  \A n \in DOMAIN reqs : reqs[n].op \in Ops /\ reqs[n].arg \in ArgsOf(reqs[n].op)

IInv ==
  /\ TypeOK
  /\ IsFiniteSet(flying)
  /\ NumRqsExact
  /\ RepliesIntact
  /\ EmptyWhenIdle
  /\ StallHasReply
  /\ ArgsLegal

LEMMA SizeFacts ==
  /\ BUF_SZ \in Nat /\ RBUF_SZ \in Nat \ {0} /\ ALIGN \in Nat \ {0}
  /\ HDR \in Nat \ {0} /\ IN_HDR \in Nat /\ STATFS_SZ \in Nat /\ DIRENT_SZ \in Nat
  /\ \A op \in PrologueOps : OutSz[op] \in Nat
BY SizesAssumption DEF SizesLegal

LEMMA ModType ==
  ASSUME NEW x \in Nat
  PROVE  x % RBUF_SZ \in 0 .. RBUF_SZ - 1
BY SizeFacts

LEMMA AlignUpType ==
  ASSUME NEW x \in Nat
  PROVE  AlignUp(x) - x \in Nat
<1>1. ALIGN \in Nat /\ ALIGN > 0
  BY SizeFacts
<1>2. (x + ALIGN - 1) \div ALIGN \in Int /\ ((x + ALIGN - 1) \div ALIGN) * ALIGN >= x
  BY <1>1
<1>3. ((x + ALIGN - 1) \div ALIGN) * ALIGN \in Int
  BY <1>1, <1>2
<1> QED
  BY <1>2, <1>3 DEF AlignUp

(* What the loop decodes at cur is a request, or garbage with the length   *)
(* of a header.                                                            *)
LEMMA CurReqType ==
  ASSUME TypeOK, ArgsLegal
  PROVE  /\ CurN \in Nat
         /\ CurReq.len \in Nat
         /\ CurReq.arg \in Nat
         /\ CurReq.op \in PrologueOps => OutSz[CurReq.op] \in Nat
         /\ CurReq.op = "READLINK" => CurReq.arg \in LinkSizes
         /\ CurReq.op = "READ" => CurReq.arg \in ReadSizes
<1>1. rbuf[cur % RBUF_SZ] \in Nat \X Nat
  BY ModType DEF TypeOK
<1>2. CurN \in Nat
  BY <1>1 DEF CurN
<1>3. CASE CurN \in DOMAIN reqs /\ rbuf[cur % RBUF_SZ][2] = 0
  <2>1. CurReq = reqs[CurN] /\ reqs[CurN] \in Request
    BY <1>3 DEF CurReq, TypeOK
  <2>2. CurReq.op \in Ops /\ CurReq.arg \in ArgsOf(CurReq.op)
    BY <1>3, <2>1 DEF ArgsLegal
  <2> QED
    BY <1>2, <2>1, <2>2, SizeFacts DEF Request, ArgsOf
<1>4. CASE ~(CurN \in DOMAIN reqs /\ rbuf[cur % RBUF_SZ][2] = 0)
  <2>1. CurReq = [op |-> "garbage", arg |-> 0, len |-> IN_HDR, at |-> 0]
    BY <1>4 DEF CurReq
  <2> QED
    BY <1>2, <2>1, SizeFacts DEF PrologueOps
<1> QED
  BY <1>3, <1>4

-----------------------------------------------------------------------------
(* What each kind of step does to the invariant.                           *)

LEMMA CountsTyped ==
  ASSUME TypeOK, IsFiniteSet(flying)
  PROVE  Cardinality(flying) \in Nat /\ Cardinality(PostedAt) \in Nat
BY PostedFinite, FS_CardinalityType DEF TypeOK, PostedAt, PostedIn

(* A reply built in a chunk of its own, behind everything allocated.       *)
LEMMA SendPreserves ==
  ASSUME IInv,
         NEW hi \in Nat, NEW ok \in BOOLEAN, NEW pad \in Nat,
         cur_sz + HDR <= hi, hi <= BUF_SZ,
         Send(hi, ok, pad)
  PROVE  IInv'
<1> DEFINE w == ReplyTo(hi, ok, pad)
<1> USE DEF IInv
<1>0. CurN \in Nat /\ CurReq.len \in Nat
  BY CurReqType
<1>1. cur_sz \in Nat /\ num_rqs \in Nat /\ cur \in Nat /\ HDR \in Nat /\ HDR > 0
  BY SizeFacts DEF TypeOK
<1>2. w \in Reply /\ w.lo = cur_sz /\ w.hi = hi
  BY <1>0, <1>1 DEF ReplyTo, Reply
<1>3. /\ flying' = flying \cup {w} /\ num_rqs' = num_rqs + 1 /\ cur_sz' = hi
      /\ cur' = cur + CurReq.len
      /\ UNCHANGED <<pc, queue_next, cq, answered, rejected, head, rbuf, reads, reqs>>
  BY DEF Send, loopVars, kernelVars
<1> HIDE DEF w
<1>4. \A v \in flying : v.lo \in Nat /\ v.hi \in Nat /\ v.lo + HDR <= v.hi /\ v.hi <= cur_sz
  BY DEF RepliesIntact, TypeOK, Reply
<1>5. w \notin flying
  BY <1>1, <1>2, <1>4
<1>6. TypeOK'
  <2>1. cur' \in Nat /\ cur_sz' \in Nat /\ num_rqs' \in Nat /\ flying' \subseteq Reply
    BY <1>0, <1>1, <1>2, <1>3 DEF TypeOK
  <2> QED
    BY <1>3, <2>1 DEF TypeOK
<1>7. IsFiniteSet(flying') /\ Cardinality(flying') = Cardinality(flying) + 1
  BY <1>3, <1>5, FS_AddElement
<1>8. PostedAt' = PostedAt
  BY <1>3 DEF PostedAt
<1>9. NumRqsExact'
  BY <1>3, <1>7, <1>8, CountsTyped DEF NumRqsExact
<1>10. RepliesIntact'
  <2>1. cur_sz' <= BUF_SZ
    BY <1>3
  <2>2. \A v \in flying' : v.lo + HDR <= v.hi /\ v.hi <= cur_sz'
    BY <1>1, <1>2, <1>3, <1>4
  <2>3. \A v1, v2 \in flying' : v1 # v2 => v1.hi <= v2.lo \/ v2.hi <= v1.lo
    BY <1>2, <1>3, <1>4 DEF RepliesIntact
  <2> QED
    BY <2>1, <2>2, <2>3 DEF RepliesIntact
<1>11. EmptyWhenIdle' /\ StallHasReply'
  BY <1>1, <1>3 DEF EmptyWhenIdle, StallHasReply
<1>12. ArgsLegal'
  BY <1>3 DEF ArgsLegal
<1> QED
  BY <1>6, <1>7, <1>9, <1>10, <1>11, <1>12

(* A handler that gives up, with something allocated before it began.      *)
LEMMA StallPreserves ==
  ASSUME IInv,
         NEW leak \in Nat,
         cur_sz > 0, cur_sz + leak <= BUF_SZ,
         Stall(leak)
  PROVE  IInv'
<1> USE DEF IInv
<1>1. /\ pc' = "wait" /\ queue_next' = TRUE /\ cur_sz' = cur_sz + leak
      /\ UNCHANGED <<cq, answered, rejected, cur, head, rbuf, reads, reqs, num_rqs, flying>>
  BY DEF Stall, inVars, kernelVars
<1>2. num_rqs > 0
  BY DEF EmptyWhenIdle, TypeOK
<1>3. TypeOK'
  BY <1>1 DEF TypeOK
<1>4. NumRqsExact'
  BY <1>1 DEF NumRqsExact, PostedAt
<1>5. RepliesIntact'
  BY <1>1 DEF RepliesIntact, TypeOK, Reply
<1>6. EmptyWhenIdle' /\ StallHasReply' /\ ArgsLegal'
  BY <1>1, <1>2 DEF EmptyWhenIdle, StallHasReply, ArgsLegal
<1> QED
  BY <1>1, <1>3, <1>4, <1>5, <1>6

(* A step that touches neither the counters nor the completion queue.      *)
LEMMA QuietPreserves ==
  ASSUME IInv,
         UNCHANGED <<cur_sz, num_rqs, flying, queue_next, cq, reqs>>,
         TypeOK'
  PROVE  IInv'
<1> USE DEF IInv
<1>1. NumRqsExact'
  BY DEF NumRqsExact, PostedAt
<1>2. RepliesIntact'
  BY DEF RepliesIntact
<1>3. EmptyWhenIdle' /\ StallHasReply' /\ ArgsLegal'
  BY DEF EmptyWhenIdle, StallHasReply, ArgsLegal
<1> QED
  BY <1>1, <1>2, <1>3

-----------------------------------------------------------------------------
(* The invariant is inductive: one lemma per actor.                        *)

LEMMA NoReplyType == NoReply \in Reply
BY DEF NoReply, Reply

LEMMA InitIInv == Init => IInv
<1> SUFFICES ASSUME Init PROVE IInv
  OBVIOUS
<1> DEFINE first(res) == [kind |-> "open", res |-> res, reply |-> NoReply]
<1>1. PICK res \in {-1, 3} : cq = <<first(res)>>
  BY DEF Init
<1>2. first(res) \in Cqe
  BY NoReplyType DEF Cqe
<1>3. TypeOK
  BY <1>1, <1>2, SizeFacts DEF Init, TypeOK
<1>4. PostedAt = {}
  BY <1>1 DEF PostedAt
<1>5. flying = {} /\ num_rqs = 0 /\ cur_sz = 0 /\ queue_next = FALSE /\ reqs = <<>>
  BY DEF Init
<1>6. IsFiniteSet(flying) /\ NumRqsExact
  BY <1>4, <1>5, FS_EmptySet DEF NumRqsExact
<1>7. RepliesIntact /\ EmptyWhenIdle /\ StallHasReply /\ ArgsLegal
  BY <1>5, SizeFacts DEF RepliesIntact, EmptyWhenIdle, StallHasReply, ArgsLegal
<1> QED
  BY <1>3, <1>6, <1>7 DEF IInv

(* A read completes. *)
LEMMA KernelReadPreserves ==
  ASSUME IInv,
         NEW r \in reads, NEW op \in Ops, NEW arg \in ArgsOf(op), NEW len \in ReqLens,
         KernelRead(r, op, arg, len)
  PROVE  IInv'
<1> USE DEF IInv
<1> DEFINE e == [kind |-> "read", res |-> len, reply |-> NoReply]
           q == [op |-> op, arg |-> arg, len |-> len, at |-> head]
           n == Len(reqs) + 1
           cell(i) == IF \E k \in 0 .. len - 1 : Slot(r.th, k) = i
                      THEN <<n, CHOOSE k \in 0 .. len - 1 : Slot(r.th, k) = i>>
                      ELSE rbuf[i]
<1>1. /\ reqs' = Append(reqs, q) /\ cq' = Append(cq, e) /\ reads' = reads \ {r}
      /\ rbuf' = [i \in 0 .. RBUF_SZ - 1 |-> cell(i)]
      /\ UNCHANGED <<pc, queue_next, cur_sz, num_rqs, flying, cur, head, answered, rejected>>
  BY DEF KernelRead, loopVars, outVars
<1>2. len \in Nat /\ arg \in Nat /\ op \in STRING
  BY SizesAssumption DEF ArgsOf, SizesLegal
<1>3. e \in Cqe /\ e.kind = "read"
  BY <1>2, NoReplyType DEF Cqe
<1>4. q \in Request /\ q.op = op /\ q.arg = arg
  BY <1>2 DEF Request, TypeOK
<1>5. \A i \in 0 .. RBUF_SZ - 1 : cell(i) \in Nat \X Nat
  <2> TAKE i \in 0 .. RBUF_SZ - 1
  <2>1. n \in Nat /\ rbuf[i] \in Nat \X Nat
    BY DEF TypeOK
  <2>2. CASE \E k \in 0 .. len - 1 : Slot(r.th, k) = i
    <3> DEFINE c == CHOOSE k \in 0 .. len - 1 : Slot(r.th, k) = i
    <3>1. c \in 0 .. len - 1
      BY <2>2
    <3>2. c \in Nat
      BY <1>2, <3>1
    <3>3. cell(i) = <<n, c>>
      BY <2>2
    <3> QED
      BY <2>1, <3>2, <3>3
  <2>3. CASE ~ \E k \in 0 .. len - 1 : Slot(r.th, k) = i
    BY <2>1, <2>3
  <2> QED
    BY <2>2, <2>3
<1>6. rbuf' \in [0 .. RBUF_SZ - 1 -> Nat \X Nat]
  BY <1>1, <1>5
<1> HIDE DEF e, q, cell
<1>7. reqs' \in Seq(Request) /\ cq' \in Seq(Cqe)
  BY <1>1, <1>3, <1>4 DEF TypeOK
<1>8. TypeOK'
  BY <1>1, <1>6, <1>7 DEF TypeOK
<1>9. Cardinality(PostedAt') = Cardinality(PostedAt)
  <2>1. cq \in Seq(Cqe)
    BY DEF TypeOK
  <2>2. PostedAt = PostedIn(cq) /\ PostedAt' = PostedIn(Append(cq, e))
    BY <1>1 DEF PostedAt, PostedIn
  <2> QED
    BY <1>3, <2>1, <2>2, PostedAppend, PostedFinite
<1>10. NumRqsExact'
  BY <1>1, <1>9 DEF NumRqsExact
<1>11. RepliesIntact' /\ EmptyWhenIdle' /\ StallHasReply'
  BY <1>1 DEF RepliesIntact, EmptyWhenIdle, StallHasReply
<1>12. ArgsLegal'
  BY <1>1, <1>4 DEF ArgsLegal, TypeOK
<1> QED
  BY <1>1, <1>8, <1>10, <1>11, <1>12

(* A read fails. *)
LEMMA KernelReadFailsPreserves ==
  ASSUME IInv, NEW r \in reads, KernelReadFails(r)
  PROVE  IInv'
<1> USE DEF IInv
<1> DEFINE e == [kind |-> "read", res |-> -1, reply |-> NoReply]
<1>1. /\ cq' = Append(cq, e) /\ reads' = reads \ {r}
      /\ UNCHANGED <<pc, queue_next, cur_sz, num_rqs, flying, cur, head, rbuf, reqs,
                     answered, rejected>>
  BY DEF KernelReadFails, loopVars, outVars
<1>2. e \in Cqe /\ e.kind = "read"
  BY NoReplyType DEF Cqe
<1> HIDE DEF e
<1>3. TypeOK'
  <2>1. cq' \in Seq(Cqe)
    BY <1>1, <1>2 DEF TypeOK
  <2> QED
    BY <1>1, <2>1 DEF TypeOK
<1>4. Cardinality(PostedAt') = Cardinality(PostedAt)
  <2>1. cq \in Seq(Cqe)
    BY DEF TypeOK
  <2>2. PostedAt = PostedIn(cq) /\ PostedAt' = PostedIn(Append(cq, e))
    BY <1>1 DEF PostedAt, PostedIn
  <2> QED
    BY <1>2, <2>1, <2>2, PostedAppend, PostedFinite
<1>5. NumRqsExact' /\ RepliesIntact' /\ EmptyWhenIdle' /\ StallHasReply' /\ ArgsLegal'
  BY <1>1, <1>4
     DEF NumRqsExact, RepliesIntact, EmptyWhenIdle, StallHasReply, ArgsLegal
<1> QED
  BY <1>1, <1>3, <1>5

(* A write completes: the reply moves from the kernel to the queue. *)
LEMMA KernelTakesReplyPreserves ==
  ASSUME IInv, NEW w \in flying, KernelTakesReply(w)
  PROVE  IInv'
<1> USE DEF IInv
<1> DEFINE e == [kind |-> "reply", res |-> 0, reply |-> w]
<1>1. /\ flying' = flying \ {w} /\ cq' = Append(cq, e)
      /\ UNCHANGED <<pc, queue_next, cur_sz, num_rqs, cur, head, rbuf, reads, reqs>>
  BY DEF KernelTakesReply, loopVars, inVars
<1>2. e \in Cqe /\ e.kind = "reply"
  BY DEF Cqe, TypeOK
<1> HIDE DEF e
<1>3. TypeOK'
  <2>1. cq' \in Seq(Cqe)
    BY <1>1, <1>2 DEF TypeOK
  <2>2. answered' \subseteq Nat /\ rejected' \subseteq Nat
    BY DEF TypeOK, KernelTakesReply, Reply
  <2> QED
    BY <1>1, <2>1, <2>2 DEF TypeOK
<1>4. IsFiniteSet(flying') /\ Cardinality(flying') = Cardinality(flying) - 1
  BY <1>1, FS_RemoveElement
<1>5. Cardinality(PostedAt') = Cardinality(PostedAt) + 1
  <2>1. cq \in Seq(Cqe)
    BY DEF TypeOK
  <2>2. PostedAt = PostedIn(cq) /\ PostedAt' = PostedIn(Append(cq, e))
    BY <1>1 DEF PostedAt, PostedIn
  <2> QED
    BY <1>2, <2>1, <2>2, PostedAppend
<1>6. NumRqsExact'
  BY <1>1, <1>4, <1>5, CountsTyped DEF NumRqsExact
<1>7. RepliesIntact' /\ EmptyWhenIdle' /\ StallHasReply' /\ ArgsLegal'
  BY <1>1 DEF RepliesIntact, EmptyWhenIdle, StallHasReply, ArgsLegal
<1> QED
  BY <1>3, <1>4, <1>6, <1>7

(* Consuming a completion that is not a reply's. *)
LEMMA ConsumeOther ==
  ASSUME IInv, NEW kind \in {"open", "read"}, Consume(kind)
  PROVE  /\ cq' \in Seq(Cqe) /\ Head(cq) \in Cqe
         /\ Cardinality(PostedAt') = Cardinality(PostedAt)
<1>1. cq \in Seq(Cqe) /\ cq # <<>> /\ cq' = Tail(cq) /\ Head(cq).kind = kind
  BY DEF IInv, TypeOK, Consume
<1>2. cq' \in Seq(Cqe) /\ Head(cq) \in Cqe
  BY <1>1
<1>3. PostedAt = PostedIn(cq) /\ PostedAt' = PostedIn(Tail(cq))
  BY <1>1 DEF PostedAt, PostedIn
<1>4. Cardinality(PostedIn(Tail(cq))) \in Nat
  BY <1>1, <1>2, PostedFinite
<1>5. Cardinality(PostedIn(cq)) = Cardinality(PostedIn(Tail(cq)))
  BY <1>1, <1>4, PostedTail
<1> QED
  BY <1>2, <1>3, <1>5

LEMMA QueueReadType ==
  ASSUME TypeOK, NEW hd \in Nat, QueueRead(hd)
  PROVE  reads' \subseteq [th: 0 .. RBUF_SZ - 1, room: Nat]
<1>1. hd % RBUF_SZ \in 0 .. RBUF_SZ - 1
  BY ModType
<1>2. (RBUF_SZ - (hd % RBUF_SZ)) + cur \in Nat
  BY <1>1, SizeFacts DEF TypeOK
<1> QED
  BY <1>1, <1>2 DEF QueueRead, TypeOK

LEMMA OnOpenedPreserves ==
  ASSUME IInv, OnOpened
  PROVE  IInv'
<1> USE DEF IInv
<1>1. Consume("open")
  BY DEF OnOpened
<1>2. cq' \in Seq(Cqe) /\ Cardinality(PostedAt') = Cardinality(PostedAt)
  BY <1>1, ConsumeOther
<1>3. UNCHANGED <<cur_sz, num_rqs, flying, cur, head, rbuf, reqs, queue_next, answered, rejected>>
  BY DEF OnOpened, outVars
<1>4. pc' \in {"wait", "serve", "down"} /\ reads' \subseteq [th: 0 .. RBUF_SZ - 1, room: Nat]
  <2>1. CASE Head(cq).res < 0
    BY <2>1 DEF OnOpened, TypeOK
  <2>2. CASE ~(Head(cq).res < 0)
    <3>1. QueueRead(head) /\ pc' = pc
      BY <2>2 DEF OnOpened
    <3> QED
      BY <3>1, QueueReadType DEF TypeOK
  <2> QED
    BY <2>1, <2>2
<1>5. TypeOK'
  BY <1>2, <1>3, <1>4 DEF TypeOK
<1>6. NumRqsExact' /\ RepliesIntact' /\ EmptyWhenIdle' /\ StallHasReply' /\ ArgsLegal'
  BY <1>2, <1>3
     DEF NumRqsExact, RepliesIntact, EmptyWhenIdle, StallHasReply, ArgsLegal
<1> QED
  BY <1>3, <1>5, <1>6

LEMMA OnReadPreserves ==
  ASSUME IInv, OnRead
  PROVE  IInv'
<1> USE DEF IInv
<1>1. Consume("read")
  BY DEF OnRead
<1>2. /\ cq' \in Seq(Cqe) /\ Head(cq) \in Cqe
      /\ Cardinality(PostedAt') = Cardinality(PostedAt)
  BY <1>1, ConsumeOther
<1>3. UNCHANGED <<cur_sz, num_rqs, flying, cur, rbuf, reqs, queue_next, answered, rejected>>
  BY DEF OnRead, outVars
<1>4. /\ pc' \in {"wait", "serve", "down"} /\ head' \in Nat
      /\ reads' \subseteq [th: 0 .. RBUF_SZ - 1, room: Nat]
  <2>1. CASE Head(cq).res < 0
    BY <2>1 DEF OnRead, TypeOK
  <2>2. CASE ~(Head(cq).res < 0)
    <3>1. head' = head + Head(cq).res
      BY <2>2 DEF OnRead
    <3>2. Head(cq).res \in Int /\ head \in Nat
      BY <1>2 DEF Cqe, TypeOK
    <3>3. head' \in Nat
      BY <2>2, <3>1, <3>2
    <3>4. CASE queue_next
      BY <2>2, <3>3, <3>4 DEF OnRead, TypeOK
    <3>5. CASE ~queue_next
      <4>1. QueueRead(head') /\ pc' = "serve"
        BY <2>2, <3>5 DEF OnRead
      <4> QED
        BY <3>3, <4>1, QueueReadType
    <3> QED
      BY <3>4, <3>5
  <2> QED
    BY <2>1, <2>2
<1>5. TypeOK'
  BY <1>2, <1>3, <1>4 DEF TypeOK
<1>6. NumRqsExact' /\ RepliesIntact' /\ EmptyWhenIdle' /\ StallHasReply' /\ ArgsLegal'
  BY <1>2, <1>3
     DEF NumRqsExact, RepliesIntact, EmptyWhenIdle, StallHasReply, ArgsLegal
<1> QED
  BY <1>3, <1>5, <1>6

(* The completion that brings num_rqs to 0 is the last reply of all, in    *)
(* flight or posted: emptying out_buf takes no chunk from anyone.          *)
LEMMA OnReplyPreserves ==
  ASSUME IInv, OnReply
  PROVE  IInv'
<1> USE DEF IInv
<1>1. cq \in Seq(Cqe) /\ cq # <<>> /\ cq' = Tail(cq) /\ Head(cq).kind = "reply"
  BY DEF TypeOK, OnReply, Consume
<1>2. /\ num_rqs' = num_rqs - 1
      /\ num_rqs' = 0 => cur_sz' = 0 /\ queue_next' = FALSE
      /\ num_rqs' # 0 => cur_sz' = cur_sz /\ queue_next' = queue_next
      /\ UNCHANGED <<cur, head, rbuf, reads, reqs, pc, flying, answered, rejected>>
  BY DEF OnReply, inVars
<1>3. cq' \in Seq(Cqe)
  BY <1>1
<1>4. PostedAt = PostedIn(cq) /\ PostedAt' = PostedIn(Tail(cq))
  BY <1>1 DEF PostedAt, PostedIn
<1>5. Cardinality(PostedAt') \in Nat
  BY <1>1, <1>3, <1>4, PostedFinite
<1>6. Cardinality(PostedAt) = Cardinality(PostedAt') + 1
  BY <1>1, <1>4, PostedTail
<1>7. Cardinality(flying) \in Nat
  BY CountsTyped
<1>8. num_rqs' = Cardinality(flying) + Cardinality(PostedAt') /\ num_rqs' \in Nat
  BY <1>2, <1>5, <1>6, <1>7 DEF NumRqsExact
<1>9. TypeOK'
  BY <1>2, <1>3, <1>8 DEF TypeOK
<1>10. NumRqsExact'
  BY <1>2, <1>8 DEF NumRqsExact
<1>11. RepliesIntact'
  <2>1. CASE num_rqs' = 0
    <3>1. Cardinality(flying) = 0
      BY <1>5, <1>7, <1>8, <2>1
    <3>2. flying = {}
      BY <3>1, FS_EmptySet
    <3> QED
      BY <1>2, <2>1, <3>2, SizeFacts DEF RepliesIntact
  <2>2. CASE num_rqs' # 0
    BY <1>2, <2>2 DEF RepliesIntact
  <2> QED
    BY <2>1, <2>2
<1>12. EmptyWhenIdle' /\ ArgsLegal'
  BY <1>2 DEF EmptyWhenIdle, ArgsLegal
<1>13. StallHasReply'
  <2>1. num_rqs' # 0 => num_rqs' > 0
    BY <1>8
  <2> QED
    BY <1>2, <2>1 DEF StallHasReply
<1> QED
  BY <1>2, <1>9, <1>10, <1>11, <1>12, <1>13

-----------------------------------------------------------------------------
(* The handlers: each one builds a reply behind what is allocated, gives   *)
(* up with out_buf not empty, or ends the daemon.                          *)

LEMMA DiePreserves ==
  ASSUME IInv, Die
  PROVE  IInv'
<1>1. TypeOK'
  BY DEF IInv, TypeOK, Die, inVars, outVars, kernelVars
<1>2. UNCHANGED <<cur_sz, num_rqs, flying, queue_next, cq, reqs>>
  BY DEF Die, inVars, outVars, kernelVars
<1> QED
  BY <1>1, <1>2, QuietPreserves

Answers ==
  \E hi \in Nat, ok \in BOOLEAN, pad \in Nat :
    cur_sz + HDR <= hi /\ hi <= BUF_SZ /\ Send(hi, ok, pad)
GivesUp ==
  \E leak \in Nat : cur_sz > 0 /\ cur_sz + leak <= BUF_SZ /\ Stall(leak)
Handled == Answers \/ GivesUp \/ Die

LEMMA SendHandled ==
  ASSUME NEW hi \in Nat, NEW ok \in BOOLEAN, NEW pad \in Nat,
         cur_sz + HDR <= hi, hi <= BUF_SZ, Send(hi, ok, pad)
  PROVE  Handled
BY DEF Handled, Answers

LEMMA StallHandled ==
  ASSUME NEW leak \in Nat, cur_sz > 0, cur_sz + leak <= BUF_SZ, Stall(leak)
  PROVE  Handled
BY DEF Handled, GivesUp

LEMMA HandledPreserves ==
  ASSUME IInv, Handled
  PROVE  IInv'
<1>1. CASE Answers
  BY <1>1, SendPreserves DEF Answers
<1>2. CASE GivesUp
  BY <1>2, StallPreserves DEF GivesUp
<1>3. CASE Die
  BY <1>3, DiePreserves
<1> QED
  BY <1>1, <1>2, <1>3 DEF Handled

LEMMA BufTyped ==
  ASSUME IInv
  PROVE  /\ cur_sz \in Nat /\ cur_sz <= BUF_SZ
         /\ BUF_SZ \in Nat /\ HDR \in Nat /\ HDR > 0
         /\ STATFS_SZ \in Nat /\ DIRENT_SZ \in Nat
BY SizeFacts DEF IInv, TypeOK, RepliesIntact

LEMMA ReqTyped ==
  ASSUME IInv
  PROVE  /\ CurReq.len \in Nat /\ CurReq.arg \in Nat
         /\ CurReq.op \in PrologueOps => OutSz[CurReq.op] \in Nat
         /\ CurReq.op = "READLINK" => CurReq.arg \in LinkSizes
         /\ CurReq.op = "READ" => CurReq.arg \in ReadSizes
BY CurReqType DEF IInv

LEMMA ServePrologueHandled ==
  ASSUME IInv, ServePrologue
  PROVE  Handled
<1> DEFINE sz == HDR + OutSz[CurReq.op]
<1>1. CurReq.op \in PrologueOps
  BY DEF ServePrologue, Serving
<1>2. OutSz[CurReq.op] \in Nat /\ sz \in Nat /\ sz >= HDR /\ sz <= BUF_SZ
  BY <1>1, BufTyped, ReqTyped, RepliesFitAssumption DEF RepliesFit
<1>3. CASE Fits(sz) /\ Send(cur_sz + sz, TRUE, 0)
  <2>1. cur_sz + sz \in Nat /\ cur_sz + HDR <= cur_sz + sz /\ cur_sz + sz <= BUF_SZ /\ 0 \in Nat
    BY <1>2, <1>3, BufTyped DEF Fits
  <2> QED
    BY <1>3, <2>1, SendHandled
<1>4. CASE ~Fits(sz) /\ Stall(0)
  BY <1>2, <1>4, BufTyped, StallHandled DEF Fits
<1> QED
  BY <1>3, <1>4 DEF ServePrologue

LEMMA ServeNosysHandled ==
  ASSUME IInv, ServeNosys
  PROVE  Handled
<1>1. HDR <= BUF_SZ
  BY RepliesFitAssumption, BufTyped DEF RepliesFit
<1>2. CASE Fits(HDR) /\ Send(cur_sz + HDR, TRUE, 0)
  <2>1. cur_sz + HDR \in Nat /\ cur_sz + HDR <= cur_sz + HDR /\ cur_sz + HDR <= BUF_SZ /\ 0 \in Nat
    BY <1>2, BufTyped DEF Fits
  <2> QED
    BY <1>2, <2>1, SendHandled
<1>3. CASE ~Fits(HDR) /\ Stall(0)
  BY <1>1, <1>3, BufTyped, StallHandled DEF Fits
<1> QED
  BY <1>2, <1>3 DEF ServeNosys

LEMMA ServeStatfsHandled ==
  ASSUME IInv, ServeStatfs
  PROVE  Handled
<1>1. HDR + STATFS_SZ <= BUF_SZ
  BY RepliesFitAssumption DEF RepliesFit
<1>2. CASE Fits(HDR + STATFS_SZ) /\ Send(cur_sz + HDR + STATFS_SZ, TRUE, 0)
  <2>1. cur_sz + HDR + STATFS_SZ \in Nat /\ cur_sz + HDR <= cur_sz + HDR + STATFS_SZ /\ cur_sz + HDR + STATFS_SZ <= BUF_SZ /\ 0 \in Nat
    BY <1>2, BufTyped DEF Fits
  <2> QED
    BY <1>2, <2>1, SendHandled
<1>3. CASE ~Fits(HDR) /\ Stall(0)
  BY <1>1, <1>3, BufTyped, StallHandled DEF Fits
<1>4. CASE Die
  BY <1>4 DEF Handled
<1> QED
  BY <1>2, <1>3, <1>4 DEF ServeStatfs

LEMMA ServeReadlinkHandled ==
  ASSUME IInv, ServeReadlink
  PROVE  Handled
<1> DEFINE got == {s \in LinkSizes : s < CurReq.arg /\ Fits(HDR + s)}
<1>1. CurReq.arg \in LinkSizes /\ CurReq.arg \in Nat
  BY ReqTyped DEF ServeReadlink, Serving
<1>2. HDR + CurReq.arg <= BUF_SZ /\ HDR <= BUF_SZ
  BY <1>1, BufTyped, RepliesFitAssumption DEF RepliesFit
<1>3. CASE Fits(HDR + CurReq.arg) /\ Send(cur_sz + HDR + CurReq.arg, TRUE, 0)
  <2>1. cur_sz + HDR + CurReq.arg \in Nat /\ cur_sz + HDR <= cur_sz + HDR + CurReq.arg /\ cur_sz + HDR + CurReq.arg <= BUF_SZ /\ 0 \in Nat
    BY <1>1, <1>3, BufTyped DEF Fits
  <2> QED
    BY <1>3, <2>1, SendHandled
<1>4. CASE ~Fits(HDR) /\ Stall(0)
  BY <1>2, <1>4, BufTyped, StallHandled DEF Fits
<1>5. CASE Fits(HDR) /\ ~Fits(HDR + CurReq.arg) /\ Stall(HDR)
  BY <1>1, <1>2, <1>5, BufTyped, StallHandled DEF Fits
<1>6. ASSUME ~Fits(HDR + CurReq.arg), NEW s \in got, Stall(HDR + s)
      PROVE  Handled
  <2>1. s \in Nat /\ Fits(HDR + s)
    BY SizesAssumption DEF SizesLegal
  <2> QED
    BY <1>1, <1>2, <1>6, <2>1, BufTyped, StallHandled DEF Fits
<1> QED
  BY <1>3, <1>4, <1>5, <1>6 DEF ServeReadlink

LEMMA ServeReaddirHandled ==
  ASSUME IInv, ServeReaddir
  PROVE  Handled
<1> DEFINE t   == cur_sz + HDR
           pad == IF CurReq.arg = 0 THEN 0 ELSE AlignUp(t) - t
           end == t + pad + CurReq.arg
<1>1. t \in Nat /\ CurReq.arg \in Nat
  BY BufTyped, ReqTyped
<1>2. pad \in Nat
  <2>1. AlignUp(t) - t \in Nat
    BY <1>1, AlignUpType
  <2> QED
    BY <2>1
<1>3. HDR + DIRENT_SZ <= BUF_SZ
  BY RepliesFitAssumption DEF RepliesFit
<1>4. CASE ~Fits(HDR + DIRENT_SZ) /\ Stall(0)
  BY <1>3, <1>4, BufTyped, StallHandled DEF Fits
<1>5. CASE end <= BUF_SZ /\ Send(end, TRUE, pad)
  <2> HIDE DEF pad
  <2>1. end \in Nat /\ cur_sz + HDR <= end
    BY <1>1, <1>2, BufTyped
  <2> QED
    BY <1>2, <1>5, <2>1, SendHandled
<1>6. CASE Die
  BY <1>6 DEF Handled
<1> QED
  BY <1>4, <1>5, <1>6 DEF ServeReaddir

LEMMA ServeReadHandled ==
  ASSUME IInv, ServeRead
  PROVE  Handled
<1>1. CurReq.arg \in ReadSizes /\ CurReq.arg \in Nat
  BY ReqTyped DEF ServeRead, Serving
<1>2. HDR + CurReq.arg <= BUF_SZ /\ HDR + 1 <= BUF_SZ
  BY <1>1, RepliesFitAssumption DEF RepliesFit
<1>3. CASE ~Fits(HDR + 1) /\ Stall(0)
  BY <1>2, <1>3, BufTyped, StallHandled DEF Fits
<1>4. CASE Fits(HDR + 1) /\ ~Fits(HDR + CurReq.arg) /\ Stall(HDR)
  BY <1>1, <1>2, <1>4, BufTyped, StallHandled DEF Fits
<1>5. ASSUME Fits(HDR + CurReq.arg), NEW ok \in {TRUE, ~PreadFails},
             Send(cur_sz + HDR + CurReq.arg, ok, 0)
      PROVE  Handled
  <2>1. ok \in BOOLEAN
    BY SizesAssumption DEF SizesLegal
  <2> QED
    BY <1>1, <1>5, <2>1, BufTyped, SendHandled DEF Fits
<1> QED
  BY <1>3, <1>4, <1>5 DEF ServeRead

(* The handlers that reply, all with the same three outcomes. *)
Serve ==
  \/ ServePrologue \/ ServeNosys \/ ServeStatfs \/ ServeReadlink
  \/ ServeReaddir \/ ServeRead \/ ServeUnknown

LEMMA ServeShape ==
  ASSUME IInv, Serve
  PROVE  pc = "serve" /\ HasCommand /\ Handled
<1>1. pc = "serve" /\ HasCommand
  BY DEF Serve, Serving, ServePrologue, ServeNosys, ServeStatfs, ServeReadlink,
         ServeReaddir, ServeRead, ServeUnknown
<1>2. ServeUnknown => Handled
  BY DEF ServeUnknown, Handled
<1> QED
  BY <1>1, <1>2, ServePrologueHandled, ServeNosysHandled, ServeStatfsHandled,
     ServeReadlinkHandled, ServeReaddirHandled, ServeReadHandled DEF Serve

(* INTERRUPT, FORGET and BATCH_FORGET; no whole request. *)
LEMMA ServeSilentPreserves ==
  ASSUME IInv, ServeSilent
  PROVE  IInv'
<1>1. /\ cur' = cur + CurReq.len
      /\ UNCHANGED <<pc, queue_next, cur_sz, num_rqs, flying, cq, answered, rejected,
                     head, rbuf, reads, reqs>>
  BY DEF ServeSilent, loopVars, outVars, kernelVars
<1>2. cur' \in Nat
  BY <1>1, ReqTyped DEF IInv, TypeOK
<1>3. TypeOK'
  BY <1>1, <1>2 DEF IInv, TypeOK
<1> QED
  BY <1>1, <1>3, QuietPreserves

LEMMA OutOfCommandsPreserves ==
  ASSUME IInv, OutOfCommands
  PROVE  IInv'
<1>1. /\ pc' = "wait"
      /\ UNCHANGED <<queue_next, cur_sz, num_rqs, flying, cq, answered, rejected,
                     cur, head, rbuf, reads, reqs>>
  BY DEF OutOfCommands, inVars, outVars, kernelVars
<1>2. TypeOK'
  BY <1>1 DEF IInv, TypeOK
<1> QED
  BY <1>1, <1>2, QuietPreserves

-----------------------------------------------------------------------------
(* The theorems.                                                           *)

LEMMA NextIInv == IInv /\ [Next]_vars => IInv'
<1> SUFFICES ASSUME IInv, [Next]_vars PROVE IInv'
  OBVIOUS
<1>1. CASE OnOpened
  BY <1>1, OnOpenedPreserves
<1>2. CASE OnRead
  BY <1>2, OnReadPreserves
<1>3. CASE OnReply
  BY <1>3, OnReplyPreserves
<1>4. CASE OutOfCommands
  BY <1>4, OutOfCommandsPreserves
<1>5. CASE Serve
  BY <1>5, ServeShape, HandledPreserves
<1>6. CASE ServeSilent
  BY <1>6, ServeSilentPreserves
<1>7. ASSUME NEW r \in reads, KernelReadFails(r) PROVE IInv'
  BY <1>7, KernelReadFailsPreserves
<1>8. ASSUME NEW r \in reads, NEW op \in Ops, NEW arg \in ArgsOf(op),
              NEW len \in ReqLens, KernelRead(r, op, arg, len)
       PROVE  IInv'
  BY <1>8, KernelReadPreserves
<1>9. ASSUME NEW w \in flying, KernelTakesReply(w) PROVE IInv'
  BY <1>9, KernelTakesReplyPreserves
<1>10. CASE UNCHANGED vars
  <2>1. UNCHANGED <<cur_sz, num_rqs, flying, queue_next, cq, reqs>>
    BY <1>10 DEF vars
  <2>2. TypeOK'
    BY <1>10 DEF vars, IInv, TypeOK
  <2> QED
    BY <2>1, <2>2, QuietPreserves
<1> QED
  BY <1>1, <1>2, <1>3, <1>4, <1>5, <1>6, <1>7, <1>8, <1>9, <1>10
     DEF Next, Loop, Kernel, Serve

LEMMA Invariance == Spec => []IInv
<1>1. Init => IInv
  BY InitIInv
<1>2. IInv /\ [Next]_vars => IInv'
  BY NextIInv
<1> QED
  BY <1>1, <1>2, PTL DEF Spec

(* Every variable of the loop keeps its type; in particular num_rqs never  *)
(* wraps below zero (main.cpp:914).                                        *)
THEOREM TypeCorrect == Spec => []TypeOK
<1>1. IInv => TypeOK
  BY DEF IInv
<1> QED
  BY <1>1, Invariance, PTL

(* num_rqs counts the replies submitted and not yet consumed, however the  *)
(* kernel orders its completions (main.cpp: every handler, 914).           *)
THEOREM CountIsExact == Spec => []NumRqsExact
<1>1. IInv => NumRqsExact
  BY DEF IInv
<1> QED
  BY <1>1, Invariance, PTL

(* For every size of out_buf: the bytes of a reply in flight are inside    *)
(* what is allocated and are nobody else's, although out_buf is emptied    *)
(* whenever num_rqs comes back to zero (main.cpp:40-52, 912-919).          *)
THEOREM RepliesStayIntact == Spec => []RepliesIntact
<1>1. IInv => RepliesIntact
  BY DEF IInv
<1> QED
  BY <1>1, Invariance, PTL

(* The loop never stalls with nothing outstanding: each -2 of              *)
(* process_commands is for want of room that a completion will give back   *)
(* (main.cpp:902-919).                                                     *)
THEOREM StallsAwaitReplies == Spec => []StallHasReply
<1>1. IInv => StallHasReply
  BY DEF IInv
<1> QED
  BY <1>1, Invariance, PTL

-----------------------------------------------------------------------------
(* The ring read_buf: what FuseLoop receives, in what order it serves it,  *)
(* and that it implements RequestServer.  The facts about out_buf above    *)
(* are used as a hypothesis.                                               *)

-----------------------------------------------------------------------------
(* The second inductive invariant.                                         *)

(* Completions that are not those of a reply: of the open or of a read.    *)
OthersIn(q) == {i \in DOMAIN q : q[i].kind # "reply"}
WaitingIn(q) == {q[i] : i \in OthersIn(q)}
Waiting == WaitingIn(cq)
Pending == reads # {} \/ Waiting # {}

(* A completion that brings a request. *)
Lands(e) == e.kind = "read" /\ e.res >= 0

(* Where request n ends in the stream of bytes. *)
EndOf(n) == IF n = 0 THEN 0 ELSE reqs[n].at + reqs[n].len

(* The requests follow each other in the stream. *)
Layout ==
  /\ \A n \in DOMAIN reqs : reqs[n].len \in ReqLens /\ reqs[n].at = EndOf(n - 1)
  /\ \A m, n \in 0 .. Len(reqs) : m < n => EndOf(m) < EndOf(n)

(* There is at most one read or open, in flight or completed; a read that  *)
(* is in flight lands right behind what was received, with room for any    *)
(* request.                                                                *)
OnePending ==
  /\ \A i, j \in OthersIn(cq) : i = j
  /\ reads # {} => Waiting = {}
  /\ \A r1, r2 \in reads : r1 = r2
  /\ \A r \in reads : /\ r.th = head % RBUF_SZ
                      /\ \A l \in ReqLens : l <= r.room

(* s requests are served and g received: cur and head lie where they end,  *)
(* and a request that has landed is not counted in head until its          *)
(* completion is consumed.                                                 *)
Positions(s, g) ==
  /\ s \in 0 .. g /\ g \in 0 .. Len(reqs)
  /\ cur = EndOf(s) /\ head = EndOf(g)
  /\ \A e \in Waiting : Lands(e) => g = Len(reqs) - 1 /\ e.res = reqs[Len(reqs)].len
  /\ (\A e \in Waiting : ~Lands(e)) => g = Len(reqs)

(* How far reading runs ahead of serving: never three requests behind the  *)
(* one being served, because a read is only queued when everything older   *)
(* than the last request is served; and a loop that waits without a read   *)
(* has something to serve.                                                 *)
Backlog(s, g) ==
  /\ Len(reqs) - s <= 3
  /\ reads # {} => Len(reqs) - s <= 2
  /\ pc = "serve" => Pending /\ ~queue_next /\ g - s <= 2 /\ (g - s = 2 => cur_sz = 0)
  /\ pc = "wait" /\ Pending => /\ g - s <= 1
                               /\ g - s = 1 => queue_next \/ num_rqs = 0
                               /\ queue_next => g - s = 1
  /\ pc = "wait" /\ ~Pending => g - s >= 1

(* Only requests that were served are replied to. *)
RepliesPast(s) ==
  /\ \A w \in flying : w.n \in 1 .. s
  /\ answered \cup rejected \subseteq 1 .. s

RInv ==
  /\ Layout
  /\ OnePending
  /\ RingIntact
  /\ RepliedOnce
  /\ \E s, g \in 0 .. Len(reqs) : Positions(s, g) /\ Backlog(s, g) /\ RepliesPast(s)

-----------------------------------------------------------------------------
(* Positions modulo the size of the ring.                                  *)

LEMMA TimesMonotone ==
  ASSUME NEW a \in Int, NEW b \in Int, a < b
  PROVE  RBUF_SZ * a + RBUF_SZ <= RBUF_SZ * b
<1>1. RBUF_SZ * b = RBUF_SZ * a + RBUF_SZ * (b - a)
  BY SizeFacts
<1>2. RBUF_SZ * (b - a) >= RBUF_SZ
  BY SizeFacts
<1> QED
  BY <1>1, <1>2, SizeFacts

LEMMA DivisionParts ==
  ASSUME NEW x \in Nat
  PROVE  /\ x % RBUF_SZ \in 0 .. RBUF_SZ - 1 /\ x \div RBUF_SZ \in Int
         /\ x = RBUF_SZ * (x \div RBUF_SZ) + (x % RBUF_SZ)
BY SizeFacts

LEMMA RemainderUnique ==
  ASSUME NEW x \in Nat, NEW q \in Int, NEW r \in 0 .. RBUF_SZ - 1, x = RBUF_SZ * q + r
  PROVE  x % RBUF_SZ = r
<1> DEFINE d == x \div RBUF_SZ
           e == x % RBUF_SZ
<1>1. d \in Int /\ e \in 0 .. RBUF_SZ - 1 /\ x = RBUF_SZ * d + e
  BY DivisionParts
<1> HIDE DEF d, e
<1>2. RBUF_SZ * d \in Int /\ RBUF_SZ * q \in Int
  BY <1>1, SizeFacts
<1>3. CASE q < d
  <2>1. RBUF_SZ * q + RBUF_SZ <= RBUF_SZ * d
    BY <1>1, <1>3, TimesMonotone
  <2> QED
    BY <1>1, <1>2, <2>1, SizeFacts
<1>4. CASE d < q
  <2>1. RBUF_SZ * d + RBUF_SZ <= RBUF_SZ * q
    BY <1>1, <1>4, TimesMonotone
  <2> QED
    BY <1>1, <1>2, <2>1, SizeFacts
<1>5. CASE d = q
  <2>1. e = r
    BY <1>1, <1>2, <1>5, SizeFacts
  <2> QED
    BY <2>1 DEF e
<1> QED
  BY <1>1, <1>3, <1>4, <1>5

(* The two iovecs of a read put byte k where position x + k of the stream  *)
(* is looked for.                                                          *)
LEMMA SlotIsRemainder ==
  ASSUME NEW x \in Nat, NEW k \in 0 .. RBUF_SZ - 1
  PROVE  Slot(x % RBUF_SZ, k) = (x + k) % RBUF_SZ
<1> DEFINE d == x \div RBUF_SZ
           e == x % RBUF_SZ
<1>1. d \in Int /\ e \in 0 .. RBUF_SZ - 1 /\ x = RBUF_SZ * d + e
  BY DivisionParts
<1> HIDE DEF d, e
<1>2. RBUF_SZ * d \in Int /\ RBUF_SZ * (d + 1) = RBUF_SZ * d + RBUF_SZ /\ x + k \in Nat
  BY <1>1, SizeFacts
<1>3. CASE k < RBUF_SZ - e
  <2>1. x + k = RBUF_SZ * d + (e + k) /\ e + k \in 0 .. RBUF_SZ - 1
    BY <1>1, <1>2, <1>3, SizeFacts
  <2>2. (x + k) % RBUF_SZ = e + k
    BY <1>1, <1>2, <2>1, RemainderUnique
  <2> QED
    BY <1>3, <2>2 DEF Slot, e
<1>4. CASE ~(k < RBUF_SZ - e)
  <2>1. /\ x + k = RBUF_SZ * (d + 1) + (k - (RBUF_SZ - e)) /\ d + 1 \in Int
        /\ k - (RBUF_SZ - e) \in 0 .. RBUF_SZ - 1
    BY <1>1, <1>2, <1>4, SizeFacts
  <2>2. (x + k) % RBUF_SZ = k - (RBUF_SZ - e)
    BY <1>2, <2>1, RemainderUnique
  <2> QED
    BY <1>4, <2>2 DEF Slot, e
<1> QED
  BY <1>3, <1>4

(* Positions less than a ring apart have different cells. *)
LEMMA NearbyCellsDiffer ==
  ASSUME NEW x \in Nat, NEW y \in Nat, x < y, y - x < RBUF_SZ
  PROVE  x % RBUF_SZ # y % RBUF_SZ
<1> SUFFICES ASSUME x % RBUF_SZ = y % RBUF_SZ PROVE FALSE
  OBVIOUS
<1> DEFINE d == x \div RBUF_SZ
           e == x % RBUF_SZ
           f == y \div RBUF_SZ
<1>1. d \in Int /\ f \in Int /\ e \in 0 .. RBUF_SZ - 1
      /\ x = RBUF_SZ * d + e /\ y = RBUF_SZ * f + e
  BY DivisionParts
<1> HIDE DEF d, e, f
<1>2. RBUF_SZ * d \in Int /\ RBUF_SZ * f \in Int
  BY <1>1, SizeFacts
<1>3. d < f
  <2>1. ~(f < d)
    BY <1>1, <1>2, TimesMonotone, SizeFacts
  <2>2. f # d
    BY <1>1, <1>2, SizeFacts
  <2> QED
    BY <1>1, <2>1, <2>2
<1>4. RBUF_SZ * d + RBUF_SZ <= RBUF_SZ * f
  BY <1>1, <1>3, TimesMonotone
<1> QED
  BY <1>1, <1>2, <1>4, SizeFacts

-----------------------------------------------------------------------------
(* What waits in a completion queue besides replies.                       *)

LEMMA WaitingEmpty ==
  ASSUME NEW q
  PROVE  WaitingIn(q) = {} <=> OthersIn(q) = {}
BY DEF WaitingIn

LEMMA WaitingAppend ==
  ASSUME NEW q \in Seq(Cqe), NEW e \in Cqe
  PROVE  /\ e.kind = "reply" => /\ OthersIn(Append(q, e)) = OthersIn(q)
                                /\ WaitingIn(Append(q, e)) = WaitingIn(q)
         /\ e.kind # "reply" => /\ OthersIn(Append(q, e)) = OthersIn(q) \cup {Len(q) + 1}
                                /\ WaitingIn(Append(q, e)) = WaitingIn(q) \cup {e}
<1>1. /\ DOMAIN q = 1 .. Len(q) /\ Len(q) \in Nat
      /\ DOMAIN Append(q, e) = 1 .. Len(q) + 1
      /\ \A i \in DOMAIN q : Append(q, e)[i] = q[i]
      /\ Append(q, e)[Len(q) + 1] = e
  OBVIOUS
<1>2. OthersIn(Append(q, e)) = IF e.kind = "reply" THEN OthersIn(q)
                               ELSE OthersIn(q) \cup {Len(q) + 1}
  BY <1>1 DEF OthersIn
<1>3. \A i \in OthersIn(q) : Append(q, e)[i] = q[i]
  BY <1>1 DEF OthersIn
<1>4. CASE e.kind = "reply"
  BY <1>2, <1>3, <1>4 DEF WaitingIn
<1>5. CASE e.kind # "reply"
  BY <1>1, <1>2, <1>3, <1>5 DEF WaitingIn
<1> QED
  BY <1>2, <1>4, <1>5

LEMMA WaitingTail ==
  ASSUME NEW q \in Seq(Cqe), q # <<>>, \A i, j \in OthersIn(q) : i = j
  PROVE  /\ \A i, j \in OthersIn(Tail(q)) : i = j
         /\ Head(q).kind = "reply" => WaitingIn(Tail(q)) = WaitingIn(q)
         /\ Head(q).kind # "reply" => /\ WaitingIn(Tail(q)) = {}
                                      /\ WaitingIn(q) = {Head(q)}
<1> DEFINE t == Tail(q)
<1>1. /\ DOMAIN q = 1 .. Len(q) /\ Len(q) \in Nat /\ Len(q) > 0 /\ Head(q) = q[1]
      /\ DOMAIN t = 1 .. Len(q) - 1
      /\ \A i \in 1 .. Len(q) - 1 : t[i] = q[i + 1]
  OBVIOUS
<1> HIDE DEF t
<1>2. \A i \in OthersIn(t) : i \in Nat \ {0} /\ i + 1 \in OthersIn(q) /\ t[i] = q[i + 1]
  BY <1>1 DEF OthersIn
<1>3. \A i \in OthersIn(q) : i # 1 => i \in Nat /\ i - 1 \in OthersIn(t) /\ t[i - 1] = q[i]
  BY <1>1 DEF OthersIn
<1>4. \A i, j \in OthersIn(t) : i = j
  BY <1>2
<1>5. 1 \in OthersIn(q) <=> Head(q).kind # "reply"
  BY <1>1 DEF OthersIn
<1>6. ASSUME Head(q).kind = "reply" PROVE WaitingIn(t) = WaitingIn(q)
  <2>1. WaitingIn(t) \subseteq WaitingIn(q)
    BY <1>2 DEF WaitingIn
  <2>2. WaitingIn(q) \subseteq WaitingIn(t)
    BY <1>3, <1>5, <1>6 DEF WaitingIn
  <2> QED
    BY <2>1, <2>2
<1>7. ASSUME Head(q).kind # "reply" PROVE WaitingIn(t) = {} /\ WaitingIn(q) = {Head(q)}
  <2>1. OthersIn(q) = {1}
    BY <1>5, <1>7
  <2>2. OthersIn(t) = {}
    BY <1>2, <2>1
  <2> QED
    BY <1>1, <2>1, <2>2 DEF WaitingIn
<1> QED
  BY <1>4, <1>6, <1>7 DEF t

-----------------------------------------------------------------------------
(* Where requests lie.                                                     *)

LEMMA LenFacts ==
  \A l \in ReqLens : l \in Nat /\ l > 0 /\ IN_HDR <= l /\ 3 * l <= RBUF_SZ
<1>1. IN_HDR \in Nat /\ IN_HDR > 0
  BY SizesAssumption DEF SizesLegal
<1> QED
  BY <1>1, SizesAssumption, RingAssumption DEF SizesLegal, RingHolds

LEMMA Ends ==
  ASSUME TypeOK, Layout
  PROVE  /\ Len(reqs) \in Nat /\ DOMAIN reqs = 1 .. Len(reqs)
         /\ EndOf(0) = 0
         /\ \A n \in 0 .. Len(reqs) : EndOf(n) \in Nat
         /\ \A n \in 1 .. Len(reqs) :
              /\ reqs[n].len \in ReqLens /\ reqs[n].at = EndOf(n - 1)
              /\ reqs[n].at \in Nat
              /\ EndOf(n) = EndOf(n - 1) + reqs[n].len
<1>1. Len(reqs) \in Nat /\ DOMAIN reqs = 1 .. Len(reqs)
  BY DEF TypeOK
<1>2. \A n \in 1 .. Len(reqs) : reqs[n].at \in Nat /\ reqs[n].len \in Nat
  <2>1. reqs \in Seq(Request)
    BY DEF TypeOK
  <2>2. \A n \in 1 .. Len(reqs) : reqs[n] \in Request
    BY <1>1, <2>1
  <2> QED
    BY <2>2 DEF Request
<1>3. \A n \in 1 .. Len(reqs) : reqs[n].len \in ReqLens /\ reqs[n].at = EndOf(n - 1)
  BY <1>1 DEF Layout
<1>4. EndOf(0) = 0 /\ \A n \in 1 .. Len(reqs) : EndOf(n) = reqs[n].at + reqs[n].len
  BY DEF EndOf
<1>5. \A n \in 0 .. Len(reqs) : EndOf(n) \in Nat
  <2> TAKE n \in 0 .. Len(reqs)
  <2>1. CASE n = 0
    BY <1>4, <2>1
  <2>2. CASE n # 0
    <3>1. n \in 1 .. Len(reqs)
      BY <1>1, <2>2
    <3> QED
      BY <1>2, <1>4, <3>1
  <2> QED
    BY <2>1, <2>2
<1> QED
  BY <1>1, <1>2, <1>3, <1>4, <1>5

LEMMA EndsOrdered ==
  ASSUME TypeOK, Layout, NEW m \in 0 .. Len(reqs), NEW n \in 0 .. Len(reqs), m <= n
  PROVE  EndOf(m) <= EndOf(n)
<1>1. CASE m = n
  BY <1>1, Ends
<1>2. CASE m < n
  BY <1>2, Ends DEF Layout
<1> QED
  BY <1>1, <1>2, Ends

(* Three requests of any length fit in the ring. *)
LEMMA Spread ==
  ASSUME TypeOK, Layout, NEW s \in 0 .. Len(reqs), NEW g \in s .. Len(reqs)
  PROVE  /\ g - s <= 3 => EndOf(g) - EndOf(s) <= RBUF_SZ
         /\ g - s <= 2 => \A l \in ReqLens : EndOf(g) - EndOf(s) + l <= RBUF_SZ
<1>1. Len(reqs) \in Nat /\ RBUF_SZ \in Nat
  BY Ends, SizeFacts
<1>2. \A n \in 0 .. Len(reqs) : EndOf(n) \in Nat
  BY Ends
<1>3. \A n \in 0 .. Len(reqs) : n + 1 <= Len(reqs) =>
        3 * (EndOf(n + 1) - EndOf(n)) <= RBUF_SZ
  <2> TAKE n \in 0 .. Len(reqs)
  <2> SUFFICES ASSUME n + 1 <= Len(reqs)
               PROVE  3 * (EndOf(n + 1) - EndOf(n)) <= RBUF_SZ
    OBVIOUS
  <2>1. n + 1 \in 1 .. Len(reqs) /\ (n + 1) - 1 = n
    BY <1>1
  <2>2. reqs[n + 1].len \in ReqLens /\ EndOf(n + 1) = EndOf(n) + reqs[n + 1].len
    BY <2>1, Ends
  <2>3. EndOf(n + 1) - EndOf(n) = reqs[n + 1].len
    BY <1>2, <2>2, LenFacts
  <2> QED
    BY <2>2, <2>3, LenFacts
<1>4. CASE g = s
  <2>1. EndOf(g) - EndOf(s) = 0
    BY <1>2, <1>4
  <2> QED
    BY <1>1, <2>1, LenFacts
<1>5. CASE g = s + 1
  <2>1. 3 * (EndOf(g) - EndOf(s)) <= RBUF_SZ
    BY <1>1, <1>3, <1>5
  <2>2. EndOf(g) - EndOf(s) \in Int
    BY <1>2
  <2> QED
    BY <1>1, <2>1, <2>2, LenFacts
<1>6. CASE g = s + 2
  <2>1. s + 1 \in 0 .. Len(reqs)
    BY <1>1, <1>6
  <2>2. 3 * (EndOf(g) - EndOf(s + 1)) <= RBUF_SZ
    BY <1>1, <1>3, <1>6, <2>1
  <2>3. 3 * (EndOf(s + 1) - EndOf(s)) <= RBUF_SZ
    BY <1>1, <1>3, <2>1
  <2>4. EndOf(g) \in Nat /\ EndOf(s + 1) \in Nat /\ EndOf(s) \in Nat
    BY <1>2, <2>1
  <2> QED
    BY <1>1, <2>2, <2>3, <2>4, LenFacts
<1>7. CASE g = s + 3
  <2>1. s + 1 \in 0 .. Len(reqs) /\ s + 2 \in 0 .. Len(reqs)
    BY <1>1, <1>7
  <2>2. 3 * (EndOf(g) - EndOf(s + 2)) <= RBUF_SZ
    BY <1>1, <1>3, <1>7, <2>1
  <2>3. 3 * (EndOf(s + 2) - EndOf(s + 1)) <= RBUF_SZ
    BY <1>1, <1>3, <2>1
  <2>4. 3 * (EndOf(s + 1) - EndOf(s)) <= RBUF_SZ
    BY <1>1, <1>3, <2>1
  <2>5. EndOf(g) \in Nat /\ EndOf(s + 2) \in Nat /\ EndOf(s + 1) \in Nat /\ EndOf(s) \in Nat
    BY <1>2, <2>1
  <2>6. EndOf(g) - EndOf(s) <= RBUF_SZ
    BY <1>1, <2>2, <2>3, <2>4, <2>5
  <2> QED
    BY <1>7, <2>6
<1> QED
  BY <1>1, <1>4, <1>5, <1>6, <1>7

(* While s < g requests are received, the next one is whole in the ring    *)
(* and is what the loop decodes; otherwise there is none.                  *)
LEMMA NextRequest ==
  ASSUME TypeOK, Layout, RingIntact, NEW s \in 0 .. Len(reqs), NEW g \in s .. Len(reqs),
         cur = EndOf(s), head = EndOf(g)
  PROVE  /\ HasCommand <=> s < g
         /\ s < g => /\ CurN = s + 1 /\ s + 1 \in DOMAIN reqs
                     /\ CurReq = reqs[s + 1]
                     /\ cur = reqs[s + 1].at
                     /\ cur + CurReq.len = EndOf(s + 1)
<1>1. Len(reqs) \in Nat /\ IN_HDR \in Nat /\ IN_HDR > 0
  BY Ends, SizesAssumption DEF SizesLegal
<1>2. CASE s < g
  <2>1. s + 1 \in 1 .. Len(reqs) /\ (s + 1) - 1 = s
    BY <1>1, <1>2
  <2>2. /\ s + 1 \in DOMAIN reqs
        /\ reqs[s + 1].len \in ReqLens /\ reqs[s + 1].at = cur
        /\ cur \in Nat /\ head \in Nat
        /\ EndOf(s + 1) = cur + reqs[s + 1].len
    BY <2>1, Ends DEF TypeOK
  <2>3. reqs[s + 1].len \in Nat /\ 0 \in 0 .. reqs[s + 1].len - 1 /\ IN_HDR <= reqs[s + 1].len
    BY <2>2, LenFacts
  <2>4. rbuf[cur % RBUF_SZ] = <<s + 1, 0>>
    <3>1. \A k \in 0 .. reqs[s + 1].len - 1 :
            cur <= reqs[s + 1].at + k => rbuf[(reqs[s + 1].at + k) % RBUF_SZ] = <<s + 1, k>>
      BY <2>2 DEF RingIntact
    <3>2. reqs[s + 1].at + 0 = cur /\ cur <= cur
      BY <2>2
    <3> QED
      BY <2>3, <3>1, <3>2
  <2>5. CurN = s + 1 /\ CurReq = reqs[s + 1]
    BY <2>2, <2>4 DEF CurN, CurReq
  <2>6. EndOf(s + 1) <= head
    <3>1. s + 1 \in 0 .. Len(reqs) /\ g \in 0 .. Len(reqs) /\ s + 1 <= g
      BY <1>1, <1>2
    <3> QED
      BY <3>1, EndsOrdered
  <2>7. HasCommand
    BY <1>1, <2>2, <2>3, <2>5, <2>6 DEF HasCommand
  <2> QED
    BY <1>2, <2>2, <2>5, <2>7
<1>3. CASE s = g
  <2>1. cur = head /\ cur \in Nat
    BY <1>3 DEF TypeOK
  <2> QED
    BY <1>1, <1>3, <2>1 DEF HasCommand
<1> QED
  BY <1>1, <1>2, <1>3

-----------------------------------------------------------------------------
(* What each kind of step does to the second invariant.                    *)

LEMMA RingAdvances ==
  ASSUME TypeOK, TypeOK', Layout, RingIntact, UNCHANGED <<reqs, rbuf>>, cur <= cur'
  PROVE  RingIntact'
<1> SUFFICES ASSUME NEW n \in DOMAIN reqs, NEW k \in 0 .. reqs[n].len - 1,
                    cur' <= reqs[n].at + k
             PROVE  rbuf[(reqs[n].at + k) % RBUF_SZ] = <<n, k>>
  BY DEF RingIntact
<1>1. reqs[n].at \in Nat /\ reqs[n].len \in ReqLens /\ cur \in Nat /\ cur' \in Nat
  BY Ends DEF TypeOK
<1>2. k \in Nat
  BY <1>1, LenFacts
<1>3. cur <= reqs[n].at + k
  BY <1>1, <1>2
<1> QED
  BY <1>3 DEF RingIntact

(* A step that delivers nothing and reads nothing, and serves up to t. *)
LEMMA InputQuiet ==
  ASSUME TypeOK, TypeOK', Layout, OnePending, RingIntact,
         NEW s \in 0 .. Len(reqs), NEW g \in 0 .. Len(reqs), Positions(s, g),
         NEW t \in s .. g, cur' = EndOf(t),
         UNCHANGED <<reqs, rbuf, reads, head>>,
         Waiting' = Waiting, \A i, j \in OthersIn(cq') : i = j
  PROVE  /\ Layout' /\ OnePending' /\ RingIntact' /\ Positions(t, g)'
         /\ t \in 0 .. Len(reqs)' /\ g \in 0 .. Len(reqs)'
         /\ Pending' <=> Pending
         /\ Len(reqs') = Len(reqs)
<1>1. \A n : EndOf(n)' = EndOf(n)
  BY DEF EndOf
<1>2. Layout'
  BY <1>1 DEF Layout
<1>3. OnePending'
  BY DEF OnePending
<1>4. Len(reqs) \in Nat /\ s <= t /\ t \in 0 .. g /\ t \in 0 .. Len(reqs)
  BY Ends DEF Positions
<1>5. cur <= cur'
  BY <1>4, EndsOrdered DEF Positions
<1>6. RingIntact'
  BY <1>5, RingAdvances
<1>7. Positions(t, g)'
  BY <1>1, <1>4 DEF Positions
<1> QED
  BY <1>2, <1>3, <1>4, <1>6, <1>7 DEF Pending

LEMMA PositionsTyped ==
  ASSUME TypeOK, Layout,
         NEW s \in 0 .. Len(reqs), NEW g \in 0 .. Len(reqs), Positions(s, g)
  PROVE  /\ Len(reqs) \in Nat /\ s \in 0 .. g
         /\ s \in s .. g /\ g \in s .. Len(reqs)
         /\ cur = EndOf(s) /\ head = EndOf(g)
<1>1. s \in 0 .. g /\ cur = EndOf(s) /\ head = EndOf(g)
  BY DEF Positions
<1>2. Len(reqs) \in Nat
  BY Ends
<1> QED
  BY <1>1, <1>2

LEMMA AnswersRInv ==
  ASSUME IInv, IInv', RInv, pc = "serve", HasCommand, Answers
  PROVE  RInv'
<1>1. TypeOK /\ TypeOK' /\ Layout /\ OnePending /\ RingIntact /\ RepliedOnce
  BY DEF IInv, RInv
<1>2. PICK s, g \in 0 .. Len(reqs) : Positions(s, g) /\ Backlog(s, g) /\ RepliesPast(s)
  BY DEF RInv
<1>3. PICK hi \in Nat, ok \in BOOLEAN, pad \in Nat : Send(hi, ok, pad)
  BY DEF Answers
<1>4. /\ Len(reqs) \in Nat /\ s \in 0 .. g
      /\ cur = EndOf(s) /\ head = EndOf(g)
  BY <1>1, <1>2, PositionsTyped
<1>5. g \in s .. Len(reqs)
  BY <1>4
<1>6. s < g /\ CurN = s + 1 /\ cur + CurReq.len = EndOf(s + 1)
  BY <1>1, <1>4, <1>5, NextRequest
<1> DEFINE w == ReplyTo(hi, ok, pad)
<1>7. w.n = s + 1
  BY <1>6 DEF ReplyTo
<1>8. /\ flying' = flying \cup {w} /\ cur' = EndOf(s + 1)
      /\ UNCHANGED <<pc, queue_next, cq, answered, rejected, head, rbuf, reads, reqs>>
  BY <1>3, <1>6 DEF Send, loopVars, kernelVars
<1> HIDE DEF w
<1>9. s + 1 \in s .. g
  BY <1>4, <1>6
<1>10. Waiting' = Waiting /\ \A i, j \in OthersIn(cq') : i = j
  BY <1>1, <1>8 DEF Waiting, OnePending
<1>11. /\ Layout' /\ OnePending' /\ RingIntact' /\ Positions(s + 1, g)'
       /\ s + 1 \in 0 .. Len(reqs)' /\ g \in 0 .. Len(reqs)'
       /\ Pending' <=> Pending
       /\ Len(reqs') = Len(reqs)
  BY <1>1, <1>2, <1>8, <1>9, <1>10, InputQuiet
<1>12. Backlog(s + 1, g)'
  BY <1>2, <1>4, <1>6, <1>8, <1>11 DEF Backlog
<1>13. RepliesPast(s + 1)'
  <2>1. 1 .. s \subseteq 1 .. (s + 1) /\ s + 1 \in 1 .. (s + 1)
    BY <1>4
  <2> QED
    BY <1>2, <1>7, <1>8, <2>1 DEF RepliesPast
<1>14. RepliedOnce'
  <2>1. s + 1 \notin 1 .. s
    BY <1>4
  <2>2. \A v \in flying : v.n # w.n
    BY <1>2, <1>7, <2>1 DEF RepliesPast
  <2>3. w.n \notin answered \cup rejected
    BY <1>2, <1>7, <2>1 DEF RepliesPast
  <2> QED
    BY <1>1, <1>8, <2>2, <2>3 DEF RepliedOnce
<1> QED
  BY <1>11, <1>12, <1>13, <1>14 DEF RInv

LEMMA GivesUpRInv ==
  ASSUME IInv, IInv', RInv, pc = "serve", HasCommand, GivesUp
  PROVE  RInv'
<1>1. TypeOK /\ TypeOK' /\ Layout /\ OnePending /\ RingIntact /\ RepliedOnce
  BY DEF IInv, RInv
<1>2. PICK s, g \in 0 .. Len(reqs) : Positions(s, g) /\ Backlog(s, g) /\ RepliesPast(s)
  BY DEF RInv
<1>3. PICK leak \in Nat : cur_sz > 0 /\ Stall(leak)
  BY DEF GivesUp
<1>4. /\ Len(reqs) \in Nat /\ s \in 0 .. g
      /\ cur = EndOf(s) /\ head = EndOf(g)
  BY <1>1, <1>2, PositionsTyped
<1>5. g \in s .. Len(reqs) /\ s \in s .. g
  BY <1>4
<1>6. s < g
  BY <1>1, <1>4, <1>5, NextRequest
<1>7. /\ pc' = "wait" /\ queue_next' = TRUE
      /\ UNCHANGED <<cq, answered, rejected, cur, head, rbuf, reads, reqs, flying>>
  BY <1>3 DEF Stall, inVars, kernelVars
<1>8. Waiting' = Waiting /\ \A i, j \in OthersIn(cq') : i = j
  BY <1>1, <1>7 DEF Waiting, OnePending
<1>9. /\ Layout' /\ OnePending' /\ RingIntact' /\ Positions(s, g)'
      /\ s \in 0 .. Len(reqs)' /\ g \in 0 .. Len(reqs)'
      /\ Pending' <=> Pending
      /\ Len(reqs') = Len(reqs)
  BY <1>1, <1>2, <1>4, <1>5, <1>7, <1>8, InputQuiet
<1>10. Backlog(s, g)'
  <2>1. g - s <= 2 /\ g - s # 2 /\ Pending
    BY <1>2, <1>3, <1>4 DEF Backlog, TypeOK
  <2>2. g - s = 1
    BY <1>4, <1>6, <2>1
  <2> QED
    BY <1>2, <1>7, <1>9, <2>1, <2>2 DEF Backlog
<1>11. RepliesPast(s)' /\ RepliedOnce'
  BY <1>1, <1>2, <1>7 DEF RepliesPast, RepliedOnce
<1> QED
  BY <1>9, <1>10, <1>11 DEF RInv

(* A step that moves nothing at all: only what the loop is doing and the   *)
(* replies may change.                                                     *)
LEMMA StandStill ==
  ASSUME IInv, IInv', RInv, UNCHANGED <<reqs, rbuf, reads, head, cur>>,
         Waiting' = Waiting, \A i, j \in OthersIn(cq') : i = j,
         RepliedOnce',
         \A s, g \in 0 .. Len(reqs) :
           (Positions(s, g) /\ Backlog(s, g) /\ RepliesPast(s)) =>
             Backlog(s, g)' /\ RepliesPast(s)'
  PROVE  RInv'
<1>1. TypeOK /\ TypeOK' /\ Layout /\ OnePending /\ RingIntact
  BY DEF IInv, RInv
<1>2. PICK s, g \in 0 .. Len(reqs) : Positions(s, g) /\ Backlog(s, g) /\ RepliesPast(s)
  BY DEF RInv
<1>3. s \in s .. g /\ cur' = EndOf(s)
  BY <1>1, <1>2, PositionsTyped
<1>4. /\ Layout' /\ OnePending' /\ RingIntact' /\ Positions(s, g)'
      /\ s \in 0 .. Len(reqs)' /\ g \in 0 .. Len(reqs)'
  BY <1>1, <1>2, <1>3, InputQuiet
<1>5. Backlog(s, g)' /\ RepliesPast(s)'
  BY <1>2
<1> QED
  BY <1>4, <1>5 DEF RInv

LEMMA DieRInv ==
  ASSUME IInv, IInv', RInv, Die
  PROVE  RInv'
<1>1. /\ pc' = "down"
      /\ UNCHANGED <<cur, head, rbuf, reads, reqs, cur_sz, num_rqs, flying, cq, answered,
                     rejected, queue_next>>
  BY DEF Die, inVars, outVars, kernelVars
<1>2. Waiting' = Waiting /\ \A i, j \in OthersIn(cq') : i = j
  BY <1>1 DEF Waiting, RInv, OnePending
<1>3. RepliedOnce'
  BY <1>1 DEF RInv, RepliedOnce
<1>4. \A s, g \in 0 .. Len(reqs) :
        (Positions(s, g) /\ Backlog(s, g) /\ RepliesPast(s)) =>
          Backlog(s, g)' /\ RepliesPast(s)'
  BY <1>1 DEF Backlog, RepliesPast
<1> QED
  BY <1>1, <1>2, <1>3, <1>4, StandStill

LEMMA StutterRInv ==
  ASSUME IInv, IInv', RInv, UNCHANGED vars
  PROVE  RInv'
<1>1. UNCHANGED <<pc, cur, head, rbuf, cur_sz, num_rqs, queue_next, reads, flying, cq,
                  reqs, answered, rejected>>
  BY DEF vars
<1>2. Waiting' = Waiting /\ \A i, j \in OthersIn(cq') : i = j
  BY <1>1 DEF Waiting, RInv, OnePending
<1>3. RepliedOnce'
  BY <1>1 DEF RInv, RepliedOnce
<1>4. \A s, g \in 0 .. Len(reqs) :
        (Positions(s, g) /\ Backlog(s, g) /\ RepliesPast(s)) =>
          Backlog(s, g)' /\ RepliesPast(s)'
  BY <1>1, <1>2 DEF Backlog, RepliesPast, Pending
<1> QED
  BY <1>1, <1>2, <1>3, <1>4, StandStill

(* With no whole request left, everything received is served. *)
LEMMA OutOfCommandsRInv ==
  ASSUME IInv, IInv', RInv, OutOfCommands
  PROVE  RInv'
<1>1. /\ pc = "serve" /\ ~HasCommand /\ pc' = "wait"
      /\ UNCHANGED <<cur, head, rbuf, reads, reqs, cur_sz, num_rqs, flying, cq, answered,
                     rejected, queue_next>>
  BY DEF OutOfCommands, inVars, outVars, kernelVars
<1>2. Waiting' = Waiting /\ \A i, j \in OthersIn(cq') : i = j
  BY <1>1 DEF Waiting, RInv, OnePending
<1>3. RepliedOnce'
  BY <1>1 DEF RInv, RepliedOnce
<1>4. TypeOK /\ Layout /\ RingIntact
  BY DEF IInv, RInv
<1>5. ASSUME NEW s \in 0 .. Len(reqs), NEW g \in 0 .. Len(reqs),
             Positions(s, g), Backlog(s, g), RepliesPast(s)
      PROVE  Backlog(s, g)' /\ RepliesPast(s)'
  <2>1. s \in 0 .. g /\ cur = EndOf(s) /\ head = EndOf(g) /\ g \in s .. Len(reqs)
    BY <1>4, <1>5, PositionsTyped
  <2>2. ~(s < g)
    BY <1>1, <1>4, <2>1, NextRequest
  <2>3. g - s = 0
    BY <2>1, <2>2
  <2>4. Pending /\ ~queue_next
    BY <1>1, <1>5 DEF Backlog
  <2>5. Pending'
    BY <1>1, <1>2, <2>4 DEF Pending
  <2> QED
    BY <1>1, <1>5, <2>3, <2>4, <2>5 DEF Backlog, RepliesPast
<1> QED
  BY <1>1, <1>2, <1>3, <1>5, StandStill

(* INTERRUPT, FORGET and BATCH_FORGET move cur without a reply. *)
LEMMA ServeSilentRInv ==
  ASSUME IInv, IInv', RInv, ServeSilent
  PROVE  RInv'
<1>1. TypeOK /\ TypeOK' /\ Layout /\ OnePending /\ RingIntact /\ RepliedOnce
  BY DEF IInv, RInv
<1>2. PICK s, g \in 0 .. Len(reqs) : Positions(s, g) /\ Backlog(s, g) /\ RepliesPast(s)
  BY DEF RInv
<1>3. /\ pc = "serve" /\ HasCommand /\ cur' = cur + CurReq.len
      /\ UNCHANGED <<pc, queue_next, cur_sz, num_rqs, flying, cq, answered, rejected, head,
                     rbuf, reads, reqs>>
  BY DEF ServeSilent, Serving, loopVars, outVars, kernelVars
<1>4. /\ Len(reqs) \in Nat /\ s \in 0 .. g
      /\ cur = EndOf(s) /\ head = EndOf(g) /\ g \in s .. Len(reqs)
  BY <1>1, <1>2, PositionsTyped
<1>5. s < g /\ cur' = EndOf(s + 1)
  BY <1>1, <1>3, <1>4, NextRequest
<1>6. s + 1 \in s .. g
  BY <1>4, <1>5
<1>7. Waiting' = Waiting /\ \A i, j \in OthersIn(cq') : i = j
  BY <1>1, <1>3 DEF Waiting, OnePending
<1>8. /\ Layout' /\ OnePending' /\ RingIntact' /\ Positions(s + 1, g)'
      /\ s + 1 \in 0 .. Len(reqs)' /\ g \in 0 .. Len(reqs)'
      /\ Pending' <=> Pending
      /\ Len(reqs') = Len(reqs)
  BY <1>1, <1>2, <1>3, <1>5, <1>6, <1>7, InputQuiet
<1>9. Backlog(s + 1, g)'
  BY <1>2, <1>3, <1>4, <1>5, <1>8 DEF Backlog
<1>10. RepliesPast(s + 1)'
  <2>1. 1 .. s \subseteq 1 .. (s + 1)
    BY <1>4
  <2> QED
    BY <1>2, <1>3, <2>1 DEF RepliesPast
<1>11. RepliedOnce'
  BY <1>1, <1>3 DEF RepliedOnce
<1> QED
  BY <1>8, <1>9, <1>10, <1>11 DEF RInv

-----------------------------------------------------------------------------
(* Completions of replies.                                                 *)

(* A write completes: the reply it carried was the only one of its request.*)
LEMMA KernelTakesReplyRInv ==
  ASSUME IInv, IInv', RInv, NEW w \in flying, KernelTakesReply(w)
  PROVE  RInv'
<1> DEFINE e == [kind |-> "reply", res |-> 0, reply |-> w]
<1>1. /\ flying' = flying \ {w} /\ cq' = Append(cq, e)
      /\ answered' \cup rejected' = (answered \cup rejected) \cup {w.n}
      /\ UNCHANGED <<pc, queue_next, cur_sz, num_rqs, cur, head, rbuf, reads, reqs>>
  BY DEF KernelTakesReply, loopVars, inVars
<1>2. e \in Cqe /\ e.kind = "reply" /\ cq \in Seq(Cqe)
  BY DEF Cqe, IInv, TypeOK
<1> HIDE DEF e
<1>3. Waiting' = Waiting /\ \A i, j \in OthersIn(cq') : i = j
  BY <1>1, <1>2, WaitingAppend DEF Waiting, RInv, OnePending
<1>4. RepliedOnce'
  <2>1. \A w2 \in flying' : w2 \in flying /\ w2.n # w.n /\ w2.n \notin answered \cup rejected
    BY <1>1 DEF RInv, RepliedOnce
  <2> QED
    BY <1>1, <2>1 DEF RInv, RepliedOnce
<1>5. ASSUME NEW s \in 0 .. Len(reqs), NEW g \in 0 .. Len(reqs),
             Positions(s, g), Backlog(s, g), RepliesPast(s)
      PROVE  Backlog(s, g)' /\ RepliesPast(s)'
  BY <1>1, <1>3, <1>5 DEF Backlog, RepliesPast, Pending
<1> QED
  BY <1>1, <1>3, <1>4, <1>5, StandStill

(* The loop consumes one; the last one lifts a stall with a single request *)
(* behind it.                                                              *)
LEMMA OnReplyRInv ==
  ASSUME IInv, IInv', RInv, OnReply
  PROVE  RInv'
<1>1. /\ pc = "wait" /\ cq # <<>> /\ Head(cq).kind = "reply" /\ cq' = Tail(cq)
      /\ cq \in Seq(Cqe)
  BY DEF OnReply, Consume, IInv, TypeOK
<1>2. /\ num_rqs' = num_rqs - 1
      /\ num_rqs' = 0 => queue_next' = FALSE
      /\ num_rqs' # 0 => queue_next' = queue_next
      /\ UNCHANGED <<cur, head, rbuf, reads, reqs, pc, flying, answered, rejected>>
  BY DEF OnReply, inVars
<1>3. Waiting' = Waiting /\ \A i, j \in OthersIn(cq') : i = j
  BY <1>1, WaitingTail DEF Waiting, RInv, OnePending
<1>4. RepliedOnce'
  BY <1>2 DEF RInv, RepliedOnce
<1>5. num_rqs # 0
  BY <1>2 DEF IInv, TypeOK
<1>6. ASSUME NEW s \in 0 .. Len(reqs), NEW g \in 0 .. Len(reqs),
             Positions(s, g), Backlog(s, g), RepliesPast(s)
      PROVE  Backlog(s, g)' /\ RepliesPast(s)'
  BY <1>1, <1>2, <1>3, <1>5, <1>6 DEF Backlog, RepliesPast, Pending
<1> QED
  BY <1>2, <1>3, <1>4, <1>6, StandStill

-----------------------------------------------------------------------------
(* Reads.                                                                  *)

(* Taking the one completion that is not a reply's leaves none. *)
LEMMA ConsumeLast ==
  ASSUME IInv, RInv, NEW kind \in {"open", "read"}, Consume(kind)
  PROVE  /\ pc = "wait" /\ Pending /\ reads = {} /\ Head(cq).res \in Int
         /\ Waiting = {Head(cq)} /\ Waiting' = {} /\ OthersIn(cq') = {}
<1>1. pc = "wait" /\ cq # <<>> /\ Head(cq).kind = kind /\ cq' = Tail(cq) /\ cq \in Seq(Cqe)
  BY DEF Consume, IInv, TypeOK
<1>2. Head(cq) \in Cqe
  BY <1>1
<1>3. Waiting = {Head(cq)} /\ Waiting' = {}
  BY <1>1, WaitingTail DEF Waiting, RInv, OnePending
<1>4. OthersIn(cq') = {}
  BY <1>3, WaitingEmpty DEF Waiting
<1> QED
  BY <1>1, <1>2, <1>3, <1>4 DEF Pending, RInv, OnePending, Cqe

(* A read queued behind all but two requests has room for one more. *)
LEMMA QueueReadRoom ==
  ASSUME TypeOK, Layout, reads = {},
         NEW s \in 0 .. Len(reqs), NEW g \in s .. Len(reqs), g - s <= 2,
         cur = EndOf(s), NEW hd, hd = EndOf(g), QueueRead(hd)
  PROVE  /\ reads' # {} /\ \A r1, r2 \in reads' : r1 = r2
         /\ \A r \in reads' : r.th = hd % RBUF_SZ /\ \A l \in ReqLens : l <= r.room
<1> DEFINE r == [th |-> hd % RBUF_SZ, room |-> (RBUF_SZ - (hd % RBUF_SZ)) + cur]
<1>1. reads' = {r}
  BY DEF QueueRead
<1>2. hd \in Nat /\ cur \in Nat /\ RBUF_SZ \in Nat
  <2>1. g \in 0 .. Len(reqs) /\ s \in 0 .. Len(reqs)
    BY Ends
  <2>2. EndOf(g) \in Nat /\ EndOf(s) \in Nat
    BY <2>1, Ends
  <2> QED
    BY <2>2, SizeFacts
<1>3. hd % RBUF_SZ \in Nat /\ hd % RBUF_SZ <= hd
  <2> DEFINE d == hd \div RBUF_SZ
             e == hd % RBUF_SZ
  <2>1. d \in Int /\ e \in 0 .. RBUF_SZ - 1 /\ hd = RBUF_SZ * d + e
    BY <1>2, DivisionParts
  <2> HIDE DEF d, e
  <2>2. d >= 0
    <3>1. RBUF_SZ * (-1) + RBUF_SZ = 0 /\ RBUF_SZ * 0 = 0
      BY SizeFacts
    <3>2. d < 0 => RBUF_SZ * d + RBUF_SZ <= 0
      BY <2>1, <3>1, TimesMonotone
    <3>3. RBUF_SZ * d \in Int
      BY <2>1, SizeFacts
    <3> QED
      BY <1>2, <2>1, <3>2, <3>3
  <2>3. RBUF_SZ * d \in Nat
    BY <2>1, <2>2, SizeFacts
  <2>4. e \in Nat /\ e <= hd
    BY <1>2, <2>1, <2>3
  <2> QED
    BY <2>4 DEF e
<1>4. ASSUME NEW l \in ReqLens
      PROVE  l <= r.room
  <2>1. EndOf(g) - EndOf(s) + l <= RBUF_SZ /\ l \in Nat
    BY Spread, LenFacts
  <2>2. hd - cur + l <= RBUF_SZ
    BY <2>1
  <2> QED
    BY <1>2, <1>3, <2>1, <2>2, SMTT(40)
<1> QED
  BY <1>1, <1>4

(* A step that neither delivers nor serves nor replies. *)
LEMMA StreamQuiet ==
  ASSUME IInv, IInv', RInv, UNCHANGED <<reqs, rbuf, cur, flying, answered, rejected>>
  PROVE  /\ Layout' /\ RingIntact' /\ RepliedOnce'
         /\ \A n : EndOf(n)' = EndOf(n)
         /\ \A s : RepliesPast(s) => RepliesPast(s)'
<1>1. \A n : EndOf(n)' = EndOf(n)
  BY DEF EndOf
<1>2. Layout'
  BY <1>1 DEF Layout, RInv
<1>3. RingIntact'
  <2>1. cur <= cur'
    BY DEF IInv, TypeOK
  <2> QED
    BY <2>1, RingAdvances DEF IInv, RInv
<1>4. RepliedOnce' /\ \A s : RepliesPast(s) => RepliesPast(s)'
  BY DEF RepliedOnce, RepliesPast, RInv
<1> QED
  BY <1>1, <1>2, <1>3, <1>4

LEMMA OnOpenedRInv ==
  ASSUME IInv, IInv', RInv, OnOpened
  PROVE  RInv'
<1>1. TypeOK /\ TypeOK' /\ Layout /\ OnePending /\ RingIntact /\ RepliedOnce
  BY DEF IInv, RInv
<1>2. PICK s, g \in 0 .. Len(reqs) : Positions(s, g) /\ Backlog(s, g) /\ RepliesPast(s)
  BY DEF RInv
<1>3. Len(reqs) \in Nat /\ s \in s .. g /\ g \in s .. Len(reqs) /\ cur = EndOf(s) /\ head = EndOf(g)
  BY <1>1, <1>2, PositionsTyped
<1>4. /\ pc = "wait" /\ Pending /\ reads = {}
      /\ Waiting = {Head(cq)} /\ Waiting' = {} /\ OthersIn(cq') = {}
      /\ Head(cq).kind = "open"
  BY ConsumeLast DEF OnOpened, Consume
<1>5. UNCHANGED <<cur_sz, num_rqs, flying, cur, head, rbuf, reqs, queue_next, answered, rejected>>
  BY DEF OnOpened, outVars
<1>6. g = Len(reqs)
  BY <1>2, <1>4 DEF Positions, Lands
<1>7. \A n : EndOf(n)' = EndOf(n)
  BY <1>5, StreamQuiet
<1>8. Layout' /\ RingIntact' /\ RepliedOnce'
  BY <1>5, StreamQuiet
<1>9. Positions(s, g)' /\ RepliesPast(s)'
  BY <1>2, <1>4, <1>5, <1>6, <1>7 DEF Positions, RepliesPast
<1>10. CASE Head(cq).res < 0
  <2>1. pc' = "down" /\ reads' = {}
    BY <1>4, <1>10 DEF OnOpened
  <2>2. OnePending'
    BY <1>4, <2>1 DEF OnePending
  <2>3. Backlog(s, g)'
    BY <1>2, <1>5, <2>1 DEF Backlog
  <2> QED
    BY <1>5, <1>8, <1>9, <2>2, <2>3 DEF RInv
<1>11. CASE ~(Head(cq).res < 0)
  <2>1. pc' = "wait" /\ QueueRead(head)
    BY <1>4, <1>11 DEF OnOpened
  <2>2. g - s <= 1
    BY <1>2, <1>4 DEF Backlog
  <2>3. /\ reads' # {} /\ \A r1, r2 \in reads' : r1 = r2
        /\ \A r \in reads' : r.th = head % RBUF_SZ /\ \A l \in ReqLens : l <= r.room
    BY <1>1, <1>3, <1>4, <2>1, <2>2, QueueReadRoom
  <2>4. OnePending'
    BY <1>4, <1>5, <2>3 DEF OnePending
  <2>5. Backlog(s, g)'
    BY <1>2, <1>3, <1>4, <1>5, <1>6, <2>1, <2>2, <2>3 DEF Backlog, Pending
  <2> QED
    BY <1>5, <1>8, <1>9, <2>4, <2>5 DEF RInv
<1> QED
  BY <1>10, <1>11

LEMMA OnReadRInv ==
  ASSUME IInv, IInv', RInv, OnRead
  PROVE  RInv'
<1>1. TypeOK /\ TypeOK' /\ Layout /\ OnePending /\ RingIntact /\ RepliedOnce
  BY DEF IInv, RInv
<1>2. PICK s, g \in 0 .. Len(reqs) : Positions(s, g) /\ Backlog(s, g) /\ RepliesPast(s)
  BY DEF RInv
<1>3. Len(reqs) \in Nat /\ s \in 0 .. g /\ g \in s .. Len(reqs) /\ cur = EndOf(s) /\ head = EndOf(g)
  BY <1>1, <1>2, PositionsTyped
<1>4. /\ pc = "wait" /\ Pending /\ reads = {}
      /\ Waiting = {Head(cq)} /\ Waiting' = {} /\ OthersIn(cq') = {}
      /\ Head(cq).kind = "read" /\ Head(cq).res \in Int
  BY ConsumeLast DEF OnRead, Consume
<1>5. UNCHANGED <<cur_sz, num_rqs, flying, cur, rbuf, reqs, queue_next, answered, rejected>>
  BY DEF OnRead, outVars
<1>6. \A n : EndOf(n)' = EndOf(n)
  BY <1>5, StreamQuiet
<1>7. Layout' /\ RingIntact' /\ RepliedOnce' /\ RepliesPast(s)'
  BY <1>2, <1>5, StreamQuiet
<1>8. CASE Head(cq).res < 0
  <2>1. pc' = "down" /\ reads' = {} /\ head' = head
    BY <1>4, <1>8 DEF OnRead
  <2>2. g = Len(reqs)
    BY <1>2, <1>4, <1>8 DEF Positions, Lands
  <2>3. Positions(s, g)'
    BY <1>2, <1>4, <1>5, <1>6, <2>1, <2>2 DEF Positions
  <2>4. OnePending'
    BY <1>4, <2>1 DEF OnePending
  <2>5. Backlog(s, g)'
    BY <1>2, <1>5, <2>1 DEF Backlog
  <2> QED
    BY <1>5, <1>7, <2>3, <2>4, <2>5 DEF RInv
<1>9. CASE ~(Head(cq).res < 0)
  <2> DEFINE n == Len(reqs)
  <2>1. Head(cq).res \in Int
    BY <1>4
  <2>2. Lands(Head(cq))
    BY <1>4, <1>9, <2>1 DEF Lands
  <2>3. g = n - 1 /\ Head(cq).res = reqs[n].len
    BY <1>2, <1>4, <2>2 DEF Positions
  <2>4. n \in 1 .. n /\ n \in s .. n
    BY <1>3, <2>3
  <2>5. head' = EndOf(n) /\ g - s <= 1
    BY <1>1, <1>2, <1>3, <1>4, <1>9, <2>3, <2>4, Ends DEF OnRead, Backlog
  <2>6. Positions(s, n)'
    BY <1>2, <1>3, <1>4, <1>5, <1>6, <2>4, <2>5 DEF Positions
  <2>7. CASE queue_next
    <3>1. pc' = "wait" /\ reads' = {}
      BY <1>4, <1>9, <2>7 DEF OnRead
    <3>2. OnePending'
      BY <1>4, <3>1 DEF OnePending
    <3>3. g - s = 1
      BY <1>2, <1>4, <2>7 DEF Backlog
    <3>4. Backlog(s, n)'
      BY <1>2, <1>3, <1>4, <1>5, <2>3, <3>1, <3>3 DEF Backlog, Pending
    <3> QED
      BY <1>3, <1>5, <1>7, <2>6, <3>2, <3>4 DEF RInv
  <2>8. CASE ~queue_next
    <3>1. pc' = "serve" /\ QueueRead(head')
      BY <1>9, <2>8 DEF OnRead
    <3>2. n - s <= 2
      BY <1>3, <2>3, <2>5
    <3>3. /\ reads' # {} /\ \A r1, r2 \in reads' : r1 = r2
          /\ \A r \in reads' : r.th = head' % RBUF_SZ /\ \A l \in ReqLens : l <= r.room
      BY <1>1, <1>3, <1>4, <2>4, <2>5, <3>1, <3>2, QueueReadRoom
    <3>4. OnePending'
      BY <1>4, <3>3 DEF OnePending
    <3>5. n - s = 2 => cur_sz = 0
      BY <1>2, <1>3, <1>4, <2>3, <2>8 DEF Backlog, IInv, EmptyWhenIdle
    <3>6. Backlog(s, n)'
      BY <1>3, <1>5, <2>8, <3>1, <3>2, <3>3, <3>5 DEF Backlog, Pending
    <3> QED
      BY <1>3, <1>5, <1>7, <2>6, <3>4, <3>6 DEF RInv
  <2> QED
    BY <2>7, <2>8
<1> QED
  BY <1>8, <1>9

LEMMA KernelReadFailsRInv ==
  ASSUME IInv, IInv', RInv, NEW r \in reads, KernelReadFails(r)
  PROVE  RInv'
<1> DEFINE e == [kind |-> "read", res |-> -1, reply |-> NoReply]
<1>1. TypeOK /\ TypeOK' /\ Layout /\ OnePending /\ RingIntact /\ RepliedOnce
  BY DEF IInv, RInv
<1>2. PICK s, g \in 0 .. Len(reqs) : Positions(s, g) /\ Backlog(s, g) /\ RepliesPast(s)
  BY DEF RInv
<1>3. /\ cq' = Append(cq, e) /\ reads' = reads \ {r}
      /\ UNCHANGED <<pc, queue_next, cur_sz, num_rqs, flying, cur, head, rbuf, reqs,
                     answered, rejected>>
  BY DEF KernelReadFails, loopVars, outVars
<1>4. e \in Cqe /\ e.kind = "read" /\ ~Lands(e) /\ cq \in Seq(Cqe)
  BY <1>1, NoReplyType DEF Cqe, Lands, TypeOK
<1> HIDE DEF e
<1>5. Waiting = {} /\ OthersIn(cq) = {} /\ reads' = {}
  BY <1>1, <1>3, WaitingEmpty DEF OnePending, Waiting
<1>6. Waiting' = {e} /\ OthersIn(cq') = {Len(cq) + 1}
  BY <1>3, <1>4, <1>5, WaitingAppend DEF Waiting
<1>7. OnePending'
  BY <1>5, <1>6 DEF OnePending
<1>8. \A n : EndOf(n)' = EndOf(n)
  BY <1>3, StreamQuiet
<1>9. Layout' /\ RingIntact' /\ RepliedOnce' /\ RepliesPast(s)'
  BY <1>2, <1>3, StreamQuiet
<1>10. Positions(s, g)'
  BY <1>2, <1>3, <1>4, <1>5, <1>6, <1>8 DEF Positions
<1>11. Backlog(s, g)'
  BY <1>2, <1>3, <1>5, <1>6 DEF Backlog, Pending
<1> QED
  BY <1>3, <1>7, <1>9, <1>10, <1>11 DEF RInv

(* Distances between a position that is not yet served, and two that a     *)
(* request of length len starting at h brings.                             *)
LEMMA Distances ==
  ASSUME NEW h \in Nat, NEW len \in Nat, len <= RBUF_SZ, NEW j \in Nat, j < len
  PROVE  /\ \A c \in Nat, b \in Nat : b <= c /\ c < h /\ h - b + len <= RBUF_SZ
                                      => c < h + j /\ (h + j) - c < RBUF_SZ
         /\ \A k \in Nat : j < k /\ k < len
                           => h + j < h + k /\ (h + k) - (h + j) < RBUF_SZ
BY SizeFacts

(* A request lands behind the last one; the ring still holds everything    *)
(* from cur on, so none of its bytes hits a byte that is not yet served.   *)
LEMMA KernelReadRing ==
  ASSUME TypeOK, Layout, RingIntact, NEW s \in 0 .. Len(reqs),
         cur = EndOf(s), head = EndOf(Len(reqs)), Len(reqs) - s <= 2,
         NEW r, r.th = head % RBUF_SZ, NEW op, NEW arg, NEW len \in ReqLens,
         KernelRead(r, op, arg, len)
  PROVE  RingIntact'
<1> DEFINE N == Len(reqs)
<1>1. /\ N \in Nat /\ len \in Nat /\ 0 < len /\ len <= RBUF_SZ /\ RBUF_SZ \in Nat
      /\ cur \in Nat /\ head \in Nat
  <2>1. N \in Nat
    BY Ends
  <2>2. len \in Nat /\ 0 < len /\ len <= RBUF_SZ /\ RBUF_SZ \in Nat
    BY LenFacts, SizeFacts
  <2>3. cur \in Nat /\ head \in Nat
    BY DEF TypeOK
  <2> QED
    BY <2>1, <2>2, <2>3
<1>2. head - cur + len <= RBUF_SZ
  <2>1. N \in s .. Len(reqs) /\ N - s <= 2
    BY <1>1
  <2> QED
    BY <2>1, Spread
<1>3. /\ reqs' = Append(reqs, [op |-> op, arg |-> arg, len |-> len, at |-> head])
      /\ cur' = cur
      /\ rbuf' = [i \in 0 .. RBUF_SZ - 1 |->
                    IF \E k \in 0 .. len - 1 : Slot(r.th, k) = i
                    THEN <<N + 1, CHOOSE k \in 0 .. len - 1 : Slot(r.th, k) = i>>
                    ELSE rbuf[i]]
  BY DEF KernelRead
<1>4. /\ DOMAIN reqs' = 1 .. N + 1
      /\ \A n \in 1 .. N : reqs'[n] = reqs[n]
      /\ reqs'[N + 1].len = len /\ reqs'[N + 1].at = head
  BY <1>1, <1>3 DEF TypeOK
<1>5. ASSUME NEW j \in 0 .. len - 1
      PROVE  /\ j \in Nat /\ j < len /\ head + j \in Nat
             /\ Slot(r.th, j) = (head + j) % RBUF_SZ
  <2>1. j \in Nat /\ j < len /\ head + j \in Nat /\ j \in 0 .. RBUF_SZ - 1
    BY <1>1
  <2> QED
    BY <1>1, <2>1, SlotIsRemainder
<1> SUFFICES ASSUME NEW n \in 1 .. N + 1, NEW k \in 0 .. reqs'[n].len - 1,
                    cur <= reqs'[n].at + k
             PROVE  rbuf'[(reqs'[n].at + k) % RBUF_SZ] = <<n, k>>
  BY <1>3, <1>4, ZenonT(40) DEF RingIntact
<1> DEFINE c == reqs'[n].at + k
<1>6. CASE n \in 1 .. N
  <2>1. reqs'[n] = reqs[n] /\ reqs[n].at \in Nat /\ reqs[n].len \in Nat
        /\ EndOf(n) = reqs[n].at + reqs[n].len
    BY <1>4, <1>6, Ends, LenFacts
  <2>2. c = reqs[n].at + k /\ c \in Nat /\ c < EndOf(n) /\ k \in 0 .. reqs[n].len - 1
    BY <2>1, SMTT(40)
  <2>3. c < head
    <3>1. n \in 0 .. Len(reqs) /\ Len(reqs) \in 0 .. Len(reqs) /\ n <= Len(reqs)
      BY <1>1, <1>6
    <3>2. EndOf(n) <= head /\ EndOf(n) \in Nat
      BY <3>1, Ends, EndsOrdered
    <3> QED
      BY <1>1, <2>2, <3>2
  <2>4. rbuf[c % RBUF_SZ] = <<n, k>>
    BY <1>6, <2>1, <2>2, Ends DEF RingIntact
  <2> HIDE DEF c
  <2>5. c % RBUF_SZ \in 0 .. RBUF_SZ - 1
    BY <2>2, ModType
  <2>6. ASSUME NEW j \in 0 .. len - 1, Slot(r.th, j) = c % RBUF_SZ
        PROVE  FALSE
    <3>1. j \in Nat /\ j < len /\ head + j \in Nat
      BY <1>5
    <3>2. (head + j) % RBUF_SZ = c % RBUF_SZ
      BY <1>5, <2>6
    <3>3. cur <= c
      BY DEF c
    <3>4. c < head + j /\ (head + j) - c < RBUF_SZ
      BY <1>1, <1>2, <2>2, <2>3, <3>1, <3>3, Distances
    <3> QED
      BY <2>2, <3>1, <3>2, <3>4, NearbyCellsDiffer
  <2>7. rbuf'[c % RBUF_SZ] = rbuf[c % RBUF_SZ]
    BY <1>3, <2>5, <2>6
  <2> QED
    BY <2>4, <2>7 DEF c
<1>7. CASE n = N + 1
  <2>1. k \in 0 .. len - 1 /\ k \in Nat /\ c = head + k /\ c \in Nat
    BY <1>1, <1>4, <1>7
  <2> HIDE DEF c
  <2>2. Slot(r.th, k) = c % RBUF_SZ /\ c % RBUF_SZ \in 0 .. RBUF_SZ - 1
    BY <1>5, <2>1, ModType
  <2>3. ASSUME NEW j \in 0 .. len - 1, Slot(r.th, j) = c % RBUF_SZ
        PROVE  j = k
    <3>1. j \in Nat /\ j < len /\ k < len /\ head + j \in Nat /\ head + k \in Nat
      BY <1>1, <1>5, <2>1
    <3>2. (head + j) % RBUF_SZ = (head + k) % RBUF_SZ
      BY <1>5, <2>1, <2>3
    <3>3. CASE j < k
      <4>1. head + j < head + k /\ (head + k) - (head + j) < RBUF_SZ
        BY <1>1, <2>1, <3>1, <3>3, Distances
      <4> QED
        BY <3>1, <3>2, <4>1, NearbyCellsDiffer
    <3>4. CASE k < j
      <4>1. head + k < head + j /\ (head + j) - (head + k) < RBUF_SZ
        BY <1>1, <2>1, <3>1, <3>4, Distances
      <4> QED
        BY <3>1, <3>2, <4>1, NearbyCellsDiffer
    <3> QED
      BY <2>1, <3>1, <3>3, <3>4
  <2>4. (CHOOSE j \in 0 .. len - 1 : Slot(r.th, j) = c % RBUF_SZ) = k
    BY <2>1, <2>2, <2>3
  <2>5. rbuf'[c % RBUF_SZ] = <<N + 1, k>>
    BY <1>3, <2>1, <2>2, <2>4
  <2> QED
    BY <1>7, <2>5 DEF c
<1> QED
  BY <1>1, <1>6, <1>7

LEMMA KernelReadRInv ==
  ASSUME IInv, IInv', RInv,
         NEW r \in reads, NEW op \in Ops, NEW arg \in ArgsOf(op), NEW len \in ReqLens,
         KernelRead(r, op, arg, len)
  PROVE  RInv'
<1> DEFINE e == [kind |-> "read", res |-> len, reply |-> NoReply]
           N == Len(reqs)
<1>1. TypeOK /\ TypeOK' /\ Layout /\ OnePending /\ RingIntact /\ RepliedOnce
  BY DEF IInv, RInv
<1>2. PICK s, g \in 0 .. Len(reqs) : Positions(s, g) /\ Backlog(s, g) /\ RepliesPast(s)
  BY DEF RInv
<1>3. N \in Nat /\ s \in 0 .. g /\ g \in s .. N /\ cur = EndOf(s) /\ head = EndOf(g)
  BY <1>1, <1>2, PositionsTyped
<1>4. /\ reqs' = Append(reqs, [op |-> op, arg |-> arg, len |-> len, at |-> head])
      /\ cq' = Append(cq, e) /\ reads' = reads \ {r}
      /\ UNCHANGED <<pc, queue_next, cur_sz, num_rqs, flying, cur, head, answered, rejected>>
  BY DEF KernelRead, loopVars, outVars
<1>5. len \in Nat /\ len > 0 /\ head \in Nat
  BY <1>1, LenFacts DEF TypeOK
<1>6. e \in Cqe /\ e.kind = "read" /\ Lands(e) /\ e.res = len /\ cq \in Seq(Cqe)
  BY <1>1, <1>5, NoReplyType DEF Cqe, Lands, TypeOK
<1> HIDE DEF e
<1>7. Waiting = {} /\ OthersIn(cq) = {} /\ reads' = {}
  BY <1>1, <1>4, WaitingEmpty DEF OnePending, Waiting
<1>8. Waiting' = {e} /\ OthersIn(cq') = {Len(cq) + 1}
  BY <1>4, <1>6, <1>7, WaitingAppend DEF Waiting
<1>9. OnePending'
  BY <1>7, <1>8 DEF OnePending
<1>10. g = N /\ N - s <= 2 /\ r.th = head % RBUF_SZ
  BY <1>1, <1>2, <1>7 DEF Positions, Backlog, OnePending
<1>11. /\ Len(reqs') = N + 1 /\ DOMAIN reqs' = 1 .. N + 1 /\ DOMAIN reqs = 1 .. N
       /\ \A n \in 1 .. N : reqs'[n] = reqs[n]
       /\ reqs'[N + 1].len = len /\ reqs'[N + 1].at = head
  BY <1>1, <1>3, <1>4 DEF TypeOK
<1>12. \A n \in 0 .. N : EndOf(n)' = EndOf(n) /\ EndOf(n) \in Nat /\ EndOf(n) <= head
  <2> TAKE n \in 0 .. N
  <2>1. EndOf(n)' = EndOf(n)
    <3>1. n = 0 \/ n \in 1 .. N
      BY <1>3
    <3> QED
      BY <1>11, <3>1 DEF EndOf
  <2>2. EndOf(n) \in Nat
    BY <1>1, Ends
  <2>3. EndOf(n) <= head
    <3>1. n \in 0 .. Len(reqs) /\ Len(reqs) \in 0 .. Len(reqs) /\ n <= Len(reqs)
      BY <1>3
    <3> QED
      BY <1>1, <1>3, <1>10, <3>1, EndsOrdered
  <2> QED
    BY <2>1, <2>2, <2>3
<1>13. EndOf(g + 1)' = head + len
  <2>1. g + 1 # 0 /\ g + 1 = N + 1
    BY <1>3, <1>10
  <2>2. EndOf(g + 1)' = reqs'[g + 1].at + reqs'[g + 1].len
    BY <2>1 DEF EndOf
  <2> QED
    BY <1>11, <2>1, <2>2
<1>14. Layout'
  <2>1. ASSUME NEW n \in 1 .. N + 1
        PROVE  reqs'[n].len \in ReqLens /\ reqs'[n].at = EndOf(n - 1)'
    <3>1. CASE n \in 1 .. N
      <4>1. n - 1 \in 0 .. N
        BY <1>3, <3>1
      <4> QED
        BY <1>1, <1>11, <1>12, <3>1, <4>1 DEF Layout
    <3>2. CASE n = N + 1
      <4>1. n - 1 = N /\ N \in 0 .. N
        BY <1>3, <3>2
      <4> QED
        BY <1>3, <1>10, <1>11, <1>12, <3>2, <4>1
    <3> QED
      BY <1>3, <3>1, <3>2
  <2>2. ASSUME NEW m \in 0 .. N + 1, NEW n \in 0 .. N + 1, m < n
        PROVE  EndOf(m)' < EndOf(n)'
    <3>1. m \in 0 .. N
      BY <1>3, <2>2
    <3>2. CASE n \in 0 .. N
      BY <1>1, <1>12, <2>2, <3>1, <3>2 DEF Layout
    <3>3. CASE n = N + 1
      <4>1. n = g + 1
        BY <1>10, <3>3
      <4> QED
        BY <1>5, <1>12, <1>13, <3>1, <4>1
    <3> QED
      BY <1>3, <3>2, <3>3
  <2> QED
    BY <1>11, <2>1, <2>2 DEF Layout
<1>15. RingIntact'
  BY <1>1, <1>3, <1>10, KernelReadRing
<1>16. RepliedOnce' /\ RepliesPast(s)'
  BY <1>1, <1>2, <1>4 DEF RepliedOnce, RepliesPast
<1>17. s \in 0 .. Len(reqs') /\ g \in 0 .. Len(reqs')
  BY <1>3, <1>11
<1>18. Positions(s, g)'
  <2>1. cur' = EndOf(s)' /\ head' = EndOf(g)'
    BY <1>3, <1>4, <1>12
  <2>2. Len(reqs') - 1 = g /\ reqs'[Len(reqs')].len = len
    BY <1>3, <1>10, <1>11
  <2> QED
    BY <1>3, <1>6, <1>8, <1>17, <2>1, <2>2 DEF Positions
<1>19. Backlog(s, g)'
  <2>1. Pending /\ Pending'
    BY <1>8 DEF Pending
  <2>2. Len(reqs') - s <= 3
    BY <1>3, <1>10, <1>11
  <2> QED
    BY <1>2, <1>4, <1>7, <2>1, <2>2 DEF Backlog
<1> QED
  BY <1>9, <1>14, <1>15, <1>16, <1>17, <1>18, <1>19 DEF RInv

-----------------------------------------------------------------------------
(* The second invariant is inductive relative to the first.                *)

LEMMA InitRInv == Init => RInv
<1> SUFFICES ASSUME Init PROVE RInv
  OBVIOUS
<1> DEFINE first(res) == [kind |-> "open", res |-> res, reply |-> NoReply]
<1>1. PICK res \in {-1, 3} : cq = <<first(res)>>
  BY DEF Init
<1>2. /\ pc = "wait" /\ cur = 0 /\ head = 0 /\ cur_sz = 0 /\ num_rqs = 0
      /\ queue_next = FALSE /\ reads = {} /\ flying = {} /\ reqs = <<>>
      /\ answered = {} /\ rejected = {}
  BY DEF Init
<1>3. Len(reqs) = 0 /\ DOMAIN reqs = {} /\ EndOf(0) = 0
  BY <1>2 DEF EndOf
<1>4. OthersIn(cq) = {1} /\ Waiting = {first(res)} /\ ~Lands(first(res))
  BY <1>1 DEF OthersIn, Waiting, WaitingIn, Lands
<1> HIDE DEF first
<1>5. Layout
  BY <1>3 DEF Layout
<1>6. OnePending
  BY <1>2, <1>4 DEF OnePending
<1>7. RingIntact /\ RepliedOnce
  BY <1>2, <1>3 DEF RingIntact, RepliedOnce
<1>8. 0 \in 0 .. Len(reqs) /\ Positions(0, 0)
  BY <1>2, <1>3, <1>4 DEF Positions
<1>9. Backlog(0, 0) /\ RepliesPast(0)
  BY <1>2, <1>3, <1>4 DEF Backlog, RepliesPast, Pending
<1> QED
  BY <1>5, <1>6, <1>7, <1>8, <1>9 DEF RInv

LEMMA HandledRInv ==
  ASSUME IInv, IInv', RInv, Serve
  PROVE  RInv'
BY ServeShape, AnswersRInv, GivesUpRInv, DieRInv DEF Handled

LEMMA NextRInv == IInv /\ IInv' /\ RInv /\ [Next]_vars => RInv'
<1> SUFFICES ASSUME IInv, IInv', RInv, [Next]_vars PROVE RInv'
  OBVIOUS
<1>1. CASE OnOpened
  BY <1>1, OnOpenedRInv
<1>2. CASE OnRead
  BY <1>2, OnReadRInv
<1>3. CASE OnReply
  BY <1>3, OnReplyRInv
<1>4. CASE OutOfCommands
  BY <1>4, OutOfCommandsRInv
<1>5. CASE Serve
  BY <1>5, HandledRInv
<1>6. CASE ServeSilent
  BY <1>6, ServeSilentRInv
<1>7. ASSUME NEW r \in reads, KernelReadFails(r) PROVE RInv'
  BY <1>7, KernelReadFailsRInv
<1>8. ASSUME NEW r \in reads, NEW op \in Ops, NEW arg \in ArgsOf(op),
             NEW len \in ReqLens, KernelRead(r, op, arg, len)
      PROVE  RInv'
  BY <1>8, KernelReadRInv
<1>9. ASSUME NEW w \in flying, KernelTakesReply(w) PROVE RInv'
  BY <1>9, KernelTakesReplyRInv
<1>10. CASE UNCHANGED vars
  BY <1>10, StutterRInv
<1> QED
  BY <1>1, <1>2, <1>3, <1>4, <1>5, <1>6, <1>7, <1>8, <1>9, <1>10
     DEF Next, Loop, Kernel, Serve

LEMMA RingInvariance == Spec => [](IInv /\ RInv)
<1>1. Init => IInv /\ RInv
  BY InitIInv, InitRInv
<1>2. (IInv /\ RInv) /\ [Next]_vars => (IInv /\ RInv)'
  BY NextIInv, NextRInv
<1> QED
  BY <1>1, <1>2, PTL DEF Spec

-----------------------------------------------------------------------------
(* The theorems.                                                           *)

(* The ring never overwrites a byte that is not yet served: for every size *)
(* of read_buf that holds three requests, and every stream of requests     *)
(* (main.cpp:54-64, 898-911).                                              *)
THEOREM RingStaysIntact == Spec => []RingIntact
<1>1. RInv => RingIntact
  BY DEF RInv
<1> QED
  BY <1>1, RingInvariance, PTL

(* No handler that ran again after -2, and no order of completions, makes  *)
(* a second reply to a request (main.cpp:902-919).                         *)
THEOREM RepliesAreSingle == Spec => []RepliedOnce
<1>1. RInv => RepliedOnce
  BY DEF RInv
<1> QED
  BY <1>1, RingInvariance, PTL

(* At most one read is queued and it lands right behind what was received, *)
(* with room for any request, although the code computes that room from    *)
(* cur and not from its remainder (main.cpp:54-64).                        *)
THEOREM ReadsAreSingle == Spec => []OneRead
<1>1. IInv /\ RInv => OneRead
  <2> SUFFICES ASSUME IInv, RInv PROVE OneRead
    OBVIOUS
  <2>1. Waiting = {} <=> OthersIn(cq) = {}
    BY WaitingEmpty DEF Waiting
  <2>2. \A i, j \in OthersIn(cq) : i = j
    BY DEF RInv, OnePending
  <2>3. OthersIn(cq) = {} \/ \E i : OthersIn(cq) = {i}
    BY <2>2
  <2>4. reads = {} \/ \E r : reads = {r}
    <3>1. \A r1, r2 \in reads : r1 = r2
      BY DEF RInv, OnePending
    <3> QED
      BY <3>1
  <2>5. reads = {} \/ OthersIn(cq) = {}
    BY <2>1 DEF RInv, OnePending
  <2>6. Cardinality({}) = 0 /\ \A x : Cardinality({x}) = 1
    BY FS_EmptySet, FS_Singleton
  <2>7. Cardinality(reads) + Cardinality(OthersIn(cq)) <= 1
    <3>1. (Cardinality(reads) = 0 /\ reads = {}) \/ Cardinality(reads) = 1
      BY <2>4, <2>6
    <3>2. \/ Cardinality(OthersIn(cq)) = 0 /\ OthersIn(cq) = {}
          \/ Cardinality(OthersIn(cq)) = 1
      BY <2>3, <2>6
    <3>3. Cardinality(reads) = 0 \/ Cardinality(OthersIn(cq)) = 0
      BY <2>5, <2>6
    <3> QED
      BY <3>1, <3>2, <3>3
  <2> QED
    BY <2>7 DEF RInv, OnePending, OneRead, OthersIn
<1> QED
  BY <1>1, RingInvariance, PTL

(* With nothing left to serve, the loop is never without a read: no        *)
(* request of an idle mount goes unnoticed (main.cpp:898-911).             *)
THEOREM IdleLoopListens == Spec => []IdleIsListening
<1>1. IInv /\ RInv => IdleIsListening
  <2> SUFFICES ASSUME IInv, RInv, pc = "wait", cur = head, reads = {}
               PROVE  \E i \in DOMAIN cq : cq[i].kind # "reply"
    BY DEF IdleIsListening
  <2>1. TypeOK /\ Layout
    BY DEF IInv, RInv
  <2>2. PICK s, g \in 0 .. Len(reqs) : Positions(s, g) /\ Backlog(s, g)
    BY DEF RInv
  <2>3. s \in 0 .. g /\ cur = EndOf(s) /\ head = EndOf(g)
    BY <2>1, <2>2, PositionsTyped
  <2>4. ~(s < g)
    <3>1. s < g => EndOf(s) < EndOf(g)
      BY <2>1 DEF Layout
    <3>2. EndOf(s) = EndOf(g) /\ EndOf(s) \in Nat
      BY <2>1, <2>3, Ends
    <3> QED
      BY <3>1, <3>2
  <2>5. Pending
    BY <2>2, <2>3, <2>4 DEF Backlog
  <2>6. OthersIn(cq) # {}
    BY <2>5, WaitingEmpty DEF Pending, Waiting
  <2> QED
    BY <2>6 DEF OthersIn
<1> QED
  BY <1>1, RingInvariance, PTL

(* cur moves over one whole request at a time, the next one of the stream, *)
(* and never past what was received (main.cpp:346-361, every handler's     *)
(* cur += hdr.len).                                                        *)
THEOREM WholeRequestsServed == Spec => ServesWholeRequests
<1> DEFINE Moves == cur' # cur => /\ cur' <= head
                                  /\ \E n \in DOMAIN reqs : /\ cur = reqs[n].at
                                                            /\ cur' = cur + reqs[n].len
<1>1. IInv /\ RInv /\ [Next]_vars => [Moves]_vars
  <2> SUFFICES ASSUME IInv, RInv, Next, cur' # cur
               PROVE  Moves
    OBVIOUS
  <2>1. TypeOK /\ Layout /\ RingIntact
    BY DEF IInv, RInv
  <2>2. PICK s, g \in 0 .. Len(reqs) : Positions(s, g)
    BY DEF RInv
  <2>3. Len(reqs) \in Nat /\ s \in 0 .. g /\ g \in s .. Len(reqs)
        /\ cur = EndOf(s) /\ head = EndOf(g)
    BY <2>1, <2>2, PositionsTyped
  <2>4. HasCommand /\ cur' = cur + CurReq.len
    <3>1. CASE Serve
      <4>1. HasCommand /\ Handled
        BY <3>1, ServeShape
      <4>2. Answers
        BY <4>1 DEF Handled, GivesUp, Stall, Die, inVars
      <4> QED
        BY <4>1, <4>2 DEF Answers, Send
    <3>2. CASE ServeSilent
      BY <3>2 DEF ServeSilent, Serving
    <3>3. OnOpened \/ OnRead \/ OnReply \/ OutOfCommands \/ Kernel => cur' = cur
      BY DEF OnOpened, OnRead, OnReply, OutOfCommands, inVars, Kernel, KernelRead,
             KernelReadFails, KernelTakesReply
    <3> QED
      BY <3>1, <3>2, <3>3 DEF Next, Loop, Serve
  <2>5. /\ s < g /\ s + 1 \in DOMAIN reqs /\ CurReq = reqs[s + 1]
        /\ cur = reqs[s + 1].at /\ cur + CurReq.len = EndOf(s + 1)
    BY <2>1, <2>3, <2>4, NextRequest
  <2>6. EndOf(s + 1) <= head
    <3>1. s + 1 \in 0 .. Len(reqs) /\ g \in 0 .. Len(reqs) /\ s + 1 <= g
      BY <2>3, <2>5
    <3> QED
      BY <2>1, <2>3, <3>1, EndsOrdered
  <2> QED
    BY <2>4, <2>5, <2>6
<1> QED
  BY <1>1, RingInvariance, PTL DEF Spec, ServesWholeRequests

-----------------------------------------------------------------------------
(* The loop implements the abstract server.                                *)

ServedSet == {n \in DOMAIN reqs : reqs[n].at + reqs[n].len <= cur}

LEMMA ServedUpTo ==
  ASSUME TypeOK, Layout, NEW t \in 0 .. Len(reqs)
  PROVE  /\ {n \in DOMAIN reqs : reqs[n].at + reqs[n].len <= EndOf(t)} = 1 .. t
         /\ Cardinality(1 .. t) = t
<1>1. Len(reqs) \in Nat /\ DOMAIN reqs = 1 .. Len(reqs)
  BY Ends
<1>2. ASSUME NEW n \in 1 .. Len(reqs)
      PROVE  reqs[n].at + reqs[n].len <= EndOf(t) <=> n <= t
  <2>1. n \in 0 .. Len(reqs) /\ EndOf(n) = reqs[n].at + reqs[n].len
    BY <1>1 DEF EndOf
  <2>2. EndOf(n) \in Nat /\ EndOf(t) \in Nat
    BY <2>1, Ends
  <2>3. n <= t => EndOf(n) <= EndOf(t)
    BY <2>1, EndsOrdered
  <2>4. t < n => EndOf(t) < EndOf(n)
    BY <2>1 DEF Layout
  <2> QED
    BY <1>1, <2>1, <2>2, <2>3, <2>4
<1>3. {n \in DOMAIN reqs : reqs[n].at + reqs[n].len <= EndOf(t)} = 1 .. t
  BY <1>1, <1>2
<1>4. Cardinality(1 .. t) = t
  BY <1>1, FS_Interval
<1> QED
  BY <1>3, <1>4

(* Serving one more request is one step of the server. *)
LEMMA ServedOneMore ==
  ASSUME IInv, RInv, pc = "serve", HasCommand, cur' = cur + CurReq.len,
         UNCHANGED <<pc, reqs, answered, rejected>>
  PROVE  Server!Serve
<1>1. TypeOK /\ Layout /\ RingIntact
  BY DEF IInv, RInv
<1>2. PICK s, g \in 0 .. Len(reqs) : Positions(s, g)
  BY DEF RInv
<1>3. Len(reqs) \in Nat /\ s \in 0 .. g /\ g \in s .. Len(reqs)
      /\ cur = EndOf(s) /\ head = EndOf(g)
  BY <1>1, <1>2, PositionsTyped
<1>4. s < g /\ cur' = EndOf(s + 1)
  BY <1>1, <1>3, NextRequest
<1>5. s + 1 \in 0 .. Len(reqs)
  BY <1>3, <1>4
<1>6. ServedSet = 1 .. s /\ Cardinality(ServedSet) = s
  BY <1>1, <1>3, ServedUpTo DEF ServedSet
<1>7. ServedSet' = 1 .. (s + 1) /\ Cardinality(ServedSet') = s + 1
  BY <1>1, <1>4, <1>5, ServedUpTo DEF ServedSet
<1> QED
  BY <1>3, <1>4, <1>6, <1>7 DEF Server!Serve, ServedSet

(* A step that neither delivers nor serves nor replies is a stutter of the *)
(* server, or its end.                                                     *)
LEMMA QuietOrStop ==
  ASSUME UNCHANGED <<reqs, cur, answered, rejected>>, pc' = "down" \/ (pc # "down" /\ pc' # "down")
  PROVE  Server!Stop \/ UNCHANGED Server!vars
BY DEF Server!Stop, Server!vars

LEMMA ArriveStep ==
  ASSUME IInv, RInv,
         NEW r \in reads, NEW op \in Ops, NEW arg \in ArgsOf(op), NEW len \in ReqLens,
         KernelRead(r, op, arg, len)
  PROVE  Server!Arrive
<1>1. TypeOK /\ Layout
  BY DEF IInv, RInv
<1>2. PICK s, g \in 0 .. Len(reqs) : Positions(s, g)
  BY DEF RInv
<1>3. Len(reqs) \in Nat /\ s \in 0 .. g /\ g \in s .. Len(reqs)
      /\ cur = EndOf(s) /\ head = EndOf(g)
  BY <1>1, <1>2, PositionsTyped
<1>4. /\ reqs' = Append(reqs, [op |-> op, arg |-> arg, len |-> len, at |-> head])
      /\ UNCHANGED <<pc, cur, answered, rejected>>
  BY DEF KernelRead, loopVars
<1>5. cur <= head /\ cur \in Nat /\ head \in Nat /\ len \in Nat /\ len > 0
  <2>1. s \in 0 .. Len(reqs) /\ g \in 0 .. Len(reqs) /\ s <= g
    BY <1>3
  <2> QED
    BY <1>1, <1>3, <2>1, EndsOrdered, LenFacts DEF TypeOK
<1>6. /\ Len(reqs') = Len(reqs) + 1 /\ DOMAIN reqs' = 1 .. Len(reqs) + 1
      /\ DOMAIN reqs = 1 .. Len(reqs)
      /\ \A n \in 1 .. Len(reqs) : reqs'[n] = reqs[n]
      /\ reqs'[Len(reqs) + 1].len = len /\ reqs'[Len(reqs) + 1].at = head
  BY <1>1, <1>3, <1>4 DEF TypeOK
<1>7. ~(reqs'[Len(reqs) + 1].at + reqs'[Len(reqs) + 1].len <= cur')
  BY <1>4, <1>5, <1>6
<1>8. ServedSet' = ServedSet
  BY <1>3, <1>4, <1>6, <1>7 DEF ServedSet
<1> QED
  BY <1>4, <1>6, <1>8 DEF Server!Arrive, ServedSet

LEMMA ReplyStep ==
  ASSUME IInv, RInv, NEW w \in flying, KernelTakesReply(w)
  PROVE  \E n \in 1 .. Cardinality(ServedSet) : Server!ReplyTo(n)
<1>1. TypeOK /\ Layout
  BY DEF IInv, RInv
<1>2. PICK s, g \in 0 .. Len(reqs) : Positions(s, g) /\ RepliesPast(s)
  BY DEF RInv
<1>3. cur = EndOf(s)
  BY <1>2 DEF Positions
<1>4. Cardinality(ServedSet) = s
  BY <1>1, <1>3, ServedUpTo DEF ServedSet
<1>5. w.n \in 1 .. s /\ w.n \notin answered \cup rejected
  BY <1>2 DEF RepliesPast, RInv, RepliedOnce
<1>6. /\ answered' \cup rejected' = (answered \cup rejected) \cup {w.n}
      /\ UNCHANGED <<pc, reqs, cur>>
  BY DEF KernelTakesReply, loopVars, inVars
<1> QED
  BY <1>4, <1>5, <1>6 DEF Server!ReplyTo, ServedSet

LEMMA StepImplements ==
  IInv /\ RInv /\ [Next]_vars => [Server!Next]_(Server!vars)
<1> SUFFICES ASSUME IInv, RInv, [Next]_vars
             PROVE  Server!Next \/ UNCHANGED Server!vars
  OBVIOUS
<1>1. CASE OnOpened \/ OnRead \/ OnReply \/ OutOfCommands
  <2>1. UNCHANGED <<reqs, cur, answered, rejected>> /\ pc # "down"
    BY <1>1 DEF OnOpened, OnRead, OnReply, OutOfCommands, Consume, inVars, kernelVars
  <2> QED
    BY <2>1, QuietOrStop DEF Server!Next
<1>2. CASE Serve
  <2>1. pc = "serve" /\ HasCommand /\ Handled
    BY <1>2, ServeShape
  <2>2. CASE Answers
    <3>1. cur' = cur + CurReq.len /\ UNCHANGED <<pc, reqs, answered, rejected>>
      BY <2>2 DEF Answers, Send, loopVars, kernelVars
    <3> QED
      BY <2>1, <3>1, ServedOneMore DEF Server!Next
  <2>3. CASE GivesUp \/ Die
    <3>1. UNCHANGED <<reqs, cur, answered, rejected>>
      BY <2>3 DEF GivesUp, Stall, Die, inVars, kernelVars
    <3> QED
      BY <2>1, <3>1, QuietOrStop DEF Server!Next
  <2> QED
    BY <2>1, <2>2, <2>3 DEF Handled
<1>3. CASE ServeSilent
  <2>1. /\ pc = "serve" /\ HasCommand /\ cur' = cur + CurReq.len
        /\ UNCHANGED <<pc, reqs, answered, rejected>>
    BY <1>3 DEF ServeSilent, Serving, loopVars, kernelVars
  <2> QED
    BY <2>1, ServedOneMore DEF Server!Next
<1>4. ASSUME NEW r \in reads, KernelReadFails(r)
      PROVE  UNCHANGED Server!vars
  BY <1>4 DEF KernelReadFails, loopVars, Server!vars
<1>5. ASSUME NEW r \in reads, NEW op \in Ops, NEW arg \in ArgsOf(op),
             NEW len \in ReqLens, KernelRead(r, op, arg, len)
      PROVE  Server!Next
  BY <1>5, ArriveStep DEF Server!Next
<1>6. ASSUME NEW w \in flying, KernelTakesReply(w)
      PROVE  Server!Next
  BY <1>6, ReplyStep DEF Server!Next, ServedSet
<1>7. CASE UNCHANGED vars
  BY <1>7 DEF vars, Server!vars
<1> QED
  BY <1>1, <1>2, <1>3, <1>4, <1>5, <1>6, <1>7 DEF Next, Loop, Kernel, Serve

(* The event loop implements RequestServer: whatever the sizes of its      *)
(* buffers and the order of completions, requests are served one at a time *)
(* in the order they arrived and replied to at most once, never before     *)
(* (main.cpp: the loop and process_commands).                              *)
THEOREM LoopImplementsServer == Spec => ImplementsServer
<1>1. Init => Server!Init
  <2> SUFFICES ASSUME Init PROVE Server!Init
    OBVIOUS
  <2>1. Len(reqs) = 0 /\ answered \cup rejected = {} /\ pc # "down"
    BY DEF Init
  <2>2. {n \in DOMAIN reqs : reqs[n].at + reqs[n].len <= cur} = {}
    BY DEF Init
  <2> QED
    BY <2>1, <2>2, FS_EmptySet DEF Server!Init
<1>2. IInv /\ RInv /\ [Next]_vars => [Server!Next]_(Server!vars)
  BY StepImplements
<1> QED
  BY <1>1, <1>2, RingInvariance, PTL DEF Spec, ImplementsServer, Server!Spec
=============================================================================
