---------------------------- MODULE P4VfsProofs ----------------------------
(***************************************************************************)
(* Proofs about P4Vfs: the whole daemon is the event loop and the handlers *)
(* on the table at once, so that what is proved of each part holds of it,  *)
(* and what it does once although a handler may run several times.         *)
(***************************************************************************)
EXTENDS P4Vfs, FiniteSetTheorems, TLAPS

-----------------------------------------------------------------------------
(* The inductive invariant: those of the two parts, and what connects them.*)

(* What a request is about. *)
AimInv ==
  /\ aim \in Seq([node : F!Ids, name : F!Asked])
  /\ Len(aim) = Len(reqs)

(* A listing runs inside the handler of the request it is for. *)
WaitInv == ~F!Idle => Serving("LOOKUP") \/ Serving("READDIR")

(* The kernel has files open only on nodes it knows, one for each OPEN     *)
(* that was served and not undone by a RELEASE.                            *)
HeldInv ==
  /\ handles \in [F!Ids -> Nat]
  /\ \A n \in F!Ids \ F!InUse : table.ent[n].refcnt = 0
  /\ \A n \in F!Ids :
       /\ handles[n] > 0 => n \in F!KnownNodes
       /\ handles[n] = Cardinality(Served("OPEN", n)) - Cardinality(Served("RELEASE", n))

(* Clients do not close what they are reading. *)
ReadInv ==
  \A n \in F!Ids : OpenFiles(n) >= IF About("READ", n) \subseteq Done THEN 0 ELSE 1

(* What was synced is marked. *)
SyncInv ==
  /\ syncs \in [F!Ids -> {0, 1}]
  /\ \A n \in F!Ids : syncs[n] = 1 => n \in F!InUse /\ table.ent[n].bList

VInv == AimInv /\ WaitInv /\ HeldInv /\ ReadInv /\ SyncInv
-----------------------------------------------------------------------------
(* Every step of the daemon is a step of the loop, or none.                *)

LEMMA LoopStep == [Next]_vars => [L!Next]_(L!vars)
<1> SUFFICES ASSUME [Next]_vars PROVE L!Next \/ UNCHANGED L!vars
  OBVIOUS
<1>1. ASSUME NEW r \in reads, NEW op \in Ops, NEW arg \in L!ArgsOf(op), NEW len \in ReqLens,
             L!KernelRead(r, op, arg, len)
      PROVE  L!Next
  BY <1>1 DEF L!Next, L!Kernel
<1>2. CASE KernelRead
  BY <1>1, <1>2 DEF KernelRead
<1>3. CASE KernelTakesReply
  BY <1>3 DEF KernelTakesReply, L!Next, L!Kernel
<1>4. L!ServePrologue \/ L!ServeReaddir \/ L!ServeReadlink \/ L!ServeRead => L!Next
  BY DEF L!Next, L!Loop
<1>5. CASE MainLoop
  BY <1>5 DEF MainLoop, L!Next, L!Loop
<1>6. CASE NoRoom \/ ListingEnds
  BY <1>4, <1>6 DEF NoRoom, ListingEnds
<1>7. CASE ServeLookup \/ ServeReaddir \/ P4Answers
  BY <1>4, <1>7 DEF ServeLookup, ServeReaddir, P4Answers, loopVars, L!vars
<1>8. CASE ServeOpen \/ ServeRelease \/ ServeReadlink \/ ServeRead
  BY <1>4, <1>8 DEF ServeOpen, ServeRelease, ServeReadlink, ServeRead
<1>9. CASE UNCHANGED vars
  BY <1>9 DEF vars, loopVars, L!vars
<1> QED
  BY <1>2, <1>3, <1>5, <1>6, <1>7, <1>8, <1>9 DEF Next, Daemon

LEMMA LoopHolds == Spec => [](L!IInv /\ L!RInv)
<1>1. L!Spec => [](L!IInv /\ L!RInv)
  BY L!RingInvariance, LoopAssumption
<1>2. Init => L!Init
  BY DEF Init
<1> QED
  BY <1>1, <1>2, LoopStep, PTL DEF Spec, L!Spec

-----------------------------------------------------------------------------
(* What the loop's invariants say of the request that is served next.      *)

LEMMA LoopTypes ==
  ASSUME L!IInv, L!RInv
  PROVE  /\ L!TypeOK /\ L!Layout
         /\ Len(reqs) \in Nat /\ DOMAIN reqs = 1 .. Len(reqs)
         /\ cur \in Nat /\ head \in Nat
<1>1. L!TypeOK /\ L!Layout
  BY DEF L!IInv, L!RInv
<1> QED
  BY <1>1, L!Ends, LoopAssumption DEF L!TypeOK

(* Requests up to number s are served, those that were replied to among    *)
(* them; the next one, if it is there, is what the loop decodes.           *)
NextAfter(s) ==
  /\ L!ServedSet = 1 .. s /\ Done \subseteq 1 .. s
  /\ cur <= head /\ (L!HasCommand <=> cur < head)
  /\ L!HasCommand => /\ s + 1 \in DOMAIN reqs
                     /\ L!CurN = s + 1 /\ L!CurReq = reqs[s + 1]
                     /\ cur + L!CurReq.len = L!EndOf(s + 1)

LEMMA NextUp == L!IInv /\ L!RInv => \E s \in 0 .. Len(reqs) : NextAfter(s)
<1> SUFFICES ASSUME L!IInv, L!RInv PROVE \E s \in 0 .. Len(reqs) : NextAfter(s)
  OBVIOUS
<1>1. L!TypeOK /\ L!Layout /\ L!RingIntact /\ Len(reqs) \in Nat
  BY LoopTypes DEF L!RInv
<1>2. PICK s, g \in 0 .. Len(reqs) : L!Positions(s, g) /\ L!RepliesPast(s)
  BY DEF L!RInv
<1>3. s \in 0 .. g /\ g \in s .. Len(reqs) /\ cur = L!EndOf(s) /\ head = L!EndOf(g)
  BY <1>1, <1>2, L!PositionsTyped, LoopAssumption
<1>4. L!ServedSet = 1 .. s
  BY <1>1, <1>3, L!ServedUpTo, LoopAssumption DEF L!ServedSet
<1>5. Done \subseteq 1 .. s
  BY <1>2 DEF L!RepliesPast, Done
<1>6. /\ L!HasCommand <=> s < g
      /\ s < g => /\ L!CurN = s + 1 /\ s + 1 \in DOMAIN reqs
                  /\ L!CurReq = reqs[s + 1] /\ cur + L!CurReq.len = L!EndOf(s + 1)
  BY <1>1, <1>3, L!NextRequest, LoopAssumption
<1>7. cur <= head /\ (s < g <=> cur < head)
  <2>1. s < g => L!EndOf(s) < L!EndOf(g)
    BY <1>1 DEF L!Layout
  <2>2. cur \in Nat /\ head \in Nat
    BY LoopTypes
  <2> QED
    BY <1>3, <2>1, <2>2
<1> QED
  BY <1>4, <1>5, <1>6, <1>7 DEF NextAfter

LEMMA NextUpLater == (L!IInv /\ L!RInv => \E s \in 0 .. Len(reqs) : NextAfter(s))'
BY NextUp, PTL

(* A request of a known opcode is one that was delivered.                  *)
LEMMA Current ==
  ASSUME L!IInv, L!RInv, NEW op, Serving(op), op # "garbage"
  PROVE  /\ pc = "serve" /\ L!HasCommand /\ L!CurReq.op = op
         /\ L!CurN \in DOMAIN reqs /\ L!CurReq = reqs[L!CurN]
         /\ L!CurN \notin L!ServedSet
<1>1. pc = "serve" /\ L!HasCommand /\ L!CurReq.op = op
  BY DEF Serving, L!Serving
<1>2. PICK s \in 0 .. Len(reqs) :
        /\ L!ServedSet = 1 .. s
        /\ s + 1 \in DOMAIN reqs /\ L!CurN = s + 1 /\ L!CurReq = reqs[s + 1]
  BY <1>1, NextUp DEF NextAfter
<1> QED
  BY <1>1, <1>2

LEMMA AimTyped ==
  ASSUME L!IInv, L!RInv, AimInv, NEW n \in DOMAIN reqs
  PROVE  aim[n] = [node |-> aim[n].node, name |-> aim[n].name]
         /\ aim[n].node \in F!Ids /\ aim[n].name \in F!Asked
<1>1. n \in 1 .. Len(aim)
  BY LoopTypes DEF AimInv
<1>2. aim[n] \in [node : F!Ids, name : F!Asked]
  <2> DEFINE S == [node : F!Ids, name : F!Asked]
  <2>1. aim \in Seq(S)
    BY DEF AimInv
  <2> HIDE DEF S
  <2>2. aim[n] \in S
    BY <1>1, <2>1
  <2> QED
    BY <2>2 DEF S
<1> QED
  BY <1>2

-----------------------------------------------------------------------------
(* Every step of the daemon is a step of a handler on the table, or none.  *)

LEMMA HandlerStep ==
  ASSUME L!IInv, L!RInv, VInv, [Next]_vars
  PROVE  F!Next \/ UNCHANGED F!vars
<1>1. UNCHANGED fsVars => UNCHANGED F!vars
  BY DEF fsVars, F!vars
<1>2. CASE KernelRead \/ KernelTakesReply \/ MainLoop \/ NoRoom \/ ServeRead
  BY <1>1, <1>2 DEF KernelRead, KernelTakesReply, MainLoop, NoRoom, ServeRead
<1>3. CASE ServeLookup
  <2>1. Serving("LOOKUP") /\ F!Lookup(Aim.node, Aim.name)
    BY <1>3 DEF ServeLookup, Room
  <2>2. Aim.name \in F!Asked
    BY <2>1, Current, AimTyped DEF Aim, VInv
  <2>3. Aim.node \in F!KnownNodes
    BY <2>1 DEF F!Lookup, F!KnownDir
  <2> QED
    BY <2>1, <2>2, <2>3 DEF F!Next
<1>4. CASE ServeReaddir
  <2>1. F!Readdir(Aim.node) => Aim.node \in F!KnownNodes
    BY DEF F!Readdir, F!KnownDir
  <2> QED
    BY <1>1, <1>4, <2>1 DEF ServeReaddir, F!Next
<1>5. CASE P4Answers \/ ListingEnds
  BY <1>5 DEF P4Answers, ListingEnds, F!Next
<1>6. CASE ServeOpen
  BY <1>6 DEF ServeOpen, F!Open, F!Next
<1>7. CASE ServeRelease
  <2>1. Serving("RELEASE") /\ F!Release(Aim.node)
    BY <1>7 DEF ServeRelease, Room
  <2>2. Aim.node \in F!Ids
    BY <2>1, Current, AimTyped DEF Aim, VInv
  <2>3. Aim.node \in F!KnownNodes
    BY <2>1, <2>2 DEF F!Release, VInv, HeldInv
  <2> QED
    BY <2>1, <2>3 DEF F!Next
<1>8. CASE ServeReadlink
  BY <1>8 DEF ServeReadlink, F!Readlink, F!Next
<1>9. CASE UNCHANGED vars
  BY <1>1, <1>9 DEF vars
<1> QED
  BY <1>2, <1>3, <1>4, <1>5, <1>6, <1>7, <1>8, <1>9 DEF Next, Daemon

LEMMA TableHolds ==
  ASSUME L!IInv, L!RInv, VInv, F!IInv, [Next]_vars
  PROVE  F!IInv' /\ F!Grows
BY HandlerStep, F!NextPreserves, FsAssumption

-----------------------------------------------------------------------------
(* Counting the requests of one opcode about one node.                     *)

LEMMA Counts ==
  ASSUME L!IInv, L!RInv, NEW op, NEW n
  PROVE  /\ About(op, n) \subseteq DOMAIN reqs
         /\ Served(op, n) = About(op, n) \cap L!ServedSet
         /\ \A S \in SUBSET About(op, n) : IsFiniteSet(S) /\ Cardinality(S) \in Nat
<1>1. About(op, n) \subseteq DOMAIN reqs
  BY DEF About, Requests
<1>2. Served(op, n) = About(op, n) \cap L!ServedSet
  BY <1>1 DEF Served, L!ServedSet
<1>3. IsFiniteSet(DOMAIN reqs)
  BY LoopTypes, FS_Interval
<1>4. ASSUME NEW S \in SUBSET About(op, n)
      PROVE  IsFiniteSet(S) /\ Cardinality(S) \in Nat
  BY <1>1, <1>3, FS_Subset, FS_CardinalityType
<1> QED
  BY <1>1, <1>2, <1>4

(* S with one more element when b. *)
Plus(S, b, x) == IF b THEN S \cup {x} ELSE S

LEMMA PlusCounts ==
  ASSUME NEW S, IsFiniteSet(S), Cardinality(S) \in Nat, NEW x, x \notin S,
         NEW b \in BOOLEAN
  PROVE  Cardinality(Plus(S, b, x)) = Cardinality(S) + IF b THEN 1 ELSE 0
<1>1. Cardinality(S \cup {x}) = Cardinality(S) + 1
  BY FS_AddElement
<1> QED
  BY <1>1 DEF Plus

(* A step that delivers nothing and serves nothing. *)
LEMMA Still ==
  ASSUME UNCHANGED <<cur, reqs, aim>>
  PROVE  \A op, n : /\ About(op, n)' = About(op, n)
                    /\ Served(op, n)' = Served(op, n)
BY DEF About, Requests, Served

(* A step that serves the current request.                                 *)
LEMMA ServesOne ==
  ASSUME L!IInv, L!RInv, pc = "serve", L!HasCommand,
         cur' = cur + L!CurReq.len, UNCHANGED <<reqs, aim>>
  PROVE  \A op, n :
           /\ About(op, n)' = About(op, n)
           /\ L!CurN \notin Served(op, n)
           /\ Served(op, n)' = Plus(Served(op, n), L!CurReq.op = op /\ Aim.node = n, L!CurN)
<1>1. PICK s \in 0 .. Len(reqs) :
        /\ L!ServedSet = 1 .. s
        /\ s + 1 \in DOMAIN reqs /\ L!CurN = s + 1 /\ L!CurReq = reqs[s + 1]
        /\ cur + L!CurReq.len = L!EndOf(s + 1)
  BY NextUp DEF NextAfter
<1>2. s + 1 \in 0 .. Len(reqs) /\ s \in Nat /\ L!TypeOK /\ L!Layout
  BY <1>1, LoopTypes
<1>3. {n \in DOMAIN reqs : reqs[n].at + reqs[n].len <= L!EndOf(s + 1)} = 1 .. (s + 1)
  BY <1>2, L!ServedUpTo, LoopAssumption
<1>4. L!ServedSet' = L!ServedSet \cup {L!CurN} /\ L!CurN \notin L!ServedSet
  BY <1>1, <1>2, <1>3 DEF L!ServedSet
<1> TAKE op, n
<1>5. About(op, n)' = About(op, n)
  BY DEF About, Requests
<1>6. L!CurN \in About(op, n) <=> L!CurReq.op = op /\ Aim.node = n
  BY <1>1 DEF About, Requests, Aim
<1>7. /\ Served(op, n) = About(op, n) \cap L!ServedSet
      /\ Served(op, n)' = About(op, n)' \cap L!ServedSet'
  BY DEF Served, About, Requests, L!ServedSet
<1> QED
  BY <1>4, <1>5, <1>6, <1>7 DEF Plus

(* A step that delivers a request.                                         *)
LEMMA Delivers ==
  ASSUME L!IInv, L!RInv, AimInv,
         NEW r, NEW op \in Ops, NEW arg, NEW len \in ReqLens, L!KernelRead(r, op, arg, len),
         NEW n \in F!Ids, NEW name \in F!Asked,
         aim' = Append(aim, [node |-> n, name |-> name])
  PROVE  /\ L!ServedSet' = L!ServedSet
         /\ DOMAIN reqs' = DOMAIN reqs \cup {Len(reqs) + 1}
         /\ Len(reqs') = Len(reqs) + 1 /\ Len(reqs) + 1 \notin DOMAIN reqs
         /\ \A i \in DOMAIN reqs : reqs'[i] = reqs[i]
         /\ \A x, m :
              /\ About(x, m)' = Plus(About(x, m), x = op /\ m = n, Len(reqs) + 1)
              /\ Served(x, m)' = Served(x, m)
<1> DEFINE N == Len(reqs) + 1
<1>1. /\ reqs' = Append(reqs, [op |-> op, arg |-> arg, len |-> len, at |-> head])
      /\ cur' = cur
  BY DEF L!KernelRead
<1>2. /\ Len(reqs) \in Nat /\ DOMAIN reqs = 1 .. Len(reqs)
      /\ cur \in Nat /\ head \in Nat /\ L!TypeOK
  BY LoopTypes
<1>3. len \in Nat /\ len > 0
  BY L!LenFacts, LoopAssumption
<1>4. cur <= head
  BY NextUp DEF NextAfter
<1>5. /\ DOMAIN reqs' = DOMAIN reqs \cup {N} /\ N \notin DOMAIN reqs /\ Len(reqs') = N
      /\ \A i \in DOMAIN reqs : reqs'[i] = reqs[i]
      /\ reqs'[N].op = op /\ reqs'[N].at = head /\ reqs'[N].len = len
  BY <1>1, <1>2 DEF L!TypeOK
<1>6. /\ \A i \in DOMAIN reqs : aim'[i] = aim[i]
      /\ aim'[N].node = n
  <2>1. aim \in Seq([node : F!Ids, name : F!Asked]) /\ Len(aim) = Len(reqs)
    BY DEF AimInv
  <2> DEFINE a == [node |-> n, name |-> name]
             S == [node : F!Ids, name : F!Asked]
  <2>2. a.node = n
    OBVIOUS
  <2> HIDE DEF a, S
  <2>3. aim \in Seq(S) /\ aim' = Append(aim, a)
    BY <2>1 DEF a, S
  <2>4. /\ \A i \in 1 .. Len(aim) : aim'[i] = aim[i]
        /\ aim'[Len(aim) + 1] = a
    BY <2>3
  <2> QED
    BY <1>2, <2>1, <2>2, <2>4
<1>7. ~(reqs'[N].at + reqs'[N].len <= cur')
  BY <1>1, <1>2, <1>3, <1>4, <1>5
<1>8. L!ServedSet' = L!ServedSet
  BY <1>1, <1>5, <1>7 DEF L!ServedSet
<1>9. ASSUME NEW x, NEW m
      PROVE  /\ About(x, m)' = Plus(About(x, m), x = op /\ m = n, N)
             /\ Served(x, m)' = Served(x, m)
  <2>1. About(x, m)' = Plus(About(x, m), x = op /\ m = n, N)
    BY <1>5, <1>6 DEF About, Requests, Plus
  <2>2. /\ Served(x, m) = About(x, m) \cap L!ServedSet
        /\ Served(x, m)' = About(x, m)' \cap L!ServedSet'
    BY DEF Served, About, Requests, L!ServedSet
  <2>3. N \notin L!ServedSet
    BY <1>5 DEF L!ServedSet
  <2> QED
    BY <1>8, <2>1, <2>2, <2>3 DEF Plus
<1> QED
  BY <1>5, <1>8, <1>9

-----------------------------------------------------------------------------
(* What the handlers do to the position in the stream: nothing, or they    *)
(* serve the current request.                                              *)

Quiet == UNCHANGED <<cur, reqs, aim, answered, rejected>>
Serves ==
  /\ pc = "serve" /\ L!HasCommand
  /\ cur' = cur + L!CurReq.len
  /\ UNCHANGED <<reqs, aim, answered, rejected>>

LEMMA SendServes ==
  ASSUME NEW hi, NEW ok, NEW pad, L!Send(hi, ok, pad),
         pc = "serve", L!HasCommand, UNCHANGED aim
  PROVE  Serves
BY DEF L!Send, L!kernelVars, Serves

LEMMA StallQuiet ==
  ASSUME NEW leak, L!Stall(leak), UNCHANGED aim
  PROVE  Quiet
BY DEF L!Stall, L!inVars, L!kernelVars, Quiet

LEMMA DieQuiet ==
  ASSUME L!Die, UNCHANGED aim
  PROVE  Quiet
BY DEF L!Die, L!inVars, L!kernelVars, Quiet

LEMMA PrologueLoop ==
  ASSUME L!ServePrologue, UNCHANGED aim
  PROVE  /\ L!Serving(L!PrologueOps)
         /\ L!Fits(HDR + OutSz[L!CurReq.op]) => Serves
         /\ ~L!Fits(HDR + OutSz[L!CurReq.op]) => Quiet
<1>1. L!Serving(L!PrologueOps) /\ pc = "serve" /\ L!HasCommand
  BY DEF L!ServePrologue, L!Serving
<1> QED
  BY <1>1, SendServes, StallQuiet DEF L!ServePrologue

LEMMA ReaddirLoop ==
  ASSUME L!ServeReaddir, UNCHANGED aim
  PROVE  /\ L!Serving({"READDIR"})
         /\ Serves \/ Quiet
         /\ ~L!Fits(HDR + DIRENT_SZ) => Quiet
<1>1. L!Serving({"READDIR"}) /\ pc = "serve" /\ L!HasCommand
  BY DEF L!ServeReaddir, L!Serving
<1> QED
  BY <1>1, SendServes, StallQuiet, DieQuiet DEF L!ServeReaddir

LEMMA ReadlinkLoop ==
  ASSUME L!ServeReadlink, UNCHANGED aim
  PROVE  Serves \/ Quiet
<1>1. pc = "serve" /\ L!HasCommand
  BY DEF L!ServeReadlink, L!Serving
<1> QED
  BY <1>1, SendServes, StallQuiet DEF L!ServeReadlink

LEMMA ReadLoop ==
  ASSUME L!ServeRead, UNCHANGED aim
  PROVE  /\ L!Serving({"READ"})
         /\ Serves \/ Quiet
<1>1. L!Serving({"READ"}) /\ pc = "serve" /\ L!HasCommand
  BY DEF L!ServeRead, L!Serving
<1> QED
  BY <1>1, SendServes, StallQuiet DEF L!ServeRead

LEMMA MainLoopQuiet ==
  ASSUME MainLoop
  PROVE  Quiet /\ (pc = "wait" \/ ~L!HasCommand)
BY DEF MainLoop, L!OnOpened, L!OnRead, L!OnReply, L!OutOfCommands, L!Consume,
       L!inVars, L!kernelVars, Quiet

LEMMA NoRoomQuiet ==
  ASSUME NoRoom
  PROVE  Quiet
<1>1. PICK op \in {"LOOKUP", "OPEN", "RELEASE", "READDIR"} : Serving(op) /\ ~L!Fits(Chunk(op))
  BY DEF NoRoom
<1>2. L!CurReq.op = op /\ UNCHANGED aim
  BY <1>1 DEF Serving, L!Serving, NoRoom
<1>3. CASE L!ServePrologue
  <2>1. op # "READDIR"
    BY <1>2, <1>3, PrologueLoop DEF L!Serving, L!PrologueOps
  <2> QED
    BY <1>1, <1>2, <1>3, <2>1, PrologueLoop DEF Chunk
<1>4. CASE L!ServeReaddir
  <2>1. op = "READDIR"
    BY <1>2, <1>4, ReaddirLoop DEF L!Serving
  <2> QED
    BY <1>1, <1>2, <1>4, <2>1, ReaddirLoop DEF Chunk
<1> QED
  BY <1>3, <1>4 DEF NoRoom

(* A handler of OPEN, RELEASE or LOOKUP that has room serves its request.  *)
LEMMA RoomServes ==
  ASSUME NEW op \in L!PrologueOps, op # "READDIR", Room(op), L!ServePrologue, UNCHANGED aim
  PROVE  Serves /\ L!CurReq.op = op
<1>1. L!CurReq.op = op /\ L!Fits(Chunk(op))
  BY DEF Room, Serving, L!Serving
<1> QED
  BY <1>1, PrologueLoop DEF Chunk

LEMMA ListingServes ==
  ASSUME WaitInv, ListingEnds
  PROVE  (Quiet \/ Serves) /\ L!CurReq.op \in {"LOOKUP", "READDIR"}
<1>1. ~F!Idle /\ UNCHANGED aim
  BY DEF ListingEnds, F!EndFstat, F!EndCommand, F!Idle, F!NoJob
<1>2. L!CurReq.op \in {"LOOKUP", "READDIR"}
  BY <1>1 DEF WaitInv, Serving, L!Serving
<1> QED
  BY <1>1, <1>2, PrologueLoop, ReaddirLoop DEF ListingEnds

LEMMA ReadlinkServes ==
  ASSUME ServeReadlink
  PROVE  (Quiet \/ Serves) /\ L!CurReq.op = "READLINK"
BY ReadlinkLoop DEF ServeReadlink, Serving, L!Serving

LEMMA LookupServes ==
  ASSUME ServeLookup
  PROVE  /\ L!CurReq.op = "LOOKUP"
         /\ IF job' = F!NoJob THEN Serves ELSE UNCHANGED loopVars
         /\ UNCHANGED aim
<1>1. "LOOKUP" \in L!PrologueOps
  BY DEF L!PrologueOps
<1>2. L!CurReq.op = "LOOKUP" /\ Room("LOOKUP") /\ UNCHANGED aim
  BY DEF ServeLookup, Room, Serving, L!Serving
<1> QED
  BY <1>1, <1>2, RoomServes DEF ServeLookup

LEMMA ReaddirServes ==
  ASSUME ServeReaddir
  PROVE  /\ L!CurReq.op = "READDIR"
         /\ \/ (Quiet \/ Serves) /\ UNCHANGED fsVars
            \/ UNCHANGED loopVars /\ F!Readdir(Aim.node)
         /\ UNCHANGED aim
BY ReaddirLoop DEF ServeReaddir, Room, Serving, L!Serving

LEMMA UnchangedIsQuiet ==
  ASSUME UNCHANGED <<loopVars, aim>>
  PROVE  Quiet
BY DEF loopVars, Quiet

LEMMA OpenServes ==
  ASSUME ServeOpen
  PROVE  Serves /\ L!CurReq.op = "OPEN" /\ Serving("OPEN") /\ F!Open(Aim.node)
<1>1. "OPEN" \in L!PrologueOps
  BY DEF L!PrologueOps
<1> QED
  BY <1>1, RoomServes DEF ServeOpen, Room

LEMMA ReleaseServes ==
  ASSUME ServeRelease
  PROVE  Serves /\ L!CurReq.op = "RELEASE" /\ Serving("RELEASE") /\ F!Release(Aim.node)
<1>1. "RELEASE" \in L!PrologueOps
  BY DEF L!PrologueOps
<1> QED
  BY <1>1, RoomServes DEF ServeRelease, Room

(* But for OPEN and RELEASE no step of the daemon opens or closes, or      *)
(* serves a request to open or close.                                      *)
LEMMA OtherSteps ==
  ASSUME WaitInv, Daemon, ~ServeOpen, ~ServeRelease
  PROVE  /\ handles' = handles
         /\ Quiet \/ (Serves /\ L!CurReq.op \notin {"OPEN", "RELEASE"})
<1>1. UNCHANGED fsVars => handles' = handles
  BY DEF fsVars
<1>2. CASE MainLoop \/ NoRoom
  BY <1>1, <1>2, MainLoopQuiet, NoRoomQuiet DEF MainLoop, NoRoom
<1>3. CASE ServeLookup
  <2>1. handles' = handles
    BY <1>3 DEF ServeLookup, F!Lookup
  <2> QED
    BY <1>3, <2>1, LookupServes, UnchangedIsQuiet
<1>4. CASE ServeReaddir
  <2>1. F!Readdir(Aim.node) => handles' = handles
    BY DEF F!Readdir
  <2> QED
    BY <1>1, <1>4, <2>1, ReaddirServes, UnchangedIsQuiet
<1>5. CASE P4Answers
  <2>1. handles' = handles
    BY <1>5 DEF P4Answers, F!OutputStat, F!OutputLine, F!EndDirs, F!EndCommand
  <2> QED
    BY <1>5, <2>1, UnchangedIsQuiet DEF P4Answers
<1>6. CASE ListingEnds
  <2>1. handles' = handles
    BY <1>6 DEF ListingEnds, F!EndFstat, F!EndCommand
  <2> QED
    BY <1>6, <2>1, ListingServes
<1>7. CASE ServeReadlink
  <2>1. handles' = handles
    BY <1>7 DEF ServeReadlink, F!Readlink
  <2> QED
    BY <1>7, <2>1, ReadlinkServes
<1>8. CASE ServeRead
  <2>1. UNCHANGED aim /\ UNCHANGED fsVars /\ L!ServeRead
    BY <1>8 DEF ServeRead
  <2>2. L!CurReq.op = "READ"
    BY <2>1, ReadLoop DEF L!Serving
  <2> QED
    BY <1>1, <2>1, <2>2, ReadLoop
<1> QED
  BY <1>2, <1>3, <1>4, <1>5, <1>6, <1>7, <1>8 DEF Daemon

LEMMA DaemonMoves ==
  ASSUME WaitInv, Daemon
  PROVE  Quiet \/ Serves
BY OtherSteps, OpenServes, ReleaseServes

-----------------------------------------------------------------------------
(* The parts of the invariant, one after the other.                        *)

(* What the kernel sends. *)
LEMMA KernelReadParts ==
  ASSUME KernelRead
  PROVE  \E r \in reads, op \in Ops, len \in ReqLens, n \in F!Ids, name \in F!Asked :
         \E arg \in L!ArgsOf(op) :
           /\ Asks(op, n)
           /\ L!KernelRead(r, op, arg, len)
           /\ aim' = Append(aim, [node |-> n, name |-> name])
           /\ UNCHANGED <<fsVars, syncs>>
BY DEF KernelRead

LEMMA AimPreserved ==
  ASSUME L!IInv, L!RInv, VInv, [Next]_vars
  PROVE  AimInv'
<1>1. AimInv /\ WaitInv
  BY DEF VInv
<1>2. CASE KernelRead
  <2>1. PICK r \in reads, op \in Ops, len \in ReqLens, n \in F!Ids, name \in F!Asked :
        \E arg \in L!ArgsOf(op) :
          /\ L!KernelRead(r, op, arg, len)
          /\ aim' = Append(aim, [node |-> n, name |-> name])
    BY <1>2, KernelReadParts
  <2> DEFINE S == [node : F!Ids, name : F!Asked]
             a == [node |-> n, name |-> name]
  <2>2. a \in S
    OBVIOUS
  <2>3. aim \in Seq(S) /\ Len(aim) = Len(reqs)
    BY <1>1 DEF AimInv
  <2>4. \E e : reqs' = Append(reqs, e)
    BY <2>1 DEF L!KernelRead
  <2>5. Len(reqs') = Len(reqs) + 1
    BY <2>4, LoopTypes DEF L!TypeOK
  <2> HIDE DEF S, a
  <2>6. aim' = Append(aim, a)
    BY <2>1 DEF a
  <2>7. aim' \in Seq(S) /\ Len(aim') = Len(aim) + 1
    BY <2>2, <2>3, <2>6
  <2> QED
    BY <2>3, <2>5, <2>7 DEF AimInv, S
<1>3. CASE ~KernelRead
  <2>1. UNCHANGED <<aim, reqs>>
    BY <1>1, <1>3, DaemonMoves
       DEF Next, KernelTakesReply, L!KernelTakesReply, L!inVars, Quiet, Serves, vars, loopVars
  <2> QED
    BY <1>1, <2>1 DEF AimInv
<1> QED
  BY <1>2, <1>3

(* While a listing runs the loop stays where it is: inside the handler.    *)
LEMMA KernelReadKeepsServing ==
  ASSUME L!IInv, L!RInv, L!IInv', L!RInv', AimInv, KernelRead, NEW op, Serving(op),
         op # "garbage"
  PROVE  Serving(op)'
<1>1. PICK s \in 0 .. Len(reqs) : NextAfter(s)
  BY NextUp
<1>2. PICK t \in 0 .. Len(reqs') : NextAfter(t)'
  BY NextUpLater
<1>3. PICK r \in reads, x \in Ops, len \in ReqLens, n \in F!Ids, name \in F!Asked :
      \E arg \in L!ArgsOf(x) :
        /\ L!KernelRead(r, x, arg, len)
        /\ aim' = Append(aim, [node |-> n, name |-> name])
  BY KernelReadParts
<1>4. /\ L!ServedSet' = L!ServedSet
      /\ \A i \in DOMAIN reqs : reqs'[i] = reqs[i]
      /\ Len(reqs') = Len(reqs) + 1
  BY <1>3, Delivers
<1>5. UNCHANGED <<pc, cur, head>>
  BY <1>3 DEF L!KernelRead, L!loopVars
<1>6. pc = "serve" /\ L!HasCommand /\ L!CurReq.op = op
  BY Current
<1>7. s = t
  <2>1. Len(reqs) \in Nat /\ Len(reqs') \in Nat
    BY <1>4, LoopTypes
  <2>2. 1 .. s = 1 .. t
    BY <1>1, <1>2, <1>4 DEF NextAfter
  <2> QED
    BY <2>1, <2>2
<1>8. s + 1 \in DOMAIN reqs /\ L!CurReq = reqs[s + 1] /\ cur < head
  BY <1>1, <1>6 DEF NextAfter
<1>9. L!HasCommand' /\ L!CurReq' = reqs'[s + 1]
  BY <1>2, <1>5, <1>7, <1>8 DEF NextAfter
<1> QED
  BY <1>4, <1>5, <1>6, <1>8, <1>9 DEF Serving, L!Serving

LEMMA FsTypes ==
  ASSUME F!IInv
  PROVE  /\ table.id \in Nat /\ F!InUse \subseteq F!Ids /\ F!KnownNodes \subseteq F!InUse
         /\ F!OpenInv /\ 0 \notin F!InUse
<1>1. F!TreeOK(table) /\ F!KnownInv /\ F!OpenInv
  BY DEF F!IInv
<1> QED
  BY <1>1, F!TreeFacts, F!KnownInUse, FsAssumption

LEMMA WaitPreserved ==
  ASSUME L!IInv, L!RInv, L!IInv', L!RInv', VInv, F!IInv, [Next]_vars
  PROVE  WaitInv'
<1>1. AimInv /\ WaitInv
  BY DEF VInv
<1> DEFINE ops == {"LOOKUP", "READDIR"}
<1>2. UNCHANGED fsVars => job' = job
  BY DEF fsVars
<1>3. ASSUME ~F!Idle
      PROVE  \E op \in ops : Serving(op)
  BY <1>1, <1>3 DEF WaitInv
<1>4. (\E op \in ops : Serving(op)') => WaitInv'
  BY DEF WaitInv
<1>5. F!Idle' => WaitInv'
  BY DEF WaitInv
<1>7. CASE KernelRead
  <2>1. job' = job
    BY <1>2, <1>7 DEF KernelRead
  <2>2. \A op \in ops : Serving(op) => Serving(op)'
    BY <1>1, <1>7, KernelReadKeepsServing
  <2> QED
    BY <1>3, <1>4, <1>5, <2>1, <2>2 DEF F!Idle, F!NoJob
<1>8. ASSUME UNCHANGED <<pc, cur, head, rbuf, reqs>>
      PROVE  \A op : Serving(op)' = Serving(op)
  BY <1>8 DEF Serving, L!Serving, L!HasCommand, L!CurReq, L!CurN
<1>9. CASE KernelTakesReply \/ UNCHANGED vars
  <2>1. job' = job /\ UNCHANGED <<pc, cur, head, rbuf, reqs>>
    BY <1>2, <1>9 DEF KernelTakesReply, L!KernelTakesReply, L!inVars, L!loopVars, vars, loopVars
  <2> QED
    BY <1>3, <1>4, <1>5, <1>8, <2>1 DEF F!Idle, F!NoJob
<1>10. CASE MainLoop \/ NoRoom \/ ServeOpen \/ ServeRelease \/ ServeReadlink \/ ServeRead
  <2>1. job' = job
    BY <1>2, <1>10 DEF MainLoop, NoRoom, ServeOpen, ServeRelease, ServeReadlink, ServeRead,
                       F!Open, F!Release, F!Readlink
  <2>2. F!Idle
    <3>1. CASE MainLoop
      <4>1. \A op \in ops : ~Serving(op)
        BY <3>1, MainLoopQuiet DEF Serving, L!Serving
      <4> QED
        BY <1>3, <4>1
    <3>2. CASE ServeRead
      <4>1. \A op \in ops : ~Serving(op)
        BY <3>2, ReadLoop DEF ServeRead, Serving, L!Serving
      <4> QED
        BY <1>3, <4>1
    <3>3. CASE NoRoom \/ ServeOpen \/ ServeRelease \/ ServeReadlink
      BY <3>3 DEF NoRoom, ServeOpen, ServeRelease, ServeReadlink, Room
    <3> QED
      BY <1>10, <3>1, <3>2, <3>3
  <2> QED
    BY <1>5, <2>1, <2>2 DEF F!Idle, F!NoJob
<1>11. CASE ServeLookup
  <2>1. Serving("LOOKUP")
    BY <1>11 DEF ServeLookup, Room
  <2>2. CASE job' = F!NoJob
    BY <1>5, <2>2 DEF F!Idle, F!NoJob
  <2>3. CASE job' # F!NoJob
    <3>1. UNCHANGED <<pc, cur, head, rbuf, reqs>>
      BY <1>11, <2>3, LookupServes DEF loopVars
    <3> QED
      BY <1>4, <1>8, <2>1, <3>1
  <2> QED
    BY <2>2, <2>3
<1>12. CASE ServeReaddir
  <2>1. Serving("READDIR") /\ F!Idle
    BY <1>12 DEF ServeReaddir, Room
  <2>2. CASE UNCHANGED fsVars
    BY <1>2, <1>5, <2>1, <2>2 DEF F!Idle, F!NoJob
  <2>3. CASE UNCHANGED loopVars
    BY <1>4, <1>8, <2>1, <2>3 DEF loopVars
  <2> QED
    BY <1>12, <2>2, <2>3, ReaddirServes
<1>13. CASE P4Answers
  <2>1. ~F!Idle
    <3>1. F!OutputLine => ~F!Idle
      BY DEF F!OutputLine, F!Idle, F!NoJob
    <3>2. F!EndDirs => ~F!Idle
      BY DEF F!EndDirs, F!EndCommand, F!Idle, F!NoJob
    <3> QED
      BY <1>13, <3>1, <3>2 DEF P4Answers, F!OutputStat
  <2>2. UNCHANGED <<pc, cur, head, rbuf, reqs>>
    BY <1>13 DEF P4Answers, loopVars
  <2> QED
    BY <1>3, <1>4, <1>8, <2>1, <2>2
<1>14. CASE ListingEnds
  BY <1>5, <1>14 DEF ListingEnds, F!EndFstat, F!Idle, F!NoJob
<1> QED
  BY <1>7, <1>9, <1>10, <1>11, <1>12, <1>13, <1>14 DEF Next, Daemon

LEMMA HeldPreserved ==
  ASSUME L!IInv, L!RInv, VInv, F!IInv, F!IInv', F!Grows, F!Stay, [Next]_vars
  PROVE  HeldInv'
<1>1. AimInv /\ WaitInv /\ HeldInv
  BY DEF VInv
<1>2. F!KnownNodes \subseteq F!KnownNodes'
  BY DEF F!Grows, F!Handed, F!KnownNodes
<1>3. \A n \in F!Ids \ F!InUse' : table'.ent[n].refcnt = 0
  <2>1. F!InUse \subseteq F!InUse'
    <3>1. table.id \in Nat
      BY FsTypes
    <3> QED
      BY <3>1 DEF F!Grows, F!InUse
  <2> QED
    BY <1>1, <2>1 DEF HeldInv, F!Stay
<1>4. \A n \in F!Ids : /\ handles[n] \in Nat
                       /\ Cardinality(Served("OPEN", n)) \in Nat
                       /\ Cardinality(Served("RELEASE", n)) \in Nat
                       /\ IsFiniteSet(Served("OPEN", n)) /\ IsFiniteSet(Served("RELEASE", n))
  BY <1>1, Counts DEF HeldInv
<1>5. ASSUME handles' = handles,
             \A n \in F!Ids : /\ Served("OPEN", n)' = Served("OPEN", n)
                              /\ Served("RELEASE", n)' = Served("RELEASE", n)
      PROVE  HeldInv'
  BY <1>1, <1>2, <1>3, <1>5 DEF HeldInv
<1>6. CASE KernelRead
  <2>1. PICK r \in reads, op \in Ops, len \in ReqLens, n \in F!Ids, name \in F!Asked :
        \E arg \in L!ArgsOf(op) :
          /\ L!KernelRead(r, op, arg, len)
          /\ aim' = Append(aim, [node |-> n, name |-> name])
          /\ UNCHANGED fsVars
    BY <1>6, KernelReadParts
  <2>2. handles' = handles
    BY <2>1 DEF fsVars
  <2> QED
    BY <1>1, <1>5, <2>1, <2>2, Delivers
<1>7. CASE KernelTakesReply \/ UNCHANGED vars
  <2>1. handles' = handles /\ UNCHANGED <<cur, reqs, aim>>
    BY <1>7 DEF KernelTakesReply, L!KernelTakesReply, L!inVars, vars, loopVars, fsVars
  <2> QED
    BY <1>5, <2>1, Still
<1>8. CASE Daemon /\ ~ServeOpen /\ ~ServeRelease
  <2>1. /\ handles' = handles
        /\ Quiet \/ (Serves /\ L!CurReq.op \notin {"OPEN", "RELEASE"})
    BY <1>1, <1>8, OtherSteps
  <2>2. CASE Quiet
    BY <1>5, <2>1, <2>2, Still DEF Quiet
  <2>3. CASE Serves /\ L!CurReq.op \notin {"OPEN", "RELEASE"}
    BY <1>5, <2>1, <2>3, ServesOne DEF Serves, Plus
  <2> QED
    BY <2>1, <2>2, <2>3
<1>9. ASSUME Serves, L!CurReq.op \in {"OPEN", "RELEASE"}
      PROVE  \A n \in F!Ids :
               /\ Cardinality(Served("OPEN", n)')
                    = Cardinality(Served("OPEN", n))
                        + IF L!CurReq.op = "OPEN" /\ Aim.node = n THEN 1 ELSE 0
               /\ Cardinality(Served("RELEASE", n)')
                    = Cardinality(Served("RELEASE", n))
                        + IF L!CurReq.op = "RELEASE" /\ Aim.node = n THEN 1 ELSE 0
  <2> TAKE n \in F!Ids
  <2>1. \A op \in {"OPEN", "RELEASE"} :
          /\ L!CurN \notin Served(op, n)
          /\ Served(op, n)' = Plus(Served(op, n), L!CurReq.op = op /\ Aim.node = n, L!CurN)
    BY <1>9, ServesOne DEF Serves
  <2>2. \A op \in {"OPEN", "RELEASE"} :
          (L!CurReq.op = op /\ Aim.node = n) \in BOOLEAN
    OBVIOUS
  <2>3. \A op \in {"OPEN", "RELEASE"} :
          Cardinality(Served(op, n)') = Cardinality(Served(op, n))
                                          + IF L!CurReq.op = op /\ Aim.node = n THEN 1 ELSE 0
    <3> TAKE op \in {"OPEN", "RELEASE"}
    <3>1. /\ Cardinality(Served(op, n)) \in Nat /\ IsFiniteSet(Served(op, n))
          /\ L!CurN \notin Served(op, n)
          /\ Served(op, n)' = Plus(Served(op, n), L!CurReq.op = op /\ Aim.node = n, L!CurN)
      BY <1>4, <2>1
    <3> QED
      BY <2>2, <3>1, PlusCounts
  <2> QED
    BY <2>3
<1>10. CASE ServeOpen
  <2>1. Serves /\ L!CurReq.op = "OPEN" /\ F!Open(Aim.node)
    BY <1>10, OpenServes
  <2>2. /\ handles' = [handles EXCEPT ![Aim.node] = @ + 1]
        /\ Aim.node \in F!KnownNodes
    BY <2>1 DEF F!Open
  <2>3. ASSUME NEW n \in F!Ids
        PROVE  /\ handles'[n] = handles[n] + IF Aim.node = n THEN 1 ELSE 0
               /\ handles'[n] \in Nat
               /\ handles'[n] > 0 => handles[n] > 0 \/ n \in F!KnownNodes
    BY <1>1, <1>4, <2>2 DEF HeldInv
  <2>4. handles' \in [F!Ids -> Nat]
    BY <1>1, <2>2, <2>3 DEF HeldInv
  <2>5. ASSUME NEW n \in F!Ids
        PROVE  /\ handles'[n] = Cardinality(Served("OPEN", n)') - Cardinality(Served("RELEASE", n)')
               /\ handles'[n] > 0 => n \in F!KnownNodes'
    BY <1>1, <1>2, <1>4, <1>9, <2>1, <2>3 DEF HeldInv
  <2> QED
    BY <1>3, <2>4, <2>5 DEF HeldInv
<1>11. CASE ServeRelease
  <2>1. Serves /\ L!CurReq.op = "RELEASE" /\ F!Release(Aim.node)
    BY <1>11, ReleaseServes
  <2>2. handles' = [handles EXCEPT ![Aim.node] = @ - 1] /\ handles[Aim.node] > 0
    BY <2>1 DEF F!Release
  <2>3. ASSUME NEW n \in F!Ids
        PROVE  /\ handles'[n] = handles[n] - IF Aim.node = n THEN 1 ELSE 0
               /\ handles'[n] \in Nat
               /\ handles'[n] > 0 => handles[n] > 0
    BY <1>1, <1>4, <2>2 DEF HeldInv
  <2>4. handles' \in [F!Ids -> Nat]
    BY <1>1, <2>2, <2>3 DEF HeldInv
  <2>5. ASSUME NEW n \in F!Ids
        PROVE  /\ handles'[n] = Cardinality(Served("OPEN", n)') - Cardinality(Served("RELEASE", n)')
               /\ handles'[n] > 0 => n \in F!KnownNodes'
    BY <1>1, <1>2, <1>4, <1>9, <2>1, <2>3 DEF HeldInv
  <2> QED
    BY <1>3, <2>4, <2>5 DEF HeldInv
<1> QED
  BY <1>6, <1>7, <1>8, <1>10, <1>11 DEF Next

LEMMA ReadPreserved ==
  ASSUME L!IInv, L!RInv, VInv, [Next]_vars
  PROVE  ReadInv'
<1>1. AimInv /\ WaitInv /\ ReadInv
  BY DEF VInv
<1>2. Done \subseteq DOMAIN reqs /\ answered \subseteq Done
  BY NextUp DEF NextAfter, L!ServedSet, Done
<1>3. \A n \in F!Ids :
        /\ Cardinality(About("OPEN", n) \cap answered) \in Nat
        /\ Cardinality(About("RELEASE", n)) \in Nat
        /\ IsFiniteSet(About("RELEASE", n))
        /\ OpenFiles(n) \in Int
  <2> TAKE n \in F!Ids
  <2>1. /\ Cardinality(About("OPEN", n) \cap answered) \in Nat
        /\ Cardinality(About("RELEASE", n)) \in Nat
        /\ IsFiniteSet(About("RELEASE", n))
    BY Counts
  <2> QED
    BY <2>1 DEF OpenFiles
<1>4. ASSUME \A n \in F!Ids : /\ About("OPEN", n)' = About("OPEN", n)
                              /\ About("RELEASE", n)' = About("RELEASE", n)
                              /\ About("READ", n)' = About("READ", n),
             UNCHANGED <<answered, rejected>>
      PROVE  ReadInv'
  BY <1>1, <1>4 DEF ReadInv, OpenFiles, Done
<1>5. CASE KernelRead
  <2>1. PICK r \in reads, op \in Ops, len \in ReqLens, n \in F!Ids, name \in F!Asked :
        \E arg \in L!ArgsOf(op) :
          /\ Asks(op, n)
          /\ L!KernelRead(r, op, arg, len)
          /\ aim' = Append(aim, [node |-> n, name |-> name])
    BY <1>5, KernelReadParts
  <2> DEFINE N == Len(reqs) + 1
  <2>2. /\ N \notin DOMAIN reqs
        /\ \A x, m : About(x, m)' = Plus(About(x, m), x = op /\ m = n, N)
    <3>1. PICK arg \in L!ArgsOf(op) :
            L!KernelRead(r, op, arg, len) /\ aim' = Append(aim, [node |-> n, name |-> name])
      BY <2>1
    <3>2. AimInv
      BY <1>1
    <3>3. Len(reqs) + 1 \notin DOMAIN reqs
      BY <3>1, <3>2, Delivers
    <3>4. \A x, m :
            /\ About(x, m)' = Plus(About(x, m), x = op /\ m = n, Len(reqs) + 1)
            /\ Served(x, m)' = Served(x, m)
      BY <3>1, <3>2, Delivers
    <3> QED
      BY <3>3, <3>4
  <2>7. Done' = Done /\ answered' = answered
    <3>1. answered' = answered /\ rejected' = rejected
      BY <2>1 DEF L!KernelRead
    <3> QED
      BY <3>1 DEF Done
  <2> HIDE DEF N
  <2>3. op = "RELEASE" => Closable(n)
    BY <2>1 DEF Asks
  <2>4. op = "READ" => OpenFiles(n) > 0
    BY <2>1 DEF Asks
  <2>5. ASSUME NEW m \in F!Ids
        PROVE  OpenFiles(m)' = OpenFiles(m) - IF op = "RELEASE" /\ m = n THEN 1 ELSE 0
    <3>1. (About("OPEN", m) \cap answered)' = About("OPEN", m) \cap answered
      BY <1>2, <2>2, <2>7 DEF Plus
    <3>2. N \notin About("RELEASE", m)
      BY <2>2 DEF About, Requests
    <3>3. ("RELEASE" = op /\ m = n) \in BOOLEAN
      OBVIOUS
    <3>4. Cardinality(About("RELEASE", m)')
            = Cardinality(About("RELEASE", m)) + IF "RELEASE" = op /\ m = n THEN 1 ELSE 0
      BY <1>3, <2>2, <3>2, <3>3, PlusCounts
    <3>5. OpenFiles(m) = Cardinality(About("OPEN", m) \cap answered) - Cardinality(About("RELEASE", m))
          /\ OpenFiles(m)' = Cardinality((About("OPEN", m) \cap answered)') - Cardinality(About("RELEASE", m)')
      BY DEF OpenFiles
    <3>6. /\ Cardinality(About("OPEN", m) \cap answered) \in Nat
          /\ Cardinality(About("RELEASE", m)) \in Nat
      BY <1>3
    <3>7. Cardinality((About("OPEN", m) \cap answered)') = Cardinality(About("OPEN", m) \cap answered)
      BY <3>1
    <3> HIDE DEF N
    <3> QED
      BY <3>4, <3>5, <3>6, <3>7
  <2>6. ASSUME NEW m \in F!Ids
        PROVE  OpenFiles(m)' >= IF About("READ", m)' \subseteq Done' THEN 0 ELSE 1
    <3>1. OpenFiles(m) \in Int
          /\ OpenFiles(m) >= IF About("READ", m) \subseteq Done THEN 0 ELSE 1
      BY <1>1, <1>3 DEF ReadInv
    <3>2. CASE op = "RELEASE" /\ m = n
      <4>1. About("READ", m)' = About("READ", m)
        BY <2>2, <3>2 DEF Plus
      <4>2. OpenFiles(m) > IF About("READ", m) \subseteq Done THEN 0 ELSE 1
        BY <2>3, <3>2 DEF Closable
      <4> QED
        BY <2>5, <2>7, <3>1, <3>2, <4>1, <4>2
    <3>3. CASE op = "READ" /\ m = n
      BY <2>4, <2>5, <3>1, <3>3
    <3>4. CASE m # n \/ op \notin {"READ", "RELEASE"}
      <4>1. About("READ", m)' = About("READ", m)
        BY <2>2, <3>4 DEF Plus
      <4> QED
        BY <2>5, <2>7, <3>1, <3>4, <4>1
    <3> QED
      BY <3>2, <3>3, <3>4
  <2> QED
    BY <2>6 DEF ReadInv
<1>6. CASE KernelTakesReply
  <2>1. /\ UNCHANGED <<cur, reqs, aim>>
        /\ answered \subseteq answered' /\ Done \subseteq Done'
    BY <1>6 DEF KernelTakesReply, L!KernelTakesReply, L!inVars, Done
  <2>2. ASSUME NEW n \in F!Ids
        PROVE  OpenFiles(n)' >= OpenFiles(n)
    <3>1. About("OPEN", n)' = About("OPEN", n) /\ About("RELEASE", n)' = About("RELEASE", n)
      BY <2>1, Still
    <3>2. /\ IsFiniteSet(About("OPEN", n) \cap answered')
          /\ Cardinality(About("OPEN", n) \cap answered') \in Nat
      BY Counts
    <3>3. About("OPEN", n) \cap answered \subseteq About("OPEN", n) \cap answered'
      BY <2>1
    <3>4. Cardinality(About("OPEN", n) \cap answered) <= Cardinality(About("OPEN", n) \cap answered')
      BY <3>2, <3>3, FS_Subset
    <3> QED
      BY <1>3, <3>1, <3>2, <3>4 DEF OpenFiles
  <2>3. ASSUME NEW n \in F!Ids
        PROVE  OpenFiles(n)' \in Int
    <3>1. About("OPEN", n)' = About("OPEN", n) /\ About("RELEASE", n)' = About("RELEASE", n)
      BY <2>1, Still
    <3>2. Cardinality(About("OPEN", n) \cap answered') \in Nat
      BY Counts
    <3>3. OpenFiles(n)' = Cardinality(About("OPEN", n) \cap answered') - Cardinality(About("RELEASE", n))
      BY <3>1 DEF OpenFiles
    <3>4. Cardinality(About("RELEASE", n)) \in Nat
      BY <1>3
    <3> QED
      BY <3>2, <3>3, <3>4
  <2>4. \A n \in F!Ids : About("READ", n)' = About("READ", n)
    BY <2>1, Still
  <2>5. \A n \in F!Ids : OpenFiles(n) >= IF About("READ", n) \subseteq Done THEN 0 ELSE 1
    BY <1>1 DEF ReadInv
  <2>6. ASSUME NEW n \in F!Ids
        PROVE  OpenFiles(n)' >= IF About("READ", n)' \subseteq Done' THEN 0 ELSE 1
    <3>1. /\ OpenFiles(n) \in Int /\ OpenFiles(n)' \in Int
          /\ OpenFiles(n)' >= OpenFiles(n)
          /\ OpenFiles(n) >= IF About("READ", n) \subseteq Done THEN 0 ELSE 1
      BY <1>3, <2>2, <2>3, <2>5
    <3>2. About("READ", n) \subseteq Done => About("READ", n)' \subseteq Done'
      BY <2>1, <2>4
    <3> QED
      BY <3>1, <3>2
  <2> QED
    BY <2>6 DEF ReadInv
<1>7. CASE Daemon \/ UNCHANGED vars
  <2>1. Quiet \/ Serves
    BY <1>1, <1>7, DaemonMoves DEF vars, loopVars, Quiet
  <2>2. CASE Quiet
    BY <1>4, <2>2, Still DEF Quiet
  <2>3. CASE Serves
    BY <1>4, <2>3, ServesOne DEF Serves
  <2> QED
    BY <2>1, <2>2, <2>3
<1> QED
  BY <1>5, <1>6, <1>7 DEF Next

(* A node is synced when it is not marked, and then it is.                 *)
LEMMA SyncPreserved ==
  ASSUME L!IInv, L!RInv, VInv, F!IInv, F!IInv', F!Grows, F!Stay, [Next]_vars
  PROVE  SyncInv'
<1>1. AimInv /\ SyncInv
  BY DEF VInv
<1>2. F!InUse \subseteq F!InUse'
  <2>1. table.id \in Nat
    BY FsTypes
  <2> QED
    BY <2>1 DEF F!Grows, F!InUse
<1>3. ASSUME syncs' = syncs
      PROVE  SyncInv'
  BY <1>1, <1>2, <1>3 DEF SyncInv, F!Stay
<1>4. ASSUME NEW n \in F!KnownNodes, CountSync(n), table'.ent[n].bList
      PROVE  SyncInv'
  <2>1. n \in F!InUse /\ n \in F!Ids
    BY FsTypes
  <2>2. CASE table.ent[n].bList
    BY <1>3, <1>4, <2>2 DEF CountSync
  <2>3. CASE ~table.ent[n].bList
    <3>1. syncs[n] = 0
      BY <1>1, <2>1, <2>3 DEF SyncInv
    <3>2. syncs' = [syncs EXCEPT ![n] = 1]
      BY <1>4, <2>3, <3>1 DEF CountSync
    <3> QED
      BY <1>1, <1>2, <1>4, <2>1, <3>2 DEF SyncInv, F!Stay
  <2> QED
    BY <2>2, <2>3
<1>5. CASE ServeOpen
  <2>1. F!Open(Aim.node) /\ CountSync(Aim.node)
    BY <1>5 DEF ServeOpen
  <2>2. Aim.node \in F!KnownNodes
    BY <2>1 DEF F!Open
  <2>3. table'.ent[Aim.node].bList
    BY <2>1, <2>2, F!OpenMarks, FsAssumption
  <2> QED
    BY <1>4, <2>1, <2>2, <2>3
<1>6. CASE ServeReadlink
  <2>1. F!Readlink(Aim.node) /\ CountSync(Aim.node)
    BY <1>6 DEF ServeReadlink
  <2>2. Aim.node \in F!KnownNodes
    BY <2>1 DEF F!Readlink
  <2>3. table'.ent[Aim.node].bList
    BY <2>1, <2>2, F!ReadlinkMarks, FsAssumption
  <2> QED
    BY <1>4, <2>1, <2>2, <2>3
<1>7. CASE ~ServeOpen /\ ~ServeReadlink
  <2>1. syncs' = syncs
    BY <1>7 DEF Next, Daemon, KernelRead, KernelTakesReply, MainLoop, NoRoom, ServeLookup,
               ServeReaddir, P4Answers, ListingEnds, ServeRelease, ServeRead, vars
  <2> QED
    BY <1>3, <2>1
<1> QED
  BY <1>5, <1>6, <1>7

-----------------------------------------------------------------------------
(* The invariant of the whole daemon.                                      *)

LEMMA StartsRight == Init => F!IInv /\ VInv
<1> SUFFICES ASSUME Init PROVE F!IInv /\ VInv
  OBVIOUS
<1>1. L!Init /\ F!Init /\ aim = <<>> /\ syncs = [n \in F!Ids |-> 0]
  BY DEF Init
<1>2. F!IInv
  BY <1>1, F!InitInvariant, FsAssumption
<1>3. reqs = <<>> /\ answered = {} /\ rejected = {}
  BY <1>1 DEF L!Init
<1>4. table = F!InitTable /\ handles = [n \in F!Ids |-> 0] /\ F!Idle
  BY <1>1 DEF F!Init, F!Idle
<1>5. AimInv
  <2> DEFINE S == [node : F!Ids, name : F!Asked]
  <2>1. <<>> \in Seq(S) /\ Len(aim) = Len(reqs)
    BY <1>1, <1>3
  <2> QED
    BY <1>1, <2>1 DEF AimInv
<1>6. WaitInv
  BY <1>4 DEF WaitInv
<1>7. \A op, n : About(op, n) = {} /\ Served(op, n) = {}
  BY <1>3 DEF About, Requests, Served
<1>8. Cardinality({}) = 0
  BY FS_EmptySet
<1>9. HeldInv
  <2>1. \A n \in F!Ids : table.ent[n].refcnt = 0
    BY <1>4, F!BlankTable, FsAssumption
  <2>2. \A n \in F!Ids : handles[n] = 0
    BY <1>4
  <2>3. handles \in [F!Ids -> Nat]
    BY <1>4
  <2>4. \A n \in F!Ids : /\ Cardinality(Served("OPEN", n)) = 0
                         /\ Cardinality(Served("RELEASE", n)) = 0
    BY <1>7, <1>8
  <2> QED
    BY <2>1, <2>2, <2>3, <2>4 DEF HeldInv
<1>10. ReadInv
  <2> SUFFICES ASSUME NEW n \in F!Ids
               PROVE  OpenFiles(n) >= IF About("READ", n) \subseteq Done THEN 0 ELSE 1
    BY DEF ReadInv
  <2>1. About("READ", n) \subseteq Done
    BY <1>7
  <2>2. About("OPEN", n) \cap answered = {}
    BY <1>7
  <2>3. OpenFiles(n) = 0
    BY <1>7, <1>8, <2>2 DEF OpenFiles
  <2> QED
    BY <2>1, <2>3
<1>11. SyncInv
  <2>1. syncs \in [F!Ids -> {0, 1}] /\ \A n \in F!Ids : syncs[n] # 1
    BY <1>1
  <2> QED
    BY <2>1 DEF SyncInv
<1> QED
  BY <1>2, <1>5, <1>6, <1>9, <1>10, <1>11 DEF VInv

LEMMA StaysRight ==
  L!IInv /\ L!RInv /\ (L!IInv /\ L!RInv)' /\ F!IInv /\ VInv /\ [Next]_vars
    => (F!IInv /\ VInv)'
<1> SUFFICES ASSUME L!IInv, L!RInv, L!IInv', L!RInv', F!IInv, VInv, [Next]_vars
             PROVE  F!IInv' /\ VInv'
  OBVIOUS
<1>1. F!IInv' /\ F!Grows
  BY TableHolds
<1>2. F!Stay
  BY HandlerStep, F!MarksStay, FsAssumption
<1>3. AimInv' /\ WaitInv' /\ HeldInv' /\ ReadInv' /\ SyncInv'
  BY <1>1, <1>2, AimPreserved, WaitPreserved, HeldPreserved, ReadPreserved, SyncPreserved
<1> QED
  BY <1>1, <1>3 DEF VInv

(* Neither part can be proved alone: that every step of the daemon is a    *)
(* step of the handlers rests on what the loop serves, and what the        *)
(* handlers count rests on where the loop is.                              *)
LEMMA VInvariance == Spec => [](L!IInv /\ L!RInv /\ F!IInv /\ VInv)
BY LoopHolds, StartsRight, StaysRight, PTL DEF Spec

-----------------------------------------------------------------------------
(* The whole daemon is its two parts at once.                              *)

(* The handlers may take several steps where the loop takes none, and the  *)
(* kernel's requests are those of FuseLoop: whatever is true of every      *)
(* behaviour of the loop (main.cpp:40-88, 271-299, 843-924) is true of it.  *)
THEOREM DaemonRunsLoop == Spec => L!Spec
<1>1. Init => L!Init
  BY DEF Init
<1> QED
  BY <1>1, LoopStep, PTL DEF Spec, L!Spec

(* Retries, waiting replies and several requests under way add nothing to  *)
(* what the handlers (main.cpp:516-807) do to the table and the workspace: *)
(* no handler is ever run in a state where P4Fs would not run it.          *)
THEOREM DaemonRunsHandlers == Spec => F!Spec
<1>1. Init => F!Init
  BY DEF Init
<1>2. L!IInv /\ L!RInv /\ VInv /\ [Next]_vars => [F!Next]_(F!vars)
  BY HandlerStep
<1> QED
  BY <1>1, <1>2, VInvariance, PTL DEF Spec, F!Spec

-----------------------------------------------------------------------------
(* What is done once.                                                      *)

(* A node's refcnt is the OPENs served less the RELEASEs served: a handler *)
(* that returns -2 for lack of room has counted nothing yet                *)
(* (main.cpp:557-628).                                                     *)
THEOREM OpensAreCounted == Spec => []CountedOnce
<1>1. F!IInv /\ VInv => CountedOnce
  <2> SUFFICES ASSUME F!IInv, VInv, NEW n \in F!Ids
               PROVE  table.ent[n].refcnt
                        = Cardinality(Served("OPEN", n)) - Cardinality(Served("RELEASE", n))
    BY DEF CountedOnce
  <2>1. HeldInv
    BY DEF VInv
  <2>2. handles[n] = Cardinality(Served("OPEN", n)) - Cardinality(Served("RELEASE", n))
    BY <2>1 DEF HeldInv
  <2>3. CASE n \in F!InUse
    <3>1. table.ent[n].refcnt = handles[n]
      BY <2>3, FsTypes DEF F!OpenInv, F!HandlesCounted
    <3> QED
      BY <2>2, <3>1
  <2>4. CASE n \notin F!InUse
    <3>1. table.ent[n].refcnt = 0
      BY <2>1, <2>4 DEF HeldInv
    <3>2. n \notin F!KnownNodes
      BY <2>4, FsTypes
    <3>3. handles[n] = 0
      BY <2>1, <3>2 DEF HeldInv
    <3> QED
      BY <2>2, <3>1, <3>3
  <2> QED
    BY <2>3, <2>4
<1> QED
  BY <1>1, VInvariance, PTL

(* No file is synced twice: OPEN and READLINK set the mark they test       *)
(* before either can be run again (main.cpp:516-608).                      *)
THEOREM SyncsAreSingle == Spec => []SyncedOnce
<1>1. VInv => SyncedOnce
  <2>1. ASSUME SyncInv, NEW n \in F!Ids
        PROVE  syncs[n] <= 1
    <3>1. syncs[n] = 0 \/ syncs[n] = 1
      BY <2>1 DEF SyncInv
    <3> QED
      BY <3>1
  <2> QED
    BY <2>1 DEF VInv, SyncedOnce
<1> QED
  BY <1>1, VInvariance, PTL

(* A node that is read has a descriptor, or -1: the kernel keeps one of    *)
(* its open files to itself until the READ is answered, and every RELEASE  *)
(* it sends is of another (main.cpp:557-628, 782-814).                     *)
THEOREM ReadersHaveFiles == Spec => []ReadsOpen
<1>1. L!IInv /\ L!RInv /\ F!IInv /\ VInv => ReadsOpen
  <2> SUFFICES ASSUME L!IInv, L!RInv, F!IInv, VInv, Serving("READ")
               PROVE  table.ent[Aim.node].opened_file # 0
    BY DEF ReadsOpen
  <2> DEFINE n == Aim.node
             opened == Cardinality(About("OPEN", n) \cap answered)
             closed == Cardinality(About("RELEASE", n))
  <2>1. AimInv /\ HeldInv /\ ReadInv
    BY DEF VInv
  <2>2. /\ L!CurN \in DOMAIN reqs /\ L!CurReq = reqs[L!CurN] /\ L!CurReq.op = "READ"
        /\ L!CurN \notin L!ServedSet
    BY Current
  <2>3. n \in F!Ids
    BY <2>1, <2>2, AimTyped DEF Aim
  <2>4. L!CurN \in About("READ", n)
    BY <2>2 DEF About, Requests, Aim
  <2>5. Done \subseteq L!ServedSet /\ answered \subseteq Done
    BY NextUp DEF NextAfter, Done
  <2>6. OpenFiles(n) >= 1
    BY <2>1, <2>2, <2>3, <2>4, <2>5 DEF ReadInv
  <2>7. /\ opened \in Nat /\ closed \in Nat
        /\ Cardinality(Served("OPEN", n)) \in Nat /\ IsFiniteSet(Served("OPEN", n))
        /\ Cardinality(Served("RELEASE", n)) \in Nat
        /\ IsFiniteSet(About("RELEASE", n))
    BY Counts
  <2>8. opened <= Cardinality(Served("OPEN", n))
    <3>1. About("OPEN", n) \cap answered \subseteq Served("OPEN", n)
      BY <2>5, Counts
    <3> QED
      BY <2>7, <3>1, FS_Subset
  <2>9. Cardinality(Served("RELEASE", n)) <= closed
    <3>1. Served("RELEASE", n) \subseteq About("RELEASE", n)
      BY Counts
    <3> QED
      BY <2>7, <3>1, FS_Subset
  <2>10. OpenFiles(n) = opened - closed
    BY DEF OpenFiles
  <2>11. handles[n] = Cardinality(Served("OPEN", n)) - Cardinality(Served("RELEASE", n))
    BY <2>1, <2>3 DEF HeldInv
  <2>12. handles[n] > 0
    <3> HIDE DEF n, opened, closed
    <3> QED
      BY <2>6, <2>7, <2>8, <2>9, <2>10, <2>11
  <2>13. n \in F!InUse
    BY <2>1, <2>3, <2>12, FsTypes DEF HeldInv
  <2> QED
    BY <2>12, <2>13, FsTypes DEF F!OpenInv, F!HandlesCounted
<1> QED
  BY <1>1, VInvariance, PTL
=============================================================================
