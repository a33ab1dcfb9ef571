------------------------------- MODULE P4Vfs -------------------------------
(***************************************************************************)
(* The whole daemon: the event loop and its buffers (FuseLoop) and what    *)
(* the handlers do to the table and the workspace (P4Fs), put together, so *)
(* that the order of the two inside a handler matters: what a handler that *)
(* returns -2 has already done is done again when it is retried, and the   *)
(* loop serves nobody else while a p4 command runs.                        *)
(*                                                                         *)
(* P4Fs lets the kernel use a node as soon as a LOOKUP has answered; here  *)
(* it learns the node when it takes the reply, names in a request only     *)
(* nodes and open files it has, and may have several requests under way.   *)
(* The mount stays up: KernelReadFails has no step.                        *)
(***************************************************************************)
EXTENDS Integers, Sequences, FiniteSets

CONSTANTS
  BUF_SZ, RBUF_SZ, ALIGN, HDR, IN_HDR, OutSz, STATFS_SZ, DIRENT_SZ, LinkSizes,
  ReadSizes, DirBytes, ReqLens, Ops, PreadFails, MaxReqs,    \* as in FuseLoop
  MaxId, FirstTotal, LongNames, ArenaSz, Depot, RunsMayFail,
  Overlong, MaxHandles                                       \* as in P4Fs

VARIABLES
  pc, cur, head, rbuf, cur_sz, num_rqs, queue_next, reads, flying, cq,
  reqs, answered, rejected,
  table, local, fds, known, p4u, job, handles, cut,
  aim,    \* what each request is about: node (hdr.nodeid or fh) and name
  syncs   \* history: how often each node was synced

(* The parts, with what is proved of them. *)
L == INSTANCE FuseLoopProofs
F == INSTANCE P4FsProofs

(* What they assume of their constants. *)
ASSUME LoopAssumption == L!SizesLegal /\ L!RepliesFit /\ L!RingHolds
ASSUME FsAssumption ==
  /\ MaxId \in Nat \ {0} /\ MaxId <= F!S32Max
  /\ FirstTotal \in Nat /\ FirstTotal > 1
  /\ ArenaSz \in Nat /\ F!RootName \notin DOMAIN LongNames
  /\ \A x \in DOMAIN LongNames : LongNames[x] \in 1 .. ArenaSz
  /\ \A e \in Depot : /\ e.path \in Seq(Int) /\ Len(e.path) > 1 /\ e.path[1] = F!RootName
                      /\ e.kind \in {"dir", "file", "link"}
                      /\ e.size \in Nat /\ e.gone \in BOOLEAN
  /\ RunsMayFail \in BOOLEAN
  /\ \A x \in DOMAIN Overlong : Overlong[x] \in Int
  /\ MaxHandles \in Nat

loopVars == <<pc, cur, head, rbuf, cur_sz, num_rqs, queue_next, reads, flying, cq,
              reqs, answered, rejected>>
fsVars == <<table, local, fds, known, p4u, job, handles, cut>>
vars == <<loopVars, fsVars, aim, syncs>>

Init ==
  /\ L!Init /\ F!Init
  /\ aim = <<>>
  /\ syncs = [n \in F!Ids |-> 0]

-----------------------------------------------------------------------------
(* The kernel.                                                             *)

Requests(op) == {i \in DOMAIN reqs : reqs[i].op = op}
About(op, n) == {i \in Requests(op) : aim[i].node = n}
Done == answered \cup rejected

(* What LOOKUP replies it has taken told.                                  *)
KernelNodes ==
  {1} \cup {k.node : k \in {k \in known :
              \E i \in Requests("LOOKUP") \cap answered :
                aim[i].node = k.parent /\ F!Heard(aim[i].name) = k.name}}

(* The open files of a node it has not begun to close, and may close.      *)
OpenFiles(n) == Cardinality(About("OPEN", n) \cap answered) - Cardinality(About("RELEASE", n))
Closable(n) == OpenFiles(n) > IF About("READ", n) \subseteq Done THEN 0 ELSE 1

Asks(op, n) ==
  CASE op \in {"LOOKUP", "READDIR"} -> n \in KernelNodes /\ table.ent[n].bDir
    [] op = "READLINK"              -> n \in KernelNodes /\ table.ent[n].bSym
    [] op = "OPEN"                  -> n \in KernelNodes /\ ~table.ent[n].bDir /\ ~table.ent[n].bSym
    [] op = "READ"                  -> OpenFiles(n) > 0
    [] op = "RELEASE"               -> Closable(n)

KernelRead ==
  \E r \in reads, op \in Ops, arg \in ReadSizes \cup LinkSizes \cup DirBytes \cup {0},
     len \in ReqLens, n \in F!Ids, name \in F!Asked :
    /\ arg \in L!ArgsOf(op) /\ Asks(op, n)
    /\ op # "LOOKUP" => name = CHOOSE x \in F!Asked : TRUE
    /\ L!KernelRead(r, op, arg, len)
    /\ aim' = Append(aim, [node |-> n, name |-> name])
    /\ UNCHANGED <<fsVars, syncs>>

KernelTakesReply ==
  /\ \E w \in flying : L!KernelTakesReply(w)
  /\ UNCHANGED <<fsVars, aim, syncs>>

-----------------------------------------------------------------------------
(* The daemon.                                                             *)

MainLoop ==
  /\ L!OnOpened \/ L!OnRead \/ L!OnReply \/ L!OutOfCommands
  /\ UNCHANGED <<fsVars, aim, syncs>>

Serving(op) == L!Serving({op})
Aim == aim[L!CurN]

(* A sync is counted when the handler runs it. *)
CountSync(n) ==
  syncs' = IF table.ent[n].bList THEN syncs ELSE [syncs EXCEPT ![n] = @ + 1]

(* The chunk of FUSE_MESSAGE_PROLOGUE.                                     *)
Chunk(op) == HDR + IF op = "READDIR" THEN DIRENT_SZ ELSE OutSz[op]

(* Mutant: OPEN has been carried out when the prologue finds no room.      *)
NoRoomOpened ==
  /\ F!Idle
  /\ \E op \in {"LOOKUP", "OPEN", "RELEASE", "READDIR"} :
       Serving(op) /\ ~L!Fits(Chunk(op))
  /\ L!ServePrologue \/ L!ServeReaddir
  /\ IF L!CurReq.op = "OPEN" THEN F!Open(Aim.node) ELSE UNCHANGED fsVars
  /\ UNCHANGED <<aim, syncs>>

(* The prologue comes first: without room for its chunk a handler has done *)
(* nothing when it returns -2.                                             *)
NoRoom ==
  /\ F!Idle
  /\ \E op \in {"LOOKUP", "OPEN", "RELEASE", "READDIR"} :
       Serving(op) /\ ~L!Fits(Chunk(op))
  /\ L!ServePrologue \/ L!ServeReaddir
  /\ UNCHANGED <<fsVars, aim, syncs>>

Room(op) == F!Idle /\ Serving(op) /\ L!Fits(Chunk(op))

(* LOOKUP replies at once, or runs the two commands first. *)
ServeLookup ==
  /\ Room("LOOKUP")
  /\ F!Lookup(Aim.node, Aim.name)
  /\ IF job' = F!NoJob THEN L!ServePrologue ELSE UNCHANGED loopVars
  /\ UNCHANGED <<aim, syncs>>

ServeReaddir ==
  /\ Room("READDIR")
  /\ IF table.ent[Aim.node].bList
     THEN L!ServeReaddir /\ UNCHANGED fsVars
     ELSE F!Readdir(Aim.node) /\ UNCHANGED loopVars
  /\ UNCHANGED <<aim, syncs>>

(* p4 answers; the loop is inside the handler. *)
P4Answers ==
  /\ \/ \E e \in Depot, typeFirst \in BOOLEAN : F!OutputStat(e, typeFirst)
     \/ F!OutputLine
     \/ F!EndDirs
  /\ UNCHANGED <<loopVars, aim, syncs>>

(* The second command is over and the handler goes on to its reply. *)
ListingEnds ==
  /\ F!EndFstat
  /\ L!ServePrologue \/ L!ServeReaddir
  /\ UNCHANGED <<aim, syncs>>

ServeOpen ==
  /\ Room("OPEN")
  /\ F!Open(Aim.node) /\ CountSync(Aim.node)
  /\ L!ServePrologue
  /\ UNCHANGED aim

ServeRelease ==
  /\ Room("RELEASE")
  /\ F!Release(Aim.node)
  /\ L!ServePrologue
  /\ UNCHANGED <<aim, syncs>>

(* READLINK syncs before it looks for room. *)
ServeReadlink ==
  /\ F!Idle /\ Serving("READLINK")
  /\ F!Readlink(Aim.node) /\ CountSync(Aim.node)
  /\ L!ServeReadlink
  /\ UNCHANGED aim

(* READ's pread fails on the descriptor -1 of a failed open. *)
ServeRead ==
  /\ L!ServeRead
  /\ \A w \in flying' \ flying : w.ok => table.ent[Aim.node].opened_file > 0
  /\ UNCHANGED <<fsVars, aim, syncs>>

Daemon ==
  \/ MainLoop \/ NoRoom \/ ServeLookup \/ ServeReaddir \/ P4Answers \/ ListingEnds
  \/ ServeOpen \/ ServeRelease \/ ServeReadlink \/ ServeRead

Next == KernelRead \/ KernelTakesReply \/ Daemon

(* The daemon keeps running, the p4 server answers, and the kernel takes   *)
(* every reply.                                                            *)
Fairness == WF_vars(Daemon) /\ WF_vars(KernelTakesReply)

Spec == Init /\ [][Next]_vars
FairSpec == Spec /\ Fairness
-----------------------------------------------------------------------------
(* Properties.                                                             *)

Served(op, n) == {i \in About(op, n) : reqs[i].at + reqs[i].len <= cur}

(* Retries count once: a node's refcnt is the OPENs served less the        *)
(* RELEASEs served, however often a handler gave up for lack of room.      *)
CountedOnce ==
  \A n \in F!Ids :
    table.ent[n].refcnt = Cardinality(Served("OPEN", n)) - Cardinality(Served("RELEASE", n))

(* No file is synced twice, although READLINK syncs before it may give up  *)
(* and is then run again, and OPEN and READLINK share the mark: p4 sync -f *)
(* would replace a workspace file under an open descriptor.                *)
SyncedOnce == \A n \in F!Ids : syncs[n] <= 1

(* READ, LSEEK and FLUSH take the node's descriptor as it is: when they    *)
(* are served the node was opened and its last RELEASE is still to come,   *)
(* although requests of other open files of the node are between them.     *)
ReadsOpen ==
  Serving("READ") => table.ent[Aim.node].opened_file # 0

(* A request that needs a listing waits for it and no longer: with room in *)
(* out_buf and a server that answers, every request gets its reply.        *)
EveryRequestReplied == L!EveryRequestReplied
=============================================================================
