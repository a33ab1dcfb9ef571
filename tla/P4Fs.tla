-------------------------------- MODULE P4Fs --------------------------------
(***************************************************************************)
(* What the handlers of process_commands() (main.cpp) do to the inode      *)
(* table, to the local workspace "a" and to the daemon's descriptors, and  *)
(* what the kernel learns from their replies.                              *)
(*                                                                         *)
(* The table starts with the root alone.  The first LOOKUP that misses or  *)
(* the first READDIR of a directory asks the p4 server for its             *)
(* subdirectories and its files and inserts them in the order the server   *)
(* answers; the first OPEN or READLINK of a file asks for it to be synced  *)
(* to the workspace.  Both remember that they did in the same bit, bList,  *)
(* whether the command succeeded or not.                                   *)
(*                                                                         *)
(* A handler runs to its end before the next one starts.  The two commands *)
(* of a listing call back OutputInfo once per line of their output: each   *)
(* call is a step, and job holds what is still to come.  A READLINK whose  *)
(* buffer does not fit runs again later (FuseLoop), so its step here may   *)
(* be one without a reply.  GETATTR, READ, LSEEK, FLUSH, ACCESS, STATFS,   *)
(* FORGET and the rest change none of this state and are not steps.        *)
(***************************************************************************)
EXTENDS InodeTree, FiniteSets, Functions, SequencesExt

CONSTANTS
  Depot,        \* what the p4 server holds: [path, kind, size, gone]
  RunsMayFail,  \* whether a p4 command may end early
  Overlong,     \* names the kernel asks for whose length needs more than a u8
  MaxHandles    \* bound: files open at the same time

(* A path is the names from the root down. "gone": deleted at its head     *)
(* revision, which fstat lists without a fileSize.                         *)
ASSUME DepotAssumption ==
  /\ \A e \in Depot : /\ e.path \in Seq(Int) /\ Len(e.path) > 1 /\ e.path[1] = RootName
                      /\ e.kind \in {"dir", "file", "link"}
                      /\ e.size \in Nat /\ e.gone \in BOOLEAN
  /\ RunsMayFail \in BOOLEAN
  /\ \A x \in DOMAIN Overlong : Overlong[x] \in Int
  /\ MaxHandles \in Nat

VARIABLES
  table,     \* the inode table
  local,     \* the paths synced to the workspace
  fds,       \* descriptors the daemon has open on workspace files
  known,     \* history: what LOOKUP replies told the kernel
  p4u,       \* the members node and name of the client user
  job,       \* the listing that runs: command, directory, records to come, ...
  handles,   \* history: open files of the kernel, per node
  cut        \* history: directories whose listing ended early

vars == <<table, local, fds, known, p4u, job, handles, cut>>

(* A reply to LOOKUP: what was asked and what was told. *)
Told(t, node, parent, name) ==
  [node |-> node, parent |-> parent, name |-> name,
   bDir |-> t.ent[node].bDir, bSym |-> t.ent[node].bSym, size |-> t.ent[node].size]

KnownNodes == {k.node : k \in known}

(* What a LOOKUP of any of the names replies: ENOENT tells nothing.        *)
LookupReply(t, d, names) ==
  {Told(t, FindPath(t, d, name), d, name) :
     name \in {x \in names : FindPath(t, d, x) # Missing}}

-----------------------------------------------------------------------------
(* The p4 server.                                                          *)

Under(path, kinds) == {e \in Depot : e.kind \in kinds /\ Front(e.path) = path}

(* The lines of one record: a directory is its name alone, a file its name *)
(* and then its fields, in either order.                                   *)
Record(e, typeFirst) ==
  LET type == [tag |-> "bSym", val |-> e.kind = "link"]
      size == [tag |-> "size", val |-> e.size]
      file == [tag |-> "depotFile", val |-> Last(e.path)]
  IN  IF e.kind = "dir" THEN <<[tag |-> "dir", val |-> Last(e.path)]>>
      ELSE IF e.gone THEN <<file, type>>
      ELSE IF typeFirst THEN <<file, type, size>>
      ELSE <<file, size, type>>

-----------------------------------------------------------------------------
NoJob == [cmd |-> "none", dir |-> 0, todo |-> {}, lines |-> <<>>, want |-> {}]

Init ==
  /\ table = InitTable
  /\ local = {} /\ fds = [f \in {} |-> <<>>]
  /\ known = {Told(InitTable, 1, 0, RootName)}
  /\ p4u = [node |-> 0, name |-> RootName]
  /\ job = NoJob
  /\ handles = [n \in Ids |-> 0]
  /\ cut = {}

Idle == job = NoJob

(* The kernel asks about directories it knows. *)
KnownDir(d) == Idle /\ d \in KnownNodes /\ table.ent[d].bDir

(* The first of the two commands of a listing.  A LOOKUP waits for it with *)
(* the name it wants, a READDIR with none.                                 *)
StartListing(d, want) ==
  /\ job' = [cmd |-> "dirs", dir |-> d, todo |-> Under(PathOf(table, d), {"dir"}),
             lines |-> <<>>, want |-> want]
  /\ UNCHANGED <<table, known>>

(* The name find_path() compares with, whose parameter len is a u8: of an  *)
(* overlong one (FUSE lets 1024 bytes through) the first len % 256 bytes.  *)
Heard(asked) == IF asked \in DOMAIN Overlong THEN Overlong[asked] ELSE asked

(* FUSE_LOOKUP of a name in a directory: the directory is listed only if   *)
(* the name is not there and it never was listed.                          *)
Lookup(d, asked) ==
  LET name == Heard(asked)
  IN  /\ KnownDir(d)
      /\ IF FindPath(table, d, name) = Missing /\ ~table.ent[d].bList
         THEN StartListing(d, {name})
         ELSE known' = known \cup LookupReply(table, d, {name}) /\ UNCHANGED <<table, job>>
      /\ UNCHANGED <<local, fds, p4u, handles, cut>>

(* Mutant: the directory is listed again by every READDIR. *)
ReaddirAlways(d) ==
  /\ KnownDir(d)
  /\ StartListing(d, {})
  /\ UNCHANGED <<local, fds, p4u, handles, cut>>

(* FUSE_READDIR; without a listing it changes nothing. *)
Readdir(d) ==
  /\ KnownDir(d) /\ ~table.ent[d].bList
  /\ StartListing(d, {})
  /\ UNCHANGED <<local, fds, p4u, handles, cut>>

(* A record of the server's answer arrives: OutputStat() of the client     *)
(* will hand its variables to OutputInfo one by one.                       *)
OutputStat(e, typeFirst) ==
  /\ ~Idle /\ job.lines = <<>>
  /\ e \in job.todo
  /\ job' = [job EXCEPT !.todo = @ \ {e}, !.lines = Record(e, typeFirst)]
  /\ UNCHANGED <<table, local, fds, known, p4u, handles, cut>>

(* What the next call of OutputInfo() makes of the table and of p4u, and   *)
(* when that call does not come back or puts a name over another one.      *)
NextLine ==
  OutputInfo([t |-> table, node |-> p4u.node, name |-> p4u.name], job.dir, Head(job.lines))
Stuck == job.lines # <<>> /\ ~NextLine.t.arena.whole

(* One call of OutputInfo(), while the model's array has room.  A daemon   *)
(* that is stuck takes no step: the model ends before a name is lost.      *)
OutputLine ==
  /\ job.lines # <<>> /\ ~Stuck
  /\ LET s == NextLine
     IN  /\ s.t.id <= MaxId
         /\ table' = s.t
         /\ p4u' = [node |-> s.node, name |-> s.name]
  /\ job' = [job EXCEPT !.lines = Tail(@)]
  /\ UNCHANGED <<local, fds, known, handles, cut>>

(* A command ends, with everything told or, when it fails, before.         *)
EndCommand(cmd) ==
  /\ job.cmd = cmd /\ job.lines = <<>>
  /\ job.todo = {} \/ RunsMayFail
  /\ cut' = IF job.todo = {} THEN cut ELSE cut \cup {job.dir}
  /\ UNCHANGED <<local, fds, p4u, handles>>

(* "dirs" is over: "fstat" of the same directory. *)
EndDirs ==
  /\ EndCommand("dirs")
  /\ job' = [job EXCEPT !.cmd = "fstat",
                        !.todo = Under(PathOf(table, job.dir), {"file", "link"})]
  /\ UNCHANGED <<table, known>>

(* Mutant: the directory is not marked as listed when a command failed.    *)
EndFstatRetried ==
  /\ EndCommand("fstat")
  /\ table' = [table EXCEPT !.ent[job.dir].bList = job.dir \notin cut']
  /\ known' = known \cup LookupReply(table', job.dir, job.want)
  /\ job' = NoJob

(* "fstat" is over: the directory is marked as listed whatever came of the *)
(* two commands, and the LOOKUP that waited replies.                       *)
EndFstat ==
  /\ EndCommand("fstat")
  /\ table' = [table EXCEPT !.ent[job.dir].bList = TRUE]
  /\ known' = known \cup LookupReply(table', job.dir, job.want)
  /\ job' = NoJob

(* p4 sync -f of one file, which may fail; a file that is gone leaves      *)
(* nothing.                                                                *)
Sync(n) ==
  \/ UNCHANGED local
  \/ /\ \E e \in Depot : e.path = PathOf(table, n) /\ e.kind # "dir" /\ ~e.gone
     /\ local' = local \cup {PathOf(table, n)}

SyncOnce(n) == IF table.ent[n].bList THEN UNCHANGED local ELSE Sync(n)

(* Mutant: READLINK does not mark the link as synced. *)
ReadlinkForgets(n) ==
  /\ Idle /\ n \in KnownNodes /\ table.ent[n].bSym
  /\ SyncOnce(n)
  /\ UNCHANGED <<table, fds, known, p4u, job, handles, cut>>

(* FUSE_READLINK: with or without room for the reply. *)
Readlink(n) ==
  /\ Idle /\ n \in KnownNodes /\ table.ent[n].bSym
  /\ SyncOnce(n)
  /\ table' = [table EXCEPT !.ent[n].bList = TRUE]
  /\ UNCHANGED <<fds, known, p4u, job, handles, cut>>

(* The descriptors open() may return when it succeeds. *)
FreeFds == (3 .. 2 + MaxHandles) \ DOMAIN fds

(* The descriptors with one more, on a workspace file. *)
Opened(fd, path) == [f \in DOMAIN fds \cup {fd} |-> IF f = fd THEN path ELSE fds[f]]

(* Mutant: open() with O_CREAT. *)
Creates(n) == TRUE

(* open() succeeds only on what a sync has put into the workspace. *)
Openable(n) == PathOf(table, n) \in local'

(* Mutant: open() is called for every OPEN. *)
OpenAgain(n) ==
  /\ Idle /\ n \in KnownNodes /\ ~table.ent[n].bDir /\ ~table.ent[n].bSym
  /\ SumFunction(handles) < MaxHandles
  /\ SyncOnce(n)
  /\ \E fd \in {-1} \cup FreeFds :
       /\ fd # -1 => Openable(n)
       /\ table' = [table EXCEPT !.ent[n].bList = TRUE,
                                 !.ent[n].opened_file = fd,
                                 !.ent[n].refcnt = @ + 1]
       /\ fds' = IF fd = -1 THEN fds ELSE Opened(fd, PathOf(table, n))
  /\ handles' = [handles EXCEPT ![n] = @ + 1]
  /\ UNCHANGED <<known, p4u, job, cut>>

(* FUSE_OPEN, which the kernel sends for regular files: the first one      *)
(* opens the workspace file, the others share it.  It replies success even *)
(* when the open failed.                                                   *)
Open(n) ==
  /\ Idle /\ n \in KnownNodes /\ ~table.ent[n].bDir /\ ~table.ent[n].bSym
  /\ SumFunction(handles) < MaxHandles
  /\ SyncOnce(n)
  /\ \/ /\ table.ent[n].opened_file = 0
        /\ Openable(n)
        /\ \E fd \in FreeFds :
             /\ table' = [table EXCEPT !.ent[n].bList = TRUE,
                                       !.ent[n].opened_file = fd,
                                       !.ent[n].refcnt = @ + 1]
             /\ fds' = Opened(fd, PathOf(table, n))
     \/ /\ table.ent[n].opened_file = 0
        /\ table' = [table EXCEPT !.ent[n].bList = TRUE,
                                  !.ent[n].opened_file = -1,
                                  !.ent[n].refcnt = @ + 1]
        /\ UNCHANGED fds
     \/ /\ table.ent[n].opened_file # 0
        /\ table' = [table EXCEPT !.ent[n].bList = TRUE, !.ent[n].refcnt = @ + 1]
        /\ UNCHANGED fds
  /\ handles' = [handles EXCEPT ![n] = @ + 1]
  /\ UNCHANGED <<known, p4u, job, cut>>

(* Mutant: the descriptor is closed and not forgotten. *)
ReleaseStale(n) ==
  /\ Idle /\ handles[n] > 0
  /\ handles' = [handles EXCEPT ![n] = @ - 1]
  /\ table' = [table EXCEPT !.ent[n].refcnt = @ - 1]
  /\ fds' = IF table.ent[n].refcnt = 1
            THEN RestrictDomain(fds, LAMBDA f : f # table.ent[n].opened_file)
            ELSE fds
  /\ UNCHANGED <<local, known, p4u, job, cut>>

(* Mutant: every release closes the file. *)
ReleaseAlways(n) ==
  /\ Idle /\ handles[n] > 0
  /\ handles' = [handles EXCEPT ![n] = @ - 1]
  /\ fds' = RestrictDomain(fds, LAMBDA f : f # table.ent[n].opened_file)
  /\ table' = [table EXCEPT !.ent[n].refcnt = @ - 1, !.ent[n].opened_file = 0]
  /\ UNCHANGED <<local, known, p4u, job, cut>>

(* FUSE_RELEASE: the last one closes the workspace file. *)
Release(n) ==
  /\ Idle /\ handles[n] > 0
  /\ handles' = [handles EXCEPT ![n] = @ - 1]
  /\ IF table.ent[n].refcnt = 1 /\ table.ent[n].opened_file # 0
     THEN /\ fds' = RestrictDomain(fds, LAMBDA f : f # table.ent[n].opened_file)
          /\ table' = [table EXCEPT !.ent[n].refcnt = 0, !.ent[n].opened_file = 0]
     ELSE /\ table' = [table EXCEPT !.ent[n].refcnt = @ - 1]
          /\ UNCHANGED fds
  /\ UNCHANGED <<local, known, p4u, job, cut>>

-----------------------------------------------------------------------------
(* Names the kernel asks for, in any directory: those of the depot and     *)
(* overlong ones.                                                          *)
Names == {Last(e.path) : e \in Depot}
Asked == Names \cup DOMAIN Overlong

Next ==
  \/ \E d \in KnownNodes, asked \in Asked : Lookup(d, asked)
  \/ \E d \in KnownNodes : Readdir(d)
  \/ \E e \in Depot, typeFirst \in BOOLEAN : OutputStat(e, typeFirst)
  \/ OutputLine
  \/ EndDirs
  \/ EndFstat
  \/ \E n \in KnownNodes : Readlink(n)
  \/ \E n \in KnownNodes : Open(n)
  \/ \E n \in KnownNodes : Release(n)

Spec == Init /\ [][Next]_vars
-----------------------------------------------------------------------------
(* Properties.                                                             *)

InUse == 1 .. table.id
HeardNames == {Heard(asked) : asked \in Asked}

TypeOK ==
  /\ table.id \in Ids /\ table.total \in Nat /\ table.ent \in [Ids -> Entry]
  /\ table.arena \in Arena
  /\ local \subseteq {e.path : e \in Depot}
  /\ DOMAIN fds \subseteq 3 .. 2 + MaxHandles
  /\ \A f \in DOMAIN fds : fds[f] \in local
  /\ KnownNodes \subseteq InUse
  /\ p4u.node \in {0} \cup InUse /\ p4u.name \in Names \cup {RootName}
  /\ job.cmd \in {"none", "dirs", "fstat"} /\ job.dir \in {0} \cup InUse
  /\ job.todo \subseteq Depot /\ Len(job.lines) < 4 /\ job.want \subseteq HeardNames
  /\ handles \in [Ids -> Nat]
  /\ cut \subseteq InUse

(* Nothing that was inserted is ever lost: every entry is found by its     *)
(* parent and its name, although the newest entry may be filled in again   *)
(* by a later line of the same listing.                                    *)
EveryNodeFindable ==
  \A n \in InUse \ {1} : FindPath(table, table.ent[n].parent, table.ent[n].name) = n

(* The walk of READDIR, which skips subtrees by the order of the parents,  *)
(* meets every child of the directory, nothing else, and nothing twice.    *)
ListingExact ==
  \A d \in InUse :
    /\ IsInjective(Children(table, d))
    /\ ToSet(Children(table, d)) = {n \in InUse : table.ent[n].parent = d}

(* The kernel resumes READDIR at an offset into the records of an earlier  *)
(* walk: once a directory is listed its children come in the same order    *)
(* for ever, however many entries of other directories go into the tree.   *)
ListingStable ==
  [][\A d \in InUse : table.ent[d].bDir /\ table.ent[d].bList =>
       Children(table', d) = Children(table, d)]_vars

(* What a LOOKUP reply told stays true: the name still leads to that node  *)
(* and the node still has the attributes GETATTR would report.             *)
ToldStaysTrue ==
  \A k \in known \ {Told(table, 1, 0, RootName)} :
    /\ FindPath(table, k.parent, k.name) = k.node
    /\ k = Told(table, k.node, k.parent, k.name)

(* A directory whose listing was not cut short shows exactly what the p4   *)
(* server has in it, each name with its kind and size: no false ENOENT, no *)
(* field of one record given to another.                                   *)
ListedTruthful ==
  \A d \in InUse, name \in Names :
    table.ent[d].bDir /\ table.ent[d].bList /\ d \notin cut =>
      LET n    == FindPath(table, d, name)
          here == {e \in Depot : e.path = Append(PathOf(table, d), name)}
      IN  IF n = Missing THEN here = {}
          ELSE \E e \in here :
                 /\ table.ent[n].bDir <=> e.kind = "dir"
                 /\ table.ent[n].bSym <=> e.kind = "link"
                 /\ e.kind # "dir" /\ ~e.gone => table.ent[n].size = e.size

(* refcnt is the number of files the kernel has open on the node, and the  *)
(* node has a descriptor, or the mark of a failed open, exactly meanwhile. *)
HandlesCounted ==
  \A n \in InUse :
    /\ table.ent[n].refcnt = handles[n]
    /\ table.ent[n].opened_file # 0 <=> handles[n] > 0

(* No descriptor is leaked or closed too early: the open descriptors are   *)
(* those of the nodes, and no two nodes have the same one.                 *)
Owners == {n \in InUse : table.ent[n].opened_file > 0}
FdsOwned ==
  /\ DOMAIN fds = {table.ent[n].opened_file : n \in Owners}
  /\ \A m, n \in Owners : table.ent[m].opened_file = table.ent[n].opened_file => m = n

(* A descriptor is on the workspace file of its node for as long as the    *)
(* node has it, whatever is inserted meanwhile: READ reads the file that   *)
(* the kernel opened.                                                      *)
FdsOnOwnFile ==
  \A n \in Owners :
    table.ent[n].opened_file \in DOMAIN fds =>
      fds[table.ent[n].opened_file] = PathOf(table, n)

(* On new files the arena never stops the daemon or loses a name, however  *)
(* long and short names alternate over the listings: what is checked of    *)
(* the table holds of every listing the server can answer.                 *)
NeverStuck == ~Stuck

(* Every entry in use lies in the part of the array that is mapped.        *)
EntriesMapped == table.id < table.total

(* The handlers implement the abstract map of node numbers.                *)
Nodes == INSTANCE NodeMap WITH
  nodes <- [n \in InUse |-> <<table.ent[n].parent, table.ent[n].name>>],
  known <- {<<k.node, k.parent, k.name>> : k \in known}
ImplementsNodeMap == Nodes!Spec

(* inode_store.cpp:23 calls the tree a red/black tree: no path from the    *)
(* root is then longer than twice the logarithm of the number of entries.  *)
DepthOf(n) ==
  LET up[m \in Ids] == IF m = 1 THEN 1
                       ELSE 1 + up[CHOOSE p \in InUse : m \in {table.ent[p].left, table.ent[p].right}]
  IN  up[n]
Balanced == \A n \in InUse : 2 ^ (DepthOf(n) \div 2) <= table.id + 1
=============================================================================
