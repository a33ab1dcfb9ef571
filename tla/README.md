# A TLA+ model of p4fuse

p4fuse mounts a Perforce depot as a file system. It is one process with one
thread that does work: `main.cpp` (which includes `inode_store.cpp`) reads FUSE
requests from `/dev/fuse` through io_uring, answers them from an inode table, and
fills that table by running `p4 dirs`, `p4 fstat` and `p4 sync` on demand.
Everything else in the repository is either vendored (`p4/`, `fuse_kernel.h`), an
older copy (`diff.cpp`), or an unfinished successor that no build includes
(`threadpool.cpp`, `executor.cpp`, `allocator.cpp`, `inode.cpp`; only `allocator.cpp`
compiles).

## Inventory

| Component | State | Operations | Correct when |
|---|---|---|---|
| Event loop (`main.cpp` 40-84, 271-299, 871-924) | `cur`, `head`, `read_buf`; `cur_sz`, `num_rqs`, `out_buf`; `queue_next` | completion of the open (case 30), of a read (1), of a write (2); `queue_read`, `alloc_chunk`, `send_message` | no reply in flight is overwritten, no unserved request is overwritten, requests are served whole and in order, every request gets its reply |
| Handlers, buffer side (`process_commands`, 346-823) | as above | one per opcode: what it allocates, where it returns -2, what it sends | what it gives up on can be retried; records lie where the kernel looks for them |
| Inode table (`inode_store.cpp`) | `entries`, `id`, `total_inodes`, `gen`, string arena | `find_path`, `find_or_insert_path`, `new_inode`, `find_all_with_parent`, `build_path`, `init_table` | nothing inserted is lost, listings are exact and keep their order, numbers keep their meaning |
| p4 callbacks (`MyClientUser`, 125-233) | `type`, `node`, `name`, `id`, `err` | `OutputInfo` per line of output, `OutputText`, `OutputBinary` | each record ends up in its own entry |
| Handlers, table side (LOOKUP, READDIR, READLINK, OPEN, RELEASE) | `bList`, `opened_file`, `refcnt` of the entries | list once, sync once, open once and share | the kernel is told the truth and it stays true; descriptors are neither leaked nor closed early |
| The two files of the table (`inf.temp`, `strf.temp`) | what the last run wrote | opened without `O_TRUNC`, mapped shared | a new run takes over nothing the dead one counted, had open or listed (it does take over how long its names were) |
| Arena of the unfinished successor (`allocator.cpp`) | `head`, `tail`, `total_size` | `arena_alloc`, `arena_undo_alloc`, `arena_clear` | (nothing that compiles uses it) |
| Worker pool (`threadpool.cpp`) | `action`, `num_res`, `result[]` per worker | wait for a command, run it, post results | no command is lost, results are not overwritten (unfinished code) |
| Executor (`executor.cpp`), red-black tree (`inode.cpp`) | two arenas; the tree | read, write and sync completions; insertion | (unfinished code) |

The loop calls the handlers; the handlers call the table and, synchronously, the
p4 client, which calls back `OutputInfo`, which writes the table. The kernel
shares `read_buf` with the loop (it writes it while commands are served) and
`out_buf` (it reads replies while later ones are built). That sharing, and the one
counter and one flag that guard it, is the hard part; the second is a tree that is
written line by line from the output of commands that may fail, while the kernel
remembers what it was told. The 128 threads `main` creates return at once, and the
arena's compare-and-swap never has two callers: there is no thread concurrency.

## Modules

| Module | Models |
|---|---|
| `FuseLoop` | the event loop and, for each handler, its use of the two buffers, with the kernel completing reads and writes in any order |
| `RequestServer` | what the kernel expects of a server, without buffers; `FuseLoop` implements it (`ImplementsServer`) |
| `FuseLoopProofs` | proofs about `FuseLoop`: the reply buffer, the ring and the refinement |
| `FuseWire` | the sizes of the messages in `fuse_kernel.h` |
| `FuseWireProofs` | proofs about the messages: the daemon's sizes satisfy what `FuseLoop` assumes of its own; a reader of a directory is given what is in it (`Dirents`) |
| `InodeTree` | the inode table and `OutputInfo` as operators on a table (recursive functions, no state) |
| `P4Fs` | the handlers as steps on the table, the workspace and the descriptors, with a depot that answers in any order, one step per line of its output |
| `NodeMap` | what the kernel relies on in node numbers; `P4Fs` implements it (`ImplementsNodeMap`) |
| `P4Restart` | `P4Fs` with a daemon that dies and is started again on kept or removed files |
| `P4Vfs` | `FuseLoop` and `P4Fs` composed: the whole daemon |
| `Dirents` | the bytes of a directory listing and how the kernel reads them in parts |
| `NameStore` | numbers, generations and the arena of names, with the widths of the fields as parameters |
| `Induction` | induction over numbers without an operator as a parameter |
| `InodeTreeProofs` | lemmas on the recursive functions of `InodeTree`, for a tree of any shape |
| `NameStoreProofs` | proofs about `NameStore`: remainders, sums, and what lies where in the arena |
| `P4FsProofs` | proofs about `P4Fs` |
| `P4RestartProofs` | the same across deaths and restarts, and that listings show the depot |
| `P4VfsProofs` | proofs about the composition |
| `MCFuseLoop`, `MCP4Fs`, `MCP4Restart`, `MCP4Vfs`, `MCDirents` | constants for TLC |

### FuseLoop

`pc` tells whether the loop is at `io_uring_wait_cqes`, inside `process_commands`,
or gone. `cur` and `head` are the positions in the stream of requests, as in the
code; a cell of `rbuf` holds which byte of which request lies there, so that a
request overwritten before it is served is seen. `cq` is the completion queue,
`reads` and `flying` what the kernel still works on. A reply is its chunk of
`out_buf`, whether its length is at least a header, and how much padding comes
before the first record of its payload. Requests carry the opcode and one number, the
one the handler's allocations depend on. Each iteration of `process_commands` is a
step, so completions can be posted between two requests of one call; consuming them
is not possible before the call returns, as in the code.

Handlers of the same shape share an action: `ServePrologue` (the macro, then one
reply; INIT, GETATTR, LSEEK, FLUSH, ACCESS, OPEN, RELEASE, LOOKUP), `ServeNosys`,
`ServeStatfs` (second chunk untested), `ServeReadlink` (buffer doubles, chunks stay
allocated on -2), `ServeReaddir` (aligned records, NULL untested), `ServeRead`
(second chunk, failing `pread`), `ServeSilent`, `ServeUnknown` (exit). A NULL written
through, and an exit, are the step `Die`.

History: `reqs`, `answered`, `rejected`. `rejected` holds the requests whose reply
was shorter than a header, which the kernel refuses with EINVAL.

### InodeTree and P4Fs

A name is an integer, which is all `cmp_node` makes of it (byte order, then
length); a path is the sequence of names from the root. `Descend` is the loop
`find_path` and `find_or_insert_path` share. `Claim` is the pattern that occurs three
times in `OutputInfo`: find or insert, return unless the entry is `table->id`, fill
it in. Of the arena of long names the table counts the bytes (`Taken`: what `new_inode` gives
back for the number's old name, what it takes for the new one, the doubling); `NameStore` has
the bytes themselves. `whole` says that the loop which doubles the arena came back and that no
name lies over another one; the model follows a daemon no further than that (`Stuck`).
`find_path` takes the length of a name as a u8: of an overlong name (FUSE lets 1024 bytes through) it
hears the first `len % 256` bytes, which `Overlong` and `Heard` say; what the kernel is told is
recorded under the name that was heard.

`P4Fs` has one action per handler that changes something, and the listing that READDIR and
LOOKUP share in steps: `StartListing` asks `dirs`, `OutputStat` takes one record of the
answer (any order of records, either order of a record's fields), `OutputLine` is one call
of `OutputInfo`, `EndDirs` asks `fstat`, `EndFstat` sets `bList` and lets the waiting LOOKUP
reply. With `RunsMayFail` a command ends before all its records came. `job` is the listing
that runs; while there is one no other handler does. `Sync` and `open` may fail. GETATTR,
READ, LSEEK, FLUSH, ACCESS, STATFS, FORGET change none of this state and have no action;
what GETATTR would report is compared with what LOOKUP told in `ToldStaysTrue`. `known`
holds what LOOKUP replies told the kernel; `handles` counts the files it has open.
`find_path` answers 0 for the root, where `FindPath` answers 1: no request names the root.

### P4Restart

`Start` is `main` up to the mount: `init_table` on what the files hold. `inf.temp` is mapped
shared, so what the dead daemon wrote is there, between any two lines of a listing;
`RestartRemoved` is what `test.sh` does. On kept files the root usually keeps its `bList`:
the mount is then empty for ever, which is why the properties speak of what the new run
counts, owns and lists, and `cut` marks such a root as incomplete.

If the dead daemon had not marked its root, the new one hands out the kept entries again, and of
each of them it reads one thing: how long its name was. `next_id` begins generation 1 with the
first number, so the test `gen != 0` in `new_inode` lets that length through on the first round
already, and `head` of the new arena moves by names the new arena never took in. `Held` is that
length. A long name may then find `head` past `cur`, and `new_inode` never comes back; or what
is in use is undercounted, and names are written over one another when the arena is full. Both are
reached in the run `files`, and the model ends there: a daemon that is stuck can only die and be
started again, and one that wrote a name over another is not followed. `kept` tells the daemons
that began on kept files from the others, and `StuckOnKept` is what it is for.

### P4Vfs

Each step of the composition is a step of `FuseLoop`, of `P4Fs`, or of both. The order
inside a handler is the point: `NoRoom` is a handler whose prologue finds no chunk, before
anything else; `ServeReadlink` syncs whether it then finds room or not; `ServeLookup` and
`ServeReaddir` start a listing with the loop inside the handler (`P4Answers`), and
`ListingEnds` goes on to the reply, so completions pile up meanwhile. The kernel knows a
node when it has taken the LOOKUP reply that told it (`KernelNodes`), sends RELEASE for a
file it has opened and has no READ under way for (`Closable`), and may have several requests
queued. `aim` is what a request is about. `KernelReadFails` (a broken mount) has no step. The
parts are instances of `FuseLoopProofs` and `P4FsProofs`, which extend `FuseLoop` and `P4Fs`
by theorems only: that is how `P4VfsProofs` can use them. `LoopAssumption` and `FsAssumption`
are what the parts assume of their constants.

### Dirents

One READDIR: the prologue, one `alloc_dirs` per child of the walk, `send_message_offs`. The
kernel takes a reply apart record by record, keeps the `off` of the last one as its
position, and asks again from there; a reply without a whole record is the end. Sizes are the
real ones (`FuseWire`). Between two READDIRs the listing is built again, at any other place of
`out_buf` (`Starts`). The code rounds the place of a record and not that of the payload, so at a
place that is no multiple of 8 no record lies where the kernel looks for it (the finding
`dirents`): the kernel then takes padding or the middle of a record for one (`ParseGarbage`).
What comes of that depends on the bytes there (an error, a name nobody has, an early end); the
model sets `garbled` and follows the reader again when it seeks.

### NameStore

`NewInode` is `next_id`, `new_inode` and the `memcpy` with which `OutputInfo` stores the
name. Every byte of a name is told apart (insertion, position), so that one byte overwritten
anywhere is seen; the file's second mapping is the `%` in `Cell`. That the lengths of p4's names
fit in their eight bits is an assumption on the depot (`NameStoreAssumption`).

`Init` is `init_table` on new files and on those of every dead run: the first entries may have
lengths. Of a name of this run `head` moves only when its number is handed out again, after
2^32 - 1 insertions; of a dead one when its number is first handed out (`given` counts those bytes).
`NewInodeHangs` is an insertion that meets `head` past `cur`: the difference of two u64 is then larger
than any arena. `overrun` records that a chunk was taken where a name in use lies, `turned` that
the arena grew after chunks had gone round its end, which moves that end under names that run over
it; `NamesIntact` is stated up to either. On new files no insertion hangs,
no chunk is ever taken so, and the end moves only after numbers were reused (`SafeOnNewFiles`).

### Mutants

An operator whose comment begins with "Mutant" is a variant of the definition after
it with a plausible mistake (a forgotten count, a missing reset, a swapped order, a
dropped test). Nothing uses it; it stands for a change of the code that the named
property detects.

## Runs

| Run | Shows |
|---|---|
| `replies` | all opcode shapes, three requests, `out_buf` of 8 units where one unknown or failing thing of each kind happens: type, exact count of replies, replies in flight intact, stalls only with a reply outstanding, one reply per request, an idle loop always reads, and `ImplementsServer` |
| `ring` | four requests of lengths 1 and 2 through a ring of 6: the ring wraps, stalls begin and end, nothing unserved is overwritten, at most one read is pending, requests are served whole; liveness: every stall is lifted |
| `wedge` (violation) | with a small `out_buf` a stalled request is not answered |
| `pread` (violation) | a READ whose `pread` fails is not answered |
| `dirents` (violation) | directory records after an odd-sized reply are misaligned |
| `tree` | two directories with interleaving numbers, a file with the name of a directory, commands that end early: exact, truthful and stable listings, no entry lost, what was told stays true, mapped entries, `ImplementsNodeMap`; long names make the arena grow and never stop the daemon (`NeverStuck`); one name asked for is overlong |
| `files` | up to three handles on files, failing syncs and opens, listings in between, and deaths at any step with restarts on kept and on removed files: counts, ownership of descriptors, each on the file of its node; counts and descriptors of the dead run are not taken over and no field of an old entry shows through a listing; the lengths of its names are taken over, and stop a daemon only on kept files (`StuckOnKept`) |
| `balance` (violation) | five files in order make the tree a list |
| `retries` | five requests (LOOKUP, OPEN, RELEASE, READ, READLINK) on a file and a link through an `out_buf` of two replies: a handler that is run again counts once and syncs once, a READ always finds the file open |
| `dirs` | liveness: requests that wait for listings, and those behind them, are answered |
| `records` | six children with names on both sides of the boundaries of 8 bytes, reads of one record to all of them, four places in `out_buf`, two of them no multiples of 8, two seeks: every child once, in order, no early end, no wrap of `ss - offset`, garbage only from misplaced listings, and otherwise the end is reached |
| `names` | eight names on two usable numbers, four generations, on new files and on those of every dead run, through a doubling of the arena and round its end: on new files no insertion hangs and no name is written over; on kept ones names stay intact until that happens; the arena is short of exactly the dead names; number and generation are unique |

Every run says `CHECK_DEADLOCK FALSE`: each ends when its requests were delivered and answered,
when the daemon exits or hangs, when everything was listed, read or inserted. That nothing stops
too early is what the liveness properties say.

### Bounds

In `FuseLoop` sizes are scaled, not the structure: a header is two units, alignment is two, and
FLUSH, ACCESS and RELEASE replies have the odd size of a header and one byte. An
`out_buf` of 8 holds two ordinary replies or a large one, so that a handler can fail
at its first and at its second allocation, with and without replies in flight. Four requests
give two stalls in a row, one with the pending read completing before and one after the last
reply, and four of them wrap a ring of 6. `RingHolds` (three requests fit in the ring) holds in
the code with a wide margin (`RealSizes`): INIT negotiates 4 MiB writes against a ring of 32 MiB,
and at most two requests are unserved. `KernelRead` delivers one request, which is what
`/dev/fuse` does.

In `P4Fs` eight entries and the root give trees of several shapes; `FirstTotal` is 2, so that
the array doubles twice and more. `MaxHandles` is three in `files`, so that a file is shared while another
is open, and one in `tree`. `MaxId` bounds the insertions (the next record of a listing is not taken
when it could need a number above it), which is hardly one of the proofs: it is any number up to
2^31 - 1, beyond which `cmp_node` gives the difference of two u32 numbers another sign as an s32. `MaxRestarts` is two: what the first run left on disk can reach the third only through
the second. Two names are long (2 and 3 bytes, `ArenaSz` 4), so that the second makes the arena grow
and the dead ones move `head` past `cur` or short of it; an overlong name begins like a short one of
the depot in `tree` and like a long one in `files`. `P4Fs_balance` and the runs of `P4Vfs` have
neither: there names matter only as keys. In `P4Vfs` five requests are the fewest with which a file that two opens share is
closed once and then read (LOOKUP, OPEN, OPEN, RELEASE, READ), with a stall on the way. `Dirents`
has the real sizes: names of 1, 8, 9, 255, 16 and 7 bytes (one whose record ends in padding, one
whose does not, the longest), buffers that hold the longest record and nothing more, some records,
all of them. They are built at 16 and 56, behind the 17 bytes of a RELEASE and one byte before a multiple of
8. `NameStore` has one inline byte, four lengths, four generations and four numbers, two of
them reserved: the two left are the fewest that can be reused, eight insertions go round them four times,
dead names are on both or on one, and an arena of 4 doubles before two long names fit.

### Fairness

`FairSpec` of `FuseLoop` assumes that the loop keeps taking steps (it is one thread that never
blocks elsewhere) and that the kernel completes every write it was given (FUSE writes
never wait). Nothing makes the kernel deliver another request: a client that waits for
its reply may be the only one. That is why a stalled request that only a later request
would revive counts as never answered. `P4Vfs` assumes the same of the whole daemon, including
that a p4 command it runs ends (`ClientApi::Run` returns, with or without all its output).
`Dirents` assumes a reader that reads on until it is told the end or cannot make sense of what
it got; seeks are bounded.

## What the checks found

* `wedge` (`main.cpp` 902-919). When a handler returns -2, the read queued before it
  is still in flight. If it completes during the stall, no read is queued after it, and
  the completion that ends the stall neither serves the stalled request nor queues a
  read: the mount hangs. If it completes later, the stalled request waits for it.
* `pread` (`main.cpp` 797-799). `min(ss, size)` with `ss` = -1 makes a reply of 15
  bytes; the kernel refuses it. OPEN replies success when its `open` failed, so the case
  needs no I/O error.
* `dirents` (`main.cpp` 319, 661, 281). Records are aligned in `out_buf`, the payload
  starts at the end of the header.
* `balance` (`inode_store.cpp` 23, 315). The comment says red/black; nothing rebalances.

Everything else the properties say holds. Met on the way, and nowhere promised otherwise in the
repository, hence no finding:

* A restart on kept files (`main.cpp` 837 opens without `O_TRUNC`) usually shows an empty mount:
  `init_table` keeps the root's `bList` and drops its children.
* If the daemon died inside its first listing, a file deleted at its head revision may show the
  size of the dead run's entry with the same number.
* If the daemon died inside its first listing of the root, the next one on the kept files gives
  the lengths of the dead names back to its own arena (`inode_store.cpp` 207-211): it may never come
  back from the loop that doubles the arena (216), or names may be overwritten once the arena, 64 KiB
  at first, has filled. `test.sh` 5 removes the files, where this cannot happen.
* A LOOKUP of a name of 256 bytes or more, which FUSE lets through up to 1024, is answered for the
  name of its first `len % 256` bytes (`inode_store.cpp` 78), where a file system would say
  ENAMETOOLONG.
* A name of 256 bytes in the depot, which the comment at `inode_store.cpp` 20 allows, would be stored with
  length 0; the model assumes that p4 has none.
* Growth of the string arena after numbers have been reused cuts names that run over its end
  (`turned`). On new files it takes 2^32 - 1 insertions in one run.
* READDIR reports symbolic links as regular files (`alloc_dirs`); only LOOKUP and GETATTR have
  the right type.

Steps that are modelled and that no document speaks about: the crash of STATFS and of a
READDIR when `out_buf` is nearly full, the exit on an unknown opcode, the listing that
stays incomplete and the file that is never synced again after one failed command, and a
directory that turns into a file when the depot has both under one name and it was the
newest entry.

## Proofs

Every theorem holds for every value of the constants that satisfies the named assumptions of
its module; none of them bounds the number of requests, nodes, handles, records or restarts.

| Module | Theorem | States |
|---|---|---|
| `FuseLoopProofs` | `TypeCorrect`, `CountIsExact`, `RepliesStayIntact`, `StallsAwaitReplies` | `TypeOK`, `NumRqsExact`, `RepliesIntact`, `StallHasReply` |
| `FuseLoopProofs` | `RingStaysIntact`, `ReadsAreSingle`, `RepliesAreSingle`, `IdleLoopListens`, `WholeRequestsServed`, `LoopImplementsServer` | `RingIntact`, `OneRead`, `RepliedOnce`, `IdleIsListening`, `ServesWholeRequests`, `ImplementsServer` |
| `P4FsProofs` | `TypeCorrect`, `EntriesStayMapped`, `NothingIsLost`, `ListingsAreExact`, `ListingsAreStable`, `CacheStaysTrue`, `NeverGetsStuck`, `HandlesAreCounted`, `FdsAreOwned`, `FdsStayOnFile`, `ImplementsMap` | `TypeOK`, `EntriesMapped`, `EveryNodeFindable`, `ListingExact`, `ListingStable`, `ToldStaysTrue`, `NeverStuck`, `HandlesCounted`, `FdsOwned`, `FdsOnOwnFile`, `ImplementsNodeMap` |
| `P4RestartProofs` | `RestartTypeCorrect`, `RestartHandlesCounted`, `RestartFdsOwned`, `RestartFdsOnFile`, `RestartTreeSound` | the same across deaths and restarts |
| `P4RestartProofs` | `StuckOnlyOnKept` | `StuckOnKept` |
| `P4RestartProofs` | `ListingsAreTruthful`, `RestartTruthful` | `ListedTruthful`, without and with restarts; both theorems on restarts also say `StuckOnKept`: a run that began on removed files is followed for ever, one on kept files until the arena stops it or loses a name |
| `P4VfsProofs` | `DaemonRunsLoop`, `DaemonRunsHandlers`, `OpensAreCounted`, `SyncsAreSingle`, `ReadersHaveFiles` | `Spec => L!Spec`, `Spec => F!Spec`, `CountedOnce`, `SyncedOnce`, `ReadsOpen` |
| `NameStoreProofs` | `TypeCorrect`, `NewFilesAreSafe`, `NamesStayIntact`, `ArenaIsExact`, `PairsAreUnique` | `TypeOK`, `SafeOnNewFiles`, `NamesIntact`, `ArenaExact`, `PairsUnique`, on new and on kept files (the last up to `NumGens * (NumIds - 2)` insertions) |
| `FuseWireProofs` | `RealSizes` | the assumptions of `FuseLoop` hold of the daemon's own sizes |
| `FuseWireProofs` | `DirentsTypeCorrect`, `GivenInOrder`, `EndIsTrue`, `OffsetsInside`, `MisplacedGarbles` | `TypeOK`, `EachInOrder`, `EndIsEnd`, `OffsetInside`, `OnlyMisplacedGarbles` of `Dirents`, for every placing in `out_buf` |

### The reply buffer

The four theorems follow from one inductive invariant, `IInv`. None of the four is inductive alone:
`num_rqs - 1` is a natural number only because the count is exact; the count stays exact
when a reply is sent only because its chunk begins where no other chunk reaches, hence it
is a new element of `flying`; emptying `out_buf` overwrites nobody only because a count of
zero means that no reply is in flight; and a stall with nothing outstanding is excluded
because then `out_buf` is empty (`EmptyWhenIdle`) and every first attempt fits in an empty
`out_buf` (`RepliesFit`, for which the argument of a READ or READLINK must be
one its opcode can carry, `ArgsLegal`). Three lemmas count the replies in a completion
queue when it is appended to and consumed; `SendPreserves`, `StallPreserves` and
`QuietPreserves` say what the three kinds of steps of a handler do, and each handler is
one of them. `CurReq` is total (bytes that are no request decode as an unknown opcode), so
these results do not depend on the ring.

`FuseWireProofs` proves that the assumptions are not wishful: `RealSizes` says that the
daemon's own sizes satisfy them (`BUF_SZ` of 32 MiB for both buffers, the structures of
`fuse_kernel.h`, READs of up to 1 MiB, links of up to a page, requests of up to `max_write` and
its header). The sizes are computed from the fields; the mebibyte is kept opaque and only
its being large is used.

### The ring

`RInv` adds the stream: the requests lie end to end (`Layout`); some `s` of them are served and
some `g` received, `cur` and `head` are where those end, and a request that has landed is
counted in `head` only when its completion is consumed (`Positions`); at most one completion
that is no reply's exists, in flight or queued, and a read in flight lands right behind what was
received (`OnePending`). That nothing unserved is overwritten is not inductive without knowing
how far reading may run ahead: `Backlog` says never three requests behind the one being served,
which needs the phase of the loop, the stall flag and whether a read is pending, and which
`RingHolds` turns into room. `RepliesPast` (only served requests are replied to, each chunk for
its own) gives single replies. `LoopImplementsServer` then maps each step: a delivery, a request
served, a reply taken, or nothing.

### The table

`InodeTreeProofs` says what the recursive functions of `InodeTree` compute. The induction
theorems of the library take an operator as a parameter, which no installed prover
instantiates; what is proved here goes around them. A link leads to a larger number and a parent
has a smaller one (`TreeOK`), so an argument that descends or climbs is an argument about
numbers up to `MaxId`, and `UpInduction` and `DownInduction` of `Induction` take a set in place of a
predicate: both come from `LeastExists`, a least element of a finite set of numbers, which the library's
theorems on finite sets give. The same lemmas show that the recursive definitions have a value at
all (`RecursionDown`, `RecursionUp`, `RecursionTwice`). On this rest

* `DescentEnds`, `FindPathFinds`: a search ends at the entry with that key or at a free link, and
  `find_path` answers accordingly;
* `InsertWalk`, `SameWalk`: linking a new entry where a walk fell off changes no other walk;
  `InsertTree`, `InsertKeeps`, `RefillKeeps` and `ClaimKeeps` for the four ways a record meets the
  table;
* `ChildrenExact`: the pruned walk meets exactly the children and none twice, from
  `SubtreesDisjoint`, `ListingOnce` and `ListingMeets`.

`P4FsProofs` then has `IInv`: the tree is sound (`TreeOK`: links lead to larger
numbers, parents have smaller ones, each entry is linked once and found by its key, the array
is large enough); a listing runs in a directory the kernel knows and that is not marked
(`JobInv`); the entry that waits for its fields is a child of that directory (`FieldInv`); what the
kernel was told is what entries hold (`KnownInv`); every entry lies in a directory that is
marked or being listed (`ListInv`); counts, descriptors and files match (`OpenInv`, `FdsInv`).
`ToldStaysTrue` needs the listing part: a field is overwritten only in the newest entry, and
that an entry the kernel already knows is never that one follows only because its directory is
marked while the one listed is not. `HandlesCounted` needs that numbers not yet in use carry no
count. `Grows` says what every step keeps (numbers mean what they meant, a marked directory has
the same children in the same order) and gives `ListingStable` and the refinement of `NodeMap`.

A restart on kept files does leave counts in entries above `id`. `IInv` allows it in one state,
`Sealed` (nothing known but the root, the root marked): no listing can then begin, so those
numbers are never used. `Fresh` is what both kinds of restart establish; the rest of the
restart proof is the proof of `P4Fs`. It does not depend on the lengths of dead names, which are
only in `arena`: as long as a step is taken, the tree it leaves is sound.

`NeverStuck` needs its own invariant, `OnNewFiles`: numbers not yet in use have no long name, so
that `head` stays 0, and what is taken is at most the arena, so that one doubling makes room
for any name (`LineHasRoom`; `TableAssumption` says that a name is no longer than the arena at
the start). Both hold of `init_table` on new files and on removed ones, which is `StuckOnKept`.

### Truthful listings

`TInv` connects the table with the depot. Every entry shows its depot file, except the one that
waits for a field (`TrueInv`); a marked directory that was not cut short lacks nothing (`ShownInv`),
nor does the one being listed lack what was already told (`ListedSoFar`), except the name whose
entry is not claimed yet; and the lines to come are the rest of one record, the fields that
came are in the entry, or an older entry has the name and nothing was claimed (`RecordInv`). Size
and type may come in either order, so the invariant speaks of half a record. `FreshCut` starts it
anew after a restart.

While this was proved the prover refused `Record`, whose `CASE` had two arms that overlap: TLC
took the first and the semantics takes any. It is a chain of `IF`s now, which says what the
code's output is.

### The bytes of a listing

`Ends` is where each record ends in the payload, a function of the children alone; that it exists, grows
and stays at multiples of 8 is induction along the children (`EndsExist`, `EndsFacts`). `DInv` then says
that every walk has put its records there, counted from the first multiple of 8 in it (`WalkInv`:
at a multiple of 8 rounding before a record and rounding its `off` come to the same; elsewhere
every record lies off the multiples of 8 of the payload, where the kernel looks, and no offset of such
a listing is ever told); that a position is the end of the record of the child given last, also the ones the reader may go back to
(`ReaderInv`); and that a reply begins where the reader was when it asked, some records ago
(`ReplyInv`). `EachInOrder` is about one step and follows from that: the record at the reader's
position is the next child's (`NextRecord`), because no two records end at one place. `EndIsEnd`
needs that a reply in which nothing was parsed has room for a whole record, which the
assumption on `ReadSizes` gives, and that a misplaced listing is never shorter than another one, which
is also why `OffsetInside` holds whatever the two places are.

### The arena of names

Three facts carry the proof. Numbers go round in order (`TurnInv`), so the number and the
generation of insertion `n` are functions of `n`, and the names in use are the last
`NumIds - 2` insertions (`LiveIs`). A place is given back when its number comes round again,
which is in the order in which the places were taken; hence there is one increasing function `p` of the
insertions such that long name `s` lies from `p[s]` on, `cur` is where the next one will, and
`head` is `p` of the oldest name in use and the dead bytes that were `given` back (`ArenaInv`). And every byte of a name in use is in the cell
`p[s] + k` falls on (`BytesInv`): a new name begins at `cur`, whose distance to the oldest name in use
is at most the size of the file also after it, so that no two of the positions fall on one cell
(`ModDiffers`). The code looks at the distance to `head` instead, which is the same as long as
nothing dead was given back; `overrun` is that it was not enough. When the file doubles before anything went round its end, the cells are the
positions and stay where they are (`turned` is what says so).

`ArenaExact` is then that `cur + given - head`, a difference of two values of `p`, is the sum of the lengths between, and
`PairsUnique` that two insertions with the same number lie whole rounds apart, fewer than there are
generations. Both need arithmetic the provers do not have: products and remainders of variables
are stated as multiples with a rest (`IsRest`, `ModTurn`, `ModPlus`), and the sum over a set, which the
community modules define by choosing elements in any order, is shown equal to the sum in the order of the
insertions (`TotalIsSums`, by induction on the cardinality). The widths are constants for the numbers
of values and not of bits, because `2^w` means nothing to the provers.

### The whole daemon

`Spec => L!Spec` is direct. `Spec => F!Spec` is not: a handler of `P4Vfs` runs on what the loop
decodes, and `P4Fs` requires a node the kernel knows. That needs the typing of `aim`, that the
decoded request is one that was delivered (`RInv`), and for RELEASE that an open file is on a
known node. `VInv` has what connects the two: a listing runs inside the handler of a LOOKUP or
READDIR that is the current request (`WaitInv`); `handles` is the OPENs served less the RELEASEs served
(`HeldInv`); the kernel keeps an open file for a READ it waits for (`ReadInv`); a node synced once
is marked (`SyncInv`). `CountedOnce` then follows from `HeldInv` and `HandlesCounted`, and `ReadsOpen`
from `ReadInv`: replies the kernel took are of requests that were served, so the kernel's count
of open files is at most the daemon's. All theorems about the loop and the handlers hold of the
daemon by `DaemonRunsLoop` and `DaemonRunsHandlers`.

### Only model-checked

* Liveness (`StallLifted`, `EveryRequestReplied`, `ReadsToEnd`), which under fairness is out of the
  prover's reach.

Every invariant and every action property of the passing runs is a theorem; `ImplementsServer` and
`ImplementsNodeMap` are too.

## Not modelled

* `threadpool.cpp`, `executor.cpp`, `inode.cpp`: they do not compile (syntax errors, undeclared
  names), no build includes them, and there is no program whose steps a model could translate.
  `allocator.cpp` compiles, but only `executor.cpp` uses it.
* `diff.cpp` is an earlier copy of `main.cpp`.
* `p4/` is a binary library with its headers; the daemon sees of it what `P4Fs` has: records that
  arrive line by line, in any order, of commands that may end early. Most of the repository's
  lines are these headers and `fuse_kernel.h`, of which the daemon uses the structures in
  `FuseWire`; the lines the models stand for are those of the live daemon.
* `OutputText` and `OutputBinary` take chunks of `out_buf`; no command `main.cpp` issues is known
  to call them.
* Reuse of a number whose entry is still in the tree: `NameStore` has the reuse without the tree,
  `InodeTree` the tree without reuse.
* The padding bytes READDIR sends past its own chunk (at most seven), and offsets no READDIR
  gave out.
* What a daemon on kept files does after it wrote one name over another in the arena: its tree is
  then ordered by names it no longer has (`P4Restart` ends at `Stuck`, `NameStore` goes on without a tree).
* What the kernel makes of the bytes of a misplaced directory listing (`garbled` and no more).
* Threads: the 128 that `main` creates return at once, and the compare-and-swap of the string
  arena never has two callers.

## Plan

No safety property of a run is without its theorem. What is left: the number that is handed
out again while its old place in the tree is still linked (`NameStore` and `InodeTree` composed), which
needs an invariant weaker than `TreeOK`; and to prove of `NameStore` what happens after `turned`, that only
names which run over the old end are cut.
