# A formal model of the remote file server

The repository holds a file server (`fs.cc`, `filesystem.cc`, `fs_user.cc`): users
create, delete, read and write files and directories over the network, several
handler threads work on one disk, and the disk must hold a consistent tree at every
instant at which the process may die. This directory models the server in TLA+,
checks the models on small instances with TLC and proves the most important facts
about them with TLAPS for every size. Paths below are relative to the repository's
root.

## The system

| component | state | operations | talks to |
|---|---|---|---|
| connection handling (`fs.cc`) | descriptors, one detached thread per connection | `main` accept loop, `request_handler`, `read_bytes` (declared only) | `user_exists`, `password`, `fs_decrypt`, `handle_request` |
| request dispatch (`filesystem.cc:106-194, 573-674`) | argument vector of one request | `handle_request`, `split_request`, `send_response` | sessions, the handlers |
| user table (`filesystem.cc:76-101`) | `users`, filled before the first accept | `add_user`, `user_exists`, `password` | `fs_user` |
| sessions (`fs_user.cc`) | `SESSION_ID`, `sessions` of each user | `create_session`, `session_request` | called under `internal_lock` |
| handlers and walk (`filesystem.cc:250-569, 678-766`) | locals of a request, `recurse_args` | `create_entry`, `delete_entry`, `access_entry`, `recurse_filesystem` | locks, allocator, disk |
| block allocator | `free_blocks`, a deque under `internal_lock` | pop front, push back, insert at the front | the handlers |
| block locks | one `pthread_rwlock_t` per disk block | read, write, unlock | the handlers |
| layout and scan (`fs_server.h`, `filesystem.cc:770-804`) | `fs_inode`, `fs_direntry`, data blocks | `search_directory` | disk |
| start-up (`filesystem.cc:47-62, 199-226`) | `used`, `free_blocks` | constructor, `index_disk` | disk |
| disk, encryption, client library, `createfs`, `showfs` | | binaries without source | |

Threads share the disk, `free_blocks`, the block locks and the session tables.
`internal_lock` guards each access to `free_blocks` and `users`, so one critical
section of it is one step of a model. A block lock guards the inode stored in that
block and, for a directory, its blocks of entries, for a file, its data. A walk
holds one lock and takes the next one before it gives up the first.

What is hard here, and which property says that it goes right, is listed line by
line under `hazards` in `PROJECT.json`. In short:

* *Interleavings*: inodes deleted between lookup and lock, two creates or two
  deletes of one name, write-back of stale copies, a walk whose way is deleted behind
  it (`NoUseAfterFree`, `CopiesCurrent`, `BlocksOwnedOnce`, `WalksItsPath`,
  `ImplementsNamespace`).
* *Histories*: unused entries before used ones, blocks left without entries
  (`NamesUnique`, `NoEmptyDirBlock`).
* *Crashes*: between any two disk writes (`TreeWellFormed`, `ImplementsNamespace`),
  and the scan at the next start (`RestartReclaims`).
* *Limits*: full directory, full file, empty free list, the last session number
  (`TypeOK`, `LostOnlyByFailedCreate`, `IdsUnique`).
* *Early returns*: blocks and locks given back by hand on each
  (`LostOnlyByFailedCreate`, `LocksReleased`).
* *Waiting*: lock order, and that each request ends (`LocksFollowTree`,
  `EveryRequestAnswered`).
* *The network*: repeated, late and reordered requests (`SequencesIncrease`), calls
  whose outcome the client does not learn, several calls in flight (`EffectOnce`,
  `DoneTookEffect`, `OrderKept`).
* *Connections*: `recv` errors kept in an unsigned variable, descriptors given out
  again, peers that stall, leave or wait (`OnlySealed`, `OwnRequest`,
  `OwnDescriptor`, `OwnAnswers`, `ThreadsEnd`, `ClientsHearBack`).
* *Requests as text*: spaces in a path, lengths at their limits, positions in
  `split_request` (`OnlyWhatWasAsked`, `WellFormedServed`, `IllFormedRefused`,
  `SplitExact`, `NothingLost`).

## The modules

| module | what it is |
|---|---|
| `DiskLayout` | inodes, entries, contents of a block; `SearchDirectory`; the tree on a disk and what keeps it sound (`SoundDisk`); `IndexDisk` |
| `IndexScan`, `MCIndexScan` | the recursion of `index_disk` step by step, and disks for it |
| `Filesystem` | the concurrent core: constructor, walk, the three handlers, crash |
| `FilesystemProps` | what the core must guarantee |
| `FilesystemInvariant` | `IInv`, the inductive invariant behind it |
| `Namespace` | abstract specification: a tree, requests that take effect at one instant |
| `DiskTree` | the paths on a disk and the tree of directories and files it holds |
| `FilesystemRefinement` | the refinement mapping, `WalksItsPath` and `RInv`, `ImplementsNamespace` |
| `MCFilesystem`, `MC_*.cfg` | small instances for TLC |
| `Sessions`, `MCSessions` | sessions and sequence numbers, their properties and instance |
| `RequestText` | what `split_request` promises: well-formed paths, pieces of a request |
| `SplitRequest`, `MCSplitRequest` | its loop, shown to compute that |
| `Dispatch`, `MCDispatch` | a request from the client's call to the handler and back |
| `Connection`, `MCConnection` | `main` and `request_handler`: users, descriptors, bytes |
| `Server`, `MCServer` | clients, connections, sessions and handlers composed |
| `DiskLayout_proofs` | lemmas on disks: what is live, which paths there are, and what one write changes of both |
| `Filesystem_proofs` | theorems and proofs about the core, last that it implements `Namespace` |
| `IndexScan_proofs`, `Sessions_proofs`, `SplitRequest_proofs`, `Dispatch_proofs`, `Connection_proofs`, `Server_proofs` | those about the other parts |

`Filesystem` extends `DiskLayout`; `FilesystemRefinement` instantiates `Namespace`
with the tree on the disk (`TreeOf` in `DiskTree`) for `tree`, the threads' requests for `pending`, and
what each handler has decided (`frame[t].ret`, `frame[t].buf`) for `outcome`.
`Namespace` lets a create or an extension fail for lack of space at any time
(`NoSpace`): it knows nothing of blocks, so the refinement does not exclude a spurious
failure of that kind. That those failures come from a full inode, a full directory or an
empty free list is in `Filesystem`'s guards, and that no block is lost on the way
to one in `LostOnlyByFailedCreate`.

`SplitRequest` and `Dispatch` extend `RequestText`: the loop is shown to compute
`Split` once, and `Dispatch` uses `Split`. `Server` instantiates `Sessions` with its own
tables and takes for each handler the one instant that `ImplementsNamespace` shows it
has. So the chain from a client's call to the disk is: text (`Dispatch`), connection
(`Connection`), session (`Sessions`), effect (`Filesystem` implements `Namespace`), and
`Server` for what the client may conclude.

### How Filesystem corresponds to the code

* `pc[t]` names the thread's next step. A step is one critical section of
  `internal_lock`, one lock or unlock of a block lock, one disk write, or the disk
  reads made under one lock. The critical sections that only compute the address of
  a lock (`&block_lock[b]`, a constant) change nothing and have no step.
* `req[t]` is the request after `split_request`: the components of the path, empty
  for a malformed path. `args[t]` is `struct recurse_args`, `frame[t]` holds the
  other locals; the comment at `NoFrame` names each.
* Walk: `LockRoot`, `Search`, `LockNext`, `UnlockLast`. Create: `BeginCreate`,
  then `ReuseFolder`, `CannotGrow` or `GrowDirectory`, then `WriteNewInode`,
  `WriteFolder`, `WriteParent`. Delete: `LockTarget`, `CheckDelete`, `RemoveEntry`,
  `ReleaseBlocks`, `UnlockTarget`. Read and write: `LockTarget`, `UnlockDir`,
  `OpenFile`, then `ReadData`, `WriteData`, or `ExtendFile`, `AppendData`,
  `AppendInode`, then `UnlockTarget`. `UnlockParent` is the last unlock of a create,
  a delete and a failed walk.
* `free_blocks` is the deque, in order. `SearchDirectory` keeps the scan order and
  the rule of `search_directory`: first entry with the name, else first unused
  entry, else the first entry of a block to be added.
* `IndexDisk` is the set of blocks `index_disk` marks, stated as a least fixed
  point. `IndexScan` has the recursion itself, which stops at an inode whose block is
  marked already. Its `todo` is what the calls on the stack have still to do, the
  innermost call's rounds first: a call (`Enter`, and `index_disk` for the root) puts
  the rounds of its loop over `blocks[]` in front, `MarkBlock` those over the entries of
  a block of a directory, and `PassBy` is an entry that leads to no call. The run `scan`
  and `ScanFindsTree` show that the two agree on disks that hold a tree, and
  `TreeWellFormed` that every disk a server starts from holds one.
* `Crash` is the death of the process at any step; the disk stays, and `Boot` runs
  the constructor again, one block of its loop per step.
* Indices into `blocks[]` and `folders[]` start at 1 in the model.

Not in `Filesystem`: names and passwords as text, the bytes of a block, the size
checks on the text of a path, the response. A read of a block as a structure it does
not hold gives a fixed value (`AsInode` and its siblings); `TreeWellFormed` and
`NoUseAfterFree` show that no thread does it.

### How Sessions corresponds to the code

Each action is one critical section of `internal_lock`: `NewSession` is
`new_session` with `create_session`, `Accept` and `Reject` are the check at the head
of `handle_request`. Any request may come at any time, any number of times, which
covers every duplication, delay, loss and reordering. `Word` is the conversion of
`stoul`'s `unsigned long` to the `unsigned int` the tables hold. `opened` and
`accepted` are histories for the properties. `Crash` forgets everything, as the
server does.

### How RequestText, SplitRequest and Dispatch correspond to the code

* A text is a sequence of characters; `split_request` tells a slash, a space, other
  whitespace and the rest apart. Positions start at 1, so `npos` is 0. An action of
  `SplitRequest` is one pass of the loop; `starts` is a history of where pieces begin.
* `Dispatch` follows one call. `Text` gives the request formats in the comments above
  each handler, which the client library writes from what its caller passes: any path,
  any type of at most one character, a number as the block (`DispatchAssumption`).
  `SplitText`, `CheckSession`, `SelectHandler` and `Handle` are `handle_request` in its
  order: the session is used up before the path's length is looked at. The fourth
  character of the name selects the handler (`Kind`), and arguments are appended before
  they are counted. `handled` is what the handler reads at the indices of
  `filesystem.h:28-35`; the walk itself is `Filesystem`'s.
* A name, a session, a sequence number and a block number are one character each:
  they hold no spaces, and only where the spaces are matters.

### How Connection corresponds to the code

* `thread[c]` holds the locals of `request_handler` for connection `c`, and `pc` is its
  next system call or computation: one `recv` of a byte per `ReadByte`, the checks of
  the header in `ParseHeader` or `RefuseHeader`, the `recv` of the message, `fs_decrypt`,
  the two sends. Each way out is an action that closes: `Drop` is `close(client);
  return`.
* `socket` is the kernel's table of descriptors; `accept` takes the lowest unused one.
  It may fail at any time, for the lack of a descriptor or because a peer has left the
  queue (`AcceptFails`), and ends the process then, as does a send to a peer that has
  gone (`SIGPIPE`).
* The size in a header is read as `stoul` does: blanks, perhaps a sign, then digits up to
  the first other character, truncated to an `unsigned int`; `-9` is a large size.
  `strcpy` puts its text into `request_size` (`fs.cc:119`) before anything looks at its
  length, and the message goes to the stack (`fs.cc:136`). A text longer than
  `INT_MAXDIGITS`, or a size beyond `STACK_ROOM`, makes the behaviour undefined; `HeadersFit`,
  an assumption on `Arrivals`, leaves out the headers that contain one, or would if the
  connection broke inside them.
* `HeaderFails` and `BodyFails` are `recv` returning -1, which the unsigned `return_val`
  takes for a success. The byte of the header is then as `memset` left it, and the
  message is what the thread's stack held: `residue`, the messages received before, or
  `Garbage`. The choice between them is nondeterministic.
* `fs_decrypt` (external) returns a message only for the password and size it was
  sealed with. A message is its password and its size.

### How Server corresponds to the code

* A client asks for a session and then makes calls with increasing sequence numbers. It
  awaits `fs_session`, which gives the number that the others name, and no other call:
  the functions of `fs_client.h` are thread safe, and `test_thread_write_create.cc:34-36`
  and `test_thread_sleep.cc:45-47` have two calls of one session in flight. A call is
  identified by client and sequence number.
* The handlers of such calls run concurrently after `filesystem.cc:125`, and the later
  one may take effect first with both returning 0; the model allows that. What is left of
  an order is `OrderKept`: `precedes` remembers which calls had returned 0 when another
  was made, and effects keep to that.
* A thread goes through `received`, `handling` and `answering`. `BreakOff` is a broken
  connection: the call returns -1 while the thread goes on. `ReceiveFails` is
  `Connection`'s `BodyFails`, and `RequestLost` its `ShortBody`.
* `OpenSession`, `AcceptRequest`, `RejectRequest` and `Crash` contain the actions of
  `Sessions`, and no other action touches the tables: by the way it is written, each
  step of `Server` is one of `Sessions` or leaves its variables alone.
* `TakeEffect` is the handler's instant, `Fail` its failure, and `Answer` is
  `send_response` with the client's comparison of session and sequence.
* `Crash` forgets sessions and threads, keeps what took effect and makes open calls
  return -1. A death by `SIGPIPE` is one.

## What the runs check

| run | instance | distinct states | shows |
|---|---|---|---|
| `race` | 3 threads, 3 requests of 2 users out of 10 kinds, a disk with `/a` and `/a/b` | 184 000 | the locks protect what they are for, a thread is always where its path leads, and requests are linearizable |
| `history` | 2 threads, fair, 4 requests out of 10 kinds, 9 blocks, 1 entry per block, 2 blocks per inode | 568 000 | limits are refused without damage, each block has one owner, only one step loses blocks, each request ends |
| `crash` | 2 threads, 3 requests, 2 crashes, 1 entry per block | 88 000 | the disk is a tree after any write, and the inductive invariant `IInv` holds; requests survive wholly or not at all |
| `sessions` | `unsigned int` of 2 bits, numbers 0 to 5, 4 accepted requests, 1 crash | 55 000 | sequences increase within a process's lifetime (a crash clears the histories with the tables), sessions belong to one user, numbers are used once |
| `scan` | 14 000 trees on 5 blocks in a given layout, 2 entries per block | 43 000 | the start-up scan marks exactly the tree |
| `split` | all texts of up to 6 characters of 4 kinds, names of up to 2 | 35 000 | `split_request` returns what `RequestText` says and loses no character |
| `dispatch` | all calls with paths of up to 5 characters, 5 types, 3 block numbers, 3 sizes of data | 216 000 | a handler works on what was asked for or not at all |
| `connection` | 2 connections, 2 descriptors, 17 kinds of peers | 1 578 000 | what is handled was sealed by its user; descriptors and answers keep to their connection |
| `threads_end` | 2 connections, 1 descriptor, 5 kinds of peers, fair | 58 000 | a thread ends once its peer has gone, and a client that stays has its connection closed |
| `server` | 2 clients of one user, 3 calls each, 2 threads, 1 crash | 4 734 000 | calls take effect at most once, 0 means done, and a call made after that comes after it |
| `reuse` | violation | | after a restart a session is given out that a client still has |
| `space` | violation | | a failed create keeps its reserved block |

*Bounds.* Three threads are the most that the properties relate (two that race and
one that reuses what they freed). `MaxRequests` and `MaxCrashes` bound the histories;
from a disk with `/a/b`, four requests suffice to fill the root, the file or the disk,
or to take the tree down and create again in its blocks. Two blocks per inode and one
or two entries per block make the last block, a middle block and a full inode
different cases. Disks of five to nine blocks run out within a history. Threads,
clients and connections are interchangeable, so their permutations are symmetries;
the runs with a liveness property do without. Two crashes cover a crash during the
recovery from another one. In `sessions` the counter reaches its maximum and
conversions truncate. In `split` and `dispatch` the bounds on names and paths are 2
and 4 and the texts go beyond them by at least one. In `connection` sizes of two digits go
beyond an `unsigned int` of 4 bits. In `server` a session and two
more calls are what an old request and a later one of the same client need, and one crash lets
two clients share a session.

*Fairness.* `FairSpec` of `Filesystem` asks that a thread that can always take its next
step takes it, and the constructor too: the operating system schedules runnable
threads. Weak fairness is enough for the locks because finitely many requests compete
for them. The default `pthread_rwlock` prefers readers, so with endless reads a writer
may wait for ever; the model allows that, and no property denies it. Clients need not
send anything and the process need not crash: `Accept` and `Crash` have no fairness.
`FairSpec` of `Connection` is the same for main and its threads; peers owe nothing, so a
peer that neither sends nor leaves keeps its thread: `ThreadsEnd` speaks of those that
have gone, and `ClientsHearBack` of those that stay, who hear of a refusal only by the
end of their connection, but for what they themselves still owe.

*Lock order.* `LocksFollowTree` says that a thread waits only for a child of the inode it
has locked. That no cycle of waiting threads can arise from this is an informal step
(the tree has no cycles); the absence of deadlock itself is checked by
`EveryRequestAnswered` and by TLC's search for states without a step.

*Deadlock.* TLC looks for deadlock in every run but `scan`, `split` and `dispatch`,
where a computation ends. `Idle` is the one state without further steps in the others:
when the bound on requests is used up and main waits in `accept`, or the process has
ended.

*Two disagreements with the interface.* A create takes a block for its inode before the walk and
returns it in only one of its failures (`filesystem.cc:272-280`), so failed creates
use up the disk until a restart, against the out-of-space failure that
`fs_client.h:84` describes: run `space`. `LostOnlyByFailedCreate` shows that no other
path loses a block. And `fs_client.h:24` promises a new session, while `SESSION_ID` starts
at 0 with every process (`fs_user.cc:7`): after a restart a client is given the number
of a session that another client of its user still holds, and the server takes the
requests of both for one sequence: run `reuse`. `EffectOnce`, `DoneTookEffect` and
`OrderKept` hold all the same.

*A disagreement between tests.* `test_ec_session_id.cc:27-28` and
`test_ec_session_id2.cc:45,49` print "should be 0" for calls of user1 with the session
number that `fs_session` wrote for user2 into the same variable. `session_request` looks
the number up in the table of the user who calls (`fs_user.cc:43`), where it is not, so
the calls are refused and print -1. `fs_client.h` lists "invalid session or sequence" among
the failures, and `OwnSessions` takes the code's side: it says that a session serves
only the user who opened it.

A smaller one is not checked: the comments at
`filesystem.cc:256` and `:289` promise the smallest free block, and the code takes the
front of a deque that deletes and failed creates leave unsorted.

## What is proved

For every disk size, number of threads, set of users, names, requests and initial
disk, from `LayoutAssumption`, `ServerAssumption` and, from `IInv` on,
`DiskAssumption`. The last says that the first server starts from a sound disk
(`SoundDisk`: a tree, unique names, no block of a directory without entries, owners
inherited): the empty root `createfs` leaves is one, and by the invariant so is every
disk a server leaves, whatever write it died after.

* `TypeCorrect`: `Spec => []TypeOK`. `TypeOK` alone is not inductive. `TypeInv` adds
  `StepShape`: what a thread knows at each step from the checks it has made (the path
  is not empty after the root's lock, a found entry lies in the directory's blocks, a
  readable block lies in the file). Of an index into `blocks[]`, `TypeOK` says only that
  it is a number; that it lies in the list wherever it is used is `StepShape`'s part.
  So the theorem of `TypeOK` is that `blocks[]` is never outgrown, and the invariant
  that no index leaves its array. One lemma per action; `NextTypeInv` collects them.
* `NoLockLeaks`: `Spec => []LocksReleased`. `LockInv` says for each step which
  blocks a thread may have locked (`MayHold`). It is inductive because a step
  adds at most the block it locks and each handler's last steps take away the rest.
* `InductiveInvariant`: `Spec => []IInv`. No property of the disk is inductive by
  itself: a write keeps the tree only because of what its thread read earlier and
  still knows. `IInv` therefore says at each step which locks a thread holds
  (`HasLocks`, with `OneWriter`), what its copies of the directory, of the entry and of
  the file have to do with the disk (`KnowsDir`, `KnowsTarget`), what is written in the
  blocks it has reserved (`KnowsReserved`), and of all threads that the blocks they
  reserve, the free list and the tree are disjoint (`BlocksOwnedOnce`). The proof has
  one lemma per action, `<Action>Keeps`, which shows that the action `DoesItsPart`: the
  disk stays sound, the thread knows what its next step needs, no block gets a second
  owner, and the others still know what they knew. The last is one argument for all
  actions (`OthersKeepKnowing`): a thread writes to an inode's blocks only with that
  inode locked to write, and what another thread knows is about inodes it has locked
  itself.
* From `IInv`: `DiskHoldsTree` (`TreeWellFormed`), `NamesStayUnique`
  (`NamesUnique`), `EmptiedDirsShrink` (`NoEmptyDirBlock`), `OwnersStayApart`
  (`OwnerIsolation`), `BlocksHaveOneOwner` (`BlocksOwnedOnce`), `LockedStaysLive`
  (`NoUseAfterFree`), `NoLostUpdate` (`CopiesCurrent`), `WaitsGoDown`
  (`LocksFollowTree`), and of steps: `StartReclaims` (`RestartReclaims`) and
  `OnlyFailedCreatesLose` (`LostOnlyByFailedCreate`).
* These rest on `DiskLayout_proofs`: `LiveInodesLeast` (the tree is the least set that
  holds the root and the children of its members, found within `FS_DISKSIZE` levels),
  `IndexDiskLive` (so the scan at start-up marks the tree), and for each kind of write
  what becomes of the tree (an entry more, an entry less, a block more, a block less,
  nothing).
* `ImplementsTree`: `Spec => ImplementsNamespace`, every request takes effect at one
  instant between its arrival and its answer, or at none, and a crash leaves what has
  taken effect. `IInv` does not say where in the tree an inode is, and a walk keeps no
  lock on the way it came: entries on that way may be deleted, their blocks used again
  elsewhere. So the invariant is `RInv`: `IInv`, each thread is where its path leads
  (`WalksItsPath`, also a theorem: `WalksStayInPlace`), and nothing is answered that was
  not asked (`Answers`). Why it is inductive: an inode with entries cannot be deleted,
  so what stays in the tree stays at its path (`PathsStay`), and what a thread has locked
  stays in the tree. One lemma per action, `<Action>Does`, shows that the action is one
  of `Namespace` or invisible in it, that no inode changes its path, and that its own
  thread is in place afterwards. The walk's last step decides failures (`WayEnds`: there
  is no such path at that instant); the last disk write of a create or delete and the
  access to the data block of a read or write are the requests' effects, the steps
  before and after invisible.
* These rest on what `DiskLayout_proofs` shows of paths: each inode in the tree has one
  (`PathsFacts`, `PathsWithinBlocks`), `PathsTo` is the least set closed under going
  down an entry (`PathsLeast`), and what an added and a removed entry change
  (`PathsGain`, `PathsLose`, `TreeSame`).

For every disk that holds a tree, of any number of blocks, from `LayoutAssumption` and
`ScanAssumption` (the disks are disks):

* `ScanFindsTree`: `Spec => []ScanExact`, `index_disk` marks the blocks of the tree and
  no others. `ScanInv` says that what is marked and what is still to do is in the tree,
  and that a block or inode which a marked one refers to is marked or still to do. When
  nothing is left the marked inodes are therefore closed under children, and the tree is
  the least such set. Where the code returns early, at a marked inode, the tree's
  having one use for each block matters: a marked block is then an inode that the scan
  has entered, and never one that was only marked as a block of data.

For every width of `unsigned int`, set of users and set of numbers, from
`SessionsAssumption`:

* `SessionsTypeCorrect`, `NoReplay`, `NoBorrowedSession`, `NoIdTwice`. `SessionInv`
  ties the histories to the tables: sessions are numbered in the order they are
  opened, the tables hold the opened sessions and no others, and each table is at
  least at the last accepted sequence number.

For texts of any length, from `TextAssumption` and `SplitAssumption`:

* `SplitLosesNothing`: `Spec => []NothingLost`. The inductive invariant adds where
  `begin` and `end` stand at each step of the loop.
* `SplitComputes`: `Spec => []SplitExact`, the loop returns what `Split` defines. `Outcome`
  adds that the pieces end at all the tokens the loop has passed, in order, and that no
  name is too long. `Pieces` chooses the k-th cut by counting those before it;
  `CountOrdered` and `PiecesAre` show that cuts in increasing order are the ones it
  chooses, and `CutsWellFormed` that a path without names that are too long has no
  stretch of that length without a slash, as `WellFormedPath` asks.

For calls of any length, any limits and any path, from `TextAssumption` and
`DispatchAssumption`:

* `NoTextMistaken` (`OnlyWhatWasAsked`), `AllowedCallsServed` (`WellFormedServed`),
  `OtherCallsRefused` (`IllFormedRefused`), `AnswersFit` (`AnswerFits`). They rest on
  `SplitsCall`, what `Pieces` makes of a request's text: its words if neither path nor
  type holds a space, and more pieces than words otherwise. So the count of arguments
  after the switch on the fourth character tells one from the other, and what passes it
  `Carries` the client's words to the places the handlers read. `DispatchInv` takes this
  from `split_request` to the answer.

For any connections, descriptors, input of main and peers, from
`ConnectionAssumption`:

* `ConnectionOwnDescriptor`, `ConnectionOwnAnswers`, `ConnectionOnlySealed`,
  `ConnectionOwnRequest`. `ConnectionInv` follows a descriptor from `accept` to `close`
  (every thread at work has one, and it is the only thread that has it), a buffer from
  `recv` to `fs_decrypt` (what is not garbage arrived once, and here unless the link
  broke), and a password from main's input to the table (the first line with a name).
* `ConnectionTypeCorrect`: `Spec => []TypeOK`: a header never outgrows its buffer, since
  it has room for one more byte as long as it is read (`Sized`); the text of the size
  fits `request_size` and the message the stack, on every header a thread comes to check:
  it is one a peer sent, up to its terminator, or the beginning of one that a failed
  `recv` has ended (`HeadersRead`), and `HeadersFit` assumes of those that they ask for no
  more. Without that assumption the code overruns both, and the theorem does not hold.
  What `stoul` returns is stored as an `unsigned int` (`NumberType`).

For any clients, users, threads and bounds, from the assumption of `Server`:

* `ServerTypes`, `ServerEffectOnce`, `ServerDoneTookEffect`, `ServerOrderKept`.
  `ServerInv` follows the requests in play, those of busy threads and those that stand
  in old buffers: each lies below its client's next sequence number (`Numbered`), so that
  a new call is none of them; once accepted it is not accepted again, since its
  session's last number is at least its own (`AcceptedOnce`); a handler works on
  one that has not taken effect and that no other handler has, and answers after the
  effect (`Handlers`); and only a call that returned 0 precedes another (`Preceded`). So
  when a call takes effect, all that precede it are in the log already. Nothing of this
  depends on how many calls a client has in flight.

Every property the passing runs check is a theorem, except liveness under fairness,
which is out of the prover's reach and left to TLC: `EveryRequestAnswered`,
`ThreadsEnd` and `ClientsHearBack`. No module has a recursive operator: what the code computes by recursion or
a loop is either a state machine here (`IndexScan`, `SplitRequest`, the walk) or a least
set, so that it can be proved about.

## What is not modelled

* The client library, encryption, the disk driver, `createfs` and `showfs` are
  binaries. Of the first two there is what the code relies on: the texts of requests
  and the order of calls, and that decryption needs the right password and size.
* Requests that the client library would not write (fewer arguments than each format
  has), and headers whose size text is longer than `INT_MAXDIGITS` or whose message does
  not fit the stack: the code reads such a header and its behaviour is undefined from
  there (`fs.cc:119`, `fs.cc:136`). `HeadersFit` states the exclusion.
* Memory: the answers' ciphertexts that are not
  freed (`filesystem.cc:589`). The listening socket's backlog, which delays connections.
* `print_debug` only prints.

## Plan

The system's own code is modelled and its safety is proved. Left to do, in this order:

1. Of the server's composition: that the handler's one instant, taken from
   `ImplementsNamespace`, and the calls of `Server` are one specification, so that the
   chain from a call to the disk is a theorem too.
2. The two runs that expect a violation: which assumption makes the promise true (a
   larger `SESSION_ID` after a restart, a block returned on every failure).
