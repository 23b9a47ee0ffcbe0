--------------------------- MODULE Filesystem_proofs ---------------------------
(***************************************************************************)
(* Proofs about Filesystem, in three rounds of which each uses the one      *)
(* before: the types, what each thread's locks are, and IInv.  TypeOK is    *)
(* not inductive: a block taken from an empty free list, an entry outside   *)
(* its directory or the last component of an empty path would have no type. *)
(* StepShape says why none of it occurs.                                    *)
(*                                                                         *)
(* A fourth round is about FilesystemRefinement: each thread is where its   *)
(* path leads, and the file server implements Namespace.  Each action is    *)
(* shown to be an action of Namespace or invisible in it, and to keep the   *)
(* thread that takes it in its place; the other threads keep theirs because *)
(* no step moves an inode that stays in the tree.                           *)
(***************************************************************************)
EXTENDS FilesystemRefinement, DiskLayout_proofs

-----------------------------------------------------------------------------
(* Each action preserves TypeInv. *)

OthersUnchanged(t) ==
  \A u \in Threads \ {t} :
    pc'[u] = pc[u] /\ req'[u] = req[u] /\ args'[u] = args[u] /\ frame'[u] = frame[u]

(* A step of one thread leaves what the others know as it was. *)
LEMMA ShapeOfOthers ==
  ASSUME TypeInv, NEW t \in Threads, OthersUnchanged(t), StepShape(t)'
  PROVE  \A u \in Threads : StepShape(u)'
  BY DEF TypeInv, OthersUnchanged, StepShape

(* Locking and unlocking keep the types of the locks. *)
LEMMA LockTypes ==
  ASSUME TypeOK, NEW t \in Threads, NEW b,
         RdLock(t, b) \/ WrLock(t, b) \/ Unlock(t, b) \/ UNCHANGED locks
  PROVE  rdlock' \in [Blocks -> SUBSET Threads] /\ wrlock' \in [Blocks -> SUBSET Threads]
  BY DEF TypeOK, RdLock, WrLock, Unlock, locks

(* A step moves its own thread only. *)
LEMMA GotoType ==
  ASSUME TypeOK, NEW t \in Threads, NEW from, NEW to \in Steps, Goto(t, from, to)
  PROVE  /\ pc' \in [Threads -> Steps]
         /\ pc[t] = from /\ pc'[t] = to
         /\ \A u \in Threads \ {t} : pc'[u] = pc[u]
  BY DEF TypeOK, Goto

(* The locals of a thread without a request have their types. *)
LEMMA NoFrameType == NoArgs \in Args /\ NoFrame \in Frame
<1>1. NewInode("f", NoUser) \in Inode
  BY NewInodeType
<1> QED
  BY <1>1, BlocksFacts, EmptyFoldersType, LayoutAssumption DEF NoArgs, NoFrame, Args, Frame

(* So they have when a handler returns. *)
LEMMA ReturnTypes ==
  ASSUME TypeOK, NEW t \in Threads, NEW from, NEW ret \in {"none", "ok", "fail"},
         NEW buf \in Data, Return(t, from, ret, buf)
  PROVE  /\ pc' \in [Threads -> Steps] /\ args' \in [Threads -> Args]
         /\ frame' \in [Threads -> Frame]
         /\ pc[t] = from /\ pc'[t] = "reply" /\ args'[t] = NoArgs
         /\ \A u \in Threads \ {t} : pc'[u] = pc[u] /\ args'[u] = args[u] /\ frame'[u] = frame[u]
<1>1. [NoFrame EXCEPT !.ret = ret, !.buf = buf] \in Frame
  BY NoFrameType DEF Frame
<1> QED
  BY <1>1, NoFrameType DEF TypeOK, Return, Goto, Steps

(* Deciding the outcome changes no type. *)
LEMMA DecideType ==
  ASSUME TypeOK, NEW t \in Threads, NEW ret \in {"none", "ok", "fail"}, Decide(t, ret)
  PROVE  frame' \in [Threads -> Frame]
  BY DEF TypeOK, Decide, Frame

(* A disk write keeps the disk's type. *)
LEMMA WriteType ==
  ASSUME TypeOK, NEW b, NEW content \in Content, Write(b, content)
  PROVE  disk' \in [Blocks -> Content]
  BY DEF TypeOK, Write

(* The types of one thread's variables. *)
LEMMA ThreadTypes ==
  ASSUME TypeOK, NEW t \in Threads
  PROVE  pc[t] \in Steps /\ req[t] \in Request /\ args[t] \in Args /\ frame[t] \in Frame
  BY DEF TypeOK

(* The constructor's loop. *)
LEMMA BootStep ==
  ASSUME TypeInv, Boot
  PROVE  TypeInv'
<1> USE DEF TypeInv
<1>1. boot \in Blocks /\ boot' \in 0 .. FS_DISKSIZE
  BY LayoutAssumption DEF TypeOK, Boot, Blocks
<1>2. free_blocks' \in Seq(Blocks)
  BY <1>1 DEF TypeOK, Boot
<1>3. TypeOK'
  BY <1>1, <1>2 DEF TypeOK, Boot, locks
<1> QED
  BY <1>3 DEF Boot, StepShape

(* The process dies. *)
LEMMA CrashStep ==
  ASSUME TypeInv, Crash
  PROVE  TypeInv'
<1> USE DEF TypeInv
<1>1. NoRequest \in Request
  BY LayoutAssumption DEF NoRequest, Request, FileTypes
<1>2. crashes' \in 0 .. MaxCrashes /\ boot' \in 0 .. FS_DISKSIZE
  BY LayoutAssumption, ServerAssumption DEF TypeOK, Crash
<1>3. TypeOK'
  BY <1>1, <1>2, NoFrameType DEF TypeOK, Crash, Steps
<1> QED
  BY <1>3 DEF Crash, StepShape, OutOfWalk, Created, Found, NoArgs

(* main accepts. *)
LEMMA AcceptStep ==
  ASSUME TypeInv, NEW t \in Threads, Accept(t)
  PROVE  TypeInv'
<1> USE DEF TypeInv
<1>1. /\ pc' \in [Threads -> Steps]
      /\ pc[t] = "idle" /\ pc'[t] = "begin"
      /\ \A u \in Threads \ {t} : pc'[u] = pc[u]
  BY GotoType DEF Accept, Steps
<1>2. /\ req' \in [Threads -> Request]
      /\ \A u \in Threads \ {t} : req'[u] = req[u]
  BY ServerAssumption DEF Accept, TypeOK
<1>3. accepted' \in 0 .. MaxRequests
  BY ServerAssumption DEF Accept, TypeOK
<1>4. TypeOK'
  BY <1>1, <1>2, <1>3 DEF TypeOK, Accept, locks
<1>5. StepShape(t)'
  BY <1>1 DEF StepShape, Accept, OutOfWalk, Created, Found
<1> QED
  BY <1>1, <1>2, <1>4, <1>5, ShapeOfOthers DEF OthersUnchanged, TypeOK, Decide, Return, Accept

(* The connection is closed. *)
LEMMA ReplyStep ==
  ASSUME TypeInv, NEW t \in Threads, Reply(t)
  PROVE  TypeInv'
<1> USE DEF TypeInv
<1>1. /\ pc' \in [Threads -> Steps]
      /\ pc[t] = "reply" /\ pc'[t] = "idle"
      /\ \A u \in Threads \ {t} : pc'[u] = pc[u]
  BY GotoType DEF Reply, Steps
<1>2. NoRequest \in Request
  BY LayoutAssumption DEF NoRequest, Request, FileTypes
<1>3. /\ req' \in [Threads -> Request]
      /\ \A u \in Threads \ {t} : req'[u] = req[u]
      /\ frame' \in [Threads -> Frame]
  BY <1>2, NoFrameType DEF Reply, TypeOK
<1>4. TypeOK'
  BY <1>1, <1>3 DEF TypeOK, Reply, locks, server
<1>5. StepShape(t)'
  BY <1>1 DEF StepShape, Reply, OutOfWalk, Created, Found
<1> QED
  BY <1>1, <1>3, <1>4, <1>5, ShapeOfOthers DEF OthersUnchanged, TypeOK, Decide, Return, Reply

(* create_entry reserves a block only from a list that has one. *)
LEMMA BeginCreateStep ==
  ASSUME TypeInv, NEW t \in Threads, BeginCreate(t)
  PROVE  TypeInv'
<1> USE DEF TypeInv
<1>1. CASE req[t].type \notin {"f", "d"} \/ free_blocks = << >>
  <2>1. Return(t, "begin", "fail", Zero) /\ UNCHANGED free_blocks
    BY <1>1 DEF BeginCreate
  <2>2. /\ pc' \in [Threads -> Steps] /\ args' \in [Threads -> Args]
        /\ frame' \in [Threads -> Frame]
        /\ pc'[t] = "reply" /\ args'[t] = NoArgs
        /\ \A u \in Threads \ {t} : pc'[u] = pc[u] /\ args'[u] = args[u]
    BY <2>1, ReturnTypes, LayoutAssumption
  <2>3. TypeOK'
    BY <2>1, <2>2 DEF TypeOK, BeginCreate, locks, server
  <2>4. StepShape(t)'
    BY <2>2 DEF StepShape, OutOfWalk, Created, Found, NoArgs
  <2> QED
    BY <2>2, <2>3, <2>4, ShapeOfOthers DEF OthersUnchanged, TypeOK, Decide, Return, BeginCreate
<1>2. CASE ~(req[t].type \notin {"f", "d"} \/ free_blocks = << >>)
  <2>1. /\ pc' \in [Threads -> Steps]
        /\ pc'[t] = "lock_root"
        /\ \A u \in Threads \ {t} : pc'[u] = pc[u]
    BY <1>2, GotoType DEF BeginCreate, Steps
  <2>2. Head(free_blocks) \in Blocks /\ Tail(free_blocks) \in Seq(Blocks)
    BY <1>2 DEF TypeOK
  <2>3. free_blocks' \in Seq(Blocks) /\ frame' \in [Threads -> Frame]
    <3>1. free_blocks' = Tail(free_blocks)
      BY <1>2 DEF BeginCreate
    <3>2. frame' = [frame EXCEPT ![t].new_block = Head(free_blocks)]
      BY <1>2 DEF BeginCreate
    <3>3. frame' \in [Threads -> Frame]
      BY <2>2, <3>2 DEF TypeOK, Frame
    <3> QED
      BY <2>2, <3>1, <3>3
  <2>4. TypeOK'
    BY <1>2, <2>1, <2>3 DEF TypeOK, BeginCreate, locks, server
  <2>5. StepShape(t)'
    BY <1>2, <2>1 DEF StepShape, BeginCreate, OutOfWalk, Created, Found
  <2> QED
    BY <1>2, <2>1, <2>4, <2>5, ShapeOfOthers DEF OthersUnchanged, TypeOK, Decide, Return, BeginCreate
<1> QED
  BY <1>1, <1>2

(* delete_entry begins. *)
LEMMA BeginDeleteStep ==
  ASSUME TypeInv, NEW t \in Threads, BeginDelete(t)
  PROVE  TypeInv'
<1> USE DEF TypeInv
<1>1. /\ pc' \in [Threads -> Steps]
      /\ pc[t] = "begin" /\ pc'[t] = "lock_root"
      /\ \A u \in Threads \ {t} : pc'[u] = pc[u]
  BY GotoType DEF BeginDelete, Steps
<1>2. TypeOK'
  BY <1>1 DEF TypeOK, BeginDelete, locks, server
<1>3. StepShape(t)'
  BY <1>1 DEF StepShape, BeginDelete, OutOfWalk, Created, Found
<1> QED
  BY <1>1, <1>2, <1>3, ShapeOfOthers DEF OthersUnchanged, TypeOK, Decide, Return, BeginDelete

(* access_entry begins. *)
LEMMA BeginAccessStep ==
  ASSUME TypeInv, NEW t \in Threads, BeginAccess(t)
  PROVE  TypeInv'
<1> USE DEF TypeInv
<1>1. /\ pc' \in [Threads -> Steps] /\ args' \in [Threads -> Args]
      /\ frame' \in [Threads -> Frame]
      /\ pc[t] = "begin" /\ pc'[t] \in {"reply", "lock_root"}
      /\ args'[t] \in {NoArgs, args[t]}
      /\ \A u \in Threads \ {t} : pc'[u] = pc[u] /\ args'[u] = args[u]
  <2>1. CASE req[t].block >= FS_MAXFILEBLOCKS
    BY <2>1, ReturnTypes, LayoutAssumption DEF BeginAccess
  <2>2. CASE ~(req[t].block >= FS_MAXFILEBLOCKS)
    BY <2>2, GotoType DEF BeginAccess, TypeOK, Steps
  <2> QED
    BY <2>1, <2>2
<1>2. TypeOK'
  BY <1>1 DEF TypeOK, BeginAccess, locks, server
<1>3. StepShape(t)'
  BY <1>1 DEF StepShape, BeginAccess, OutOfWalk, Created, Found, NoArgs
<1> QED
  BY <1>1, <1>2, <1>3, ShapeOfOthers DEF OthersUnchanged, TypeOK, Decide, Return, BeginAccess

(* The walk goes on only if the path has a component. *)
LEMMA LockRootStep ==
  ASSUME TypeInv, NEW t \in Threads, LockRoot(t)
  PROVE  TypeInv'
<1> USE DEF TypeInv
<1>1. /\ pc' \in [Threads -> Steps]
      /\ pc[t] = "lock_root"
      /\ pc'[t] = IF req[t].path = << >> THEN "unlock_parent" ELSE "search"
      /\ \A u \in Threads \ {t} : pc'[u] = pc[u]
  BY GotoType DEF LockRoot, Steps
<1>2. rdlock' \in [Blocks -> SUBSET Threads] /\ wrlock' \in [Blocks -> SUBSET Threads]
  BY LockTypes DEF LockRoot, LockForWalk
<1>3. frame' \in [Threads -> Frame]
  <2>1. frame[t].ret \in {"none", "ok", "fail"}
    BY ThreadTypes DEF Frame
  <2> QED
    BY <2>1, DecideType DEF LockRoot
<1>4. TypeOK'
  BY <1>1, <1>2, <1>3 DEF TypeOK, LockRoot, server
<1>5. StepShape(t)'
  BY <1>1 DEF StepShape, LockRoot, OutOfWalk, Created, Found
<1> QED
  BY <1>1, <1>4, <1>5, ShapeOfOthers DEF OthersUnchanged, TypeOK, Decide, Return, LockRoot

(* A lookup that leads to the next directory or to the entry's own inode    *)
(* has found the entry.                                                     *)
LEMMA AfterSearchFound ==
  ASSUME NEW r, NEW i, NEW found \in BOOLEAN,
         AfterSearch(r, i, found) \in Found
  PROVE  found
  BY DEF AfterSearch, WantsEntry, Found

(* The walk goes on to one of the steps. *)
LEMMA AfterSearchType ==
  ASSUME NEW r, NEW i, NEW found
  PROVE  /\ AfterSearch(r, i, found) \in {"lock_next", "unlock_parent", "grow", "lock_target"}
         /\ AfterSearch(r, i, found) = "grow" => r.op = "create"
  BY DEF AfterSearch

(* One component is looked up. *)
LEMMA SearchStep ==
  ASSUME TypeInv, NEW t \in Threads, Search(t)
  PROVE  TypeInv'
<1> USE DEF TypeInv
<1> DEFINE node == AsInode(disk[args[t].disk_block])
<1>1. args[t] \in Args /\ req[t] \in Request /\ frame[t] \in Frame /\ pc[t] = "search"
  BY ThreadTypes DEF Search
<1>2. node \in Inode
  BY <1>1, ReadTypes DEF TypeOK, Args
<1>3. /\ pc' \in [Threads -> Steps] /\ args' \in [Threads -> Args]
      /\ pc'[t] \in {"lock_next", "unlock_parent", "grow", "lock_target"}
      /\ pc'[t] = "grow" => req[t].op = "create"
      /\ pc'[t] \in Found => args'[t].blocks_index \in 1 .. Len(args'[t].inode.blocks)
      /\ \A u \in Threads \ {t} : pc'[u] = pc[u] /\ args'[u] = args[u]
  <2>1. CASE MayEnter(node, req[t].user)
    <3>1. PICK s \in SearchDirectory(disk, node, req[t].path[frame[t].path_index]) :
            /\ args' = [args EXCEPT ![t] =
                          [@ EXCEPT !.inode = node, !.blocks_index = s.blocks_index,
                                    !.folder_index = s.folder_index, !.folders = s.folders]]
            /\ Goto(t, "search", AfterSearch(req[t], frame[t].path_index, s.found))
      BY <2>1 DEF Search
    <3>2. /\ s.found \in BOOLEAN /\ s.blocks_index \in Nat
          /\ s.folder_index \in 1 .. FS_DIRENTRIES /\ s.folders \in Folders
          /\ s.found => s.blocks_index \in 1 .. Len(node.blocks)
      BY <1>2, SearchDirectoryType DEF TypeOK
    <3> HIDE DEF node
    <3>3. args' \in [Threads -> Args] /\ \A u \in Threads \ {t} : args'[u] = args[u]
      BY <1>1, <1>2, <3>1, <3>2 DEF TypeOK, Args
    <3>4. args'[t].blocks_index = s.blocks_index /\ args'[t].inode = node
      BY <1>1, <3>1 DEF TypeOK, Args
    <3>5. /\ pc' \in [Threads -> Steps]
          /\ pc'[t] = AfterSearch(req[t], frame[t].path_index, s.found)
          /\ \A u \in Threads \ {t} : pc'[u] = pc[u]
      <4>1. AfterSearch(req[t], frame[t].path_index, s.found) \in Steps
        BY AfterSearchType DEF Steps
      <4> QED
        BY <3>1, <4>1, GotoType
    <3> QED
      BY <3>2, <3>3, <3>4, <3>5, AfterSearchType, AfterSearchFound
  <2>2. CASE ~MayEnter(node, req[t].user)
    <3>1. args' = [args EXCEPT ![t].inode = node] /\ Goto(t, "search", "unlock_parent")
      BY <2>2 DEF Search
    <3> HIDE DEF node
    <3>2. args' \in [Threads -> Args] /\ \A u \in Threads \ {t} : args'[u] = args[u]
      BY <1>1, <1>2, <3>1 DEF TypeOK, Args
    <3>3. /\ pc' \in [Threads -> Steps] /\ pc'[t] = "unlock_parent"
          /\ \A u \in Threads \ {t} : pc'[u] = pc[u]
      BY <3>1, GotoType DEF Steps
    <3> QED
      BY <3>2, <3>3 DEF Found
  <2> QED
    BY <2>1, <2>2
<1>4. frame' \in [Threads -> Frame]
  BY DecideType DEF Search, TypeOK
<1>5. TypeOK'
  BY <1>3, <1>4 DEF TypeOK, Search, locks, server
<1>6. StepShape(t)'
  BY <1>1, <1>3 DEF StepShape, Search, OutOfWalk, Created, Found
<1> QED
  BY <1>3, <1>5, <1>6, ShapeOfOthers DEF OthersUnchanged, TypeOK, Decide, Return, Search

(* The entry the walk has found is an entry. *)
LEMMA EntryType ==
  ASSUME TypeOK, NEW t \in Threads
  PROVE  Entry(t).inode_block \in Blocks
<1>1. args[t].folders \in Folders /\ args[t].folder_index \in 1 .. FS_DIRENTRIES
  BY ThreadTypes DEF Args
<1> QED
  BY <1>1 DEF Entry, Folders, Direntry

(* The next directory is locked. *)
LEMMA LockNextStep ==
  ASSUME TypeInv, NEW t \in Threads, LockNext(t)
  PROVE  TypeInv'
<1> USE DEF TypeInv
<1>1. /\ pc' \in [Threads -> Steps]
      /\ pc[t] = "lock_next" /\ pc'[t] = "unlock_last"
      /\ \A u \in Threads \ {t} : pc'[u] = pc[u]
  BY GotoType DEF LockNext, Steps
<1>2. rdlock' \in [Blocks -> SUBSET Threads] /\ wrlock' \in [Blocks -> SUBSET Threads]
  BY LockTypes DEF LockNext, LockForWalk
<1>3. /\ args' \in [Threads -> Args]
      /\ \A u \in Threads \ {t} : args'[u] = args[u]
  BY EntryType DEF TypeOK, LockNext, Args
<1>4. frame' \in [Threads -> Frame]
  <2>1. args[t].disk_block \in Blocks /\ frame[t] \in Frame
    BY ThreadTypes DEF Args
  <2>2. frame[t].path_index + 1 \in Nat
    BY <2>1 DEF Frame
  <2> QED
    BY <2>1, <2>2 DEF TypeOK, LockNext, Frame
<1>5. TypeOK'
  BY <1>1, <1>2, <1>3, <1>4 DEF TypeOK, LockNext, server
<1>6. StepShape(t)'
  BY <1>1 DEF StepShape, LockNext, OutOfWalk, Created, Found
<1> QED
  BY <1>1, <1>3, <1>5, <1>6, ShapeOfOthers DEF OthersUnchanged, TypeOK, Decide, Return, LockNext

(* The last one is unlocked. *)
LEMMA UnlockLastStep ==
  ASSUME TypeInv, NEW t \in Threads, UnlockLast(t)
  PROVE  TypeInv'
<1> USE DEF TypeInv
<1>1. /\ pc' \in [Threads -> Steps]
      /\ pc[t] = "unlock_last" /\ pc'[t] = "search"
      /\ \A u \in Threads \ {t} : pc'[u] = pc[u]
  BY GotoType DEF UnlockLast, Steps
<1>2. rdlock' \in [Blocks -> SUBSET Threads] /\ wrlock' \in [Blocks -> SUBSET Threads]
  BY LockTypes DEF UnlockLast
<1>3. frame' \in [Threads -> Frame]
  BY BlocksFacts DEF TypeOK, UnlockLast, Frame
<1>4. TypeOK'
  BY <1>1, <1>2, <1>3 DEF TypeOK, UnlockLast, server
<1>5. StepShape(t)'
  BY <1>1 DEF StepShape, UnlockLast, OutOfWalk, Created, Found
<1> QED
  BY <1>1, <1>4, <1>5, ShapeOfOthers DEF OthersUnchanged, TypeOK, Decide, Return, UnlockLast

(* The walk or the handler ends. *)
LEMMA UnlockParentStep ==
  ASSUME TypeInv, NEW t \in Threads, UnlockParent(t)
  PROVE  TypeInv'
<1> USE DEF TypeInv
<1>1. /\ pc' \in [Threads -> Steps] /\ args' \in [Threads -> Args]
      /\ frame' \in [Threads -> Frame]
      /\ pc'[t] = "reply" /\ args'[t] = NoArgs
      /\ \A u \in Threads \ {t} : pc'[u] = pc[u] /\ args'[u] = args[u]
  <2>1. frame[t].ret \in {"none", "ok", "fail"}
    BY ThreadTypes DEF Frame
  <2> QED
    BY <2>1, ReturnTypes, LayoutAssumption DEF UnlockParent
<1>2. rdlock' \in [Blocks -> SUBSET Threads] /\ wrlock' \in [Blocks -> SUBSET Threads]
  BY LockTypes DEF UnlockParent
<1>3. TypeOK'
  BY <1>1, <1>2 DEF TypeOK, UnlockParent, server
<1>4. StepShape(t)'
  BY <1>1 DEF StepShape, OutOfWalk, Created, Found, NoArgs
<1> QED
  BY <1>1, <1>3, <1>4, ShapeOfOthers DEF OthersUnchanged, TypeOK, Decide, Return, UnlockParent

-----------------------------------------------------------------------------
(* create_entry *)

(* An unused entry is taken. *)
LEMMA ReuseFolderStep ==
  ASSUME TypeInv, NEW t \in Threads, ReuseFolder(t)
  PROVE  TypeInv'
<1> USE DEF TypeInv
<1>1. /\ pc' \in [Threads -> Steps]
      /\ pc[t] = "grow" /\ pc'[t] = "write_inode"
      /\ \A u \in Threads \ {t} : pc'[u] = pc[u]
  BY GotoType DEF ReuseFolder, Steps
<1>2. TypeOK'
  BY <1>1 DEF TypeOK, ReuseFolder, locks, server
<1>3. StepShape(t)'
  BY <1>1 DEF StepShape, ReuseFolder, OutOfWalk, Created, Found
<1> QED
  BY <1>1, <1>2, <1>3, ShapeOfOthers DEF OthersUnchanged, TypeOK, Decide, Return, ReuseFolder

(* The directory cannot grow. *)
LEMMA CannotGrowStep ==
  ASSUME TypeInv, NEW t \in Threads, CannotGrow(t)
  PROVE  TypeInv'
<1> USE DEF TypeInv
<1>1. /\ pc' \in [Threads -> Steps]
      /\ pc[t] = "grow" /\ pc'[t] = "unlock_parent"
      /\ \A u \in Threads \ {t} : pc'[u] = pc[u]
  BY GotoType DEF CannotGrow, Steps
<1>2. free_blocks' \in Seq(Blocks)
  BY ThreadTypes DEF TypeOK, CannotGrow, Frame
<1>3. frame' \in [Threads -> Frame]
  BY DecideType DEF CannotGrow
<1>4. TypeOK'
  BY <1>1, <1>2, <1>3 DEF TypeOK, CannotGrow, locks, server
<1>5. StepShape(t)'
  BY <1>1 DEF StepShape, CannotGrow, OutOfWalk, Created, Found
<1> QED
  BY <1>1, <1>4, <1>5, ShapeOfOthers DEF OthersUnchanged, TypeOK, Decide, Return, CannotGrow

(* It grows: there is a free block, and room for it in blocks[]. *)
LEMMA GrowDirectoryStep ==
  ASSUME TypeInv, NEW t \in Threads, GrowDirectory(t)
  PROVE  TypeInv'
<1> USE DEF TypeInv
<1>1. /\ pc' \in [Threads -> Steps]
      /\ pc[t] = "grow" /\ pc'[t] = "write_inode"
      /\ \A u \in Threads \ {t} : pc'[u] = pc[u]
  BY GotoType DEF GrowDirectory, Steps
<1>2. Head(free_blocks) \in Blocks /\ Tail(free_blocks) \in Seq(Blocks)
  BY DEF TypeOK, GrowDirectory, NoRoomFor
<1>3. args[t] \in Args /\ args[t].inode \in Inode /\ args[t].inode.blocks \in BlockList
  BY ThreadTypes DEF Args, Inode
<1>4. Append(args[t].inode.blocks, Head(free_blocks)) \in BlockList
  <2>1. Len(args[t].inode.blocks) < FS_MAXFILEBLOCKS
    BY <1>3, LayoutAssumption DEF GrowDirectory, NoRoomFor, BlockList
  <2> QED
    BY <1>2, <1>3, <2>1, BlockListAppend
<1>5. /\ args' \in [Threads -> Args]
      /\ \A u \in Threads \ {t} : args'[u] = args[u]
  <2> DEFINE grown  == [args[t].inode EXCEPT !.blocks = Append(@, Head(free_blocks))]
             result == [args[t] EXCEPT !.inode = grown, !.folders = EmptyFolders]
  <2>1. grown \in Inode
    BY <1>3, <1>4 DEF Inode
  <2>2. args' = [args EXCEPT ![t] = result]
    BY <1>3 DEF TypeOK, GrowDirectory, Args, Inode
  <2> HIDE DEF grown
  <2>3. result \in Args
    BY <1>3, <2>1, EmptyFoldersType DEF Args
  <2> QED
    BY <2>2, <2>3 DEF TypeOK
<1>6. frame' \in [Threads -> Frame]
  BY DEF TypeOK, GrowDirectory, Frame
<1>7. free_blocks' \in Seq(Blocks)
  BY <1>2 DEF GrowDirectory
<1>8. TypeOK'
  BY <1>1, <1>5, <1>6, <1>7 DEF TypeOK, GrowDirectory, locks, server
<1>9. StepShape(t)'
  BY <1>1 DEF StepShape, GrowDirectory, OutOfWalk, Created, Found
<1> QED
  BY <1>1, <1>5, <1>8, <1>9, ShapeOfOthers DEF OthersUnchanged, TypeOK, Decide, Return, GrowDirectory

(* The new inode is written; the type asked for is one of the two. *)
LEMMA WriteNewInodeStep ==
  ASSUME TypeInv, NEW t \in Threads, WriteNewInode(t)
  PROVE  TypeInv'
<1> USE DEF TypeInv
<1>1. InodeBlock(NewInode(req[t].type, req[t].user)) \in Content
  <2>1. req[t] \in Request /\ req[t].type \in {"f", "d"}
    BY DEF TypeOK, WriteNewInode, Goto, StepShape, Created
  <2>2. NewInode(req[t].type, req[t].user) \in Inode
    BY <2>1, NewInodeType DEF Request
  <2> QED
    BY <2>2 DEF InodeBlock, Content
<1>2. disk' \in [Blocks -> Content]
  BY <1>1, WriteType DEF WriteNewInode
<1>3. /\ pc' \in [Threads -> Steps]
      /\ pc[t] = "write_inode" /\ pc'[t] = "write_folder"
      /\ \A u \in Threads \ {t} : pc'[u] = pc[u]
  BY GotoType DEF WriteNewInode, Steps
<1>4. TypeOK'
  BY <1>2, <1>3 DEF TypeOK, WriteNewInode, locks, server
<1>5. StepShape(t)'
  BY <1>3 DEF StepShape, WriteNewInode, OutOfWalk, Created, Found
<1> QED
  BY <1>3, <1>4, <1>5, ShapeOfOthers DEF OthersUnchanged, TypeOK, Decide, Return, WriteNewInode

(* The block of entries is written; the path has a last component. *)
LEMMA WriteFolderStep ==
  ASSUME TypeInv, NEW t \in Threads, WriteFolder(t)
  PROVE  TypeInv'
<1> USE DEF TypeInv
<1> DEFINE folders == [args[t].folders EXCEPT ![args[t].folder_index] = NewDirentry(t)]
<1>1. /\ pc' \in [Threads -> Steps]
      /\ pc[t] = "write_folder" /\ pc'[t] \in {"write_parent", "unlock_parent"}
      /\ \A u \in Threads \ {t} : pc'[u] = pc[u]
  BY GotoType DEF WriteFolder, Steps
<1>2. NewDirentry(t) \in Direntry
  <2>1. req[t].path \in Seq(Names) /\ req[t].path # << >>
    BY <1>1, ThreadTypes DEF StepShape, OutOfWalk, Request
  <2>2. Last(req[t].path) \in Names
    BY <2>1 DEF Last
  <2> QED
    BY <2>2, ThreadTypes DEF NewDirentry, Direntry, Frame
<1>3. FolderBlock(folders) \in Content
  <2>1. folders \in Folders
    BY <1>2, ThreadTypes DEF Args, Folders
  <2> QED
    BY <2>1 DEF FolderBlock, Content
<1>4. disk' \in [Blocks -> Content]
  BY <1>3, WriteType DEF WriteFolder
<1>5. frame' \in [Threads -> Frame]
  <2>1. frame[t].ret \in {"none", "ok", "fail"}
    BY ThreadTypes DEF Frame
  <2> QED
    BY <2>1, DecideType DEF WriteFolder
<1>6. TypeOK'
  BY <1>1, <1>4, <1>5 DEF TypeOK, WriteFolder, locks, server
<1>7. StepShape(t)'
  BY <1>1 DEF StepShape, WriteFolder, OutOfWalk, Created, Found
<1> QED
  BY <1>1, <1>6, <1>7, ShapeOfOthers DEF OthersUnchanged, TypeOK, Decide, Return, WriteFolder

(* The directory's inode is written. *)
LEMMA WriteParentStep ==
  ASSUME TypeInv, NEW t \in Threads, WriteParent(t)
  PROVE  TypeInv'
<1> USE DEF TypeInv
<1>1. /\ pc' \in [Threads -> Steps]
      /\ pc[t] = "write_parent" /\ pc'[t] = "unlock_parent"
      /\ \A u \in Threads \ {t} : pc'[u] = pc[u]
  BY GotoType DEF WriteParent, Steps
<1>2. InodeBlock(args[t].inode) \in Content
  BY ThreadTypes DEF Args, InodeBlock, Content
<1>3. disk' \in [Blocks -> Content]
  BY <1>2, WriteType DEF WriteParent
<1>4. frame' \in [Threads -> Frame]
  BY DecideType DEF WriteParent
<1>5. TypeOK'
  BY <1>1, <1>3, <1>4 DEF TypeOK, WriteParent, locks, server
<1>6. StepShape(t)'
  BY <1>1 DEF StepShape, WriteParent, OutOfWalk, Created, Found
<1> QED
  BY <1>1, <1>5, <1>6, ShapeOfOthers DEF OthersUnchanged, TypeOK, Decide, Return, WriteParent

-----------------------------------------------------------------------------
(* delete_entry *)

(* The entry's inode is locked. *)
LEMMA LockTargetStep ==
  ASSUME TypeInv, NEW t \in Threads, LockTarget(t)
  PROVE  TypeInv'
<1> USE DEF TypeInv
<1>1. /\ pc' \in [Threads -> Steps]
      /\ pc[t] = "lock_target"
      /\ pc'[t] = IF req[t].op = "delete" THEN "check_delete" ELSE "unlock_dir"
      /\ \A u \in Threads \ {t} : pc'[u] = pc[u]
  BY GotoType DEF LockTarget, Steps
<1>2. rdlock' \in [Blocks -> SUBSET Threads] /\ wrlock' \in [Blocks -> SUBSET Threads]
  BY LockTypes DEF LockTarget
<1>3. frame' \in [Threads -> Frame]
  BY EntryType DEF TypeOK, LockTarget, Frame
<1>4. TypeOK'
  BY <1>1, <1>2, <1>3 DEF TypeOK, LockTarget, server
<1>5. StepShape(t)'
  BY <1>1 DEF StepShape, LockTarget, OutOfWalk, Created, Found
<1> QED
  BY <1>1, <1>4, <1>5, ShapeOfOthers DEF OthersUnchanged, TypeOK, Decide, Return, LockTarget

(* It is read and checked. *)
LEMMA CheckDeleteStep ==
  ASSUME TypeInv, NEW t \in Threads, CheckDelete(t)
  PROVE  TypeInv'
<1> USE DEF TypeInv
<1>1. /\ pc' \in [Threads -> Steps]
      /\ pc[t] = "check_delete" /\ pc'[t] \in {"remove", "unlock_target"}
      /\ \A u \in Threads \ {t} : pc'[u] = pc[u]
  BY GotoType DEF CheckDelete, Steps
<1>2. AsInode(disk[frame[t].target]) \in Inode
  BY ThreadTypes, ReadTypes DEF TypeOK, Frame
<1>3. frame' \in [Threads -> Frame]
  BY <1>2, ZenonT(40) DEF TypeOK, CheckDelete, Frame
<1>4. TypeOK'
  BY <1>1, <1>3 DEF TypeOK, CheckDelete, locks, server
<1>5. StepShape(t)'
  BY <1>1 DEF StepShape, CheckDelete, OutOfWalk, Created, Found
<1> QED
  BY <1>1, <1>4, <1>5, ShapeOfOthers DEF OthersUnchanged, TypeOK, Decide, Return, CheckDelete

(* The blocks of a deleted entry are blocks. *)
LEMMA BlocksToFreeType ==
  ASSUME NEW file \in Inode, NEW target \in Blocks
  PROVE  BlocksToFree(file, target) \in Seq(Blocks)
<1>1. file.blocks \in Seq(Blocks) /\ << >> \in Seq(Blocks) /\ <<target>> \in Seq(Blocks)
  BY DEF Inode, BlockList
<1> QED
  BY <1>1, ConcatProperties DEF BlocksToFree

(* A thread may note them for release. *)
LEMMA ToFreeType ==
  ASSUME NEW f \in Frame, NEW s \in Seq(Blocks)
  PROVE  [f EXCEPT !.to_free = s] \in Frame /\ [f EXCEPT !.to_free = s, !.ret = "ok"] \in Frame
  BY DEF Frame

(* The entry is removed; its block is one of the directory's. *)
LEMMA RemoveEntryStep ==
  ASSUME TypeInv, NEW t \in Threads, RemoveEntry(t)
  PROVE  TypeInv'
<1> USE DEF TypeInv
<1> DEFINE dir     == args[t]
           folders == [dir.folders EXCEPT ![dir.folder_index] = Unused]
           block   == dir.inode.blocks[dir.blocks_index]
           parent  == [dir.inode EXCEPT !.blocks = RemoveAt(@, dir.blocks_index)]
           freed   == BlocksToFree(frame[t].file, frame[t].target)
<1>1. /\ pc' \in [Threads -> Steps]
      /\ pc[t] = "remove" /\ pc'[t] = "release"
      /\ \A u \in Threads \ {t} : pc'[u] = pc[u]
  BY GotoType DEF RemoveEntry, Steps
<1>2. dir \in Args /\ dir.inode \in Inode /\ dir.inode.blocks \in BlockList
      /\ frame[t].file \in Inode /\ frame[t].target \in Blocks
  BY ThreadTypes DEF Args, Inode, Frame
<1>3. dir.blocks_index \in 1 .. Len(dir.inode.blocks)
  BY <1>1 DEF StepShape, Found
<1>4. FolderBlock(folders) \in Content
  <2>1. Unused \in Direntry
    BY BlocksFacts DEF Unused, Direntry
  <2>2. folders \in Folders
    BY <1>2, <2>1 DEF Args, Folders
  <2> QED
    BY <2>2 DEF FolderBlock, Content
<1>5. InodeBlock(parent) \in Content
  <2>1. RemoveAt(dir.inode.blocks, dir.blocks_index) \in BlockList
    BY <1>2, <1>3, BlockListRemoveAt
  <2>2. parent \in Inode
    BY <1>2, <2>1 DEF Inode
  <2> QED
    BY <2>2 DEF InodeBlock, Content
<1>6. freed \in Seq(Blocks) /\ Append(freed, block) \in Seq(Blocks)
  <2>1. freed \in Seq(Blocks)
    BY <1>2, BlocksToFreeType
  <2>2. block \in Blocks
    BY <1>2, <1>3, BlockListBlocks
  <2> HIDE DEF freed, block
  <2> QED
    BY <2>1, <2>2
<1>7. \/ Write(dir.disk_block, InodeBlock(parent))
         /\ frame' = [frame EXCEPT ![t] = [@ EXCEPT !.to_free = Append(freed, block), !.ret = "ok"]]
      \/ Write(block, FolderBlock(folders))
         /\ frame' = [frame EXCEPT ![t] = [@ EXCEPT !.to_free = freed, !.ret = "ok"]]
  BY DEF RemoveEntry
<1> HIDE DEF dir, folders, block, parent, freed
<1>8. disk' \in [Blocks -> Content]
  BY <1>4, <1>5, <1>7, WriteType
<1>9. frame' \in [Threads -> Frame]
  <2>1. frame \in [Threads -> Frame] /\ frame[t] \in Frame
    BY DEF TypeOK
  <2>2. /\ [frame[t] EXCEPT !.to_free = Append(freed, block), !.ret = "ok"] \in Frame
        /\ [frame[t] EXCEPT !.to_free = freed, !.ret = "ok"] \in Frame
    BY <1>6, <2>1, ToFreeType
  <2> QED
    BY <1>7, <2>1, <2>2
<1>10. TypeOK'
  BY <1>1, <1>8, <1>9 DEF TypeOK, RemoveEntry, locks, server
<1>11. StepShape(t)'
  BY <1>1 DEF StepShape, RemoveEntry, OutOfWalk, Created, Found
<1> QED
  BY <1>1, <1>10, <1>11, ShapeOfOthers DEF OthersUnchanged, TypeOK, Decide, Return, RemoveEntry

(* The blocks go to the front of the free list. *)
LEMMA ReleaseBlocksStep ==
  ASSUME TypeInv, NEW t \in Threads, ReleaseBlocks(t)
  PROVE  TypeInv'
<1> USE DEF TypeInv
<1>1. /\ pc' \in [Threads -> Steps]
      /\ pc[t] = "release" /\ pc'[t] = "unlock_target"
      /\ \A u \in Threads \ {t} : pc'[u] = pc[u]
  BY GotoType DEF ReleaseBlocks, Steps
<1>2. free_blocks' \in Seq(Blocks)
  <2>1. frame[t].to_free \in Seq(Blocks) /\ free_blocks \in Seq(Blocks)
    BY ThreadTypes DEF TypeOK, Frame
  <2> QED
    BY <2>1, ConcatProperties DEF ReleaseBlocks
<1>3. frame' \in [Threads -> Frame]
  <2>1. << >> \in Seq(Blocks) /\ frame[t] \in Frame
    BY DEF TypeOK
  <2>2. [frame[t] EXCEPT !.to_free = << >>] \in Frame
    BY <2>1, ToFreeType
  <2> QED
    BY <2>2 DEF TypeOK, ReleaseBlocks
<1>4. TypeOK'
  BY <1>1, <1>2, <1>3 DEF TypeOK, ReleaseBlocks, locks, server
<1>5. StepShape(t)'
  BY <1>1 DEF StepShape, ReleaseBlocks, OutOfWalk, Created, Found
<1> QED
  BY <1>1, <1>4, <1>5, ShapeOfOthers DEF OthersUnchanged, TypeOK, Decide, Return, ReleaseBlocks

(* The entry's inode is unlocked. *)
LEMMA UnlockTargetStep ==
  ASSUME TypeInv, NEW t \in Threads, UnlockTarget(t)
  PROVE  TypeInv'
<1> USE DEF TypeInv
<1>1. /\ pc' \in [Threads -> Steps] /\ args' \in [Threads -> Args]
      /\ frame' \in [Threads -> Frame]
      /\ pc[t] = "unlock_target" /\ pc'[t] \in {"reply", "unlock_parent"}
      /\ pc'[t] = "reply" => args'[t] = NoArgs
      /\ \A u \in Threads \ {t} : pc'[u] = pc[u] /\ args'[u] = args[u]
  <2>1. CASE req[t].op = "delete"
    BY <2>1, GotoType DEF UnlockTarget, TypeOK, Steps
  <2>2. CASE req[t].op # "delete"
    <3>1. frame[t].ret \in {"none", "ok", "fail"} /\ frame[t].buf \in Data
      BY ThreadTypes DEF Frame
    <3> QED
      BY <2>2, <3>1, ReturnTypes, ZenonT(40) DEF UnlockTarget
  <2> QED
    BY <2>1, <2>2
<1>2. rdlock' \in [Blocks -> SUBSET Threads] /\ wrlock' \in [Blocks -> SUBSET Threads]
  BY LockTypes DEF UnlockTarget
<1>3. TypeOK'
  BY <1>1, <1>2 DEF TypeOK, UnlockTarget, server
<1>4. StepShape(t)'
  BY <1>1 DEF StepShape, UnlockTarget, OutOfWalk, Created, Found, NoArgs
<1> QED
  BY <1>1, <1>3, <1>4, ShapeOfOthers DEF OthersUnchanged, TypeOK, Decide, Return, UnlockTarget

-----------------------------------------------------------------------------
(* access_entry *)

(* The directory is unlocked. *)
LEMMA UnlockDirStep ==
  ASSUME TypeInv, NEW t \in Threads, UnlockDir(t)
  PROVE  TypeInv'
<1> USE DEF TypeInv
<1>1. /\ pc' \in [Threads -> Steps]
      /\ pc[t] = "unlock_dir" /\ pc'[t] = "open"
      /\ \A u \in Threads \ {t} : pc'[u] = pc[u]
  BY GotoType DEF UnlockDir, Steps
<1>2. rdlock' \in [Blocks -> SUBSET Threads] /\ wrlock' \in [Blocks -> SUBSET Threads]
  BY LockTypes DEF UnlockDir
<1>3. TypeOK'
  BY <1>1, <1>2 DEF TypeOK, UnlockDir, server
<1>4. StepShape(t)'
  BY <1>1 DEF StepShape, UnlockDir, OutOfWalk, Created, Found
<1> QED
  BY <1>1, <1>3, <1>4, ShapeOfOthers DEF OthersUnchanged, TypeOK, Decide, Return, UnlockDir

(* The file's inode is read and checked. *)
LEMMA OpenFileStep ==
  ASSUME TypeInv, NEW t \in Threads, OpenFile(t)
  PROVE  TypeInv'
<1> USE DEF TypeInv
<1> DEFINE file == AsInode(disk[frame[t].target])
<1>1. AfterOpen(req[t], file) \in {"unlock_target", "read_data", "write_data", "extend"}
  BY DEF AfterOpen
<1>2. /\ pc' \in [Threads -> Steps]
      /\ pc[t] = "open" /\ pc'[t] \in {"unlock_target", "read_data", "write_data", "extend"}
      /\ \A u \in Threads \ {t} : pc'[u] = pc[u]
  BY <1>1, GotoType DEF OpenFile, Steps
<1>3. file \in Inode
  BY ThreadTypes, ReadTypes DEF TypeOK, Frame
<1>4. frame' \in [Threads -> Frame]
  BY <1>3, ZenonT(40) DEF TypeOK, OpenFile, Frame
<1>5. TypeOK'
  BY <1>2, <1>4 DEF TypeOK, OpenFile, locks, server
<1>6. StepShape(t)'
  <2>1. pc'[t] = AfterOpen(req[t], file)
    BY DEF OpenFile, Goto, TypeOK
  <2>2. pc'[t] = "read_data" => req[t].block < Len(file.blocks)
    BY <2>1 DEF AfterOpen
  <2>3. frame'[t].file = file
    BY DEF OpenFile, TypeOK, Frame
  <2> HIDE DEF file
  <2> QED
    BY <1>2, <2>2, <2>3 DEF StepShape, OpenFile, OutOfWalk, Created, Found
<1> QED
  BY <1>2, <1>5, <1>6, ShapeOfOthers DEF OthersUnchanged, TypeOK, Decide, Return, OpenFile

(* A data block is read. *)
LEMMA ReadDataStep ==
  ASSUME TypeInv, NEW t \in Threads, ReadData(t)
  PROVE  TypeInv'
<1> USE DEF TypeInv
<1>1. /\ pc' \in [Threads -> Steps]
      /\ pc[t] = "read_data" /\ pc'[t] = "unlock_target"
      /\ \A u \in Threads \ {t} : pc'[u] = pc[u]
  BY GotoType DEF ReadData, Steps
<1>2. frame' \in [Threads -> Frame]
  <2>1. FileBlock(t) \in Blocks => AsData(disk[FileBlock(t)]) \in Data
    BY ReadTypes DEF TypeOK
  <2>2. FileBlock(t) \in Blocks
    <3>1. req[t].block \in Nat /\ frame[t].file.blocks \in BlockList
      BY ThreadTypes DEF Request, Frame, Inode
    <3>2. req[t].block + 1 \in 1 .. Len(frame[t].file.blocks)
      BY <1>1, <3>1 DEF StepShape, BlockList
    <3> QED
      BY <3>1, <3>2, BlockListBlocks DEF FileBlock
  <2> QED
    BY <2>1, <2>2 DEF TypeOK, ReadData, Frame
<1>3. TypeOK'
  BY <1>1, <1>2 DEF TypeOK, ReadData, locks, server
<1>4. StepShape(t)'
  BY <1>1 DEF StepShape, ReadData, OutOfWalk, Created, Found
<1> QED
  BY <1>1, <1>3, <1>4, ShapeOfOthers DEF OthersUnchanged, TypeOK, Decide, Return, ReadData

(* A data block is overwritten. *)
LEMMA WriteDataStep ==
  ASSUME TypeInv, NEW t \in Threads, WriteData(t)
  PROVE  TypeInv'
<1> USE DEF TypeInv
<1>1. /\ pc' \in [Threads -> Steps]
      /\ pc[t] = "write_data" /\ pc'[t] = "unlock_target"
      /\ \A u \in Threads \ {t} : pc'[u] = pc[u]
  BY GotoType DEF WriteData, Steps
<1>2. DataBlock(req[t].data) \in Content
  BY ThreadTypes DEF Request, DataBlock, Content
<1>3. disk' \in [Blocks -> Content]
  BY <1>2, WriteType DEF WriteData
<1>4. frame' \in [Threads -> Frame]
  BY DecideType DEF WriteData
<1>5. TypeOK'
  BY <1>1, <1>3, <1>4 DEF TypeOK, WriteData, locks, server
<1>6. StepShape(t)'
  BY <1>1 DEF StepShape, WriteData, OutOfWalk, Created, Found
<1> QED
  BY <1>1, <1>5, <1>6, ShapeOfOthers DEF OthersUnchanged, TypeOK, Decide, Return, WriteData

(* A file grows: there is a free block, and room for it in blocks[]. *)
LEMMA ExtendFileStep ==
  ASSUME TypeInv, NEW t \in Threads, ExtendFile(t)
  PROVE  TypeInv'
<1> USE DEF TypeInv
<1>1. /\ pc' \in [Threads -> Steps]
      /\ pc[t] = "extend" /\ pc'[t] \in {"unlock_target", "append_data"}
      /\ \A u \in Threads \ {t} : pc'[u] = pc[u]
  BY GotoType DEF ExtendFile, Steps
<1>2. free_blocks' \in Seq(Blocks) /\ frame' \in [Threads -> Frame]
  <2>1. CASE NoRoomFor(frame[t].file)
    BY <2>1, DecideType DEF ExtendFile, TypeOK
  <2>2. CASE ~NoRoomFor(frame[t].file)
    <3>1. Head(free_blocks) \in Blocks /\ Tail(free_blocks) \in Seq(Blocks)
      BY <2>2 DEF TypeOK, NoRoomFor
    <3>2. frame[t] \in Frame /\ frame[t].file \in Inode /\ frame[t].file.blocks \in BlockList
      BY ThreadTypes DEF Frame, Inode
    <3>3. Append(frame[t].file.blocks, Head(free_blocks)) \in BlockList
      <4>1. Len(frame[t].file.blocks) < FS_MAXFILEBLOCKS
        BY <2>2, <3>2, LayoutAssumption DEF NoRoomFor, BlockList
      <4> QED
        BY <3>1, <3>2, <4>1, BlockListAppend
    <3> DEFINE file == [frame[t].file EXCEPT !.blocks = Append(@, Head(free_blocks))]
    <3>4. file \in Inode
      BY <3>2, <3>3 DEF Inode
    <3>5. frame' = [frame EXCEPT ![t].file = file]
      BY <2>2, <3>2 DEF ExtendFile
    <3> HIDE DEF file
    <3>6. frame' \in [Threads -> Frame]
      BY <3>4, <3>5 DEF TypeOK, Frame
    <3> QED
      BY <2>2, <3>1, <3>6 DEF ExtendFile
  <2> QED
    BY <2>1, <2>2
<1>3. TypeOK'
  BY <1>1, <1>2 DEF TypeOK, ExtendFile, locks, server
<1>4. StepShape(t)'
  BY <1>1 DEF StepShape, ExtendFile, OutOfWalk, Created, Found
<1> QED
  BY <1>1, <1>3, <1>4, ShapeOfOthers DEF OthersUnchanged, TypeOK, Decide, Return, ExtendFile

(* The new block is written. *)
LEMMA AppendDataStep ==
  ASSUME TypeInv, NEW t \in Threads, AppendData(t)
  PROVE  TypeInv'
<1> USE DEF TypeInv
<1>1. /\ pc' \in [Threads -> Steps]
      /\ pc[t] = "append_data" /\ pc'[t] = "append_inode"
      /\ \A u \in Threads \ {t} : pc'[u] = pc[u]
  BY GotoType DEF AppendData, Steps
<1>2. DataBlock(req[t].data) \in Content
  BY ThreadTypes DEF Request, DataBlock, Content
<1>3. disk' \in [Blocks -> Content]
  BY <1>2, WriteType DEF AppendData
<1>4. TypeOK'
  BY <1>1, <1>3 DEF TypeOK, AppendData, locks, server
<1>5. StepShape(t)'
  BY <1>1 DEF StepShape, AppendData, OutOfWalk, Created, Found
<1> QED
  BY <1>1, <1>4, <1>5, ShapeOfOthers DEF OthersUnchanged, TypeOK, Decide, Return, AppendData

(* The file's inode is written. *)
LEMMA AppendInodeStep ==
  ASSUME TypeInv, NEW t \in Threads, AppendInode(t)
  PROVE  TypeInv'
<1> USE DEF TypeInv
<1>1. /\ pc' \in [Threads -> Steps]
      /\ pc[t] = "append_inode" /\ pc'[t] = "unlock_target"
      /\ \A u \in Threads \ {t} : pc'[u] = pc[u]
  BY GotoType DEF AppendInode, Steps
<1>2. InodeBlock(frame[t].file) \in Content
  BY ThreadTypes DEF Frame, InodeBlock, Content
<1>3. disk' \in [Blocks -> Content]
  BY <1>2, WriteType DEF AppendInode
<1>4. frame' \in [Threads -> Frame]
  BY DecideType DEF AppendInode
<1>5. TypeOK'
  BY <1>1, <1>3, <1>4 DEF TypeOK, AppendInode, locks, server
<1>6. StepShape(t)'
  BY <1>1 DEF StepShape, AppendInode, OutOfWalk, Created, Found
<1> QED
  BY <1>1, <1>5, <1>6, ShapeOfOthers DEF OthersUnchanged, TypeOK, Decide, Return, AppendInode

-----------------------------------------------------------------------------
(* TypeInv holds before the first start, ... *)
LEMMA InitTypeInv == Init => TypeInv
<1> SUFFICES ASSUME Init PROVE TypeInv
  OBVIOUS
<1>1. NoRequest \in Request
  BY LayoutAssumption DEF NoRequest, Request, FileTypes
<1>2. TypeOK
  BY <1>1, NoFrameType, LayoutAssumption, ServerAssumption DEF Init, TypeOK, Steps
<1>3. ASSUME NEW t \in Threads PROVE StepShape(t)
  BY DEF Init, StepShape, OutOfWalk, Created, Found, NoArgs
<1> QED
  BY <1>2, <1>3 DEF TypeInv

(* ... and every step preserves it. *)
LEMMA NextTypeInv == TypeInv /\ [Next]_vars => TypeInv'
<1> SUFFICES ASSUME TypeInv, [Next]_vars PROVE TypeInv'
  OBVIOUS
<1>1. CASE Boot
  BY <1>1, BootStep
<1>2. CASE Crash
  BY <1>2, CrashStep
<1>3. ASSUME NEW t \in Threads, Accept(t) PROVE TypeInv'
  BY <1>3, AcceptStep
<1>4. ASSUME NEW t \in Threads, Handle(t) PROVE TypeInv'
  <2>1. CASE Begin(t)
    BY <2>1, BeginCreateStep, BeginDeleteStep, BeginAccessStep DEF Begin
  <2>2. CASE Walk(t)
    BY <2>2, LockRootStep, SearchStep, LockNextStep, UnlockLastStep DEF Walk
  <2>3. CASE CreateEntry(t)
    BY <2>3, ReuseFolderStep, CannotGrowStep, GrowDirectoryStep, WriteNewInodeStep,
       WriteFolderStep, WriteParentStep DEF CreateEntry
  <2>4. CASE DeleteEntry(t)
    BY <2>4, CheckDeleteStep, RemoveEntryStep, ReleaseBlocksStep DEF DeleteEntry
  <2>5. CASE AccessEntry(t)
    BY <2>5, UnlockDirStep, OpenFileStep, ReadDataStep, WriteDataStep, ExtendFileStep,
       AppendDataStep, AppendInodeStep DEF AccessEntry
  <2>6. CASE LockTarget(t) \/ UnlockTarget(t) \/ UnlockParent(t) \/ Reply(t)
    BY <2>6, LockTargetStep, UnlockTargetStep, UnlockParentStep, ReplyStep
  <2> QED
    BY <1>4, <2>1, <2>2, <2>3, <2>4, <2>5, <2>6 DEF Handle
<1>5. CASE UNCHANGED vars
  BY <1>5 DEF vars, locks, server, TypeInv, TypeOK, StepShape
<1> QED
  BY <1>1, <1>2, <1>3, <1>4, <1>5 DEF Next, Idle

(* The server's state keeps its types, whatever its requests and its disk:  *)
(* no handler takes a block from an empty free list, stores more blocks in  *)
(* an inode than it has room for, or leaves folders[].  That an index into  *)
(* blocks[] lies in the directory's list where it is used is TypeInv's.      *)
THEOREM TypeCorrect == Spec => []TypeOK
<1>1. TypeInv => TypeOK
  BY DEF TypeInv
<1> QED
  BY <1>1, InitTypeInv, NextTypeInv, PTL DEF Spec

-----------------------------------------------------------------------------
(* LocksReleased.  A thread holds no other locks than its step says; this   *)
(* is inductive whatever the disk holds, for an unlock only takes away.     *)

(* A step that locks nothing for other threads leaves their locks lawful. *)
LEMMA LockShapeOfOthers ==
  ASSUME LockInv, NEW t \in Threads, OthersUnchanged(t), LockShape(t)',
         \A u \in Threads \ {t}, b \in Blocks : Holds(u, b)' => Holds(u, b)
  PROVE  \A u \in Threads : LockShape(u)'
  BY DEF LockInv, LockShape, OthersUnchanged, MayHold

(* Locking and unlocking change what one thread holds of one block.         *)
LEMMA LockEffect ==
  ASSUME TypeOK, NEW t \in Threads, NEW b, RdLock(t, b) \/ WrLock(t, b)
  PROVE  /\ \A u \in Threads \ {t}, c \in Blocks : Holds(u, c)' => Holds(u, c)
         /\ \A c \in Blocks : Holds(t, c)' => Holds(t, c) \/ c = b
  BY DEF TypeOK, RdLock, WrLock, Holds

(* An unlock takes one block from one thread. *)
LEMMA UnlockEffect ==
  ASSUME TypeOK, NEW t \in Threads, NEW b, Unlock(t, b)
  PROVE  /\ \A u \in Threads \ {t}, c \in Blocks : Holds(u, c)' => Holds(u, c)
         /\ \A c \in Blocks : Holds(t, c)' => Holds(t, c) /\ c # b
  BY DEF TypeOK, Unlock, Holds

(* Without either, every thread holds what it held. *)
LEMMA LocksUnchanged ==
  ASSUME UNCHANGED locks
  PROVE  \A u \in Threads, c \in Blocks : Holds(u, c)' => Holds(u, c)
  BY DEF locks, Holds

(* A handler begins without locks. *)
LEMMA BeginLocks ==
  ASSUME LockInv, NEW t \in Threads, Begin(t)
  PROVE  \A u \in Threads : LockShape(u)'
<1> USE DEF LockInv, TypeInv
<1>1. UNCHANGED locks
  BY DEF Begin, BeginCreate, BeginDelete, BeginAccess, locks
<1>2. pc[t] = "begin"
  BY DEF Begin, BeginCreate, BeginDelete, BeginAccess, Goto
<1>3. OthersUnchanged(t)
  BY DEF Begin, BeginCreate, BeginDelete, BeginAccess, Goto, Return, OthersUnchanged, TypeOK
<1>4. LockShape(t)'
  BY <1>1, <1>2, LocksUnchanged DEF LockShape, MayHold, InDirectory, OnTarget
<1> QED
  BY <1>1, <1>3, <1>4, LocksUnchanged, LockShapeOfOthers

(* create_entry works under its directory's lock. *)
LEMMA CreateLocks ==
  ASSUME LockInv, NEW t \in Threads, CreateEntry(t)
  PROVE  \A u \in Threads : LockShape(u)'
<1> USE DEF LockInv, TypeInv
<1>1. UNCHANGED locks
  BY DEF CreateEntry, ReuseFolder, CannotGrow, GrowDirectory, WriteNewInode, WriteFolder,
         WriteParent, locks
<1>2. OthersUnchanged(t)
  BY DEF CreateEntry, ReuseFolder, CannotGrow, GrowDirectory, WriteNewInode, WriteFolder,
         WriteParent, Goto, Decide, OthersUnchanged, TypeOK
<1>3. LockShape(t)'
  <2>1. pc[t] \in Created /\ pc'[t] \in Created \cup {"unlock_parent"}
    BY DEF CreateEntry, ReuseFolder, CannotGrow, GrowDirectory, WriteNewInode, WriteFolder,
           WriteParent, Goto, TypeOK, Created
  <2>2. args'[t].disk_block = args[t].disk_block
    BY ZenonT(40) DEF CreateEntry, ReuseFolder, CannotGrow, GrowDirectory, WriteNewInode, WriteFolder,
           WriteParent, TypeOK, Args
  <2> QED
    BY <1>1, <2>1, <2>2, LocksUnchanged DEF LockShape, MayHold, InDirectory, OnTarget, Created
<1> QED
  BY <1>1, <1>2, <1>3, LocksUnchanged, LockShapeOfOthers

(* The walk holds one lock, and two while it passes on to the next directory. *)
LEMMA WalkLocks ==
  ASSUME LockInv, NEW t \in Threads, Walk(t)
  PROVE  \A u \in Threads : LockShape(u)'
<1> USE DEF LockInv, TypeInv
<1>1. OthersUnchanged(t)
  <2>1. CASE LockRoot(t)
    BY <2>1 DEF LockRoot, Goto, Decide, OthersUnchanged, TypeOK
  <2>2. CASE Search(t)
    BY <2>2 DEF Search, Goto, Decide, OthersUnchanged, TypeOK
  <2>3. CASE LockNext(t)
    BY <2>3 DEF LockNext, Goto, Decide, OthersUnchanged, TypeOK
  <2>4. CASE UnlockLast(t)
    BY <2>4 DEF UnlockLast, Goto, Decide, OthersUnchanged, TypeOK
  <2> QED
    BY <2>1, <2>2, <2>3, <2>4 DEF Walk
<1>2. CASE LockRoot(t)
  <2>1. RdLock(t, 0) \/ WrLock(t, 0)
    BY <1>2 DEF LockRoot, LockForWalk
  <2>2. pc[t] = "lock_root" /\ pc'[t] \in {"unlock_parent", "search"} /\ args' = args
    BY <1>2 DEF LockRoot, Goto, TypeOK
  <2>3. args[t].disk_block = 0
    BY <2>2 DEF StepShape
  <2>4. LockShape(t)'
    BY <2>1, <2>2, <2>3, LockEffect DEF LockShape, MayHold, InDirectory, OnTarget
  <2> QED
    BY <1>1, <2>1, <2>4, LockEffect, LockShapeOfOthers
<1>3. CASE Search(t)
  <2>1. UNCHANGED locks
    BY <1>3 DEF Search, locks
  <2>2. pc[t] = "search" /\ args'[t].disk_block = args[t].disk_block
    BY <1>3, ZenonT(40) DEF Search, TypeOK, Args
  <2>3. pc'[t] \in InDirectory \ (OnTarget \cup {"unlock_last", "release", "unlock_target"})
    <3>1. CASE pc' = [pc EXCEPT ![t] = "unlock_parent"]
      BY <3>1 DEF TypeOK, InDirectory, OnTarget
    <3>2. ASSUME NEW found, pc' = [pc EXCEPT ![t] = AfterSearch(req[t], frame[t].path_index, found)]
          PROVE  pc'[t] \in {"lock_next", "unlock_parent", "grow", "lock_target"}
      BY <3>2, AfterSearchType DEF TypeOK
    <3> QED
      BY <1>3, <3>1, <3>2 DEF Search, Goto, InDirectory, OnTarget
  <2>4. LockShape(t)'
    BY <2>1, <2>2, <2>3, LocksUnchanged DEF LockShape, MayHold, InDirectory, OnTarget
  <2> QED
    BY <1>1, <2>1, <2>4, LocksUnchanged, LockShapeOfOthers
<1>4. CASE LockNext(t)
  <2> DEFINE b == Entry(t).inode_block
  <2>1. RdLock(t, b) \/ WrLock(t, b)
    BY <1>4 DEF LockNext, LockForWalk
  <2>2. /\ pc[t] = "lock_next" /\ pc'[t] = "unlock_last"
        /\ args'[t].disk_block = b /\ frame'[t].last = args[t].disk_block
    BY <1>4, ThreadTypes DEF LockNext, Goto, TypeOK, Args, Frame
  <2> HIDE DEF b
  <2>3. LockShape(t)'
    BY <2>1, <2>2, LockEffect DEF LockShape, MayHold, InDirectory, OnTarget
  <2> QED
    BY <1>1, <2>1, <2>3, LockEffect, LockShapeOfOthers
<1>5. CASE UnlockLast(t)
  <2>1. Unlock(t, frame[t].last)
    BY <1>5 DEF UnlockLast
  <2>2. pc[t] = "unlock_last" /\ pc'[t] = "search" /\ args' = args
    BY <1>5 DEF UnlockLast, Goto, TypeOK
  <2>3. LockShape(t)'
    BY <2>1, <2>2, UnlockEffect DEF LockShape, MayHold, InDirectory, OnTarget
  <2> QED
    BY <1>1, <2>1, <2>3, UnlockEffect, LockShapeOfOthers
<1> QED
  BY <1>2, <1>3, <1>4, <1>5 DEF Walk

(* The entry's own lock comes on top of its directory's. *)
LEMMA TargetLocks ==
  ASSUME LockInv, NEW t \in Threads, LockTarget(t) \/ UnlockTarget(t)
  PROVE  \A u \in Threads : LockShape(u)'
<1> USE DEF LockInv, TypeInv
<1>1. CASE LockTarget(t)
  <2> DEFINE b == Entry(t).inode_block
  <2>1. RdLock(t, b) \/ WrLock(t, b)
    BY <1>1 DEF LockTarget
  <2>2. /\ pc[t] = "lock_target" /\ pc'[t] \in {"check_delete", "unlock_dir"}
        /\ args' = args /\ frame'[t].target = b
    BY <1>1, ThreadTypes DEF LockTarget, Goto, TypeOK, Frame
  <2>3. OthersUnchanged(t)
    BY <1>1 DEF LockTarget, Goto, OthersUnchanged, TypeOK
  <2> HIDE DEF b
  <2>4. LockShape(t)'
    BY <2>1, <2>2, LockEffect DEF LockShape, MayHold, InDirectory, OnTarget
  <2> QED
    BY <2>1, <2>3, <2>4, LockEffect, LockShapeOfOthers
<1>2. CASE UnlockTarget(t)
  <2>1. Unlock(t, frame[t].target) /\ pc[t] = "unlock_target"
    BY <1>2 DEF UnlockTarget
  <2>2. /\ req[t].op = "delete" => pc'[t] = "unlock_parent" /\ args'[t] = args[t]
        /\ req[t].op # "delete" => pc'[t] = "reply"
    BY <1>2 DEF UnlockTarget, Goto, Return, TypeOK
  <2>3. OthersUnchanged(t)
    BY <1>2 DEF UnlockTarget, Goto, Return, OthersUnchanged, TypeOK
  <2>4. LockShape(t)'
    BY <2>1, <2>2, UnlockEffect DEF LockShape, MayHold, InDirectory, OnTarget
  <2> QED
    BY <2>1, <2>3, <2>4, UnlockEffect, LockShapeOfOthers
<1> QED
  BY <1>1, <1>2

(* delete_entry keeps both. *)
LEMMA DeleteLocks ==
  ASSUME LockInv, NEW t \in Threads, DeleteEntry(t)
  PROVE  \A u \in Threads : LockShape(u)'
<1> USE DEF LockInv, TypeInv
<1>1. UNCHANGED locks
  BY DEF DeleteEntry, CheckDelete, RemoveEntry, ReleaseBlocks, locks
<1>2. OthersUnchanged(t)
  BY DEF DeleteEntry, CheckDelete, RemoveEntry, ReleaseBlocks, Goto, OthersUnchanged, TypeOK
<1>3. /\ pc[t] \in {"check_delete", "remove", "release"}
      /\ pc'[t] \in {"remove", "release", "unlock_target"}
  BY DEF DeleteEntry, CheckDelete, RemoveEntry, ReleaseBlocks, Goto, TypeOK
<1>4. args' = args /\ req' = req /\ req[t].op = "delete"
  BY <1>3 DEF DeleteEntry, CheckDelete, RemoveEntry, ReleaseBlocks, StepShape
<1>5. frame'[t].target = frame[t].target
  <2>1. frame[t] \in Frame
    BY ThreadTypes
  <2>2. CASE CheckDelete(t)
    BY <2>1, <2>2 DEF CheckDelete, TypeOK, Frame
  <2>3. CASE RemoveEntry(t)
    <3>1. PICK freed : frame' = [frame EXCEPT ![t] = [@ EXCEPT !.to_free = freed, !.ret = "ok"]]
      BY <2>3 DEF RemoveEntry
    <3> QED
      BY <2>1, <3>1 DEF TypeOK, Frame
  <2>4. CASE ReleaseBlocks(t)
    BY <2>1, <2>4 DEF ReleaseBlocks, TypeOK, Frame
  <2> QED
    BY <2>2, <2>3, <2>4 DEF DeleteEntry
<1>6. LockShape(t)'
  BY <1>1, <1>3, <1>4, <1>5, LocksUnchanged DEF LockShape, MayHold, InDirectory, OnTarget
<1> QED
  BY <1>1, <1>2, <1>6, LocksUnchanged, LockShapeOfOthers

(* access_entry gives up the directory's and keeps the file's. *)
LEMMA AccessLocks ==
  ASSUME LockInv, NEW t \in Threads, AccessEntry(t)
  PROVE  \A u \in Threads : LockShape(u)'
<1> USE DEF LockInv, TypeInv
<1> DEFINE Rest == \/ OpenFile(t) \/ ReadData(t) \/ WriteData(t)
                   \/ ExtendFile(t) \/ AppendData(t) \/ AppendInode(t)
<1>1. CASE UnlockDir(t)
  <2>1. Unlock(t, args[t].disk_block)
    BY <1>1 DEF UnlockDir
  <2>2. pc[t] = "unlock_dir" /\ pc'[t] = "open" /\ frame' = frame
    BY <1>1 DEF UnlockDir, Goto, TypeOK
  <2>3. OthersUnchanged(t)
    BY <1>1 DEF UnlockDir, Goto, OthersUnchanged, TypeOK
  <2>4. LockShape(t)'
    BY <2>1, <2>2, UnlockEffect DEF LockShape, MayHold, InDirectory, OnTarget
  <2> QED
    BY <2>1, <2>3, <2>4, UnlockEffect, LockShapeOfOthers
<1>2. CASE Rest
  <2> DEFINE Steps1 == {"open", "read_data", "write_data", "extend", "append_data", "append_inode"}
  <2>1. UNCHANGED locks
    BY <1>2 DEF OpenFile, ReadData, WriteData, ExtendFile, AppendData, AppendInode, locks
  <2>2. OthersUnchanged(t)
    BY <1>2 DEF OpenFile, ReadData, WriteData, ExtendFile, AppendData, AppendInode,
                Goto, Decide, OthersUnchanged, TypeOK
  <2>3. pc[t] \in Steps1 /\ pc'[t] \in (Steps1 \ {"open"}) \cup {"unlock_target"}
    <3>1. CASE OpenFile(t)
      BY <3>1 DEF OpenFile, AfterOpen, Goto, TypeOK
    <3>2. CASE ~OpenFile(t)
      BY <1>2, <3>2 DEF ReadData, WriteData, ExtendFile, AppendData, AppendInode, Goto, TypeOK
    <3> QED
      BY <3>1, <3>2
  <2>4. frame'[t].target = frame[t].target
    <3>1. frame[t] \in Frame
      BY ThreadTypes
    <3>2. CASE OpenFile(t)
      BY <3>1, <3>2 DEF OpenFile, TypeOK, Frame
    <3>3. CASE ReadData(t)
      BY <3>1, <3>3 DEF ReadData, TypeOK, Frame
    <3>4. CASE ExtendFile(t)
      BY <3>1, <3>4 DEF ExtendFile, Decide, TypeOK, Frame
    <3>5. CASE WriteData(t) \/ AppendData(t) \/ AppendInode(t)
      BY <3>1, <3>5 DEF WriteData, AppendData, AppendInode, Decide, TypeOK, Frame
    <3> QED
      BY <1>2, <3>2, <3>3, <3>4, <3>5
  <2>5. LockShape(t)'
    <3>1. MayHold(t) = {frame[t].target}
      BY <2>3 DEF MayHold, InDirectory, OnTarget
    <3>2. frame[t].target \in MayHold(t)'
      BY <2>3, <2>4 DEF MayHold, OnTarget
    <3> QED
      BY <2>1, <3>1, <3>2, LocksUnchanged DEF LockShape
  <2> QED
    BY <2>1, <2>2, <2>5, LocksUnchanged, LockShapeOfOthers
<1> QED
  BY <1>1, <1>2 DEF AccessEntry

(* The last unlock leaves a returning handler without locks. *)
LEMMA ReturnLocks ==
  ASSUME LockInv, NEW t \in Threads, UnlockParent(t) \/ Reply(t)
  PROVE  \A u \in Threads : LockShape(u)'
<1> USE DEF LockInv, TypeInv
<1>1. OthersUnchanged(t)
  BY DEF UnlockParent, Reply, Return, Goto, OthersUnchanged, TypeOK
<1>2. CASE UnlockParent(t)
  <2>1. Unlock(t, args[t].disk_block)
    BY <1>2 DEF UnlockParent
  <2>2. pc[t] = "unlock_parent" /\ pc'[t] = "reply"
    BY <1>2 DEF UnlockParent, Return, Goto, TypeOK
  <2>3. LockShape(t)'
    BY <2>1, <2>2, UnlockEffect DEF LockShape, MayHold, InDirectory, OnTarget
  <2> QED
    BY <1>1, <2>1, <2>3, UnlockEffect, LockShapeOfOthers
<1>3. CASE Reply(t)
  <2>1. UNCHANGED locks
    BY <1>3 DEF Reply, locks
  <2>2. pc[t] = "reply" /\ pc'[t] = "idle"
    BY <1>3 DEF Reply, Goto, TypeOK
  <2>3. LockShape(t)'
    BY <2>1, <2>2, LocksUnchanged DEF LockShape, MayHold, InDirectory, OnTarget
  <2> QED
    BY <1>1, <2>1, <2>3, LocksUnchanged, LockShapeOfOthers
<1> QED
  BY <1>2, <1>3

(* Every step preserves LockInv. *)
LEMMA NextLockInv == LockInv /\ [Next]_vars => LockInv'
<1> SUFFICES ASSUME LockInv, [Next]_vars PROVE LockInv'
  OBVIOUS
<1>1. TypeInv'
  BY NextTypeInv DEF LockInv
<1>2. ASSUME Boot \/ UNCHANGED vars PROVE \A u \in Threads : LockShape(u)'
  BY <1>2 DEF Boot, vars, locks, server, LockInv, LockShape, MayHold, Holds
<1>3. ASSUME Crash PROVE \A u \in Threads : LockShape(u)'
  BY <1>3 DEF Crash, LockShape, Holds
<1>4. ASSUME NEW t \in Threads, Accept(t) PROVE \A u \in Threads : LockShape(u)'
  <2>1. UNCHANGED locks
    BY <1>4 DEF Accept, locks
  <2>2. OthersUnchanged(t)
    BY <1>4 DEF Accept, Goto, OthersUnchanged, LockInv, TypeInv, TypeOK
  <2>3. pc[t] = "idle" /\ pc'[t] = "begin"
    BY <1>4 DEF Accept, Goto, LockInv, TypeInv, TypeOK
  <2>4. LockShape(t)'
    BY <2>1, <2>3, LocksUnchanged DEF LockInv, LockShape, MayHold, InDirectory, OnTarget
  <2> QED
    BY <2>1, <2>2, <2>4, LocksUnchanged, LockShapeOfOthers
<1>5. ASSUME NEW t \in Threads, Handle(t) PROVE \A u \in Threads : LockShape(u)'
  BY <1>5, BeginLocks, WalkLocks, CreateLocks, TargetLocks, DeleteLocks, AccessLocks, ReturnLocks
     DEF Handle
<1>6. \A u \in Threads : LockShape(u)'
  BY <1>2, <1>3, <1>4, <1>5 DEF Next, Idle
<1> QED
  BY <1>1, <1>6 DEF LockInv

(* Whatever the requests and the disk, a handler that has returned holds no *)
(* block lock, on every one of its early returns.                           *)
THEOREM NoLockLeaks == Spec => []LocksReleased
<1>1. Init => LockInv
  BY InitTypeInv DEF Init, LockInv, LockShape, Holds
<1>2. LockInv => LocksReleased
  BY DEF LockInv, LocksReleased, LockShape, MayHold, Holds, InDirectory, OnTarget
<1> QED
  BY <1>1, <1>2, NextLockInv, PTL DEF Spec


-----------------------------------------------------------------------------
(* Lists without repetitions. *)

(* The size of the list counts its members. *)
LEMMA InjectiveList ==
  ASSUME NEW S, NEW s \in Seq(S)
  PROVE  Cardinality(ToSet(s)) = Len(s) <=> IsInjective(s)
<1> DEFINE I == 1 .. Len(s)
<1>1. Len(s) \in Nat /\ DOMAIN s = I /\ s \in [I -> ToSet(s)]
  BY DEF ToSet
<1>2. s \in Surjection(I, ToSet(s))
  BY <1>1 DEF Surjection, ToSet
<1>3. IsFiniteSet(I) /\ Cardinality(I) = Len(s)
  <2>1. CASE Len(s) = 0
    BY <2>1, FS_EmptySet
  <2>2. CASE Len(s) # 0
    <3>1. 1 \in Int /\ Len(s) \in Int /\ ~(1 > Len(s)) /\ Len(s) - 1 + 1 = Len(s)
      BY <1>1, <2>2
    <3> QED
      BY <3>1, FS_Interval
  <2> QED
    BY <2>1, <2>2
<1>4. Cardinality(ToSet(s)) = Len(s) <=> s \in Injection(I, ToSet(s))
  BY <1>2, <1>3, FS_Surjection
<1> QED
  BY <1>1, <1>4 DEF Injection

(* The members of a list are those at its positions. *)
LEMMA MemberAt ==
  ASSUME NEW S, NEW s \in Seq(S)
  PROVE  \A x : x \in ToSet(s) <=> \E i \in 1 .. Len(s) : s[i] = x
  BY DEF ToSet

(* The first element leaves. *)
LEMMA TailSet ==
  ASSUME NEW S, NEW s \in Seq(S), s # << >>, IsInjective(s)
  PROVE  /\ Head(s) \in ToSet(s) /\ IsInjective(Tail(s)) /\ Tail(s) \in Seq(S)
         /\ ToSet(Tail(s)) = ToSet(s) \ {Head(s)}
<1>1. Len(s) \in Nat /\ Len(s) # 0 /\ Head(s) = s[1]
  OBVIOUS
<1>2. /\ Tail(s) \in Seq(S) /\ Len(Tail(s)) = Len(s) - 1
      /\ \A i \in 1 .. Len(s) - 1 : Tail(s)[i] = s[i + 1]
  BY <1>1
<1>3. \A i, j \in 1 .. Len(s) : s[i] = s[j] => i = j
  BY DEF IsInjective
<1>4. \A i, j \in 1 .. Len(s) - 1 : Tail(s)[i] = Tail(s)[j] => i = j
  BY <1>1, <1>2, <1>3
<1>5. IsInjective(Tail(s))
  BY <1>2, <1>4 DEF IsInjective
<1>6. \A x : (\E i \in 1 .. Len(s) - 1 : Tail(s)[i] = x) <=> \E i \in 1 .. Len(s) : s[i] = x /\ i # 1
  <2> SUFFICES ASSUME NEW x
               PROVE  (\E i \in 1 .. Len(s) - 1 : Tail(s)[i] = x) <=> \E i \in 1 .. Len(s) : s[i] = x /\ i # 1
    OBVIOUS
  <2>1. ASSUME NEW i \in 1 .. Len(s) - 1, Tail(s)[i] = x
        PROVE  i + 1 \in 1 .. Len(s) /\ s[i + 1] = x /\ i + 1 # 1
    BY <1>1, <1>2, <2>1
  <2>2. ASSUME NEW i \in 1 .. Len(s), s[i] = x, i # 1
        PROVE  i - 1 \in 1 .. Len(s) - 1 /\ Tail(s)[i - 1] = x
    BY <1>1, <1>2, <2>2
  <2> QED
    BY <2>1, <2>2
<1>7. 1 \in 1 .. Len(s)
  BY <1>1
<1>8. \A x : x \in ToSet(Tail(s)) <=> x \in ToSet(s) /\ x # Head(s)
  <2>1. \A x : x \in ToSet(Tail(s)) <=> \E i \in 1 .. Len(s) - 1 : Tail(s)[i] = x
    BY <1>2, MemberAt
  <2>2. \A x : x \in ToSet(s) <=> \E i \in 1 .. Len(s) : s[i] = x
    BY MemberAt
  <2>3. \A x : (\E i \in 1 .. Len(s) : s[i] = x /\ i # 1) <=> (\E i \in 1 .. Len(s) : s[i] = x) /\ x # s[1]
    BY <1>3, <1>7
  <2> QED
    BY <1>1, <1>6, <2>1, <2>2, <2>3, Zenon
<1> QED
  BY <1>1, <1>2, <1>5, <1>7, <1>8, MemberAt

(* One is appended. *)
LEMMA AppendSet ==
  ASSUME NEW S, NEW s \in Seq(S), NEW x \in S
  PROVE  /\ ToSet(Append(s, x)) = ToSet(s) \cup {x}
         /\ IsInjective(s) /\ x \notin ToSet(s) => IsInjective(Append(s, x))
<1>1. Len(s) \in Nat
  OBVIOUS
<1>2. /\ Append(s, x) \in Seq(S) /\ Len(Append(s, x)) = Len(s) + 1
      /\ \A i \in 1 .. Len(s) : Append(s, x)[i] = s[i]
      /\ Append(s, x)[Len(s) + 1] = x
  OBVIOUS
<1>3. \A i \in 1 .. Len(s) + 1 : i \in 1 .. Len(s) \/ i = Len(s) + 1
  BY <1>1
<1>4. 1 .. Len(s) \subseteq 1 .. Len(s) + 1 /\ Len(s) + 1 \in 1 .. Len(s) + 1
  BY <1>1
<1>5. \A y : y \in ToSet(Append(s, x)) <=> y \in ToSet(s) \/ y = x
  <2>1. \A y : y \in ToSet(Append(s, x)) <=> \E i \in 1 .. Len(s) + 1 : Append(s, x)[i] = y
    <3>1. DOMAIN Append(s, x) = 1 .. Len(s) + 1
      BY <1>2
    <3> QED
      BY <3>1 DEF ToSet
  <2>2. \A y : y \in ToSet(s) <=> \E i \in 1 .. Len(s) : s[i] = y
    BY MemberAt
  <2>3. \A y : (\E i \in 1 .. Len(s) + 1 : Append(s, x)[i] = y) <=> (\E i \in 1 .. Len(s) : s[i] = y) \/ y = x
    BY <1>2, <1>3, <1>4
  <2> QED
    BY <2>1, <2>2, <2>3, Zenon
<1>6. ASSUME IsInjective(s), x \notin ToSet(s),
             NEW i \in 1 .. Len(s) + 1, NEW j \in 1 .. Len(s) + 1, Append(s, x)[i] = Append(s, x)[j]
      PROVE  i = j
  <2>1. \A k, l \in 1 .. Len(s) : s[k] = s[l] => k = l
    BY <1>6 DEF IsInjective
  <2>2. \A k \in 1 .. Len(s) : s[k] # x
    BY <1>6, MemberAt
  <2> QED
    BY <1>2, <1>3, <1>6, <2>1, <2>2
<1>7. DOMAIN Append(s, x) = 1 .. Len(s) + 1
  BY <1>2
<1> QED
  BY <1>5, <1>6, <1>7 DEF IsInjective

(* Two lists are joined. *)
LEMMA ConcatSet ==
  ASSUME NEW S, NEW s \in Seq(S), NEW r \in Seq(S)
  PROVE  /\ ToSet(s \o r) = ToSet(s) \cup ToSet(r)
         /\ IsInjective(s) /\ IsInjective(r) /\ ToSet(s) \cap ToSet(r) = {} => IsInjective(s \o r)
<1> DEFINE n == Len(s)
           m == Len(r)
           q == s \o r
<1>1. n \in Nat /\ m \in Nat
  OBVIOUS
<1>2. /\ q \in Seq(S) /\ Len(q) = n + m
      /\ \A i \in 1 .. n + m : q[i] = IF i <= n THEN s[i] ELSE r[i - n]
  BY ConcatProperties, Zenon
<1>3. DOMAIN q = 1 .. n + m /\ DOMAIN s = 1 .. n /\ DOMAIN r = 1 .. m
  BY <1>2
<1> HIDE DEF n, m, q
<1>4. ASSUME NEW i \in 1 .. n PROVE i \in 1 .. n + m /\ q[i] = s[i]
  BY <1>1, <1>2
<1>5. ASSUME NEW i \in 1 .. m PROVE n + i \in 1 .. n + m /\ q[n + i] = r[i]
  <2>1. n + i \in 1 .. n + m /\ ~(n + i <= n) /\ (n + i) - n = i
    BY <1>1
  <2> QED
    BY <1>2, <2>1
<1>6. ASSUME NEW i \in 1 .. n + m PROVE i \in 1 .. n \/ \E j \in 1 .. m : i = n + j
  <2>1. CASE i <= n
    BY <1>1, <2>1
  <2>2. CASE ~(i <= n)
    <3>1. i - n \in 1 .. m /\ i = n + (i - n)
      BY <1>1, <2>2
    <3> QED
      BY <3>1
  <2> QED
    BY <2>1, <2>2
<1>7. \A y : y \in ToSet(q) <=> y \in ToSet(s) \/ y \in ToSet(r)
  <2>1. \A y : y \in ToSet(q) <=> \E i \in 1 .. n + m : q[i] = y
    BY <1>3 DEF ToSet
  <2>2. \A y : y \in ToSet(s) <=> \E i \in 1 .. n : s[i] = y
    BY <1>3 DEF ToSet
  <2>3. \A y : y \in ToSet(r) <=> \E i \in 1 .. m : r[i] = y
    BY <1>3 DEF ToSet
  <2>4. ASSUME NEW y, y \in ToSet(q) PROVE y \in ToSet(s) \/ y \in ToSet(r)
    BY <1>4, <1>5, <1>6, <2>1, <2>2, <2>3, <2>4
  <2>5. ASSUME NEW y, y \in ToSet(s) \/ y \in ToSet(r) PROVE y \in ToSet(q)
    BY <1>4, <1>5, <2>1, <2>2, <2>3, <2>5
  <2> QED
    BY <2>4, <2>5
<1>8. ASSUME IsInjective(s), IsInjective(r), ToSet(s) \cap ToSet(r) = {},
             NEW i \in 1 .. n + m, NEW j \in 1 .. n + m, q[i] = q[j]
      PROVE  i = j
  <2>1. \A k, l \in 1 .. n : s[k] = s[l] => k = l
    BY <1>3, <1>8 DEF IsInjective
  <2>2. \A k, l \in 1 .. m : r[k] = r[l] => k = l
    BY <1>3, <1>8 DEF IsInjective
  <2>3. \A k \in 1 .. n, l \in 1 .. m : s[k] # r[l]
    BY <1>3, <1>8 DEF ToSet
  <2>4. CASE i \in 1 .. n /\ j \in 1 .. n
    BY <1>4, <1>8, <2>1, <2>4
  <2>5. CASE i \in 1 .. n /\ \E l \in 1 .. m : j = n + l
    BY <1>4, <1>5, <1>8, <2>3, <2>5
  <2>6. CASE j \in 1 .. n /\ \E l \in 1 .. m : i = n + l
    BY <1>4, <1>5, <1>8, <2>3, <2>6
  <2>7. CASE (\E l \in 1 .. m : j = n + l) /\ \E l \in 1 .. m : i = n + l
    <3>1. PICK k \in 1 .. m, l \in 1 .. m : i = n + k /\ j = n + l
      BY <2>7
    <3>2. r[k] = r[l]
      BY <1>5, <1>8, <3>1
    <3> QED
      BY <2>2, <3>1, <3>2
  <2> QED
    BY <1>6, <2>4, <2>5, <2>6, <2>7
<1>9. IsInjective(s) /\ IsInjective(r) /\ ToSet(s) \cap ToSet(r) = {} => IsInjective(q)
  BY <1>3, <1>8 DEF IsInjective
<1> QED
  BY <1>7, <1>9 DEF q

-----------------------------------------------------------------------------
(* Who owns the blocks.  A step of t moves blocks between the tree, the free *)
(* list and what t has reserved.                                            *)

Pool(t) == Live(disk) \cup ToSet(free_blocks) \cup Reserved(t)

Apart(t) ==
  /\ IsInjective(free_blocks)
  /\ ToSet(free_blocks) \cap Live(disk) = {}
  /\ Reserved(t) \cap (Live(disk) \cup ToSet(free_blocks)) = {}

(* What one thread may know of the owners, ... *)
LEMMA OwnedApart ==
  ASSUME TypeOK, BlocksOwnedOnce, NEW t \in Threads
  PROVE  Apart(t) /\ \A u \in Threads \ {t} : Reserved(u) \cap Pool(t) = {}
<1> DEFINE held == UNION {Reserved(u) : u \in Threads}
<1>1. IsInjective(free_blocks)
  BY InjectiveList DEF TypeOK, BlocksOwnedOnce
<1>2. \A u \in Threads : Reserved(u) \subseteq held
  OBVIOUS
<1>3. /\ ToSet(free_blocks) \cap Live(disk) = {}
      /\ held \cap (Live(disk) \cup ToSet(free_blocks)) = {}
      /\ \A u, v \in Threads : u # v => Reserved(u) \cap Reserved(v) = {}
  BY DEF BlocksOwnedOnce
<1> HIDE DEF held
<1> QED
  BY <1>1, <1>2, <1>3 DEF Apart, Pool

(* ... and when a step keeps one owner to each block. *)
LEMMA ApartOwned ==
  ASSUME TypeOK', BlocksOwnedOnce, TypeOK, NEW t \in Threads, OthersUnchanged(t),
         Apart(t)', Pool(t)' \subseteq Pool(t)
  PROVE  BlocksOwnedOnce'
<1> DEFINE held == UNION {Reserved(u) : u \in Threads}
<1>1. Cardinality(ToSet(free_blocks')) = Len(free_blocks')
  BY InjectiveList DEF TypeOK, Apart
<1>2. \A u \in Threads \ {t} : Reserved(u)' = Reserved(u)
  BY DEF OthersUnchanged, Reserved
<1>3. \A u \in Threads \ {t} : Reserved(u) \cap Pool(t) = {}
  BY OwnedApart
<1>4. \A u \in Threads : Reserved(u)' \cap (Live(disk)' \cup ToSet(free_blocks)') = {}
  <2> SUFFICES ASSUME NEW u \in Threads
               PROVE  Reserved(u)' \cap (Live(disk)' \cup ToSet(free_blocks)') = {}
    OBVIOUS
  <2>1. CASE u = t
    BY <2>1 DEF Apart
  <2>2. CASE u # t
    <3>1. Reserved(u)' = Reserved(u) /\ Reserved(u) \cap Pool(t) = {}
      BY <1>2, <1>3, <2>2
    <3>2. Live(disk)' \cup ToSet(free_blocks)' \subseteq Pool(t)'
      BY DEF Pool
    <3> QED
      BY <3>1, <3>2
  <2> QED
    BY <2>1, <2>2
<1>5. held' \cap (Live(disk)' \cup ToSet(free_blocks)') = {}
  BY <1>4
<1>6. ASSUME NEW u \in Threads, NEW v \in Threads, u # v
      PROVE  Reserved(u)' \cap Reserved(v)' = {}
  <2>1. Reserved(t)' \subseteq Pool(t)
    BY DEF Pool
  <2>2. CASE u # t /\ v # t
    BY <1>2, <1>6, <2>2 DEF BlocksOwnedOnce
  <2>3. CASE u = t
    BY <1>2, <1>3, <1>6, <2>1, <2>3
  <2>4. CASE v = t
    BY <1>2, <1>3, <1>6, <2>1, <2>4
  <2> QED
    BY <2>2, <2>3, <2>4
<1>7. ToSet(free_blocks)' \cap Live(disk)' = {}
  BY DEF Apart
<1> HIDE DEF held
<1> QED
  BY <1>1, <1>5, <1>6, <1>7 DEF BlocksOwnedOnce, held

-----------------------------------------------------------------------------
(* What a thread knows survives the steps of the others. *)

(* What it knows of its directory depends on that directory. *)
LEMMA KnowsDirKept ==
  ASSUME NEW step, NEW r, NEW a, NEW f, NEW d, NEW e,
         Locals(step, r, a, f), KnowsDir(step, r, a, f, d),
         HoldsDir(step, r) => Same(d, e, a.disk_block) /\ a.disk_block \in LiveInodes(e)
  PROVE  KnowsDir(step, r, a, f, e)
<1>1. step \in WithEntry \cup Created => HoldsDir(step, r)
  BY DEF WithEntry, Created, Found, HoldsDir, InDirectory
<1>2. CASE ~HoldsDir(step, r)
  BY <1>1, <1>2 DEF KnowsDir
<1>3. CASE HoldsDir(step, r)
  <2>1. Same(d, e, a.disk_block) /\ a.disk_block \in LiveInodes(e)
    BY <1>3
  <2>2. AsInode(e[a.disk_block]) = AsInode(d[a.disk_block])
    BY <2>1, SameView
  <2>3. CopyOfDir(a, f, d) => CopyOfDir(a, f, e)
    BY <2>2 DEF CopyOfDir
  <2>4. ~f.grown /\ CopyOfDir(a, f, d) /\ SameFolders(a, d) => SameFolders(a, e)
    <3> SUFFICES ASSUME ~f.grown, CopyOfDir(a, f, d), SameFolders(a, d) PROVE SameFolders(a, e)
      OBVIOUS
    <3>1. a.inode = AsInode(d[a.disk_block])
      BY DEF CopyOfDir
    <3>2. a.inode.blocks[a.blocks_index] \in DataBlocksOf(d, a.disk_block)
      BY <3>1 DEF SameFolders, DataBlocksOf
    <3> QED
      BY <2>1, <3>2 DEF SameFolders, Same
  <2>5. step \in WithEntry => ~f.grown
    BY DEF Locals, WithEntry, Found
  <2>6. NoSuchEntry(r, a, d) => NoSuchEntry(r, a, e)
    <3>1. Entries(e, a.disk_block) = Entries(d, a.disk_block)
      BY <2>1, SameView
    <3>2. \A s \in Entries(d, a.disk_block) :
            EntryAt(e, AsInode(e[a.disk_block]), s) = EntryAt(d, AsInode(d[a.disk_block]), s)
      BY <2>1, SameView DEF Entries
    <3> QED
      BY <3>1, <3>2 DEF NoSuchEntry
  <2>7. CopyOfDir(a, f, d) /\ PlaceForEntry(step, a, f, d) => PlaceForEntry(step, a, f, e)
    BY <2>4 DEF PlaceForEntry
  <2> QED
    BY <2>1, <2>3, <2>4, <2>5, <2>6, <2>7 DEF KnowsDir, EntryFound
<1> QED
  BY <1>2, <1>3

(* It depends on the inodes it works on, and on the blocks it has reserved.  *)
LEMMA KnowsKept ==
  ASSUME NEW step, NEW r, NEW a, NEW f, NEW d, NEW e,
         Locals(step, r, a, f), Knows(step, r, a, f, d),
         HoldsDir(step, r) => Same(d, e, a.disk_block) /\ a.disk_block \in LiveInodes(e),
         step \in OnTarget => Same(d, e, f.target) /\ f.target \in LiveInodes(e),
         \A b \in ReservedBy(step, a, f) : e[b] = d[b], f.new_block # 0 \/ step # "write_folder",
         f.new_block # 0 \/ step # "write_parent"
  PROVE  Knows(step, r, a, f, e)
<1> USE DEF Knows
<1>1. KnowsDir(step, r, a, f, e)
  BY KnowsDirKept
<1>2. KnowsTarget(step, r, a, f, e)
  <2>1. CASE step \in OnTarget
    <3>1. AsInode(e[f.target]) = AsInode(d[f.target]) /\ f.target \in LiveInodes(e)
      BY <2>1, SameView
    <3> QED
      BY <3>1 DEF KnowsTarget, CopyOfTarget
  <2>2. CASE step \notin OnTarget
    BY <2>2 DEF KnowsTarget, OnTarget, OnFile
  <2> QED
    BY <2>1, <2>2
<1>3. KnowsReserved(step, r, a, f, e)
  <2>1. step \in {"write_folder", "write_parent"} => f.new_block \in ReservedBy(step, a, f)
    BY DEF Locals, Decided, ReservedBy
  <2>2. step = "write_parent" => Last(a.inode.blocks) \in ReservedBy(step, a, f)
    BY DEF Locals, Decided, ReservedBy
  <2>3. step = "append_inode" => Last(f.file.blocks) \in ReservedBy(step, a, f)
    BY DEF Locals, Decided, ReservedBy
  <2> QED
    BY <2>1, <2>2, <2>3 DEF KnowsReserved
<1> QED
  BY <1>1, <1>2, <1>3

(* What IInv says of one thread. *)
Mine(t) ==
  /\ HasLocks(t)
  /\ Locals(pc[t], req[t], args[t], frame[t])
  /\ Knows(pc[t], req[t], args[t], frame[t], disk)

(* Its parts, for a thread. *)
LEMMA IInvParts ==
  ASSUME IInv, NEW t \in Threads
  PROVE  /\ TypeOK /\ StepShape(t) /\ OneWriter /\ SoundDisk(disk) /\ BlocksOwnedOnce
         /\ HasLocks(t) /\ Locals(pc[t], req[t], args[t], frame[t])
         /\ KnowsDir(pc[t], req[t], args[t], frame[t], disk)
         /\ KnowsTarget(pc[t], req[t], args[t], frame[t], disk)
         /\ KnowsReserved(pc[t], req[t], args[t], frame[t], disk)
         /\ pc[t] \in Steps /\ req[t] \in Request /\ args[t] \in Args /\ frame[t] \in Frame
         /\ disk \in [Blocks -> Content]
         /\ pc[t] # "idle" => boot = FS_DISKSIZE
         /\ pc[t] # "idle" => req[t].op \in Ops /\ req[t].user \in Users
         /\ pc[t] \in Created => frame[t].new_block # 0
<1>1. TypeOK /\ StepShape(t)
  BY DEF IInv, LockInv, TypeInv
<1>2. OneWriter /\ SoundDisk(disk) /\ BlocksOwnedOnce
  BY DEF IInv
<1>3. HasLocks(t) /\ Locals(pc[t], req[t], args[t], frame[t]) /\ Knows(pc[t], req[t], args[t], frame[t], disk)
  BY DEF IInv
<1>4. pc[t] \in Steps /\ req[t] \in Request /\ args[t] \in Args /\ frame[t] \in Frame
  BY <1>1, ThreadTypes
<1>5. disk \in [Blocks -> Content] /\ boot \in 0 .. FS_DISKSIZE
  BY <1>1 DEF TypeOK
<1>6. pc[t] # "idle" => boot = FS_DISKSIZE
  <2>1. boot < FS_DISKSIZE => pc[t] = "idle"
    BY DEF IInv, Booting
  <2> QED
    BY <1>5, <2>1, LayoutAssumption
<1>7. pc[t] # "idle" => req[t].op \in Ops /\ req[t].user \in Users
  BY <1>3, ServerAssumption DEF Locals
<1>8. pc[t] \in Created => frame[t].new_block # 0
  BY <1>1, <1>3 DEF StepShape, Locals, Created, Without
<1> QED
  BY <1>1, <1>2, <1>3, <1>4, <1>5, <1>6, <1>7, <1>8 DEF Knows

(* The locks a step of t may take or release. *)
LockStep(t) ==
  \/ UNCHANGED locks
  \/ \E b \in Blocks : RdLock(t, b) \/ WrLock(t, b) \/ Unlock(t, b)

(* It leaves the others theirs, and gives no block a second writer. *)
LEMMA LocksOfOthers ==
  ASSUME TypeOK, OneWriter, NEW t \in Threads, LockStep(t)
  PROVE  /\ OneWriter'
         /\ \A u \in Threads \ {t}, c \in Blocks :
              (u \in rdlock'[c] <=> u \in rdlock[c]) /\ (u \in wrlock'[c] <=> u \in wrlock[c])
<1>1. rdlock \in [Blocks -> SUBSET Threads] /\ wrlock \in [Blocks -> SUBSET Threads]
  BY DEF TypeOK
<1>2. CASE UNCHANGED locks
  BY <1>2 DEF locks, OneWriter
<1>3. CASE \E b \in Blocks : RdLock(t, b)
  <2>1. PICK b \in Blocks : RdLock(t, b)
    BY <1>3
  <2>2. wrlock' = wrlock /\ wrlock[b] = {} /\ \A c \in Blocks : c # b => rdlock'[c] = rdlock[c]
    BY <1>1, <2>1 DEF RdLock, MayRead
  <2>3. rdlock'[b] = rdlock[b] \cup {t}
    BY <1>1, <2>1 DEF RdLock
  <2> QED
    BY <2>2, <2>3 DEF OneWriter
<1>4. CASE \E b \in Blocks : WrLock(t, b)
  <2>1. PICK b \in Blocks : WrLock(t, b)
    BY <1>4
  <2>2. rdlock' = rdlock /\ wrlock[b] = {} /\ rdlock[b] = {} /\ \A c \in Blocks : c # b => wrlock'[c] = wrlock[c]
    BY <1>1, <2>1 DEF WrLock, MayWrite
  <2>3. wrlock'[b] = {t}
    BY <1>1, <2>1, <2>2 DEF WrLock
  <2> QED
    BY <2>2, <2>3 DEF OneWriter
<1>5. CASE \E b \in Blocks : Unlock(t, b)
  <2>1. PICK b \in Blocks : Unlock(t, b)
    BY <1>5
  <2>2. \A c \in Blocks : c # b => wrlock'[c] = wrlock[c] /\ rdlock'[c] = rdlock[c]
    BY <1>1, <2>1 DEF Unlock
  <2>3. wrlock'[b] = wrlock[b] \ {t} /\ rdlock'[b] = rdlock[b] \ {t}
    BY <1>1, <2>1 DEF Unlock
  <2> QED
    BY <2>2, <2>3 DEF OneWriter
<1> QED
  BY <1>2, <1>3, <1>4, <1>5 DEF LockStep

(* What a thread works on is locked, so a writer's block is nobody else's.  *)
LEMMA LockedByOthers ==
  ASSUME IInv, NEW t \in Threads, NEW u \in Threads, u # t, NEW D \in Blocks, t \in wrlock[D]
  PROVE  /\ HoldsDir(pc[u], req[u]) => args[u].disk_block # D
         /\ HoldsTarget(pc[u]) => frame[u].target # D
<1>1. u \notin wrlock[D] /\ u \notin rdlock[D]
  BY DEF IInv, OneWriter
<1>2. HasLocks(u)
  BY DEF IInv
<1> QED
  BY <1>1, <1>2 DEF HasLocks

OthersKnow(t) ==
  \A u \in Threads \ {t} : Knows(pc[u], req[u], args[u], frame[u], disk)

(* A thread may change the inode it has locked to write, take one that it   *)
(* has locked to write out of the tree, and write what it has reserved.     *)
LEMMA OthersKeepKnowing ==
  ASSUME IInv, NEW t \in Threads, OthersUnchanged(t), NEW D \in Blocks, t \in wrlock[D],
         NEW gone \in SUBSET Blocks, \A b \in gone : t \in wrlock[b],
         SameBut(disk, disk', D), LiveInodes(disk) \ gone \subseteq LiveInodes(disk'),
         \A b : disk'[b] = disk[b] \/ b \in Live(disk) \cup Reserved(t)
  PROVE  OthersKnow(t)'
<1> SUFFICES ASSUME NEW u \in Threads, u # t
             PROVE  Knows(pc[u], req[u], args[u], frame[u], disk')
  BY DEF OthersKnow, OthersUnchanged
<1>1. /\ TypeOK /\ BlocksOwnedOnce /\ Locals(pc[u], req[u], args[u], frame[u])
      /\ Knows(pc[u], req[u], args[u], frame[u], disk)
      /\ pc[u] \in Created => frame[u].new_block # 0
  BY IInvParts DEF Knows
<1>2. HoldsDir(pc[u], req[u]) => /\ args[u].disk_block # D /\ args[u].disk_block \notin gone
                                 /\ args[u].disk_block \in LiveInodes(disk)
  BY <1>1, LockedByOthers DEF Knows, KnowsDir
<1>3. pc[u] \in OnTarget => /\ frame[u].target # D /\ frame[u].target \notin gone
                            /\ frame[u].target \in LiveInodes(disk)
  BY <1>1, LockedByOthers DEF Knows, KnowsTarget, HoldsTarget
<1>4. \A b \in ReservedBy(pc[u], args[u], frame[u]) : disk'[b] = disk[b]
  <2>1. Reserved(u) \cap Pool(t) = {}
    BY <1>1, OwnedApart
  <2> QED
    BY <2>1 DEF Pool, Reserved
<1>5. HoldsDir(pc[u], req[u]) =>
        Same(disk, disk', args[u].disk_block) /\ args[u].disk_block \in LiveInodes(disk')
  BY <1>2 DEF SameBut
<1>6. pc[u] \in OnTarget =>
        Same(disk, disk', frame[u].target) /\ frame[u].target \in LiveInodes(disk')
  BY <1>3 DEF SameBut
<1>7. (frame[u].new_block # 0 \/ pc[u] # "write_folder") /\ (frame[u].new_block # 0 \/ pc[u] # "write_parent")
  BY <1>1 DEF Created
<1> QED
  BY <1>1, <1>4, <1>5, <1>6, <1>7, KnowsKept

(* The step may take nothing out of the tree. *)
LEMMA OthersStillKnow ==
  ASSUME IInv, NEW t \in Threads, OthersUnchanged(t), NEW D \in Blocks, t \in wrlock[D],
         SameBut(disk, disk', D), LiveInodes(disk) \subseteq LiveInodes(disk'),
         \A b : disk'[b] = disk[b] \/ b \in Live(disk) \cup Reserved(t)
  PROVE  OthersKnow(t)'
<1>1. PICK gone : gone = {}
  OBVIOUS
<1>2. gone \in SUBSET Blocks /\ (\A b \in gone : t \in wrlock[b])
      /\ LiveInodes(disk) \ gone \subseteq LiveInodes(disk')
  BY <1>1
<1> QED
  BY <1>2, OthersKeepKnowing

(* A step of t keeps the invariant when it does its part. *)
LEMMA StepKeepsIInv ==
  ASSUME IInv, [Next]_vars, NEW t \in Threads, OthersUnchanged(t), LockStep(t),
         boot = FS_DISKSIZE, boot' = boot,
         SoundDisk(disk'), Apart(t)', Pool(t)' \subseteq Pool(t), OthersKnow(t)', Mine(t)'
  PROVE  IInv'
<1>1. LockInv'
  BY NextLockInv DEF IInv
<1>2. TypeOK /\ TypeOK' /\ OneWriter /\ BlocksOwnedOnce
  BY <1>1 DEF IInv, LockInv, TypeInv
<1>3. OneWriter' /\ \A u \in Threads \ {t}, c \in Blocks :
              (u \in rdlock'[c] <=> u \in rdlock[c]) /\ (u \in wrlock'[c] <=> u \in wrlock[c])
  BY <1>2, LocksOfOthers
<1>4. BlocksOwnedOnce'
  BY <1>2, ApartOwned
<1>5. Booting'
  BY LayoutAssumption DEF Booting
<1>6. ASSUME NEW u \in Threads \ {t} PROVE Mine(u)'
  <2>1. pc'[u] = pc[u] /\ req'[u] = req[u] /\ args'[u] = args[u] /\ frame'[u] = frame[u]
    BY DEF OthersUnchanged
  <2>2. HasLocks(u) /\ Locals(pc[u], req[u], args[u], frame[u])
    BY IInvParts
  <2>3. args[u].disk_block \in Blocks /\ frame[u].target \in Blocks
    BY <1>2, ThreadTypes DEF Args, Frame
  <2>4. HasLocks(u)'
    BY <1>3, <2>1, <2>2, <2>3 DEF HasLocks
  <2>5. Knows(pc'[u], req'[u], args'[u], frame'[u], disk')
    BY DEF OthersKnow
  <2> QED
    BY <2>1, <2>2, <2>4, <2>5 DEF Mine
<1>7. \A u \in Threads : Mine(u)'
  BY <1>6
<1> QED
  BY <1>1, <1>3, <1>4, <1>5, <1>7 DEF IInv, Mine

(* A step that writes no block leaves the disk sound and the others knowing. *)
LEMMA DiskUnchanged ==
  ASSUME IInv, NEW t \in Threads, OthersUnchanged(t), disk' = disk
  PROVE  SoundDisk(disk') /\ OthersKnow(t)'
<1>1. \A u \in Threads \ {t} : Knows(pc[u], req[u], args[u], frame[u], disk)
  BY DEF IInv
<1> QED
  BY <1>1 DEF IInv, OthersKnow, OthersUnchanged

-----------------------------------------------------------------------------
(* What an action of t has to do: keep the disk sound, leave the others what *)
(* they know, know what its next step needs, and move blocks between the    *)
(* tree, the free list and itself; blocks go missing only when the walk of  *)
(* a create fails.                                                          *)
DoesItsPart(t) ==
  /\ SoundDisk(disk') /\ OthersKnow(t)' /\ Mine(t)'
  /\ Apart(t)' /\ Pool(t)' \subseteq Pool(t)
  /\ Pool(t) \ Pool(t)' \subseteq {frame[u].new_block : u \in FailingCreates}

(* A step that moves no block. *)
LEMMA MovesNothing ==
  ASSUME IInv, NEW t \in Threads, OthersUnchanged(t), disk' = disk, free_blocks' = free_blocks,
         Reserved(t)' = Reserved(t), Mine(t)'
  PROVE  DoesItsPart(t)
<1>1. Apart(t)
  BY IInvParts, OwnedApart
<1>2. Apart(t)' /\ Pool(t)' = Pool(t)
  BY <1>1 DEF Apart, Pool
<1> QED
  BY <1>2, DiskUnchanged DEF DoesItsPart

(* A step that moves blocks between the free list and t. *)
LEMMA MovesFree ==
  ASSUME IInv, NEW t \in Threads, OthersUnchanged(t), disk' = disk, IsInjective(free_blocks'),
         ToSet(free_blocks') \cup Reserved(t)' = ToSet(free_blocks) \cup Reserved(t),
         ToSet(free_blocks') \cap Reserved(t)' = {}, Mine(t)'
  PROVE  DoesItsPart(t)
<1>1. Apart(t)
  BY IInvParts, OwnedApart
<1>2. Apart(t)' /\ Pool(t)' = Pool(t)
  BY <1>1 DEF Apart, Pool
<1> QED
  BY <1>2, DiskUnchanged DEF DoesItsPart

(* A step that moves blocks between the tree and t. *)
LEMMA MovesLive ==
  ASSUME IInv, NEW t \in Threads, SoundDisk(disk'), OthersKnow(t)', Mine(t)',
         free_blocks' = free_blocks,
         Live(disk') \cup Reserved(t)' = Live(disk) \cup Reserved(t),
         Live(disk') \cap Reserved(t)' = {}
  PROVE  DoesItsPart(t)
<1>1. Apart(t)
  BY IInvParts, OwnedApart
<1>2. Apart(t)' /\ Pool(t)' = Pool(t)
  BY <1>1 DEF Apart, Pool
<1> QED
  BY <1>2 DEF DoesItsPart

(* A step that drops what t has reserved: only a failing create may. *)
LEMMA FailsWalk ==
  ASSUME IInv, NEW t \in Threads, OthersUnchanged(t), disk' = disk, free_blocks' = free_blocks,
         Reserved(t)' = {}, Reserved(t) = {frame[t].new_block} \ {0},
         frame[t].new_block # 0 => t \in FailingCreates, Mine(t)'
  PROVE  DoesItsPart(t)
<1>1. Apart(t)
  BY IInvParts, OwnedApart
<1>2. Apart(t)' /\ Pool(t)' \subseteq Pool(t)
  BY <1>1 DEF Apart, Pool
<1>3. Pool(t) \ Pool(t)' \subseteq {frame[u].new_block : u \in FailingCreates}
  <2> SUFFICES ASSUME NEW b \in Pool(t) \ Pool(t)' PROVE \E u \in FailingCreates : b = frame[u].new_block
    OBVIOUS
  <2>1. b = frame[t].new_block /\ b # 0
    BY DEF Pool
  <2> QED
    BY <2>1
<1> QED
  BY <1>2, <1>3, DiskUnchanged DEF DoesItsPart

(* A thread without locks needs to know nothing. *)
LEMMA KnowsNothing ==
  ASSUME NEW step \in {"idle", "begin", "lock_root", "reply"}, NEW r, NEW a, NEW f, NEW d,
         f.to_free = << >>
  PROVE  Knows(step, r, a, f, d) /\ ~HoldsDir(step, r) /\ ~HoldsTarget(step)
<1>1. IsInjective(f.to_free)
  BY DEF IsInjective
<1>2. KnowsDir(step, r, a, f, d)
  BY DEF KnowsDir, HoldsDir, InDirectory, WithEntry, Found, Created
<1>3. KnowsTarget(step, r, a, f, d)
  BY DEF KnowsTarget, HoldsTarget, OnTarget, OnFile
<1>4. KnowsReserved(step, r, a, f, d)
  BY <1>1 DEF KnowsReserved
<1> QED
  BY <1>2, <1>3, <1>4 DEF Knows, HoldsDir, InDirectory, HoldsTarget, OnTarget

(* A thread between two directories or on its way out knows where it is. *)
LEMMA KnowsPlace ==
  ASSUME NEW step \in {"search", "unlock_last", "unlock_parent", "unlock_target", "release"},
         NEW r, NEW a, NEW f, NEW d,
         a.disk_block \in LiveInodes(d) \/ (step = "unlock_target" /\ r.op # "delete"),
         step \in {"unlock_target", "release"} /\ HoldsDir(step, r) => f.target # a.disk_block,
         IsInjective(f.to_free)
  PROVE  Knows(step, r, a, f, d)
<1>1. KnowsDir(step, r, a, f, d)
  BY DEF KnowsDir, HoldsDir, InDirectory, WithEntry, Found, Created
<1>2. KnowsTarget(step, r, a, f, d)
  BY DEF KnowsTarget, HoldsTarget, OnTarget, OnFile
<1>3. KnowsReserved(step, r, a, f, d)
  BY DEF KnowsReserved
<1> QED
  BY <1>1, <1>2, <1>3 DEF Knows

(* A handler has returned. *)
LEMMA ReturnMine ==
  ASSUME IInv, NEW t \in Threads, pc[t] # "idle", NEW ret \in {"ok", "fail"}, NEW buf \in Data,
         NEW from, Return(t, from, ret, buf), req'[t] = req[t]
  PROVE  Mine(t)' /\ Reserved(t)' = {}
<1>1. TypeOK /\ Locals(pc[t], req[t], args[t], frame[t])
  BY IInvParts
<1>2. pc'[t] = "reply" /\ frame'[t] = [NoFrame EXCEPT !.ret = ret, !.buf = buf]
  BY <1>1 DEF Return, Goto, TypeOK
<1>3. /\ frame'[t].path_index = 1 /\ frame'[t].new_block = 0 /\ frame'[t].grown = FALSE
      /\ frame'[t].to_free = << >> /\ frame'[t].ret = ret
  BY <1>2 DEF NoFrame
<1>4. Knows(pc'[t], req'[t], args'[t], frame'[t], disk') /\ HasLocks(t)'
  <2>1. /\ Knows(pc'[t], req'[t], args'[t], frame'[t], disk')
        /\ ~HoldsDir(pc'[t], req'[t]) /\ ~HoldsTarget(pc'[t])
    <3>1. pc'[t] \in {"idle", "begin", "lock_root", "reply"} /\ frame'[t].to_free = << >>
      BY <1>2, <1>3
    <3> QED
      BY ONLY <3>1, KnowsNothing
  <2> QED
    BY <2>1 DEF HasLocks
<1>5. Locals(pc'[t], req'[t], args'[t], frame'[t])
  BY <1>1, <1>2, <1>3 DEF Locals, Without, AtLastName, Created, Decided
<1>6. Reserved(t)' = {}
  BY <1>2, <1>3 DEF Reserved, ReservedBy, ToSet
<1> QED
  BY <1>4, <1>5, <1>6 DEF Mine

(* A connection is accepted. *)
LEMMA AcceptKeeps ==
  ASSUME IInv, NEW t \in Threads, Accept(t)
  PROVE  OthersUnchanged(t) /\ LockStep(t) /\ boot = FS_DISKSIZE /\ boot' = boot /\ DoesItsPart(t)
<1>1. /\ TypeOK /\ Locals(pc[t], req[t], args[t], frame[t])
  BY IInvParts
<1>2. /\ pc[t] = "idle" /\ pc'[t] = "begin" /\ args'[t] = args[t] /\ frame'[t] = frame[t]
      /\ req'[t] \in Requests
  BY <1>1 DEF Accept, Goto, TypeOK
<1>3. OthersUnchanged(t)
  BY <1>1 DEF Accept, Goto, TypeOK, OthersUnchanged
<1>4. LockStep(t) /\ boot = FS_DISKSIZE /\ boot' = boot /\ disk' = disk /\ free_blocks' = free_blocks
  BY DEF Accept, LockStep
<1>5. frame[t].to_free = << >>
  BY <1>1, <1>2 DEF Locals, Without
<1>6. Knows(pc'[t], req'[t], args'[t], frame'[t], disk') /\ HasLocks(t)'
  BY <1>2, <1>5, KnowsNothing DEF HasLocks
<1>7. Locals(pc'[t], req'[t], args'[t], frame'[t])
  BY <1>1, <1>2 DEF Locals, Without, AtLastName, Created, Decided
<1>8. Reserved(t)' = Reserved(t)
  BY <1>2 DEF Reserved, ReservedBy
<1> QED
  BY <1>3, <1>4, <1>6, <1>7, <1>8, MovesNothing DEF Mine

(* The connection is closed. *)
LEMMA ReplyKeeps ==
  ASSUME IInv, NEW t \in Threads, Reply(t)
  PROVE  OthersUnchanged(t) /\ LockStep(t) /\ boot' = boot /\ DoesItsPart(t)
<1>1. /\ TypeOK /\ Locals(pc[t], req[t], args[t], frame[t])
  BY IInvParts
<1>2. pc[t] = "reply" /\ pc'[t] = "idle" /\ args'[t] = args[t] /\ frame'[t] = NoFrame
      /\ req'[t] = NoRequest
  BY <1>1 DEF Reply, Goto, TypeOK
<1>3. OthersUnchanged(t)
  BY <1>1 DEF Reply, Goto, TypeOK, OthersUnchanged
<1>4. LockStep(t) /\ boot' = boot /\ disk' = disk /\ free_blocks' = free_blocks
  BY DEF Reply, LockStep, server
<1>5. /\ frame'[t].path_index = 1 /\ frame'[t].new_block = 0 /\ frame'[t].grown = FALSE
      /\ frame'[t].to_free = << >> /\ frame'[t].ret = "none"
  BY <1>2 DEF NoFrame
<1>6. Knows(pc'[t], req'[t], args'[t], frame'[t], disk') /\ HasLocks(t)'
  BY <1>2, <1>5, KnowsNothing DEF HasLocks
<1>7. Locals(pc'[t], req'[t], args'[t], frame'[t])
  BY <1>1, <1>2, <1>5 DEF Locals, Without, AtLastName, Created, Decided
<1>8. Reserved(t)' = {}
  BY <1>2, <1>5 DEF Reserved, ReservedBy, ToSet
<1>9. Reserved(t) = {}
  BY <1>1, <1>2 DEF Reserved, ReservedBy, ToSet, Locals, Without, Decided
<1> QED
  BY <1>3, <1>4, <1>6, <1>7, <1>8, <1>9, MovesNothing DEF Mine

(* A step of t's: it is of t's alone, takes or releases one lock at most,   *)
(* and is taken by a running server.                                        *)
Alone(t) == OthersUnchanged(t) /\ LockStep(t) /\ boot' = boot

(* create_entry reserves a block. *)
LEMMA BeginCreateKeeps ==
  ASSUME IInv, NEW t \in Threads, BeginCreate(t)
  PROVE  Alone(t) /\ DoesItsPart(t)
<1>1. /\ TypeOK /\ Locals(pc[t], req[t], args[t], frame[t]) /\ args[t] \in Args /\ frame[t] \in Frame
  BY IInvParts
<1>2. pc[t] = "begin" /\ req[t].op = "create" /\ req' = req /\ disk' = disk
  BY DEF BeginCreate
<1>3. OthersUnchanged(t)
  BY <1>1 DEF BeginCreate, Goto, Return, TypeOK, OthersUnchanged
<1>4. LockStep(t) /\ boot' = boot
  BY DEF BeginCreate, LockStep, server
<1>5. Reserved(t) = {}
  BY <1>1, <1>2 DEF Reserved, ReservedBy, ToSet, Locals, Without, Decided
<1>6. CASE req[t].type \notin {"f", "d"} \/ free_blocks = << >>
  <2>1. Return(t, "begin", "fail", Zero) /\ free_blocks' = free_blocks
    BY <1>6 DEF BeginCreate
  <2>2. Mine(t)' /\ Reserved(t)' = {}
    BY <1>2, <2>1, ReturnMine, LayoutAssumption
  <2> QED
    BY <1>2, <1>3, <1>4, <1>5, <2>1, <2>2, MovesNothing DEF Alone
<1>7. CASE ~(req[t].type \notin {"f", "d"} \/ free_blocks = << >>)
  <2> DEFINE new == Head(free_blocks)
  <2>1. free_blocks \in Seq(Blocks) /\ free_blocks # << >> /\ IsInjective(free_blocks)
        /\ ToSet(free_blocks) \cap Live(disk) = {}
    BY <1>1, <1>7, IInvParts, OwnedApart DEF TypeOK, Apart
  <2>2. /\ new \in ToSet(free_blocks) /\ IsInjective(Tail(free_blocks))
        /\ ToSet(Tail(free_blocks)) = ToSet(free_blocks) \ {new}
    BY <2>1, TailSet
  <2>3. free_blocks' = Tail(free_blocks) /\ args' = args /\ Goto(t, "begin", "lock_root")
        /\ frame' = [frame EXCEPT ![t].new_block = new]
    BY <1>7 DEF BeginCreate
  <2> HIDE DEF new
  <2>4. /\ pc'[t] = "lock_root" /\ args'[t] = args[t] /\ req'[t] = req[t]
        /\ frame'[t].new_block = new /\ frame'[t].path_index = frame[t].path_index
        /\ frame'[t].grown = frame[t].grown /\ frame'[t].to_free = frame[t].to_free
        /\ frame'[t].ret = frame[t].ret
    BY <1>1, <1>2, <2>3 DEF Goto, TypeOK, Frame
  <2>5. new # 0
    BY <2>1, <2>2, LiveInodesLeast, <1>1 DEF TypeOK, Live
  <2>6. Locals(pc'[t], req'[t], args'[t], frame'[t])
    BY <1>1, <1>2, <2>4, <2>5 DEF Locals, Without, AtLastName, Created, Decided
  <2>7. frame'[t].to_free = << >>
    BY <1>1, <1>2, <2>4 DEF Locals, Without
  <2>8. Knows(pc'[t], req'[t], args'[t], frame'[t], disk') /\ HasLocks(t)'
    BY <2>4, <2>7, KnowsNothing DEF HasLocks
  <2>9. Reserved(t)' = {new}
    BY <1>1, <1>2, <2>4, <2>5, <2>7 DEF Reserved, ReservedBy, ToSet, Locals, Without, Decided
  <2> QED
    BY <1>2, <1>3, <1>4, <1>5, <2>2, <2>3, <2>6, <2>8, <2>9, MovesFree DEF Mine, Alone
<1> QED
  BY <1>6, <1>7

(* delete_entry begins. *)
LEMMA BeginDeleteKeeps ==
  ASSUME IInv, NEW t \in Threads, BeginDelete(t)
  PROVE  Alone(t) /\ DoesItsPart(t)
<1>1. /\ TypeOK /\ Locals(pc[t], req[t], args[t], frame[t])
  BY IInvParts
<1>2. /\ pc[t] = "begin" /\ pc'[t] = "lock_root" /\ req[t].op = "delete" /\ req' = req
      /\ args' = args /\ frame' = frame /\ disk' = disk /\ free_blocks' = free_blocks
  BY <1>1 DEF BeginDelete, Goto, TypeOK
<1>3. OthersUnchanged(t)
  BY <1>1 DEF BeginDelete, Goto, TypeOK, OthersUnchanged
<1>4. LockStep(t) /\ boot' = boot
  BY DEF BeginDelete, LockStep, server
<1>5. Locals(pc'[t], req'[t], args'[t], frame'[t])
  BY <1>1, <1>2 DEF Locals, Without, AtLastName, Created, Decided
<1>6. Knows(pc'[t], req'[t], args'[t], frame'[t], disk') /\ HasLocks(t)'
  BY <1>1, <1>2, KnowsNothing DEF HasLocks, Locals, Without
<1>7. Reserved(t)' = Reserved(t)
  BY <1>2 DEF Reserved, ReservedBy
<1> QED
  BY <1>2, <1>3, <1>4, <1>5, <1>6, <1>7, MovesNothing DEF Mine, Alone

(* access_entry begins. *)
LEMMA BeginAccessKeeps ==
  ASSUME IInv, NEW t \in Threads, BeginAccess(t)
  PROVE  Alone(t) /\ DoesItsPart(t)
<1>1. /\ TypeOK /\ Locals(pc[t], req[t], args[t], frame[t])
  BY IInvParts
<1>2. /\ pc[t] = "begin" /\ req[t].op \in {"read", "write"} /\ req' = req
      /\ disk' = disk /\ free_blocks' = free_blocks
  BY <1>1 DEF BeginAccess
<1>3. OthersUnchanged(t)
  BY <1>1 DEF BeginAccess, Goto, Return, TypeOK, OthersUnchanged
<1>4. LockStep(t) /\ boot' = boot
  BY DEF BeginAccess, LockStep, server
<1>5. Reserved(t) = {}
  BY <1>1, <1>2 DEF Reserved, ReservedBy, ToSet, Locals, Without, Decided
<1>6. CASE req[t].block >= FS_MAXFILEBLOCKS
  <2>1. Return(t, "begin", "fail", Zero)
    BY <1>6 DEF BeginAccess
  <2>2. Mine(t)' /\ Reserved(t)' = {}
    BY <1>2, <2>1, ReturnMine, LayoutAssumption
  <2> QED
    BY <1>2, <1>3, <1>4, <1>5, <2>2, MovesNothing DEF Alone
<1>7. CASE ~(req[t].block >= FS_MAXFILEBLOCKS)
  <2>1. pc'[t] = "lock_root" /\ args' = args /\ frame' = frame
    BY <1>1, <1>7 DEF BeginAccess, Goto, TypeOK
  <2>2. Locals(pc'[t], req'[t], args'[t], frame'[t])
    BY <1>1, <1>2, <2>1 DEF Locals, Without, AtLastName, Created, Decided
  <2>3. Knows(pc'[t], req'[t], args'[t], frame'[t], disk') /\ HasLocks(t)'
    BY <1>1, <1>2, <2>1, KnowsNothing DEF HasLocks, Locals, Without
  <2>4. Reserved(t)' = Reserved(t)
    BY <1>2, <2>1 DEF Reserved, ReservedBy
  <2> QED
    BY <1>2, <1>3, <1>4, <2>2, <2>3, <2>4, MovesNothing DEF Mine, Alone
<1> QED
  BY <1>6, <1>7

-----------------------------------------------------------------------------
(* The walk. *)

(* A lock taken is held, and those held before stay. *)
LEMMA LockTaken ==
  ASSUME TypeOK, NEW t \in Threads, NEW b \in Blocks
  PROVE  /\ RdLock(t, b) => /\ t \in rdlock'[b] /\ wrlock' = wrlock
                            /\ \A c \in Blocks : t \in rdlock[c] => t \in rdlock'[c]
         /\ WrLock(t, b) => /\ t \in wrlock'[b] /\ rdlock' = rdlock
                            /\ \A c \in Blocks : t \in wrlock[c] => t \in wrlock'[c]
         /\ Unlock(t, b) => \A c \in Blocks \ {b} : rdlock'[c] = rdlock[c] /\ wrlock'[c] = wrlock[c]
  BY DEF TypeOK, RdLock, WrLock, Unlock

(* The root is locked. *)
LEMMA LockRootKeeps ==
  ASSUME IInv, NEW t \in Threads, LockRoot(t)
  PROVE  Alone(t) /\ DoesItsPart(t)
<1>1. /\ TypeOK /\ StepShape(t) /\ Locals(pc[t], req[t], args[t], frame[t])
      /\ args[t] \in Args /\ frame[t] \in Frame /\ req[t] \in Request
  BY IInvParts
<1>2. /\ pc[t] = "lock_root" /\ req' = req /\ args' = args /\ disk' = disk /\ free_blocks' = free_blocks
      /\ LockForWalk(t, 0, 1)
  BY DEF LockRoot, Goto
<1>3. OthersUnchanged(t)
  BY <1>1 DEF LockRoot, Goto, Decide, TypeOK, OthersUnchanged
<1>4. LockStep(t) /\ boot' = boot
  BY <1>2, BlocksFacts DEF LockRoot, LockStep, LockForWalk, server
<1>5. /\ pc'[t] = IF req[t].path = << >> THEN "unlock_parent" ELSE "search"
      /\ frame'[t].new_block = frame[t].new_block /\ frame'[t].path_index = frame[t].path_index
      /\ frame'[t].grown = frame[t].grown /\ frame'[t].to_free = frame[t].to_free
      /\ frame'[t].ret = IF req[t].path = << >> THEN "fail" ELSE frame[t].ret
  BY <1>1 DEF LockRoot, Goto, Decide, TypeOK, Frame
<1>6. args[t].disk_block = 0 /\ 0 \in LiveInodes(disk) /\ 0 \in Blocks
  BY <1>1, <1>2, LiveInodesLeast, BlocksFacts DEF StepShape, TypeOK
<1>7. frame[t].to_free = << >> /\ frame[t].path_index = 1 /\ frame[t].grown = FALSE /\ frame[t].ret = "none"
  BY <1>1, <1>2 DEF Locals, Without, Decided, Frame
<1>8. req[t].path # << >> => 1 \in 1 .. Len(req[t].path)
  BY <1>1 DEF Request
<1>9. Locals(pc'[t], req'[t], args'[t], frame'[t])
  BY <1>1, <1>2, <1>5, <1>7, <1>8 DEF Locals, Without, AtLastName, Created, Decided
<1>10. Knows(pc'[t], req'[t], args'[t], frame'[t], disk')
  <2>1. pc'[t] \in {"search", "unlock_parent"} /\ args'[t].disk_block \in LiveInodes(disk')
        /\ IsInjective(frame'[t].to_free)
    BY <1>2, <1>5, <1>6, <1>7 DEF IsInjective
  <2> QED
    BY ONLY <2>1, KnowsPlace
<1>11. HasLocks(t)'
  <2>1. IF TakesWriteLock(req[t], 1) THEN t \in wrlock'[0] ELSE t \in rdlock'[0]
    BY <1>1, <1>2, <1>6, LockTaken DEF LockForWalk
  <2>2. ~HoldsTarget(pc'[t])
    BY <1>5 DEF HoldsTarget, OnTarget
  <2> QED
    BY <1>2, <1>5, <1>6, <1>7, <2>1, <2>2 DEF HasLocks
<1>12. CASE req[t].path # << >>
  <2>1. Reserved(t)' = Reserved(t)
    BY <1>2, <1>5, <1>7, <1>12 DEF Reserved, ReservedBy
  <2> QED
    BY <1>2, <1>3, <1>4, <1>9, <1>10, <1>11, <2>1, MovesNothing DEF Mine, Alone
<1>13. CASE req[t].path = << >>
  <2>1. Reserved(t)' = {}
    BY <1>2, <1>5, <1>7, <1>13 DEF Reserved, ReservedBy, ToSet
  <2>2. Reserved(t) = {frame[t].new_block} \ {0}
    BY <1>2, <1>7 DEF Reserved, ReservedBy, ToSet
  <2>3. frame[t].new_block # 0 => t \in FailingCreates
    BY <1>1, <1>2, <1>5, <1>13 DEF FailingCreates, Locals
  <2> QED
    BY <1>2, <1>3, <1>4, <1>9, <1>10, <1>11, <2>1, <2>2, <2>3, FailsWalk DEF Mine, Alone
<1> QED
  BY <1>12, <1>13

(* A decision is all that changes. *)
LEMMA DecideEffect ==
  ASSUME TypeOK, NEW t \in Threads, NEW ret, Decide(t, ret)
  PROVE  /\ frame'[t].ret = ret
         /\ frame'[t].path_index = frame[t].path_index /\ frame'[t].last = frame[t].last
         /\ frame'[t].new_block = frame[t].new_block /\ frame'[t].grown = frame[t].grown
         /\ frame'[t].target = frame[t].target /\ frame'[t].file = frame[t].file
         /\ frame'[t].to_free = frame[t].to_free
         /\ \A u \in Threads \ {t} : frame'[u] = frame[u]
<1>1. frame[t] \in Frame
  BY ThreadTypes
<1>2. frame'[t] = [frame[t] EXCEPT !.ret = ret]
  BY DEF Decide, TypeOK
<1>3. \A u \in Threads \ {t} : frame'[u] = frame[u]
  BY DEF Decide, TypeOK
<1> QED
  BY <1>1, <1>2, <1>3 DEF Frame

(* A step under the lock of a directory leaves that lock. *)
LEMMA DirLockStays ==
  ASSUME IInv, NEW t \in Threads, HoldsDir(pc[t], req[t]), ~HoldsTarget(pc'[t]),
         rdlock'[args[t].disk_block] = rdlock[args[t].disk_block],
         wrlock'[args[t].disk_block] = wrlock[args[t].disk_block],
         args'[t].disk_block = args[t].disk_block, req'[t] = req[t],
         frame'[t].path_index = frame[t].path_index
  PROVE  HasLocks(t)'
  BY IInvParts DEF HasLocks

(* What the outcome of a search says. *)
LEMMA AfterSearchMeans ==
  ASSUME NEW r, NEW i, NEW found \in BOOLEAN
  PROVE  /\ AfterSearch(r, i, found) \in {"lock_next", "unlock_parent", "grow", "lock_target"}
         /\ AfterSearch(r, i, found) = "lock_next" => i < Len(r.path) /\ found
         /\ AfterSearch(r, i, found) = "lock_target" => ~(i < Len(r.path)) /\ found /\ r.op # "create"
         /\ AfterSearch(r, i, found) = "grow" => ~(i < Len(r.path)) /\ ~found /\ r.op = "create"
  BY DEF AfterSearch, WantsEntry

(* A component is looked up. *)
LEMMA SearchKeeps ==
  ASSUME IInv, NEW t \in Threads, Search(t)
  PROVE  Alone(t) /\ DoesItsPart(t)
<1> DEFINE D == args[t].disk_block
           node == AsInode(disk[D])
           i == frame[t].path_index
           r == req[t]
<1>1. /\ TypeOK /\ StepShape(t) /\ Locals(pc[t], r, args[t], frame[t])
      /\ args[t] \in Args /\ frame[t] \in Frame /\ req[t] \in Request
      /\ KnowsDir(pc[t], r, args[t], frame[t], disk) /\ disk \in [Blocks -> Content]
      /\ r.user \in Users /\ r.op \in Ops
  BY IInvParts DEF Search
<1>2. /\ pc[t] = "search" /\ req' = req /\ disk' = disk /\ free_blocks' = free_blocks
      /\ UNCHANGED locks /\ boot' = boot
  BY DEF Search, server
<1>3. D \in LiveInodes(disk) /\ D \in Blocks
  BY <1>1, <1>2, LiveInodesLeast DEF KnowsDir, HoldsDir, InDirectory
<1>4. /\ i \in 1 .. Len(r.path) /\ frame[t].to_free = << >> /\ frame[t].grown = FALSE
      /\ frame[t].ret = "none" /\ IsInjective(frame[t].to_free)
      /\ r.path \in Seq(Names) /\ Len(r.path) \in Nat
  BY <1>1, <1>2 DEF Locals, Decided, Frame, IsInjective, Request
<1>5. \/ /\ ~MayEnter(node, r.user) /\ pc'[t] = "unlock_parent"
         /\ args' = [args EXCEPT ![t].inode = node]
      \/ /\ MayEnter(node, r.user)
         /\ \E s \in SearchDirectory(disk, node, r.path[i]) :
              /\ args' = [args EXCEPT ![t] =
                            [@ EXCEPT !.inode = node, !.blocks_index = s.blocks_index,
                                      !.folder_index = s.folder_index, !.folders = s.folders]]
              /\ pc'[t] = AfterSearch(r, i, s.found)
  BY <1>1 DEF Search, Goto, TypeOK
<1> HIDE DEF node, D
<1>6. args'[t].disk_block = D /\ \A u \in Threads \ {t} : args'[u] = args[u]
  BY <1>1, <1>5, ZenonT(40) DEF TypeOK, Args, D
<1>7. pc'[t] \in {"lock_next", "unlock_parent", "grow", "lock_target"}
  <2>1. node \in Inode
    BY <1>1, <1>3, ReadTypes DEF node
  <2>2. \A s \in SearchDirectory(disk, node, r.path[i]) : s.found \in BOOLEAN
    BY <1>1, <2>1, SearchDirectoryType
  <2> QED
    BY <1>5, <2>2, AfterSearchMeans, ZenonT(40)
<1>8. IF pc'[t] = "unlock_parent" THEN Decide(t, "fail") ELSE frame' = frame
  BY DEF Search
<1>9. OthersUnchanged(t)
  <2>1. \A u \in Threads \ {t} : pc'[u] = pc[u]
    BY <1>1 DEF Search, Goto, TypeOK
  <2>2. \A u \in Threads \ {t} : frame'[u] = frame[u]
    BY <1>1, <1>8 DEF Decide, TypeOK
  <2> QED
    BY <1>2, <1>6, <2>1, <2>2 DEF OthersUnchanged
<1>10. Alone(t)
  BY <1>2, <1>9 DEF Alone, LockStep
<1>11. /\ frame'[t].path_index = i /\ frame'[t].to_free = << >> /\ frame'[t].grown = FALSE
       /\ frame'[t].new_block = frame[t].new_block
       /\ frame'[t].ret = IF pc'[t] = "unlock_parent" THEN "fail" ELSE "none"
  <2>1. CASE pc'[t] = "unlock_parent"
    BY <1>1, <1>4, <1>8, <2>1, DecideEffect
  <2>2. CASE pc'[t] # "unlock_parent"
    BY <1>4, <1>8, <2>2
  <2> QED
    BY <2>1, <2>2
<1>12. HasLocks(t)'
  <2>1. HoldsDir(pc[t], req[t]) /\ ~HoldsTarget(pc'[t])
    BY <1>2, <1>7 DEF HoldsDir, InDirectory, HoldsTarget, OnTarget
  <2> QED
    BY <1>2, <1>6, <1>11, <2>1, DirLockStays DEF locks, D
<1>13. CASE pc'[t] = "unlock_parent"
  <2>1. Locals(pc'[t], req'[t], args'[t], frame'[t])
    BY <1>1, <1>2, <1>4, <1>11, <1>13 DEF Locals, Without, AtLastName, Created, Decided
  <2>2. Knows(pc'[t], req'[t], args'[t], frame'[t], disk')
    <3>1. pc'[t] = "unlock_parent" /\ args'[t].disk_block \in LiveInodes(disk')
          /\ IsInjective(frame'[t].to_free)
      BY <1>2, <1>3, <1>4, <1>6, <1>11, <1>13
    <3> QED
      BY ONLY <3>1, KnowsPlace
  <2>3. Reserved(t)' = {} /\ Reserved(t) = {frame[t].new_block} \ {0}
    BY <1>2, <1>4, <1>11, <1>13 DEF Reserved, ReservedBy, ToSet
  <2>4. frame[t].new_block # 0 => t \in FailingCreates
    BY <1>1, <1>2, <1>13 DEF FailingCreates, Locals
  <2> QED
    BY <1>2, <1>9, <1>10, <1>12, <2>1, <2>2, <2>3, <2>4, FailsWalk DEF Mine
<1>14. CASE pc'[t] # "unlock_parent"
  <2>1. MayEnter(node, r.user)
    BY <1>5, <1>14
  <2>2. PICK s \in SearchDirectory(disk, node, r.path[i]) :
          /\ args' = [args EXCEPT ![t] =
                            [@ EXCEPT !.inode = node, !.blocks_index = s.blocks_index,
                                      !.folder_index = s.folder_index, !.folders = s.folders]]
          /\ pc'[t] = AfterSearch(r, i, s.found)
    BY <1>5, <1>14
  <2>3. /\ args'[t].inode = node /\ args'[t].blocks_index = s.blocks_index
        /\ args'[t].folder_index = s.folder_index /\ args'[t].folders = s.folders
    BY <1>1, <2>2 DEF TypeOK, Args
  <2>4. s.found \in BOOLEAN
    BY <1>1, <1>3, <2>2, ReadTypes, SearchDirectoryType DEF node
  <2>5. \/ /\ s.found
           /\ \E k \in Positions(disk, D), j \in 1 .. FS_DIRENTRIES :
                LET f == AsFolders(disk[Block(disk, D, k)])
                IN  /\ s.blocks_index = k /\ s.folder_index = j /\ s.folders = f
                    /\ f[j].inode_block # 0 /\ f[j].name = r.path[i]
        \/ /\ ~s.found
           /\ \A e \in Entries(disk, D) : Name(disk, D, e) # r.path[i]
           /\ \/ \E k \in Positions(disk, D), j \in 1 .. FS_DIRENTRIES :
                   LET f == AsFolders(disk[Block(disk, D, k)])
                   IN  /\ s.blocks_index = k /\ s.folder_index = j /\ s.folders = f
                       /\ f[j].inode_block = 0
              \/ s.blocks_index = Len(AsInode(disk[D]).blocks) + 1 /\ s.folder_index = 1
    <3>1. disk \in [Blocks -> Content] /\ D \in Blocks /\ s \in SearchDirectory(disk, AsInode(disk[D]), r.path[i])
      BY <1>1, <1>3, <2>2 DEF node
    <3> QED
      BY ONLY <3>1, SearchDirectoryFinds
  <2>6. frame' = frame
    BY <1>8, <1>14
  <2>7. node \in Inode /\ node.type = "d" /\ node.owner \in {NoUser, r.user}
    BY <1>1, <1>3, <2>1, ReadTypes DEF MayEnter, node, Inode
  <2>8. Locals(pc'[t], req'[t], args'[t], frame'[t])
    <3>1. pc'[t] = "lock_next" => i < Len(r.path)
      BY <2>2, <2>4, AfterSearchMeans
    <3>2. pc'[t] \in {"grow", "lock_target"} => ~(i < Len(r.path))
      BY <2>2, <2>4, AfterSearchMeans
    <3>3. pc'[t] = "lock_target" => r.op # "create"
      BY <2>2, <2>4, AfterSearchMeans
    <3>4. /\ pc'[t] = "lock_next" => i \in 1 .. Len(r.path) - 1
          /\ pc'[t] \in {"grow", "lock_target"} => i = Len(r.path)
      BY <1>4, <3>1, <3>2
    <3> QED
      BY <1>1, <1>2, <1>4, <1>7, <1>14, <2>6, <3>3, <3>4
         DEF Locals, Without, AtLastName, Created, Decided
  <2>9. CopyOfDir(args'[t], frame'[t], disk')
    BY <1>2, <1>6, <1>11, <2>3 DEF CopyOfDir, node
  <2>10. KnowsDir(pc'[t], req'[t], args'[t], frame'[t], disk')
    <3>1. CASE pc'[t] \in {"lock_next", "lock_target"}
      <4>1. s.found
        BY <2>2, <2>4, <3>1, AfterSearchMeans
      <4>2. PICK k \in Positions(disk, D), j \in 1 .. FS_DIRENTRIES :
               LET f == AsFolders(disk[Block(disk, D, k)])
               IN  /\ s.blocks_index = k /\ s.folder_index = j /\ s.folders = f
                   /\ f[j].inode_block # 0 /\ f[j].name = r.path[i]
        BY <2>5, <4>1
      <4>3. SameFolders(args'[t], disk')
        <5>1. args'[t].blocks_index \in 1 .. Len(args'[t].inode.blocks)
          BY <2>3, <4>2 DEF Positions, node
        <5>2. args'[t].folders = AsFolders(disk'[args'[t].inode.blocks[args'[t].blocks_index]])
          BY <1>2, <2>3, <4>2 DEF Block, node
        <5> QED
          BY <5>1, <5>2 DEF SameFolders
      <4>4. EntryFound(req'[t], args'[t], frame'[t], disk')
        <5>1. args'[t].folders[args'[t].folder_index].inode_block # 0
          BY <2>3, <4>2
        <5>2. args'[t].folders[args'[t].folder_index].name = req'[t].path[frame'[t].path_index]
          BY <1>2, <1>11, <2>3, <4>2
        <5> QED
          BY <4>3, <5>1, <5>2 DEF EntryFound
      <4> QED
        BY <1>2, <1>3, <1>6, <2>3, <2>7, <2>9, <3>1, <4>4 DEF KnowsDir, Created
    <3>2. CASE pc'[t] = "grow"
      <4>1. ~s.found /\ ~(i < Len(r.path))
        BY <2>2, <2>4, <3>2, AfterSearchMeans
      <4>2. \A e \in Entries(disk, D) : Name(disk, D, e) # r.path[i]
        BY <2>5, <4>1
      <4>3. \/ \E k \in Positions(disk, D), j \in 1 .. FS_DIRENTRIES :
                 LET f == AsFolders(disk[Block(disk, D, k)])
                 IN  /\ s.blocks_index = k /\ s.folder_index = j /\ s.folders = f
                     /\ f[j].inode_block = 0
            \/ s.blocks_index = Len(node.blocks) + 1 /\ s.folder_index = 1
        BY <2>5, <4>1 DEF node
      <4>4. NoSuchEntry(req'[t], args'[t], disk')
        <5>1. i = Len(r.path)
          BY <1>4, <4>1
        <5>2. Last(r.path) = r.path[i]
          BY <5>1 DEF Last
        <5> QED
          BY <1>2, <1>6, <4>2, <5>2 DEF NoSuchEntry, Name
      <4>5. PlaceForEntry(pc'[t], args'[t], frame'[t], disk')
        <5>1. ~frame'[t].grown
          BY <1>11
        <5>2. CASE s.blocks_index = Len(node.blocks) + 1 /\ s.folder_index = 1
          <6>1. args'[t].blocks_index = Len(args'[t].inode.blocks) + 1 /\ args'[t].folder_index = 1
            BY <2>3, <5>2
          <6> QED
            BY <3>2, <5>1, <6>1 DEF PlaceForEntry
        <5>3. ASSUME NEW k \in Positions(disk, D), NEW j \in 1 .. FS_DIRENTRIES,
                     LET f == AsFolders(disk[Block(disk, D, k)])
                     IN  /\ s.blocks_index = k /\ s.folder_index = j /\ s.folders = f
                         /\ f[j].inode_block = 0
              PROVE  PlaceForEntry(pc'[t], args'[t], frame'[t], disk')
          <6>1. args'[t].blocks_index \in 1 .. Len(args'[t].inode.blocks)
            BY <2>3, <5>3 DEF Positions, node
          <6>2. args'[t].folders = AsFolders(disk'[args'[t].inode.blocks[args'[t].blocks_index]])
            BY <1>2, <2>3, <5>3 DEF Block, node
          <6>3. args'[t].folders[args'[t].folder_index].inode_block = 0
            BY <2>3, <5>3
          <6> QED
            BY <5>1, <6>1, <6>2, <6>3 DEF PlaceForEntry, SameFolders
        <5> QED
          BY <4>3, <5>2, <5>3
      <4> QED
        BY <1>2, <1>3, <1>6, <2>3, <2>7, <2>9, <3>2, <4>4, <4>5 DEF KnowsDir, WithEntry, Found
    <3> QED
      BY <1>7, <1>14, <3>1, <3>2
  <2>11. KnowsTarget(pc'[t], req'[t], args'[t], frame'[t], disk')
    BY <1>7 DEF KnowsTarget, HoldsTarget, OnTarget, OnFile
  <2>12. KnowsReserved(pc'[t], req'[t], args'[t], frame'[t], disk')
    BY <1>4, <1>7, <2>6 DEF KnowsReserved
  <2>13. Reserved(t)' = Reserved(t)
    BY <1>2, <1>4, <1>7, <2>6 DEF Reserved, ReservedBy
  <2> QED
    BY <1>2, <1>9, <1>10, <1>12, <2>6, <2>8, <2>10, <2>11, <2>12, <2>13, MovesNothing DEF Mine, Knows
<1> QED
  BY <1>13, <1>14

(* The entry a walk has found is in the tree, and leads below the directory. *)
LEMMA EntryIsChild ==
  ASSUME IInv, NEW t \in Threads, pc[t] \in WithEntry
  PROVE  LET D == args[t].disk_block
             i == args[t].blocks_index
             j == args[t].folder_index
             n == Entry(t).inode_block
         IN  /\ D \in LiveInodes(disk) /\ D \in Blocks /\ IsDir(disk, D)
             /\ args[t].inode = AsInode(disk[D])
             /\ i \in Positions(disk, D) /\ j \in 1 .. FS_DIRENTRIES
             /\ args[t].folders = AsFolders(disk[Block(disk, D, i)])
             /\ <<i, j>> \in Entries(disk, D) /\ Target(disk, D, <<i, j>>) = n
             /\ Name(disk, D, <<i, j>>) = req[t].path[frame[t].path_index]
             /\ n \in ChildrenOf(disk, D) /\ n \in LiveInodes(disk) /\ n \in Blocks /\ n # D
<1> DEFINE D == args[t].disk_block
           i == args[t].blocks_index
           j == args[t].folder_index
           n == Entry(t).inode_block
<1>1. /\ Locals(pc[t], req[t], args[t], frame[t]) /\ args[t] \in Args
      /\ KnowsDir(pc[t], req[t], args[t], frame[t], disk)
      /\ disk \in [Blocks -> Content] /\ SoundDisk(disk)
  BY IInvParts
<1>2. D \in LiveInodes(disk) /\ D \in Blocks /\ ~frame[t].grown
  BY <1>1, LiveInodesLeast DEF KnowsDir, HoldsDir, InDirectory, WithEntry, Found, Locals
<1>3. CopyOfDir(args[t], frame[t], disk) /\ args[t].inode.type = "d"
      /\ EntryFound(req[t], args[t], frame[t], disk)
  BY <1>1 DEF KnowsDir
<1>4. args[t].inode = AsInode(disk[D]) /\ IsDir(disk, D)
  BY <1>2, <1>3 DEF CopyOfDir, IsDir
<1>5. SameFolders(args[t], disk)
  BY <1>3 DEF EntryFound
<1>6. i \in Positions(disk, D) /\ args[t].folders = AsFolders(disk[Block(disk, D, i)])
  BY <1>4, <1>5 DEF SameFolders, Positions, Block
<1>7. j \in 1 .. FS_DIRENTRIES
  BY <1>1 DEF Args
<1>8. n # 0 /\ n = args[t].folders[j].inode_block
      /\ args[t].folders[j].name = req[t].path[frame[t].path_index]
  BY <1>3 DEF EntryFound, Entry
<1> HIDE DEF D, i, j, n
<1>9. LET f == AsFolders(disk[Block(disk, D, i)])
      IN  /\ <<i, j>> \in Entries(disk, D) <=> f[j].inode_block # 0
          /\ Target(disk, D, <<i, j>>) = f[j].inode_block
          /\ Name(disk, D, <<i, j>>) = f[j].name
  BY <1>6, <1>7, EntriesAre
<1>10. <<i, j>> \in Entries(disk, D) /\ Target(disk, D, <<i, j>>) = n
       /\ Name(disk, D, <<i, j>>) = req[t].path[frame[t].path_index]
  BY <1>6, <1>8, <1>9
<1>11. n \in ChildrenOf(disk, D)
  BY <1>4, <1>10, ChildrenAreTargets
<1>12. n # D
  BY <1>1, <1>2, <1>11, ChildOnce
<1>13. n \in LiveInodes(disk) /\ n \in Blocks
  BY <1>1, <1>2, <1>11, LiveInodesLeast
<1> QED
  BY <1>2, <1>4, <1>6, <1>7, <1>10, <1>11, <1>12, <1>13 DEF D, i, j, n

(* The next directory is locked. *)
LEMMA LockNextKeeps ==
  ASSUME IInv, NEW t \in Threads, LockNext(t)
  PROVE  Alone(t) /\ DoesItsPart(t)
<1> DEFINE D == args[t].disk_block
           n == Entry(t).inode_block
           i == frame[t].path_index
<1>1. /\ TypeOK /\ Locals(pc[t], req[t], args[t], frame[t])
      /\ args[t] \in Args /\ frame[t] \in Frame /\ req[t] \in Request
  BY IInvParts
<1>2. /\ pc[t] = "lock_next" /\ req' = req /\ disk' = disk /\ free_blocks' = free_blocks
      /\ LockForWalk(t, n, i + 1) /\ boot' = boot
  BY DEF LockNext, Goto, server
<1>3. pc[t] \in WithEntry
  BY <1>2 DEF WithEntry, Found
<1>4. D \in Blocks /\ n \in LiveInodes(disk) /\ n \in Blocks /\ n # D
  BY <1>3, EntryIsChild
<1>5. /\ pc'[t] = "unlock_last" /\ args' = [args EXCEPT ![t].disk_block = n]
      /\ frame' = [frame EXCEPT ![t] = [@ EXCEPT !.last = D, !.path_index = i + 1]]
  BY <1>1 DEF LockNext, Goto, TypeOK
<1> HIDE DEF D, n, i
<1>6. OthersUnchanged(t)
  BY <1>1, <1>2, <1>5 DEF LockNext, Goto, TypeOK, OthersUnchanged
<1>7. LockStep(t)
  BY <1>2, <1>4 DEF LockStep, LockForWalk
<1>8. args'[t].disk_block = n
  BY <1>1, <1>5 DEF TypeOK, Args
<1>9. /\ frame'[t].last = D /\ frame'[t].path_index = i + 1
      /\ frame'[t].new_block = frame[t].new_block /\ frame'[t].grown = frame[t].grown
      /\ frame'[t].to_free = frame[t].to_free /\ frame'[t].ret = frame[t].ret
  BY <1>1, <1>5 DEF TypeOK, Frame
<1>10. frame[t].to_free = << >> /\ frame[t].grown = FALSE /\ frame[t].ret = "none"
       /\ IsInjective(frame[t].to_free)
  BY <1>1, <1>2 DEF Locals, Decided, Frame, IsInjective
<1>11. i + 1 \in 1 .. Len(req[t].path)
  <2>1. i \in 1 .. Len(req[t].path) - 1 /\ Len(req[t].path) \in Nat
    BY <1>1, <1>2 DEF Locals, Request, i
  <2> QED
    BY <2>1
<1>12. Locals(pc'[t], req'[t], args'[t], frame'[t])
  BY <1>1, <1>2, <1>4, <1>5, <1>8, <1>9, <1>10, <1>11 DEF Locals, Without, AtLastName, Created, Decided
<1>13. Knows(pc'[t], req'[t], args'[t], frame'[t], disk')
  <2>1. pc'[t] = "unlock_last" /\ args'[t].disk_block \in LiveInodes(disk') /\ IsInjective(frame'[t].to_free)
    BY <1>2, <1>4, <1>5, <1>8, <1>9, <1>10
  <2> QED
    BY ONLY <2>1, KnowsPlace
<1>14. HasLocks(t)'
  <2>1. IF TakesWriteLock(req[t], i + 1) THEN t \in wrlock'[n] ELSE t \in rdlock'[n]
    BY <1>1, <1>2, <1>4, LockTaken DEF LockForWalk
  <2>2. ~HoldsTarget(pc'[t])
    BY <1>5 DEF HoldsTarget, OnTarget
  <2> QED
    BY <1>2, <1>8, <1>9, <2>1, <2>2 DEF HasLocks
<1>15. Reserved(t)' = Reserved(t)
  BY <1>2, <1>5, <1>9, <1>10 DEF Reserved, ReservedBy
<1> QED
  BY <1>2, <1>6, <1>7, <1>12, <1>13, <1>14, <1>15, MovesNothing DEF Mine, Alone

(* The last directory is unlocked: it is not the one the walk is in. *)
LEMMA UnlockLastKeeps ==
  ASSUME IInv, NEW t \in Threads, UnlockLast(t)
  PROVE  Alone(t) /\ DoesItsPart(t)
<1> DEFINE D == args[t].disk_block
           L == frame[t].last
<1>1. /\ TypeOK /\ Locals(pc[t], req[t], args[t], frame[t])
      /\ args[t] \in Args /\ frame[t] \in Frame
      /\ KnowsDir(pc[t], req[t], args[t], frame[t], disk)
  BY IInvParts
<1>2. /\ pc[t] = "unlock_last" /\ req' = req /\ disk' = disk /\ free_blocks' = free_blocks
      /\ args' = args /\ Unlock(t, L) /\ boot' = boot
  BY DEF UnlockLast, Goto, server
<1>3. D \in LiveInodes(disk) /\ D \in Blocks /\ L \in Blocks /\ L # D
  BY <1>1, <1>2, LiveInodesLeast DEF KnowsDir, HoldsDir, InDirectory, Locals, Frame, Args
<1>4. pc'[t] = "search" /\ frame' = [frame EXCEPT ![t].last = 0]
  BY <1>1 DEF UnlockLast, Goto, TypeOK
<1>5. OthersUnchanged(t)
  BY <1>1, <1>2, <1>4 DEF UnlockLast, Goto, TypeOK, OthersUnchanged
<1>6. LockStep(t)
  BY <1>2, <1>3 DEF LockStep
<1>7. /\ frame'[t].path_index = frame[t].path_index
      /\ frame'[t].new_block = frame[t].new_block /\ frame'[t].grown = frame[t].grown
      /\ frame'[t].to_free = frame[t].to_free /\ frame'[t].ret = frame[t].ret
  BY <1>1, <1>4 DEF TypeOK, Frame
<1>8. frame[t].to_free = << >> /\ frame[t].grown = FALSE /\ frame[t].ret = "none"
       /\ IsInjective(frame[t].to_free)
  BY <1>1, <1>2 DEF Locals, Decided, Frame, IsInjective
<1>9. Locals(pc'[t], req'[t], args'[t], frame'[t])
  BY <1>1, <1>2, <1>4, <1>7, <1>8 DEF Locals, Without, AtLastName, Created, Decided
<1>10. Knows(pc'[t], req'[t], args'[t], frame'[t], disk')
  <2>1. pc'[t] = "search" /\ args'[t].disk_block \in LiveInodes(disk') /\ IsInjective(frame'[t].to_free)
    BY <1>2, <1>3, <1>4, <1>7, <1>8
  <2> QED
    BY ONLY <2>1, KnowsPlace
<1>11. HasLocks(t)'
  <2>1. HoldsDir(pc[t], req[t]) /\ ~HoldsTarget(pc'[t])
    BY <1>2, <1>4 DEF HoldsDir, InDirectory, HoldsTarget, OnTarget
  <2>2. rdlock'[D] = rdlock[D] /\ wrlock'[D] = wrlock[D]
    BY <1>1, <1>2, <1>3, LockTaken
  <2> QED
    BY <1>2, <1>7, <2>1, <2>2, DirLockStays
<1>12. Reserved(t)' = Reserved(t)
  BY <1>2, <1>4, <1>7, <1>8 DEF Reserved, ReservedBy
<1> QED
  BY <1>2, <1>5, <1>6, <1>9, <1>10, <1>11, <1>12, MovesNothing DEF Mine, Alone

(* The directory is unlocked and the handler returns. *)
LEMMA UnlockParentKeeps ==
  ASSUME IInv, NEW t \in Threads, UnlockParent(t)
  PROVE  Alone(t) /\ DoesItsPart(t)
<1>1. /\ TypeOK /\ Locals(pc[t], req[t], args[t], frame[t])
      /\ args[t] \in Args /\ frame[t] \in Frame
  BY IInvParts
<1>2. /\ pc[t] = "unlock_parent" /\ req' = req /\ disk' = disk /\ free_blocks' = free_blocks
      /\ Return(t, "unlock_parent", frame[t].ret, Zero)
      /\ Unlock(t, args[t].disk_block) /\ boot' = boot
  BY DEF UnlockParent, Return, Goto, server
<1>3. OthersUnchanged(t)
  BY <1>1, <1>2 DEF Return, Goto, TypeOK, OthersUnchanged
<1>4. LockStep(t)
  BY <1>1, <1>2 DEF LockStep, Args
<1>5. frame[t].ret \in {"ok", "fail"} /\ frame[t].to_free = << >>
  BY <1>1, <1>2 DEF Locals, Decided, Frame
<1>6. Mine(t)' /\ Reserved(t)' = {}
  BY <1>2, <1>5, ReturnMine, LayoutAssumption
<1>7. Reserved(t) = {}
  BY <1>5 DEF Reserved, ReservedBy, ToSet
<1> QED
  BY <1>2, <1>3, <1>4, <1>6, <1>7, MovesNothing DEF Alone

-----------------------------------------------------------------------------
(* create_entry. *)

(* What a create knows while it adds the entry. *)
LEMMA CreateKnows ==
  ASSUME IInv, NEW t \in Threads, pc[t] \in Created
  PROVE  LET D == args[t].disk_block
             n == frame[t].new_block
             r == req[t]
             z == Last(args[t].inode.blocks)
         IN  /\ D \in LiveInodes(disk) /\ D \in Blocks /\ IsDir(disk, D) /\ t \in wrlock[D]
             /\ AsInode(disk[D]).owner \in {NoUser, r.user}
             /\ CopyOfDir(args[t], frame[t], disk)
             /\ \A e \in Entries(disk, D) : Name(disk, D, e) # Last(r.path)
             /\ r.op = "create" /\ r.type \in {"f", "d"} /\ r.user \in Users
             /\ Last(r.path) \in Names
             /\ n \in Blocks \ Live(disk)
             /\ frame[t].ret = "none" /\ frame[t].to_free = << >>
             /\ IF frame[t].grown THEN z \in Blocks \ Live(disk) /\ Reserved(t) = {n, z}
                                  ELSE Reserved(t) = {n}
             /\ Reserved(t) \cap (Live(disk) \cup ToSet(free_blocks)) = {}
<1> DEFINE D == args[t].disk_block
           n == frame[t].new_block
           r == req[t]
           z == Last(args[t].inode.blocks)
<1>1. /\ TypeOK /\ StepShape(t) /\ Locals(pc[t], r, args[t], frame[t])
      /\ args[t] \in Args /\ frame[t] \in Frame /\ r \in Request /\ HasLocks(t)
      /\ KnowsDir(pc[t], r, args[t], frame[t], disk) /\ disk \in [Blocks -> Content]
  BY IInvParts
<1>2. r.user \in Users /\ n # 0
  BY IInvParts DEF Created
<1>3. HoldsDir(pc[t], r)
  BY DEF HoldsDir, InDirectory, Created
<1>4. D \in LiveInodes(disk) /\ D \in Blocks
  BY <1>1, <1>3, LiveInodesLeast DEF KnowsDir
<1>5. r.op = "create" /\ r.type \in {"f", "d"} /\ r.path # << >>
  BY <1>1 DEF StepShape, Created, OutOfWalk
<1>6. t \in wrlock[D]
  <2>1. TakesWriteLock(r, frame[t].path_index)
    BY <1>1, <1>5 DEF Locals, AtLastName, TakesWriteLock
  <2> QED
    BY <1>1, <1>3, <2>1 DEF HasLocks
<1>7. /\ CopyOfDir(args[t], frame[t], disk) /\ args[t].inode.type = "d"
      /\ args[t].inode.owner \in {NoUser, r.user} /\ NoSuchEntry(r, args[t], disk)
  BY <1>1 DEF KnowsDir
<1>8. IsDir(disk, D) /\ AsInode(disk[D]).owner \in {NoUser, r.user}
  BY <1>7 DEF CopyOfDir, IsDir
<1>9. \A e \in Entries(disk, D) : Name(disk, D, e) # Last(r.path)
  BY <1>7 DEF NoSuchEntry, Name
<1>10. Last(r.path) \in Names
  BY <1>1, <1>5 DEF Request, Last
<1>11. frame[t].ret = "none" /\ frame[t].to_free = << >>
  BY <1>1 DEF Locals, Decided, Created
<1>12. n \in Blocks
  BY <1>1 DEF Frame
<1>13. IF frame[t].grown THEN Reserved(t) = {n, z} ELSE Reserved(t) = {n}
  BY <1>2, <1>11 DEF Reserved, ReservedBy, ToSet, Created
<1>14. Reserved(t) \cap (Live(disk) \cup ToSet(free_blocks)) = {}
  BY IInvParts, OwnedApart DEF Apart
<1>15. frame[t].grown => z \in Blocks
  <2> SUFFICES ASSUME frame[t].grown PROVE z \in Blocks
    OBVIOUS
  <2>1. args[t].inode.blocks = Append(AsInode(disk[D]).blocks, z)
    BY <1>7 DEF CopyOfDir
  <2>2. AsInode(disk[D]).blocks \in Seq(Blocks)
    BY <1>1, <1>4, InodeFacts DEF BlockList
  <2>3. args[t].inode.blocks \in Seq(Blocks)
    BY <1>1 DEF Args, Inode, BlockList
  <2>4. Len(args[t].inode.blocks) = Len(AsInode(disk[D]).blocks) + 1
    BY <2>1, <2>2
  <2>5. Len(args[t].inode.blocks) \in 1 .. Len(args[t].inode.blocks)
    BY <2>2, <2>4
  <2> QED
    BY <2>3, <2>5 DEF Last
<1> QED
  BY <1>4, <1>5, <1>6, <1>7, <1>8, <1>9, <1>10, <1>11, <1>12, <1>13, <1>14, <1>15, <1>2

(* An unused entry was found. *)
LEMMA ReuseFolderKeeps ==
  ASSUME IInv, NEW t \in Threads, ReuseFolder(t)
  PROVE  Alone(t) /\ DoesItsPart(t)
<1>1. /\ TypeOK /\ Locals(pc[t], req[t], args[t], frame[t])
      /\ args[t] \in Args /\ frame[t] \in Frame
      /\ KnowsDir(pc[t], req[t], args[t], frame[t], disk)
  BY IInvParts
<1>2. /\ pc[t] = "grow" /\ pc'[t] = "write_inode" /\ req' = req /\ disk' = disk
      /\ free_blocks' = free_blocks /\ args' = args /\ frame' = frame /\ UNCHANGED locks
      /\ boot' = boot
  BY <1>1 DEF ReuseFolder, Goto, TypeOK, server
<1>3. OthersUnchanged(t)
  BY <1>1, <1>2 DEF ReuseFolder, Goto, TypeOK, OthersUnchanged
<1>4. Alone(t)
  BY <1>2, <1>3 DEF Alone, LockStep
<1>5. /\ args[t].disk_block \in LiveInodes(disk) /\ frame[t].to_free = << >>
      /\ frame[t].ret = "none"
  BY <1>2, CreateKnows DEF Created
<1>6. frame[t].grown = FALSE
  BY <1>1, <1>2 DEF Locals, Frame
<1>7. Locals(pc'[t], req'[t], args'[t], frame'[t])
  BY <1>1, <1>2, <1>5, <1>6 DEF Locals, Without, AtLastName, Created, Decided
<1>8. PlaceForEntry("grow", args[t], frame[t], disk)
  BY <1>1, <1>2 DEF KnowsDir, Created
<1>9. args[t].blocks_index # Len(args[t].inode.blocks) + 1
  <2>1. /\ Len(args[t].inode.blocks) >= args[t].blocks_index /\ Len(args[t].inode.blocks) \in Nat
        /\ args[t].blocks_index \in Nat
    BY <1>1 DEF ReuseFolder, Args, Inode, BlockList
  <2> QED
    BY <2>1
<1>10. PlaceForEntry("write_inode", args[t], frame[t], disk)
  BY <1>6, <1>8, <1>9 DEF PlaceForEntry
<1>11. KnowsDir(pc'[t], req'[t], args'[t], frame'[t], disk')
  BY <1>1, <1>2, <1>5, <1>10 DEF KnowsDir, Created, WithEntry, Found
<1>12. KnowsTarget(pc'[t], req'[t], args'[t], frame'[t], disk')
  BY <1>2 DEF KnowsTarget, HoldsTarget, OnTarget, OnFile
<1>13. KnowsReserved(pc'[t], req'[t], args'[t], frame'[t], disk')
  BY <1>2, <1>5, <1>6 DEF KnowsReserved, IsInjective
<1>14. HasLocks(t)'
  <2>1. HoldsDir(pc[t], req[t]) /\ ~HoldsTarget(pc'[t])
    BY <1>2 DEF HoldsDir, InDirectory, HoldsTarget, OnTarget
  <2> QED
    BY <1>2, <2>1, DirLockStays DEF locks
<1>15. Reserved(t)' = Reserved(t)
  BY <1>2 DEF Reserved, ReservedBy
<1> QED
  BY <1>2, <1>3, <1>4, <1>7, <1>11, <1>12, <1>13, <1>14, <1>15, MovesNothing DEF Mine, Knows

(* The reserved block goes back. *)
LEMMA CannotGrowKeeps ==
  ASSUME IInv, NEW t \in Threads, CannotGrow(t)
  PROVE  Alone(t) /\ DoesItsPart(t)
<1> DEFINE n == frame[t].new_block
<1>1. /\ TypeOK /\ Locals(pc[t], req[t], args[t], frame[t])
      /\ args[t] \in Args /\ frame[t] \in Frame
  BY IInvParts
<1>2. /\ pc[t] = "grow" /\ pc'[t] = "unlock_parent" /\ req' = req /\ disk' = disk
      /\ free_blocks' = Append(free_blocks, n) /\ args' = args /\ Decide(t, "fail")
      /\ UNCHANGED locks /\ boot' = boot
  BY <1>1 DEF CannotGrow, Goto, TypeOK, server
<1>3. OthersUnchanged(t)
  BY <1>1, <1>2, DecideEffect DEF CannotGrow, Goto, TypeOK, OthersUnchanged
<1>4. Alone(t)
  BY <1>2, <1>3 DEF Alone, LockStep
<1>5. /\ args[t].disk_block \in LiveInodes(disk) /\ frame[t].to_free = << >> /\ n \in Blocks
      /\ IF frame[t].grown THEN TRUE ELSE Reserved(t) = {n}
      /\ Reserved(t) \cap (Live(disk) \cup ToSet(free_blocks)) = {}
  BY <1>2, CreateKnows DEF Created
<1>6. frame[t].grown = FALSE
  BY <1>1, <1>2 DEF Locals, Frame
<1>7. /\ frame'[t].ret = "fail" /\ frame'[t].path_index = frame[t].path_index
      /\ frame'[t].new_block = n /\ frame'[t].grown = FALSE /\ frame'[t].to_free = << >>
  BY <1>1, <1>2, <1>5, <1>6, DecideEffect
<1>8. Locals(pc'[t], req'[t], args'[t], frame'[t])
  BY <1>1, <1>2, <1>7 DEF Locals, Without, AtLastName, Created, Decided
<1>9. Knows(pc'[t], req'[t], args'[t], frame'[t], disk')
  <2>1. pc'[t] = "unlock_parent" /\ args'[t].disk_block \in LiveInodes(disk')
        /\ IsInjective(frame'[t].to_free)
    BY <1>2, <1>5, <1>7 DEF IsInjective
  <2> QED
    BY ONLY <2>1, KnowsPlace
<1>10. HasLocks(t)'
  <2>1. HoldsDir(pc[t], req[t]) /\ ~HoldsTarget(pc'[t])
    BY <1>2 DEF HoldsDir, InDirectory, HoldsTarget, OnTarget
  <2> QED
    BY <1>2, <1>7, <2>1, DirLockStays DEF locks
<1>11. Reserved(t)' = {}
  BY <1>2, <1>7 DEF Reserved, ReservedBy, ToSet
<1>12. IsInjective(free_blocks) /\ free_blocks \in Seq(Blocks)
  BY <1>1, IInvParts, OwnedApart DEF Apart, TypeOK
<1>13. n \notin ToSet(free_blocks)
  BY <1>5, <1>6
<1>14. ToSet(free_blocks') = ToSet(free_blocks) \cup {n} /\ IsInjective(free_blocks')
  BY <1>2, <1>5, <1>12, <1>13, AppendSet
<1> QED
  BY <1>2, <1>3, <1>4, <1>5, <1>6, <1>8, <1>9, <1>10, <1>11, <1>14, MovesFree DEF Mine

(* The directory gets a block, in the thread's copy of its inode. *)
LEMMA GrowDirectoryKeeps ==
  ASSUME IInv, NEW t \in Threads, GrowDirectory(t)
  PROVE  Alone(t) /\ DoesItsPart(t)
<1> DEFINE D == args[t].disk_block
           n == frame[t].new_block
           z == Head(free_blocks)
           old == args[t].inode
           dir == AsInode(disk[D])
           Z == Last(args'[t].inode.blocks)
<1>1. /\ TypeOK /\ Locals(pc[t], req[t], args[t], frame[t])
      /\ args[t] \in Args /\ frame[t] \in Frame
      /\ KnowsDir(pc[t], req[t], args[t], frame[t], disk)
  BY IInvParts
<1>2. /\ pc[t] = "grow" /\ pc'[t] = "write_inode" /\ req' = req /\ disk' = disk
      /\ free_blocks' = Tail(free_blocks) /\ free_blocks # << >>
      /\ frame' = [frame EXCEPT ![t].grown = TRUE]
      /\ UNCHANGED locks /\ boot' = boot
  BY <1>1 DEF GrowDirectory, Goto, TypeOK, server, NoRoomFor
<1>3. args' = [args EXCEPT ![t] = [@ EXCEPT !.inode = [old EXCEPT !.blocks = Append(old.blocks, z)],
                                            !.folders = EmptyFolders]]
  BY DEF GrowDirectory
<1>4. OthersUnchanged(t)
  BY <1>1, <1>2, <1>3 DEF GrowDirectory, Goto, TypeOK, OthersUnchanged
<1>5. Alone(t)
  BY <1>2, <1>4 DEF Alone, LockStep
<1>6. /\ D \in LiveInodes(disk) /\ frame[t].to_free = << >> /\ frame[t].ret = "none"
      /\ n \in Blocks \ Live(disk) /\ CopyOfDir(args[t], frame[t], disk)
      /\ Reserved(t) \cap (Live(disk) \cup ToSet(free_blocks)) = {}
      /\ IF frame[t].grown THEN TRUE ELSE Reserved(t) = {n}
  BY <1>2, CreateKnows DEF Created
<1>7. frame[t].grown = FALSE
  BY <1>1, <1>2 DEF Locals, Frame
<1>8. old = dir
  BY <1>6, <1>7 DEF CopyOfDir
<1>9. old.blocks \in Seq(Blocks) /\ Len(old.blocks) \in Nat /\ old \in Inode
  BY <1>1 DEF Args, Inode, BlockList
<1>10. free_blocks \in Seq(Blocks) /\ IsInjective(free_blocks)
  BY <1>1, IInvParts, OwnedApart DEF Apart, TypeOK
<1>11. /\ z \in ToSet(free_blocks) /\ IsInjective(Tail(free_blocks))
       /\ ToSet(Tail(free_blocks)) = ToSet(free_blocks) \ {z}
  BY <1>2, <1>10, TailSet
<1>12. z \in Blocks
  BY <1>2, <1>10
<1> HIDE DEF z, D, n, old, dir
<1>13. /\ args'[t].disk_block = D /\ args'[t].blocks_index = args[t].blocks_index
       /\ args'[t].folder_index = args[t].folder_index /\ args'[t].folders = EmptyFolders
       /\ args'[t].inode = [old EXCEPT !.blocks = Append(old.blocks, z)]
  BY <1>1, <1>3 DEF TypeOK, Args, D
<1>14. /\ args'[t].inode.type = old.type /\ args'[t].inode.owner = old.owner
       /\ args'[t].inode.blocks = Append(old.blocks, z)
  BY <1>9, <1>13 DEF Inode
<1>15. Len(args'[t].inode.blocks) = Len(old.blocks) + 1 /\ Z = z
  <2>1. Len(Append(old.blocks, z)) = Len(old.blocks) + 1 /\ Append(old.blocks, z)[Len(old.blocks) + 1] = z
    BY <1>9, <1>12
  <2> QED
    BY <1>14, <2>1 DEF Last
<1> HIDE DEF Z
<1>16. /\ frame'[t].path_index = frame[t].path_index /\ frame'[t].new_block = n
       /\ frame'[t].grown = TRUE /\ frame'[t].to_free = << >> /\ frame'[t].ret = "none"
  BY <1>1, <1>2, <1>6 DEF TypeOK, Frame, n
<1>17. Locals(pc'[t], req'[t], args'[t], frame'[t])
  BY <1>1, <1>2, <1>16 DEF Locals, Without, AtLastName, Created, Decided, n
<1>18. /\ NoSuchEntry(req[t], args[t], disk) /\ PlaceForEntry("grow", args[t], frame[t], disk)
       /\ old.type = "d" /\ old.owner \in {NoUser, req[t].user}
  BY <1>1, <1>2 DEF KnowsDir, Created, old
<1>19. args[t].blocks_index = Len(old.blocks) + 1 /\ args[t].folder_index = 1
  <2>1. ~SameFolders(args[t], disk)
    <3>1. Len(args[t].inode.blocks) < args[t].blocks_index /\ args[t].blocks_index \in Nat
      BY <1>1 DEF GrowDirectory, Args
    <3> QED
      BY <1>9, <3>1 DEF SameFolders, old
  <2> QED
    BY <1>7, <1>18, <2>1 DEF PlaceForEntry, old
<1>20. CopyOfDir(args'[t], frame'[t], disk')
  <2>1. args'[t].inode.blocks = Append(dir.blocks, Last(args'[t].inode.blocks))
    BY <1>8, <1>14, <1>15 DEF Z
  <2> QED
    BY <1>2, <1>8, <1>13, <1>14, <1>16, <2>1 DEF CopyOfDir, dir
<1>21. NoSuchEntry(req'[t], args'[t], disk')
  BY <1>2, <1>13, <1>18 DEF NoSuchEntry, D
<1>22. PlaceForEntry(pc'[t], args'[t], frame'[t], disk')
  BY <1>13, <1>15, <1>16, <1>19 DEF PlaceForEntry
<1>23. KnowsDir(pc'[t], req'[t], args'[t], frame'[t], disk')
  BY <1>2, <1>6, <1>13, <1>14, <1>18, <1>20, <1>21, <1>22 DEF KnowsDir, Created, WithEntry, Found
<1>24. KnowsTarget(pc'[t], req'[t], args'[t], frame'[t], disk')
  BY <1>2 DEF KnowsTarget, HoldsTarget, OnTarget, OnFile
<1>25. n # z
  BY <1>6, <1>7, <1>11
<1>26. KnowsReserved(pc'[t], req'[t], args'[t], frame'[t], disk')
  BY <1>2, <1>15, <1>16, <1>25 DEF KnowsReserved, IsInjective, Z
<1>27. HasLocks(t)'
  <2>1. HoldsDir(pc[t], req[t]) /\ ~HoldsTarget(pc'[t])
    BY <1>2 DEF HoldsDir, InDirectory, HoldsTarget, OnTarget
  <2> QED
    BY <1>2, <1>13, <1>16, <2>1, DirLockStays DEF locks, D
<1>28. Reserved(t)' = {n, z}
  <2>1. n # 0
    BY <1>2, IInvParts DEF Created, n
  <2> QED
    BY <1>2, <1>15, <1>16, <2>1 DEF Reserved, ReservedBy, ToSet, Z
<1>29. /\ ToSet(free_blocks') \cup Reserved(t)' = ToSet(free_blocks) \cup Reserved(t)
       /\ ToSet(free_blocks') \cap Reserved(t)' = {} /\ IsInjective(free_blocks')
  BY <1>2, <1>6, <1>7, <1>11, <1>25, <1>28
<1> QED
  BY <1>2, <1>4, <1>5, <1>17, <1>23, <1>24, <1>26, <1>27, <1>29, MovesFree DEF Mine, Knows

(* The step is one between two writes of a create. *)
LEMMA NextWriteOfCreate ==
  ASSUME NEW from \in Created, NEW step \in {"write_inode", "write_folder", "write_parent"},
         NEW r, NEW a, NEW f, NEW d, from # "grow",
         KnowsDir(from, r, a, f, d)
  PROVE  KnowsDir(step, r, a, f, d)
  BY DEF KnowsDir, HoldsDir, InDirectory, Created, WithEntry, Found, PlaceForEntry

(* The new inode is written to its reserved block. *)
LEMMA WriteNewInodeKeeps ==
  ASSUME IInv, NEW t \in Threads, WriteNewInode(t)
  PROVE  Alone(t) /\ DoesItsPart(t)
<1> DEFINE D == args[t].disk_block
           n == frame[t].new_block
           c == InodeBlock(NewInode(req[t].type, req[t].user))
<1>1. /\ TypeOK /\ Locals(pc[t], req[t], args[t], frame[t]) /\ SoundDisk(disk)
      /\ args[t] \in Args /\ frame[t] \in Frame /\ disk \in [Blocks -> Content]
      /\ KnowsDir(pc[t], req[t], args[t], frame[t], disk)
      /\ KnowsReserved(pc[t], req[t], args[t], frame[t], disk)
  BY IInvParts
<1>2. /\ pc[t] = "write_inode" /\ pc'[t] = "write_folder" /\ req' = req
      /\ disk' = [disk EXCEPT ![n] = c]
      /\ free_blocks' = free_blocks /\ args' = args /\ frame' = frame
      /\ UNCHANGED locks /\ boot' = boot
  BY <1>1 DEF WriteNewInode, Goto, Write, TypeOK, server
<1>3. OthersUnchanged(t)
  BY <1>1, <1>2 DEF WriteNewInode, Goto, TypeOK, OthersUnchanged
<1>4. Alone(t)
  BY <1>2, <1>3 DEF Alone, LockStep
<1>5. /\ D \in LiveInodes(disk) /\ D \in Blocks /\ frame[t].to_free = << >> /\ frame[t].ret = "none"
      /\ n \in Blocks \ Live(disk) /\ n \in Reserved(t) /\ t \in wrlock[D]
      /\ Reserved(t) \cap (Live(disk) \cup ToSet(free_blocks)) = {}
      /\ req[t].type \in {"f", "d"} /\ req[t].user \in Users
  BY <1>2, CreateKnows DEF Created
<1>6. c \in Content
  BY <1>5, NewInodeType, ContentTypes
<1> HIDE DEF D, n, c
<1>7. disk' = Written(disk, n, c) /\ disk'[n] = c /\ \A b : disk'[b] = disk[b] \/ b = n
  BY <1>1, <1>2, <1>5 DEF Written
<1>8. /\ SoundDisk(disk') /\ LiveInodes(disk') = LiveInodes(disk) /\ Live(disk') = Live(disk)
      /\ \A b \in LiveInodes(disk) : Same(disk, disk', b)
  <2>1. disk \in [Blocks -> Content] /\ SoundDisk(disk) /\ c \in Content /\ n \in Blocks \ Live(disk)
    BY <1>1, <1>5, <1>6
  <2>2. LET e == Written(disk, n, c)
        IN  /\ SoundDisk(e) /\ LiveInodes(e) = LiveInodes(disk) /\ Live(e) = Live(disk)
            /\ \A b \in LiveInodes(disk) : Same(disk, e, b)
    BY ONLY <2>1, UnusedWritten
  <2> QED
    BY <1>7, <2>2
<1>9. OthersKnow(t)'
  <2>1. SameBut(disk, disk', D) /\ LiveInodes(disk) \subseteq LiveInodes(disk')
    BY <1>8 DEF SameBut
  <2>2. \A b : disk'[b] = disk[b] \/ b \in Live(disk) \cup Reserved(t)
    BY <1>5, <1>7
  <2> QED
    BY <1>3, <1>5, <2>1, <2>2, OthersStillKnow
<1>10. KnowsDir(pc'[t], req'[t], args'[t], frame'[t], disk')
  <2>1. Same(disk, disk', args[t].disk_block) /\ args[t].disk_block \in LiveInodes(disk')
    BY <1>5, <1>8 DEF D
  <2>2. KnowsDir("write_inode", req[t], args[t], frame[t], disk')
    BY <1>1, <1>2, <2>1, KnowsDirKept
  <2>3. KnowsDir("write_folder", req[t], args[t], frame[t], disk')
    BY <2>2, NextWriteOfCreate DEF Created
  <2> QED
    BY <1>2, <2>3
<1>11. KnowsTarget(pc'[t], req'[t], args'[t], frame'[t], disk')
  BY <1>2 DEF KnowsTarget, HoldsTarget, OnTarget, OnFile
<1>12. KnowsReserved(pc'[t], req'[t], args'[t], frame'[t], disk')
  BY <1>1, <1>2, <1>5, <1>7 DEF KnowsReserved, n, c
<1>13. Locals(pc'[t], req'[t], args'[t], frame'[t])
  BY <1>1, <1>2, <1>5 DEF Locals, Without, AtLastName, Created, Decided
<1>14. HasLocks(t)'
  <2>1. HoldsDir(pc[t], req[t]) /\ ~HoldsTarget(pc'[t])
    BY <1>2 DEF HoldsDir, InDirectory, HoldsTarget, OnTarget
  <2> QED
    BY <1>2, <2>1, DirLockStays DEF locks
<1>15. Reserved(t)' = Reserved(t)
  BY <1>2 DEF Reserved, ReservedBy
<1> QED
  BY <1>2, <1>3, <1>4, <1>5, <1>8, <1>9, <1>10, <1>11, <1>12, <1>13, <1>14, <1>15, MovesLive
     DEF Mine, Knows

(* A step of a create that adds its entry, and one that writes beside the   *)
(* tree.                                                                    *)
AddsEntry(t) ==
  LET D == args[t].disk_block
      n == frame[t].new_block
  IN  /\ SameBut(disk, disk', D) /\ SameNode(disk, disk', D) /\ disk'[n] = disk[n]
      /\ disk[n] = InodeBlock(NewInode(req[t].type, req[t].user))
      /\ Listed(disk', D) = Listed(disk, D) \cup {[name |-> Last(req[t].path), inode_block |-> n]}

WritesUnused == \E w \in Blocks \ Live(disk), c \in Content : disk' = Written(disk, w, c)

(* The block of entries is written: a new one is not in the tree yet, in one *)
(* of the directory's the write creates the entry.                          *)
LEMMA WriteFolderKeeps ==
  ASSUME IInv, NEW t \in Threads, WriteFolder(t)
  PROVE  /\ Alone(t) /\ DoesItsPart(t)
         /\ IF frame[t].grown THEN WritesUnused ELSE AddsEntry(t)
<1> DEFINE D == args[t].disk_block
           n == frame[t].new_block
           i == args[t].blocks_index
           j == args[t].folder_index
           w == args[t].inode.blocks[i]
           entry == [name |-> Last(req[t].path), inode_block |-> n]
           F == [args[t].folders EXCEPT ![j] = entry]
<1>1. /\ TypeOK /\ Locals(pc[t], req[t], args[t], frame[t]) /\ SoundDisk(disk)
      /\ args[t] \in Args /\ frame[t] \in Frame /\ disk \in [Blocks -> Content]
      /\ KnowsDir(pc[t], req[t], args[t], frame[t], disk)
      /\ KnowsReserved(pc[t], req[t], args[t], frame[t], disk)
  BY IInvParts
<1>2. /\ pc[t] = "write_folder" /\ req' = req /\ disk' = [disk EXCEPT ![w] = FolderBlock(F)]
      /\ free_blocks' = free_blocks /\ args' = args
      /\ UNCHANGED locks /\ boot' = boot
      /\ pc'[t] = IF frame[t].grown THEN "write_parent" ELSE "unlock_parent"
      /\ Decide(t, IF frame[t].grown THEN frame[t].ret ELSE "ok")
  BY <1>1 DEF WriteFolder, Goto, Write, TypeOK, server, NewDirentry
<1>3. OthersUnchanged(t)
  BY <1>1, <1>2, DecideEffect DEF WriteFolder, Goto, TypeOK, OthersUnchanged
<1>4. Alone(t)
  BY <1>2, <1>3 DEF Alone, LockStep
<1>5. /\ D \in LiveInodes(disk) /\ D \in Blocks /\ IsDir(disk, D) /\ t \in wrlock[D]
      /\ frame[t].to_free = << >> /\ frame[t].ret = "none"
      /\ n \in Blocks \ Live(disk) /\ AsInode(disk[D]).owner \in {NoUser, req[t].user}
      /\ CopyOfDir(args[t], frame[t], disk)
      /\ \A e \in Entries(disk, D) : Name(disk, D, e) # Last(req[t].path)
      /\ req[t].type \in {"f", "d"} /\ req[t].user \in Users /\ Last(req[t].path) \in Names
  BY <1>2, CreateKnows DEF Created
<1>6. Reserved(t) \cap (Live(disk) \cup ToSet(free_blocks)) = {}
  BY <1>2, CreateKnows DEF Created
<1>7. /\ frame[t].grown => Last(args[t].inode.blocks) \in Blocks \ Live(disk) /\ Reserved(t) = {n, Last(args[t].inode.blocks)}
      /\ ~frame[t].grown => Reserved(t) = {n}
  BY <1>2, CreateKnows DEF Created
<1>8. /\ frame'[t].path_index = frame[t].path_index /\ frame'[t].new_block = n
      /\ frame'[t].grown = frame[t].grown /\ frame'[t].to_free = << >>
      /\ frame'[t].ret = IF frame[t].grown THEN "none" ELSE "ok"
  BY <1>1, <1>2, <1>5, DecideEffect
<1>9. PlaceForEntry("write_folder", args[t], frame[t], disk)
  BY <1>1, <1>2 DEF KnowsDir, Created
<1>10. disk[n] = InodeBlock(NewInode(req[t].type, req[t].user))
  BY <1>1, <1>2 DEF KnowsReserved
<1>11. entry \in Direntry /\ j \in 1 .. FS_DIRENTRIES /\ args[t].folders \in Folders
  BY <1>1, <1>5 DEF Direntry, Args
<1>12. F \in Folders
  BY <1>11 DEF Folders
<1>13. FolderBlock(F) \in Content
  BY <1>12, ContentTypes
<1>14. Locals(pc'[t], req'[t], args'[t], frame'[t])
  BY <1>1, <1>2, <1>8 DEF Locals, Without, AtLastName, Created, Decided
<1>15. HasLocks(t)'
  <2>1. HoldsDir(pc[t], req[t]) /\ ~HoldsTarget(pc'[t])
    BY <1>2 DEF HoldsDir, InDirectory, HoldsTarget, OnTarget
  <2> QED
    BY <1>2, <1>8, <2>1, DirLockStays DEF locks
<1> HIDE DEF D, n, i, j, w, entry, F
<1>18. D \in Blocks /\ t \in wrlock[D] /\ args'[t].disk_block = D /\ D \in LiveInodes(disk)
  BY <1>2, <1>5 DEF D
<1>16. CASE frame[t].grown
  <2>1. w = Last(args[t].inode.blocks) /\ args[t].folders = EmptyFolders /\ j = 1
    BY <1>9, <1>16 DEF PlaceForEntry, w, i, j, Last
  <2>2. w \in Blocks \ Live(disk) /\ w \in Reserved(t)
    BY <1>7, <1>16, <2>1
  <2>3. disk' = Written(disk, w, FolderBlock(F)) /\ disk'[w] = FolderBlock(F)
        /\ \A b : disk'[b] = disk[b] \/ b = w
    BY <1>1, <1>2, <2>2 DEF Written
  <2>4. disk \in [Blocks -> Content] /\ SoundDisk(disk) /\ FolderBlock(F) \in Content /\ w \in Blocks \ Live(disk)
    BY <1>1, <1>13, <2>2
  <2>5. LET e == Written(disk, w, FolderBlock(F))
        IN  /\ SoundDisk(e) /\ LiveInodes(e) = LiveInodes(disk) /\ Live(e) = Live(disk)
            /\ \A b \in LiveInodes(disk) : Same(disk, e, b)
    BY ONLY <2>4, UnusedWritten
  <2>6. /\ SoundDisk(disk') /\ LiveInodes(disk') = LiveInodes(disk) /\ Live(disk') = Live(disk)
        /\ \A b \in LiveInodes(disk) : Same(disk, disk', b)
    BY <2>3, <2>5
  <2>7. OthersKnow(t)'
    <3>1. SameBut(disk, disk', D) /\ LiveInodes(disk) \subseteq LiveInodes(disk')
      BY <2>6 DEF SameBut
    <3>2. \A b : disk'[b] = disk[b] \/ b \in Live(disk) \cup Reserved(t)
      BY <2>2, <2>3
    <3> QED
      BY ONLY IInv, t \in Threads, <1>3, <1>18, <3>1, <3>2, OthersStillKnow
  <2>8. KnowsDir(pc'[t], req'[t], args'[t], frame'[t], disk')
    <3>1. Same(disk, disk', args[t].disk_block) /\ args[t].disk_block \in LiveInodes(disk')
      BY <1>5, <2>6 DEF D
    <3>2. KnowsDir("write_folder", req[t], args[t], frame[t], disk')
      BY <1>1, <1>2, <3>1, KnowsDirKept
    <3>3. KnowsDir("write_parent", req[t], args[t], frame[t], disk')
      BY <3>2, NextWriteOfCreate DEF Created
    <3>4. frame'[t].path_index = frame[t].path_index /\ frame'[t].grown = frame[t].grown
      BY <1>8
    <3>5. KnowsDir("write_parent", req[t], args[t], frame'[t], disk')
      BY <3>3, <3>4 DEF KnowsDir, CopyOfDir, EntryFound, PlaceForEntry, SameFolders
    <3> QED
      BY <1>2, <1>16, <3>5
  <2>9. KnowsTarget(pc'[t], req'[t], args'[t], frame'[t], disk')
    BY <1>2, <1>16 DEF KnowsTarget, HoldsTarget, OnTarget, OnFile
  <2>10. n # w
    BY <1>1, <1>2, <1>16, <2>1 DEF KnowsReserved, n
  <2>11. KnowsReserved(pc'[t], req'[t], args'[t], frame'[t], disk')
    <3>1. disk'[n] = InodeBlock(NewInode(req[t].type, req[t].user))
      BY <1>10, <2>3, <2>10
    <3>2. disk'[w] = FolderBlock([EmptyFolders EXCEPT ![1] = [name |-> Last(req[t].path), inode_block |-> n]])
      BY <2>1, <2>3 DEF F, entry
    <3> QED
      BY <1>2, <1>8, <1>16, <2>1, <2>10, <3>1, <3>2 DEF KnowsReserved, IsInjective
  <2>12. Reserved(t)' = Reserved(t)
    BY <1>2, <1>5, <1>8, <1>16 DEF Reserved, ReservedBy, ToSet, n
  <2>13. DoesItsPart(t)
    BY <1>2, <1>3, <1>6, <1>14, <1>15, <2>6, <2>7, <2>8, <2>9, <2>11, <2>12, MovesLive DEF Mine, Knows
  <2>14. WritesUnused
    BY <1>13, <2>2, <2>3 DEF WritesUnused
  <2> QED
    BY <1>4, <1>16, <2>13, <2>14
<1>17. CASE ~frame[t].grown
  <2>1. SameFolders(args[t], disk) /\ args[t].folders[j].inode_block = 0
    BY <1>9, <1>17 DEF PlaceForEntry, j
  <2>2. args[t].inode = AsInode(disk[D])
    BY <1>5, <1>17 DEF CopyOfDir, D
  <2>3. i \in Positions(disk, D) /\ w = Block(disk, D, i) /\ args[t].folders = AsFolders(disk[w])
    BY <2>1, <2>2 DEF SameFolders, Positions, Block, i, w
  <2>4. AsFolders(disk[Block(disk, D, i)])[j].inode_block = 0
    BY <2>1, <2>3
  <2> DEFINE name == Last(req[t].path)
             type == req[t].type
             user == req[t].user
  <2>5. /\ disk \in [Blocks -> Content] /\ SoundDisk(disk) /\ D \in LiveInodes(disk) /\ IsDir(disk, D)
        /\ i \in Positions(disk, D) /\ j \in 1 .. FS_DIRENTRIES
        /\ AsFolders(disk[Block(disk, D, i)])[j].inode_block = 0
        /\ n \in Blocks \ Live(disk) /\ name \in Names
        /\ \A s \in Entries(disk, D) : Name(disk, D, s) # name
        /\ type \in {"f", "d"} /\ user \in Users /\ disk[n] = InodeBlock(NewInode(type, user))
        /\ AsInode(disk[D]).owner \in {NoUser, user}
    BY <1>1, <1>5, <1>10, <1>11, <2>3, <2>4
  <2> HIDE DEF name, type, user
  <2>6. LET e == EntrySet(disk, D, i, j, [name |-> name, inode_block |-> n])
        IN  /\ SoundDisk(e) /\ SameBut(disk, e, D)
            /\ LiveInodes(e) = LiveInodes(disk) \cup {n} /\ Live(e) = Live(disk) \cup {n}
            /\ Listed(e, D) = Listed(disk, D) \cup {[name |-> name, inode_block |-> n]}
            /\ SameNode(disk, e, D) /\ e[n] = disk[n] /\ e \in [Blocks -> Content]
    BY ONLY <2>5, EntryWritten
  <2>7. F = [AsFolders(disk[w]) EXCEPT ![j] = [name |-> name, inode_block |-> n]]
    BY <2>3 DEF F, entry, name
  <2>8. w \in Blocks /\ w \in Live(disk)
    <3>1. w \in Blocks
      BY <1>1, <1>5, <2>3, InodeFacts
    <3>2. w \in DataBlocksOf(disk, D)
      BY <2>3, DataBlocksAre
    <3> QED
      BY <1>5, <3>1, <3>2 DEF Live
  <2>9. disk' = Written(disk, w, FolderBlock(F)) /\ \A b : disk'[b] = disk[b] \/ b = w
    BY <1>1, <1>2, <2>8 DEF Written
  <2>10. /\ SoundDisk(disk') /\ SameBut(disk, disk', D)
         /\ LiveInodes(disk') = LiveInodes(disk) \cup {n} /\ Live(disk') = Live(disk) \cup {n}
         /\ Listed(disk', D) = Listed(disk, D) \cup {[name |-> name, inode_block |-> n]}
         /\ SameNode(disk, disk', D) /\ disk'[n] = disk[n]
    BY <2>3, <2>6, <2>7, <2>9 DEF EntrySet
  <2>11. OthersKnow(t)'
    <3>1. LiveInodes(disk) \subseteq LiveInodes(disk')
      BY <2>10
    <3>2. \A b : disk'[b] = disk[b] \/ b \in Live(disk) \cup Reserved(t)
      BY <2>8, <2>9
    <3> QED
      BY ONLY IInv, t \in Threads, <1>3, <1>18, <2>10, <3>1, <3>2, OthersStillKnow
  <2>12. Knows(pc'[t], req'[t], args'[t], frame'[t], disk')
    <3>1. pc'[t] = "unlock_parent" /\ args'[t].disk_block \in LiveInodes(disk')
          /\ IsInjective(frame'[t].to_free)
      <4>1. pc'[t] = "unlock_parent"
        BY <1>2, <1>17
      <4>2. args'[t].disk_block \in LiveInodes(disk')
        BY <1>18, <2>10
      <4>3. IsInjective(frame'[t].to_free)
        BY <1>8 DEF IsInjective
      <4> QED
        BY <4>1, <4>2, <4>3
    <3> QED
      BY ONLY <3>1, KnowsPlace
  <2>13. Reserved(t)' = {}
    BY <1>2, <1>8, <1>17 DEF Reserved, ReservedBy, ToSet
  <2>14. Reserved(t) = {n}
    BY <1>7, <1>17
  <2>15. DoesItsPart(t)
    BY <1>2, <1>3, <1>6, <1>14, <1>15, <2>10, <2>11, <2>12, <2>13, <2>14, MovesLive DEF Mine
  <2>16. AddsEntry(t)
    BY <1>10, <2>10 DEF AddsEntry, name, D, n
  <2> QED
    BY <1>4, <1>17, <2>15, <2>16
<1> QED
  BY <1>16, <1>17

(* The parent's inode is written: the entry in its new block is created. *)
LEMMA WriteParentKeeps ==
  ASSUME IInv, NEW t \in Threads, WriteParent(t)
  PROVE  Alone(t) /\ DoesItsPart(t) /\ AddsEntry(t)
<1> DEFINE D == args[t].disk_block
           n == frame[t].new_block
           inode == args[t].inode
           z == Last(args[t].inode.blocks)
           name == Last(req[t].path)
           type == req[t].type
           user == req[t].user
<1>1. /\ TypeOK /\ Locals(pc[t], req[t], args[t], frame[t]) /\ SoundDisk(disk)
      /\ args[t] \in Args /\ frame[t] \in Frame /\ disk \in [Blocks -> Content]
      /\ KnowsReserved(pc[t], req[t], args[t], frame[t], disk)
  BY IInvParts
<1>2. /\ pc[t] = "write_parent" /\ req' = req /\ disk' = [disk EXCEPT ![D] = InodeBlock(inode)]
      /\ free_blocks' = free_blocks /\ args' = args
      /\ UNCHANGED locks /\ boot' = boot /\ pc'[t] = "unlock_parent" /\ Decide(t, "ok")
  BY <1>1 DEF WriteParent, Goto, Write, TypeOK, server
<1>3. OthersUnchanged(t)
  BY <1>1, <1>2, DecideEffect DEF WriteParent, Goto, TypeOK, OthersUnchanged
<1>4. Alone(t)
  BY <1>2, <1>3 DEF Alone, LockStep
<1>5. frame[t].grown
  BY <1>1, <1>2 DEF Locals
<1>6. /\ D \in LiveInodes(disk) /\ D \in Blocks /\ IsDir(disk, D) /\ t \in wrlock[D]
      /\ frame[t].to_free = << >> /\ frame[t].ret = "none"
      /\ n \in Blocks \ Live(disk) /\ AsInode(disk[D]).owner \in {NoUser, user}
      /\ CopyOfDir(args[t], frame[t], disk)
      /\ \A e \in Entries(disk, D) : Name(disk, D, e) # name
      /\ type \in {"f", "d"} /\ user \in Users /\ name \in Names
  BY <1>2, CreateKnows DEF Created
<1>7. Reserved(t) \cap (Live(disk) \cup ToSet(free_blocks)) = {}
  BY <1>2, CreateKnows DEF Created
<1>8. z \in Blocks \ Live(disk) /\ Reserved(t) = {n, z}
  BY <1>2, <1>5, CreateKnows DEF Created
<1>9. /\ frame'[t].path_index = frame[t].path_index /\ frame'[t].new_block = n
      /\ frame'[t].grown = frame[t].grown /\ frame'[t].to_free = << >> /\ frame'[t].ret = "ok"
  BY <1>1, <1>2, <1>6, DecideEffect
<1>10. /\ disk[n] = InodeBlock(NewInode(type, user)) /\ n # z
       /\ disk[z] = FolderBlock([EmptyFolders EXCEPT ![1] = [name |-> name, inode_block |-> n]])
  BY <1>1, <1>2, <1>5 DEF KnowsReserved
<1>11. /\ inode \in Inode /\ inode.type = AsInode(disk[D]).type /\ inode.owner = AsInode(disk[D]).owner
       /\ inode.blocks = Append(AsInode(disk[D]).blocks, z)
  BY <1>1, <1>5, <1>6 DEF CopyOfDir, Args
<1>12. Locals(pc'[t], req'[t], args'[t], frame'[t])
  BY <1>1, <1>2, <1>9 DEF Locals, Without, AtLastName, Created, Decided
<1>13. HasLocks(t)'
  <2>1. HoldsDir(pc[t], req[t]) /\ ~HoldsTarget(pc'[t])
    BY <1>2 DEF HoldsDir, InDirectory, HoldsTarget, OnTarget
  <2> QED
    BY <1>2, <1>9, <2>1, DirLockStays DEF locks
<1> HIDE DEF D, n, inode, z, name, type, user
<1>14. /\ disk \in [Blocks -> Content] /\ SoundDisk(disk) /\ D \in LiveInodes(disk) /\ IsDir(disk, D)
       /\ n \in Blocks \ Live(disk) /\ z \in Blocks \ Live(disk) /\ n # z /\ name \in Names
       /\ \A s \in Entries(disk, D) : Name(disk, D, s) # name
       /\ disk[z] = FolderBlock([EmptyFolders EXCEPT ![1] = [name |-> name, inode_block |-> n]])
       /\ type \in {"f", "d"} /\ user \in Users /\ disk[n] = InodeBlock(NewInode(type, user))
       /\ AsInode(disk[D]).owner \in {NoUser, user} /\ inode \in Inode
       /\ inode.type = AsInode(disk[D]).type /\ inode.owner = AsInode(disk[D]).owner
       /\ inode.blocks = Append(AsInode(disk[D]).blocks, z)
  BY <1>1, <1>6, <1>8, <1>10, <1>11
<1>15. LET e == Written(disk, D, InodeBlock(inode))
       IN  /\ SoundDisk(e) /\ SameBut(disk, e, D)
           /\ LiveInodes(e) = LiveInodes(disk) \cup {n} /\ Live(e) = Live(disk) \cup {n, z}
           /\ Listed(e, D) = Listed(disk, D) \cup {[name |-> name, inode_block |-> n]}
           /\ SameNode(disk, e, D) /\ e[n] = disk[n] /\ e \in [Blocks -> Content]
  BY ONLY <1>14, EntryInNewBlock
<1>16. disk' = Written(disk, D, InodeBlock(inode)) /\ \A b : disk'[b] = disk[b] \/ b = D
  BY <1>1, <1>2, <1>6 DEF Written
<1>17. /\ SoundDisk(disk') /\ SameBut(disk, disk', D)
       /\ LiveInodes(disk') = LiveInodes(disk) \cup {n} /\ Live(disk') = Live(disk) \cup {n, z}
       /\ Listed(disk', D) = Listed(disk, D) \cup {[name |-> name, inode_block |-> n]}
       /\ SameNode(disk, disk', D) /\ disk'[n] = disk[n]
  BY <1>15, <1>16
<1>21. D \in Blocks /\ t \in wrlock[D] /\ args'[t].disk_block = D /\ D \in LiveInodes(disk)
  BY <1>2, <1>6 DEF D
<1>18. OthersKnow(t)'
  <2>1. LiveInodes(disk) \subseteq LiveInodes(disk')
    BY <1>17
  <2>2. \A b : disk'[b] = disk[b] \/ b \in Live(disk) \cup Reserved(t)
    BY <1>6, <1>16 DEF Live
  <2> QED
    BY ONLY IInv, t \in Threads, <1>3, <1>21, <1>17, <2>1, <2>2, OthersStillKnow
<1>19. Knows(pc'[t], req'[t], args'[t], frame'[t], disk')
  <2>1. pc'[t] = "unlock_parent" /\ args'[t].disk_block \in LiveInodes(disk')
        /\ IsInjective(frame'[t].to_free)
    <3>1. args'[t].disk_block \in LiveInodes(disk')
      BY <1>17, <1>21
    <3>2. IsInjective(frame'[t].to_free)
      BY <1>9 DEF IsInjective
    <3> QED
      BY <1>2, <3>1, <3>2
  <2> QED
    BY ONLY <2>1, KnowsPlace
<1>20. Reserved(t)' = {}
  BY <1>2, <1>9 DEF Reserved, ReservedBy, ToSet
<1>22. DoesItsPart(t)
  BY <1>2, <1>3, <1>7, <1>8, <1>12, <1>13, <1>17, <1>18, <1>19, <1>20, MovesLive DEF Mine
<1>23. AddsEntry(t)
  BY <1>10, <1>17 DEF AddsEntry, D, n, name, type, user
<1> QED
  BY <1>4, <1>22, <1>23

-----------------------------------------------------------------------------
(* The entry's own inode: delete_entry. *)

(* A step that takes and releases no lock leaves those it has. *)
LEMMA LocksStay ==
  ASSUME IInv, NEW t \in Threads, UNCHANGED locks, req'[t] = req[t],
         args'[t].disk_block = args[t].disk_block, frame'[t].target = frame[t].target,
         frame'[t].path_index = frame[t].path_index,
         HoldsDir(pc'[t], req[t]) => HoldsDir(pc[t], req[t]),
         HoldsTarget(pc'[t]) => HoldsTarget(pc[t])
  PROVE  HasLocks(t)'
  BY IInvParts DEF HasLocks, locks

(* The entry that was found stays the one found. *)
LEMMA EntryStaysFound ==
  ASSUME NEW from \in WithEntry, NEW step \in WithEntry, NEW r, NEW a, NEW f, NEW g, NEW d,
         KnowsDir(from, r, a, f, d), g.grown = f.grown, g.path_index = f.path_index
  PROVE  KnowsDir(step, r, a, g, d)
  BY DEF KnowsDir, HoldsDir, InDirectory, WithEntry, Found, Created, CopyOfDir, EntryFound, SameFolders

(* Outside create_entry and ExtendFile a thread has reserved what it frees. *)
LEMMA HasToFree ==
  ASSUME IInv, NEW t \in Threads, pc[t] # "idle", req[t].op # "create",
         pc[t] \notin {"append_data", "append_inode"}
  PROVE  Reserved(t) = ToSet(frame[t].to_free) /\ frame[t].new_block = 0
<1>1. /\ Locals(pc[t], req[t], args[t], frame[t]) /\ StepShape(t) /\ frame[t] \in Frame
  BY IInvParts
<1>2. frame[t].new_block = 0
  BY <1>1 DEF Locals
<1>3. CASE frame[t].ret # "none"
  BY <1>2, <1>3 DEF Reserved, ReservedBy
<1>4. CASE frame[t].ret = "none"
  <2>1. ~frame[t].grown
    BY <1>1, <1>4 DEF Locals, StepShape, Created, Decided
  <2> QED
    BY <1>2, <1>4, <2>1 DEF Reserved, ReservedBy
<1> QED
  BY <1>2, <1>3, <1>4

(* The entry's inode is locked. *)
LEMMA LockTargetKeeps ==
  ASSUME IInv, NEW t \in Threads, LockTarget(t)
  PROVE  Alone(t) /\ DoesItsPart(t)
<1> DEFINE D == args[t].disk_block
           n == Entry(t).inode_block
           r == req[t]
<1>1. /\ TypeOK /\ StepShape(t) /\ Locals(pc[t], r, args[t], frame[t]) /\ HasLocks(t)
      /\ args[t] \in Args /\ frame[t] \in Frame
      /\ KnowsDir(pc[t], r, args[t], frame[t], disk)
  BY IInvParts
<1>2. /\ pc[t] = "lock_target" /\ req' = req /\ disk' = disk
      /\ pc'[t] = IF r.op = "delete" THEN "check_delete" ELSE "unlock_dir"
      /\ free_blocks' = free_blocks /\ args' = args /\ boot' = boot
      /\ frame' = [frame EXCEPT ![t].target = n]
      /\ IF r.op = "read" THEN RdLock(t, n) ELSE WrLock(t, n)
  BY <1>1 DEF LockTarget, Goto, TypeOK, server
<1>3. r.op \in Ops /\ r.op # "create"
  BY <1>1, <1>2, IInvParts DEF Locals
<1>4. /\ D \in LiveInodes(disk) /\ D \in Blocks /\ n \in LiveInodes(disk) /\ n \in Blocks /\ n # D
  BY <1>2, EntryIsChild DEF WithEntry, Found
<1>5. n = args[t].folders[args[t].folder_index].inode_block
  BY DEF Entry
<1> HIDE DEF D, n
<1>6. OthersUnchanged(t)
  BY <1>1, <1>2 DEF LockTarget, Goto, TypeOK, OthersUnchanged
<1>7. LockStep(t)
  BY <1>2, <1>4 DEF LockStep
<1>8. Alone(t)
  BY <1>2, <1>6, <1>7 DEF Alone
<1>9. /\ frame'[t].target = n /\ frame'[t].path_index = frame[t].path_index
      /\ frame'[t].new_block = frame[t].new_block /\ frame'[t].grown = frame[t].grown
      /\ frame'[t].to_free = frame[t].to_free /\ frame'[t].ret = frame[t].ret
  BY <1>1, <1>2 DEF TypeOK, Frame
<1>10. frame[t].to_free = << >> /\ ~frame[t].grown /\ frame[t].ret = "none"
  BY <1>1, <1>2 DEF Locals, Decided
<1>11. pc'[t] \in {"check_delete", "unlock_dir"}
  BY <1>2
<1>12. Locals(pc'[t], req'[t], args'[t], frame'[t])
  BY <1>1, <1>2, <1>3, <1>9, <1>10 DEF Locals, Without, AtLastName, Created, Decided, Ops
<1>13. HasLocks(t)'
  <2>1. HoldsDir(pc[t], r) /\ HoldsDir(pc'[t], r)
    BY <1>2 DEF HoldsDir, InDirectory
  <2>2. IF TakesWriteLock(r, frame[t].path_index) THEN t \in wrlock[D] ELSE t \in rdlock[D]
    BY <1>1, <2>1 DEF HasLocks, D
  <2>3. IF TakesWriteLock(r, frame[t].path_index) THEN t \in wrlock'[D] ELSE t \in rdlock'[D]
    BY <1>1, <1>2, <1>4, <2>2, LockTaken
  <2>4. IF r.op = "read" THEN t \in rdlock'[n] ELSE t \in wrlock'[n]
    BY <1>1, <1>2, <1>4, LockTaken
  <2> QED
    BY <1>2, <1>9, <2>3, <2>4 DEF HasLocks, D
<1>14. KnowsDir(pc'[t], req'[t], args'[t], frame'[t], disk')
  <2>1. pc[t] \in WithEntry /\ pc'[t] \in WithEntry
    BY <1>2, <1>11 DEF WithEntry, Found
  <2>2. KnowsDir(pc[t], r, args[t], frame[t], disk)
        /\ frame'[t].grown = frame[t].grown /\ frame'[t].path_index = frame[t].path_index
    BY <1>1, <1>9
  <2>3. KnowsDir(pc'[t], r, args[t], frame'[t], disk)
    BY ONLY <2>1, <2>2, EntryStaysFound
  <2> QED
    BY <1>2, <2>3
<1>15. KnowsTarget(pc'[t], req'[t], args'[t], frame'[t], disk')
  <2>1. frame'[t].target \in LiveInodes(disk') /\ frame'[t].target # args'[t].disk_block
        /\ frame'[t].target = args'[t].folders[args'[t].folder_index].inode_block
    BY <1>2, <1>4, <1>5, <1>9 DEF D
  <2> QED
    BY <1>11, <2>1 DEF KnowsTarget, OnFile
<1>16. KnowsReserved(pc'[t], req'[t], args'[t], frame'[t], disk')
  BY <1>9, <1>10, <1>11 DEF KnowsReserved, IsInjective
<1>17. Reserved(t)' = Reserved(t)
  BY <1>2, <1>9, <1>10, <1>11 DEF Reserved, ReservedBy
<1> QED
  BY <1>2, <1>6, <1>8, <1>12, <1>13, <1>14, <1>15, <1>16, <1>17, MovesNothing DEF Mine, Knows

(* The inode to delete is read. *)
LEMMA CheckDeleteKeeps ==
  ASSUME IInv, NEW t \in Threads, CheckDelete(t)
  PROVE  Alone(t) /\ DoesItsPart(t)
<1> DEFINE node == AsInode(disk[frame[t].target])
           may == MayDelete(node, req[t].user)
<1>1. /\ TypeOK /\ StepShape(t) /\ Locals(pc[t], req[t], args[t], frame[t])
      /\ args[t] \in Args /\ frame[t] \in Frame
      /\ KnowsDir(pc[t], req[t], args[t], frame[t], disk)
      /\ KnowsTarget(pc[t], req[t], args[t], frame[t], disk)
  BY IInvParts
<1>2. /\ pc[t] = "check_delete" /\ req' = req /\ disk' = disk /\ free_blocks' = free_blocks
      /\ args' = args /\ UNCHANGED locks /\ boot' = boot
      /\ pc'[t] = IF may THEN "remove" ELSE "unlock_target"
      /\ frame' = [frame EXCEPT ![t].file = node, ![t].ret = IF may THEN @ ELSE "fail"]
  BY <1>1 DEF CheckDelete, Goto, TypeOK, server
<1>3. req[t].op = "delete"
  BY <1>1, <1>2 DEF StepShape
<1>4. OthersUnchanged(t)
  BY <1>1, <1>2 DEF CheckDelete, Goto, TypeOK, OthersUnchanged
<1>5. Alone(t)
  BY <1>2, <1>4 DEF Alone, LockStep
<1>6. /\ frame[t].target \in LiveInodes(disk) /\ frame[t].target # args[t].disk_block
      /\ frame[t].target = args[t].folders[args[t].folder_index].inode_block
  BY <1>1, <1>2 DEF KnowsTarget, OnTarget, HoldsTarget, HoldsDir, InDirectory
<1>7. args[t].disk_block \in LiveInodes(disk)
  BY <1>1, <1>2 DEF KnowsDir, HoldsDir, InDirectory
<1> HIDE DEF node
<1>8. /\ frame'[t].file = node /\ frame'[t].target = frame[t].target
      /\ frame'[t].path_index = frame[t].path_index
      /\ frame'[t].new_block = frame[t].new_block /\ frame'[t].grown = frame[t].grown
      /\ frame'[t].to_free = frame[t].to_free
      /\ frame'[t].ret = IF may THEN frame[t].ret ELSE "fail"
  BY <1>1, <1>2 DEF TypeOK, Frame
<1>9. frame[t].to_free = << >> /\ ~frame[t].grown /\ frame[t].ret = "none" /\ frame[t].new_block = 0
  BY <1>1, <1>2, <1>3 DEF Locals, Decided
<1> HIDE DEF may
<1>10. Locals(pc'[t], req'[t], args'[t], frame'[t])
  BY <1>1, <1>2, <1>3, <1>8, <1>9 DEF Locals, Without, AtLastName, Created, Decided
<1>11. HasLocks(t)'
  <2>1. HoldsDir(pc[t], req[t]) /\ HoldsTarget(pc[t])
    BY <1>2 DEF HoldsDir, InDirectory, HoldsTarget, OnTarget
  <2> QED
    BY <1>2, <1>8, <2>1, LocksStay
<1>12. Reserved(t) = {} /\ Reserved(t)' = {}
  <2>1. Reserved(t) = {}
    BY <1>2, <1>9 DEF Reserved, ReservedBy, ToSet
  <2>2. pc'[t] \in {"remove", "unlock_target"} /\ ToSet(frame'[t].to_free) = {}
    BY <1>2, <1>8, <1>9 DEF ToSet
  <2>3. frame'[t].new_block = 0 /\ ~frame'[t].grown
    BY <1>8, <1>9
  <2> QED
    BY <2>1, <2>2, <2>3 DEF Reserved, ReservedBy
<1>13. Knows(pc'[t], req'[t], args'[t], frame'[t], disk')
  <2>1. CASE may
    <3>1. pc'[t] = "remove"
      BY <1>2, <2>1
    <3>2. KnowsDir(pc'[t], req'[t], args'[t], frame'[t], disk')
      <4>1. pc[t] \in WithEntry /\ pc'[t] \in WithEntry
        BY <1>2, <3>1 DEF WithEntry, Found
      <4>2. KnowsDir(pc[t], req[t], args[t], frame[t], disk)
            /\ frame'[t].grown = frame[t].grown /\ frame'[t].path_index = frame[t].path_index
        BY <1>1, <1>8
      <4>3. KnowsDir(pc'[t], req[t], args[t], frame'[t], disk)
        BY ONLY <4>1, <4>2, EntryStaysFound
      <4> QED
        BY <1>2, <4>3
    <3>3. CopyOfTarget("remove", frame'[t], disk') /\ MayDelete(frame'[t].file, req'[t].user)
      BY <1>2, <1>8, <2>1 DEF CopyOfTarget, node, may
    <3>4. KnowsTarget(pc'[t], req'[t], args'[t], frame'[t], disk')
      BY <1>2, <1>6, <1>8, <3>1, <3>3 DEF KnowsTarget, OnFile
    <3>5. KnowsReserved(pc'[t], req'[t], args'[t], frame'[t], disk')
      BY <1>8, <1>9, <3>1 DEF KnowsReserved, IsInjective
    <3> QED
      BY <3>2, <3>4, <3>5 DEF Knows
  <2>2. CASE ~may
    <3>1. pc'[t] = "unlock_target" /\ args'[t].disk_block \in LiveInodes(disk')
          /\ frame'[t].target # args'[t].disk_block /\ IsInjective(frame'[t].to_free)
      <4>1. pc'[t] = "unlock_target"
        BY <1>2, <2>2
      <4>2. args'[t].disk_block \in LiveInodes(disk') /\ frame'[t].target # args'[t].disk_block
        BY <1>2, <1>6, <1>7, <1>8
      <4>3. IsInjective(frame'[t].to_free)
        BY <1>8, <1>9 DEF IsInjective
      <4> QED
        BY <4>1, <4>2, <4>3
    <3> QED
      BY ONLY <3>1, KnowsPlace
  <2> QED
    BY <2>1, <2>2
<1> QED
  BY <1>2, <1>4, <1>5, <1>10, <1>11, <1>12, <1>13, MovesNothing DEF Mine

(* What delete_entry frees of an inode it may delete is what the inode owns, *)
(* each block once, and nothing is below it.                                *)
LEMMA FreedOwns ==
  ASSUME NEW d \in [Blocks -> Content], SoundDisk(d), NEW n \in LiveInodes(d),
         ~(AsInode(d[n]).type = "d" /\ Len(AsInode(d[n]).blocks) # 0)
  PROVE  LET s == BlocksToFree(AsInode(d[n]), n)
         IN  /\ ChildrenOf(d, n) = {} /\ s \in Seq(Blocks)
             /\ ToSet(s) = Owns(d, n) /\ IsInjective(s)
<1> DEFINE f == AsInode(d[n])
           bs == IF f.type = "f" THEN f.blocks ELSE << >>
<1>1. n \in Blocks /\ SoundInode(d, n) /\ d[n].kind = "inode"
      /\ \A c \in DataBlocksOf(d, n) : c \in Blocks \ {0} /\ d[c].kind # "inode"
  BY SoundRefs
<1>2. f.type \in {"d", "f"} /\ f.blocks \in Seq(Blocks) /\ Len(f.blocks) \in Nat
  BY <1>1, InodeFacts DEF BlockList
<1>3. \A c : c \in DataBlocksOf(d, n) <=> \E i \in 1 .. Len(f.blocks) : f.blocks[i] = c
  BY DataBlocksAre DEF Positions, Block
<1>4. \A i, j \in 1 .. Len(f.blocks) : f.blocks[i] = f.blocks[j] => i = j
  BY <1>1 DEF SoundInode, Positions, Block
<1>5. ChildrenOf(d, n) = {}
  <2>1. CASE f.type = "f"
    BY <2>1 DEF ChildrenOf
  <2>2. CASE f.type = "d"
    <3>1. 1 .. Len(f.blocks) = {}
      BY <1>2, <2>2
    <3>2. Slots(f) = {}
      BY <3>1 DEF Slots
    <3> QED
      BY <3>2 DEF ChildrenOf
  <2> QED
    BY <1>2, <2>1, <2>2
<1>6. /\ bs \in Seq(Blocks) /\ IsInjective(bs) /\ ToSet(bs) = DataBlocksOf(d, n)
  <2>1. CASE f.type = "f"
    <3>1. \A c : c \in ToSet(f.blocks) <=> \E i \in 1 .. Len(f.blocks) : f.blocks[i] = c
      BY <1>2, MemberAt
    <3>2. IsInjective(f.blocks)
      BY <1>2, <1>4 DEF IsInjective
    <3> QED
      BY <1>2, <1>3, <2>1, <3>1, <3>2
  <2>2. CASE f.type = "d"
    <3>1. 1 .. Len(f.blocks) = {}
      BY <1>2, <2>2
    <3>2. DataBlocksOf(d, n) = {}
      BY <1>3, <3>1
    <3> QED
      BY <2>2, <3>2 DEF ToSet, IsInjective
  <2> QED
    BY <1>2, <2>1, <2>2
<1>7. n \notin DataBlocksOf(d, n)
  BY <1>1
<1>8. <<n>> \in Seq(Blocks) /\ ToSet(<<n>>) = {n} /\ IsInjective(<<n>>)
  BY <1>1 DEF ToSet, IsInjective
<1>9. PICK one : one = <<n>>
  OBVIOUS
<1> HIDE DEF f, bs
<1>10. ToSet(bs \o one) = Owns(d, n) /\ IsInjective(bs \o one) /\ bs \o one \in Seq(Blocks)
  <2>1. one \in Seq(Blocks) /\ ToSet(one) = {n} /\ IsInjective(one)
    BY <1>8, <1>9
  <2>2. bs \in Seq(Blocks) /\ IsInjective(bs) /\ ToSet(bs) \cap ToSet(one) = {}
    BY <1>6, <1>7, <2>1
  <2>3. ToSet(bs \o one) = ToSet(bs) \cup ToSet(one) /\ IsInjective(bs \o one)
    BY ONLY <2>1, <2>2, ConcatSet
  <2> QED
    BY <1>6, <2>1, <2>2, <2>3 DEF Owns
<1> QED
  BY <1>5, <1>9, <1>10 DEF BlocksToFree, f, bs

(* A step of a delete that removes its entry, whose inode is a leaf. *)
RemovesEntry(t) ==
  LET D == args[t].disk_block
      n == frame[t].target
      l == [name |-> Last(req[t].path), inode_block |-> n]
  IN  /\ SameBut(disk, disk', D) /\ SameNode(disk, disk', D)
      /\ l \in Listed(disk, D) /\ Listed(disk', D) = Listed(disk, D) \ {l}
      /\ ChildrenOf(disk, n) = {} /\ LiveInodes(disk') = LiveInodes(disk) \ {n}

(* The entry is removed: what it led to is the thread's, to be freed. *)
LEMMA RemoveEntryKeeps ==
  ASSUME IInv, NEW t \in Threads, RemoveEntry(t)
  PROVE  Alone(t) /\ DoesItsPart(t) /\ RemovesEntry(t)
<1> DEFINE D == args[t].disk_block
           n == frame[t].target
           i == args[t].blocks_index
           j == args[t].folder_index
           z == Block(disk, D, i)
           F == [AsFolders(disk[z]) EXCEPT ![j] = Unused]
           parent == [args[t].inode EXCEPT !.blocks = RemoveAt(@, i)]
           freed == BlocksToFree(frame[t].file, n)
           empty == FolderBlockEmpty(F)
           l == [name |-> Name(disk, D, <<i, j>>), inode_block |-> n]
<1>1. /\ TypeOK /\ StepShape(t) /\ Locals(pc[t], req[t], args[t], frame[t]) /\ SoundDisk(disk)
      /\ args[t] \in Args /\ frame[t] \in Frame /\ disk \in [Blocks -> Content] /\ HasLocks(t)
      /\ KnowsTarget(pc[t], req[t], args[t], frame[t], disk)
  BY IInvParts
<1>2. /\ pc[t] = "remove" /\ pc'[t] = "release" /\ req' = req /\ free_blocks' = free_blocks
      /\ args' = args /\ UNCHANGED locks /\ boot' = boot
  BY <1>1 DEF RemoveEntry, Goto, TypeOK, server
<1>3. pc[t] \in WithEntry
  BY <1>2 DEF WithEntry, Found
<1>4. /\ D \in LiveInodes(disk) /\ D \in Blocks /\ IsDir(disk, D)
      /\ args[t].inode = AsInode(disk[D])
      /\ i \in Positions(disk, D) /\ j \in 1 .. FS_DIRENTRIES
      /\ args[t].folders = AsFolders(disk[z])
      /\ <<i, j>> \in Entries(disk, D) /\ Target(disk, D, <<i, j>>) = Entry(t).inode_block
      /\ Entry(t).inode_block # D
      /\ Name(disk, D, <<i, j>>) = req[t].path[frame[t].path_index]
  BY <1>3, EntryIsChild
<1>5. /\ n \in LiveInodes(disk) /\ n = Entry(t).inode_block
      /\ frame[t].file = AsInode(disk[n]) /\ MayDelete(frame[t].file, req[t].user)
  BY <1>1, <1>2 DEF KnowsTarget, OnTarget, Entry, CopyOfTarget
<1>6. args[t].inode.blocks[i] = z
  BY <1>4 DEF Block
<1>7. \/ empty /\ disk' = [disk EXCEPT ![D] = InodeBlock(parent)]
         /\ frame' = [frame EXCEPT ![t] = [@ EXCEPT !.to_free = Append(freed, z), !.ret = "ok"]]
      \/ ~empty /\ disk' = [disk EXCEPT ![z] = FolderBlock(F)]
         /\ frame' = [frame EXCEPT ![t] = [@ EXCEPT !.to_free = freed, !.ret = "ok"]]
  BY <1>4, <1>6 DEF RemoveEntry, Write
<1>8. req[t].op = "delete" /\ frame[t].new_block = 0 /\ frame[t].to_free = << >>
  BY <1>1, <1>2 DEF StepShape, Locals
<1>9. Reserved(t) = {}
  <2>1. Reserved(t) = ToSet(frame[t].to_free)
    BY <1>2, <1>8, HasToFree
  <2> QED
    BY <1>8, <2>1 DEF ToSet
<1>10. /\ ChildrenOf(disk, n) = {} /\ freed \in Seq(Blocks)
       /\ ToSet(freed) = Owns(disk, n) /\ IsInjective(freed)
  <2>1. disk \in [Blocks -> Content] /\ SoundDisk(disk) /\ n \in LiveInodes(disk)
        /\ ~(AsInode(disk[n]).type = "d" /\ Len(AsInode(disk[n]).blocks) # 0)
    BY <1>1, <1>5 DEF MayDelete
  <2>2. LET s == BlocksToFree(AsInode(disk[n]), n)
        IN  /\ ChildrenOf(disk, n) = {} /\ s \in Seq(Blocks)
            /\ ToSet(s) = Owns(disk, n) /\ IsInjective(s)
    BY ONLY <2>1, FreedOwns
  <2> QED
    BY <1>5, <2>2
<1>11. /\ t \in wrlock[n] /\ t \in wrlock[D] /\ n # D /\ n \in Blocks
  <2>1. HoldsTarget(pc[t]) /\ HoldsDir(pc[t], req[t])
    BY <1>2 DEF HoldsTarget, OnTarget, HoldsDir, InDirectory
  <2>2. TakesWriteLock(req[t], frame[t].path_index)
    BY <1>1, <1>2, <1>8 DEF TakesWriteLock, Locals, AtLastName
  <2> QED
    BY <1>1, <1>4, <1>5, <1>8, <2>1, <2>2 DEF HasLocks, Frame
<1>12. z \in Blocks /\ z \in DataBlocksOf(disk, D)
  BY <1>1, <1>4, InodeFacts, DataBlocksAre
<1>13. Target(disk, D, <<i, j>>) = n
  BY <1>4, <1>5
<1>14. Owns(disk, n) \subseteq Live(disk) /\ Owns(disk, D) \subseteq Live(disk) /\ z \notin Owns(disk, n)
  <2>1. Owns(disk, n) \cap Owns(disk, D) = {}
    BY <1>1, <1>4, <1>5, <1>11, OwnsDisjoint
  <2>2. z \in Owns(disk, D)
    BY <1>12 DEF Owns
  <2> QED
    BY <1>4, <1>5, <2>1, <2>2, LiveOwns
<1>15. ToSet(free_blocks) \cap Live(disk) = {}
  BY IInvParts, OwnedApart DEF Apart
<1>16. OthersUnchanged(t)
  <2>1. \A u \in Threads \ {t} : frame'[u] = frame[u]
    BY <1>1, <1>7 DEF TypeOK
  <2> QED
    BY <1>1, <1>2, <2>1 DEF RemoveEntry, Goto, TypeOK, OthersUnchanged
<1>17. Alone(t)
  BY <1>2, <1>16 DEF Alone, LockStep
<1>29. l \in Listed(disk, D) /\ l = [name |-> Last(req[t].path), inode_block |-> n]
  <2>1. frame[t].path_index = Len(req[t].path)
    BY <1>1, <1>2 DEF Locals, AtLastName
  <2> QED
    BY <1>4, <1>13, <2>1 DEF Listed, Last
<1> HIDE DEF D, n, i, j, z, F, parent, freed, empty, l
<1>18. /\ frame'[t].ret = "ok" /\ frame'[t].target = n /\ frame'[t].path_index = frame[t].path_index
       /\ frame'[t].new_block = 0 /\ frame'[t].grown = frame[t].grown
       /\ frame'[t].to_free = IF empty THEN Append(freed, z) ELSE freed
  <2>1. PICK q : q = IF empty THEN Append(freed, z) ELSE freed
    OBVIOUS
  <2>2. frame' = [frame EXCEPT ![t] = [@ EXCEPT !.to_free = q, !.ret = "ok"]]
    BY <1>7, <2>1
  <2>3. frame'[t] = [frame[t] EXCEPT !.to_free = q, !.ret = "ok"]
    BY <1>1, <2>2 DEF TypeOK
  <2> QED
    BY <1>1, <1>8, <2>1, <2>3 DEF Frame, n
<1>19. Locals(pc'[t], req'[t], args'[t], frame'[t])
  BY <1>1, <1>2, <1>8, <1>18 DEF Locals, Without, AtLastName, Created, Decided
<1>20. HasLocks(t)'
  <2>1. HoldsDir(pc[t], req[t]) /\ HoldsTarget(pc[t])
    BY <1>2 DEF HoldsDir, InDirectory, HoldsTarget, OnTarget
  <2> QED
    BY <1>2, <1>18, <2>1, LocksStay DEF n
<1>21. \A m \in 1 .. FS_DIRENTRIES :
         <<i, m>> \in Entries(disk, D) <=> AsFolders(disk[z])[m].inode_block # 0
  <2>1. i \in Positions(disk, D)
    BY <1>4
  <2>2. \A m \in 1 .. FS_DIRENTRIES :
          LET f == AsFolders(disk[Block(disk, D, i)])
          IN <<i, m>> \in Entries(disk, D) <=> f[m].inode_block # 0
    BY ONLY <2>1, EntriesAre
  <2> QED
    BY <2>2 DEF z
<1>22. \A m \in 1 .. FS_DIRENTRIES : m # j => F[m] = AsFolders(disk[z])[m]
  <2>1. AsFolders(disk[z]) \in Folders
    BY <1>1, <1>12, ReadTypes
  <2> QED
    BY <2>1 DEF F, Folders
<1>23. F[j].inode_block = 0
  <2>1. AsFolders(disk[z]) \in Folders
    BY <1>1, <1>12, ReadTypes
  <2> QED
    BY <1>4, <2>1 DEF F, Folders, Unused
<1> DEFINE Gone == ToSet(frame'[t].to_free)
<1>24. /\ SoundDisk(disk') /\ SameBut(disk, disk', D) /\ LiveInodes(disk') = LiveInodes(disk) \ {n}
       /\ Live(disk') = Live(disk) \ Gone /\ Gone \subseteq Live(disk)
       /\ IsInjective(frame'[t].to_free)
       /\ Listed(disk', D) = Listed(disk, D) \ {l} /\ SameNode(disk, disk', D)
       /\ \A b : disk'[b] = disk[b] \/ b \in Live(disk)
  <2>1. CASE empty
    <3>1. \A m \in 1 .. FS_DIRENTRIES : m # j => <<i, m>> \notin Entries(disk, D)
      BY <1>21, <1>22, <2>1 DEF empty, FolderBlockEmpty
    <3>2. AsInode(disk[D]) \in Inode /\ AsInode(disk[D]).blocks \in BlockList
      BY <1>1, <1>4, InodeFacts
    <3>3. RemoveAt(AsInode(disk[D]).blocks, i) \in BlockList
      BY <1>4, <3>2, BlockListRemoveAt DEF Positions
    <3>4. /\ parent \in Inode /\ parent.type = AsInode(disk[D]).type
          /\ parent.owner = AsInode(disk[D]).owner
          /\ parent.blocks = RemoveAt(AsInode(disk[D]).blocks, i)
      BY <1>4, <3>2, <3>3 DEF parent, Inode, i
    <3>5. /\ disk \in [Blocks -> Content] /\ SoundDisk(disk) /\ D \in LiveInodes(disk) /\ IsDir(disk, D)
          /\ i \in Positions(disk, D) /\ j \in 1 .. FS_DIRENTRIES /\ <<i, j>> \in Entries(disk, D)
          /\ \A m \in 1 .. FS_DIRENTRIES : m # j => <<i, m>> \notin Entries(disk, D)
          /\ Target(disk, D, <<i, j>>) = n /\ ChildrenOf(disk, n) = {} /\ parent \in Inode
          /\ parent.type = AsInode(disk[D]).type /\ parent.owner = AsInode(disk[D]).owner
          /\ parent.blocks = RemoveAt(AsInode(disk[D]).blocks, i)
      BY <1>1, <1>4, <1>10, <1>13, <3>1, <3>4
    <3>6. LET y == Block(disk, D, i)
              e == Written(disk, D, InodeBlock(parent))
          IN  /\ SoundDisk(e) /\ SameBut(disk, e, D) /\ n \in LiveInodes(disk) /\ n # D
              /\ LiveInodes(e) = LiveInodes(disk) \ {n} /\ Live(e) = Live(disk) \ (Owns(disk, n) \cup {y})
              /\ Listed(e, D) = Listed(disk, D) \ {[name |-> Name(disk, D, <<i, j>>), inode_block |-> n]}
              /\ SameNode(disk, e, D) /\ e \in [Blocks -> Content]
      BY ONLY <3>5, EntryBlockRemoved
    <3>7. disk' = Written(disk, D, InodeBlock(parent)) /\ \A b : disk'[b] = disk[b] \/ b = D
      <4>1. disk' = [disk EXCEPT ![D] = InodeBlock(parent)]
        BY <1>7, <2>1
      <4> QED
        BY <1>1, <1>4, <4>1 DEF Written
    <3>8. /\ SoundDisk(disk') /\ SameBut(disk, disk', D) /\ LiveInodes(disk') = LiveInodes(disk) \ {n}
          /\ Live(disk') = Live(disk) \ (Owns(disk, n) \cup {z})
          /\ Listed(disk', D) = Listed(disk, D) \ {l} /\ SameNode(disk, disk', D)
      BY <3>6, <3>7 DEF z, l
    <3>9. z \in Live(disk) /\ D \in Live(disk)
      BY <1>12, <1>14 DEF Owns
    <3>10. frame'[t].to_free = Append(freed, z)
      BY <1>18, <2>1
    <3>11. Gone = Owns(disk, n) \cup {z} /\ IsInjective(frame'[t].to_free)
      BY <1>10, <1>12, <1>14, <3>10, AppendSet
    <3>12. \A b : disk'[b] = disk[b] \/ b \in Live(disk)
      BY <3>7, <3>9
    <3> HIDE DEF Gone
    <3>13. Live(disk') = Live(disk) \ Gone /\ Gone \subseteq Live(disk)
      BY <1>14, <3>8, <3>9, <3>11
    <3> QED
      BY <3>8, <3>11, <3>12, <3>13
  <2>2. CASE ~empty
    <3>1. PICK m \in 1 .. FS_DIRENTRIES : m # j /\ <<i, m>> \in Entries(disk, D)
      <4>1. PICK m \in 1 .. FS_DIRENTRIES : F[m].inode_block # 0
        BY <2>2 DEF empty, FolderBlockEmpty
      <4> QED
        BY <1>21, <1>22, <1>23, <4>1
    <3>2. /\ disk \in [Blocks -> Content] /\ SoundDisk(disk) /\ D \in LiveInodes(disk) /\ IsDir(disk, D)
          /\ i \in Positions(disk, D) /\ j \in 1 .. FS_DIRENTRIES /\ <<i, j>> \in Entries(disk, D)
          /\ m \in 1 .. FS_DIRENTRIES /\ m # j /\ <<i, m>> \in Entries(disk, D)
          /\ Target(disk, D, <<i, j>>) = n /\ ChildrenOf(disk, n) = {}
      BY <1>1, <1>4, <1>10, <1>13, <3>1
    <3>3. LET e == EntrySet(disk, D, i, j, Unused)
          IN  /\ SoundDisk(e) /\ SameBut(disk, e, D) /\ n \in LiveInodes(disk) /\ n # D
              /\ LiveInodes(e) = LiveInodes(disk) \ {n} /\ Live(e) = Live(disk) \ Owns(disk, n)
              /\ Listed(e, D) = Listed(disk, D) \ {[name |-> Name(disk, D, <<i, j>>), inode_block |-> n]}
              /\ SameNode(disk, e, D) /\ e \in [Blocks -> Content]
      BY ONLY <3>2, EntryCleared
    <3>4. disk' = Written(disk, z, FolderBlock(F)) /\ \A b : disk'[b] = disk[b] \/ b = z
      <4>1. disk' = [disk EXCEPT ![z] = FolderBlock(F)]
        BY <1>7, <2>2
      <4> QED
        BY <1>1, <1>12, <4>1 DEF Written
    <3>5. /\ SoundDisk(disk') /\ SameBut(disk, disk', D) /\ LiveInodes(disk') = LiveInodes(disk) \ {n}
          /\ Live(disk') = Live(disk) \ Owns(disk, n)
          /\ Listed(disk', D) = Listed(disk, D) \ {l} /\ SameNode(disk, disk', D)
      BY <3>3, <3>4 DEF z, F, l, EntrySet
    <3>6. z \in Live(disk)
      BY <1>12, <1>14 DEF Owns
    <3>7. Gone = Owns(disk, n) /\ IsInjective(frame'[t].to_free)
      BY <1>10, <1>18, <2>2
    <3>8. \A b : disk'[b] = disk[b] \/ b \in Live(disk)
      BY <3>4, <3>6
    <3> HIDE DEF Gone
    <3> QED
      BY <1>14, <3>5, <3>7, <3>8
  <2> QED
    BY <2>1, <2>2
<1>25. Reserved(t)' = Gone
  BY <1>18 DEF Reserved, ReservedBy
<1> HIDE DEF Gone
<1>26. OthersKnow(t)'
  <2>1. PICK gone : gone = {n}
    OBVIOUS
  <2>2. gone \in SUBSET Blocks /\ (\A b \in gone : t \in wrlock[b])
    BY <1>11, <2>1
  <2>3. LiveInodes(disk) \ gone \subseteq LiveInodes(disk') /\ SameBut(disk, disk', D)
    BY <1>24, <2>1
  <2>4. \A b : disk'[b] = disk[b] \/ b \in Live(disk) \cup Reserved(t)
    BY <1>24
  <2>5. D \in Blocks /\ t \in wrlock[D]
    BY <1>4, <1>11
  <2> QED
    BY <1>16, <2>2, <2>3, <2>4, <2>5, OthersKeepKnowing
<1>27. Knows(pc'[t], req'[t], args'[t], frame'[t], disk')
  <2>1. pc'[t] = "release" /\ args'[t].disk_block = D
    BY <1>2 DEF D
  <2>2. D \in LiveInodes(disk') /\ frame'[t].target # D
    BY <1>4, <1>11, <1>18, <1>24
  <2>3. pc'[t] = "release" /\ args'[t].disk_block \in LiveInodes(disk')
        /\ frame'[t].target # args'[t].disk_block /\ IsInjective(frame'[t].to_free)
    BY <1>24, <2>1, <2>2
  <2> QED
    BY ONLY <2>3, KnowsPlace
<1>28. /\ Live(disk') \cup Reserved(t)' = Live(disk) \cup Reserved(t)
       /\ Live(disk') \cap Reserved(t)' = {}
  BY <1>9, <1>24, <1>25
<1>30. DoesItsPart(t)
  BY <1>2, <1>19, <1>20, <1>24, <1>26, <1>27, <1>28, MovesLive DEF Mine
<1>31. RemovesEntry(t)
  BY <1>10, <1>24, <1>29 DEF RemovesEntry, D, n
<1> QED
  BY <1>17, <1>30, <1>31

(* What was removed is free again. *)
LEMMA ReleaseBlocksKeeps ==
  ASSUME IInv, NEW t \in Threads, ReleaseBlocks(t)
  PROVE  Alone(t) /\ DoesItsPart(t)
<1> DEFINE freed == frame[t].to_free
<1>1. /\ TypeOK /\ StepShape(t) /\ Locals(pc[t], req[t], args[t], frame[t])
      /\ args[t] \in Args /\ frame[t] \in Frame
      /\ KnowsDir(pc[t], req[t], args[t], frame[t], disk)
      /\ KnowsTarget(pc[t], req[t], args[t], frame[t], disk)
      /\ KnowsReserved(pc[t], req[t], args[t], frame[t], disk)
  BY IInvParts
<1>2. /\ pc[t] = "release" /\ pc'[t] = "unlock_target" /\ req' = req /\ disk' = disk
      /\ free_blocks' = freed \o free_blocks /\ args' = args /\ UNCHANGED locks /\ boot' = boot
      /\ frame' = [frame EXCEPT ![t].to_free = << >>]
  BY <1>1 DEF ReleaseBlocks, Goto, TypeOK, server
<1>3. req[t].op = "delete"
  BY <1>1, <1>2 DEF StepShape
<1>4. OthersUnchanged(t)
  BY <1>1, <1>2 DEF ReleaseBlocks, Goto, TypeOK, OthersUnchanged
<1>5. Alone(t)
  BY <1>2, <1>4 DEF Alone, LockStep
<1>6. HoldsDir(pc[t], req[t]) /\ HoldsTarget(pc[t])
  BY <1>2 DEF HoldsDir, InDirectory, HoldsTarget, OnTarget
<1>7. args[t].disk_block \in LiveInodes(disk) /\ frame[t].target # args[t].disk_block
  BY <1>1, <1>6 DEF KnowsDir, KnowsTarget
<1>8. /\ frame'[t].to_free = << >> /\ frame'[t].target = frame[t].target
      /\ frame'[t].path_index = frame[t].path_index /\ frame'[t].ret = frame[t].ret
      /\ frame'[t].new_block = frame[t].new_block /\ frame'[t].grown = frame[t].grown
  BY <1>1, <1>2 DEF TypeOK, Frame
<1>9. frame[t].ret # "none" /\ frame[t].new_block = 0 /\ ~frame[t].grown
  BY <1>1, <1>2, <1>3 DEF Locals, Decided
<1>10. Locals(pc'[t], req'[t], args'[t], frame'[t])
  BY <1>1, <1>2, <1>3, <1>8, <1>9 DEF Locals, Without, AtLastName, Created, Decided
<1>11. HasLocks(t)'
  BY <1>2, <1>6, <1>8, LocksStay
<1>12. Knows(pc'[t], req'[t], args'[t], frame'[t], disk')
  <2>1. IsInjective(frame'[t].to_free)
    BY <1>8 DEF IsInjective
  <2>2. pc'[t] = "unlock_target" /\ args'[t].disk_block \in LiveInodes(disk')
        /\ frame'[t].target # args'[t].disk_block /\ IsInjective(frame'[t].to_free)
    BY <1>2, <1>7, <1>8, <2>1
  <2> QED
    BY ONLY <2>2, KnowsPlace
<1>13. Reserved(t) = ToSet(freed)
  BY <1>2, <1>3, HasToFree
<1>14. Reserved(t)' = {}
  BY <1>8, <1>9 DEF Reserved, ReservedBy, ToSet
<1>15. /\ freed \in Seq(Blocks) /\ free_blocks \in Seq(Blocks) /\ IsInjective(freed)
       /\ IsInjective(free_blocks) /\ ToSet(freed) \cap ToSet(free_blocks) = {}
  <2>1. Apart(t)
    BY IInvParts, OwnedApart
  <2> QED
    BY <1>1, <1>13, <2>1 DEF Frame, TypeOK, KnowsReserved, Apart
<1> HIDE DEF freed
<1>16. ToSet(freed \o free_blocks) = ToSet(freed) \cup ToSet(free_blocks) /\ IsInjective(freed \o free_blocks)
  BY ONLY <1>15, ConcatSet
<1>17. /\ ToSet(free_blocks') \cup Reserved(t)' = ToSet(free_blocks) \cup Reserved(t)
       /\ ToSet(free_blocks') \cap Reserved(t)' = {} /\ IsInjective(free_blocks')
  BY <1>2, <1>13, <1>14, <1>16
<1> QED
  BY <1>2, <1>4, <1>5, <1>10, <1>11, <1>12, <1>17, MovesFree DEF Mine

(* The entry's inode is unlocked: a delete still has its directory, an       *)
(* access returns.                                                          *)
LEMMA UnlockTargetKeeps ==
  ASSUME IInv, NEW t \in Threads, UnlockTarget(t)
  PROVE  Alone(t) /\ DoesItsPart(t)
<1> DEFINE n == frame[t].target
           D == args[t].disk_block
<1>1. /\ TypeOK /\ Locals(pc[t], req[t], args[t], frame[t])
      /\ args[t] \in Args /\ frame[t] \in Frame
      /\ KnowsDir(pc[t], req[t], args[t], frame[t], disk)
      /\ KnowsTarget(pc[t], req[t], args[t], frame[t], disk)
  BY IInvParts
<1>2. /\ pc[t] = "unlock_target" /\ req' = req /\ disk' = disk /\ free_blocks' = free_blocks
      /\ Unlock(t, n) /\ boot' = boot
  BY DEF UnlockTarget, server
<1>3. n \in Blocks /\ D \in Blocks
  BY <1>1 DEF Frame, Args
<1>4. OthersUnchanged(t)
  BY <1>1, <1>2 DEF UnlockTarget, Goto, Return, TypeOK, OthersUnchanged
<1>5. Alone(t)
  BY <1>2, <1>3, <1>4 DEF Alone, LockStep
<1>6. req[t].op # "create" /\ frame[t].ret \in {"ok", "fail"} /\ frame[t].to_free = << >>
  BY <1>1, <1>2 DEF Locals, Decided, Frame
<1>7. Reserved(t) = {}
  <2>1. Reserved(t) = ToSet(frame[t].to_free)
    BY <1>2, <1>6, HasToFree
  <2> QED
    BY <1>6, <2>1 DEF ToSet
<1>8. CASE req[t].op = "delete"
  <2>1. pc'[t] = "unlock_parent" /\ args' = args /\ frame' = frame
    BY <1>1, <1>8 DEF UnlockTarget, Goto, TypeOK
  <2>2. HoldsDir(pc[t], req[t]) /\ HoldsTarget(pc[t]) /\ ~HoldsTarget(pc'[t])
    BY <1>2, <1>8, <2>1 DEF HoldsDir, HoldsTarget, OnTarget
  <2>3. D \in LiveInodes(disk) /\ n # D
    BY <1>1, <2>2 DEF KnowsDir, KnowsTarget
  <2>4. rdlock'[D] = rdlock[D] /\ wrlock'[D] = wrlock[D]
    BY <1>1, <1>2, <1>3, <2>3, LockTaken
  <2>5. HasLocks(t)'
    BY <1>2, <2>1, <2>2, <2>4, DirLockStays
  <2>6. Locals(pc'[t], req'[t], args'[t], frame'[t])
    BY <1>1, <1>2, <1>8, <2>1 DEF Locals, Without, AtLastName, Created, Decided
  <2>7. Knows(pc'[t], req'[t], args'[t], frame'[t], disk')
    <3>1. IsInjective(frame'[t].to_free)
      BY <1>6, <2>1 DEF IsInjective
    <3>2. pc'[t] = "unlock_parent" /\ args'[t].disk_block \in LiveInodes(disk')
          /\ IsInjective(frame'[t].to_free)
      BY <1>2, <2>1, <2>3, <3>1
    <3> QED
      BY ONLY <3>2, KnowsPlace
  <2>8. Reserved(t)' = {}
    BY <1>6, <2>1 DEF Reserved, ReservedBy, ToSet
  <2> QED
    BY <1>2, <1>4, <1>5, <1>7, <2>5, <2>6, <2>7, <2>8, MovesNothing DEF Mine
<1>9. CASE req[t].op # "delete"
  <2>1. Return(t, "unlock_target", frame[t].ret, frame[t].buf)
    BY <1>9 DEF UnlockTarget
  <2>2. Mine(t)' /\ Reserved(t)' = {}
    BY <1>1, <1>2, <1>6, <2>1, ReturnMine DEF Frame
  <2> QED
    BY <1>2, <1>4, <1>5, <1>7, <2>2, MovesNothing
<1> QED
  BY <1>8, <1>9

-----------------------------------------------------------------------------
(* access_entry. *)

(* What an access knows once it has left the directory. *)
LEMMA AccessKnows ==
  ASSUME IInv, NEW t \in Threads, pc[t] \in OnFile \cup {"open"}
  PROVE  LET n == frame[t].target
         IN  /\ n \in LiveInodes(disk) /\ n \in Blocks /\ req[t].op \in {"read", "write"}
             /\ req[t].op = "write" => t \in wrlock[n]
             /\ ~HoldsDir(pc[t], req[t]) /\ HoldsTarget(pc[t])
             /\ frame[t].to_free = << >> /\ frame[t].ret = "none" /\ ~frame[t].grown
             /\ frame[t].new_block = 0
             /\ pc[t] # "open" =>
                  /\ CopyOfTarget(pc[t], frame[t], disk) /\ MayAccess(frame[t].file, req[t].user)
                  /\ ~IsDir(disk, n)
<1>1. /\ StepShape(t) /\ Locals(pc[t], req[t], args[t], frame[t]) /\ frame[t] \in Frame
      /\ KnowsTarget(pc[t], req[t], args[t], frame[t], disk) /\ HasLocks(t)
      /\ disk \in [Blocks -> Content]
  BY IInvParts
<1>2. pc[t] \in OnTarget
  BY DEF OnFile, OnTarget
<1>3. frame[t].target \in LiveInodes(disk) /\ frame[t].target \in Blocks
  BY <1>1, <1>2 DEF KnowsTarget, Frame
<1>4. ~HoldsDir(pc[t], req[t]) /\ HoldsTarget(pc[t])
  BY <1>2 DEF HoldsDir, InDirectory, OnFile, HoldsTarget
<1>5. req[t].op \in {"read", "write"}
  BY <1>1 DEF Locals, OnFile
<1>6. /\ frame[t].to_free = << >> /\ frame[t].ret = "none" /\ ~frame[t].grown
      /\ frame[t].new_block = 0
  BY <1>1, <1>5 DEF Locals, OnFile, Decided
<1>7. req[t].op = "write" => t \in wrlock[frame[t].target]
  BY <1>1, <1>4 DEF HasLocks
<1>8. ASSUME pc[t] # "open"
      PROVE  /\ CopyOfTarget(pc[t], frame[t], disk) /\ MayAccess(frame[t].file, req[t].user)
             /\ ~IsDir(disk, frame[t].target)
  <2>1. CopyOfTarget(pc[t], frame[t], disk) /\ MayAccess(frame[t].file, req[t].user)
    BY <1>1, <1>8 DEF KnowsTarget
  <2> QED
    BY <2>1 DEF CopyOfTarget, MayAccess, IsDir
<1> QED
  BY <1>3, <1>4, <1>5, <1>6, <1>7, <1>8

(* The directory is unlocked, the file is not. *)
LEMMA UnlockDirKeeps ==
  ASSUME IInv, NEW t \in Threads, UnlockDir(t)
  PROVE  Alone(t) /\ DoesItsPart(t)
<1> DEFINE n == frame[t].target
           D == args[t].disk_block
<1>1. /\ TypeOK /\ Locals(pc[t], req[t], args[t], frame[t]) /\ HasLocks(t)
      /\ args[t] \in Args /\ frame[t] \in Frame
      /\ KnowsTarget(pc[t], req[t], args[t], frame[t], disk)
  BY IInvParts
<1>2. /\ pc[t] = "unlock_dir" /\ pc'[t] = "open" /\ req' = req /\ disk' = disk
      /\ free_blocks' = free_blocks /\ args' = args /\ frame' = frame
      /\ Unlock(t, D) /\ boot' = boot
  BY <1>1 DEF UnlockDir, Goto, TypeOK, server
<1>3. n \in Blocks /\ D \in Blocks
  BY <1>1 DEF Frame, Args
<1>4. OthersUnchanged(t)
  BY <1>1, <1>2 DEF UnlockDir, Goto, TypeOK, OthersUnchanged
<1>5. Alone(t)
  BY <1>2, <1>3, <1>4 DEF Alone, LockStep
<1>6. HoldsDir(pc[t], req[t]) /\ HoldsTarget(pc[t]) /\ ~HoldsDir(pc'[t], req[t]) /\ HoldsTarget(pc'[t])
  BY <1>2 DEF HoldsDir, InDirectory, HoldsTarget, OnTarget
<1>7. n # D /\ n \in LiveInodes(disk)
  BY <1>1, <1>2, <1>6 DEF KnowsTarget, OnTarget
<1>8. frame[t].to_free = << >>
  BY <1>1, <1>2 DEF Locals
<1>9. HasLocks(t)'
  <2>1. rdlock'[n] = rdlock[n] /\ wrlock'[n] = wrlock[n]
    BY <1>1, <1>2, <1>3, <1>7, LockTaken
  <2> QED
    BY <1>1, <1>2, <1>6, <2>1 DEF HasLocks
<1>10. Locals(pc'[t], req'[t], args'[t], frame'[t])
  BY <1>1, <1>2 DEF Locals, Without, AtLastName, Created, Decided
<1>11. KnowsDir(pc'[t], req'[t], args'[t], frame'[t], disk')
  BY <1>2, <1>6 DEF KnowsDir, WithEntry, Found, Created
<1>12. KnowsTarget(pc'[t], req'[t], args'[t], frame'[t], disk')
  BY <1>2, <1>6, <1>7 DEF KnowsTarget, OnFile
<1>13. KnowsReserved(pc'[t], req'[t], args'[t], frame'[t], disk')
  BY <1>2, <1>8 DEF KnowsReserved, IsInjective
<1>14. Reserved(t)' = Reserved(t)
  BY <1>2 DEF Reserved, ReservedBy
<1> QED
  BY <1>2, <1>4, <1>5, <1>9, <1>10, <1>11, <1>12, <1>13, <1>14, MovesNothing DEF Mine, Knows

(* An access that has decided waits to unlock the file. *)
LEMMA AccessDecided ==
  ASSUME NEW step \in {"unlock_target"}, NEW r, NEW a, NEW f, NEW d,
         r.op # "delete", f.to_free = << >>
  PROVE  Knows(step, r, a, f, d)
<1>1. IsInjective(f.to_free)
  BY DEF IsInjective
<1>2. ~HoldsDir(step, r)
  BY DEF HoldsDir, InDirectory
<1> QED
  BY <1>1, <1>2, KnowsPlace

(* The file's inode is read. *)
LEMMA OpenFileKeeps ==
  ASSUME IInv, NEW t \in Threads, OpenFile(t)
  PROVE  Alone(t) /\ DoesItsPart(t)
<1> DEFINE n == frame[t].target
           file == AsInode(disk[n])
           r == req[t]
           next == AfterOpen(r, file)
<1>1. /\ TypeOK /\ Locals(pc[t], r, args[t], frame[t])
      /\ args[t] \in Args /\ frame[t] \in Frame /\ r \in Request /\ disk \in [Blocks -> Content]
  BY IInvParts
<1>2. /\ pc[t] = "open" /\ pc'[t] = next /\ req' = req /\ disk' = disk
      /\ free_blocks' = free_blocks /\ args' = args /\ UNCHANGED locks /\ boot' = boot
      /\ frame' = [frame EXCEPT ![t].file = file,
                                ![t].ret = IF next = "unlock_target" THEN "fail" ELSE @]
  BY <1>1 DEF OpenFile, Goto, TypeOK, server
<1>3. OthersUnchanged(t)
  BY <1>1, <1>2 DEF OpenFile, Goto, TypeOK, OthersUnchanged
<1>4. Alone(t)
  BY <1>2, <1>3 DEF Alone, LockStep
<1>5. /\ n \in LiveInodes(disk) /\ n \in Blocks /\ r.op \in {"read", "write"}
      /\ ~HoldsDir(pc[t], r) /\ HoldsTarget(pc[t])
      /\ frame[t].to_free = << >> /\ frame[t].ret = "none" /\ ~frame[t].grown
      /\ frame[t].new_block = 0
  BY <1>2, AccessKnows
<1>6. /\ next \in {"read_data", "write_data", "extend", "unlock_target"}
      /\ next # "unlock_target" => MayAccess(file, r.user)
      /\ next \in {"read_data", "write_data"} => r.block < Len(file.blocks)
      /\ next = "read_data" => r.op = "read"
      /\ next \in {"write_data", "extend"} => r.op = "write"
      /\ next = "extend" => r.block = Len(file.blocks)
  BY <1>5 DEF AfterOpen
<1> HIDE DEF n, file, next
<1>7. /\ frame'[t].file = file /\ frame'[t].target = n
      /\ frame'[t].path_index = frame[t].path_index /\ frame'[t].to_free = << >>
      /\ frame'[t].new_block = 0 /\ ~frame'[t].grown
      /\ frame'[t].ret = IF next = "unlock_target" THEN "fail" ELSE "none"
  BY <1>1, <1>2, <1>5 DEF TypeOK, Frame, n
<1>8. Locals(pc'[t], req'[t], args'[t], frame'[t])
  BY <1>1, <1>2, <1>5, <1>6, <1>7 DEF Locals, Without, AtLastName, Created, Decided
<1>9. ~HoldsDir(pc'[t], r)
  BY <1>2, <1>5, <1>6 DEF HoldsDir, InDirectory
<1>10. HasLocks(t)'
  BY <1>2, <1>5, <1>7, <1>9, LocksStay DEF n
<1>11. Reserved(t) = {} /\ Reserved(t)' = {}
  <2>1. Reserved(t) = {}
    BY <1>2, <1>5 DEF Reserved, ReservedBy, ToSet
  <2>2. pc'[t] \notin {"append_data", "append_inode"}
    BY <1>2, <1>6
  <2>3. ToSet(frame'[t].to_free) = {}
    BY <1>7 DEF ToSet
  <2>4. frame'[t].new_block = 0 /\ ~frame'[t].grown
    BY <1>7
  <2>5. Reserved(t)' = {}
    BY <2>2, <2>3, <2>4 DEF Reserved, ReservedBy
  <2> QED
    BY <2>1, <2>5
<1>12. Knows(pc'[t], req'[t], args'[t], frame'[t], disk')
  <2>1. CASE next = "unlock_target"
    <3>1. pc'[t] \in {"unlock_target"} /\ req'[t].op # "delete" /\ frame'[t].to_free = << >>
      BY <1>2, <1>5, <1>7, <2>1
    <3> QED
      BY ONLY <3>1, AccessDecided
  <2>2. CASE next # "unlock_target"
    <3>1. pc'[t] \in {"read_data", "write_data", "extend"}
      BY <1>2, <1>6, <2>2
    <3>2. KnowsDir(pc'[t], req'[t], args'[t], frame'[t], disk')
      BY <1>2, <1>9, <3>1 DEF KnowsDir, WithEntry, Found, Created
    <3>3. CopyOfTarget(pc'[t], frame'[t], disk')
      BY <1>2, <1>7, <3>1 DEF CopyOfTarget, file
    <3>4. frame'[t].target \in LiveInodes(disk') /\ MayAccess(frame'[t].file, req'[t].user)
      BY <1>2, <1>5, <1>6, <1>7, <2>2
    <3>5. /\ pc'[t] \in {"read_data", "write_data"} => req'[t].block < Len(frame'[t].file.blocks)
          /\ pc'[t] = "extend" => req'[t].block = Len(frame'[t].file.blocks)
      BY <1>2, <1>6, <1>7
    <3>6. KnowsTarget(pc'[t], req'[t], args'[t], frame'[t], disk')
      BY <1>2, <1>9, <3>1, <3>3, <3>4, <3>5 DEF KnowsTarget
    <3>7. KnowsReserved(pc'[t], req'[t], args'[t], frame'[t], disk')
      BY <1>7, <3>1 DEF KnowsReserved, IsInjective
    <3> QED
      BY <3>2, <3>6, <3>7 DEF Knows
  <2> QED
    BY <2>1, <2>2
<1> QED
  BY <1>2, <1>3, <1>4, <1>8, <1>10, <1>11, <1>12, MovesNothing DEF Mine

(* A block of the file is read. *)
LEMMA ReadDataKeeps ==
  ASSUME IInv, NEW t \in Threads, ReadData(t)
  PROVE  Alone(t) /\ DoesItsPart(t)
<1> DEFINE data == AsData(disk[FileBlock(t)])
<1>1. /\ TypeOK /\ Locals(pc[t], req[t], args[t], frame[t])
      /\ args[t] \in Args /\ frame[t] \in Frame
  BY IInvParts
<1>2. /\ pc[t] = "read_data" /\ pc'[t] = "unlock_target" /\ req' = req /\ disk' = disk
      /\ free_blocks' = free_blocks /\ args' = args /\ UNCHANGED locks /\ boot' = boot
      /\ frame' = [frame EXCEPT ![t] = [@ EXCEPT !.buf = data, !.ret = "ok"]]
  BY <1>1 DEF ReadData, Goto, TypeOK, server
<1>3. OthersUnchanged(t)
  BY <1>1, <1>2 DEF ReadData, Goto, TypeOK, OthersUnchanged
<1>4. Alone(t)
  BY <1>2, <1>3 DEF Alone, LockStep
<1>5. /\ req[t].op \in {"read", "write"} /\ ~HoldsDir(pc[t], req[t]) /\ HoldsTarget(pc[t])
      /\ frame[t].to_free = << >> /\ frame[t].ret = "none" /\ ~frame[t].grown
      /\ frame[t].new_block = 0
  BY <1>2, AccessKnows DEF OnFile
<1> HIDE DEF data
<1>6. /\ frame'[t].target = frame[t].target /\ frame'[t].ret = "ok"
      /\ frame'[t].path_index = frame[t].path_index /\ frame'[t].to_free = << >>
      /\ frame'[t].new_block = 0 /\ ~frame'[t].grown
  BY <1>1, <1>2, <1>5 DEF TypeOK, Frame
<1>7. Locals(pc'[t], req'[t], args'[t], frame'[t])
  BY <1>1, <1>2, <1>5, <1>6 DEF Locals, Without, AtLastName, Created, Decided
<1>8. HasLocks(t)'
  <2>1. ~HoldsDir(pc'[t], req[t])
    BY <1>2, <1>5 DEF HoldsDir, InDirectory
  <2> QED
    BY <1>2, <1>5, <1>6, <2>1, LocksStay
<1>9. Reserved(t) = {} /\ Reserved(t)' = {}
  BY <1>2, <1>5, <1>6 DEF Reserved, ReservedBy, ToSet
<1>10. Knows(pc'[t], req'[t], args'[t], frame'[t], disk')
  <2>1. pc'[t] \in {"unlock_target"} /\ req'[t].op # "delete" /\ frame'[t].to_free = << >>
    BY <1>2, <1>5, <1>6
  <2> QED
    BY ONLY <2>1, AccessDecided
<1> QED
  BY <1>2, <1>3, <1>4, <1>7, <1>8, <1>9, <1>10, MovesNothing DEF Mine

(* A block of the file is written. *)
LEMMA WriteDataKeeps ==
  ASSUME IInv, NEW t \in Threads, WriteData(t)
  PROVE  Alone(t) /\ DoesItsPart(t)
<1> DEFINE n == frame[t].target
           w == FileBlock(t)
           data == req[t].data
<1>1. /\ TypeOK /\ Locals(pc[t], req[t], args[t], frame[t]) /\ SoundDisk(disk)
      /\ args[t] \in Args /\ frame[t] \in Frame /\ disk \in [Blocks -> Content]
      /\ req[t] \in Request
      /\ KnowsTarget(pc[t], req[t], args[t], frame[t], disk)
  BY IInvParts
<1>2. /\ pc[t] = "write_data" /\ pc'[t] = "unlock_target" /\ req' = req
      /\ disk' = [disk EXCEPT ![w] = DataBlock(data)] /\ Decide(t, "ok")
      /\ free_blocks' = free_blocks /\ args' = args /\ UNCHANGED locks /\ boot' = boot
  BY <1>1 DEF WriteData, Goto, Write, TypeOK, server
<1>3. OthersUnchanged(t)
  BY <1>1, <1>2, DecideEffect DEF WriteData, Goto, TypeOK, OthersUnchanged
<1>4. Alone(t)
  BY <1>2, <1>3 DEF Alone, LockStep
<1>5. /\ n \in LiveInodes(disk) /\ n \in Blocks /\ ~IsDir(disk, n) /\ req[t].op = "write"
      /\ t \in wrlock[n] /\ ~HoldsDir(pc[t], req[t]) /\ HoldsTarget(pc[t])
      /\ frame[t].to_free = << >> /\ frame[t].ret = "none" /\ ~frame[t].grown
      /\ frame[t].new_block = 0 /\ CopyOfTarget(pc[t], frame[t], disk)
  BY <1>1, <1>2, AccessKnows DEF OnFile, Locals
<1>6. w \in DataBlocksOf(disk, n) /\ w \in Blocks /\ w \in Live(disk)
  <2>1. frame[t].file = AsInode(disk[n]) /\ req[t].block < Len(frame[t].file.blocks)
    BY <1>1, <1>2, <1>5 DEF CopyOfTarget, KnowsTarget
  <2>2. req[t].block \in Nat /\ Len(AsInode(disk[n]).blocks) \in Nat
    BY <1>1, <1>5, InodeFacts DEF Request
  <2>3. req[t].block + 1 \in Positions(disk, n) /\ w = Block(disk, n, req[t].block + 1)
    BY <2>1, <2>2 DEF Positions, Block, FileBlock
  <2>4. w \in DataBlocksOf(disk, n)
    BY <2>3, DataBlocksAre
  <2>5. w \in Blocks
    BY <1>1, <1>5, <2>3, InodeFacts
  <2> QED
    BY <1>5, <2>4, <2>5 DEF Live
<1>7. /\ frame'[t].target = n /\ frame'[t].ret = "ok"
      /\ frame'[t].path_index = frame[t].path_index /\ frame'[t].to_free = << >>
      /\ frame'[t].new_block = 0 /\ ~frame'[t].grown
  BY <1>1, <1>2, <1>5, DecideEffect
<1>8. data \in Data
  BY <1>1 DEF Request
<1> HIDE DEF n, w, data
<1>9. Locals(pc'[t], req'[t], args'[t], frame'[t])
  BY <1>1, <1>2, <1>5, <1>7 DEF Locals, Without, AtLastName, Created, Decided
<1>10. HasLocks(t)'
  <2>1. ~HoldsDir(pc'[t], req[t])
    BY <1>2, <1>5 DEF HoldsDir, InDirectory
  <2> QED
    BY <1>2, <1>5, <1>7, <2>1, LocksStay DEF n
<1>11. Reserved(t) = {} /\ Reserved(t)' = {}
  <2>1. Reserved(t) = {}
    BY <1>2, <1>5 DEF Reserved, ReservedBy, ToSet
  <2>2. ToSet(frame'[t].to_free) = {}
    BY <1>7 DEF ToSet
  <2>3. Reserved(t)' = {}
    BY <1>7, <2>2 DEF Reserved, ReservedBy
  <2> QED
    BY <2>1, <2>3
<1>12. Knows(pc'[t], req'[t], args'[t], frame'[t], disk')
  <2>1. pc'[t] \in {"unlock_target"} /\ req'[t].op # "delete" /\ frame'[t].to_free = << >>
    BY <1>2, <1>5, <1>7
  <2> QED
    BY ONLY <2>1, AccessDecided
<1>13. disk' = Written(disk, w, DataBlock(data)) /\ \A b : disk'[b] = disk[b] \/ b = w
  BY <1>1, <1>2, <1>6 DEF Written
<1>14. /\ SoundDisk(disk') /\ SameBut(disk, disk', n)
       /\ LiveInodes(disk') = LiveInodes(disk) /\ Live(disk') = Live(disk)
  <2>1. /\ disk \in [Blocks -> Content] /\ SoundDisk(disk) /\ n \in LiveInodes(disk)
        /\ ~IsDir(disk, n) /\ w \in DataBlocksOf(disk, n) /\ data \in Data
    BY <1>1, <1>5, <1>6, <1>8
  <2>2. LET e == Written(disk, w, DataBlock(data))
        IN  /\ SoundDisk(e) /\ SameBut(disk, e, n) /\ e[n] = disk[n]
            /\ LiveInodes(e) = LiveInodes(disk) /\ Live(e) = Live(disk)
    BY ONLY <2>1, FileWritten
  <2> QED
    BY <1>13, <2>2
<1>15. OthersKnow(t)'
  <2>1. LiveInodes(disk) \subseteq LiveInodes(disk')
    BY <1>14
  <2>2. \A b : disk'[b] = disk[b] \/ b \in Live(disk) \cup Reserved(t)
    BY <1>6, <1>13
  <2>3. n \in Blocks /\ t \in wrlock[n] /\ SameBut(disk, disk', n)
    BY <1>5, <1>14
  <2> QED
    BY ONLY IInv, t \in Threads, <1>3, <2>1, <2>2, <2>3, OthersStillKnow
<1>16. Mine(t)'
  BY <1>9, <1>10, <1>12 DEF Mine
<1>17. Live(disk') \cup Reserved(t)' = Live(disk) \cup Reserved(t) /\ Live(disk') \cap Reserved(t)' = {}
  BY <1>11, <1>14
<1> QED
  BY <1>2, <1>4, <1>14, <1>15, <1>16, <1>17, MovesLive

(* What an extension knows of the block it appends. *)
LEMMA AppendKnows ==
  ASSUME IInv, NEW t \in Threads, pc[t] \in {"append_data", "append_inode"}
  PROVE  LET n == frame[t].target
             z == Last(frame[t].file.blocks)
         IN  /\ n \in LiveInodes(disk) /\ n \in Blocks /\ ~IsDir(disk, n) /\ req[t].op = "write"
             /\ t \in wrlock[n] /\ ~HoldsDir(pc[t], req[t]) /\ HoldsTarget(pc[t])
             /\ frame[t].to_free = << >> /\ frame[t].ret = "none" /\ ~frame[t].grown
             /\ frame[t].new_block = 0
             /\ frame[t].file \in Inode /\ frame[t].file.type = AsInode(disk[n]).type
             /\ frame[t].file.owner = AsInode(disk[n]).owner
             /\ frame[t].file.blocks = Append(AsInode(disk[n]).blocks, z)
             /\ MayAccess(frame[t].file, req[t].user)
             /\ Reserved(t) = {z} /\ z \in Blocks \ Live(disk)
             /\ Reserved(t) \cap (Live(disk) \cup ToSet(free_blocks)) = {}
             /\ FileBlock(t) = z
<1> DEFINE n == frame[t].target
           z == Last(frame[t].file.blocks)
           dir == AsInode(disk[n])
<1>1. /\ Locals(pc[t], req[t], args[t], frame[t]) /\ frame[t] \in Frame /\ req[t] \in Request
      /\ KnowsTarget(pc[t], req[t], args[t], frame[t], disk)
      /\ TypeOK /\ BlocksOwnedOnce /\ disk \in [Blocks -> Content]
  BY IInvParts
<1>2. /\ n \in LiveInodes(disk) /\ n \in Blocks /\ ~IsDir(disk, n) /\ req[t].op = "write"
      /\ t \in wrlock[n] /\ ~HoldsDir(pc[t], req[t]) /\ HoldsTarget(pc[t])
      /\ frame[t].to_free = << >> /\ frame[t].ret = "none" /\ ~frame[t].grown
      /\ frame[t].new_block = 0 /\ CopyOfTarget(pc[t], frame[t], disk)
      /\ MayAccess(frame[t].file, req[t].user)
  BY <1>1, AccessKnows DEF OnFile, Locals
<1>3. /\ frame[t].file \in Inode /\ frame[t].file.type = dir.type
      /\ frame[t].file.owner = dir.owner /\ frame[t].file.blocks = Append(dir.blocks, z)
  BY <1>1, <1>2 DEF CopyOfTarget, Frame
<1>4. req[t].block + 1 = Len(frame[t].file.blocks) /\ frame[t].file.blocks \in Seq(Blocks)
  BY <1>1, <1>3 DEF KnowsTarget, Inode, BlockList
<1>5. FileBlock(t) = z
  BY <1>1, <1>4 DEF FileBlock, Last, Request
<1>6. Reserved(t) = {z}
  <2>1. ToSet(frame[t].to_free) = {}
    BY <1>2 DEF ToSet
  <2> QED
    BY <1>2, <2>1 DEF Reserved, ReservedBy
<1>7. z \in Blocks
  BY <1>1, <1>3, <1>4, InodeFacts DEF Last, BlockList
<1>8. Reserved(t) \cap (Live(disk) \cup ToSet(free_blocks)) = {}
  BY <1>1, OwnedApart DEF Apart
<1> QED
  BY <1>2, <1>3, <1>5, <1>6, <1>7, <1>8

(* The block the file will get is written. *)
LEMMA AppendDataKeeps ==
  ASSUME IInv, NEW t \in Threads, AppendData(t)
  PROVE  Alone(t) /\ DoesItsPart(t)
<1> DEFINE n == frame[t].target
           z == Last(frame[t].file.blocks)
           data == req[t].data
<1>1. /\ TypeOK /\ Locals(pc[t], req[t], args[t], frame[t]) /\ SoundDisk(disk)
      /\ args[t] \in Args /\ frame[t] \in Frame /\ disk \in [Blocks -> Content]
      /\ req[t] \in Request
      /\ KnowsTarget(pc[t], req[t], args[t], frame[t], disk)
      /\ KnowsReserved(pc[t], req[t], args[t], frame[t], disk)
  BY IInvParts
<1>5. /\ n \in LiveInodes(disk) /\ n \in Blocks /\ req[t].op = "write"
      /\ t \in wrlock[n] /\ ~HoldsDir(pc[t], req[t]) /\ HoldsTarget(pc[t])
      /\ frame[t].to_free = << >> /\ frame[t].ret = "none" /\ ~frame[t].grown
      /\ frame[t].new_block = 0 /\ frame[t].file.type = AsInode(disk[n]).type
      /\ frame[t].file.owner = AsInode(disk[n]).owner
      /\ frame[t].file.blocks = Append(AsInode(disk[n]).blocks, z)
      /\ MayAccess(frame[t].file, req[t].user)
      /\ Reserved(t) = {z} /\ z \in Blocks \ Live(disk)
      /\ Reserved(t) \cap (Live(disk) \cup ToSet(free_blocks)) = {}
      /\ FileBlock(t) = z
  BY AppendKnows DEF AppendData, Goto
<1>2. /\ pc[t] = "append_data" /\ pc'[t] = "append_inode" /\ req' = req
      /\ disk' = [disk EXCEPT ![z] = DataBlock(data)]
      /\ free_blocks' = free_blocks /\ args' = args /\ frame' = frame
      /\ UNCHANGED locks /\ boot' = boot
  BY <1>1, <1>5 DEF AppendData, Goto, Write, TypeOK, server
<1>3. OthersUnchanged(t)
  BY <1>1, <1>2 DEF AppendData, Goto, TypeOK, OthersUnchanged
<1>4. Alone(t)
  BY <1>2, <1>3 DEF Alone, LockStep
<1>6. DataBlock(data) \in Content
  BY <1>1, ContentTypes DEF Request
<1> HIDE DEF n, z, data
<1>7. disk' = Written(disk, z, DataBlock(data)) /\ disk'[z] = DataBlock(data)
      /\ \A b : disk'[b] = disk[b] \/ b = z
  BY <1>1, <1>2, <1>5 DEF Written
<1>8. /\ SoundDisk(disk') /\ LiveInodes(disk') = LiveInodes(disk) /\ Live(disk') = Live(disk)
      /\ \A b \in LiveInodes(disk) : Same(disk, disk', b)
  <2>1. /\ disk \in [Blocks -> Content] /\ SoundDisk(disk) /\ DataBlock(data) \in Content
        /\ z \in Blocks \ Live(disk)
    BY <1>1, <1>5, <1>6
  <2>2. LET e == Written(disk, z, DataBlock(data))
        IN  /\ SoundDisk(e) /\ LiveInodes(e) = LiveInodes(disk) /\ Live(e) = Live(disk)
            /\ \A b \in LiveInodes(disk) : Same(disk, e, b)
    BY ONLY <2>1, UnusedWritten
  <2> QED
    BY <1>7, <2>2
<1>9. OthersKnow(t)'
  <2>1. SameBut(disk, disk', n) /\ LiveInodes(disk) \subseteq LiveInodes(disk')
    BY <1>8 DEF SameBut
  <2>2. \A b : disk'[b] = disk[b] \/ b \in Live(disk) \cup Reserved(t)
    BY <1>5, <1>7
  <2> QED
    BY <1>3, <1>5, <2>1, <2>2, OthersStillKnow
<1>10. ~HoldsDir(pc'[t], req'[t])
  BY <1>2, <1>5 DEF HoldsDir, InDirectory
<1>11. KnowsDir(pc'[t], req'[t], args'[t], frame'[t], disk')
  BY <1>2, <1>10 DEF KnowsDir, WithEntry, Found, Created
<1>12. KnowsTarget(pc'[t], req'[t], args'[t], frame'[t], disk')
  <2>1. disk'[n] = disk[n]
    BY <1>5, <1>8 DEF Same
  <2>2. CopyOfTarget(pc'[t], frame'[t], disk')
    BY <1>2, <1>5, <2>1 DEF CopyOfTarget, n, z
  <2>3. frame'[t].target \in LiveInodes(disk') /\ MayAccess(frame'[t].file, req'[t].user)
    BY <1>2, <1>5, <1>8 DEF n
  <2>4. req'[t].block + 1 = Len(frame'[t].file.blocks)
    BY <1>1, <1>2 DEF KnowsTarget
  <2> QED
    BY <1>2, <1>10, <2>2, <2>3, <2>4 DEF KnowsTarget
<1>13. KnowsReserved(pc'[t], req'[t], args'[t], frame'[t], disk')
  <2>1. IsInjective(frame'[t].to_free)
    BY <1>2, <1>5 DEF IsInjective
  <2>2. disk'[Last(frame'[t].file.blocks)] = DataBlock(req'[t].data)
    BY <1>2, <1>7 DEF z, data
  <2> QED
    BY <1>2, <2>1, <2>2 DEF KnowsReserved
<1>14. Locals(pc'[t], req'[t], args'[t], frame'[t])
  BY <1>1, <1>2, <1>5 DEF Locals, Without, AtLastName, Created, Decided
<1>15. HasLocks(t)'
  BY <1>2, <1>5, <1>10, LocksStay
<1>16. Reserved(t)' = {z}
  <2>1. ToSet(frame'[t].to_free) = {}
    BY <1>2, <1>5 DEF ToSet
  <2> QED
    BY <1>2, <1>5, <2>1 DEF Reserved, ReservedBy, z
<1>17. Mine(t)'
  BY <1>11, <1>12, <1>13, <1>14, <1>15 DEF Mine, Knows
<1>18. Live(disk') \cup Reserved(t)' = Live(disk) \cup Reserved(t) /\ Live(disk') \cap Reserved(t)' = {}
  BY <1>5, <1>8, <1>16
<1> QED
  BY <1>2, <1>4, <1>8, <1>9, <1>17, <1>18, MovesLive

(* The file gets the block. *)
LEMMA AppendInodeKeeps ==
  ASSUME IInv, NEW t \in Threads, AppendInode(t)
  PROVE  Alone(t) /\ DoesItsPart(t)
<1> DEFINE n == frame[t].target
           z == Last(frame[t].file.blocks)
           inode == frame[t].file
<1>1. /\ TypeOK /\ Locals(pc[t], req[t], args[t], frame[t]) /\ SoundDisk(disk)
      /\ args[t] \in Args /\ frame[t] \in Frame /\ disk \in [Blocks -> Content]
      /\ KnowsReserved(pc[t], req[t], args[t], frame[t], disk)
  BY IInvParts
<1>2. /\ pc[t] = "append_inode" /\ pc'[t] = "unlock_target" /\ req' = req
      /\ disk' = [disk EXCEPT ![n] = InodeBlock(inode)] /\ Decide(t, "ok")
      /\ free_blocks' = free_blocks /\ args' = args
      /\ UNCHANGED locks /\ boot' = boot
  BY <1>1 DEF AppendInode, Goto, Write, TypeOK, server
<1>3. OthersUnchanged(t)
  BY <1>1, <1>2, DecideEffect DEF AppendInode, Goto, TypeOK, OthersUnchanged
<1>4. Alone(t)
  BY <1>2, <1>3 DEF Alone, LockStep
<1>5. /\ n \in LiveInodes(disk) /\ n \in Blocks /\ ~IsDir(disk, n) /\ req[t].op = "write"
      /\ t \in wrlock[n] /\ ~HoldsDir(pc[t], req[t]) /\ HoldsTarget(pc[t])
      /\ frame[t].to_free = << >> /\ frame[t].ret = "none" /\ ~frame[t].grown
      /\ frame[t].new_block = 0 /\ inode \in Inode /\ inode.type = AsInode(disk[n]).type
      /\ inode.owner = AsInode(disk[n]).owner
      /\ inode.blocks = Append(AsInode(disk[n]).blocks, z)
      /\ Reserved(t) = {z} /\ z \in Blocks \ Live(disk)
  BY <1>2, AppendKnows
<1>6. disk[z].kind = "data"
  BY <1>1, <1>2 DEF KnowsReserved, DataBlock
<1>7. /\ frame'[t].target = n /\ frame'[t].ret = "ok"
      /\ frame'[t].path_index = frame[t].path_index /\ frame'[t].to_free = << >>
      /\ frame'[t].new_block = 0 /\ ~frame'[t].grown
  BY <1>1, <1>2, <1>5, DecideEffect
<1> HIDE DEF n, z, inode
<1>8. disk' = Written(disk, n, InodeBlock(inode)) /\ \A b : disk'[b] = disk[b] \/ b = n
  BY <1>1, <1>2, <1>5 DEF Written
<1>9. /\ SoundDisk(disk') /\ SameBut(disk, disk', n)
      /\ LiveInodes(disk') = LiveInodes(disk) /\ Live(disk') = Live(disk) \cup {z}
  <2>1. /\ disk \in [Blocks -> Content] /\ SoundDisk(disk) /\ n \in LiveInodes(disk)
        /\ ~IsDir(disk, n) /\ z \in Blocks \ Live(disk) /\ disk[z].kind = "data" /\ inode \in Inode
        /\ inode.type = AsInode(disk[n]).type /\ inode.owner = AsInode(disk[n]).owner
        /\ inode.blocks = Append(AsInode(disk[n]).blocks, z)
    BY <1>1, <1>5, <1>6
  <2>2. LET e == Written(disk, n, InodeBlock(inode))
        IN  /\ SoundDisk(e) /\ SameBut(disk, e, n)
            /\ LiveInodes(e) = LiveInodes(disk) /\ Live(e) = Live(disk) \cup {z}
    BY ONLY <2>1, FileExtended
  <2> QED
    BY <1>8, <2>2
<1>10. OthersKnow(t)'
  <2>1. LiveInodes(disk) \subseteq LiveInodes(disk')
    BY <1>9
  <2>2. \A b : disk'[b] = disk[b] \/ b \in Live(disk) \cup Reserved(t)
    BY <1>5, <1>8 DEF Live
  <2>3. n \in Blocks /\ t \in wrlock[n] /\ SameBut(disk, disk', n)
    BY <1>5, <1>9
  <2> QED
    BY ONLY IInv, t \in Threads, <1>3, <2>1, <2>2, <2>3, OthersStillKnow
<1>11. Locals(pc'[t], req'[t], args'[t], frame'[t])
  BY <1>1, <1>2, <1>5, <1>7 DEF Locals, Without, AtLastName, Created, Decided
<1>12. HasLocks(t)'
  <2>1. ~HoldsDir(pc'[t], req[t])
    BY <1>2, <1>5 DEF HoldsDir, InDirectory
  <2> QED
    BY <1>2, <1>5, <1>7, <2>1, LocksStay DEF n
<1>13. Reserved(t)' = {}
  <2>1. ToSet(frame'[t].to_free) = {}
    BY <1>7 DEF ToSet
  <2> QED
    BY <1>7, <2>1 DEF Reserved, ReservedBy
<1>14. Knows(pc'[t], req'[t], args'[t], frame'[t], disk')
  <2>1. pc'[t] \in {"unlock_target"} /\ req'[t].op # "delete" /\ frame'[t].to_free = << >>
    BY <1>2, <1>5, <1>7
  <2> QED
    BY ONLY <2>1, AccessDecided
<1>15. Mine(t)'
  BY <1>11, <1>12, <1>14 DEF Mine
<1>16. Live(disk') \cup Reserved(t)' = Live(disk) \cup Reserved(t) /\ Live(disk') \cap Reserved(t)' = {}
  BY <1>5, <1>9, <1>13
<1> QED
  BY <1>2, <1>4, <1>9, <1>10, <1>15, <1>16, MovesLive

(* A file gets no further block, or has one reserved. *)
LEMMA ExtendFileKeeps ==
  ASSUME IInv, NEW t \in Threads, ExtendFile(t)
  PROVE  Alone(t) /\ DoesItsPart(t)
<1> DEFINE n == frame[t].target
           old == frame[t].file
           z == Head(free_blocks)
<1>1. /\ TypeOK /\ Locals(pc[t], req[t], args[t], frame[t])
      /\ args[t] \in Args /\ frame[t] \in Frame /\ req[t] \in Request
      /\ disk \in [Blocks -> Content] /\ BlocksOwnedOnce
      /\ KnowsTarget(pc[t], req[t], args[t], frame[t], disk)
  BY IInvParts
<1>2. /\ pc[t] = "extend" /\ req' = req /\ disk' = disk /\ args' = args
      /\ UNCHANGED locks /\ boot' = boot
  BY <1>1 DEF ExtendFile, Goto, server
<1>3. OthersUnchanged(t)
  BY <1>1, <1>2, DecideEffect DEF ExtendFile, Goto, TypeOK, OthersUnchanged
<1>4. Alone(t)
  BY <1>2, <1>3 DEF Alone, LockStep
<1>5. /\ n \in LiveInodes(disk) /\ n \in Blocks /\ req[t].op = "write"
      /\ ~HoldsDir(pc[t], req[t]) /\ HoldsTarget(pc[t])
      /\ frame[t].to_free = << >> /\ frame[t].ret = "none" /\ ~frame[t].grown
      /\ frame[t].new_block = 0 /\ CopyOfTarget(pc[t], frame[t], disk)
      /\ MayAccess(old, req[t].user)
  BY <1>1, <1>2, AccessKnows DEF OnFile, Locals
<1>6. old = AsInode(disk[n]) /\ req[t].block = Len(old.blocks)
  BY <1>1, <1>2, <1>5 DEF CopyOfTarget, KnowsTarget
<1>7. Reserved(t) = {}
  BY <1>2, <1>5 DEF Reserved, ReservedBy, ToSet
<1>8. CASE NoRoomFor(old)
  <2>1. pc'[t] = "unlock_target" /\ free_blocks' = free_blocks /\ Decide(t, "fail")
    BY <1>1, <1>8 DEF ExtendFile, Goto, TypeOK
  <2>2. /\ frame'[t].target = n /\ frame'[t].ret = "fail"
        /\ frame'[t].path_index = frame[t].path_index /\ frame'[t].to_free = << >>
        /\ frame'[t].new_block = 0 /\ ~frame'[t].grown
    BY <1>1, <1>5, <2>1, DecideEffect
  <2>3. Locals(pc'[t], req'[t], args'[t], frame'[t])
    BY <1>1, <1>2, <1>5, <2>1, <2>2 DEF Locals, Without, AtLastName, Created, Decided
  <2>4. HasLocks(t)'
    <3>1. ~HoldsDir(pc'[t], req[t])
      BY <1>5, <2>1 DEF HoldsDir, InDirectory
    <3> QED
      BY <1>2, <1>5, <2>2, <3>1, LocksStay
  <2>5. Reserved(t)' = {}
    <3>1. ToSet(frame'[t].to_free) = {}
      BY <2>2 DEF ToSet
    <3> QED
      BY <2>2, <3>1 DEF Reserved, ReservedBy
  <2>6. Knows(pc'[t], req'[t], args'[t], frame'[t], disk')
    <3>1. pc'[t] \in {"unlock_target"} /\ req'[t].op # "delete" /\ frame'[t].to_free = << >>
      BY <1>2, <1>5, <2>1, <2>2
    <3> QED
      BY ONLY <3>1, AccessDecided
  <2> QED
    BY <1>2, <1>3, <1>4, <1>7, <2>1, <2>3, <2>4, <2>5, <2>6, MovesNothing DEF Mine
<1>9. CASE ~NoRoomFor(old)
  <2>1. /\ pc'[t] = "append_data" /\ free_blocks' = Tail(free_blocks)
        /\ frame' = [frame EXCEPT ![t].file.blocks = Append(@, z)]
    BY <1>1, <1>9 DEF ExtendFile, Goto, TypeOK
  <2>2. free_blocks # << >> /\ free_blocks \in Seq(Blocks) /\ IsInjective(free_blocks)
    <3>1. free_blocks # << >>
      BY <1>9 DEF NoRoomFor
    <3>2. Apart(t)
      BY <1>1, OwnedApart
    <3> QED
      BY <1>1, <3>1, <3>2 DEF TypeOK, Apart
  <2>3. /\ z \in ToSet(free_blocks) /\ IsInjective(free_blocks')
        /\ ToSet(free_blocks') = ToSet(free_blocks) \ {z}
    BY <2>1, <2>2, TailSet
  <2> HIDE DEF n, z
  <2>4. /\ frame'[t].target = n /\ frame'[t].ret = "none"
        /\ frame'[t].path_index = frame[t].path_index /\ frame'[t].to_free = << >>
        /\ frame'[t].new_block = 0 /\ ~frame'[t].grown
        /\ frame'[t].file = [old EXCEPT !.blocks = Append(@, z)]
    BY <1>1, <1>5, <2>1 DEF TypeOK, Frame, n
  <2>5. old \in Inode /\ old.blocks \in Seq(Blocks) /\ Len(old.blocks) \in Nat
    BY <1>1 DEF Frame, Inode, BlockList
  <2>6. /\ frame'[t].file.type = old.type /\ frame'[t].file.owner = old.owner
        /\ frame'[t].file.blocks = Append(old.blocks, z)
        /\ Last(frame'[t].file.blocks) = z /\ Len(frame'[t].file.blocks) = Len(old.blocks) + 1
    <3>1. /\ frame'[t].file.type = old.type /\ frame'[t].file.owner = old.owner
          /\ frame'[t].file.blocks = Append(old.blocks, z)
      BY <2>4, <2>5 DEF Inode
    <3> QED
      BY <2>5, <3>1 DEF Last
  <2>7. Locals(pc'[t], req'[t], args'[t], frame'[t])
    BY <1>1, <1>2, <1>5, <2>1, <2>4 DEF Locals, Without, AtLastName, Created, Decided
  <2>8. ~HoldsDir(pc'[t], req'[t]) /\ HoldsTarget(pc'[t])
    BY <1>2, <1>5, <2>1 DEF HoldsDir, InDirectory, HoldsTarget, OnTarget
  <2>9. HasLocks(t)'
    BY <1>2, <1>5, <2>4, <2>8, LocksStay DEF n
  <2>10. Reserved(t)' = {z}
    <3>1. ToSet(frame'[t].to_free) = {}
      BY <2>4 DEF ToSet
    <3> QED
      BY <2>1, <2>4, <2>6, <3>1 DEF Reserved, ReservedBy
  <2>11. KnowsDir(pc'[t], req'[t], args'[t], frame'[t], disk')
    BY <2>1, <2>8 DEF KnowsDir, WithEntry, Found, Created
  <2>12. KnowsTarget(pc'[t], req'[t], args'[t], frame'[t], disk')
    <3>1. CopyOfTarget(pc'[t], frame'[t], disk')
      BY <1>2, <1>6, <2>1, <2>4, <2>6 DEF CopyOfTarget
    <3>2. frame'[t].target \in LiveInodes(disk')
      BY <1>2, <1>5, <2>4 DEF n
    <3>3. MayAccess(frame'[t].file, req'[t].user)
      BY <1>2, <1>5, <2>6 DEF MayAccess
    <3>4. req'[t].block + 1 = Len(frame'[t].file.blocks)
      BY <1>2, <1>6, <2>6
    <3> QED
      BY <2>1, <2>8, <3>1, <3>2, <3>3, <3>4 DEF KnowsTarget
  <2>13. KnowsReserved(pc'[t], req'[t], args'[t], frame'[t], disk')
    BY <2>1, <2>4 DEF KnowsReserved, IsInjective
  <2>14. /\ ToSet(free_blocks') \cup Reserved(t)' = ToSet(free_blocks) \cup Reserved(t)
         /\ ToSet(free_blocks') \cap Reserved(t)' = {}
    BY <1>7, <2>3, <2>10
  <2>15. Mine(t)'
    BY <2>7, <2>9, <2>11, <2>12, <2>13 DEF Mine, Knows
  <2> QED
    BY <1>2, <1>3, <1>4, <2>3, <2>14, <2>15, MovesFree
<1> QED
  BY <1>8, <1>9

-----------------------------------------------------------------------------
(* The steps of main. *)

(* A thread that handles no request has reserved nothing. *)
LEMMA IdleHasNothing ==
  ASSUME IInv, NEW t \in Threads, pc[t] = "idle"
  PROVE  Reserved(t) = {}
<1>1. Locals(pc[t], req[t], args[t], frame[t])
  BY IInvParts
<1> QED
  BY <1>1 DEF Reserved, ReservedBy, ToSet, Locals, Without, Decided

(* The constructor's loop lists the blocks outside the tree, each once. *)
LEMMA BootEffect ==
  ASSUME IInv, Boot
  PROVE  /\ \A t \in Threads : pc[t] = "idle" /\ Reserved(t) = {} /\ Reserved(t)' = {}
         /\ ToSet(free_blocks') = (0 .. boot' - 1) \ Live(disk)
         /\ IsInjective(free_blocks') /\ ToSet(free_blocks) \subseteq ToSet(free_blocks')
<1>1. TypeOK /\ Booting /\ BlocksOwnedOnce
  BY DEF IInv, LockInv, TypeInv
<1>2. /\ boot \in Blocks /\ boot \in Nat /\ boot' = boot + 1 /\ disk \in [Blocks -> Content]
      /\ free_blocks \in Seq(Blocks)
  BY <1>1, LayoutAssumption DEF TypeOK, Boot, Blocks
<1>3. /\ \A t \in Threads : pc[t] = "idle"
      /\ ToSet(free_blocks) = (0 .. boot - 1) \ Live(disk)
  BY <1>1 DEF Booting, Boot
<1>4. IsInjective(free_blocks)
  BY <1>1, <1>2, InjectiveList DEF BlocksOwnedOnce
<1>5. IndexDisk(disk) = Live(disk)
  BY <1>2, IndexDiskLive
<1>6. boot \notin ToSet(free_blocks) /\ 0 .. boot' - 1 = (0 .. boot - 1) \cup {boot}
  BY <1>2, <1>3
<1>7. /\ ToSet(free_blocks') = (0 .. boot' - 1) \ Live(disk)
      /\ IsInjective(free_blocks') /\ ToSet(free_blocks) \subseteq ToSet(free_blocks')
  <2>1. CASE boot \in Live(disk)
    <3>1. free_blocks' = free_blocks
      BY <1>5, <2>1 DEF Boot
    <3> QED
      BY <1>3, <1>4, <1>6, <2>1, <3>1
  <2>2. CASE boot \notin Live(disk)
    <3>1. free_blocks' = Append(free_blocks, boot)
      BY <1>5, <2>2 DEF Boot
    <3>2. ToSet(free_blocks') = ToSet(free_blocks) \cup {boot} /\ IsInjective(free_blocks')
      BY <1>2, <1>4, <1>6, <3>1, AppendSet
    <3> QED
      BY <1>3, <1>6, <2>2, <3>2
  <2> QED
    BY <2>1, <2>2
<1>8. \A t \in Threads : Reserved(t) = {} /\ Reserved(t)' = {}
  BY <1>3, IdleHasNothing DEF Boot, Reserved, ReservedBy
<1> QED
  BY <1>3, <1>7, <1>8

(* The constructor's loop preserves the invariant. *)
LEMMA BootKeeps ==
  ASSUME IInv, Boot
  PROVE  IInv'
<1>1. TypeOK /\ OneWriter /\ SoundDisk(disk) /\ \A t \in Threads : Mine(t)
  BY DEF IInv, LockInv, TypeInv, Mine
<1>2. /\ UNCHANGED locks /\ disk' = disk /\ pc' = pc /\ req' = req /\ args' = args
      /\ frame' = frame
  BY DEF Boot
<1>3. LockInv'
  BY NextLockInv DEF Next, IInv
<1>4. free_blocks' \in Seq(Blocks)
  BY <1>3 DEF LockInv, TypeInv, TypeOK
<1>5. OneWriter'
  BY <1>1, <1>2 DEF OneWriter, locks
<1>6. BlocksOwnedOnce'
  <2>1. Cardinality(ToSet(free_blocks')) = Len(free_blocks')
    BY <1>4, BootEffect, InjectiveList
  <2>2. ToSet(free_blocks') \cap Live(disk') = {}
    BY <1>2, BootEffect
  <2>3. \A t \in Threads : Reserved(t)' = {}
    BY BootEffect
  <2> QED
    BY <2>1, <2>2, <2>3 DEF BlocksOwnedOnce
<1>7. Booting'
  BY <1>2, BootEffect DEF Booting
<1>8. \A t \in Threads : Mine(t)'
  BY <1>1, <1>2 DEF Mine, HasLocks, locks
<1> QED
  BY <1>1, <1>2, <1>3, <1>5, <1>6, <1>7, <1>8 DEF IInv, Mine

(* A server that has just started knows nothing yet. *)
LEMMA NewThread ==
  ASSUME NEW r, NEW d
  PROVE  /\ Locals("idle", r, NoArgs, NoFrame) /\ Knows("idle", r, NoArgs, NoFrame, d)
         /\ ReservedBy("idle", NoArgs, NoFrame) = {}
         /\ ~HoldsDir("idle", r) /\ ~HoldsTarget("idle")
<1>1. /\ NoFrame.path_index = 1 /\ NoFrame.new_block = 0 /\ NoFrame.grown = FALSE
      /\ NoFrame.to_free = << >> /\ NoFrame.ret = "none"
  BY DEF NoFrame
<1>2. Knows("idle", r, NoArgs, NoFrame, d) /\ ~HoldsDir("idle", r) /\ ~HoldsTarget("idle")
  BY <1>1, KnowsNothing
<1>3. Locals("idle", r, NoArgs, NoFrame)
  BY <1>1 DEF Locals, Without, AtLastName, Created, Decided
<1>4. ReservedBy("idle", NoArgs, NoFrame) = {}
  BY <1>1 DEF ReservedBy, ToSet
<1> QED
  BY <1>2, <1>3, <1>4

(* It has the invariant if its disk is sound: at the first start, ... *)
LEMMA InitIInv == Init => IInv
<1> SUFFICES ASSUME Init PROVE IInv
  OBVIOUS
<1>1. LockInv
  BY InitTypeInv DEF Init, LockInv, LockShape, Holds
<1>2. OneWriter /\ SoundDisk(disk)
  BY DiskAssumption DEF Init, OneWriter
<1>3. ToSet(free_blocks) = {} /\ Cardinality(ToSet(free_blocks)) = Len(free_blocks)
  <2>1. free_blocks = << >> /\ free_blocks \in Seq(Blocks)
    BY DEF Init
  <2>2. IsInjective(free_blocks)
    BY <2>1 DEF IsInjective
  <2>3. ToSet(free_blocks) = {}
    BY <2>1 DEF ToSet
  <2> QED
    BY <2>1, <2>2, <2>3, InjectiveList
<1>4. ASSUME NEW t \in Threads
      PROVE  Mine(t) /\ pc[t] = "idle" /\ Reserved(t) = {}
  BY NewThread DEF Init, Mine, Reserved, HasLocks
<1>5. BlocksOwnedOnce
  BY <1>3, <1>4 DEF BlocksOwnedOnce
<1>6. Booting
  BY <1>3, <1>4 DEF Booting, Init
<1> QED
  BY <1>1, <1>2, <1>4, <1>5, <1>6 DEF IInv, Mine

(* ... and after a crash. *)
LEMMA CrashKeeps ==
  ASSUME IInv, Crash
  PROVE  IInv'
<1>1. LockInv'
  BY NextLockInv DEF Next, IInv
<1>2. OneWriter' /\ SoundDisk(disk')
  BY DEF Crash, OneWriter, IInv
<1>3. ToSet(free_blocks') = {} /\ Cardinality(ToSet(free_blocks')) = Len(free_blocks')
  <2>1. free_blocks' = << >> /\ free_blocks' \in Seq(Blocks)
    BY DEF Crash
  <2>2. IsInjective(free_blocks')
    BY <2>1 DEF IsInjective
  <2>3. ToSet(free_blocks') = {}
    BY <2>1 DEF ToSet
  <2> QED
    BY <2>1, <2>2, <2>3, InjectiveList
<1>4. ASSUME NEW t \in Threads
      PROVE  Mine(t)' /\ pc'[t] = "idle" /\ Reserved(t)' = {}
  <2>1. pc'[t] = "idle" /\ args'[t] = NoArgs /\ frame'[t] = NoFrame
    BY DEF Crash
  <2> QED
    BY <2>1, NewThread DEF Mine, Reserved, HasLocks
<1>5. BlocksOwnedOnce'
  BY <1>3, <1>4 DEF BlocksOwnedOnce
<1>6. Booting'
  BY <1>3, <1>4 DEF Booting, Crash
<1> QED
  BY <1>1, <1>2, <1>4, <1>5, <1>6 DEF IInv, Mine

-----------------------------------------------------------------------------
(* Every step of a thread is one of the lemmas above. *)
LEMMA ThreadKeeps ==
  ASSUME IInv, NEW t \in Threads, Accept(t) \/ Handle(t)
  PROVE  /\ OthersUnchanged(t) /\ LockStep(t) /\ boot = FS_DISKSIZE /\ boot' = boot
         /\ DoesItsPart(t)
<1>1. CASE Accept(t)
  BY <1>1, AcceptKeeps
<1>2. CASE Handle(t)
  <2>1. OthersUnchanged(t) /\ LockStep(t) /\ boot' = boot /\ DoesItsPart(t)
    <3>1. CASE Begin(t)
      BY <3>1, BeginCreateKeeps, BeginDeleteKeeps, BeginAccessKeeps DEF Begin, Alone
    <3>2. CASE Walk(t)
      BY <3>2, LockRootKeeps, SearchKeeps, LockNextKeeps, UnlockLastKeeps DEF Walk, Alone
    <3>3. CASE CreateEntry(t)
      BY <3>3, ReuseFolderKeeps, CannotGrowKeeps, GrowDirectoryKeeps, WriteNewInodeKeeps,
         WriteFolderKeeps, WriteParentKeeps DEF CreateEntry, Alone
    <3>4. CASE DeleteEntry(t)
      BY <3>4, CheckDeleteKeeps, RemoveEntryKeeps, ReleaseBlocksKeeps DEF DeleteEntry, Alone
    <3>5. CASE AccessEntry(t)
      BY <3>5, UnlockDirKeeps, OpenFileKeeps, ReadDataKeeps, WriteDataKeeps, ExtendFileKeeps,
         AppendDataKeeps, AppendInodeKeeps DEF AccessEntry, Alone
    <3>6. CASE LockTarget(t) \/ UnlockTarget(t) \/ UnlockParent(t) \/ Reply(t)
      BY <3>6, LockTargetKeeps, UnlockTargetKeeps, UnlockParentKeeps, ReplyKeeps DEF Alone
    <3> QED
      BY <1>2, <3>1, <3>2, <3>3, <3>4, <3>5, <3>6 DEF Handle
  <2>2. pc[t] # "idle"
    BY <1>2 DEF Handle, Begin, BeginCreate, BeginDelete, BeginAccess, Walk, LockRoot, Search,
       LockNext, UnlockLast, CreateEntry, ReuseFolder, CannotGrow, GrowDirectory, WriteNewInode,
       WriteFolder, WriteParent, LockTarget, DeleteEntry, CheckDelete, RemoveEntry,
       ReleaseBlocks, AccessEntry, UnlockDir, OpenFile, ReadData, WriteData, ExtendFile,
       AppendData, AppendInode, UnlockTarget, UnlockParent, Reply, Return, Goto, AfterOpen
  <2> QED
    BY <2>1, <2>2, IInvParts
<1> QED
  BY <1>1, <1>2

(* Every step preserves the invariant. *)
LEMMA NextIInv == IInv /\ [Next]_vars => IInv'
<1> SUFFICES ASSUME IInv, [Next]_vars PROVE IInv'
  OBVIOUS
<1>1. CASE Boot
  BY <1>1, BootKeeps
<1>2. CASE Crash
  BY <1>2, CrashKeeps
<1>3. ASSUME NEW t \in Threads, Accept(t) \/ Handle(t) PROVE IInv'
  <2>1. /\ OthersUnchanged(t) /\ LockStep(t) /\ boot = FS_DISKSIZE /\ boot' = boot
        /\ DoesItsPart(t)
    BY <1>3, ThreadKeeps
  <2> QED
    BY <2>1, StepKeepsIInv DEF DoesItsPart
<1>4. CASE UNCHANGED vars
  <2>1. LockInv'
    BY NextLockInv DEF IInv
  <2>2. /\ UNCHANGED locks /\ disk' = disk /\ pc' = pc /\ req' = req /\ args' = args
        /\ frame' = frame /\ free_blocks' = free_blocks /\ boot' = boot
    BY <1>4 DEF vars, locks
  <2>3. OneWriter' /\ SoundDisk(disk') /\ Booting'
    BY <2>2 DEF IInv, OneWriter, Booting, locks
  <2>4. BlocksOwnedOnce'
    BY <2>2 DEF IInv, BlocksOwnedOnce, Reserved
  <2>5. \A t \in Threads : Mine(t)'
    BY <2>2 DEF IInv, Mine, HasLocks, locks
  <2> QED
    BY <2>1, <2>3, <2>4, <2>5 DEF IInv, Mine
<1> QED
  BY <1>1, <1>2, <1>3, <1>4 DEF Next, Idle

(* The server's core has the invariant, for every number of blocks, threads,  *)
(* requests and crashes and every sound disk to start from.                  *)
THEOREM InductiveInvariant == Spec => []IInv
  BY InitIInv, NextIInv, PTL DEF Spec

-----------------------------------------------------------------------------
(* What follows from the invariant. *)

(* Whatever write was the last before a crash, the disk holds a tree: every  *)
(* entry leads to an inode, and no block is used for two things.            *)
THEOREM DiskHoldsTree == Spec => []TreeWellFormed
<1>1. IInv => TreeWellFormed
  BY DEF IInv, SoundDisk, TreeWellFormed
<1> QED
  BY <1>1, InductiveInvariant, PTL

(* Concurrent creates never give a directory two entries of one name. *)
THEOREM NamesStayUnique == Spec => []NamesUnique
<1>1. IInv => NamesUnique
  BY DEF IInv, SoundDisk, NamesUnique
<1> QED
  BY <1>1, InductiveInvariant, PTL

(* A directory left without entries has no blocks, so it can be deleted. *)
THEOREM EmptiedDirsShrink == Spec => []NoEmptyDirBlock
<1>1. IInv => NoEmptyDirBlock
  BY DEF IInv, SoundDisk, NoEmptyDirBlock
<1> QED
  BY <1>1, InductiveInvariant, PTL

(* Nobody gets an entry into the directory of another user. *)
THEOREM OwnersStayApart == Spec => []OwnerIsolation
<1>1. IInv => OwnerIsolation
  BY DEF IInv, SoundDisk, OwnerIsolation
<1> QED
  BY <1>1, InductiveInvariant, PTL

(* No block is in the tree and free, free twice, or reserved by two threads. *)
THEOREM BlocksHaveOneOwner == Spec => []BlocksOwnedOnce
<1>1. IInv => BlocksOwnedOnce
  BY DEF IInv
<1> QED
  BY <1>1, InductiveInvariant, PTL

(* What a thread has locked is still in the tree. *)
THEOREM LockedStaysLive == Spec => []NoUseAfterFree
<1>1. ASSUME IInv PROVE NoUseAfterFree
  <2> SUFFICES ASSUME NEW t \in Threads
               PROVE  /\ pc[t] \in InDirectory => args[t].disk_block \in LiveInodes(disk)
                      /\ pc[t] \in OnTarget => frame[t].target \in LiveInodes(disk)
    BY DEF NoUseAfterFree
  <2>1. /\ KnowsDir(pc[t], req[t], args[t], frame[t], disk)
        /\ KnowsTarget(pc[t], req[t], args[t], frame[t], disk)
    BY <1>1, IInvParts
  <2> QED
    BY <2>1 DEF KnowsDir, KnowsTarget, HoldsDir
<1> QED
  BY <1>1, InductiveInvariant, PTL

(* A copy made under a lock stays current while it is used, so no update of  *)
(* an inode or of a block of entries is lost.                               *)
THEOREM NoLostUpdate == Spec => []CopiesCurrent
<1>1. ASSUME IInv PROVE CopiesCurrent
  <2> SUFFICES ASSUME NEW t \in Threads
               PROVE  LET dir == AsInode(disk[args[t].disk_block])
                      IN  /\ pc[t] \in {"lock_next", "lock_target", "grow", "check_delete",
                                        "remove", "unlock_dir"}
                               => args[t].inode = dir
                          /\ pc[t] \in {"write_inode", "write_folder", "write_parent"}
                               => IF frame[t].grown
                                  THEN Front(args[t].inode.blocks) = dir.blocks
                                  ELSE args[t].inode = dir
                          /\ pc[t] \in {"lock_next", "lock_target", "check_delete", "remove",
                                        "unlock_dir", "write_inode", "write_folder"}
                             /\ ~frame[t].grown
                               => args[t].folders =
                                    AsFolders(disk[args[t].inode.blocks[args[t].blocks_index]])
                          /\ pc[t] \in {"remove", "read_data", "write_data", "extend"}
                               => frame[t].file = AsInode(disk[frame[t].target])
    BY DEF CopiesCurrent
  <2> DEFINE dir == AsInode(disk[args[t].disk_block])
  <2>1. /\ KnowsDir(pc[t], req[t], args[t], frame[t], disk)
        /\ KnowsTarget(pc[t], req[t], args[t], frame[t], disk)
        /\ Locals(pc[t], req[t], args[t], frame[t])
        /\ disk \in [Blocks -> Content] /\ args[t] \in Args
    BY <1>1, IInvParts
  <2>2. pc[t] \in WithEntry \cup Created => CopyOfDir(args[t], frame[t], disk)
    BY <2>1 DEF KnowsDir
  <2>3. pc[t] \in WithEntry \cup {"grow"} => ~frame[t].grown
    BY <2>1 DEF Locals, WithEntry, Found
  <2>4. pc[t] \in WithEntry \cup {"grow"} => args[t].inode = dir
    BY <2>2, <2>3 DEF CopyOfDir, Created
  <2>5. ASSUME pc[t] \in {"write_inode", "write_folder", "write_parent"}, frame[t].grown
        PROVE  Front(args[t].inode.blocks) = dir.blocks
    <3>1. args[t].inode.blocks = Append(dir.blocks, Last(args[t].inode.blocks))
      BY <2>2, <2>5 DEF CopyOfDir, Created
    <3>2. dir.blocks \in Seq(Blocks)
      BY <2>1, InodeFacts DEF Args, BlockList
    <3>3. PICK z : z = Last(args[t].inode.blocks)
      OBVIOUS
    <3>4. Len(Append(dir.blocks, z)) - 1 = Len(dir.blocks)
      BY <3>2
    <3>5. Front(Append(dir.blocks, z)) = dir.blocks
      BY <3>2, <3>4 DEF Front
    <3> QED
      BY <3>1, <3>3, <3>5
  <2>6. pc[t] \in {"write_inode", "write_folder", "write_parent"} /\ ~frame[t].grown
          => args[t].inode = dir
    BY <2>2 DEF CopyOfDir, Created
  <2>7. pc[t] \in WithEntry => SameFolders(args[t], disk)
    BY <2>1 DEF KnowsDir, EntryFound
  <2>8. pc[t] \in {"write_inode", "write_folder"} /\ ~frame[t].grown => SameFolders(args[t], disk)
    BY <2>1 DEF KnowsDir, PlaceForEntry, Created
  <2>9. pc[t] \in {"remove", "read_data", "write_data", "extend"}
          => frame[t].file = AsInode(disk[frame[t].target])
    BY <2>1 DEF KnowsTarget, CopyOfTarget, OnFile
  <2> HIDE DEF dir
  <2>10. pc[t] \in {"lock_next", "lock_target", "grow", "check_delete", "remove", "unlock_dir"}
           => args[t].inode = dir
    BY <2>4 DEF WithEntry, Found
  <2>11. pc[t] \in {"lock_next", "lock_target", "check_delete", "remove", "unlock_dir",
                    "write_inode", "write_folder"} /\ ~frame[t].grown
           => args[t].folders = AsFolders(disk[args[t].inode.blocks[args[t].blocks_index]])
    BY <2>7, <2>8 DEF WithEntry, Found, SameFolders
  <2> QED
    BY <2>5, <2>6, <2>9, <2>10, <2>11 DEF dir
<1> QED
  BY <1>1, InductiveInvariant, PTL

(* A thread waits for a lock only with one other held, the parent's. *)
THEOREM WaitsGoDown == Spec => []LocksFollowTree
<1>1. ASSUME IInv PROVE LocksFollowTree
  <2> SUFFICES ASSUME NEW t \in Threads, pc[t] \in {"lock_next", "lock_target"}
               PROVE  /\ {b \in Blocks : t \in rdlock[b] \cup wrlock[b]} = {args[t].disk_block}
                      /\ Entry(t).inode_block \in ChildrenOf(disk, args[t].disk_block)
    BY DEF LocksFollowTree
  <2> DEFINE D == args[t].disk_block
  <2>1. HasLocks(t) /\ LockShape(t)
    BY <1>1, IInvParts DEF IInv, LockInv
  <2>2. D \in Blocks /\ Entry(t).inode_block \in ChildrenOf(disk, D)
    BY <1>1, EntryIsChild DEF WithEntry, Found
  <2>3. t \in rdlock[D] \cup wrlock[D]
    BY <2>1 DEF HasLocks, HoldsDir, InDirectory
  <2>4. MayHold(t) = {D}
    BY DEF MayHold, InDirectory, OnTarget
  <2>5. \A b \in Blocks : t \in rdlock[b] \cup wrlock[b] => b = D
    BY <2>1, <2>4 DEF LockShape, Holds
  <2> HIDE DEF D
  <2>6. {b \in Blocks : t \in rdlock[b] \cup wrlock[b]} = {D}
    BY <2>2, <2>3, <2>5
  <2> QED
    BY <2>2, <2>6 DEF D
<1> QED
  BY <1>1, InductiveInvariant, PTL

(* When the constructor is done, no block is lost. *)
THEOREM StartReclaims == Spec => RestartReclaims
<1> DEFINE P == boot < FS_DISKSIZE /\ boot' = FS_DISKSIZE => Lost' = {}
<1>1. ASSUME IInv, [Next]_vars PROVE [P]_vars
  <2> SUFFICES ASSUME boot < FS_DISKSIZE, boot' = FS_DISKSIZE PROVE Lost' = {}
    OBVIOUS
  <2>1. boot # boot'
    BY LayoutAssumption
  <2>2. Boot
    <3>1. ASSUME NEW t \in Threads, Accept(t) \/ Handle(t) PROVE FALSE
      BY <1>1, <2>1, <3>1, ThreadKeeps
    <3>2. ~Crash
      BY LayoutAssumption DEF Crash
    <3>3. ~UNCHANGED vars
      BY <2>1 DEF vars
    <3> QED
      BY <1>1, <3>1, <3>2, <3>3 DEF Next, Idle
  <2>3. ToSet(free_blocks') = Blocks \ Live(disk')
    BY <1>1, <2>2, BootEffect DEF Boot, Blocks
  <2> QED
    BY <2>3 DEF Lost
<1>2. IInv /\ [Next]_vars => [P]_vars
  BY <1>1
<1> QED
  BY <1>2, InductiveInvariant, PTL DEF Spec, RestartReclaims

(* A running server loses only blocks that a failing create had reserved. *)
THEOREM OnlyFailedCreatesLose == Spec => LostOnlyByFailedCreate
<1> DEFINE C == {frame[t].new_block : t \in FailingCreates}
           P == crashes' = crashes => Lost' \ Lost \subseteq C
<1>1. ASSUME IInv, [Next]_vars PROVE [P]_vars
  <2> SUFFICES ASSUME crashes' = crashes PROVE Lost' \ Lost \subseteq C
    OBVIOUS
  <2>1. CASE Boot
    <3>1. disk' = disk /\ \A t \in Threads : Reserved(t) = {}
      BY <1>1, <2>1, BootEffect DEF Boot
    <3>2. ToSet(free_blocks) \subseteq ToSet(free_blocks')
      BY <1>1, <2>1, BootEffect
    <3>3. Lost' \subseteq Lost
      BY <3>1, <3>2 DEF Lost
    <3> QED
      BY <3>3
  <2>2. ~Crash
    BY <1>1 DEF Crash, IInv, LockInv, TypeInv, TypeOK
  <2>3. ASSUME NEW t \in Threads, Accept(t) \/ Handle(t) PROVE Lost' \ Lost \subseteq C
    <3>1. OthersUnchanged(t) /\ DoesItsPart(t)
      BY <1>1, <2>3, ThreadKeeps
    <3>2. Pool(t) \ Pool(t)' \subseteq C
      BY <3>1 DEF DoesItsPart
    <3>3. \A u \in Threads \ {t} : Reserved(u)' = Reserved(u)
      BY <3>1 DEF OthersUnchanged, Reserved
    <3> HIDE DEF C
    <3>4. ASSUME NEW x \in Lost', x \notin Lost PROVE x \in C
      <4>1. x \in Blocks /\ x \notin Pool(t)' /\ \A u \in Threads : x \notin Reserved(u)'
        BY DEF Lost, Pool
      <4>2. x \in Live(disk) \cup ToSet(free_blocks) \/ \E u \in Threads : x \in Reserved(u)
        BY <3>4, <4>1 DEF Lost
      <4>3. x \in Pool(t)
        BY <3>3, <4>1, <4>2 DEF Pool
      <4> QED
        BY <3>2, <4>1, <4>3
    <3> QED
      BY <3>4
  <2>4. CASE UNCHANGED vars
    BY <2>4 DEF vars, Lost, Reserved
  <2> QED
    BY <1>1, <2>1, <2>2, <2>3, <2>4 DEF Next, Idle
<1>2. IInv /\ [Next]_vars => [P]_vars
  BY <1>1
<1> QED
  BY <1>2, InductiveInvariant, PTL DEF Spec, LostOnlyByFailedCreate

-----------------------------------------------------------------------------
Placed(t) == /\ InPlace(pc[t], req[t], args[t], frame[t], disk)
             /\ Answers(pc[t], req[t], frame[t])

(* What a step leaves in the tree stays at its path. *)
PathsStay(d, e) == \A m \in PathsTo(d) : m.block \in LiveInodes(e) => m \in PathsTo(e)

(* What each action of a thread is shown to do. *)
DoesNamespaceStep(t) == (NS!Next \/ UNCHANGED NS!vars) /\ PathsStay(disk, disk') /\ Placed(t)'

(* The parts of the invariant a step uses. *)
LEMMA RInvParts ==
  ASSUME RInv, NEW t \in Threads
  PROVE  /\ IInv /\ TypeOK /\ SoundDisk(disk) /\ disk \in [Blocks -> Content]
         /\ InPlace(pc[t], req[t], args[t], frame[t], disk)
         /\ Answers(pc[t], req[t], frame[t])
         /\ Locals(pc[t], req[t], args[t], frame[t])
         /\ req[t] \in Request /\ args[t] \in Args /\ frame[t] \in Frame
         /\ pc[t] # "idle" => req[t].op \in Ops /\ req[t].user \in Users /\ req[t] # NoRequest
         /\ pc[t] \notin Decided => frame[t].ret = "none" /\ frame[t].buf = Zero
<1>1. /\ IInv /\ InPlace(pc[t], req[t], args[t], frame[t], disk)
      /\ Answers(pc[t], req[t], frame[t])
  BY DEF RInv, WalksItsPath
<1>2. /\ TypeOK /\ SoundDisk(disk) /\ disk \in [Blocks -> Content]
      /\ Locals(pc[t], req[t], args[t], frame[t])
      /\ req[t] \in Request /\ args[t] \in Args /\ frame[t] \in Frame
      /\ pc[t] # "idle" => req[t].op \in Ops /\ req[t].user \in Users
  BY <1>1, IInvParts
<1>3. pc[t] # "idle" => req[t] # NoRequest
  BY <1>2 DEF NoRequest, Ops
<1>4. pc[t] \notin Decided => frame[t].ret = "none"
  BY <1>2 DEF Locals
<1>5. pc[t] \notin Decided => frame[t].buf = Zero
  BY <1>1 DEF Answers, Decided
<1> QED
  BY <1>1, <1>2, <1>3, <1>4, <1>5

(* A step that decides nothing and writes nothing is invisible. *)
LEMMA Invisible ==
  ASSUME RInv, IInv', NEW t \in Threads, OthersUnchanged(t), disk' = disk, req' = req,
         frame'[t].ret = frame[t].ret, frame'[t].buf = frame[t].buf
  PROVE  UNCHANGED NS!vars /\ PathsStay(disk, disk')
<1>1. DOMAIN frame' = Threads
  BY DEF IInv, LockInv, TypeInv, TypeOK
<1>2. \A u \in Threads : frame'[u].ret = frame[u].ret /\ frame'[u].buf = frame[u].buf
  BY DEF OthersUnchanged
<1>3. PathsStay(disk, disk')
  BY DEF PathsStay
<1> QED
  BY <1>2, <1>3 DEF NS!vars

(* A thread decides what it will answer. *)
LEMMA NSAnswer ==
  ASSUME RInv, IInv', NEW t \in Threads, OthersUnchanged(t), req' = req,
         pc[t] # "idle", pc[t] \notin Decided,
         NEW ret, NEW buf, frame'[t].ret = ret, frame'[t].buf = buf
  PROVE  NS!Answer(t, [ret |-> ret, buf |-> buf])
<1>1. req[t] # NoRequest /\ frame[t].ret = "none" /\ frame[t].buf = Zero
  BY RInvParts
<1>2. \A u \in Threads \ {t} : frame'[u] = frame[u]
  BY DEF OthersUnchanged
<1>3. [u \in Threads |-> [ret |-> frame[u].ret, buf |-> frame[u].buf]][t] = NS!Undecided
  BY <1>1 DEF NS!Undecided
<1> QED
  BY <1>1, <1>2, <1>3 DEF NS!Answer

(* A request that fails, by refusal or for lack of space. *)
LEMMA Fails ==
  ASSUME RInv, IInv', NEW t \in Threads, OthersUnchanged(t), req' = req, disk' = disk,
         pc[t] # "idle", pc[t] \notin Decided,
         frame'[t].ret = "fail", frame'[t].buf = Zero,
         \/ req[t].op = "create"
         \/ req[t].op = "delete" /\ ~NS!CanDelete(req[t])
         \/ req[t].op = "read" /\ ~NS!CanRead(req[t])
         \/ req[t].op = "write" /\ (~NS!CanWrite(req[t]) \/ NS!Extends(req[t]))
  PROVE  NS!Next /\ PathsStay(disk, disk')
<1>1. NS!Answer(t, NS!Failure)
  BY NSAnswer DEF NS!Failure
<1>2. UNCHANGED TreeOf(disk)
  OBVIOUS
<1>3. NS!Refuse(t, req[t]) \/ NS!NoSpace(t, req[t])
  BY <1>1, <1>2 DEF NS!Refuse, NS!NoSpace
<1>4. PathsStay(disk, disk')
  BY DEF PathsStay
<1> QED
  BY <1>3, <1>4 DEF NS!Next

-----------------------------------------------------------------------------
(* A request arrives. *)
LEMMA AcceptDoes ==
  ASSUME RInv, IInv', NEW t \in Threads, Accept(t)
  PROVE  DoesNamespaceStep(t)
<1>1. TypeOK /\ Answers(pc[t], req[t], frame[t])
  BY RInvParts
<1>2. /\ pc[t] = "idle" /\ pc'[t] = "begin" /\ frame' = frame /\ disk' = disk
      /\ \E r \in Requests : req' = [req EXCEPT ![t] = r]
  BY <1>1 DEF Accept, Goto, TypeOK
<1>3. NS!Invoke(t)
  BY <1>1, <1>2 DEF NS!Invoke, Answers
<1>4. Placed(t)'
  BY <1>1, <1>2 DEF Placed, InPlace, Answers, HoldsDir, InDirectory, OnTarget
<1>5. PathsStay(disk, disk')
  BY <1>2 DEF PathsStay
<1> QED
  BY <1>3, <1>4, <1>5 DEF NS!Next, DoesNamespaceStep

(* The response leaves. *)
LEMMA ReplyDoes ==
  ASSUME RInv, IInv', NEW t \in Threads, Reply(t)
  PROVE  DoesNamespaceStep(t)
<1>1. TypeOK /\ Locals(pc[t], req[t], args[t], frame[t])
  BY RInvParts
<1>2. /\ pc[t] = "reply" /\ pc'[t] = "idle" /\ disk' = disk
      /\ req' = [req EXCEPT ![t] = NoRequest] /\ frame' = [frame EXCEPT ![t] = NoFrame]
  BY <1>1 DEF Reply, Goto, TypeOK
<1>3. frame[t].ret # "none"
  BY <1>1, <1>2 DEF Locals, Decided
<1>4. NS!Respond(t)
  BY <1>1, <1>2, <1>3 DEF NS!Respond, NS!Undecided, NoFrame, TypeOK
<1>5. Placed(t)'
  BY <1>1, <1>2 DEF Placed, InPlace, Answers, HoldsDir, InDirectory, OnTarget, NoFrame, TypeOK
<1>6. PathsStay(disk, disk')
  BY <1>2 DEF PathsStay
<1> QED
  BY <1>4, <1>5, <1>6 DEF NS!Next, DoesNamespaceStep

(* A create starts; without a block for the entry, it fails. *)
LEMMA BeginCreateDoes ==
  ASSUME RInv, IInv', NEW t \in Threads, BeginCreate(t)
  PROVE  DoesNamespaceStep(t)
<1>1. TypeOK /\ pc[t] = "begin" /\ req[t].op = "create" /\ disk' = disk /\ req' = req
  BY RInvParts DEF BeginCreate
<1>2. pc[t] \notin Decided /\ pc[t] # "idle"
  BY <1>1 DEF Decided
<1>3. frame[t].ret = "none" /\ frame[t].buf = Zero /\ OthersUnchanged(t)
  BY <1>2, RInvParts, BeginCreateKeeps DEF Alone
<1>4. CASE req[t].type \notin {"f", "d"} \/ free_blocks = << >>
  <2>1. Return(t, "begin", "fail", Zero)
    BY <1>4 DEF BeginCreate
  <2>2. pc'[t] = "reply" /\ frame'[t].ret = "fail" /\ frame'[t].buf = Zero
    BY <1>1, <2>1 DEF Return, Goto, NoFrame, TypeOK
  <2>3. Placed(t)'
    BY <2>2 DEF Placed, InPlace, Answers, HoldsDir, InDirectory, OnTarget
  <2> QED
    BY <1>1, <1>2, <1>3, <2>2, <2>3, Fails DEF DoesNamespaceStep
<1>5. CASE ~(req[t].type \notin {"f", "d"} \/ free_blocks = << >>)
  <2>1. pc'[t] = "lock_root" /\ frame'[t].ret = "none" /\ frame'[t].buf = Zero
    BY <1>1, <1>3, <1>5 DEF BeginCreate, Goto, TypeOK, Frame
  <2>2. Placed(t)'
    BY <2>1 DEF Placed, InPlace, Answers, HoldsDir, InDirectory, OnTarget
  <2> QED
    BY <1>1, <1>3, <2>1, <2>2, Invisible DEF DoesNamespaceStep
<1> QED
  BY <1>4, <1>5

(* So does a delete. *)
LEMMA BeginDeleteDoes ==
  ASSUME RInv, IInv', NEW t \in Threads, BeginDelete(t)
  PROVE  DoesNamespaceStep(t)
<1>1. TypeOK /\ Answers(pc[t], req[t], frame[t])
  BY RInvParts
<1>2. /\ pc[t] = "begin" /\ pc'[t] = "lock_root" /\ disk' = disk /\ req' = req /\ frame' = frame
      /\ OthersUnchanged(t)
  BY <1>1, RInvParts, BeginDeleteKeeps DEF BeginDelete, Goto, TypeOK, Alone
<1>3. Placed(t)'
  BY <1>1, <1>2 DEF Placed, InPlace, Answers, HoldsDir, InDirectory, OnTarget
<1> QED
  BY <1>2, <1>3, Invisible DEF DoesNamespaceStep

(* The file at a path, as Namespace sees it. *)
LEMMA FileAt ==
  ASSUME NEW d \in [Blocks -> Content], SoundDisk(d), NEW p \in PathsTo(d)
  PROVE  /\ p.path \in DOMAIN TreeOf(d) /\ p.block \in Blocks /\ p.block \in LiveInodes(d)
         /\ TreeOf(d)[p.path].type = AsInode(d[p.block]).type
         /\ TreeOf(d)[p.path].owner = AsInode(d[p.block]).owner
         /\ TreeOf(d)[p.path].type # "d" =>
              Len(TreeOf(d)[p.path].data) = Len(AsInode(d[p.block]).blocks)
<1>1. p.block \in Blocks /\ p.block \in LiveInodes(d)
  BY PathsLeast, PathsFacts DEF Place
<1>2. TreeOf(d)[p.path] = NodeOf(d, AsInode(d[p.block])) /\ p.path \in DOMAIN TreeOf(d)
  BY TreeAt
<1> QED
  BY <1>1, <1>2, NodeFields DEF IsDir

(* A file has at most FS_MAXFILEBLOCKS blocks. *)
LEMMA FilesAreShort ==
  ASSUME NEW d \in [Blocks -> Content], SoundDisk(d), NEW path \in DOMAIN TreeOf(d),
         TreeOf(d)[path].type = "f"
  PROVE  Len(TreeOf(d)[path].data) \in Nat /\ Len(TreeOf(d)[path].data) <= FS_MAXFILEBLOCKS
<1>1. PICK p \in PathsTo(d) : p.path = path
  BY TreeDomain
<1>2. Len(AsInode(d[p.block]).blocks) <= FS_MAXFILEBLOCKS /\ Len(AsInode(d[p.block]).blocks) \in Nat
  BY <1>1, FileAt, InodeFacts DEF BlockList
<1> QED
  BY <1>1, <1>2, FileAt

(* An access to a block no file has fails at once. *)
LEMMA BeginAccessDoes ==
  ASSUME RInv, IInv', NEW t \in Threads, BeginAccess(t)
  PROVE  DoesNamespaceStep(t)
<1>1. /\ TypeOK /\ pc[t] = "begin" /\ req[t].op \in {"read", "write"} /\ disk' = disk /\ req' = req
      /\ req[t] \in Request /\ SoundDisk(disk) /\ disk \in [Blocks -> Content]
  BY RInvParts DEF BeginAccess
<1>2. pc[t] \notin Decided /\ pc[t] # "idle"
  BY <1>1 DEF Decided
<1>3. frame[t].ret = "none" /\ frame[t].buf = Zero /\ OthersUnchanged(t)
  BY <1>2, RInvParts, BeginAccessKeeps DEF Alone
<1>4. CASE req[t].block >= FS_MAXFILEBLOCKS
  <2>1. Return(t, "begin", "fail", Zero)
    BY <1>4 DEF BeginAccess
  <2>2. pc'[t] = "reply" /\ frame'[t].ret = "fail" /\ frame'[t].buf = Zero
    BY <1>1, <2>1 DEF Return, Goto, NoFrame, TypeOK
  <2>3. Placed(t)'
    BY <2>2, <1>1 DEF Placed, InPlace, Answers, HoldsDir, InDirectory, OnTarget
  <2>4. req[t].block \in Nat /\ FS_MAXFILEBLOCKS \in Nat
    BY <1>1, LayoutAssumption DEF Request
  <2>5. ~NS!CanRead(req[t])
    <3> SUFFICES ASSUME NS!CanRead(req[t]) PROVE FALSE
      OBVIOUS
    <3>1. /\ req[t].path \in DOMAIN TreeOf(disk) /\ TreeOf(disk)[req[t].path].type = "f"
          /\ req[t].block < Len(TreeOf(disk)[req[t].path].data)
      BY DEF NS!CanRead, NS!OwnFile, NS!Exists
    <3> QED
      BY <1>1, <1>4, <2>4, <3>1, FilesAreShort
  <2>6. ~NS!CanWrite(req[t])
    BY <1>4, <2>4 DEF NS!CanWrite
  <2> QED
    BY <1>1, <1>2, <1>3, <2>2, <2>3, <2>5, <2>6, Fails DEF DoesNamespaceStep
<1>5. CASE ~(req[t].block >= FS_MAXFILEBLOCKS)
  <2>1. pc'[t] = "lock_root" /\ frame' = frame
    BY <1>1, <1>5 DEF BeginAccess, Goto, TypeOK
  <2>2. Placed(t)'
    BY <1>3, <2>1 DEF Placed, InPlace, Answers, HoldsDir, InDirectory, OnTarget
  <2> QED
    BY <1>1, <1>3, <2>1, <2>2, Invisible DEF DoesNamespaceStep
<1> QED
  BY <1>4, <1>5

(* No request can be done at the root. *)
LEMMA NothingAtRoot ==
  ASSUME NEW r, r.path = << >>
  PROVE  ~NS!CanDelete(r) /\ ~NS!CanRead(r) /\ ~NS!CanWrite(r)
  BY DEF NS!CanDelete, NS!CanRead, NS!CanWrite, NS!Extends, NS!OwnFile

(* The walk starts at the root. *)
LEMMA LockRootDoes ==
  ASSUME RInv, IInv', NEW t \in Threads, LockRoot(t)
  PROVE  DoesNamespaceStep(t)
<1>1. /\ TypeOK /\ pc[t] = "lock_root" /\ disk' = disk /\ req' = req /\ args' = args
      /\ req[t] \in Request /\ SoundDisk(disk) /\ disk \in [Blocks -> Content]
      /\ Locals(pc[t], req[t], args[t], frame[t])
      /\ pc'[t] = IF req[t].path = << >> THEN "unlock_parent" ELSE "search"
      /\ Decide(t, IF req[t].path = << >> THEN "fail" ELSE frame[t].ret)
  BY RInvParts DEF LockRoot, Goto, TypeOK
<1>2. /\ pc[t] \notin Decided /\ pc[t] # "idle" /\ frame[t].path_index = 1
      /\ args[t].disk_block = 0
  <2>1. StepShape(t)
    BY RInvParts, IInvParts
  <2> QED
    BY <1>1, <2>1 DEF Decided, Locals, StepShape
<1>3. /\ frame[t].ret = "none" /\ frame[t].buf = Zero /\ OthersUnchanged(t)
      /\ req[t].op \in {"create", "delete", "read", "write"}
  BY <1>2, RInvParts, LockRootKeeps DEF Alone, Ops
<1>4. /\ frame'[t].ret = IF req[t].path = << >> THEN "fail" ELSE "none"
      /\ frame'[t].buf = Zero /\ frame'[t].path_index = 1
  BY <1>1, <1>2, <1>3, DecideEffect DEF Decide, TypeOK
<1>5. Placed(t)'
  <2>1. PlaceAt(req[t].path, 1 - 1, 0) = Root
    BY <1>1 DEF Root, Request, PlaceAt
  <2>2. Root \in PathsTo(disk')
    BY <1>1, PathsLeast
  <2>3. HoldsDir(pc'[t], req'[t]) =>
          PlaceAt(req'[t].path, frame'[t].path_index - 1, args'[t].disk_block) \in PathsTo(disk')
    BY <1>1, <1>2, <1>4, <2>1, <2>2
  <2> QED
    BY <1>1, <1>4, <2>3 DEF Placed, InPlace, Answers, OnTarget
<1>6. CASE req[t].path = << >>
  <2>1. ~NS!CanDelete(req[t]) /\ ~NS!CanRead(req[t]) /\ ~NS!CanWrite(req[t])
    BY <1>6, NothingAtRoot
  <2> QED
    BY <1>1, <1>2, <1>3, <1>4, <1>5, <1>6, <2>1, Fails DEF DoesNamespaceStep
<1>7. CASE req[t].path # << >>
  BY <1>1, <1>3, <1>4, <1>5, <1>7, Invisible DEF DoesNamespaceStep
<1> QED
  BY <1>6, <1>7

(* A longer prefix has the next name. *)
LEMMA PrefixAppend ==
  ASSUME NEW S, NEW s \in Seq(S), NEW i \in 1 .. Len(s)
  PROVE  Append(SubSeq(s, 1, i - 1), s[i]) = SubSeq(s, 1, i)
<1> DEFINE a == SubSeq(s, 1, i - 1)
           b == SubSeq(s, 1, i)
<1>1. Len(s) \in Nat /\ s[i] \in S
  OBVIOUS
<1>2. a \in Seq(S) /\ Len(a) = i - 1 /\ \A j \in 1 .. i - 1 : a[j] = s[j]
  BY <1>1
<1>3. b \in Seq(S) /\ Len(b) = i /\ \A j \in 1 .. i : b[j] = s[j]
  BY <1>1
<1> HIDE DEF a, b
<1>4. /\ Append(a, s[i]) \in Seq(S) /\ Len(Append(a, s[i])) = i
      /\ \A j \in 1 .. i : Append(a, s[i])[j] = IF j = i THEN s[i] ELSE a[j]
  BY <1>1, <1>2
<1>5. \A j \in 1 .. i : Append(a, s[i])[j] = b[j]
  BY <1>2, <1>3, <1>4
<1>6. Append(a, s[i]) = b
  BY <1>3, <1>4, <1>5, SeqEqual
<1> QED
  BY <1>6 DEF a, b

(* One part of the path has been walked. *)
LEMMA StepDown ==
  ASSUME RInv, NEW t \in Threads, pc[t] \in WithEntry
  PROVE  /\ PlaceAt(req[t].path, frame[t].path_index - 1, args[t].disk_block) \in PathsTo(disk)
         /\ PlaceAt(req[t].path, frame[t].path_index, Entry(t).inode_block) \in PathsTo(disk)
         /\ frame[t].path_index \in 1 .. Len(req[t].path)
<1> DEFINE i == frame[t].path_index
           D == args[t].disk_block
           path == req[t].path
           p == PlaceAt(path, i - 1, D)
           s == <<args[t].blocks_index, args[t].folder_index>>
           q == At(p, Name(disk, D, s), Target(disk, D, s))
<1>1. /\ IInv /\ SoundDisk(disk) /\ disk \in [Blocks -> Content]
      /\ InPlace(pc[t], req[t], args[t], frame[t], disk)
      /\ Locals(pc[t], req[t], args[t], frame[t]) /\ req[t] \in Request /\ StepShape(t)
  BY RInvParts, IInvParts
<1>2. p \in PathsTo(disk)
  BY <1>1 DEF InPlace, HoldsDir, InDirectory, WithEntry, Found
<1>3. i \in 1 .. Len(path) /\ path \in Seq(Names) /\ Len(path) \in Nat
  <2>1. path \in Seq(Names) /\ Len(path) \in Nat
    BY <1>1 DEF Request
  <2>2. path # << >>
    BY <1>1 DEF StepShape, WithEntry, Found, OutOfWalk
  <2>3. Len(path) >= 1
    BY <2>1, <2>2
  <2> QED
    BY <1>1, <2>1, <2>3 DEF Locals, WithEntry, Found, AtLastName
<1>4. /\ IsDir(disk, D) /\ s \in Entries(disk, D) /\ Target(disk, D, s) = Entry(t).inode_block
      /\ Name(disk, D, s) = path[i]
  BY <1>1, EntryIsChild
<1>5. q \in Below(disk, p) /\ p \in Place
  <2>1. p \in Place
    BY <1>1, <1>2, PathsLeast
  <2>2. p.block = D
    BY DEF PlaceAt
  <2> HIDE DEF p
  <2> QED
    BY <1>1, <1>4, <2>1, <2>2, BelowMeans
<1>6. q \in PathsTo(disk)
  BY <1>1, <1>2, <1>5, PathsLeast
<1>7. Append(SubSeq(path, 1, i - 1), path[i]) = SubSeq(path, 1, i)
  BY <1>3, PrefixAppend
<1>8. q = PlaceAt(path, i, Entry(t).inode_block)
  BY <1>4, <1>7 DEF At, PlaceAt
<1> QED
  BY <1>2, <1>3, <1>6, <1>8

(* The next directory is locked. *)
LEMMA LockNextDoes ==
  ASSUME RInv, IInv', NEW t \in Threads, LockNext(t)
  PROVE  DoesNamespaceStep(t)
<1>1. /\ TypeOK /\ pc[t] = "lock_next" /\ disk' = disk /\ req' = req
      /\ frame[t] \in Frame /\ req[t] \in Request
      /\ pc'[t] = "unlock_last" /\ args'[t].disk_block = Entry(t).inode_block
      /\ frame'[t].path_index = frame[t].path_index + 1
      /\ frame'[t].ret = frame[t].ret /\ frame'[t].buf = frame[t].buf
  BY RInvParts DEF LockNext, Goto, TypeOK, Args, Frame
<1>2. /\ pc[t] \notin Decided /\ pc[t] # "idle" /\ pc[t] \in WithEntry
  BY <1>1 DEF Decided, WithEntry, Found
<1>3. frame[t].buf = Zero /\ OthersUnchanged(t)
  BY <1>2, RInvParts, LockNextKeeps DEF Alone
<1>4. Placed(t)'
  <2>1. PlaceAt(req[t].path, frame[t].path_index, Entry(t).inode_block) \in PathsTo(disk)
    BY <1>2, StepDown
  <2>2. frame'[t].path_index - 1 = frame[t].path_index
    BY <1>1 DEF Frame
  <2>3. PlaceAt(req'[t].path, frame'[t].path_index - 1, args'[t].disk_block) \in PathsTo(disk')
    BY <1>1, <2>1, <2>2, Zenon
  <2> QED
    BY <1>1, <1>3, <2>3 DEF Placed, InPlace, Answers, OnTarget
<1> QED
  BY <1>1, <1>3, <1>4, Invisible DEF DoesNamespaceStep

(* The last directory is unlocked. *)
LEMMA UnlockLastDoes ==
  ASSUME RInv, IInv', NEW t \in Threads, UnlockLast(t)
  PROVE  DoesNamespaceStep(t)
<1>1. /\ TypeOK /\ pc[t] = "unlock_last" /\ disk' = disk /\ req' = req /\ args' = args
      /\ pc'[t] = "search" /\ frame'[t].path_index = frame[t].path_index
      /\ frame'[t].ret = frame[t].ret /\ frame'[t].buf = frame[t].buf
      /\ InPlace(pc[t], req[t], args[t], frame[t], disk)
  BY RInvParts DEF UnlockLast, Goto, TypeOK, Frame
<1>2. pc[t] \notin Decided /\ pc[t] # "idle"
  BY <1>1 DEF Decided
<1>3. frame[t].buf = Zero /\ OthersUnchanged(t)
  BY <1>2, RInvParts, UnlockLastKeeps DEF Alone
<1>4. Placed(t)'
  BY <1>1, <1>3 DEF Placed, InPlace, Answers, OnTarget, HoldsDir, InDirectory
<1> QED
  BY <1>1, <1>3, <1>4, Invisible DEF DoesNamespaceStep

(* The parent is unlocked and the handler returns. *)
LEMMA UnlockParentDoes ==
  ASSUME RInv, IInv', NEW t \in Threads, UnlockParent(t)
  PROVE  DoesNamespaceStep(t)
<1>1. /\ TypeOK /\ pc[t] = "unlock_parent" /\ disk' = disk /\ req' = req
      /\ Return(t, "unlock_parent", frame[t].ret, Zero)
      /\ Answers(pc[t], req[t], frame[t])
  BY RInvParts DEF UnlockParent, Return, Goto
<1>2. /\ pc'[t] = "reply" /\ frame'[t].ret = frame[t].ret /\ frame'[t].buf = Zero
  BY <1>1 DEF Return, Goto, NoFrame, TypeOK
<1>3. frame[t].buf = Zero /\ OthersUnchanged(t)
  BY <1>1, RInvParts, UnlockParentKeeps DEF Alone, Answers
<1>4. Placed(t)'
  BY <1>2 DEF Placed, InPlace, Answers, OnTarget, HoldsDir, InDirectory
<1> QED
  BY <1>1, <1>2, <1>3, <1>4, Invisible DEF DoesNamespaceStep

(* The steps of a create that reserve a block or none. *)
LEMMA ReuseFolderDoes ==
  ASSUME RInv, IInv', NEW t \in Threads, ReuseFolder(t)
  PROVE  DoesNamespaceStep(t)
<1>1. /\ TypeOK /\ pc[t] = "grow" /\ disk' = disk /\ req' = req /\ args' = args /\ frame' = frame
      /\ pc'[t] = "write_inode" /\ InPlace(pc[t], req[t], args[t], frame[t], disk)
  BY RInvParts DEF ReuseFolder, Goto, TypeOK
<1>2. pc[t] \notin Decided /\ pc[t] # "idle"
  BY <1>1 DEF Decided
<1>3. frame[t].buf = Zero /\ OthersUnchanged(t)
  BY <1>2, RInvParts, ReuseFolderKeeps DEF Alone
<1>4. Placed(t)'
  BY <1>1, <1>3 DEF Placed, InPlace, Answers, OnTarget, HoldsDir, InDirectory
<1> QED
  BY <1>1, <1>3, <1>4, Invisible DEF DoesNamespaceStep

(* The directory grows. *)
LEMMA GrowDirectoryDoes ==
  ASSUME RInv, IInv', NEW t \in Threads, GrowDirectory(t)
  PROVE  DoesNamespaceStep(t)
<1>1. /\ TypeOK /\ pc[t] = "grow" /\ disk' = disk /\ req' = req
      /\ pc'[t] = "write_inode" /\ InPlace(pc[t], req[t], args[t], frame[t], disk)
      /\ args'[t].disk_block = args[t].disk_block
      /\ frame'[t].path_index = frame[t].path_index
      /\ frame'[t].ret = frame[t].ret /\ frame'[t].buf = frame[t].buf
  BY RInvParts DEF GrowDirectory, Goto, TypeOK, Frame, Args
<1>2. pc[t] \notin Decided /\ pc[t] # "idle"
  BY <1>1 DEF Decided
<1>3. frame[t].buf = Zero /\ OthersUnchanged(t)
  BY <1>2, RInvParts, GrowDirectoryKeeps DEF Alone
<1>4. Placed(t)'
  BY <1>1, <1>3 DEF Placed, InPlace, Answers, OnTarget, HoldsDir, InDirectory
<1> QED
  BY <1>1, <1>3, <1>4, Invisible DEF DoesNamespaceStep

(* It cannot grow: the create fails. *)
LEMMA CannotGrowDoes ==
  ASSUME RInv, IInv', NEW t \in Threads, CannotGrow(t)
  PROVE  DoesNamespaceStep(t)
<1>1. /\ TypeOK /\ pc[t] = "grow" /\ disk' = disk /\ req' = req /\ args' = args
      /\ pc'[t] = "unlock_parent" /\ InPlace(pc[t], req[t], args[t], frame[t], disk)
      /\ Decide(t, "fail") /\ StepShape(t)
  BY RInvParts, IInvParts DEF CannotGrow, Goto, TypeOK
<1>2. /\ pc[t] \notin Decided /\ pc[t] # "idle" /\ req[t].op = "create"
  BY <1>1 DEF Decided, StepShape, Created
<1>3. frame[t].buf = Zero /\ OthersUnchanged(t)
  BY <1>2, RInvParts, CannotGrowKeeps DEF Alone
<1>4. /\ frame'[t].ret = "fail" /\ frame'[t].buf = Zero
      /\ frame'[t].path_index = frame[t].path_index
  BY <1>1, <1>3, DecideEffect DEF Decide, TypeOK
<1>5. Placed(t)'
  BY <1>1, <1>4 DEF Placed, InPlace, Answers, OnTarget, HoldsDir, InDirectory
<1> QED
  BY <1>1, <1>2, <1>3, <1>4, <1>5, Fails DEF DoesNamespaceStep

-----------------------------------------------------------------------------
(* What Namespace lets a user delete, read or write is at its path and      *)
(* theirs.                                                                  *)
LEMMA Doable ==
  ASSUME NEW r, disk \in [Blocks -> Content], SoundDisk(disk), r.path \in Seq(Names),
         NS!CanDelete(r) \/ NS!CanRead(r) \/ NS!CanWrite(r)
  PROVE  /\ r.path # << >>
         /\ \E p \in PathsTo(disk) : p.path = r.path /\ Owner(disk, p.block) = r.user
<1>1. r.path # << >> /\ r.path \in DOMAIN TreeOf(disk) /\ TreeOf(disk)[r.path].owner = r.user
  BY DEF NS!CanDelete, NS!CanRead, NS!CanWrite, NS!Extends, NS!OwnFile, NS!Exists
<1>2. PICK p \in PathsTo(disk) : p.path = r.path
  BY <1>1, TreeDomain
<1> QED
  BY <1>1, <1>2, FileAt DEF Owner

(* A walk that finds no entry for the next name, or may not look for it, is *)
(* not on the way to anything of the user's.                                *)
LEMMA WayEnds ==
  ASSUME RInv, NEW t \in Threads, pc[t] = "search",
         \/ ~MayEnter(AsInode(disk[args[t].disk_block]), req[t].user)
         \/ \A s \in Entries(disk, args[t].disk_block) :
              Name(disk, args[t].disk_block, s) # req[t].path[frame[t].path_index]
  PROVE  ~NS!CanDelete(req[t]) /\ ~NS!CanRead(req[t]) /\ ~NS!CanWrite(req[t])
<1> DEFINE i == frame[t].path_index
           D == args[t].disk_block
           path == req[t].path
           here == PlaceAt(path, i - 1, D)
<1>1. /\ IInv /\ SoundDisk(disk) /\ disk \in [Blocks -> Content]
      /\ InPlace(pc[t], req[t], args[t], frame[t], disk)
      /\ Locals(pc[t], req[t], args[t], frame[t]) /\ req[t] \in Request
  BY RInvParts
<1>2. here \in PathsTo(disk)
  BY <1>1 DEF InPlace, HoldsDir, InDirectory
<1>3. i \in 1 .. Len(path) /\ path \in Seq(Names) /\ Len(path) \in Nat
  BY <1>1 DEF Locals, Request
<1> SUFFICES ASSUME NS!CanDelete(req[t]) \/ NS!CanRead(req[t]) \/ NS!CanWrite(req[t])
             PROVE  FALSE
  OBVIOUS
<1>4. PICK p \in PathsTo(disk) : p.path = path /\ Owner(disk, p.block) = req[t].user
  BY <1>1, <1>3, Doable
<1>5. i - 1 \in 0 .. Len(p.path) /\ i - 1 < Len(p.path) /\ (i - 1) + 1 = i
  BY <1>3, <1>4
<1>6. PICK q \in PathsTo(disk) : OnTheWay(disk, p, i - 1, q)
  BY <1>1, <1>5, PathsDown
<1>7. q.path = here.path /\ here.block = D
  BY <1>4, <1>6 DEF OnTheWay, Prefix, PlaceAt
<1>8. q.block = D
  BY <1>1, <1>2, <1>7, PathsFacts
<1>9. /\ Owner(disk, D) \in {NoUser, req[t].user} /\ IsDir(disk, D)
      /\ \E s \in Entries(disk, D) : Name(disk, D, s) = path[i]
  BY <1>4, <1>5, <1>6, <1>8 DEF OnTheWay
<1>10. MayEnter(AsInode(disk[D]), req[t].user)
  BY <1>9 DEF MayEnter, Owner, IsDir
<1> QED
  BY <1>9, <1>10

(* A component is looked up. *)
LEMMA SearchDoes ==
  ASSUME RInv, IInv', NEW t \in Threads, Search(t)
  PROVE  DoesNamespaceStep(t)
<1> DEFINE D == args[t].disk_block
           node == AsInode(disk[D])
           i == frame[t].path_index
           r == req[t]
<1>1. /\ TypeOK /\ pc[t] = "search" /\ disk' = disk /\ req' = req
      /\ InPlace(pc[t], req[t], args[t], frame[t], disk)
      /\ Locals(pc[t], req[t], args[t], frame[t]) /\ StepShape(t) /\ disk \in [Blocks -> Content]
      /\ args[t] \in Args /\ r.op \in Ops
  BY RInvParts, IInvParts DEF Search
<1>2. pc[t] \notin Decided /\ pc[t] # "idle"
  BY <1>1 DEF Decided
<1>3. frame[t].ret = "none" /\ frame[t].buf = Zero /\ OthersUnchanged(t)
  BY <1>2, RInvParts, SearchKeeps DEF Alone
<1>4. \/ /\ ~MayEnter(node, r.user) /\ pc'[t] = "unlock_parent"
         /\ args' = [args EXCEPT ![t].inode = node]
      \/ /\ MayEnter(node, r.user)
         /\ \E s \in SearchDirectory(disk, node, r.path[i]) :
              /\ args' = [args EXCEPT ![t] =
                            [@ EXCEPT !.inode = node, !.blocks_index = s.blocks_index,
                                      !.folder_index = s.folder_index, !.folders = s.folders]]
              /\ pc'[t] = AfterSearch(r, i, s.found)
  BY <1>1 DEF Search, Goto, TypeOK
<1> HIDE DEF node, D
<1>5. args'[t].disk_block = D
  <2>1. args \in [Threads -> Args]
    BY <1>1 DEF TypeOK
  <2> QED
    BY <1>4, <2>1 DEF Args, D
<1>6. IF pc'[t] = "unlock_parent" THEN Decide(t, "fail") ELSE frame' = frame
  BY DEF Search
<1>7. /\ frame'[t].path_index = i /\ frame'[t].buf = Zero
      /\ frame'[t].ret = IF pc'[t] = "unlock_parent" THEN "fail" ELSE "none"
  <2>1. CASE pc'[t] = "unlock_parent"
    <3>1. Decide(t, "fail")
      BY <1>6, <2>1
    <3> QED
      BY <1>1, <1>3, <2>1, <3>1, DecideEffect DEF Decide, TypeOK
  <2>2. CASE pc'[t] # "unlock_parent"
    BY <1>3, <1>6, <2>2
  <2> QED
    BY <2>1, <2>2
<1>8. pc'[t] \in {"lock_next", "unlock_parent", "grow", "lock_target"}
  <2>1. \A found : AfterSearch(r, i, found) \in {"lock_next", "unlock_parent", "grow", "lock_target"}
    BY AfterSearchType
  <2> QED
    BY ONLY <1>4, <2>1
<1>9. Placed(t)'
  BY <1>1, <1>5, <1>7, <1>8 DEF Placed, InPlace, Answers, OnTarget, HoldsDir, InDirectory, D
<1>10. CASE pc'[t] = "unlock_parent" /\ r.op # "create"
  <2>1. \/ ~MayEnter(node, r.user)
        \/ \A s \in Entries(disk, D) : Name(disk, D, s) # r.path[i]
    <3> SUFFICES ASSUME MayEnter(node, r.user)
                 PROVE  \A s \in Entries(disk, D) : Name(disk, D, s) # r.path[i]
      OBVIOUS
    <3>1. PICK s \in SearchDirectory(disk, node, r.path[i]) : pc'[t] = AfterSearch(r, i, s.found)
      BY <1>4
    <3>2. ~s.found
      BY <1>10, <3>1 DEF AfterSearch, WantsEntry
    <3>3. D \in Blocks
      BY <1>1 DEF Args, D
    <3> QED
      BY <1>1, <3>1, <3>2, <3>3, SearchDirectoryFinds DEF node
  <2>2. ~NS!CanDelete(r) /\ ~NS!CanRead(r) /\ ~NS!CanWrite(r)
    BY ONLY RInv, t \in Threads, <1>1, <2>1, WayEnds DEF node, D
  <2> HIDE DEF r
  <2>3. r = req[t]
    BY DEF r
  <2> QED
    BY <1>1, <1>2, <1>3, <1>7, <1>9, <1>10, <2>2, <2>3, Fails DEF DoesNamespaceStep, Ops
<1>11. CASE pc'[t] = "unlock_parent" /\ r.op = "create"
  BY <1>1, <1>2, <1>3, <1>7, <1>9, <1>11, Fails DEF DoesNamespaceStep
<1>12. CASE pc'[t] # "unlock_parent"
  BY <1>1, <1>3, <1>7, <1>9, <1>12, Invisible DEF DoesNamespaceStep
<1> QED
  BY <1>10, <1>11, <1>12

(* The new entry's inode is written to a reserved block. *)
LEMMA WritesOutside ==
  ASSUME RInv, IInv', NEW t \in Threads, OthersUnchanged(t), WritesUnused, req' = req,
         frame'[t].ret = frame[t].ret, frame'[t].buf = frame[t].buf
  PROVE  UNCHANGED NS!vars /\ PathsTo(disk') = PathsTo(disk) /\ PathsStay(disk, disk')
<1>1. SoundDisk(disk) /\ disk \in [Blocks -> Content]
  BY RInvParts
<1>2. PICK w \in Blocks \ Live(disk), c \in Content : disk' = Written(disk, w, c)
  BY DEF WritesUnused
<1>3. PathsTo(disk') = PathsTo(disk) /\ TreeOf(disk') = TreeOf(disk)
  BY <1>1, <1>2, TreeUnused
<1>4. DOMAIN frame' = Threads
  BY DEF IInv, LockInv, TypeInv, TypeOK
<1>5. \A u \in Threads : frame'[u].ret = frame[u].ret /\ frame'[u].buf = frame[u].buf
  BY DEF OthersUnchanged
<1> QED
  BY <1>3, <1>5 DEF NS!vars, PathsStay

LEMMA WriteNewInodeDoes ==
  ASSUME RInv, IInv', NEW t \in Threads, WriteNewInode(t)
  PROVE  DoesNamespaceStep(t)
<1>1. /\ TypeOK /\ pc[t] = "write_inode" /\ pc'[t] = "write_folder" /\ req' = req
      /\ args' = args /\ frame' = frame
      /\ disk' = [disk EXCEPT ![frame[t].new_block] =
                    InodeBlock(NewInode(req[t].type, req[t].user))]
      /\ InPlace(pc[t], req[t], args[t], frame[t], disk)
  BY RInvParts DEF WriteNewInode, Goto, TypeOK, Write
<1>2. pc[t] \notin Decided /\ pc[t] # "idle" /\ pc[t] \in Created
  BY <1>1 DEF Decided, Created
<1>3. frame[t].ret = "none" /\ frame[t].buf = Zero /\ OthersUnchanged(t) /\ IInv
      /\ disk \in [Blocks -> Content]
  BY <1>2, RInvParts, WriteNewInodeKeeps DEF Alone
<1>4. /\ frame[t].new_block \in Blocks \ Live(disk)
      /\ req[t].type \in {"f", "d"} /\ req[t].user \in Users
  BY <1>2, <1>3, CreateKnows
<1>5. InodeBlock(NewInode(req[t].type, req[t].user)) \in Content
  BY <1>4, NewInodeType, ContentTypes
<1>6. WritesUnused
  BY <1>1, <1>3, <1>4, <1>5 DEF WritesUnused, Written
<1>7. UNCHANGED NS!vars /\ PathsTo(disk') = PathsTo(disk) /\ PathsStay(disk, disk')
  BY <1>1, <1>3, <1>6, WritesOutside
<1>8. Placed(t)'
  BY <1>1, <1>3, <1>7 DEF Placed, InPlace, Answers, OnTarget, HoldsDir, InDirectory
<1> QED
  BY <1>7, <1>8 DEF DoesNamespaceStep

(* The whole path leads through its parent. *)
LEMMA WholePath ==
  ASSUME NEW r \in Request, r.path # << >>
  PROVE  LET k == Len(r.path)
         IN  /\ k \in Nat \ {0} /\ Last(r.path) = r.path[k] /\ Last(r.path) \in Names
             /\ SubSeq(r.path, 1, k) = r.path
             /\ Append(SubSeq(r.path, 1, k - 1), Last(r.path)) = r.path
             /\ NS!Parent(r.path) = SubSeq(r.path, 1, k - 1)
<1>1. r.path \in Seq(Names) /\ Len(r.path) \in Nat \ {0} /\ Len(r.path) \in 1 .. Len(r.path)
  BY DEF Request
<1>2. Last(r.path) = r.path[Len(r.path)] /\ r.path[Len(r.path)] \in Names
  BY <1>1 DEF Last
<1>3. SubSeq(r.path, 1, Len(r.path)) = r.path
  BY <1>1
<1>4. Append(SubSeq(r.path, 1, Len(r.path) - 1), r.path[Len(r.path)]) = SubSeq(r.path, 1, Len(r.path))
  BY <1>1, PrefixAppend
<1> QED
  BY <1>1, <1>2, <1>3, <1>4 DEF NS!Parent

(* The write that adds the entry is the create. *)
LEMMA AddingCreates ==
  ASSUME RInv, IInv', NEW t \in Threads, pc[t] \in {"write_folder", "write_parent"}, AddsEntry(t),
         OthersUnchanged(t), req' = req, frame'[t].ret = "ok", frame'[t].buf = Zero
  PROVE  NS!Next /\ PathsStay(disk, disk')
<1> DEFINE D == args[t].disk_block
           r == req[t]
           n == frame[t].new_block
           k == Len(r.path)
           p == PlaceAt(r.path, k - 1, D)
           name == Last(r.path)
<1>1. /\ IInv /\ SoundDisk(disk) /\ disk \in [Blocks -> Content]
      /\ InPlace(pc[t], req[t], args[t], frame[t], disk)
      /\ Locals(pc[t], req[t], args[t], frame[t]) /\ req[t] \in Request /\ StepShape(t)
  BY RInvParts, IInvParts
<1>2. SoundDisk(disk') /\ disk' \in [Blocks -> Content]
  BY DEF IInv, LockInv, TypeInv, TypeOK
<1>3. pc[t] \in Created /\ pc[t] # "idle" /\ pc[t] \notin Decided
  BY DEF Created, Decided
<1>4. frame[t].path_index = k /\ r.path # << >>
  BY <1>1, <1>3 DEF Locals, AtLastName, StepShape, OutOfWalk
<1>5. p \in PathsTo(disk)
  BY <1>1, <1>4 DEF InPlace, HoldsDir, InDirectory
<1>6. /\ D \in LiveInodes(disk) /\ IsDir(disk, D) /\ AsInode(disk[D]).owner \in {NoUser, r.user}
      /\ r.op = "create" /\ r.type \in {"f", "d"} /\ r.user \in Users
      /\ n \in Blocks \ Live(disk)
  BY <1>1, <1>3, CreateKnows
<1>7. /\ SameBut(disk, disk', D) /\ SameNode(disk, disk', D)
      /\ disk'[n] = InodeBlock(NewInode(r.type, r.user))
      /\ Listed(disk', D) = Listed(disk, D) \cup {[name |-> name, inode_block |-> n]}
  BY DEF AddsEntry
<1>8. n \in Blocks \ LiveInodes(disk)
  BY <1>6 DEF Live
<1>9. /\ Append(SubSeq(r.path, 1, k - 1), name) = r.path
      /\ NS!Parent(r.path) = SubSeq(r.path, 1, k - 1)
  BY <1>1, <1>4, WholePath
<1>10. p.block = D /\ p.path = NS!Parent(r.path) /\ Append(p.path, name) = r.path
  BY <1>9 DEF PlaceAt
<1> HIDE DEF p
<1>11. /\ PathsTo(disk') = PathsTo(disk) \cup {At(p, name, n)}
       /\ r.path \notin DOMAIN TreeOf(disk)
       /\ TreeOf(disk') = TreeWith(TreeOf(disk), r.path,
                                   [type |-> r.type, owner |-> r.user, data |-> << >>])
  <2>1. /\ disk \in [Blocks -> Content] /\ disk' \in [Blocks -> Content]
        /\ SoundDisk(disk) /\ SoundDisk(disk') /\ p \in PathsTo(disk)
        /\ IsDir(disk, p.block) /\ SameBut(disk, disk', p.block) /\ SameNode(disk, disk', p.block)
        /\ n \in Blocks \ LiveInodes(disk)
        /\ Listed(disk', p.block) = Listed(disk, p.block) \cup {[name |-> name, inode_block |-> n]}
        /\ r.type \in {"f", "d"} /\ r.user \in Users
        /\ disk'[n] = InodeBlock(NewInode(r.type, r.user))
    BY <1>1, <1>2, <1>5, <1>6, <1>7, <1>8, <1>10
  <2> HIDE DEF n, r, name
  <2>2. LET path == Append(p.path, name)
        IN  /\ PathsTo(disk') = PathsTo(disk) \cup {At(p, name, n)}
            /\ path \notin DOMAIN TreeOf(disk)
            /\ TreeOf(disk') = TreeWith(TreeOf(disk), path,
                                        [type |-> r.type, owner |-> r.user, data |-> << >>])
    BY ONLY <2>1, TreeCreated
  <2> QED
    BY <1>10, <2>2
<1>12. NS!CanCreate(r)
  <2>1. /\ p.path \in DOMAIN TreeOf(disk) /\ TreeOf(disk)[p.path].type = "d"
        /\ TreeOf(disk)[p.path].owner \in {NoUser, r.user}
    BY <1>1, <1>5, <1>6, <1>10, FileAt DEF IsDir
  <2> QED
    BY <1>4, <1>6, <1>10, <1>11, <2>1 DEF NS!CanCreate, NS!Exists
<1>13. NS!Answer(t, NS!Success(Zero))
  BY <1>3, NSAnswer DEF NS!Success
<1>14. NS!Create(t, r)
  BY <1>6, <1>11, <1>12, <1>13 DEF NS!Create, NS!Node, TreeWith
<1> QED
  BY <1>11, <1>14 DEF NS!Next, PathsStay

(* A thread stays in its place through a step that moves it nowhere else.   *)
LEMMA StaysInPlace ==
  ASSUME RInv, IInv', NEW u \in Threads, PathsStay(disk, disk'), req'[u] = req[u],
         HoldsDir(pc'[u], req[u]) =>
           /\ HoldsDir(pc[u], req[u]) /\ args'[u].disk_block = args[u].disk_block
           /\ frame'[u].path_index = frame[u].path_index,
         pc'[u] \in OnTarget => pc[u] \in OnTarget /\ frame'[u].target = frame[u].target
  PROVE  InPlace(pc'[u], req'[u], args'[u], frame'[u], disk')
<1>1. InPlace(pc[u], req[u], args[u], frame[u], disk)
  BY RInvParts
<1>2. Knows(pc'[u], req'[u], args'[u], frame'[u], disk')
  BY DEF IInv
<1>3. HoldsDir(pc'[u], req'[u]) => args'[u].disk_block \in LiveInodes(disk')
  BY <1>2 DEF Knows, KnowsDir
<1>4. pc'[u] \in OnTarget => frame'[u].target \in LiveInodes(disk')
  BY <1>2 DEF Knows, KnowsTarget
<1>5. \A path, k, b : PlaceAt(path, k, b).block = b
  BY DEF PlaceAt
<1>6. ASSUME HoldsDir(pc'[u], req'[u])
      PROVE  PlaceAt(req'[u].path, frame'[u].path_index - 1, args'[u].disk_block) \in PathsTo(disk')
  <2>1. PlaceAt(req[u].path, frame[u].path_index - 1, args[u].disk_block) \in PathsTo(disk)
    BY <1>1, <1>6 DEF InPlace
  <2>2. /\ PlaceAt(req'[u].path, frame'[u].path_index - 1, args'[u].disk_block) \in PathsTo(disk)
        /\ args'[u].disk_block \in LiveInodes(disk')
    BY <1>3, <1>6, <2>1
  <2> QED
    BY <1>5, <2>2 DEF PathsStay
<1>7. ASSUME pc'[u] \in OnTarget
      PROVE  PlaceAt(req'[u].path, Len(req'[u].path), frame'[u].target) \in PathsTo(disk')
  <2>1. PlaceAt(req[u].path, Len(req[u].path), frame[u].target) \in PathsTo(disk)
    BY <1>1, <1>7 DEF InPlace
  <2>2. /\ PlaceAt(req'[u].path, Len(req'[u].path), frame'[u].target) \in PathsTo(disk)
        /\ frame'[u].target \in LiveInodes(disk')
    BY <1>4, <1>7, <2>1
  <2> QED
    BY <1>5, <2>2 DEF PathsStay
<1> QED
  BY <1>6, <1>7 DEF InPlace

(* The block of entries is written: the create itself, unless the directory *)
(* has a block more.                                                        *)
LEMMA WriteFolderDoes ==
  ASSUME RInv, IInv', NEW t \in Threads, WriteFolder(t)
  PROVE  DoesNamespaceStep(t)
<1>1. /\ TypeOK /\ pc[t] = "write_folder" /\ req' = req /\ args' = args
      /\ pc'[t] = IF frame[t].grown THEN "write_parent" ELSE "unlock_parent"
      /\ Decide(t, IF frame[t].grown THEN frame[t].ret ELSE "ok")
  BY RInvParts DEF WriteFolder, Goto, TypeOK
<1>2. pc[t] \notin Decided /\ pc[t] # "idle"
  BY <1>1 DEF Decided
<1>3. /\ frame[t].ret = "none" /\ frame[t].buf = Zero /\ OthersUnchanged(t) /\ IInv
      /\ IF frame[t].grown THEN WritesUnused ELSE AddsEntry(t)
  BY <1>2, RInvParts, WriteFolderKeeps DEF Alone
<1>4. /\ frame'[t].ret = IF frame[t].grown THEN "none" ELSE "ok"
      /\ frame'[t].buf = Zero /\ frame'[t].path_index = frame[t].path_index
  BY <1>1, <1>3, DecideEffect DEF Decide, TypeOK
<1>5. (NS!Next \/ UNCHANGED NS!vars) /\ PathsStay(disk, disk')
  <2>1. CASE frame[t].grown
    BY <1>1, <1>3, <1>4, <2>1, WritesOutside
  <2>2. CASE ~frame[t].grown
    BY <1>1, <1>3, <1>4, <2>2, AddingCreates
  <2> QED
    BY <2>1, <2>2
<1>6. Placed(t)'
  <2>1. InPlace(pc'[t], req'[t], args'[t], frame'[t], disk')
    <3>1. HoldsDir(pc[t], req[t]) /\ pc'[t] \notin OnTarget
      BY <1>1 DEF HoldsDir, InDirectory, OnTarget
    <3> QED
      BY <1>1, <1>4, <1>5, <3>1, StaysInPlace
  <2> QED
    BY <1>1, <1>4, <2>1 DEF Placed, Answers
<1> QED
  BY <1>5, <1>6 DEF DoesNamespaceStep

(* The parent's inode is written: the create. *)
LEMMA WriteParentDoes ==
  ASSUME RInv, IInv', NEW t \in Threads, WriteParent(t)
  PROVE  DoesNamespaceStep(t)
<1>1. /\ TypeOK /\ pc[t] = "write_parent" /\ req' = req /\ args' = args
      /\ pc'[t] = "unlock_parent" /\ Decide(t, "ok")
  BY RInvParts DEF WriteParent, Goto, TypeOK
<1>2. pc[t] \notin Decided /\ pc[t] # "idle"
  BY <1>1 DEF Decided
<1>3. frame[t].buf = Zero /\ OthersUnchanged(t) /\ AddsEntry(t)
  BY <1>2, RInvParts, WriteParentKeeps DEF Alone
<1>4. /\ frame'[t].ret = "ok" /\ frame'[t].buf = Zero
      /\ frame'[t].path_index = frame[t].path_index
  BY <1>1, <1>3, DecideEffect DEF Decide, TypeOK
<1>5. NS!Next /\ PathsStay(disk, disk')
  BY <1>1, <1>3, <1>4, AddingCreates
<1>6. Placed(t)'
  <2>1. InPlace(pc'[t], req'[t], args'[t], frame'[t], disk')
    <3>1. HoldsDir(pc[t], req[t]) /\ pc'[t] \notin OnTarget
      BY <1>1 DEF HoldsDir, InDirectory, OnTarget
    <3> QED
      BY <1>1, <1>4, <1>5, <3>1, StaysInPlace
  <2> QED
    BY <1>1, <1>4, <2>1 DEF Placed, Answers
<1> QED
  BY <1>5, <1>6 DEF DoesNamespaceStep

-----------------------------------------------------------------------------
(* The entry's own inode is locked. *)
LEMMA LockTargetDoes ==
  ASSUME RInv, IInv', NEW t \in Threads, LockTarget(t)
  PROVE  DoesNamespaceStep(t)
<1>1. /\ TypeOK /\ pc[t] = "lock_target" /\ disk' = disk /\ req' = req /\ args' = args
      /\ pc'[t] \in {"check_delete", "unlock_dir"}
      /\ frame'[t].target = Entry(t).inode_block /\ frame'[t].path_index = frame[t].path_index
      /\ frame'[t].ret = frame[t].ret /\ frame'[t].buf = frame[t].buf
      /\ InPlace(pc[t], req[t], args[t], frame[t], disk)
      /\ Locals(pc[t], req[t], args[t], frame[t])
  BY RInvParts DEF LockTarget, Goto, TypeOK, Frame
<1>2. pc[t] \notin Decided /\ pc[t] # "idle" /\ pc[t] \in WithEntry
  BY <1>1 DEF Decided, WithEntry, Found
<1>3. frame[t].buf = Zero /\ OthersUnchanged(t) /\ frame[t].path_index = Len(req[t].path)
  BY <1>1, <1>2, RInvParts, LockTargetKeeps DEF Alone, Locals, AtLastName
<1>4. PlaceAt(req'[t].path, Len(req'[t].path), frame'[t].target) \in PathsTo(disk')
  <2>1. PlaceAt(req[t].path, frame[t].path_index, Entry(t).inode_block) \in PathsTo(disk)
    BY <1>2, StepDown
  <2> QED
    BY <1>1, <1>3, <2>1, Zenon
<1>5. HoldsDir(pc[t], req[t])
  BY <1>1 DEF HoldsDir, InDirectory
<1>6. PlaceAt(req'[t].path, frame'[t].path_index - 1, args'[t].disk_block) \in PathsTo(disk')
  BY <1>1, <1>5 DEF InPlace
<1>7. Placed(t)'
  BY <1>1, <1>3, <1>4, <1>6 DEF Placed, InPlace, Answers
<1> QED
  BY <1>1, <1>3, <1>7, Invisible DEF DoesNamespaceStep

(* The inode a thread works on is at its path. *)
LEMMA TargetAt ==
  ASSUME RInv, NEW t \in Threads, pc[t] \in OnTarget
  PROVE  LET m == PlaceAt(req[t].path, Len(req[t].path), frame[t].target)
             path == req[t].path
             n == frame[t].target
         IN  /\ m \in PathsTo(disk) /\ m.path = path /\ m.block = n /\ path # << >>
             /\ n \in Blocks /\ n \in LiveInodes(disk) /\ path \in DOMAIN TreeOf(disk)
             /\ TreeOf(disk)[path].type = AsInode(disk[n]).type
             /\ TreeOf(disk)[path].owner = AsInode(disk[n]).owner
             /\ TreeOf(disk)[path].type # "d" =>
                  Len(TreeOf(disk)[path].data) = Len(AsInode(disk[n]).blocks)
<1> DEFINE m == PlaceAt(req[t].path, Len(req[t].path), frame[t].target)
<1>1. /\ IInv /\ SoundDisk(disk) /\ disk \in [Blocks -> Content] /\ req[t] \in Request
      /\ InPlace(pc[t], req[t], args[t], frame[t], disk) /\ StepShape(t)
  BY RInvParts, IInvParts
<1>2. req[t].path # << >>
  BY <1>1 DEF StepShape, OnTarget, OutOfWalk
<1>3. m.path = req[t].path /\ m.block = frame[t].target
  BY <1>1, <1>2, WholePath DEF PlaceAt
<1>4. m \in PathsTo(disk)
  BY <1>1 DEF InPlace
<1> HIDE DEF m
<1>5. /\ m.path \in DOMAIN TreeOf(disk) /\ m.block \in Blocks /\ m.block \in LiveInodes(disk)
      /\ TreeOf(disk)[m.path].type = AsInode(disk[m.block]).type
      /\ TreeOf(disk)[m.path].owner = AsInode(disk[m.block]).owner
      /\ TreeOf(disk)[m.path].type # "d" =>
           Len(TreeOf(disk)[m.path].data) = Len(AsInode(disk[m.block]).blocks)
  BY <1>1, <1>4, FileAt
<1> QED
  BY <1>2, <1>3, <1>4, <1>5 DEF m

(* A directory is a leaf when it has no entries. *)
LEMMA LeafMeans ==
  ASSUME disk \in [Blocks -> Content], SoundDisk(disk), NEW m \in PathsTo(disk)
  PROVE  NS!IsLeaf(m.path) <=> ChildrenOf(disk, m.block) = {}
<1>1. /\ m \in Place /\ Root \in PathsTo(disk) /\ PathsTo(disk) \subseteq Place
      /\ Below(disk, m) \subseteq PathsTo(disk)
  BY PathsLeast
<1>2. ASSUME ChildrenOf(disk, m.block) # {}
      PROVE  ~NS!IsLeaf(m.path)
  <2>1. PICK q \in Below(disk, m) : TRUE
    BY <1>1, <1>2, BelowMeans
  <2>2. \E s \in Entries(disk, m.block) : q = At(m, Name(disk, m.block, s), Target(disk, m.block, s))
    BY <1>1, <2>1, BelowMeans
  <2>3. PICK s \in Entries(disk, m.block) : q = At(m, Name(disk, m.block, s), Target(disk, m.block, s))
    BY <2>2
  <2>4. q.path = Append(m.path, Name(disk, m.block, s)) /\ q \in PathsTo(disk)
    BY <1>1, <2>1, <2>3 DEF At
  <2>5. m.path \in Seq(Names \cup {NoName}) /\ Name(disk, m.block, s) \in Names \cup {NoName}
    BY <1>1, EntryName DEF Place
  <2>6. q.path # << >> /\ NS!Parent(q.path) = m.path
    BY <2>4, <2>5 DEF NS!Parent
  <2>7. q.path \in DOMAIN TreeOf(disk)
    BY <2>4, TreeDomain
  <2> QED
    BY <2>6, <2>7 DEF NS!IsLeaf
<1>3. ASSUME ~NS!IsLeaf(m.path)
      PROVE  ChildrenOf(disk, m.block) # {}
  <2>1. PICK path \in DOMAIN TreeOf(disk) : path # << >> /\ NS!Parent(path) = m.path
    BY <1>3 DEF NS!IsLeaf
  <2>2. PICK p \in PathsTo(disk) : p.path = path
    BY <2>1, TreeDomain
  <2>3. p.path \in Seq(Names \cup {NoName})
    BY <1>1, <2>2 DEF Place
  <2> DEFINE k == Len(p.path) - 1
  <2>4. k \in 0 .. Len(p.path) /\ k < Len(p.path)
    BY <2>1, <2>2, <2>3
  <2>5. Prefix(p.path, k) = m.path
    BY <2>1, <2>2 DEF Prefix, NS!Parent
  <2> HIDE DEF k
  <2>6. PICK q \in PathsTo(disk) : OnTheWay(disk, p, k, q)
    BY <2>4, PathsDown
  <2>7. q = m
    BY <2>5, <2>6, PathsFacts DEF OnTheWay
  <2>8. IsDir(disk, m.block) /\ \E s \in Entries(disk, m.block) : TRUE
    BY <2>4, <2>6, <2>7 DEF OnTheWay
  <2> QED
    BY <2>8, ChildrenAreTargets
<1> QED
  BY <1>2, <1>3

(* A delete is refused what is not empty or not the user's. *)
LEMMA CheckDeleteDoes ==
  ASSUME RInv, IInv', NEW t \in Threads, CheckDelete(t)
  PROVE  DoesNamespaceStep(t)
<1> DEFINE n == frame[t].target
           r == req[t]
           node == AsInode(disk[n])
           may == MayDelete(node, r.user)
<1>1. /\ TypeOK /\ pc[t] = "check_delete" /\ disk' = disk /\ req' = req /\ args' = args
      /\ pc'[t] = IF may THEN "remove" ELSE "unlock_target"
      /\ frame' = [frame EXCEPT ![t].file = node, ![t].ret = IF may THEN @ ELSE "fail"]
      /\ Locals(pc[t], r, args[t], frame[t]) /\ SoundDisk(disk) /\ disk \in [Blocks -> Content]
      /\ StepShape(t)
  BY RInvParts, IInvParts DEF CheckDelete, Goto, TypeOK
<1> HIDE DEF may
<1>2. /\ pc[t] \notin Decided /\ pc[t] # "idle" /\ pc[t] \in OnTarget /\ r.op = "delete"
      /\ HoldsDir(pc[t], r)
  BY <1>1 DEF Decided, OnTarget, StepShape, HoldsDir, InDirectory
<1>3. frame[t].ret = "none" /\ frame[t].buf = Zero /\ OthersUnchanged(t) /\ frame[t] \in Frame
  BY <1>1, <1>2, RInvParts, CheckDeleteKeeps DEF Alone
<1>4. /\ frame'[t].ret = IF may THEN "none" ELSE "fail"
      /\ frame'[t].buf = Zero /\ frame'[t].path_index = frame[t].path_index
      /\ frame'[t].target = frame[t].target
  BY <1>1, <1>3 DEF TypeOK, Frame
<1>5. PathsStay(disk, disk')
  BY <1>1 DEF PathsStay
<1>6. Placed(t)'
  <2>1. InPlace(pc'[t], req'[t], args'[t], frame'[t], disk')
    BY <1>1, <1>2, <1>4, <1>5, StaysInPlace
  <2> QED
    BY <1>1, <1>4, <2>1 DEF Placed, Answers
<1>7. CASE may
  BY <1>1, <1>3, <1>4, <1>6, <1>7, Invisible DEF DoesNamespaceStep
<1>8. CASE ~may
  <2>1. ~NS!CanDelete(r)
    <3> SUFFICES ASSUME NS!CanDelete(r) PROVE FALSE
      OBVIOUS
    <3> DEFINE m == PlaceAt(r.path, Len(r.path), n)
    <3>1. /\ m \in PathsTo(disk) /\ m.path = r.path /\ m.block = n /\ n \in LiveInodes(disk)
          /\ TreeOf(disk)[r.path].owner = node.owner /\ n \in Blocks
      BY <1>2, TargetAt
    <3>2. node.owner = r.user /\ NS!IsLeaf(r.path)
      BY <3>1 DEF NS!CanDelete
    <3>3. ChildrenOf(disk, n) = {}
      BY <1>1, <3>1, <3>2, LeafMeans
    <3>4. node.type = "d" /\ Len(node.blocks) # 0 /\ Len(node.blocks) \in Nat
      BY <1>1, <1>8, <3>1, <3>2, InodeFacts DEF may, MayDelete
    <3>5. IsDir(disk, n) /\ 1 \in Positions(disk, n)
      BY <3>4 DEF IsDir, Positions
    <3>6. \A i \in Positions(disk, n) : \E s \in Entries(disk, n) : s[1] = i
      BY <1>1, <3>1, <3>5, SoundMeans DEF SoundInode
    <3>7. \E s \in Entries(disk, n) : TRUE
      BY <3>5, <3>6
    <3> QED
      BY <3>3, <3>5, <3>7, ChildrenAreTargets
  <2> QED
    BY <1>1, <1>2, <1>3, <1>4, <1>6, <1>8, <2>1, Fails DEF DoesNamespaceStep
<1> QED
  BY <1>7, <1>8

(* The write that removes the entry is the delete. *)
LEMMA RemoveEntryDoes ==
  ASSUME RInv, IInv', NEW t \in Threads, RemoveEntry(t)
  PROVE  DoesNamespaceStep(t)
<1> DEFINE n == frame[t].target
           r == req[t]
           D == args[t].disk_block
           k == Len(r.path)
           m == PlaceAt(r.path, k, n)
           p == PlaceAt(r.path, k - 1, D)
           l == [name |-> Last(r.path), inode_block |-> n]
<1>1. /\ TypeOK /\ pc[t] = "remove" /\ req' = req /\ args' = args /\ pc'[t] = "release"
      /\ Locals(pc[t], r, args[t], frame[t]) /\ SoundDisk(disk) /\ disk \in [Blocks -> Content]
      /\ StepShape(t) /\ IInv /\ r \in Request /\ InPlace(pc[t], r, args[t], frame[t], disk)
      /\ Knows(pc[t], r, args[t], frame[t], disk)
  BY RInvParts, IInvParts DEF RemoveEntry, Goto, TypeOK, Knows
<1>2. /\ pc[t] \notin Decided /\ pc[t] # "idle" /\ pc[t] \in OnTarget /\ r.op = "delete"
      /\ HoldsDir(pc[t], r) /\ pc[t] \in WithEntry
  BY <1>1 DEF Decided, OnTarget, StepShape, HoldsDir, InDirectory, WithEntry, Found
<1>3. /\ frame[t].ret = "none" /\ frame[t].buf = Zero /\ OthersUnchanged(t) /\ frame[t] \in Frame
      /\ RemovesEntry(t)
  BY <1>1, <1>2, RInvParts, RemoveEntryKeeps DEF Alone
<1>4. /\ frame'[t].ret = "ok" /\ frame'[t].buf = Zero /\ frame'[t].path_index = frame[t].path_index
  <2>1. \E x : frame' = [frame EXCEPT ![t] = [@ EXCEPT !.to_free = x, !.ret = "ok"]]
    BY DEF RemoveEntry
  <2> QED
    BY <1>1, <1>3, <2>1 DEF TypeOK, Frame
<1>5. SoundDisk(disk') /\ disk' \in [Blocks -> Content]
  BY DEF IInv, LockInv, TypeInv, TypeOK
<1>6. frame[t].path_index = k /\ p \in PathsTo(disk)
  BY <1>1, <1>2 DEF Locals, AtLastName, InPlace
<1>7. /\ m \in PathsTo(disk) /\ m.path = r.path /\ m.block = n /\ n \in LiveInodes(disk)
      /\ r.path # << >> /\ r.path \in DOMAIN TreeOf(disk)
      /\ TreeOf(disk)[r.path].owner = AsInode(disk[n]).owner
  BY <1>2, TargetAt
<1>8. Append(p.path, Last(r.path)) = r.path /\ p.block = D
  BY <1>1, <1>7, WholePath DEF PlaceAt
<1>9. IsDir(disk, D)
  BY <1>1, <1>2, EntryIsChild
<1>10. /\ SameBut(disk, disk', D) /\ SameNode(disk, disk', D)
       /\ l \in Listed(disk, D) /\ Listed(disk', D) = Listed(disk, D) \ {l}
       /\ ChildrenOf(disk, n) = {} /\ LiveInodes(disk') = LiveInodes(disk) \ {n}
  BY <1>3 DEF RemovesEntry
<1>11. l.name = Last(r.path) /\ l.inode_block = n
  OBVIOUS
<1> HIDE DEF p, l, m
<1>12. LET w == At(p, l.name, l.inode_block)
       IN  /\ w \in PathsTo(disk) /\ PathsTo(disk') = PathsTo(disk) \ {w}
           /\ TreeOf(disk') = TreeWithout(TreeOf(disk), w.path)
  <2>1. /\ disk \in [Blocks -> Content] /\ disk' \in [Blocks -> Content]
        /\ SoundDisk(disk) /\ SoundDisk(disk') /\ p \in PathsTo(disk)
        /\ IsDir(disk, p.block) /\ SameBut(disk, disk', p.block) /\ SameNode(disk, disk', p.block)
        /\ l \in Listed(disk, p.block) /\ Listed(disk', p.block) = Listed(disk, p.block) \ {l}
        /\ ChildrenOf(disk, l.inode_block) = {}
        /\ LiveInodes(disk') = LiveInodes(disk) \ {l.inode_block}
    BY <1>1, <1>5, <1>6, <1>8, <1>9, <1>10, <1>11
  <2> QED
    BY ONLY <2>1, TreeDeleted
<1>13. /\ PathsTo(disk') = PathsTo(disk) \ {At(p, Last(r.path), n)}
       /\ TreeOf(disk') = TreeWithout(TreeOf(disk), r.path)
  BY <1>8, <1>11, <1>12 DEF At
<1>14. PathsStay(disk, disk')
  BY <1>10, <1>13 DEF PathsStay, At
<1>15. NS!CanDelete(r)
  <2>1. NS!IsLeaf(r.path)
    BY <1>1, <1>7, <1>10, LeafMeans
  <2>2. AsInode(disk[n]).owner = r.user
    BY <1>1 DEF Knows, KnowsTarget, CopyOfTarget, MayDelete
  <2> QED
    BY <1>7, <2>1, <2>2 DEF NS!CanDelete, NS!Exists
<1>16. NS!Answer(t, NS!Success(Zero))
  BY <1>1, <1>2, <1>3, <1>4, NSAnswer DEF NS!Success
<1>17. NS!Delete(t, r)
  BY <1>2, <1>13, <1>15, <1>16 DEF NS!Delete, TreeWithout
<1>18. Placed(t)'
  <2>1. InPlace(pc'[t], req'[t], args'[t], frame'[t], disk')
    <3>1. pc'[t] \notin OnTarget
      BY <1>1 DEF OnTarget
    <3> QED
      BY <1>1, <1>2, <1>4, <1>14, <3>1, StaysInPlace
  <2> QED
    BY <1>1, <1>4, <2>1 DEF Placed, Answers
<1> QED
  BY <1>14, <1>17, <1>18 DEF DoesNamespaceStep, NS!Next

(* Its blocks are freed. *)
LEMMA ReleaseBlocksDoes ==
  ASSUME RInv, IInv', NEW t \in Threads, ReleaseBlocks(t)
  PROVE  DoesNamespaceStep(t)
<1>1. /\ TypeOK /\ pc[t] = "release" /\ pc'[t] = "unlock_target" /\ disk' = disk /\ req' = req
      /\ args' = args /\ frame'[t].path_index = frame[t].path_index
      /\ frame'[t].ret = frame[t].ret /\ frame'[t].buf = frame[t].buf
      /\ Answers(pc[t], req[t], frame[t])
  BY RInvParts DEF ReleaseBlocks, Goto, TypeOK, Frame
<1>2. frame[t].buf = Zero /\ OthersUnchanged(t)
  BY <1>1, RInvParts, ReleaseBlocksKeeps DEF Alone, Answers
<1>3. PathsStay(disk, disk')
  BY <1>1 DEF PathsStay
<1>4. Placed(t)'
  <2>1. InPlace(pc'[t], req'[t], args'[t], frame'[t], disk')
    <3>1. HoldsDir(pc[t], req[t]) /\ pc'[t] \notin OnTarget
      BY <1>1 DEF HoldsDir, InDirectory, OnTarget
    <3> QED
      BY <1>1, <1>3, <3>1, StaysInPlace
  <2> QED
    BY <1>1, <1>2, <2>1 DEF Placed, Answers
<1> QED
  BY <1>1, <1>2, <1>4, Invisible DEF DoesNamespaceStep

(* The entry's own inode is unlocked. *)
LEMMA UnlockTargetDoes ==
  ASSUME RInv, IInv', NEW t \in Threads, UnlockTarget(t)
  PROVE  DoesNamespaceStep(t)
<1>1. /\ TypeOK /\ pc[t] = "unlock_target" /\ disk' = disk /\ req' = req
      /\ Answers(pc[t], req[t], frame[t])
  BY RInvParts DEF UnlockTarget
<1>2. OthersUnchanged(t) /\ PathsStay(disk, disk')
  BY <1>1, RInvParts, UnlockTargetKeeps DEF Alone, PathsStay
<1>3. CASE req[t].op = "delete"
  <2>1. pc'[t] = "unlock_parent" /\ frame' = frame /\ args' = args
    BY <1>1, <1>3 DEF UnlockTarget, Goto, TypeOK
  <2>2. HoldsDir(pc[t], req[t]) /\ pc'[t] \notin OnTarget
    BY <1>1, <1>3, <2>1 DEF HoldsDir, OnTarget
  <2>3. InPlace(pc'[t], req'[t], args'[t], frame'[t], disk')
    BY <1>1, <1>2, <2>1, <2>2, StaysInPlace
  <2>4. Placed(t)'
    BY <1>1, <1>3, <2>1, <2>3 DEF Placed, Answers
  <2> QED
    BY <1>1, <1>2, <2>1, <2>4, Invisible DEF DoesNamespaceStep
<1>4. CASE req[t].op # "delete"
  <2>1. Return(t, "unlock_target", frame[t].ret, frame[t].buf)
    BY <1>4 DEF UnlockTarget
  <2>2. pc'[t] = "reply" /\ frame'[t].ret = frame[t].ret /\ frame'[t].buf = frame[t].buf
    BY <1>1, <2>1 DEF Return, Goto, NoFrame, TypeOK
  <2>3. Placed(t)'
    BY <1>1, <2>2 DEF Placed, InPlace, Answers, OnTarget, HoldsDir, InDirectory
  <2> QED
    BY <1>1, <1>2, <2>2, <2>3, Invisible DEF DoesNamespaceStep
<1> QED
  BY <1>3, <1>4

-----------------------------------------------------------------------------
(* A thread that has opened its file finds it in the tree. *)
LEMMA FileIsOwn ==
  ASSUME RInv, NEW t \in Threads, pc[t] \in OnFile
  PROVE  LET n == frame[t].target
             data == TreeOf(disk)[req[t].path].data
         IN  /\ NS!OwnFile(req[t]) /\ n \in Blocks /\ n \in LiveInodes(disk) /\ ~IsDir(disk, n)
             /\ Len(data) = Len(AsInode(disk[n]).blocks) /\ Len(data) \in Nat
             /\ Len(data) <= FS_MAXFILEBLOCKS
             /\ CopyOfTarget(pc[t], frame[t], disk)
<1> DEFINE n == frame[t].target
           path == req[t].path
<1>1. IInv /\ SoundDisk(disk) /\ disk \in [Blocks -> Content] /\ pc[t] \in OnTarget
  BY RInvParts DEF OnFile, OnTarget
<1>2. /\ n \in LiveInodes(disk) /\ n \in Blocks /\ CopyOfTarget(pc[t], frame[t], disk)
      /\ MayAccess(frame[t].file, req[t].user) /\ ~IsDir(disk, n)
  BY <1>1, AccessKnows DEF OnFile
<1>3. /\ path # << >> /\ path \in DOMAIN TreeOf(disk)
      /\ TreeOf(disk)[path].type = AsInode(disk[n]).type
      /\ TreeOf(disk)[path].owner = AsInode(disk[n]).owner
      /\ TreeOf(disk)[path].type # "d" => Len(TreeOf(disk)[path].data) = Len(AsInode(disk[n]).blocks)
  BY <1>1, TargetAt
<1>4. frame[t].file.owner = AsInode(disk[n]).owner /\ frame[t].file.type = AsInode(disk[n]).type
  BY <1>2 DEF CopyOfTarget
<1>5. TreeOf(disk)[path].type = "f" /\ TreeOf(disk)[path].owner = req[t].user
  BY <1>1, <1>2, <1>3, <1>4, InodeFacts DEF MayAccess, IsDir
<1>6. Len(TreeOf(disk)[path].data) \in Nat /\ Len(TreeOf(disk)[path].data) <= FS_MAXFILEBLOCKS
  BY <1>1, <1>3, <1>5, FilesAreShort
<1> QED
  BY <1>2, <1>3, <1>5, <1>6 DEF NS!OwnFile, NS!Exists

(* The directory is unlocked. *)
LEMMA UnlockDirDoes ==
  ASSUME RInv, IInv', NEW t \in Threads, UnlockDir(t)
  PROVE  DoesNamespaceStep(t)
<1>1. /\ TypeOK /\ pc[t] = "unlock_dir" /\ pc'[t] = "open" /\ disk' = disk /\ req' = req
      /\ args' = args /\ frame' = frame /\ Answers(pc[t], req[t], frame[t])
  BY RInvParts DEF UnlockDir, Goto, TypeOK
<1>2. OthersUnchanged(t) /\ PathsStay(disk, disk') /\ frame[t].buf = Zero
  BY <1>1, RInvParts, UnlockDirKeeps DEF Alone, PathsStay, Answers
<1>3. InPlace(pc'[t], req'[t], args'[t], frame'[t], disk')
  <2>1. ~HoldsDir(pc'[t], req[t]) /\ pc[t] \in OnTarget
    BY <1>1 DEF HoldsDir, InDirectory, OnTarget
  <2> QED
    BY <1>1, <1>2, <2>1, StaysInPlace
<1>4. Placed(t)'
  BY <1>1, <1>2, <1>3 DEF Placed, Answers
<1> QED
  BY <1>1, <1>2, <1>4, Invisible DEF DoesNamespaceStep

(* The file is opened, or the access refused. *)
LEMMA OpenFileDoes ==
  ASSUME RInv, IInv', NEW t \in Threads, OpenFile(t)
  PROVE  DoesNamespaceStep(t)
<1> DEFINE n == frame[t].target
           r == req[t]
           file == AsInode(disk[n])
           next == AfterOpen(r, file)
<1>1. /\ TypeOK /\ pc[t] = "open" /\ pc'[t] = next /\ disk' = disk /\ req' = req /\ args' = args
      /\ frame' = [frame EXCEPT ![t].file = file,
                                ![t].ret = IF next = "unlock_target" THEN "fail" ELSE @]
      /\ Locals(pc[t], r, args[t], frame[t]) /\ SoundDisk(disk) /\ disk \in [Blocks -> Content]
      /\ r \in Request
  BY RInvParts DEF OpenFile, Goto, TypeOK
<1> HIDE DEF next
<1>2. /\ pc[t] \notin Decided /\ pc[t] # "idle" /\ pc[t] \in OnTarget /\ r.op \in {"read", "write"}
  BY <1>1 DEF Decided, OnTarget, Locals
<1>3. frame[t].ret = "none" /\ frame[t].buf = Zero /\ OthersUnchanged(t) /\ frame[t] \in Frame
  BY <1>1, <1>2, RInvParts, OpenFileKeeps DEF Alone
<1>4. /\ frame'[t].ret = IF next = "unlock_target" THEN "fail" ELSE "none"
      /\ frame'[t].buf = Zero /\ frame'[t].target = n
  BY <1>1, <1>3 DEF TypeOK, Frame
<1>5. PathsStay(disk, disk')
  BY <1>1 DEF PathsStay
<1>6. next \in {"unlock_target", "read_data", "write_data", "extend"}
  BY DEF next, AfterOpen
<1>7. Placed(t)'
  <2>1. ~HoldsDir(pc'[t], req[t])
    BY <1>1, <1>2, <1>6 DEF HoldsDir, InDirectory
  <2>2. InPlace(pc'[t], req'[t], args'[t], frame'[t], disk')
    BY <1>1, <1>2, <1>4, <1>5, <2>1, StaysInPlace
  <2> QED
    BY <1>1, <1>4, <1>6, <2>2 DEF Placed, Answers
<1>8. CASE next # "unlock_target"
  BY <1>1, <1>3, <1>4, <1>7, <1>8, Invisible DEF DoesNamespaceStep
<1>9. CASE next = "unlock_target"
  <2>1. /\ TreeOf(disk)[r.path].type = file.type /\ TreeOf(disk)[r.path].owner = file.owner
        /\ TreeOf(disk)[r.path].type # "d" => Len(TreeOf(disk)[r.path].data) = Len(file.blocks)
        /\ n \in Blocks
    BY <1>2, TargetAt
  <2>2. Len(file.blocks) \in Nat /\ r.block \in Nat
    BY <1>1, <2>1, InodeFacts DEF Request
  <2>3. \/ ~MayAccess(file, r.user)
        \/ ~(r.block < Len(file.blocks)) /\ ~(r.op = "write" /\ r.block = Len(file.blocks))
    BY <1>9 DEF next, AfterOpen
  <2> HIDE DEF file
  <2>4. NS!OwnFile(r) => /\ MayAccess(file, r.user)
                         /\ Len(TreeOf(disk)[r.path].data) = Len(file.blocks)
    BY <2>1 DEF NS!OwnFile, MayAccess
  <2>5. r.op = "read" => ~NS!CanRead(r)
    BY <2>3, <2>4 DEF NS!CanRead
  <2>6. r.op = "write" => ~NS!CanWrite(r)
    BY <2>3, <2>4 DEF NS!CanWrite, NS!CanRead, NS!Extends
  <2> QED
    BY <1>1, <1>2, <1>3, <1>4, <1>7, <1>9, <2>5, <2>6, Fails DEF DoesNamespaceStep
<1> QED
  BY <1>8, <1>9

(* The block of the file that is read or overwritten. *)
LEMMA FileBlockIs ==
  ASSUME RInv, NEW t \in Threads, pc[t] \in {"read_data", "write_data"}
  PROVE  /\ req[t].block + 1 \in Positions(disk, frame[t].target)
         /\ FileBlock(t) = Block(disk, frame[t].target, req[t].block + 1)
         /\ NS!CanRead(req[t]) /\ NS!CanWrite(req[t]) /\ req[t].block \in Nat
<1>1. /\ IInv /\ disk \in [Blocks -> Content] /\ req[t] \in Request /\ pc[t] \in OnFile
      /\ KnowsTarget(pc[t], req[t], args[t], frame[t], disk)
  BY RInvParts, IInvParts DEF OnFile
<1>2. /\ NS!OwnFile(req[t]) /\ frame[t].target \in Blocks
      /\ Len(TreeOf(disk)[req[t].path].data) = Len(AsInode(disk[frame[t].target]).blocks)
      /\ Len(TreeOf(disk)[req[t].path].data) \in Nat
      /\ Len(TreeOf(disk)[req[t].path].data) <= FS_MAXFILEBLOCKS
      /\ frame[t].file = AsInode(disk[frame[t].target])
  BY <1>1, FileIsOwn DEF CopyOfTarget
<1>3. req[t].block < Len(frame[t].file.blocks)
  BY <1>1 DEF KnowsTarget
<1>4. req[t].block \in Nat /\ FS_MAXFILEBLOCKS \in Nat
  BY <1>1, LayoutAssumption DEF Request
<1>5. req[t].block + 1 \in Positions(disk, frame[t].target)
  BY <1>2, <1>3, <1>4 DEF Positions
<1>6. FileBlock(t) = Block(disk, frame[t].target, req[t].block + 1)
  BY <1>2 DEF FileBlock, Block
<1>7. NS!CanRead(req[t])
  BY <1>2, <1>3 DEF NS!CanRead
<1> QED
  BY <1>2, <1>3, <1>4, <1>5, <1>6, <1>7 DEF NS!CanWrite

(* The read of the data block is the read. *)
LEMMA ReadDataDoes ==
  ASSUME RInv, IInv', NEW t \in Threads, ReadData(t)
  PROVE  DoesNamespaceStep(t)
<1> DEFINE n == frame[t].target
           r == req[t]
           w == FileBlock(t)
<1>1. /\ TypeOK /\ pc[t] = "read_data" /\ pc'[t] = "unlock_target" /\ disk' = disk /\ req' = req
      /\ args' = args
      /\ frame' = [frame EXCEPT ![t] = [@ EXCEPT !.buf = AsData(disk[w]), !.ret = "ok"]]
      /\ Locals(pc[t], r, args[t], frame[t]) /\ SoundDisk(disk) /\ disk \in [Blocks -> Content]
  BY RInvParts DEF ReadData, Goto, TypeOK
<1> HIDE DEF w
<1>2. /\ pc[t] \notin Decided /\ pc[t] # "idle" /\ pc[t] \in OnTarget /\ pc[t] \in OnFile
      /\ r.op = "read"
  BY <1>1 DEF Decided, OnTarget, OnFile, Locals
<1>3. OthersUnchanged(t) /\ frame[t] \in Frame
  BY <1>1, <1>2, RInvParts, ReadDataKeeps DEF Alone
<1>4. frame'[t].ret = "ok" /\ frame'[t].buf = AsData(disk[w])
  BY <1>1, <1>3 DEF TypeOK, Frame
<1>5. /\ r.block + 1 \in Positions(disk, n) /\ w = Block(disk, n, r.block + 1) /\ NS!CanRead(r)
  BY <1>1, FileBlockIs DEF w
<1>6. TreeOf(disk)[r.path].data[r.block + 1] = AsData(disk[w])
  <2> DEFINE m == PlaceAt(r.path, Len(r.path), n)
  <2>1. m \in PathsTo(disk) /\ m.path = r.path /\ m.block = n
    BY <1>2, TargetAt
  <2> HIDE DEF m
  <2>2. TreeOf(disk)[r.path] = NodeOf(disk, AsInode(disk[n]))
    BY <1>1, <2>1, TreeAt
  <2>3. n \in Blocks /\ ~IsDir(disk, n)
    BY <1>2, FileIsOwn
  <2> QED
    BY <1>1, <1>5, <2>2, <2>3, NodeFields
<1>7. NS!Answer(t, NS!Success(TreeOf(disk)[r.path].data[r.block + 1]))
  <2>1. PICK data : data = TreeOf(disk)[r.path].data[r.block + 1]
    OBVIOUS
  <2>2. /\ RInv /\ IInv' /\ t \in Threads /\ OthersUnchanged(t) /\ req' = req
        /\ pc[t] # "idle" /\ pc[t] \notin Decided
        /\ frame'[t].ret = "ok" /\ frame'[t].buf = data
    BY <1>1, <1>2, <1>3, <1>4, <1>6, <2>1
  <2>3. NS!Answer(t, [ret |-> "ok", buf |-> data])
    BY ONLY <2>2, NSAnswer
  <2> QED
    BY <2>1, <2>3 DEF NS!Success, NS!Answer
<1>8. NS!Read(t, r)
  BY <1>1, <1>2, <1>5, <1>7 DEF NS!Read
<1>9. PathsStay(disk, disk')
  BY <1>1 DEF PathsStay
<1>10. Placed(t)'
  <2>1. InPlace(pc'[t], req'[t], args'[t], frame'[t], disk')
    BY <1>1, <1>2 DEF InPlace, HoldsDir, InDirectory, OnTarget
  <2> QED
    BY <1>1, <1>2, <2>1 DEF Placed, Answers
<1> QED
  BY <1>8, <1>9, <1>10 DEF DoesNamespaceStep, NS!Next

(* The write of a data block of the file is the write. *)
LEMMA WriteDataDoes ==
  ASSUME RInv, IInv', NEW t \in Threads, WriteData(t)
  PROVE  DoesNamespaceStep(t)
<1> DEFINE n == frame[t].target
           r == req[t]
           w == FileBlock(t)
           m == PlaceAt(r.path, Len(r.path), n)
<1>1. /\ TypeOK /\ pc[t] = "write_data" /\ pc'[t] = "unlock_target" /\ req' = req /\ args' = args
      /\ disk' = [disk EXCEPT ![w] = DataBlock(r.data)] /\ Decide(t, "ok")
      /\ Locals(pc[t], r, args[t], frame[t]) /\ SoundDisk(disk) /\ disk \in [Blocks -> Content]
      /\ r \in Request
  BY RInvParts DEF WriteData, Goto, TypeOK, Write
<1> HIDE DEF w
<1>2. /\ pc[t] \notin Decided /\ pc[t] # "idle" /\ pc[t] \in OnTarget /\ pc[t] \in OnFile
      /\ r.op = "write"
  BY <1>1 DEF Decided, OnTarget, OnFile, Locals
<1>3. OthersUnchanged(t) /\ frame[t].buf = Zero
  BY <1>1, <1>2, RInvParts, WriteDataKeeps DEF Alone
<1>4. frame'[t].ret = "ok" /\ frame'[t].buf = Zero
  BY <1>1, <1>3, DecideEffect DEF Decide, TypeOK
<1>5. /\ r.block + 1 \in Positions(disk, n) /\ w = Block(disk, n, r.block + 1) /\ NS!CanWrite(r)
  BY <1>1, FileBlockIs DEF w
<1>6. m \in PathsTo(disk) /\ m.path = r.path /\ m.block = n
  BY <1>2, TargetAt
<1> HIDE DEF m
<1>7. ~IsDir(disk, n) /\ r.data \in Data
  BY <1>1, <1>2, FileIsOwn DEF Request
<1>8. /\ PathsTo(disk') = PathsTo(disk)
      /\ TreeOf(disk') = [TreeOf(disk) EXCEPT ![r.path].data = DataWith(@, r.block + 1, r.data)]
  <2>1. /\ disk \in [Blocks -> Content] /\ SoundDisk(disk) /\ m \in PathsTo(disk)
        /\ ~IsDir(disk, m.block) /\ r.block + 1 \in Positions(disk, m.block) /\ r.data \in Data
    BY <1>1, <1>5, <1>6, <1>7
  <2>2. LET e == Written(disk, Block(disk, m.block, r.block + 1), DataBlock(r.data))
        IN  /\ PathsTo(e) = PathsTo(disk)
            /\ TreeOf(e) = [TreeOf(disk) EXCEPT ![m.path].data = DataWith(@, r.block + 1, r.data)]
    BY ONLY <2>1, TreeWritten
  <2> QED
    BY <1>1, <1>5, <1>6, <2>2 DEF Written
<1>9. NS!Answer(t, NS!Success(Zero))
  BY <1>1, <1>2, <1>3, <1>4, NSAnswer DEF NS!Success
<1>10. NS!Write(t, r)
  BY <1>2, <1>5, <1>8, <1>9 DEF NS!Write, DataWith
<1>11. PathsStay(disk, disk')
  BY <1>8 DEF PathsStay
<1>12. Placed(t)'
  <2>1. InPlace(pc'[t], req'[t], args'[t], frame'[t], disk')
    BY <1>1, <1>2 DEF InPlace, HoldsDir, InDirectory, OnTarget
  <2> QED
    BY <1>1, <1>4, <2>1 DEF Placed, Answers
<1> QED
  BY <1>10, <1>11, <1>12 DEF DoesNamespaceStep, NS!Next

(* A write reserves the file's next block, or fails for the lack of one. *)
LEMMA ExtendFileDoes ==
  ASSUME RInv, IInv', NEW t \in Threads, ExtendFile(t)
  PROVE  DoesNamespaceStep(t)
<1> DEFINE n == frame[t].target
           r == req[t]
           full == NoRoomFor(frame[t].file)
<1>1. /\ TypeOK /\ pc[t] = "extend" /\ disk' = disk /\ req' = req /\ args' = args
      /\ pc'[t] = IF full THEN "unlock_target" ELSE "append_data"
      /\ Locals(pc[t], r, args[t], frame[t])
      /\ IInv /\ KnowsTarget(pc[t], r, args[t], frame[t], disk)
  BY RInvParts, IInvParts DEF ExtendFile, Goto, TypeOK
<1> HIDE DEF full
<1>2. /\ pc[t] \notin Decided /\ pc[t] # "idle" /\ pc[t] \in OnTarget /\ pc[t] \in OnFile
      /\ r.op = "write"
  BY <1>1 DEF Decided, OnTarget, OnFile, Locals
<1>3. OthersUnchanged(t) /\ frame[t].buf = Zero /\ frame[t].ret = "none" /\ frame[t] \in Frame
  BY <1>1, <1>2, RInvParts, ExtendFileKeeps DEF Alone
<1>4. PathsStay(disk, disk')
  BY <1>1 DEF PathsStay
<1>5. CASE full
  <2>1. Decide(t, "fail") /\ pc'[t] = "unlock_target"
    BY <1>1, <1>5 DEF ExtendFile, full
  <2>2. frame'[t].ret = "fail" /\ frame'[t].buf = Zero
    BY <1>1, <1>3, <2>1, DecideEffect DEF Decide, TypeOK
  <2>3. InPlace(pc'[t], req'[t], args'[t], frame'[t], disk')
    BY <1>1, <1>2, <2>1 DEF InPlace, HoldsDir, InDirectory, OnTarget
  <2>4. Placed(t)'
    BY <1>1, <2>1, <2>2, <2>3 DEF Placed, Answers
  <2>5. NS!Extends(r)
    <3>1. /\ NS!OwnFile(r) /\ Len(TreeOf(disk)[r.path].data) = Len(AsInode(disk[n]).blocks)
          /\ frame[t].file = AsInode(disk[n])
      BY <1>1, <1>2, FileIsOwn DEF CopyOfTarget
    <3>2. r.block = Len(frame[t].file.blocks)
      BY <1>1 DEF KnowsTarget
    <3> QED
      BY <3>1, <3>2 DEF NS!Extends
  <2> QED
    BY <1>1, <1>2, <1>3, <2>2, <2>4, <2>5, Fails DEF DoesNamespaceStep
<1>6. CASE ~full
  <2>1. /\ pc'[t] = "append_data"
        /\ frame' = [frame EXCEPT ![t].file.blocks = Append(@, Head(free_blocks))]
    BY <1>1, <1>6 DEF ExtendFile, full
  <2>2. frame'[t].ret = "none" /\ frame'[t].buf = Zero /\ frame'[t].target = n
    BY <1>1, <1>3, <2>1 DEF TypeOK, Frame
  <2>3. InPlace(pc'[t], req'[t], args'[t], frame'[t], disk')
    <3>1. ~HoldsDir(pc'[t], req[t])
      BY <2>1 DEF HoldsDir, InDirectory
    <3> QED
      BY <1>1, <1>2, <1>4, <2>2, <3>1, StaysInPlace
  <2>4. Placed(t)'
    BY <1>1, <2>1, <2>2, <2>3 DEF Placed, Answers
  <2> QED
    BY <1>1, <1>3, <2>2, <2>4, Invisible DEF DoesNamespaceStep
<1> QED
  BY <1>5, <1>6

(* The data is written to the reserved block. *)
LEMMA AppendDataDoes ==
  ASSUME RInv, IInv', NEW t \in Threads, AppendData(t)
  PROVE  DoesNamespaceStep(t)
<1>1. /\ TypeOK /\ pc[t] = "append_data" /\ pc'[t] = "append_inode" /\ req' = req
      /\ args' = args /\ frame' = frame
      /\ disk' = [disk EXCEPT ![FileBlock(t)] = DataBlock(req[t].data)]
      /\ req[t] \in Request /\ IInv /\ disk \in [Blocks -> Content]
  BY RInvParts DEF AppendData, Goto, TypeOK, Write
<1>2. pc[t] \notin Decided /\ pc[t] # "idle" /\ pc[t] \in OnTarget
  BY <1>1 DEF Decided, OnTarget
<1>3. OthersUnchanged(t) /\ frame[t].buf = Zero
  BY <1>1, <1>2, RInvParts, AppendDataKeeps DEF Alone
<1>4. FileBlock(t) \in Blocks \ Live(disk)
  BY <1>1, AppendKnows
<1>5. WritesUnused
  BY <1>1, <1>4, ContentTypes DEF WritesUnused, Written, Request
<1>6. UNCHANGED NS!vars /\ PathsStay(disk, disk')
  BY <1>1, <1>3, <1>5, WritesOutside
<1>7. InPlace(pc'[t], req'[t], args'[t], frame'[t], disk')
  <2>1. ~HoldsDir(pc'[t], req[t])
    BY <1>1 DEF HoldsDir, InDirectory
  <2> QED
    BY <1>1, <1>2, <1>6, <2>1, StaysInPlace
<1>8. Placed(t)'
  BY <1>1, <1>3, <1>7 DEF Placed, Answers
<1> QED
  BY <1>6, <1>8 DEF DoesNamespaceStep

(* The write of the inode that links a new block to the file is the write. *)
LEMMA AppendInodeDoes ==
  ASSUME RInv, IInv', NEW t \in Threads, AppendInode(t)
  PROVE  DoesNamespaceStep(t)
<1> DEFINE n == frame[t].target
           r == req[t]
           z == Last(frame[t].file.blocks)
           inode == frame[t].file
           m == PlaceAt(r.path, Len(r.path), n)
<1>1. /\ TypeOK /\ pc[t] = "append_inode" /\ pc'[t] = "unlock_target" /\ req' = req /\ args' = args
      /\ disk' = [disk EXCEPT ![n] = InodeBlock(inode)] /\ Decide(t, "ok")
      /\ IInv /\ SoundDisk(disk) /\ disk \in [Blocks -> Content] /\ r \in Request
      /\ KnowsReserved(pc[t], r, args[t], frame[t], disk)
      /\ KnowsTarget(pc[t], r, args[t], frame[t], disk)
  BY RInvParts, IInvParts DEF AppendInode, Goto, TypeOK, Write
<1>2. /\ pc[t] \notin Decided /\ pc[t] # "idle" /\ pc[t] \in OnTarget /\ pc[t] \in OnFile
      /\ r.op = "write"
  BY <1>1, AppendKnows DEF Decided, OnTarget, OnFile
<1>3. OthersUnchanged(t) /\ frame[t].buf = Zero
  BY <1>1, <1>2, RInvParts, AppendInodeKeeps DEF Alone
<1>4. frame'[t].ret = "ok" /\ frame'[t].buf = Zero
  BY <1>1, <1>3, DecideEffect DEF Decide, TypeOK
<1>5. /\ ~IsDir(disk, n) /\ inode \in Inode /\ inode.type = AsInode(disk[n]).type
      /\ inode.owner = AsInode(disk[n]).owner
      /\ inode.blocks = Append(AsInode(disk[n]).blocks, z)
      /\ z \in Blocks \ Live(disk)
  BY <1>1, AppendKnows
<1>6. disk[z] = DataBlock(r.data) /\ r.block + 1 = Len(inode.blocks)
  BY <1>1 DEF KnowsReserved, KnowsTarget
<1>7. /\ NS!OwnFile(r) /\ Len(TreeOf(disk)[r.path].data) = Len(AsInode(disk[n]).blocks)
      /\ n \in Blocks
  BY <1>1, <1>2, FileIsOwn
<1>8. NS!CanWrite(r)
  <2>1. /\ AsInode(disk[n]).blocks \in Seq(Blocks) /\ Len(inode.blocks) <= FS_MAXFILEBLOCKS
        /\ Len(inode.blocks) \in Nat /\ FS_MAXFILEBLOCKS \in Nat /\ r.block \in Nat
    BY <1>1, <1>5, <1>7, InodeFacts, LayoutAssumption DEF BlockList, Inode, Request
  <2>2. Len(inode.blocks) = Len(AsInode(disk[n]).blocks) + 1
    BY <1>5, <2>1
  <2>3. r.block = Len(AsInode(disk[n]).blocks) /\ r.block < FS_MAXFILEBLOCKS
    BY <1>6, <2>1, <2>2
  <2> QED
    BY <1>7, <2>3 DEF NS!CanWrite, NS!Extends
<1>9. m \in PathsTo(disk) /\ m.path = r.path /\ m.block = n
  BY <1>2, TargetAt
<1> HIDE DEF m, z, inode
<1>10. /\ PathsTo(disk') = PathsTo(disk)
       /\ TreeOf(disk') = [TreeOf(disk) EXCEPT ![r.path].data = DataWith(@, r.block + 1, r.data)]
  <2>1. /\ disk \in [Blocks -> Content] /\ SoundDisk(disk) /\ m \in PathsTo(disk)
        /\ ~IsDir(disk, m.block) /\ z \in Blocks \ Live(disk) /\ r.data \in Data
        /\ disk[z] = DataBlock(r.data) /\ inode \in Inode
        /\ inode.type = AsInode(disk[m.block]).type /\ inode.owner = AsInode(disk[m.block]).owner
        /\ inode.blocks = Append(AsInode(disk[m.block]).blocks, z)
    BY <1>1, <1>5, <1>6, <1>9 DEF Request
  <2>2. LET e == Written(disk, m.block, InodeBlock(inode))
        IN  /\ PathsTo(e) = PathsTo(disk)
            /\ TreeOf(e) = [TreeOf(disk) EXCEPT ![m.path].data =
                              DataWith(@, Len(inode.blocks), r.data)]
    BY ONLY <2>1, TreeExtended
  <2> QED
    BY <1>1, <1>6, <1>9, <2>2 DEF Written
<1>11. NS!Answer(t, NS!Success(Zero))
  BY <1>1, <1>2, <1>3, <1>4, NSAnswer DEF NS!Success
<1>12. NS!Write(t, r)
  BY <1>2, <1>8, <1>10, <1>11 DEF NS!Write, DataWith
<1>13. PathsStay(disk, disk')
  BY <1>10 DEF PathsStay
<1>14. Placed(t)'
  <2>1. InPlace(pc'[t], req'[t], args'[t], frame'[t], disk')
    BY <1>1, <1>2 DEF InPlace, HoldsDir, InDirectory, OnTarget
  <2> QED
    BY <1>1, <1>4, <2>1 DEF Placed, Answers
<1> QED
  BY <1>12, <1>13, <1>14 DEF DoesNamespaceStep, NS!Next

-----------------------------------------------------------------------------
(* Every step of a thread is one of the lemmas above. *)
LEMMA ThreadDoes ==
  ASSUME RInv, IInv', NEW t \in Threads, Accept(t) \/ Handle(t)
  PROVE  DoesNamespaceStep(t)
<1>1. CASE Accept(t)
  BY <1>1, AcceptDoes
<1>2. CASE Handle(t)
  <2>1. CASE Begin(t)
    BY <2>1, BeginCreateDoes, BeginDeleteDoes, BeginAccessDoes DEF Begin
  <2>2. CASE Walk(t)
    BY <2>2, LockRootDoes, SearchDoes, LockNextDoes, UnlockLastDoes DEF Walk
  <2>3. CASE CreateEntry(t)
    BY <2>3, ReuseFolderDoes, CannotGrowDoes, GrowDirectoryDoes, WriteNewInodeDoes,
       WriteFolderDoes, WriteParentDoes DEF CreateEntry
  <2>4. CASE DeleteEntry(t)
    BY <2>4, CheckDeleteDoes, RemoveEntryDoes, ReleaseBlocksDoes DEF DeleteEntry
  <2>5. CASE AccessEntry(t)
    BY <2>5, UnlockDirDoes, OpenFileDoes, ReadDataDoes, WriteDataDoes, ExtendFileDoes,
       AppendDataDoes, AppendInodeDoes DEF AccessEntry
  <2>6. CASE LockTarget(t) \/ UnlockTarget(t) \/ UnlockParent(t) \/ Reply(t)
    BY <2>6, LockTargetDoes, UnlockTargetDoes, UnlockParentDoes, ReplyDoes
  <2> QED
    BY <1>2, <2>1, <2>2, <2>3, <2>4, <2>5, <2>6 DEF Handle
<1> QED
  BY <1>1, <1>2

(* The first state is one of Namespace: the tree is the one on the disk.  *)
LEMMA InitRInv == Init => RInv /\ NS!Init
<1> SUFFICES ASSUME Init PROVE RInv /\ NS!Init
  OBVIOUS
<1>1. IInv
  BY InitIInv
<1>2. NoFrame.buf = Zero /\ NoFrame.ret = "none"
  BY DEF NoFrame
<1>3. ASSUME NEW t \in Threads
      PROVE  pc[t] = "idle" /\ req[t] = NoRequest /\ frame[t] = NoFrame
  BY DEF Init
<1>4. WalksItsPath
  BY <1>3 DEF WalksItsPath, InPlace, HoldsDir, InDirectory, OnTarget
<1>5. \A t \in Threads : Answers(pc[t], req[t], frame[t])
  BY <1>2, <1>3 DEF Answers
<1>6. [t \in Threads |-> [ret |-> frame[t].ret, buf |-> frame[t].buf]]
        = [t \in Threads |-> NS!Undecided]
  BY <1>2, <1>3 DEF NS!Undecided
<1>7. NS!Init
  BY <1>6 DEF NS!Init, Init
<1> QED
  BY <1>1, <1>4, <1>5, <1>7 DEF RInv

(* Every step of the server is one of Namespace or invisible in it. *)
LEMMA NextRInv == RInv /\ [Next]_vars => RInv' /\ [NS!Next]_(NS!vars)
<1> SUFFICES ASSUME RInv, [Next]_vars PROVE RInv' /\ [NS!Next]_(NS!vars)
  OBVIOUS
<1>1. IInv /\ IInv'
  BY NextIInv DEF RInv
<1>2. ASSUME \A t \in Threads : Placed(t)' PROVE RInv'
  BY <1>1, <1>2 DEF RInv, WalksItsPath, Placed
<1>3. ASSUME disk' = disk, pc' = pc, req' = req, args' = args, frame' = frame
      PROVE  RInv' /\ [NS!Next]_(NS!vars)
  <2>1. \A t \in Threads : Placed(t)'
    BY <1>3 DEF RInv, WalksItsPath, Placed
  <2>2. UNCHANGED NS!vars
    BY <1>3 DEF NS!vars
  <2> QED
    BY <1>2, <2>1, <2>2
<1>4. CASE Boot \/ UNCHANGED vars
  BY <1>3, <1>4 DEF Boot, vars, locks, server
<1>5. CASE Crash
  <2>1. NoFrame.buf = Zero /\ NoFrame.ret = "none"
    BY DEF NoFrame
  <2>2. /\ disk' = disk /\ req' = [t \in Threads |-> NoRequest]
        /\ frame' = [t \in Threads |-> NoFrame]
        /\ \A t \in Threads : pc'[t] = "idle" /\ req'[t] = NoRequest /\ frame'[t] = NoFrame
    BY <1>5 DEF Crash
  <2>3. \A t \in Threads : Placed(t)'
    BY <2>1, <2>2 DEF Placed, InPlace, Answers, HoldsDir, InDirectory, OnTarget
  <2>4. [t \in Threads |-> [ret |-> frame'[t].ret, buf |-> frame'[t].buf]]
          = [t \in Threads |-> NS!Undecided]
    BY <2>1, <2>2 DEF NS!Undecided
  <2>5. NS!Crash
    BY <2>2, <2>4 DEF NS!Crash
  <2> QED
    BY <1>2, <2>3, <2>5 DEF NS!Next
<1>6. ASSUME NEW t \in Threads, Accept(t) \/ Handle(t)
      PROVE  RInv' /\ [NS!Next]_(NS!vars)
  <2>1. OthersUnchanged(t)
    BY <1>1, <1>6, ThreadKeeps
  <2>2. DoesNamespaceStep(t)
    BY <1>1, <1>6, ThreadDoes
  <2>3. ASSUME NEW u \in Threads \ {t} PROVE Placed(u)'
    <3>1. pc'[u] = pc[u] /\ req'[u] = req[u] /\ args'[u] = args[u] /\ frame'[u] = frame[u]
      BY <2>1 DEF OthersUnchanged
    <3>2. PathsStay(disk, disk') /\ Answers(pc[u], req[u], frame[u])
      BY <2>2 DEF DoesNamespaceStep, RInv
    <3>3. InPlace(pc'[u], req'[u], args'[u], frame'[u], disk')
      BY <1>1, <3>1, <3>2, StaysInPlace
    <3> QED
      BY <3>1, <3>2, <3>3 DEF Placed
  <2> QED
    BY <1>2, <2>2, <2>3 DEF DoesNamespaceStep
<1> QED
  BY <1>4, <1>5, <1>6 DEF Next, Idle

(* A thread that walks hand over hand is where its path leads, whatever the  *)
(* others delete and create on the way behind it.                           *)
THEOREM WalksStayInPlace == Spec => []WalksItsPath
<1>1. Init => RInv
  BY InitRInv
<1>2. RInv /\ [Next]_vars => RInv'
  BY NextRInv
<1>3. RInv => WalksItsPath
  BY DEF RInv
<1> QED
  BY <1>1, <1>2, <1>3, PTL DEF Spec

(* Requests are linearizable, and a crash leaves each done or not begun: the *)
(* server implements Namespace for every disk, thread and request.          *)
THEOREM ImplementsTree == Spec => ImplementsNamespace
<1>1. Init => RInv /\ NS!Init
  BY InitRInv
<1>2. RInv /\ [Next]_vars => RInv' /\ [NS!Next]_(NS!vars)
  BY NextRInv
<1> QED
  BY <1>1, <1>2, PTL DEF Spec, ImplementsNamespace, NS!Spec
=============================================================================
