------------------------------ MODULE Filesystem ------------------------------
(***************************************************************************)
(* The file server's concurrent core (filesystem.cc).  Each accepted        *)
(* connection is a thread that handles one request and ends; threads share  *)
(* the disk, the free list guarded by internal_lock, and one read-write     *)
(* lock per disk block that guards the inode stored there.                  *)
(*                                                                         *)
(* A step is one critical section of internal_lock, one lock or unlock of   *)
(* a block lock, one disk write, or the disk reads made under one lock.     *)
(***************************************************************************)
EXTENDS DiskLayout, SequencesExt

CONSTANTS
  Threads,       \* request handler threads that may be alive at one time
  Requests,      \* requests that pass the session check of handle_request
  InitDisk,      \* the disk before the first start
  MaxRequests,   \* bound on accepted connections
  MaxCrashes     \* bound on server crashes

FileTypes == {"f", "d", "other"}
Ops       == {"create", "delete", "read", "write"}

(* The argument vector after split_request.  path holds the components of   *)
(* the pathname, and is empty when the pathname is malformed.  Arguments    *)
(* the operation does not have are ignored.                                 *)
Request == [op : Ops \cup {"none"}, user : Users \cup {NoUser}, path : Seq(Names),
            type : FileTypes, block : Nat, data : Data]

NoRequest == [op |-> "none", user |-> NoUser, path |-> << >>,
              type |-> "other", block |-> 0, data |-> Zero]

ASSUME ServerAssumption ==
  /\ InitDisk \in [Blocks -> Content]
  /\ Requests \subseteq {r \in Request : r.op \in Ops /\ r.user \in Users}
  /\ MaxRequests \in Nat
  /\ MaxCrashes \in Nat

(* The first server starts from a disk as createfs or an earlier server     *)
(* leaves it.                                                               *)
ASSUME DiskAssumption == SoundDisk(InitDisk)

VARIABLES
  disk,          \* the contents of every block
  free_blocks,   \* the deque of free block numbers
  rdlock,        \* block_lock[b]: the threads that hold it to read
  wrlock,        \* block_lock[b]: the threads that hold it to write
  boot,          \* the constructor's loop counter; FS_DISKSIZE when it is done
  pc,            \* the next step of each thread
  req,           \* the request a thread handles
  args,          \* struct recurse_args of each thread
  frame,         \* the other locals of the handlers
  accepted, crashes   \* connections accepted and crashes so far

vars == <<disk, free_blocks, rdlock, wrlock, boot, pc, req, args, frame, accepted, crashes>>
locks  == <<rdlock, wrlock>>
server == <<boot, accepted, crashes>>

Steps == {"idle", "begin", "lock_root", "search", "lock_next", "unlock_last",
          "grow", "write_inode", "write_folder", "write_parent", "unlock_parent",
          "lock_target", "check_delete", "remove", "release",
          "unlock_dir", "open", "read_data", "write_data",
          "extend", "append_data", "append_inode", "unlock_target", "reply"}

NoArgs == [inode |-> NewInode("f", NoUser), disk_block |-> 0,
           blocks_index |-> 1, folders |-> EmptyFolders, folder_index |-> 1]

(* path_index: position in the path; last: old_disk_block, still locked;     *)
(* new_block: new_entry_inode_block; grown: added_new_block; target: the     *)
(* entry's inode block; file: inode_to_delete or file; to_free:              *)
(* blocks_to_free; ret: what the handler will return, once decided; buf: the *)
(* data read for the response.                                               *)
NoFrame == [path_index |-> 1, last |-> 0, new_block |-> 0, grown |-> FALSE, target |-> 0,
            file |-> NewInode("f", NoUser), to_free |-> << >>, ret |-> "none", buf |-> Zero]

Args  == [inode : Inode, disk_block : Blocks, blocks_index : Nat,
          folders : Folders, folder_index : 1 .. FS_DIRENTRIES]
Frame == [path_index : Nat, last : Blocks, new_block : Blocks, grown : BOOLEAN,
          target : Blocks, file : Inode, to_free : Seq(Blocks),
          ret : {"none", "ok", "fail"}, buf : Data]

(* Types.  A list of blocks fits into blocks[], an index into folders[] lies  *)
(* in it, and what create_entry, delete_entry and access_entry write is an   *)
(* inode, a block of entries or data.  An index into blocks[] is only a      *)
(* number here: that it lies in the list of blocks is StepShape's.           *)
TypeOK ==
  /\ disk \in [Blocks -> Content]
  /\ free_blocks \in Seq(Blocks)
  /\ rdlock \in [Blocks -> SUBSET Threads]
  /\ wrlock \in [Blocks -> SUBSET Threads]
  /\ boot \in 0 .. FS_DISKSIZE
  /\ pc \in [Threads -> Steps]
  /\ req \in [Threads -> Request]
  /\ args \in [Threads -> Args]
  /\ frame \in [Threads -> Frame]
  /\ accepted \in 0 .. MaxRequests
  /\ crashes \in 0 .. MaxCrashes

-----------------------------------------------------------------------------
(* pthread_rwlock with the default kind: a reader waits for a writer that   *)
(* holds the lock, and overtakes one that waits for it.                     *)
(*                                                                         *)
(* A definition named Bug... is its successor with a mistake in it.  Nothing *)
(* uses it; putting it in the successor's place must break a property.      *)

MayRead(b)  == wrlock[b] = {}
MayWrite(b) == wrlock[b] = {} /\ rdlock[b] = {}

RdLock(t, b) ==
  /\ MayRead(b)
  /\ rdlock' = [rdlock EXCEPT ![b] = @ \cup {t}]
  /\ UNCHANGED wrlock

WrLock(t, b) ==
  /\ MayWrite(b)
  /\ wrlock' = [wrlock EXCEPT ![b] = @ \cup {t}]
  /\ UNCHANGED rdlock

Unlock(t, b) ==
  /\ rdlock' = [rdlock EXCEPT ![b] = @ \ {t}]
  /\ wrlock' = [wrlock EXCEPT ![b] = @ \ {t}]

-----------------------------------------------------------------------------
(* The tests the handlers make. *)

(* recurse_filesystem_helper: an entry may be looked up in a directory that *)
(* is the root or belongs to the user.                                      *)
BugMayEnter(inode, user) == inode.type # "f"
MayEnter(inode, user) == inode.type # "f" /\ inode.owner \in {NoUser, user}

(* recurse_filesystem_helper: a create wants no such entry, the others one. *)
WantsEntry(op) == op # "create"

(* A walk takes the writer lock of the directory it will change. *)
BugCreateReads(r, i) == i = Len(r.path) /\ r.op = "delete"
BugDeleteReads(r, i) == i = Len(r.path) /\ r.op = "create"
TakesWriteLock(r, i) == i = Len(r.path) /\ r.op \in {"create", "delete"}

(* create_entry: no further block for the parent directory. *)
BugNoRoomFor(inode) == free_blocks = << >>
NoRoomFor(inode) == free_blocks = << >> \/ Len(inode.blocks) = FS_MAXFILEBLOCKS

(* delete_entry: not a directory with blocks, and the user's own. *)
MayDelete(inode, user) == ~(inode.type = "d" /\ Len(inode.blocks) # 0) /\ inode.owner = user

(* delete_entry: the file's blocks and the inode's own. *)
BugBlocksToFree(file, target) == <<target>>
BlocksToFree(file, target) ==
  (IF file.type = "f" THEN file.blocks ELSE << >>) \o <<target>>

(* delete_entry: folder_block_empty. *)
BugFolderBlockEmpty(folders) == FALSE
FolderBlockEmpty(folders) == \A j \in 1 .. FS_DIRENTRIES : folders[j].inode_block = 0

(* access_entry: a file, and the user's own. *)
MayAccess(inode, user) == inode.type # "d" /\ inode.owner = user

-----------------------------------------------------------------------------
Init ==
  /\ disk = InitDisk
  /\ free_blocks = << >>
  /\ rdlock = [b \in Blocks |-> {}]
  /\ wrlock = [b \in Blocks |-> {}]
  /\ boot = 0
  /\ pc = [t \in Threads |-> "idle"]
  /\ req = [t \in Threads |-> NoRequest]
  /\ args = [t \in Threads |-> NoArgs]
  /\ frame = [t \in Threads |-> NoFrame]
  /\ accepted = 0
  /\ crashes = 0

(* The constructor: index the disk, then list the unused blocks in order. *)
Boot ==
  /\ boot < FS_DISKSIZE
  /\ boot' = boot + 1
  /\ free_blocks' = IF boot \in IndexDisk(disk) THEN free_blocks ELSE Append(free_blocks, boot)
  /\ UNCHANGED <<disk, locks, pc, req, args, frame, accepted, crashes>>

(* The process dies, for one when accept fails and main exits under running *)
(* threads: the disk stays, and a new server starts from it.                *)
Crash ==
  /\ crashes < MaxCrashes
  /\ crashes' = crashes + 1
  /\ free_blocks' = << >>
  /\ rdlock' = [b \in Blocks |-> {}]
  /\ wrlock' = [b \in Blocks |-> {}]
  /\ boot' = 0
  /\ pc' = [t \in Threads |-> "idle"]
  /\ req' = [t \in Threads |-> NoRequest]
  /\ args' = [t \in Threads |-> NoArgs]
  /\ frame' = [t \in Threads |-> NoFrame]
  /\ UNCHANGED <<disk, accepted>>

Goto(t, from, to) ==
  /\ pc[t] = from
  /\ pc' = [pc EXCEPT ![t] = to]

Decide(t, ret) == frame' = [frame EXCEPT ![t].ret = ret]

Write(b, content) == disk' = [disk EXCEPT ![b] = content]

(* main accepts a connection and the new thread reads a request. *)
Accept(t) ==
  /\ boot = FS_DISKSIZE
  /\ accepted < MaxRequests
  /\ accepted' = accepted + 1
  /\ Goto(t, "idle", "begin")
  /\ \E r \in Requests : req' = [req EXCEPT ![t] = r]
  /\ UNCHANGED <<disk, free_blocks, locks, boot, args, frame, crashes>>

(* A handler returns: its locals are gone. *)
Return(t, from, ret, buf) ==
  /\ Goto(t, from, "reply")
  /\ args' = [args EXCEPT ![t] = NoArgs]
  /\ frame' = [frame EXCEPT ![t] = [NoFrame EXCEPT !.ret = ret, !.buf = buf]]

(* handle_request sends a response if the handler succeeded, and            *)
(* request_handler closes the connection.                                   *)
Reply(t) ==
  /\ Goto(t, "reply", "idle")
  /\ req' = [req EXCEPT ![t] = NoRequest]
  /\ frame' = [frame EXCEPT ![t] = NoFrame]
  /\ UNCHANGED <<disk, free_blocks, locks, server, args>>
-----------------------------------------------------------------------------
(* create_entry reserves the new entry's inode block before it walks. *)
BeginCreate(t) ==
  /\ pc[t] = "begin" /\ req[t].op = "create"
  /\ IF req[t].type \notin {"f", "d"} \/ free_blocks = << >>
     THEN /\ Return(t, "begin", "fail", Zero)
          /\ UNCHANGED free_blocks
     ELSE /\ Goto(t, "begin", "lock_root")
          /\ free_blocks' = Tail(free_blocks)
          /\ frame' = [frame EXCEPT ![t].new_block = Head(free_blocks)]
          /\ UNCHANGED args
  /\ UNCHANGED <<disk, locks, server, req>>

BeginDelete(t) ==
  /\ req[t].op = "delete"
  /\ Goto(t, "begin", "lock_root")
  /\ UNCHANGED <<disk, free_blocks, locks, server, req, args, frame>>

BeginAccess(t) ==
  /\ pc[t] = "begin" /\ req[t].op \in {"read", "write"}
  /\ IF req[t].block >= FS_MAXFILEBLOCKS
     THEN Return(t, "begin", "fail", Zero)
     ELSE Goto(t, "begin", "lock_root") /\ UNCHANGED <<args, frame>>
  /\ UNCHANGED <<disk, free_blocks, locks, server, req>>

-----------------------------------------------------------------------------
(* recurse_filesystem and recurse_filesystem_helper: walk the path hand      *)
(* over hand, locking the next directory before unlocking the last.         *)

LockForWalk(t, b, i) == IF TakesWriteLock(req[t], i) THEN WrLock(t, b) ELSE RdLock(t, b)

Entry(t) == args[t].folders[args[t].folder_index]

LockRoot(t) ==
  /\ Goto(t, "lock_root", IF req[t].path = << >> THEN "unlock_parent" ELSE "search")
  /\ LockForWalk(t, 0, 1)
  /\ Decide(t, IF req[t].path = << >> THEN "fail" ELSE frame[t].ret)
  /\ UNCHANGED <<disk, free_blocks, server, req, args>>

(* The step after looking a component up, "unlock_parent" when the walk fails. *)
BugAfterSearch(r, i, found) ==
  IF i < Len(r.path) THEN IF found THEN "lock_next" ELSE "search"
  ELSE IF found # WantsEntry(r.op) THEN "unlock_parent"
  ELSE IF r.op = "create" THEN "grow" ELSE "lock_target"
AfterSearch(r, i, found) ==
  IF i < Len(r.path) THEN IF found THEN "lock_next" ELSE "unlock_parent"
  ELSE IF found # WantsEntry(r.op) THEN "unlock_parent"
  ELSE IF r.op = "create" THEN "grow" ELSE "lock_target"

Search(t) ==
  LET node == AsInode(disk[args[t].disk_block])
      i    == frame[t].path_index
  IN  /\ pc[t] = "search"
      /\ IF MayEnter(node, req[t].user)
         THEN \E s \in SearchDirectory(disk, node, req[t].path[i]) :
                /\ args' = [args EXCEPT ![t] =
                              [@ EXCEPT !.inode = node, !.blocks_index = s.blocks_index,
                                        !.folder_index = s.folder_index, !.folders = s.folders]]
                /\ Goto(t, "search", AfterSearch(req[t], i, s.found))
         ELSE /\ args' = [args EXCEPT ![t].inode = node]
              /\ Goto(t, "search", "unlock_parent")
      /\ IF pc'[t] = "unlock_parent" THEN Decide(t, "fail") ELSE UNCHANGED frame
      /\ UNCHANGED <<disk, free_blocks, locks, server, req>>

LockNext(t) ==
  /\ Goto(t, "lock_next", "unlock_last")
  /\ LockForWalk(t, Entry(t).inode_block, frame[t].path_index + 1)
  /\ args' = [args EXCEPT ![t].disk_block = Entry(t).inode_block]
  /\ frame' = [frame EXCEPT ![t] =
                 [@ EXCEPT !.last = args[t].disk_block,
                           !.path_index = frame[t].path_index + 1]]
  /\ UNCHANGED <<disk, free_blocks, server, req>>

UnlockLast(t) ==
  /\ Goto(t, "unlock_last", "search")
  /\ Unlock(t, frame[t].last)
  /\ frame' = [frame EXCEPT ![t].last = 0]
  /\ UNCHANGED <<disk, free_blocks, server, req, args>>

(* The last unlock of create_entry, of delete_entry, and of a failed walk. *)
UnlockParent(t) ==
  /\ Return(t, "unlock_parent", frame[t].ret, Zero)
  /\ Unlock(t, args[t].disk_block)
  /\ UNCHANGED <<disk, free_blocks, server, req>>
-----------------------------------------------------------------------------
(* create_entry, with the parent directory locked to write. *)

(* An unused entry was found: no further block is needed. *)
ReuseFolder(t) ==
  /\ Goto(t, "grow", "write_inode")
  /\ Len(args[t].inode.blocks) >= args[t].blocks_index
  /\ UNCHANGED <<disk, free_blocks, locks, server, req, args, frame>>

BugCannotGrow(t) ==
  /\ Goto(t, "grow", "unlock_parent")
  /\ Len(args[t].inode.blocks) < args[t].blocks_index
  /\ NoRoomFor(args[t].inode)
  /\ Decide(t, "fail")
  /\ UNCHANGED <<disk, free_blocks, locks, server, req, args>>

(* The directory cannot grow: the reserved block goes to the back. *)
CannotGrow(t) ==
  /\ Goto(t, "grow", "unlock_parent")
  /\ Len(args[t].inode.blocks) < args[t].blocks_index
  /\ NoRoomFor(args[t].inode)
  /\ free_blocks' = Append(free_blocks, frame[t].new_block)
  /\ Decide(t, "fail")
  /\ UNCHANGED <<disk, locks, server, req, args>>

GrowDirectory(t) ==
  /\ Goto(t, "grow", "write_inode")
  /\ Len(args[t].inode.blocks) < args[t].blocks_index
  /\ ~NoRoomFor(args[t].inode)
  /\ free_blocks' = Tail(free_blocks)
  /\ LET grown == [args[t].inode EXCEPT !.blocks = Append(@, Head(free_blocks))]
     IN  args' = [args EXCEPT ![t] = [@ EXCEPT !.inode = grown, !.folders = EmptyFolders]]
  /\ frame' = [frame EXCEPT ![t].grown = TRUE]
  /\ UNCHANGED <<disk, locks, server, req>>

WriteNewInode(t) ==
  /\ Goto(t, "write_inode", "write_folder")
  /\ Write(frame[t].new_block, InodeBlock(NewInode(req[t].type, req[t].user)))
  /\ UNCHANGED <<free_blocks, locks, server, req, args, frame>>

NewDirentry(t) == [name |-> Last(req[t].path), inode_block |-> frame[t].new_block]

(* The block of entries is written; this creates the entry unless the block *)
(* is new and the parent's inode has still to be written.                   *)
WriteFolder(t) ==
  /\ Goto(t, "write_folder", IF frame[t].grown THEN "write_parent" ELSE "unlock_parent")
  /\ Write(args[t].inode.blocks[args[t].blocks_index],
           FolderBlock([args[t].folders EXCEPT ![args[t].folder_index] = NewDirentry(t)]))
  /\ Decide(t, IF frame[t].grown THEN frame[t].ret ELSE "ok")
  /\ UNCHANGED <<free_blocks, locks, server, req, args>>

WriteParent(t) ==
  /\ Goto(t, "write_parent", "unlock_parent")
  /\ Write(args[t].disk_block, InodeBlock(args[t].inode))
  /\ Decide(t, "ok")
  /\ UNCHANGED <<free_blocks, locks, server, req, args>>

CreateEntry(t) ==
  \/ ReuseFolder(t) \/ CannotGrow(t) \/ GrowDirectory(t)
  \/ WriteNewInode(t) \/ WriteFolder(t) \/ WriteParent(t)
-----------------------------------------------------------------------------
(* delete_entry and access_entry lock the entry's own inode. *)
BugLockTarget(t) ==
  /\ Goto(t, "lock_target", IF req[t].op = "delete" THEN "check_delete" ELSE "unlock_dir")
  /\ IF req[t].op = "write" THEN WrLock(t, Entry(t).inode_block)
                            ELSE RdLock(t, Entry(t).inode_block)
  /\ frame' = [frame EXCEPT ![t].target = Entry(t).inode_block]
  /\ UNCHANGED <<disk, free_blocks, server, req, args>>
LockTarget(t) ==
  /\ Goto(t, "lock_target", IF req[t].op = "delete" THEN "check_delete" ELSE "unlock_dir")
  /\ IF req[t].op = "read" THEN RdLock(t, Entry(t).inode_block)
                           ELSE WrLock(t, Entry(t).inode_block)
  /\ frame' = [frame EXCEPT ![t].target = Entry(t).inode_block]
  /\ UNCHANGED <<disk, free_blocks, server, req, args>>

CheckDelete(t) ==
  LET node == AsInode(disk[frame[t].target])
  IN  /\ frame' = [frame EXCEPT ![t].file = node,
                                ![t].ret = IF MayDelete(node, req[t].user) THEN @ ELSE "fail"]
      /\ Goto(t, "check_delete",
              IF MayDelete(node, req[t].user) THEN "remove" ELSE "unlock_target")
      /\ UNCHANGED <<disk, free_blocks, locks, server, req, args>>

(* One disk write removes the entry: of the block it is in, or, when that   *)
(* block is left without entries, of the parent's inode without the block.  *)
RemoveEntry(t) ==
  LET dir     == args[t]
      folders == [dir.folders EXCEPT ![dir.folder_index] = Unused]
      block   == dir.inode.blocks[dir.blocks_index]
      parent  == [dir.inode EXCEPT !.blocks = RemoveAt(@, dir.blocks_index)]
      freed   == BlocksToFree(frame[t].file, frame[t].target)
  IN  /\ Goto(t, "remove", "release")
      /\ \/ /\ FolderBlockEmpty(folders)
            /\ Write(dir.disk_block, InodeBlock(parent))
            /\ frame' = [frame EXCEPT ![t] =
                           [@ EXCEPT !.to_free = Append(freed, block), !.ret = "ok"]]
         \/ /\ ~FolderBlockEmpty(folders)
            /\ Write(block, FolderBlock(folders))
            /\ frame' = [frame EXCEPT ![t] = [@ EXCEPT !.to_free = freed, !.ret = "ok"]]
      /\ UNCHANGED <<free_blocks, locks, server, req, args>>

ReleaseBlocks(t) ==
  /\ Goto(t, "release", "unlock_target")
  /\ free_blocks' = frame[t].to_free \o free_blocks
  /\ frame' = [frame EXCEPT ![t].to_free = << >>]
  /\ UNCHANGED <<disk, locks, server, req, args>>

(* An early return of access_entry that keeps the file locked. *)
BugUnlockTarget(t) ==
  /\ pc[t] = "unlock_target"
  /\ IF req[t].op = "delete"
     THEN /\ Goto(t, "unlock_target", "unlock_parent")
          /\ Unlock(t, frame[t].target)
          /\ UNCHANGED <<args, frame>>
     ELSE /\ Return(t, "unlock_target", frame[t].ret, frame[t].buf)
          /\ UNCHANGED locks
  /\ UNCHANGED <<disk, free_blocks, server, req>>

(* delete_entry unlocks its parent next; access_entry has, and returns. *)
UnlockTarget(t) ==
  /\ pc[t] = "unlock_target"
  /\ Unlock(t, frame[t].target)
  /\ IF req[t].op = "delete"
     THEN Goto(t, "unlock_target", "unlock_parent") /\ UNCHANGED <<args, frame>>
     ELSE Return(t, "unlock_target", frame[t].ret, frame[t].buf)
  /\ UNCHANGED <<disk, free_blocks, server, req>>

DeleteEntry(t) == CheckDelete(t) \/ RemoveEntry(t) \/ ReleaseBlocks(t)
-----------------------------------------------------------------------------
(* access_entry, once it holds the file's lock. *)
UnlockDir(t) ==
  /\ Goto(t, "unlock_dir", "open")
  /\ Unlock(t, args[t].disk_block)
  /\ UNCHANGED <<disk, free_blocks, server, req, args, frame>>

AfterOpen(r, file) ==
  IF ~MayAccess(file, r.user) THEN "unlock_target"
  ELSE IF r.block < Len(file.blocks) THEN IF r.op = "read" THEN "read_data" ELSE "write_data"
  ELSE IF r.op = "write" /\ r.block = Len(file.blocks) THEN "extend"
  ELSE "unlock_target"

OpenFile(t) ==
  LET file == AsInode(disk[frame[t].target])
      next == AfterOpen(req[t], file)
  IN  /\ Goto(t, "open", next)
      /\ frame' = [frame EXCEPT ![t].file = file,
                                ![t].ret = IF next = "unlock_target" THEN "fail" ELSE @]
      /\ UNCHANGED <<disk, free_blocks, locks, server, req, args>>

FileBlock(t) == frame[t].file.blocks[req[t].block + 1]

ReadData(t) ==
  /\ Goto(t, "read_data", "unlock_target")
  /\ frame' = [frame EXCEPT ![t] =
                 [@ EXCEPT !.buf = AsData(disk[FileBlock(t)]), !.ret = "ok"]]
  /\ UNCHANGED <<disk, free_blocks, locks, server, req, args>>

WriteData(t) ==
  /\ Goto(t, "write_data", "unlock_target")
  /\ Write(FileBlock(t), DataBlock(req[t].data))
  /\ Decide(t, "ok")
  /\ UNCHANGED <<free_blocks, locks, server, req, args>>

ExtendFile(t) ==
  /\ IF NoRoomFor(frame[t].file)
     THEN /\ Goto(t, "extend", "unlock_target")
          /\ Decide(t, "fail")
          /\ UNCHANGED free_blocks
     ELSE /\ Goto(t, "extend", "append_data")
          /\ free_blocks' = Tail(free_blocks)
          /\ frame' = [frame EXCEPT ![t].file.blocks = Append(@, Head(free_blocks))]
  /\ UNCHANGED <<disk, locks, server, req, args>>

AppendData(t) ==
  /\ Goto(t, "append_data", "append_inode")
  /\ Write(FileBlock(t), DataBlock(req[t].data))
  /\ UNCHANGED <<free_blocks, locks, server, req, args, frame>>

AppendInode(t) ==
  /\ Goto(t, "append_inode", "unlock_target")
  /\ Write(frame[t].target, InodeBlock(frame[t].file))
  /\ Decide(t, "ok")
  /\ UNCHANGED <<free_blocks, locks, server, req, args>>

AccessEntry(t) ==
  \/ UnlockDir(t) \/ OpenFile(t) \/ ReadData(t) \/ WriteData(t)
  \/ ExtendFile(t) \/ AppendData(t) \/ AppendInode(t)
-----------------------------------------------------------------------------
Begin(t) == BeginCreate(t) \/ BeginDelete(t) \/ BeginAccess(t)

Walk(t) == LockRoot(t) \/ Search(t) \/ LockNext(t) \/ UnlockLast(t)

(* A step of a thread that handles a request. *)
Handle(t) ==
  \/ Begin(t) \/ Walk(t) \/ CreateEntry(t) \/ LockTarget(t) \/ DeleteEntry(t)
  \/ AccessEntry(t) \/ UnlockTarget(t) \/ UnlockParent(t) \/ Reply(t)

(* Every connection the bound allows is served and main waits in accept. *)
Quiescent ==
  /\ boot = FS_DISKSIZE
  /\ \A t \in Threads : pc[t] = "idle"

Idle == accepted = MaxRequests /\ Quiescent /\ UNCHANGED vars

Next ==
  \/ Boot
  \/ Crash
  \/ \E t \in Threads : Accept(t) \/ Handle(t)
  \/ Idle

Spec == Init /\ [][Next]_vars

(* Runnable threads are scheduled.  Weak fairness is enough for the locks   *)
(* because only finitely many requests compete for them.                    *)
FairSpec == Spec /\ WF_vars(Boot) /\ \A t \in Threads : WF_vars(Handle(t))
=============================================================================
