-------------------------- MODULE FilesystemInvariant --------------------------
(***************************************************************************)
(* The inductive invariant of Filesystem: what each thread knows at each    *)
(* step from the checks it has made and the locks it holds, and what every  *)
(* block of the disk is used for.  The invariants of FilesystemProps follow *)
(* from it.                                                                 *)
(***************************************************************************)
EXTENDS FilesystemProps

Created   == {"grow", "write_inode", "write_folder", "write_parent"}
Found     == {"lock_next", "lock_target", "check_delete", "remove"}
OutOfWalk == {"idle", "begin", "lock_root", "unlock_parent", "reply"}

(* What the handlers know at each step from the checks they have made.      *)
StepShape(t) ==
  /\ pc[t] \notin OutOfWalk => req[t].path # << >>
  /\ pc[t] \in Created => req[t].op = "create"
  /\ pc[t] \in {"check_delete", "remove", "release"} => req[t].op = "delete"
  /\ pc[t] \notin {"idle", "begin", "reply"} /\ req[t].op = "create" => req[t].type \in {"f", "d"}
  /\ pc[t] \in Found => args[t].blocks_index \in 1 .. Len(args[t].inode.blocks)
  /\ pc[t] \in {"idle", "begin", "lock_root", "reply"} => args[t].disk_block = 0
  /\ pc[t] = "read_data" => req[t].block < Len(frame[t].file.blocks)

TypeInv == TypeOK /\ \A t \in Threads : StepShape(t)

-----------------------------------------------------------------------------
(* Locks: the blocks a thread may have locked at its step, and those it has. *)

MayHold(t) ==
  (IF pc[t] \in InDirectory THEN {args[t].disk_block} ELSE {})
    \cup (IF pc[t] = "unlock_last" THEN {frame[t].last} ELSE {})
    \cup (IF pc[t] \in OnTarget \cup {"release", "unlock_target"} THEN {frame[t].target} ELSE {})
    \cup (IF pc[t] = "unlock_target" /\ req[t].op = "delete" THEN {args[t].disk_block} ELSE {})

Holds(t, b) == t \in rdlock[b] \cup wrlock[b]

LockShape(t) == \A b \in Blocks : Holds(t, b) => b \in MayHold(t)

LockInv == TypeInv /\ \A t \in Threads : LockShape(t)

OneWriter == \A b \in Blocks : \A t \in wrlock[b] : wrlock[b] = {t} /\ rdlock[b] = {}

HoldsDir(step, r) == step \in InDirectory \/ (step = "unlock_target" /\ r.op = "delete")
HoldsTarget(step) == step \in OnTarget \cup {"release", "unlock_target"}

HasLocks(t) ==
  /\ HoldsDir(pc[t], req[t]) =>
       IF TakesWriteLock(req[t], frame[t].path_index) THEN t \in wrlock[args[t].disk_block]
                                                      ELSE t \in rdlock[args[t].disk_block]
  /\ HoldsTarget(pc[t]) =>
       IF req[t].op = "read" THEN t \in rdlock[frame[t].target]
                             ELSE t \in wrlock[frame[t].target]

-----------------------------------------------------------------------------
(* What a thread at a step knows of its request r and its locals a and f,    *)
(* and of the disk d.  These are operators of the values and not of the     *)
(* variables, so that a step that leaves those values alone keeps them.     *)

WithEntry  == Found \cup {"unlock_dir"}
AtLastName == Created \cup {"lock_target", "check_delete", "remove", "release", "unlock_dir"}
Decided    == {"unlock_parent", "release", "unlock_target", "reply"}
Without    == {"idle", "begin", "reply"}

Locals(step, r, a, f) ==
  /\ step # "idle" => r \in Requests
  /\ step \in Without => f.new_block = 0 /\ ~f.grown /\ f.to_free = << >>
  /\ step \in Without \cup {"lock_root"} => f.path_index = 1
  /\ step \in {"search", "unlock_last"} => f.path_index \in 1 .. Len(r.path)
  /\ step = "lock_next" => f.path_index \in 1 .. Len(r.path) - 1
  /\ step \in AtLastName => f.path_index = Len(r.path)
  /\ step = "unlock_last" => f.last # a.disk_block
  /\ step \in {"lock_target", "unlock_target"} => r.op # "create"
  /\ step \in {"unlock_dir", "open"} => r.op \in {"read", "write"}
  /\ step = "read_data" => r.op = "read"
  /\ step \in {"write_data", "extend", "append_data", "append_inode"} => r.op = "write"
  /\ f.grown => step \in {"write_inode", "write_folder", "write_parent", "unlock_parent"}
  /\ step = "write_parent" => f.grown
  /\ f.ret # "none" <=> step \in Decided
  /\ f.new_block # 0 <=> r.op = "create" /\ step \notin Without
  /\ f.to_free # << >> => step = "release"

(* The directory it has locked is in the tree, the copy of its inode is      *)
(* current but for a block it has added, and so is the block of entries.    *)
(* A create has found no entry with its name, the others have found theirs. *)
SameFolders(a, d) ==
  /\ a.blocks_index \in 1 .. Len(a.inode.blocks)
  /\ a.folders = AsFolders(d[a.inode.blocks[a.blocks_index]])

CopyOfDir(a, f, d) ==
  LET dir == AsInode(d[a.disk_block])
  IN  IF f.grown
      THEN /\ a.inode.type = dir.type /\ a.inode.owner = dir.owner
           /\ a.inode.blocks = Append(dir.blocks, Last(a.inode.blocks))
      ELSE a.inode = dir

EntryFound(r, a, f, d) ==
  /\ SameFolders(a, d)
  /\ a.folders[a.folder_index].inode_block # 0
  /\ a.folders[a.folder_index].name = r.path[f.path_index]

NoSuchEntry(r, a, d) ==
  \A e \in Entries(d, a.disk_block) :
    EntryAt(d, AsInode(d[a.disk_block]), e).name # Last(r.path)

PlaceForEntry(step, a, f, d) ==
  IF f.grown
  THEN /\ a.blocks_index = Len(a.inode.blocks) /\ a.folder_index = 1
       /\ a.folders = EmptyFolders
  ELSE \/ SameFolders(a, d) /\ a.folders[a.folder_index].inode_block = 0
       \/ /\ step = "grow"
          /\ a.blocks_index = Len(a.inode.blocks) + 1 /\ a.folder_index = 1

KnowsDir(step, r, a, f, d) ==
  /\ HoldsDir(step, r) => a.disk_block \in LiveInodes(d)
  /\ step \in WithEntry \cup Created =>
       CopyOfDir(a, f, d) /\ a.inode.type = "d" /\ a.inode.owner \in {NoUser, r.user}
  /\ step \in WithEntry => EntryFound(r, a, f, d)
  /\ step \in Created => NoSuchEntry(r, a, d) /\ PlaceForEntry(step, a, f, d)

(* The same of the entry's own inode. *)
CopyOfTarget(step, f, d) ==
  LET file == AsInode(d[f.target])
  IN  IF step \in {"append_data", "append_inode"}
      THEN /\ f.file.type = file.type /\ f.file.owner = file.owner
           /\ f.file.blocks = Append(file.blocks, Last(f.file.blocks))
      ELSE f.file = file

OnFile == {"read_data", "write_data", "extend", "append_data", "append_inode"}

KnowsTarget(step, r, a, f, d) ==
  /\ step \in OnTarget => f.target \in LiveInodes(d)
  /\ HoldsTarget(step) /\ HoldsDir(step, r) => f.target # a.disk_block
  /\ step \in {"check_delete", "remove", "unlock_dir"} =>
       f.target = a.folders[a.folder_index].inode_block
  /\ step \in OnFile \cup {"remove"} => CopyOfTarget(step, f, d)
  /\ step = "remove" => MayDelete(f.file, r.user)
  /\ step \in OnFile => MayAccess(f.file, r.user)
  /\ step \in {"read_data", "write_data"} => r.block < Len(f.file.blocks)
  /\ step = "extend" => r.block = Len(f.file.blocks)
  /\ step \in {"append_data", "append_inode"} => r.block + 1 = Len(f.file.blocks)

(* The blocks it has reserved hold what it wrote, and are not the same. *)
KnowsReserved(step, r, a, f, d) ==
  /\ step \in {"write_folder", "write_parent"} =>
       d[f.new_block] = InodeBlock(NewInode(r.type, r.user))
  /\ step = "write_parent" =>
       d[Last(a.inode.blocks)] =
         FolderBlock([EmptyFolders EXCEPT ![1] = [name |-> Last(r.path),
                                                  inode_block |-> f.new_block]])
  /\ step = "append_inode" => d[Last(f.file.blocks)] = DataBlock(r.data)
  /\ step \in {"write_inode", "write_folder", "write_parent"} /\ f.grown =>
       f.new_block # Last(a.inode.blocks)
  /\ IsInjective(f.to_free)

Knows(step, r, a, f, d) ==
  /\ KnowsDir(step, r, a, f, d)
  /\ KnowsTarget(step, r, a, f, d)
  /\ KnowsReserved(step, r, a, f, d)

-----------------------------------------------------------------------------
(* The constructor's loop: no thread runs, and the blocks listed so far are  *)
(* those below the counter that the tree does not use.                      *)
Booting ==
  boot < FS_DISKSIZE =>
    /\ \A t \in Threads : pc[t] = "idle"
    /\ ToSet(free_blocks) = (0 .. boot - 1) \ Live(disk)

IInv ==
  /\ LockInv
  /\ OneWriter
  /\ SoundDisk(disk)
  /\ BlocksOwnedOnce
  /\ Booting
  /\ \A t \in Threads :
       /\ HasLocks(t)
       /\ Locals(pc[t], req[t], args[t], frame[t])
       /\ Knows(pc[t], req[t], args[t], frame[t], disk)
=============================================================================
