---------------------------- MODULE FilesystemProps ----------------------------
(***************************************************************************)
(* What the file server's core must guarantee, at every instant and so at   *)
(* every instant at which it may crash.                                     *)
(***************************************************************************)
EXTENDS Filesystem

(* Blocks a thread has taken from the free list and not linked yet, or has  *)
(* unlinked and not freed yet.                                              *)
ReservedBy(step, a, f) ==
  (IF f.ret # "none" THEN {}
   ELSE ({f.new_block} \ {0})
          \cup (IF f.grown THEN {Last(a.inode.blocks)} ELSE {})
          \cup (IF step \in {"append_data", "append_inode"} THEN {Last(f.file.blocks)} ELSE {}))
    \cup ToSet(f.to_free)

Reserved(t) == ReservedBy(pc[t], args[t], frame[t])

Lost == Blocks \ (Live(disk) \cup ToSet(free_blocks) \cup UNION {Reserved(t) : t \in Threads})

-----------------------------------------------------------------------------
(* Crash safety: whatever write came last, the disk holds a tree (the order *)
(* of the writes in create_entry, delete_entry and access_entry).           *)
TreeWellFormed == WellFormed(disk, LiveInodes(disk))

(* Names are unique in a directory: a create looks through all of it, past  *)
(* the unused entries that deletes leave, before it takes one of them       *)
(* (search_directory), and nobody adds the name meanwhile.                  *)
NamesUnique == UniqueNames(disk)

(* delete_entry takes a directory for empty when its size is 0; so no block *)
(* of a directory may be left without entries, or an empty directory could  *)
(* never be deleted.                                                        *)
NoEmptyDirBlock == EveryDirBlockUsed(disk)

(* Below the root, everything in a user's directory is that user's.         *)
OwnerIsolation == OwnersInherited(disk)

(* A block has one owner: the tree, the free list (once), or one thread     *)
(* that is about to link or to free it.  Two creates never get one block.   *)
BlocksOwnedOnce ==
  LET held == UNION {Reserved(t) : t \in Threads}
  IN  /\ Cardinality(ToSet(free_blocks)) = Len(free_blocks)
      /\ ToSet(free_blocks) \cap Live(disk) = {}
      /\ held \cap (Live(disk) \cup ToSet(free_blocks)) = {}
      /\ \A t, u \in Threads : t # u => Reserved(t) \cap Reserved(u) = {}

-----------------------------------------------------------------------------
(* The steps at which a thread works in args.disk_block, and at which it    *)
(* works on its target, with the lock held.                                 *)
InDirectory == {"search", "lock_next", "grow", "write_inode", "write_folder", "write_parent",
                "lock_target", "check_delete", "remove", "release", "unlock_dir",
                "unlock_parent", "unlock_last"}
OnTarget    == {"check_delete", "remove", "unlock_dir", "open", "read_data", "write_data",
                "extend", "append_data", "append_inode"}

(* What a thread has locked is still in the tree: nobody deletes and        *)
(* reuses an inode between the read of its entry and the lock on it, or     *)
(* while it is locked (LockNext and LockTarget lock before they unlock).    *)
NoUseAfterFree ==
  \A t \in Threads :
    /\ pc[t] \in InDirectory => args[t].disk_block \in LiveInodes(disk)
    /\ pc[t] \in OnTarget => frame[t].target \in LiveInodes(disk)

(* The copies of the inodes and of the block of entries a thread made under *)
(* a lock equal the disk until the thread itself writes them, so a write    *)
(* back loses no update of another thread.                                  *)
CopiesCurrent ==
  \A t \in Threads :
    LET dir == AsInode(disk[args[t].disk_block])
    IN  /\ pc[t] \in {"lock_next", "lock_target", "grow", "check_delete", "remove", "unlock_dir"}
             => args[t].inode = dir
        /\ pc[t] \in {"write_inode", "write_folder", "write_parent"}
             => IF frame[t].grown THEN Front(args[t].inode.blocks) = dir.blocks
                                  ELSE args[t].inode = dir
        /\ pc[t] \in {"lock_next", "lock_target", "check_delete", "remove", "unlock_dir",
                      "write_inode", "write_folder"} /\ ~frame[t].grown
             => args[t].folders = AsFolders(disk[args[t].inode.blocks[args[t].blocks_index]])
        /\ pc[t] \in {"remove", "read_data", "write_data", "extend"}
             => frame[t].file = AsInode(disk[frame[t].target])

(* Deadlock freedom's reason: a thread waits only for a child of the one    *)
(* inode it has locked, and holds no other lock meanwhile; so waits-for     *)
(* chains go down the tree.                                                 *)
LocksFollowTree ==
  \A t \in Threads : pc[t] \in {"lock_next", "lock_target"} =>
    /\ {b \in Blocks : t \in rdlock[b] \cup wrlock[b]} = {args[t].disk_block}
    /\ Entry(t).inode_block \in ChildrenOf(disk, args[t].disk_block)

(* Whatever way a handler returns, it has unlocked what it locked.          *)
LocksReleased ==
  \A t \in Threads : pc[t] \in {"idle", "begin", "lock_root", "reply"} =>
    \A b \in Blocks : t \notin rdlock[b] \cup wrlock[b]

-----------------------------------------------------------------------------
(* The threads whose create gives up in this step because its walk fails.   *)
FailingCreates ==
  {t \in Threads : /\ req[t].op = "create"
                   /\ pc[t] \in {"lock_root", "search"}
                   /\ pc'[t] = "unlock_parent"}

(* A running server loses no block except in one place: a create whose walk *)
(* fails does not return the block it had reserved.  A delete, an extension *)
(* that fails half way and a create in a full directory lose none.          *)
LostOnlyByFailedCreate ==
  [][crashes' = crashes => Lost' \ Lost \subseteq {frame[t].new_block : t \in FailingCreates}]_vars

(* The constructor's scan finds every block outside the tree, those that    *)
(* were lost or reserved before a crash included.                           *)
RestartReclaims ==
  [][boot < FS_DISKSIZE /\ boot' = FS_DISKSIZE => Lost' = {}]_vars

(* Every request that reached a handler is answered, or its connection is   *)
(* closed: no thread waits for ever on a block lock.                        *)
EveryRequestAnswered == \A t \in Threads : pc[t] = "begin" ~> pc[t] = "idle"

-----------------------------------------------------------------------------
(* fs_client.h:84 lets FS_CREATE fail when "the disk ... is out of space":  *)
(* an empty free list then means that every block is used.                  *)
NoSpaceOnlyWhenFull == boot = FS_DISKSIZE /\ free_blocks = << >> => Lost = {}
=============================================================================
