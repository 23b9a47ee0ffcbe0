------------------------------- MODULE IndexScan -------------------------------
(***************************************************************************)
(* The recursion of filesystem::index_disk, on the disks that hold a tree.  *)
(* What its calls have still to do is a list, the innermost call's first.   *)
(***************************************************************************)
EXTENDS DiskLayout

CONSTANT Disks    \* disks the server may start from

ASSUME ScanAssumption == Disks \subseteq [Blocks -> Content]

VARIABLES
  disk,    \* the disk it does start from
  used,    \* the constructor's bitset
  todo     \* rounds of the loops over blocks[] and over the entries of a block

vars == <<disk, used, todo>>

-----------------------------------------------------------------------------
(* A round of the loop over the blocks of an inode of a type, and one of the *)
(* loop over the entries of a directory's block.                            *)
BlockRound(type, b) == [loop |-> type, block |-> b]
EntryRound(b)       == [loop |-> "entry", block |-> b]

BlockRounds(c) ==
  [i \in 1 .. Len(AsInode(c).blocks) |-> BlockRound(AsInode(c).type, AsInode(c).blocks[i])]

(* BugEntryRounds ends the loop at the first unused entry. *)
BugEntryRounds(c) ==
  LET first == CHOOSE k \in 0 .. FS_DIRENTRIES :
                 /\ \A j \in 1 .. k : AsFolders(c)[j].inode_block # 0
                 /\ k = FS_DIRENTRIES \/ AsFolders(c)[k + 1].inode_block = 0
  IN  [j \in 1 .. first |-> EntryRound(AsFolders(c)[j].inode_block)]
EntryRounds(c) == [j \in 1 .. FS_DIRENTRIES |-> EntryRound(AsFolders(c)[j].inode_block)]

(* index_disk_helper: mark the inode and go through its blocks. *)
Helper(b, rest) ==
  /\ used' = used \cup {b}
  /\ todo' = BlockRounds(disk[b]) \o rest
  /\ UNCHANGED disk

Init ==
  /\ disk \in Disks
  /\ WellFormed(disk, InodesBelowRoot(disk))
  /\ used = {} /\ todo = << >>

index_disk == used = {} /\ Helper(0, << >>)

(* Mark a block, and in a directory go through its entries. *)
MarkBlock ==
  /\ todo # << >> /\ Head(todo).loop # "entry"
  /\ used' = used \cup {Head(todo).block}
  /\ todo' = (IF Head(todo).loop = "d" THEN EntryRounds(disk[Head(todo).block]) ELSE << >>)
                \o Tail(todo)
  /\ UNCHANGED disk

(* An entry leads to a call, unless it is unused or the call would return at *)
(* once because the inode's block is marked.  (Or lies beyond the disk: the  *)
(* entries of a Content do not.)                                            *)
Enter ==
  /\ todo # << >> /\ Head(todo).loop = "entry"
  /\ Head(todo).block \notin {0} \cup used
  /\ Helper(Head(todo).block, Tail(todo))

PassBy ==
  /\ todo # << >> /\ Head(todo).loop = "entry"
  /\ Head(todo).block \in {0} \cup used
  /\ todo' = Tail(todo)
  /\ UNCHANGED <<disk, used>>

Next == index_disk \/ MarkBlock \/ Enter \/ PassBy

Spec == Init /\ [][Next]_vars

-----------------------------------------------------------------------------
(* The scan marks every block of the tree and no other: one it left out     *)
(* would be handed out as free and overwritten.  That it does not go down    *)
(* to an inode whose block is marked is right only because the tree has     *)
(* each block in one use.                                                   *)
ScanExact == used # {} /\ todo = << >> => used = IndexDisk(disk)
=============================================================================
