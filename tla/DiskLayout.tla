------------------------------ MODULE DiskLayout ------------------------------
(***************************************************************************)
(* What the file server keeps on disk (fs_server.h) and how it reads it:   *)
(* inodes, blocks of directory entries and data blocks, the scan of a      *)
(* directory (filesystem::search_directory) and the scan of the whole disk *)
(* at start-up (filesystem::index_disk).                                   *)
(*                                                                         *)
(* Indices into blocks[] and into a block of entries start at 1 here and   *)
(* at 0 in the code; block numbers and file offsets are the code's.        *)
(***************************************************************************)
EXTENDS Integers, Sequences, FiniteSets

CONSTANTS
  FS_DISKSIZE,        \* blocks on the disk
  FS_DIRENTRIES,      \* directory entries in one block
  FS_MAXFILEBLOCKS,   \* blocks[] entries in one inode
  Users,              \* user names
  Names,              \* file and directory names
  Data,               \* contents of a data block
  NoUser, NoName,     \* the empty strings: root's owner, an unused entry's name
  Zero                \* the data in a block nobody has written

ASSUME LayoutAssumption ==
  /\ FS_DISKSIZE \in Nat \ {0}
  /\ FS_DIRENTRIES \in Nat \ {0}
  /\ FS_MAXFILEBLOCKS \in Nat \ {0}
  /\ NoUser \notin Users
  /\ NoName \notin Names
  /\ Zero \in Data

Blocks == 0 .. FS_DISKSIZE - 1

(* struct fs_direntry; inode_block 0 marks an unused entry. *)
Direntry == [name : Names \cup {NoName}, inode_block : Blocks]
Unused   == [name |-> NoName, inode_block |-> 0]

(* fs_direntry folders[FS_DIRENTRIES], one block of a directory. *)
Folders      == [1 .. FS_DIRENTRIES -> Direntry]
EmptyFolders == [j \in 1 .. FS_DIRENTRIES |-> Unused]

(* struct fs_inode; size is the length of blocks. *)
BlockList == {s \in Seq(Blocks) : Len(s) <= FS_MAXFILEBLOCKS}
Inode     == [type : {"f", "d"}, owner : Users \cup {NoUser}, blocks : BlockList]

NewInode(type, owner) == [type |-> type, owner |-> owner, blocks |-> << >>]

-----------------------------------------------------------------------------
(* A disk block holds the bytes of the last structure written to it. *)

InodeBlock(inode)   == [kind |-> "inode", inode |-> inode]
FolderBlock(folders) == [kind |-> "dir", folders |-> folders]
DataBlock(data)     == [kind |-> "data", data |-> data]

Content == [kind : {"inode"}, inode : Inode]
             \cup [kind : {"dir"}, folders : Folders]
             \cup [kind : {"data"}, data : Data]

(* disk_readblock into a structure.  Bytes of another structure would be    *)
(* reinterpreted; the fixed values below stand for that, and the invariant  *)
(* TreeWellFormed with NoUseAfterFree excludes that a thread does it.       *)
AsInode(c)   == IF c.kind = "inode" THEN c.inode ELSE NewInode("f", NoUser)
AsFolders(c) == IF c.kind = "dir" THEN c.folders ELSE EmptyFolders
AsData(c)    == IF c.kind = "data" THEN c.data ELSE Zero

-----------------------------------------------------------------------------
(* filesystem::search_directory: the first entry with the name, else the    *)
(* first unused entry, else the first entry of a block still to be added.   *)

Slots(inode) == (1 .. Len(inode.blocks)) \X (1 .. FS_DIRENTRIES)

EntryAt(d, inode, s) == AsFolders(d[inode.blocks[s[1]]])[s[2]]

ScannedFirst(r, s) == r[1] < s[1] \/ (r[1] = s[1] /\ r[2] <= s[2])

Holes(d, inode) == {s \in Slots(inode) : EntryAt(d, inode, s).inode_block = 0}

(* BugHits stops at the first unused entry.  A definition named Bug... is    *)
(* the next one with a mistake in it; nothing uses it, and putting it in    *)
(* that one's place must break a property.                                  *)
BugHits(d, inode, name) ==
  {s \in Slots(inode) : /\ EntryAt(d, inode, s).name = name
                        /\ \A r \in Holes(d, inode) : ScannedFirst(s, r)}
Hits(d, inode, name) ==
  {s \in Slots(inode) : /\ EntryAt(d, inode, s).inode_block # 0
                        /\ EntryAt(d, inode, s).name = name}

FirstOf(S) == {s \in S : \A r \in S : ScannedFirst(s, r)}

(* The result of the scan as a set of one element.  folders is the block    *)
(* the entry is in; the code leaves it uninitialised when a block has to be *)
(* added, and clears it before use.                                         *)
SearchDirectory(d, inode, name) ==
  LET At(s, found) == [found |-> found, blocks_index |-> s[1], folder_index |-> s[2],
                       folders |-> AsFolders(d[inode.blocks[s[1]]])]
      hits  == Hits(d, inode, name)
      holes == Holes(d, inode)
  IN  IF hits # {} THEN {At(s, TRUE) : s \in FirstOf(hits)}
      ELSE IF holes # {} THEN {At(s, FALSE) : s \in FirstOf(holes)}
      ELSE {[found |-> FALSE, blocks_index |-> Len(inode.blocks) + 1,
             folder_index |-> 1, folders |-> EmptyFolders]}

-----------------------------------------------------------------------------
(* References from the inodes I: from an inode's blocks[] (slot <<i, 0>>)    *)
(* and from a directory's entries.                                          *)

Entries(d, b) == {s \in Slots(AsInode(d[b])) : EntryAt(d, AsInode(d[b]), s).inode_block # 0}

DataBlocksOf(d, b) == {AsInode(d[b]).blocks[i] : i \in 1 .. Len(AsInode(d[b]).blocks)}

DirsIn(d, I)  == {b \in I : AsInode(d[b]).type = "d"}
FilesIn(d, I) == {b \in I : AsInode(d[b]).type = "f"}

References(d, I) ==
  (UNION {{[from |-> b, slot |-> <<i, 0>>, to |-> AsInode(d[b]).blocks[i]]
             : i \in 1 .. Len(AsInode(d[b]).blocks)} : b \in I})
  \cup
  (UNION {{[from |-> b, slot |-> s, to |-> EntryAt(d, AsInode(d[b]), s).inode_block]
             : s \in Entries(d, b)} : b \in DirsIn(d, I)})

(* The inodes I form a tree: the root is a directory, entries lead to       *)
(* inodes, a directory's blocks hold entries and a file's data, and no      *)
(* block is referenced twice.                                               *)
WellFormed(d, I) ==
  /\ d[0].kind = "inode" /\ AsInode(d[0]).type = "d" /\ AsInode(d[0]).owner = NoUser
  /\ \A b \in I : d[b].kind = "inode"
  /\ \A b \in DirsIn(d, I) : \A c \in DataBlocksOf(d, b) : d[c].kind = "dir"
  /\ \A b \in FilesIn(d, I) : \A c \in DataBlocksOf(d, b) : d[c].kind = "data"
  /\ \A r \in References(d, I) : r.to # 0
  /\ \A r1, r2 \in References(d, I) : r1.to = r2.to => r1 = r2

ChildrenOf(d, b) ==
  IF AsInode(d[b]).type # "d" THEN {}
  ELSE {EntryAt(d, AsInode(d[b]), s).inode_block : s \in Slots(AsInode(d[b]))} \ {0}

(* The inodes in the tree.  Whatever is below the root is at most           *)
(* FS_DISKSIZE entries below it.                                            *)
LiveInodes(d) ==
  LET From[n \in Nat] ==
        [b \in Blocks |->
           {b} \cup IF n = 0 THEN {} ELSE UNION {From[n - 1][c] : c \in ChildrenOf(d, b)}]
  IN  From[FS_DISKSIZE][0]
LiveDirs(d) == DirsIn(d, LiveInodes(d))

(* The blocks in the tree: its inodes and the blocks in their blocks[]. *)
Live(d) ==
  LET I == LiveInodes(d) IN I \cup UNION {DataBlocksOf(d, b) : b \in I}

-----------------------------------------------------------------------------
(* What the server keeps true of a disk besides, for the requests to come.  *)

UniqueNames(d) ==
  \A b \in LiveDirs(d) : \A s1, s2 \in Entries(d, b) :
    EntryAt(d, AsInode(d[b]), s1).name = EntryAt(d, AsInode(d[b]), s2).name => s1 = s2

EveryDirBlockUsed(d) ==
  \A b \in LiveDirs(d) : \A i \in 1 .. Len(AsInode(d[b]).blocks) :
    \E s \in Entries(d, b) : s[1] = i

(* Below the root, everything in a user's directory is that user's. *)
OwnersInherited(d) ==
  \A b \in LiveDirs(d) : \A c \in ChildrenOf(d, b) :
    AsInode(d[c]).owner \in
      IF AsInode(d[b]).owner = NoUser THEN Users ELSE {AsInode(d[b]).owner}

SoundDisk(d) ==
  /\ WellFormed(d, LiveInodes(d))
  /\ UniqueNames(d)
  /\ EveryDirBlockUsed(d)
  /\ OwnersInherited(d)

-----------------------------------------------------------------------------
(* filesystem::index_disk: the blocks marked used are the least set that    *)
(* holds the root's inode, the blocks of every inode in a directory of the  *)
(* set, and those inodes.  IndexScan has the recursion that finds them.     *)

BugInodesBelowRoot(d) == {b \in Blocks : d[b].kind = "inode"}
InodesBelowRoot(d) ==
  {b \in Blocks : \A S \in SUBSET Blocks :
                     (0 \in S /\ \A x \in S : ChildrenOf(d, x) \subseteq S) => b \in S}

BugIndexDisk(d) == InodesBelowRoot(d)
IndexDisk(d) == InodesBelowRoot(d) \cup UNION {DataBlocksOf(d, b) : b \in InodesBelowRoot(d)}
=============================================================================
