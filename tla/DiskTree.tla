------------------------------- MODULE DiskTree -------------------------------
(***************************************************************************)
(* The tree of directories and files that a disk holds.                     *)
(***************************************************************************)
EXTENDS DiskLayout

(* The inodes in the tree, each with the path that leads to it from the      *)
(* root.  Whatever is below the root is at most FS_DISKSIZE entries below it. *)
Place == [path : Seq(Names \cup {NoName}), block : Blocks]
Root  == [path |-> << >>, block |-> 0]

Below(d, p) ==
  IF AsInode(d[p.block]).type # "d" THEN {}
  ELSE {[path  |-> Append(p.path, EntryAt(d, AsInode(d[p.block]), s).name),
         block |-> EntryAt(d, AsInode(d[p.block]), s).inode_block] : s \in Entries(d, p.block)}

PathsTo(d) ==
  LET From[n \in Nat] ==
        [p \in Place |->
           {p} \cup IF n = 0 THEN {} ELSE UNION {From[n - 1][q] : q \in Below(d, p)}]
  IN  From[FS_DISKSIZE][Root]

NodeOf(d, inode) ==
  [type |-> inode.type, owner |-> inode.owner,
   data |-> IF inode.type = "d" THEN << >>
            ELSE [i \in 1 .. Len(inode.blocks) |-> AsData(d[inode.blocks[i]])]]

TreeOf(d) ==
  LET nodes == PathsTo(d)
  IN  [path \in {n.path : n \in nodes} |->
         NodeOf(d, AsInode(d[(CHOOSE n \in nodes : n.path = path).block]))]
=============================================================================
