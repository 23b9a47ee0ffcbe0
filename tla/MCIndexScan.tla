------------------------------ MODULE MCIndexScan ------------------------------
(***************************************************************************)
(* Disks of five blocks: the root's inode, two blocks that may hold entries *)
(* and two that may hold inodes, or data, in every arrangement of           *)
(* references between them.                                                 *)
(***************************************************************************)
EXTENDS IndexScan

CONSTANTS n, none, noname, zero

MCNames == {n}
MCData  == {zero}

Lists    == {<< >>, <<1>>, <<3>>, <<4>>, <<3, 1>>}
Inodes   == {InodeBlock([type |-> ty, owner |-> NoUser, blocks |-> bs]) :
               ty \in {"f", "d"}, bs \in Lists}
Entry(k) == IF k = 0 THEN Unused ELSE [name |-> n, inode_block |-> k]
Listings == {FolderBlock([j \in 1 .. FS_DIRENTRIES |-> Entry(f[j])]) :
               f \in [1 .. FS_DIRENTRIES -> {0, 2, 4}]}

Arranged(r, l1, i2, l3, i4) ==
  [k \in Blocks |-> CASE k = 0 -> r [] k = 1 -> l1 [] k = 2 -> i2 [] k = 3 -> l3 [] k = 4 -> i4]

MCDisks ==
  {Arranged(r, l1, i2, l3, i4) :
     r \in {i \in Inodes : i.inode.type = "d"}, l1 \in Listings, i2 \in Inodes,
     l3 \in Listings \cup {DataBlock(zero)}, i4 \in Inodes \cup {DataBlock(zero)}}
=============================================================================
