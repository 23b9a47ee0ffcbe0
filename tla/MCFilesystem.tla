----------------------------- MODULE MCFilesystem -----------------------------
(***************************************************************************)
(* Small instances of the file server for TLC.                              *)
(***************************************************************************)
EXTENDS FilesystemRefinement

CONSTANTS u1, u2, a, b, c, none, noname, zero, x

MCUsers == {u1, u2}
MCNames == {a, b, c}
MCData  == {zero, x}

Create(u, p, ty) == [NoRequest EXCEPT !.op = "create", !.user = u, !.path = p, !.type = ty]
Delete(u, p)     == [NoRequest EXCEPT !.op = "delete", !.user = u, !.path = p]
Read(u, p, k)    == [NoRequest EXCEPT !.op = "read", !.user = u, !.path = p, !.block = k]
WriteTo(u, p, k) == [NoRequest EXCEPT !.op = "write", !.user = u, !.path = p, !.block = k,
                                     !.data = x]

-----------------------------------------------------------------------------
(* Disks to start from. *)

EmptyDir(owner) == InodeBlock(NewInode("d", owner))
Dir(owner, bs)  == InodeBlock([type |-> "d", owner |-> owner, blocks |-> bs])
File(owner, bs) == InodeBlock([type |-> "f", owner |-> owner, blocks |-> bs])
Ent(n, i)       == [name |-> n, inode_block |-> i]
Listing(es)     == FolderBlock([j \in 1 .. FS_DIRENTRIES |->
                                  IF j <= Len(es) THEN es[j] ELSE Unused])

(* createfs: an empty root directory. *)
FreshDisk == [k \in Blocks |-> IF k = 0 THEN EmptyDir(NoUser) ELSE DataBlock(Zero)]

(* /a, a directory of u1 that holds the file /a/b with one block. *)
TreeDisk ==
  [k \in Blocks |->
     CASE k = 0 -> Dir(NoUser, <<1>>)
       [] k = 1 -> Listing(<<Ent(a, 2)>>)
       [] k = 2 -> Dir(u1, <<3>>)
       [] k = 3 -> Listing(<<Ent(b, 4)>>)
       [] k = 4 -> File(u1, <<5>>)
       [] k = 5 -> DataBlock(Zero)
       [] OTHER -> DataBlock(Zero)]

-----------------------------------------------------------------------------
(* Sets of requests. *)

(* Two users at /a and below it while u1 has /a/b. *)
RaceRequests ==
  {Create(u1, <<a, b>>, "f"), Create(u1, <<a, c>>, "f"), Create(u2, <<a, c>>, "f"),
   Create(u2, <<b>>, "d"), Delete(u1, <<a>>), Delete(u1, <<a, b>>), Delete(u2, <<a, b>>),
   WriteTo(u1, <<a, b>>, 0), WriteTo(u1, <<a, b>>, 1), Read(u1, <<a, b>>, 0)}

(* Fill the root directory, a file and the disk, take the tree down, and use *)
(* its blocks again; a malformed request and one that fails are included.    *)
HistoryRequests ==
  {Create(u1, <<b>>, "d"), Create(u1, <<c>>, "f"), Create(u1, <<a, c>>, "f"), Create(u1, << >>, "f"),
   Delete(u1, <<a, b>>), Delete(u1, <<a>>), Delete(u1, <<c>>),
   WriteTo(u1, <<a, b>>, 1), WriteTo(u1, <<a, b>>, FS_MAXFILEBLOCKS), Read(u1, <<a, b>>, 0)}

(* Creates that fail and use the disk up. *)
SpaceRequests == {Create(u1, <<n>>, "f") : n \in MCNames}

(* The requests that write more than one block, and those that undo them.   *)
CrashRequests ==
  {Create(u1, <<c>>, "f"), Create(u1, <<a, c>>, "f"), Create(u1, <<a>>, "d"),
   Delete(u1, <<a, b>>), Delete(u1, <<a>>), WriteTo(u1, <<a, b>>, 1)}

ThreadSymmetry == Permutations(Threads)
=============================================================================
