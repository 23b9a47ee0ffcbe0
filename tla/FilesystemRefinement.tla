-------------------------- MODULE FilesystemRefinement --------------------------
(***************************************************************************)
(* The file server implements Namespace.  The abstract tree is the tree on  *)
(* the disk; a request takes effect at the step that decides its outcome:   *)
(* the failed check, the last disk write, or the read of the data block.    *)
(***************************************************************************)
EXTENDS FilesystemInvariant, DiskTree

(* The inode in block b at the first k names of a path. *)
PlaceAt(path, k, b) == [path |-> SubSeq(path, 1, k), block |-> b]

(* A thread is where its path leads: the directory it has locked is at the  *)
(* part of the path it has walked, and the inode it works on at its path,   *)
(* although nothing but its locks keeps the entries on the way from being   *)
(* deleted and their blocks from being used elsewhere in the tree.          *)
InPlace(step, r, a, f, d) ==
  /\ HoldsDir(step, r) => PlaceAt(r.path, f.path_index - 1, a.disk_block) \in PathsTo(d)
  /\ step \in OnTarget => PlaceAt(r.path, Len(r.path), f.target) \in PathsTo(d)

WalksItsPath == \A t \in Threads : InPlace(pc[t], req[t], args[t], frame[t], disk)

(* What has not been asked is not answered, and only a read returns data.   *)
Answers(step, r, f) ==
  /\ step = "idle" => r = NoRequest
  /\ f.buf # Zero => step \in {"unlock_target", "reply"} /\ r.op = "read"

(* The invariant under which each step is one of Namespace. *)
RInv == IInv /\ WalksItsPath /\ \A t \in Threads : Answers(pc[t], req[t], frame[t])

-----------------------------------------------------------------------------
NS == INSTANCE Namespace WITH
  InitTree <- TreeOf(InitDisk),
  tree     <- TreeOf(disk),
  pending  <- req,
  outcome  <- [t \in Threads |-> [ret |-> frame[t].ret, buf |-> frame[t].buf]]

(* Requests are linearizable and survive a crash wholly or not at all: each *)
(* step of the server is a step of Namespace or invisible in it.  A read    *)
(* never returns the data of another file or of a block freed meanwhile, a  *)
(* walk hand over hand never fails on an entry that was there throughout.   *)
ImplementsNamespace == NS!Spec
=============================================================================
