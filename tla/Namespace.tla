------------------------------- MODULE Namespace -------------------------------
(***************************************************************************)
(* What a client may rely on (fs_client.h): a tree of directories and       *)
(* files, on which each request takes effect at one instant between its     *)
(* arrival and its response, wholly or not at all, also when the server     *)
(* crashes.                                                                 *)
(***************************************************************************)
EXTENDS Integers, Sequences, FiniteSets

CONSTANTS
  Threads, Requests, NoRequest,
  FS_MAXFILEBLOCKS, NoUser, Zero,
  InitTree       \* the tree before the first start

VARIABLES
  tree,      \* path |-> node, for every file and directory
  pending,   \* the request each thread serves
  outcome    \* what it will answer, once the request has taken effect

vars == <<tree, pending, outcome>>

Undecided        == [ret |-> "none", buf |-> Zero]
Failure          == [ret |-> "fail", buf |-> Zero]
Success(data)    == [ret |-> "ok", buf |-> data]
Node(type, user) == [type |-> type, owner |-> user, data |-> << >>]

Parent(path) == SubSeq(path, 1, Len(path) - 1)
Exists(path) == path \in DOMAIN tree
IsLeaf(path) == \A p \in DOMAIN tree : p = << >> \/ Parent(p) # path

OwnFile(r) == /\ r.path # << >> /\ Exists(r.path)
              /\ tree[r.path].type = "f" /\ tree[r.path].owner = r.user

(* A user creates entries in the root and in their own directories. *)
CanCreate(r) ==
  /\ r.type \in {"f", "d"}
  /\ r.path # << >> /\ ~Exists(r.path) /\ Exists(Parent(r.path))
  /\ tree[Parent(r.path)].type = "d"
  /\ tree[Parent(r.path)].owner \in {NoUser, r.user}

(* A user deletes their own files and empty directories. *)
CanDelete(r) ==
  r.path # << >> /\ Exists(r.path) /\ tree[r.path].owner = r.user /\ IsLeaf(r.path)

CanRead(r) == OwnFile(r) /\ r.block < Len(tree[r.path].data)

(* A write overwrites a block of the file or adds the next one. *)
Extends(r)  == OwnFile(r) /\ r.block = Len(tree[r.path].data)
CanWrite(r) == (CanRead(r) \/ Extends(r)) /\ r.block < FS_MAXFILEBLOCKS

-----------------------------------------------------------------------------
Init ==
  /\ tree = InitTree
  /\ pending = [t \in Threads |-> NoRequest]
  /\ outcome = [t \in Threads |-> Undecided]

Invoke(t) ==
  /\ pending[t] = NoRequest
  /\ \E r \in Requests : pending' = [pending EXCEPT ![t] = r]
  /\ UNCHANGED <<tree, outcome>>

Answer(t, answer) ==
  /\ pending[t] # NoRequest /\ outcome[t] = Undecided
  /\ outcome' = [outcome EXCEPT ![t] = answer]
  /\ UNCHANGED pending

Create(t, r) ==
  /\ Answer(t, Success(Zero))
  /\ r.op = "create" /\ CanCreate(r)
  /\ tree' = [p \in DOMAIN tree \cup {r.path} |->
                IF p = r.path THEN Node(r.type, r.user) ELSE tree[p]]

Delete(t, r) ==
  /\ Answer(t, Success(Zero))
  /\ r.op = "delete" /\ CanDelete(r)
  /\ tree' = [p \in DOMAIN tree \ {r.path} |-> tree[p]]

Read(t, r) ==
  /\ r.op = "read" /\ CanRead(r)
  /\ Answer(t, Success(tree[r.path].data[r.block + 1]))
  /\ UNCHANGED tree

Write(t, r) ==
  /\ Answer(t, Success(Zero))
  /\ r.op = "write" /\ CanWrite(r)
  /\ tree' = [tree EXCEPT ![r.path].data =
                [i \in 1 .. Len(@) \cup {r.block + 1} |-> IF i = r.block + 1 THEN r.data ELSE @[i]]]

Refuse(t, r) ==
  /\ Answer(t, Failure)
  /\ \/ r.op = "create" /\ ~CanCreate(r)
     \/ r.op = "delete" /\ ~CanDelete(r)
     \/ r.op = "read" /\ ~CanRead(r)
     \/ r.op = "write" /\ ~CanWrite(r)
  /\ UNCHANGED tree

(* Out of space: only what needs a block may fail for the lack of one. *)
NoSpace(t, r) ==
  /\ Answer(t, Failure)
  /\ r.op = "create" \/ (r.op = "write" /\ Extends(r))
  /\ UNCHANGED tree

Respond(t) ==
  /\ outcome[t] # Undecided
  /\ pending' = [pending EXCEPT ![t] = NoRequest]
  /\ outcome' = [outcome EXCEPT ![t] = Undecided]
  /\ UNCHANGED tree

Crash ==
  /\ pending' = [t \in Threads |-> NoRequest]
  /\ outcome' = [t \in Threads |-> Undecided]
  /\ UNCHANGED tree

Next ==
  \/ \E t \in Threads :
       \/ Invoke(t) \/ Respond(t)
       \/ Create(t, pending[t]) \/ Delete(t, pending[t]) \/ Read(t, pending[t])
       \/ Write(t, pending[t]) \/ Refuse(t, pending[t]) \/ NoSpace(t, pending[t])
  \/ Crash

Spec == Init /\ [][Next]_vars
=============================================================================
