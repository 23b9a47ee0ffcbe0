--------------------------- MODULE IndexScan_proofs ---------------------------
(***************************************************************************)
(* Proofs about IndexScan.  What is marked is in the tree, and whatever a   *)
(* marked inode or directory block refers to is marked or still to do, so   *)
(* that the inodes marked are closed under children once nothing is to do.  *)
(***************************************************************************)
EXTENDS IndexScan, DiskLayout_proofs

(* What is still to do belongs to the tree: a round over blocks[] leads to a *)
(* block of an inode of its type, and one over entries to an inode or       *)
(* nowhere.                                                                 *)
InTree(d, r) ==
  \/ r.loop = "entry" /\ (r.block = 0 \/ r.block \in LiveInodes(d))
  \/ \E b \in LiveInodes(d) : r.loop = AsInode(d[b]).type /\ r.block \in DataBlocksOf(d, b)

(* A block is marked or still to do. *)
Reached(r, marked, rounds) == r.block \in marked \/ \E i \in DOMAIN rounds : rounds[i] = r

ScanInv ==
  /\ disk \in [Blocks -> Content] /\ WellFormed(disk, LiveInodes(disk))
  /\ used \subseteq Live(disk)
  /\ \E S : todo \in Seq(S)
  /\ \A i \in DOMAIN todo : InTree(disk, todo[i])
  /\ used = {} => todo = << >>
  /\ used # {} => 0 \in used
  /\ \A b \in used : disk[b].kind = "inode" =>
       \A i \in Positions(disk, b) :
         Reached(BlockRound(AsInode(disk[b]).type, Block(disk, b, i)), used, todo)
  /\ \A c \in used : disk[c].kind = "dir" =>
       \A j \in 1 .. FS_DIRENTRIES :
         LET n == AsFolders(disk[c])[j].inode_block
         IN  n = 0 \/ Reached(EntryRound(n), used, todo)

(* The kinds of the blocks of a tree. *)
LEMMA TreeKinds ==
  ASSUME NEW d \in [Blocks -> Content], WellFormed(d, LiveInodes(d))
  PROVE  /\ d[0].kind = "inode" /\ 0 \in LiveInodes(d) /\ LiveInodes(d) \subseteq Blocks
         /\ \A b \in LiveInodes(d) : d[b].kind = "inode" /\ AsInode(d[b]).type \in {"d", "f"}
         /\ \A b \in LiveInodes(d) : \A c \in DataBlocksOf(d, b) :
              d[c].kind = IF AsInode(d[b]).type = "d" THEN "dir" ELSE "data"
         /\ \A b \in Live(d) : b \in Blocks /\ (d[b].kind = "inode" => b \in LiveInodes(d))
<1>1. Kinds(d, LiveInodes(d)) /\ 0 \in LiveInodes(d) /\ LiveInodes(d) \subseteq Blocks
  BY LiveInodesLeast, WellFormedMeans
<1>2. \A b \in LiveInodes(d) : AsInode(d[b]).type \in {"d", "f"}
  BY <1>1, InodeFacts
<1>3. \A b \in LiveInodes(d) : \A c \in DataBlocksOf(d, b) :
        d[c].kind = IF AsInode(d[b]).type = "d" THEN "dir" ELSE "data"
  BY <1>1, <1>2 DEF Kinds, DirsIn, FilesIn
<1>4. \A b \in LiveInodes(d) : \A c \in DataBlocksOf(d, b) : c \in Blocks
  BY <1>1, InodeFacts, DataBlocksAre
<1>5. \A b \in Live(d) : b \in LiveInodes(d) \/ \E c \in LiveInodes(d) : b \in DataBlocksOf(d, c)
  BY DEF Live
<1> QED
  BY <1>1, <1>2, <1>3, <1>4, <1>5 DEF Kinds

(* What is in an entry of a directory's block is an inode or nothing. *)
LEMMA EntryLeads ==
  ASSUME NEW d \in [Blocks -> Content], WellFormed(d, LiveInodes(d)),
         NEW b \in LiveInodes(d), AsInode(d[b]).type = "d", NEW c \in DataBlocksOf(d, b),
         NEW j \in 1 .. FS_DIRENTRIES, NEW n, n = AsFolders(d[c])[j].inode_block
  PROVE  n = 0 \/ n \in LiveInodes(d)
<1>1. PICK i \in Positions(d, b) : Block(d, b, i) = c
  BY DataBlocksAre
<1>2. <<i, j>> \in Slots(AsInode(d[b])) /\ EntryAt(d, AsInode(d[b]), <<i, j>>).inode_block = n
  BY <1>1 DEF Slots, Positions, Block, EntryAt
<1>3. n # 0 => n \in ChildrenOf(d, b)
  BY <1>2 DEF ChildrenOf
<1> QED
  BY <1>3, LiveInodesLeast

(* A round over the blocks[] of an inode of the tree is in the tree. *)
LEMMA BlockRoundInTree ==
  ASSUME NEW d, NEW b \in LiveInodes(d), NEW i \in Positions(d, b)
  PROVE  InTree(d, BlockRound(AsInode(d[b]).type, Block(d, b, i)))
<1>1. PICK c : c = Block(d, b, i)
  OBVIOUS
<1>2. c \in DataBlocksOf(d, b)
  BY <1>1, DataBlocksAre
<1>3. PICK r : r = BlockRound(AsInode(d[b]).type, c)
  OBVIOUS
<1>4. r.loop = AsInode(d[b]).type /\ r.block = c
  BY <1>3 DEF BlockRound
<1>5. InTree(d, r)
  BY <1>2, <1>4 DEF InTree
<1> QED
  BY <1>1, <1>3, <1>5

(* The list of rounds. *)
LEMMA RoundsAre ==
  ASSUME NEW d \in [Blocks -> Content], NEW b \in Blocks
  PROVE  /\ \E S : BlockRounds(d[b]) \in Seq(S)
         /\ \E S : EntryRounds(d[b]) \in Seq(S)
         /\ DOMAIN BlockRounds(d[b]) = Positions(d, b)
         /\ \A i \in Positions(d, b) :
              BlockRounds(d[b])[i] = BlockRound(AsInode(d[b]).type, Block(d, b, i))
         /\ DOMAIN EntryRounds(d[b]) = 1 .. FS_DIRENTRIES
         /\ \A j \in 1 .. FS_DIRENTRIES :
              EntryRounds(d[b])[j] = EntryRound(AsFolders(d[b])[j].inode_block)
<1>1. Len(AsInode(d[b]).blocks) \in Nat /\ FS_DIRENTRIES \in Nat
  BY InodeFacts, LayoutAssumption
<1>2. BlockRounds(d[b]) = [i \in Positions(d, b) |-> BlockRound(AsInode(d[b]).type, Block(d, b, i))]
  BY DEF BlockRounds, Positions, Block
<1>3. BlockRounds(d[b])
        \in Seq({BlockRound(AsInode(d[b]).type, Block(d, b, i)) : i \in Positions(d, b)})
  BY <1>1, <1>2 DEF Positions
<1>4. EntryRounds(d[b])
        \in Seq({EntryRound(AsFolders(d[b])[j].inode_block) : j \in 1 .. FS_DIRENTRIES})
  BY <1>1 DEF EntryRounds
<1> QED
  BY <1>2, <1>3, <1>4 DEF EntryRounds

(* The first round is replaced by more of them, and nothing else changes.   *)
Replaced(rounds, more, new) ==
  /\ \A i \in DOMAIN new : \/ \E k \in DOMAIN more : new[i] = more[k]
                           \/ \E k \in DOMAIN rounds : new[i] = rounds[k]
  /\ \A k \in DOMAIN more : \E i \in DOMAIN new : new[i] = more[k]
  /\ \A k \in DOMAIN rounds :
       rounds[k] = Head(rounds) \/ \E i \in DOMAIN new : new[i] = rounds[k]

(* Rounds put in front of the others but the first leave those reached that  *)
(* were, except what was reached as the first.                              *)
LEMMA Pushed ==
  ASSUME NEW U, NEW rounds \in Seq(U), NEW more \in Seq(U), rounds # << >>,
         NEW new, new = more \o Tail(rounds)
  PROVE  new \in Seq(U) /\ Replaced(rounds, more, new)
<1>1. PICK rest \in Seq(U) : rest = Tail(rounds)
  <2>1. Tail(rounds) \in Seq(U)
    OBVIOUS
  <2> QED
    BY <2>1
<1>2. PICK n \in Nat, m \in Nat : n = Len(rest) /\ m = Len(more)
  OBVIOUS
<1>3. /\ DOMAIN rounds = 1 .. n + 1 /\ rounds[1] = Head(rounds)
      /\ \A k \in 1 .. n : rest[k] = rounds[k + 1]
  BY <1>1, <1>2
<1>4. PICK all \in Seq(U) : /\ all = more \o rest /\ DOMAIN all = 1 .. m + n
                            /\ \A i \in 1 .. m + n : all[i] = IF i <= m THEN more[i] ELSE rest[i - m]
  <2>1. /\ more \o rest \in Seq(U) /\ Len(more \o rest) = Len(more) + Len(rest)
        /\ \A i \in 1 .. Len(more) + Len(rest) :
             (more \o rest)[i] = IF i <= Len(more) THEN more[i] ELSE rest[i - Len(more)]
    BY ConcatProperties
  <2>2. PICK all \in Seq(U) : all = more \o rest
    BY <2>1
  <2>3. DOMAIN all = 1 .. Len(all)
    OBVIOUS
  <2> QED
    BY <1>2, <2>1, <2>2, <2>3, Zenon
<1>5. \A i \in 1 .. m + n : i \in 1 .. m \/ (~(i <= m) /\ i - m \in 1 .. n /\ (i - m) + 1 \in 1 .. n + 1)
  OBVIOUS
<1>6. DOMAIN more = 1 .. m
  BY <1>2
<1>7. \A i \in 1 .. m + n : \/ \E k \in DOMAIN more : all[i] = more[k]
                            \/ \E k \in DOMAIN rounds : all[i] = rounds[k]
  <2> SUFFICES ASSUME NEW i \in 1 .. m + n
               PROVE  \/ \E k \in DOMAIN more : all[i] = more[k]
                      \/ \E k \in DOMAIN rounds : all[i] = rounds[k]
    OBVIOUS
  <2>1. CASE i \in 1 .. m
    <3>1. i <= m /\ all[i] = more[i]
      BY <1>4, <2>1
    <3> QED
      BY <1>6, <2>1, <3>1, Zenon
  <2>2. CASE i \notin 1 .. m
    <3>1. ~(i <= m) /\ i - m \in 1 .. n /\ (i - m) + 1 \in 1 .. n + 1
      BY <1>5, <2>2
    <3>2. all[i] = rounds[(i - m) + 1]
      BY <1>3, <1>4, <3>1
    <3> QED
      BY <1>3, <3>1, <3>2
  <2> QED
    BY <2>1, <2>2
<1>8. \A k \in 1 .. m : k \in 1 .. m + n /\ k <= m
  OBVIOUS
<1>9. \A k \in 1 .. n + 1 : k = 1 \/ \E i \in 1 .. m + n : all[i] = rounds[k]
  <2> SUFFICES ASSUME NEW k \in 1 .. n + 1, k # 1 PROVE \E i \in 1 .. m + n : all[i] = rounds[k]
    OBVIOUS
  <2>1. k - 1 \in 1 .. n /\ m + (k - 1) \in 1 .. m + n /\ ~(m + (k - 1) <= m)
        /\ (m + (k - 1)) - m = k - 1 /\ (k - 1) + 1 = k
    OBVIOUS
  <2>2. all[m + (k - 1)] = rounds[k]
    BY <1>3, <1>4, <2>1
  <2> QED
    BY <2>1, <2>2
<1>10. all = new
  BY <1>1, <1>4, Zenon
<1>11. \A k \in DOMAIN more : \E i \in DOMAIN all : all[i] = more[k]
  BY <1>4, <1>6, <1>8
<1>12. \A i \in DOMAIN all : \/ \E k \in DOMAIN more : all[i] = more[k]
                            \/ \E k \in DOMAIN rounds : all[i] = rounds[k]
  BY <1>4, <1>7, Zenon
<1>13. \A k \in DOMAIN rounds :
         rounds[k] = Head(rounds) \/ \E i \in DOMAIN all : all[i] = rounds[k]
  BY <1>3, <1>4, <1>9, Zenon
<1>14. all \in Seq(U)
  OBVIOUS
<1> QED
  BY <1>10, <1>11, <1>12, <1>13, <1>14, Zenon DEF Replaced

(* What a step that replaces the first of the rounds needs to show. *)
LEMMA RoundDone ==
  ASSUME ScanInv, UNCHANGED disk, todo # << >>, NEW T, NEW more \in Seq(T),
         todo' = more \o Tail(todo), used \subseteq used', used' \subseteq Live(disk),
         Head(todo).block \in used', \A k \in DOMAIN more : InTree(disk, more[k]),
         \A b \in used' \ used : disk[b].kind = "inode" =>
           \A i \in Positions(disk, b) :
             \E k \in DOMAIN more : more[k] = BlockRound(AsInode(disk[b]).type, Block(disk, b, i)),
         \A c \in used' \ used : disk[c].kind = "dir" =>
           \A j \in 1 .. FS_DIRENTRIES :
             \E k \in DOMAIN more : more[k] = EntryRound(AsFolders(disk[c])[j].inode_block)
  PROVE  ScanInv'
<1>1. PICK S : todo \in Seq(S)
  BY DEF ScanInv
<1>2. /\ \E U : todo' \in Seq(U)
      /\ \A i \in DOMAIN todo' : \/ \E k \in DOMAIN more : todo'[i] = more[k]
                                 \/ \E k \in DOMAIN todo : todo'[i] = todo[k]
      /\ \A k \in DOMAIN more : \E i \in DOMAIN todo' : todo'[i] = more[k]
      /\ \A k \in DOMAIN todo : todo[k] = Head(todo) \/ \E i \in DOMAIN todo' : todo'[i] = todo[k]
  <2> DEFINE U == S \cup T
  <2>0. todo \in Seq(U) /\ more \in Seq(U)
    BY <1>1, SeqMonotonic
  <2> HIDE DEF U
  <2>1. PICK rounds \in Seq(U) : rounds = todo
    BY <2>0
  <2>2. PICK new : new = todo'
    OBVIOUS
  <2>3. rounds # << >> /\ new = more \o Tail(rounds)
    BY <2>1, <2>2, Zenon
  <2>4. new \in Seq(U) /\ Replaced(rounds, more, new)
    BY <2>0, <2>3, Pushed
  <2>5. Replaced(todo, more, todo')
    BY <2>1, <2>2, <2>4, Zenon
  <2> QED
    BY <2>2, <2>4, <2>5, Zenon DEF Replaced
<1>3. \A i \in DOMAIN todo' : InTree(disk, todo'[i])
  BY <1>2 DEF ScanInv
<1>4. \A r : Reached(r, used, todo) => Reached(r, used', todo')
  <2> SUFFICES ASSUME NEW r, Reached(r, used, todo) PROVE Reached(r, used', todo')
    OBVIOUS
  <2>1. CASE r.block \in used
    BY <2>1, Zenon DEF Reached
  <2>2. CASE r.block \notin used
    <3>1. PICK k \in DOMAIN todo : todo[k] = r
      BY <2>2, Zenon DEF Reached
    <3>2. r = Head(todo) \/ \E i \in DOMAIN todo' : todo'[i] = r
      BY <1>2, <3>1, Zenon
    <3> QED
      BY <3>2, Zenon DEF Reached
  <2> QED
    BY <2>1, <2>2
<1>5. \A k \in DOMAIN more : Reached(more[k], used', todo')
  BY <1>2 DEF Reached
<1>6. used # {} /\ 0 \in used'
  BY DEF ScanInv
<1>7. ASSUME NEW b \in used', disk[b].kind = "inode", NEW i \in Positions(disk, b)
      PROVE  Reached(BlockRound(AsInode(disk[b]).type, Block(disk, b, i)), used', todo')
  BY <1>4, <1>5, <1>7 DEF ScanInv
<1>8. ASSUME NEW c \in used', disk[c].kind = "dir", NEW j \in 1 .. FS_DIRENTRIES,
             NEW n, n = AsFolders(disk[c])[j].inode_block
      PROVE  n = 0 \/ Reached(EntryRound(n), used', todo')
  BY <1>4, <1>5, <1>8 DEF ScanInv
<1>9. disk' = disk
  OBVIOUS
<1> QED
  BY <1>2, <1>3, <1>6, <1>7, <1>8, <1>9 DEF ScanInv, Positions, Block

(* The calls of index_disk_helper. *)
LEMMA EnterKeeps ==
  ASSUME ScanInv, Enter
  PROVE  ScanInv'
<1> DEFINE b == Head(todo).block
<1>1. /\ disk \in [Blocks -> Content] /\ WellFormed(disk, LiveInodes(disk)) /\ UNCHANGED disk
      /\ todo # << >> /\ b # 0 /\ used' = used \cup {b} /\ Head(todo).loop = "entry"
      /\ todo' = BlockRounds(disk[b]) \o Tail(todo) /\ used \subseteq Live(disk)
  BY DEF ScanInv, Enter, Helper
<1>2. Head(todo) = todo[1] /\ 1 \in DOMAIN todo
  BY <1>1 DEF ScanInv
<1>3. InTree(disk, Head(todo))
  BY <1>2 DEF ScanInv
<1>4. b \in LiveInodes(disk)
  BY <1>1, <1>3, TreeKinds DEF InTree
<1>5. b \in Blocks /\ disk[b].kind = "inode" /\ b \in Live(disk)
  BY <1>1, <1>4, TreeKinds DEF Live
<1> DEFINE more == BlockRounds(disk[b])
<1>6. /\ \E T : more \in Seq(T)
      /\ DOMAIN more = Positions(disk, b)
      /\ \A i \in Positions(disk, b) :
           more[i] = BlockRound(AsInode(disk[b]).type, Block(disk, b, i))
  BY <1>1, <1>5, RoundsAre
<1>7. \A k \in DOMAIN more : InTree(disk, more[k])
  <2> HIDE DEF b, more
  <2> SUFFICES ASSUME NEW k \in DOMAIN more PROVE InTree(disk, more[k])
    OBVIOUS
  <2> QED
    BY <1>4, <1>6, BlockRoundInTree
<1> HIDE DEF b, more
<1>8. used \subseteq used' /\ used' \subseteq Live(disk) /\ b \in used'
  BY <1>1, <1>5
<1>9. \A c \in used' \ used : c = b
  BY <1>1
<1> QED
  BY <1>1, <1>5, <1>6, <1>7, <1>8, <1>9, RoundDone DEF b, more

LEMMA PassByKeeps ==
  ASSUME ScanInv, PassBy
  PROVE  ScanInv'
<1>1. /\ UNCHANGED disk /\ todo # << >> /\ used' = used /\ todo' = Tail(todo)
      /\ Head(todo).block \in {0} \cup used /\ used \subseteq Live(disk) /\ 0 \in used
  BY DEF ScanInv, PassBy
<1>2. PICK S : todo \in Seq(S)
  BY DEF ScanInv
<1>3. << >> \in Seq({}) /\ Tail(todo) = << >> \o Tail(todo)
  <2>1. Tail(todo) \in Seq(S)
    BY <1>1, <1>2
  <2> QED
    BY <2>1, EmptySeq, ConcatEmptySeq
<1>4. DOMAIN << >> = {}
  OBVIOUS
<1> QED
  BY <1>1, <1>3, <1>4, RoundDone

(* A round of the loop over blocks[]. *)
LEMMA MarkBlockKeeps ==
  ASSUME ScanInv, MarkBlock
  PROVE  ScanInv'
<1> DEFINE c == Head(todo).block
           more == IF Head(todo).loop = "d" THEN EntryRounds(disk[c]) ELSE << >>
<1>1. /\ disk \in [Blocks -> Content] /\ WellFormed(disk, LiveInodes(disk)) /\ UNCHANGED disk
      /\ todo # << >> /\ used' = used \cup {c} /\ Head(todo).loop # "entry"
      /\ todo' = more \o Tail(todo) /\ used \subseteq Live(disk)
  BY DEF ScanInv, MarkBlock
<1>2. Head(todo) = todo[1] /\ 1 \in DOMAIN todo
  BY <1>1 DEF ScanInv
<1>3. InTree(disk, Head(todo))
  BY <1>2 DEF ScanInv
<1>4. PICK b \in LiveInodes(disk) :
        Head(todo).loop = AsInode(disk[b]).type /\ c \in DataBlocksOf(disk, b)
  BY <1>1, <1>3 DEF InTree
<1>5. c \in Live(disk) /\ c \in Blocks
  BY <1>1, <1>4, TreeKinds DEF Live
<1>6. disk[c].kind = IF Head(todo).loop = "d" THEN "dir" ELSE "data"
  BY <1>1, <1>4, TreeKinds
<1>7. /\ \E T : more \in Seq(T)
      /\ \A k \in DOMAIN more : InTree(disk, more[k])
      /\ disk[c].kind = "dir" => \A j \in 1 .. FS_DIRENTRIES :
           \E k \in DOMAIN more : more[k] = EntryRound(AsFolders(disk[c])[j].inode_block)
  <2>1. CASE Head(todo).loop = "d"
    <3>1. /\ more = EntryRounds(disk[c])
          /\ \E T : more \in Seq(T)
          /\ DOMAIN more = 1 .. FS_DIRENTRIES
          /\ \A j \in 1 .. FS_DIRENTRIES :
               more[j] = EntryRound(AsFolders(disk[c])[j].inode_block)
      BY <1>1, <1>5, <2>1, RoundsAre
    <3> HIDE DEF more
    <3>2. \A j \in 1 .. FS_DIRENTRIES :
            LET n == AsFolders(disk[c])[j].inode_block IN n = 0 \/ n \in LiveInodes(disk)
      BY <1>1, <1>4, <2>1, EntryLeads
    <3>3. \A k \in DOMAIN more : InTree(disk, more[k])
      <4> SUFFICES ASSUME NEW k \in 1 .. FS_DIRENTRIES PROVE InTree(disk, more[k])
        BY <3>1
      <4>1. PICK n : n = AsFolders(disk[c])[k].inode_block
        OBVIOUS
      <4>2. more[k] = EntryRound(n) /\ (n = 0 \/ n \in LiveInodes(disk))
        BY <3>1, <3>2, <4>1
      <4> QED
        BY <4>2 DEF InTree, EntryRound
    <3> QED
      BY <3>1, <3>3
  <2>2. CASE Head(todo).loop # "d"
    <3>1. more = << >> /\ << >> \in Seq({}) /\ DOMAIN << >> = {}
      BY <2>2, EmptySeq
    <3>2. disk[c].kind # "dir"
      BY <1>6, <2>2
    <3> QED
      BY <3>1, <3>2
  <2> QED
    BY <2>1, <2>2
<1> HIDE DEF c, more
<1>8. used \subseteq used' /\ used' \subseteq Live(disk) /\ c \in used'
  BY <1>1, <1>5
<1>9. \A x \in used' \ used : x = c /\ disk[x].kind # "inode"
  BY <1>1, <1>6
<1> QED
  BY <1>1, <1>7, <1>8, <1>9, RoundDone DEF c

(* The call on the root. *)
LEMMA FirstCall ==
  ASSUME ScanInv, index_disk
  PROVE  ScanInv'
<1>1. /\ disk \in [Blocks -> Content] /\ WellFormed(disk, LiveInodes(disk)) /\ disk' = disk
      /\ used' = {0} /\ todo' = BlockRounds(disk[0]) \o << >>
  BY DEF ScanInv, index_disk, Helper
<1>2. 0 \in LiveInodes(disk) /\ disk[0].kind = "inode" /\ 0 \in Blocks /\ 0 \in Live(disk)
  BY <1>1, TreeKinds, BlocksFacts DEF Live
<1>3. /\ \E S : todo' \in Seq(S)
      /\ DOMAIN todo' = Positions(disk, 0)
      /\ \A i \in Positions(disk, 0) :
           todo'[i] = BlockRound(AsInode(disk[0]).type, Block(disk, 0, i))
  <2>1. todo' = BlockRounds(disk[0])
    BY <1>1, <1>2, RoundsAre, ConcatEmptySeq
  <2> QED
    BY <1>1, <1>2, <2>1, RoundsAre
<1>4. \A i \in DOMAIN todo' : InTree(disk, todo'[i])
  BY <1>2, <1>3, BlockRoundInTree
<1>5. \A i \in Positions(disk, 0) :
        Reached(BlockRound(AsInode(disk[0]).type, Block(disk, 0, i)), used', todo')
  BY <1>3 DEF Reached
<1> QED
  BY <1>1, <1>2, <1>3, <1>4, <1>5 DEF ScanInv, Positions, Block

LEMMA NextScan == ScanInv /\ [Next]_vars => ScanInv'
<1> SUFFICES ASSUME ScanInv, [Next]_vars PROVE ScanInv'
  OBVIOUS
<1>1. CASE Next
  BY <1>1, FirstCall, MarkBlockKeeps, EnterKeeps, PassByKeeps DEF Next
<1>2. CASE UNCHANGED vars
  BY <1>2 DEF vars, ScanInv, Positions, Block, Reached
<1> QED
  BY <1>1, <1>2

LEMMA InitScan == Init => ScanInv
<1> SUFFICES ASSUME Init PROVE ScanInv
  OBVIOUS
<1>1. disk \in [Blocks -> Content] /\ used = {} /\ todo = << >>
  BY ScanAssumption DEF Init
<1>2. InodesBelowRoot(disk) = LiveInodes(disk)
  BY <1>1, LiveInodesLeast, BlocksFacts DEF InodesBelowRoot
<1>3. WellFormed(disk, LiveInodes(disk))
  BY <1>2 DEF Init
<1>4. << >> \in Seq({}) /\ DOMAIN << >> = {}
  BY EmptySeq
<1> QED
  BY <1>1, <1>3, <1>4 DEF ScanInv

(* With nothing to do, the inodes marked are closed under children. *)
LEMMA NothingLeft ==
  ASSUME ScanInv, used # {}, todo = << >>
  PROVE  used = IndexDisk(disk)
<1> DEFINE I == {b \in used : disk[b].kind = "inode"}
<1>1. /\ disk \in [Blocks -> Content] /\ WellFormed(disk, LiveInodes(disk))
      /\ used \subseteq Live(disk) /\ 0 \in used
  BY DEF ScanInv
<1>2. \A r : Reached(r, used, todo) => r.block \in used
  BY DEF Reached
<1>3. I \subseteq LiveInodes(disk) /\ 0 \in I
  BY <1>1, TreeKinds
<1>4. ASSUME NEW b \in I PROVE DataBlocksOf(disk, b) \subseteq used
  <2> SUFFICES ASSUME NEW c \in DataBlocksOf(disk, b) PROVE c \in used
    OBVIOUS
  <2>1. PICK i \in Positions(disk, b) : Block(disk, b, i) = c
    BY DataBlocksAre
  <2>2. BlockRound(AsInode(disk[b]).type, c).block \in used
    BY <1>2, <1>4, <2>1 DEF ScanInv
  <2> QED
    BY <2>2 DEF BlockRound
<1>5. ASSUME NEW b \in I PROVE ChildrenOf(disk, b) \subseteq I
  <2> SUFFICES ASSUME NEW n \in ChildrenOf(disk, b) PROVE n \in I
    OBVIOUS
  <2>1. AsInode(disk[b]).type = "d"
    BY DEF ChildrenOf
  <2>2. PICK i \in Positions(disk, b), j \in 1 .. FS_DIRENTRIES :
          n = AsFolders(disk[Block(disk, b, i)])[j].inode_block /\ n # 0
    BY <2>1 DEF ChildrenOf, Slots, EntryAt, Positions, Block
  <2>3. Block(disk, b, i) \in DataBlocksOf(disk, b)
    BY DataBlocksAre
  <2>4. Block(disk, b, i) \in used /\ disk[Block(disk, b, i)].kind = "dir"
    BY <1>1, <1>3, <1>4, <2>1, <2>3, TreeKinds
  <2>5. EntryRound(n).block \in used
    BY <1>2, <2>2, <2>4 DEF ScanInv
  <2>6. n \in LiveInodes(disk)
    BY <1>1, <1>3, LiveInodesLeast
  <2> QED
    BY <1>1, <2>5, <2>6, TreeKinds DEF EntryRound
<1>6. LiveInodes(disk) \subseteq I
  <2> HIDE DEF I
  <2> QED
    BY <1>1, <1>3, <1>5, LiveInodesLeast
<1>7. Live(disk) \subseteq used
  BY <1>4, <1>6 DEF Live
<1> QED
  BY <1>1, <1>7, IndexDiskLive

(* Of any disk that holds a tree, index_disk marks the blocks of the tree    *)
(* and no others, however many directories there are one in another.        *)
THEOREM ScanFindsTree == Spec => []ScanExact
<1>1. ScanInv => ScanExact
  BY NothingLeft DEF ScanExact
<1> QED
  BY <1>1, InitScan, NextScan, PTL DEF Spec
=============================================================================
