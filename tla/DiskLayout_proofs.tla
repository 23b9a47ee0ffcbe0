--------------------------- MODULE DiskLayout_proofs ---------------------------
(***************************************************************************)
(* Facts about disks: the types of what is read, what the scan of a         *)
(* directory finds, which inodes are in the tree after one write, and how   *)
(* the write changes the paths to them.                                     *)
(***************************************************************************)
EXTENDS DiskTree, SequencesExt, SequenceTheorems, FiniteSetTheorems, TLAPS

(* A set of naturals that is not empty has a least element. *)
LEMMA Least ==
  ASSUME NEW T \in SUBSET Nat, T # {}
  PROVE  \E x \in T : \A y \in T : x <= y
<1> DEFINE R == OpToRel(<, Nat)
<1>1. IsWellFoundedOn(R, Nat)
  BY NatLessThanWellFounded
<1>2. \A x, y \in Nat : y < x => <<y, x>> \in R
  BY DEF OpToRel
<1> HIDE DEF R
<1>3. PICK x \in T : \A y \in T : ~(<<y, x>> \in R)
  BY <1>1, WFMin
<1>4. SUFFICES ASSUME NEW y \in T PROVE x <= y
  BY <1>3
<1>5. x \in Nat /\ y \in Nat
  OBVIOUS
<1>6. ~(<<y, x>> \in R)
  BY <1>3
<1>7. ~(y < x)
  BY ONLY <1>5, <1>6, <1>2, Zenon
<1> QED
  BY ONLY <1>5, <1>7

-----------------------------------------------------------------------------
(* Lemmas about the data. *)

(* Block 0, the root's inode, exists; block numbers are naturals. *)
LEMMA BlocksFacts == 0 \in Blocks /\ Blocks \subseteq Nat
  BY LayoutAssumption DEF Blocks

(* A cleared block of entries is one. *)
LEMMA EmptyFoldersType == EmptyFolders \in Folders
  BY BlocksFacts DEF EmptyFolders, Folders, Unused, Direntry

(* A list of blocks stays one: when one is appended below the limit, ... *)
LEMMA BlockListAppend ==
  ASSUME NEW s \in BlockList, Len(s) < FS_MAXFILEBLOCKS, NEW b \in Blocks
  PROVE  Append(s, b) \in BlockList
  BY LayoutAssumption DEF BlockList

(* ... and when one is removed. *)
LEMMA BlockListRemoveAt ==
  ASSUME NEW s \in BlockList, NEW i \in 1 .. Len(s)
  PROVE  RemoveAt(s, i) \in BlockList
<1> DEFINE front == SubSeq(s, 1, i - 1)
           back  == SubSeq(s, i + 1, Len(s))
<1>1. s \in Seq(Blocks) /\ Len(s) \in Nat /\ Len(s) <= FS_MAXFILEBLOCKS
  BY DEF BlockList
<1>2. front \in Seq(Blocks) /\ Len(front) = i - 1
  BY <1>1
<1>3. back \in Seq(Blocks) /\ Len(back) = Len(s) - i
  BY <1>1
<1>4. front \o back \in Seq(Blocks) /\ Len(front \o back) = Len(s) - 1
  <2> HIDE DEF front, back
  <2>1. front \o back \in Seq(Blocks) /\ Len(front \o back) = (i - 1) + (Len(s) - i)
    <3>1. front \in Seq(Blocks) /\ back \in Seq(Blocks)
      BY <1>2, <1>3
    <3>2. front \o back \in Seq(Blocks) /\ Len(front \o back) = Len(front) + Len(back)
      BY <3>1, ConcatProperties, Zenon
    <3> QED
      BY <1>2, <1>3, <3>2
  <2> QED
    BY <1>1, <2>1
<1>5. RemoveAt(s, i) = front \o back
  BY DEF RemoveAt
<1> HIDE DEF front, back
<1> QED
  BY <1>1, <1>4, <1>5, LayoutAssumption DEF BlockList

(* Each entry of blocks[] below size is a block. *)
LEMMA BlockListBlocks ==
  ASSUME NEW s \in BlockList, NEW i \in 1 .. Len(s)
  PROVE  s[i] \in Blocks
  BY DEF BlockList

(* The inode create_entry writes is an inode. *)
LEMMA NewInodeType ==
  ASSUME NEW type \in {"f", "d"}, NEW user \in Users \cup {NoUser}
  PROVE  NewInode(type, user) \in Inode
<1>1. << >> \in BlockList
  BY LayoutAssumption DEF BlockList
<1> QED
  BY <1>1 DEF NewInode, Inode

(* Reading a block gives a value of the structure it is read into. *)
LEMMA ReadTypes ==
  ASSUME NEW c \in Content
  PROVE  AsInode(c) \in Inode /\ AsFolders(c) \in Folders /\ AsData(c) \in Data
<1>1. AsInode(c) \in Inode
  BY NewInodeType DEF AsInode, Content
<1>2. AsFolders(c) \in Folders
  BY EmptyFoldersType DEF AsFolders, Content
<1>3. AsData(c) \in Data
  BY LayoutAssumption DEF AsData, Content
<1> QED
  BY <1>1, <1>2, <1>3

(* search_directory returns a position of the block of entries it returns,  *)
(* and one inside the directory when it finds the name.                     *)
LEMMA SearchDirectoryType ==
  ASSUME NEW d \in [Blocks -> Content], NEW inode \in Inode, NEW name,
         NEW s \in SearchDirectory(d, inode, name)
  PROVE  /\ s.found \in BOOLEAN
         /\ s.blocks_index \in Nat
         /\ s.folder_index \in 1 .. FS_DIRENTRIES
         /\ s.folders \in Folders
         /\ s.found => s.blocks_index \in 1 .. Len(inode.blocks)
<1> DEFINE At(r, found) == [found |-> found, blocks_index |-> r[1], folder_index |-> r[2],
                            folders |-> AsFolders(d[inode.blocks[r[1]]])]
           last == [found |-> FALSE, blocks_index |-> Len(inode.blocks) + 1,
                    folder_index |-> 1, folders |-> EmptyFolders]
<1>1. inode.blocks \in BlockList /\ Len(inode.blocks) \in Nat
  BY DEF Inode, BlockList
<1>2. ASSUME NEW r \in Slots(inode)
      PROVE  /\ r[1] \in 1 .. Len(inode.blocks) /\ r[1] \in Nat
             /\ r[2] \in 1 .. FS_DIRENTRIES
             /\ AsFolders(d[inode.blocks[r[1]]]) \in Folders
  <2>1. r[1] \in 1 .. Len(inode.blocks) /\ r[2] \in 1 .. FS_DIRENTRIES
    BY DEF Slots
  <2>2. inode.blocks[r[1]] \in Blocks
    BY <1>1, <2>1, BlockListBlocks
  <2> QED
    BY <1>1, <2>1, <2>2, ReadTypes
<1>3. \/ \E r \in Slots(inode), found \in BOOLEAN : s = At(r, found)
      \/ s = last
  BY DEF SearchDirectory, FirstOf, Hits, Holes
<1>4. CASE \E r \in Slots(inode), found \in BOOLEAN : s = At(r, found)
  BY <1>2, <1>4
<1>5. CASE s = last
  BY <1>1, <1>5, EmptyFoldersType, LayoutAssumption
<1> QED
  BY <1>3, <1>4, <1>5

-----------------------------------------------------------------------------
(* The tree.  LiveInodes is the least set that holds the root and the        *)
(* children of its members: it is as deep as the disk has blocks, so one     *)
(* more level adds nothing.                                                 *)

Grow(d, S) == S \cup UNION {ChildrenOf(d, b) : b \in S}

Deeper(d, F) == [b \in Blocks |-> {b} \cup UNION {F[c] : c \in ChildrenOf(d, b)}]

LevelsTo(d, n, g) ==
  g[0] = [b \in Blocks |-> {b}] /\ \A k \in 1 .. n : g[k] = Deeper(d, g[k - 1])

Levels(d) ==
  CHOOSE W : W = [n \in Nat |->
    [b \in Blocks |->
       {b} \cup IF n = 0 THEN {} ELSE UNION {W[n - 1][c] : c \in ChildrenOf(d, b)}]]

(* The recursion has a solution. *)
LEMMA LevelsDefined ==
  ASSUME NEW d
  PROVE  /\ Levels(d)[0] = [b \in Blocks |-> {b}]
         /\ \A n \in Nat : Levels(d)[n + 1] = Deeper(d, Levels(d)[n])
<1>1. \A n \in Nat : \E g : LevelsTo(d, n, g)
  <2> DEFINE Bad == {n \in Nat : ~ \E g : LevelsTo(d, n, g)}
  <2>1. SUFFICES ASSUME Bad # {} PROVE FALSE
    OBVIOUS
  <2>2. PICK n \in Bad : \A m \in Bad : n <= m
    BY <2>1, Least
  <2>3. n # 0
    <3>1. LevelsTo(d, 0, [k \in {0} |-> [b \in Blocks |-> {b}]])
      BY DEF LevelsTo
    <3> QED
      BY <3>1
  <2>4. PICK g : LevelsTo(d, n - 1, g)
    BY <2>2, <2>3
  <2> DEFINE h == [k \in 0 .. n |-> IF k = n THEN Deeper(d, g[n - 1]) ELSE g[k]]
  <2>5. h[0] = [b \in Blocks |-> {b}] /\ \A k \in 1 .. n : h[k] = Deeper(d, h[k - 1])
    BY <2>3, <2>4 DEF LevelsTo
  <2>6. LevelsTo(d, n, h)
    BY <2>5 DEF LevelsTo
  <2> QED
    BY <2>6
<1>2. ASSUME NEW g, NEW h, NEW n \in Nat, NEW m \in Nat, n <= m,
             LevelsTo(d, n, g), LevelsTo(d, m, h)
      PROVE  g[n] = h[n]
  <2> DEFINE Bad == {k \in Nat : k <= n /\ g[k] # h[k]}
  <2>1. SUFFICES ASSUME Bad # {} PROVE FALSE
    OBVIOUS
  <2>2. PICK k \in Bad : \A j \in Bad : k <= j
    BY <2>1, Least
  <2>3. k # 0
    BY <1>2 DEF LevelsTo
  <2>4. g[k - 1] = h[k - 1]
    BY <2>2, <2>3
  <2> QED
    BY <1>2, <2>3, <2>4 DEF LevelsTo
<1> DEFINE G(n) == CHOOSE g : LevelsTo(d, n, g)
           F == [n \in Nat |-> G(n)[n]]
<1>3. \A n \in Nat : LevelsTo(d, n, G(n))
  BY <1>1
<1> HIDE DEF G
<1>4. F[0] = [b \in Blocks |-> {b}]
  BY <1>3 DEF LevelsTo
<1>5. ASSUME NEW n \in Nat PROVE F[n + 1] = Deeper(d, F[n])
  <2>1. LevelsTo(d, n, G(n)) /\ LevelsTo(d, n + 1, G(n + 1))
    BY <1>3
  <2>2. G(n)[n] = G(n + 1)[n]
    BY <1>2, <2>1
  <2>3. G(n + 1)[n + 1] = Deeper(d, G(n + 1)[n])
    BY <2>1 DEF LevelsTo
  <2> QED
    BY <2>2, <2>3
<1> DEFINE Rec(W) == [n \in Nat |->
             [b \in Blocks |->
                {b} \cup IF n = 0 THEN {} ELSE UNION {W[n - 1][c] : c \in ChildrenOf(d, b)}]]
<1>6. F = Rec(F)
  <2>1. ASSUME NEW n \in Nat PROVE F[n] = Rec(F)[n]
    <3>1. CASE n = 0
      BY <1>4, <3>1
    <3>2. CASE n # 0
      <4>1. n - 1 \in Nat /\ (n - 1) + 1 = n
        BY <3>2
      <4>2. F[n] = Deeper(d, F[n - 1])
        BY <1>5, <4>1
      <4> HIDE DEF F
      <4> QED
        BY <3>2, <4>2 DEF Deeper
    <3> QED
      BY <3>1, <3>2
  <2>2. Rec(F) = [n \in Nat |-> Rec(F)[n]] /\ F = [n \in Nat |-> F[n]]
    OBVIOUS
  <2> HIDE DEF F, Rec
  <2> QED
    BY <2>1, <2>2
<1>7. Levels(d) = Rec(Levels(d))
  <2> HIDE DEF F
  <2> QED
    BY <1>6 DEF Levels
<1>8. ASSUME NEW n \in Nat PROVE Levels(d)[n + 1] = Deeper(d, Levels(d)[n])
  <2>1. Levels(d)[n + 1] = Rec(Levels(d))[n + 1]
    BY <1>7
  <2>2. n + 1 \in Nat /\ n + 1 # 0 /\ (n + 1) - 1 = n
    OBVIOUS
  <2>3. Rec(Levels(d))[n + 1] = Deeper(d, Levels(d)[n])
    BY <2>2 DEF Deeper
  <2> QED
    BY <2>1, <2>3
<1> QED
  BY <1>7, <1>8, ZenonT(40)

(* The children of an inode are blocks other than the root's. *)
LEMMA ChildrenType ==
  ASSUME NEW d \in [Blocks -> Content], NEW b \in Blocks
  PROVE  ChildrenOf(d, b) \subseteq Blocks \ {0}
<1>1. AsInode(d[b]) \in Inode
  BY ReadTypes
<1>2. ASSUME NEW s \in Slots(AsInode(d[b]))
      PROVE  EntryAt(d, AsInode(d[b]), s).inode_block \in Blocks
  <2>1. AsInode(d[b]).blocks[s[1]] \in Blocks /\ s[2] \in 1 .. FS_DIRENTRIES
    BY <1>1, BlockListBlocks DEF Slots, Inode
  <2>2. AsFolders(d[AsInode(d[b]).blocks[s[1]]]) \in Folders
    BY <2>1, ReadTypes
  <2> QED
    BY <2>1, <2>2 DEF EntryAt, Folders, Direntry
<1> QED
  BY <1>2 DEF ChildrenOf

(* One level more is the children of the last. *)
LEMMA LevelsGrow ==
  ASSUME NEW d \in [Blocks -> Content], NEW n \in Nat, NEW b \in Blocks
  PROVE  Levels(d)[n + 1][b] = Grow(d, Levels(d)[n][b])
<1> DEFINE L == Levels(d)
           Bad == {k \in Nat : \E x \in Blocks : L[k + 1][x] # Grow(d, L[k][x])}
<1>1. /\ \A x \in Blocks : L[0][x] = {x}
      /\ \A k \in Nat : \A x \in Blocks :
           L[k + 1][x] = {x} \cup UNION {L[k][c] : c \in ChildrenOf(d, x)}
  <2>1. L[0] = [x \in Blocks |-> {x}]
    BY LevelsDefined
  <2>2. \A k \in Nat : L[k + 1] = Deeper(d, L[k])
    BY LevelsDefined
  <2> HIDE DEF L
  <2>3. ASSUME NEW k \in Nat, NEW x \in Blocks
        PROVE  L[k + 1][x] = {x} \cup UNION {L[k][c] : c \in ChildrenOf(d, x)}
    <3>1. L[k + 1] = Deeper(d, L[k])
      BY <2>2
    <3> QED
      BY <3>1 DEF Deeper
  <2> QED
    BY <2>1, <2>3
<1> HIDE DEF L
<1>2. SUFFICES ASSUME Bad # {} PROVE FALSE
  BY DEF L
<1>3. PICK k \in Bad : \A j \in Bad : k <= j
  BY <1>2, Least
<1>4. PICK x \in Blocks : L[k + 1][x] # Grow(d, L[k][x])
  OBVIOUS
<1>5. ChildrenOf(d, x) \subseteq Blocks
  BY ChildrenType
<1>6. L[k + 1][x] = {x} \cup UNION {L[k][c] : c \in ChildrenOf(d, x)}
  BY <1>1
<1>7. k # 0
  <2>1. SUFFICES ASSUME k = 0 PROVE FALSE
    OBVIOUS
  <2>2. \A c \in ChildrenOf(d, x) : L[0][c] = {c}
    BY <1>1, <1>5
  <2>3. UNION {L[0][c] : c \in ChildrenOf(d, x)} = ChildrenOf(d, x)
    BY <2>2
  <2> QED
    BY <1>1, <1>4, <1>6, <2>1, <2>3 DEF Grow
<1>8. k - 1 \in Nat /\ (k - 1) + 1 = k /\ k - 1 \notin Bad
  BY <1>3, <1>7
<1>9. \A c \in ChildrenOf(d, x) : L[k][c] = Grow(d, L[k - 1][c])
  BY <1>5, <1>8
<1>10. L[k][x] = {x} \cup UNION {L[k - 1][c] : c \in ChildrenOf(d, x)}
  BY <1>1, <1>8
<1>11. \A c \in ChildrenOf(d, x) : c \in L[k - 1][c]
  <2>1. CASE k - 1 = 0
    BY <1>1, <1>5, <2>1
  <2>2. CASE k - 1 # 0
    <3>1. k - 2 \in Nat /\ (k - 2) + 1 = k - 1
      BY <1>8, <2>2
    <3> QED
      BY <1>1, <1>5, <3>1
  <2> QED
    BY <2>1, <2>2
<1>12. L[k + 1][x] \subseteq Grow(d, L[k][x])
  BY <1>6, <1>9, <1>10 DEF Grow
<1>13. Grow(d, L[k][x]) \subseteq L[k + 1][x]
  <2>1. SUFFICES ASSUME NEW y \in Grow(d, L[k][x]) PROVE y \in L[k + 1][x]
    OBVIOUS
  <2>2. CASE y \in {x} \cup ChildrenOf(d, x)
    BY <1>6, <1>9, <1>11, <2>2 DEF Grow
  <2>3. CASE \E c \in ChildrenOf(d, x) : y \in Grow(d, L[k - 1][c])
    BY <1>6, <1>9, <2>3
  <2> QED
    BY <1>10, <2>2, <2>3 DEF Grow
<1> QED
  BY <1>4, <1>12, <1>13

(* LiveInodes is a set of blocks that holds the root and the children of    *)
(* its members, and the least one.                                          *)
LEMMA LiveInodesLeast ==
  ASSUME NEW d \in [Blocks -> Content]
  PROVE  /\ 0 \in LiveInodes(d) /\ LiveInodes(d) \subseteq Blocks
         /\ \A x \in LiveInodes(d) : ChildrenOf(d, x) \subseteq LiveInodes(d)
         /\ \A S : 0 \in S /\ (\A x \in S : ChildrenOf(d, x) \subseteq S) => LiveInodes(d) \subseteq S
<1> DEFINE W == [n \in Nat |-> Levels(d)[n][0]]
<1>1. W[0] = {0} /\ \A n \in Nat : W[n + 1] = Grow(d, W[n])
  <2>1. Levels(d)[0] = [b \in Blocks |-> {b}] /\ 0 \in Blocks
    BY LevelsDefined, BlocksFacts
  <2>2. W[0] = {0}
    BY <2>1
  <2>3. ASSUME NEW n \in Nat PROVE W[n + 1] = Grow(d, W[n])
    <3>1. Levels(d)[n + 1][0] = Grow(d, Levels(d)[n][0])
      BY <2>1, LevelsGrow
    <3>2. W[n + 1] = Levels(d)[n + 1][0] /\ W[n] = Levels(d)[n][0]
      OBVIOUS
    <3> QED
      BY <3>1, <3>2
  <2> QED
    BY <2>2, <2>3
<1>2. LiveInodes(d) = W[FS_DISKSIZE]
  BY LayoutAssumption DEF LiveInodes, Levels
<1> HIDE DEF W
<1>3. \A n \in Nat : W[n] \subseteq Blocks
  <2> DEFINE Bad == {n \in Nat : ~ (W[n] \subseteq Blocks)}
  <2>1. SUFFICES ASSUME Bad # {} PROVE FALSE
    OBVIOUS
  <2>2. PICK n \in Bad : \A m \in Bad : n <= m
    BY <2>1, Least
  <2>3. n # 0
    BY <1>1, BlocksFacts
  <2>4. n - 1 \in Nat /\ W[n - 1] \subseteq Blocks /\ (n - 1) + 1 = n
    BY <2>2, <2>3
  <2>5. W[n] = Grow(d, W[n - 1])
    BY <1>1, <2>4
  <2> QED
    BY <2>4, <2>5, ChildrenType DEF Grow
<1>4. \A S : 0 \in S /\ (\A x \in S : ChildrenOf(d, x) \subseteq S) => \A n \in Nat : W[n] \subseteq S
  <2> TAKE S
  <2> HAVE 0 \in S /\ (\A x \in S : ChildrenOf(d, x) \subseteq S)
  <2> DEFINE Bad == {n \in Nat : ~ (W[n] \subseteq S)}
  <2>1. SUFFICES ASSUME Bad # {} PROVE FALSE
    OBVIOUS
  <2>2. PICK n \in Bad : \A m \in Bad : n <= m
    BY <2>1, Least
  <2>3. n # 0
    BY <1>1
  <2>4. n - 1 \in Nat /\ W[n - 1] \subseteq S /\ (n - 1) + 1 = n
    BY <2>2, <2>3
  <2>5. W[n] = Grow(d, W[n - 1])
    BY <1>1, <2>4
  <2> QED
    BY <2>4, <2>5 DEF Grow
<1>5. \A n \in Nat : W[n] \subseteq W[n + 1]
  BY <1>1 DEF Grow
<1>6. \A n \in Nat : 0 \in W[n]
  <2> DEFINE Bad == {n \in Nat : 0 \notin W[n]}
  <2>1. SUFFICES ASSUME Bad # {} PROVE FALSE
    OBVIOUS
  <2>2. PICK n \in Bad : \A m \in Bad : n <= m
    BY <2>1, Least
  <2>3. n # 0
    BY <1>1
  <2>4. n - 1 \in Nat /\ 0 \in W[n - 1] /\ (n - 1) + 1 = n
    BY <2>2, <2>3
  <2> QED
    BY <1>5, <2>4
(* Each level that is not the last has more members than there are levels   *)
(* above it, so level FS_DISKSIZE is the last at the latest.                *)
<1>7. Grow(d, W[FS_DISKSIZE]) = W[FS_DISKSIZE]
  <2>1. SUFFICES ASSUME Grow(d, W[FS_DISKSIZE]) # W[FS_DISKSIZE] PROVE FALSE
    OBVIOUS
  <2>2. IsFiniteSet(Blocks) /\ Cardinality(Blocks) = FS_DISKSIZE
    <3>1. FS_DISKSIZE - 1 \in Int /\ 0 \in Int /\ ~(0 > FS_DISKSIZE - 1)
          /\ (FS_DISKSIZE - 1) - 0 + 1 = FS_DISKSIZE
      BY LayoutAssumption
    <3> QED
      BY <3>1, FS_Interval DEF Blocks
  <2>3. \A n \in Nat : IsFiniteSet(W[n]) /\ Cardinality(W[n]) \in Nat
                       /\ Cardinality(W[n]) <= FS_DISKSIZE
    BY <1>3, <2>2, FS_Subset, FS_CardinalityType
  (* A level that adds nothing is followed by such levels. *)
  <2>4. \A n \in 0 .. FS_DISKSIZE : W[n] # W[n + 1]
    <3> SUFFICES ASSUME NEW n \in 0 .. FS_DISKSIZE, W[n] = W[n + 1] PROVE FALSE
      OBVIOUS
    <3> DEFINE Bad == {m \in Nat : n <= m /\ W[m] # W[n]}
    <3>1. FS_DISKSIZE \in Nat /\ n \in Nat
      BY LayoutAssumption
    <3>2. Bad = {}
      <4>1. SUFFICES ASSUME Bad # {} PROVE FALSE
        OBVIOUS
      <4>2. PICK m \in Bad : \A k \in Bad : m <= k
        BY <4>1, Least
      <4>3. m # n /\ m \in Nat /\ n <= m
        BY <4>2
      <4>4. m - 1 \in Nat /\ n <= m - 1 /\ (m - 1) + 1 = m
        BY <3>1, <4>3
      <4>5. W[m - 1] = W[n]
        BY <4>2, <4>4
      <4>6. W[m] = Grow(d, W[m - 1]) /\ W[n + 1] = Grow(d, W[n])
        BY <1>1, <3>1, <4>4
      <4> QED
        BY <4>2, <4>5, <4>6
    <3>3. W[FS_DISKSIZE] = W[n] /\ W[FS_DISKSIZE + 1] = W[n]
      BY <3>1, <3>2
    <3> QED
      BY <1>1, <2>1, <3>1, <3>3
  <2>5. \A n \in Nat : n <= FS_DISKSIZE => n + 1 <= Cardinality(W[n])
    <3> DEFINE Bad == {n \in Nat : n <= FS_DISKSIZE /\ ~(n + 1 <= Cardinality(W[n]))}
    <3>1. SUFFICES ASSUME Bad # {} PROVE FALSE
      OBVIOUS
    <3>2. PICK n \in Bad : \A m \in Bad : n <= m
      BY <3>1, Least
    <3>3. n # 0
      BY <1>1, <3>2, FS_Singleton
    <3>4. n - 1 \in Nat /\ n - 1 <= FS_DISKSIZE /\ (n - 1) + 1 = n /\ n \in Nat
      BY <3>2, <3>3, LayoutAssumption
    <3>5. n <= Cardinality(W[n - 1])
      BY <3>2, <3>4
    <3>6. W[n - 1] \subseteq W[n] /\ W[n - 1] # W[n]
      BY <1>5, <2>4, <3>4, LayoutAssumption
    <3>7. Cardinality(W[n - 1]) # Cardinality(W[n]) /\ Cardinality(W[n - 1]) <= Cardinality(W[n])
      BY <2>3, <3>4, <3>6, FS_Subset
    <3>8. Cardinality(W[n - 1]) \in Nat /\ Cardinality(W[n]) \in Nat
      BY <2>3, <3>4
    <3> QED
      BY <3>2, <3>4, <3>5, <3>7, <3>8
  <2> QED
    BY <2>3, <2>5, LayoutAssumption
<1>8. \A x \in W[FS_DISKSIZE] : ChildrenOf(d, x) \subseteq W[FS_DISKSIZE]
  BY <1>7 DEF Grow
<1> QED
  BY <1>2, <1>3, <1>4, <1>6, <1>8, LayoutAssumption

(* What index_disk marks is the tree. *)
LEMMA IndexDiskLive ==
  ASSUME NEW d \in [Blocks -> Content]
  PROVE  IndexDisk(d) = Live(d)
<1>1. InodesBelowRoot(d) = LiveInodes(d)
  BY LiveInodesLeast, BlocksFacts DEF InodesBelowRoot
<1> QED
  BY <1>1 DEF IndexDisk, Live

-----------------------------------------------------------------------------
(* WellFormed without the records that stand for references. *)

Block(d, b, i) == AsInode(d[b]).blocks[i]
Target(d, b, s) == EntryAt(d, AsInode(d[b]), s).inode_block
Positions(d, b) == 1 .. Len(AsInode(d[b]).blocks)

ReferencedOnce(d, I) ==
  /\ \A b \in I : \A i \in Positions(d, b) : Block(d, b, i) # 0
  /\ \A b, c \in I : \A i \in Positions(d, b), j \in Positions(d, c) :
       Block(d, b, i) = Block(d, c, j) => b = c /\ i = j
  /\ \A b, c \in DirsIn(d, I) : \A s \in Entries(d, b), r \in Entries(d, c) :
       Target(d, b, s) = Target(d, c, r) => b = c /\ s = r
  /\ \A b \in I, c \in DirsIn(d, I) : \A i \in Positions(d, b), r \in Entries(d, c) :
       Block(d, b, i) # Target(d, c, r)

Kinds(d, I) ==
  /\ d[0].kind = "inode" /\ AsInode(d[0]).type = "d" /\ AsInode(d[0]).owner = NoUser
  /\ \A b \in I : d[b].kind = "inode"
  /\ \A b \in DirsIn(d, I) : \A c \in DataBlocksOf(d, b) : d[c].kind = "dir"
  /\ \A b \in FilesIn(d, I) : \A c \in DataBlocksOf(d, b) : d[c].kind = "data"

(* WellFormed says which kinds the blocks have and that each block is       *)
(* referenced once.                                                         *)
LEMMA WellFormedMeans ==
  ASSUME NEW d \in [Blocks -> Content], NEW I \in SUBSET Blocks
  PROVE  WellFormed(d, I) <=> Kinds(d, I) /\ ReferencedOnce(d, I)
<1> DEFINE B(b, i) == [from |-> b, slot |-> <<i, 0>>, to |-> Block(d, b, i)]
           E(b, s) == [from |-> b, slot |-> s, to |-> Target(d, b, s)]
           R == References(d, I)
<1>1. \A r : r \in R <=> \/ \E b \in I : \E i \in Positions(d, b) : r = B(b, i)
                        \/ \E b \in DirsIn(d, I) : \E s \in Entries(d, b) : r = E(b, s)
  <2> DEFINE RB == UNION {{B(b, i) : i \in Positions(d, b)} : b \in I}
             RE == UNION {{E(b, s) : s \in Entries(d, b)} : b \in DirsIn(d, I)}
  <2>1. R = RB \cup RE
    BY DEF References, Positions, Block, Target
  <2>2. \A r : r \in RB <=> \E b \in I : \E i \in Positions(d, b) : r = B(b, i)
    <3> HIDE DEF B
    <3> QED
      OBVIOUS
  <2>3. \A r : r \in RE <=> \E b \in DirsIn(d, I) : \E s \in Entries(d, b) : r = E(b, s)
    <3> HIDE DEF E
    <3> QED
      OBVIOUS
  <2> HIDE DEF B, E, R, RB, RE
  <2> QED
    BY <2>1, <2>2, <2>3
<1> HIDE DEF R
<1>2. \A b \in I : \A i \in Positions(d, b) : B(b, i) \in R
  BY <1>1
<1>3. \A b \in DirsIn(d, I) : \A s \in Entries(d, b) : E(b, s) \in R
  BY <1>1
<1>4. \A b : \A s \in Entries(d, b) :
        Target(d, b, s) # 0 /\ s[2] \in 1 .. FS_DIRENTRIES /\ s = <<s[1], s[2]>>
  BY DEF Entries, Slots, Target
<1>5. \A b, c, i, j : B(b, i) = B(c, j) <=> b = c /\ i = j
  OBVIOUS
<1>6. \A b, c, s, r : E(b, s) = E(c, r) <=> b = c /\ s = r
  OBVIOUS
<1>7. \A b, c, i : \A s \in Entries(d, c) : B(b, i) # E(c, s)
  <2> SUFFICES ASSUME NEW b, NEW c, NEW i, NEW s \in Entries(d, c), B(b, i) = E(c, s) PROVE FALSE
    OBVIOUS
  <2>1. s = <<i, 0>>
    OBVIOUS
  <2>2. s[2] = 0
    BY <2>1
  <2> QED
    BY <1>4, <2>2
<1>8. \A b, i : B(b, i).to = Block(d, b, i)
  OBVIOUS
<1>9. \A b, s : E(b, s).to = Target(d, b, s)
  OBVIOUS
<1> HIDE DEF B, E
<1>10. (\A r \in R : r.to # 0) <=> \A b \in I : \A i \in Positions(d, b) : Block(d, b, i) # 0
  BY <1>1, <1>2, <1>4, <1>8, <1>9
<1>11. ASSUME \A r1, r2 \in R : r1.to = r2.to => r1 = r2, \A r \in R : r.to # 0
       PROVE  ReferencedOnce(d, I)
  <2>1. \A b, c \in I : \A i \in Positions(d, b), j \in Positions(d, c) :
          Block(d, b, i) = Block(d, c, j) => b = c /\ i = j
    BY <1>2, <1>5, <1>8, <1>11
  <2>2. \A b, c \in DirsIn(d, I) : \A s \in Entries(d, b), r \in Entries(d, c) :
          Target(d, b, s) = Target(d, c, r) => b = c /\ s = r
    BY <1>3, <1>6, <1>9, <1>11
  <2>3. \A b \in I, c \in DirsIn(d, I) : \A i \in Positions(d, b), r \in Entries(d, c) :
          Block(d, b, i) # Target(d, c, r)
    BY <1>2, <1>3, <1>7, <1>8, <1>9, <1>11
  <2> QED
    BY <1>10, <1>11, <2>1, <2>2, <2>3 DEF ReferencedOnce
<1>12. ASSUME ReferencedOnce(d, I), NEW r1 \in R, NEW r2 \in R, r1.to = r2.to
       PROVE  r1 = r2
  <2>1. CASE \E b, c \in I : \E i \in Positions(d, b), j \in Positions(d, c) :
               r1 = B(b, i) /\ r2 = B(c, j)
    BY <1>5, <1>8, <1>12, <2>1 DEF ReferencedOnce
  <2>2. CASE \E b, c \in DirsIn(d, I) : \E s \in Entries(d, b), r \in Entries(d, c) :
               r1 = E(b, s) /\ r2 = E(c, r)
    BY <1>6, <1>9, <1>12, <2>2 DEF ReferencedOnce
  <2>3. CASE \E b \in I, c \in DirsIn(d, I) : \E i \in Positions(d, b), r \in Entries(d, c) :
               \/ r1 = B(b, i) /\ r2 = E(c, r)
               \/ r2 = B(b, i) /\ r1 = E(c, r)
    BY <1>8, <1>9, <1>12, <2>3 DEF ReferencedOnce
  <2> QED
    BY <1>1, <2>1, <2>2, <2>3
<1>13. (\A r \in R : r.to # 0) /\ (\A r1, r2 \in R : r1.to = r2.to => r1 = r2)
         <=> ReferencedOnce(d, I)
  BY <1>10, <1>11, <1>12 DEF ReferencedOnce
<1> QED
  BY <1>13 DEF WellFormed, Kinds, R

-----------------------------------------------------------------------------
(* A sound disk, inode by inode. *)

IsDir(d, b)  == AsInode(d[b]).type = "d"
Name(d, b, s) == EntryAt(d, AsInode(d[b]), s).name
Refs(d, b)   == DataBlocksOf(d, b) \cup ChildrenOf(d, b)

SoundInode(d, b) ==
  /\ d[b].kind = "inode"
  /\ \A i \in Positions(d, b) :
       Block(d, b, i) # 0 /\ d[Block(d, b, i)].kind = IF IsDir(d, b) THEN "dir" ELSE "data"
  /\ \A i, j \in Positions(d, b) : Block(d, b, i) = Block(d, b, j) => i = j
  /\ IsDir(d, b) =>
       /\ \A s, r \in Entries(d, b) : Target(d, b, s) = Target(d, b, r) => s = r
       /\ \A s, r \in Entries(d, b) : Name(d, b, s) = Name(d, b, r) => s = r
       /\ \A i \in Positions(d, b) : \A s \in Entries(d, b) : Block(d, b, i) # Target(d, b, s)
       /\ \A i \in Positions(d, b) : \E s \in Entries(d, b) : s[1] = i
       /\ \A c \in ChildrenOf(d, b) :
            AsInode(d[c]).owner \in
              IF AsInode(d[b]).owner = NoUser THEN Users ELSE {AsInode(d[b]).owner}

SoundRoot(d) == IsDir(d, 0) /\ AsInode(d[0]).owner = NoUser

(* An inode's type is file or directory, and its blocks are blocks. *)
LEMMA InodeFacts ==
  ASSUME NEW d \in [Blocks -> Content], NEW b \in Blocks
  PROVE  /\ AsInode(d[b]) \in Inode
         /\ AsInode(d[b]).type \in {"d", "f"}
         /\ AsInode(d[b]).blocks \in BlockList
         /\ Len(AsInode(d[b]).blocks) \in Nat
         /\ \A i \in Positions(d, b) : Block(d, b, i) \in Blocks
<1>1. AsInode(d[b]) \in Inode
  BY ReadTypes
<1>2. AsInode(d[b]).type \in {"d", "f"} /\ AsInode(d[b]).blocks \in BlockList
  BY <1>1 DEF Inode
<1>3. Len(AsInode(d[b]).blocks) \in Nat
  BY <1>2 DEF BlockList
<1> QED
  BY <1>1, <1>2, <1>3, BlockListBlocks DEF Positions, Block

(* The children of a directory are what its entries lead to. *)
LEMMA ChildrenAreTargets ==
  ASSUME NEW d, NEW b, IsDir(d, b)
  PROVE  \A c : c \in ChildrenOf(d, b) <=> \E s \in Entries(d, b) : Target(d, b, s) = c
  BY DEF ChildrenOf, Entries, Target, IsDir

(* The data blocks of an inode are what its blocks[] lead to. *)
LEMMA DataBlocksAre ==
  ASSUME NEW d, NEW b
  PROVE  \A c : c \in DataBlocksOf(d, b) <=> \E i \in Positions(d, b) : Block(d, b, i) = c
  BY DEF DataBlocksOf, Positions, Block

(* A sound disk is one whose inodes are sound and share no reference. *)
LEMMA SoundMeans ==
  ASSUME NEW d \in [Blocks -> Content]
  PROVE  SoundDisk(d) <=> /\ SoundRoot(d)
                          /\ \A b \in LiveInodes(d) : SoundInode(d, b)
                          /\ \A b, c \in LiveInodes(d) : b # c => Refs(d, b) \cap Refs(d, c) = {}
<1> DEFINE L == LiveInodes(d)
           Sound == /\ SoundRoot(d)
                    /\ \A b \in L : SoundInode(d, b)
                    /\ \A b, c \in L : b # c => Refs(d, b) \cap Refs(d, c) = {}
<1>1. L \in SUBSET Blocks /\ 0 \in L
  BY LiveInodesLeast
<1>2. SoundDisk(d) <=> /\ Kinds(d, L) /\ ReferencedOnce(d, L)
                       /\ UniqueNames(d) /\ EveryDirBlockUsed(d) /\ OwnersInherited(d)
  BY <1>1, WellFormedMeans DEF SoundDisk
<1>3. LiveDirs(d) = DirsIn(d, L) /\ \A b : b \in DirsIn(d, L) <=> b \in L /\ IsDir(d, b)
  BY DEF LiveDirs, DirsIn, IsDir
<1>4. \A b : b \in FilesIn(d, L) <=> b \in L /\ ~IsDir(d, b)
  BY <1>1, InodeFacts DEF FilesIn, IsDir
<1> HIDE DEF L
<1>5. ASSUME SoundDisk(d) PROVE Sound
  <2>1. SoundRoot(d)
    BY <1>2, <1>5 DEF Kinds, SoundRoot, IsDir
  <2>2. ASSUME NEW b \in L PROVE SoundInode(d, b)
    <3>1. d[b].kind = "inode"
      BY <1>2, <1>5 DEF Kinds
    <3>2. \A i \in Positions(d, b) : Block(d, b, i) # 0
      BY <1>2, <1>5 DEF ReferencedOnce
    <3>3. \A i \in Positions(d, b) : d[Block(d, b, i)].kind = IF IsDir(d, b) THEN "dir" ELSE "data"
      BY <1>2, <1>3, <1>4, <1>5, DataBlocksAre DEF Kinds
    <3>4. \A i, j \in Positions(d, b) : Block(d, b, i) = Block(d, b, j) => i = j
      BY <1>2, <1>5 DEF ReferencedOnce
    <3>5. ASSUME IsDir(d, b)
          PROVE  /\ \A s, r \in Entries(d, b) : Target(d, b, s) = Target(d, b, r) => s = r
                 /\ \A i \in Positions(d, b) : \A s \in Entries(d, b) : Block(d, b, i) # Target(d, b, s)
      BY <1>2, <1>3, <1>5, <3>5 DEF ReferencedOnce
    <3>6. ASSUME IsDir(d, b)
          PROVE  \A s, r \in Entries(d, b) : Name(d, b, s) = Name(d, b, r) => s = r
      BY <1>2, <1>3, <1>5, <3>6 DEF UniqueNames, Name
    <3>7. ASSUME IsDir(d, b)
          PROVE  /\ \A i \in Positions(d, b) : \E s \in Entries(d, b) : s[1] = i
                 /\ \A c \in ChildrenOf(d, b) :
                      AsInode(d[c]).owner \in
                        IF AsInode(d[b]).owner = NoUser THEN Users ELSE {AsInode(d[b]).owner}
      BY <1>2, <1>3, <1>5, <3>7 DEF EveryDirBlockUsed, OwnersInherited, Positions
    <3> QED
      BY <3>1, <3>2, <3>3, <3>4, <3>5, <3>6, <3>7 DEF SoundInode
  <2>3. ASSUME NEW b \in L, NEW c \in L, b # c, NEW x \in Refs(d, b), x \in Refs(d, c)
        PROVE  FALSE
    <3>1. ReferencedOnce(d, L)
      BY <1>2, <1>5
    <3>2. \A z \in L : ~IsDir(d, z) => ChildrenOf(d, z) = {}
      BY DEF ChildrenOf, IsDir
    <3>3. CASE x \in DataBlocksOf(d, b) /\ x \in DataBlocksOf(d, c)
      BY <2>3, <3>1, <3>3, DataBlocksAre DEF ReferencedOnce
    <3>4. CASE x \in ChildrenOf(d, b) /\ x \in ChildrenOf(d, c)
      BY <1>3, <2>3, <3>1, <3>2, <3>4, ChildrenAreTargets DEF ReferencedOnce
    <3>5. CASE x \in DataBlocksOf(d, b) /\ x \in ChildrenOf(d, c)
      BY <1>3, <2>3, <3>1, <3>2, <3>5, ChildrenAreTargets, DataBlocksAre DEF ReferencedOnce
    <3>6. CASE x \in ChildrenOf(d, b) /\ x \in DataBlocksOf(d, c)
      BY <1>3, <2>3, <3>1, <3>2, <3>6, ChildrenAreTargets, DataBlocksAre DEF ReferencedOnce
    <3> QED
      BY <2>3, <3>3, <3>4, <3>5, <3>6 DEF Refs
  <2> QED
    BY <2>1, <2>2, <2>3
<1>6. ASSUME Sound PROVE SoundDisk(d)
  <2>a. ASSUME NEW b \in L
        PROVE  /\ d[b].kind = "inode"
               /\ \A i \in Positions(d, b) :
                    Block(d, b, i) # 0 /\ d[Block(d, b, i)].kind = IF IsDir(d, b) THEN "dir" ELSE "data"
               /\ \A i, j \in Positions(d, b) : Block(d, b, i) = Block(d, b, j) => i = j
    BY <1>6 DEF SoundInode
  <2>b. ASSUME NEW b \in L, IsDir(d, b)
        PROVE  /\ \A s, r \in Entries(d, b) : Target(d, b, s) = Target(d, b, r) => s = r
               /\ \A s, r \in Entries(d, b) : Name(d, b, s) = Name(d, b, r) => s = r
               /\ \A i \in Positions(d, b) : \A s \in Entries(d, b) : Block(d, b, i) # Target(d, b, s)
               /\ \A i \in Positions(d, b) : \E s \in Entries(d, b) : s[1] = i
               /\ \A c \in ChildrenOf(d, b) :
                    AsInode(d[c]).owner \in
                      IF AsInode(d[b]).owner = NoUser THEN Users ELSE {AsInode(d[b]).owner}
    BY <1>6, <2>b DEF SoundInode
  <2>c. ASSUME NEW b \in L, NEW c \in L, NEW x, x \in Refs(d, b), x \in Refs(d, c)
        PROVE  b = c
    BY <1>6, <2>c
  <2>1. Kinds(d, L)
    <3>1. /\ d[0].kind = "inode" /\ AsInode(d[0]).type = "d" /\ AsInode(d[0]).owner = NoUser
          /\ \A b \in L : d[b].kind = "inode"
      BY <1>1, <1>6, <2>a DEF SoundRoot, IsDir
    <3>2. ASSUME NEW b \in DirsIn(d, L), NEW c \in DataBlocksOf(d, b) PROVE d[c].kind = "dir"
      BY <1>3, <2>a, DataBlocksAre
    <3>3. ASSUME NEW b \in FilesIn(d, L), NEW c \in DataBlocksOf(d, b) PROVE d[c].kind = "data"
      BY <1>4, <2>a, DataBlocksAre
    <3> QED
      BY <3>1, <3>2, <3>3 DEF Kinds
  <2>2. ReferencedOnce(d, L)
    <3>1. ASSUME NEW b \in L, NEW i \in Positions(d, b)
          PROVE  Block(d, b, i) # 0 /\ Block(d, b, i) \in Refs(d, b)
      BY <2>a, DataBlocksAre DEF Refs
    <3>2. ASSUME NEW b \in DirsIn(d, L), NEW s \in Entries(d, b)
          PROVE  b \in L /\ IsDir(d, b) /\ Target(d, b, s) \in Refs(d, b)
      BY <1>3, ChildrenAreTargets DEF Refs
    <3>3. ASSUME NEW b \in L, NEW c \in L, NEW i \in Positions(d, b), NEW j \in Positions(d, c),
                 Block(d, b, i) = Block(d, c, j)
          PROVE  b = c /\ i = j
      <4>1. b = c
        BY <2>c, <3>1, <3>3
      <4> QED
        BY <2>a, <3>3, <4>1
    <3>4. ASSUME NEW b \in DirsIn(d, L), NEW c \in DirsIn(d, L),
                 NEW s \in Entries(d, b), NEW r \in Entries(d, c), Target(d, b, s) = Target(d, c, r)
          PROVE  b = c /\ s = r
      <4>1. b = c
        BY <2>c, <3>2, <3>4
      <4> QED
        BY <2>b, <3>2, <3>4, <4>1
    <3>5. ASSUME NEW b \in L, NEW c \in DirsIn(d, L), NEW i \in Positions(d, b), NEW r \in Entries(d, c),
                 Block(d, b, i) = Target(d, c, r)
          PROVE  FALSE
      <4>1. b = c
        BY <2>c, <3>1, <3>2, <3>5
      <4> QED
        BY <2>b, <3>2, <3>5, <4>1
    <3> QED
      BY <3>1, <3>3, <3>4, <3>5 DEF ReferencedOnce
  <2>3. UniqueNames(d)
    BY <1>3, <2>b DEF UniqueNames, Name
  <2>4. EveryDirBlockUsed(d)
    BY <1>3, <2>b DEF EveryDirBlockUsed, Positions
  <2>5. OwnersInherited(d)
    BY <1>3, <2>b DEF OwnersInherited
  <2> QED
    BY <1>2, <2>1, <2>2, <2>3, <2>4, <2>5
<1> QED
  BY <1>5, <1>6 DEF L

-----------------------------------------------------------------------------
(* Two disks that agree on an inode. *)

Owns(d, b) == {b} \cup DataBlocksOf(d, b)

Same(d, e, b) == e[b] = d[b] /\ \A c \in DataBlocksOf(d, b) : e[c] = d[c]

(* The blocks in the tree are those its inodes own. *)
LEMMA LiveOwns ==
  ASSUME NEW d
  PROVE  \A c : c \in Live(d) <=> \E b \in LiveInodes(d) : c \in Owns(d, b)
<1> DEFINE L == LiveInodes(d)
<1>1. Live(d) = L \cup UNION {DataBlocksOf(d, b) : b \in L}
  BY DEF Live
<1> HIDE DEF L
<1> QED
  BY <1>1 DEF L, Owns

(* What is read of an inode is the same on a disk that agrees on it. *)
LEMMA SameView ==
  ASSUME NEW d, NEW e, NEW b, Same(d, e, b)
  PROVE  /\ AsInode(e[b]) = AsInode(d[b])
         /\ Positions(e, b) = Positions(d, b)
         /\ Slots(AsInode(e[b])) = Slots(AsInode(d[b]))
         /\ \A i \in Positions(d, b) : Block(e, b, i) = Block(d, b, i)
         /\ \A i \in Positions(d, b) : e[Block(d, b, i)] = d[Block(d, b, i)]
         /\ Entries(e, b) = Entries(d, b)
         /\ \A s \in Slots(AsInode(d[b])) : EntryAt(e, AsInode(e[b]), s) = EntryAt(d, AsInode(d[b]), s)
         /\ \A s \in Entries(d, b) : Target(e, b, s) = Target(d, b, s) /\ Name(e, b, s) = Name(d, b, s)
         /\ DataBlocksOf(e, b) = DataBlocksOf(d, b)
         /\ ChildrenOf(e, b) = ChildrenOf(d, b)
         /\ Owns(e, b) = Owns(d, b)
         /\ Refs(e, b) = Refs(d, b)
<1>1. e[b] = d[b]
  BY DEF Same
<1>2. \A i \in Positions(d, b) : e[Block(d, b, i)] = d[Block(d, b, i)]
  BY DataBlocksAre DEF Same
<1>3. \A s \in Slots(AsInode(d[b])) : EntryAt(e, AsInode(e[b]), s) = EntryAt(d, AsInode(d[b]), s)
  BY <1>1, <1>2 DEF EntryAt, Slots, Positions, Block
<1>4. Entries(e, b) = Entries(d, b)
  BY <1>1, <1>3 DEF Entries
<1>5. \A s \in Entries(d, b) : Target(e, b, s) = Target(d, b, s) /\ Name(e, b, s) = Name(d, b, s)
  BY <1>3 DEF Target, Name, Entries
<1>6. DataBlocksOf(e, b) = DataBlocksOf(d, b)
  BY <1>1 DEF DataBlocksOf
<1>7. ChildrenOf(e, b) = ChildrenOf(d, b)
  <2>1. {EntryAt(e, AsInode(e[b]), s).inode_block : s \in Slots(AsInode(e[b]))}
          = {EntryAt(d, AsInode(d[b]), s).inode_block : s \in Slots(AsInode(d[b]))}
    BY <1>1, <1>3
  <2> QED
    BY <1>1, <2>1 DEF ChildrenOf
<1> QED
  BY <1>1, <1>2, <1>3, <1>4, <1>5, <1>6, <1>7 DEF Positions, Block, Owns, Refs

(* The references of an inode in the tree lead to blocks other than the     *)
(* root's, and the inodes among them are its children.                      *)
LEMMA SoundRefs ==
  ASSUME NEW d \in [Blocks -> Content], SoundDisk(d), NEW b \in LiveInodes(d)
  PROVE  /\ SoundInode(d, b) /\ d[b].kind = "inode" /\ b \in Blocks
         /\ \A c \in DataBlocksOf(d, b) :
              c \in Blocks \ {0} /\ d[c].kind = IF IsDir(d, b) THEN "dir" ELSE "data"
         /\ \A c \in ChildrenOf(d, b) : c \in LiveInodes(d) \ {0} /\ d[c].kind = "inode"
         /\ \A c \in LiveInodes(d) : c # b => Refs(d, b) \cap Refs(d, c) = {}
<1>1. \A c \in LiveInodes(d) : SoundInode(d, c) /\ d[c].kind = "inode"
  BY SoundMeans DEF SoundInode
<1>2. LiveInodes(d) \subseteq Blocks /\ ChildrenOf(d, b) \subseteq LiveInodes(d)
  BY LiveInodesLeast
<1>3. ASSUME NEW c \in DataBlocksOf(d, b)
      PROVE  c \in Blocks \ {0} /\ d[c].kind = IF IsDir(d, b) THEN "dir" ELSE "data"
  <2>1. PICK i \in Positions(d, b) : Block(d, b, i) = c
    BY DataBlocksAre
  <2>2. c # 0 /\ d[c].kind = IF IsDir(d, b) THEN "dir" ELSE "data"
    BY <1>1, <2>1 DEF SoundInode
  <2> QED
    BY <1>2, <2>1, <2>2, InodeFacts
<1> QED
  BY <1>1, <1>2, <1>3, SoundMeans, ChildrenType

(* No two inodes in the tree own a block, and none owns another. *)
LEMMA OwnsDisjoint ==
  ASSUME NEW d \in [Blocks -> Content], SoundDisk(d),
         NEW b \in LiveInodes(d), NEW c \in LiveInodes(d), b # c
  PROVE  Owns(d, b) \cap Owns(d, c) = {}
<1>1. d[b].kind = "inode" /\ d[c].kind = "inode"
  BY SoundRefs
<1>2. \A x \in DataBlocksOf(d, b) \cup DataBlocksOf(d, c) : d[x].kind # "inode"
  BY SoundRefs
<1>3. DataBlocksOf(d, b) \cap DataBlocksOf(d, c) = {}
  BY SoundRefs DEF Refs
<1> QED
  BY <1>1, <1>2, <1>3 DEF Owns

(* Each inode in the tree is in one directory, and not below itself. *)
LEMMA ChildOnce ==
  ASSUME NEW d \in [Blocks -> Content], SoundDisk(d), NEW b \in LiveInodes(d),
         NEW n \in ChildrenOf(d, b)
  PROVE  n # b /\ \A c \in LiveInodes(d) : n \in ChildrenOf(d, c) => c = b
<1>1. \A c \in LiveInodes(d) : n \in ChildrenOf(d, c) => c = b
  BY SoundRefs DEF Refs
<1>2. n # 0
  BY SoundRefs
<1>3. SUFFICES ASSUME n = b PROVE FALSE
  BY <1>1
<1> DEFINE S == LiveInodes(d) \ {b}
<1>4. 0 \in S
  BY <1>2, <1>3, LiveInodesLeast
<1>5. ASSUME NEW x \in S PROVE ChildrenOf(d, x) \subseteq S
  BY <1>1, <1>3, LiveInodesLeast
<1>6. LiveInodes(d) \subseteq S
  BY <1>4, <1>5, LiveInodesLeast
<1> QED
  BY <1>6

-----------------------------------------------------------------------------
(* The tree after the blocks of one inode, D, have changed. *)

(* The disks d and e agree on the inodes in d's tree other than D. *)
SameBut(d, e, D) == \A b \in LiveInodes(d) \ {D} : Same(d, e, b)

(* D leads to the same inodes: so does the tree. *)
LEMMA LiveSame ==
  ASSUME NEW d \in [Blocks -> Content], NEW e \in [Blocks -> Content], NEW D, SameBut(d, e, D),
         ChildrenOf(e, D) = ChildrenOf(d, D)
  PROVE  LiveInodes(e) = LiveInodes(d)
<1>1. \A b \in LiveInodes(d) : ChildrenOf(e, b) = ChildrenOf(d, b)
  BY SameView DEF SameBut
<1>2. LiveInodes(e) \subseteq LiveInodes(d)
  BY <1>1, LiveInodesLeast
<1>3. \A b \in LiveInodes(e) : ChildrenOf(d, b) \subseteq LiveInodes(e)
  BY <1>1, <1>2, LiveInodesLeast
<1>4. LiveInodes(d) \subseteq LiveInodes(e)
  BY <1>3, LiveInodesLeast
<1> QED
  BY <1>2, <1>4

(* D leads to one more inode, which leads to none: the tree gains it. *)
LEMMA LiveGains ==
  ASSUME NEW d \in [Blocks -> Content], NEW e \in [Blocks -> Content],
         NEW D \in LiveInodes(d), SameBut(d, e, D), NEW n,
         ChildrenOf(e, D) = ChildrenOf(d, D) \cup {n}, ChildrenOf(e, n) = {}
  PROVE  LiveInodes(e) = LiveInodes(d) \cup {n}
<1>1. \A b \in LiveInodes(d) \ {D} : ChildrenOf(e, b) = ChildrenOf(d, b)
  BY SameView DEF SameBut
<1> DEFINE S == LiveInodes(d) \cup {n}
<1>2. LiveInodes(e) \subseteq S
  <2>1. \A b \in S : ChildrenOf(e, b) \subseteq S
    BY <1>1, LiveInodesLeast
  <2>2. 0 \in S
    BY LiveInodesLeast
  <2> HIDE DEF S
  <2> QED
    BY <2>1, <2>2, LiveInodesLeast
<1> DEFINE T == LiveInodes(e) \cap LiveInodes(d)
<1>3. LiveInodes(d) \subseteq T
  <2>1. \A b \in T : ChildrenOf(d, b) \subseteq ChildrenOf(e, b)
    BY <1>1
  <2>2. \A b \in T : ChildrenOf(d, b) \subseteq T
    BY <2>1, LiveInodesLeast
  <2>3. 0 \in T
    BY LiveInodesLeast
  <2> HIDE DEF T
  <2> QED
    BY <2>2, <2>3, LiveInodesLeast
<1>4. n \in LiveInodes(e)
  BY <1>3, LiveInodesLeast
<1> QED
  BY <1>2, <1>3, <1>4

(* D leads no longer to one of its inodes, which leads to none: the tree     *)
(* loses it.                                                                *)
LEMMA LiveLoses ==
  ASSUME NEW d \in [Blocks -> Content], NEW e \in [Blocks -> Content], SoundDisk(d),
         NEW D \in LiveInodes(d), SameBut(d, e, D), NEW n \in ChildrenOf(d, D),
         ChildrenOf(e, D) = ChildrenOf(d, D) \ {n}, ChildrenOf(d, n) = {}
  PROVE  LiveInodes(e) = LiveInodes(d) \ {n}
<1>1. \A b \in LiveInodes(d) \ {D} : ChildrenOf(e, b) = ChildrenOf(d, b)
  BY SameView DEF SameBut
<1>2. n # D /\ n # 0 /\ n \in LiveInodes(d)
  BY ChildOnce, SoundRefs
<1>3. \A b \in LiveInodes(d) : n \in ChildrenOf(d, b) => b = D
  BY ChildOnce
<1> DEFINE S == LiveInodes(d) \ {n}
<1>4. LiveInodes(e) \subseteq S
  <2>1. \A b \in S : ChildrenOf(e, b) \subseteq S
    BY <1>1, <1>3, LiveInodesLeast
  <2>2. 0 \in S
    BY <1>2, LiveInodesLeast
  <2> HIDE DEF S
  <2> QED
    BY <2>1, <2>2, LiveInodesLeast
<1> DEFINE T == LiveInodes(e) \cup {n}
<1>5. LiveInodes(d) \subseteq T
  <2>1. \A b \in T : ChildrenOf(d, b) \subseteq T
    BY <1>1, <1>4, LiveInodesLeast
  <2>2. 0 \in T
    BY LiveInodesLeast
  <2> HIDE DEF T
  <2> QED
    BY <2>1, <2>2, LiveInodesLeast
<1> QED
  BY <1>4, <1>5

(* An inode on which the disks agree stays sound if its children keep their *)
(* owners.                                                                  *)
LEMMA SameSound ==
  ASSUME NEW d, NEW e, NEW b, SoundInode(d, b), Same(d, e, b),
         \A c \in ChildrenOf(d, b) : AsInode(e[c]).owner = AsInode(d[c]).owner
  PROVE  SoundInode(e, b)
<1>1. IsDir(e, b) = IsDir(d, b) /\ e[b] = d[b]
  BY SameView DEF IsDir, Same
<1>2. SUFFICES ASSUME IsDir(d, b)
               PROVE  \A c \in ChildrenOf(e, b) :
                        AsInode(e[c]).owner \in
                          IF AsInode(e[b]).owner = NoUser THEN Users ELSE {AsInode(e[b]).owner}
  BY <1>1, SameView DEF SoundInode
<1>3. \A c \in ChildrenOf(d, b) :
        AsInode(d[c]).owner \in IF AsInode(d[b]).owner = NoUser THEN Users ELSE {AsInode(d[b]).owner}
  BY <1>2 DEF SoundInode
<1>4. ChildrenOf(e, b) = ChildrenOf(d, b)
  BY SameView
<1> QED
  BY <1>1, <1>3, <1>4

(* A disk is sound after a change to D when D is sound, of the same type     *)
(* and owner, and shares no reference with the others, and when the inodes  *)
(* that are new in the tree lead nowhere.                                   *)
LEMMA InodeChanged ==
  ASSUME NEW d \in [Blocks -> Content], NEW e \in [Blocks -> Content], SoundDisk(d),
         NEW D \in LiveInodes(d), SameBut(d, e, D), SoundInode(e, D),
         AsInode(e[D]).type = AsInode(d[D]).type, AsInode(e[D]).owner = AsInode(d[D]).owner,
         \A b \in LiveInodes(d) \ {D} : Refs(e, D) \cap Refs(d, b) = {},
         \A b \in LiveInodes(e) \ LiveInodes(d) : e[b].kind = "inode" /\ AsInode(e[b]).blocks = << >>
  PROVE  SoundDisk(e)
<1>1. SoundRoot(e)
  <2>1. SoundRoot(d)
    BY SoundMeans
  <2>2. AsInode(e[0]).type = AsInode(d[0]).type /\ AsInode(e[0]).owner = AsInode(d[0]).owner
    BY LiveInodesLeast DEF SameBut, Same
  <2> QED
    BY <2>1, <2>2 DEF SoundRoot, IsDir
<1>2. \A b \in LiveInodes(d) : AsInode(e[b]).owner = AsInode(d[b]).owner
  BY DEF SameBut, Same
<1>3. ASSUME NEW b \in LiveInodes(e) \ LiveInodes(d)
      PROVE  SoundInode(e, b) /\ Refs(e, b) = {}
  <2>1. e[b].kind = "inode" /\ AsInode(e[b]).blocks = << >>
    OBVIOUS
  <2>2. Positions(e, b) = {} /\ Slots(AsInode(e[b])) = {}
    BY <2>1 DEF Positions, Slots
  <2>3. Entries(e, b) = {} /\ DataBlocksOf(e, b) = {} /\ ChildrenOf(e, b) = {}
    BY <2>2 DEF Entries, DataBlocksOf, ChildrenOf, Positions
  <2> QED
    BY <2>1, <2>2, <2>3 DEF SoundInode, Refs
<1>4. ASSUME NEW b \in LiveInodes(e) \cap LiveInodes(d) PROVE SoundInode(e, b)
  <2>1. CASE b = D
    BY <2>1
  <2>2. CASE b # D
    <3>1. Same(d, e, b) /\ SoundInode(d, b) /\ ChildrenOf(d, b) \subseteq LiveInodes(d)
      BY <2>2, SoundMeans, LiveInodesLeast DEF SameBut
    <3> QED
      BY <1>2, <3>1, SameSound
  <2> QED
    BY <2>1, <2>2
<1>5. ASSUME NEW b \in LiveInodes(e), NEW c \in LiveInodes(e), b # c
      PROVE  Refs(e, b) \cap Refs(e, c) = {}
  <2>1. ASSUME NEW x \in LiveInodes(e) \cap LiveInodes(d), x # D PROVE Refs(e, x) = Refs(d, x)
    BY <2>1, SameView DEF SameBut
  <2>2. ASSUME NEW x \in LiveInodes(d), NEW y \in LiveInodes(d), x # y
        PROVE  Refs(d, x) \cap Refs(d, y) = {}
    BY <2>2, SoundMeans
  <2>3. CASE b \in LiveInodes(d) /\ c \in LiveInodes(d)
    BY <1>5, <2>1, <2>2, <2>3
  <2> QED
    BY <1>3, <2>3
<1> QED
  BY <1>1, <1>3, <1>4, <1>5, SoundMeans

-----------------------------------------------------------------------------
(* One write, to a block outside the tree or to one that D owns. *)

(* The disk with block w written. *)
Written(d, w, c) == [d EXCEPT ![w] = c]

(* The write leaves all inodes but D alone. *)
LEMMA WrittenSameBut ==
  ASSUME NEW d \in [Blocks -> Content], SoundDisk(d), NEW D \in LiveInodes(d), NEW c,
         NEW w \in Blocks, w \in Owns(d, D) \/ w \notin Live(d)
  PROVE  SameBut(d, Written(d, w, c), D)
<1> SUFFICES ASSUME NEW b \in LiveInodes(d), b # D PROVE Same(d, Written(d, w, c), b)
  BY DEF SameBut
<1>1. w \notin Owns(d, b)
  BY OwnsDisjoint, LiveOwns
<1>2. b \in Blocks /\ DataBlocksOf(d, b) \subseteq Blocks
  BY SoundRefs
<1> QED
  BY <1>1, <1>2 DEF Same, Owns, Written

(* A write outside the tree leaves the tree alone. *)
LEMMA UnusedWritten ==
  ASSUME NEW d \in [Blocks -> Content], SoundDisk(d), NEW c \in Content,
         NEW w \in Blocks \ Live(d)
  PROVE  LET e == Written(d, w, c)
         IN  /\ SoundDisk(e)
             /\ LiveInodes(e) = LiveInodes(d) /\ Live(e) = Live(d)
             /\ \A b \in LiveInodes(d) : Same(d, e, b)
<1> DEFINE e == Written(d, w, c)
<1>0. e \in [Blocks -> Content]
  BY DEF Written
<1>1. ASSUME NEW b \in LiveInodes(d) PROVE Same(d, e, b)
  <2>1. w \notin Owns(d, b) /\ b \in Blocks /\ DataBlocksOf(d, b) \subseteq Blocks
    BY LiveOwns, SoundRefs
  <2> QED
    BY <2>1 DEF Same, Owns, Written
<1> HIDE DEF e
<1>2. 0 \in LiveInodes(d)
  BY LiveInodesLeast
<1>3. SameBut(d, e, 0)
  BY <1>1 DEF SameBut
<1>4. LiveInodes(e) = LiveInodes(d)
  BY <1>0, <1>1, <1>2, <1>3, SameView, LiveSame
<1>5. \A x : x \in Live(e) <=> x \in Live(d)
  BY <1>1, <1>4, LiveOwns, SameView
<1>6. SoundInode(d, 0) /\ ChildrenOf(d, 0) \subseteq LiveInodes(d)
  BY <1>2, SoundRefs
<1>7. \A b \in LiveInodes(d) : AsInode(e[b]) = AsInode(d[b])
  BY <1>1 DEF Same
<1>8. SoundInode(e, 0)
  BY <1>1, <1>2, <1>6, <1>7, SameSound
<1>9. \A b \in LiveInodes(d) \ {0} : Refs(e, 0) \cap Refs(d, b) = {}
  BY <1>1, <1>2, SameView, SoundMeans
<1>10. SoundDisk(e)
  BY <1>0, <1>2, <1>3, <1>4, <1>7, <1>8, <1>9, InodeChanged
<1> QED
  BY <1>1, <1>4, <1>5, <1>10 DEF e

(* What D owns now tells what the tree owns now. *)
LEMMA LiveChanged ==
  ASSUME NEW d \in [Blocks -> Content], NEW e \in [Blocks -> Content], SoundDisk(d),
         NEW D \in LiveInodes(d), SameBut(d, e, D), LiveInodes(e) = LiveInodes(d)
  PROVE  \A x : x \in Live(e) <=> x \in Live(d) \ Owns(d, D) \/ x \in Owns(e, D)
<1>1. \A b \in LiveInodes(d) \ {D} : Owns(e, b) = Owns(d, b) /\ Owns(d, b) \cap Owns(d, D) = {}
  BY SameView, OwnsDisjoint DEF SameBut
<1> QED
  BY <1>1, LiveOwns

(* The names and targets of the entries of an inode, and what else of an     *)
(* inode a client sees.                                                     *)
Listed(d, b) == {[name |-> Name(d, b, s), inode_block |-> Target(d, b, s)] : s \in Entries(d, b)}

SameNode(d, e, b) ==
  AsInode(e[b]).type = AsInode(d[b]).type /\ AsInode(e[b]).owner = AsInode(d[b]).owner

(* An entry with a new name, at k, that leads to an inode outside the tree,  *)
(* in a block the directory has or in a new one.                            *)
LEMMA EntryAdded ==
  ASSUME NEW d \in [Blocks -> Content], NEW e \in [Blocks -> Content], SoundDisk(d),
         NEW D \in LiveInodes(d), IsDir(d, D), SameBut(d, e, D), e[D].kind = "inode",
         AsInode(e[D]).type = AsInode(d[D]).type, AsInode(e[D]).owner = AsInode(d[D]).owner,
         NEW k, k \notin Entries(d, D), Entries(e, D) = Entries(d, D) \cup {k},
         \A s \in Entries(d, D) : /\ Target(e, D, s) = Target(d, D, s)
                                  /\ Name(e, D, s) = Name(d, D, s)
                                  /\ Name(d, D, s) # Name(e, D, k),
         NEW n \in Blocks \ Live(d), Target(e, D, k) = n,
         e[n].kind = "inode", AsInode(e[n]).blocks = << >>,
         AsInode(e[n]).owner \in Users, AsInode(d[D]).owner \in {NoUser, AsInode(e[n]).owner},
         Positions(d, D) \subseteq Positions(e, D),
         \A i \in Positions(d, D) : Block(e, D, i) = Block(d, D, i),
         \A i \in Positions(e, D) \ Positions(d, D) : i = k[1] /\ Block(e, D, i) \notin Live(d) \cup {n},
         \A i \in Positions(e, D) : e[Block(e, D, i)].kind = "dir"
  PROVE  /\ SoundDisk(e)
         /\ LiveInodes(e) = LiveInodes(d) \cup {n}
         /\ \A x : x \in Live(e) <=> x \in Live(d) \cup {n} \cup Owns(e, D)
         /\ Listed(e, D) = Listed(d, D) \cup {[name |-> Name(e, D, k), inode_block |-> n]}
<1>1. ChildrenOf(e, D) = ChildrenOf(d, D) \cup {n}
  BY ChildrenAreTargets DEF IsDir
<1>2. ChildrenOf(e, n) = {} /\ DataBlocksOf(e, n) = {}
  BY DEF ChildrenOf, DataBlocksOf, Slots
<1>3. LiveInodes(e) = LiveInodes(d) \cup {n}
  BY <1>1, <1>2, LiveGains
<1>4. \A b \in LiveInodes(d) : Owns(d, b) \subseteq Live(d)
  BY LiveOwns
<1>5. n \notin LiveInodes(d) /\ n # 0 /\ LiveInodes(d) \subseteq Live(d) /\ 0 \in Live(d)
  BY <1>4, LiveInodesLeast DEF Owns
<1>6. \A i \in Positions(e, D) :
        \/ i \in Positions(d, D) /\ Block(e, D, i) = Block(d, D, i)
        \/ i \notin Positions(d, D) /\ i = k[1] /\ Block(e, D, i) \notin Live(d) \cup {n}
  OBVIOUS
<1>7. \A i \in Positions(d, D) : Block(d, D, i) \in DataBlocksOf(d, D) /\ Block(d, D, i) \in Live(d)
  BY <1>4, DataBlocksAre DEF Owns
<1>8. SoundInode(d, D)
  BY SoundMeans
<1>9. \A s \in Entries(d, D) : Target(d, D, s) \in ChildrenOf(d, D) /\ Target(d, D, s) \in LiveInodes(d)
  BY ChildrenAreTargets, LiveInodesLeast
<1>10. SoundInode(e, D)
  <2>1. \A i \in Positions(e, D) : Block(e, D, i) # 0
    BY <1>5, <1>6, <1>8 DEF SoundInode
  <2>2. IsDir(e, D)
    BY DEF IsDir
  <2>3. \A i, j \in Positions(e, D) : Block(e, D, i) = Block(e, D, j) => i = j
    BY <1>6, <1>7, <1>8 DEF SoundInode
  <2>4. \A s, r \in Entries(e, D) : Target(e, D, s) = Target(e, D, r) => s = r
    <3>1. \A s, r \in Entries(d, D) : Target(d, D, s) = Target(d, D, r) => s = r
      BY <1>8 DEF SoundInode
    <3>2. \A s \in Entries(d, D) : Target(d, D, s) # n
      BY <1>5, <1>9
    <3> QED
      BY <3>1, <3>2
  <2>5. \A s, r \in Entries(e, D) : Name(e, D, s) = Name(e, D, r) => s = r
    <3>1. \A s, r \in Entries(d, D) : Name(d, D, s) = Name(d, D, r) => s = r
      BY <1>8 DEF SoundInode
    <3> QED
      BY <3>1
  <2>6. \A i \in Positions(e, D) : \A s \in Entries(e, D) : Block(e, D, i) # Target(e, D, s)
    <3>1. \A i \in Positions(d, D) : \A s \in Entries(d, D) : Block(d, D, i) # Target(d, D, s)
      BY <1>8 DEF SoundInode
    <3>2. \A i \in Positions(d, D) : Block(d, D, i) # n
      BY <1>7
    <3>3. \A s \in Entries(d, D) : Target(d, D, s) \in Live(d)
      BY <1>5, <1>9
    <3> QED
      BY <1>6, <3>1, <3>2, <3>3
  <2>7. \A i \in Positions(e, D) : \E s \in Entries(e, D) : s[1] = i
    <3>1. \A i \in Positions(d, D) : \E s \in Entries(d, D) : s[1] = i
      BY <1>8 DEF SoundInode
    <3> QED
      BY <1>6, <3>1
  <2>8. \A c \in ChildrenOf(e, D) :
          AsInode(e[c]).owner \in
            IF AsInode(e[D]).owner = NoUser THEN Users ELSE {AsInode(e[D]).owner}
    <3>1. \A c \in ChildrenOf(d, D) :
            AsInode(d[c]).owner \in
              IF AsInode(d[D]).owner = NoUser THEN Users ELSE {AsInode(d[D]).owner}
      BY <1>8 DEF SoundInode
    <3>2. \A c \in ChildrenOf(d, D) : c \in LiveInodes(d) \ {D}
      BY ChildOnce, LiveInodesLeast
    <3>3. \A c \in ChildrenOf(d, D) : AsInode(e[c]).owner = AsInode(d[c]).owner
      BY <3>2 DEF SameBut, Same
    <3> QED
      BY <1>1, <3>1, <3>3
  <2> QED
    BY <2>1, <2>2, <2>3, <2>4, <2>5, <2>6, <2>7, <2>8 DEF SoundInode
<1>11. \A b \in LiveInodes(d) \ {D} : Refs(e, D) \cap Refs(d, b) = {}
  <2>1. \A b \in LiveInodes(d) : Refs(d, b) \subseteq Live(d)
    BY <1>4, <1>5, LiveInodesLeast DEF Refs, Owns
  <2>2. \A x \in Refs(e, D) : x \in Refs(d, D) \/ x \notin Live(d)
    BY <1>1, <1>6, DataBlocksAre DEF Refs
  <2> QED
    BY <2>1, <2>2, SoundMeans
<1>12. SoundDisk(e)
  BY <1>3, <1>10, <1>11, InodeChanged
<1>13. \A b \in LiveInodes(d) \ {D} : Owns(e, b) = Owns(d, b)
  BY SameView DEF SameBut
<1>14. Owns(d, D) \subseteq Owns(e, D) /\ Owns(e, n) = {n}
  BY <1>2, DataBlocksAre DEF Owns
<1>15. Listed(e, D) = Listed(d, D) \cup {[name |-> Name(e, D, k), inode_block |-> n]}
  <2>1. \A x : x \in Listed(e, D) <=>
          \E s \in Entries(e, D) : x = [name |-> Name(e, D, s), inode_block |-> Target(e, D, s)]
    BY DEF Listed
  <2>2. \A x : x \in Listed(d, D) <=>
          \E s \in Entries(d, D) : x = [name |-> Name(d, D, s), inode_block |-> Target(d, D, s)]
    BY DEF Listed
  <2>3. \A x : x \in Listed(e, D) <=>
          x \in Listed(d, D) \/ x = [name |-> Name(e, D, k), inode_block |-> n]
    BY <2>1, <2>2
  <2> QED
    BY <2>3
<1>16. \A x : x \in Live(e) <=> x \in Live(d) \cup {n} \cup Owns(e, D)
  BY <1>3, <1>13, <1>14, LiveOwns
<1> QED
  BY <1>3, <1>12, <1>15, <1>16

(* Where the entry at s was before. *)
Moved(up, s) == <<up[s[1]], s[2]>>

(* The entry at k, to an inode that leads to none, is gone; the blocks of    *)
(* entries left, up[i] of those there were, still have entries.             *)
LEMMA EntryRemoved ==
  ASSUME NEW d \in [Blocks -> Content], NEW e \in [Blocks -> Content], SoundDisk(d),
         NEW D \in LiveInodes(d), IsDir(d, D), SameBut(d, e, D), e[D].kind = "inode",
         AsInode(e[D]).type = AsInode(d[D]).type, AsInode(e[D]).owner = AsInode(d[D]).owner,
         NEW k \in Entries(d, D), NEW n, Target(d, D, k) = n, ChildrenOf(d, n) = {},
         NEW up,
         \A i \in Positions(e, D) : /\ up[i] \in Positions(d, D)
                                    /\ Block(e, D, i) = Block(d, D, up[i])
                                    /\ e[Block(e, D, i)].kind = "dir",
         \A i, j \in Positions(e, D) : up[i] = up[j] => i = j,
         \A s \in Entries(e, D) : /\ Moved(up, s) \in Entries(d, D) \ {k}
                                  /\ Target(e, D, s) = Target(d, D, Moved(up, s))
                                  /\ Name(e, D, s) = Name(d, D, Moved(up, s)),
         \A r \in Entries(d, D) \ {k} : \E s \in Entries(e, D) : r = Moved(up, s),
         \A i \in Positions(e, D) : \E s \in Entries(e, D) : s[1] = i
  PROVE  /\ SoundDisk(e)
         /\ LiveInodes(e) = LiveInodes(d) \ {n} /\ n \in LiveInodes(d) /\ n # D
         /\ \A x : x \in Live(e) <=>
                     x \in Live(d) \ (Owns(d, n) \cup (DataBlocksOf(d, D) \ DataBlocksOf(e, D)))
         /\ Listed(e, D) = Listed(d, D) \ {[name |-> Name(d, D, k), inode_block |-> n]}
<1> DEFINE Up(s) == Moved(up, s)
<1>1. \A s \in Entries(e, D) : Up(s) \in Entries(d, D) \ {k} /\ Target(e, D, s) = Target(d, D, Up(s))
                                /\ Name(e, D, s) = Name(d, D, Up(s))
  OBVIOUS
<1>2. \A r \in Entries(d, D) \ {k} : \E s \in Entries(e, D) : r = Up(s)
  OBVIOUS
<1>3. \A s \in Entries(e, D) : s[1] \in Positions(e, D) /\ s = <<s[1], s[2]>>
  BY DEF Entries, Slots, Positions
<1>4. \A s, r \in Entries(e, D) : Up(s) = Up(r) => s = r
  <2> SUFFICES ASSUME NEW s \in Entries(e, D), NEW r \in Entries(e, D), Up(s) = Up(r) PROVE s = r
    OBVIOUS
  <2>1. up[s[1]] = up[r[1]] /\ s[2] = r[2]
    BY DEF Moved
  <2> QED
    BY <1>3, <2>1
<1> HIDE DEF Up
<1>5. SoundInode(d, D)
  BY SoundMeans
<1>6. /\ \A s, r \in Entries(d, D) : Target(d, D, s) = Target(d, D, r) => s = r
      /\ \A s, r \in Entries(d, D) : Name(d, D, s) = Name(d, D, r) => s = r
      /\ \A i \in Positions(d, D) : \A s \in Entries(d, D) : Block(d, D, i) # Target(d, D, s)
      /\ \A i, j \in Positions(d, D) : Block(d, D, i) = Block(d, D, j) => i = j
      /\ \A i \in Positions(d, D) : Block(d, D, i) # 0
      /\ \A c \in ChildrenOf(d, D) :
           AsInode(d[c]).owner \in
             IF AsInode(d[D]).owner = NoUser THEN Users ELSE {AsInode(d[D]).owner}
  BY <1>5 DEF SoundInode
<1>7. IsDir(e, D)
  BY DEF IsDir
<1>8. ChildrenOf(e, D) = ChildrenOf(d, D) \ {n} /\ n \in ChildrenOf(d, D)
  <2>1. \A c : c \in ChildrenOf(e, D) <=> \E s \in Entries(e, D) : Target(e, D, s) = c
    BY <1>7, ChildrenAreTargets
  <2>2. \A c : c \in ChildrenOf(d, D) <=> \E s \in Entries(d, D) : Target(d, D, s) = c
    BY ChildrenAreTargets
  <2> QED
    BY <1>1, <1>2, <1>6, <2>1, <2>2
<1>9. LiveInodes(e) = LiveInodes(d) \ {n}
  BY <1>8, LiveLoses
<1>10. n # D /\ n \in LiveInodes(d)
  BY <1>8, ChildOnce, LiveInodesLeast
<1>11. SoundInode(e, D)
  <2>1. \A i, j \in Positions(e, D) : Block(e, D, i) = Block(e, D, j) => i = j
    BY <1>6
  <2>2. \A s, r \in Entries(e, D) : Target(e, D, s) = Target(e, D, r) => s = r
    BY <1>1, <1>4, <1>6
  <2>3. \A s, r \in Entries(e, D) : Name(e, D, s) = Name(e, D, r) => s = r
    BY <1>1, <1>4, <1>6
  <2>4. \A i \in Positions(e, D) : \A s \in Entries(e, D) : Block(e, D, i) # Target(e, D, s)
    BY <1>1, <1>6
  <2>5. \A c \in ChildrenOf(d, D) : c \in LiveInodes(d) \ {D}
    BY ChildOnce, LiveInodesLeast
  <2>6. \A c \in ChildrenOf(e, D) :
          AsInode(e[c]).owner \in
            IF AsInode(e[D]).owner = NoUser THEN Users ELSE {AsInode(e[D]).owner}
    BY <1>6, <1>8, <2>5 DEF SameBut, Same
  <2>7. \A i \in Positions(e, D) : Block(e, D, i) # 0 /\ e[Block(e, D, i)].kind = "dir"
    BY <1>6
  <2> QED
    BY <1>7, <2>1, <2>2, <2>3, <2>4, <2>6, <2>7 DEF SoundInode
<1>12. DataBlocksOf(e, D) \subseteq DataBlocksOf(d, D)
  BY DataBlocksAre
<1>13. \A b \in LiveInodes(d) \ {D} : Refs(e, D) \cap Refs(d, b) = {}
  BY <1>8, <1>12, SoundMeans DEF Refs
<1>14. SoundDisk(e)
  BY <1>9, <1>11, <1>13, InodeChanged
<1>15. \A b \in LiveInodes(d) \ {D} : Owns(e, b) = Owns(d, b) /\ Owns(d, b) \cap Owns(d, D) = {}
  BY SameView, OwnsDisjoint DEF SameBut
<1>16. \A b \in LiveInodes(d) \ {n} : Owns(d, b) \cap Owns(d, n) = {}
  BY <1>10, OwnsDisjoint
<1>17. \A x : x \in Owns(e, D) <=> x \in Owns(d, D) /\ x \notin DataBlocksOf(d, D) \ DataBlocksOf(e, D)
  <2>1. D \notin DataBlocksOf(d, D)
    <3>1. d[D].kind = "inode" /\ \A x \in DataBlocksOf(d, D) : d[x].kind = "dir"
      BY SoundRefs
    <3> QED
      BY <3>1
  <2> QED
    BY <1>12, <2>1 DEF Owns
<1>18. ASSUME NEW x
       PROVE  x \in Live(e) <=>
                x \in Live(d) \ (Owns(d, n) \cup (DataBlocksOf(d, D) \ DataBlocksOf(e, D)))
  <2>1. x \in Live(e) <=> x \in Owns(e, D) \/ \E b \in LiveInodes(d) \ {n, D} : x \in Owns(d, b)
    BY <1>9, <1>10, <1>15, LiveOwns
  <2>2. x \in Live(d) <=> \/ x \in Owns(d, D) \/ x \in Owns(d, n)
                         \/ \E b \in LiveInodes(d) \ {n, D} : x \in Owns(d, b)
    BY <1>10, LiveOwns
  <2>3. DataBlocksOf(d, D) \subseteq Owns(d, D)
    BY DEF Owns
  <2> QED
    BY <1>10, <1>15, <1>16, <1>17, <2>1, <2>2, <2>3
<1>19. Listed(e, D) = Listed(d, D) \ {[name |-> Name(d, D, k), inode_block |-> n]}
  <2>1. \A x : x \in Listed(e, D) <=>
          \E s \in Entries(e, D) : x = [name |-> Name(e, D, s), inode_block |-> Target(e, D, s)]
    BY DEF Listed
  <2>2. \A x : x \in Listed(d, D) <=>
          \E r \in Entries(d, D) : x = [name |-> Name(d, D, r), inode_block |-> Target(d, D, r)]
    BY DEF Listed
  <2>3. \A x : x \in Listed(e, D) <=>
          \E r \in Entries(d, D) \ {k} : x = [name |-> Name(d, D, r), inode_block |-> Target(d, D, r)]
    BY <1>1, <1>2, <2>1
  <2>4. \A r \in Entries(d, D) \ {k} : Target(d, D, r) # n
    BY <1>6
  <2>5. \A x : x \in Listed(e, D) <=>
          x \in Listed(d, D) /\ x # [name |-> Name(d, D, k), inode_block |-> n]
    BY <2>2, <2>3, <2>4
  <2> QED
    BY <2>5
<1> QED
  BY <1>9, <1>10, <1>14, <1>18, <1>19

-----------------------------------------------------------------------------
(* The writes of the handlers. *)

(* What is written is a content. *)
LEMMA ContentTypes ==
  /\ \A inode \in Inode : InodeBlock(inode) \in Content
  /\ \A folders \in Folders : FolderBlock(folders) \in Content
  /\ \A data \in Data : DataBlock(data) \in Content
  /\ \A inode : AsInode(InodeBlock(inode)) = inode /\ InodeBlock(inode).kind = "inode"
  /\ \A folders : AsFolders(FolderBlock(folders)) = folders /\ FolderBlock(folders).kind = "dir"
  /\ \A data : AsData(DataBlock(data)) = data /\ DataBlock(data).kind = "data"
  BY DEF Content, InodeBlock, FolderBlock, DataBlock, AsInode, AsFolders, AsData

(* The entries of a directory, by position. *)
LEMMA EntriesAre ==
  ASSUME NEW d, NEW b
  PROVE  /\ \A s : s \in Slots(AsInode(d[b])) <=>
              \E i \in Positions(d, b), j \in 1 .. FS_DIRENTRIES : s = <<i, j>>
         /\ \A i \in Positions(d, b), j \in 1 .. FS_DIRENTRIES :
              LET f == AsFolders(d[Block(d, b, i)])
              IN  /\ <<i, j>> \in Entries(d, b) <=> f[j].inode_block # 0
                  /\ EntryAt(d, AsInode(d[b]), <<i, j>>) = f[j]
                  /\ Target(d, b, <<i, j>>) = f[j].inode_block
                  /\ Name(d, b, <<i, j>>) = f[j].name
         /\ \A s \in Entries(d, b) : /\ s[1] \in Positions(d, b) /\ s[2] \in 1 .. FS_DIRENTRIES
                                     /\ s = <<s[1], s[2]>>
  BY DEF Entries, Slots, Positions, Block, Target, Name, EntryAt

(* A file's data block is written. *)
LEMMA FileWritten ==
  ASSUME NEW d \in [Blocks -> Content], SoundDisk(d), NEW F \in LiveInodes(d), ~IsDir(d, F),
         NEW w \in DataBlocksOf(d, F), NEW data \in Data
  PROVE  LET e == Written(d, w, DataBlock(data))
         IN  /\ SoundDisk(e) /\ SameBut(d, e, F) /\ e[F] = d[F]
             /\ LiveInodes(e) = LiveInodes(d) /\ Live(e) = Live(d)
<1> DEFINE e == Written(d, w, DataBlock(data))
<1>1. w \in Blocks /\ F \in Blocks /\ d[F].kind = "inode" /\ d[w].kind = "data"
  BY SoundRefs
<1>2. e \in [Blocks -> Content]
  BY ContentTypes DEF Written
<1>3. SameBut(d, e, F)
  BY <1>1, WrittenSameBut DEF Owns
<1>4. e[F] = d[F] /\ \A b \in Blocks : e[b] = d[b] \/ e[b].kind = "data"
  BY <1>1, ContentTypes DEF Written
<1> HIDE DEF e
<1>5. ~IsDir(e, F) /\ ChildrenOf(e, F) = {} /\ ChildrenOf(d, F) = {}
      /\ Owns(e, F) = Owns(d, F) /\ Positions(e, F) = Positions(d, F)
      /\ DataBlocksOf(e, F) = DataBlocksOf(d, F)
      /\ \A i \in Positions(d, F) : Block(e, F, i) = Block(d, F, i)
  BY <1>4 DEF IsDir, ChildrenOf, Owns, DataBlocksOf, Positions, Block
<1>6. LiveInodes(e) = LiveInodes(d)
  BY <1>2, <1>3, <1>5, LiveSame
<1>7. SoundInode(d, F)
  BY SoundMeans
<1>8. \A i \in Positions(d, F) : d[Block(d, F, i)].kind = "data" /\ Block(d, F, i) \in Blocks
  BY <1>1, <1>7, InodeFacts DEF SoundInode
<1>9. SoundInode(e, F)
  BY <1>1, <1>4, <1>5, <1>7, <1>8 DEF SoundInode
<1>10. \A b \in LiveInodes(d) \ {F} : Refs(e, F) \cap Refs(d, b) = {}
  BY <1>5, SoundMeans DEF Refs
<1>11. SoundDisk(e)
  BY <1>2, <1>3, <1>4, <1>6, <1>9, <1>10, InodeChanged
<1>12. \A x : x \in Live(e) <=> x \in Live(d)
  BY <1>2, <1>3, <1>5, <1>6, LiveChanged, LiveOwns
<1> QED
  BY <1>3, <1>4, <1>6, <1>11, <1>12 DEF e

(* A file's inode is written with one more block, which holds data. *)
LEMMA FileExtended ==
  ASSUME NEW d \in [Blocks -> Content], SoundDisk(d), NEW F \in LiveInodes(d), ~IsDir(d, F),
         NEW z \in Blocks \ Live(d), d[z].kind = "data", NEW inode \in Inode,
         inode.type = AsInode(d[F]).type, inode.owner = AsInode(d[F]).owner,
         inode.blocks = Append(AsInode(d[F]).blocks, z)
  PROVE  LET e == Written(d, F, InodeBlock(inode))
         IN  /\ SoundDisk(e) /\ SameBut(d, e, F)
             /\ LiveInodes(e) = LiveInodes(d) /\ Live(e) = Live(d) \cup {z}
<1> DEFINE e == Written(d, F, InodeBlock(inode))
           len == Len(AsInode(d[F]).blocks)
<1>1. F \in Blocks /\ F # z /\ d[F].kind = "inode" /\ z # 0
  BY SoundRefs, LiveOwns, LiveInodesLeast DEF Owns
<1>2. e \in [Blocks -> Content]
  BY ContentTypes DEF Written
<1>3. SameBut(d, e, F)
  BY <1>1, WrittenSameBut DEF Owns
<1>4. AsInode(e[F]) = inode /\ e[F].kind = "inode" /\ \A b \in Blocks \ {F} : e[b] = d[b]
  BY <1>1, ContentTypes DEF Written
<1> HIDE DEF e
<1>5. len \in Nat /\ AsInode(d[F]).blocks \in Seq(Blocks)
  BY <1>1, InodeFacts DEF BlockList
<1>6. /\ Positions(d, F) = 1 .. len /\ Positions(e, F) = 1 .. len + 1
      /\ \A i \in 1 .. len : Block(e, F, i) = Block(d, F, i)
      /\ Block(e, F, len + 1) = z
  BY <1>4, <1>5 DEF Positions, Block
<1>7. ~IsDir(e, F) /\ ChildrenOf(e, F) = {} /\ ChildrenOf(d, F) = {}
  BY <1>4 DEF IsDir, ChildrenOf
<1>8. DataBlocksOf(e, F) = DataBlocksOf(d, F) \cup {z}
  BY <1>5, <1>6, DataBlocksAre
<1>9. LiveInodes(e) = LiveInodes(d)
  BY <1>2, <1>3, <1>7, LiveSame
<1>10. SoundInode(d, F)
  BY SoundMeans
<1>11. /\ \A i \in 1 .. len : /\ d[Block(d, F, i)].kind = "data" /\ Block(d, F, i) \in Blocks
                              /\ Block(d, F, i) # 0 /\ Block(d, F, i) # F
                              /\ Block(d, F, i) \in Live(d)
       /\ \A i, j \in 1 .. len : Block(d, F, i) = Block(d, F, j) => i = j
  <2>1. \A i \in 1 .. len : Block(d, F, i) \in DataBlocksOf(d, F)
    BY <1>6, DataBlocksAre
  <2>2. \A i \in 1 .. len : Block(d, F, i) \in Live(d)
    BY <2>1, LiveOwns DEF Owns
  <2>3. \A i \in 1 .. len : /\ d[Block(d, F, i)].kind = "data" /\ Block(d, F, i) \in Blocks
                            /\ Block(d, F, i) # 0
    BY <2>1, SoundRefs
  <2>4. \A i, j \in 1 .. len : Block(d, F, i) = Block(d, F, j) => i = j
    BY <1>6, <1>10 DEF SoundInode
  <2> QED
    BY <1>1, <2>2, <2>3, <2>4
<1>12. SoundInode(e, F)
  <2>1. \A i \in 1 .. len + 1 : Block(e, F, i) # 0 /\ e[Block(e, F, i)].kind = "data"
    <3> SUFFICES ASSUME NEW i \in 1 .. len + 1
                 PROVE Block(e, F, i) # 0 /\ e[Block(e, F, i)].kind = "data"
      OBVIOUS
    <3>1. CASE i \in 1 .. len
      BY <1>4, <1>6, <1>11, <3>1
    <3>2. CASE i = len + 1
      BY <1>1, <1>4, <1>6, <3>2
    <3> QED
      BY <1>5, <3>1, <3>2
  <2>2. \A i, j \in 1 .. len + 1 : Block(e, F, i) = Block(e, F, j) => i = j
    <3> SUFFICES ASSUME NEW i \in 1 .. len + 1, NEW j \in 1 .. len + 1, Block(e, F, i) = Block(e, F, j)
                 PROVE i = j
      OBVIOUS
    <3>1. i \in 1 .. len \/ i = len + 1
      BY <1>5
    <3>2. j \in 1 .. len \/ j = len + 1
      BY <1>5
    <3> QED
      BY <1>6, <1>11, <3>1, <3>2
  <2> QED
    BY <1>4, <1>6, <1>7, <2>1, <2>2 DEF SoundInode
<1>13. \A b \in LiveInodes(d) \ {F} : Refs(e, F) \cap Refs(d, b) = {}
  <2>1. \A b \in LiveInodes(d) : z \notin Refs(d, b)
    BY LiveOwns, LiveInodesLeast DEF Refs, Owns
  <2> QED
    BY <1>7, <1>8, <2>1, SoundMeans DEF Refs
<1>14. SoundDisk(e)
  BY <1>2, <1>3, <1>4, <1>9, <1>12, <1>13, InodeChanged
<1>15. \A x : x \in Live(e) <=> x \in Live(d) \cup {z}
  BY <1>2, <1>3, <1>8, <1>9, LiveChanged, LiveOwns DEF Owns
<1> QED
  BY <1>3, <1>9, <1>14, <1>15 DEF e

(* The disk after an entry of a directory's block is replaced. *)
EntrySet(d, D, i, j, entry) ==
  Written(d, Block(d, D, i), FolderBlock([AsFolders(d[Block(d, D, i)]) EXCEPT ![j] = entry]))

(* An entry of a directory's block is written over an unused one. *)
LEMMA EntryWritten ==
  ASSUME NEW d \in [Blocks -> Content], SoundDisk(d), NEW D \in LiveInodes(d), IsDir(d, D),
         NEW i \in Positions(d, D), NEW j \in 1 .. FS_DIRENTRIES,
         AsFolders(d[Block(d, D, i)])[j].inode_block = 0,
         NEW n \in Blocks \ Live(d), NEW name \in Names,
         \A s \in Entries(d, D) : Name(d, D, s) # name,
         NEW type \in {"f", "d"}, NEW user \in Users, d[n] = InodeBlock(NewInode(type, user)),
         AsInode(d[D]).owner \in {NoUser, user}
  PROVE  LET e == EntrySet(d, D, i, j, [name |-> name, inode_block |-> n])
         IN  /\ SoundDisk(e) /\ SameBut(d, e, D)
             /\ LiveInodes(e) = LiveInodes(d) \cup {n} /\ Live(e) = Live(d) \cup {n}
             /\ Listed(e, D) = Listed(d, D) \cup {[name |-> name, inode_block |-> n]}
             /\ SameNode(d, e, D) /\ e[n] = d[n] /\ e \in [Blocks -> Content]
<1> DEFINE z == Block(d, D, i)
           f == [AsFolders(d[z]) EXCEPT ![j] = [name |-> name, inode_block |-> n]]
           e == Written(d, z, FolderBlock(f))
           k == <<i, j>>
<1>1. /\ D \in Blocks /\ d[D].kind = "inode" /\ z \in DataBlocksOf(d, D) /\ z \in Blocks
      /\ d[z].kind = "dir" /\ SoundInode(d, D)
  BY SoundRefs, DataBlocksAre
<1>2. AsFolders(d[z]) \in Folders
  BY <1>1, ReadTypes
<1>3. f \in Folders
  BY <1>2 DEF Folders, Direntry
<1>4. e \in [Blocks -> Content]
  BY <1>3, ContentTypes DEF Written
<1>5. SameBut(d, e, D)
  BY <1>1, WrittenSameBut DEF Owns
<1>6. e[D] = d[D] /\ e[n] = d[n] /\ AsFolders(e[z]) = f /\ e[z].kind = "dir"
      /\ \A b \in Blocks \ {z} : e[b] = d[b]
  <2>1. z # D /\ z # n
    BY <1>1, LiveOwns DEF Owns
  <2> QED
    BY <1>1, <2>1, ContentTypes DEF Written
<1>7. AsInode(e[n]) = NewInode(type, user) /\ e[n].kind = "inode"
  BY <1>6, ContentTypes
<1>8. \A l \in 1 .. FS_DIRENTRIES :
        f[l] = IF l = j THEN [name |-> name, inode_block |-> n] ELSE AsFolders(d[z])[l]
  BY <1>2 DEF Folders
<1>9. n # 0
  BY LiveOwns, LiveInodesLeast DEF Owns
<1> HIDE DEF e, f
<1>10. /\ Positions(e, D) = Positions(d, D)
       /\ \A l \in Positions(d, D) : Block(e, D, l) = Block(d, D, l)
  BY <1>6 DEF Positions, Block
<1>11. \A l \in Positions(d, D) : Block(d, D, l) \in Blocks /\ (Block(d, D, l) = z => l = i)
                                  /\ d[Block(d, D, l)].kind = "dir"
  BY <1>1, InodeFacts DEF SoundInode
<1>12. ASSUME NEW l \in Positions(d, D), NEW m \in 1 .. FS_DIRENTRIES
       PROVE  AsFolders(e[Block(e, D, l)])[m] =
                IF <<l, m>> = k THEN [name |-> name, inode_block |-> n]
                ELSE AsFolders(d[Block(d, D, l)])[m]
  <2>1. CASE l = i
    BY <1>6, <1>8, <1>10, <2>1
  <2>2. CASE l # i
    BY <1>6, <1>10, <1>11, <2>2
  <2> QED
    BY <2>1, <2>2
<1>13. ASSUME NEW l \in Positions(d, D), NEW m \in 1 .. FS_DIRENTRIES, <<l, m>> # k
       PROVE  /\ <<l, m>> \in Entries(e, D) <=> <<l, m>> \in Entries(d, D)
              /\ Target(e, D, <<l, m>>) = Target(d, D, <<l, m>>)
              /\ Name(e, D, <<l, m>>) = Name(d, D, <<l, m>>)
  <2>1. AsFolders(e[Block(e, D, l)])[m] = AsFolders(d[Block(d, D, l)])[m]
    BY <1>12, <1>13
  <2>2. /\ <<l, m>> \in Entries(e, D) <=> AsFolders(e[Block(e, D, l)])[m].inode_block # 0
        /\ Target(e, D, <<l, m>>) = AsFolders(e[Block(e, D, l)])[m].inode_block
        /\ Name(e, D, <<l, m>>) = AsFolders(e[Block(e, D, l)])[m].name
    BY <1>10, EntriesAre
  <2>3. /\ <<l, m>> \in Entries(d, D) <=> AsFolders(d[Block(d, D, l)])[m].inode_block # 0
        /\ Target(d, D, <<l, m>>) = AsFolders(d[Block(d, D, l)])[m].inode_block
        /\ Name(d, D, <<l, m>>) = AsFolders(d[Block(d, D, l)])[m].name
    BY EntriesAre
  <2> QED
    BY <2>1, <2>2, <2>3
<1>14. k \in Entries(e, D) /\ Target(e, D, k) = n /\ Name(e, D, k) = name /\ k \notin Entries(d, D)
  BY <1>9, <1>10, <1>12, EntriesAre
<1>15. Entries(e, D) = Entries(d, D) \cup {k}
  <2>1. ASSUME NEW s PROVE s \in Entries(e, D) => s \in Entries(d, D) \cup {k}
    BY <1>10, <1>13, EntriesAre
  <2>2. ASSUME NEW s PROVE s \in Entries(d, D) \cup {k} => s \in Entries(e, D)
    BY <1>13, <1>14, EntriesAre
  <2> QED
    BY <2>1, <2>2
<1>16. \A s \in Entries(d, D) : /\ Target(e, D, s) = Target(d, D, s)
                                /\ Name(e, D, s) = Name(d, D, s)
                                /\ Name(d, D, s) # Name(e, D, k)
  BY <1>13, <1>14, EntriesAre
<1>17. \A l \in Positions(e, D) : e[Block(e, D, l)].kind = "dir"
  BY <1>6, <1>10, <1>11
<1>18. /\ SoundDisk(e) /\ LiveInodes(e) = LiveInodes(d) \cup {n}
       /\ \A x : x \in Live(e) <=> x \in Live(d) \cup {n} \cup Owns(e, D)
       /\ Listed(e, D) = Listed(d, D) \cup {[name |-> Name(e, D, k), inode_block |-> n]}
  <2>1. AsInode(e[n]).blocks = << >> /\ AsInode(e[n]).owner = user
    BY <1>7 DEF NewInode
  <2> HIDE DEF k
  <2> QED
    BY <1>1, <1>4, <1>5, <1>6, <1>7, <1>10, <1>14, <1>15, <1>16, <1>17, <2>1, EntryAdded
<1>19. Owns(e, D) \subseteq Live(d)
  BY <1>6, LiveOwns DEF Owns, DataBlocksOf
<1>20. SameNode(d, e, D)
  BY <1>6 DEF SameNode
<1> QED
  BY <1>4, <1>5, <1>6, <1>14, <1>18, <1>19, <1>20 DEF e, f, EntrySet

(* A directory's inode is written with one more block, whose first entry is *)
(* its only one.                                                            *)
LEMMA EntryInNewBlock ==
  ASSUME NEW d \in [Blocks -> Content], SoundDisk(d), NEW D \in LiveInodes(d), IsDir(d, D),
         NEW n \in Blocks \ Live(d), NEW z \in Blocks \ Live(d), n # z, NEW name \in Names,
         \A s \in Entries(d, D) : Name(d, D, s) # name,
         d[z] = FolderBlock([EmptyFolders EXCEPT ![1] = [name |-> name, inode_block |-> n]]),
         NEW type \in {"f", "d"}, NEW user \in Users, d[n] = InodeBlock(NewInode(type, user)),
         AsInode(d[D]).owner \in {NoUser, user}, NEW inode \in Inode,
         inode.type = AsInode(d[D]).type, inode.owner = AsInode(d[D]).owner,
         inode.blocks = Append(AsInode(d[D]).blocks, z)
  PROVE  LET e == Written(d, D, InodeBlock(inode))
         IN  /\ SoundDisk(e) /\ SameBut(d, e, D)
             /\ LiveInodes(e) = LiveInodes(d) \cup {n} /\ Live(e) = Live(d) \cup {n, z}
             /\ Listed(e, D) = Listed(d, D) \cup {[name |-> name, inode_block |-> n]}
             /\ SameNode(d, e, D) /\ e[n] = d[n] /\ e \in [Blocks -> Content]
<1> DEFINE e == Written(d, D, InodeBlock(inode))
           len == Len(AsInode(d[D]).blocks)
           k == <<len + 1, 1>>
<1>1. D \in Blocks /\ d[D].kind = "inode" /\ D # z /\ D # n /\ n # 0
  BY SoundRefs, LiveOwns, LiveInodesLeast DEF Owns
<1>2. e \in [Blocks -> Content]
  BY ContentTypes DEF Written
<1>3. SameBut(d, e, D)
  BY <1>1, WrittenSameBut DEF Owns
<1>4. AsInode(e[D]) = inode /\ e[D].kind = "inode" /\ \A b \in Blocks \ {D} : e[b] = d[b]
  BY <1>1, ContentTypes DEF Written
<1> HIDE DEF e
<1>5. len \in Nat /\ AsInode(d[D]).blocks \in Seq(Blocks)
  BY <1>1, InodeFacts DEF BlockList
<1>6. /\ Positions(d, D) = 1 .. len /\ Positions(e, D) = 1 .. len + 1
      /\ \A i \in 1 .. len : Block(e, D, i) = Block(d, D, i)
      /\ Block(e, D, len + 1) = z
  BY <1>4, <1>5 DEF Positions, Block
<1> HIDE DEF len
<1>7. AsInode(e[n]) = NewInode(type, user) /\ e[n].kind = "inode"
  BY <1>1, <1>4, ContentTypes
<1>8. \A i \in 1 .. len : /\ Block(d, D, i) \in Blocks /\ d[Block(d, D, i)].kind = "dir"
                          /\ e[Block(d, D, i)] = d[Block(d, D, i)]
  <2>1. \A i \in 1 .. len : Block(d, D, i) \in DataBlocksOf(d, D)
    BY <1>6, DataBlocksAre
  <2>2. \A i \in 1 .. len : Block(d, D, i) \in Blocks /\ d[Block(d, D, i)].kind = "dir"
    BY <2>1, SoundRefs
  <2> QED
    BY <1>1, <1>4, <2>2
<1>9. e[z] = d[z] /\ AsFolders(e[z]) = [EmptyFolders EXCEPT ![1] = [name |-> name, inode_block |-> n]]
      /\ e[z].kind = "dir"
  BY <1>1, <1>4, ContentTypes
<1>10. 1 \in 1 .. FS_DIRENTRIES
  BY LayoutAssumption
<1>11. AsFolders(e[z])[1] = [name |-> name, inode_block |-> n]
       /\ \A m \in 1 .. FS_DIRENTRIES : m # 1 => AsFolders(e[z])[m].inode_block = 0
  <2> DEFINE first == [name |-> name, inode_block |-> n]
  <2>1. \A m \in 1 .. FS_DIRENTRIES :
          [EmptyFolders EXCEPT ![1] = first][m] = IF m = 1 THEN first ELSE Unused
    <3> HIDE DEF first
    <3> QED
      BY <1>10 DEF EmptyFolders
  <2>2. AsFolders(e[z]) = [EmptyFolders EXCEPT ![1] = first]
    BY <1>9
  <2>3. \A m \in 1 .. FS_DIRENTRIES : AsFolders(e[z])[m] = IF m = 1 THEN first ELSE Unused
    <3> HIDE DEF first
    <3> QED
      BY <2>1, <2>2
  <2>4. Unused.inode_block = 0
    BY DEF Unused
  <2> QED
    BY <1>10, <2>3, <2>4
<1>12. len + 1 \in Positions(e, D) /\ len + 1 \notin Positions(d, D) /\ Positions(d, D) \subseteq Positions(e, D)
  BY <1>5, <1>6
<1>13. ASSUME NEW l \in Positions(d, D), NEW m \in 1 .. FS_DIRENTRIES
       PROVE  /\ <<l, m>> \in Entries(e, D) <=> <<l, m>> \in Entries(d, D)
              /\ Target(e, D, <<l, m>>) = Target(d, D, <<l, m>>)
              /\ Name(e, D, <<l, m>>) = Name(d, D, <<l, m>>)
  <2>1. AsFolders(e[Block(e, D, l)])[m] = AsFolders(d[Block(d, D, l)])[m]
    BY <1>6, <1>8
  <2>2. /\ <<l, m>> \in Entries(e, D) <=> AsFolders(e[Block(e, D, l)])[m].inode_block # 0
        /\ Target(e, D, <<l, m>>) = AsFolders(e[Block(e, D, l)])[m].inode_block
        /\ Name(e, D, <<l, m>>) = AsFolders(e[Block(e, D, l)])[m].name
    BY <1>12, EntriesAre
  <2>3. /\ <<l, m>> \in Entries(d, D) <=> AsFolders(d[Block(d, D, l)])[m].inode_block # 0
        /\ Target(d, D, <<l, m>>) = AsFolders(d[Block(d, D, l)])[m].inode_block
        /\ Name(d, D, <<l, m>>) = AsFolders(d[Block(d, D, l)])[m].name
    BY EntriesAre
  <2> QED
    BY <2>1, <2>2, <2>3
<1>14. ASSUME NEW m \in 1 .. FS_DIRENTRIES
       PROVE  /\ <<len + 1, m>> \in Entries(e, D) <=> m = 1
              /\ Target(e, D, k) = n /\ Name(e, D, k) = name
  <2>1. \A o \in 1 .. FS_DIRENTRIES :
          /\ <<len + 1, o>> \in Entries(e, D) <=> AsFolders(e[z])[o].inode_block # 0
          /\ Target(e, D, <<len + 1, o>>) = AsFolders(e[z])[o].inode_block
          /\ Name(e, D, <<len + 1, o>>) = AsFolders(e[z])[o].name
    BY <1>6, <1>12, EntriesAre
  <2> QED
    BY <1>1, <1>10, <1>11, <2>1
<1>15. k \notin Entries(d, D)
  BY <1>12, EntriesAre
<1>16. Entries(e, D) = Entries(d, D) \cup {k}
  <2>1. ASSUME NEW s \in Entries(e, D) PROVE s \in Entries(d, D) \cup {k}
    <3>1. PICK l \in Positions(e, D), m \in 1 .. FS_DIRENTRIES : s = <<l, m>>
      BY EntriesAre
    <3>2. CASE l \in Positions(d, D)
      BY <1>13, <3>1, <3>2
    <3>3. CASE l = len + 1
      BY <1>14, <3>1, <3>3
    <3> QED
      BY <1>5, <1>6, <3>2, <3>3
  <2>2. ASSUME NEW s \in Entries(d, D) PROVE s \in Entries(e, D)
    BY <1>13, EntriesAre
  <2>3. k \in Entries(e, D)
    BY <1>10, <1>14
  <2> QED
    BY <2>1, <2>2, <2>3
<1>17. \A s \in Entries(d, D) : /\ Target(e, D, s) = Target(d, D, s)
                                /\ Name(e, D, s) = Name(d, D, s)
                                /\ Name(d, D, s) # Name(e, D, k)
  <2> SUFFICES ASSUME NEW s \in Entries(d, D)
               PROVE  /\ Target(e, D, s) = Target(d, D, s) /\ Name(e, D, s) = Name(d, D, s)
                      /\ Name(d, D, s) # Name(e, D, k)
    OBVIOUS
  <2>1. s[1] \in Positions(d, D) /\ s[2] \in 1 .. FS_DIRENTRIES /\ s = <<s[1], s[2]>>
    BY EntriesAre
  <2>2. Target(e, D, s) = Target(d, D, s) /\ Name(e, D, s) = Name(d, D, s)
    BY <1>13, <2>1
  <2>3. Name(e, D, k) = name /\ Name(d, D, s) # name
    BY <1>10, <1>14
  <2> QED
    BY <2>2, <2>3
<1>18. \A l \in Positions(e, D) : e[Block(e, D, l)].kind = "dir"
  <2> SUFFICES ASSUME NEW l \in Positions(e, D) PROVE e[Block(e, D, l)].kind = "dir"
    OBVIOUS
  <2>1. l \in 1 .. len \/ l = len + 1
    BY <1>5, <1>6
  <2> QED
    BY <1>6, <1>8, <1>9, <2>1
<1>19. \A l \in Positions(e, D) \ Positions(d, D) : l = k[1] /\ Block(e, D, l) \notin Live(d) \cup {n}
  <2>1. \A l \in Positions(e, D) \ Positions(d, D) : l = len + 1
    BY <1>5, <1>6
  <2> QED
    BY <1>6, <2>1
<1>20. Target(e, D, k) = n
  BY <1>10, <1>14
<1>21. /\ SoundDisk(e) /\ LiveInodes(e) = LiveInodes(d) \cup {n}
       /\ \A x : x \in Live(e) <=> x \in Live(d) \cup {n} \cup Owns(e, D)
       /\ Listed(e, D) = Listed(d, D) \cup {[name |-> Name(e, D, k), inode_block |-> n]}
  <2>1. AsInode(e[n]).blocks = << >> /\ AsInode(e[n]).owner = user
    BY <1>7 DEF NewInode
  <2>2. \A i \in Positions(d, D) : Block(e, D, i) = Block(d, D, i)
    BY <1>6
  <2> HIDE DEF k
  <2>3. AsInode(e[D]).type = AsInode(d[D]).type /\ AsInode(e[D]).owner = AsInode(d[D]).owner
        /\ e[D].kind = "inode"
    BY <1>4
  <2>4. AsInode(e[n]).owner \in Users /\ AsInode(d[D]).owner \in {NoUser, AsInode(e[n]).owner}
    BY <2>1
  <2>5. /\ SoundDisk(e) /\ LiveInodes(e) = LiveInodes(d) \cup {n}
        /\ \A x : x \in Live(e) <=> x \in Live(d) \cup {n} \cup Owns(e, D)
    BY <1>2, <1>3, <1>7, <1>12, <1>15, <1>16, <1>17, <1>18, <1>19, <1>20,
       <2>1, <2>2, <2>3, <2>4, EntryAdded
  <2>6. Listed(e, D) = Listed(d, D) \cup {[name |-> Name(e, D, k), inode_block |-> n]}
    BY <1>2, <1>3, <1>7, <1>12, <1>15, <1>16, <1>17, <1>18, <1>19, <1>20,
       <2>1, <2>2, <2>3, <2>4, EntryAdded, SMTT(30)
  <2> QED
    BY <2>5, <2>6
<1>22. Owns(e, D) = Owns(d, D) \cup {z}
  <2>1. /\ \A x : x \in DataBlocksOf(d, D) <=> \E i \in 1 .. len : Block(d, D, i) = x
        /\ \A x : x \in DataBlocksOf(e, D) <=> \E i \in 1 .. len + 1 : Block(e, D, i) = x
    <3>1. \A x : x \in DataBlocksOf(d, D) <=> \E i \in Positions(d, D) : Block(d, D, i) = x
      BY DataBlocksAre
    <3>2. \A x : x \in DataBlocksOf(e, D) <=> \E i \in Positions(e, D) : Block(e, D, i) = x
      BY DataBlocksAre
    <3> QED
      BY <1>6, <3>1, <3>2
  <2>2. 1 .. len + 1 = 1 .. len \cup {len + 1}
    BY <1>5
  <2>3. \A x : x \in DataBlocksOf(e, D)
               <=> (\E i \in 1 .. len : Block(e, D, i) = x) \/ Block(e, D, len + 1) = x
    BY <2>1, <2>2, Zenon
  <2>4. \A x : (\E i \in 1 .. len : Block(e, D, i) = x) <=> \E i \in 1 .. len : Block(d, D, i) = x
    BY <1>6, Zenon
  <2>5. \A x : x \in DataBlocksOf(e, D) <=> x \in DataBlocksOf(d, D) \cup {z}
    BY <1>6, <2>1, <2>3, <2>4, Zenon
  <2> QED
    BY <2>5 DEF Owns
<1>23. Owns(d, D) \subseteq Live(d)
  BY LiveOwns
<1>24. Live(e) = Live(d) \cup {n, z}
  BY <1>21, <1>22, <1>23
<1>25. SameNode(d, e, D) /\ e[n] = d[n]
  BY <1>1, <1>4 DEF SameNode
<1>26. Name(e, D, k) = name
  BY <1>10, <1>14
<1> QED
  BY <1>2, <1>3, <1>21, <1>24, <1>25, <1>26 DEF e

(* An entry of a block with others is cleared. *)
LEMMA EntryCleared ==
  ASSUME NEW d \in [Blocks -> Content], SoundDisk(d), NEW D \in LiveInodes(d), IsDir(d, D),
         NEW i \in Positions(d, D), NEW j \in 1 .. FS_DIRENTRIES, <<i, j>> \in Entries(d, D),
         NEW other \in 1 .. FS_DIRENTRIES, other # j, <<i, other>> \in Entries(d, D),
         NEW n, Target(d, D, <<i, j>>) = n, ChildrenOf(d, n) = {}
  PROVE  LET e == EntrySet(d, D, i, j, Unused)
         IN  /\ SoundDisk(e) /\ SameBut(d, e, D) /\ n \in LiveInodes(d) /\ n # D
             /\ LiveInodes(e) = LiveInodes(d) \ {n} /\ Live(e) = Live(d) \ Owns(d, n)
             /\ Listed(e, D) = Listed(d, D) \ {[name |-> Name(d, D, <<i, j>>), inode_block |-> n]}
             /\ SameNode(d, e, D) /\ e \in [Blocks -> Content]
<1> DEFINE z == Block(d, D, i)
           f == [AsFolders(d[z]) EXCEPT ![j] = Unused]
           e == Written(d, z, FolderBlock(f))
           k == <<i, j>>
           up == [l \in Positions(d, D) |-> l]
<1>1. /\ D \in Blocks /\ d[D].kind = "inode" /\ z \in DataBlocksOf(d, D) /\ z \in Blocks
      /\ d[z].kind = "dir" /\ SoundInode(d, D)
  BY SoundRefs, DataBlocksAre
<1>2. AsFolders(d[z]) \in Folders
  BY <1>1, ReadTypes
<1>3. f \in Folders
  BY <1>2, BlocksFacts DEF Folders, Direntry, Unused
<1>4. e \in [Blocks -> Content]
  BY <1>3, ContentTypes DEF Written
<1>5. SameBut(d, e, D)
  BY <1>1, WrittenSameBut DEF Owns
<1>6. e[D] = d[D] /\ AsFolders(e[z]) = f /\ e[z].kind = "dir"
      /\ \A b \in Blocks \ {z} : e[b] = d[b]
  BY <1>1, ContentTypes DEF Written
<1>8. \A l \in 1 .. FS_DIRENTRIES : f[l] = IF l = j THEN Unused ELSE AsFolders(d[z])[l]
  BY <1>2 DEF Folders
<1> HIDE DEF e, f
<1>10. /\ Positions(e, D) = Positions(d, D)
       /\ \A l \in Positions(d, D) : Block(e, D, l) = Block(d, D, l)
  BY <1>6 DEF Positions, Block
<1>11. \A l \in Positions(d, D) : Block(d, D, l) \in Blocks /\ (Block(d, D, l) = z => l = i)
                                  /\ d[Block(d, D, l)].kind = "dir"
  BY <1>1, InodeFacts DEF SoundInode
<1>12. ASSUME NEW l \in Positions(d, D), NEW m \in 1 .. FS_DIRENTRIES
       PROVE  AsFolders(e[Block(e, D, l)])[m] =
                IF <<l, m>> = k THEN Unused ELSE AsFolders(d[Block(d, D, l)])[m]
  <2>1. CASE l = i
    BY <1>6, <1>8, <1>10, <2>1
  <2>2. CASE l # i
    BY <1>6, <1>10, <1>11, <2>2
  <2> QED
    BY <2>1, <2>2
<1>13. ASSUME NEW l \in Positions(d, D), NEW m \in 1 .. FS_DIRENTRIES
       PROVE  /\ <<l, m>> \in Entries(e, D) <=> <<l, m>> \in Entries(d, D) \ {k}
              /\ <<l, m>> # k => /\ Target(e, D, <<l, m>>) = Target(d, D, <<l, m>>)
                                 /\ Name(e, D, <<l, m>>) = Name(d, D, <<l, m>>)
  <2>1. AsFolders(e[Block(e, D, l)])[m] =
          IF <<l, m>> = k THEN Unused ELSE AsFolders(d[Block(d, D, l)])[m]
    BY <1>12
  <2>2. /\ <<l, m>> \in Entries(e, D) <=> AsFolders(e[Block(e, D, l)])[m].inode_block # 0
        /\ Target(e, D, <<l, m>>) = AsFolders(e[Block(e, D, l)])[m].inode_block
        /\ Name(e, D, <<l, m>>) = AsFolders(e[Block(e, D, l)])[m].name
    BY <1>10, EntriesAre
  <2>3. /\ <<l, m>> \in Entries(d, D) <=> AsFolders(d[Block(d, D, l)])[m].inode_block # 0
        /\ Target(d, D, <<l, m>>) = AsFolders(d[Block(d, D, l)])[m].inode_block
        /\ Name(d, D, <<l, m>>) = AsFolders(d[Block(d, D, l)])[m].name
    BY EntriesAre
  <2>4. CASE <<l, m>> = k
    BY <2>1, <2>2, <2>4 DEF Unused
  <2>5. CASE <<l, m>> # k
    BY <2>1, <2>2, <2>3, <2>5
  <2> QED
    BY <2>4, <2>5
<1>14. \A s : s \in Entries(e, D) <=> s \in Entries(d, D) \ {k}
  BY <1>10, <1>13, EntriesAre
<1>15. \A s \in Entries(e, D) : /\ s = Moved(up, s)
                                /\ s \in Entries(d, D) \ {k}
                                /\ Target(e, D, s) = Target(d, D, s)
                                /\ Name(e, D, s) = Name(d, D, s)
  BY <1>10, <1>13, <1>14, EntriesAre DEF Moved
<1>16. \A r \in Entries(d, D) \ {k} : r \in Entries(e, D) /\ r = Moved(up, r)
  BY <1>14, EntriesAre DEF Moved
<1>17. \A l \in Positions(e, D) : e[Block(e, D, l)].kind = "dir"
  BY <1>6, <1>10, <1>11
<1>18. \A l \in Positions(e, D) : \E s \in Entries(e, D) : s[1] = l
  <2>1. \A l \in Positions(d, D) : \E s \in Entries(d, D) : s[1] = l
    BY <1>1 DEF SoundInode
  <2> SUFFICES ASSUME NEW l \in Positions(e, D) PROVE \E s \in Entries(e, D) : s[1] = l
    OBVIOUS
  <2>2. CASE l = i
    <3>1. PICK m \in 1 .. FS_DIRENTRIES : m # j /\ <<i, m>> \in Entries(d, D)
      OBVIOUS
    <3>2. <<i, m>> # k
      BY <3>1
    <3>3. <<i, m>> \in Entries(e, D) /\ <<i, m>>[1] = i
      BY <1>14, <3>1, <3>2
    <3> QED
      BY <2>2, <3>3
  <2>3. CASE l # i
    BY <1>10, <1>14, <2>1, <2>3
  <2> QED
    BY <2>2, <2>3
<1>19. \A l \in Positions(e, D) : /\ up[l] \in Positions(d, D)
                                  /\ Block(e, D, l) = Block(d, D, up[l])
                                  /\ up[l] = l
  BY <1>10
<1>20. /\ SoundDisk(e)
       /\ LiveInodes(e) = LiveInodes(d) \ {n} /\ n \in LiveInodes(d) /\ n # D
       /\ \A x : x \in Live(e) <=>
                   x \in Live(d) \ (Owns(d, n) \cup (DataBlocksOf(d, D) \ DataBlocksOf(e, D)))
       /\ Listed(e, D) = Listed(d, D) \ {[name |-> Name(d, D, k), inode_block |-> n]}
  <2>1. \A s \in Entries(e, D) : /\ Moved(up, s) \in Entries(d, D) \ {k}
                                 /\ Target(e, D, s) = Target(d, D, Moved(up, s))
                                 /\ Name(e, D, s) = Name(d, D, Moved(up, s))
    BY <1>15
  <2>2. \A r \in Entries(d, D) \ {k} : \E s \in Entries(e, D) : r = Moved(up, s)
    BY <1>16
  <2>3. k \in Entries(d, D) /\ Target(d, D, k) = n
    OBVIOUS
  <2>4. AsInode(e[D]) = AsInode(d[D]) /\ e[D].kind = "inode"
    BY <1>1, <1>6
  <2> HIDE DEF k, up
  <2> QED
    BY <1>1, <1>4, <1>5, <1>17, <1>18, <1>19, <2>1, <2>2, <2>3, <2>4, EntryRemoved
<1>21. DataBlocksOf(e, D) = DataBlocksOf(d, D)
  BY <1>6 DEF DataBlocksOf
<1>22. Live(e) = Live(d) \ Owns(d, n)
  BY <1>20, <1>21
<1>23. SameNode(d, e, D)
  BY <1>6 DEF SameNode
<1> QED
  BY <1>4, <1>5, <1>20, <1>22, <1>23 DEF e, f, EntrySet

(* Where the element at l was before the one at i was removed. *)
Shifted(i, l) == IF l < i THEN l ELSE l + 1

(* RemoveAt closes the gap. *)
LEMMA RemoveAtIndex ==
  ASSUME NEW S, NEW s \in Seq(S), NEW i \in 1 .. Len(s)
  PROVE  /\ RemoveAt(s, i) \in Seq(S) /\ Len(RemoveAt(s, i)) = Len(s) - 1
         /\ \A l \in 1 .. Len(s) - 1 : RemoveAt(s, i)[l] = s[Shifted(i, l)]
<1> DEFINE front == SubSeq(s, 1, i - 1)
           back  == SubSeq(s, i + 1, Len(s))
<1>1. Len(s) \in Nat
  OBVIOUS
<1>2. front \in Seq(S) /\ Len(front) = i - 1 /\ \A l \in 1 .. i - 1 : front[l] = s[l]
  BY <1>1
<1>3. back \in Seq(S) /\ Len(back) = Len(s) - i /\ \A l \in 1 .. Len(s) - i : back[l] = s[i + l]
  BY <1>1
<1>4. RemoveAt(s, i) = front \o back
  BY DEF RemoveAt
<1> HIDE DEF front, back
<1>5. /\ front \o back \in Seq(S) /\ Len(front \o back) = Len(front) + Len(back)
      /\ \A l \in 1 .. Len(front) + Len(back) :
           (front \o back)[l] = IF l <= Len(front) THEN front[l] ELSE back[l - Len(front)]
  BY <1>2, <1>3, ConcatProperties, Zenon
<1>6. ASSUME NEW l \in 1 .. Len(s) - 1
      PROVE  (front \o back)[l] = s[Shifted(i, l)]
  <2>1. CASE l < i
    BY <1>1, <1>2, <1>3, <1>5, <2>1 DEF Shifted
  <2>2. CASE ~(l < i)
    <3>1. l - (i - 1) \in 1 .. Len(s) - i /\ i + (l - (i - 1)) = l + 1 /\ ~(l <= i - 1)
      BY <1>1, <2>2
    <3>2. l \in 1 .. Len(front) + Len(back)
      BY <1>1, <1>2, <1>3
    <3>3. (front \o back)[l] = back[l - (i - 1)]
      BY <1>2, <1>5, <3>1, <3>2
    <3> QED
      BY <1>3, <2>2, <3>1, <3>3 DEF Shifted
  <2> QED
    BY <2>1, <2>2
<1> QED
  BY <1>1, <1>2, <1>3, <1>4, <1>5, <1>6

(* A directory's inode is written without a block that has one entry. *)
LEMMA EntryBlockRemoved ==
  ASSUME NEW d \in [Blocks -> Content], SoundDisk(d), NEW D \in LiveInodes(d), IsDir(d, D),
         NEW i \in Positions(d, D), NEW j \in 1 .. FS_DIRENTRIES, <<i, j>> \in Entries(d, D),
         \A m \in 1 .. FS_DIRENTRIES : m # j => <<i, m>> \notin Entries(d, D),
         NEW n, Target(d, D, <<i, j>>) = n, ChildrenOf(d, n) = {}, NEW inode \in Inode,
         inode.type = AsInode(d[D]).type, inode.owner = AsInode(d[D]).owner,
         inode.blocks = RemoveAt(AsInode(d[D]).blocks, i)
  PROVE  LET z == Block(d, D, i)
             e == Written(d, D, InodeBlock(inode))
         IN  /\ SoundDisk(e) /\ SameBut(d, e, D) /\ n \in LiveInodes(d) /\ n # D
             /\ LiveInodes(e) = LiveInodes(d) \ {n} /\ Live(e) = Live(d) \ (Owns(d, n) \cup {z})
             /\ Listed(e, D) = Listed(d, D) \ {[name |-> Name(d, D, <<i, j>>), inode_block |-> n]}
             /\ SameNode(d, e, D) /\ e \in [Blocks -> Content]
<1> DEFINE z == Block(d, D, i)
           e == Written(d, D, InodeBlock(inode))
           len == Len(AsInode(d[D]).blocks)
           k == <<i, j>>
           up == [l \in Nat |-> Shifted(i, l)]
<1>1. D \in Blocks /\ d[D].kind = "inode" /\ SoundInode(d, D)
  BY SoundRefs
<1>2. e \in [Blocks -> Content]
  BY ContentTypes DEF Written
<1>3. SameBut(d, e, D)
  BY <1>1, WrittenSameBut DEF Owns
<1>4. AsInode(e[D]) = inode /\ e[D].kind = "inode" /\ \A b \in Blocks \ {D} : e[b] = d[b]
  BY <1>1, ContentTypes DEF Written
<1> HIDE DEF e
<1>5. len \in Nat /\ AsInode(d[D]).blocks \in Seq(Blocks) /\ i \in 1 .. len /\ len - 1 \in Nat
  BY <1>1, InodeFacts DEF BlockList, Positions
<1>6. /\ Positions(d, D) = 1 .. len /\ Positions(e, D) = 1 .. len - 1
      /\ \A l \in 1 .. len - 1 : Block(e, D, l) = Block(d, D, Shifted(i, l))
  BY <1>4, <1>5, RemoveAtIndex DEF Positions, Block
<1>7. /\ \A l \in 1 .. len - 1 : up[l] = Shifted(i, l) /\ Shifted(i, l) \in 1 .. len /\ Shifted(i, l) # i
      /\ \A l, m \in 1 .. len - 1 : Shifted(i, l) = Shifted(i, m) => l = m
      /\ \A l \in 1 .. len : l # i => \E m \in 1 .. len - 1 : Shifted(i, m) = l
  <2>1. \A l \in 1 .. len : l # i => \E m \in 1 .. len - 1 : Shifted(i, m) = l
    <3> SUFFICES ASSUME NEW l \in 1 .. len, l # i PROVE \E m \in 1 .. len - 1 : Shifted(i, m) = l
      OBVIOUS
    <3>1. CASE l < i
      BY <1>5, <3>1 DEF Shifted
    <3>2. CASE l > i
      <4>1. l - 1 \in 1 .. len - 1 /\ Shifted(i, l - 1) = l
        BY <1>5, <3>2 DEF Shifted
      <4> QED
        BY <4>1
    <3> QED
      BY <1>5, <3>1, <3>2
  <2>2. \A l \in 1 .. len - 1 : Shifted(i, l) \in 1 .. len /\ Shifted(i, l) # i /\ l \in Nat
    BY <1>5 DEF Shifted
  <2>3. \A l, m \in 1 .. len - 1 : Shifted(i, l) = Shifted(i, m) => l = m
    BY <1>5 DEF Shifted
  <2> QED
    BY <2>1, <2>2, <2>3
<1> HIDE DEF len, up
<1>p. Positions(d, D) = 1 .. len
  BY <1>6
<1>q. Positions(e, D) = 1 .. len - 1
  BY <1>6
<1>r. \A l \in 1 .. len - 1 : Block(e, D, l) = Block(d, D, Shifted(i, l))
  BY <1>6
<1>8. \A l \in 1 .. len : /\ Block(d, D, l) \in DataBlocksOf(d, D)
                          /\ Block(d, D, l) \in Blocks /\ d[Block(d, D, l)].kind = "dir"
                          /\ e[Block(d, D, l)] = d[Block(d, D, l)]
  <2>1. \A l \in 1 .. len : Block(d, D, l) \in DataBlocksOf(d, D)
    BY <1>6, DataBlocksAre
  <2>2. \A l \in 1 .. len : Block(d, D, l) \in Blocks /\ d[Block(d, D, l)].kind = "dir"
    BY <2>1, SoundRefs
  <2> QED
    BY <1>1, <1>4, <2>1, <2>2
<1>9. ASSUME NEW l \in 1 .. len - 1, NEW m \in 1 .. FS_DIRENTRIES
      PROVE  /\ <<l, m>> \in Entries(e, D) <=> <<Shifted(i, l), m>> \in Entries(d, D)
             /\ Target(e, D, <<l, m>>) = Target(d, D, <<Shifted(i, l), m>>)
             /\ Name(e, D, <<l, m>>) = Name(d, D, <<Shifted(i, l), m>>)
  <2>1. AsFolders(e[Block(e, D, l)])[m] = AsFolders(d[Block(d, D, Shifted(i, l))])[m]
    BY <1>6, <1>7, <1>8
  <2>2. /\ <<l, m>> \in Entries(e, D) <=> AsFolders(e[Block(e, D, l)])[m].inode_block # 0
        /\ Target(e, D, <<l, m>>) = AsFolders(e[Block(e, D, l)])[m].inode_block
        /\ Name(e, D, <<l, m>>) = AsFolders(e[Block(e, D, l)])[m].name
    <3>1. l \in Positions(e, D)
      BY <1>q
    <3> QED
      BY ONLY <3>1, EntriesAre, m \in 1 .. FS_DIRENTRIES
  <2>3. Shifted(i, l) \in Positions(d, D)
    BY <1>6, <1>7
  <2>4. /\ <<Shifted(i, l), m>> \in Entries(d, D) <=> AsFolders(d[Block(d, D, Shifted(i, l))])[m].inode_block # 0
        /\ Target(d, D, <<Shifted(i, l), m>>) = AsFolders(d[Block(d, D, Shifted(i, l))])[m].inode_block
        /\ Name(d, D, <<Shifted(i, l), m>>) = AsFolders(d[Block(d, D, Shifted(i, l))])[m].name
    BY <2>3, EntriesAre
  <2> QED
    BY <2>1, <2>2, <2>4
<1>10. ASSUME NEW s \in Entries(e, D)
       PROVE  /\ Moved(up, s) \in Entries(d, D) \ {k}
              /\ Target(e, D, s) = Target(d, D, Moved(up, s))
              /\ Name(e, D, s) = Name(d, D, Moved(up, s))
  <2>1. s[1] \in 1 .. len - 1 /\ s[2] \in 1 .. FS_DIRENTRIES /\ s = <<s[1], s[2]>>
    <3>1. s[1] \in Positions(e, D) /\ s[2] \in 1 .. FS_DIRENTRIES /\ s = <<s[1], s[2]>>
      BY EntriesAre
    <3> QED
      BY <1>q, <3>1
  <2>2. up[s[1]] = Shifted(i, s[1]) /\ Shifted(i, s[1]) # i
    BY <1>7, <2>1
  <2>3. <<Shifted(i, s[1]), s[2]>> # k
    BY <2>2
  <2>4. Moved(up, s) = <<Shifted(i, s[1]), s[2]>>
    BY <2>2 DEF Moved
  <2> QED
    BY <1>9, <2>1, <2>3, <2>4
<1>11. ASSUME NEW r \in Entries(d, D) \ {k}
       PROVE  \E s \in Entries(e, D) : r = Moved(up, s)
  <2>1. r[1] \in 1 .. len /\ r[2] \in 1 .. FS_DIRENTRIES /\ r = <<r[1], r[2]>>
    BY <1>6, EntriesAre
  <2>2. r[1] # i
    BY <2>1
  <2>3. PICK l \in 1 .. len - 1 : Shifted(i, l) = r[1]
    BY <1>7, <2>1, <2>2
  <2> DEFINE s == <<l, r[2]>>
  <2>4. s \in Entries(e, D)
    BY <1>9, <2>1, <2>3
  <2>5. s[1] = l /\ s[2] = r[2]
    OBVIOUS
  <2> HIDE DEF s
  <2>6. r = Moved(up, s)
    BY <1>7, <2>1, <2>3, <2>5 DEF Moved
  <2> QED
    BY <2>4, <2>6
<1>12. \A l \in Positions(e, D) : \E s \in Entries(e, D) : s[1] = l
  <2> SUFFICES ASSUME NEW l \in 1 .. len - 1 PROVE \E s \in Entries(e, D) : s[1] = l
    BY <1>6
  <2>1. Shifted(i, l) \in Positions(d, D)
    BY <1>6, <1>7
  <2>2. PICK r \in Entries(d, D) : r[1] = Shifted(i, l)
    BY <1>1, <2>1 DEF SoundInode
  <2>3. r = <<Shifted(i, l), r[2]>> /\ r[2] \in 1 .. FS_DIRENTRIES
    BY <2>2, EntriesAre
  <2>4. <<l, r[2]>> \in Entries(e, D)
    BY <1>9, <2>3
  <2>5. <<l, r[2]>>[1] = l
    OBVIOUS
  <2> QED
    BY <2>4, <2>5
<1>13. \A l \in Positions(e, D) : /\ up[l] \in Positions(d, D)
                                  /\ Block(e, D, l) = Block(d, D, up[l])
                                  /\ e[Block(e, D, l)].kind = "dir"
  BY <1>6, <1>7, <1>8
<1>14. \A l, m \in Positions(e, D) : up[l] = up[m] => l = m
  BY <1>6, <1>7
<1>15. /\ SoundDisk(e)
       /\ LiveInodes(e) = LiveInodes(d) \ {n} /\ n \in LiveInodes(d) /\ n # D
       /\ \A x : x \in Live(e) <=>
                   x \in Live(d) \ (Owns(d, n) \cup (DataBlocksOf(d, D) \ DataBlocksOf(e, D)))
       /\ Listed(e, D) = Listed(d, D) \ {[name |-> Name(d, D, k), inode_block |-> n]}
  <2>1. \A s \in Entries(e, D) : /\ Moved(up, s) \in Entries(d, D) \ {k}
                                 /\ Target(e, D, s) = Target(d, D, Moved(up, s))
                                 /\ Name(e, D, s) = Name(d, D, Moved(up, s))
    BY <1>10
  <2>2. \A r \in Entries(d, D) \ {k} : \E s \in Entries(e, D) : r = Moved(up, s)
    BY <1>11
  <2>3. k \in Entries(d, D) /\ Target(d, D, k) = n
    OBVIOUS
  <2>4. AsInode(e[D]).type = AsInode(d[D]).type /\ AsInode(e[D]).owner = AsInode(d[D]).owner
        /\ e[D].kind = "inode"
    BY <1>4
  <2> HIDE DEF k
  <2>5. /\ d \in [Blocks -> Content] /\ SoundDisk(d) /\ D \in LiveInodes(d) /\ IsDir(d, D)
        /\ ChildrenOf(d, n) = {}
    OBVIOUS
  <2>6. SoundDisk(e)
    BY ONLY <1>2, <1>3, <1>12, <1>13, <1>14, <2>1, <2>2, <2>3, <2>4, <2>5, EntryRemoved
  <2>7. LiveInodes(e) = LiveInodes(d) \ {n} /\ n \in LiveInodes(d) /\ n # D
    BY ONLY <1>2, <1>3, <1>12, <1>13, <1>14, <2>1, <2>2, <2>3, <2>4, <2>5, EntryRemoved
  <2>8. \A x : x \in Live(e) <=>
                x \in Live(d) \ (Owns(d, n) \cup (DataBlocksOf(d, D) \ DataBlocksOf(e, D)))
    BY ONLY <1>2, <1>3, <1>12, <1>13, <1>14, <2>1, <2>2, <2>3, <2>4, <2>5, EntryRemoved
  <2>9. Listed(e, D) = Listed(d, D) \ {[name |-> Name(d, D, k), inode_block |-> n]}
    BY ONLY <1>2, <1>3, <1>12, <1>13, <1>14, <2>1, <2>2, <2>3, <2>4, <2>5, EntryRemoved
  <2> QED
    BY <2>6, <2>7, <2>8, <2>9
<1>16. \A x : x \in DataBlocksOf(d, D) \ DataBlocksOf(e, D) <=> x = z
  <2>1. \A l, m \in 1 .. len : Block(d, D, l) = Block(d, D, m) => l = m
    BY <1>1, <1>6 DEF SoundInode
  <2>2. \A x : x \in DataBlocksOf(d, D) <=> \E l \in 1 .. len : Block(d, D, l) = x
    BY <1>p, DataBlocksAre
  <2>3. \A x : x \in DataBlocksOf(e, D) <=> \E l \in 1 .. len - 1 : Block(d, D, Shifted(i, l)) = x
    <3>1. \A x : x \in DataBlocksOf(e, D) <=> \E l \in Positions(e, D) : Block(e, D, l) = x
      BY DataBlocksAre
    <3> QED
      BY <1>q, <1>r, <3>1
  <2> QED
    BY <1>5, <1>7, <2>1, <2>2, <2>3
<1>17. Live(e) = Live(d) \ (Owns(d, n) \cup {z})
  BY <1>15, <1>16
<1>18. SameNode(d, e, D)
  BY <1>4 DEF SameNode
<1> QED
  BY <1>2, <1>3, <1>15, <1>17, <1>18 DEF e

-----------------------------------------------------------------------------
(* search_directory finds the entry with the name; when there is none, it    *)
(* returns an unused entry, or else the first of a block still to be added. *)
LEMMA SearchDirectoryFinds ==
  ASSUME NEW d \in [Blocks -> Content], NEW D \in Blocks, NEW name,
         NEW s \in SearchDirectory(d, AsInode(d[D]), name)
  PROVE  \/ /\ s.found
            /\ \E i \in Positions(d, D), j \in 1 .. FS_DIRENTRIES :
                 LET f == AsFolders(d[Block(d, D, i)])
                 IN  /\ s.blocks_index = i /\ s.folder_index = j /\ s.folders = f
                     /\ f[j].inode_block # 0 /\ f[j].name = name
         \/ /\ ~s.found
            /\ \A r \in Entries(d, D) : Name(d, D, r) # name
            /\ \/ \E i \in Positions(d, D), j \in 1 .. FS_DIRENTRIES :
                    LET f == AsFolders(d[Block(d, D, i)])
                    IN  /\ s.blocks_index = i /\ s.folder_index = j /\ s.folders = f
                        /\ f[j].inode_block = 0
               \/ s.blocks_index = Len(AsInode(d[D]).blocks) + 1 /\ s.folder_index = 1
<1> DEFINE inode == AsInode(d[D])
           At(r, found) == [found |-> found, blocks_index |-> r[1], folder_index |-> r[2],
                            folders |-> AsFolders(d[inode.blocks[r[1]]])]
           last == [found |-> FALSE, blocks_index |-> Len(inode.blocks) + 1,
                    folder_index |-> 1, folders |-> EmptyFolders]
<1>1. ASSUME NEW r \in Slots(inode)
      PROVE  /\ r[1] \in Positions(d, D) /\ r[2] \in 1 .. FS_DIRENTRIES
             /\ inode.blocks[r[1]] = Block(d, D, r[1])
             /\ EntryAt(d, inode, r) = AsFolders(d[inode.blocks[r[1]]])[r[2]]
  BY DEF Slots, Positions, Block, EntryAt
<1>2. /\ \A r \in Hits(d, inode, name) : /\ r \in Slots(inode) /\ EntryAt(d, inode, r).inode_block # 0
                                         /\ EntryAt(d, inode, r).name = name
      /\ \A r \in Holes(d, inode) : r \in Slots(inode) /\ EntryAt(d, inode, r).inode_block = 0
      /\ Hits(d, inode, name) = {} => \A r \in Entries(d, D) : Name(d, D, r) # name
  BY DEF Hits, Holes, Entries, Name
<1>3. \/ \E r \in Hits(d, inode, name) : s = At(r, TRUE)
      \/ Hits(d, inode, name) = {} /\ \E r \in Holes(d, inode) : s = At(r, FALSE)
      \/ Hits(d, inode, name) = {} /\ s = last
  BY DEF SearchDirectory, FirstOf
<1>4. CASE \E r \in Hits(d, inode, name) : s = At(r, TRUE)
  <2>1. PICK r \in Hits(d, inode, name) : s = At(r, TRUE)
    BY <1>4
  <2>2. s.found /\ s.blocks_index = r[1] /\ s.folder_index = r[2]
        /\ s.folders = AsFolders(d[inode.blocks[r[1]]])
    BY <2>1
  <2> QED
    BY <1>1, <1>2, <2>2
<1>5. CASE Hits(d, inode, name) = {} /\ \E r \in Holes(d, inode) : s = At(r, FALSE)
  <2>1. PICK r \in Holes(d, inode) : s = At(r, FALSE)
    BY <1>5
  <2>2. ~s.found /\ s.blocks_index = r[1] /\ s.folder_index = r[2]
        /\ s.folders = AsFolders(d[inode.blocks[r[1]]])
    BY <2>1
  <2> QED
    BY <1>1, <1>2, <1>5, <2>2
<1>6. CASE Hits(d, inode, name) = {} /\ s = last
  <2>1. ~s.found /\ s.blocks_index = Len(inode.blocks) + 1 /\ s.folder_index = 1
    BY <1>6
  <2> QED
    BY <1>2, <1>6, <2>1
<1> QED
  BY <1>3, <1>4, <1>5, <1>6

-----------------------------------------------------------------------------
(* The paths of the tree on a disk, and how a write changes them. *)

At(p, name, b) == [path |-> Append(p.path, name), block |-> b]

(* The recursion of PathsTo. *)
WithBelow(d, S) == S \cup UNION {Below(d, p) : p \in S}

PathDeeper(d, F) == [b \in Place |-> {b} \cup UNION {F[c] : c \in Below(d, b)}]

PathLevelsTo(d, n, g) ==
  g[0] = [b \in Place |-> {b}] /\ \A k \in 1 .. n : g[k] = PathDeeper(d, g[k - 1])

PathLevels(d) ==
  CHOOSE W : W = [n \in Nat |->
    [b \in Place |->
       {b} \cup IF n = 0 THEN {} ELSE UNION {W[n - 1][c] : c \in Below(d, b)}]]

(* The recursion has a solution. *)
LEMMA PathLevelsDefined ==
  ASSUME NEW d
  PROVE  /\ PathLevels(d)[0] = [b \in Place |-> {b}]
         /\ \A n \in Nat : PathLevels(d)[n + 1] = PathDeeper(d, PathLevels(d)[n])
<1>1. \A n \in Nat : \E g : PathLevelsTo(d, n, g)
  <2> DEFINE Bad == {n \in Nat : ~ \E g : PathLevelsTo(d, n, g)}
  <2>1. SUFFICES ASSUME Bad # {} PROVE FALSE
    OBVIOUS
  <2>2. PICK n \in Bad : \A m \in Bad : n <= m
    BY <2>1, Least
  <2>3. n # 0
    <3>1. PathLevelsTo(d, 0, [k \in {0} |-> [b \in Place |-> {b}]])
      BY DEF PathLevelsTo
    <3> QED
      BY <3>1
  <2>4. PICK g : PathLevelsTo(d, n - 1, g)
    BY <2>2, <2>3
  <2> DEFINE h == [k \in 0 .. n |-> IF k = n THEN PathDeeper(d, g[n - 1]) ELSE g[k]]
  <2>5. h[0] = [b \in Place |-> {b}] /\ \A k \in 1 .. n : h[k] = PathDeeper(d, h[k - 1])
    BY <2>3, <2>4 DEF PathLevelsTo
  <2>6. PathLevelsTo(d, n, h)
    BY <2>5 DEF PathLevelsTo
  <2> QED
    BY <2>6
<1>2. ASSUME NEW g, NEW h, NEW n \in Nat, NEW m \in Nat, n <= m,
             PathLevelsTo(d, n, g), PathLevelsTo(d, m, h)
      PROVE  g[n] = h[n]
  <2> DEFINE Bad == {k \in Nat : k <= n /\ g[k] # h[k]}
  <2>1. SUFFICES ASSUME Bad # {} PROVE FALSE
    OBVIOUS
  <2>2. PICK k \in Bad : \A j \in Bad : k <= j
    BY <2>1, Least
  <2>3. k # 0
    BY <1>2 DEF PathLevelsTo
  <2>4. g[k - 1] = h[k - 1]
    BY <2>2, <2>3
  <2> QED
    BY <1>2, <2>3, <2>4 DEF PathLevelsTo
<1> DEFINE G(n) == CHOOSE g : PathLevelsTo(d, n, g)
           F == [n \in Nat |-> G(n)[n]]
<1>3. \A n \in Nat : PathLevelsTo(d, n, G(n))
  BY <1>1
<1> HIDE DEF G
<1>4. F[0] = [b \in Place |-> {b}]
  BY <1>3 DEF PathLevelsTo
<1>5. ASSUME NEW n \in Nat PROVE F[n + 1] = PathDeeper(d, F[n])
  <2>1. PathLevelsTo(d, n, G(n)) /\ PathLevelsTo(d, n + 1, G(n + 1))
    BY <1>3
  <2>2. G(n)[n] = G(n + 1)[n]
    BY <1>2, <2>1
  <2>3. G(n + 1)[n + 1] = PathDeeper(d, G(n + 1)[n])
    BY <2>1 DEF PathLevelsTo
  <2> QED
    BY <2>2, <2>3
<1> DEFINE Rec(W) == [n \in Nat |->
             [b \in Place |->
                {b} \cup IF n = 0 THEN {} ELSE UNION {W[n - 1][c] : c \in Below(d, b)}]]
<1>6. F = Rec(F)
  <2>1. ASSUME NEW n \in Nat PROVE F[n] = Rec(F)[n]
    <3>1. CASE n = 0
      BY <1>4, <3>1
    <3>2. CASE n # 0
      <4>1. n - 1 \in Nat /\ (n - 1) + 1 = n
        BY <3>2
      <4>2. F[n] = PathDeeper(d, F[n - 1])
        BY <1>5, <4>1
      <4> HIDE DEF F
      <4> QED
        BY <3>2, <4>2 DEF PathDeeper
    <3> QED
      BY <3>1, <3>2
  <2>2. Rec(F) = [n \in Nat |-> Rec(F)[n]] /\ F = [n \in Nat |-> F[n]]
    OBVIOUS
  <2> HIDE DEF F, Rec
  <2> QED
    BY <2>1, <2>2
<1>7. PathLevels(d) = Rec(PathLevels(d))
  <2> HIDE DEF F
  <2> QED
    BY <1>6 DEF PathLevels
<1>8. ASSUME NEW n \in Nat PROVE PathLevels(d)[n + 1] = PathDeeper(d, PathLevels(d)[n])
  <2>1. PathLevels(d)[n + 1] = Rec(PathLevels(d))[n + 1]
    BY <1>7
  <2>2. n + 1 \in Nat /\ n + 1 # 0 /\ (n + 1) - 1 = n
    OBVIOUS
  <2>3. Rec(PathLevels(d))[n + 1] = PathDeeper(d, PathLevels(d)[n])
    BY <2>2 DEF PathDeeper
  <2> QED
    BY <2>1, <2>3
<1> QED
  BY <1>7, <1>8, ZenonT(40)

(* A list ends in one way. *)
LEMMA AppendTwice ==
  ASSUME NEW S, NEW s \in Seq(S), NEW r \in Seq(S), NEW x \in S, NEW y \in S,
         Append(s, x) = Append(r, y)
  PROVE  s = r /\ x = y
<1>1. Len(s) = Len(r)
  OBVIOUS
<1>2. x = y
  <2>1. Append(s, x)[Len(s) + 1] = x /\ Append(r, y)[Len(r) + 1] = y
    OBVIOUS
  <2> QED
    BY <1>1, <2>1
<1>3. \A i \in 1 .. Len(s) : s[i] = r[i]
  <2>1. ASSUME NEW i \in 1 .. Len(s) PROVE s[i] = r[i]
    <3>1. Append(s, x)[i] = s[i] /\ Append(r, y)[i] = r[i]
      BY <1>1
    <3> QED
      BY <3>1
  <2> QED
    BY <2>1
<1> QED
  BY <1>1, <1>2, <1>3

(* An entry's name and target. *)
LEMMA EntryName ==
  ASSUME NEW d \in [Blocks -> Content], NEW b \in Blocks, NEW s \in Entries(d, b)
  PROVE  Name(d, b, s) \in Names \cup {NoName} /\ Target(d, b, s) \in Blocks
<1>1. s \in Slots(AsInode(d[b]))
  BY DEF Entries
<1>2. AsInode(d[b]).blocks[s[1]] \in Blocks /\ s[2] \in 1 .. FS_DIRENTRIES
  BY <1>1, ReadTypes, BlockListBlocks DEF Slots, Inode
<1>3. AsFolders(d[AsInode(d[b]).blocks[s[1]]]) \in Folders
  BY <1>2, ReadTypes
<1>4. EntryAt(d, AsInode(d[b]), s) \in Direntry
  BY <1>2, <1>3 DEF EntryAt, Folders
<1> QED
  BY <1>4 DEF Name, Target, Direntry

(* What is below a place: the entries of its directory. *)
LEMMA BelowMeans ==
  ASSUME NEW d \in [Blocks -> Content], NEW p \in Place
  PROVE  /\ \A q : q \in Below(d, p) <=>
              /\ IsDir(d, p.block)
              /\ \E s \in Entries(d, p.block) :
                   q = At(p, Name(d, p.block, s), Target(d, p.block, s))
         /\ Below(d, p) \subseteq Place
         /\ \A q \in Below(d, p) : q.block \in ChildrenOf(d, p.block)
         /\ \A c \in ChildrenOf(d, p.block) : \E q \in Below(d, p) : q.block = c
<1> DEFINE b == p.block
<1>1. b \in Blocks /\ p.path \in Seq(Names \cup {NoName})
  BY DEF Place
<1>2. \A s \in Entries(d, b) : Name(d, b, s) \in Names \cup {NoName} /\ Target(d, b, s) \in Blocks
  BY <1>1, EntryName
<1>3. \A q : q \in Below(d, p) <=>
        IsDir(d, b) /\ \E s \in Entries(d, b) : q = At(p, Name(d, b, s), Target(d, b, s))
  BY DEF Below, At, Name, Target, IsDir
<1>4. Below(d, p) \subseteq Place
  BY <1>1, <1>2, <1>3 DEF Place, At
<1>5. \A q \in Below(d, p) : q.block \in ChildrenOf(d, b)
  BY <1>3, ChildrenAreTargets DEF At
<1>6. ASSUME NEW c \in ChildrenOf(d, b) PROVE \E q \in Below(d, p) : q.block = c
  <2>1. IsDir(d, b)
    BY <1>6 DEF ChildrenOf, IsDir
  <2>2. PICK s \in Entries(d, b) : Target(d, b, s) = c
    BY <1>6, <2>1, ChildrenAreTargets
  <2>3. At(p, Name(d, b, s), c) \in Below(d, p) /\ At(p, Name(d, b, s), c).block = c
    BY <1>3, <2>1, <2>2 DEF At
  <2> QED
    BY <2>3
<1> QED
  BY <1>3, <1>4, <1>5, <1>6

(* A level holds the last one and what is below it; every place of it is the *)
(* One level more is what is below the last. *)
LEMMA PathLevelsGrow ==
  ASSUME NEW d \in [Blocks -> Content], NEW n \in Nat, NEW b \in Place
  PROVE  PathLevels(d)[n + 1][b] = WithBelow(d, PathLevels(d)[n][b])
<1> DEFINE L == PathLevels(d)
           Bad == {k \in Nat : \E x \in Place : L[k + 1][x] # WithBelow(d, L[k][x])}
<1>1. /\ \A x \in Place : L[0][x] = {x}
      /\ \A k \in Nat : \A x \in Place :
           L[k + 1][x] = {x} \cup UNION {L[k][c] : c \in Below(d, x)}
  <2>1. L[0] = [x \in Place |-> {x}]
    BY PathLevelsDefined
  <2>2. \A k \in Nat : L[k + 1] = PathDeeper(d, L[k])
    BY PathLevelsDefined
  <2> HIDE DEF L
  <2>3. ASSUME NEW k \in Nat, NEW x \in Place
        PROVE  L[k + 1][x] = {x} \cup UNION {L[k][c] : c \in Below(d, x)}
    <3>1. L[k + 1] = PathDeeper(d, L[k])
      BY <2>2
    <3> QED
      BY <3>1 DEF PathDeeper
  <2> QED
    BY <2>1, <2>3
<1> HIDE DEF L
<1>2. SUFFICES ASSUME Bad # {} PROVE FALSE
  BY DEF L
<1>3. PICK k \in Bad : \A j \in Bad : k <= j
  BY <1>2, Least
<1>4. PICK x \in Place : L[k + 1][x] # WithBelow(d, L[k][x])
  OBVIOUS
<1>5. Below(d, x) \subseteq Place
  BY BelowMeans
<1>6. L[k + 1][x] = {x} \cup UNION {L[k][c] : c \in Below(d, x)}
  BY <1>1
<1>7. k # 0
  <2>1. SUFFICES ASSUME k = 0 PROVE FALSE
    OBVIOUS
  <2>2. \A c \in Below(d, x) : L[0][c] = {c}
    BY <1>1, <1>5
  <2>3. UNION {L[0][c] : c \in Below(d, x)} = Below(d, x)
    BY <2>2
  <2> QED
    BY <1>1, <1>4, <1>6, <2>1, <2>3 DEF WithBelow
<1>8. k - 1 \in Nat /\ (k - 1) + 1 = k /\ k - 1 \notin Bad
  BY <1>3, <1>7
<1>9. \A c \in Below(d, x) : L[k][c] = WithBelow(d, L[k - 1][c])
  BY <1>5, <1>8
<1>10. L[k][x] = {x} \cup UNION {L[k - 1][c] : c \in Below(d, x)}
  BY <1>1, <1>8
<1>11. \A c \in Below(d, x) : c \in L[k - 1][c]
  <2>1. CASE k - 1 = 0
    BY <1>1, <1>5, <2>1
  <2>2. CASE k - 1 # 0
    <3>1. k - 2 \in Nat /\ (k - 2) + 1 = k - 1
      BY <1>8, <2>2
    <3> QED
      BY <1>1, <1>5, <3>1
  <2> QED
    BY <2>1, <2>2
<1>12. L[k + 1][x] \subseteq WithBelow(d, L[k][x])
  BY <1>6, <1>9, <1>10 DEF WithBelow
<1>13. WithBelow(d, L[k][x]) \subseteq L[k + 1][x]
  <2>1. SUFFICES ASSUME NEW y \in WithBelow(d, L[k][x]) PROVE y \in L[k + 1][x]
    OBVIOUS
  <2>2. CASE y \in {x} \cup Below(d, x)
    BY <1>6, <1>9, <1>11, <2>2 DEF WithBelow
  <2>3. CASE \E c \in Below(d, x) : y \in WithBelow(d, L[k - 1][c])
    BY <1>6, <1>9, <2>3
  <2> QED
    BY <1>10, <2>2, <2>3 DEF WithBelow
<1> QED
  BY <1>4, <1>12, <1>13

(* The places within n entries of the root. *)
PathsWithin(d) == [n \in Nat |-> PathLevels(d)[n][Root]]

(* root or below one of the last level.                                     *)
LEMMA PathsGrow ==
  ASSUME NEW d \in [Blocks -> Content], NEW n \in Nat
  PROVE  /\ PathsWithin(d)[0] = {Root}
         /\ Root \in PathsWithin(d)[n] /\ PathsWithin(d)[n] \subseteq Place
         /\ PathsWithin(d)[n] \subseteq PathsWithin(d)[n + 1]
         /\ \A q : q \in PathsWithin(d)[n + 1] <=>
              q = Root \/ \E p \in PathsWithin(d)[n] : q \in Below(d, p)
<1> DEFINE W == PathsWithin(d)
<1>1. W[0] = {Root} /\ \A k \in Nat : W[k + 1] = WithBelow(d, W[k])
  <2>1. Root \in Place
    BY BlocksFacts DEF Root, Place
  <2>2. PathLevels(d)[0][Root] = {Root}
    BY <2>1, PathLevelsDefined
  <2>3. ASSUME NEW k \in Nat PROVE PathLevels(d)[k + 1][Root] = WithBelow(d, PathLevels(d)[k][Root])
    BY <2>1, PathLevelsGrow
  <2> QED
    BY <2>2, <2>3 DEF PathsWithin
<1> HIDE DEF W
<1>2. Root \in Place
  BY BlocksFacts DEF Root, Place
<1> DEFINE Good(k) == /\ Root \in W[k] /\ W[k] \subseteq Place /\ W[k] \subseteq W[k + 1]
                      /\ \A q : q \in W[k + 1] <=> q = Root \/ \E p \in W[k] : q \in Below(d, p)
           Bad == {k \in Nat : ~Good(k)}
<1>3. SUFFICES ASSUME Bad # {} PROVE FALSE
  BY <1>1 DEF W
<1>4. PICK k \in Bad : \A j \in Bad : k <= j
  BY <1>3, Least
<1>5. k \in Nat /\ W[k + 1] = W[k] \cup UNION {Below(d, p) : p \in W[k]}
  BY <1>1 DEF WithBelow
<1>6. CASE k = 0
  BY <1>1, <1>2, <1>5, <1>6
<1>7. CASE k # 0
  <2>1. k - 1 \in Nat /\ (k - 1) + 1 = k /\ k - 1 \notin Bad
    BY <1>4, <1>7
  <2>2. Good(k - 1)
    BY <2>1
  <2>3. \A q : q \in W[k] <=> q = Root \/ \E p \in W[k - 1] : q \in Below(d, p)
    BY <2>1, <2>2
  <2>4. Root \in W[k] /\ W[k] \subseteq Place
    BY <1>2, <2>2, <2>3, BelowMeans
  <2>5. W[k - 1] \subseteq W[k]
    BY <2>1, <2>2
  <2> HIDE DEF Good
  <2>6. Good(k)
    BY <1>5, <2>3, <2>4, <2>5 DEF Good
  <2> QED
    BY <2>6
<1> QED
  BY <1>6, <1>7

(* A child is the target of one entry of one directory. *)
LEMMA OneEntryTo ==
  ASSUME NEW d \in [Blocks -> Content], SoundDisk(d), NEW p \in Place, NEW q \in Place,
         p.block \in LiveInodes(d), q.block \in LiveInodes(d),
         NEW m \in Below(d, p), NEW n \in Below(d, q), m.block = n.block
  PROVE  p.block = q.block /\ m.block # 0 /\ (p = q => m = n)
<1>1. m.block \in ChildrenOf(d, p.block) /\ n.block \in ChildrenOf(d, q.block)
  BY BelowMeans
<1>2. p.block = q.block
  BY <1>1, ChildOnce
<1>3. m.block # 0
  BY <1>1, SoundRefs
<1>4. ASSUME p = q PROVE m = n
  <2>1. IsDir(d, p.block)
    BY BelowMeans
  <2>2. PICK s \in Entries(d, p.block) : m = At(p, Name(d, p.block, s), Target(d, p.block, s))
    BY BelowMeans
  <2>3. PICK r \in Entries(d, p.block) : n = At(p, Name(d, p.block, r), Target(d, p.block, r))
    BY <1>4, BelowMeans
  <2>4. Target(d, p.block, s) = Target(d, p.block, r)
    BY <2>2, <2>3 DEF At
  <2>5. SoundInode(d, p.block)
    BY SoundRefs
  <2>6. \A x, y \in Entries(d, p.block) : Target(d, p.block, x) = Target(d, p.block, y) => x = y
    BY <2>1, <2>5 DEF SoundInode
  <2>7. s = r
    BY <2>4, <2>6
  <2> QED
    BY <2>2, <2>3, <2>7
<1> QED
  BY <1>2, <1>3, <1>4

(* Two places of a level are not the same inode, and the inodes of level n   *)
(* are those at most n entries below the root.                              *)
LEMMA PathsWithinBlocks ==
  ASSUME NEW d \in [Blocks -> Content], SoundDisk(d), NEW n \in Nat
  PROVE  /\ \A p, q \in PathsWithin(d)[n] : p.block = q.block => p = q
         /\ \A b : b \in Levels(d)[n][0] <=> \E p \in PathsWithin(d)[n] : p.block = b
         /\ \A p \in PathsWithin(d)[n] : p.block \in LiveInodes(d)
<1> DEFINE W == PathsWithin(d)
           L == [k \in Nat |-> Levels(d)[k][0]]
<1>1. /\ W[0] = {Root}
      /\ \A k \in Nat : /\ Root \in W[k] /\ W[k] \subseteq Place /\ W[k] \subseteq W[k + 1]
                        /\ \A q : q \in W[k + 1] <=> q = Root \/ \E p \in W[k] : q \in Below(d, p)
  BY PathsGrow
<1>2. L[0] = {0} /\ \A k \in Nat : L[k + 1] = Grow(d, L[k])
  <2>1. Levels(d)[0] = [b \in Blocks |-> {b}] /\ 0 \in Blocks
    BY LevelsDefined, BlocksFacts
  <2>2. ASSUME NEW k \in Nat PROVE L[k + 1] = Grow(d, L[k])
    <3>1. Levels(d)[k + 1][0] = Grow(d, Levels(d)[k][0])
      BY <2>1, LevelsGrow
    <3>2. L[k + 1] = Levels(d)[k + 1][0] /\ L[k] = Levels(d)[k][0]
      OBVIOUS
    <3> QED
      BY <3>1, <3>2
  <2> QED
    BY <2>1, <2>2
<1>3. L[n] = Levels(d)[n][0]
  OBVIOUS
<1> HIDE DEF W, L
<1> DEFINE Once(k)   == \A p, q \in W[k] : p.block = q.block => p = q
           Blks(k)   == \A b : b \in L[k] <=> \E p \in W[k] : p.block = b
           Alive(k)  == \A p \in W[k] : p.block \in LiveInodes(d)
           Bad == {k \in Nat : ~(Once(k) /\ Blks(k) /\ Alive(k))}
<1>4. SUFFICES ASSUME Bad # {} PROVE FALSE
  BY <1>3 DEF W
<1>5. PICK k \in Bad : \A j \in Bad : k <= j
  BY <1>4, Least
<1>6. CASE k = 0
  <2>1. Once(k) /\ Alive(k) /\ Blks(k)
    BY <1>1, <1>2, <1>6, LiveInodesLeast DEF Root
  <2> QED
    BY <2>1
<1>7. CASE k # 0
  <2>1. k - 1 \in Nat /\ (k - 1) + 1 = k /\ k - 1 \notin Bad
    BY <1>5, <1>7
  <2>2. Once(k - 1) /\ Blks(k - 1) /\ Alive(k - 1)
    BY <2>1
  <2>3. /\ \A q : q \in W[k] <=> q = Root \/ \E p \in W[k - 1] : q \in Below(d, p)
        /\ W[k - 1] \subseteq Place /\ W[k - 1] \subseteq W[k] /\ W[k] \subseteq Place
        /\ L[k] = Grow(d, L[k - 1]) /\ Root \in W[k - 1]
    <3>1. W[k] \subseteq Place
      BY <1>1
    <3> HIDE DEF Bad
    <3> QED
      BY <1>1, <1>2, <2>1, <3>1
  <2>4. Alive(k)
    <3>1. SUFFICES ASSUME NEW q \in W[k] PROVE q.block \in LiveInodes(d)
      OBVIOUS
    <3>2. CASE q = Root
      BY <3>2, LiveInodesLeast DEF Root
    <3>3. ASSUME NEW p \in W[k - 1], q \in Below(d, p) PROVE q.block \in LiveInodes(d)
      <4>1. q.block \in ChildrenOf(d, p.block) /\ p.block \in LiveInodes(d)
        BY <2>2, <2>3, <3>3, BelowMeans
      <4> QED
        BY <4>1, LiveInodesLeast
    <3> QED
      BY <2>3, <3>1, <3>2, <3>3
  <2>5. Blks(k)
    <3>1. SUFFICES ASSUME NEW b PROVE b \in L[k] <=> \E p \in W[k] : p.block = b
      OBVIOUS
    <3>2. ASSUME b \in L[k] PROVE \E p \in W[k] : p.block = b
      <4>1. CASE b \in L[k - 1]
        BY <2>2, <2>3, <4>1
      <4>2. ASSUME NEW c \in L[k - 1], b \in ChildrenOf(d, c) PROVE \E p \in W[k] : p.block = b
        <5>1. PICK p \in W[k - 1] : p.block = c
          BY <2>2
        <5>2. \E q \in Below(d, p) : q.block = b
          BY <2>3, <4>2, <5>1, BelowMeans
        <5> QED
          BY <2>3, <5>2
      <4> QED
        BY <2>3, <3>2, <4>1, <4>2 DEF Grow
    <3>3. ASSUME NEW q \in W[k], q.block = b PROVE b \in L[k]
      <4>1. CASE q = Root
        <5>1. b \in L[k - 1]
          BY <2>2, <2>3, <3>3, <4>1
        <5> QED
          BY <2>3, <5>1 DEF Grow
      <4>2. ASSUME NEW p \in W[k - 1], q \in Below(d, p) PROVE b \in L[k]
        <5>1. b \in ChildrenOf(d, p.block) /\ p.block \in L[k - 1]
          BY <2>2, <2>3, <3>3, <4>2, BelowMeans
        <5> QED
          BY <2>3, <5>1 DEF Grow
      <4> QED
        BY <2>3, <3>3, <4>1, <4>2
    <3> QED
      BY <3>2, <3>3
  <2>6. Once(k)
    <3>1. SUFFICES ASSUME NEW m \in W[k], NEW n2 \in W[k], m.block = n2.block PROVE m = n2
      OBVIOUS
    <3>2. \A q \in W[k], p \in W[k - 1] : q \in Below(d, p) => q.block # 0
      BY <2>2, <2>3, OneEntryTo
    <3>3. CASE m = Root \/ n2 = Root
      BY <2>3, <3>1, <3>2, <3>3 DEF Root
    <3>4. ASSUME NEW p \in W[k - 1], NEW q \in W[k - 1], m \in Below(d, p), n2 \in Below(d, q)
          PROVE  m = n2
      <4>1. p.block = q.block /\ (p = q => m = n2)
        BY <2>2, <2>3, <3>1, <3>4, OneEntryTo
      <4> QED
        BY <2>2, <4>1
    <3> QED
      BY <2>3, <3>1, <3>3, <3>4
  <2> QED
    BY <2>4, <2>5, <2>6
<1> QED
  BY <1>6, <1>7

(* PathsTo is a set of places that holds the root and what is below its      *)
(* members, and the least one.                                              *)
LEMMA PathsLeast ==
  ASSUME NEW d \in [Blocks -> Content], SoundDisk(d)
  PROVE  /\ Root \in PathsTo(d) /\ PathsTo(d) \subseteq Place
         /\ \A p \in PathsTo(d) : Below(d, p) \subseteq PathsTo(d)
         /\ \A S : Root \in S /\ (\A p \in S : Below(d, p) \subseteq S) => PathsTo(d) \subseteq S
<1> DEFINE W == PathsWithin(d)
           N == FS_DISKSIZE
<1>1. N \in Nat /\ N + 1 \in Nat
  BY LayoutAssumption
<1>2. PathsTo(d) = W[N]
  BY <1>1 DEF PathsTo, PathLevels, PathsWithin
<1>3. LiveInodes(d) = Levels(d)[N][0]
  BY <1>1 DEF LiveInodes, Levels
<1> HIDE DEF W, N
<1>4. /\ W[0] = {Root}
      /\ \A k \in Nat : /\ Root \in W[k] /\ W[k] \subseteq Place /\ W[k] \subseteq W[k + 1]
                        /\ \A q : q \in W[k + 1] <=> q = Root \/ \E p \in W[k] : q \in Below(d, p)
  BY PathsGrow DEF W
<1>5. ASSUME NEW p \in W[N], NEW q \in Below(d, p) PROVE q \in W[N]
  <2>1. q \in W[N + 1] /\ W[N] \subseteq W[N + 1]
    BY <1>1, <1>4, <1>5
  <2>2. q.block \in LiveInodes(d)
    BY <1>1, <2>1, PathsWithinBlocks DEF W
  <2>3. PICK q2 \in W[N] : q2.block = q.block
    BY <1>1, <1>3, <2>2, PathsWithinBlocks DEF W
  <2>4. q2 = q
    BY <1>1, <2>1, <2>3, PathsWithinBlocks DEF W
  <2> QED
    BY <2>3, <2>4
<1>6. ASSUME NEW S, Root \in S, \A p \in S : Below(d, p) \subseteq S PROVE W[N] \subseteq S
  <2> DEFINE Bad == {k \in Nat : ~ (W[k] \subseteq S)}
  <2>1. SUFFICES ASSUME Bad # {} PROVE FALSE
    BY <1>1
  <2>2. PICK k \in Bad : \A j \in Bad : k <= j
    BY <2>1, Least
  <2>3. k # 0
    BY <1>4, <1>6
  <2>4. k - 1 \in Nat /\ W[k - 1] \subseteq S /\ (k - 1) + 1 = k
    BY <2>2, <2>3
  <2>5. \A q : q \in W[k] <=> q = Root \/ \E p \in W[k - 1] : q \in Below(d, p)
    BY <1>4, <2>4
  <2> QED
    BY <1>6, <2>2, <2>4, <2>5
<1>7. Root \in W[N] /\ W[N] \subseteq Place
  BY <1>1, <1>4
<1> QED
  BY <1>2, <1>5, <1>6, <1>7

(* Every place but the root is below another; a place is the only one with   *)
(* its inode and the only one with its path, and each inode of the tree has *)
(* one.                                                                     *)
LEMMA PathsFacts ==
  ASSUME NEW d \in [Blocks -> Content], SoundDisk(d)
  PROVE  /\ \A p \in PathsTo(d) : p = Root \/ \E q \in PathsTo(d) : p \in Below(d, q)
         /\ \A p, q \in PathsTo(d) : p.block = q.block => p = q
         /\ \A p, q \in PathsTo(d) : p.path = q.path => p = q
         /\ \A b : b \in LiveInodes(d) <=> \E p \in PathsTo(d) : p.block = b
<1> DEFINE P == PathsTo(d)
<1>1. /\ Root \in P /\ P \subseteq Place
      /\ \A p \in P : Below(d, p) \subseteq P
      /\ \A S : Root \in S /\ (\A p \in S : Below(d, p) \subseteq S) => P \subseteq S
  BY PathsLeast
<1>2. /\ \A p, q \in P : p.block = q.block => p = q
      /\ \A b : b \in LiveInodes(d) <=> \E p \in P : p.block = b
  <2>1. FS_DISKSIZE \in Nat
    BY LayoutAssumption
  <2>2. P = PathsWithin(d)[FS_DISKSIZE]
    BY <2>1 DEF PathsTo, PathLevels, PathsWithin
  <2>3. LiveInodes(d) = Levels(d)[FS_DISKSIZE][0]
    BY <2>1 DEF LiveInodes, Levels
  <2> HIDE DEF P
  <2> QED
    BY <2>1, <2>2, <2>3, PathsWithinBlocks
<1> HIDE DEF P
<1>3. \A p \in P : p = Root \/ \E q \in P : p \in Below(d, q)
  <2> DEFINE S == {p \in P : p = Root \/ \E q \in P : p \in Below(d, q)}
  <2>1. Root \in S /\ \A p \in S : Below(d, p) \subseteq S
    BY <1>1
  <2>2. P \subseteq S
    <3> HIDE DEF S
    <3> QED
      BY <1>1, <2>1
  <2> QED
    BY <2>2
<1>4. \A p, q \in P : p.path = q.path => p = q
  <2> DEFINE S == {p \in P : \A q \in P : p.path = q.path => p = q}
  <2>1. ASSUME NEW p \in P, NEW q \in P, p \in Below(d, q)
        PROVE  /\ IsDir(d, q.block) /\ p.path # << >> /\ q.path \in Seq(Names \cup {NoName})
               /\ \E s \in Entries(d, q.block) :
                    p = At(q, Name(d, q.block, s), Target(d, q.block, s))
    <3>1. q \in Place /\ q.path \in Seq(Names \cup {NoName})
      BY <1>1 DEF Place
    <3>2. IsDir(d, q.block)
      BY <2>1, <3>1, BelowMeans
    <3>3. PICK s \in Entries(d, q.block) : p = At(q, Name(d, q.block, s), Target(d, q.block, s))
      BY <2>1, <3>1, BelowMeans
    <3>4. p.path # << >>
      BY <3>1, <3>3, SMTT(30) DEF At
    <3> QED
      BY <3>1, <3>2, <3>3, <3>4
  <2>2. Root \in S
    BY <1>1, <1>3, <2>1 DEF Root
  <2>3. ASSUME NEW p \in S, NEW m \in Below(d, p) PROVE m \in S
    <3>1. SUFFICES ASSUME NEW n \in P, m.path = n.path PROVE m = n
      BY <1>1
    <3>2. p \in P /\ m \in P
      BY <1>1
    <3>3. IsDir(d, p.block) /\ m.path # << >> /\ p.path \in Seq(Names \cup {NoName})
      BY <2>1, <3>2
    <3>4. PICK s \in Entries(d, p.block) : m = At(p, Name(d, p.block, s), Target(d, p.block, s))
      BY <2>1, <3>2
    <3>5. PICK q \in P : n \in Below(d, q)
      BY <1>3, <3>1, <3>3 DEF Root
    <3>6. q.path \in Seq(Names \cup {NoName})
      BY <2>1, <3>5
    <3>7. PICK r \in Entries(d, q.block) : n = At(q, Name(d, q.block, r), Target(d, q.block, r))
      BY <2>1, <3>5
    <3>8. p.path = q.path /\ Name(d, p.block, s) = Name(d, q.block, r)
      <4>1. Append(p.path, Name(d, p.block, s)) = Append(q.path, Name(d, q.block, r))
        BY <3>1, <3>4, <3>7 DEF At
      <4>2. Name(d, p.block, s) \in Names \cup {NoName} /\ Name(d, q.block, r) \in Names \cup {NoName}
        BY <1>1, <3>2, <3>5, EntryName DEF Place
      <4> QED
        BY ONLY <3>3, <3>6, <4>1, <4>2, AppendTwice
    <3>9. p = q
      BY <3>5, <3>8
    <3>10. SoundInode(d, p.block)
      BY <1>2, <3>2, SoundRefs
    <3>11. \A x, y \in Entries(d, p.block) : Name(d, p.block, x) = Name(d, p.block, y) => x = y
      BY <3>3, <3>10 DEF SoundInode
    <3>12. s = r
      BY <3>8, <3>9, <3>11
    <3> QED
      BY <3>4, <3>7, <3>9, <3>12
  <2>4. P \subseteq S
    <3> HIDE DEF S
    <3> QED
      BY <1>1, <2>2, <2>3
  <2> QED
    BY <2>4
<1> QED
  BY <1>2, <1>3, <1>4 DEF P

Owner(d, b) == AsInode(d[b]).owner

Prefix(path, k) == SubSeq(path, 1, k)

(* Below a user's directory everything is that user's. *)
LEMMA OwnerBelow ==
  ASSUME NEW d \in [Blocks -> Content], SoundDisk(d), NEW p \in PathsTo(d), NEW q \in Below(d, p)
  PROVE  /\ Owner(d, p.block) # NoUser => Owner(d, q.block) = Owner(d, p.block)
         /\ Owner(d, q.block) \in Users
<1>1. p \in Place /\ p.block \in LiveInodes(d)
  BY PathsLeast, PathsFacts
<1>2. q.block \in ChildrenOf(d, p.block) /\ IsDir(d, p.block)
  BY <1>1, BelowMeans
<1>3. SoundInode(d, p.block) /\ p.block \in Blocks
  BY <1>1, SoundRefs
<1>4. AsInode(d[q.block]).owner \in
        IF AsInode(d[p.block]).owner = NoUser THEN Users ELSE {AsInode(d[p.block]).owner}
  BY <1>2, <1>3 DEF SoundInode
<1>5. AsInode(d[p.block]).owner \in Users \cup {NoUser}
  BY <1>3, InodeFacts DEF Inode
<1> QED
  BY <1>4, <1>5 DEF Owner

(* The way to a place leads through directories that the place's owner owns, *)
(* once one is not the root's, and has an entry for each name.              *)
OnTheWay(d, p, k, q) ==
  /\ q.path = Prefix(p.path, k)
  /\ Owner(d, q.block) \in {NoUser, Owner(d, p.block)}
  /\ k < Len(p.path) => /\ IsDir(d, q.block)
                        /\ \E s \in Entries(d, q.block) : Name(d, q.block, s) = p.path[k + 1]

LEMMA PathsDown ==
  ASSUME NEW d \in [Blocks -> Content], SoundDisk(d), NEW p \in PathsTo(d), NEW k \in 0 .. Len(p.path)
  PROVE  \E q \in PathsTo(d) : OnTheWay(d, p, k, q)
<1> DEFINE P == PathsTo(d)
           S == {m \in P : \A l \in 0 .. Len(m.path) : \E q \in P : OnTheWay(d, m, l, q)}
<1>1. /\ Root \in P /\ P \subseteq Place
      /\ \A m \in P : Below(d, m) \subseteq P
      /\ \A T : Root \in T /\ (\A m \in T : Below(d, m) \subseteq T) => P \subseteq T
  BY PathsLeast
<1> HIDE DEF P
<1>2. Root \in S
  <2>1. Len(Root.path) = 0 /\ Prefix(Root.path, 0) = Root.path
    BY DEF Root, Prefix
  <2>2. OnTheWay(d, Root, 0, Root)
    BY <2>1 DEF OnTheWay
  <2>3. \A l \in 0 .. Len(Root.path) : OnTheWay(d, Root, l, Root)
    BY <2>1, <2>2
  <2> QED
    BY <1>1, <2>3
<1>3. ASSUME NEW m \in S, NEW n \in Below(d, m) PROVE n \in S
  <2>1. SUFFICES ASSUME NEW l \in 0 .. Len(n.path) PROVE \E q \in P : OnTheWay(d, n, l, q)
    BY <1>1
  <2>2. m \in P /\ n \in P /\ m \in Place /\ m.path \in Seq(Names \cup {NoName}) /\ m.block \in Blocks
    BY <1>1 DEF Place
  <2>3. IsDir(d, m.block)
    BY <2>2, BelowMeans
  <2>4. PICK s \in Entries(d, m.block) : n = At(m, Name(d, m.block, s), Target(d, m.block, s))
    BY <2>2, BelowMeans
  <2> DEFINE x == Name(d, m.block, s)
  <2>5. x \in Names \cup {NoName}
    BY <2>2, EntryName
  <2>6. n.path = Append(m.path, x)
    BY <2>4 DEF At
  <2> HIDE DEF x
  <2>7. /\ Len(n.path) = Len(m.path) + 1 /\ Len(m.path) \in Nat /\ n.path[Len(m.path) + 1] = x
        /\ \A i \in 1 .. Len(m.path) : n.path[i] = m.path[i]
        /\ n.path \in Seq(Names \cup {NoName})
    BY <2>2, <2>5, <2>6
  <2>8. /\ Owner(d, m.block) # NoUser => Owner(d, n.block) = Owner(d, m.block)
    BY <2>2, OwnerBelow DEF P
  <2>9. CASE l = Len(m.path) + 1
    <3>1. Prefix(n.path, l) = n.path
      BY <2>7, <2>9 DEF Prefix
    <3>2. OnTheWay(d, n, l, n)
      BY <2>7, <2>9, <3>1 DEF OnTheWay
    <3> QED
      BY <2>2, <3>2
  <2>10. CASE l = Len(m.path)
    <3>1. Prefix(n.path, l) = m.path
      BY <2>2, <2>7, <2>10 DEF Prefix
    <3>2. OnTheWay(d, n, l, m)
      BY <2>3, <2>7, <2>8, <2>10, <3>1 DEF OnTheWay, x
    <3> QED
      BY <2>2, <3>2
  <2>11. CASE l < Len(m.path)
    <3>1. l \in 0 .. Len(m.path) /\ l + 1 \in 1 .. Len(m.path) /\ l \in Nat
      BY <2>7, <2>11
    <3>2. PICK q \in P : OnTheWay(d, m, l, q)
      BY <3>1
    <3>3. Prefix(n.path, l) = Prefix(m.path, l)
      BY <2>2, <2>7, <3>1 DEF Prefix
    <3>4. n.path[l + 1] = m.path[l + 1]
      BY <2>7, <3>1
    <3>5. OnTheWay(d, n, l, q)
      BY <2>7, <2>8, <2>11, <3>2, <3>3, <3>4 DEF OnTheWay
    <3> QED
      BY <3>5
  <2> QED
    BY <2>7, <2>9, <2>10, <2>11
<1>4. P \subseteq S
  <2> HIDE DEF S
  <2> QED
    BY <1>1, <1>2, <1>3
<1>5. p \in S
  BY <1>4 DEF P
<1> QED
  BY <1>5 DEF P

-----------------------------------------------------------------------------
(* The tree as a client sees it. *)

(* A path is in the tree when it leads to an inode. *)
LEMMA TreeDomain ==
  ASSUME NEW d
  PROVE  \A path : path \in DOMAIN TreeOf(d) <=> \E p \in PathsTo(d) : p.path = path
  BY DEF TreeOf

(* What a path leads to is what its inode says. *)
LEMMA TreeAt ==
  ASSUME NEW d \in [Blocks -> Content], SoundDisk(d), NEW p \in PathsTo(d)
  PROVE  /\ p.path \in DOMAIN TreeOf(d)
         /\ TreeOf(d)[p.path] = NodeOf(d, AsInode(d[p.block]))
<1>1. (CHOOSE n \in PathsTo(d) : n.path = p.path) = p
  BY PathsFacts
<1> QED
  BY <1>1 DEF TreeOf

(* The node that an inode stands for. *)
LEMMA NodeFields ==
  ASSUME NEW d \in [Blocks -> Content], NEW b \in Blocks
  PROVE  LET n == NodeOf(d, AsInode(d[b]))
         IN  /\ n.type = AsInode(d[b]).type /\ n.owner = AsInode(d[b]).owner
             /\ IsDir(d, b) => n.data = << >>
             /\ ~IsDir(d, b) => /\ n.type = "f" /\ Len(n.data) = Len(AsInode(d[b]).blocks)
                                /\ \A i \in Positions(d, b) : n.data[i] = AsData(d[Block(d, b, i)])
<1>1. AsInode(d[b]).type \in {"d", "f"} /\ Len(AsInode(d[b]).blocks) \in Nat
  BY InodeFacts
<1> QED
  BY <1>1 DEF NodeOf, IsDir, Positions, Block

-----------------------------------------------------------------------------
(* How a write to one inode, or to a block it owns, changes the paths. *)

LEMMA BelowListed ==
  ASSUME NEW d \in [Blocks -> Content], NEW p \in Place, IsDir(d, p.block)
  PROVE  \A q : q \in Below(d, p) <=> \E l \in Listed(d, p.block) : q = At(p, l.name, l.inode_block)
<1> DEFINE b == p.block
<1>1. \A q : q \in Below(d, p) <=>
        \E s \in Entries(d, b) : q = At(p, Name(d, b, s), Target(d, b, s))
  BY BelowMeans
<1>2. \A l : l \in Listed(d, b) <=>
        \E s \in Entries(d, b) : l = [name |-> Name(d, b, s), inode_block |-> Target(d, b, s)]
  BY DEF Listed
<1> HIDE DEF b
<1>3. ASSUME NEW s \in Entries(d, b)
      PROVE  LET l == [name |-> Name(d, b, s), inode_block |-> Target(d, b, s)]
             IN  l \in Listed(d, b) /\ l.name = Name(d, b, s) /\ l.inode_block = Target(d, b, s)
  BY <1>2
<1>4. ASSUME NEW q, q \in Below(d, p)
      PROVE  \E l \in Listed(d, b) : q = At(p, l.name, l.inode_block)
  <2>1. PICK s \in Entries(d, b) : q = At(p, Name(d, b, s), Target(d, b, s))
    BY <1>1, <1>4
  <2>2. PICK l : l = [name |-> Name(d, b, s), inode_block |-> Target(d, b, s)]
    OBVIOUS
  <2>3. l \in Listed(d, b) /\ l.name = Name(d, b, s) /\ l.inode_block = Target(d, b, s)
    BY <1>3, <2>2
  <2> QED
    BY <2>1, <2>3
<1>5. ASSUME NEW l \in Listed(d, b)
      PROVE  At(p, l.name, l.inode_block) \in Below(d, p)
  <2>1. PICK s \in Entries(d, b) : l = [name |-> Name(d, b, s), inode_block |-> Target(d, b, s)]
    BY <1>2
  <2>2. l.name = Name(d, b, s) /\ l.inode_block = Target(d, b, s)
    BY <2>1
  <2> QED
    BY <1>1, <2>2
<1> QED
  BY <1>4, <1>5 DEF b

(* An inode whose blocks are as before leads to the same places. *)
LEMMA BelowSame ==
  ASSUME NEW d \in [Blocks -> Content], NEW e \in [Blocks -> Content], NEW p \in Place,
         Same(d, e, p.block)
  PROVE  Below(e, p) = Below(d, p)
<1> DEFINE b == p.block
<1>1. /\ IsDir(e, b) <=> IsDir(d, b)
      /\ Entries(e, b) = Entries(d, b)
      /\ \A s \in Entries(d, b) : Target(e, b, s) = Target(d, b, s) /\ Name(e, b, s) = Name(d, b, s)
  BY SameView DEF IsDir
<1>2. \A q : q \in Below(d, p) <=>
        IsDir(d, b) /\ \E s \in Entries(d, b) : q = At(p, Name(d, b, s), Target(d, b, s))
  BY BelowMeans
<1>3. \A q : q \in Below(e, p) <=>
        IsDir(e, b) /\ \E s \in Entries(e, b) : q = At(p, Name(e, b, s), Target(e, b, s))
  BY BelowMeans
<1> QED
  BY <1>1, <1>2, <1>3

(* The entries stay: the paths do. *)
LEMMA PathsSame ==
  ASSUME NEW d \in [Blocks -> Content], NEW e \in [Blocks -> Content], SoundDisk(d), SoundDisk(e),
         NEW D \in LiveInodes(d), SameBut(d, e, D), IsDir(d, D) <=> IsDir(e, D),
         IsDir(d, D) => Listed(e, D) = Listed(d, D)
  PROVE  PathsTo(e) = PathsTo(d)
<1>1. ASSUME NEW p \in Place, p.block \in LiveInodes(d)
      PROVE  Below(e, p) = Below(d, p)
  <2>1. CASE p.block # D
    BY <1>1, <2>1, BelowSame DEF SameBut
  <2>2. CASE p.block = D /\ IsDir(d, D)
    <3>1. /\ \A q : q \in Below(d, p) <=> \E l \in Listed(d, D) : q = At(p, l.name, l.inode_block)
          /\ \A q : q \in Below(e, p) <=> \E l \in Listed(e, D) : q = At(p, l.name, l.inode_block)
      BY <2>2, BelowListed
    <3> QED
      BY <2>2, <3>1
  <2>3. CASE p.block = D /\ ~IsDir(d, D)
    <3>1. Below(d, p) = {} /\ Below(e, p) = {}
      BY <2>3, BelowMeans
    <3> QED
      BY <3>1
  <2> QED
    BY <2>1, <2>2, <2>3
<1>2. /\ Root \in PathsTo(d) /\ PathsTo(d) \subseteq Place
      /\ \A p \in PathsTo(d) : Below(d, p) \subseteq PathsTo(d) /\ p.block \in LiveInodes(d)
  BY PathsLeast, PathsFacts
<1>3. \A p \in PathsTo(d) : Below(e, p) = Below(d, p)
  BY <1>1, <1>2
<1>4. PathsTo(e) \subseteq PathsTo(d)
  BY <1>2, <1>3, PathsLeast
<1>5. Root \in PathsTo(e) /\ \A p \in PathsTo(e) : Below(e, p) \subseteq PathsTo(e)
  BY PathsLeast
<1>6. \A p \in PathsTo(e) : Below(d, p) \subseteq PathsTo(e)
  BY <1>3, <1>4, <1>5
<1>7. PathsTo(d) \subseteq PathsTo(e)
  BY <1>5, <1>6, PathsLeast
<1> QED
  BY <1>4, <1>7

(* An entry more, to an inode without entries: a path more. *)
LEMMA PathsGain ==
  ASSUME NEW d \in [Blocks -> Content], NEW e \in [Blocks -> Content], SoundDisk(d), SoundDisk(e),
         NEW p \in PathsTo(d), SameBut(d, e, p.block), IsDir(d, p.block), IsDir(e, p.block),
         NEW l, Listed(e, p.block) = Listed(d, p.block) \cup {l},
         ChildrenOf(e, l.inode_block) = {}
  PROVE  PathsTo(e) = PathsTo(d) \cup {At(p, l.name, l.inode_block)}
<1> DEFINE m == At(p, l.name, l.inode_block)
<1>1. /\ Root \in PathsTo(d) /\ PathsTo(d) \subseteq Place
      /\ \A q \in PathsTo(d) : Below(d, q) \subseteq PathsTo(d) /\ q.block \in LiveInodes(d)
      /\ \A q, r \in PathsTo(d) : q.block = r.block => q = r
  BY PathsLeast, PathsFacts
<1>2. \A q \in PathsTo(d) : q # p => Below(e, q) = Below(d, q)
  BY <1>1, BelowSame DEF SameBut
<1>3. Below(e, p) = Below(d, p) \cup {m}
  <2>1. /\ \A q : q \in Below(d, p) <=> \E k \in Listed(d, p.block) : q = At(p, k.name, k.inode_block)
        /\ \A q : q \in Below(e, p) <=> \E k \in Listed(e, p.block) : q = At(p, k.name, k.inode_block)
    BY <1>1, BelowListed
  <2> QED
    BY <2>1
<1>4. /\ Root \in PathsTo(e) /\ PathsTo(e) \subseteq Place
      /\ \A q \in PathsTo(e) : Below(e, q) \subseteq PathsTo(e)
  BY PathsLeast
<1>5. PathsTo(d) \subseteq PathsTo(e)
  <2> DEFINE S == PathsTo(d) \cap PathsTo(e)
  <2>1. Root \in S /\ \A q \in S : Below(d, q) \subseteq S
    BY <1>1, <1>2, <1>3, <1>4
  <2>2. PathsTo(d) \subseteq S
    <3> HIDE DEF S
    <3> QED
      BY <2>1, PathsLeast
  <2> QED
    BY <2>2
<1>6. m \in PathsTo(e)
  BY <1>3, <1>4, <1>5
<1>7. Below(e, m) = {}
  <2>1. m \in Place /\ m.block = l.inode_block
    BY <1>4, <1>6 DEF At
  <2> HIDE DEF m
  <2> QED
    BY <2>1, BelowMeans
<1>8. PathsTo(e) \subseteq PathsTo(d) \cup {m}
  <2> DEFINE S == PathsTo(d) \cup {m}
  <2> HIDE DEF m
  <2>1. Root \in S /\ \A q \in S : Below(e, q) \subseteq S
    BY <1>1, <1>2, <1>3, <1>7
  <2>2. PathsTo(e) \subseteq S
    <3> HIDE DEF S
    <3> QED
      BY <2>1, PathsLeast
  <2> QED
    BY <2>2
<1> QED
  BY <1>5, <1>6, <1>8

(* An entry less, to an inode without entries: a path less. *)
LEMMA PathsLose ==
  ASSUME NEW d \in [Blocks -> Content], NEW e \in [Blocks -> Content], SoundDisk(d), SoundDisk(e),
         NEW p \in PathsTo(d), SameBut(d, e, p.block), IsDir(d, p.block), IsDir(e, p.block),
         NEW l \in Listed(d, p.block), Listed(e, p.block) = Listed(d, p.block) \ {l},
         ChildrenOf(d, l.inode_block) = {}, l.inode_block \notin LiveInodes(e)
  PROVE  /\ At(p, l.name, l.inode_block) \in PathsTo(d)
         /\ PathsTo(e) = PathsTo(d) \ {At(p, l.name, l.inode_block)}
<1> DEFINE m == At(p, l.name, l.inode_block)
<1>1. /\ Root \in PathsTo(d) /\ PathsTo(d) \subseteq Place
      /\ \A q \in PathsTo(d) : Below(d, q) \subseteq PathsTo(d) /\ q.block \in LiveInodes(d)
      /\ \A q, r \in PathsTo(d) : q.block = r.block => q = r
  BY PathsLeast, PathsFacts
<1>2. \A q \in PathsTo(d) : q # p => Below(e, q) = Below(d, q)
  BY <1>1, BelowSame DEF SameBut
<1>3. m \in Below(d, p) /\ Below(e, p) \subseteq Below(d, p) /\ Below(d, p) \subseteq Below(e, p) \cup {m}
  <2>1. /\ \A q : q \in Below(d, p) <=> \E k \in Listed(d, p.block) : q = At(p, k.name, k.inode_block)
        /\ \A q : q \in Below(e, p) <=> \E k \in Listed(e, p.block) : q = At(p, k.name, k.inode_block)
    BY <1>1, BelowListed
  <2> QED
    BY <2>1
<1>4. /\ Root \in PathsTo(e) /\ PathsTo(e) \subseteq Place
      /\ \A q \in PathsTo(e) : Below(e, q) \subseteq PathsTo(e) /\ q.block \in LiveInodes(e)
  BY PathsLeast, PathsFacts
<1>5. m \in PathsTo(d) /\ m \notin PathsTo(e)
  <2>1. m.block = l.inode_block
    BY DEF At
  <2> HIDE DEF m
  <2> QED
    BY <1>1, <1>3, <1>4, <2>1
<1>6. Below(d, m) = {}
  <2>1. m \in Place /\ m.block = l.inode_block
    BY <1>1, <1>5 DEF At
  <2> HIDE DEF m
  <2> QED
    BY <2>1, BelowMeans
<1> HIDE DEF m
<1>7. PathsTo(e) \subseteq PathsTo(d)
  <2>1. \A q \in PathsTo(d) : Below(e, q) \subseteq PathsTo(d)
    BY <1>1, <1>2, <1>3
  <2> QED
    BY <1>1, <2>1, PathsLeast
<1>8. PathsTo(d) \subseteq PathsTo(e) \cup {m}
  <2> DEFINE S == PathsTo(d) \cap (PathsTo(e) \cup {m})
  <2>1. Root \in S /\ \A q \in S : Below(d, q) \subseteq S
    BY <1>1, <1>2, <1>3, <1>4, <1>6
  <2>2. PathsTo(d) \subseteq S
    <3> HIDE DEF S
    <3> QED
      BY <2>1, PathsLeast
  <2> QED
    BY <2>2
<1> QED
  BY <1>5, <1>7, <1>8 DEF m

-----------------------------------------------------------------------------
(* The tree as a function from paths to nodes. *)

NodeAt(d, b) == NodeOf(d, AsInode(d[b]))

(* A function is the tree when it has the nodes of the tree at their paths. *)
LEMMA TreeIs ==
  ASSUME NEW d \in [Blocks -> Content], SoundDisk(d), NEW S, NEW T,
         T = [path \in S |-> T[path]],
         \A path : path \in S <=> \E p \in PathsTo(d) : p.path = path,
         \A p \in PathsTo(d) : T[p.path] = NodeAt(d, p.block)
  PROVE  TreeOf(d) = T
<1>1. DOMAIN TreeOf(d) = S
  BY TreeDomain
<1>2. \A path \in S : TreeOf(d)[path] = T[path]
  BY TreeAt DEF NodeAt
<1>3. TreeOf(d) = [path \in DOMAIN TreeOf(d) |-> TreeOf(d)[path]]
  BY DEF TreeOf
<1> QED
  BY <1>1, <1>2, <1>3

(* An inode whose blocks are as before stands for the same node, and so does *)
(* a directory that keeps its type and owner.                               *)
LEMMA NodeSame ==
  ASSUME NEW d \in [Blocks -> Content], NEW e \in [Blocks -> Content], NEW b \in Blocks,
         Same(d, e, b) \/ (IsDir(d, b) /\ SameNode(d, e, b))
  PROVE  NodeAt(e, b) = NodeAt(d, b)
<1>1. CASE Same(d, e, b)
  <2>1. /\ AsInode(e[b]) = AsInode(d[b])
        /\ \A i \in Positions(d, b) : e[Block(d, b, i)] = d[Block(d, b, i)]
    BY <1>1, SameView
  <2> QED
    BY <2>1 DEF NodeAt, NodeOf, Positions, Block
<1>2. CASE IsDir(d, b) /\ SameNode(d, e, b)
  BY <1>2 DEF NodeAt, NodeOf, IsDir, SameNode
<1> QED
  BY <1>1, <1>2

(* The same places with the same nodes are the same tree. *)
LEMMA TreeSame ==
  ASSUME NEW d \in [Blocks -> Content], NEW e \in [Blocks -> Content], SoundDisk(d), SoundDisk(e),
         PathsTo(e) = PathsTo(d), \A b \in LiveInodes(d) : NodeAt(e, b) = NodeAt(d, b)
  PROVE  TreeOf(e) = TreeOf(d)
<1>1. TreeOf(e) = [path \in DOMAIN TreeOf(e) |-> TreeOf(e)[path]]
  BY DEF TreeOf
<1>2. \A path : path \in DOMAIN TreeOf(e) <=> \E p \in PathsTo(d) : p.path = path
  BY TreeDomain
<1>3. ASSUME NEW p \in PathsTo(d) PROVE TreeOf(e)[p.path] = NodeAt(d, p.block)
  <2>1. TreeOf(e)[p.path] = NodeAt(e, p.block)
    BY TreeAt DEF NodeAt
  <2>2. p.block \in LiveInodes(d)
    BY PathsFacts
  <2> QED
    BY <2>1, <2>2
<1> DEFINE T == TreeOf(e)
           S == DOMAIN TreeOf(e)
<1>4. /\ T = [path \in S |-> T[path]]
      /\ \A path : path \in S <=> \E p \in PathsTo(d) : p.path = path
      /\ \A p \in PathsTo(d) : T[p.path] = NodeAt(d, p.block)
  BY <1>1, <1>2, <1>3
<1> HIDE DEF T, S
<1>5. TreeOf(d) = T
  BY <1>4, TreeIs
<1> QED
  BY <1>5 DEF T

(* A new inode in a directory adds its node at its path. *)
LEMMA TreeGain ==
  ASSUME NEW d \in [Blocks -> Content], NEW e \in [Blocks -> Content], SoundDisk(d), SoundDisk(e),
         NEW m, PathsTo(e) = PathsTo(d) \cup {m}, m \notin PathsTo(d),
         \A b \in LiveInodes(d) : NodeAt(e, b) = NodeAt(d, b)
  PROVE  /\ m.path \notin DOMAIN TreeOf(d)
         /\ TreeOf(e) = [path \in DOMAIN TreeOf(d) \cup {m.path} |->
                           IF path = m.path THEN NodeAt(e, m.block) ELSE TreeOf(d)[path]]
<1>1. ASSUME NEW p \in PathsTo(d) PROVE p.path # m.path /\ p.block \in LiveInodes(d)
  BY PathsFacts
<1> DEFINE S == DOMAIN TreeOf(d) \cup {m.path}
           T == [path \in S |-> IF path = m.path THEN NodeAt(e, m.block) ELSE TreeOf(d)[path]]
<1>2. \A path : path \in S <=> \E p \in PathsTo(e) : p.path = path
  BY TreeDomain
<1>3. ASSUME NEW p \in PathsTo(e) PROVE T[p.path] = NodeAt(e, p.block)
  <2>1. CASE p = m
    BY <2>1
  <2>2. CASE p \in PathsTo(d)
    <3>1. /\ p.path \in DOMAIN TreeOf(d) /\ TreeOf(d)[p.path] = NodeAt(d, p.block)
          /\ p.path # m.path /\ p.block \in LiveInodes(d)
      BY <1>1, <2>2, TreeAt DEF NodeAt
    <3> QED
      BY <3>1
  <2> QED
    BY <2>1, <2>2
<1>4. T = [path \in S |-> T[path]]
  OBVIOUS
<1>5. m.path \notin DOMAIN TreeOf(d)
  BY <1>1, TreeDomain
<1>6. TreeOf(e) = T
  <2> HIDE DEF T, S
  <2> QED
    BY <1>2, <1>3, <1>4, TreeIs
<1> QED
  BY <1>5, <1>6

TreeWithout(T, path) == [q \in DOMAIN T \ {path} |-> T[q]]

(* A place that is gone takes its path away. *)
LEMMA TreeLose ==
  ASSUME NEW d \in [Blocks -> Content], NEW e \in [Blocks -> Content], SoundDisk(d), SoundDisk(e),
         NEW m \in PathsTo(d), PathsTo(e) = PathsTo(d) \ {m},
         \A b \in LiveInodes(e) : NodeAt(e, b) = NodeAt(d, b)
  PROVE  TreeOf(e) = TreeWithout(TreeOf(d), m.path)
<1> DEFINE S == DOMAIN TreeOf(d) \ {m.path}
           T == [path \in S |-> TreeOf(d)[path]]
<1>1. \A p \in PathsTo(d) : p.path = m.path => p = m
  BY PathsFacts
<1>2. \A path : path \in S <=> \E p \in PathsTo(e) : p.path = path
  BY <1>1, TreeDomain
<1>3. ASSUME NEW p \in PathsTo(e) PROVE T[p.path] = NodeAt(e, p.block)
  <2>1. p \in PathsTo(d) /\ p # m /\ p.path \in S
    BY <1>1, <1>2
  <2>2. TreeOf(d)[p.path] = NodeAt(d, p.block)
    BY <2>1, TreeAt DEF NodeAt
  <2>3. p.block \in LiveInodes(e)
    BY PathsFacts
  <2> QED
    BY <2>1, <2>2, <2>3
<1>4. T = [path \in S |-> T[path]]
  OBVIOUS
<1>5. TreeOf(e) = T
  <2> HIDE DEF T, S
  <2> QED
    BY <1>2, <1>3, <1>4, TreeIs
<1> QED
  BY <1>5 DEF TreeWithout

(* One node changed changes the tree at its path. *)
LEMMA TreeChanged ==
  ASSUME NEW d \in [Blocks -> Content], NEW e \in [Blocks -> Content], SoundDisk(d), SoundDisk(e),
         NEW m \in PathsTo(d), PathsTo(e) = PathsTo(d),
         \A b \in LiveInodes(d) \ {m.block} : NodeAt(e, b) = NodeAt(d, b)
  PROVE  TreeOf(e) = [TreeOf(d) EXCEPT ![m.path] = NodeAt(e, m.block)]
<1> DEFINE S == DOMAIN TreeOf(d)
           T == [path \in S |-> IF path = m.path THEN NodeAt(e, m.block) ELSE TreeOf(d)[path]]
<1>1. \A path : path \in S <=> \E p \in PathsTo(e) : p.path = path
  BY TreeDomain
<1>2. ASSUME NEW p \in PathsTo(e) PROVE T[p.path] = NodeAt(e, p.block)
  <2>1. p.path \in S
    BY <1>1
  <2>2. CASE p = m
    BY <2>1, <2>2
  <2>3. CASE p # m
    <3>1. p.path # m.path /\ p.block # m.block /\ p.block \in LiveInodes(d)
      BY <2>3, PathsFacts
    <3>2. TreeOf(d)[p.path] = NodeAt(d, p.block)
      BY TreeAt DEF NodeAt
    <3> QED
      BY <2>1, <3>1, <3>2
  <2> QED
    BY <2>2, <2>3
<1>3. T = [path \in S |-> T[path]]
  OBVIOUS
<1>4. TreeOf(e) = T
  <2> HIDE DEF T, S
  <2> QED
    BY <1>1, <1>2, <1>3, TreeIs
<1>5. TreeOf(d) = [path \in S |-> TreeOf(d)[path]]
  BY DEF TreeOf
<1> QED
  BY <1>4, <1>5

-----------------------------------------------------------------------------
(* What the writes of the server do to the tree. *)

DataWith(s, k, x) == [i \in 1 .. Len(s) \cup {k} |-> IF i = k THEN x ELSE s[i]]

(* A write to a block outside the tree leaves the tree. *)
LEMMA TreeUnused ==
  ASSUME NEW d \in [Blocks -> Content], SoundDisk(d), NEW c \in Content, NEW w \in Blocks \ Live(d)
  PROVE  LET e == Written(d, w, c)
         IN  PathsTo(e) = PathsTo(d) /\ TreeOf(e) = TreeOf(d)
<1> DEFINE e == Written(d, w, c)
<1>1. e \in [Blocks -> Content]
  BY DEF Written
<1>2. SoundDisk(e) /\ \A b \in LiveInodes(d) : Same(d, e, b)
  BY UnusedWritten
<1> HIDE DEF e
<1>3. 0 \in LiveInodes(d) /\ LiveInodes(d) \subseteq Blocks
  BY LiveInodesLeast
<1>4. SoundRoot(d) /\ SoundRoot(e)
  BY <1>1, <1>2, SoundMeans
<1>5. IsDir(d, 0) /\ IsDir(e, 0)
  BY <1>4 DEF SoundRoot
<1>6. SameBut(d, e, 0) /\ Listed(e, 0) = Listed(d, 0)
  <2>1. Same(d, e, 0)
    BY <1>2, <1>3
  <2>2. Entries(e, 0) = Entries(d, 0)
    BY <2>1, SameView
  <2>3. \A s \in Entries(d, 0) : Target(e, 0, s) = Target(d, 0, s) /\ Name(e, 0, s) = Name(d, 0, s)
    BY <2>1, SameView
  <2> QED
    BY <1>2, <2>2, <2>3 DEF Listed, SameBut
<1>7. PathsTo(e) = PathsTo(d)
  BY <1>1, <1>2, <1>3, <1>5, <1>6, PathsSame
<1>8. \A b \in LiveInodes(d) : NodeAt(e, b) = NodeAt(d, b)
  BY <1>1, <1>2, <1>3, NodeSame
<1>9. TreeOf(e) = TreeOf(d)
  BY <1>1, <1>2, <1>7, <1>8, TreeSame
<1> QED
  BY <1>7, <1>9 DEF e

(* A write to one file's inode or data that keeps its type and owner changes *)
(* the tree at its path.                                                    *)
LEMMA TreeFile ==
  ASSUME NEW d \in [Blocks -> Content], NEW e \in [Blocks -> Content], SoundDisk(d), SoundDisk(e),
         NEW p \in PathsTo(d), ~IsDir(d, p.block), SameBut(d, e, p.block), SameNode(d, e, p.block)
  PROVE  /\ PathsTo(e) = PathsTo(d)
         /\ TreeOf(e) = [TreeOf(d) EXCEPT ![p.path] = NodeAt(e, p.block)]
<1>1. p.block \in LiveInodes(d) /\ LiveInodes(d) \subseteq Blocks
  BY PathsFacts, LiveInodesLeast
<1>2. ~IsDir(e, p.block)
  BY DEF IsDir, SameNode
<1>3. PathsTo(e) = PathsTo(d)
  BY <1>1, <1>2, PathsSame
<1>4. \A b \in LiveInodes(d) \ {p.block} : NodeAt(e, b) = NodeAt(d, b)
  BY <1>1, NodeSame DEF SameBut
<1> QED
  BY <1>3, <1>4, TreeChanged

(* An overwritten block is the one change to the tree. *)
LEMMA TreeWritten ==
  ASSUME NEW d \in [Blocks -> Content], SoundDisk(d), NEW p \in PathsTo(d), ~IsDir(d, p.block),
         NEW k \in Positions(d, p.block), NEW data \in Data
  PROVE  LET e == Written(d, Block(d, p.block, k), DataBlock(data))
         IN  /\ PathsTo(e) = PathsTo(d)
             /\ TreeOf(e) = [TreeOf(d) EXCEPT ![p.path].data = DataWith(@, k, data)]
<1> DEFINE F == p.block
           w == Block(d, F, k)
           e == Written(d, w, DataBlock(data))
<1>1. F \in LiveInodes(d) /\ F \in Blocks
  BY PathsFacts, LiveInodesLeast
<1>2. w \in DataBlocksOf(d, F) /\ w \in Blocks /\ e \in [Blocks -> Content]
  BY <1>1, InodeFacts, DataBlocksAre, ContentTypes DEF Written
<1>3. SoundDisk(e) /\ SameBut(d, e, F) /\ e[F] = d[F]
  BY <1>1, <1>2, FileWritten
<1>4. PathsTo(e) = PathsTo(d) /\ TreeOf(e) = [TreeOf(d) EXCEPT ![p.path] = NodeAt(e, F)]
  <2> HIDE DEF e
  <2> QED
    BY <1>2, <1>3, TreeFile DEF SameNode
<1>5. p.path \in DOMAIN TreeOf(d) /\ TreeOf(d)[p.path] = NodeAt(d, F)
  BY TreeAt DEF NodeAt
<1>6. NodeAt(e, F) = [NodeAt(d, F) EXCEPT !.data = DataWith(@, k, data)]
  <2> DEFINE blocks == AsInode(d[F]).blocks
  <2>1. \A i \in Positions(d, F) : AsData(e[blocks[i]]) = IF i = k THEN data ELSE AsData(d[blocks[i]])
    <3>1. SoundInode(d, F)
      BY <1>1, SoundRefs
    <3>2. \A i, j \in Positions(d, F) : Block(d, F, i) = Block(d, F, j) => i = j
      BY <3>1 DEF SoundInode
    <3>3. ASSUME NEW i \in Positions(d, F) 
          PROVE  AsData(e[blocks[i]]) = IF i = k THEN data ELSE AsData(d[blocks[i]])
      <4>1. blocks[i] \in Blocks /\ blocks[i] = Block(d, F, i) /\ (blocks[i] = w <=> i = k)
        BY <1>1, <3>2, InodeFacts DEF Block
      <4>2. AsData(DataBlock(data)) = data
        BY ContentTypes
      <4> QED
        BY <1>2, <4>1, <4>2 DEF Written
    <3> QED
      BY <3>3
  <2>2. AsInode(e[F]) = AsInode(d[F]) /\ AsInode(d[F]).type # "d" /\ Len(blocks) \in Nat
    BY <1>1, <1>3, InodeFacts DEF IsDir
  <2> DEFINE s == [i \in 1 .. Len(blocks) |-> AsData(d[blocks[i]])]
  <2>3. Len(s) = Len(blocks)
    BY <2>2
  <2>4. k \in 1 .. Len(blocks)
    BY DEF Positions
  <2>5. [i \in 1 .. Len(blocks) |-> AsData(e[blocks[i]])] = DataWith(s, k, data)
    <3> HIDE DEF e, blocks
    <3> QED
      BY <2>1, <2>3, <2>4 DEF DataWith, Positions, blocks
  <2>6. /\ NodeAt(d, F) = [type |-> AsInode(d[F]).type, owner |-> AsInode(d[F]).owner, data |-> s]
        /\ NodeAt(e, F) = [type |-> AsInode(d[F]).type, owner |-> AsInode(d[F]).owner,
                           data |-> [i \in 1 .. Len(blocks) |-> AsData(e[blocks[i]])]]
    <3> HIDE DEF e
    <3> QED
      BY <2>2 DEF NodeAt, NodeOf
  <2> HIDE DEF e, s, blocks
  <2> QED
    BY <2>5, <2>6
<1> HIDE DEF e
<1>7. TreeOf(e) = [TreeOf(d) EXCEPT ![p.path].data = DataWith(@, k, data)]
  BY <1>4, <1>5, <1>6
<1> QED
  BY <1>4, <1>7 DEF e

(* A block linked to the end of a file adds its data there. *)
LEMMA TreeExtended ==
  ASSUME NEW d \in [Blocks -> Content], SoundDisk(d), NEW p \in PathsTo(d), ~IsDir(d, p.block),
         NEW z \in Blocks \ Live(d), NEW data \in Data, d[z] = DataBlock(data), NEW inode \in Inode,
         inode.type = AsInode(d[p.block]).type, inode.owner = AsInode(d[p.block]).owner,
         inode.blocks = Append(AsInode(d[p.block]).blocks, z)
  PROVE  LET e == Written(d, p.block, InodeBlock(inode))
         IN  /\ PathsTo(e) = PathsTo(d)
             /\ TreeOf(e) = [TreeOf(d) EXCEPT ![p.path].data =
                               DataWith(@, Len(inode.blocks), data)]
<1> DEFINE F == p.block
           e == Written(d, F, InodeBlock(inode))
<1>1. F \in LiveInodes(d) /\ F \in Blocks
  BY PathsFacts, LiveInodesLeast
<1>2. e \in [Blocks -> Content] /\ AsInode(e[F]) = inode
  BY <1>1, ContentTypes DEF Written
<1>3. SoundDisk(e) /\ SameBut(d, e, F)
  <2>1. d[z].kind = "data"
    BY ContentTypes
  <2> QED
    BY <1>1, <2>1, FileExtended
<1>4. PathsTo(e) = PathsTo(d) /\ TreeOf(e) = [TreeOf(d) EXCEPT ![p.path] = NodeAt(e, F)]
  <2> HIDE DEF e
  <2> QED
    BY <1>2, <1>3, TreeFile DEF SameNode
<1>5. p.path \in DOMAIN TreeOf(d) /\ TreeOf(d)[p.path] = NodeAt(d, F)
  BY TreeAt DEF NodeAt
<1>6. NodeAt(e, F) = [NodeAt(d, F) EXCEPT !.data = DataWith(@, Len(inode.blocks), data)]
  <2> DEFINE blocks == AsInode(d[F]).blocks
             s == [i \in 1 .. Len(blocks) |-> AsData(d[blocks[i]])]
             k == Len(inode.blocks)
  <2>1. AsInode(d[F]).type # "d" /\ Len(blocks) \in Nat /\ blocks \in Seq(Blocks)
    BY <1>1, InodeFacts DEF IsDir, BlockList
  <2>2. /\ k = Len(blocks) + 1 /\ inode.blocks[k] = z
        /\ \A i \in 1 .. Len(blocks) : inode.blocks[i] = blocks[i]
    BY <2>1
  <2>3. \A i \in 1 .. Len(blocks) : AsData(e[inode.blocks[i]]) = AsData(d[blocks[i]])
    <3>1. SoundInode(d, F)
      BY <1>1, SoundRefs
    <3>2. \A i \in Positions(d, F) : d[Block(d, F, i)].kind = "data" /\ d[F].kind = "inode"
      BY <3>1 DEF SoundInode
    <3>3. ASSUME NEW i \in 1 .. Len(blocks)
          PROVE  AsData(e[inode.blocks[i]]) = AsData(d[blocks[i]])
      <4>1. inode.blocks[i] = blocks[i] /\ blocks[i] \in Blocks /\ blocks[i] # F
        BY <1>1, <2>2, <3>2, InodeFacts DEF Positions, Block
      <4> QED
        BY <4>1 DEF Written
    <3> QED
      BY <3>3
  <2>4. AsData(e[inode.blocks[k]]) = data
    <3>1. z # F /\ AsData(DataBlock(data)) = data
      BY <1>1, LiveOwns, ContentTypes DEF Owns
    <3> QED
      BY <2>2, <3>1 DEF Written
  <2>5. Len(s) = Len(blocks) /\ k \in Nat
    BY <2>1, <2>2
  <2>6. [i \in 1 .. k |-> AsData(e[inode.blocks[i]])] = DataWith(s, k, data)
    <3>1. 1 .. k = 1 .. Len(s) \cup {k}
      BY <2>2, <2>5
    <3>2. \A i \in 1 .. Len(s) : s[i] = AsData(e[inode.blocks[i]]) /\ i # k
      BY <2>2, <2>3, <2>5
    <3> HIDE DEF e, s, k, blocks
    <3> QED
      BY <2>4, <3>1, <3>2 DEF DataWith
  <2> DEFINE D == [i \in 1 .. k |-> AsData(e[inode.blocks[i]])]
             W == DataWith(s, k, data)
  <2>7. NodeAt(d, F) = [type |-> AsInode(d[F]).type, owner |-> AsInode(d[F]).owner, data |-> s]
    BY <2>1 DEF NodeAt, NodeOf
  <2>8. NodeAt(e, F) = [type |-> AsInode(d[F]).type, owner |-> AsInode(d[F]).owner, data |-> D]
    <3> HIDE DEF e
    <3> QED
      BY <1>2, <2>1 DEF NodeAt, NodeOf
  <2>9. D = W
    BY <2>6
  <2> HIDE DEF e, s, D, blocks
  <2> QED
    BY <2>7, <2>8, <2>9
<1> HIDE DEF e
<1>7. TreeOf(e) = [TreeOf(d) EXCEPT ![p.path].data = DataWith(@, Len(inode.blocks), data)]
  BY <1>4, <1>5, <1>6
<1> QED
  BY <1>4, <1>7 DEF e

(* The tree with a node more. *)
TreeWith(T, path, node) ==
  [q \in DOMAIN T \cup {path} |-> IF q = path THEN node ELSE T[q]]

(* A new entry adds an empty node at its path. *)
LEMMA TreeCreated ==
  ASSUME NEW d \in [Blocks -> Content], NEW e \in [Blocks -> Content], SoundDisk(d), SoundDisk(e),
         NEW p \in PathsTo(d), IsDir(d, p.block), SameBut(d, e, p.block), SameNode(d, e, p.block),
         NEW name, NEW n \in Blocks \ LiveInodes(d),
         Listed(e, p.block) = Listed(d, p.block) \cup {[name |-> name, inode_block |-> n]},
         NEW type \in {"f", "d"}, NEW user \in Users, e[n] = InodeBlock(NewInode(type, user))
  PROVE  LET path == Append(p.path, name)
         IN  /\ PathsTo(e) = PathsTo(d) \cup {At(p, name, n)}
             /\ path \notin DOMAIN TreeOf(d)
             /\ TreeOf(e) = TreeWith(TreeOf(d), path,
                                    [type |-> type, owner |-> user, data |-> << >>])
<1> DEFINE l == [name |-> name, inode_block |-> n]
           m == At(p, name, n)
           node == [type |-> type, owner |-> user, data |-> << >>]
<1>1. p.block \in LiveInodes(d) /\ LiveInodes(d) \subseteq Blocks
  BY PathsFacts, LiveInodesLeast
<1>2. AsInode(e[n]) = NewInode(type, user)
  BY ContentTypes
<1>3. ChildrenOf(e, n) = {}
  BY <1>2 DEF ChildrenOf, NewInode, Slots
<1>4. IsDir(e, p.block)
  BY DEF SameNode, IsDir
<1>5. PathsTo(e) = PathsTo(d) \cup {m}
  <2>1. /\ Listed(e, p.block) = Listed(d, p.block) \cup {l} /\ l.name = name /\ l.inode_block = n
        /\ ChildrenOf(e, l.inode_block) = {}
    BY <1>3
  <2> HIDE DEF l
  <2>2. PathsTo(e) = PathsTo(d) \cup {At(p, l.name, l.inode_block)}
    BY <1>4, <2>1, PathsGain
  <2> QED
    BY <2>1, <2>2
<1>6. m \notin PathsTo(d)
  BY PathsFacts DEF At
<1>7. \A b \in LiveInodes(d) : NodeAt(e, b) = NodeAt(d, b)
  BY <1>1, NodeSame DEF SameBut
<1>8. NodeAt(e, n) = node
  <2>1. [i \in 1 .. 0 |-> AsData(e[<< >>[i]])] = << >>
    OBVIOUS
  <2>2. NodeAt(e, n) = [type |-> type, owner |-> user,
                        data |-> IF type = "d" THEN << >>
                                 ELSE [i \in 1 .. 0 |-> AsData(e[<< >>[i]])]]
    BY <1>2 DEF NodeAt, NodeOf, NewInode
  <2> QED
    BY <2>1, <2>2
<1>9. /\ m.path \notin DOMAIN TreeOf(d)
      /\ TreeOf(e) = [path \in DOMAIN TreeOf(d) \cup {m.path} |->
                        IF path = m.path THEN NodeAt(e, m.block) ELSE TreeOf(d)[path]]
  <2> HIDE DEF m
  <2> QED
    BY <1>5, <1>6, <1>7, TreeGain
<1>10. m.path = Append(p.path, name) /\ m.block = n
  BY DEF At
<1> QED
  BY <1>5, <1>8, <1>9, <1>10 DEF TreeWith

(* A removed entry takes its node, a leaf, out of the tree. *)
LEMMA TreeDeleted ==
  ASSUME NEW d \in [Blocks -> Content], NEW e \in [Blocks -> Content], SoundDisk(d), SoundDisk(e),
         NEW p \in PathsTo(d), IsDir(d, p.block), SameBut(d, e, p.block), SameNode(d, e, p.block),
         NEW l \in Listed(d, p.block), Listed(e, p.block) = Listed(d, p.block) \ {l},
         ChildrenOf(d, l.inode_block) = {}, LiveInodes(e) = LiveInodes(d) \ {l.inode_block}
  PROVE  LET m == At(p, l.name, l.inode_block)
         IN  /\ m \in PathsTo(d) /\ PathsTo(e) = PathsTo(d) \ {m}
             /\ TreeOf(e) = TreeWithout(TreeOf(d), m.path)
<1> DEFINE m == At(p, l.name, l.inode_block)
<1>1. p.block \in LiveInodes(d) /\ LiveInodes(d) \subseteq Blocks
  BY PathsFacts, LiveInodesLeast
<1>2. IsDir(e, p.block)
  BY DEF SameNode, IsDir
<1>3. m \in PathsTo(d) /\ PathsTo(e) = PathsTo(d) \ {m}
  BY <1>2, PathsLose
<1>4. \A b \in LiveInodes(e) : NodeAt(e, b) = NodeAt(d, b)
  BY <1>1, NodeSame DEF SameBut
<1>5. TreeOf(e) = TreeWithout(TreeOf(d), m.path)
  <2> HIDE DEF m
  <2> QED
    BY ONLY SoundDisk(d), SoundDisk(e), d \in [Blocks -> Content], e \in [Blocks -> Content],
            <1>3, <1>4, TreeLose
<1> QED
  BY <1>3, <1>5
=============================================================================
