---------------------------- MODULE Dispatch_proofs ----------------------------
(***************************************************************************)
(* Proofs about Dispatch, for calls with paths and types of any length.  A  *)
(* word of a request is a piece of its text with a fixed number as long as  *)
(* no word holds a space, and one with a space makes too many pieces.       *)
(***************************************************************************)
EXTENDS Dispatch, FiniteSetTheorems, SequenceTheorems, TLAPS

(* The characters of a text. *)
Space == " "
Chars == STRING \cup {Space}

(* One sequence behind another. *)
LEMMA Joined ==
  ASSUME NEW S, NEW T, NEW s \in Seq(S), NEW t \in Seq(T)
  PROVE  /\ s \o t \in Seq(S \cup T) /\ Len(s) \in Nat /\ Len(t) \in Nat
         /\ Len(s \o t) = Len(s) + Len(t)
         /\ \A i \in 1 .. Len(s) : (s \o t)[i] = s[i]
         /\ \A i \in 1 .. Len(t) : (s \o t)[Len(s) + i] = t[i]
<1>1. s \in Seq(S \cup T) /\ t \in Seq(S \cup T)
  BY SeqMonotonic
<1>2. /\ s \o t \in Seq(S \cup T) /\ Len(s \o t) = Len(s) + Len(t)
      /\ \A i \in 1 .. Len(s) + Len(t) : (s \o t)[i] = IF i <= Len(s) THEN s[i] ELSE t[i - Len(s)]
  BY <1>1, ConcatProperties
<1>3. Len(s) \in Nat /\ Len(t) \in Nat
  OBVIOUS
<1>4. \A i \in 1 .. Len(s) : i \in 1 .. Len(s) + Len(t) /\ i <= Len(s)
  BY <1>3
<1>5. \A i \in 1 .. Len(t) : /\ Len(s) + i \in 1 .. Len(s) + Len(t) /\ ~(Len(s) + i <= Len(s))
                             /\ (Len(s) + i) - Len(s) = i
  BY <1>3
<1> QED
  BY <1>2, <1>3, <1>4, <1>5

-----------------------------------------------------------------------------
(* The pieces of a text. *)

(* The tokens up to a place. *)
UpTo(text, token, i) == {j \in Cuts(text, token) : j <= i}

(* There are finitely many. *)
LEMMA CutsFinite ==
  ASSUME NEW text \in Seq(Chars), NEW token
  PROVE  /\ \A i : i \in Cuts(text, token) <=> i \in 1 .. Len(text) /\ text[i] = token
         /\ Cuts(text, token) \subseteq 1 .. Len(text)
         /\ IsFiniteSet(Cuts(text, token)) /\ Cardinality(Cuts(text, token)) \in Nat
<1>1. DOMAIN text = 1 .. Len(text) /\ Len(text) \in Nat
  OBVIOUS
<1>2. \A i : i \in Cuts(text, token) <=> i \in 1 .. Len(text) /\ text[i] = token
  BY <1>1, Zenon DEF Cuts
<1>3. IsFiniteSet(1 .. Len(text))
  BY <1>1, FS_Interval
<1>4. Cuts(text, token) \subseteq 1 .. Len(text)
  BY <1>2
<1>5. IsFiniteSet(Cuts(text, token))
  BY <1>3, <1>4, FS_Subset
<1> QED
  BY <1>2, <1>4, <1>5, FS_CardinalityType

(* Pieces finds the k-th token by counting. *)
LEMMA CutIs ==
  ASSUME NEW text \in Seq(Chars), NEW token, NEW i \in Cuts(text, token)
  PROVE  (CHOOSE x \in Cuts(text, token) :
            Cardinality({j \in Cuts(text, token) : j <= x}) = Cardinality(UpTo(text, token, i))) = i
<1> DEFINE cuts == Cuts(text, token)
           count(x) == Cardinality({j \in cuts : j <= x})
<1>1. ASSUME NEW x \in cuts, NEW y \in cuts, x < y
      PROVE  count(x) # count(y)
  <2> DEFINE X == {j \in cuts : j <= x}
             Y == {j \in cuts : j <= y}
  <2>1. cuts \subseteq Int /\ IsFiniteSet(cuts)
    BY CutsFinite
  <2>2. X \subseteq Y /\ y \in Y /\ y \notin X /\ Y \subseteq cuts
    BY <1>1, <2>1
  <2>3. IsFiniteSet(Y)
    BY <2>1, <2>2, FS_Subset
  <2> HIDE DEF X, Y
  <2>4. Cardinality(X) < Cardinality(Y)
    BY <2>2, <2>3, FS_Subset, FS_CardinalityType
  <2>5. Cardinality(X) \in Nat /\ Cardinality(Y) \in Nat
    BY <2>2, <2>3, FS_Subset, FS_CardinalityType
  <2>6. Cardinality(X) # Cardinality(Y)
    BY <2>4, <2>5
  <2> QED
    BY <2>6 DEF X, Y
<1>2. \A x \in cuts : count(x) = count(i) => x = i
  <2> SUFFICES ASSUME NEW x \in cuts, count(x) = count(i), x # i PROVE FALSE
    OBVIOUS
  <2>1. x \in Nat /\ i \in Nat
    BY CutsFinite
  <2>2. x < i \/ i < x
    BY <2>1
  <2> HIDE DEF count
  <2> QED
    BY <1>1, <2>2
<1>3. i \in cuts /\ count(i) = Cardinality(UpTo(text, token, i))
  BY DEF UpTo
<1> HIDE DEF cuts
<1>4. (CHOOSE x \in cuts : count(x) = Cardinality(UpTo(text, token, i))) = i
  BY <1>2, <1>3
<1> QED
  BY <1>4 DEF cuts

(* A stretch without tokens, from the beginning or behind a token up to the  *)
(* next one or the end, is the piece with the number of tokens ahead of it. *)
LEMMA PieceIs ==
  ASSUME NEW text \in Seq(Chars), NEW token,
         NEW a, a = 0 \/ a \in Cuts(text, token),
         NEW b \in Nat, b > a, b \in Cuts(text, token) \/ b = Len(text) + 1,
         \A i \in a + 1 .. b - 1 : text[i] # token,
         NEW k, k = Cardinality(UpTo(text, token, a)) + 1
  PROVE  /\ Pieces(text, token)[k] = SubSeq(text, a + 1, b - 1)
         /\ b \in Cuts(text, token) => Cardinality(UpTo(text, token, b)) = k
         /\ b = Len(text) + 1 => Cardinality(Cuts(text, token)) = k - 1
<1> DEFINE cuts == Cuts(text, token)
           n == Cardinality(cuts)
           Cut(x) == CASE x = 0     -> 0
                       [] x = n + 1 -> Len(text) + 1
                       [] OTHER     -> CHOOSE i \in cuts : Cardinality({j \in cuts : j <= i}) = x
<1>1. /\ \A i : i \in cuts <=> i \in 1 .. Len(text) /\ text[i] = token
      /\ cuts \subseteq 1 .. Len(text) /\ Len(text) \in Nat
      /\ IsFiniteSet(cuts) /\ n \in Nat
  BY CutsFinite
<1>2. \A i : UpTo(text, token, i) = {j \in cuts : j <= i}
  BY DEF UpTo
<1>3. \A i : /\ UpTo(text, token, i) \subseteq cuts /\ IsFiniteSet(UpTo(text, token, i))
             /\ Cardinality(UpTo(text, token, i)) \in Nat
             /\ Cardinality(UpTo(text, token, i)) <= n
  <2>1. \A i : UpTo(text, token, i) \subseteq cuts
    BY <1>2
  <2> QED
    BY <1>1, <2>1, FS_Subset, FS_CardinalityType
<1>4. a \in Nat /\ k \in Nat \ {0}
  BY <1>1, <1>3
<1>5. Cut(k - 1) = a
  <2>1. CASE a = 0
    <3>1. UpTo(text, token, a) = {}
      BY <1>1, <1>2, <2>1
    <3>2. Cardinality(UpTo(text, token, a)) = 0
      BY <3>1, FS_EmptySet
    <3>3. k - 1 = 0
      BY <1>4, <3>2
    <3> QED
      BY <1>1, <2>1, <3>3
  <2>2. CASE a \in cuts
    <3>1. a \in UpTo(text, token, a)
      BY <1>1, <1>2, <2>2
    <3>2. Cardinality(UpTo(text, token, a)) # 0
      BY <1>3, <3>1, FS_EmptySet
    <3>3. /\ k - 1 = Cardinality(UpTo(text, token, a)) /\ k - 1 # 0 /\ k - 1 # n + 1
      BY <1>1, <1>3, <3>2
    <3>4. (CHOOSE i \in cuts : Cardinality({j \in cuts : j <= i}) = k - 1) = a
      BY <2>2, <3>3, CutIs
    <3> QED
      BY <3>3, <3>4
  <2> QED
    BY <2>1, <2>2
<1>6. ASSUME b \in cuts
      PROVE  Cardinality(UpTo(text, token, b)) = k
  <2>1. \A j : j \in UpTo(text, token, b) <=> j \in UpTo(text, token, a) \/ j = b
    <3>1. \A j \in cuts : j <= b <=> j <= a \/ j = b
      BY <1>1, <1>4, <1>6
    <3> QED
      BY <1>2, <1>6, <3>1
  <2>2. UpTo(text, token, b) = UpTo(text, token, a) \cup {b} /\ b \notin UpTo(text, token, a)
    <3>1. b \notin UpTo(text, token, a)
      BY <1>2, <1>4
    <3> QED
      BY <2>1, <3>1
  <2> QED
    BY <1>3, <2>2, FS_AddElement
<1>7. ASSUME b = Len(text) + 1
      PROVE  n = k - 1
  <2>1. \A j \in cuts : j <= a
    BY <1>1, <1>4, <1>7
  <2>2. UpTo(text, token, a) = cuts
    BY <1>2, <2>1
  <2> QED
    BY <1>3, <1>4, <2>2
<1>8. Cut(k) = b /\ k \in 1 .. n + 1
  <2>1. CASE b \in cuts
    <3>1. Cardinality(UpTo(text, token, b)) = k /\ k # 0 /\ k # n + 1 /\ k \in 1 .. n + 1
      BY <1>1, <1>3, <1>4, <1>6, <2>1
    <3>2. (CHOOSE i \in cuts : Cardinality({j \in cuts : j <= i}) = k) = b
      BY <2>1, <3>1, CutIs
    <3> QED
      BY <3>1, <3>2
  <2>2. CASE b = Len(text) + 1
    <3>1. k = n + 1 /\ k # 0
      BY <1>1, <1>4, <1>7, <2>2
    <3> QED
      BY <1>1, <2>2, <3>1
  <2> QED
    BY <2>1, <2>2
<1>9. Pieces(text, token) = [x \in 1 .. n + 1 |-> SubSeq(text, Cut(x - 1) + 1, Cut(x) - 1)]
  BY Zenon DEF Pieces
<1> HIDE DEF Cut, n
<1>10. Pieces(text, token)[k] = SubSeq(text, a + 1, b - 1)
  BY <1>5, <1>8, <1>9
<1> QED
  BY <1>6, <1>7, <1>10 DEF n

(* There is one more piece than there are tokens. *)
LEMMA PiecesCount ==
  ASSUME NEW text \in Seq(Chars), NEW token
  PROVE  \E S : /\ Pieces(text, token) \in Seq(S)
                /\ Len(Pieces(text, token)) = Cardinality(Cuts(text, token)) + 1
<1> DEFINE n == Cardinality(Cuts(text, token))
           Cut(k) == CASE k = 0     -> 0
                       [] k = n + 1 -> Len(text) + 1
                       [] OTHER     -> CHOOSE i \in Cuts(text, token) :
                                         Cardinality({j \in Cuts(text, token) : j <= i}) = k
           piece(k) == SubSeq(text, Cut(k - 1) + 1, Cut(k) - 1)
           S == {piece(k) : k \in 1 .. n + 1}
<1>1. n \in Nat
  BY CutsFinite
<1>2. Pieces(text, token) = [k \in 1 .. n + 1 |-> piece(k)]
  BY Zenon DEF Pieces
<1>3. \A k \in 1 .. n + 1 : piece(k) \in S
  OBVIOUS
<1> HIDE DEF n, piece, S
<1>4. Pieces(text, token) \in Seq(S) /\ Len(Pieces(text, token)) = n + 1
  BY <1>1, <1>2, <1>3
<1> QED
  BY <1>4 DEF n

(* A text holds a word without tokens behind its first k - 1 tokens, the last *)
(* of which is at a, up to b, where the next one is or the text ends.        *)
HoldsWord(text, token, word, a, b, k) ==
  /\ word \in Seq(Chars) /\ a \in Nat /\ b = a + Len(word) + 1
  /\ a = 0 \/ a \in Cuts(text, token)
  /\ b \in Cuts(text, token) \/ b = Len(text) + 1
  /\ k = Cardinality(UpTo(text, token, a)) + 1
  /\ \A i \in 1 .. Len(word) : text[a + i] = word[i] /\ word[i] # token

(* Then it is the k-th piece. *)
LEMMA WordIs ==
  ASSUME NEW text \in Seq(Chars), NEW token, NEW word, NEW a, NEW b, NEW k,
         HoldsWord(text, token, word, a, b, k)
  PROVE  /\ Pieces(text, token)[k] = word
         /\ b \in Cuts(text, token) => Cardinality(UpTo(text, token, b)) = k
         /\ b = Len(text) + 1 => Cardinality(Cuts(text, token)) = k - 1
<1>1. /\ word \in Seq(Chars) /\ a \in Nat /\ b = a + Len(word) + 1
      /\ a = 0 \/ a \in Cuts(text, token)
      /\ b \in Cuts(text, token) \/ b = Len(text) + 1
      /\ k = Cardinality(UpTo(text, token, a)) + 1
      /\ \A i \in 1 .. Len(word) : text[a + i] = word[i] /\ word[i] # token
  BY DEF HoldsWord
<1>2. Len(word) \in Nat /\ Len(text) \in Nat /\ b \in Nat /\ b > a
  BY <1>1
<1>3. b <= Len(text) + 1
  BY <1>1, <1>2, CutsFinite
<1>4. \A i \in a + 1 .. b - 1 : text[i] # token
  <2> SUFFICES ASSUME NEW i \in a + 1 .. b - 1 PROVE text[i] # token
    OBVIOUS
  <2>1. i - a \in 1 .. Len(word) /\ a + (i - a) = i
    BY <1>1, <1>2
  <2> QED
    BY <1>1, <2>1
<1>5. /\ Pieces(text, token)[k] = SubSeq(text, a + 1, b - 1)
      /\ b \in Cuts(text, token) => Cardinality(UpTo(text, token, b)) = k
      /\ b = Len(text) + 1 => Cardinality(Cuts(text, token)) = k - 1
  <2>1. text \in Seq(Chars) /\ b \in Nat /\ b > a
    BY <1>2
  <2>2. a = 0 \/ a \in Cuts(text, token)
    BY <1>1
  <2>3. b \in Cuts(text, token) \/ b = Len(text) + 1
    BY <1>1
  <2>4. k = Cardinality(UpTo(text, token, a)) + 1
    BY <1>1
  <2> QED
    BY ONLY <1>4, <2>1, <2>2, <2>3, <2>4, PieceIs
<1>6. SubSeq(text, a + 1, b - 1) = word
  <2>1. PICK s : s = SubSeq(text, a + 1, b - 1)
    OBVIOUS
  <2>2. s \in Seq(Chars) /\ Len(s) = Len(word)
    BY <1>1, <1>2, <1>3, <2>1
  <2>3. \A i \in 1 .. Len(word) : s[i] = text[(a + 1) + i - 1]
    BY <1>1, <1>2, <1>3, <2>1
  <2>4. \A i \in 1 .. Len(word) : (a + 1) + i - 1 = a + i
    BY <1>1, <1>2
  <2>5. \A i \in 1 .. Len(word) : s[i] = word[i]
    BY <1>1, <2>3, <2>4
  <2>6. s = word
    BY <1>1, <2>2, <2>5
  <2> QED
    BY <2>1, <2>6
<1> QED
  BY <1>5, <1>6

-----------------------------------------------------------------------------
(* The text of a call. *)

LEMMA SpaceIs == Space # "/" /\ Space \in Chars /\ STRING \subseteq Chars
<1>1. Space # "/"
  BY Zenon DEF Space
<1> QED
  BY <1>1 DEF Chars

LEMMA SplitAtSpaces == \A text : Split(text, " ") = Pieces(text, Space)
<1>1. Space # "/"
  BY SpaceIs
<1> QED
  BY <1>1, Zenon DEF Split, Space

(* What is known of a call. *)
LEMMA CallTypes ==
  ASSUME NEW c \in Calls
  PROVE  /\ c.name \in Chars /\ c.session \in Chars /\ c.sequence \in Chars
         /\ c.name # Space /\ c.session # Space /\ c.sequence # Space
         /\ c.path \in Seq(Chars) /\ c.last \in Seq(Chars) /\ c.data \in Seq(Chars)
         /\ c.name = "FS_CREATE" => Len(c.last) <= 1
         /\ c.name \in {"FS_READBLOCK", "FS_WRITEBLOCK"} => IsNumber(c.last)
<1>1. /\ {c.name, c.session, c.sequence} \subseteq STRING \ {Space}
      /\ c.path \in Seq(STRING) /\ c.last \in Seq(STRING) /\ c.data \in Seq(STRING)
      /\ c.name = "FS_CREATE" => Len(c.last) <= 1
      /\ c.name \in {"FS_READBLOCK", "FS_WRITEBLOCK"} => IsNumber(c.last)
  BY DispatchAssumption, Zenon DEF Space
<1>2. \A s \in Seq(STRING) : s \in Seq(Chars)
  BY SpaceIs, SeqMonotonic
<1> QED
  BY <1>1, <1>2, SpaceIs

(* A text is a name, a session, a sequence number, a path and a last word,    *)
(* with a space between one and the next.                                   *)
Spells(text, c, path, last) ==
  /\ text[1] = c.name /\ text[2] = Space /\ text[3] = c.session
  /\ text[4] = Space /\ text[5] = c.sequence
  /\ c.name = "FS_SESSION" => Len(text) = 5
  /\ c.name # "FS_SESSION" => text[6] = Space /\ \A i \in 1 .. Len(path) : text[6 + i] = path[i]
  /\ c.name = "FS_DELETE" => Len(text) = 6 + Len(path)
  /\ c.name \notin {"FS_SESSION", "FS_DELETE"} =>
       /\ Len(text) = 7 + Len(path) + Len(last)
       /\ text[7 + Len(path)] = Space
       /\ \A i \in 1 .. Len(last) : text[7 + Len(path) + i] = last[i]

(* So is a call's. *)
LEMMA TextIs ==
  ASSUME NEW c \in Calls
  PROVE  /\ Text(c) \in Seq(Chars) /\ c.path \in Seq(Chars) /\ c.last \in Seq(Chars)
         /\ Spells(Text(c), c, c.path, c.last)
<1> DEFINE head == <<c.name, Space, c.session, Space, c.sequence>>
<1>1. /\ head \in Seq(Chars) /\ Len(head) = 5
      /\ head[1] = c.name /\ head[2] = Space /\ head[3] = c.session
      /\ head[4] = Space /\ head[5] = c.sequence
  BY CallTypes, SpaceIs
<1>0. PICK path \in Seq(Chars), last \in Seq(Chars) : path = c.path /\ last = c.last
  BY CallTypes
<1>2. PICK p \in Nat, l \in Nat : p = Len(path) /\ l = Len(last)
  OBVIOUS
<1>3. /\ <<Space>> \in Seq(Chars) /\ Len(<<Space>>) = 1 /\ <<Space>>[1] = Space
  BY SpaceIs
<1>4. /\ c.name = "FS_SESSION" => Text(c) = head \o << >>
      /\ c.name = "FS_DELETE" => Text(c) = head \o (<<Space>> \o path)
      /\ c.name \notin {"FS_SESSION", "FS_DELETE"} =>
           Text(c) = head \o (<<Space>> \o path \o <<Space>> \o last)
  BY <1>0, Zenon DEF Text, Space
<1> HIDE DEF head
<1>5. ASSUME NEW s \in Seq(Chars), NEW u \in Seq(Chars)
      PROVE  /\ s \o u \in Seq(Chars) /\ Len(s) \in Nat /\ Len(u) \in Nat
             /\ Len(s \o u) = Len(s) + Len(u)
             /\ \A i \in 1 .. Len(s) : (s \o u)[i] = s[i]
             /\ \A i \in 1 .. Len(u) : (s \o u)[Len(s) + i] = u[i]
  <2>1. Chars \cup Chars = Chars
    OBVIOUS
  <2> QED
    BY <2>1, Joined
<1>6. CASE c.name = "FS_SESSION"
  <2>1. head \o << >> = head
    BY <1>1, ConcatEmptySeq
  <2>2. Text(c) = head
    BY <1>4, <1>6, <2>1
  <2>3. Spells(head, c, path, last)
    BY <1>1, <1>6 DEF Spells
  <2> QED
    BY <1>0, <1>1, <2>2, <2>3, Zenon
<1>7. CASE c.name # "FS_SESSION"
  <2>1. PICK named \in Seq(Chars) : named = <<Space>> \o path
    BY <1>2, <1>3, <1>5
  <2>2. /\ Len(named) = 1 + p /\ named[1] = Space
        /\ \A i \in 1 .. p : named[1 + i] = path[i]
    BY <1>2, <1>3, <1>5, <2>1
  <2>3. PICK rest \in Seq(Chars), n \in Nat :
          /\ Text(c) = head \o rest /\ Len(rest) = n
          /\ \A i \in 1 .. 1 + p : i \in 1 .. n /\ rest[i] = named[i]
          /\ c.name = "FS_DELETE" => n = 1 + p
          /\ c.name # "FS_DELETE" =>
               n = 2 + p + l /\ rest[2 + p] = Space /\ \A i \in 1 .. l : rest[2 + p + i] = last[i]
    <3>1. CASE c.name = "FS_DELETE"
      <4>1. Text(c) = head \o named /\ Len(named) \in Nat
        BY <1>4, <2>1, <3>1
      <4> QED
        BY <2>2, <3>1, <4>1
    <3>2. CASE c.name # "FS_DELETE"
      <4>1. PICK spaced \in Seq(Chars) : spaced = named \o <<Space>>
        BY <1>3, <1>5, <2>1
      <4>2. /\ Len(spaced) = 2 + p /\ spaced[2 + p] = Space
            /\ \A i \in 1 .. 1 + p : spaced[i] = named[i]
        <5>1. /\ Len(spaced) = (1 + p) + 1 /\ spaced[(1 + p) + 1] = Space
              /\ \A i \in 1 .. 1 + p : spaced[i] = named[i]
          BY <1>3, <1>5, <2>2, <4>1
        <5> QED
          BY <1>2, <5>1
      <4>3. PICK rest \in Seq(Chars) : rest = spaced \o last
        BY <1>2, <1>5, <4>1
      <4>4. /\ Len(rest) = 2 + p + l
            /\ \A i \in 1 .. 2 + p : rest[i] = spaced[i]
            /\ \A i \in 1 .. l : rest[2 + p + i] = last[i]
        <5>1. /\ Len(rest) = Len(spaced) + Len(last)
              /\ \A i \in 1 .. Len(spaced) : rest[i] = spaced[i]
              /\ \A i \in 1 .. Len(last) : rest[Len(spaced) + i] = last[i]
          BY <1>5, <4>3
        <5> QED
          BY <1>2, <4>2, <5>1
      <4>5. Text(c) = head \o rest
        BY <1>4, <1>7, <2>1, <3>2, <4>1, <4>3
      <4>6. \A i \in 1 .. 1 + p : i \in 1 .. 2 + p /\ i \in 1 .. 2 + p + l
        BY <1>2
      <4>7. 2 + p \in 1 .. 2 + p /\ 2 + p + l \in Nat
        BY <1>2
      <4> QED
        BY <3>2, <4>2, <4>4, <4>5, <4>6, <4>7
    <3> QED
      BY <3>1, <3>2
  <2>4. PICK text \in Seq(Chars) :
          /\ text = Text(c) /\ Len(text) = 5 + n
          /\ \A i \in 1 .. 5 : text[i] = head[i]
          /\ \A i \in 1 .. n : text[5 + i] = rest[i]
    <3>1. PICK text \in Seq(Chars) : text = head \o rest
      BY <1>1, <1>5
    <3>2. /\ Len(text) = Len(head) + Len(rest)
          /\ \A i \in 1 .. Len(head) : text[i] = head[i]
          /\ \A i \in 1 .. Len(rest) : text[Len(head) + i] = rest[i]
      BY <1>1, <1>5, <3>1, ZenonT(40)
    <3>3. /\ Len(text) = 5 + n /\ \A i \in 1 .. 5 : text[i] = head[i]
          /\ \A i \in 1 .. n : text[5 + i] = rest[i]
      BY <1>1, <2>3, <3>2
    <3>4. text = Text(c)
      BY <2>3, <3>1
    <3> QED
      BY <3>3, <3>4
  <2>5. text[6] = Space /\ \A i \in 1 .. p : text[6 + i] = path[i]
    <3>1. \A i \in 1 .. 1 + p : text[5 + i] = named[i]
      BY <2>3, <2>4
    <3>2. 5 + 1 = 6 /\ 1 \in 1 .. 1 + p
      BY <1>2
    <3>3. \A i \in 1 .. p : 5 + (1 + i) = 6 + i /\ 1 + i \in 1 .. 1 + p
      BY <1>2
    <3>4. text[5 + 1] = Space
      BY <2>2, <3>1, <3>2
    <3>5. \A i \in 1 .. p : text[5 + (1 + i)] = path[i]
      BY <2>2, <3>1, <3>3
    <3> QED
      BY <3>2, <3>3, <3>4, <3>5
  <2>6. ASSUME c.name # "FS_DELETE"
        PROVE  text[7 + p] = Space /\ \A i \in 1 .. l : text[7 + p + i] = last[i]
    <3>1. /\ 5 + (2 + p) = 7 + p /\ 2 + p \in 1 .. n
          /\ \A i \in 1 .. l : 5 + (2 + p + i) = 7 + p + i /\ 2 + p + i \in 1 .. n
      BY <1>2, <2>3, <2>6
    <3>2. text[5 + (2 + p)] = Space
      BY <2>3, <2>4, <2>6, <3>1
    <3>3. \A i \in 1 .. l : text[5 + (2 + p + i)] = last[i]
      BY <2>3, <2>4, <2>6, <3>1
    <3> QED
      BY <3>1, <3>2, <3>3
  <2>7. /\ text[1] = c.name /\ text[2] = Space /\ text[3] = c.session
        /\ text[4] = Space /\ text[5] = c.sequence
    BY <1>1, <2>4
  <2>8. /\ c.name = "FS_DELETE" => Len(text) = 6 + p
        /\ c.name # "FS_DELETE" => Len(text) = 7 + p + l
    <3>1. 5 + (1 + p) = 6 + p /\ 5 + (2 + p + l) = 7 + p + l
      BY <1>2
    <3> QED
      BY <2>3, <2>4, <3>1, Zenon
  <2>9. Spells(text, c, path, last)
    BY <1>2, <1>7, <2>5, <2>6, <2>7, <2>8 DEF Spells
  <2> QED
    BY <1>0, <2>4, <2>9, Zenon
<1> QED
  BY <1>6, <1>7

(* A character as a word. *)
LEMMA OneCharacter ==
  ASSUME NEW s \in Chars
  PROVE  <<s>> \in Seq(Chars) /\ Len(<<s>>) = 1 /\ <<s>>[1] = s
OBVIOUS

(* Each token is counted. *)
LEMMA FurtherOn ==
  ASSUME NEW text \in Seq(Chars), NEW token, NEW x \in Nat, NEW y \in Cuts(text, token), x < y
  PROVE  /\ Cardinality(UpTo(text, token, x)) \in Nat
         /\ Cardinality(UpTo(text, token, y)) \in Nat /\ Cardinality(Cuts(text, token)) \in Nat
         /\ Cardinality(UpTo(text, token, x)) < Cardinality(UpTo(text, token, y))
         /\ Cardinality(UpTo(text, token, y)) <= Cardinality(Cuts(text, token))
<1> DEFINE cuts == Cuts(text, token)
           X == UpTo(text, token, x)
           Y == UpTo(text, token, y)
<1>1. cuts \subseteq Nat /\ IsFiniteSet(cuts)
  BY CutsFinite
<1>2. X \subseteq Y /\ y \in Y /\ y \notin X /\ Y \subseteq cuts
  BY <1>1 DEF UpTo
<1> HIDE DEF cuts, X, Y
<1>3. IsFiniteSet(Y) /\ Cardinality(Y) <= Cardinality(cuts)
  BY <1>1, <1>2, FS_Subset
<1>4. IsFiniteSet(X) /\ Cardinality(X) < Cardinality(Y)
  BY <1>2, <1>3, FS_Subset, FS_CardinalityType
<1>5. Cardinality(X) \in Nat /\ Cardinality(Y) \in Nat /\ Cardinality(cuts) \in Nat
  BY <1>1, <1>3, <1>4, FS_CardinalityType
<1> QED
  BY <1>3, <1>4, <1>5 DEF cuts, X, Y

(* No word of the call holds a space. *)
Plain(c) ==
  /\ c.name # "FS_SESSION" => \A i \in 1 .. Len(c.path) : c.path[i] # Space
  /\ c.name \notin {"FS_SESSION", "FS_DELETE"} => \A i \in 1 .. Len(c.last) : c.last[i] # Space

WordCount(c) == IF c.name = "FS_SESSION" THEN 3 ELSE IF c.name = "FS_DELETE" THEN 4 ELSE 5

(* What split_request makes of it: its words if none holds a space, and more *)
(* pieces than words otherwise.                                             *)
LEMMA SplitsCall ==
  ASSUME NEW c \in Calls, NEW pieces, pieces = Pieces(Text(c), Space)
  PROVE  /\ Text(c) \in Seq(Chars) /\ Cuts(Text(c), Space) # {}
         /\ \E S : pieces \in Seq(S)
         /\ pieces[1] = <<c.name>> /\ pieces[2] = <<c.session>> /\ pieces[3] = <<c.sequence>>
         /\ Plain(c) => /\ Len(pieces) = WordCount(c)
                        /\ c.name # "FS_SESSION" => pieces[4] = c.path
                        /\ c.name \notin {"FS_SESSION", "FS_DELETE"} => pieces[5] = c.last
         /\ Len(pieces) = WordCount(c) => Plain(c)
<1>1. PICK path \in Seq(Chars), last \in Seq(Chars), text \in Seq(Chars) :
        path = c.path /\ last = c.last /\ text = Text(c)
  BY TextIs
<1>1a. PICK p \in Nat, l \in Nat, n \in Nat : p = Len(path) /\ l = Len(last) /\ n = Len(text)
  OBVIOUS
<1> DEFINE cuts == Cuts(text, Space)
           ahead(i) == Cardinality(UpTo(text, Space, i))
<1>2. /\ text[1] = c.name /\ text[2] = Space /\ text[3] = c.session
      /\ text[4] = Space /\ text[5] = c.sequence
      /\ c.name = "FS_SESSION" => n = 5
      /\ c.name # "FS_SESSION" => text[6] = Space /\ \A i \in 1 .. p : text[6 + i] = path[i]
      /\ c.name = "FS_DELETE" => n = 6 + p
      /\ c.name \notin {"FS_SESSION", "FS_DELETE"} =>
           /\ n = 7 + p + l
           /\ text[7 + p] = Space
           /\ \A i \in 1 .. l : text[7 + p + i] = last[i]
  <2>1. Spells(text, c, path, last)
    BY <1>1, TextIs, Zenon
  <2> QED
    BY <1>1a, <2>1, Zenon DEF Spells
<1>3. /\ c.name \in Chars /\ c.session \in Chars /\ c.sequence \in Chars
      /\ c.name # Space /\ c.session # Space /\ c.sequence # Space
  BY CallTypes
<1>4. /\ \A i : i \in cuts <=> i \in 1 .. n /\ text[i] = Space
      /\ Cardinality(cuts) \in Nat
  BY <1>1a, CutsFinite
<1>5. pieces = Pieces(text, Space) /\ \E S : pieces \in Seq(S) /\ Len(pieces) = Cardinality(cuts) + 1
  BY <1>1, PiecesCount
<1>5a. PICK m \in Nat : m = Len(pieces) /\ m = Cardinality(cuts) + 1
  BY <1>4, <1>5
<1>6. ahead(0) = 0
  <2>1. UpTo(text, Space, 0) = {}
    BY <1>4 DEF UpTo
  <2> QED
    BY <2>1, FS_EmptySet
<1> HIDE DEF cuts, ahead
<1> DEFINE Holds(word, a, b, k) == HoldsWord(text, Space, word, a, b, k)
<1>7. ASSUME NEW word, NEW a, NEW b, NEW k, Holds(word, a, b, k)
      PROVE  /\ pieces[k] = word
             /\ b \in cuts => ahead(b) = k
             /\ b = n + 1 => Cardinality(cuts) = k - 1
  BY <1>1a, <1>5, <1>7, WordIs DEF cuts, ahead
<1>8. ASSUME NEW word \in Seq(Chars), NEW w \in Nat, w = Len(word),
             NEW a \in Nat, NEW b \in Nat, NEW k \in Nat, b = a + w + 1, k = ahead(a) + 1,
             a = 0 \/ a \in cuts, b \in cuts \/ b = n + 1,
             \A i \in 1 .. w : text[a + i] = word[i] /\ word[i] # Space
      PROVE  Holds(word, a, b, k)
  BY <1>1a, <1>8 DEF HoldsWord, cuts, ahead
<1> HIDE DEF Holds
<1>9. n >= 5 /\ 2 \in cuts /\ 4 \in cuts /\ (c.name # "FS_SESSION" => 6 \in cuts)
  <2>1. n >= 5 /\ (c.name # "FS_SESSION" => n >= 6)
    BY <1>2
  <2>2. 2 \in 1 .. n /\ 4 \in 1 .. n /\ (c.name # "FS_SESSION" => 6 \in 1 .. n)
    BY <2>1
  <2> QED
    BY <1>2, <1>4, <2>1, <2>2, Zenon
<1>10. ASSUME NEW s \in Chars, s # Space, NEW a \in Nat, text[a + 1] = s,
              NEW b \in Nat, b = a + 2, NEW k \in Nat, k = ahead(a) + 1,
              a = 0 \/ a \in cuts, b \in cuts \/ b = n + 1
       PROVE  Holds(<<s>>, a, b, k)
  <2>1. PICK word \in Seq(Chars) : word = <<s>> /\ Len(word) = 1 /\ word[1] = s
    BY OneCharacter, Zenon
  <2>2. Len(word) = 1 /\ word[1] = s
    BY <2>1, Zenon
  <2>3. b = a + 1 + 1 /\ 1 = Len(word)
    BY <1>10, <2>2
  <2>4. \A i \in 1 .. 1 : text[a + i] = word[i] /\ word[i] # Space
    BY <1>10, <2>2
  <2>5. Holds(word, a, b, k)
    BY <1>8, <1>10, <2>3, <2>4
  <2> QED
    BY <2>1, <2>5
<1>11. pieces[1] = <<c.name>> /\ ahead(2) = 1
  <2>1. Holds(<<c.name>>, 0, 2, 1)
    BY <1>2, <1>3, <1>6, <1>9, <1>10
  <2> QED
    BY <1>7, <1>9, <2>1
<1>12. pieces[2] = <<c.session>> /\ ahead(4) = 2
  <2>1. Holds(<<c.session>>, 2, 4, 2)
    BY <1>2, <1>3, <1>9, <1>10, <1>11
  <2> QED
    BY <1>7, <1>9, <2>1
<1>13. /\ pieces[3] = <<c.sequence>>
       /\ c.name # "FS_SESSION" => ahead(6) = 3
       /\ c.name = "FS_SESSION" => Cardinality(cuts) = 2
  <2>1. Holds(<<c.sequence>>, 4, 6, 3)
    <3>1. 4 \in cuts /\ (6 \in cuts \/ 6 = n + 1)
      BY <1>2, <1>9
    <3>2. text[4 + 1] = c.sequence /\ 3 = ahead(4) + 1 /\ 6 = 4 + 2
      BY <1>2, <1>12
    <3> QED
      BY <1>3, <1>10, <3>1, <3>2
  <2>2. /\ pieces[3] = <<c.sequence>> /\ (6 \in cuts => ahead(6) = 3)
        /\ 6 = n + 1 => Cardinality(cuts) = 3 - 1
    BY <1>7, <2>1
  <2>3. c.name = "FS_SESSION" => 6 = n + 1
    BY <1>2
  <2> QED
    BY <1>9, <2>2, <2>3
<1>14. ASSUME c.name # "FS_SESSION", \A i \in 1 .. p : path[i] # Space
       PROVE  /\ pieces[4] = path
              /\ c.name = "FS_DELETE" => Cardinality(cuts) = 3
              /\ c.name # "FS_DELETE" => 7 + p \in cuts /\ ahead(7 + p) = 4
  <2>1. /\ c.name = "FS_DELETE" => 7 + p = n + 1
        /\ c.name # "FS_DELETE" => 7 + p \in cuts
    <3>1. c.name = "FS_DELETE" => n = 6 + p
      BY <1>2
    <3>2. c.name # "FS_DELETE" => n = 7 + p + l /\ text[7 + p] = Space
      BY <1>2, <1>14
    <3>3. (6 + p) + 1 = 7 + p /\ 7 + p \in 1 .. 7 + p + l
      OBVIOUS
    <3> QED
      BY <1>4, <3>1, <3>2, <3>3, Zenon
  <2>2. 7 + p = 6 + p + 1 /\ 4 = ahead(6) + 1 /\ 7 + p \in Nat
    BY <1>13, <1>14
  <2>3. \A i \in 1 .. p : text[6 + i] = path[i] /\ path[i] # Space
    BY <1>1, <1>2, <1>14
  <2>4. Holds(path, 6, 7 + p, 4)
    <3>1. 6 \in cuts /\ (7 + p \in cuts \/ 7 + p = n + 1)
      BY <1>9, <1>14, <2>1
    <3> QED
      BY <1>1a, <1>8, <2>2, <2>3, <3>1
  <2> QED
    BY <1>7, <2>1, <2>4
<1>15. ASSUME c.name \notin {"FS_SESSION", "FS_DELETE"},
              \A i \in 1 .. p : path[i] # Space, \A i \in 1 .. l : last[i] # Space
       PROVE  pieces[5] = last /\ Cardinality(cuts) = 4
  <2>1. 7 + p \in Nat /\ 7 + p \in cuts /\ 5 = ahead(7 + p) + 1
    BY <1>14, <1>15
  <2>2. 8 + p + l = (7 + p) + l + 1 /\ 8 + p + l = n + 1 /\ 8 + p + l \in Nat
    BY <1>1, <1>2, <1>15, SMTT(30)
  <2>3. \A i \in 1 .. l : text[(7 + p) + i] = last[i] /\ last[i] # Space
    BY <1>1, <1>2, <1>15
  <2>4. Holds(last, 7 + p, 8 + p + l, 5)
    BY <1>1a, <1>8, <2>1, <2>2, <2>3
  <2>5. pieces[5] = last /\ Cardinality(cuts) = 5 - 1
    BY <1>7, <2>2, <2>4
  <2> QED
    BY <2>5
<1>16. ASSUME Plain(c)
       PROVE  /\ m = WordCount(c)
              /\ c.name # "FS_SESSION" => pieces[4] = c.path
              /\ c.name \notin {"FS_SESSION", "FS_DELETE"} => pieces[5] = c.last
  <2>1. c.name # "FS_SESSION" => \A i \in 1 .. p : path[i] # Space
    BY <1>1, <1>1a, <1>16, Zenon DEF Plain
  <2>2. c.name \notin {"FS_SESSION", "FS_DELETE"} => \A i \in 1 .. l : last[i] # Space
    BY <1>1, <1>1a, <1>16, Zenon DEF Plain
  <2>3. m = WordCount(c)
    BY <1>5a, <1>13, <1>14, <1>15, <2>1, <2>2 DEF WordCount
  <2> QED
    BY <1>1, <1>14, <1>15, <2>1, <2>2, <2>3, Zenon
<1>17. ASSUME NEW x \in Nat, NEW y \in cuts, x < y
       PROVE  /\ ahead(x) < ahead(y) /\ ahead(y) <= Cardinality(cuts)
              /\ ahead(x) \in Nat /\ ahead(y) \in Nat
  BY <1>17, FurtherOn DEF cuts, ahead
<1>18. ASSUME c.name # "FS_SESSION", NEW i \in 1 .. p, path[i] = Space
       PROVE  Cardinality(cuts) >= WordCount(c)
  <2>1. 6 + i \in Nat /\ 6 < 6 + i /\ 6 + i \in 1 .. n /\ text[6 + i] = Space
    BY <1>1, <1>2, <1>18
  <2>2. 6 + i \in cuts
    BY <1>4, <2>1
  <2>3. ahead(6) < ahead(6 + i) /\ ahead(6 + i) <= Cardinality(cuts) /\ ahead(6 + i) \in Nat
    BY <1>17, <2>1, <2>2
  <2>4. ahead(6 + i) >= 4
    BY <1>13, <1>18, <2>3
  <2>5. CASE c.name = "FS_DELETE"
    BY <1>4, <2>3, <2>4, <2>5 DEF WordCount
  <2>6. CASE c.name # "FS_DELETE"
    <3>1. n = 7 + p + l /\ text[7 + p] = Space
      BY <1>2, <1>18, <2>6
    <3>1a. 7 + p \in 1 .. n /\ 6 + i < 7 + p
      BY <3>1
    <3>1b. 7 + p \in cuts
      BY <1>4, <3>1, <3>1a
    <3>2. ahead(6 + i) < ahead(7 + p) /\ ahead(7 + p) <= Cardinality(cuts) /\ ahead(7 + p) \in Nat
      BY <1>17, <2>1, <3>1a, <3>1b
    <3> QED
      BY <1>4, <2>3, <2>4, <3>2 DEF WordCount
  <2> QED
    BY <2>5, <2>6
<1>19. ASSUME c.name \notin {"FS_SESSION", "FS_DELETE"}, NEW i \in 1 .. l, last[i] = Space,
              \A j \in 1 .. p : path[j] # Space
       PROVE  Cardinality(cuts) >= WordCount(c)
  <2>1. /\ 7 + p + i \in 1 .. n /\ text[7 + p + i] = Space
        /\ 7 + p \in Nat /\ 7 + p < 7 + p + i
    BY <1>1, <1>2, <1>19
  <2>2. 7 + p + i \in cuts
    BY <1>4, <2>1
  <2>3. ahead(7 + p) = 4
    BY <1>14, <1>19
  <2>4. /\ ahead(7 + p) < ahead(7 + p + i) /\ ahead(7 + p + i) <= Cardinality(cuts)
        /\ ahead(7 + p + i) \in Nat
    BY <1>17, <2>1, <2>2
  <2> QED
    BY <1>4, <2>3, <2>4 DEF WordCount
<1>20. ~Plain(c) => Cardinality(cuts) >= WordCount(c)
  BY <1>1, <1>1a, <1>18, <1>19, Zenon DEF Plain
<1>21. m = WordCount(c) => Plain(c)
  BY <1>4, <1>5a, <1>20 DEF WordCount
<1> QED
  BY <1>1, <1>5, <1>5a, <1>9, <1>11, <1>12, <1>13, <1>16, <1>21, Zenon DEF cuts

-----------------------------------------------------------------------------
(* What is known at each step of a call. *)

(* How many arguments a handler gets. *)
ArgCount(name) ==
  CASE name = "FS_SESSION" -> 3 [] name = "FS_DELETE" -> 4 [] name = "FS_CREATE" -> 5
    [] name = "FS_READBLOCK" -> 6 [] name = "FS_WRITEBLOCK" -> 7

(* The client's words where the handler reads them, and what is appended.    *)
Carries(a, c) ==
  /\ \E S : a \in Seq(S)
  /\ Len(a) = ArgCount(c.name)
  /\ a[1] = <<c.name>> /\ a[2] = <<c.session>> /\ a[3] = <<c.sequence>>
  /\ c.name # "FS_SESSION" => a[4] = c.path
  /\ c.name \notin {"FS_SESSION", "FS_DELETE"} => a[5] = c.last
  /\ c.name = "FS_READBLOCK" => a[6] = READ
  /\ c.name = "FS_WRITEBLOCK" => a[6] = WRITE /\ a[7] = c.data

(* What the checks up to the handler have shown. *)
Dispatched ==
  /\ call.name \in {"FS_SESSION", "FS_CREATE", "FS_DELETE", "FS_READBLOCK", "FS_WRITEBLOCK"}
  /\ call.name # "FS_SESSION" => valid /\ Len(call.path) <= FS_MAXPATHNAME
  /\ call.name = "FS_WRITEBLOCK" => Len(call.data) = FS_BLOCKSIZE

(* And those at its head. *)
GoodLast ==
  /\ call.name = "FS_CREATE" => call.last \in {<<"f">>, <<"d">>}
  /\ call.name \in {"FS_READBLOCK", "FS_WRITEBLOCK"} => Number(call.last) < FS_MAXFILEBLOCKS

(* What send_response reads. *)
Answered(a) ==
  /\ a[1] = <<call.name>>
  /\ a[2] = <<IF call.name = "FS_SESSION" THEN NewSessionText ELSE call.session>>
  /\ a[3] = <<call.sequence>>
  /\ call.name = "FS_READBLOCK" => a[7] = StoredBlock

DispatchInv ==
  /\ call \in Calls
  /\ pc \in {"split", "session", "switch", "handler", "walk", "respond", "closed"}
  /\ pc \in {"split", "session", "switch", "handler"} => handled = Nothing
  /\ pc # "closed" => response = Nothing
  /\ pc \in {"session", "switch"} =>
       args = Pieces(Text(call), Space) /\ req_size = Len(Text(call)) + 1
  /\ pc = "session" => call.name # "FS_SESSION"
  /\ pc = "switch" /\ call.name # "FS_SESSION" => valid /\ Len(args[4]) <= FS_MAXPATHNAME
  /\ pc \in {"handler", "walk"} => Dispatched /\ Carries(args, call)
  /\ pc \in {"walk", "respond"} => GoodLast /\ handled = Asked
  /\ pc = "respond" => WellFormedCall /\ Answered(args)
  /\ OnlyWhatWasAsked /\ WellFormedServed /\ IllFormedRefused /\ AnswerFits

(* A call that fs_client.h allows has no space in its path or type. *)
LEMMA WellFormedPlain ==
  ASSUME call \in Calls, WellFormedCall
  PROVE  Plain(call)
<1>1. Space \in Whitespace
  BY Zenon DEF Space, Whitespace
<1>2. call.name # "FS_SESSION" => \A i \in 1 .. Len(call.path) : call.path[i] # Space
  <2>1. call.name # "FS_SESSION" => \A i \in DOMAIN call.path : call.path[i] \notin Whitespace
    BY DEF WellFormedCall, WellFormedPath
  <2> QED
    BY <1>1, <2>1, CallTypes
<1>3. call.name \in {"FS_CREATE", "FS_READBLOCK", "FS_WRITEBLOCK"} =>
        Len(call.last) = 1 /\ call.last[1] \in {"f", "d", "0", "1", "2", "3"}
  <2>1. CASE call.name = "FS_CREATE"
    BY <2>1 DEF WellFormedCall
  <2>2. CASE call.name \in {"FS_READBLOCK", "FS_WRITEBLOCK"}
    BY <2>2, CallTypes DEF IsNumber, Digits
  <2> QED
    BY <2>1, <2>2
<1>4. Space \notin {"f", "d", "0", "1", "2", "3"}
  BY Zenon DEF Space
<1>5. call.name \notin {"FS_SESSION", "FS_DELETE"} =>
        \A i \in 1 .. Len(call.last) : call.last[i] # Space
  BY <1>3, <1>4 DEF WellFormedCall
<1> QED
  BY <1>2, <1>5 DEF Plain

(* Such a call is not refused as long as it has been asked for. *)
LEMMA CloseKeeps ==
  ASSUME DispatchInv, Close, WellFormedCall => handled = Asked, pc # "closed"
  PROVE  DispatchInv'
<1>1. UNCHANGED <<call, valid, args, req_size, handled, response>> /\ pc' = "closed"
  BY DEF Close
<1>2. OnlyWhatWasAsked' /\ IllFormedRefused' /\ AnswerFits' /\ WellFormedServed'
  BY <1>1 DEF DispatchInv, OnlyWhatWasAsked, IllFormedRefused, AnswerFits, WellFormedServed,
     WellFormedCall, Asked
<1> QED
  BY <1>1, <1>2 DEF DispatchInv

(* The request is split. *)
LEMMA SplitTextKeeps ==
  ASSUME DispatchInv, SplitText
  PROVE  DispatchInv'
<1>1. /\ call \in Calls /\ UNCHANGED <<call, valid, handled, response>>
      /\ handled = Nothing /\ response = Nothing
  BY DEF DispatchInv, SplitText
<1>2. PICK pieces : pieces = Pieces(Text(call), Space)
  OBVIOUS
<1>3. pieces[1] = <<call.name>> /\ Cuts(Text(call), Space) # {}
  BY <1>1, <1>2, SplitsCall
<1>4. args' = pieces
  BY <1>2, SplitAtSpaces, Zenon DEF SplitText
<1>5. req_size' = Len(Text(call)) + 1
  BY <1>3, Zenon DEF SplitText, Space
<1>6. pc' = IF args'[1] = <<"FS_SESSION">> THEN "switch" ELSE "session"
  BY Zenon DEF SplitText
<1>7. /\ call.name = "FS_SESSION" => pc' = "switch"
      /\ call.name # "FS_SESSION" => pc' = "session"
  BY <1>3, <1>4, <1>6
<1>8. OnlyWhatWasAsked' /\ WellFormedServed' /\ IllFormedRefused' /\ AnswerFits'
  BY <1>1, <1>7 DEF OnlyWhatWasAsked, WellFormedServed, IllFormedRefused, AnswerFits
<1> QED
  BY <1>1, <1>2, <1>4, <1>5, <1>7, <1>8 DEF DispatchInv

(* The session and the length of the path are checked. *)
LEMMA CheckSessionKeeps ==
  ASSUME DispatchInv, CheckSession
  PROVE  DispatchInv'
<1>1. /\ UNCHANGED <<call, valid, args, req_size, handled, response>>
      /\ pc = "session" /\ pc' = "switch" /\ valid /\ Len(args[4]) <= FS_MAXPATHNAME
  BY DEF CheckSession, PathFits
<1>2. OnlyWhatWasAsked' /\ WellFormedServed' /\ IllFormedRefused' /\ AnswerFits'
  BY <1>1 DEF DispatchInv, OnlyWhatWasAsked, WellFormedServed, IllFormedRefused, AnswerFits
<1> QED
  BY <1>1, <1>2 DEF DispatchInv

LEMMA RefuseSessionKeeps ==
  ASSUME DispatchInv, RefuseSession
  PROVE  DispatchInv'
<1>1. /\ call \in Calls /\ args = Pieces(Text(call), Space) /\ call.name # "FS_SESSION"
      /\ ~(valid /\ Len(args[4]) <= FS_MAXPATHNAME) /\ pc = "session"
  BY DEF DispatchInv, RefuseSession, PathFits
<1>2. ~WellFormedCall
  <2> SUFFICES ASSUME WellFormedCall PROVE FALSE
    OBVIOUS
  <2>1. args[4] = call.path
    BY <1>1, SplitsCall, WellFormedPlain
  <2> QED
    BY <1>1, <2>1 DEF WellFormedCall
<1> QED
  BY <1>1, <1>2, CloseKeeps DEF RefuseSession

(* What is appended to the client's words. *)
LEMMA AppendedIs ==
  ASSUME NEW name \in {"FS_SESSION", "FS_CREATE", "FS_DELETE", "FS_READBLOCK", "FS_WRITEBLOCK"}
  PROVE  /\ Kind(name) # "?" /\ FullName(Kind(name)) = name
         /\ Kind(name) = "W" <=> name = "FS_WRITEBLOCK"
         /\ \A n : RightCount(Kind(name), n) <=> n = ArgCount(name)
         /\ \E T : Appended(Kind(name)) \in Seq(T)
         /\ \A more : more = Appended(Kind(name)) =>
              /\ name \in {"FS_SESSION", "FS_CREATE", "FS_DELETE"} => Len(more) = 0
              /\ name = "FS_READBLOCK" => Len(more) = 1 /\ more[1] = READ
              /\ name = "FS_WRITEBLOCK" => Len(more) = 2 /\ more[1] = WRITE /\ more[2] = call.data
<1>1. /\ name = "FS_SESSION" => Kind(name) = "S"
      /\ name = "FS_CREATE" => Kind(name) = "C"
      /\ name = "FS_DELETE" => Kind(name) = "D"
      /\ name = "FS_READBLOCK" => Kind(name) = "R"
      /\ name = "FS_WRITEBLOCK" => Kind(name) = "W"
  BY DEF Kind
<1>2. /\ Appended("S") = << >> /\ Appended("C") = << >> /\ Appended("D") = << >>
      /\ Appended("R") = <<READ>> /\ Appended("W") = <<WRITE, call.data>>
  BY DEF Appended
<1>3. \E T : Appended(Kind(name)) \in Seq(T)
  <2>1. << >> \in Seq({}) /\ <<READ>> \in Seq({READ})
    BY EmptySeq
  <2>2. <<WRITE, call.data>> \in Seq({WRITE, call.data})
    OBVIOUS
  <2> QED
    BY <1>1, <1>2, <2>1, <2>2
<1>4. \A more : more = Appended(Kind(name)) =>
        /\ name \in {"FS_SESSION", "FS_CREATE", "FS_DELETE"} => Len(more) = 0
        /\ name = "FS_READBLOCK" => Len(more) = 1 /\ more[1] = READ
        /\ name = "FS_WRITEBLOCK" => Len(more) = 2 /\ more[1] = WRITE /\ more[2] = call.data
  <2>1. CASE name \in {"FS_SESSION", "FS_CREATE", "FS_DELETE"}
    BY <1>1, <1>2, <2>1
  <2>2. CASE name = "FS_READBLOCK"
    BY <1>1, <1>2, <2>2
  <2>3. CASE name = "FS_WRITEBLOCK"
    BY <1>1, <1>2, <2>3
  <2> QED
    BY <2>1, <2>2, <2>3
<1>5. \A n : RightCount(Kind(name), n) <=> n = ArgCount(name)
  BY <1>1 DEF RightCount, ArgCount
<1>6. Kind(name) # "?" /\ FullName(Kind(name)) = name /\ (Kind(name) = "W" <=> name = "FS_WRITEBLOCK")
  BY <1>1 DEF FullName
<1> QED
  BY <1>3, <1>4, <1>5, <1>6

(* The handler is selected: the number of arguments shows that no word holds *)
(* a space.                                                                 *)
LEMMA SelectHandlerKeeps ==
  ASSUME DispatchInv, SelectHandler
  PROVE  DispatchInv'
<1>1. /\ UNCHANGED <<call, valid, req_size, handled, response>>
      /\ pc = "switch" /\ pc' = "handler" /\ call \in Calls
      /\ args = Pieces(Text(call), Space) /\ req_size = Len(Text(call)) + 1
      /\ handled = Nothing /\ response = Nothing
      /\ call.name # "FS_SESSION" => valid /\ Len(args[4]) <= FS_MAXPATHNAME
  BY DEF DispatchInv, SelectHandler
<1>2. PICK S : args \in Seq(S)
  BY <1>1, SplitsCall
<1>3. args[1] = <<call.name>> /\ args[1][1] = call.name
  BY <1>1, SplitsCall
<1> DEFINE kind == Kind(call.name)
<1>4. /\ kind # "?" /\ (kind = "W" => WholeBlock) /\ call.name = FullName(kind)
      /\ RightCount(kind, Len(args \o Appended(kind))) /\ args' = args \o Appended(kind)
  <2>1. /\ kind # "?" /\ (kind = "W" => WholeBlock) /\ args[1] = <<FullName(kind)>>
        /\ RightCount(kind, Len(args \o Appended(kind))) /\ args' = args \o Appended(kind)
    BY <1>3, Zenon DEF SelectHandler, Dispatchable
  <2>2. \A x, y : <<x>> = <<y>> => x = y
    OBVIOUS
  <2> QED
    BY <1>3, <2>1, <2>2, Zenon
<1>5. call.name \in {"FS_SESSION", "FS_CREATE", "FS_DELETE", "FS_READBLOCK", "FS_WRITEBLOCK"}
  BY <1>4 DEF Kind, FullName
<1> HIDE DEF kind
<1>6a. PICK T : Appended(kind) \in Seq(T)
  BY <1>5, AppendedIs DEF kind
<1>6. PICK more \in Seq(T) :
        /\ more = Appended(kind)
        /\ call.name \in {"FS_SESSION", "FS_CREATE", "FS_DELETE"} => Len(more) = 0
        /\ call.name = "FS_READBLOCK" => Len(more) = 1 /\ more[1] = READ
        /\ call.name = "FS_WRITEBLOCK" => Len(more) = 2 /\ more[1] = WRITE /\ more[2] = call.data
  BY <1>5, <1>6a, AppendedIs DEF kind
<1>7. PICK all \in Seq(S \cup T) : all = args \o more
  BY <1>2, <1>6, Joined
<1>8. PICK n \in Nat, m \in Nat, all_n \in Nat :
        /\ n = Len(args) /\ m = Len(more) /\ all_n = Len(all) /\ all_n = n + m
        /\ \A i \in 1 .. n : all[i] = args[i]
        /\ \A i \in 1 .. m : all[n + i] = more[i]
  <2>1. /\ Len(args) \in Nat /\ Len(more) \in Nat
        /\ Len(args \o more) = Len(args) + Len(more)
        /\ \A i \in 1 .. Len(args) : (args \o more)[i] = args[i]
        /\ \A i \in 1 .. Len(more) : (args \o more)[Len(args) + i] = more[i]
    BY Joined
  <2>2. Len(args) + Len(more) \in Nat
    BY <2>1
  <2> QED
    BY <1>7, <2>1, <2>2, Zenon
<1>8a. /\ call.name \in {"FS_SESSION", "FS_CREATE", "FS_DELETE"} => m = 0
       /\ call.name = "FS_READBLOCK" => m = 1 /\ more[1] = READ
       /\ call.name = "FS_WRITEBLOCK" => m = 2 /\ more[1] = WRITE /\ more[2] = call.data
  BY <1>6, <1>8, Zenon
<1>9. RightCount(kind, all_n) /\ args' = all
  BY <1>4, <1>6, <1>7, <1>8, Zenon
<1>10. n = WordCount(call)
  <2>1. all_n = ArgCount(call.name)
    BY <1>5, <1>9, AppendedIs DEF kind
  <2>2. all_n = n + m
    BY <1>8
  <2> QED
    BY <1>5, <1>8a, <2>1, <2>2 DEF WordCount, ArgCount
<1>11. /\ args[2] = <<call.session>> /\ args[3] = <<call.sequence>>
       /\ call.name # "FS_SESSION" => args[4] = call.path
       /\ call.name \notin {"FS_SESSION", "FS_DELETE"} => args[5] = call.last
  BY <1>1, <1>8, <1>10, SplitsCall, Zenon
<1>12. Carries(all, call)
  <2>1. /\ all[1] = <<call.name>> /\ all[2] = <<call.session>> /\ all[3] = <<call.sequence>>
        /\ call.name # "FS_SESSION" => all[4] = call.path
        /\ call.name \notin {"FS_SESSION", "FS_DELETE"} => all[5] = call.last
    BY <1>3, <1>8, <1>10, <1>11 DEF WordCount
  <2>2. /\ call.name = "FS_READBLOCK" => all[6] = READ
        /\ call.name = "FS_WRITEBLOCK" => all[6] = WRITE /\ all[7] = call.data
    <3>1. call.name \in {"FS_READBLOCK", "FS_WRITEBLOCK"} => n = 5
      BY <1>10 DEF WordCount
    <3>2. call.name = "FS_READBLOCK" => all[5 + 1] = READ
      <4>1. call.name = "FS_READBLOCK" => 1 \in 1 .. m
        BY <1>8a
      <4> QED
        BY <1>8, <1>8a, <3>1, <4>1
    <3>3. call.name = "FS_WRITEBLOCK" => all[5 + 1] = WRITE /\ all[5 + 2] = call.data
      <4>1. call.name = "FS_WRITEBLOCK" => 1 \in 1 .. m /\ 2 \in 1 .. m
        BY <1>8a
      <4> QED
        BY <1>8, <1>8a, <3>1, <4>1
    <3> QED
      BY <3>2, <3>3
  <2>3. Len(all) = ArgCount(call.name)
    <3>1. all_n = ArgCount(call.name)
      BY <1>5, <1>9, AppendedIs DEF kind
    <3> QED
      BY <1>8, <3>1, Zenon
  <2>4. \E U : all \in Seq(U)
    BY <1>7
  <2> QED
    BY <2>1, <2>2, <2>3, <2>4, Zenon DEF Carries
<1>13. call.name = "FS_WRITEBLOCK" => Len(call.data) = FS_BLOCKSIZE
  <2>1. call.data \in Seq(Chars) /\ Text(call) \in Seq(Chars)
    BY <1>1, CallTypes, SplitsCall
  <2>2. Len(call.data) \in Nat /\ Len(Text(call)) \in Nat
    BY <2>1
  <2>3. call.name = "FS_WRITEBLOCK" => kind = "W"
    BY <1>5, AppendedIs DEF kind
  <2> QED
    BY <1>1, <1>4, <2>2, <2>3 DEF WholeBlock, RequestSize
<1>14. Dispatched'
  BY <1>1, <1>5, <1>11, <1>13 DEF Dispatched
<1>15. Carries(args, call)'
  <2>1. call' = call
    BY <1>1
  <2> QED
    BY <1>9, <1>12, <2>1, Zenon DEF Carries
<1>16. OnlyWhatWasAsked' /\ WellFormedServed' /\ IllFormedRefused' /\ AnswerFits'
  BY <1>1 DEF OnlyWhatWasAsked, WellFormedServed, IllFormedRefused, AnswerFits
<1> QED
  BY <1>1, <1>14, <1>15, <1>16 DEF DispatchInv

LEMMA RefuseFormatKeeps ==
  ASSUME DispatchInv, RefuseFormat
  PROVE  DispatchInv'
<1>1. /\ call \in Calls /\ args = Pieces(Text(call), Space) /\ pc = "switch"
      /\ req_size = Len(Text(call)) + 1 /\ ~Dispatchable /\ Close
  BY DEF DispatchInv, RefuseFormat
<1>2. ~WellFormedCall
  <2> SUFFICES ASSUME WellFormedCall PROVE Dispatchable
    BY <1>1
  <2> DEFINE kind == Kind(call.name)
  <2>1. /\ args[1] = <<call.name>> /\ args[1][1] = call.name /\ Len(args) = WordCount(call)
        /\ \E S : args \in Seq(S)
    BY <1>1, SplitsCall, WellFormedPlain
  <2>1a. PICK S : args \in Seq(S)
    BY <2>1
  <2>2. call.name \in {"FS_SESSION", "FS_CREATE", "FS_DELETE", "FS_READBLOCK", "FS_WRITEBLOCK"}
    BY DEF WellFormedCall
  <2>3. kind # "?" /\ FullName(kind) = call.name /\ (kind = "W" => call.name = "FS_WRITEBLOCK")
    BY <2>2, AppendedIs
  <2>3a. PICK T : Appended(kind) \in Seq(T)
    BY <2>2, AppendedIs
  <2>4. PICK more \in Seq(T) :
          /\ more = Appended(kind)
          /\ call.name \in {"FS_SESSION", "FS_CREATE", "FS_DELETE"} => Len(more) = 0
          /\ call.name = "FS_READBLOCK" => Len(more) = 1
          /\ call.name = "FS_WRITEBLOCK" => Len(more) = 2
    BY <2>2, <2>3a, AppendedIs
  <2>5. PICK n \in Nat, m \in Nat :
          n = Len(args) /\ m = Len(more) /\ Len(args \o more) = n + m
    <3>1. args \in Seq(S) /\ more \in Seq(T)
      BY <2>1a, <2>4, Zenon
    <3>2. /\ Len(args \o more) = Len(args) + Len(more)
          /\ Len(args) \in Nat /\ Len(more) \in Nat
      BY <3>1, Joined
    <3> QED
      BY <3>2, Zenon
  <2>6. RightCount(kind, Len(args \o more))
    <3>1. n = WordCount(call)
      BY <2>1, <2>5, Zenon
    <3>2. /\ call.name \in {"FS_SESSION", "FS_CREATE", "FS_DELETE"} => m = 0
          /\ call.name = "FS_READBLOCK" => m = 1
          /\ call.name = "FS_WRITEBLOCK" => m = 2
      BY <2>4, <2>5, Zenon
    <3>3. n + m = ArgCount(call.name)
      BY <2>2, <3>1, <3>2 DEF WordCount, ArgCount
    <3>4. RightCount(kind, n + m)
      BY <2>2, <3>3, AppendedIs
    <3> QED
      BY <2>5, <3>4, Zenon
  <2>7. kind = "W" => WholeBlock
    <3>1. call.data \in Seq(Chars) /\ Text(call) \in Seq(Chars)
      BY <1>1, CallTypes, SplitsCall
    <3>2. Len(call.data) \in Nat /\ Len(Text(call)) \in Nat
      BY <3>1
    <3> QED
      BY <1>1, <2>3, <3>2 DEF WholeBlock, RequestSize, WellFormedCall
  <2>8. kind = Kind(args[1][1])
    BY <2>1
  <2> HIDE DEF kind
  <2> QED
    BY <2>1, <2>3, <2>4, <2>6, <2>7, <2>8, Zenon DEF Dispatchable
<1> QED
  BY <1>1, <1>2, CloseKeeps

(* What the handler reads is what the call holds. *)
LEMMA TakenIsAsked ==
  ASSUME call \in Calls, Dispatched, Carries(args, call)
  PROVE  /\ Taken = Asked
         /\ ArgumentsGood <=> GoodLast
         /\ args[1] = <<call.name>> /\ args[1][1] = call.name
         /\ \A name : args[1] = <<name>> <=> call.name = name
<1>1. /\ args[1] = <<call.name>> /\ args[1][1] = call.name
      /\ call.name # "FS_SESSION" => args[4] = call.path
      /\ call.name \notin {"FS_SESSION", "FS_DELETE"} => args[5] = call.last
      /\ call.name = "FS_WRITEBLOCK" => args[6] = WRITE /\ args[7] = call.data
      /\ call.name \in {"FS_SESSION", "FS_CREATE", "FS_DELETE", "FS_READBLOCK", "FS_WRITEBLOCK"}
  BY DEF Carries, Dispatched
<1>2. \A name : args[1] = <<name>> <=> call.name = name
  BY <1>1
<1>3. Taken = Asked
  BY <1>1, <1>2 DEF Taken, Asked
<1>4. ArgumentsGood <=> GoodLast
  <2>1. CASE call.name = "FS_CREATE"
    <3>1. ArgumentsGood <=> call.last # << >> /\ call.last[1] \in {"d", "f"}
      BY <1>1, <1>2, <2>1 DEF ArgumentsGood, TypeGood
    <3>2. call.last \in Seq(Chars) /\ Len(call.last) <= 1
      BY <2>1, CallTypes
    <3>3. call.last # << >> => call.last = <<call.last[1]>>
      <4>1. PICK last \in Seq(Chars) : last = call.last /\ Len(last) <= 1
        BY <3>2
      <4>2. last # << >> => last = <<last[1]>>
        BY <4>1
      <4> QED
        BY <4>1, <4>2, Zenon
    <3>4. call.last # << >> /\ call.last[1] \in {"d", "f"} <=> call.last \in {<<"f">>, <<"d">>}
      <4>1. <<"f">> # << >> /\ <<"d">> # << >> /\ <<"f">>[1] = "f" /\ <<"d">>[1] = "d"
        OBVIOUS
      <4> QED
        BY <3>3, <4>1, Zenon
    <3> QED
      BY <2>1, <3>1, <3>4 DEF GoodLast
  <2>2. CASE call.name \in {"FS_READBLOCK", "FS_WRITEBLOCK"}
    <3>1. IsNumber(call.last)
      BY <2>2, CallTypes
    <3> QED
      BY <1>1, <1>2, <2>2, <3>1 DEF ArgumentsGood, BlockGood, GoodLast
  <2>3. CASE call.name \in {"FS_SESSION", "FS_DELETE"}
    BY <1>2, <2>3 DEF ArgumentsGood, GoodLast
  <2> QED
    BY <1>1, <2>1, <2>2, <2>3
<1> QED
  BY <1>1, <1>2, <1>3, <1>4

LEMMA RefuseArgumentsKeeps ==
  ASSUME DispatchInv, RefuseArguments
  PROVE  DispatchInv'
<1>1. /\ call \in Calls /\ Dispatched /\ Carries(args, call) /\ ~ArgumentsGood
      /\ pc = "handler" /\ Close
  BY DEF DispatchInv, RefuseArguments
<1>2. ~GoodLast
  BY <1>1, TakenIsAsked
<1>3. ~WellFormedCall
  BY <1>2 DEF WellFormedCall, GoodLast
<1> QED
  BY <1>1, <1>3, CloseKeeps

(* The handler goes on with the call. *)
LEMMA HandleKeeps ==
  ASSUME DispatchInv, Handle
  PROVE  DispatchInv'
<1>1. /\ call \in Calls /\ Dispatched /\ Carries(args, call) /\ ArgumentsGood
      /\ pc = "handler" /\ pc' = "walk" /\ handled' = Taken /\ response = Nothing
      /\ UNCHANGED <<call, valid, args, req_size, response>>
  BY DEF DispatchInv, Handle
<1>2. GoodLast /\ handled' = Asked
  BY <1>1, TakenIsAsked
<1>3. GoodLast' /\ Dispatched' /\ Carries(args, call)' /\ Asked' = Asked
  <2>1. call' = call /\ args' = args /\ valid' = valid
    BY <1>1
  <2>2. Carries(args, call)'
    BY <1>1, <2>1, Zenon DEF Carries
  <2> QED
    BY <1>1, <1>2, <2>1, <2>2 DEF GoodLast, Dispatched, Asked
<1>4. OnlyWhatWasAsked' /\ WellFormedServed' /\ IllFormedRefused' /\ AnswerFits'
  BY <1>1, <1>2, <1>3 DEF OnlyWhatWasAsked, WellFormedServed, IllFormedRefused, AnswerFits
<1> QED
  BY <1>1, <1>2, <1>3, <1>4 DEF DispatchInv

LEMMA FailKeeps ==
  ASSUME DispatchInv, Fail
  PROVE  DispatchInv'
<1>1. handled = Asked /\ pc # "closed" /\ Close
  BY DEF DispatchInv, Fail
<1> QED
  BY <1>1, CloseKeeps

(* The handler has succeeded: the call had a path. *)
LEMMA SucceedKeeps ==
  ASSUME DispatchInv, Succeed
  PROVE  DispatchInv'
<1>1. /\ call \in Calls /\ Dispatched /\ Carries(args, call) /\ GoodLast /\ handled = Asked
      /\ pc = "walk" /\ pc' = "respond" /\ response = Nothing
      /\ UNCHANGED <<call, valid, req_size, handled, response>>
      /\ args[1] = <<"FS_SESSION">> \/ handled.path # << >>
      /\ args' = CASE args[1] = <<"FS_SESSION">> -> [args EXCEPT ![2] = <<NewSessionText>>]
                   [] Reads -> Append(args, StoredBlock)
                   [] OTHER -> args
  BY DEF DispatchInv, Succeed
<1>2. /\ \A name : args[1] = <<name>> <=> call.name = name
      /\ args[1] = <<call.name>>
  BY <1>1, TakenIsAsked
<1>3. PICK S : args \in Seq(S)
  BY <1>1 DEF Carries
<1>4. /\ args[2] = <<call.session>> /\ args[3] = <<call.sequence>>
      /\ call.name = "FS_READBLOCK" => args[6] = READ
      /\ Len(args) = ArgCount(call.name)
  BY <1>1, Zenon DEF Carries
<1>5. Reads <=> call.name = "FS_READBLOCK"
  BY <1>2, <1>4 DEF Reads
<1>6. call.name # "FS_SESSION" => WellFormedPath(call.path)
  BY <1>1, <1>2 DEF Asked, PathNames
<1>7. WellFormedCall
  BY <1>1, <1>6 DEF Dispatched, GoodLast, WellFormedCall
<1>8. Answered(args')
  <2>1. CASE call.name = "FS_SESSION"
    <3>1. args' = [args EXCEPT ![2] = <<NewSessionText>>]
      BY <1>1, <1>2, <1>5, <2>1
    <3>2. Len(args) = 3
      BY <1>4, <2>1, Zenon DEF ArgCount
    <3>3. args'[1] = args[1] /\ args'[2] = <<NewSessionText>> /\ args'[3] = args[3]
      BY <1>3, <3>1, <3>2
    <3> QED
      BY <1>2, <1>4, <2>1, <3>3 DEF Answered
  <2>2. CASE call.name = "FS_READBLOCK"
    <3>1. args' = Append(args, StoredBlock)
      BY <1>1, <1>2, <1>5, <2>2
    <3>2. Len(args) = 6
      BY <1>4, <2>2, Zenon DEF ArgCount
    <3>3. args \in Seq(S \cup {StoredBlock})
      BY <1>3
    <3>3a. PICK n \in Nat : n = Len(args)
      BY <3>3
    <3>3b. (\A i \in 1 .. n : args'[i] = args[i]) /\ args'[n + 1] = StoredBlock
      BY <3>1, <3>3, <3>3a
    <3>3c. n = 6
      BY <3>2, <3>3a, Zenon
    <3>4. \A i \in 1 .. 6 : args'[i] = args[i]
      BY <3>3b, <3>3c
    <3>5. args'[7] = StoredBlock
      BY <3>3b, <3>3c
    <3> QED
      BY <1>2, <1>4, <2>2, <3>4, <3>5 DEF Answered
  <2>3. CASE call.name \notin {"FS_SESSION", "FS_READBLOCK"}
    <3>1. args' = args
      BY <1>1, <1>2, <1>5, <2>3
    <3> QED
      BY <1>2, <1>4, <2>3, <3>1 DEF Answered
  <2> QED
    BY <2>1, <2>2, <2>3
<1>9. Answered(args)' /\ WellFormedCall' /\ GoodLast' /\ Asked' = Asked
  BY <1>1, <1>7, <1>8 DEF Answered, WellFormedCall, GoodLast, Asked
<1>10. OnlyWhatWasAsked' /\ WellFormedServed' /\ IllFormedRefused' /\ AnswerFits'
  BY <1>1, <1>9 DEF OnlyWhatWasAsked, WellFormedServed, IllFormedRefused, AnswerFits
<1> QED
  BY <1>1, <1>9, <1>10 DEF DispatchInv

(* The answer is read off the arguments. *)
LEMMA SendResponseKeeps ==
  ASSUME DispatchInv, SendResponse
  PROVE  DispatchInv'
<1>1. /\ call \in Calls /\ WellFormedCall /\ Answered(args) /\ handled = Asked
      /\ pc = "respond" /\ pc' = "closed"
      /\ response' = [session |-> args[2], sequence |-> args[3], data |-> Data]
      /\ UNCHANGED <<call, valid, args, req_size, handled>>
  BY DEF DispatchInv, SendResponse
<1>2. Data = IF call.name = "FS_READBLOCK" THEN StoredBlock ELSE << >>
  <2>1. args[1][1] = call.name
    BY <1>1 DEF Answered
  <2>2. Kind(call.name) = "R" <=> call.name = "FS_READBLOCK"
    BY <1>1 DEF WellFormedCall, Kind
  <2> QED
    BY <1>1, <2>1, <2>2 DEF Data, Answered
<1>3. response' = [session  |-> <<IF call.name = "FS_SESSION" THEN NewSessionText ELSE call.session>>,
                   sequence |-> <<call.sequence>>,
                   data     |-> IF call.name = "FS_READBLOCK" THEN StoredBlock ELSE << >>]
  BY <1>1, <1>2 DEF Answered
<1>4. WellFormedCall' /\ Asked' = Asked
  BY <1>1 DEF WellFormedCall, Asked
<1>5. OnlyWhatWasAsked' /\ WellFormedServed' /\ IllFormedRefused' /\ AnswerFits'
  BY <1>1, <1>3, <1>4 DEF OnlyWhatWasAsked, WellFormedServed, IllFormedRefused, AnswerFits
<1> QED
  BY <1>1, <1>5 DEF DispatchInv

LEMMA InitDispatch == Init => DispatchInv
  BY DEF Init, DispatchInv, OnlyWhatWasAsked, WellFormedServed, IllFormedRefused, AnswerFits

LEMMA NextDispatch == DispatchInv /\ [Next]_vars => DispatchInv'
<1> SUFFICES ASSUME DispatchInv, [Next]_vars PROVE DispatchInv'
  OBVIOUS
<1>1. CASE Next
  BY <1>1, SplitTextKeeps, CheckSessionKeeps, RefuseSessionKeeps, SelectHandlerKeeps,
     RefuseFormatKeeps, RefuseArgumentsKeeps, HandleKeeps, FailKeeps, SucceedKeeps,
     SendResponseKeeps DEF Next
<1>2. CASE UNCHANGED vars
  <2>1. UNCHANGED <<call, valid, args, req_size, handled, response, pc>>
    BY <1>2 DEF vars
  <2> QED
    BY <2>1 DEF DispatchInv, Dispatched, Carries, GoodLast, Answered, WellFormedCall, Asked,
       OnlyWhatWasAsked, WellFormedServed, IllFormedRefused, AnswerFits
<1> QED
  BY <1>1, <1>2

LEMMA DispatchStays == Spec => []DispatchInv
  BY InitDispatch, NextDispatch, PTL DEF Spec

-----------------------------------------------------------------------------
(* However many spaces a client puts into a path or type, and wherever, a    *)
(* handler works on what it asked for or not at all.                        *)
THEOREM NoTextMistaken == Spec => []OnlyWhatWasAsked
<1>1. DispatchInv => OnlyWhatWasAsked
  BY DEF DispatchInv
<1> QED
  BY DispatchStays, <1>1, PTL

(* No call that fs_client.h allows is refused for its form, however long its *)
(* path up to FS_MAXPATHNAME.                                               *)
THEOREM AllowedCallsServed == Spec => []WellFormedServed
<1>1. DispatchInv => WellFormedServed
  BY DEF DispatchInv
<1> QED
  BY DispatchStays, <1>1, PTL

(* And no other call is answered. *)
THEOREM OtherCallsRefused == Spec => []IllFormedRefused
<1>1. DispatchInv => IllFormedRefused
  BY DEF DispatchInv
<1> QED
  BY DispatchStays, <1>1, PTL

(* An answer has the call's session and sequence number, or the new session, *)
(* and the block a read has found.                                          *)
THEOREM AnswersFit == Spec => []AnswerFits
<1>1. DispatchInv => AnswerFits
  BY DEF DispatchInv
<1> QED
  BY DispatchStays, <1>1, PTL
=============================================================================
