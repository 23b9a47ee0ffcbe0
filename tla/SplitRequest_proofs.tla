-------------------------- MODULE SplitRequest_proofs --------------------------
(***************************************************************************)
(* Proofs about SplitRequest, for texts of any length: split_request cuts   *)
(* where the tokens are and nowhere else, and returns what Split says.      *)
(* SplitInv adds to NothingLost where begin and end stand at each step of   *)
(* the loop, Outcome that the pieces end at all the tokens passed so far.   *)
(***************************************************************************)
EXTENDS SplitRequest, WellFoundedInduction, FiniteSetTheorems, TLAPS

TypeInv ==
  /\ request \in Seq(STRING) /\ token \in Tokens
  /\ begin \in Nat \ {0} /\ end \in Nat
  /\ split \in Seq(Seq(STRING)) /\ starts \in Seq(Nat)
  /\ pc \in {"check", "only", "loop", "last", "done"}

NoToken(i, j) == \A k \in i .. j : request[k] # token

(* Where the next piece begins. *)
Expected == IF Len(split) = 0 THEN First ELSE After(Len(split)) + 1

Positions ==
  /\ pc \in {"check", "only"} => split = << >> /\ starts = << >>
  /\ pc \in {"only", "loop", "last"} => begin = Expected /\ begin <= Len(request) + 1
  /\ pc \in {"only", "last"} => NoToken(begin, Len(request))
  /\ pc = "loop" =>
       end \in begin .. Len(request) /\ request[end] = token /\ NoToken(begin, end - 1)

SplitInv == TypeInv /\ Positions /\ NothingLost

-----------------------------------------------------------------------------
(* A set of natural numbers that is not empty has a least element. *)
LEMMA Least ==
  ASSUME NEW T \in SUBSET Nat, T # {}
  PROVE  \E x \in T : \A y \in T : x <= y
<1> DEFINE R == OpToRel(<, Nat)
<1>1. IsWellFoundedOn(R, Nat)
  BY NatLessThanWellFounded
<1>2. \A x, y \in Nat : y < x => <<y, x>> \in R
  BY DEF OpToRel
<1> HIDE DEF R
<1>3. PICK x \in T : \A y \in T : ~(<<y, x>> \in R)
  BY <1>1, WFMin
<1>4. SUFFICES ASSUME NEW y \in T PROVE x <= y
  BY <1>3
<1>5. x \in Nat /\ y \in Nat
  OBVIOUS
<1>6. ~(<<y, x>> \in R)
  BY <1>3
<1>7. ~(y < x)
  BY ONLY <1>5, <1>6, <1>2, Zenon
<1> QED
  BY ONLY <1>5, <1>7

(* std::string::find returns the first place of the character, or npos when  *)
(* there is none.                                                           *)
LEMMA FindFirstPlace ==
  ASSUME NEW text \in Seq(STRING), NEW c, NEW from \in Nat \ {0}
  PROVE  \/ Find(text, c, from) = NPos /\ \A i \in from .. Len(text) : text[i] # c
         \/ /\ Find(text, c, from) \in from .. Len(text)
            /\ text[Find(text, c, from)] = c
            /\ \A i \in from .. Find(text, c, from) - 1 : text[i] # c
<1> DEFINE hits == {i \in from .. Len(text) : text[i] = c}
<1>1. CASE hits = {}
  BY <1>1 DEF Find
<1>2. CASE hits # {}
  <2>1. hits \in SUBSET Nat
    OBVIOUS
  <2>2. \E i \in hits : \A j \in hits : i <= j
    BY <1>2, <2>1, Least
  <2>3. Find(text, c, from) = CHOOSE i \in hits : \A j \in hits : i <= j
    BY <1>2 DEF Find
  <2>4. Find(text, c, from) \in hits /\ \A j \in hits : Find(text, c, from) <= j
    BY <2>2, <2>3
  <2> QED
    BY <2>4
<1> QED
  BY <1>1, <1>2

(* The places of a token. *)
LEMMA CutsAre ==
  ASSUME NEW text \in Seq(STRING), NEW c
  PROVE  \A i : i \in Cuts(text, c) <=> i \in 1 .. Len(text) /\ text[i] = c
<1>1. DOMAIN text = 1 .. Len(text)
  OBVIOUS
<1> QED
  BY <1>1, Zenon DEF Cuts

(* Appending to a sequence leaves what it holds where it is. *)
LEMMA AppendKeeps ==
  ASSUME NEW S, NEW s \in Seq(S), NEW e \in S
  PROVE  /\ Append(s, e) \in Seq(S)
         /\ Len(Append(s, e)) = Len(s) + 1 /\ Len(s) \in Nat
         /\ \A i \in 1 .. Len(s) : Append(s, e)[i] = s[i]
         /\ Append(s, e)[Len(s) + 1] = e
  OBVIOUS

(* A sequence is the function of its elements. *)
LEMMA ElementsAre ==
  ASSUME NEW S, NEW s \in Seq(S)
  PROVE  s = [k \in 1 .. Len(s) |-> s[k]]
  OBVIOUS

(* A stretch of a text. *)
LEMMA Stretch ==
  ASSUME NEW text \in Seq(STRING), NEW from \in Nat \ {0}, NEW stop \in from .. Len(text) + 1
  PROVE  /\ SubSeq(text, from, stop - 1) \in Seq(STRING)
         /\ Len(SubSeq(text, from, stop - 1)) = stop - from
         /\ \A i \in 1 .. stop - from : SubSeq(text, from, stop - 1)[i] = text[from + i - 1]
  OBVIOUS

-----------------------------------------------------------------------------
(* The step that the loop and its end have in common: the piece from begin   *)
(* up to the next token, or to the end of the text, is added.               *)
LEMMA AddPiece ==
  ASSUME SplitInv, pc \in {"only", "loop", "last"},
         NEW stop \in begin .. Len(request) + 1, NoToken(begin, stop - 1),
         split' = Append(split, SubSeq(request, begin, stop - 1)),
         starts' = Append(starts, begin),
         request' = request, token' = token,
         IF pc' = "done" THEN stop = Len(request) + 1
         ELSE stop <= Len(request) /\ request[stop] = token
  PROVE  /\ NothingLost'
         /\ split' \in Seq(Seq(STRING)) /\ starts' \in Seq(Nat)
         /\ Expected' = stop + 1
         /\ \A n \in Nat : n = Len(split) =>
              /\ Len(split') = n + 1 /\ After(n + 1)' = stop
              /\ \A k \in 1 .. n : split'[k] = split[k] /\ After(k)' = After(k)
              /\ Len(split'[n + 1]) = stop - begin
<1> DEFINE entry == SubSeq(request, begin, stop - 1)
<1>0. PICK n \in Nat : n = Len(split)
  BY DEF SplitInv, TypeInv
<1>1. /\ request \in Seq(STRING) /\ begin \in Nat \ {0} /\ begin = Expected
      /\ split \in Seq(Seq(STRING)) /\ starts \in Seq(Nat) /\ NothingLost /\ pc # "done"
  BY DEF SplitInv, TypeInv, Positions
<1>2. /\ entry \in Seq(STRING) /\ Len(entry) = stop - begin
      /\ \A i \in 1 .. stop - begin : entry[i] = request[begin + i - 1]
  BY <1>1, Stretch
<1> HIDE DEF entry
<1>3. /\ split' \in Seq(Seq(STRING)) /\ Len(split') = n + 1 /\ n \in Nat
      /\ \A k \in 1 .. n : split'[k] = split[k]
      /\ split'[n + 1] = entry
  BY <1>0, <1>1, <1>2, AppendKeeps DEF entry
<1>4. /\ starts' \in Seq(Nat) /\ Len(starts') = n + 1 /\ Len(starts) = n
      /\ \A k \in 1 .. n : starts'[k] = starts[k]
      /\ starts'[n + 1] = begin
  <2>1. Len(starts) = n
    BY <1>0, <1>1 DEF NothingLost
  <2> QED
    BY <1>1, <2>1, AppendKeeps
<1>5. \A k \in 1 .. n : After(k)' = After(k)
  BY <1>3, <1>4 DEF After
<1>6. After(n + 1)' = stop
  BY <1>1, <1>2, <1>3, <1>4 DEF After
<1>7. First' = First
  BY DEF First
<1>8. ASSUME NEW k \in 1 .. n + 1
      PROVE  /\ starts'[k] = IF k = 1 THEN First ELSE After(k - 1)' + 1
             /\ \A i \in 1 .. Len(split'[k]) :
                  split'[k][i] = request[starts'[k] + i - 1] /\ split'[k][i] # token
             /\ IF k = n + 1 /\ pc' = "done"
                THEN After(k)' = Len(request) + 1
                ELSE After(k)' <= Len(request) /\ request[After(k)'] = token
  <2>1. CASE k = n + 1
    <3>1. starts'[k] = IF k = 1 THEN First ELSE After(k - 1)' + 1
      <4>1. begin = IF n = 0 THEN First ELSE After(n) + 1
        BY <1>0, <1>1 DEF Expected
      <4>2. k - 1 = n /\ (k = 1 <=> n = 0) /\ starts'[k] = begin
        BY <1>4, <2>1
      <4>3. n # 0 => After(n)' = After(n)
        BY <1>5
      <4> QED
        BY <4>1, <4>2, <4>3
    <3>2. \A i \in 1 .. Len(split'[k]) :
            split'[k][i] = request[starts'[k] + i - 1] /\ split'[k][i] # token
      <4> SUFFICES ASSUME NEW i \in 1 .. stop - begin
                   PROVE  entry[i] = request[begin + i - 1] /\ entry[i] # token
        BY <1>2, <1>3, <1>4, <2>1
      <4>1. begin + i - 1 \in begin .. stop - 1
        BY <1>1
      <4> QED
        BY <1>2, <4>1 DEF NoToken
    <3> QED
      BY <1>6, <2>1, <3>1, <3>2
  <2>2. CASE k \in 1 .. n
    <3>1. /\ starts[k] = IF k = 1 THEN First ELSE After(k - 1) + 1
          /\ \A i \in 1 .. Len(split[k]) :
               split[k][i] = request[starts[k] + i - 1] /\ split[k][i] # token
          /\ After(k) <= Len(request) /\ request[After(k)] = token
      BY <1>0, <1>1, <2>2 DEF NothingLost
    <3>2. k # n + 1 /\ (k # 1 => k - 1 \in 1 .. n)
      BY <1>3, <2>2
    <3> QED
      BY <1>3, <1>4, <1>5, <2>2, <3>1, <3>2
  <2> QED
    <3>1. k = n + 1 \/ k \in 1 .. n
      BY <1>3
    <3> QED
      BY <2>1, <2>2, <3>1
<1>9. NothingLost'
  <2>1. Len(starts') = Len(split') /\ 1 .. Len(split') = 1 .. n + 1
    BY <1>3, <1>4
  <2>2. ASSUME NEW k \in 1 .. Len(split')
        PROVE  /\ starts'[k] = IF k = 1 THEN First' ELSE After(k - 1)' + 1
               /\ \A i \in 1 .. Len(split'[k]) :
                    split'[k][i] = request'[starts'[k] + i - 1] /\ split'[k][i] # token'
               /\ IF k = Len(split') /\ pc' = "done"
                  THEN After(k)' = Len(request') + 1
                  ELSE After(k)' <= Len(request') /\ request'[After(k)'] = token'
    <3>1. k = Len(split') <=> k = n + 1
      BY <1>3
    <3>2. k \in 1 .. n + 1
      BY <1>3
    <3> QED
      BY <1>7, <1>8, <3>1, <3>2
  <2> QED
    BY <2>1, <2>2 DEF NothingLost
<1>10. Expected' = stop + 1
  BY <1>3, <1>6 DEF Expected
<1>11. /\ Len(split') = n + 1 /\ After(n + 1)' = stop
       /\ \A k \in 1 .. n : split'[k] = split[k] /\ After(k)' = After(k)
       /\ Len(split'[n + 1]) = stop - begin
  BY <1>2, <1>3, <1>5, <1>6
<1> QED
  BY <1>0, <1>3, <1>4, <1>9, <1>10, <1>11

(* Nothing has been split yet. *)
LEMMA InitSplit == Init => SplitInv
<1> SUFFICES ASSUME Init PROVE SplitInv
  OBVIOUS
<1>1. TypeInv
  BY SplitAssumption DEF Init, TypeInv, NPos
<1>2. Positions
  BY DEF Init, Positions
<1>3. NothingLost
  BY DEF Init, NothingLost
<1> QED
  BY <1>1, <1>2, <1>3 DEF SplitInv

(* A refusal returns nothing. *)
LEMMA RefuseSplit ==
  ASSUME SplitInv, Refuse
  PROVE  SplitInv'
<1>1. TypeInv'
  BY DEF SplitInv, TypeInv, Refuse, Return
<1>2. Positions'
  BY DEF Refuse, Return, Positions
<1>3. NothingLost'
  BY DEF Refuse, Return, NothingLost
<1> QED
  BY <1>1, <1>2, <1>3 DEF SplitInv

(* The first token is sought from the first character that may be in a      *)
(* piece.                                                                   *)
LEMMA FindFirstSplit ==
  ASSUME SplitInv, FindFirst
  PROVE  SplitInv'
<1>1. /\ request \in Seq(STRING) /\ split = << >> /\ starts = << >>
      /\ UNCHANGED <<request, token, split, starts>>
  BY DEF SplitInv, TypeInv, Positions, FindFirst
<1>2. begin' = First /\ begin' \in Nat \ {0} /\ First' = First
  BY <1>1 DEF FindFirst, First
<1>3. begin' <= Len(request) + 1
  BY <1>1, <1>2 DEF FindFirst, First, Malformed
<1>4. end' = Find(request, token, begin')
  BY DEF FindFirst
<1>5. \/ end' = NPos /\ NoToken(begin', Len(request))
      \/ /\ end' \in begin' .. Len(request) /\ request[end'] = token
         /\ NoToken(begin', end' - 1)
  BY <1>1, <1>2, <1>4, FindFirstPlace DEF NoToken
<1>6. TypeInv'
  BY <1>1, <1>2, <1>5 DEF SplitInv, TypeInv, FindFirst, NPos
<1>7. Positions'
  BY <1>1, <1>2, <1>3, <1>5 DEF Positions, FindFirst, NPos, NoToken, Expected
<1>8. NothingLost'
  BY <1>1 DEF NothingLost
<1> QED
  BY <1>6, <1>7, <1>8 DEF SplitInv

(* A request without a token is one piece. *)
LEMMA OnlyEntrySplit ==
  ASSUME SplitInv, OnlyEntry
  PROVE  SplitInv'
<1> DEFINE entry == SubSeq(request, begin, Len(request))
<1>1. /\ request \in Seq(STRING) /\ begin \in Nat \ {0} /\ begin <= Len(request) + 1
      /\ pc = "only" /\ pc' = "done" /\ split = << >> /\ starts = << >>
      /\ NoToken(begin, Len(request)) /\ UNCHANGED <<request, token, begin, end>>
      /\ split' = <<entry>> /\ starts' = <<begin>>
  BY DEF SplitInv, TypeInv, Positions, OnlyEntry, Return
<1>2. Len(request) + 1 \in begin .. Len(request) + 1 /\ (Len(request) + 1) - 1 = Len(request)
  BY <1>1
<1>3. split' = Append(split, SubSeq(request, begin, (Len(request) + 1) - 1))
      /\ starts' = Append(starts, begin)
  BY <1>1, <1>2
<1>4. /\ NothingLost' /\ split' \in Seq(Seq(STRING)) /\ starts' \in Seq(Nat)
  BY <1>1, <1>2, <1>3, AddPiece
<1> QED
  BY <1>1, <1>4 DEF SplitInv, TypeInv, Positions

(* A piece that a token ends: the search goes on behind the token.           *)
LEMMA NextEntrySplit ==
  ASSUME SplitInv, NextEntry
  PROVE  SplitInv'
<1>1. /\ request \in Seq(STRING) /\ begin \in Nat \ {0} /\ pc = "loop"
      /\ end \in begin .. Len(request) /\ request[end] = token /\ NoToken(begin, end - 1)
      /\ UNCHANGED <<request, token>> /\ pc' \in {"loop", "last"}
      /\ split' = Append(split, SubSeq(request, begin, end - 1))
      /\ starts' = Append(starts, begin)
      /\ begin' = end + 1 /\ end' = Find(request, token, begin')
      /\ pc' = IF end' = NPos THEN "last" ELSE "loop"
  BY DEF SplitInv, TypeInv, Positions, NextEntry, NextBegin
<1>2. end \in begin .. Len(request) + 1 /\ end <= Len(request)
  BY <1>1
<1>3. /\ NothingLost' /\ split' \in Seq(Seq(STRING)) /\ starts' \in Seq(Nat)
      /\ Expected' = end + 1
  BY <1>1, <1>2, AddPiece
<1>4. begin' \in Nat \ {0} /\ begin' <= Len(request) + 1
  BY <1>1
<1>5. \/ end' = NPos /\ NoToken(begin', Len(request))
      \/ /\ end' \in begin' .. Len(request) /\ request[end'] = token
         /\ NoToken(begin', end' - 1)
  BY <1>1, <1>4, FindFirstPlace DEF NoToken
<1>6. TypeInv'
  BY <1>1, <1>3, <1>4, <1>5 DEF SplitInv, TypeInv, NPos
<1>7. Positions'
  BY <1>1, <1>3, <1>4, <1>5 DEF Positions, NPos, NoToken
<1> QED
  BY <1>3, <1>6, <1>7 DEF SplitInv

(* The piece behind the last token. *)
LEMMA LastEntrySplit ==
  ASSUME SplitInv, LastEntry
  PROVE  SplitInv'
<1>1. /\ request \in Seq(STRING) /\ begin \in Nat \ {0} /\ begin <= Len(request) + 1
      /\ pc = "last" /\ pc' = "done" /\ NoToken(begin, Len(request))
      /\ UNCHANGED <<request, token, begin, end>>
      /\ split' = Append(split, SubSeq(request, begin, Len(request)))
      /\ starts' = Append(starts, begin)
  BY DEF SplitInv, TypeInv, Positions, LastEntry, Return
<1>2. Len(request) + 1 \in begin .. Len(request) + 1 /\ (Len(request) + 1) - 1 = Len(request)
  BY <1>1
<1>3. /\ NothingLost' /\ split' \in Seq(Seq(STRING)) /\ starts' \in Seq(Nat)
  BY <1>1, <1>2, AddPiece
<1> QED
  BY <1>1, <1>3 DEF SplitInv, TypeInv, Positions

(* No step of the loop breaks the invariant. *)
LEMMA NextSplit == SplitInv /\ [Next]_vars => SplitInv'
<1> SUFFICES ASSUME SplitInv, [Next]_vars PROVE SplitInv'
  OBVIOUS
<1>1. CASE RefusePath
  BY <1>1, RefuseSplit DEF RefusePath
<1>2. CASE FindFirst
  BY <1>2, FindFirstSplit
<1>3. CASE OnlyEntry
  BY <1>3, OnlyEntrySplit
<1>4. CASE NextEntry
  BY <1>4, NextEntrySplit
<1>5. CASE LastEntry
  BY <1>5, LastEntrySplit
<1>6. CASE RefuseName
  BY <1>6, RefuseSplit DEF RefuseName
<1>7. CASE UNCHANGED vars
  BY <1>7 DEF vars, SplitInv, TypeInv, Positions, NothingLost, NoToken, Expected, After, First
<1> QED
  BY <1>1, <1>2, <1>3, <1>4, <1>5, <1>6, <1>7 DEF Next

(* split_request cuts a text of any length where the tokens are and nowhere  *)
(* else: no character is lost, doubled or moved.                            *)
THEOREM SplitLosesNothing == Spec => []NothingLost
<1>1. SplitInv => NothingLost
  BY DEF SplitInv
<1> QED
  BY InitSplit, NextSplit, <1>1, PTL DEF Spec

-----------------------------------------------------------------------------
(* What the loop returns.  The pieces end at tokens further and further on,  *)
(* every token passed ends one of them, and no name is too long.            *)

Ordered     == \A k, l \in 1 .. Len(split) : k < l => After(k) < After(l)
Found(i, n) == \A j \in First .. i : request[j] = token => \E k \in 1 .. n : j = After(k)
NamesShort  == token = "/" => \A k \in 1 .. Len(split) : Len(split[k]) <= FS_MAXFILENAME

Outcome ==
  /\ Ordered /\ NamesShort
  /\ pc \in {"only", "loop", "last"} =>
       (token = "/" => ~Malformed) /\ Found(begin - 1, Len(split))
  /\ pc = "done" =>
       IF split = << >> THEN token = "/" /\ ~WellFormedPath(request)
       ELSE /\ token = "/" => ~Malformed
            /\ Found(Len(request), Len(split) - 1)
            /\ token = " " /\ Cuts(request, " ") # {} => request_length = Len(request) + 1

(* The next piece ends behind the others, at the first token they do not end *)
(* at.                                                                      *)
LEMMA AddInOrder ==
  ASSUME SplitInv, Outcome, pc \in {"only", "loop", "last"},
         NEW stop \in begin .. Len(request) + 1, NoToken(begin, stop - 1),
         split' = Append(split, SubSeq(request, begin, stop - 1)),
         starts' = Append(starts, begin),
         request' = request, token' = token,
         IF pc' = "done" THEN stop = Len(request) + 1
         ELSE stop <= Len(request) /\ request[stop] = token,
         token = "/" => stop - begin <= FS_MAXFILENAME
  PROVE  /\ Ordered' /\ NamesShort'
         /\ \A n \in Nat : n = Len(split) =>
              /\ Len(split') = n + 1 /\ After(n + 1)' = stop /\ split' # << >>
              /\ \A j \in First .. stop - 1 :
                   request[j] = token => \E k \in 1 .. n : j = After(k)'
<1>0. PICK n \in Nat : n = Len(split)
  BY DEF SplitInv, TypeInv
<1>1. /\ split' \in Seq(Seq(STRING)) /\ Len(split') = n + 1 /\ After(n + 1)' = stop
      /\ \A k \in 1 .. n : split'[k] = split[k] /\ After(k)' = After(k)
      /\ Len(split'[n + 1]) = stop - begin
  BY <1>0, AddPiece
<1>2. /\ \A k, l \in 1 .. n : k < l => After(k) < After(l)
      /\ \A j \in First .. begin - 1 : request[j] = token => \E k \in 1 .. n : j = After(k)
      /\ token = "/" => \A k \in 1 .. n : Len(split[k]) <= FS_MAXFILENAME
      /\ begin \in Nat \ {0} /\ request \in Seq(STRING)
      /\ begin = IF n = 0 THEN First ELSE After(n) + 1
      /\ starts \in Seq(Nat) /\ split \in Seq(Seq(STRING)) /\ Len(starts) = n
  BY <1>0 DEF Outcome, Ordered, Found, NamesShort, SplitInv, TypeInv, Positions, Expected, NothingLost
<1>3. \A k \in 1 .. n : After(k) \in Int
  BY <1>0, <1>2, SMTT(30) DEF After
<1>4. \A k \in 1 .. n : After(k) < stop
  <2>1. ASSUME NEW k \in 1 .. n PROVE After(k) < stop
    <3>1. After(n) + 1 = begin /\ begin <= stop /\ n \in 1 .. n /\ stop \in Int
      BY <1>2, <2>1
    <3>2. k = n \/ k < n
      BY <2>1
    <3>3. k = n \/ After(k) < After(n)
      BY <1>2, <2>1, <3>1, <3>2
    <3>4. After(k) \in Int /\ After(n) \in Int
      BY <1>3, <2>1, <3>1
    <3> QED
      BY <1>2, <3>1, <3>3, <3>4
  <2> QED
    BY <2>1
<1>5. ASSUME NEW k \in 1 .. n + 1, NEW l \in 1 .. n + 1, k < l
      PROVE  After(k)' < After(l)'
  <2>1. k \in 1 .. n /\ (l \in 1 .. n \/ l = n + 1)
    BY <1>5
  <2> QED
    BY <1>1, <1>2, <1>4, <1>5, <2>1
<1>6. ASSUME token = "/", NEW k \in 1 .. n + 1
      PROVE  Len(split'[k]) <= FS_MAXFILENAME
  <2>1. k \in 1 .. n \/ k = n + 1
    OBVIOUS
  <2> QED
    BY <1>1, <1>2, <1>6, <2>1
<1>7. ASSUME NEW j \in First .. stop - 1, request[j] = token
      PROVE  \E k \in 1 .. n : j = After(k)'
  <2>1. First \in Nat
    BY DEF First
  <2>2. j \in First .. begin - 1
    <3>1. j \notin begin .. stop - 1
      BY <1>7 DEF NoToken
    <3> QED
      BY <1>2, <2>1, <3>1
  <2> QED
    BY <1>1, <1>2, <1>7, <2>2
<1>8. Ordered'
  BY <1>1, <1>5 DEF Ordered
<1>9. NamesShort'
  BY <1>1, <1>6 DEF NamesShort
<1>10. split' # << >>
  BY <1>1
<1> QED
  BY <1>0, <1>1, <1>7, <1>8, <1>9, <1>10

(* A path that the checks ahead of the loop refuse is not well formed. *)
LEMMA MalformedPath ==
  ASSUME TypeInv, Malformed
  PROVE  ~WellFormedPath(request)
<1>1. request \in Seq(STRING)
  BY DEF TypeInv
<1>2. CASE request # << >> /\ request[Len(request)] = "/"
  <2>1. Len(request) \in Cuts(request, "/")
    BY <1>1, <1>2 DEF Cuts
  <2> QED
    BY <1>1, <2>1 DEF WellFormedPath
<1>3. CASE \E i \in 1 .. Len(request) - 1 : request[i] = "/" /\ request[i + 1] = "/"
  BY <1>1, <1>3 DEF WellFormedPath, Cuts
<1> QED
  BY <1>2, <1>3 DEF Malformed, WellFormedPath

(* Nor is one with a stretch between two slashes that is too long. *)
LEMMA LongName ==
  ASSUME TypeInv, token = "/", NEW stop \in begin .. Len(request) + 1, NoToken(begin, stop - 1),
         stop - begin > FS_MAXFILENAME
  PROVE  ~WellFormedPath(request)
<1>1. request \in Seq(STRING) /\ begin \in Nat \ {0} /\ FS_MAXFILENAME \in Nat \ {0}
  BY TextAssumption DEF TypeInv
<1>2. /\ begin \in 1 .. Len(request) - FS_MAXFILENAME
      /\ begin .. begin + FS_MAXFILENAME \subseteq begin .. stop - 1
  BY <1>1
<1>3. \A j \in begin .. begin + FS_MAXFILENAME : request[j] # "/"
  BY <1>2 DEF NoToken
<1> QED
  BY <1>2, <1>3 DEF WellFormedPath


(* The loop has found no token yet. *)
LEMMA InitOutcome == Init => Outcome
  BY DEF Init, Outcome, Ordered, NamesShort

(* A refusal is right when the path is not well formed. *)
LEMMA RefuseOutcome ==
  ASSUME Refuse, token = "/", ~WellFormedPath(request)
  PROVE  Outcome'
<1>1. split' = << >> /\ pc' = "done" /\ token' = "/" /\ ~WellFormedPath(request)'
  BY DEF Refuse, Return, WellFormedPath, Cuts
<1>2. Ordered' /\ NamesShort'
  BY <1>1 DEF Ordered, NamesShort
<1> QED
  BY <1>1, <1>2 DEF Outcome

(* The first piece begins ahead of every token but a path's first slash. *)
LEMMA FindFirstOutcome ==
  ASSUME SplitInv, Outcome, FindFirst
  PROVE  Outcome'
<1>1. /\ split' = << >> /\ split = << >> /\ UNCHANGED <<request, token>>
      /\ begin' = First /\ First' = First /\ First \in Nat /\ pc' \in {"only", "loop"}
      /\ token = "/" => ~Malformed
  BY DEF FindFirst, SplitInv, Positions, First
<1>2. Ordered' /\ NamesShort'
  BY <1>1 DEF Ordered, NamesShort
<1>3. Found(begin - 1, Len(split))'
  BY <1>1 DEF Found
<1>4. (token = "/" => ~Malformed)'
  BY <1>1 DEF Malformed
<1> QED
  BY <1>1, <1>2, <1>3, <1>4 DEF Outcome

(* The last piece reaches to the end of the text. *)
LEMMA LastPieceOutcome ==
  ASSUME SplitInv, Outcome, pc \in {"only", "last"}, pc' = "done",
         ~TooLong(SubSeq(request, begin, Len(request))),
         split' = Append(split, SubSeq(request, begin, Len(request))),
         starts' = Append(starts, begin), UNCHANGED <<request, token>>,
         pc = "only" \/ request_length' = Len(request) + 1
  PROVE  Outcome'
<1> DEFINE stop == Len(request) + 1
<1>0. PICK n \in Nat : n = Len(split)
  BY DEF SplitInv, TypeInv
<1>1. /\ request \in Seq(STRING) /\ begin \in Nat \ {0} /\ begin <= Len(request) + 1
      /\ NoToken(begin, Len(request)) /\ token \in Tokens /\ pc # "done"
      /\ token = "/" => ~Malformed
  BY DEF SplitInv, TypeInv, Positions, Outcome
<1>2. stop \in begin .. Len(request) + 1 /\ stop - 1 = Len(request)
  BY <1>1
<1>3. token = "/" => stop - begin <= FS_MAXFILENAME
  <2>1. Len(SubSeq(request, begin, stop - 1)) = stop - begin
    BY <1>1, <1>2, Stretch
  <2> QED
    BY <1>1, <1>2, <2>1, TextAssumption DEF TooLong
<1>4. /\ Ordered' /\ NamesShort'
      /\ Len(split') = n + 1 /\ split' # << >>
      /\ \A j \in First .. stop - 1 : request[j] = token => \E k \in 1 .. n : j = After(k)'
  <2> HIDE DEF stop
  <2>1. /\ NoToken(begin, stop - 1) /\ split' = Append(split, SubSeq(request, begin, stop - 1))
        /\ stop = Len(request) + 1
    BY <1>1, <1>2 DEF stop
  <2> QED
    BY <1>0, <1>1, <1>2, <1>3, <2>1, AddInOrder
<1>5. First' = First
  BY DEF First
<1>6. Found(Len(request), Len(split) - 1)'
  <2>1. Len(split') - 1 = n
    BY <1>0, <1>4
  <2> QED
    BY <1>2, <1>4, <1>5, <2>1 DEF Found
<1>7. (token = "/" => ~Malformed)'
  BY <1>1 DEF Malformed
<1>8. ASSUME token = " ", Cuts(request, " ") # {}
      PROVE  request_length' = Len(request) + 1
  <2>0. PICK i : i \in Cuts(request, " ")
    BY <1>8
  <2>1. i \in 1 .. Len(request) /\ request[i] = " "
    BY <1>1, <2>0, CutsAre
  <2>2. CASE pc = "only"
    <3>1. begin = 1
      BY <1>8, <2>2 DEF SplitInv, Positions, Expected, First
    <3> QED
      BY <1>1, <1>8, <2>1, <3>1 DEF NoToken
  <2> QED
    BY <2>2
<1>9. (token = " " /\ Cuts(request, " ") # {} => request_length = Len(request) + 1)'
  BY <1>8 DEF Cuts
<1> QED
  BY <1>4, <1>6, <1>7, <1>9 DEF Outcome

(* A piece that a token ends: the next one begins behind it. *)
LEMMA NextEntryOutcome ==
  ASSUME SplitInv, Outcome, NextEntry
  PROVE  Outcome'
<1>0. PICK n \in Nat : n = Len(split)
  BY DEF SplitInv, TypeInv
<1>1. /\ request \in Seq(STRING) /\ begin \in Nat \ {0} /\ pc = "loop"
      /\ end \in begin .. Len(request) /\ request[end] = token /\ NoToken(begin, end - 1)
      /\ UNCHANGED <<request, token>> /\ pc' \in {"loop", "last"} /\ pc' # "done"
      /\ split' = Append(split, SubSeq(request, begin, end - 1))
      /\ starts' = Append(starts, begin) /\ begin' = end + 1
      /\ ~TooLong(SubSeq(request, begin, end - 1))
      /\ token = "/" => ~Malformed
  BY DEF SplitInv, TypeInv, Positions, NextEntry, NextBegin, Outcome
<1>2. end \in begin .. Len(request) + 1 /\ end <= Len(request)
  BY <1>1
<1>3. token = "/" => end - begin <= FS_MAXFILENAME
  <2>1. Len(SubSeq(request, begin, end - 1)) = end - begin
    BY <1>1, <1>2, Stretch
  <2> QED
    BY <1>1, <2>1, TextAssumption DEF TooLong
<1>4. /\ Ordered' /\ NamesShort' /\ Len(split') = n + 1 /\ After(n + 1)' = end
      /\ \A j \in First .. end - 1 : request[j] = token => \E k \in 1 .. n : j = After(k)'
  BY <1>0, <1>1, <1>2, <1>3, AddInOrder
<1>5. First' = First
  BY <1>1 DEF First
<1>6. Found(begin - 1, Len(split))'
  <2>1. ASSUME NEW j \in First .. end, request[j] = token
        PROVE  \E k \in 1 .. n + 1 : j = After(k)'
    <3>1. First \in Nat
      BY DEF First
    <3>2. j = end \/ j \in First .. end - 1
      BY <1>1, <3>1
    <3>3. n + 1 \in 1 .. n + 1 /\ 1 .. n \subseteq 1 .. n + 1
      OBVIOUS
    <3> QED
      BY <1>4, <2>1, <3>2, <3>3
  <2>2. begin' - 1 = end
    BY <1>1
  <2> QED
    BY <1>1, <1>4, <1>5, <2>1, <2>2 DEF Found
<1>7. (token = "/" => ~Malformed)'
  BY <1>1 DEF Malformed
<1> QED
  BY <1>1, <1>4, <1>6, <1>7 DEF Outcome

(* No step breaks this. *)
LEMMA NextOutcome == SplitInv /\ Outcome /\ [Next]_vars => Outcome'
<1> SUFFICES ASSUME SplitInv, Outcome, [Next]_vars PROVE Outcome'
  OBVIOUS
<1>1. CASE RefusePath
  BY <1>1, RefuseOutcome, MalformedPath DEF RefusePath, SplitInv
<1>2. CASE FindFirst
  BY <1>2, FindFirstOutcome
<1>3. CASE OnlyEntry
  <2>1. /\ split = << >> /\ starts = << >> /\ pc = "only" /\ pc' = "done"
        /\ split' = <<SubSeq(request, begin, Len(request))>> /\ starts' = <<begin>>
        /\ ~TooLong(SubSeq(request, begin, Len(request))) /\ UNCHANGED <<request, token>>
    BY <1>3 DEF OnlyEntry, Return, SplitInv, Positions
  <2>2. /\ split' = Append(split, SubSeq(request, begin, Len(request)))
        /\ starts' = Append(starts, begin)
    BY <2>1
  <2> QED
    BY <2>1, <2>2, LastPieceOutcome
<1>4. CASE NextEntry
  BY <1>4, NextEntryOutcome
<1>5. CASE LastEntry
  BY <1>5, LastPieceOutcome DEF LastEntry, Return
<1>6. CASE RefuseName
  <2>1. /\ request \in Seq(STRING) /\ begin \in Nat \ {0} /\ begin <= Len(request) + 1
        /\ pc \in {"only", "last"} => NoToken(begin, Len(request))
        /\ pc = "loop" => end \in begin .. Len(request) /\ NoToken(begin, end - 1)
    BY <1>6 DEF SplitInv, TypeInv, Positions, RefuseName
  <2>2. PICK stop \in begin .. Len(request) + 1 :
          TooLong(SubSeq(request, begin, stop - 1)) /\ NoToken(begin, stop - 1)
    <3>1. CASE pc \in {"only", "last"}
      <4>1. Len(request) + 1 \in begin .. Len(request) + 1 /\ (Len(request) + 1) - 1 = Len(request)
        BY <2>1
      <4> QED
        BY <1>6, <2>1, <3>1, <4>1 DEF RefuseName
    <3>2. CASE pc = "loop"
      <4>1. end \in begin .. Len(request) + 1
        BY <2>1, <3>2
      <4> QED
        BY <1>6, <2>1, <3>2, <4>1 DEF RefuseName
    <3> QED
      BY <1>6, <3>1, <3>2 DEF RefuseName
  <2>3. token = "/" /\ stop - begin > FS_MAXFILENAME
    <3>1. Len(SubSeq(request, begin, stop - 1)) = stop - begin
      BY <2>1, Stretch
    <3> QED
      BY <2>2, <3>1 DEF TooLong
  <2>4. ~WellFormedPath(request)
    BY <2>2, <2>3, LongName DEF SplitInv
  <2> QED
    BY <1>6, <2>3, <2>4, RefuseOutcome DEF RefuseName
<1>7. CASE UNCHANGED vars
  BY <1>7 DEF vars, Outcome, Ordered, NamesShort, Found, After, First, Malformed,
     WellFormedPath, Cuts
<1> QED
  BY <1>1, <1>2, <1>3, <1>4, <1>5, <1>6, <1>7 DEF Next

-----------------------------------------------------------------------------
(* Increasing numbers are counted by their places. *)
LEMMA CountOrdered ==
  ASSUME NEW m \in Nat, NEW c \in [1 .. m -> Nat],
         \A k, l \in 1 .. m : k < l => c[k] < c[l],
         NEW k \in 0 .. m
  PROVE  Cardinality({c[l] : l \in 1 .. k}) = k
<1> DEFINE T == {c[l] : l \in 1 .. k}
           f == [l \in 1 .. k |-> c[l]]
<1>1. 1 .. k \subseteq 1 .. m
  OBVIOUS
<1>2. f \in [1 .. k -> T]
  OBVIOUS
<1>3. \A x, y \in 1 .. k : f[x] = f[y] => x = y
  <2> SUFFICES ASSUME NEW x \in 1 .. k, NEW y \in 1 .. k, c[x] = c[y] PROVE x = y
    OBVIOUS
  <2>1. x \in 1 .. m /\ y \in 1 .. m /\ c[x] \in Nat /\ c[y] \in Nat
    BY <1>1
  <2>2. ~(x < y) /\ ~(y < x)
    BY <2>1
  <2> QED
    BY <2>1, <2>2
<1>4. \A z \in T : \E x \in 1 .. k : f[x] = z
  OBVIOUS
<1> HIDE DEF T, f
<1>5. f \in Bijection(1 .. k, T)
  BY <1>2, <1>3, <1>4 DEF Bijection, Injection, Surjection, IsInjective
<1>6. IsFiniteSet(1 .. k) /\ Cardinality(1 .. k) = k
  BY FS_Interval
<1>7. Cardinality(T) = Cardinality(1 .. k)
  BY <1>5, <1>6, FS_Bijection DEF ExistsBijection
<1> QED
  BY <1>6, <1>7 DEF T

(* The pieces of a text between m cuts. *)
Between(text, m, c) ==
  [k \in 1 .. m + 1 |-> SubSeq(text, (IF k = 1 THEN 0 ELSE c[k - 1]) + 1,
                                     (IF k = m + 1 THEN Len(text) + 1 ELSE c[k]) - 1)]

(* Cuts in increasing order are those that Pieces chooses one by one. *)
LEMMA PiecesAre ==
  ASSUME NEW text \in Seq(STRING), NEW tok, NEW m \in Nat, NEW c \in [1 .. m -> Nat],
         \A k, l \in 1 .. m : k < l => c[k] < c[l],
         Cuts(text, tok) = {c[k] : k \in 1 .. m}
  PROVE  Pieces(text, tok) = Between(text, m, c)
<1> DEFINE cuts == Cuts(text, tok)
           upto(i) == {j \in cuts : j <= i}
<1>1. ASSUME NEW k \in 1 .. m
      PROVE  Cardinality(upto(c[k])) = k
  <2>1. ASSUME NEW l \in 1 .. m PROVE c[l] <= c[k] <=> l <= k
    <3>1. c[l] \in Nat /\ c[k] \in Nat
      OBVIOUS
    <3>2. l < k => c[l] < c[k]
      OBVIOUS
    <3>3. k < l => c[k] < c[l]
      OBVIOUS
    <3> QED
      BY <3>1, <3>2, <3>3
  <2>2. upto(c[k]) = {c[l] : l \in 1 .. k}
    <3>1. \A i : i \in upto(c[k]) <=> \E l \in 1 .. m : i = c[l] /\ c[l] <= c[k]
      OBVIOUS
    <3>2. \A l : l \in 1 .. k <=> l \in 1 .. m /\ l <= k
      OBVIOUS
    <3> HIDE DEF upto
    <3> QED
      BY <2>1, <3>1, <3>2
  <2>3. k \in 0 .. m
    OBVIOUS
  <2> QED
    BY <2>2, <2>3, CountOrdered
<1>2. Cardinality(cuts) = m
  <2>1. m \in 0 .. m
    OBVIOUS
  <2>2. Cardinality({c[l] : l \in 1 .. m}) = m
    BY <2>1, CountOrdered
  <2> QED
    BY <2>2
<1>3. ASSUME NEW k \in 1 .. m
      PROVE  (CHOOSE i \in cuts : Cardinality(upto(i)) = k) = c[k]
  <2>1. c[k] \in cuts /\ Cardinality(upto(c[k])) = k
    BY <1>1
  <2>2. ASSUME NEW i \in cuts, Cardinality(upto(i)) = k PROVE i = c[k]
    <3>1. PICK l \in 1 .. m : i = c[l]
      OBVIOUS
    <3>2. Cardinality(upto(c[l])) = l
      BY <1>1
    <3> QED
      BY <2>2, <3>1, <3>2
  <2> HIDE DEF upto, cuts
  <2> QED
    BY <2>1, <2>2
<1> DEFINE Cut(k) == CASE k = 0     -> 0
                       [] k = m + 1 -> Len(text) + 1
                       [] OTHER     -> CHOOSE i \in cuts : Cardinality(upto(i)) = k
<1>4. Pieces(text, tok) = [k \in 1 .. m + 1 |-> SubSeq(text, Cut(k - 1) + 1, Cut(k) - 1)]
  <2> DEFINE n == Cardinality(cuts)
             CutOf(k) == CASE k = 0     -> 0
                           [] k = n + 1 -> Len(text) + 1
                           [] OTHER     -> CHOOSE i \in cuts : Cardinality({j \in cuts : j <= i}) = k
  <2>1. Pieces(text, tok) = [k \in 1 .. n + 1 |-> SubSeq(text, CutOf(k - 1) + 1, CutOf(k) - 1)]
    BY Zenon DEF Pieces
  <2>2. \A k : CutOf(k) = Cut(k)
    BY <1>2, Zenon
  <2> HIDE DEF Cut, CutOf
  <2> QED
    BY <1>2, <2>1, <2>2
<1>5. ASSUME NEW k \in 1 .. m + 1
      PROVE  /\ Cut(k - 1) = IF k = 1 THEN 0 ELSE c[k - 1]
             /\ Cut(k) = IF k = m + 1 THEN Len(text) + 1 ELSE c[k]
  <2>1. /\ k # 1 => k - 1 \in 1 .. m /\ k - 1 # 0 /\ k - 1 # m + 1
        /\ k # m + 1 => k \in 1 .. m /\ k # 0
    OBVIOUS
  <2>2. k # 1 => Cut(k - 1) = c[k - 1]
    BY <1>3, <2>1
  <2>3. k # m + 1 => Cut(k) = c[k]
    BY <1>3, <2>1
  <2> QED
    BY <2>2, <2>3
<1> HIDE DEF Cut
<1> QED
  BY <1>4, <1>5 DEF Between

(* The pieces returned are the stretches between the tokens. *)
LEMMA Stretches ==
  ASSUME SplitInv, Outcome, pc = "done", split # << >>, NEW n, n = Len(split)
  PROVE  /\ n \in Nat \ {0} /\ request \in Seq(STRING)
         /\ \A k \in 1 .. n :
              /\ starts[k] = IF k = 1 THEN First ELSE After(k - 1) + 1
              /\ starts[k] \in Nat /\ starts[k] >= First
              /\ After(k) \in starts[k] .. Len(request) + 1
              /\ split[k] = SubSeq(request, starts[k], After(k) - 1)
              /\ Len(split[k]) = After(k) - starts[k]
              /\ IF k = n THEN After(k) = Len(request) + 1
                 ELSE After(k) \in 1 .. Len(request) /\ request[After(k)] = token
         /\ \A k, l \in 1 .. n : k < l => After(k) < After(l)
         /\ \A i \in First .. Len(request) :
              request[i] = token => \E k \in 1 .. n - 1 : i = After(k)
<1>1. /\ request \in Seq(STRING) /\ split \in Seq(Seq(STRING)) /\ starts \in Seq(Nat)
      /\ Len(starts) = n /\ NothingLost
  BY DEF SplitInv, TypeInv, NothingLost
<1>2. n \in Nat \ {0}
  BY <1>1
<1>3. First \in {1, 2}
  BY DEF First
<1>4. \A k \in 1 .. n : starts[k] \in Nat /\ split[k] \in Seq(STRING) /\ After(k) \in Nat
  BY <1>1 DEF After
<1>5. \A k, l \in 1 .. n : k < l => After(k) < After(l)
  BY DEF Outcome, Ordered
<1>6. \A i \in First .. Len(request) : request[i] = token => \E k \in 1 .. n - 1 : i = After(k)
  BY DEF Outcome, Found
<1>7. \A k \in 1 .. n : After(k) >= starts[k]
  BY <1>1, <1>4 DEF After
<1>8. \A k \in 1 .. n : starts[k] = IF k = 1 THEN First ELSE After(k - 1) + 1
  BY <1>1 DEF NothingLost
<1>9. ASSUME NEW k \in 1 .. n PROVE starts[k] >= First
  <2>1. CASE k = 1
    BY <1>2, <1>3, <1>8, <2>1
  <2>2. CASE k # 1
    <3>1. k - 1 \in 1 .. n /\ 1 \in 1 .. n /\ (k - 1 = 1 \/ 1 < k - 1)
      BY <1>2, <2>2
    <3>2. After(1) <= After(k - 1)
      BY <1>4, <1>5, <3>1
    <3>3. First <= After(1)
      BY <1>3, <1>4, <1>7, <1>8, <3>1
    <3>4. starts[k] = After(k - 1) + 1
      BY <1>8, <2>2
    <3> QED
      BY <1>3, <1>4, <3>1, <3>2, <3>3, <3>4
  <2> QED
    BY <2>1, <2>2
<1>10. ASSUME NEW k \in 1 .. n
       PROVE  /\ IF k = n THEN After(k) = Len(request) + 1
                 ELSE After(k) \in 1 .. Len(request) /\ request[After(k)] = token
              /\ After(k) \in starts[k] .. Len(request) + 1
  <2>1. IF k = n THEN After(k) = Len(request) + 1
        ELSE After(k) <= Len(request) /\ request[After(k)] = token
    BY <1>1 DEF NothingLost
  <2>2. starts[k] >= 1 /\ Len(request) \in Nat
    BY <1>1, <1>3, <1>4, <1>9
  <2> QED
    BY <1>4, <1>7, <2>1, <2>2
<1>11. ASSUME NEW k \in 1 .. n
       PROVE  /\ split[k] = SubSeq(request, starts[k], After(k) - 1)
              /\ Len(split[k]) = After(k) - starts[k]
  <2>1. PICK from \in Nat \ {0} : from = starts[k]
    BY <1>3, <1>4, <1>9
  <2>2. PICK stop \in from .. Len(request) + 1 : stop = After(k)
    BY <1>10, <2>1
  <2>3. PICK entry \in Seq(STRING) : entry = split[k]
    BY <1>4
  <2>4. Len(entry) = stop - from
    BY <2>1, <2>2, <2>3 DEF After
  <2>5. \A i \in 1 .. Len(entry) : entry[i] = request[from + i - 1]
    BY <1>1, <2>1, <2>3 DEF NothingLost
  <2>6. entry = SubSeq(request, from, stop - 1)
    BY <1>1, <2>4, <2>5, Stretch
  <2> QED
    BY <2>1, <2>2, <2>3, <2>4, <2>6
<1> QED
  BY <1>1, <1>2, <1>4, <1>5, <1>6, <1>8, <1>9, <1>10, <1>11

(* A request is cut at its spaces. *)
LEMMA SplitsRequest ==
  ASSUME SplitInv, Outcome, pc = "done", split # << >>, token # "/"
  PROVE  split = Pieces(request, token)
<1>0. PICK n \in Nat \ {0} : n = Len(split)
  BY DEF SplitInv, TypeInv
<1> DEFINE c == [k \in 1 .. n - 1 |-> After(k)]
<1>1. First = 1
  BY DEF First
<1>2. /\ request \in Seq(STRING)
      /\ \A k \in 1 .. n :
           /\ starts[k] = IF k = 1 THEN First ELSE After(k - 1) + 1
           /\ split[k] = SubSeq(request, starts[k], After(k) - 1)
           /\ IF k = n THEN After(k) = Len(request) + 1
              ELSE After(k) \in 1 .. Len(request) /\ request[After(k)] = token
      /\ \A k, l \in 1 .. n : k < l => After(k) < After(l)
      /\ \A i \in First .. Len(request) :
           request[i] = token => \E k \in 1 .. n - 1 : i = After(k)
  BY <1>0, Stretches
<1>3. split = [k \in 1 .. n |-> split[k]]
  <2>1. split \in Seq(Seq(STRING))
    BY DEF SplitInv, TypeInv
  <2> QED
    BY <1>0, <2>1
<1>4. 1 .. n - 1 \subseteq 1 .. n /\ \A k \in 1 .. n - 1 : k # n
  OBVIOUS
<1>5. c \in [1 .. n - 1 -> Nat]
  BY <1>2, <1>4
<1>6. \A k, l \in 1 .. n - 1 : k < l => c[k] < c[l]
  BY <1>2, <1>4
<1>7. Cuts(request, token) = {c[k] : k \in 1 .. n - 1}
  <2>1. \A i : i \in Cuts(request, token) <=> i \in 1 .. Len(request) /\ request[i] = token
    BY <1>2, CutsAre
  <2>2. \A i \in 1 .. Len(request) : request[i] = token => \E k \in 1 .. n - 1 : i = c[k]
    BY <1>1, <1>2
  <2>3. \A k \in 1 .. n - 1 : c[k] \in 1 .. Len(request) /\ request[c[k]] = token
    BY <1>2, <1>4
  <2> HIDE DEF c
  <2> QED
    BY <2>1, <2>2, <2>3
<1>8. ASSUME NEW k \in 1 .. n
      PROVE  /\ starts[k] = (IF k = 1 THEN 0 ELSE c[k - 1]) + 1
             /\ After(k) = IF k = n THEN Len(request) + 1 ELSE c[k]
  <2>1. (k # 1 => k - 1 \in 1 .. n - 1) /\ (k # n => k \in 1 .. n - 1)
    OBVIOUS
  <2> QED
    BY <1>1, <1>2, <2>1
<1> HIDE DEF c
<1>9. Pieces(request, token) =
        [k \in 1 .. n |-> SubSeq(request, (IF k = 1 THEN 0 ELSE c[k - 1]) + 1,
                                          (IF k = n THEN Len(request) + 1 ELSE c[k]) - 1)]
  <2>1. PICK m \in Nat : m = n - 1
    OBVIOUS
  <2>2. m + 1 = n
    BY <2>1
  <2>3. /\ request \in Seq(STRING) /\ m \in Nat /\ c \in [1 .. m -> Nat]
        /\ \A k, l \in 1 .. m : k < l => c[k] < c[l]
        /\ Cuts(request, token) = {c[k] : k \in 1 .. m}
    BY <1>2, <1>5, <1>6, <1>7, <2>1
  <2>4. Pieces(request, token) = Between(request, m, c)
    BY ONLY <2>3, PiecesAre
  <2> QED
    BY <2>2, <2>4 DEF Between
<1>10. ASSUME NEW k \in 1 .. n PROVE split[k] = Pieces(request, token)[k]
  <2>1. /\ split[k] = SubSeq(request, starts[k], After(k) - 1)
        /\ starts[k] = (IF k = 1 THEN 0 ELSE c[k - 1]) + 1
        /\ After(k) = IF k = n THEN Len(request) + 1 ELSE c[k]
    BY <1>2, <1>8
  <2> QED
    BY <1>9, <2>1
<1> QED
  BY <1>3, <1>9, <1>10

(* A path is cut at its slashes, and the empty piece ahead of the first is   *)
(* left out.                                                                *)
LEMMA SplitsPath ==
  ASSUME SplitInv, Outcome, pc = "done", split # << >>, token = "/"
  PROVE  split = Tail(Pieces(request, "/"))
<1>0. PICK n \in Nat \ {0} : n = Len(split)
  BY DEF SplitInv, TypeInv
<1> DEFINE c == [k \in 1 .. n |-> IF k = 1 THEN 1 ELSE After(k - 1)]
<1>1. First = 2
  BY DEF First
<1>2. /\ request \in Seq(STRING)
      /\ \A k \in 1 .. n :
           /\ starts[k] = IF k = 1 THEN First ELSE After(k - 1) + 1
           /\ starts[k] \in Nat /\ starts[k] >= First /\ After(k) \in starts[k] .. Len(request) + 1
           /\ split[k] = SubSeq(request, starts[k], After(k) - 1)
           /\ IF k = n THEN After(k) = Len(request) + 1
              ELSE After(k) \in 1 .. Len(request) /\ request[After(k)] = token
      /\ \A k, l \in 1 .. n : k < l => After(k) < After(l)
      /\ \A i \in First .. Len(request) :
           request[i] = token => \E k \in 1 .. n - 1 : i = After(k)
  BY <1>0, Stretches
<1>3. split = [k \in 1 .. n |-> split[k]]
  <2>1. split \in Seq(Seq(STRING))
    BY DEF SplitInv, TypeInv
  <2> QED
    BY <1>0, <2>1
<1>4. request # << >> /\ request[1] = "/" /\ 1 \in 1 .. Len(request)
  <2>1. request # << >> /\ request[1] = "/"
    BY DEF Outcome, Malformed
  <2> QED
    BY <1>2, <2>1
<1>5. \A k \in 1 .. n : After(k) \in Nat /\ After(k) > 1
  <2>1. ASSUME NEW k \in 1 .. n PROVE After(k) \in Nat /\ After(k) > 1
    <3>1. starts[k] \in Nat /\ starts[k] >= 2 /\ After(k) \in starts[k] .. Len(request) + 1
      BY <1>1, <1>2
    <3> QED
      BY <3>1
  <2> QED
    BY <2>1
<1>6. \A k \in 1 .. n : k # 1 => k - 1 \in 1 .. n /\ k - 1 \in 1 .. n - 1 /\ k - 1 # n
  OBVIOUS
<1>7. c \in [1 .. n -> Nat]
  BY <1>5, <1>6
<1>8. ASSUME NEW k \in 1 .. n, NEW l \in 1 .. n, k < l
      PROVE  c[k] < c[l]
  <2>1. l # 1 /\ c[l] = After(l - 1) /\ l - 1 \in 1 .. n
    BY <1>6, <1>8
  <2>2. CASE k = 1
    BY <1>5, <2>1, <2>2
  <2>3. CASE k # 1
    <3>1. c[k] = After(k - 1) /\ k - 1 \in 1 .. n /\ k - 1 < l - 1
      BY <1>6, <1>8, <2>3
    <3> QED
      BY <1>2, <2>1, <3>1
  <2> QED
    BY <2>2, <2>3
<1>9. Cuts(request, token) = {c[k] : k \in 1 .. n}
  <2>1. \A i : i \in Cuts(request, token) <=> i \in 1 .. Len(request) /\ request[i] = token
    BY <1>2, CutsAre
  <2>2. ASSUME NEW i \in 1 .. Len(request), request[i] = token
        PROVE  \E k \in 1 .. n : i = c[k]
    <3>1. CASE i = 1
      BY <3>1
    <3>2. CASE i # 1
      <4>1. PICK k \in 1 .. n - 1 : i = After(k)
        BY <1>1, <1>2, <2>2, <3>2
      <4>2. k + 1 \in 1 .. n /\ k + 1 # 1 /\ (k + 1) - 1 = k
        OBVIOUS
      <4>3. c[k + 1] = After(k)
        BY <4>2
      <4> QED
        BY <4>1, <4>2, <4>3
    <3> QED
      BY <3>1, <3>2
  <2>3. ASSUME NEW k \in 1 .. n
        PROVE  c[k] \in 1 .. Len(request) /\ request[c[k]] = token
    <3>1. CASE k = 1
      BY <1>4, <3>1
    <3>2. CASE k # 1
      BY <1>2, <1>6, <3>2
    <3> QED
      BY <3>1, <3>2
  <2> HIDE DEF c
  <2> QED
    BY <2>1, <2>2, <2>3
<1>10. ASSUME NEW k \in 1 .. n
       PROVE  /\ starts[k] = c[k] + 1
              /\ After(k) = IF k = n THEN Len(request) + 1 ELSE c[k + 1]
  <2>1. starts[k] = c[k] + 1
    BY <1>1, <1>2
  <2>2. k # n => k + 1 \in 1 .. n /\ k + 1 # 1 /\ (k + 1) - 1 = k
    OBVIOUS
  <2>3. k # n => c[k + 1] = After(k)
    BY <2>2
  <2> QED
    BY <1>2, <2>1, <2>3
<1> HIDE DEF c
<1>11. Pieces(request, token) = Between(request, n, c)
  <2>1. /\ request \in Seq(STRING) /\ n \in Nat /\ c \in [1 .. n -> Nat]
        /\ \A k, l \in 1 .. n : k < l => c[k] < c[l]
        /\ Cuts(request, token) = {c[k] : k \in 1 .. n}
    BY <1>2, <1>7, <1>8, <1>9
  <2> QED
    BY ONLY <2>1, PiecesAre
<1>12. Tail(Pieces(request, token)) = [k \in 1 .. n |-> Between(request, n, c)[k + 1]]
  <2>1. ASSUME NEW s \in Seq(Seq(STRING)), Len(s) = n + 1
        PROVE  Tail(s) = [k \in 1 .. n |-> s[k + 1]]
    <3>1. Tail(s) \in Seq(Seq(STRING)) /\ Len(Tail(s)) = n
      BY <2>1
    <3>2. \A k \in 1 .. n : Tail(s)[k] = s[k + 1]
      BY <2>1
    <3>3. PICK t \in Seq(Seq(STRING)) : t = Tail(s)
      BY <3>1
    <3>4. t = [k \in 1 .. n |-> t[k]]
      <4>1. Len(t) = n
        BY <3>1, <3>3
      <4>2. t = [k \in 1 .. Len(t) |-> t[k]]
        BY ElementsAre
      <4> QED
        BY <4>1, <4>2
    <3>5. \A k \in 1 .. n : t[k] = s[k + 1]
      BY <3>2, <3>3
    <3> QED
      BY ONLY <3>3, <3>4, <3>5
  <2>2. PICK s : s = Between(request, n, c)
    OBVIOUS
  <2>3. \A k \in 1 .. n + 1 : s[k] \in Seq(STRING)
    <3>1. ASSUME NEW k \in 1 .. n + 1 PROVE s[k] \in Seq(STRING)
      <4>1. PICK i \in Nat : i = (IF k = 1 THEN 0 ELSE c[k - 1]) + 1 /\ i >= 1
        <5>1. k # 1 => k - 1 \in 1 .. n
          OBVIOUS
        <5> QED
          BY <1>7, <5>1
      <4>2. PICK j \in Int : j = (IF k = n + 1 THEN Len(request) + 1 ELSE c[k]) - 1
                             /\ j <= Len(request)
        <5>1. k # n + 1 => k \in 1 .. n /\ c[k] \in 1 .. Len(request)
          <6>1. k # n + 1 => k \in 1 .. n
            OBVIOUS
          <6>2. k # n + 1 => c[k] \in Cuts(request, token)
            BY <1>9, <6>1
          <6> QED
            BY <1>2, <6>1, <6>2, CutsAre
        <5> QED
          BY <1>2, <5>1
      <4>3. s[k] = SubSeq(request, i, j)
        BY <2>2, <4>1, <4>2 DEF Between
      <4> QED
        BY <1>2, <4>1, <4>2, <4>3
    <3> QED
      BY <3>1
  <2>4. s = [k \in 1 .. n + 1 |-> s[k]]
    BY <2>2 DEF Between
  <2>5. s \in Seq(Seq(STRING)) /\ Len(s) = n + 1
    BY <2>3, <2>4
  <2> QED
    BY <1>11, <2>1, <2>2, <2>5
<1>13. ASSUME NEW k \in 1 .. n PROVE split[k] = Between(request, n, c)[k + 1]
  <2>1. k + 1 \in 1 .. n + 1 /\ k + 1 # 1 /\ (k + 1) - 1 = k /\ (k = n <=> k + 1 = n + 1)
    OBVIOUS
  <2>2. Between(request, n, c)[k + 1] =
          SubSeq(request, c[k] + 1, (IF k = n THEN Len(request) + 1 ELSE c[k + 1]) - 1)
    BY <2>1 DEF Between
  <2>3. split[k] = SubSeq(request, starts[k], After(k) - 1)
    BY <1>2
  <2> QED
    BY <1>10, <2>2, <2>3
<1> QED
  BY <1>3, <1>12, <1>13

(* What the loop cuts to the end is a well-formed path: between two slashes  *)
(* a stretch that is too long would have been a name that is too long.      *)
LEMMA CutsWellFormed ==
  ASSUME SplitInv, Outcome, pc = "done", split # << >>, token = "/"
  PROVE  WellFormedPath(request)
<1>0. PICK n \in Nat \ {0} : n = Len(split)
  BY DEF SplitInv, TypeInv
<1>1. First = 2 /\ FS_MAXFILENAME \in Nat \ {0}
  BY TextAssumption DEF First
<1>2. /\ request \in Seq(STRING)
      /\ \A k \in 1 .. n :
           /\ starts[k] = IF k = 1 THEN First ELSE After(k - 1) + 1
           /\ starts[k] \in Nat /\ starts[k] >= First
           /\ After(k) \in starts[k] .. Len(request) + 1
           /\ Len(split[k]) = After(k) - starts[k]
           /\ IF k = n THEN After(k) = Len(request) + 1
              ELSE After(k) \in 1 .. Len(request) /\ request[After(k)] = token
      /\ \A k, l \in 1 .. n : k < l => After(k) < After(l)
      /\ \A i \in First .. Len(request) :
           request[i] = token => \E k \in 1 .. n - 1 : i = After(k)
  BY <1>0, Stretches
<1>3. \A k \in 1 .. n : After(k) - starts[k] <= FS_MAXFILENAME
  BY <1>0, <1>2 DEF Outcome, NamesShort
<1>4. ~Malformed
  BY DEF Outcome
<1>5. \A i : i \in Cuts(request, "/") <=> i \in 1 .. Len(request) /\ request[i] = "/"
  BY <1>2, CutsAre
<1>6. /\ request # << >> /\ request[1] = "/"
      /\ \A i \in DOMAIN request : request[i] \notin Whitespace
  BY <1>4 DEF Malformed
<1>7. ASSUME NEW i \in Cuts(request, "/")
      PROVE  i < Len(request) /\ request[i + 1] # "/"
  <2>1. i \in 1 .. Len(request) /\ request[i] = "/" /\ Len(request) \in Nat
    BY <1>2, <1>5
  <2>2. i # Len(request)
    BY <1>4, <1>6, <2>1 DEF Malformed
  <2>3. i \in 1 .. Len(request) - 1
    BY <2>1, <2>2
  <2> QED
    BY <1>4, <2>1, <2>3 DEF Malformed
<1>8. ASSUME NEW i \in 1 .. Len(request) - FS_MAXFILENAME,
             \A j \in i .. i + FS_MAXFILENAME : request[j] # "/"
      PROVE  FALSE
  <2>1. i \in 2 .. Len(request) /\ Len(request) \in Nat
    <3>1. i \in i .. i + FS_MAXFILENAME
      BY <1>1
    <3>2. i # 1
      BY <1>6, <1>8, <3>1
    <3> QED
      BY <1>1, <1>2, <3>2
  <2> DEFINE later == {k \in 1 .. n : After(k) >= i}
  <2>2. later \in SUBSET Nat /\ n \in later
    <3>1. n \in 1 .. n /\ After(n) = Len(request) + 1
      BY <1>2
    <3> QED
      BY <2>1, <3>1
  <2>3. PICK k \in later : \A l \in later : k <= l
    BY <2>2, Least
  <2>4. k \in 1 .. n /\ After(k) \in Nat /\ After(k) >= i
    BY <1>2, <2>3
  <2>5. starts[k] <= i
    <3>1. CASE k = 1
      BY <1>1, <1>2, <2>1, <2>4, <3>1
    <3>2. CASE k # 1
      <4>1. k - 1 \in 1 .. n /\ ~(k <= k - 1)
        BY <2>4, <3>2
      <4>2. After(k - 1) \in Nat /\ ~(After(k - 1) >= i)
        BY <1>2, <2>3, <4>1
      <4>3. starts[k] = After(k - 1) + 1
        BY <1>2, <2>4, <3>2
      <4> QED
        BY <2>1, <4>2, <4>3
    <3> QED
      BY <3>1, <3>2
  <2>6. After(k) > i + FS_MAXFILENAME
    <3>1. CASE k = n
      BY <1>1, <1>2, <2>1, <2>4, <3>1
    <3>2. CASE k # n
      <4>1. request[After(k)] = "/"
        BY <1>2, <2>4, <3>2
      <4>2. After(k) \notin i .. i + FS_MAXFILENAME
        BY <1>8, <4>1
      <4> QED
        BY <1>1, <2>1, <2>4, <4>2
    <3> QED
      BY <3>1, <3>2
  <2>7. After(k) - starts[k] <= FS_MAXFILENAME /\ starts[k] \in Nat
    BY <1>2, <1>3, <2>4
  <2> QED
    BY <1>1, <2>1, <2>4, <2>5, <2>6, <2>7
<1>9. \A i \in 1 .. Len(request) - FS_MAXFILENAME :
        \E j \in i .. i + FS_MAXFILENAME : request[j] = "/"
  BY <1>8
<1> QED
  BY <1>6, <1>7, <1>9 DEF WellFormedPath

(* split_request computes Split, for texts and names of any length: the      *)
(* names of a well-formed path and nothing for another one, the pieces      *)
(* between the spaces of a request and where its text ends.                 *)
THEOREM SplitComputes == Spec => []SplitExact
<1>1. SplitInv /\ Outcome => SplitExact
  <2> SUFFICES ASSUME SplitInv, Outcome, pc = "done"
               PROVE  /\ split = Split(request, token)
                      /\ token = " " /\ Cuts(request, " ") # {} =>
                           request_length = Len(request) + 1
    BY DEF SplitExact
  <2>1. token = "/" \/ (token = " " /\ token # "/")
    BY DEF SplitInv, TypeInv, Tokens
  <2>2. CASE split = << >>
    <3>1. token = "/" /\ ~WellFormedPath(request)
      BY <2>2 DEF Outcome
    <3> QED
      BY <2>2, <3>1 DEF Split, PathNames
  <2>3. CASE split # << >> /\ token = "/"
    <3>1. split = Tail(Pieces(request, "/")) /\ WellFormedPath(request)
      BY <2>3, SplitsPath, CutsWellFormed
    <3> QED
      BY <2>3, <3>1 DEF Split, PathNames
  <2>4. CASE split # << >> /\ token = " " /\ token # "/"
    <3>1. split = Pieces(request, token)
      BY <2>4, SplitsRequest
    <3>2. Cuts(request, " ") # {} => request_length = Len(request) + 1
      BY <2>4 DEF Outcome
    <3> QED
      BY <2>4, <3>1, <3>2 DEF Split
  <2> QED
    BY <2>1, <2>2, <2>3, <2>4
<1>2. Init => SplitInv /\ Outcome
  BY InitSplit, InitOutcome
<1>3. SplitInv /\ Outcome /\ [Next]_vars => (SplitInv /\ Outcome)'
  BY NextSplit, NextOutcome
<1> QED
  BY <1>1, <1>2, <1>3, PTL DEF Spec
=============================================================================
