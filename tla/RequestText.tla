------------------------------ MODULE RequestText ------------------------------
(***************************************************************************)
(* Requests as text: what filesystem::split_request promises.  A text is a  *)
(* sequence of characters, and one string stands for each character that    *)
(* the code tells apart.                                                    *)
(***************************************************************************)
EXTENDS Integers, Sequences, FiniteSets

CONSTANT FS_MAXFILENAME

ASSUME TextAssumption == FS_MAXFILENAME \in Nat \ {0}

Tokens     == {"/", " "}
Whitespace == {" ", "tab"}     \* isspace

(* Where a token stands in a text, and the pieces between, empty ones too.   *)
Cuts(text, token) == {i \in DOMAIN text : text[i] = token}
Pieces(text, token) ==
  LET cuts   == Cuts(text, token)
      n      == Cardinality(cuts)
      Cut(k) == CASE k = 0     -> 0
                  [] k = n + 1 -> Len(text) + 1
                  [] OTHER     -> CHOOSE i \in cuts : Cardinality({j \in cuts : j <= i}) = k
  IN  [k \in 1 .. n + 1 |-> SubSeq(text, Cut(k - 1) + 1, Cut(k) - 1)]

(* A path is a sequence of names, each behind a slash, not empty, at most    *)
(* FS_MAXFILENAME characters long and without whitespace.                   *)
WellFormedPath(text) ==
  /\ text # << >> /\ text[1] = "/"
  /\ \A i \in DOMAIN text : text[i] \notin Whitespace
  /\ \A i \in Cuts(text, "/") : i < Len(text) /\ text[i + 1] # "/"
  /\ \A i \in 1 .. Len(text) - FS_MAXFILENAME :
       \E j \in i .. i + FS_MAXFILENAME : text[j] = "/"

PathNames(text) == IF WellFormedPath(text) THEN Tail(Pieces(text, "/")) ELSE << >>

Split(text, token) == IF token = "/" THEN PathNames(text) ELSE Pieces(text, token)
=============================================================================
