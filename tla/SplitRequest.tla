------------------------------ MODULE SplitRequest ------------------------------
(***************************************************************************)
(* The loop of filesystem::split_request.  Positions count from 1, so that  *)
(* npos is 0.                                                               *)
(***************************************************************************)
EXTENDS RequestText

CONSTANTS
  Texts,      \* what is split
  Lengths     \* what the caller passes for request_length

NPos == 0

ASSUME SplitAssumption ==
  /\ \A text \in Texts : text \in Seq(STRING)
  /\ Lengths \subseteq Nat

VARIABLES
  request, token, request_length,     \* the parameters
  begin, end, split,                  \* the locals
  starts,      \* where each piece of split begins in request
  pc

vars == <<request, token, request_length, begin, end, split, starts, pc>>

Init ==
  /\ request \in Texts /\ token \in Tokens /\ request_length \in Lengths
  /\ begin = 1 /\ end = NPos
  /\ split = << >> /\ starts = << >>
  /\ pc = "check"

(* std::string::find *)
Find(text, c, from) ==
  LET hits == {i \in from .. Len(text) : text[i] = c}
  IN  IF hits = {} THEN NPos ELSE CHOOSE i \in hits : \A j \in hits : i <= j

(* front() of an empty string is its terminator.  BugMalformed does without *)
(* the search for two slashes.                                              *)
BugMalformed ==
  \/ ~(request # << >> /\ request[1] = "/")
  \/ request # << >> /\ request[Len(request)] = "/"
  \/ \E i \in DOMAIN request : request[i] \in Whitespace
Malformed ==
  \/ ~(request # << >> /\ request[1] = "/")
  \/ request # << >> /\ request[Len(request)] = "/"
  \/ \E i \in DOMAIN request : request[i] \in Whitespace
  \/ \E i \in 1 .. Len(request) - 1 : request[i] = "/" /\ request[i + 1] = "/"

TooLong(entry) == token = "/" /\ Len(entry) > FS_MAXFILENAME

Return(result, at) == split' = result /\ starts' = at /\ pc' = "done"
Refuse == Return(<< >>, << >>) /\ UNCHANGED <<request, token, request_length, begin, end>>

RefusePath == pc = "check" /\ token = "/" /\ Malformed /\ Refuse

(* The slash a path begins with does not delimit an empty first piece. *)
FindFirst ==
  /\ pc = "check" /\ ~(token = "/" /\ Malformed)
  /\ begin' = IF token = "/" THEN 2 ELSE 1
  /\ end' = Find(request, token, begin')
  /\ pc' = IF end' = NPos THEN "only" ELSE "loop"
  /\ UNCHANGED <<request, token, request_length, split, starts>>

OnlyEntry ==
  LET entry == SubSeq(request, begin, Len(request)) IN
  /\ pc = "only" /\ ~TooLong(entry)
  /\ Return(<<entry>>, <<begin>>)
  /\ UNCHANGED <<request, token, request_length, begin, end>>

(* BugNextBegin leaves the token at the front of the next piece. *)
BugNextBegin == end
NextBegin    == end + 1

NextEntry ==
  LET entry == SubSeq(request, begin, end - 1) IN
  /\ pc = "loop" /\ ~TooLong(entry)
  /\ split' = Append(split, entry)
  /\ starts' = Append(starts, begin)
  /\ begin' = NextBegin
  /\ end' = Find(request, token, begin')
  /\ pc' = IF end' = NPos THEN "last" ELSE "loop"
  /\ UNCHANGED <<request, token, request_length>>

LastEntry ==
  LET entry == SubSeq(request, begin, Len(request)) IN
  /\ pc = "last" /\ ~TooLong(entry)
  /\ request_length' = Len(request) + 1
  /\ Return(Append(split, entry), Append(starts, begin))
  /\ UNCHANGED <<request, token, begin, end>>

(* A name that is too long, wherever it stands in the path. *)
RefuseName ==
  /\ \/ pc \in {"only", "last"} /\ TooLong(SubSeq(request, begin, Len(request)))
     \/ pc = "loop" /\ TooLong(SubSeq(request, begin, end - 1))
  /\ Refuse

Next == RefusePath \/ FindFirst \/ OnlyEntry \/ NextEntry \/ LastEntry \/ RefuseName

Spec == Init /\ [][Next]_vars

-----------------------------------------------------------------------------
(* The loop returns the names of a well-formed path, nothing for any other  *)
(* path, and the pieces between the spaces of a request; request_length is  *)
(* set to the length of the text with its terminator when there is a token. *)
SplitExact ==
  pc = "done" =>
    /\ split = Split(request, token)
    /\ token = " " /\ Cuts(request, " ") # {} => request_length = Len(request) + 1

(* No character is lost, doubled or moved: the pieces are the stretches of   *)
(* the request between one token and the next, from its beginning (behind   *)
(* the first slash of a path) to its end, and hold no token themselves.     *)
First    == IF token = "/" THEN 2 ELSE 1
After(k) == starts[k] + Len(split[k])
NothingLost ==
  /\ Len(starts) = Len(split)
  /\ \A k \in 1 .. Len(split) :
       /\ starts[k] = IF k = 1 THEN First ELSE After(k - 1) + 1
       /\ \A i \in 1 .. Len(split[k]) :
            split[k][i] = request[starts[k] + i - 1] /\ split[k][i] # token
       /\ IF k = Len(split) /\ pc = "done"
          THEN After(k) = Len(request) + 1
          ELSE After(k) <= Len(request) /\ request[After(k)] = token
=============================================================================
