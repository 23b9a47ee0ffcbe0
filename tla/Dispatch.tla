-------------------------------- MODULE Dispatch --------------------------------
(***************************************************************************)
(* A request from the client's call to the handler and back:                *)
(* filesystem::handle_request, the checks on the arguments at the head of   *)
(* each handler, and send_response.                                         *)
(*                                                                         *)
(* The text of a request is a sequence of characters.  Its name, a session, *)
(* a sequence number and the number of a block are one character each:      *)
(* what matters is where the spaces are, and those come from the call's     *)
(* path and type.                                                           *)
(***************************************************************************)
EXTENDS RequestText

CONSTANTS
  Calls,             \* what clients ask for
  FS_MAXPATHNAME, FS_BLOCKSIZE, FS_MAXFILEBLOCKS,
  NewSessionText,    \* the text of the session new_session returns
  StoredBlock,       \* the block a read finds
  Nothing

VARIABLES
  call,       \* the client's call
  valid,      \* whether session_request accepts its session and sequence
  args,       \* request_args
  req_size,
  handled,    \* the request as the handler goes on with it
  response,
  pc

vars == <<call, valid, args, req_size, handled, response, pc>>

-----------------------------------------------------------------------------
(* Numbers as stoul reads them, of one digit. *)
Digits == <<"0", "1", "2", "3">>
IsNumber(text) == Len(text) = 1 /\ \E d \in DOMAIN Digits : Digits[d] = text[1]
Number(text)   == (CHOOSE d \in DOMAIN Digits : Digits[d] = text[1]) - 1

(* What the client library writes itself holds no spaces.  A path is what    *)
(* its caller passes, a type at most one character, a block number a number. *)
ASSUME DispatchAssumption ==
  /\ \A c \in Calls :
       /\ {c.name, c.session, c.sequence} \subseteq STRING \ {" "}
       /\ c.path \in Seq(STRING) /\ c.last \in Seq(STRING) /\ c.data \in Seq(STRING)
       /\ c.name = "FS_CREATE" => Len(c.last) <= 1
       /\ c.name \in {"FS_READBLOCK", "FS_WRITEBLOCK"} => IsNumber(c.last)
  /\ StoredBlock \in Seq(STRING)

(* The client library's requests.  Only a write is followed by data.         *)
Text(call_) ==
  <<call_.name, " ", call_.session, " ", call_.sequence>> \o
  CASE call_.name = "FS_SESSION" -> << >>
    [] call_.name = "FS_DELETE"  -> <<" ">> \o call_.path
    [] OTHER                     -> <<" ">> \o call_.path \o <<" ">> \o call_.last

(* request_size: the text, its terminator and the data. *)
RequestSize == Len(Text(call)) + 1 + Len(call.data)

Init ==
  /\ call \in Calls /\ valid \in BOOLEAN
  /\ args = << >> /\ req_size = 0
  /\ handled = Nothing /\ response = Nothing
  /\ pc = "split"

Close == pc' = "closed" /\ UNCHANGED <<call, valid, args, req_size, handled, response>>

(* Reading the request stops at the terminator, so the data takes no part.   *)
SplitText ==
  /\ pc = "split"
  /\ args' = Split(Text(call), " ")
  /\ req_size' = IF Cuts(Text(call), " ") = {} THEN RequestSize ELSE Len(Text(call)) + 1
  /\ pc' = IF args'[1] = <<"FS_SESSION">> THEN "switch" ELSE "session"
  /\ UNCHANGED <<call, valid, handled, response>>

(* The session is checked, and the sequence number used up, before the path  *)
(* is looked at.  BugPathFits lets the terminator count.                    *)
BugPathFits == Len(args[4]) < FS_MAXPATHNAME
PathFits    == Len(args[4]) <= FS_MAXPATHNAME

CheckSession ==
  /\ pc = "session" /\ valid /\ PathFits
  /\ pc' = "switch"
  /\ UNCHANGED <<call, valid, args, req_size, handled, response>>

RefuseSession == pc = "session" /\ ~(valid /\ PathFits) /\ Close

(* The fourth character of the request selects the handler, the arguments it *)
(* appends and how many there must be; the name must then be the handler's   *)
(* in full.  FS_COPY stands for another name with that character.           *)
Kind(name) ==
  CASE name = "FS_SESSION"                -> "S"
    [] name \in {"FS_CREATE", "FS_COPY"}  -> "C"
    [] name = "FS_DELETE"                 -> "D"
    [] name = "FS_READBLOCK"              -> "R"
    [] name = "FS_WRITEBLOCK"             -> "W"
    [] OTHER                              -> "?"
FullName(kind) ==
  CASE kind = "S" -> "FS_SESSION"   [] kind = "C" -> "FS_CREATE"
    [] kind = "D" -> "FS_DELETE"    [] kind = "R" -> "FS_READBLOCK"
    [] kind = "W" -> "FS_WRITEBLOCK" [] OTHER -> "?"
READ  == <<"0">>
WRITE == <<"1">>

Appended(kind) ==
  CASE kind = "R" -> <<READ>> [] kind = "W" -> <<WRITE, call.data>> [] OTHER -> << >>

(* BugRightCount does not mind more arguments than there should be. *)
BugRightCount(kind, n) ==
  CASE kind = "S" -> n = 3 [] kind = "C" -> n >= 5 [] kind = "D" -> n >= 4
    [] kind = "R" -> n = 6 [] kind = "W" -> n = 7
RightCount(kind, n) ==
  CASE kind = "S" -> n = 3 [] kind = "C" -> n = 5 [] kind = "D" -> n = 4
    [] kind = "R" -> n = 6 [] kind = "W" -> n = 7

(* BugWholeBlock takes any data that fits. *)
BugWholeBlock == RequestSize - req_size <= FS_BLOCKSIZE
WholeBlock    == RequestSize - req_size = FS_BLOCKSIZE

Dispatchable ==
  LET kind == Kind(args[1][1]) IN
  /\ kind # "?"
  /\ kind = "W" => WholeBlock
  /\ RightCount(kind, Len(args \o Appended(kind)))
  /\ args[1] = <<FullName(kind)>>

SelectHandler ==
  /\ pc = "switch" /\ Dispatchable
  /\ args' = args \o Appended(Kind(args[1][1]))
  /\ pc' = "handler"
  /\ UNCHANGED <<call, valid, req_size, handled, response>>

RefuseFormat == pc = "switch" /\ ~Dispatchable /\ Close

(* create_entry and access_entry look at one argument before the walk.  Only *)
(* the first character of the type counts.                                  *)
BugArgumentsGood ==
  /\ args[1] = <<"FS_CREATE">> => args[5] # << >>
  /\ args[1] \in {<<"FS_READBLOCK">>, <<"FS_WRITEBLOCK">>} => IsNumber(args[5])
TypeGood  == args[5] # << >> /\ args[5][1] \in {"d", "f"}
BlockGood == IsNumber(args[5]) /\ Number(args[5]) < FS_MAXFILEBLOCKS
ArgumentsGood ==
  /\ args[1] = <<"FS_CREATE">> => TypeGood
  /\ args[1] \in {<<"FS_READBLOCK">>, <<"FS_WRITEBLOCK">>} => BlockGood

RefuseArguments == pc = "handler" /\ ~ArgumentsGood /\ Close

(* What the handler works on: the arguments at the indices it reads.         *)
Reads == args[1] = <<"FS_READBLOCK">> /\ args[6] = READ
Taken ==
  [name |-> args[1][1],
   path |-> IF args[1] = <<"FS_SESSION">> THEN << >> ELSE PathNames(args[4]),
   last |-> IF args[1] \in {<<"FS_SESSION">>, <<"FS_DELETE">>} THEN << >> ELSE args[5],
   data |-> IF args[1] = <<"FS_WRITEBLOCK">> /\ args[6] = WRITE THEN args[7] ELSE << >>]

Handle ==
  /\ pc = "handler" /\ ArgumentsGood
  /\ handled' = Taken
  /\ pc' = "walk"
  /\ UNCHANGED <<call, valid, args, req_size, response>>

(* A path without names fails in the walk, and so may any other. *)
Fail == pc = "walk" /\ args[1] # <<"FS_SESSION">> /\ Close

(* The handler has succeeded.  new_session replaces the session, and a read  *)
(* appends the block.                                                       *)
Succeed ==
  /\ pc = "walk" /\ (args[1] = <<"FS_SESSION">> \/ handled.path # << >>)
  /\ args' = CASE args[1] = <<"FS_SESSION">> -> [args EXCEPT ![2] = <<NewSessionText>>]
               [] Reads -> Append(args, StoredBlock)
               [] OTHER -> args
  /\ pc' = "respond"
  /\ UNCHANGED <<call, valid, req_size, handled, response>>

(* BugData takes the argument before. *)
BugData == IF Kind(args[1][1]) = "R" THEN args[6] ELSE << >>
Data    == IF Kind(args[1][1]) = "R" THEN args[7] ELSE << >>

SendResponse ==
  /\ pc = "respond"
  /\ response' = [session |-> args[2], sequence |-> args[3], data |-> Data]
  /\ pc' = "closed"
  /\ UNCHANGED <<call, valid, args, req_size, handled>>

Next ==
  \/ SplitText \/ CheckSession \/ RefuseSession \/ SelectHandler \/ RefuseFormat
  \/ RefuseArguments \/ Handle \/ Fail \/ Succeed \/ SendResponse

Spec == Init /\ [][Next]_vars

-----------------------------------------------------------------------------
(* The request the call stands for, if its path is well formed. *)
Asked ==
  [name |-> call.name,
   path |-> IF call.name = "FS_SESSION" THEN << >> ELSE PathNames(call.path),
   last |-> IF call.name \in {"FS_SESSION", "FS_DELETE"} THEN << >> ELSE call.last,
   data |-> IF call.name = "FS_WRITEBLOCK" THEN call.data ELSE << >>]

(* Whatever path and type a client passes, spaces and all, a handler works   *)
(* on what the client asked for or not at all: no text of one call reads    *)
(* as another call.                                                         *)
OnlyWhatWasAsked == handled # Nothing => handled = Asked

(* A call that fs_client.h allows is not refused for its form: a path up to  *)
(* the longest, a type, a block number a file may have, a block of data.    *)
WellFormedCall ==
  /\ call.name \in {"FS_SESSION", "FS_CREATE", "FS_DELETE", "FS_READBLOCK", "FS_WRITEBLOCK"}
  /\ call.name # "FS_SESSION" =>
       valid /\ WellFormedPath(call.path) /\ Len(call.path) <= FS_MAXPATHNAME
  /\ call.name = "FS_CREATE" => call.last \in {<<"f">>, <<"d">>}
  /\ call.name \in {"FS_READBLOCK", "FS_WRITEBLOCK"} => Number(call.last) < FS_MAXFILEBLOCKS
  /\ call.name = "FS_WRITEBLOCK" => Len(call.data) = FS_BLOCKSIZE
WellFormedServed == pc = "closed" /\ WellFormedCall => handled = Asked

(* And no other call gets as far as changing the file system or an answer.   *)
IllFormedRefused == response # Nothing => WellFormedCall

(* The answer names the call's session and sequence number, by which the     *)
(* client recognizes it, or the new session, and carries the block that a   *)
(* read has found and nothing else.                                         *)
AnswerFits ==
  response # Nothing =>
    response = [session  |-> <<IF call.name = "FS_SESSION" THEN NewSessionText ELSE call.session>>,
                sequence |-> <<call.sequence>>,
                data     |-> IF call.name = "FS_READBLOCK" THEN StoredBlock ELSE << >>]
=============================================================================
