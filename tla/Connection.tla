------------------------------- MODULE Connection -------------------------------
(***************************************************************************)
(* The connections of the file server (fs.cc): main reads the users and     *)
(* accepts connections, and request_handler reads one request from each in  *)
(* a thread of its own, has it handled, answers and closes.                 *)
(*                                                                         *)
(* A peer sends a header, byte by byte, and a message, which is sealed with *)
(* a password and has a size.  Peers may stall, close or break off at any   *)
(* time.  Descriptors are numbers the kernel gives out again once closed.   *)
(***************************************************************************)
EXTENDS Integers, Sequences

CONSTANTS
  Connections,      \* connections that peers make; each has its thread
  Lines,            \* main's input: a sequence of names with passwords
  Messages,         \* what peers send: key and size
  Arrivals,         \* what a peer sends: a header, and so much of a message
  FS_MAXUSERNAME, INT_MAXDIGITS, UINT_MAX,
  Digits,           \* the digits: a sequence of characters, zero first
  Blanks,           \* the characters isspace holds of
  STACK_ROOM,       \* bytes that fit on a thread's stack
  MAX_FD,           \* descriptors the process may have open
  Nobody, Garbage

ASSUME ConnectionAssumption ==
  /\ FS_MAXUSERNAME \in Nat /\ INT_MAXDIGITS \in Nat \ {0}
  /\ UINT_MAX \in Nat /\ MAX_FD \in Nat /\ STACK_ROOM \in 0 .. UINT_MAX - 1
  /\ Nobody \notin Connections
  /\ Garbage \notin Messages
  /\ \A m \in Messages : m.size \in 0 .. UINT_MAX
  /\ \A a \in Arrivals : /\ a.header \in Seq(STRING) /\ a.message \in Messages
                         /\ a.sent \in 0 .. a.message.size
  /\ Lines \in Seq([name : Seq(STRING), password : STRING])
  /\ Digits \in Seq(STRING) /\ \A d \in DOMAIN Digits : Digits[d] \notin Blanks

NUL == "NUL"
Descriptors == 1 .. MAX_FD
HeaderSize  == FS_MAXUSERNAME + 1 + INT_MAXDIGITS + 1
UInt        == 0 .. UINT_MAX

(* The header up to its terminator: name, space and size. *)
Terminated(header) == \E i \in DOMAIN header : header[i] = NUL
Spaces(header)     == {i \in DOMAIN header : header[i] = " "}
NameEnd(header)    == CHOOSE i \in Spaces(header) : \A j \in Spaces(header) : i <= j
Name(header)       == SubSeq(header, 1, NameEnd(header) - 1)
SizeText(header)   == SubSeq(header, NameEnd(header) + 1, Len(header) - 1)

(* stoul: blanks, perhaps a sign, and digits; it throws if there are none.   *)
(* The result is stored as an unsigned int.                                 *)
DigitChars == {Digits[d] : d \in DOMAIN Digits}
Value(char) == (CHOOSE d \in DOMAIN Digits : Digits[d] = char) - 1
FirstDigit(text, f) ==
  LET start == IF f > 1 /\ text[f - 1] \in {"+", "-"} THEN f - 1 ELSE f
  IN  text[f] \in DigitChars /\ \A i \in 1 .. start - 1 : text[i] \in Blanks
IsNumber(text) == \E f \in DOMAIN text : FirstDigit(text, f)
LeadingDigits(text) ==
  LET prefix == CHOOSE n \in 1 .. Len(text) :
                  /\ \A i \in 1 .. n : text[i] \in DigitChars
                  /\ n < Len(text) => text[n + 1] \notin DigitChars
      value[n \in 0 .. Len(text)] ==
        IF n = 0 THEN 0 ELSE value[n - 1] * Len(Digits) + Value(text[n])
  IN  value[prefix]
Number(text) ==
  LET f     == CHOOSE f \in DOMAIN text : FirstDigit(text, f)
      value == LeadingDigits(SubSeq(text, f, Len(text)))
  IN  (IF f > 1 /\ text[f - 1] = "-" THEN -value ELSE value) % (UINT_MAX + 1)

(* The size's text is copied to request_size, INT_MAXDIGITS long, before     *)
(* anything looks at its length, and the message is received on the stack.  *)
(* Beyond that what the program does is undefined: no header is considered   *)
(* that, read to its end or broken off anywhere, goes beyond.               *)
Fits(header) ==
  Spaces(header) # {} /\ NameEnd(header) - 1 <= FS_MAXUSERNAME =>
    LET text == SizeText(header) IN
    /\ Len(text) <= INT_MAXDIGITS
    /\ IsNumber(text) => Number(text) <= STACK_ROOM

ASSUME HeadersFit ==
  \A a \in Arrivals : \A n \in 0 .. Len(a.header) :
    LET begun == SubSeq(a.header, 1, n) IN
    n < HeaderSize /\ ~Terminated(begun) => Fits(Append(begun, NUL))

-----------------------------------------------------------------------------
VARIABLES
  line,      \* the next of Lines main reads
  users,     \* filesystem::users: the password of each user
  alive,     \* whether the process is
  socket,    \* the kernel's table: the connection behind each descriptor
  peer,      \* what each peer has yet to send, and the state of its end
  thread,    \* request_handler's locals and its next step
  residue,   \* messages that stand in stack memory of earlier buffers
  handled,   \* the requests passed to handle_request
  answers    \* where the bytes of answers went

vars == <<line, users, alive, socket, peer, thread, residue, handled, answers>>

NoPeer   == [link |-> "none", header |-> << >>, message |-> Garbage, sent |-> 0]
NoThread == [pc |-> "none", client |-> 0, header |-> << >>, username |-> << >>,
             encrypted_size |-> 0, buffer |-> Garbage]

Pcs   == {"none", "header", "parse", "body", "decrypt", "handle",
          "send_header", "send_cipher", "done"}
Links == {"none", "open", "closed", "broken"}
Names == {Lines[i].name : i \in DOMAIN Lines}

(* Types.  What a thread reads fits request_size and its stack.             *)
TypeOK ==
  /\ line \in 1 .. Len(Lines) + 1
  /\ DOMAIN users \subseteq Names
  /\ alive \in BOOLEAN
  /\ socket \in [Descriptors -> Connections \cup {Nobody}]
  /\ \A c \in Connections :
       /\ peer[c].link \in Links /\ peer[c].message \in Messages \cup {Garbage}
       /\ peer[c].sent \in UInt
       /\ thread[c].pc \in Pcs
       /\ thread[c].client \in Descriptors \cup {0}
       /\ Len(thread[c].header) <= HeaderSize
       /\ thread[c].pc = "parse" /\ Terminated(thread[c].header) => Fits(thread[c].header)
       /\ thread[c].encrypted_size \in 0 .. STACK_ROOM
       /\ thread[c].buffer \in Messages \cup {Garbage}
       /\ thread[c].pc \in {"body", "decrypt", "handle"} => thread[c].username \in DOMAIN users
  /\ residue \subseteq Messages
  /\ handled \subseteq [connection : Connections, user : Names, message : Messages]
  /\ answers \subseteq [from : Connections, to : Connections \cup {Nobody}]

Init ==
  /\ line = 1
  /\ users = [name \in {} |-> Garbage]
  /\ alive = TRUE
  /\ socket = [d \in Descriptors |-> Nobody]
  /\ peer = [c \in Connections |-> NoPeer]
  /\ thread = [c \in Connections |-> NoThread]
  /\ residue = {} /\ handled = {} /\ answers = {}

-----------------------------------------------------------------------------
(* A name that is known keeps its password; BugKnown sets it anew. *)
BugKnown(name) == FALSE
Known(name)    == name \in DOMAIN users

AddUser(name, password) ==
  users' = IF Known(name) THEN users
           ELSE [n \in DOMAIN users \cup {name} |-> IF n = name THEN password ELSE users[n]]

(* main: one line of the input. *)
ReadUser ==
  /\ alive /\ line <= Len(Lines)
  /\ line' = line + 1
  /\ AddUser(Lines[line].name, Lines[line].password)
  /\ UNCHANGED <<alive, socket, peer, thread, residue, handled, answers>>

(* The kernel completes a connection on its own. *)
Connect(c) ==
  /\ peer[c].link = "none"
  /\ \E a \in Arrivals :
       peer' = [peer EXCEPT ![c] = [link |-> "open", header |-> a.header,
                                    message |-> a.message, sent |-> a.sent]]
  /\ UNCHANGED <<line, users, alive, socket, thread, residue, handled, answers>>

Waiting(c) == alive /\ line > Len(Lines) /\ peer[c].link # "none" /\ thread[c].pc = "none"
Unused     == {d \in Descriptors : socket[d] = Nobody}

(* accept takes the lowest unused descriptor. *)
Accept(c) ==
  /\ Waiting(c)
  /\ \E d \in Unused :
       /\ \A e \in Unused : d <= e
       /\ socket' = [socket EXCEPT ![d] = c]
       /\ thread' = [thread EXCEPT ![c].pc = "header", ![c].client = d]
  /\ UNCHANGED <<line, users, alive, peer, residue, handled, answers>>

(* The process ends, and the kernel closes what it had open. *)
Die ==
  /\ alive' = FALSE
  /\ socket' = [d \in Descriptors |-> Nobody]
  /\ UNCHANGED <<line, users, peer, thread, residue, handled, answers>>

(* main exits when accept fails, for the lack of a descriptor or because the *)
(* peer has left already.                                                   *)
AcceptFails == alive /\ line > Len(Lines) /\ Die

(* A peer closes its end, or breaks off; what was on its way may be lost.    *)
PeerLeaves(c) ==
  /\ peer[c].link = "open"
  /\ \E link \in {"closed", "broken"} :
       \/ peer' = [peer EXCEPT ![c].link = link]
       \/ peer' = [peer EXCEPT ![c].link = link, ![c].header = << >>, ![c].sent = 0]
  /\ UNCHANGED <<line, users, alive, socket, thread, residue, handled, answers>>

-----------------------------------------------------------------------------
Step(c, from) == alive /\ thread[c].pc = from
Goto(c, to)   == thread' = [thread EXCEPT ![c].pc = to]
Gone(c)       == peer[c].link \in {"closed", "broken"}

(* close(client); return.  The descriptor is anyone's from here.             *)
CloseClient(c) ==
  /\ socket' = [socket EXCEPT ![thread[c].client] = Nobody]
  /\ Goto(c, "done")
Drop(c) == CloseClient(c) /\ UNCHANGED <<line, users, alive, peer, residue, handled, answers>>

(* recv of one byte. *)
ReadByte(c) ==
  /\ Step(c, "header") /\ peer[c].header # << >>
  /\ LET header == Append(thread[c].header, Head(peer[c].header)) IN
     thread' = [thread EXCEPT ![c].header = header,
                  ![c].pc = IF Head(peer[c].header) = NUL \/ Len(header) = HeaderSize
                            THEN "parse" ELSE "header"]
  /\ peer' = [peer EXCEPT ![c].header = Tail(@)]
  /\ UNCHANGED <<line, users, alive, socket, residue, handled, answers>>

(* The peer has gone.  BugHeaderEnds reads again.                            *)
BugHeaderEnds(c) ==
  Step(c, "header") /\ peer[c].header = << >> /\ Gone(c) /\ UNCHANGED vars
HeaderEnds(c) ==
  Step(c, "header") /\ peer[c].header = << >> /\ Gone(c) /\ Drop(c)

(* An error is -1, kept unsigned: not 0.  The byte is as memset left it, the *)
(* terminator, and the header ends there.                                   *)
HeaderFails(c) ==
  /\ Step(c, "header") /\ peer[c].header = << >> /\ peer[c].link = "broken"
  /\ thread' = [thread EXCEPT ![c].header = Append(@, NUL), ![c].pc = "parse"]
  /\ UNCHANGED <<line, users, alive, socket, peer, residue, handled, answers>>

BugGoodHeader(header) ==
  /\ Terminated(header)
  /\ Spaces(header) # {} /\ NameEnd(header) - 1 <= FS_MAXUSERNAME
  /\ IsNumber(SizeText(header))
GoodHeader(header) ==
  /\ Terminated(header)
  /\ Spaces(header) # {} /\ NameEnd(header) - 1 <= FS_MAXUSERNAME
  /\ Name(header) \in DOMAIN users
  /\ IsNumber(SizeText(header))

(* BugRefuseHeader closes and goes on. *)
BugRefuseHeader(c) ==
  /\ Step(c, "parse") /\ ~GoodHeader(thread[c].header)
  /\ socket' = [socket EXCEPT ![thread[c].client] = Nobody]
  /\ Goto(c, "handle")
  /\ UNCHANGED <<line, users, alive, peer, residue, handled, answers>>
RefuseHeader(c) == Step(c, "parse") /\ ~GoodHeader(thread[c].header) /\ Drop(c)

ParseHeader(c) ==
  LET header == thread[c].header IN
  /\ Step(c, "parse") /\ GoodHeader(header)
  /\ thread' = [thread EXCEPT ![c].username = Name(header),
                  ![c].encrypted_size = Number(SizeText(header)), ![c].pc = "body"]
  /\ UNCHANGED <<line, users, alive, socket, peer, residue, handled, answers>>

-----------------------------------------------------------------------------
(* recv of the message, with MSG_WAITALL.  A part of a message is garbage.   *)
ReadBody(c) ==
  LET size  == thread[c].encrypted_size
      whole == size = peer[c].message.size
  IN
  /\ Step(c, "body") /\ peer[c].sent >= size
  /\ thread' = [thread EXCEPT ![c].buffer = IF whole THEN peer[c].message ELSE Garbage,
                  ![c].pc = "decrypt"]
  /\ residue' = IF whole THEN residue \cup {peer[c].message} ELSE residue
  /\ UNCHANGED <<line, users, alive, socket, peer, handled, answers>>

(* The peer has gone before the end.  BugShortBody does not look at the      *)
(* length.                                                                  *)
BugShortBody(c) ==
  /\ Step(c, "body") /\ peer[c].sent < thread[c].encrypted_size /\ Gone(c)
  /\ \E m \in residue \cup {Garbage} :
       thread' = [thread EXCEPT ![c].buffer = m, ![c].pc = "decrypt"]
  /\ UNCHANGED <<line, users, alive, socket, peer, residue, handled, answers>>
ShortBody(c) == Step(c, "body") /\ peer[c].sent < thread[c].encrypted_size /\ Gone(c) /\ Drop(c)

(* -1 again, which is not below any size: the buffer is taken as it is, with *)
(* whatever the thread's stack held.                                        *)
BodyFails(c) ==
  /\ Step(c, "body") /\ peer[c].sent < thread[c].encrypted_size /\ peer[c].sent = 0 /\ peer[c].link = "broken"
  /\ \E m \in residue \cup {Garbage} :
       thread' = [thread EXCEPT ![c].buffer = m, ![c].pc = "decrypt"]
  /\ UNCHANGED <<line, users, alive, socket, peer, residue, handled, answers>>

(* fs_decrypt *)
BugOpens(c) == thread[c].buffer # Garbage
Opens(c) ==
  LET t == thread[c] IN
  t.buffer # Garbage /\ t.buffer.key = users[t.username] /\ t.buffer.size = t.encrypted_size

(* BugCannotDecrypt returns without the close. *)
BugCannotDecrypt(c) ==
  /\ Step(c, "decrypt") /\ ~Opens(c) /\ Goto(c, "done")
  /\ UNCHANGED <<line, users, alive, socket, peer, residue, handled, answers>>
CannotDecrypt(c) == Step(c, "decrypt") /\ ~Opens(c) /\ Drop(c)

Decrypt(c) ==
  /\ Step(c, "decrypt") /\ Opens(c)
  /\ handled' = handled \cup {[connection |-> c, user |-> thread[c].username,
                               message |-> thread[c].buffer]}
  /\ Goto(c, "handle")
  /\ UNCHANGED <<line, users, alive, socket, peer, residue, answers>>

-----------------------------------------------------------------------------
(* handle_request ends with or without an answer. *)
HandleFails(c) == Step(c, "handle") /\ Drop(c)
HandleSucceeds(c) ==
  /\ Step(c, "handle") /\ Goto(c, "send_header")
  /\ UNCHANGED <<line, users, alive, socket, peer, residue, handled, answers>>

(* send_response's two sends, on the descriptor. *)
Send(c) ==
  /\ answers' = answers \cup {[from |-> c, to |-> socket[thread[c].client]]}
  /\ UNCHANGED <<line, users, alive, peer, residue, handled>>
SendHeader(c) == Step(c, "send_header") /\ Send(c) /\ Goto(c, "send_cipher") /\ UNCHANGED socket
SendCipher(c) == Step(c, "send_cipher") /\ Send(c) /\ CloseClient(c)

(* A peer that has gone may make either send raise SIGPIPE, which ends the   *)
(* process.                                                                 *)
BrokenPipe(c) ==
  /\ (Step(c, "send_header") \/ Step(c, "send_cipher"))
  /\ Gone(c) /\ Die

Serve(c) ==
  \/ ReadByte(c) \/ HeaderEnds(c) \/ HeaderFails(c) \/ RefuseHeader(c) \/ ParseHeader(c)
  \/ ReadBody(c) \/ ShortBody(c) \/ BodyFails(c) \/ CannotDecrypt(c) \/ Decrypt(c)
  \/ HandleFails(c) \/ HandleSucceeds(c) \/ SendHeader(c) \/ SendCipher(c) \/ BrokenPipe(c)

(* Nothing is left to do: the process has ended, or main waits. *)
Idle ==
  /\ ~alive \/ \A c \in Connections : thread[c].pc = "done"
  /\ UNCHANGED vars

Next ==
  \/ ReadUser \/ AcceptFails \/ Idle
  \/ \E c \in Connections : Connect(c) \/ Accept(c) \/ PeerLeaves(c) \/ Serve(c)

Spec == Init /\ [][Next]_vars

(* The operating system schedules main and the threads.  Peers owe nothing.  *)
FairSpec ==
  /\ Spec /\ WF_vars(ReadUser)
  /\ \A c \in Connections : WF_vars(Serve(c)) /\ WF_vars(Accept(c))

-----------------------------------------------------------------------------
(* What is handled for a user was sealed with the password that the first    *)
(* line of the input with that name gives, and a peer sent it in full, even  *)
(* when a receive fails and a buffer is used that was never filled.         *)
Password(name) ==
  LET i == CHOOSE i \in DOMAIN Lines :
             Lines[i].name = name /\ \A j \in 1 .. i - 1 : Lines[j].name # name
  IN  Lines[i].password
OnlySealed ==
  \A h \in handled : h.message.key = Password(h.user) /\ h.message \in residue

(* A request is handled on the connection it came on, unless that connection *)
(* has broken and a buffer was used that was never filled.                  *)
OwnRequest ==
  \A h \in handled :
    h.message = peer[h.connection].message \/ peer[h.connection].link = "broken"

(* Descriptors are numbers used again: a descriptor is open exactly while    *)
(* one thread serves the connection behind it, so that none is lost, no     *)
(* answer goes to another peer and no thread closes what is not its own.    *)
Serving(c) == alive /\ thread[c].pc \notin {"none", "done"}
OwnDescriptor ==
  \A c \in Connections, d \in Descriptors :
    socket[d] = c <=> Serving(c) /\ thread[c].client = d
OwnAnswers    == \A a \in answers : a.to = a.from

(* A thread ends once its peer has gone, and so gives its descriptor back;   *)
(* only the peer can keep it waiting.                                       *)
ThreadsEnd ==
  \A c \in Connections : Gone(c) ~> (thread[c].pc \in {"none", "done"} \/ ~alive)

(* A client learns that its request is refused, or has failed, by the end of *)
(* its connection, and stays until then.  Each connection that was accepted *)
(* is closed, on whatever path, unless the client still owes bytes that its *)
(* own header announces.                                                    *)
Owes(c) ==
  \/ thread[c].pc = "header" /\ peer[c].header = << >>
  \/ thread[c].pc = "body" /\ peer[c].sent < thread[c].encrypted_size
Closed(c) == \A d \in Descriptors : socket[d] # c
ClientsHearBack == \A c \in Connections : ~Closed(c) ~> (Closed(c) \/ Owes(c))
=============================================================================
