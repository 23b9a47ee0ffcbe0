--------------------------- MODULE Connection_proofs ---------------------------
(***************************************************************************)
(* Proofs about Connection, for any number of connections, any input of     *)
(* main and whatever peers send.  ConnectionInv follows a descriptor from   *)
(* accept to close, a buffer to fs_decrypt and a password from main's input *)
(* to its use.                                                              *)
(***************************************************************************)
EXTENDS Connection, NaturalsInduction, WellFoundedInduction, SequenceTheorems, TLAPS

(* The shape of the records.  A size is what stoul made of some text.        *)
Characters == STRING \cup {NUL}
Sizes == {Number(SizeText(header)) : header \in Seq(Characters)} \cup {0}
ThreadShape ==
  [pc : Pcs, client : Descriptors \cup {0}, header : Seq(Characters),
   username : Names \cup {<< >>}, encrypted_size : Sizes, buffer : Messages \cup {Garbage}]
PeerShape ==
  [link : Links, header : Seq(Characters), message : Messages \cup {Garbage}, sent : Nat]

Shapes ==
  /\ socket \in [Descriptors -> Connections \cup {Nobody}]
  /\ thread \in [Connections -> ThreadShape]
  /\ peer \in [Connections -> PeerShape]
  /\ residue \subseteq Messages

(* Every thread at work has a descriptor. *)
HasDescriptor == \A c \in Connections : Serving(c) => thread[c].client \in Descriptors

(* users is what the lines read so far say. *)
UsersRead ==
  /\ line \in 1 .. Len(Lines) + 1
  /\ DOMAIN users = {Lines[i].name : i \in 1 .. line - 1}
  /\ \A name \in DOMAIN users : users[name] = Password(name)

(* From the header's check on, a thread has a user.  A buffer holds garbage, *)
(* or a message that once arrived; this one, unless a receive failed.       *)
Buffers ==
  \A c \in Connections :
    /\ thread[c].pc \in {"body", "decrypt"} => thread[c].username \in DOMAIN users
    /\ thread[c].pc = "decrypt" /\ thread[c].buffer # Garbage =>
         /\ thread[c].buffer \in residue
         /\ thread[c].buffer = peer[c].message \/ peer[c].link = "broken"

(* Nothing comes before its connection. *)
Begun ==
  /\ \A c \in Connections :
       /\ thread[c].pc # "none" => peer[c].link # "none"
       /\ peer[c].link # "none" => peer[c].message \in Messages
  /\ \A h \in handled : h.connection \in Connections /\ peer[h.connection].link # "none"

ConnectionInv ==
  /\ Shapes /\ HasDescriptor /\ OwnDescriptor /\ OwnAnswers
  /\ UsersRead /\ Buffers /\ Begun /\ OnlySealed /\ OwnRequest

-----------------------------------------------------------------------------
(* Constants. *)
LEMMA Constants ==
  /\ Nobody \notin Connections /\ Garbage \notin Messages
  /\ Len(Lines) \in Nat /\ DOMAIN Lines = 1 .. Len(Lines)
  /\ \A a \in Arrivals : a.header \in Seq(Characters) /\ a.message \in Messages /\ a.sent \in Nat
<1>1. \A text \in Seq(STRING) : text \in Seq(Characters)
  BY DEF Characters
<1> QED
  BY <1>1, ConnectionAssumption

LEMMA ThreadFields ==
  ASSUME Shapes, NEW c \in Connections
  PROVE  /\ thread[c].pc \in Pcs /\ thread[c].client \in Descriptors \cup {0}
         /\ thread[c].header \in Seq(Characters) /\ thread[c].username \in Names \cup {<< >>}
         /\ thread[c].encrypted_size \in Sizes /\ thread[c].buffer \in Messages \cup {Garbage}
  BY DEF Shapes, ThreadShape

LEMMA PeerFields ==
  ASSUME Shapes, NEW c \in Connections
  PROVE  /\ peer[c].link \in Links /\ peer[c].header \in Seq(Characters)
         /\ peer[c].message \in Messages \cup {Garbage} /\ peer[c].sent \in Nat
  BY DEF Shapes, PeerShape

(* Headers are texts, whatever is taken from one or added to one. *)
LEMMA Texts ==
  ASSUME NEW S, NEW s \in Seq(S), NEW t \in Seq(S)
  PROVE  /\ s # << >> => Head(s) \in S /\ Tail(s) \in Seq(S)
         /\ \A e \in S : Append(t, e) \in Seq(S)
  OBVIOUS

(* A new record for one thread. *)
LEMMA SetThread ==
  ASSUME Shapes, NEW c \in Connections, NEW s \in ThreadShape,
         thread' = [thread EXCEPT ![c] = s]
  PROVE  /\ thread' \in [Connections -> ThreadShape] /\ thread'[c] = s
         /\ \A d \in Connections \ {c} : thread'[d] = thread[d]
  BY DEF Shapes

(* Of a thread, only the next step changes. *)
LEMMA GotoStep ==
  ASSUME Shapes, NEW c \in Connections, NEW to \in Pcs, Goto(c, to)
  PROVE  /\ thread' \in [Connections -> ThreadShape]
         /\ thread'[c].pc = to /\ thread'[c].client = thread[c].client
         /\ thread'[c].username = thread[c].username /\ thread'[c].buffer = thread[c].buffer
         /\ thread'[c].header = thread[c].header
         /\ thread'[c].encrypted_size = thread[c].encrypted_size
         /\ \A d \in Connections \ {c} : thread'[d] = thread[d]
<1> DEFINE s == [thread[c] EXCEPT !.pc = to]
<1>1. s \in ThreadShape /\ thread' = [thread EXCEPT ![c] = s]
  BY DEF Goto, Shapes, ThreadShape
<1>2. /\ s.pc = to /\ s.client = thread[c].client /\ s.username = thread[c].username
      /\ s.buffer = thread[c].buffer /\ s.header = thread[c].header
      /\ s.encrypted_size = thread[c].encrypted_size
  BY DEF Shapes, ThreadShape
<1> HIDE DEF s
<1> QED
  BY <1>1, <1>2, SetThread

(* A thread at work has its descriptor, which is its connection's.           *)
LEMMA OwnsDescriptor ==
  ASSUME ConnectionInv, NEW c \in Connections, Serving(c)
  PROVE  thread[c].client \in Descriptors /\ socket[thread[c].client] = c
  BY DEF ConnectionInv, HasDescriptor, OwnDescriptor

-----------------------------------------------------------------------------
(* The descriptors stay as they are while the threads at work stay at work.  *)
LEMMA KeepDescriptors ==
  ASSUME ConnectionInv, UNCHANGED <<socket, alive>>,
         \A c \in Connections : thread'[c].client = thread[c].client,
         \A c \in Connections : thread'[c].pc \in {"none", "done"} <=> thread[c].pc \in {"none", "done"}
  PROVE  HasDescriptor' /\ OwnDescriptor'
  BY DEF ConnectionInv, HasDescriptor, OwnDescriptor, Serving

(* close gives back the descriptor of this connection and no other. *)
LEMMA CloseDescriptor ==
  ASSUME ConnectionInv, NEW c \in Connections, Serving(c), CloseClient(c), alive' = alive
  PROVE  /\ HasDescriptor' /\ OwnDescriptor'
         /\ socket' \in [Descriptors -> Connections \cup {Nobody}]
<1>1. Shapes /\ OwnDescriptor /\ HasDescriptor
  BY DEF ConnectionInv
<1>2. thread[c].client \in Descriptors /\ socket[thread[c].client] = c
  BY OwnsDescriptor
<1>3. /\ thread'[c].pc = "done" /\ thread'[c].client = thread[c].client
      /\ \A d \in Connections \ {c} : thread'[d] = thread[d]
  BY <1>1, GotoStep DEF CloseClient, Pcs
<1>4. /\ socket' \in [Descriptors -> Connections \cup {Nobody}]
      /\ socket'[thread[c].client] = Nobody
      /\ \A x \in Descriptors \ {thread[c].client} : socket'[x] = socket[x]
  BY <1>1, <1>2 DEF CloseClient, Shapes
<1>5. HasDescriptor'
  BY <1>1, <1>3 DEF HasDescriptor, Serving
<1>6. ASSUME NEW e \in Connections, NEW x \in Descriptors
      PROVE  (socket'[x] = e) <=> (Serving(e)' /\ thread'[e].client = x)
  <2>1. CASE e = c
    <3>1. ~Serving(e)'
      BY <1>3, <2>1 DEF Serving
    <3>2. x # thread[c].client => socket[x] # c
      BY <1>1 DEF OwnDescriptor
    <3> QED
      BY <1>4, <2>1, <3>1, <3>2, Constants
  <2>2. CASE e # c
    <3>1. Serving(e)' <=> Serving(e)
      BY <1>3, <2>2 DEF Serving
    <3>2. (socket[x] = e) <=> (Serving(e) /\ thread[e].client = x)
      BY <1>1 DEF OwnDescriptor
    <3>3. socket'[x] = e <=> socket[x] = e
      BY <1>2, <1>4, <2>2, Constants
    <3> QED
      BY <1>3, <2>2, <3>1, <3>2, <3>3
  <2> QED
    BY <2>1, <2>2
<1>7. OwnDescriptor'
  BY <1>6 DEF OwnDescriptor
<1> QED
  BY <1>4, <1>5, <1>7

(* accept takes a descriptor no connection has. *)
LEMMA AcceptDescriptor ==
  ASSUME ConnectionInv, NEW c \in Connections, Accept(c)
  PROVE  /\ Shapes' /\ HasDescriptor' /\ OwnDescriptor'
         /\ thread'[c].pc = "header" /\ \A d \in Connections \ {c} : thread'[d] = thread[d]
<1>1. Shapes /\ OwnDescriptor /\ HasDescriptor
  BY DEF ConnectionInv
<1>2. PICK x \in Unused : /\ socket' = [socket EXCEPT ![x] = c]
                          /\ thread' = [thread EXCEPT ![c].pc = "header", ![c].client = x]
  BY DEF Accept
<1>3. /\ x \in Descriptors /\ socket[x] = Nobody /\ alive /\ thread[c].pc = "none"
      /\ peer' = peer /\ residue' = residue /\ alive' = alive
  BY <1>2 DEF Accept, Waiting, Unused
<1> DEFINE s == [thread[c] EXCEPT !.pc = "header", !.client = x]
<1>4. s \in ThreadShape /\ thread' = [thread EXCEPT ![c] = s] /\ s.pc = "header" /\ s.client = x
  BY <1>1, <1>2, <1>3 DEF Shapes, ThreadShape, Pcs
<1> HIDE DEF s
<1>5. /\ thread' \in [Connections -> ThreadShape] /\ thread'[c].pc = "header"
      /\ thread'[c].client = x /\ \A d \in Connections \ {c} : thread'[d] = thread[d]
  BY <1>1, <1>4, SetThread
<1>6. /\ socket' \in [Descriptors -> Connections \cup {Nobody}] /\ socket'[x] = c
      /\ \A y \in Descriptors \ {x} : socket'[y] = socket[y]
  BY <1>1, <1>2, <1>3 DEF Shapes
<1>7. Shapes'
  BY <1>1, <1>3, <1>5, <1>6 DEF Shapes
<1>8. HasDescriptor'
  BY <1>1, <1>3, <1>5 DEF HasDescriptor, Serving
<1>9. ASSUME NEW e \in Connections, NEW y \in Descriptors
      PROVE  (socket'[y] = e) <=> (Serving(e)' /\ thread'[e].client = y)
  <2>1. (socket[y] = e) <=> (Serving(e) /\ thread[e].client = y)
    BY <1>1 DEF OwnDescriptor
  <2>2. CASE e = c
    <3>1. ~Serving(e) /\ Serving(e)'
      BY <1>3, <1>5, <2>2 DEF Serving
    <3> QED
      BY <1>5, <1>6, <2>1, <2>2, <3>1
  <2>3. CASE e # c
    <3>1. Serving(e)' <=> Serving(e)
      BY <1>3, <1>5, <2>3 DEF Serving
    <3>2. socket'[y] = e <=> socket[y] = e
      BY <1>3, <1>6, <2>3, Constants
    <3> QED
      BY <1>5, <2>1, <2>3, <3>1, <3>2
  <2> QED
    BY <2>2, <2>3
<1>10. OwnDescriptor'
  BY <1>9 DEF OwnDescriptor
<1> QED
  BY <1>5, <1>7, <1>8, <1>10

-----------------------------------------------------------------------------
(* What a peer sends stays what it is. *)
PeersGoOn ==
  /\ \A c \in Connections : peer'[c].link # "none" => peer'[c].message \in Messages
  /\ \A c \in Connections : peer[c].link # "none" =>
       /\ peer'[c].link # "none" /\ peer'[c].message = peer[c].message
       /\ peer[c].link = "broken" => peer'[c].link = "broken"

(* A step that reads no user and handles nothing. *)
LEMMA QuietStep ==
  ASSUME ConnectionInv, PeersGoOn, UNCHANGED <<line, users, handled>>, residue \subseteq residue',
         \A c \in Connections : thread'[c].pc # "none" => peer'[c].link # "none",
         \A c \in Connections : thread'[c].pc \in {"body", "decrypt"} =>
           thread'[c].username \in DOMAIN users,
         \A c \in Connections : thread'[c].pc = "decrypt" /\ thread'[c].buffer # Garbage =>
           /\ thread'[c].buffer \in residue'
           /\ thread'[c].buffer = peer'[c].message \/ peer'[c].link = "broken"
  PROVE  UsersRead' /\ Buffers' /\ Begun' /\ OnlySealed' /\ OwnRequest'
<1>1. Begun /\ UsersRead /\ OnlySealed /\ OwnRequest
  BY DEF ConnectionInv
<1>2. UsersRead'
  BY <1>1 DEF UsersRead, Password
<1>3. Buffers'
  BY DEF Buffers
<1>4. Begun' /\ OwnRequest'
  BY <1>1 DEF Begun, OwnRequest, PeersGoOn
<1>5. OnlySealed'
  BY <1>1 DEF OnlySealed, Password
<1> QED
  BY <1>2, <1>3, <1>4, <1>5

(* The same when threads but c stand still, and c does not come to a buffer. *)
LEMMA QuietThread ==
  ASSUME ConnectionInv, NEW c \in Connections, UNCHANGED <<line, users, handled, residue, peer>>,
         \A d \in Connections \ {c} : thread'[d] = thread[d],
         thread[c].pc # "none", thread'[c].pc \notin {"body", "decrypt"}
  PROVE  UsersRead' /\ Buffers' /\ Begun' /\ OnlySealed' /\ OwnRequest'
<1>1. PeersGoOn
  BY DEF PeersGoOn, ConnectionInv, Begun
<1>2. \A d \in Connections : thread'[d].pc # "none" => peer'[d].link # "none"
  BY DEF ConnectionInv, Begun
<1>3. \A d \in Connections :
        /\ thread'[d].pc \in {"body", "decrypt"} => thread'[d].username \in DOMAIN users
        /\ thread'[d].pc = "decrypt" /\ thread'[d].buffer # Garbage =>
             /\ thread'[d].buffer \in residue'
             /\ thread'[d].buffer = peer'[d].message \/ peer'[d].link = "broken"
  BY DEF ConnectionInv, Buffers
<1> QED
  BY <1>1, <1>2, <1>3, QuietStep

(* The connection is closed without an answer. *)
LEMMA DropStep ==
  ASSUME ConnectionInv, NEW c \in Connections, Serving(c), Drop(c)
  PROVE  ConnectionInv'
<1>1. Shapes /\ CloseClient(c) /\ UNCHANGED <<line, users, alive, peer, residue, handled, answers>>
  BY DEF Drop, ConnectionInv
<1>2. /\ thread' \in [Connections -> ThreadShape] /\ thread'[c].pc = "done"
      /\ \A d \in Connections \ {c} : thread'[d] = thread[d]
  BY <1>1, GotoStep DEF CloseClient, Pcs
<1>3. /\ HasDescriptor' /\ OwnDescriptor'
      /\ socket' \in [Descriptors -> Connections \cup {Nobody}]
  BY <1>1, CloseDescriptor
<1>4. Shapes'
  BY <1>1, <1>2, <1>3 DEF Shapes
<1>5. UsersRead' /\ Buffers' /\ Begun' /\ OnlySealed' /\ OwnRequest'
  BY <1>1, <1>2, QuietThread DEF Serving
<1>6. OwnAnswers'
  BY <1>1 DEF ConnectionInv, OwnAnswers
<1> QED
  BY <1>3, <1>4, <1>5, <1>6 DEF ConnectionInv

(* The process ends. *)
LEMMA DieStep ==
  ASSUME ConnectionInv, Die
  PROVE  ConnectionInv'
<1>1. /\ alive' = FALSE /\ socket' = [d \in Descriptors |-> Nobody]
      /\ UNCHANGED <<line, users, peer, thread, residue, handled, answers>>
  BY DEF Die
<1>2. Shapes'
  BY <1>1 DEF ConnectionInv, Shapes
<1>3. HasDescriptor' /\ OwnDescriptor'
  BY <1>1, Constants DEF HasDescriptor, OwnDescriptor, Serving
<1>4. /\ OwnAnswers' /\ UsersRead' /\ Buffers' /\ Begun' /\ OnlySealed' /\ OwnRequest'
  BY <1>1 DEF ConnectionInv, OwnAnswers, UsersRead, Buffers, Begun, OnlySealed, OwnRequest, Password
<1> QED
  BY <1>2, <1>3, <1>4 DEF ConnectionInv

(* The steps up to the header's check. *)
LEMMA ReadByteStep ==
  ASSUME ConnectionInv, NEW c \in Connections, ReadByte(c)
  PROVE  ConnectionInv'
<1> DEFINE header == Append(thread[c].header, Head(peer[c].header))
           to == IF Head(peer[c].header) = NUL \/ Len(header) = HeaderSize THEN "parse" ELSE "header"
           s  == [thread[c] EXCEPT !.header = header, !.pc = to]
           p  == [peer[c] EXCEPT !.header = Tail(peer[c].header)]
<1>1. /\ Shapes /\ thread[c].pc = "header" /\ alive /\ peer[c].header # << >>
      /\ thread' = [thread EXCEPT ![c].header = header, ![c].pc = to]
      /\ peer' = [peer EXCEPT ![c].header = Tail(@)]
      /\ UNCHANGED <<line, users, alive, socket, residue, handled, answers>>
  BY DEF ConnectionInv, ReadByte, Step
<1>2. header \in Seq(Characters) /\ Tail(peer[c].header) \in Seq(Characters) /\ to \in {"parse", "header"}
  <2>1. thread[c].header \in Seq(Characters) /\ peer[c].header \in Seq(Characters)
    BY <1>1, ThreadFields, PeerFields
  <2>2. Head(peer[c].header) \in Characters /\ Tail(peer[c].header) \in Seq(Characters)
    BY ONLY <1>1, <2>1, Texts
  <2>3. header \in Seq(Characters)
    BY ONLY <2>1, <2>2, Texts
  <2> QED
    BY <2>2, <2>3
<1> HIDE DEF header, to
<1>3. /\ s \in ThreadShape /\ thread' = [thread EXCEPT ![c] = s]
      /\ s.pc \in {"parse", "header"} /\ s.client = thread[c].client
  BY <1>1, <1>2 DEF Shapes, ThreadShape, Pcs
<1>4. p \in PeerShape /\ peer' = [peer EXCEPT ![c] = p] /\ p.link = peer[c].link
      /\ p.message = peer[c].message
  BY <1>1, <1>2 DEF Shapes, PeerShape
<1> HIDE DEF s, p
<1>5. /\ thread' \in [Connections -> ThreadShape] /\ thread'[c] = s
      /\ \A d \in Connections \ {c} : thread'[d] = thread[d]
  BY <1>1, <1>3, SetThread
<1>6. /\ peer' \in [Connections -> PeerShape]
      /\ \A d \in Connections : peer'[d].link = peer[d].link /\ peer'[d].message = peer[d].message
  BY <1>1, <1>4 DEF Shapes
<1>7. Shapes'
  BY <1>1, <1>5, <1>6 DEF Shapes
<1>8. HasDescriptor' /\ OwnDescriptor'
  BY <1>1, <1>3, <1>5, KeepDescriptors
<1>9. PeersGoOn
  BY <1>6 DEF PeersGoOn, ConnectionInv, Begun
<1>10. \A d \in Connections :
         /\ thread'[d].pc # "none" => peer'[d].link # "none"
         /\ thread'[d].pc \in {"body", "decrypt"} => thread'[d].username \in DOMAIN users
         /\ thread'[d].pc = "decrypt" /\ thread'[d].buffer # Garbage =>
              /\ thread'[d].buffer \in residue'
              /\ thread'[d].buffer = peer'[d].message \/ peer'[d].link = "broken"
  <2> SUFFICES ASSUME NEW d \in Connections
               PROVE  /\ thread'[d].pc # "none" => peer'[d].link # "none"
                      /\ thread'[d].pc \in {"body", "decrypt"} => thread'[d].username \in DOMAIN users
                      /\ thread'[d].pc = "decrypt" /\ thread'[d].buffer # Garbage =>
                           /\ thread'[d].buffer \in residue'
                           /\ thread'[d].buffer = peer'[d].message \/ peer'[d].link = "broken"
    OBVIOUS
  <2>1. CASE d = c
    BY <1>1, <1>3, <1>5, <1>6, <2>1 DEF ConnectionInv, Begun
  <2>2. CASE d # c
    BY <1>1, <1>5, <1>6, <2>2 DEF ConnectionInv, Begun, Buffers
  <2> QED
    BY <2>1, <2>2
<1>11. UsersRead' /\ Buffers' /\ Begun' /\ OnlySealed' /\ OwnRequest'
  BY <1>1, <1>9, <1>10, QuietStep
<1>12. OwnAnswers'
  BY <1>1 DEF ConnectionInv, OwnAnswers
<1> QED
  BY <1>7, <1>8, <1>11, <1>12 DEF ConnectionInv

LEMMA HeaderFailsStep ==
  ASSUME ConnectionInv, NEW c \in Connections, HeaderFails(c)
  PROVE  ConnectionInv'
<1> DEFINE s == [thread[c] EXCEPT !.header = Append(thread[c].header, NUL), !.pc = "parse"]
<1>1. /\ Shapes /\ thread[c].pc = "header"
      /\ thread' = [thread EXCEPT ![c].header = Append(@, NUL), ![c].pc = "parse"]
      /\ UNCHANGED <<line, users, alive, socket, peer, residue, handled, answers>>
  BY DEF ConnectionInv, HeaderFails, Step
<1>2. Append(thread[c].header, NUL) \in Seq(Characters)
  BY <1>1, ThreadFields, Texts DEF Characters
<1>3. /\ s \in ThreadShape /\ thread' = [thread EXCEPT ![c] = s]
      /\ s.pc = "parse" /\ s.client = thread[c].client
  BY <1>1, <1>2 DEF Shapes, ThreadShape, Pcs
<1> HIDE DEF s
<1>4. /\ thread' \in [Connections -> ThreadShape] /\ thread'[c] = s
      /\ \A d \in Connections \ {c} : thread'[d] = thread[d]
  BY <1>1, <1>3, SetThread
<1>5. Shapes'
  BY <1>1, <1>4 DEF Shapes
<1>6. HasDescriptor' /\ OwnDescriptor'
  BY <1>1, <1>3, <1>4, KeepDescriptors
<1>7. UsersRead' /\ Buffers' /\ Begun' /\ OnlySealed' /\ OwnRequest'
  BY <1>1, <1>3, <1>4, QuietThread
<1>8. OwnAnswers'
  BY <1>1 DEF ConnectionInv, OwnAnswers
<1> QED
  BY <1>5, <1>6, <1>7, <1>8 DEF ConnectionInv

-----------------------------------------------------------------------------
(* The header is good: the thread has a user. *)
LEMMA ParseHeaderStep ==
  ASSUME ConnectionInv, NEW c \in Connections, ParseHeader(c)
  PROVE  ConnectionInv'
<1> DEFINE header == thread[c].header
           s == [thread[c] EXCEPT !.username = Name(header),
                   !.encrypted_size = Number(SizeText(header)), !.pc = "body"]
<1>1. /\ Shapes /\ thread[c].pc = "parse"
      /\ thread' = [thread EXCEPT ![c].username = Name(header),
                       ![c].encrypted_size = Number(SizeText(header)), ![c].pc = "body"]
      /\ UNCHANGED <<line, users, alive, socket, peer, residue, handled, answers>>
  BY DEF ConnectionInv, ParseHeader, Step
<1>2. Name(header) \in DOMAIN users /\ header \in Seq(Characters)
  BY <1>1, ThreadFields DEF ParseHeader, GoodHeader
<1>3. Name(header) \in Names /\ Number(SizeText(header)) \in Sizes
  BY <1>2, Constants DEF ConnectionInv, UsersRead, Names, Sizes
<1>4. /\ s \in ThreadShape /\ thread' = [thread EXCEPT ![c] = s]
      /\ s.pc = "body" /\ s.client = thread[c].client /\ s.username = Name(header)
  BY <1>1, <1>3 DEF Shapes, ThreadShape, Pcs
<1> HIDE DEF s
<1>5. /\ thread' \in [Connections -> ThreadShape] /\ thread'[c] = s
      /\ \A d \in Connections \ {c} : thread'[d] = thread[d]
  BY <1>1, <1>4, SetThread
<1>6. Shapes'
  BY <1>1, <1>5 DEF Shapes
<1>7. HasDescriptor' /\ OwnDescriptor'
  BY <1>1, <1>4, <1>5, KeepDescriptors
<1>8. PeersGoOn
  BY <1>1 DEF PeersGoOn, ConnectionInv, Begun
<1>9. \A d \in Connections : thread'[d].pc # "none" => peer'[d].link # "none"
  BY <1>1, <1>4, <1>5 DEF ConnectionInv, Begun
<1>10. \A d \in Connections :
         /\ thread'[d].pc \in {"body", "decrypt"} => thread'[d].username \in DOMAIN users
         /\ thread'[d].pc = "decrypt" /\ thread'[d].buffer # Garbage =>
              /\ thread'[d].buffer \in residue'
              /\ thread'[d].buffer = peer'[d].message \/ peer'[d].link = "broken"
  BY <1>1, <1>2, <1>4, <1>5 DEF ConnectionInv, Buffers
<1>11. UsersRead' /\ Buffers' /\ Begun' /\ OnlySealed' /\ OwnRequest'
  BY <1>1, <1>8, <1>9, <1>10, QuietStep
<1>12. OwnAnswers'
  BY <1>1 DEF ConnectionInv, OwnAnswers
<1> QED
  BY <1>6, <1>7, <1>11, <1>12 DEF ConnectionInv

(* The buffer is filled, or taken as it is. *)
LEMMA FillBuffer ==
  ASSUME ConnectionInv, NEW c \in Connections, NEW m \in Messages \cup {Garbage},
         thread[c].pc = "body",
         thread' = [thread EXCEPT ![c].buffer = m, ![c].pc = "decrypt"],
         residue \subseteq residue', residue' \subseteq Messages,
         m # Garbage => m \in residue' /\ (m = peer[c].message \/ peer[c].link = "broken"),
         UNCHANGED <<line, users, alive, socket, peer, handled, answers>>
  PROVE  ConnectionInv'
<1> DEFINE s == [thread[c] EXCEPT !.buffer = m, !.pc = "decrypt"]
<1>1. Shapes
  BY DEF ConnectionInv
<1>2. /\ s \in ThreadShape /\ thread' = [thread EXCEPT ![c] = s]
      /\ s.pc = "decrypt" /\ s.client = thread[c].client /\ s.username = thread[c].username
      /\ s.buffer = m
  BY <1>1 DEF Shapes, ThreadShape, Pcs
<1> HIDE DEF s
<1>3. /\ thread' \in [Connections -> ThreadShape] /\ thread'[c] = s
      /\ \A d \in Connections \ {c} : thread'[d] = thread[d]
  BY <1>1, <1>2, SetThread
<1>4. Shapes'
  BY <1>1, <1>3 DEF Shapes
<1>5. HasDescriptor' /\ OwnDescriptor'
  BY <1>2, <1>3, KeepDescriptors
<1>6. PeersGoOn
  BY DEF PeersGoOn, ConnectionInv, Begun
<1>7. \A d \in Connections : thread'[d].pc # "none" => peer'[d].link # "none"
  BY <1>2, <1>3 DEF ConnectionInv, Begun
<1>8. \A d \in Connections : thread'[d].pc \in {"body", "decrypt"} => thread'[d].username \in DOMAIN users
  BY <1>2, <1>3 DEF ConnectionInv, Buffers
<1>9. \A d \in Connections : thread'[d].pc = "decrypt" /\ thread'[d].buffer # Garbage =>
        /\ thread'[d].buffer \in residue'
        /\ thread'[d].buffer = peer'[d].message \/ peer'[d].link = "broken"
  BY <1>2, <1>3 DEF ConnectionInv, Buffers
<1>10. UsersRead' /\ Buffers' /\ Begun' /\ OnlySealed' /\ OwnRequest'
  BY <1>6, <1>7, <1>8, <1>9, QuietStep
<1>11. OwnAnswers'
  BY DEF ConnectionInv, OwnAnswers
<1> QED
  BY <1>4, <1>5, <1>10, <1>11 DEF ConnectionInv

LEMMA ReadBodyStep ==
  ASSUME ConnectionInv, NEW c \in Connections, ReadBody(c)
  PROVE  ConnectionInv'
<1> DEFINE whole == thread[c].encrypted_size = peer[c].message.size
           m     == IF whole THEN peer[c].message ELSE Garbage
<1>1. /\ thread[c].pc = "body" /\ thread' = [thread EXCEPT ![c].buffer = m, ![c].pc = "decrypt"]
      /\ residue' = IF whole THEN residue \cup {peer[c].message} ELSE residue
      /\ UNCHANGED <<line, users, alive, socket, peer, handled, answers>>
  BY DEF ReadBody, Step
<1>2. peer[c].message \in Messages /\ residue \subseteq Messages
  BY <1>1 DEF ConnectionInv, Begun, Shapes
<1>3. PICK n \in Messages \cup {Garbage} : n = m
  BY <1>2
<1>4. thread' = [thread EXCEPT ![c].buffer = n, ![c].pc = "decrypt"]
  BY <1>1, <1>3
<1>5. /\ residue \subseteq residue' /\ residue' \subseteq Messages
      /\ n # Garbage => n \in residue' /\ (n = peer[c].message \/ peer[c].link = "broken")
  BY <1>1, <1>2, <1>3
<1> QED
  BY <1>1, <1>4, <1>5, FillBuffer

LEMMA BodyFailsStep ==
  ASSUME ConnectionInv, NEW c \in Connections, BodyFails(c)
  PROVE  ConnectionInv'
<1>1. PICK m \in residue \cup {Garbage} : thread' = [thread EXCEPT ![c].buffer = m, ![c].pc = "decrypt"]
  BY DEF BodyFails
<1>2. /\ thread[c].pc = "body" /\ peer[c].link = "broken" /\ residue' = residue
      /\ UNCHANGED <<line, users, alive, socket, peer, handled, answers>>
  BY DEF BodyFails, Step
<1>3. residue \subseteq Messages /\ m \in Messages \cup {Garbage}
  BY <1>1 DEF ConnectionInv, Shapes
<1> QED
  BY <1>1, <1>2, <1>3, FillBuffer

-----------------------------------------------------------------------------
(* A step of one thread that stays at work and hands nothing on. *)
LEMMA GoOnStep ==
  ASSUME ConnectionInv, NEW c \in Connections, NEW to \in Pcs \ {"none", "body", "decrypt", "done"},
         Serving(c), Goto(c, to), UNCHANGED <<line, users, alive, socket, peer, residue>>
  PROVE  /\ Shapes' /\ HasDescriptor' /\ OwnDescriptor'
         /\ handled' = handled => UsersRead' /\ Buffers' /\ Begun' /\ OnlySealed' /\ OwnRequest'
<1>1. Shapes
  BY DEF ConnectionInv
<1>2. /\ thread' \in [Connections -> ThreadShape]
      /\ thread'[c].pc = to /\ thread'[c].client = thread[c].client
      /\ \A d \in Connections \ {c} : thread'[d] = thread[d]
  BY <1>1, GotoStep
<1>3. Shapes'
  BY <1>1, <1>2 DEF Shapes
<1>4. HasDescriptor' /\ OwnDescriptor'
  BY <1>2, KeepDescriptors DEF Serving
<1>5. ASSUME handled' = handled
      PROVE  UsersRead' /\ Buffers' /\ Begun' /\ OnlySealed' /\ OwnRequest'
  BY <1>2, <1>5, QuietThread DEF Serving
<1> QED
  BY <1>3, <1>4, <1>5

(* What decrypts is handed to handle_request. *)
LEMMA DecryptStep ==
  ASSUME ConnectionInv, NEW c \in Connections, Decrypt(c)
  PROVE  ConnectionInv'
<1> DEFINE h == [connection |-> c, user |-> thread[c].username, message |-> thread[c].buffer]
<1>1. /\ Shapes /\ UsersRead /\ Buffers /\ Begun /\ OnlySealed /\ OwnRequest /\ OwnAnswers
      /\ alive /\ thread[c].pc = "decrypt" /\ Opens(c) /\ Goto(c, "handle")
      /\ handled' = handled \cup {h}
      /\ UNCHANGED <<line, users, alive, socket, peer, residue, answers>>
  BY DEF ConnectionInv, Decrypt, Step
<1>2. Shapes' /\ HasDescriptor' /\ OwnDescriptor'
  BY <1>1, GoOnStep DEF Serving, Pcs
<1>3. /\ thread'[c].pc = "handle" /\ \A d \in Connections \ {c} : thread'[d] = thread[d]
  BY <1>1, GotoStep DEF Pcs
<1>4. /\ h.connection = c /\ h.message \in residue /\ h.message.key = Password(h.user)
      /\ h.message = peer[c].message \/ peer[c].link = "broken"
      /\ peer[c].link # "none"
  BY <1>1 DEF Opens, Buffers, UsersRead, Begun
<1> HIDE DEF h
<1>5. UsersRead' /\ OwnAnswers'
  BY <1>1 DEF UsersRead, OwnAnswers, Password
<1>6. Buffers'
  BY <1>1, <1>3 DEF Buffers
<1>7. Begun'
  BY <1>1, <1>3, <1>4 DEF Begun
<1>8. OnlySealed' /\ OwnRequest'
  BY <1>1, <1>4 DEF OnlySealed, OwnRequest, Password
<1> QED
  BY <1>2, <1>5, <1>6, <1>7, <1>8 DEF ConnectionInv

LEMMA HandleSucceedsStep ==
  ASSUME ConnectionInv, NEW c \in Connections, HandleSucceeds(c)
  PROVE  ConnectionInv'
<1>1. /\ Serving(c) /\ Goto(c, "send_header")
      /\ UNCHANGED <<line, users, alive, socket, peer, residue, handled, answers>>
  BY DEF HandleSucceeds, Step, Serving
<1>2. OwnAnswers'
  BY <1>1 DEF ConnectionInv, OwnAnswers
<1> QED
  BY <1>1, <1>2, GoOnStep DEF ConnectionInv, Pcs

(* What is sent goes to the connection the thread serves. *)
LEMMA SendStep ==
  ASSUME ConnectionInv, NEW c \in Connections, Serving(c), Send(c)
  PROVE  OwnAnswers'
<1>1. socket[thread[c].client] = c
  BY OwnsDescriptor
<1> QED
  BY <1>1 DEF ConnectionInv, Send, OwnAnswers

LEMMA SendHeaderStep ==
  ASSUME ConnectionInv, NEW c \in Connections, SendHeader(c)
  PROVE  ConnectionInv'
<1>1. /\ Serving(c) /\ Send(c) /\ Goto(c, "send_cipher") /\ handled' = handled
      /\ UNCHANGED <<line, users, alive, socket, peer, residue>>
  BY DEF SendHeader, Step, Serving, Send
<1> QED
  BY <1>1, SendStep, GoOnStep DEF ConnectionInv, Pcs

LEMMA SendCipherStep ==
  ASSUME ConnectionInv, NEW c \in Connections, SendCipher(c)
  PROVE  ConnectionInv'
<1>1. /\ Shapes /\ Serving(c) /\ Send(c) /\ CloseClient(c)
      /\ UNCHANGED <<line, users, alive, peer, residue, handled>>
  BY DEF ConnectionInv, SendCipher, Step, Serving, Send
<1>2. /\ thread' \in [Connections -> ThreadShape] /\ thread'[c].pc = "done"
      /\ \A d \in Connections \ {c} : thread'[d] = thread[d]
  BY <1>1, GotoStep DEF CloseClient, Pcs
<1>3. /\ HasDescriptor' /\ OwnDescriptor'
      /\ socket' \in [Descriptors -> Connections \cup {Nobody}]
  BY <1>1, CloseDescriptor
<1>4. Shapes'
  BY <1>1, <1>2, <1>3 DEF Shapes
<1>5. UsersRead' /\ Buffers' /\ Begun' /\ OnlySealed' /\ OwnRequest'
  BY <1>1, <1>2, QuietThread DEF Serving
<1> QED
  BY <1>1, <1>3, <1>4, <1>5, SendStep DEF ConnectionInv

-----------------------------------------------------------------------------
(* The first line with a name is the one add_user keeps. *)
LEMMA FirstLine ==
  ASSUME NEW i \in DOMAIN Lines, \A j \in 1 .. i - 1 : Lines[j].name # Lines[i].name
  PROVE  Password(Lines[i].name) = Lines[i].password
<1> DEFINE first(k) == /\ Lines[k].name = Lines[i].name
                       /\ \A j \in 1 .. k - 1 : Lines[j].name # Lines[i].name
<1>1. i \in 1 .. Len(Lines) /\ first(i)
  BY Constants
<1>2. ASSUME NEW k \in DOMAIN Lines, first(k)
      PROVE  k = i
  <2>1. k \in 1 .. Len(Lines) /\ k \in Int /\ i \in Int
    BY <1>1, Constants
  <2>2. ~(k < i) /\ ~(i < k)
    BY <1>1, <1>2, <2>1
  <2> QED
    BY <2>1, <2>2
<1>3. (CHOOSE k \in DOMAIN Lines : first(k)) = i
  BY <1>1, <1>2
<1> QED
  BY <1>3 DEF Password

LEMMA ReadUserStep ==
  ASSUME ConnectionInv, ReadUser
  PROVE  ConnectionInv'
<1>1. /\ Shapes /\ HasDescriptor /\ OwnDescriptor /\ OwnAnswers /\ UsersRead /\ Buffers /\ Begun
      /\ OnlySealed /\ OwnRequest /\ line <= Len(Lines) /\ line' = line + 1
      /\ UNCHANGED <<alive, socket, peer, thread, residue, handled, answers>>
  BY DEF ConnectionInv, ReadUser
<1> DEFINE name == Lines[line].name
<1>2. line \in DOMAIN Lines /\ line \in Nat /\ line' \in 1 .. Len(Lines) + 1
  BY <1>1, Constants DEF UsersRead
<1>3. \A i \in Nat : i \in 1 .. line' - 1 <=> i \in 1 .. line - 1 \/ i = line
  BY <1>1, <1>2
<1>4. DOMAIN users' = DOMAIN users \cup {name}
  BY DEF ReadUser, AddUser, Known
<1>5. \A n \in DOMAIN users : users'[n] = users[n]
  BY DEF ReadUser, AddUser, Known
<1>6. DOMAIN users' = {Lines[i].name : i \in 1 .. line' - 1}
  BY <1>1, <1>2, <1>3, <1>4 DEF UsersRead
<1>7. users'[name] = Password(name)
  <2>1. CASE name \in DOMAIN users
    BY <1>1, <1>5, <2>1 DEF UsersRead
  <2>2. CASE name \notin DOMAIN users
    <3>1. \A j \in 1 .. line - 1 : Lines[j].name # name
      BY <1>1, <2>2 DEF UsersRead
    <3>2. users'[name] = Lines[line].password
      BY <2>2 DEF ReadUser, AddUser, Known
    <3> QED
      BY <1>2, <3>1, <3>2, FirstLine
  <2> QED
    BY <2>1, <2>2
<1>8. UsersRead'
  <2>1. \A n \in DOMAIN users' : users'[n] = Password(n)
    BY <1>1, <1>4, <1>5, <1>7 DEF UsersRead
  <2> QED
    BY <1>2, <1>6, <2>1 DEF UsersRead, Password
<1>9. Shapes' /\ HasDescriptor' /\ OwnDescriptor' /\ OwnAnswers'
  BY <1>1 DEF Shapes, HasDescriptor, OwnDescriptor, OwnAnswers, Serving
<1>10. Buffers'
  BY <1>1, <1>4 DEF Buffers
<1>11. Begun' /\ OnlySealed' /\ OwnRequest'
  BY <1>1 DEF Begun, OnlySealed, OwnRequest, Password
<1> QED
  BY <1>8, <1>9, <1>10, <1>11 DEF ConnectionInv

-----------------------------------------------------------------------------
(* Threads stand still while peers do as they like. *)
LEMMA PeerStep ==
  ASSUME ConnectionInv, PeersGoOn, peer' \in [Connections -> PeerShape],
         UNCHANGED <<line, users, alive, socket, thread, residue, handled, answers>>
  PROVE  ConnectionInv'
<1>1. Shapes' /\ HasDescriptor' /\ OwnDescriptor' /\ OwnAnswers'
  BY DEF ConnectionInv, Shapes, HasDescriptor, OwnDescriptor, OwnAnswers, Serving
<1>2. \A d \in Connections : thread'[d].pc # "none" => peer'[d].link # "none"
  BY DEF ConnectionInv, Begun, PeersGoOn
<1>3. \A d \in Connections :
        thread'[d].pc \in {"body", "decrypt"} => thread'[d].username \in DOMAIN users
  BY DEF ConnectionInv, Buffers
<1>4. \A d \in Connections : thread'[d].pc = "decrypt" /\ thread'[d].buffer # Garbage =>
        /\ thread'[d].buffer \in residue'
        /\ thread'[d].buffer = peer'[d].message \/ peer'[d].link = "broken"
  BY DEF ConnectionInv, Buffers, Begun, PeersGoOn
<1>5. UsersRead' /\ Buffers' /\ Begun' /\ OnlySealed' /\ OwnRequest'
  BY <1>2, <1>3, <1>4, QuietStep
<1> QED
  BY <1>1, <1>5 DEF ConnectionInv

LEMMA ConnectStep ==
  ASSUME ConnectionInv, NEW c \in Connections, Connect(c)
  PROVE  ConnectionInv'
<1>1. PICK a \in Arrivals :
        peer' = [peer EXCEPT ![c] = [link |-> "open", header |-> a.header,
                                     message |-> a.message, sent |-> a.sent]]
  BY DEF Connect
<1> DEFINE p == [link |-> "open", header |-> a.header, message |-> a.message, sent |-> a.sent]
<1>2. /\ Shapes /\ peer[c].link = "none"
      /\ UNCHANGED <<line, users, alive, socket, thread, residue, handled, answers>>
  BY DEF ConnectionInv, Connect
<1>3. p \in PeerShape /\ p.link = "open" /\ p.message \in Messages
  BY Constants DEF PeerShape, Links
<1>4. peer' = [peer EXCEPT ![c] = p]
  BY <1>1
<1> HIDE DEF p
<1>5. /\ peer' \in [Connections -> PeerShape] /\ peer'[c] = p
      /\ \A d \in Connections \ {c} : peer'[d] = peer[d]
  BY <1>2, <1>3, <1>4 DEF Shapes
<1>6. PeersGoOn
  <2> SUFFICES ASSUME NEW d \in Connections
               PROVE  /\ peer'[d].link # "none" => peer'[d].message \in Messages
                      /\ peer[d].link # "none" =>
                           /\ peer'[d].link # "none" /\ peer'[d].message = peer[d].message
                           /\ peer[d].link = "broken" => peer'[d].link = "broken"
    BY DEF PeersGoOn
  <2>1. CASE d = c
    BY <1>2, <1>3, <1>5, <2>1
  <2>2. CASE d # c
    BY <1>5, <2>2 DEF ConnectionInv, Begun
  <2> QED
    BY <2>1, <2>2
<1> QED
  BY <1>2, <1>5, <1>6, PeerStep

LEMMA PeerLeavesStep ==
  ASSUME ConnectionInv, NEW c \in Connections, PeerLeaves(c)
  PROVE  ConnectionInv'
<1>1. /\ Shapes /\ peer[c].link = "open"
      /\ UNCHANGED <<line, users, alive, socket, thread, residue, handled, answers>>
  BY DEF ConnectionInv, PeerLeaves
<1>2. PICK p \in PeerShape : /\ peer' = [peer EXCEPT ![c] = p]
                             /\ p.link \in {"closed", "broken"} /\ p.message = peer[c].message
  <2>1. PICK link \in {"closed", "broken"} :
          \/ peer' = [peer EXCEPT ![c].link = link]
          \/ peer' = [peer EXCEPT ![c].link = link, ![c].header = << >>, ![c].sent = 0]
    BY DEF PeerLeaves
  <2>2. CASE peer' = [peer EXCEPT ![c].link = link]
    <3> DEFINE p == [peer[c] EXCEPT !.link = link]
    <3>1. p \in PeerShape /\ p.link = link /\ p.message = peer[c].message
      BY <1>1, <2>1 DEF Shapes, PeerShape, Links
    <3>2. peer' = [peer EXCEPT ![c] = p]
      BY <2>2
    <3> QED
      BY <2>1, <3>1, <3>2
  <2>3. CASE peer' = [peer EXCEPT ![c].link = link, ![c].header = << >>, ![c].sent = 0]
    <3> DEFINE p == [peer[c] EXCEPT !.link = link, !.header = << >>, !.sent = 0]
    <3>1. << >> \in Seq(Characters)
      OBVIOUS
    <3>2. p \in PeerShape /\ p.link = link /\ p.message = peer[c].message
      BY <1>1, <2>1, <3>1 DEF Shapes, PeerShape, Links
    <3>3. peer' = [peer EXCEPT ![c] = p]
      BY <2>3, <1>1 DEF Shapes
    <3> QED
      BY <2>1, <3>2, <3>3
  <2> QED
    BY <2>1, <2>2, <2>3
<1>3. /\ peer' \in [Connections -> PeerShape] /\ peer'[c] = p
      /\ \A d \in Connections \ {c} : peer'[d] = peer[d]
  BY <1>1, <1>2 DEF Shapes
<1>4. PeersGoOn
  <2> SUFFICES ASSUME NEW d \in Connections
               PROVE  /\ peer'[d].link # "none" => peer'[d].message \in Messages
                      /\ peer[d].link # "none" =>
                           /\ peer'[d].link # "none" /\ peer'[d].message = peer[d].message
                           /\ peer[d].link = "broken" => peer'[d].link = "broken"
    BY DEF PeersGoOn
  <2>1. CASE d = c
    BY <1>1, <1>2, <1>3, <2>1 DEF ConnectionInv, Begun
  <2>2. CASE d # c
    BY <1>3, <2>2 DEF ConnectionInv, Begun
  <2> QED
    BY <2>1, <2>2
<1> QED
  BY <1>1, <1>3, <1>4, PeerStep

LEMMA AcceptStep ==
  ASSUME ConnectionInv, NEW c \in Connections, Accept(c)
  PROVE  ConnectionInv'
<1>1. /\ Shapes' /\ HasDescriptor' /\ OwnDescriptor'
      /\ thread'[c].pc = "header" /\ \A d \in Connections \ {c} : thread'[d] = thread[d]
  BY AcceptDescriptor
<1>2. peer[c].link # "none" /\ UNCHANGED <<line, users, alive, peer, residue, handled, answers>>
  BY DEF Accept, Waiting
<1>3. PeersGoOn
  BY <1>2 DEF PeersGoOn, ConnectionInv, Begun
<1>4. \A d \in Connections : thread'[d].pc # "none" => peer'[d].link # "none"
  BY <1>1, <1>2 DEF ConnectionInv, Begun
<1>5. \A d \in Connections :
        /\ thread'[d].pc \in {"body", "decrypt"} => thread'[d].username \in DOMAIN users
        /\ thread'[d].pc = "decrypt" /\ thread'[d].buffer # Garbage =>
             /\ thread'[d].buffer \in residue'
             /\ thread'[d].buffer = peer'[d].message \/ peer'[d].link = "broken"
  BY <1>1, <1>2 DEF ConnectionInv, Buffers
<1>6. UsersRead' /\ Buffers' /\ Begun' /\ OnlySealed' /\ OwnRequest'
  BY <1>2, <1>3, <1>4, <1>5, QuietStep
<1>7. OwnAnswers'
  BY <1>2 DEF ConnectionInv, OwnAnswers
<1> QED
  BY <1>1, <1>6, <1>7 DEF ConnectionInv

-----------------------------------------------------------------------------
LEMMA ServeStep ==
  ASSUME ConnectionInv, NEW c \in Connections, Serve(c)
  PROVE  ConnectionInv'
<1>1. CASE ReadByte(c)  BY <1>1, ReadByteStep
<1>2. CASE HeaderEnds(c) \/ RefuseHeader(c) \/ ShortBody(c) \/ CannotDecrypt(c) \/ HandleFails(c)
  <2>1. Serving(c) /\ Drop(c)
    BY <1>2 DEF HeaderEnds, RefuseHeader, ShortBody, CannotDecrypt, HandleFails, Step, Serving
  <2> QED
    BY <2>1, DropStep
<1>3. CASE HeaderFails(c)  BY <1>3, HeaderFailsStep
<1>4. CASE ParseHeader(c)  BY <1>4, ParseHeaderStep
<1>5. CASE ReadBody(c)  BY <1>5, ReadBodyStep
<1>6. CASE BodyFails(c)  BY <1>6, BodyFailsStep
<1>7. CASE Decrypt(c)  BY <1>7, DecryptStep
<1>8. CASE HandleSucceeds(c)  BY <1>8, HandleSucceedsStep
<1>9. CASE SendHeader(c)  BY <1>9, SendHeaderStep
<1>10. CASE SendCipher(c)  BY <1>10, SendCipherStep
<1>11. CASE BrokenPipe(c)  BY <1>11, DieStep DEF BrokenPipe
<1> QED
  BY <1>1, <1>2, <1>3, <1>4, <1>5, <1>6, <1>7, <1>8, <1>9, <1>10, <1>11 DEF Serve

LEMMA StandStill ==
  ASSUME ConnectionInv, UNCHANGED vars
  PROVE  ConnectionInv'
<1>1. UNCHANGED <<line, users, alive, socket, peer, thread, residue, handled, answers>>
  BY DEF vars
<1>2. Shapes' /\ HasDescriptor' /\ OwnDescriptor'
  BY <1>1 DEF ConnectionInv, Shapes, HasDescriptor, OwnDescriptor, Serving
<1>3. /\ OwnAnswers' /\ UsersRead' /\ Buffers' /\ Begun' /\ OnlySealed' /\ OwnRequest'
  BY <1>1 DEF ConnectionInv, OwnAnswers, UsersRead, Buffers, Begun, OnlySealed, OwnRequest, Password
<1> QED
  BY <1>2, <1>3 DEF ConnectionInv

LEMMA InitConnection == Init => ConnectionInv
<1> SUFFICES ASSUME Init
             PROVE  ConnectionInv
  OBVIOUS
<1>1. << >> \in Seq(Characters) /\ 0 \in Sizes
  BY DEF Sizes
<1>2. NoThread \in ThreadShape /\ NoThread.pc = "none"
  BY <1>1 DEF NoThread, ThreadShape, Pcs
<1>3. NoPeer \in PeerShape /\ NoPeer.link = "none"
  BY <1>1 DEF NoPeer, PeerShape, Links
<1>4. Shapes
  BY <1>2, <1>3 DEF Init, Shapes
<1>5. \A c \in Connections : thread[c].pc = "none" /\ peer[c].link = "none"
  BY <1>2, <1>3 DEF Init
<1>6. HasDescriptor /\ OwnDescriptor
  BY <1>5, Constants DEF Init, HasDescriptor, OwnDescriptor, Serving
<1>7. UsersRead
  <2>1. line = 1 /\ DOMAIN users = {}
    BY DEF Init
  <2>2. 1 .. line - 1 = {}
    BY <2>1
  <2> QED
    BY <2>1, <2>2, Constants DEF UsersRead
<1>8. Buffers /\ Begun
  BY <1>5 DEF Init, Buffers, Begun
<1>9. OwnAnswers /\ OnlySealed /\ OwnRequest
  BY DEF Init, OwnAnswers, OnlySealed, OwnRequest
<1> QED
  BY <1>4, <1>6, <1>7, <1>8, <1>9 DEF ConnectionInv

LEMMA NextConnection == ConnectionInv /\ [Next]_vars => ConnectionInv'
<1> SUFFICES ASSUME ConnectionInv, [Next]_vars
             PROVE  ConnectionInv'
  OBVIOUS
<1>1. CASE ReadUser  BY <1>1, ReadUserStep
<1>2. CASE AcceptFails  BY <1>2, DieStep DEF AcceptFails
<1>3. CASE Idle \/ UNCHANGED vars  BY <1>3, StandStill DEF Idle
<1>4. ASSUME NEW c \in Connections, Connect(c) \/ Accept(c) \/ PeerLeaves(c) \/ Serve(c)
      PROVE  ConnectionInv'
  BY <1>4, ConnectStep, AcceptStep, PeerLeavesStep, ServeStep
<1> QED
  BY <1>1, <1>2, <1>3, <1>4 DEF Next

LEMMA AlwaysConnectionInv == Spec => []ConnectionInv
<1> QED
  BY InitConnection, NextConnection, PTL DEF Spec

-----------------------------------------------------------------------------
(* A set of natural numbers has a least element. *)
LEMMA Least ==
  ASSUME NEW T \in SUBSET Nat, T # {}
  PROVE  \E x \in T : \A y \in T : x <= y
<1> DEFINE R == OpToRel(<, Nat)
<1>1. IsWellFoundedOn(R, Nat)
  BY NatLessThanWellFounded
<1>2. \A x, y \in Nat : y < x => <<y, x>> \in R
  BY DEF OpToRel
<1> HIDE DEF R
<1>3. PICK x \in T : \A y \in T : ~(<<y, x>> \in R)
  BY <1>1, WFMin
<1>4. SUFFICES ASSUME NEW y \in T PROVE x <= y
  BY <1>3
<1>5. x \in Nat /\ y \in Nat
  OBVIOUS
<1>6. ~(<<y, x>> \in R)
  BY <1>3
<1>7. ~(y < x)
  BY ONLY <1>5, <1>6, <1>2, Zenon
<1> QED
  BY ONLY <1>5, <1>7

(* stoul reads as many digits as there are. *)
Prefix(text, n) ==
  /\ \A i \in 1 .. n : text[i] \in DigitChars
  /\ n < Len(text) => text[n + 1] \notin DigitChars
Values(text) ==
  LET value[n \in 0 .. Len(text)] ==
        IF n = 0 THEN 0 ELSE value[n - 1] * Len(Digits) + Value(text[n])
  IN  value
Valued(text, n, g) ==
  g = [k \in 0 .. n |-> IF k = 0 THEN 0 ELSE g[k - 1] * Len(Digits) + Value(text[k])]

LEMMA ValuesDefined ==
  ASSUME NEW text \in Seq(Characters)
  PROVE  Valued(text, Len(text), Values(text))
<1>1. \A n \in Nat : \E g : Valued(text, n, g)
  <2> DEFINE Bad == {n \in Nat : ~ \E g : Valued(text, n, g)}
  <2>1. SUFFICES ASSUME Bad # {} PROVE FALSE
    OBVIOUS
  <2>2. PICK n \in Bad : \A m \in Bad : n <= m
    BY <2>1, Least
  <2>3. n \in Nat /\ n # 0
    <3>1. Valued(text, 0, [k \in {0} |-> 0])
      BY DEF Valued
    <3> QED
      BY <3>1
  <2>4. PICK g : Valued(text, n - 1, g)
    BY <2>2, <2>3
  <2> DEFINE h == [k \in 0 .. n |-> IF k = n THEN g[n - 1] * Len(Digits) + Value(text[n]) ELSE g[k]]
  <2>5. \A k \in 0 .. n : h[k] = IF k = 0 THEN 0 ELSE h[k - 1] * Len(Digits) + Value(text[k])
    BY <2>3, <2>4 DEF Valued
  <2>6. Valued(text, n, h)
    BY <2>5 DEF Valued
  <2> QED
    BY <2>6
<1>2. Len(text) \in Nat
  OBVIOUS
<1>3. PICK g : Valued(text, Len(text), g)
  BY <1>1, <1>2
<1> QED
  BY <1>3 DEF Valued, Values

LEMMA DigitValue ==
  ASSUME NEW char \in DigitChars
  PROVE  Value(char) \in Nat
<1>1. PICK d \in DOMAIN Digits : Digits[d] = char
  BY DEF DigitChars
<1>2. (CHOOSE e \in DOMAIN Digits : Digits[e] = char) \in DOMAIN Digits
  BY <1>1
<1>3. DOMAIN Digits = 1 .. Len(Digits) /\ Len(Digits) \in Nat
  BY ConnectionAssumption
<1> QED
  BY <1>2, <1>3 DEF Value

LEMMA PrefixExists ==
  ASSUME NEW text \in Seq(Characters), text # << >>, text[1] \in DigitChars
  PROVE  \E n \in 1 .. Len(text) : Prefix(text, n)
<1> DEFINE Others == {i \in 1 .. Len(text) : text[i] \notin DigitChars}
<1>1. Len(text) \in Nat /\ 1 \in 1 .. Len(text) /\ text[1] \in DigitChars
  OBVIOUS
<1>2. CASE Others = {}
  BY <1>1, <1>2 DEF Prefix
<1>3. CASE Others # {}
  <2>0. Others \in SUBSET Nat
    OBVIOUS
  <2>1. PICK i \in Others : \A j \in Others : i <= j
    BY ONLY <1>3, <2>0, Least
  <2>2. i \in Nat /\ i - 1 \in 1 .. Len(text) /\ (i - 1) + 1 = i
    BY <1>1, <2>1
  <2>3. \A j \in 1 .. i - 1 : text[j] \in DigitChars
    BY <1>1, <2>1
  <2>4. Prefix(text, i - 1)
    BY <2>1, <2>2, <2>3 DEF Prefix
  <2> QED
    BY <2>2, <2>4
<1> QED
  BY <1>2, <1>3

LEMMA LeadingDigitsType ==
  ASSUME NEW text \in Seq(Characters), text # << >>, text[1] \in DigitChars
  PROVE  LeadingDigits(text) \in Nat
<1> DEFINE prefix == CHOOSE n \in 1 .. Len(text) : Prefix(text, n)
           v == Values(text)
<1>1. prefix \in 1 .. Len(text) /\ Prefix(text, prefix)
  BY PrefixExists
<1>2. \A k \in 0 .. Len(text) : v[k] = IF k = 0 THEN 0 ELSE v[k - 1] * Len(Digits) + Value(text[k])
  BY ValuesDefined DEF Valued
<1>3. LeadingDigits(text) = v[prefix]
  BY DEF LeadingDigits, Prefix, Values
<1> HIDE DEF prefix, v
<1>4. v[prefix] \in Nat
  <2> DEFINE Bad == {n \in 0 .. prefix : v[n] \notin Nat}
  <2>1. SUFFICES ASSUME Bad # {} PROVE FALSE
    BY <1>1
  <2>0. Bad \in SUBSET Nat
    BY <1>1
  <2>2. PICK n \in Bad : \A m \in Bad : n <= m
    BY ONLY <2>0, <2>1, Least
  <2>3. n \in 1 .. prefix /\ n - 1 \notin Bad /\ n \in 1 .. Len(text)
    BY <1>1, <1>2, <2>2
  <2>4. v[n - 1] \in Nat
    BY <1>1, <2>3
  <2>5. Value(text[n]) \in Nat
    BY <1>1, <2>3, DigitValue DEF Prefix
  <2>6. v[n] = v[n - 1] * Len(Digits) + Value(text[n])
    BY <1>2, <2>3
  <2>7. Len(Digits) \in Nat
    BY ConnectionAssumption
  <2>8. v[n - 1] * Len(Digits) \in Nat
    BY ONLY <2>4, <2>7
  <2> QED
    BY ONLY <2>2, <2>5, <2>6, <2>8
<1> QED
  BY <1>3, <1>4

(* What stoul returns is stored in an unsigned int. *)
LEMMA NumberType ==
  ASSUME NEW text \in Seq(Characters), IsNumber(text)
  PROVE  Number(text) \in UInt
<1> DEFINE f == CHOOSE f \in DOMAIN text : FirstDigit(text, f)
           rest == SubSeq(text, f, Len(text))
           value == LeadingDigits(rest)
<1>1. Number(text) = (IF f > 1 /\ text[f - 1] = "-" THEN -value ELSE value) % (UINT_MAX + 1)
  BY DEF Number
<1>2. f \in DOMAIN text /\ FirstDigit(text, f)
  BY DEF IsNumber
<1> HIDE DEF f
<1>3. f \in 1 .. Len(text) /\ Len(text) \in Nat
  BY <1>2
<1>4. rest \in Seq(Characters) /\ rest # << >> /\ rest[1] = text[f]
  <2>1. \A i \in f .. Len(text) : text[i] \in Characters
    BY <1>3
  <2>2. /\ rest \in Seq(Characters) /\ Len(rest) = Len(text) - f + 1
        /\ \A i \in 1 .. Len(text) - f + 1 : rest[i] = text[f + i - 1]
    BY <1>3, <2>1, SubSeqProperties
  <2>3. 1 \in 1 .. Len(text) - f + 1 /\ f + 1 - 1 = f
    BY <1>3
  <2>4. rest[1] = text[f]
    BY <2>2, <2>3
  <2>5. Len(rest) # 0
    BY <1>3, <2>2
  <2>6. ASSUME rest = << >>
        PROVE  FALSE
    <3>1. Len(rest) = Len(<< >>)
      BY <2>6, Zenon
    <3> QED
      BY <2>5, <3>1
  <2> QED
    BY <2>2, <2>4, <2>6
<1>5. value \in Nat
  BY <1>2, <1>4, LeadingDigitsType DEF FirstDigit
<1> HIDE DEF value
<1>6. PICK k \in Int : Number(text) = k % (UINT_MAX + 1)
  BY <1>1, <1>5
<1> QED
  BY <1>6, ConnectionAssumption DEF UInt

-----------------------------------------------------------------------------
(* What TypeOK asks besides the shapes.  A header has room for one more byte *)
(* while it is being read.                                                  *)
Sized(t) ==
  /\ Len(t.header) <= HeaderSize
  /\ t.pc = "none" => t.header = << >>
  /\ t.pc = "header" => Len(t.header) < HeaderSize
  /\ t.encrypted_size \in 0 .. STACK_ROOM
Typed ==
  /\ alive \in BOOLEAN
  /\ \A c \in Connections :
       /\ Sized(thread[c]) /\ peer[c].sent \in UInt
       /\ thread[c].pc = "handle" => thread[c].username \in DOMAIN users
  /\ handled \subseteq [connection : Connections, user : Names, message : Messages]
  /\ answers \subseteq [from : Connections, to : Connections \cup {Nobody}]

(* What a thread has read of a header is the beginning of one that a peer    *)
(* sent, or that with a terminator; the peer still has the rest or nothing.  *)
HeaderRead(t, p) ==
  /\ t.pc = "none" /\ p.link # "none" =>
       \E a \in Arrivals : p.header \in {<< >>, a.header}
  /\ t.pc = "header" =>
       \E a \in Arrivals : \E n \in 0 .. Len(a.header) :
         /\ n < HeaderSize /\ t.header = SubSeq(a.header, 1, n) /\ ~Terminated(t.header)
         /\ p.header \in {<< >>, SubSeq(a.header, n + 1, Len(a.header))}
  /\ t.pc = "parse" /\ Terminated(t.header) => Fits(t.header)
HeadersRead == \A c \in Connections : HeaderRead(thread[c], peer[c])

LEMMA TypeFollows == ConnectionInv /\ Typed /\ HeadersRead => TypeOK
<1> SUFFICES ASSUME ConnectionInv, Typed, HeadersRead
             PROVE  TypeOK
  OBVIOUS
<1>1. Shapes /\ UsersRead /\ Buffers
  BY DEF ConnectionInv
<1>2. line \in 1 .. Len(Lines) + 1 /\ DOMAIN users \subseteq Names
  BY <1>1, Constants DEF UsersRead, Names
<1>3. ASSUME NEW c \in Connections
      PROVE  /\ peer[c].link \in Links /\ peer[c].message \in Messages \cup {Garbage}
             /\ peer[c].sent \in UInt
             /\ thread[c].pc \in Pcs
             /\ thread[c].client \in Descriptors \cup {0}
             /\ Len(thread[c].header) <= HeaderSize
             /\ thread[c].encrypted_size \in 0 .. STACK_ROOM
             /\ thread[c].buffer \in Messages \cup {Garbage}
             /\ thread[c].pc = "parse" /\ Terminated(thread[c].header) => Fits(thread[c].header)
             /\ thread[c].pc \in {"body", "decrypt", "handle"} => thread[c].username \in DOMAIN users
  BY <1>1, ThreadFields, PeerFields DEF Typed, Sized, Buffers, HeadersRead, HeaderRead
<1> QED
  BY <1>1, <1>2, <1>3 DEF TypeOK, Typed, Shapes

(* A step of one thread, or of none. *)
LEMMA ThreadTyped ==
  ASSUME Typed, NEW c \in Connections,
         \A d \in Connections \ {c} : thread'[d] = thread[d],
         Sized(thread'[c]), thread'[c].pc = "handle" => thread'[c].username \in DOMAIN users,
         \A d \in Connections : peer'[d].sent = peer[d].sent,
         alive' = alive, users' = users,
         handled' \subseteq [connection : Connections, user : Names, message : Messages],
         answers' \subseteq [from : Connections, to : Connections \cup {Nobody}]
  PROVE  Typed'
<1> SUFFICES ASSUME NEW d \in Connections
             PROVE  /\ Sized(thread[d])' /\ peer'[d].sent \in UInt
                    /\ thread'[d].pc = "handle" => thread'[d].username \in DOMAIN users'
  BY DEF Typed
<1>1. CASE d = c
  BY <1>1 DEF Typed, Sized
<1>2. CASE d # c
  BY <1>2 DEF Typed, Sized
<1> QED
  BY <1>1, <1>2

(* A step that only sends a thread on to another place. *)
LEMMA GotoTyped ==
  ASSUME ConnectionInv, Typed, NEW c \in Connections, NEW to \in Pcs \ {"none", "header"}, Goto(c, to),
         to = "handle" => thread[c].username \in DOMAIN users,
         UNCHANGED <<users, alive, peer>>,
         handled' \subseteq [connection : Connections, user : Names, message : Messages],
         answers' \subseteq [from : Connections, to : Connections \cup {Nobody}]
  PROVE  Typed'
<1>1. /\ thread'[c].pc = to /\ thread'[c].username = thread[c].username
      /\ thread'[c].header = thread[c].header
      /\ thread'[c].encrypted_size = thread[c].encrypted_size
      /\ \A d \in Connections \ {c} : thread'[d] = thread[d]
  BY GotoStep DEF ConnectionInv
<1>2. Sized(thread'[c])
  BY <1>1 DEF Typed, Sized
<1> QED
  BY <1>1, <1>2, ThreadTyped

LEMMA DropTyped ==
  ASSUME ConnectionInv, Typed, NEW c \in Connections, Drop(c)
  PROVE  Typed'
<1>1. Goto(c, "done") /\ UNCHANGED <<users, alive, peer, handled, answers>>
  BY DEF Drop, CloseClient
<1>2. /\ handled' \subseteq [connection : Connections, user : Names, message : Messages]
      /\ answers' \subseteq [from : Connections, to : Connections \cup {Nobody}]
  BY <1>1 DEF Typed
<1> QED
  BY <1>1, <1>2, GotoTyped DEF Pcs

(* The header: a byte more, or its terminator. *)
LEMMA HeaderTyped ==
  ASSUME ConnectionInv, Typed, NEW c \in Connections, ReadByte(c) \/ HeaderFails(c)
  PROVE  Typed'
<1>1. PICK char \in Characters, to \in {"header", "parse"} :
        /\ thread' = [thread EXCEPT ![c].header = Append(thread[c].header, char), ![c].pc = to]
        /\ to = "header" => Len(Append(thread[c].header, char)) # HeaderSize
  <2>1. CASE ReadByte(c)
    <3>1. peer[c].header \in Seq(Characters) /\ peer[c].header # << >>
      BY <2>1, PeerFields DEF ReadByte, ConnectionInv
    <3>2. Head(peer[c].header) \in Characters
      BY ONLY <3>1, Texts
    <3> QED
      BY <2>1, <3>2 DEF ReadByte
  <2>2. CASE HeaderFails(c)
    BY <2>2 DEF HeaderFails, Characters
  <2> QED
    BY <2>1, <2>2
<1>2. /\ thread[c].pc = "header" /\ alive' = alive /\ UNCHANGED <<users, handled, answers>>
      /\ \A d \in Connections : peer'[d].sent = peer[d].sent
  <2>1. peer' = peer \/ peer' = [peer EXCEPT ![c].header = Tail(@)]
    BY DEF ReadByte, HeaderFails
  <2>2. peer \in [Connections -> PeerShape]
    BY DEF ConnectionInv, Shapes
  <2>3. \A d \in Connections : peer'[d].sent = peer[d].sent
    BY <2>1, <2>2 DEF PeerShape
  <2>4. UNCHANGED <<users, handled, answers>> /\ thread[c].pc = "header" /\ alive' = alive
    BY DEF ReadByte, HeaderFails, Step
  <2> QED
    BY <2>3, <2>4
<1> DEFINE header == Append(thread[c].header, char)
           s == [thread[c] EXCEPT !.header = header, !.pc = to]
<1>3. thread[c].header \in Seq(Characters)
  BY ThreadFields DEF ConnectionInv
<1>4. header \in Seq(Characters) /\ Len(header) = Len(thread[c].header) + 1
  BY <1>3
<1>5. Len(thread[c].header) < HeaderSize /\ thread[c].encrypted_size \in 0 .. STACK_ROOM
  BY <1>2 DEF Typed, Sized
<1>6. HeaderSize \in Nat /\ Len(thread[c].header) \in Nat
  BY <1>3, ConnectionAssumption DEF HeaderSize
<1>7. Len(header) <= HeaderSize /\ (to = "header" => Len(header) < HeaderSize)
  BY <1>1, <1>4, <1>5, <1>6
<1> HIDE DEF header
<1>8. /\ s \in ThreadShape /\ thread' = [thread EXCEPT ![c] = s]
      /\ s.header = header /\ s.pc = to /\ s.encrypted_size = thread[c].encrypted_size
  BY <1>1, <1>4 DEF ConnectionInv, Shapes, ThreadShape, Pcs, header
<1> HIDE DEF s
<1>9. thread'[c] = s /\ \A d \in Connections \ {c} : thread'[d] = thread[d]
  BY <1>8, SetThread DEF ConnectionInv
<1>10. Sized(thread'[c]) /\ thread'[c].pc # "handle"
  BY <1>1, <1>5, <1>7, <1>8, <1>9 DEF Sized
<1>11. /\ handled' \subseteq [connection : Connections, user : Names, message : Messages]
       /\ answers' \subseteq [from : Connections, to : Connections \cup {Nobody}]
  BY <1>2 DEF Typed
<1> QED
  BY <1>2, <1>9, <1>10, <1>11, ThreadTyped

(* The message the header announces fits the stack. *)
LEMMA ParseTyped ==
  ASSUME ConnectionInv, Typed, HeadersRead, NEW c \in Connections, ParseHeader(c)
  PROVE  Typed'
<1> DEFINE text == SizeText(thread[c].header)
           s == [thread[c] EXCEPT !.username = Name(thread[c].header),
                   !.encrypted_size = Number(text), !.pc = "body"]
<1>1. /\ thread' = [thread EXCEPT ![c].username = Name(thread[c].header),
                       ![c].encrypted_size = Number(text), ![c].pc = "body"]
      /\ UNCHANGED <<users, alive, peer, handled, answers>>
  BY DEF ParseHeader
<1>2. IsNumber(text) /\ Spaces(thread[c].header) # {}
  BY DEF ParseHeader, GoodHeader
<1>3. thread[c].header \in Seq(Characters)
  BY ThreadFields DEF ConnectionInv
<1>4. NameEnd(thread[c].header) \in DOMAIN thread[c].header
  <2> DEFINE S == Spaces(thread[c].header)
  <2>1. S \in SUBSET Nat /\ S \subseteq DOMAIN thread[c].header
    <3>1. DOMAIN thread[c].header = 1 .. Len(thread[c].header)
      BY <1>3
    <3>2. S \subseteq DOMAIN thread[c].header
      BY DEF Spaces
    <3> QED
      BY <3>1, <3>2
  <2>2. \E i \in S : \A j \in S : i <= j
    BY ONLY <1>2, <2>1, Least
  <2> QED
    BY <2>1, <2>2 DEF NameEnd
<1>5. text \in Seq(Characters)
  <2>1. /\ NameEnd(thread[c].header) + 1 \in 1 .. Len(thread[c].header) + 1
        /\ Len(thread[c].header) - 1 \in Int
        /\ Len(thread[c].header) - 1 <= Len(thread[c].header)
    BY <1>3, <1>4
  <2> QED
    BY <1>3, <2>1 DEF SizeText
<1>6. Number(text) \in 0 .. STACK_ROOM
  <2>1. Number(text) \in UInt
    BY <1>2, <1>5, NumberType
  <2>2. Fits(thread[c].header)
    BY DEF ParseHeader, GoodHeader, Step, HeadersRead, HeaderRead
  <2>3. Number(text) <= STACK_ROOM
    BY <1>2, <2>2 DEF Fits, ParseHeader, GoodHeader
  <2> QED
    BY <2>1, <2>3, ConnectionAssumption DEF UInt
<1> HIDE DEF text
<1>7. /\ thread' = [thread EXCEPT ![c] = s] /\ s.header = thread[c].header /\ s.pc = "body"
      /\ s.encrypted_size = Number(text)
  BY <1>1 DEF ConnectionInv, Shapes, ThreadShape
<1> HIDE DEF s
<1>8. thread'[c] = s /\ \A d \in Connections \ {c} : thread'[d] = thread[d]
  BY <1>7 DEF ConnectionInv, Shapes
<1>9. Sized(thread'[c]) /\ thread'[c].pc # "handle"
  BY <1>6, <1>7, <1>8 DEF Typed, Sized
<1>10. /\ handled' \subseteq [connection : Connections, user : Names, message : Messages]
       /\ answers' \subseteq [from : Connections, to : Connections \cup {Nobody}]
  BY <1>1 DEF Typed
<1> QED
  BY <1>1, <1>8, <1>9, <1>10, ThreadTyped

LEMMA BodyTyped ==
  ASSUME ConnectionInv, Typed, NEW c \in Connections, ReadBody(c) \/ BodyFails(c)
  PROVE  Typed'
<1>1. PICK m : thread' = [thread EXCEPT ![c].buffer = m, ![c].pc = "decrypt"]
  BY DEF ReadBody, BodyFails
<1>2. UNCHANGED <<users, alive, peer, handled, answers>>
  BY DEF ReadBody, BodyFails
<1>3. /\ thread'[c].header = thread[c].header /\ thread'[c].pc = "decrypt"
      /\ thread'[c].encrypted_size = thread[c].encrypted_size
      /\ \A d \in Connections \ {c} : thread'[d] = thread[d]
  BY <1>1 DEF ConnectionInv, Shapes, ThreadShape
<1>4. Sized(thread'[c])
  BY <1>3 DEF Typed, Sized
<1>5. /\ handled' \subseteq [connection : Connections, user : Names, message : Messages]
      /\ answers' \subseteq [from : Connections, to : Connections \cup {Nobody}]
  BY <1>2 DEF Typed
<1> QED
  BY <1>2, <1>3, <1>4, <1>5, ThreadTyped

LEMMA DecryptTyped ==
  ASSUME ConnectionInv, Typed, NEW c \in Connections, Decrypt(c)
  PROVE  Typed'
<1> DEFINE h == [connection |-> c, user |-> thread[c].username, message |-> thread[c].buffer]
<1>1. /\ handled' = handled \cup {h} /\ Goto(c, "handle") /\ thread[c].pc = "decrypt"
      /\ UNCHANGED <<users, alive, peer, answers>> /\ thread[c].buffer # Garbage
  BY DEF Decrypt, Step, Opens
<1>2. thread[c].username \in DOMAIN users
  BY <1>1 DEF ConnectionInv, Buffers
<1>3. DOMAIN users \subseteq Names /\ thread[c].buffer \in Messages
  BY <1>1, Constants, ThreadFields DEF ConnectionInv, UsersRead, Names
<1>4. h \in [connection : Connections, user : Names, message : Messages]
  BY <1>2, <1>3
<1>5. /\ handled' \subseteq [connection : Connections, user : Names, message : Messages]
      /\ answers' \subseteq [from : Connections, to : Connections \cup {Nobody}]
  BY <1>1, <1>4 DEF Typed
<1> QED
  BY <1>1, <1>2, <1>5, GotoTyped DEF Pcs

LEMMA SendTyped ==
  ASSUME ConnectionInv, Typed, NEW c \in Connections, SendHeader(c) \/ SendCipher(c)
  PROVE  Typed'
<1>1. PICK to \in {"send_cipher", "done"} : Goto(c, to)
  BY DEF SendHeader, SendCipher, CloseClient
<1>2. /\ UNCHANGED <<users, alive, peer, handled>> /\ Serving(c)
      /\ answers' = answers \cup {[from |-> c, to |-> socket[thread[c].client]]}
  BY DEF SendHeader, SendCipher, Send, Step, Serving
<1>3. socket[thread[c].client] = c
  BY <1>2, OwnsDescriptor
<1>4. /\ handled' \subseteq [connection : Connections, user : Names, message : Messages]
      /\ answers' \subseteq [from : Connections, to : Connections \cup {Nobody}]
  BY <1>2, <1>3 DEF Typed
<1> QED
  BY <1>1, <1>2, <1>4, GotoTyped DEF Pcs

LEMMA ServeTyped ==
  ASSUME ConnectionInv, Typed, HeadersRead, NEW c \in Connections, Serve(c)
  PROVE  Typed'
<1>1. CASE ReadByte(c) \/ HeaderFails(c)  BY <1>1, HeaderTyped
<1>2. CASE HeaderEnds(c) \/ RefuseHeader(c) \/ ShortBody(c) \/ CannotDecrypt(c) \/ HandleFails(c)
  BY <1>2, DropTyped DEF HeaderEnds, RefuseHeader, ShortBody, CannotDecrypt, HandleFails
<1>3. CASE ParseHeader(c)  BY <1>3, ParseTyped
<1>4. CASE ReadBody(c) \/ BodyFails(c)  BY <1>4, BodyTyped
<1>5. CASE Decrypt(c)  BY <1>5, DecryptTyped
<1>6. CASE HandleSucceeds(c)
  <2>1. Goto(c, "send_header") /\ UNCHANGED <<users, alive, peer, handled, answers>>
    BY <1>6 DEF HandleSucceeds
  <2>2. /\ handled' \subseteq [connection : Connections, user : Names, message : Messages]
        /\ answers' \subseteq [from : Connections, to : Connections \cup {Nobody}]
    BY <2>1 DEF Typed
  <2> QED
    BY <2>1, <2>2, GotoTyped DEF Pcs
<1>7. CASE SendHeader(c) \/ SendCipher(c)  BY <1>7, SendTyped
<1>8. CASE BrokenPipe(c)
  BY <1>8 DEF BrokenPipe, Die, Typed, Sized
<1> QED
  BY <1>1, <1>2, <1>3, <1>4, <1>5, <1>6, <1>7, <1>8 DEF Serve

(* What peers do is no thread's. *)
LEMMA PeerTyped ==
  ASSUME ConnectionInv, Typed, NEW c \in Connections, Connect(c) \/ PeerLeaves(c)
  PROVE  Typed'
<1>1. UNCHANGED <<users, alive, thread, handled, answers>>
  BY DEF Connect, PeerLeaves
<1>2. \A d \in Connections : peer'[d].sent \in UInt
  <2>1. CASE Connect(c)
    <3>1. PICK a \in Arrivals :
            peer' = [peer EXCEPT ![c] = [link |-> "open", header |-> a.header,
                                         message |-> a.message, sent |-> a.sent]]
      BY <2>1 DEF Connect
    <3>2. a.sent \in UInt
      BY ConnectionAssumption DEF UInt
    <3> QED
      BY <3>1, <3>2 DEF ConnectionInv, Shapes, Typed
  <2>2. CASE PeerLeaves(c)
    <3>1. 0 \in UInt
      BY ConnectionAssumption DEF UInt
    <3>2. PICK link : \/ peer' = [peer EXCEPT ![c].link = link]
                      \/ peer' = [peer EXCEPT ![c].link = link, ![c].header = << >>, ![c].sent = 0]
      BY <2>2 DEF PeerLeaves
    <3>3. peer \in [Connections -> PeerShape]
      BY DEF ConnectionInv, Shapes
    <3>4. ASSUME NEW d \in Connections PROVE peer'[d].sent \in {peer[d].sent, 0}
      <4>1. CASE peer' = [peer EXCEPT ![c].link = link]
        BY <3>3, <4>1 DEF PeerShape
      <4>2. CASE peer' = [peer EXCEPT ![c].link = link, ![c].header = << >>, ![c].sent = 0]
        <5>1. d # c => peer'[d] = peer[d]
          BY <3>3, <4>2
        <5>2. peer[c] \in PeerShape
          BY <3>3
        <5>3. peer'[c].sent = 0
          BY <3>3, <4>2, <5>2 DEF PeerShape
        <5> QED
          BY <5>1, <5>3
      <4> QED
        BY <3>2, <4>1, <4>2
    <3> QED
      BY <3>1, <3>4 DEF Typed
  <2> QED
    BY <2>1, <2>2
<1> QED
  BY <1>1, <1>2 DEF Typed, Sized

LEMMA AcceptTyped ==
  ASSUME ConnectionInv, Typed, NEW c \in Connections, Accept(c)
  PROVE  Typed'
<1>1. PICK x \in Unused : thread' = [thread EXCEPT ![c].pc = "header", ![c].client = x]
  BY DEF Accept
<1>2. thread[c].pc = "none" /\ UNCHANGED <<users, alive, peer, handled, answers>>
  BY DEF Accept, Waiting
<1>3. /\ thread'[c].header = thread[c].header /\ thread'[c].pc = "header"
      /\ thread'[c].encrypted_size = thread[c].encrypted_size
      /\ \A d \in Connections \ {c} : thread'[d] = thread[d]
  BY <1>1 DEF ConnectionInv, Shapes, ThreadShape
<1>4. thread[c].header = << >> /\ thread[c].encrypted_size \in 0 .. STACK_ROOM
  BY <1>2 DEF Typed, Sized
<1>5. Len(thread[c].header) = 0 /\ HeaderSize \in Nat /\ 0 < HeaderSize
  BY <1>4, ConnectionAssumption DEF HeaderSize
<1>6. Sized(thread'[c]) /\ thread'[c].pc # "handle"
  <2>1. thread'[c].pc = "header" /\ thread'[c].encrypted_size \in 0 .. STACK_ROOM
    BY <1>3, <1>4
  <2>2. Len(thread'[c].header) = 0
    BY <1>3, <1>5
  <2>3. Len(thread'[c].header) <= HeaderSize /\ Len(thread'[c].header) < HeaderSize
    BY <1>5, <2>2
  <2> QED
    BY <2>1, <2>3 DEF Sized
<1>7. /\ handled' \subseteq [connection : Connections, user : Names, message : Messages]
      /\ answers' \subseteq [from : Connections, to : Connections \cup {Nobody}]
  BY <1>2 DEF Typed
<1> QED
  BY <1>2, <1>3, <1>6, <1>7, ThreadTyped

LEMMA InitTyped == Init => Typed
<1> SUFFICES ASSUME Init
             PROVE  Typed
  OBVIOUS
<1>1. \A c \in Connections :
        /\ thread[c].header = << >> /\ thread[c].pc = "none" /\ thread[c].encrypted_size = 0
        /\ peer[c].sent = 0
  BY DEF Init, NoThread, NoPeer
<1>2. Len(<< >>) = 0 /\ 0 <= HeaderSize /\ 0 \in UInt /\ 0 \in 0 .. STACK_ROOM
  BY ConnectionAssumption DEF HeaderSize, UInt
<1> QED
  BY <1>1, <1>2 DEF Init, Typed, Sized

LEMMA NextTyped == ConnectionInv /\ Typed /\ HeadersRead /\ [Next]_vars => Typed'
<1> SUFFICES ASSUME ConnectionInv, Typed, HeadersRead, [Next]_vars
             PROVE  Typed'
  OBVIOUS
<1>1. CASE ReadUser
  <2>1. DOMAIN users \subseteq DOMAIN users' /\ UNCHANGED <<alive, peer, thread, handled, answers>>
    BY <1>1 DEF ReadUser, AddUser, Known
  <2> QED
    BY <2>1 DEF Typed, Sized
<1>2. CASE AcceptFails
  BY <1>2 DEF AcceptFails, Die, Typed, Sized
<1>3. CASE Idle \/ UNCHANGED vars
  BY <1>3 DEF Idle, vars, Typed, Sized
<1>4. ASSUME NEW c \in Connections, Connect(c) \/ Accept(c) \/ PeerLeaves(c) \/ Serve(c)
      PROVE  Typed'
  BY <1>4, PeerTyped, AcceptTyped, ServeTyped
<1> QED
  BY <1>1, <1>2, <1>3, <1>4 DEF Next

-----------------------------------------------------------------------------
(* One more character of a text. *)
LEMMA Onward ==
  ASSUME NEW s \in Seq(Characters), NEW n \in 0 .. Len(s), SubSeq(s, n + 1, Len(s)) # << >>
  PROVE  /\ n + 1 \in 1 .. Len(s)
         /\ Append(SubSeq(s, 1, n), Head(SubSeq(s, n + 1, Len(s)))) = SubSeq(s, 1, n + 1)
         /\ Tail(SubSeq(s, n + 1, Len(s))) = SubSeq(s, (n + 1) + 1, Len(s))
<1>1. Len(s) \in Nat /\ n \in Nat
  OBVIOUS
<1>2. n + 1 \in 1 .. Len(s)
  <2> SUFFICES ASSUME n = Len(s) PROVE FALSE
    BY <1>1
  <2>1. SubSeq(s, n + 1, Len(s)) = << >>
    BY <1>1
  <2> QED
    BY <2>1
<1>3. /\ Head(SubSeq(s, n + 1, Len(s))) = s[n + 1]
      /\ Tail(SubSeq(s, n + 1, Len(s))) = SubSeq(s, (n + 1) + 1, Len(s))
  BY <1>1, <1>2, HeadTailOfSubSeq
<1>4. Append(SubSeq(s, 1, n), s[n + 1]) = SubSeq(s, 1, n + 1)
  BY <1>1, <1>2
<1> QED
  BY <1>2, <1>3, <1>4

(* A thread that has the header behind it, whatever its peer does. *)
LEMMA BehindHeader ==
  ASSUME HeadersRead, NEW c \in Connections,
         \A d \in Connections \ {c} : thread'[d] = thread[d],
         thread'[c].pc \notin {"none", "header", "parse"}, UNCHANGED peer
  PROVE  HeadersRead'
  BY DEF HeadersRead, HeaderRead

(* A byte more, the terminator, or the last byte that has room.              *)
LEMMA HeaderReadStep ==
  ASSUME ConnectionInv, Typed, HeadersRead, NEW c \in Connections, ReadByte(c) \/ HeaderFails(c)
  PROVE  HeadersRead'
<1>1. Shapes /\ thread[c].pc = "header"
  BY DEF ConnectionInv, ReadByte, HeaderFails, Step
<1> DEFINE At(a, n) ==
             /\ n < HeaderSize /\ thread[c].header = SubSeq(a.header, 1, n)
             /\ ~Terminated(thread[c].header)
             /\ peer[c].header \in {<< >>, SubSeq(a.header, n + 1, Len(a.header))}
<1>0. PICK a \in Arrivals : \E n \in 0 .. Len(a.header) : At(a, n)
  BY <1>1 DEF HeadersRead, HeaderRead
<1>2. PICK n \in 0 .. Len(a.header) : At(a, n)
  BY <1>0
<1>3. a.header \in Seq(Characters) /\ n \in Nat /\ HeaderSize \in Nat
  BY Constants, ConnectionAssumption DEF HeaderSize
<1>4. Fits(Append(thread[c].header, NUL))
  BY <1>2, HeadersFit
<1>5. CASE HeaderFails(c)
  <2>1. /\ thread'[c].pc = "parse" /\ thread'[c].header = Append(thread[c].header, NUL)
        /\ \A d \in Connections \ {c} : thread'[d] = thread[d]
        /\ peer' = peer
    BY <1>1, <1>5 DEF HeaderFails, Shapes, ThreadShape
  <2>2. HeaderRead(thread'[c], peer'[c])
    BY <1>4, <2>1 DEF HeaderRead
  <2> QED
    BY <2>1, <2>2 DEF HeadersRead, HeaderRead
<1>6. CASE ReadByte(c)
  <2> DEFINE char == Head(peer[c].header)
             header == Append(thread[c].header, char)
  <2>1. /\ n + 1 \in 1 .. Len(a.header) /\ header = SubSeq(a.header, 1, n + 1)
        /\ Tail(peer[c].header) = SubSeq(a.header, (n + 1) + 1, Len(a.header))
    BY <1>2, <1>3, <1>6, Onward DEF ReadByte
  <2>2. /\ thread'[c].header = header
        /\ thread'[c].pc = IF char = NUL \/ Len(header) = HeaderSize THEN "parse" ELSE "header"
        /\ \A d \in Connections \ {c} : thread'[d] = thread[d]
        /\ peer'[c].header = Tail(peer[c].header)
        /\ \A d \in Connections \ {c} : peer'[d] = peer[d]
    BY <1>1, <1>6 DEF ReadByte, Shapes, ThreadShape, PeerShape
  <2>3. thread[c].header \in Seq(Characters) /\ Len(thread[c].header) = n
    BY <1>1, <1>2, <1>3, ThreadFields
  <2>4. Len(header) = n + 1 /\ (char # NUL => ~Terminated(header))
    <3>1. /\ Len(header) = n + 1 /\ DOMAIN header = 1 .. n + 1 /\ header[n + 1] = char
          /\ \A i \in 1 .. n : header[i] = thread[c].header[i] /\ i \in DOMAIN thread[c].header
      BY <1>3, <2>3
    <3> QED
      BY <1>2, <1>3, <3>1 DEF Terminated
  <2> HIDE DEF header
  <2>5. HeaderRead(thread'[c], peer'[c])
    <3>1. CASE char = NUL
      BY <1>4, <2>2, <3>1 DEF HeaderRead, header
    <3>2. CASE char # NUL /\ n + 1 = HeaderSize
      BY <2>2, <2>4, <3>2 DEF HeaderRead
    <3>3. CASE char # NUL /\ n + 1 # HeaderSize
      <4>1. n + 1 < HeaderSize /\ thread'[c].pc = "header" /\ n + 1 \in 0 .. Len(a.header)
        BY <1>2, <1>3, <2>1, <2>2, <2>4, <3>3
      <4> QED
        BY <2>1, <2>2, <2>4, <3>3, <4>1 DEF HeaderRead
    <3> QED
      BY <3>1, <3>2, <3>3
  <2> QED
    BY <2>2, <2>5 DEF HeadersRead
<1> QED
  BY <1>5, <1>6

(* The other steps of a thread. *)
LEMMA ServeRead ==
  ASSUME ConnectionInv, Typed, HeadersRead, NEW c \in Connections, Serve(c)
  PROVE  HeadersRead'
<1>1. CASE ReadByte(c) \/ HeaderFails(c)  BY <1>1, HeaderReadStep
<1>2. CASE \E to \in Pcs \ {"none", "header", "parse"} : Goto(c, to) /\ UNCHANGED peer
  BY <1>2, GotoStep, BehindHeader DEF ConnectionInv
<1>3. CASE HeaderEnds(c) \/ RefuseHeader(c) \/ ShortBody(c) \/ CannotDecrypt(c) \/ HandleFails(c)
  BY <1>2, <1>3 DEF HeaderEnds, RefuseHeader, ShortBody, CannotDecrypt, HandleFails, Drop,
                    CloseClient, Pcs
<1>4. CASE Decrypt(c) \/ HandleSucceeds(c)
  BY <1>2, <1>4 DEF Decrypt, HandleSucceeds, Pcs
<1>5. CASE SendHeader(c) \/ SendCipher(c)
  BY <1>2, <1>5 DEF SendHeader, SendCipher, Send, CloseClient, Pcs
<1>6. CASE ParseHeader(c) \/ ReadBody(c) \/ BodyFails(c)
  <2>1. /\ thread'[c].pc \in {"body", "decrypt"} /\ peer' = peer
        /\ \A d \in Connections \ {c} : thread'[d] = thread[d]
    BY <1>6 DEF ParseHeader, ReadBody, BodyFails, ConnectionInv, Shapes, ThreadShape
  <2> QED
    BY <2>1, BehindHeader
<1>7. CASE BrokenPipe(c)
  BY <1>7 DEF BrokenPipe, Die, HeadersRead, HeaderRead
<1> QED
  BY <1>1, <1>3, <1>4, <1>5, <1>6, <1>7 DEF Serve

(* What peers do before and while a thread reads. *)
LEMMA PeerRead ==
  ASSUME ConnectionInv, HeadersRead, NEW c \in Connections, Connect(c) \/ PeerLeaves(c)
  PROVE  HeadersRead'
<1>1. thread' = thread /\ peer \in [Connections -> PeerShape]
  BY DEF Connect, PeerLeaves, ConnectionInv, Shapes
<1>2. CASE Connect(c)
  <2>1. PICK a \in Arrivals :
          peer' = [peer EXCEPT ![c] = [link |-> "open", header |-> a.header,
                                       message |-> a.message, sent |-> a.sent]]
    BY <1>2 DEF Connect
  <2>2. peer'[c].header = a.header /\ \A d \in Connections \ {c} : peer'[d] = peer[d]
    BY <1>1, <2>1
  <2>3. thread[c].pc = "none"
    BY <1>2 DEF Connect, ConnectionInv, Begun
  <2> QED
    BY <1>1, <2>2, <2>3 DEF HeadersRead, HeaderRead
<1>3. CASE PeerLeaves(c)
  <2>1. peer[c] \in PeerShape /\ peer[c].link # "none"
    BY <1>1, <1>3 DEF PeerLeaves
  <2>2. /\ peer'[c].header \in {peer[c].header, << >>}
        /\ \A d \in Connections \ {c} : peer'[d] = peer[d]
    BY <1>1, <1>3, <2>1 DEF PeerLeaves, PeerShape
  <2> QED
    BY <1>1, <2>1, <2>2 DEF HeadersRead, HeaderRead
<1> QED
  BY <1>2, <1>3

(* Reading begins with nothing read. *)
LEMMA AcceptRead ==
  ASSUME ConnectionInv, Typed, HeadersRead, NEW c \in Connections, Accept(c)
  PROVE  HeadersRead'
<1>1. /\ thread[c].pc = "none" /\ peer[c].link # "none" /\ peer' = peer
      /\ \E x \in Unused : thread' = [thread EXCEPT ![c].pc = "header", ![c].client = x]
  BY DEF Accept, Waiting
<1>2. /\ thread'[c].header = thread[c].header /\ thread'[c].pc = "header"
      /\ \A d \in Connections \ {c} : thread'[d] = thread[d]
  BY <1>1 DEF ConnectionInv, Shapes, ThreadShape
<1>3. thread[c].header = << >>
  BY <1>1 DEF Typed, Sized
<1>4. PICK a \in Arrivals : peer[c].header \in {<< >>, a.header}
  BY <1>1 DEF HeadersRead, HeaderRead
<1>5. a.header \in Seq(Characters) /\ 0 < HeaderSize
  BY Constants, ConnectionAssumption DEF HeaderSize
<1>6. /\ 0 \in 0 .. Len(a.header) /\ << >> = SubSeq(a.header, 1, 0)
      /\ a.header = SubSeq(a.header, 0 + 1, Len(a.header))
  BY <1>5
<1>7. ~Terminated(<< >>)
  BY DEF Terminated
<1>8. HeaderRead(thread'[c], peer'[c])
  BY <1>1, <1>2, <1>3, <1>4, <1>5, <1>6, <1>7 DEF HeaderRead
<1> QED
  BY <1>1, <1>2, <1>8 DEF HeadersRead

LEMMA InitRead == Init => HeadersRead
<1> SUFFICES ASSUME Init, NEW c \in Connections
             PROVE  HeaderRead(thread[c], peer[c])
  BY DEF HeadersRead
<1>1. thread[c].pc = "none" /\ peer[c].link = "none"
  BY DEF Init, NoThread, NoPeer
<1> QED
  BY <1>1 DEF HeaderRead

LEMMA NextRead == ConnectionInv /\ Typed /\ HeadersRead /\ [Next]_vars => HeadersRead'
<1> SUFFICES ASSUME ConnectionInv, Typed, HeadersRead, [Next]_vars
             PROVE  HeadersRead'
  OBVIOUS
<1>1. CASE ReadUser \/ AcceptFails \/ Idle \/ UNCHANGED vars
  BY <1>1 DEF ReadUser, AcceptFails, Die, Idle, vars, HeadersRead, HeaderRead
<1>2. ASSUME NEW c \in Connections, Connect(c) \/ Accept(c) \/ PeerLeaves(c) \/ Serve(c)
      PROVE  HeadersRead'
  BY <1>2, PeerRead, AcceptRead, ServeRead
<1> QED
  BY <1>1, <1>2 DEF Next

-----------------------------------------------------------------------------
(* The types of the server's variables: no header outgrows its buffer; as    *)
(* long as what peers announce fits request_size and the stack, so does what *)
(* threads read and compute of it, blanks, signs and headers broken off      *)
(* included; and from the header's check to the handling a thread has a user. *)
THEOREM ConnectionTypeCorrect == Spec => []TypeOK
<1>1. Spec => [](ConnectionInv /\ Typed /\ HeadersRead)
  BY InitConnection, NextConnection, InitTyped, NextTyped, InitRead, NextRead, PTL DEF Spec
<1> QED
  BY <1>1, TypeFollows, PTL

(* Each open descriptor is that of one thread at work, and the other way     *)
(* round: fs.cc neither loses a descriptor nor closes another thread's.     *)
THEOREM ConnectionOwnDescriptor == Spec => []OwnDescriptor
<1>1. ConnectionInv => OwnDescriptor
  BY DEF ConnectionInv
<1> QED
  BY <1>1, AlwaysConnectionInv, PTL

(* The answer to a request goes to the peer that sent it.                    *)
THEOREM ConnectionOwnAnswers == Spec => []OwnAnswers
<1>1. ConnectionInv => OwnAnswers
  BY DEF ConnectionInv
<1> QED
  BY <1>1, AlwaysConnectionInv, PTL

(* A request is handled for a user only if it was sealed with the password   *)
(* main first read for that user, whatever receives fail.                   *)
THEOREM ConnectionOnlySealed == Spec => []OnlySealed
<1>1. ConnectionInv => OnlySealed
  BY DEF ConnectionInv
<1> QED
  BY <1>1, AlwaysConnectionInv, PTL

(* A thread handles what its own peer sent, unless that connection broke.    *)
THEOREM ConnectionOwnRequest == Spec => []OwnRequest
<1>1. ConnectionInv => OwnRequest
  BY DEF ConnectionInv
<1> QED
  BY <1>1, AlwaysConnectionInv, PTL
=============================================================================
