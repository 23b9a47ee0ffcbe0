--------------------------------- MODULE Server ---------------------------------
(***************************************************************************)
(* Clients, connections, sessions and the file system together: what a      *)
(* client may conclude from the outcome of a call.                          *)
(*                                                                         *)
(* The functions of fs_client.h are thread safe: a client may have several  *)
(* calls of its session in flight, as test_thread_write_create.cc and       *)
(* test_thread_sleep.cc do.  It counts its sequence numbers up in the order *)
(* it makes them.  Each call has a connection and a thread of its own.      *)
(* Connections break, which the client takes for a failure while the thread *)
(* goes on; the server crashes and is started again.                        *)
(*                                                                         *)
(* Connection has the steps up to handle_request one by one, Sessions is    *)
(* instantiated for the session tables, and of the file system there is     *)
(* only that a request takes effect at one instant, which Filesystem is     *)
(* shown to implement.                                                      *)
(***************************************************************************)
EXTENDS Integers, Sequences, FiniteSets

CONSTANTS
  Clients, Users,
  UserOf,           \* the user each client acts for
  Threads,
  UINT_MAX,
  FirstSequence,    \* the number each client begins with
  MaxCalls,         \* bound on the calls of each client
  MaxCrashes,
  Nobody, NoSession, NotANumber

UInt == 0 .. UINT_MAX

ASSUME ServerAssumption ==
  /\ UserOf \in [Clients -> Users]
  /\ UINT_MAX \in Nat /\ MaxCalls \in Nat /\ MaxCrashes \in Nat
  /\ FirstSequence \in [Clients -> Nat]
  /\ \A c \in Clients : FirstSequence[c] + MaxCalls <= UINT_MAX
  /\ Nobody \notin Clients /\ NoSession \notin UInt /\ NotANumber \notin UInt

VARIABLES
  SESSION_ID, sessions, opened, accepted, crashes,     \* see Sessions
  client,     \* each client's session and the calls it has made
  thread,     \* each thread's request, next step, and whether a client waits
  residue,    \* requests that stand in stack memory of earlier buffers
  log,        \* the requests that have taken effect, in order; on the disk
  done,       \* calls that have returned 0
  precedes    \* <<a, b>>: a had returned 0 when b was called

tables == <<SESSION_ID, sessions, opened, accepted, crashes>>
vars   == <<tables, client, thread, residue, log, done, precedes>>

S == INSTANCE Sessions WITH
       Numbers <- UInt, MaxAccepted <- MaxCalls * Cardinality(Clients)

Request  == [client : Clients, op : {"session", "change"}, session : UInt, sequence : UInt]
NoCall   == [client |-> Nobody, op |-> "none", session |-> 0, sequence |-> 0]
NoThread == [request |-> NoCall, pc |-> "idle", connected |-> FALSE, session |-> NoSession]

ClientState == [session : UInt \cup {NoSession}, calls : 0 .. MaxCalls]
ThreadState ==
  [request : Request \cup {NoCall}, pc : {"idle", "received", "handling", "answering"},
   connected : BOOLEAN, session : UInt \cup {NoSession}]

(* Types.  A thread that is busy has a request, and for an answer a session. *)
TypeOK ==
  /\ client \in [Clients -> ClientState]
  /\ thread \in [Threads -> ThreadState]
  /\ \A t \in Threads :
       /\ thread[t].pc # "idle" => thread[t].request \in Request
       /\ thread[t].pc = "answering" => thread[t].session \in UInt
  /\ residue \subseteq Request /\ done \subseteq Request
  /\ log \in Seq(Request) /\ precedes \subseteq Request \X Request

Init ==
  /\ S!Init
  /\ client = [c \in Clients |-> [session |-> NoSession, calls |-> 0]]
  /\ thread = [t \in Threads |-> NoThread]
  /\ residue = {} /\ log = << >> /\ done = {} /\ precedes = {}

-----------------------------------------------------------------------------
(* A client that has no session asks for one; one that has makes calls.      *)
NextCall(c) ==
  [client   |-> c,
   op       |-> IF client[c].session = NoSession THEN "session" ELSE "change",
   session  |-> IF client[c].session = NoSession THEN 0 ELSE client[c].session,
   sequence |-> FirstSequence[c] + client[c].calls]

(* The client has a call in flight. *)
Waits(c) == \E t \in Threads : thread[t].connected /\ thread[t].request.client = c

(* fs_session, fs_create, ...; main accepts the connection.  The session a   *)
(* call names is there once fs_session has returned; several calls may name *)
(* it at the same time.                                                     *)
Call(c, t) ==
  /\ client[c].calls < MaxCalls
  /\ client[c].session = NoSession => ~Waits(c)
  /\ thread[t].pc = "idle"
  /\ client' = [client EXCEPT ![c].calls = @ + 1]
  /\ thread' = [thread EXCEPT ![t] = [request |-> NextCall(c), pc |-> "received",
                                      connected |-> TRUE, session |-> NoSession]]
  /\ precedes' = precedes \cup (done \X {NextCall(c)})
  /\ UNCHANGED <<tables, residue, log, done>>

(* The connection breaks: the client's call returns -1. *)
BreakOff(t) ==
  /\ thread[t].connected
  /\ thread' = [thread EXCEPT ![t].connected = FALSE]
  /\ UNCHANGED <<tables, client, residue, log, done, precedes>>

(* A receive fails on the broken connection, and the thread goes on with     *)
(* what its stack held: it decrypts if it is another request of that user.  *)
ReceiveFails(t) ==
  /\ thread[t].pc = "received" /\ ~thread[t].connected
  /\ \E r \in residue :
       /\ UserOf[r.client] = UserOf[thread[t].request.client]
       /\ thread' = [thread EXCEPT ![t].request = r]
  /\ UNCHANGED <<tables, client, residue, log, done, precedes>>

Step(t, from) == thread[t].pc = from
Respond(t, session) ==
  thread' = [thread EXCEPT ![t] = [request |-> @.request, pc |-> "answering",
                                   connected |-> @.connected, session |-> session]]
User(t)       == UserOf[thread[t].request.client]
Keep(t)       == residue' = residue \cup {thread[t].request}

(* close without an answer: if the client still waits, its call returns -1.  *)
CloseSilently(t) ==
  /\ thread' = [thread EXCEPT ![t] = NoThread]
  /\ UNCHANGED <<client, log, done, precedes>>

(* The request did not arrive whole before the connection broke. *)
RequestLost(t) ==
  /\ Step(t, "received") /\ ~thread[t].connected
  /\ CloseSilently(t) /\ UNCHANGED <<tables, residue>>

(* handle_request: the session tables. *)
OpenSession(t) ==
  LET r == thread[t].request IN
  /\ Step(t, "received") /\ r.op = "session"
  /\ S!NewSession(User(t), r.sequence)
  /\ Respond(t, SESSION_ID)
  /\ Keep(t)
  /\ UNCHANGED <<client, log, done, precedes>>

NoMoreSessions(t) ==
  /\ Step(t, "received") /\ thread[t].request.op = "session" /\ ~S!IdsLeft
  /\ Keep(t) /\ CloseSilently(t) /\ UNCHANGED tables

AcceptRequest(t) ==
  LET r == thread[t].request IN
  /\ Step(t, "received") /\ r.op = "change"
  /\ S!Accept(User(t), r.session, r.sequence)
  /\ thread' = [thread EXCEPT ![t].pc = "handling"]
  /\ Keep(t)
  /\ UNCHANGED <<client, log, done, precedes>>

RejectRequest(t) ==
  LET r == thread[t].request IN
  /\ Step(t, "received") /\ r.op = "change"
  /\ S!Reject(User(t), r.session, r.sequence)
  /\ Keep(t) /\ CloseSilently(t)

(* The handler: one instant of Namespace, or a failure. *)
TakeEffect(t) ==
  /\ Step(t, "handling")
  /\ log' = Append(log, thread[t].request)
  /\ Respond(t, thread[t].request.session)
  /\ UNCHANGED <<tables, client, residue, done, precedes>>

(* BugFail answers all the same. *)
BugFail(t) ==
  /\ Step(t, "handling") /\ thread' = [thread EXCEPT ![t].pc = "answering"]
  /\ UNCHANGED <<tables, client, residue, log, done, precedes>>
Fail(t) == Step(t, "handling") /\ CloseSilently(t) /\ UNCHANGED <<tables, residue>>

(* send_response and close.  The client compares the sequence number and,    *)
(* but for fs_session, the session with its own.  BugAnswer answers before   *)
(* the handler is through.                                                  *)
Return0(t) ==
  LET r == thread[t].request IN
  /\ done' = done \cup {r}
  /\ client' = IF r.op = "session"
               THEN [client EXCEPT ![r.client].session = thread[t].session] ELSE client
BugAnswer(t) ==
  /\ Step(t, "answering") \/ Step(t, "handling")
  /\ thread' = [thread EXCEPT ![t] =
                  IF Step(t, "handling") THEN [@ EXCEPT !.connected = FALSE] ELSE NoThread]
  /\ IF thread[t].connected THEN Return0(t) ELSE UNCHANGED <<client, done>>
  /\ UNCHANGED <<tables, residue, log, precedes>>
Answer(t) ==
  /\ Step(t, "answering")
  /\ thread' = [thread EXCEPT ![t] = NoThread]
  /\ IF thread[t].connected THEN Return0(t) ELSE UNCHANGED <<client, done>>
  /\ UNCHANGED <<tables, residue, log, precedes>>

(* The process ends, for any reason, a SIGPIPE from an answer to a client    *)
(* that has gone among them.  Calls return -1, and a new process starts.    *)
Crash ==
  /\ S!Crash
  /\ thread' = [t \in Threads |-> NoThread]
  /\ residue' = {}
  /\ UNCHANGED <<client, log, done, precedes>>

Serve(t) ==
  \/ RequestLost(t)
  \/ OpenSession(t) \/ NoMoreSessions(t) \/ AcceptRequest(t) \/ RejectRequest(t)
  \/ TakeEffect(t) \/ Fail(t) \/ Answer(t)

(* All calls are made and answered. *)
Idle ==
  /\ \A c \in Clients : client[c].calls = MaxCalls
  /\ \A t \in Threads : thread[t].pc = "idle"
  /\ UNCHANGED vars

Next ==
  \/ \E c \in Clients, t \in Threads : Call(c, t)
  \/ \E t \in Threads : BreakOff(t) \/ ReceiveFails(t) \/ Serve(t)
  \/ Crash \/ Idle

Spec == Init /\ [][Next]_vars

-----------------------------------------------------------------------------
(* A call takes effect at most once, although an old request may be read     *)
(* again from a buffer that was never filled, connections break and the     *)
(* server restarts.                                                         *)
EffectOnce == \A i, j \in DOMAIN log : log[i] = log[j] => i = j

(* fs_client.h's 0: a call that returned it has taken effect. *)
DoneTookEffect ==
  \A r \in done : r.op = "change" => \E i \in DOMAIN log : log[i] = r

(* Handlers of one session run concurrently once its requests are accepted,  *)
(* and a call may overtake another that is in flight with it.  But a call    *)
(* made, by any client, after another has returned 0 takes effect after it:  *)
(* no repetition of the earlier one from an old buffer, and no restart,      *)
(* puts its effect behind.                                                  *)
OrderKept ==
  \A i, j \in DOMAIN log : i < j => <<log[j], log[i]>> \notin precedes

(* fs_session returns a new session: no two clients have the same.  The      *)
(* server does not keep SESSION_ID over a restart.                          *)
SessionIsNew ==
  \A c, d \in Clients :
    c # d /\ client[c].session # NoSession => client[c].session # client[d].session
=============================================================================
