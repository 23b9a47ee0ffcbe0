------------------------------ MODULE Server_proofs ------------------------------
(***************************************************************************)
(* Proofs about Server, for any number of clients, threads, calls and       *)
(* restarts.  The requests in play are those of busy threads and those that *)
(* stand in old buffers; ServerInv says which of them are new and which     *)
(* have been accepted.                                                      *)
(***************************************************************************)
EXTENDS Server, TLAPS

(* Requests that may still be read, and those that have taken effect. *)
InPlay(r) == r \in residue \/ \E t \in Threads : thread[t].pc # "idle" /\ thread[t].request = r
Logged(r) == \E i \in DOMAIN log : log[i] = r
Handled(r) == \E t \in Threads : thread[t].pc = "handling" /\ thread[t].request = r

(* Sequence numbers are used once: a client's next one is above all before. *)
Past(r) == r.sequence < FirstSequence[r.client] + client[r.client].calls
Numbered == \A r \in Request : InPlay(r) \/ Logged(r) => Past(r)

(* Only a call that has returned 0 comes before another. *)
Preceded == precedes \subseteq done \X Request

(* The tables. *)
Tables ==
  /\ SESSION_ID \in UInt
  /\ sessions \in [Users -> S!SequenceMap]
  /\ \A u \in Users : \A s \in DOMAIN sessions[u] : s < SESSION_ID

(* A request that has been accepted since the start is not accepted again.   *)
Spent(r) ==
  /\ r.session \in DOMAIN sessions[UserOf[r.client]]
  /\ r.sequence <= sessions[UserOf[r.client]][r.session]
AcceptedOnce ==
  \A r \in Request : InPlay(r) /\ r.op = "change" /\ (Logged(r) \/ Handled(r)) => Spent(r)

(* A handler works on what has not taken effect, and no other works on it.   *)
(* An answer follows the effect.                                            *)
Handlers ==
  /\ \A t \in Threads : thread[t].pc = "handling" =>
       /\ thread[t].request.op = "change" /\ ~Logged(thread[t].request)
       /\ \A v \in Threads :
            thread[v].pc = "handling" /\ thread[v].request = thread[t].request => v = t
  /\ \A t \in Threads :
       thread[t].pc = "answering" /\ thread[t].request.op = "change" => Logged(thread[t].request)

ServerInv ==
  /\ TypeOK /\ Tables
  /\ Numbered /\ Preceded /\ AcceptedOnce /\ Handlers
  /\ EffectOnce /\ DoneTookEffect /\ OrderKept

-----------------------------------------------------------------------------
(* No request is the record that stands for none. *)
LEMMA NoRequest == NoCall \notin Request /\ Nobody \notin Clients /\ NoSession \notin UInt
  BY ServerAssumption DEF NoCall, Request

(* Numbers. *)
LEMMA Numbers ==
  /\ UINT_MAX \in Nat /\ MaxCalls \in Nat /\ UInt \subseteq Nat /\ 0 \in UInt
  /\ UserOf \in [Clients -> Users]
  /\ \A c \in Clients : /\ FirstSequence[c] \in Nat
                        /\ FirstSequence[c] + MaxCalls <= UINT_MAX
  BY ServerAssumption DEF UInt

(* What the types say of a client, and of a thread. *)
LEMMA ClientTypes ==
  ASSUME TypeOK, NEW c \in Clients
  PROVE  /\ client[c].session \in UInt \cup {NoSession} /\ client[c].calls \in 0 .. MaxCalls
  BY DEF TypeOK, ClientState

LEMMA ThreadTypes ==
  ASSUME TypeOK, NEW t \in Threads
  PROVE  /\ thread[t].request \in Request \cup {NoCall}
         /\ thread[t].pc \in {"idle", "received", "handling", "answering"}
         /\ thread[t].connected \in BOOLEAN
         /\ thread[t].session \in UInt \cup {NoSession}
         /\ thread[t].pc # "idle" => thread[t].request \in Request
         /\ thread[t].pc = "answering" => thread[t].session \in UInt
  BY DEF TypeOK, ThreadState

LEMMA RequestTypes ==
  ASSUME NEW r \in Request
  PROVE  /\ r.client \in Clients /\ r.op \in {"session", "change"}
         /\ r.session \in UInt /\ r.sequence \in UInt
  BY DEF Request

(* Setting one thread leaves the others as they are. *)
LEMMA SetThread ==
  ASSUME TypeOK, NEW t \in Threads, NEW s \in ThreadState,
         thread' = [thread EXCEPT ![t] = s]
  PROVE  /\ thread' \in [Threads -> ThreadState] /\ thread'[t] = s
         /\ \A v \in Threads \ {t} : thread'[v] = thread[v]
  BY DEF TypeOK

(* A thread that ends, and one that goes on to its answer. *)
LEMMA EndThread ==
  ASSUME TypeOK, NEW t \in Threads, thread' = [thread EXCEPT ![t] = NoThread]
  PROVE  /\ thread' \in [Threads -> ThreadState] /\ thread'[t] = NoThread
         /\ \A v \in Threads \ {t} : thread'[v] = thread[v]
<1>1. NoThread \in ThreadState
  BY DEF NoThread, ThreadState
<1> QED
  BY <1>1, SetThread

LEMMA RespondThread ==
  ASSUME TypeOK, NEW t \in Threads, NEW n \in UInt, Respond(t, n)
  PROVE  /\ thread' \in [Threads -> ThreadState]
         /\ thread'[t].request = thread[t].request /\ thread'[t].pc = "answering"
         /\ thread'[t].connected = thread[t].connected /\ thread'[t].session = n
         /\ \A v \in Threads \ {t} : thread'[v] = thread[v]
<1> DEFINE s == [request |-> thread[t].request, pc |-> "answering",
                 connected |-> thread[t].connected, session |-> n]
<1>1. s \in ThreadState
  BY ThreadTypes DEF ThreadState
<1>2. thread' = [thread EXCEPT ![t] = s]
  BY DEF Respond
<1>3. s.request = thread[t].request /\ s.pc = "answering"
      /\ s.connected = thread[t].connected /\ s.session = n
  OBVIOUS
<1> HIDE DEF s
<1>4. /\ thread' \in [Threads -> ThreadState] /\ thread'[t] = s
      /\ \A v \in Threads \ {t} : thread'[v] = thread[v]
  BY <1>1, <1>2, SetThread
<1> QED
  BY <1>3, <1>4

-----------------------------------------------------------------------------
History == EffectOnce /\ DoneTookEffect /\ OrderKept

(* A step that lets nothing take effect, accepts nothing and makes no call   *)
(* keeps what relates requests to the log.                                  *)
LEMMA QuietStep ==
  ASSUME ServerInv, log' = log, done \subseteq done', precedes' = precedes,
         \A r \in Request : InPlay(r)' => InPlay(r),
         \A v \in Threads : thread'[v].pc = "handling" =>
           thread[v].pc = "handling" /\ thread'[v].request = thread[v].request,
         \A v \in Threads : thread'[v].pc = "answering" /\ thread'[v].request.op = "change" =>
           thread[v].pc = "answering" /\ thread'[v].request = thread[v].request,
         \A r \in Request : InPlay(r)' /\ Spent(r) => Spent(r)',
         \A c \in Clients : client'[c].calls = client[c].calls,
         \A r \in done' \ done : r.op = "change" => Logged(r)
  PROVE  Numbered' /\ Preceded' /\ AcceptedOnce' /\ Handlers' /\ History'
<1>1. \A r : Logged(r)' <=> Logged(r)
  BY DEF Logged
<1>2. Numbered'
  <2>1. \A r \in Request : Past(r)' <=> Past(r)
    BY RequestTypes DEF Past
  <2> QED
    BY <1>1, <2>1 DEF ServerInv, Numbered
<1>3. Preceded'
  BY DEF ServerInv, Preceded
<1>4. AcceptedOnce'
  <2>1. \A r \in Request : Handled(r)' => Handled(r)
    BY DEF Handled
  <2> QED
    BY <1>1, <2>1 DEF ServerInv, AcceptedOnce
<1>5. Handlers'
  <2>1. ASSUME NEW t \in Threads, thread'[t].pc = "handling"
        PROVE  /\ thread'[t].request.op = "change" /\ ~Logged(thread[t].request)'
               /\ \A v \in Threads :
                    thread'[v].pc = "handling" /\ thread'[v].request = thread'[t].request => v = t
    BY <2>1 DEF ServerInv, Handlers, Logged
  <2>2. ASSUME NEW t \in Threads, thread'[t].pc = "answering", thread'[t].request.op = "change"
        PROVE  Logged(thread[t].request)'
    BY <2>2 DEF ServerInv, Handlers, Logged
  <2> QED
    BY <2>1, <2>2 DEF Handlers
<1>6. EffectOnce' /\ OrderKept'
  BY DEF ServerInv, EffectOnce, OrderKept
<1>7. DoneTookEffect'
  BY <1>1 DEF ServerInv, DoneTookEffect, Logged
<1> QED
  BY <1>2, <1>3, <1>4, <1>5, <1>6, <1>7 DEF History

-----------------------------------------------------------------------------
(* The session tables. *)
LEMMA WordFits == ASSUME NEW n \in UInt PROVE S!Word(n) = n
  BY ServerAssumption DEF S!Word, UInt

(* A table stays one when a session is entered in it, or changed in it. *)
LEMMA TableEnter ==
  ASSUME NEW f \in S!SequenceMap, NEW k \in UInt, NEW n \in UInt
  PROVE  [x \in DOMAIN f \cup {k} |-> IF x = k THEN n ELSE f[x]] \in S!SequenceMap
<1>1. PICK X \in SUBSET UInt : f \in [X -> UInt]
  BY DEF S!SequenceMap, S!UInt, UInt
<1>2. [x \in X \cup {k} |-> IF x = k THEN n ELSE f[x]] \in [X \cup {k} -> UInt]
  BY <1>1
<1>3. X \cup {k} \in SUBSET UInt
  OBVIOUS
<1> QED
  BY <1>1, <1>2, <1>3 DEF S!SequenceMap, S!UInt, UInt

LEMMA TableUpdate ==
  ASSUME NEW f \in S!SequenceMap, NEW k \in DOMAIN f, NEW n \in UInt
  PROVE  [f EXCEPT ![k] = n] \in S!SequenceMap
<1>1. PICK X \in SUBSET UInt : f \in [X -> UInt]
  BY DEF S!SequenceMap, S!UInt, UInt
<1>2. [f EXCEPT ![k] = n] \in [X -> UInt]
  BY <1>1
<1> QED
  BY <1>2 DEF S!SequenceMap, S!UInt, UInt

LEMMA TableShape ==
  ASSUME NEW f \in S!SequenceMap
  PROVE  DOMAIN f \subseteq UInt /\ \A k \in DOMAIN f : f[k] \in UInt
<1>1. PICK X \in SUBSET UInt : f \in [X -> UInt]
  BY DEF S!SequenceMap, S!UInt, UInt
<1> QED
  BY <1>1

(* A new session has a number no table holds, so no number is forgotten. *)
LEMMA NewSessionTables ==
  ASSUME Tables, NEW u \in Users, NEW n \in UInt, S!NewSession(u, n)
  PROVE  /\ Tables' /\ SESSION_ID \in UInt
         /\ \A v \in Users : \A k \in DOMAIN sessions[v] :
              k \in DOMAIN sessions'[v] /\ sessions'[v][k] = sessions[v][k]
<1> DEFINE f == [x \in DOMAIN sessions[u] \cup {SESSION_ID} |->
                   IF x = SESSION_ID THEN n ELSE sessions[u][x]]
<1>1. /\ SESSION_ID \in UInt /\ SESSION_ID # UINT_MAX /\ SESSION_ID' = S!Word(SESSION_ID + 1)
      /\ sessions' = [sessions EXCEPT ![u] = f] /\ sessions \in [Users -> S!SequenceMap]
      /\ \A v \in Users : \A k \in DOMAIN sessions[v] : k < SESSION_ID
  <2>1. S!Word(n) = n
    BY WordFits
  <2> QED
    BY <2>1 DEF S!NewSession, S!IdsLeft, Tables
<1>2. SESSION_ID + 1 \in UInt /\ SESSION_ID' = SESSION_ID + 1
  <2>1. SESSION_ID + 1 \in UInt
    BY <1>1, Numbers DEF UInt
  <2> QED
    BY <1>1, <2>1, WordFits
<1>3. f \in S!SequenceMap
  BY <1>1, TableEnter
<1>4. /\ DOMAIN f = DOMAIN sessions[u] \cup {SESSION_ID}
      /\ \A k \in DOMAIN sessions[u] : k # SESSION_ID => f[k] = sessions[u][k]
  OBVIOUS
<1> HIDE DEF f
<1>5. /\ sessions' \in [Users -> S!SequenceMap] /\ sessions'[u] = f
      /\ \A v \in Users \ {u} : sessions'[v] = sessions[v]
  BY <1>1, <1>3
<1>6. \A v \in Users : \A k \in DOMAIN sessions[v] : k \in Nat /\ k < SESSION_ID
  BY <1>1, TableShape, Numbers
<1>7. \A v \in Users : \A k \in DOMAIN sessions'[v] : k < SESSION_ID + 1
  <2> SUFFICES ASSUME NEW v \in Users, NEW k \in DOMAIN sessions'[v] PROVE k < SESSION_ID + 1
    OBVIOUS
  <2>1. k \in DOMAIN sessions[v] \/ k = SESSION_ID
    BY <1>4, <1>5
  <2> QED
    BY <1>1, <1>6, <2>1, Numbers
<1>8. Tables'
  BY <1>2, <1>5, <1>7 DEF Tables
<1>9. \A v \in Users : \A k \in DOMAIN sessions[v] :
        k \in DOMAIN sessions'[v] /\ sessions'[v][k] = sessions[v][k]
  <2> SUFFICES ASSUME NEW v \in Users, NEW k \in DOMAIN sessions[v]
               PROVE  k \in DOMAIN sessions'[v] /\ sessions'[v][k] = sessions[v][k]
    OBVIOUS
  <2>1. k # SESSION_ID
    BY <1>1, <1>6, Numbers
  <2> QED
    BY <1>4, <1>5, <2>1
<1> QED
  BY <1>1, <1>8, <1>9

(* An accepted request was not spent, and is from then on. *)
LEMMA AcceptTables ==
  ASSUME Tables, NEW r \in Request, S!Accept(UserOf[r.client], r.session, r.sequence)
  PROVE  /\ Tables' /\ ~Spent(r) /\ Spent(r)'
         /\ \A q \in Request : Spent(q) => Spent(q)'
<1> DEFINE u == UserOf[r.client]
<1>1. u \in Users /\ r.session \in UInt /\ r.sequence \in UInt /\ r.sequence \in Nat
  BY RequestTypes, Numbers
<1>2. S!Word(r.session) = r.session /\ S!Word(r.sequence) = r.sequence
  BY <1>1, WordFits
<1>3. /\ r.session \in DOMAIN sessions[u] /\ sessions[u][r.session] < r.sequence
      /\ sessions' = [sessions EXCEPT ![u][r.session] = r.sequence]
      /\ SESSION_ID' = SESSION_ID
  BY <1>2 DEF S!Accept, S!Accepts, S!SessionRequest
<1>4. SESSION_ID \in UInt /\ sessions \in [Users -> S!SequenceMap]
      /\ \A v \in Users : \A k \in DOMAIN sessions[v] : k < SESSION_ID
  BY DEF Tables
<1> DEFINE f == [sessions[u] EXCEPT ![r.session] = r.sequence]
<1>5. f \in S!SequenceMap
  BY <1>1, <1>3, <1>4, TableUpdate
<1>6. /\ DOMAIN f = DOMAIN sessions[u] /\ f[r.session] = r.sequence
      /\ \A k \in DOMAIN sessions[u] : k # r.session => f[k] = sessions[u][k]
  BY <1>3
<1>7. sessions' = [sessions EXCEPT ![u] = f]
  BY <1>3
<1> HIDE DEF f
<1>8. /\ sessions' \in [Users -> S!SequenceMap] /\ sessions'[u] = f
      /\ \A v \in Users \ {u} : sessions'[v] = sessions[v]
  BY <1>1, <1>4, <1>5, <1>7
<1>9. Tables'
  BY <1>3, <1>4, <1>6, <1>8 DEF Tables
<1>10. sessions[u][r.session] \in Nat
  BY <1>1, <1>3, <1>4, TableShape, Numbers
<1>11. ~Spent(r) /\ Spent(r)'
  BY <1>1, <1>3, <1>6, <1>8, <1>10 DEF Spent
<1>12. ASSUME NEW q \in Request, Spent(q) PROVE Spent(q)'
  <2> DEFINE v == UserOf[q.client]
  <2>1. v \in Users /\ q.sequence \in Nat /\ q.session \in DOMAIN sessions[v]
        /\ q.sequence <= sessions[v][q.session] /\ sessions[v][q.session] \in Nat
    BY <1>4, <1>12, RequestTypes, TableShape, Numbers DEF Spent
  <2>2. CASE v = u /\ q.session = r.session
    BY <1>1, <1>3, <1>6, <1>8, <1>10, <2>1, <2>2 DEF Spent
  <2>3. CASE v = u /\ q.session # r.session
    BY <1>6, <1>8, <2>1, <2>3 DEF Spent
  <2>4. CASE v # u
    BY <1>8, <2>1, <2>4 DEF Spent
  <2> QED
    BY <2>2, <2>3, <2>4
<1> QED
  BY <1>9, <1>11, <1>12

-----------------------------------------------------------------------------
(* What the tables and Spent speak of is left alone. *)
LEMMA SameTables ==
  ASSUME Tables, UNCHANGED tables
  PROVE  Tables' /\ \A r \in Request : Spent(r) => Spent(r)'
  BY DEF Tables, tables, Spent

(* The process goes on, the thread ends, and nothing is answered. *)
LEMMA CloseStep ==
  ASSUME ServerInv, NEW t \in Threads, thread[t].pc # "idle", CloseSilently(t),
         UNCHANGED tables, residue' = residue \/ Keep(t)
  PROVE  ServerInv'
<1>1. TypeOK /\ Tables /\ thread[t].request \in Request
  BY ThreadTypes DEF ServerInv
<1>2. /\ thread' \in [Threads -> ThreadState] /\ thread'[t] = NoThread
      /\ \A v \in Threads \ {t} : thread'[v] = thread[v]
  BY <1>1, EndThread DEF CloseSilently
<1>3. thread'[t].pc = "idle"
  BY <1>2 DEF NoThread
<1>4. /\ UNCHANGED <<client, log, done, precedes>>
      /\ residue' \subseteq residue \cup {thread[t].request}
  BY DEF CloseSilently, Keep
<1>5. TypeOK'
  <2>1. \A v \in Threads :
          /\ thread'[v].pc # "idle" => thread'[v].request \in Request
          /\ thread'[v].pc = "answering" => thread'[v].session \in UInt
    BY <1>1, <1>2, <1>3 DEF TypeOK
  <2> QED
    BY <1>1, <1>2, <1>4, <2>1 DEF TypeOK
<1>6. \A r \in Request : InPlay(r)' => InPlay(r)
  BY <1>2, <1>3, <1>4 DEF InPlay
<1>7. Tables' /\ \A r \in Request : Spent(r) => Spent(r)'
  BY <1>1, SameTables
<1>8. \A v \in Threads : v # t \/ thread'[v].pc = "idle"
  BY <1>3
<1>9. Numbered' /\ Preceded' /\ AcceptedOnce' /\ Handlers' /\ History'
  BY <1>2, <1>4, <1>6, <1>7, <1>8, QuietStep
<1> QED
  BY <1>5, <1>7, <1>9 DEF ServerInv, History

(* A connection breaks while the thread works on. *)
LEMMA BreakOffStep ==
  ASSUME ServerInv, NEW t \in Threads, BreakOff(t)
  PROVE  ServerInv'
<1> DEFINE s == [thread[t] EXCEPT !.connected = FALSE]
<1>1. TypeOK /\ Tables
  BY DEF ServerInv
<1>2. /\ thread' = [thread EXCEPT ![t].connected = FALSE]
      /\ UNCHANGED <<tables, client, residue, log, done, precedes>>
  BY DEF BreakOff
<1>3. s \in ThreadState /\ thread' = [thread EXCEPT ![t] = s]
  BY <1>1, <1>2 DEF TypeOK, ThreadState
<1>4. s.request = thread[t].request /\ s.pc = thread[t].pc /\ s.session = thread[t].session
  BY <1>1 DEF TypeOK, ThreadState
<1> HIDE DEF s
<1>5. /\ thread' \in [Threads -> ThreadState] /\ thread'[t] = s
      /\ \A v \in Threads \ {t} : thread'[v] = thread[v]
  BY <1>1, <1>3, SetThread
<1>6. \A v \in Threads : /\ thread'[v].request = thread[v].request /\ thread'[v].pc = thread[v].pc
                         /\ thread'[v].session = thread[v].session
  BY <1>4, <1>5
<1>7. TypeOK'
  BY <1>1, <1>2, <1>5, <1>6 DEF TypeOK
<1>8. \A r \in Request : InPlay(r)' => InPlay(r)
  BY <1>2, <1>6 DEF InPlay
<1>9. Tables' /\ \A r \in Request : Spent(r) => Spent(r)'
  BY <1>1, <1>2, SameTables
<1>10. Numbered' /\ Preceded' /\ AcceptedOnce' /\ Handlers' /\ History'
  BY <1>2, <1>6, <1>8, <1>9, QuietStep
<1> QED
  BY <1>7, <1>9, <1>10 DEF ServerInv, History

(* A request is read again from an old buffer. *)
LEMMA ReceiveFailsStep ==
  ASSUME ServerInv, NEW t \in Threads, ReceiveFails(t)
  PROVE  ServerInv'
<1>1. TypeOK /\ Tables
  BY DEF ServerInv
<1>2. PICK r \in residue : thread' = [thread EXCEPT ![t].request = r]
  BY DEF ReceiveFails
<1>3. /\ thread[t].pc = "received" /\ r \in Request
      /\ UNCHANGED <<tables, client, residue, log, done, precedes>>
  BY <1>1, <1>2 DEF ReceiveFails, TypeOK
<1> DEFINE s == [thread[t] EXCEPT !.request = r]
<1>4. s \in ThreadState /\ thread' = [thread EXCEPT ![t] = s]
  BY <1>1, <1>2, <1>3 DEF TypeOK, ThreadState
<1>5. s.request = r /\ s.pc = "received"
  BY <1>1, <1>3 DEF TypeOK, ThreadState
<1> HIDE DEF s
<1>6. /\ thread' \in [Threads -> ThreadState] /\ thread'[t] = s
      /\ \A v \in Threads \ {t} : thread'[v] = thread[v]
  BY <1>1, <1>4, SetThread
<1>7. TypeOK'
  BY <1>1, <1>3, <1>5, <1>6 DEF TypeOK
<1>8. \A q \in Request : InPlay(q)' => InPlay(q)
  BY <1>2, <1>3, <1>5, <1>6 DEF InPlay
<1>9. Tables' /\ \A q \in Request : Spent(q) => Spent(q)'
  BY <1>1, <1>3, SameTables
<1>10. Numbered' /\ Preceded' /\ AcceptedOnce' /\ Handlers' /\ History'
  BY <1>3, <1>5, <1>6, <1>8, <1>9, QuietStep
<1> QED
  BY <1>7, <1>9, <1>10 DEF ServerInv, History

(* fs_session is answered without effect on the disk. *)
LEMMA OpenSessionStep ==
  ASSUME ServerInv, NEW t \in Threads, OpenSession(t)
  PROVE  ServerInv'
<1>1. TypeOK /\ Tables
  BY DEF ServerInv
<1>2. /\ thread[t].pc = "received" /\ thread[t].request.op = "session"
      /\ S!NewSession(User(t), thread[t].request.sequence) /\ Respond(t, SESSION_ID)
      /\ residue' = residue \cup {thread[t].request}
      /\ UNCHANGED <<client, log, done, precedes>>
  BY DEF OpenSession, Step, Keep
<1>3. /\ thread[t].request \in Request /\ thread[t].request.sequence \in UInt /\ User(t) \in Users
  BY <1>1, <1>2, ThreadTypes, RequestTypes, Numbers DEF User
<1>4. /\ Tables' /\ SESSION_ID \in UInt
      /\ \A v \in Users : \A k \in DOMAIN sessions[v] :
           k \in DOMAIN sessions'[v] /\ sessions'[v][k] = sessions[v][k]
  BY <1>1, <1>2, <1>3, NewSessionTables
<1>5. /\ thread' \in [Threads -> ThreadState]
      /\ thread'[t].request = thread[t].request /\ thread'[t].pc = "answering"
      /\ thread'[t].session = SESSION_ID
      /\ \A v \in Threads \ {t} : thread'[v] = thread[v]
  BY <1>1, <1>2, <1>4, RespondThread
<1>6. TypeOK'
  BY <1>1, <1>2, <1>3, <1>4, <1>5 DEF TypeOK
<1>7. \A r \in Request : InPlay(r)' => InPlay(r)
  BY <1>2, <1>5 DEF InPlay
<1>8. \A r \in Request : Spent(r) => Spent(r)'
  <2> SUFFICES ASSUME NEW r \in Request, Spent(r) PROVE Spent(r)'
    OBVIOUS
  <2>1. UserOf[r.client] \in Users
    BY RequestTypes, Numbers
  <2> QED
    BY <1>4, <2>1 DEF Spent
<1>9. Numbered' /\ Preceded' /\ AcceptedOnce' /\ Handlers' /\ History'
  BY <1>2, <1>5, <1>7, <1>8, QuietStep
<1> QED
  BY <1>4, <1>6, <1>9 DEF ServerInv, History

(* An answer, to a client or to nobody. *)
LEMMA AnswerStep ==
  ASSUME ServerInv, NEW t \in Threads, Answer(t)
  PROVE  ServerInv'
<1>1. TypeOK /\ Tables
  BY DEF ServerInv
<1>2. /\ thread[t].pc = "answering" /\ thread' = [thread EXCEPT ![t] = NoThread]
      /\ UNCHANGED <<tables, residue, log, precedes>>
      /\ Return0(t) \/ UNCHANGED <<client, done>>
  BY DEF Answer, Step
<1>3. /\ thread' \in [Threads -> ThreadState] /\ thread'[t] = NoThread
      /\ \A v \in Threads \ {t} : thread'[v] = thread[v]
  BY <1>1, <1>2, EndThread
<1>4. thread'[t].pc = "idle"
  BY <1>3 DEF NoThread
<1>5. /\ thread[t].request \in Request /\ thread[t].request.client \in Clients
      /\ thread[t].session \in UInt
      /\ thread[t].request.op = "change" => Logged(thread[t].request)
  BY <1>1, <1>2, ThreadTypes, RequestTypes DEF ServerInv, Handlers
<1>6. done' \subseteq done \cup {thread[t].request} /\ done \subseteq done'
  BY <1>2 DEF Return0
<1>7. /\ client' \in [Clients -> ClientState]
      /\ \A d \in Clients : client'[d].calls = client[d].calls
  <2> DEFINE c == thread[t].request.client
             s == [client[c] EXCEPT !.session = thread[t].session]
  <2>1. CASE client' = client
    BY <1>1, <2>1 DEF TypeOK
  <2>2. CASE client' = [client EXCEPT ![c].session = thread[t].session]
    <3>1. s \in ClientState /\ s.calls = client[c].calls
      BY <1>1, <1>5 DEF TypeOK, ClientState
    <3>2. client' = [client EXCEPT ![c] = s]
      BY <2>2
    <3> HIDE DEF s
    <3> QED
      BY <1>1, <1>5, <3>1, <3>2 DEF TypeOK
  <2> QED
    BY <1>2, <2>1, <2>2 DEF Return0
<1>8. TypeOK'
  <2>1. \A v \in Threads :
          /\ thread'[v].pc # "idle" => thread'[v].request \in Request
          /\ thread'[v].pc = "answering" => thread'[v].session \in UInt
    BY <1>1, <1>3, <1>4 DEF TypeOK
  <2> QED
    BY <1>1, <1>2, <1>3, <1>5, <1>6, <1>7, <2>1 DEF TypeOK
<1>9. \A r \in Request : InPlay(r)' => InPlay(r)
  BY <1>2, <1>3, <1>4 DEF InPlay
<1>10. Tables' /\ \A r \in Request : Spent(r) => Spent(r)'
  BY <1>1, <1>2, SameTables
<1>11. \A v \in Threads : v # t \/ thread'[v].pc = "idle"
  BY <1>4
<1>12. \A r \in done' \ done : r.op = "change" => Logged(r)
  BY <1>5, <1>6
<1>13. Numbered' /\ Preceded' /\ AcceptedOnce' /\ Handlers' /\ History'
  BY <1>2, <1>3, <1>6, <1>7, <1>9, <1>10, <1>11, <1>12, QuietStep
<1> QED
  BY <1>8, <1>10, <1>13 DEF ServerInv, History

(* A crash forgets all requests in play. *)
LEMMA CrashStep ==
  ASSUME ServerInv, Crash
  PROVE  ServerInv'
<1>1. TypeOK /\ Tables
  BY DEF ServerInv
<1>2. /\ SESSION_ID' = 0 /\ sessions' = [u \in Users |-> S!NoSessions]
      /\ thread' = [t \in Threads |-> NoThread] /\ residue' = {}
      /\ UNCHANGED <<client, log, done, precedes>>
  BY DEF Crash, S!Crash
<1>3. Tables'
  <2>1. S!NoSessions \in S!SequenceMap /\ DOMAIN S!NoSessions = {}
    BY DEF S!NoSessions, S!SequenceMap
  <2> QED
    BY <1>2, <2>1, Numbers DEF Tables
<1>4. \A t \in Threads : /\ thread'[t] = NoThread /\ thread'[t].pc = "idle"
                         /\ thread'[t] \in ThreadState
  BY <1>2 DEF NoThread, ThreadState
<1>5. TypeOK'
  <2>1. thread' \in [Threads -> ThreadState]
    BY <1>2, <1>4
  <2> QED
    BY <1>1, <1>2, <1>4, <2>1 DEF TypeOK
<1>6. \A r \in Request : ~InPlay(r)'
  BY <1>2, <1>4 DEF InPlay
<1>7. Numbered' /\ Preceded' /\ AcceptedOnce' /\ Handlers' /\ History'
  BY <1>2, <1>4, <1>6, QuietStep
<1> QED
  BY <1>3, <1>5, <1>7 DEF ServerInv, History

(* A new call has a sequence number above all that its client used before.   *)
LEMMA CallStep ==
  ASSUME ServerInv, NEW c \in Clients, NEW t \in Threads, Call(c, t)
  PROVE  ServerInv'
<1>0. PICK r : r = NextCall(c)
  OBVIOUS
<1> DEFINE s == [client[c] EXCEPT !.calls = @ + 1]
           n == [request |-> r, pc |-> "received", connected |-> TRUE, session |-> NoSession]
<1>1. TypeOK /\ Tables
  BY DEF ServerInv
<1>2. /\ client[c].calls < MaxCalls
      /\ client' = [client EXCEPT ![c] = s] /\ thread' = [thread EXCEPT ![t] = n]
      /\ precedes' = precedes \cup (done \X {r})
      /\ UNCHANGED <<tables, residue, log, done>>
  BY <1>0 DEF Call
<1>3. /\ client[c].calls \in 0 .. MaxCalls /\ client[c].calls + 1 \in 0 .. MaxCalls
      /\ client[c].session \in UInt \cup {NoSession}
      /\ FirstSequence[c] + client[c].calls \in UInt /\ FirstSequence[c] \in Nat
  BY <1>1, <1>2, ClientTypes, Numbers DEF UInt
<1>4. r \in Request /\ r.client = c /\ r.sequence = FirstSequence[c] + client[c].calls
  BY <1>0, <1>3, Numbers DEF NextCall, Request
<1>5. s \in ClientState /\ s.calls = client[c].calls + 1
  BY <1>1, <1>3 DEF TypeOK, ClientState
<1>6. n \in ThreadState /\ n.request = r /\ n.pc = "received"
  BY <1>4 DEF ThreadState
<1> HIDE DEF s, n
<1>7. /\ client' \in [Clients -> ClientState] /\ client'[c] = s
      /\ \A d \in Clients \ {c} : client'[d] = client[d]
  BY <1>1, <1>2, <1>5 DEF TypeOK
<1>8. /\ thread' \in [Threads -> ThreadState] /\ thread'[t] = n
      /\ \A v \in Threads \ {t} : thread'[v] = thread[v]
  BY <1>1, <1>2, <1>6, SetThread
<1>9. Preceded'
  BY <1>2, <1>4 DEF ServerInv, Preceded
<1>10. TypeOK'
  <2>1. precedes' \subseteq Request \X Request
    BY <1>1, <1>2, <1>9 DEF Preceded, TypeOK
  <2> QED
    BY <1>1, <1>2, <1>4, <1>6, <1>7, <1>8, <2>1 DEF TypeOK
<1>11. Tables' /\ \A q \in Request : Spent(q) => Spent(q)'
  BY <1>1, <1>2, SameTables
<1>12. \A q : Logged(q)' <=> Logged(q)
  BY <1>2 DEF Logged
<1>13. \A q : Handled(q)' => Handled(q)
  BY <1>6, <1>8 DEF Handled
<1>14. \A q \in Request : InPlay(q)' => InPlay(q) \/ q = r
  BY <1>2, <1>6, <1>8 DEF InPlay
<1>15. \A q \in Request : Past(q) => Past(q)'
  <2> SUFFICES ASSUME NEW q \in Request, Past(q) PROVE Past(q)'
    OBVIOUS
  <2>0. q.client \in Clients /\ q.sequence \in Nat
    BY RequestTypes, Numbers
  <2>1. FirstSequence[q.client] \in Nat /\ client[q.client].calls \in Nat
    BY <1>1, <2>0, ClientTypes, Numbers
  <2>2. client'[q.client].calls \in {client[q.client].calls, client[q.client].calls + 1}
    BY <1>5, <1>7, <2>0
  <2> QED
    BY <2>0, <2>1, <2>2 DEF Past
<1>16. ~Past(r) /\ Past(r)'
  <2>1. client[c].calls \in Nat /\ client'[c].calls = client[c].calls + 1
    BY <1>3, <1>5, <1>7
  <2>2. r.client = c /\ r.sequence = FirstSequence[c] + client[c].calls /\ FirstSequence[c] \in Nat
    BY <1>3, <1>4
  <2> QED
    BY <2>1, <2>2 DEF Past
<1>17. Numbered'
  <2> SUFFICES ASSUME NEW q \in Request, InPlay(q)' \/ Logged(q)' PROVE Past(q)'
    BY DEF Numbered
  <2>1. InPlay(q) \/ Logged(q) \/ q = r
    BY <1>12, <1>14
  <2>2. Past(q) \/ q = r
    BY <2>1 DEF ServerInv, Numbered
  <2> QED
    BY <1>15, <1>16, <2>2
<1>18. AcceptedOnce'
  <2> SUFFICES ASSUME NEW q \in Request, InPlay(q)', q.op = "change", Logged(q)' \/ Handled(q)'
               PROVE  Spent(q)'
    BY DEF AcceptedOnce
  <2>1. Logged(q) \/ Handled(q)
    BY <1>12, <1>13
  <2>2. Past(q)
    BY <2>1 DEF ServerInv, Numbered, Handled, InPlay
  <2>3. InPlay(q)
    BY <1>14, <1>16, <2>2
  <2> QED
    BY <1>11, <2>1, <2>3 DEF ServerInv, AcceptedOnce
<1>19. Handlers'
  <2>1. \A v \in Threads : thread'[v].pc \in {"handling", "answering"} => v # t
    BY <1>6, <1>8
  <2> QED
    BY <1>2, <1>8, <2>1 DEF ServerInv, Handlers, Logged
<1>20. EffectOnce' /\ DoneTookEffect'
  BY <1>2 DEF ServerInv, EffectOnce, DoneTookEffect
<1>21. OrderKept'
  <2>1. ~Logged(r)
    BY <1>4, <1>16 DEF ServerInv, Numbered
  <2> SUFFICES ASSUME NEW i \in DOMAIN log, NEW j \in DOMAIN log, i < j
               PROVE  <<log[j], log[i]>> \notin precedes'
    BY <1>2 DEF OrderKept
  <2>2. log[i] # r
    BY <2>1 DEF Logged
  <2>3. <<log[j], log[i]>> \notin precedes
    BY DEF ServerInv, OrderKept
  <2> QED
    BY <1>2, <2>2, <2>3
<1> QED
  BY <1>9, <1>10, <1>11, <1>17, <1>18, <1>19, <1>20, <1>21 DEF ServerInv

(* What is accepted has not been accepted since the start; had it been       *)
(* before, the crash would have taken it out of play.                       *)
LEMMA AcceptStep ==
  ASSUME ServerInv, NEW t \in Threads, AcceptRequest(t)
  PROVE  ServerInv'
<1>0. PICK r : r = thread[t].request
  OBVIOUS
<1> DEFINE s == [thread[t] EXCEPT !.pc = "handling"]
<1>1. TypeOK /\ Tables
  BY DEF ServerInv
<1>2. /\ thread[t].pc = "received" /\ r.op = "change"
      /\ S!Accept(UserOf[r.client], r.session, r.sequence)
      /\ thread' = [thread EXCEPT ![t].pc = "handling"]
      /\ residue' = residue \cup {r} /\ UNCHANGED <<client, log, done, precedes>>
  BY <1>0 DEF AcceptRequest, Step, User, Keep
<1>3. r \in Request /\ InPlay(r)
  BY <1>0, <1>1, <1>2, ThreadTypes DEF InPlay
<1>4. s \in ThreadState /\ thread' = [thread EXCEPT ![t] = s]
  BY <1>1, <1>2 DEF TypeOK, ThreadState
<1>5. s.request = r /\ s.pc = "handling"
  BY <1>0, <1>1 DEF TypeOK, ThreadState
<1> HIDE DEF s
<1>6. /\ thread' \in [Threads -> ThreadState] /\ thread'[t] = s
      /\ \A v \in Threads \ {t} : thread'[v] = thread[v]
  BY <1>1, <1>4, SetThread
<1>7. TypeOK'
  BY <1>1, <1>2, <1>3, <1>5, <1>6 DEF TypeOK
<1>8. /\ Tables' /\ ~Spent(r) /\ Spent(r)' /\ \A q \in Request : Spent(q) => Spent(q)'
  BY <1>1, <1>2, <1>3, AcceptTables
<1>9. \A q : Logged(q)' <=> Logged(q)
  BY <1>2 DEF Logged
<1>10. ~Logged(r) /\ ~Handled(r)
  BY <1>2, <1>3, <1>8 DEF ServerInv, AcceptedOnce
<1>11. \A q \in Request : InPlay(q)' => InPlay(q)
  BY <1>2, <1>3, <1>5, <1>6 DEF InPlay
<1>12. Numbered'
  <2>1. \A q : Past(q)' <=> Past(q)
    BY <1>2 DEF Past
  <2> QED
    BY <1>2, <1>9, <1>11, <2>1 DEF ServerInv, Numbered
<1>13. Preceded'
  BY <1>2 DEF ServerInv, Preceded
<1>14. AcceptedOnce'
  <2>1. \A q : Handled(q)' => Handled(q) \/ q = r
    BY <1>5, <1>6 DEF Handled
  <2> SUFFICES ASSUME NEW q \in Request, InPlay(q)', q.op = "change", Logged(q)' \/ Handled(q)'
               PROVE  Spent(q)'
    BY DEF AcceptedOnce
  <2>2. InPlay(q) /\ (Logged(q) \/ Handled(q) \/ q = r)
    BY <1>9, <1>11, <2>1
  <2>3. Spent(q) \/ q = r
    BY <2>2 DEF ServerInv, AcceptedOnce
  <2> QED
    BY <1>8, <2>3
<1>15. Handlers'
  <2>1. ASSUME NEW v \in Threads, thread'[v].pc = "handling"
        PROVE  /\ thread'[v].request.op = "change" /\ ~Logged(thread[v].request)'
               /\ \A w \in Threads :
                    thread'[w].pc = "handling" /\ thread'[w].request = thread'[v].request => w = v
    <3>1. \A w \in Threads \ {t} : thread'[w].pc = "handling" => thread'[w].request # r
      BY <1>6, <1>10 DEF Handled
    <3>2. CASE v = t
      BY <1>2, <1>5, <1>6, <1>10, <3>1, <3>2 DEF Logged
    <3>3. CASE v # t
      BY <1>2, <1>5, <1>6, <2>1, <3>1, <3>3 DEF ServerInv, Handlers, Logged
    <3> QED
      BY <3>2, <3>3
  <2>2. ASSUME NEW v \in Threads, thread'[v].pc = "answering", thread'[v].request.op = "change"
        PROVE  Logged(thread[v].request)'
    BY <1>2, <1>5, <1>6, <2>2 DEF ServerInv, Handlers, Logged
  <2> QED
    BY <2>1, <2>2 DEF Handlers
<1>16. History'
  BY <1>2 DEF ServerInv, History, EffectOnce, DoneTookEffect, OrderKept
<1> QED
  BY <1>7, <1>8, <1>12, <1>13, <1>14, <1>15, <1>16 DEF ServerInv, History

(* The log after one more effect. *)
LEMMA LogGrows ==
  ASSUME NEW R, NEW l \in Seq(R), NEW r \in R
  PROVE  /\ Append(l, r) \in Seq(R) /\ DOMAIN Append(l, r) = DOMAIN l \cup {Len(l) + 1}
         /\ Len(l) \in Nat /\ DOMAIN l = 1 .. Len(l)
         /\ \A i \in DOMAIN l : Append(l, r)[i] = l[i] /\ l[i] \in R
         /\ Append(l, r)[Len(l) + 1] = r
  OBVIOUS

(* What takes effect has not done so before, so it has not returned 0, and   *)
(* nothing that is in the log was called after that.                        *)
LEMMA TakeEffectStep ==
  ASSUME ServerInv, NEW t \in Threads, TakeEffect(t)
  PROVE  ServerInv'
<1>0. PICK r : r = thread[t].request
  OBVIOUS
<1>1. TypeOK /\ Tables
  BY DEF ServerInv
<1>2. /\ thread[t].pc = "handling" /\ log' = Append(log, r) /\ Respond(t, r.session)
      /\ UNCHANGED <<tables, client, residue, done, precedes>>
  BY <1>0 DEF TakeEffect, Step
<1>3. r \in Request /\ InPlay(r) /\ r.session \in UInt /\ Handled(r)
  BY <1>0, <1>1, <1>2, ThreadTypes, RequestTypes DEF InPlay, Handled
<1>4. r.op = "change" /\ ~Logged(r)
  BY <1>0, <1>2 DEF ServerInv, Handlers
<1>5. PICK n \in Nat : /\ log' \in Seq(Request) /\ DOMAIN log = 1 .. n /\ DOMAIN log' = 1 .. n + 1
                       /\ \A i \in 1 .. n : log'[i] = log[i] /\ log[i] \in Request
                       /\ log'[n + 1] = r
  <2>1. log \in Seq(Request)
    BY <1>1 DEF TypeOK
  <2>2. /\ log' \in Seq(Request) /\ DOMAIN log' = DOMAIN log \cup {Len(log) + 1}
        /\ Len(log) \in Nat /\ DOMAIN log = 1 .. Len(log)
        /\ \A i \in DOMAIN log : log'[i] = log[i] /\ log[i] \in Request
        /\ log'[Len(log) + 1] = r
    BY <1>2, <1>3, <2>1, LogGrows
  <2>3. 1 .. Len(log) + 1 = DOMAIN log \cup {Len(log) + 1}
    BY <2>2
  <2> QED
    BY <2>2, <2>3
<1>6. /\ thread' \in [Threads -> ThreadState]
      /\ thread'[t].request = r /\ thread'[t].pc = "answering"
      /\ thread'[t].session = r.session
      /\ \A v \in Threads \ {t} : thread'[v] = thread[v]
  BY <1>0, <1>1, <1>2, <1>3, RespondThread
<1>7. TypeOK'
  BY <1>1, <1>2, <1>3, <1>5, <1>6 DEF TypeOK
<1>8. Tables' /\ \A q \in Request : Spent(q) => Spent(q)'
  BY <1>1, <1>2, SameTables
<1>9. \A q : Logged(q)' <=> Logged(q) \/ q = r
  <2> SUFFICES ASSUME NEW q PROVE Logged(q)' <=> Logged(q) \/ q = r
    OBVIOUS
  <2>1. ASSUME Logged(q)' PROVE Logged(q) \/ q = r
    <3>1. PICK i \in 1 .. n + 1 : log'[i] = q
      BY <1>5, <2>1 DEF Logged
    <3>2. CASE i = n + 1
      BY <1>5, <3>1, <3>2
    <3>3. CASE i \in 1 .. n
      <4>1. i \in DOMAIN log /\ log[i] = q
        BY <1>5, <3>1, <3>3
      <4> QED
        BY <4>1 DEF Logged
    <3> QED
      BY <3>2, <3>3
  <2>2. ASSUME Logged(q) PROVE Logged(q)'
    <3>1. PICK i \in 1 .. n : log[i] = q
      BY <1>5, <2>2 DEF Logged
    <3>2. i \in 1 .. n + 1
      OBVIOUS
    <3> QED
      BY <1>5, <3>1, <3>2 DEF Logged
  <2>3. ASSUME q = r PROVE Logged(q)'
    <3>1. n + 1 \in DOMAIN log' /\ log'[n + 1] = q
      BY <1>5, <2>3
    <3> QED
      BY <3>1 DEF Logged
  <2> QED
    BY <2>1, <2>2, <2>3
<1>10. \A q \in Request : InPlay(q)' <=> InPlay(q)
  BY <1>0, <1>2, <1>6 DEF InPlay
<1>11. Numbered'
  <2>1. \A q : Past(q)' <=> Past(q)
    BY <1>2 DEF Past
  <2> QED
    BY <1>2, <1>3, <1>9, <1>10, <2>1 DEF ServerInv, Numbered
<1>12. Preceded'
  BY <1>2 DEF ServerInv, Preceded
<1>13. AcceptedOnce'
  <2>1. \A q : Handled(q)' => Handled(q)
    BY <1>6 DEF Handled
  <2> QED
    BY <1>3, <1>8, <1>9, <1>10, <2>1 DEF ServerInv, AcceptedOnce
<1>14. Handlers'
  <2>1. \A v \in Threads : thread'[v].pc = "handling" =>
          v # t /\ thread'[v] = thread[v] /\ thread[v].request # r
    BY <1>0, <1>2, <1>6 DEF ServerInv, Handlers
  <2>2. ASSUME NEW v \in Threads, thread'[v].pc = "handling"
        PROVE  /\ thread'[v].request.op = "change" /\ ~Logged(thread[v].request)'
               /\ \A w \in Threads :
                    thread'[w].pc = "handling" /\ thread'[w].request = thread'[v].request => w = v
    <3>1. ~Logged(thread[v].request) /\ thread[v].request # r /\ thread'[v] = thread[v]
      BY <2>1, <2>2 DEF ServerInv, Handlers
    <3>2. PICK q : q = thread[v].request /\ q = thread'[v].request
      BY <3>1
    <3>3. ~Logged(q)'
      BY <1>9, <3>1, <3>2
    <3>4. ~Logged(thread[v].request)'
      BY <3>2, <3>3 DEF Logged
    <3> QED
      BY <2>1, <2>2, <3>4 DEF ServerInv, Handlers
  <2>3. ASSUME NEW v \in Threads, thread'[v].pc = "answering", thread'[v].request.op = "change"
        PROVE  Logged(thread[v].request)'
    <3>1. PICK q : q = thread'[v].request
      OBVIOUS
    <3>2. q = r \/ Logged(q)
      BY <1>6, <2>3, <3>1 DEF ServerInv, Handlers
    <3>3. Logged(q)'
      BY <1>9, <3>2
    <3> QED
      BY <3>1, <3>3 DEF Logged
  <2> QED
    BY <2>2, <2>3 DEF Handlers
<1>15. EffectOnce'
  BY <1>4, <1>5 DEF ServerInv, EffectOnce, Logged
<1>16. DoneTookEffect'
  BY <1>2, <1>5 DEF ServerInv, DoneTookEffect
<1>17. OrderKept'
  <2> SUFFICES ASSUME NEW i \in 1 .. n + 1, NEW j \in 1 .. n + 1, i < j
               PROVE  <<log'[j], log'[i]>> \notin precedes
    BY <1>2, <1>5 DEF OrderKept
  <2>1. CASE j \in 1 .. n
    BY <1>5, <2>1 DEF ServerInv, OrderKept
  <2>2. CASE j = n + 1
    <3>1. r \notin done
      BY <1>4 DEF ServerInv, DoneTookEffect, Logged
    <3>2. log'[j] = r
      BY <1>5, <2>2
    <3> QED
      BY <3>1, <3>2 DEF ServerInv, Preceded
  <2> QED
    BY <2>1, <2>2
<1> QED
  BY <1>7, <1>8, <1>11, <1>12, <1>13, <1>14, <1>15, <1>16, <1>17 DEF ServerInv

-----------------------------------------------------------------------------
(* Before the first call there is nothing in play. *)
LEMMA InitServer == Init => ServerInv
<1> SUFFICES ASSUME Init PROVE ServerInv
  OBVIOUS
<1>1. TypeOK
  <2>1. NoThread \in ThreadState
    BY DEF NoThread, ThreadState
  <2>2. [session |-> NoSession, calls |-> 0] \in ClientState
    BY Numbers DEF ClientState
  <2> QED
    BY <2>1, <2>2 DEF Init, TypeOK, NoThread
<1>2. \A t \in Threads : thread[t].pc = "idle"
  BY DEF Init, NoThread
<1>3. Tables
  <2>1. S!NoSessions \in S!SequenceMap /\ DOMAIN S!NoSessions = {}
    BY DEF S!NoSessions, S!SequenceMap
  <2> QED
    BY <2>1, Numbers DEF Init, S!Init, Tables
<1>4. \A r : ~InPlay(r) /\ ~Logged(r)
  BY <1>2 DEF Init, InPlay, Logged
<1>5. Numbered /\ Preceded /\ AcceptedOnce /\ Handlers
  BY <1>2, <1>4 DEF Init, Numbered, Preceded, AcceptedOnce, Handlers
<1>6. EffectOnce /\ DoneTookEffect /\ OrderKept
  BY DEF Init, EffectOnce, DoneTookEffect, OrderKept
<1> QED
  BY <1>1, <1>3, <1>5, <1>6 DEF ServerInv

(* A step in which nothing changes. *)
LEMMA IdleStep ==
  ASSUME ServerInv, UNCHANGED vars
  PROVE  ServerInv'
<1>1. TypeOK' /\ Tables'
  BY DEF ServerInv, vars, tables, TypeOK, Tables
<1>2. Numbered' /\ Preceded' /\ AcceptedOnce' /\ Handlers'
  BY DEF ServerInv, vars, tables, Numbered, Preceded, AcceptedOnce, Handlers, InPlay, Logged,
         Handled, Past, Spent
<1>3. EffectOnce' /\ DoneTookEffect' /\ OrderKept'
  BY DEF ServerInv, vars, EffectOnce, DoneTookEffect, OrderKept
<1> QED
  BY <1>1, <1>2, <1>3 DEF ServerInv

(* Each step of a thread. *)
LEMMA ServeStep ==
  ASSUME ServerInv, NEW t \in Threads, Serve(t)
  PROVE  ServerInv'
<1>1. CASE RequestLost(t)
  BY <1>1, CloseStep DEF RequestLost, Step
<1>2. CASE OpenSession(t)
  BY <1>2, OpenSessionStep
<1>3. CASE NoMoreSessions(t)
  BY <1>3, CloseStep DEF NoMoreSessions, Step
<1>4. CASE AcceptRequest(t)
  BY <1>4, AcceptStep
<1>5. CASE RejectRequest(t)
  BY <1>5, CloseStep DEF RejectRequest, Step, S!Reject, S!vars, tables
<1>6. CASE TakeEffect(t)
  BY <1>6, TakeEffectStep
<1>7. CASE Fail(t)
  BY <1>7, CloseStep DEF Fail, Step
<1>8. CASE Answer(t)
  BY <1>8, AnswerStep
<1> QED
  BY <1>1, <1>2, <1>3, <1>4, <1>5, <1>6, <1>7, <1>8 DEF Serve

(* Every step keeps the invariant. *)
LEMMA NextServer == ServerInv /\ [Next]_vars => ServerInv'
<1> SUFFICES ASSUME ServerInv, [Next]_vars PROVE ServerInv'
  OBVIOUS
<1>1. CASE \E c \in Clients, t \in Threads : Call(c, t)
  BY <1>1, CallStep
<1>2. CASE \E t \in Threads : BreakOff(t) \/ ReceiveFails(t) \/ Serve(t)
  BY <1>2, BreakOffStep, ReceiveFailsStep, ServeStep
<1>3. CASE Crash
  BY <1>3, CrashStep
<1>4. CASE Idle \/ UNCHANGED vars
  BY <1>4, IdleStep DEF Idle
<1> QED
  BY <1>1, <1>2, <1>3, <1>4 DEF Next

LEMMA ServerInvariant == Spec => []ServerInv
  BY InitServer, NextServer, PTL DEF Spec

(* The types, and that a thread with an answer has a session to report.      *)
THEOREM ServerTypes == Spec => []TypeOK
<1>1. ServerInv => TypeOK
  BY DEF ServerInv
<1> QED
  BY ServerInvariant, <1>1, PTL

(* A call takes effect at most once: whatever breaks, whatever is read again *)
(* from an old buffer, and over restarts that forget all sessions.          *)
THEOREM ServerEffectOnce == Spec => []EffectOnce
<1>1. ServerInv => EffectOnce
  BY DEF ServerInv
<1> QED
  BY ServerInvariant, <1>1, PTL

(* A call that returned 0 has taken effect. *)
THEOREM ServerDoneTookEffect == Spec => []DoneTookEffect
<1>1. ServerInv => DoneTookEffect
  BY DEF ServerInv
<1> QED
  BY ServerInvariant, <1>1, PTL

(* What is called after another call has returned 0 takes effect after it,   *)
(* over all repetitions and restarts and whatever else is in flight.        *)
THEOREM ServerOrderKept == Spec => []OrderKept
<1>1. ServerInv => OrderKept
  BY DEF ServerInv
<1> QED
  BY ServerInvariant, <1>1, PTL
=============================================================================
