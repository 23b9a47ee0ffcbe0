---------------------------- MODULE Sessions_proofs ----------------------------
(***************************************************************************)
(* Proofs about Sessions.  The properties speak of what was accepted and    *)
(* opened; SessionInv ties both histories to the tables the code keeps.     *)
(***************************************************************************)
EXTENDS Sessions, TLAPS

(* Sessions are numbered in the order they are opened, all below the next   *)
(* number, and each is in its user's table.                                 *)
OpenedInOrder ==
  /\ \A j \in 1 .. Len(opened) : /\ opened[j].session < SESSION_ID
                                 /\ opened[j].session \in DOMAIN sessions[opened[j].user]
  /\ \A i, j \in 1 .. Len(opened) : i < j => opened[i].session < opened[j].session

(* The tables hold no other session. *)
TablesOpened ==
  \A u \in Users : \A s \in DOMAIN sessions[u] :
    \E j \in 1 .. Len(opened) : opened[j].session = s /\ opened[j].user = u

(* The table keeps, for each session, at least the last sequence accepted.  *)
TablesAhead ==
  \A i \in 1 .. Len(accepted) :
    /\ accepted[i].session \in DOMAIN sessions[accepted[i].user]
    /\ accepted[i].sequence <= sessions[accepted[i].user][accepted[i].session]

SessionInv == TypeOK /\ OpenedInOrder /\ TablesOpened /\ TablesAhead /\ SequencesIncrease

-----------------------------------------------------------------------------
(* Words are unsigned ints, and one that fits is left as it is. *)
LEMMA WordType == ASSUME NEW n \in Nat PROVE Word(n) \in UInt
  BY SessionsAssumption DEF Word, UInt

LEMMA WordFits == ASSUME NEW n \in UInt PROVE Word(n) = n
  BY SessionsAssumption DEF Word, UInt

(* A table stays one when a session is entered, or entered again. *)
LEMMA TableEnter ==
  ASSUME NEW f \in SequenceMap, NEW s \in UInt, NEW n \in UInt
  PROVE  [r \in DOMAIN f \cup {s} |-> IF r = s THEN n ELSE f[r]] \in SequenceMap
<1>1. PICK S \in SUBSET UInt : f \in [S -> UInt]
  BY DEF SequenceMap
<1>2. [r \in S \cup {s} |-> IF r = s THEN n ELSE f[r]] \in [S \cup {s} -> UInt]
  BY <1>1
<1>3. S \cup {s} \in SUBSET UInt
  OBVIOUS
<1> QED
  BY <1>1, <1>2, <1>3 DEF SequenceMap

(* So it does when its sequence changes. *)
LEMMA TableUpdate ==
  ASSUME NEW f \in SequenceMap, NEW s \in DOMAIN f, NEW n \in UInt
  PROVE  [f EXCEPT ![s] = n] \in SequenceMap
<1>1. PICK S \in SUBSET UInt : f \in [S -> UInt]
  BY DEF SequenceMap
<1>2. [f EXCEPT ![s] = n] \in [S -> UInt]
  BY <1>1
<1> QED
  BY <1>2 DEF SequenceMap

(* A table maps unsigned ints to unsigned ints. *)
LEMMA TableShape ==
  ASSUME NEW f \in SequenceMap
  PROVE  DOMAIN f \subseteq UInt /\ \A s \in DOMAIN f : f[s] \in UInt
<1>1. PICK S \in SUBSET UInt : f \in [S -> UInt]
  BY DEF SequenceMap
<1> QED
  BY <1>1

(* An entry of a history has the type of the history's entries; appending   *)
(* one leaves the others where they are.                                    *)
LEMMA HistoryEntry ==
  ASSUME NEW S, NEW h \in Seq(S), NEW i \in 1 .. Len(h)
  PROVE  h[i] \in S
  OBVIOUS

LEMMA HistoryAppend ==
  ASSUME NEW S, NEW h \in Seq(S), NEW e \in S
  PROVE  /\ Append(h, e) \in Seq(S)
         /\ Len(Append(h, e)) = Len(h) + 1 /\ Len(h) \in Nat
         /\ \A i \in 1 .. Len(h) : Append(h, e)[i] = h[i]
         /\ Append(h, e)[Len(h) + 1] = e
  OBVIOUS

Openings    == [user : Users, session : UInt]
Acceptances == [user : Users, session : UInt, sequence : UInt]

(* The histories' types. *)
LEMMA HistoryTypes ==
  ASSUME TypeOK
  PROVE  /\ opened \in Seq(Openings) /\ accepted \in Seq(Acceptances)
         /\ \A j \in 1 .. Len(opened) : opened[j] \in Openings
         /\ \A i \in 1 .. Len(accepted) : accepted[i] \in Acceptances
<1>1. opened \in Seq(Openings) /\ accepted \in Seq(Acceptances)
  BY DEF TypeOK, Openings, Acceptances
<1> QED
  BY <1>1, HistoryEntry

(* Two sessions with the same number are the same session, and one user's. *)
LEMMA SessionsUnique ==
  ASSUME SessionInv
  PROVE  IdsUnique
<1>1. \A j \in 1 .. Len(opened) : opened[j].session \in Nat
  BY HistoryTypes, SessionsAssumption DEF SessionInv, Openings, UInt
<1> SUFFICES ASSUME NEW i \in 1 .. Len(opened), NEW j \in 1 .. Len(opened),
                    opened[i].session = opened[j].session
             PROVE  i = j
  BY DEF IdsUnique
<1>2. ~(i < j) /\ ~(j < i)
  BY <1>1 DEF SessionInv, OpenedInOrder
<1> QED
  BY <1>2

-----------------------------------------------------------------------------
(* No session is open before the first start. *)
LEMMA InitSessions == Init => SessionInv
<1> SUFFICES ASSUME Init PROVE SessionInv
  OBVIOUS
<1>1. NoSessions \in SequenceMap
  BY DEF NoSessions, SequenceMap
<1>2. TypeOK
  BY <1>1, SessionsAssumption DEF Init, TypeOK, UInt
<1>3. OpenedInOrder /\ TablesAhead /\ SequencesIncrease
  BY DEF Init, OpenedInOrder, TablesAhead, SequencesIncrease
<1>4. TablesOpened
  BY DEF Init, TablesOpened, NoSessions
<1> QED
  BY <1>2, <1>3, <1>4 DEF SessionInv

(* Opening a session preserves SessionInv: its number is new. *)
LEMMA NewSessionInv ==
  ASSUME SessionInv, NEW u \in Users, NEW sequence \in Wire, NewSession(u, sequence)
  PROVE  SessionInv'
<1> DEFINE id    == SESSION_ID
           table == [s \in DOMAIN sessions[u] \cup {id} |->
                       IF s = id THEN Word(sequence) ELSE sessions[u][s]]
           entry == [user |-> u, session |-> id]
<1>1. id \in UInt /\ id # UINT_MAX /\ Word(sequence) \in UInt /\ sessions[u] \in SequenceMap
  BY WordType, SessionsAssumption DEF SessionInv, TypeOK, NewSession, IdsLeft, Wire
<1>2. SESSION_ID' = id + 1 /\ id + 1 \in UInt
  BY <1>1, WordFits, SessionsAssumption DEF NewSession, UInt
<1>3. table \in SequenceMap
  BY <1>1, TableEnter
<1>4. sessions' = [sessions EXCEPT ![u] = table] /\ sessions \in [Users -> SequenceMap]
  BY DEF NewSession, SessionInv, TypeOK
<1>5. /\ opened' = Append(opened, entry) /\ opened \in Seq(Openings)
      /\ entry \in Openings
      /\ accepted' = accepted /\ accepted \in Seq(Acceptances)
  BY <1>1, HistoryTypes DEF NewSession, SessionInv, Openings
<1>6. TypeOK'
  <2>1. opened' \in Seq(Openings)
    BY <1>5, HistoryAppend
  <2> QED
    BY <1>2, <1>3, <1>4, <1>5, <2>1 DEF TypeOK, SessionInv, NewSession, Openings, Acceptances
<1>7. \A v \in Users : /\ DOMAIN sessions[v] \subseteq DOMAIN sessions'[v]
                       /\ DOMAIN sessions'[v] \subseteq DOMAIN sessions[v]
                             \cup (IF v = u THEN {id} ELSE {})
  BY <1>4
<1>8. id \in DOMAIN sessions'[u]
  BY <1>4
<1> HIDE DEF table
<1>9. /\ Len(opened') = Len(opened) + 1 /\ Len(opened) \in Nat
      /\ \A j \in 1 .. Len(opened) : opened'[j] = opened[j] /\ opened[j] \in Openings
      /\ opened'[Len(opened) + 1] = entry
  BY <1>5, HistoryAppend, HistoryEntry
<1>10. OpenedInOrder'
  <2>1. ASSUME NEW j \in 1 .. Len(opened')
        PROVE  opened'[j].session < SESSION_ID' /\ opened'[j].session \in DOMAIN sessions'[opened'[j].user]
    <3>1. CASE j = Len(opened) + 1
      BY <1>1, <1>2, <1>8, <1>9, <3>1 DEF UInt
    <3>2. CASE j \in 1 .. Len(opened)
      <4>1. opened[j].session < id /\ opened[j].session \in DOMAIN sessions[opened[j].user]
        BY <3>2 DEF SessionInv, OpenedInOrder
      <4> QED
        BY <1>1, <1>2, <1>7, <1>9, <3>2, <4>1 DEF Openings, UInt
    <3> QED
      BY <1>9, <3>1, <3>2
  <2>2. ASSUME NEW i \in 1 .. Len(opened'), NEW j \in 1 .. Len(opened'), i < j
        PROVE  opened'[i].session < opened'[j].session
    <3>1. i \in 1 .. Len(opened)
      BY <1>9, <2>2
    <3> QED
      BY <1>9, <2>2, <3>1 DEF SessionInv, OpenedInOrder
  <2> QED
    BY <2>1, <2>2 DEF OpenedInOrder
<1>11. TablesOpened'
  <2> SUFFICES ASSUME NEW v \in Users, NEW s \in DOMAIN sessions'[v]
               PROVE  \E j \in 1 .. Len(opened') : opened'[j].session = s /\ opened'[j].user = v
    BY DEF TablesOpened
  <2>1. CASE s \in DOMAIN sessions[v]
    <3>1. PICK j \in 1 .. Len(opened) : opened[j].session = s /\ opened[j].user = v
      BY <2>1 DEF SessionInv, TablesOpened
    <3> QED
      BY <1>9, <3>1
  <2>2. CASE v = u /\ s = id
    BY <1>9, <2>2
  <2> QED
    BY <1>7, <2>1, <2>2
<1>12. TablesAhead'
  <2> SUFFICES ASSUME NEW i \in 1 .. Len(accepted)
               PROVE  /\ accepted[i].session \in DOMAIN sessions'[accepted[i].user]
                      /\ accepted[i].sequence <= sessions'[accepted[i].user][accepted[i].session]
    BY <1>5 DEF TablesAhead
  <2>1. /\ accepted[i].user \in Users
        /\ accepted[i].session \in DOMAIN sessions[accepted[i].user]
        /\ accepted[i].sequence <= sessions[accepted[i].user][accepted[i].session]
    BY HistoryTypes DEF SessionInv, TablesAhead, Acceptances
  <2>2. accepted[i].session # id
    <3>1. PICK j \in 1 .. Len(opened) : opened[j].session = accepted[i].session
      BY <2>1 DEF SessionInv, TablesOpened
    <3> QED
      BY <1>1, <1>9, <3>1 DEF SessionInv, OpenedInOrder, UInt
  <2>3. sessions'[accepted[i].user][accepted[i].session]
          = sessions[accepted[i].user][accepted[i].session]
    BY <1>4, <2>1, <2>2 DEF table
  <2> QED
    BY <1>7, <2>1, <2>3
<1>13. SequencesIncrease'
  BY <1>5 DEF SessionInv, SequencesIncrease
<1> QED
  BY <1>6, <1>10, <1>11, <1>12, <1>13 DEF SessionInv

(* So does accepting a request: it is later than all accepted before. *)
LEMMA AcceptInv ==
  ASSUME SessionInv, NEW u \in Users, NEW session \in Wire, NEW sequence \in Wire,
         Accept(u, session, sequence)
  PROVE  SessionInv'
<1> DEFINE id    == Word(session)
           new   == Word(sequence)
           entry == [user |-> u, session |-> id, sequence |-> new]
<1>1. id \in UInt /\ new \in UInt
  BY WordType, SessionsAssumption DEF Accept, Accepts, Wire
<1>2. id \in DOMAIN sessions[u] /\ sessions[u][id] < new
  BY DEF Accept, Accepts, SessionRequest
<1>3. /\ sessions' = [sessions EXCEPT ![u][id] = new] /\ sessions \in [Users -> SequenceMap]
      /\ UNCHANGED <<SESSION_ID, opened, crashes>>
  BY DEF Accept, SessionInv, TypeOK
<1>4. /\ accepted' = Append(accepted, entry)
      /\ accepted \in Seq(Acceptances) /\ entry \in Acceptances
  BY <1>1, HistoryTypes DEF Accept, SessionInv, Acceptances
<1> HIDE DEF id, new
<1>5. [sessions[u] EXCEPT ![id] = new] \in SequenceMap
  BY <1>1, <1>2, <1>3, TableUpdate
<1>6. sessions' \in [Users -> SequenceMap]
  BY <1>3, <1>5
<1>7. TypeOK'
  <2>1. accepted' \in Seq(Acceptances)
    BY <1>4, HistoryAppend
  <2> QED
    BY <1>3, <1>6, <2>1 DEF TypeOK, SessionInv, Acceptances
<1>8. \A v \in Users : DOMAIN sessions'[v] = DOMAIN sessions[v]
  BY <1>3
<1>9. \A v \in Users : \A s \in DOMAIN sessions[v] :
        sessions'[v][s] = IF v = u /\ s = id THEN new ELSE sessions[v][s]
  BY <1>3
<1>10. /\ Len(accepted') = Len(accepted) + 1 /\ Len(accepted) \in Nat
       /\ \A i \in 1 .. Len(accepted) :
            accepted'[i] = accepted[i] /\ accepted[i] \in Acceptances
       /\ accepted'[Len(accepted) + 1] = entry
  BY <1>4, HistoryAppend, HistoryEntry
<1>11. OpenedInOrder'
  <2>1. \A j \in 1 .. Len(opened) : opened[j].user \in Users
    BY HistoryTypes DEF SessionInv, Openings
  <2> QED
    BY <1>3, <1>8, <2>1 DEF SessionInv, OpenedInOrder
<1>12. TablesOpened'
  BY <1>3, <1>8 DEF SessionInv, TablesOpened
<1>13. sessions[u][id] \in UInt
  BY <1>2, <1>3, TableShape
<1>14. TablesAhead'
  <2> SUFFICES ASSUME NEW i \in 1 .. Len(accepted')
               PROVE  /\ accepted'[i].session \in DOMAIN sessions'[accepted'[i].user]
                      /\ accepted'[i].sequence <= sessions'[accepted'[i].user][accepted'[i].session]
    BY DEF TablesAhead
  <2>1. CASE i = Len(accepted) + 1
    BY <1>1, <1>2, <1>8, <1>9, <1>10, <2>1 DEF UInt
  <2>2. CASE i \in 1 .. Len(accepted)
    <3>1. /\ accepted[i].session \in DOMAIN sessions[accepted[i].user]
          /\ accepted[i].sequence <= sessions[accepted[i].user][accepted[i].session]
      BY <2>2 DEF SessionInv, TablesAhead
    <3>2. accepted[i].user \in Users /\ accepted[i].sequence \in UInt
      BY <1>10, <2>2 DEF Acceptances
    <3>3. accepted[i].sequence <= sessions'[accepted[i].user][accepted[i].session]
      BY <1>1, <1>2, <1>9, <1>13, <3>1, <3>2 DEF UInt
    <3> QED
      BY <1>8, <1>10, <2>2, <3>1, <3>2, <3>3
  <2> QED
    BY <1>10, <2>1, <2>2
<1>15. SequencesIncrease'
  <2> SUFFICES ASSUME NEW i \in 1 .. Len(accepted'), NEW j \in 1 .. Len(accepted'), i < j,
                      accepted'[i].session = accepted'[j].session
               PROVE  accepted'[i].sequence < accepted'[j].sequence
    BY DEF SequencesIncrease
  <2>1. i \in 1 .. Len(accepted)
    BY <1>10
  <2>2. CASE j \in 1 .. Len(accepted)
    BY <1>10, <2>1, <2>2 DEF SessionInv, SequencesIncrease
  <2>3. CASE j = Len(accepted) + 1
    <3>1. accepted[i].session = id
      BY <1>10, <2>1, <2>3
    <3>2. /\ accepted[i].user \in Users /\ accepted[i].sequence \in UInt
          /\ id \in DOMAIN sessions[accepted[i].user]
          /\ accepted[i].sequence <= sessions[accepted[i].user][id]
      BY <1>10, <2>1, <3>1 DEF SessionInv, TablesAhead, Acceptances
    <3>3. accepted[i].user = u
      <4>1. PICK k \in 1 .. Len(opened) : opened[k].session = id /\ opened[k].user = u
        BY <1>2 DEF SessionInv, TablesOpened
      <4>2. PICK l \in 1 .. Len(opened) : opened[l].session = id /\ opened[l].user = accepted[i].user
        BY <3>2 DEF SessionInv, TablesOpened
      <4>3. k = l
        BY <4>1, <4>2, SessionsUnique DEF IdsUnique
      <4> QED
        BY <4>1, <4>2, <4>3
    <3>4. accepted[i].sequence < new
      BY <1>1, <1>2, <1>13, <3>2, <3>3 DEF UInt
    <3> QED
      BY <1>10, <2>1, <2>3, <3>4
  <2> QED
    BY <1>10, <2>2, <2>3
<1> QED
  BY <1>7, <1>11, <1>12, <1>14, <1>15 DEF SessionInv

(* So does a crash: both histories start afresh. *)
LEMMA CrashInv == ASSUME SessionInv, Crash PROVE SessionInv'
<1>1. NoSessions \in SequenceMap /\ DOMAIN NoSessions = {}
  BY DEF NoSessions, SequenceMap
<1>2. crashes' \in 0 .. MaxCrashes
  BY SessionsAssumption DEF Crash, SessionInv, TypeOK
<1>3. TypeOK'
  BY <1>1, <1>2, SessionsAssumption DEF Crash, TypeOK, UInt
<1>4. OpenedInOrder' /\ TablesAhead' /\ SequencesIncrease'
  BY DEF Crash, OpenedInOrder, TablesAhead, SequencesIncrease
<1>5. TablesOpened'
  BY <1>1 DEF Crash, TablesOpened
<1> QED
  BY <1>3, <1>4, <1>5 DEF SessionInv

(* SessionInv is inductive. *)
LEMMA SessionsInvariant == Spec => []SessionInv
<1>1. ASSUME SessionInv, [Next]_vars PROVE SessionInv'
  <2>1. CASE UNCHANGED vars
    BY <1>1, <2>1 DEF vars, SessionInv, TypeOK, OpenedInOrder, TablesOpened, TablesAhead,
                      SequencesIncrease
  <2>2. CASE Crash
    BY <1>1, <2>2, CrashInv
  <2>3. ASSUME NEW u \in Users, NEW session \in Wire, NEW sequence \in Wire,
               NewSession(u, sequence) \/ Accept(u, session, sequence)
        PROVE  SessionInv'
    BY <1>1, <2>3, NewSessionInv, AcceptInv
  <2>4. ASSUME NEW u \in Users, NEW session \in Wire, NEW sequence \in Wire,
               Reject(u, session, sequence)
        PROVE  UNCHANGED vars
    BY <2>4 DEF Reject
  <2> QED
    BY <1>1, <2>1, <2>2, <2>3, <2>4 DEF Next
<1> QED
  BY <1>1, InitSessions, PTL DEF Spec

(* The session tables and both histories keep their types; in particular    *)
(* SESSION_ID never leaves the range of an unsigned int.                    *)
THEOREM SessionsTypeCorrect == Spec => []TypeOK
<1>1. SessionInv => TypeOK
  BY DEF SessionInv
<1> QED
  BY <1>1, SessionsInvariant, PTL

(* fs_user::session_request carries out no request twice and none late, for *)
(* any number of users, sessions and requests, in whatever order they come. *)
THEOREM NoReplay == Spec => []SequencesIncrease
<1>1. SessionInv => SequencesIncrease
  BY DEF SessionInv
<1> QED
  BY <1>1, SessionsInvariant, PTL

(* A request is accepted only for the user who opened its session.          *)
THEOREM NoBorrowedSession == Spec => []OwnSessions
<1>1. ASSUME SessionInv PROVE OwnSessions
  <2> SUFFICES ASSUME NEW i \in 1 .. Len(accepted)
               PROVE  \E j \in 1 .. Len(opened) : /\ opened[j].session = accepted[i].session
                                                  /\ opened[j].user = accepted[i].user
    BY DEF OwnSessions
  <2>1. accepted[i].user \in Users
    BY <1>1, HistoryTypes DEF SessionInv, Acceptances
  <2> QED
    BY <1>1, <2>1 DEF SessionInv, TablesAhead, TablesOpened
<1> QED
  BY <1>1, SessionsInvariant, PTL

(* fs_user::create_session gives no number out twice between two starts,    *)
(* because it stops before the counter wraps.                               *)
THEOREM NoIdTwice == Spec => []IdsUnique
<1>1. SessionInv => IdsUnique
  BY SessionsUnique
<1> QED
  BY <1>1, SessionsInvariant, PTL
=============================================================================
