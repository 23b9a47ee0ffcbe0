-------------------------------- MODULE Sessions --------------------------------
(***************************************************************************)
(* Sessions of the file server's users: fs_user.cc, and the parts of        *)
(* filesystem.cc that create a session and check a request against one.     *)
(*                                                                         *)
(* The network may duplicate, delay, reorder or drop requests: any request  *)
(* of ClientRequests may arrive at any time, any number of times.  Each     *)
(* action is one critical section of filesystem::internal_lock, inside      *)
(* which the locks of fs_user are never contended.                          *)
(***************************************************************************)
EXTENDS Integers, Sequences

CONSTANTS
  Users,
  UINT_MAX,         \* largest unsigned int
  Numbers,          \* what stoul can return: unsigned long
  NotANumber,       \* a text stoul throws on
  MaxAccepted,      \* bound on accepted requests between two starts
  MaxCrashes        \* bound on server crashes

ASSUME SessionsAssumption ==
  /\ UINT_MAX \in Nat
  /\ Numbers \subseteq Nat
  /\ NotANumber \notin Numbers
  /\ MaxAccepted \in Nat
  /\ MaxCrashes \in Nat

UInt == 0 .. UINT_MAX

(* An unsigned long passed as an unsigned int.                              *)
(*                                                                         *)
(* A definition named Bug... is a mistaken version of the next one.  Nothing *)
(* uses it; putting it in that one's place must break a property.           *)
BugWord(n) == n
Word(n) == n % (UINT_MAX + 1)

VARIABLES
  SESSION_ID,   \* fs_user::SESSION_ID, the next session
  sessions,     \* fs_user::sessions of each user: last sequence by session
  opened,       \* the sessions created since the start: user and session
  accepted,     \* the requests accepted since the start: user, session, sequence
  crashes

vars == <<SESSION_ID, sessions, opened, accepted, crashes>>

SequenceMap == UNION {[S -> UInt] : S \in SUBSET UInt}
NoSessions  == [s \in {} |-> 0]

(* Types.  Every number the code keeps is an unsigned int: those of stoul   *)
(* are truncated before they are stored, and SESSION_ID stops at the last.  *)
TypeOK ==
  /\ SESSION_ID \in UInt
  /\ sessions \in [Users -> SequenceMap]
  /\ opened \in Seq([user : Users, session : UInt])
  /\ accepted \in Seq([user : Users, session : UInt, sequence : UInt])
  /\ crashes \in 0 .. MaxCrashes

-----------------------------------------------------------------------------
Init ==
  /\ SESSION_ID = 0
  /\ sessions = [u \in Users |-> NoSessions]
  /\ opened = << >>
  /\ accepted = << >>
  /\ crashes = 0

(* fs_user::create_session has ids left. *)
BugIdsLeft == TRUE
IdsLeft == SESSION_ID # UINT_MAX

(* filesystem::new_session; the session the client names is ignored. *)
NewSession(u, sequence) ==
  /\ sequence # NotANumber
  /\ IdsLeft
  /\ SESSION_ID' = Word(SESSION_ID + 1)
  /\ sessions' = [sessions EXCEPT ![u] =
                    [s \in DOMAIN @ \cup {SESSION_ID} |->
                       IF s = SESSION_ID THEN Word(sequence) ELSE @[s]]]
  /\ opened' = Append(opened, [user |-> u, session |-> SESSION_ID])
  /\ UNCHANGED <<accepted, crashes>>

(* fs_user::session_request *)
BugNotBelow(u, session, sequence) ==
  session \in DOMAIN sessions[u] /\ sessions[u][session] <= sequence
BugAnyUser(u, session, sequence) ==
  \E v \in Users : session \in DOMAIN sessions[v] /\ sessions[v][session] < sequence
SessionRequest(u, session, sequence) ==
  /\ session \in DOMAIN sessions[u]
  /\ sessions[u][session] < sequence
  /\ sessions[u][session] # UINT_MAX

Accepts(u, session, sequence) ==
  /\ session # NotANumber /\ sequence # NotANumber
  /\ SessionRequest(u, Word(session), Word(sequence))

(* handle_request, for every request but FS_SESSION.  The sequence number   *)
(* is used up even when the request fails later.                            *)
Accept(u, session, sequence) ==
  /\ Len(accepted) < MaxAccepted
  /\ Accepts(u, session, sequence)
  /\ sessions' = [sessions EXCEPT ![u][Word(session)] = Word(sequence)]
  /\ accepted' = Append(accepted, [user |-> u, session |-> Word(session),
                                   sequence |-> Word(sequence)])
  /\ UNCHANGED <<SESSION_ID, opened, crashes>>

(* The connection is closed without a response. *)
Reject(u, session, sequence) ==
  /\ ~Accepts(u, session, sequence)
  /\ UNCHANGED vars

(* Nothing of this is kept on the disk. *)
Crash ==
  /\ crashes < MaxCrashes
  /\ crashes' = crashes + 1
  /\ SESSION_ID' = 0
  /\ sessions' = [u \in Users |-> NoSessions]
  /\ opened' = << >>
  /\ accepted' = << >>

Wire == Numbers \cup {NotANumber}

Next ==
  \/ \E u \in Users, session, sequence \in Wire :
       NewSession(u, sequence) \/ Accept(u, session, sequence) \/ Reject(u, session, sequence)
  \/ Crash

Spec == Init /\ [][Next]_vars

-----------------------------------------------------------------------------
(* A request sent twice is carried out once, and an old request that comes  *)
(* late is not carried out: in each session the accepted sequence numbers   *)
(* increase, whatever order the requests arrive in.                         *)
SequencesIncrease ==
  \A i, j \in 1 .. Len(accepted) :
    i < j /\ accepted[i].session = accepted[j].session
      => accepted[i].sequence < accepted[j].sequence

(* A user's session serves that user only: whoever a request was accepted   *)
(* for had opened the session it names.  test_ec_session_id.cc and           *)
(* test_ec_session_id2.cc expect another thing of one case: after user1 and  *)
(* user2 have opened sessions into one variable, user1's calls with it,      *)
(* which names user2's session, "should be 0".  The code refuses them.       *)
OwnSessions ==
  \A i \in 1 .. Len(accepted) : \E j \in 1 .. Len(opened) :
    /\ opened[j].session = accepted[i].session
    /\ opened[j].user = accepted[i].user

(* No session number is given out twice between two starts; the counter     *)
(* stops before it wraps.                                                   *)
IdsUnique ==
  \A i, j \in 1 .. Len(opened) : opened[i].session = opened[j].session => i = j
=============================================================================
