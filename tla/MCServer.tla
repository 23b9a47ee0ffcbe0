-------------------------------- MODULE MCServer --------------------------------
(* Clients of one user, which may come to share a session.                   *)
EXTENDS Server, TLC

CONSTANTS u

MCUserOf == [c \in Clients |-> u]
MCFirst  == [c \in Clients |-> 0]

ServerSymmetry == Permutations(Threads) \cup Permutations(Clients)
=============================================================================
