------------------------------ MODULE MCConnection ------------------------------
(***************************************************************************)
(* Two users with names of one letter, sizes of two decimal digits, and     *)
(* peers that follow the protocol or err in each way the code looks for.    *)
(***************************************************************************)
EXTENDS Connection, TLC

MCDigits == <<"0", "1", "2", "3", "4", "5", "6", "7", "8", "9">>

(* "a" is listed twice: its first password counts. *)
MCLines ==
  <<[name |-> <<"a">>, password |-> "pa"], [name |-> <<"b">>, password |-> "pb"],
    [name |-> <<"a">>, password |-> "px"]>>

Message(key, size) == [key |-> key, size |-> size]
MCMessages == {Message("pa", 1), Message("pa", 2), Message("pb", 1), Message("px", 1)}

Sends(header, m) == [header |-> header, message |-> m, sent |-> m.size]
Regular ==
  {Sends(<<"a", " ", "1", NUL>>, Message("pa", 1)), Sends(<<"b", " ", "1", NUL>>, Message("pb", 1)),
   Sends(<<"a", " ", "2", NUL>>, Message("pa", 2)), Sends(<<"a", " ", "1", NUL>>, Message("px", 1))}
Mistaken ==
  {Sends(<<"a", " ", "2", NUL>>, Message("pa", 1)),           \* size too large
   Sends(<<"a", " ", "1", NUL>>, Message("pa", 2)),           \* size too small
   Sends(<<"a", " ", "1", "2", NUL>>, Message("pa", 2)),      \* cut off, it is a good header
   Sends(<<"a", " ", "1", "7", NUL>>, Message("pa", 1)),      \* 17 modulo 16
   Sends(<<"b", " ", "1", NUL>>, Message("pa", 1)),           \* another user's password
   Sends(<<"a", " ", " ", "1", NUL>>, Message("pa", 1)),      \* stoul skips blanks
   Sends(<<"a", " ", "-", "9", NUL>>, Message("pa", 1)),      \* and takes a sign: 7
   Sends(<<"c", " ", "1", NUL>>, Message("pa", 1)),           \* unknown
   Sends(<<"a", "a", " ", "1", NUL>>, Message("pa", 1)),      \* name too long
   Sends(<<"a", " ", NUL>>, Message("pa", 1)),                \* no size
   Sends(<<"a", "1", NUL>>, Message("pa", 1)),                \* no space
   Sends(<<"a", " ", "1", "2", "3">>, Message("pa", 1)),      \* header too long
   [header |-> <<"a", " ">>, message |-> Message("pa", 1), sent |-> 0]}   \* stalls
MCArrivals == Regular \cup Mistaken

(* One peer of each fate, and two that keep a thread waiting for a byte or    *)
(* for a message.                                                           *)
MCWaits ==
  {Sends(<<"b", " ", "1", NUL>>, Message("pb", 1)), Sends(<<NUL>>, Message("pa", 1)),
   [header |-> << >>, message |-> Message("pa", 1), sent |-> 0],
   Sends(<<"a", " ", "2", NUL>>, Message("pa", 1)), Sends(<<"a", " ", "1", "2", NUL>>, Message("pa", 2))}

ConnectionSymmetry == Permutations(Connections)
=============================================================================
