----------------------------- MODULE MCSplitRequest -----------------------------
(* All texts of up to six characters of the four kinds split_request tells   *)
(* apart, with names of up to two.                                          *)
EXTENDS SplitRequest

MCChars == {"/", " ", "tab", "x"}
MCTexts == UNION {[1 .. n -> MCChars] : n \in 0 .. 6}
=============================================================================
