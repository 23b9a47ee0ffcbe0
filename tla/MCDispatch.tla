------------------------------- MODULE MCDispatch -------------------------------
(* Calls with every path of up to five characters of four kinds, names of up *)
(* to two and paths of up to four, blocks of two bytes.                     *)
EXTENDS Dispatch

MCChars  == {"/", " ", "tab", "x"}
MCPaths  == UNION {[1 .. n -> MCChars] : n \in 0 .. 5}
MCTypes  == {<< >>, <<" ">>, <<"f">>, <<"d">>, <<"x">>}
MCBlocks == {<<"0">>, <<"1">>, <<"2">>}
MCData   == {<<"x">>, <<"x", "y">>, <<"x", "y", "z">>}
MCStored == <<"y", "x">>

Call(name, path, last, data) ==
  [name |-> name, session |-> "s", sequence |-> "q", path |-> path, last |-> last, data |-> data]
MCCalls ==
  {Call("FS_SESSION", << >>, << >>, << >>)}
  \cup {Call(n, p, ty, << >>) : n \in {"FS_CREATE", "FS_COPY"}, p \in MCPaths, ty \in MCTypes}
  \cup {Call("FS_DELETE", p, << >>, << >>) : p \in MCPaths}
  \cup {Call("FS_READBLOCK", p, b, << >>) : p \in MCPaths, b \in MCBlocks}
  \cup {Call("FS_WRITEBLOCK", p, b, d) : p \in MCPaths, b \in MCBlocks, d \in MCData}
=============================================================================
