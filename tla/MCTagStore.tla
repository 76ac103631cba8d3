------------------------------ MODULE MCTagStore ------------------------------
(***************************************************************************)
(* A small instance of TagStore for TLC: a process under each runtime, on  *)
(* branches that part after a message and a tool call.                     *)
(***************************************************************************)
EXTENDS TagStore

CONSTANTS bun, node,                \* the processes, by their runtime
          msg1, call, msg2, msg3

Processes == {bun, node}
Parts     == {msg1, call, msg2, msg3}
ToolParts == {call}
Branches  == [p \in Processes |-> <<msg1, call, IF p = bun THEN msg2 ELSE msg3>>]
BunOnly   == {bun}
===============================================================================
