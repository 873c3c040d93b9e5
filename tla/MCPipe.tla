------------------------------- MODULE MCPipe -------------------------------
(* A write that does not fit into the pipe.                                 *)
EXTENDS Pipe

Writes == {<<1, 0, 1>>}
=============================================================================
