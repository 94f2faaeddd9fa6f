------------------------------- MODULE MCPush -------------------------------
(***************************************************************************)
(* An instance of Push: a line takes two sends, so a websocket can break   *)
(* within it, and two meters are published, so that the second meets what  *)
(* the first has left.                                                     *)
(***************************************************************************)
EXTENDS Push
=============================================================================
