----------------------------- MODULE MCToolBatch ----------------------------
(* An instance of the tool batch and its events for TLC. *)
EXTENDS ToolBatch

\* A batch of two calls and a turn after it, without calls.
TwoThenNone == <<2, 0>>
=============================================================================
