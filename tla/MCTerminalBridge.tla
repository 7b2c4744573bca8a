-------------------------- MODULE MCTerminalBridge --------------------------
(***************************************************************************)
(* TerminalBridge for TLC: one stream, one file send and one input, with   *)
(* batches of two chunks.                                                  *)
(***************************************************************************)
EXTENDS TerminalBridge

=============================================================================
