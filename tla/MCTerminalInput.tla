-------------------------- MODULE MCTerminalInput --------------------------
(***************************************************************************)
(* TerminalInput for TLC: one input that is sent again and one interrupt;  *)
(* one message fewer is lost than the input has copies.                    *)
(***************************************************************************)
EXTENDS TerminalInput
============================================================================
