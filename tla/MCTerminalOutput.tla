-------------------------- MODULE MCTerminalOutput --------------------------
(***************************************************************************)
(* TerminalOutput for TLC; its constants bound it: two requests, so one    *)
(* retry, gap or reconnect, one lost message, and a phone that keeps more  *)
(* than a baseline holds.                                                  *)
(***************************************************************************)
EXTENDS TerminalOutput
=============================================================================
