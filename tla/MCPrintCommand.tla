--------------------------- MODULE MCPrintCommand ---------------------------
(***************************************************************************)
(* PrintCommand for TLC: three opens and two closes of one transport by a  *)
(* library program, and the one session of the command.                    *)
(***************************************************************************)
EXTENDS PrintCommand
=============================================================================
