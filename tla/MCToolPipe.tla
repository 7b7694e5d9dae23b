------------------------------- MODULE MCToolPipe ------------------------------
(* Six lines and END, through a pipe of one line that may become one of two    *)
(* lines and a half, less than the tool has to say.                            *)
EXTENDS ToolPipe
=============================================================================
