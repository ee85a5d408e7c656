---------------------------- MODULE MCLspBackend ----------------------------
(* Small instances of LspBackend for TLC.                                  *)
EXTENDS LspBackend

CONSTANTS q1

OneQuery == {q1}
=============================================================================
