----------------------------- MODULE MCFreshness -----------------------------
(* Small instances of Freshness for TLC.                                   *)
EXTENDS Freshness

CONSTANTS f1, f2

OneFile == {f1}
TwoFiles == {f1, f2}
=============================================================================
