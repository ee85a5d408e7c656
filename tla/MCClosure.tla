------------------------------- MODULE MCClosure -------------------------------
(* A small instance of Closure for TLC: a chain of three issues, and a     *)
(* root that replaces the last of them.                                    *)
EXTENDS Closure

CONSTANTS epic, split, original, successor

\* successor replaces original, a sub-issue of split, a sub-issue of epic.
ChainIssues == {epic, split, original, successor}
ChainParent ==
  [i \in ChainIssues |->
     CASE i = split -> epic [] i = original -> split [] OTHER -> NoIssue]
ChainSupersedes ==
  [i \in ChainIssues |-> IF i = successor THEN {original} ELSE {}]
SplitOnly == {split}
=============================================================================
