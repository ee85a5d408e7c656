------------------------------- MODULE Timeline -------------------------------
(***************************************************************************)
(* What workspace freshness promises its readers, without saying how: a    *)
(* timeline of numbered generations.  A generation that becomes current is *)
(* newer than the one it replaces and carries a manifest that was, as a    *)
(* whole, the content of the workspace at some moment since the work that  *)
(* published it began.                                                     *)
(***************************************************************************)
EXTENDS Naturals

CONSTANTS Files  \* the supported files of the workspace

VARIABLES
  disk,      \* the version of each file
  witnessed, \* the contents the workspace has had since work began
  working,   \* work towards a generation is in progress
  current,   \* the generation readers are given, 0 before the first
  manifest   \* the content the current generation was analysed from

timeline == <<disk, witnessed, working, current, manifest>>

Init ==
  /\ disk = [f \in Files |-> 1]
  /\ witnessed = {} /\ ~working
  /\ current = 0
  /\ manifest = [f \in Files |-> 0]

(* A file is saved.                                                        *)
Save ==
  /\ \E f \in Files : disk' = [disk EXCEPT ![f] = @ + 1]
  /\ witnessed' = IF working THEN witnessed \union {disk'} ELSE witnessed
  /\ UNCHANGED <<working, current, manifest>>

Begin ==
  /\ ~working /\ working' = TRUE
  /\ witnessed' = {disk}
  /\ UNCHANGED <<disk, current, manifest>>

(* The work ends with a new current generation...                          *)
Publish ==
  /\ working /\ working' = FALSE
  /\ witnessed' = {}
  /\ current' \in Nat /\ current' > current
  /\ manifest' \in witnessed
  /\ UNCHANGED disk

(* ... or leaves the prior one current.                                    *)
GiveUp ==
  /\ working /\ working' = FALSE
  /\ witnessed' = {}
  /\ UNCHANGED <<disk, current, manifest>>

Next == Save \/ Begin \/ Publish \/ GiveUp

Spec == Init /\ [][Next]_timeline
=============================================================================
