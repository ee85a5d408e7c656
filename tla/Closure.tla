------------------------------- MODULE Closure -------------------------------
(***************************************************************************)
(* The closure helper of dod-guard (skills/complete-pr/scripts/lib/        *)
(* closure-*.mjs): from a snapshot of the issues it plans which to close   *)
(* and which Project items to set Done, and writes the plan call by call   *)
(* to GitHub, re-reading before and after.  Between any two calls a person *)
(* or another command may edit the issues, and the run may stop; a rerun   *)
(* takes a new snapshot.                                                   *)
(*                                                                         *)
(* Texts and identities are left out: an issue has a state, a completion   *)
(* record, closure evidence, a Project status, and perhaps scope of its    *)
(* own (an unchecked criterion that names no sub-issue, an open pull       *)
(* request).                                                               *)
(***************************************************************************)
EXTENDS Naturals, Sequences, FiniteSets, SequencesExt

CONSTANTS
  Issues,
  NoIssue,        \* the parent of an issue that has none
  Parent,         \* the parent of each issue
  Supersedes,     \* the originals each issue's supersedes record names
  Pulls, NoPull,  \* the merged pull requests completion records name
  ParentWalkLimit,
  Hierarchies,    \* model bound: the hierarchy records refinement asks for
  EditBound       \* model bound: the edits by others and the stops

(* Sub-issues form trees: among any issues, some has its parent elsewhere. *)
(* The helper refuses a cycle ("sub-issue relationship cycle").            *)
ASSUME ClosureAssumption ==
  /\ NoIssue \notin Issues /\ NoPull \notin Pulls
  /\ IsFiniteSet(Issues)
  /\ \A group \in SUBSET Issues : group # {} =>
       \E i \in group : Parent[i] \notin group
  /\ Parent \in [Issues -> Issues \union {NoIssue}]
  /\ Supersedes \in [Issues -> SUBSET Issues]
  /\ Hierarchies \subseteq Issues /\ ParentWalkLimit \in Nat /\ EditBound \in Nat

VARIABLES
  github,   \* the issues and the Project as they are
  run,      \* the plan being applied and where the run is in it
  edits,    \* model bound: how many edits and stops there were
  quiet     \* history: nobody has edited since the snapshot

closureVars == <<github, run, edits, quiet>>

NoRecord == [pull |-> NoPull, pending |-> FALSE]
NoSnapshot ==
  [state |-> [i \in Issues |-> "open"], record |-> [i \in Issues |-> NoRecord],
   evidence |-> [i \in Issues |-> 0], done |-> [i \in Issues |-> FALSE],
   scope |-> {}]

IdleRun ==
  [at |-> "idle", snapshot |-> NoSnapshot, hierarchy |-> NoIssue,
   closes |-> <<>>, repairs |-> <<>>]

(* The roots are merged; their records may still miss, or leave a row      *)
(* pending, and their Project status may lag.                              *)
ClosureInit ==
  /\ github \in
       [state : {[i \in Issues |-> IF Supersedes[i] # {} THEN "completed"
                                                         ELSE "open"]},
        record : {[i \in Issues |-> IF Supersedes[i] # {} THEN r ELSE NoRecord] :
                    r \in {NoRecord} \union [pull : Pulls, pending : BOOLEAN]},
        evidence : {[i \in Issues |-> 0]},
        done : {[i \in Issues |-> Supersedes[i] # {} /\ lag] : lag \in BOOLEAN},
        scope : {{}, Hierarchies}]
  /\ run = IdleRun /\ edits = 0 /\ quiet = TRUE

-----------------------------------------------------------------------------
(* The plan (closure-plan.mjs), computed from a snapshot g.                *)

IsOpen(g, i) == g.state[i] = "open"
Children(i) == {c \in Issues : Parent[c] = i}
RootsOf(i) == {r \in Issues : i \in Supersedes[r]}

(* judgeDelivery: the record of the root and of each child names one merged*)
(* pull request and leaves no row pending, and all are closed; all are     *)
(* Done too, unless the verdict is the one deliveryOnceDone gives.         *)
DeliveryOnceDone(g, i) ==
  LET members == {i} \union Children(i)
  IN  /\ g.record[i].pull # NoPull
      /\ \A m \in members :
           /\ g.record[m] = [pull |-> g.record[i].pull, pending |-> FALSE]
           /\ ~IsOpen(g, m)

Delivery(g, i) ==
  DeliveryOnceDone(g, i) /\ \A m \in {i} \union Children(i) : g.done[m]

RecordGroup(g, i) ==
  IF Parent[i] # NoIssue /\ g.record[Parent[i]].pull = g.record[i].pull
  THEN Parent[i] ELSE i

(* closureEvidence, where rule says whether the rule of a closure comment  *)
(* still holds.                                                            *)
ClosureEvidence(g, i, rule) ==
  \/ /\ RootsOf(i) # {}
     /\ \A r \in RootsOf(i) : Delivery(g, r)
  \/ /\ RootsOf(i) = {} /\ g.record[i].pull # NoPull
     /\ Delivery(g, RecordGroup(g, i))
  \/ /\ RootsOf(i) = {} /\ g.record[i].pull = NoPull
     /\ g.evidence[i] > 0 /\ rule

ParentRule(g, i, settled) ==
  /\ Children(i) # {} /\ i \notin g.scope
  /\ \A c \in Children(i) : settled[c]

HierarchyRule(g, i, settled) ==
  /\ Children(i) # {} /\ i \notin g.scope /\ g.record[i].pull = NoPull
  /\ \A c \in Children(i) : RootsOf(c) # {} \/ settled[c]

(* childReason: whether a parent may count its child as settled.           *)
SettledChildren(g, planned, held) ==
  LET settled[c \in Issues] ==
        \/ c \in planned
        \/ /\ c \notin held /\ ~IsOpen(g, c)
           /\ ClosureEvidence(g, c, ParentRule(g, c, settled))
  IN  settled

Replaced(g) ==
  {o \in Issues :
     /\ RootsOf(o) # {} /\ IsOpen(g, o)
     /\ Cardinality(RootsOf(o)) = 1
     /\ \A r \in RootsOf(o) : Delivery(g, r)}

HeldOriginals(g) ==
  {o \in Issues : RootsOf(o) # {} /\ IsOpen(g, o)} \ Replaced(g)

\* The hierarchy record asked for closes, or is held.
ClosesHierarchy(g, h) ==
  /\ h # NoIssue /\ h \notin Replaced(g) \union HeldOriginals(g)
  /\ IsOpen(g, h)
  /\ HierarchyRule(g, h, SettledChildren(g, Replaced(g), HeldOriginals(g)))

Held(g, h) ==
  HeldOriginals(g) \union
  (IF h = NoIssue \/ h \in Replaced(g) \/ ClosesHierarchy(g, h) THEN {} ELSE {h})

\* closes as a set.
Planned(closes) == {closes[n].issue : n \in DOMAIN closes}

OriginalCloses(g) ==
  LET order == SetToSeq(Replaced(g))
  IN  [n \in DOMAIN order |->
         [issue |-> order[n], rule |-> "replaced-original",
          root |-> CHOOSE r \in RootsOf(order[n]) : TRUE]]

HierarchyCloses(g, h) ==
  IF ClosesHierarchy(g, h)
  THEN <<[issue |-> h, rule |-> "hierarchy", root |-> NoIssue]>> ELSE <<>>

(* walkStep: the open parents a walk from some seed reaches, through       *)
(* planned ones, at the given level.                                       *)
Reached(g, seeds, planned) ==
  LET reached[l \in 0..ParentWalkLimit] ==
        IF l = 0 THEN seeds
        ELSE {p \in Issues : /\ IsOpen(g, p)
                             /\ \E i \in Children(p) :
                                  /\ i \in reached[l - 1]
                                  /\ l > 1 => i \in planned}
  IN  {p \in Issues : \E l \in 1..ParentWalkLimit : p \in reached[l]}

(* The parents that a pass of walkParents closes, given the closes so far. *)
Settleable(g, closes, held) ==
  LET seeds == {i \in Issues : ~IsOpen(g, i)} \union
               {closes[n].issue : n \in {m \in DOMAIN closes :
                                          closes[m].rule # "parent"}}
      planned == Planned(closes)
      settled == SettledChildren(g, planned, held)
  IN  {p \in Reached(g, seeds, planned) \ (planned \union held) :
         ParentRule(g, p, settled)}

\* repairKind: the close reason a Done repair insists on, "any", or "none".
RepairKind(g, i, settled) ==
  CASE g.state[i] = "not_planned" -> "not_planned"
    [] /\ g.evidence[i] = 1
       /\ ClosureEvidence(g, i, ParentRule(g, i, settled)) -> "any"
    [] /\ g.record[i].pull # NoPull
       /\ DeliveryOnceDone(g, RecordGroup(g, i)) -> "completed"
    [] OTHER -> "none"

StatusRepairs(g, closes, held) ==
  LET settled == SettledChildren(g, Planned(closes), held)
      kind(i) == RepairKind(g, i, settled)
      order == SetToSeq({i \in Issues :
                 /\ ~IsOpen(g, i) /\ ~g.done[i]
                 /\ i \notin Planned(closes) \union held
                 /\ kind(i) # "none"})
  IN  [n \in DOMAIN order |-> [issue |-> order[n], reason |-> kind(order[n])]]

-----------------------------------------------------------------------------
(* A run (closure-apply.mjs): the snapshot is planned, then the plan is    *)
(* applied with one call to GitHub per step.                               *)

\* A disagreement, a call that fails, or the end of the plan.
Stop == run' = IdleRun

Continue(at) == run' = [run EXCEPT !.at = at]

(* A snapshot is taken; refinement names a hierarchy record.               *)
TakeSnapshot(h) ==
  /\ run.at = "idle"
  /\ run' = [run EXCEPT !.at = "plan", !.snapshot = github, !.hierarchy = h]
  /\ quiet' = TRUE
  /\ UNCHANGED <<github, edits>>

(* planClosures: the originals of the roots, then the hierarchy record.    *)
PlanOriginals ==
  /\ run.at = "plan"
  /\ run' = [run EXCEPT !.at = "walk",
                !.closes = OriginalCloses(run.snapshot) \o
                           HierarchyCloses(run.snapshot, run.hierarchy)]
  /\ UNCHANGED <<github, edits, quiet>>

RunHeld == Held(run.snapshot, run.hierarchy)

(* Mutant of WalkParents: the parent goes in front of its sub-issues.      *)
WalkParentsFirst ==
  /\ run.at = "walk"
  /\ \E p \in Settleable(run.snapshot, run.closes, RunHeld) :
       run' = [run EXCEPT !.closes =
                 <<[issue |-> p, rule |-> "parent", root |-> NoIssue]>> \o @]
  /\ UNCHANGED <<github, edits, quiet>>

(* walkParents: passes repeat until one adds no close.                     *)
WalkParents ==
  /\ run.at = "walk"
  /\ \E p \in Settleable(run.snapshot, run.closes, RunHeld) :
       run' = [run EXCEPT !.closes =
                 Append(@, [issue |-> p, rule |-> "parent", root |-> NoIssue])]
  /\ UNCHANGED <<github, edits, quiet>>

(* No parent is left to close: the Done repairs end the plan.              *)
PlanRepairs ==
  /\ run.at = "walk" /\ Settleable(run.snapshot, run.closes, RunHeld) = {}
  /\ run' = [run EXCEPT !.at = "next", !.snapshot = NoSnapshot,
                !.hierarchy = NoIssue,
                !.repairs = StatusRepairs(run.snapshot, run.closes, RunHeld)]
  /\ UNCHANGED <<github, edits, quiet>>

EndRun ==
  /\ run.at = "next" /\ run.closes = <<>> /\ run.repairs = <<>>
  /\ Stop
  /\ UNCHANGED <<github, edits, quiet>>

StateReason(close) ==
  IF close.rule = "hierarchy" THEN "not_planned" ELSE "completed"

NextClose == Head(run.closes)
NextRepair == Head(run.repairs)

(* Mutant of Writable: evidence that is there already stops the run.       *)
WritableOnce(i) == github.evidence[i] = 0 /\ IsOpen(github, i)

(* requireWritable.                                                        *)
Writable(i) ==
  /\ github.evidence[i] <= 1
  /\ IsOpen(github, i) \/ github.evidence[i] = 1

(* confirmRoot: the live record of the root is the planned one, and final. *)
RootConfirmed(close) ==
  close.rule = "replaced-original" =>
    /\ github.record[close.root].pull # NoPull
    /\ ~github.record[close.root].pending

(* Mutant of ReadBeforeClose: the comment is posted without looking.       *)
ReadBeforeCloseOnly ==
  /\ run.closes # <<>> /\ run.at = "next"
  /\ \/ /\ RootConfirmed(NextClose) /\ Writable(NextClose.issue)
        /\ Continue("comment")
     \/ /\ ~(RootConfirmed(NextClose) /\ Writable(NextClose.issue))
        /\ Stop
  /\ UNCHANGED <<github, edits, quiet>>

(* writeClose reads the issue, and with it what is left to write.          *)
ReadBeforeClose ==
  /\ run.closes # <<>> /\ run.at = "next"
  /\ \/ /\ RootConfirmed(NextClose) /\ Writable(NextClose.issue)
        /\ Continue(
             CASE github.evidence[NextClose.issue] = 0 -> "comment"
               [] /\ github.evidence[NextClose.issue] = 1
                  /\ IsOpen(github, NextClose.issue) -> "close"
               [] OTHER -> "readback")
     \/ /\ ~(RootConfirmed(NextClose) /\ Writable(NextClose.issue))
        /\ Stop
  /\ UNCHANGED <<github, edits, quiet>>

PostComment ==
  /\ run.at = "comment"
  /\ github' = [github EXCEPT !.evidence[NextClose.issue] = @ + 1]
  /\ Continue("close")
  /\ UNCHANGED <<edits, quiet>>

CloseIssue ==
  /\ run.at = "close"
  /\ github' = [github EXCEPT !.state[NextClose.issue] = StateReason(NextClose)]
  /\ Continue("readback")
  /\ UNCHANGED <<edits, quiet>>

ClosedAsPlanned ==
  /\ github.state[NextClose.issue] = StateReason(NextClose)
  /\ github.evidence[NextClose.issue] = 1

Readback ==
  /\ run.at = "readback"
  /\ \/ ClosedAsPlanned /\ Continue("done")
     \/ ~ClosedAsPlanned /\ Stop
  /\ UNCHANGED <<github, edits, quiet>>

(* writeDone after the close: the issue is not read again.                 *)
WriteDone ==
  /\ run.at = "done"
  /\ github' = [github EXCEPT !.done[NextClose.issue] = TRUE]
  /\ run' = [run EXCEPT !.at = "next", !.closes = Tail(@)]
  /\ UNCHANGED <<edits, quiet>>

RepairHolds ==
  /\ ~IsOpen(github, NextRepair.issue)
  /\ NextRepair.reason # "any" =>
       github.state[NextRepair.issue] = NextRepair.reason

(* repairDone.                                                             *)
ReadBeforeRepair ==
  /\ run.closes = <<>> /\ run.repairs # <<>> /\ run.at = "next"
  /\ \/ RepairHolds /\ Continue("repair")
     \/ ~RepairHolds /\ Stop
  /\ UNCHANGED <<github, edits, quiet>>

WriteRepair ==
  /\ run.at = "repair"
  /\ github' = [github EXCEPT !.done[NextRepair.issue] = TRUE]
  /\ run' = [run EXCEPT !.at = "next", !.repairs = Tail(@)]
  /\ UNCHANGED <<edits, quiet>>

-----------------------------------------------------------------------------
(* Everybody else.                                                         *)

\* Planning reads no provider: an edit during it is one just after it.
Edit ==
  /\ run.at \notin {"plan", "walk"}
  /\ edits < EditBound /\ edits' = edits + 1

(* The run is killed, or a call fails before or after it took effect.      *)
Interrupt ==
  /\ run.at # "idle" /\ Edit /\ Stop
  /\ UNCHANGED <<github, quiet>>

(* An issue is closed, closed with another reason or reopened by hand.     *)
EditState(i) ==
  \E s \in {"open", "completed", "not_planned"} \ {github.state[i]} :
    github' = [github EXCEPT !.state[i] = s]

EditStatus(i) == github' = [github EXCEPT !.done[i] = ~@]

(* complete-pr records a merged delivery on an issue, or updates it.       *)
RecordCompletion(i) ==
  \E p \in Pulls, pending \in BOOLEAN :
    github' = [github EXCEPT !.record[i] = [pull |-> p, pending |-> pending]]

(* The criterion is checked off, or the pull request is no longer open.    *)
ScopeDelivered(i) ==
  i \in github.scope /\ github' = [github EXCEPT !.scope = @ \ {i}]

OthersEdit ==
  /\ Edit /\ quiet' = FALSE
  /\ \E i \in Issues :
       EditState(i) \/ EditStatus(i) \/ RecordCompletion(i) \/ ScopeDelivered(i)
  /\ UNCHANGED run

RunStep ==
  \/ PlanOriginals \/ WalkParents \/ PlanRepairs \/ EndRun
  \/ ReadBeforeClose \/ PostComment \/ CloseIssue \/ Readback \/ WriteDone
  \/ ReadBeforeRepair \/ WriteRepair

ClosureNext ==
  \/ \E h \in Hierarchies \union {NoIssue} : TakeSnapshot(h)
  \/ RunStep
  \/ Interrupt
  \/ OthersEdit

ClosureSpec == ClosureInit /\ [][ClosureNext]_closureVars

(* A command that runs goes on, and goal-sdlc and complete-pr run it again *)
(* and again without naming a hierarchy record.                            *)
ClosureFairness ==
  WF_closureVars(RunStep) /\ SF_closureVars(TakeSnapshot(NoIssue))

-----------------------------------------------------------------------------
(* Correctness.                                                            *)

RunSteps ==
  {"idle", "plan", "walk", "next", "comment", "close", "readback", "done",
   "repair"}

Snapshots ==
  [state : [Issues -> {"open", "completed", "not_planned"}],
   record : [Issues -> [pull : Pulls \union {NoPull}, pending : BOOLEAN]],
   evidence : [Issues -> Nat], done : [Issues -> BOOLEAN],
   scope : SUBSET Issues]

ClosureTypeOK ==
  /\ github \in Snapshots /\ run.snapshot \in Snapshots
  /\ run.at \in RunSteps /\ run.hierarchy \in Issues \union {NoIssue}
  /\ run.closes \in Seq([issue : Issues, root : Issues \union {NoIssue},
                         rule : {"replaced-original", "hierarchy", "parent"}])
  /\ run.repairs \in Seq([issue : Issues,
                          reason : {"any", "not_planned", "completed"}])
  /\ edits \in Nat /\ quiet \in BOOLEAN

(* project-workflow.md: "a rerun never posts a second one".  Whatever is   *)
(* edited, stopped and run again, an issue carries at most one closure     *)
(* evidence comment.                                                       *)
EvidencePostedOnce == \A i \in Issues : github.evidence[i] <= 1

ClosesAsParent(p) ==
  run.at = "close" /\ NextClose.issue = p /\ NextClose.rule = "parent"

(* A parent is closed as completed only when each of its sub-issues is     *)
(* closed, although they are not read again before it: the plan orders its *)
(* closes and stops at the first that fails.  A reopening since the        *)
(* snapshot is not seen.                                                   *)
ParentsCloseLast ==
  [][\A p \in Issues : ClosesAsParent(p) /\ CloseIssue /\ quiet =>
       \A c \in Children(p) : ~IsOpen(github, c)]_closureVars

(* Once nobody edits any more, reruns finish what was stopped: every       *)
(* original whose only root is delivered and every parent that is settled  *)
(* has been closed, and no close is left without its Done.                 *)
ClosuresConverge ==
  []<>(/\ run.at = "idle"
       /\ Replaced(github) = {}
       /\ Settleable(github, <<>>, HeldOriginals(github)) = {}
       /\ StatusRepairs(github, <<>>, HeldOriginals(github)) = <<>>)

(* closure-evidence.mjs: whether a parent may count a sub-issue as settled *)
(* for its own completed close "must wait for that delivery": the one that *)
(* a sub-issue closed as not planned has moved to replacement roots.       *)
ParentWaitsForDelivery ==
  [][\A p \in Issues : ClosesAsParent(p) /\ CloseIssue /\ quiet =>
       \A c \in Children(p) : github.state[c] = "not_planned" =>
         \A o \in Children(c) : \A r \in RootsOf(o) : Delivery(github, r)]_closureVars
===============================================================================
