---------------------------- MODULE ProcessLifetime ----------------------------
(***************************************************************************)
(* The life of a Code Explorer process over stdio and what it leaves       *)
(* behind (runtime-main.ts, stdio-lifecycle.ts, semantic/workspace/        *)
(* owned-resources.ts, service-root.ts and service-root-sweep.ts).  A      *)
(* process owns backend children and temp roots and releases them however  *)
(* it ends, unless it is killed; then the next process that starts sweeps  *)
(* its roots, which it tells from those of live processes by the pid in a  *)
(* marker file.  Pids are used again.                                      *)
(***************************************************************************)
EXTENDS Naturals, FiniteSets

CONSTANTS
  Processes,   \* the processes that are ever started
  Pids, NoPid,
  TempRoots,   \* the names of temp roots; mkdtemp uses each of them once
  ChildBound   \* model bound: the live children of one process

ASSUME LifetimeAssumption == NoPid \notin Pids /\ ChildBound \in Nat

VARIABLES
  procs,       \* the processes
  tempdir      \* the temp roots on disk

lifeVars == <<procs, tempdir>>

\* sealed, hooked, children and tracked are the fields of OwnedResources;
\* marking is the root that is made and about to be marked, if any.
NotYetStarted ==
  [at |-> "off", pid |-> NoPid, unswept |-> {}, closing |-> FALSE,
   sealed |-> FALSE, hooked |-> FALSE, children |-> 0, tracked |-> {},
   marking |-> {}]

\* pid is what the marker says; old, that a day has passed; stuck, that a
\* removal has failed.
Unmade == [there |-> FALSE, used |-> FALSE, pid |-> NoPid, old |-> FALSE,
           stuck |-> FALSE]
Made == [Unmade EXCEPT !.there = TRUE, !.used = TRUE]
Gone == [Unmade EXCEPT !.used = TRUE]

LifeInit ==
  /\ procs = [p \in Processes |-> NotYetStarted]
  /\ tempdir = [t \in TempRoots |-> Unmade]

Live(p) == procs[p].at \notin {"off", "exited", "killed"}

\* p runs JavaScript of its own choice: it is not inside a synchronous call.
Free(p) == procs[p].at \in {"starting", "serving"} /\ procs[p].marking = {}

(* removeServiceTree of some roots: each is gone, or left with or without  *)
(* its marker.                                                             *)
Removal(set) ==
  \E left \in SUBSET set : \E bare \in SUBSET left :
    tempdir' = [t \in TempRoots |->
      CASE t \in set \ left -> Gone
        [] t \in bare -> [Made EXCEPT !.stuck = TRUE]
        [] t \in left \ bare -> [tempdir[t] EXCEPT !.stuck = TRUE]
        [] OTHER -> tempdir[t]]

Sealed(proc) == [proc EXCEPT !.sealed = TRUE, !.children = 0, !.tracked = {}]

-----------------------------------------------------------------------------
(* Start.                                                                  *)

(* A process starts with a pid that nobody has, and lists the temp roots.  *)
StartProcess(p, pid) ==
  /\ procs[p].at = "off"
  /\ \A q \in Processes : Live(q) => procs[q].pid # pid
  /\ procs' = [procs EXCEPT ![p] =
       [NotYetStarted EXCEPT !.at = "sweeping", !.pid = pid,
                          !.unswept = {t \in TempRoots : tempdir[t].there}]]
  /\ UNCHANGED tempdir

(* Mutant of StaleRoot: a root without a marker belongs to nobody.             *)
StaleRootUnmarked(t) ==
  IF tempdir[t].pid = NoPid THEN TRUE
  ELSE \A q \in Processes : Live(q) => procs[q].pid # tempdir[t].pid

(* classifyServiceRoot: no live process, this one included, has the pid in *)
(* the marker, or there is no marker and the root is old.                  *)
StaleRoot(t) ==
  IF tempdir[t].pid = NoPid THEN tempdir[t].old
  ELSE \A q \in Processes : Live(q) => procs[q].pid # tempdir[t].pid

(* sweepStaleServiceRoots looks at the next root.                          *)
SweepRoot(p, t) ==
  /\ procs[p].at = "sweeping" /\ t \in procs[p].unswept
  /\ procs' = [procs EXCEPT ![p].unswept = @ \ {t}]
  /\ \/ tempdir[t].there /\ StaleRoot(t) /\ Removal({t})
     \/ ~(tempdir[t].there /\ StaleRoot(t)) /\ UNCHANGED tempdir

(* The close triggers are installed and the core starts.                   *)
SweepEnds(p) ==
  /\ procs[p].at = "sweeping" /\ procs[p].unswept = {}
  /\ procs' = [procs EXCEPT ![p].at = "starting"]
  /\ UNCHANGED tempdir

(* The core has started; a process that closes is left to its closer.      *)
CoreStarts(p) ==
  /\ Free(p) /\ procs[p].at = "starting" /\ ~procs[p].closing
  /\ procs' = [procs EXCEPT ![p].at = "serving"]
  /\ UNCHANGED tempdir

-----------------------------------------------------------------------------
(* Owned resources.                                                        *)

(* Mutant of SpawnBackend: only a root hooks the exit event.               *)
SpawnBackendUnhooked(p) ==
  /\ Free(p) /\ ~procs[p].sealed /\ procs[p].children < ChildBound
  /\ procs' = [procs EXCEPT ![p].children = @ + 1]
  /\ UNCHANGED tempdir

(* spawnNativeLspProcess.                                                  *)
SpawnBackend(p) ==
  /\ Free(p) /\ ~procs[p].sealed /\ procs[p].children < ChildBound
  /\ procs' = [procs EXCEPT ![p].children = @ + 1, ![p].hooked = TRUE]
  /\ UNCHANGED tempdir

(* Mutant of ChildExits: seal() does not forget the children.              *)
ChildExitsSealed(p) ==
  /\ Free(p) /\ (procs[p].children > 0 \/ procs[p].sealed)
  /\ procs' = [procs EXCEPT ![p].children = @ - 1]
  /\ UNCHANGED tempdir

(* A child exits and is forgotten.                                         *)
ChildExits(p) ==
  /\ Free(p) /\ procs[p].children > 0
  /\ procs' = [procs EXCEPT ![p].children = @ - 1]
  /\ UNCHANGED tempdir

(* createOwnedServiceRoot, up to the marker.                               *)
MakeRoot(p, t) ==
  /\ Free(p) /\ ~procs[p].sealed /\ ~tempdir[t].used
  /\ tempdir' = [tempdir EXCEPT ![t] = Made]
  /\ procs' = [procs EXCEPT ![p].tracked = @ \union {t}, ![p].hooked = TRUE,
                            ![p].marking = {t}]

(* The marker is written, or cannot be and the root is released.           *)
MarkRoot(p, t) ==
  /\ Live(p) /\ procs[p].marking = {t}
  /\ \/ /\ tempdir' = [tempdir EXCEPT ![t].pid = procs[p].pid]
        /\ procs' = [procs EXCEPT ![p].marking = {}]
     \/ /\ Removal({t})
        /\ procs' = [procs EXCEPT ![p].marking = {}, ![p].tracked = @ \ {t}]

(* release(), when the workspace is disposed of.                           *)
ReleaseRoot(p, t) ==
  /\ Free(p) /\ t \in procs[p].tracked
  /\ procs' = [procs EXCEPT ![p].tracked = @ \ {t}]
  /\ Removal({t})

-----------------------------------------------------------------------------
(* End.                                                                    *)

\* seal() and exit.
Finishes(p) ==
  /\ procs' = [procs EXCEPT ![p] = [Sealed(@) EXCEPT !.at = "exited"]]
  /\ Removal(procs[p].tracked)

(* close(): the end of stdin, a signal or the transport.  closeCore() of a *)
(* core that has not started resolves at once.                             *)
CloseBegins(p) ==
  /\ Free(p) /\ ~procs[p].closing
  /\ procs' = [procs EXCEPT ![p] = [Sealed(@) EXCEPT !.closing = TRUE]]
  /\ Removal(procs[p].tracked)

(* finish(): closeCore() settles, or a second signal arrives.              *)
CloseSettles(p) == Free(p) /\ procs[p].closing /\ Finishes(p)

(* Mutant of BudgetPasses: the timer is armed once the core has started.   *)
BudgetPassesServing(p) ==
  Free(p) /\ procs[p].closing /\ procs[p].at = "serving" /\ Finishes(p)

(* finish(): 1.5 s have passed, whatever closeCore() does.                 *)
BudgetPasses(p) == Free(p) /\ procs[p].closing /\ Finishes(p)

(* The core cannot start.                                                  *)
StartFails(p) ==
  Free(p) /\ procs[p].at = "starting" /\ ~procs[p].closing /\ Finishes(p)

(* An exception or a rejection that nothing handles (RootAccess!crashed):  *)
(* seal() runs if the exit event is hooked.                                *)
UncaughtError(p) ==
  /\ Free(p)
  /\ \/ procs[p].hooked /\ Finishes(p)
     \/ /\ ~procs[p].hooked
        /\ procs' = [procs EXCEPT ![p].at = "exited"]
        /\ UNCHANGED tempdir

(* Killed, or signalled before the triggers are installed: no exit event.  *)
KillProcess(p) ==
  /\ Live(p)
  /\ procs' = [procs EXCEPT ![p].at = "killed"]
  /\ UNCHANGED tempdir

(* A day passes for a root; no process takes that long to write a marker.  *)
RootAges(t) ==
  /\ tempdir[t].there /\ ~tempdir[t].old
  /\ \A p \in Processes : Live(p) => t \notin procs[p].marking
  /\ tempdir' = [tempdir EXCEPT ![t].old = TRUE]
  /\ UNCHANGED procs

RootMarked(p) == \E t \in TempRoots : MarkRoot(p, t)

LifeNext ==
  \/ \E p \in Processes :
       \/ \E pid \in Pids : StartProcess(p, pid)
       \/ \E t \in TempRoots : SweepRoot(p, t)
       \/ SweepEnds(p) \/ CoreStarts(p) \/ StartFails(p)
       \/ SpawnBackend(p) \/ ChildExits(p)
       \/ \E t \in TempRoots : MakeRoot(p, t) \/ ReleaseRoot(p, t)
       \/ RootMarked(p)
       \/ CloseBegins(p) \/ CloseSettles(p) \/ BudgetPasses(p)
       \/ UncaughtError(p) \/ KillProcess(p)
  \/ \E t \in TempRoots : RootAges(t)

LifeSpec == LifeInit /\ [][LifeNext]_lifeVars

(* The timer of the budget fires, and synchronous calls return.            *)
LifeFairness ==
  \A p \in Processes : WF_lifeVars(RootMarked(p) \/ BudgetPasses(p))

-----------------------------------------------------------------------------
(* Correctness.                                                            *)

Phases == {"off", "sweeping", "starting", "serving", "exited", "killed"}

LifeTypeOK ==
  /\ procs \in [Processes ->
       [at : Phases, pid : Pids \union {NoPid}, unswept : SUBSET TempRoots,
        closing : BOOLEAN, sealed : BOOLEAN, hooked : BOOLEAN, children : Nat,
        tracked : SUBSET TempRoots, marking : SUBSET TempRoots]]
  /\ tempdir \in [TempRoots ->
       [there : BOOLEAN, used : BOOLEAN, pid : Pids \union {NoPid},
        old : BOOLEAN, stuck : BOOLEAN]]

(* service-root.ts: "a sweep can always attribute a root to its owner".    *)
(* However many processes start, sweep and end, and whatever pids they     *)
(* get, the roots a live process has are on disk, and no two processes     *)
(* have the same one.                                                      *)
LiveRootsKept ==
  \A p \in {q \in Processes : Live(q)} : \A t \in procs[p].tracked :
    /\ tempdir[t].there
    /\ \A q \in Processes : Live(q) /\ t \in procs[q].tracked => q = p

(* owned-resources.ts: a process that exits in any way but being killed    *)
(* leaves no backend and no root behind (except one it could not remove),  *)
(* not even those created while it was closing.                            *)
ExitLeavesNothing ==
  /\ \A p \in Processes : procs[p].at = "exited" => procs[p].children = 0
  /\ \A t \in TempRoots : tempdir[t].there /\ ~tempdir[t].stuck =>
       \E p \in Processes : procs[p].at # "exited" /\ t \in procs[p].tracked

(* A process that begins to close ends, however slow its core is: again    *)
(* and again (and so at last, as each starts once) no process is closing.  *)
StdioCloseEnds == []<>(\A p \in Processes : procs[p].closing => ~Live(p))
===============================================================================
