--------------------------- MODULE DashboardRuntimes ---------------------------
(***************************************************************************)
(* The in-process Code Explorer runtimes of a dashboard                    *)
(* (tools/openspec-dashboard/lib/code-explorer-manager.mjs).  Launches are *)
(* admitted one after the other; an admission removes the records of an    *)
(* earlier identity of its project, joins or reuses the record of the      *)
(* current one, or makes room and starts a runtime, and awaits at each of  *)
(* these points.  Starts end, routes are used and the dashboard shuts down *)
(* meanwhile.                                                              *)
(***************************************************************************)
EXTENDS Naturals, Sequences, FiniteSets

CONSTANTS
  Projects,       \* the registered projects
  MaxRuntimes,    \* MAX_RUNTIMES
  IdentityBound,  \* model bound: the identities a project root has over time
  LaunchBound,    \* model bound: the launches requested
  ClockBound      \* model bound: the half hours that pass

ASSUME RuntimesAssumption ==
  /\ Projects # {}
  /\ MaxRuntimes \in Nat \ {0} /\ LaunchBound \in Nat \ {0}

VARIABLES
  identity,    \* the identity each project root has on disk
  clock,       \* now(), in units of IDLE_MS
  runtimes,    \* every record ever created, in order
  records,     \* the indices of those in the map
  admission,   \* the projects of the launches that await their admission
  reserving,   \* the admission in progress
  requested,   \* model bound: how many launches have been requested
  shutdown,    \* where shutdown() is
  swept        \* the records shutdown() has removed

runtimesVars ==
  <<identity, clock, runtimes, records, admission, reserving, requested,
    shutdown, swept>>

NoReservation ==
  [at |-> "idle", project |-> CHOOSE p \in Projects : TRUE, identity |-> 0,
   awaits |-> {}]

RuntimesInit ==
  /\ identity = [p \in Projects |-> 1] /\ clock = 0
  /\ runtimes = <<>> /\ records = {}
  /\ admission = <<>> /\ reserving = NoReservation /\ requested = 0
  /\ shutdown = "no" /\ swept = {}

\* A runtime that is discarded is closed because nobody wants its start.  One
\* whose close() was rejected is abandoned: its language servers may still
\* stop, or run on, and neither the manager nor anything else awaits them.
RunningRuntimes == {r \in DOMAIN runtimes : runtimes[r].state # "closed"}
Abandoned == {r \in DOMAIN runtimes : runtimes[r].state = "abandoned"}
AttendedRuntimes == RunningRuntimes \ Abandoned

\* What remove() awaits of each, the promise of its start or its close(), has
\* settled.
Ended(set) ==
  \A r \in set : runtimes[r].state \in {"open", "closed", "abandoned"}

\* remove() of the records in the set, up to its await: an open runtime
\* begins to close, a starting one is told to abort.
Closing(set) ==
  runtimes' = [r \in DOMAIN runtimes |->
    IF r \in set /\ runtimes[r].state = "open"
    THEN [runtimes[r] EXCEPT !.state = "closing"] ELSE runtimes[r]]

OfProject(p) == {r \in records : runtimes[r].project = p}

-----------------------------------------------------------------------------
(* Admission of launches.                                                  *)

Launch(p) ==
  /\ requested < LaunchBound /\ requested' = requested + 1
  /\ admission' = IF shutdown = "no" THEN Append(admission, p) ELSE admission
  /\ UNCHANGED <<identity, clock, runtimes, records, reserving, shutdown,
                 swept>>

Stale(p) == {r \in OfProject(p) : runtimes[r].identity # identity[p]}

(* The identity of the root cannot be read: the launch fails.              *)
RefuseLaunch ==
  /\ reserving.at = "idle" /\ admission # <<>>
  /\ admission' = Tail(admission)
  /\ UNCHANGED <<identity, clock, runtimes, records, reserving, requested,
                 shutdown, swept>>

(* reserve() begins: the identity is read and stale records are removed.   *)
BeginReserve ==
  /\ reserving.at = "idle" /\ admission # <<>>
  /\ LET p == Head(admission)
     IN  /\ reserving' = [at |-> "stale", project |-> p,
                          identity |-> identity[p], awaits |-> Stale(p)]
         /\ records' = records \ Stale(p)
         /\ Closing(Stale(p))
  /\ UNCHANGED <<identity, clock, admission, requested, shutdown, swept>>

Admitted ==
  /\ reserving' = NoReservation
  /\ admission' = Tail(admission)

Existing ==
  {r \in OfProject(reserving.project) :
     runtimes[r].identity = reserving.identity}

(* The launch joins a start in progress or reuses an open runtime.         *)
JoinExisting ==
  /\ reserving.at = "stale" /\ Ended(reserving.awaits) /\ Existing # {}
  /\ runtimes' = [r \in DOMAIN runtimes |->
       IF r \in Existing /\ runtimes[r].state = "open"
       THEN [runtimes[r] EXCEPT !.used = clock] ELSE runtimes[r]]
  /\ Admitted
  /\ UNCHANGED <<identity, clock, records, requested, shutdown, swept>>

IdleRuntimes ==
  {r \in records : runtimes[r].state = "open" /\ runtimes[r].used < clock}

Reclaimable ==
  {r \in IdleRuntimes :
     \A q \in IdleRuntimes : runtimes[r].used <= runtimes[q].used}

(* Mutant of Reclaim: a launch without capacity waits for it.              *)
ReclaimWaits ==
  /\ reserving.at = "stale" /\ Ended(reserving.awaits) /\ Existing = {}
  /\ Cardinality(records) < MaxRuntimes
  /\ reserving' = [reserving EXCEPT !.at = "create", !.awaits = {}]
  /\ UNCHANGED <<identity, clock, runtimes, records, admission, requested,
                 shutdown, swept>>

(* reclaimCapacity(): there is room, room is made, or the launch fails.    *)
Reclaim ==
  /\ reserving.at = "stale" /\ Ended(reserving.awaits) /\ Existing = {}
  /\ \/ /\ Cardinality(records) < MaxRuntimes
        /\ reserving' = [reserving EXCEPT !.at = "create", !.awaits = {}]
        /\ UNCHANGED <<runtimes, records, admission>>
     \/ /\ Cardinality(records) >= MaxRuntimes
        /\ \E r \in Reclaimable :
             /\ reserving' = [reserving EXCEPT !.at = "create", !.awaits = {r}]
             /\ records' = records \ {r}
             /\ Closing({r})
        /\ UNCHANGED admission
     \/ /\ Cardinality(records) >= MaxRuntimes /\ Reclaimable = {}
        /\ Admitted
        /\ UNCHANGED <<runtimes, records>>
  /\ UNCHANGED <<identity, clock, requested, shutdown, swept>>

(* Mutant of CreateStartingRecord: the removed runtime is not awaited.     *)
CreateStartingRecordAtOnce ==
  /\ reserving.at = "create"
  /\ runtimes' = Append(runtimes, [project |-> reserving.project,
                                   identity |-> reserving.identity,
                                   state |-> "starting", used |-> clock])
  /\ records' = records \union {Len(runtimes) + 1}
  /\ Admitted
  /\ UNCHANGED <<identity, clock, requested, shutdown, swept>>

(* createStartingRecord(): also when shutdown() was called meanwhile.      *)
CreateStartingRecord ==
  /\ reserving.at = "create" /\ Ended(reserving.awaits)
  /\ runtimes' = Append(runtimes, [project |-> reserving.project,
                                   identity |-> reserving.identity,
                                   state |-> "starting", used |-> clock])
  /\ records' = records \union {Len(runtimes) + 1}
  /\ Admitted
  /\ UNCHANGED <<identity, clock, requested, shutdown, swept>>

-----------------------------------------------------------------------------
(* The life of a runtime.                                                  *)

Become(r, state) == [runtimes EXCEPT ![r].state = state, ![r].used = clock]

(* Mutant of StartEnds: the start does not look whether it is still wanted.*)
StartEndsWanted(r) ==
  /\ runtimes[r].state = "starting"
  /\ runtimes' = Become(r, "open")
  /\ UNCHANGED <<identity, clock, records, admission, reserving, requested,
                 shutdown, swept>>

(* The start resolves: the runtime is open, or discarded if its record was *)
(* removed or the dashboard shuts down; or it rejects.  Whether the start  *)
(* itself closes what was aborted or the manager does makes no difference. *)
StartEnds(r) ==
  /\ runtimes[r].state = "starting"
  /\ \/ /\ shutdown = "no" /\ r \in records
        /\ runtimes' = Become(r, "open") /\ UNCHANGED records
     \/ /\ shutdown # "no" \/ r \notin records
        /\ runtimes' = Become(r, "discarded") /\ UNCHANGED records
     \/ /\ runtimes' = Become(r, "closed")
        /\ records' = records \ {r}
  /\ UNCHANGED <<identity, clock, admission, reserving, requested, shutdown,
                 swept>>

(* close() resolves: the server is closed and every adapter shut down.     *)
CloseEnds(r) ==
  /\ runtimes[r].state \in {"closing", "discarded"}
  /\ runtimes' = [runtimes EXCEPT ![r].state = "closed"]
  /\ records' = records \ {r}
  /\ UNCHANGED <<identity, clock, admission, reserving, requested, shutdown,
                 swept>>

(* close() rejects: ten seconds have passed while the cleanup goes on, or  *)
(* closing the server has failed and the adapters are never shut down.     *)
(* The admission that has removed the runtime fails and the next one       *)
(* begins; the rejection of a discarded runtime is caught.                 *)
CloseRejects(r) ==
  /\ runtimes[r].state \in {"closing", "discarded"}
  /\ runtimes' = [runtimes EXCEPT ![r].state = "abandoned"]
  /\ records' = records \ {r}
  /\ IF runtimes[r].state = "closing" /\ r \in reserving.awaits
     THEN Admitted ELSE UNCHANGED <<admission, reserving>>
  /\ UNCHANGED <<identity, clock, requested, shutdown, swept>>

(* The cleanup of a runtime whose close() was rejected may end later.      *)
LateCleanup(r) ==
  /\ runtimes[r].state = "abandoned"
  /\ runtimes' = [runtimes EXCEPT ![r].state = "closed"]
  /\ UNCHANGED <<identity, clock, records, admission, reserving, requested,
                 shutdown, swept>>

(* A request on the route of an open runtime.                              *)
Use(r) ==
  /\ r \in records /\ runtimes[r].state = "open" /\ runtimes[r].used < clock
  /\ runtimes' = [runtimes EXCEPT ![r].used = clock]
  /\ UNCHANGED <<identity, clock, records, admission, reserving, requested,
                 shutdown, swept>>

IdleTimePasses ==
  /\ clock < ClockBound /\ clock' = clock + 1
  /\ UNCHANGED <<identity, runtimes, records, admission, reserving, requested,
                 shutdown, swept>>

(* The project root is replaced on disk.                                   *)
ReplaceRoot(p) ==
  /\ identity[p] < IdentityBound
  /\ identity' = [identity EXCEPT ![p] = @ + 1]
  /\ UNCHANGED <<clock, runtimes, records, admission, reserving, requested,
                 shutdown, swept>>

-----------------------------------------------------------------------------
(* shutdown(): launches are refused, the admissions in progress go on, and *)
(* then every record is removed.                                           *)

BeginShutdown ==
  /\ shutdown = "no" /\ shutdown' = "draining"
  /\ UNCHANGED <<identity, clock, runtimes, records, admission, reserving,
                 requested, swept>>

(* Mutant of Sweep: the admissions in progress are not awaited.            *)
SweepAtOnce ==
  /\ shutdown = "draining" /\ shutdown' = "sweeping"
  /\ swept' = records /\ records' = {} /\ Closing(records)
  /\ UNCHANGED <<identity, clock, admission, reserving, requested>>

Sweep ==
  /\ shutdown = "draining" /\ admission = <<>>
  /\ shutdown' = "sweeping"
  /\ swept' = records /\ records' = {} /\ Closing(records)
  /\ UNCHANGED <<identity, clock, admission, reserving, requested>>

(* Every removal has settled.  The deadline of ten seconds answers earlier *)
(* but stops nothing.                                                      *)
Swept ==
  /\ shutdown = "sweeping" /\ Ended(swept)
  /\ shutdown' = "swept"
  /\ UNCHANGED <<identity, clock, runtimes, records, admission, reserving,
                 requested, swept>>

Reserving ==
  \/ RefuseLaunch \/ BeginReserve
  \/ JoinExisting \/ Reclaim \/ CreateStartingRecord

RuntimeEnds ==
  \E r \in DOMAIN runtimes : StartEnds(r) \/ CloseEnds(r) \/ CloseRejects(r)

RuntimesNext ==
  \/ \E p \in Projects : Launch(p) \/ ReplaceRoot(p)
  \/ Reserving
  \/ RuntimeEnds
  \/ \E r \in DOMAIN runtimes : Use(r) \/ LateCleanup(r)
  \/ IdleTimePasses
  \/ BeginShutdown \/ Sweep \/ Swept

RuntimesSpec == RuntimesInit /\ [][RuntimesNext]_runtimesVars

(* Starts and closes settle (a close within its ten seconds), and          *)
(* admissions go on when they have.  A late cleanup need not end.          *)
RuntimesFairness ==
  WF_runtimesVars(Reserving) /\ WF_runtimesVars(RuntimeEnds)

-----------------------------------------------------------------------------
(* Correctness.                                                            *)

RuntimesTypeOK ==
  /\ identity \in [Projects -> Nat] /\ clock \in Nat
  /\ runtimes \in Seq([project : Projects, identity : Nat, used : Nat,
                       state : {"starting", "open", "closing", "discarded",
                                "abandoned", "closed"}])
  /\ records \subseteq DOMAIN runtimes /\ swept \subseteq DOMAIN runtimes
  /\ admission \in Seq(Projects) /\ requested \in Nat
  /\ reserving \in [at : {"idle", "stale", "create"}, project : Projects,
                    identity : Nat, awaits : SUBSET DOMAIN runtimes]
  /\ shutdown \in {"no", "draining", "sweeping", "swept"}

(* code-explorer-launch: "at most eight starting or open Code Explorer     *)
(* children", counting those that still close as well: the place of a      *)
(* removed runtime is taken only once its close() has settled.  The bound  *)
(* does not hold of the abandoned ones, whose close() was rejected and     *)
(* whose servers may run beside a full map.                                *)
RuntimesBounded == Cardinality(AttendedRuntimes) <= MaxRuntimes

(* Two runtimes never serve one project at once, not even those of an old  *)
(* and a new identity of its root, unless close() of one was rejected: the *)
(* launch that met the rejection fails and the next one starts another.    *)
OneRuntimePerProject ==
  \A q, r \in AttendedRuntimes :
    runtimes[q].project = runtimes[r].project => q = r

(* code-explorer-launch: "shutdown completes only after every child exit   *)
(* is observed": what still runs once shutdown() has resolved is a runtime *)
(* whose close() was rejected, whatever was being admitted, started or     *)
(* removed when it was called.                                             *)
NothingOutlivesShutdown == shutdown = "swept" => RunningRuntimes \subseteq Abandoned

(* Every launch leaves the admission chain, so that one project never      *)
(* blocks the others (an instance has finitely many launches).             *)
AdmissionDrains == admission # <<>> ~> admission = <<>>
===============================================================================
