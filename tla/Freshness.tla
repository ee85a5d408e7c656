------------------------------ MODULE Freshness ------------------------------
(***************************************************************************)
(* Workspace freshness of the Code Explorer server                         *)
(* (packages/code-explorer/src/freshness): the watcher or the poll that    *)
(* asks for a reconciliation, the single reconciliation in flight, the     *)
(* generation it publishes, and the queue in which requests and explicit   *)
(* refreshes meet it.                                                      *)
(*                                                                         *)
(* A reconciliation reads the workspace twice, file by file, while files   *)
(* are being saved.  A file's content is a version number that only grows: *)
(* a file saved back to an earlier content between the two reads, which    *)
(* equal hashes would hide, is left out.  The promise reactions            *)
(* that follow the end of a reconciliation (its finally, the await of the  *)
(* refresh that waits for it, the rescheduled poll) run before anything    *)
(* else does, so they belong to the action that ends it.                   *)
(***************************************************************************)
EXTENDS Integers, Sequences, FiniteSets, SequencesExt

CONSTANTS
  Files,            \* supported files below the project root
  MaxAttempts,      \* publication mismatches before workspace_churn
  VersionBound,     \* model bound: the versions of one file
  GenerationBound,  \* model bound: generations after which nothing new starts
  RequestBound      \* model bound: requests made to the scheduler

ASSUME FreshnessAssumption ==
  /\ IsFiniteSet(Files)
  /\ MaxAttempts \in Nat \ {0} /\ VersionBound \in Nat \ {0}
  /\ GenerationBound \in Nat /\ RequestBound \in Nat

None == 0                        \* pending_generation null
Unread == [f \in Files |-> 0]    \* an empty manifest

VARIABLES
  disk,        \* the version of each file
  unseen,      \* the watcher has an event it has not delivered
  mode,        \* "unstarted", or the mode start() found: watching or polling
  listening,   \* there is a watcher and nobody has closed it
  opened,      \* start() has resolved, requests reach the scheduler
  closed,      \* closed
  coalesce,    \* the coalescing timer is armed
  poll,        \* the poll timer: off, armed, or waiting for its reconcile
  current,     \* status.current_generation
  pending,     \* status.pending_generation
  state,       \* status.state
  next,        \* nextGeneration
  manifest,    \* the manifest of the current generation
  forced,      \* forceRefresh
  runAt,       \* the reconciliation in flight: none, capture or verify
  attempt,     \* its attempt
  todo,        \* the files it has yet to read in this phase
  captured,    \* what it captured
  verified,    \* what it reads before publishing
  analyzed,    \* the generation it analysed
  tail,        \* the scheduler's queue, oldest first
  phase,       \* the refresh at its head: idle, working or reconciling
  requested,   \* requests made so far
  witnessed    \* the workspace contents since the reconciliation began

workspace == <<disk, unseen>>
timers == <<mode, listening, opened, closed, coalesce, poll>>
status == <<current, pending, state, next, manifest, forced>>
run == <<runAt, attempt, todo, captured, verified, analyzed>>
scheduler == <<tail, phase, requested>>
vars == <<workspace, timers, status, run, scheduler, witnessed>>

Init ==
  /\ disk = [f \in Files |-> 1] /\ unseen = FALSE
  /\ mode = "unstarted" /\ listening = FALSE
  /\ opened = FALSE /\ closed = FALSE
  /\ coalesce = FALSE /\ poll = "off"
  /\ current = 0 /\ pending = None /\ state = "initializing" /\ next = 1
  /\ manifest = Unread /\ forced = FALSE
  /\ runAt = "none" /\ attempt = 0 /\ todo = {}
  /\ captured = Unread /\ verified = Unread /\ analyzed = None
  /\ tail = <<>> /\ phase = "idle" /\ requested = 0
  /\ witnessed = {}

-----------------------------------------------------------------------------
(* FreshnessRuntime: the transitions of the status.                        *)

Reserve ==
  /\ pending' = next /\ next' = next + 1 /\ state' = "refreshing"

(* Reserve a generation unless one is pending.                             *)
ReserveIfNone ==
  IF pending = None THEN Reserve ELSE UNCHANGED <<pending, next, state>>

GiveUp(reason) ==
  /\ pending' = None /\ state' = reason /\ forced' = FALSE

-----------------------------------------------------------------------------
(* The reconciliation in flight.                                           *)

BeginAttempt(n) ==
  /\ runAt' = "capture" /\ attempt' = n /\ todo' = Files
  /\ captured' = Unread /\ verified' = Unread /\ analyzed' = None

(* reconcile(): join the reconciliation in flight or begin one.            *)
Reconcile ==
  IF runAt # "none" THEN UNCHANGED <<status, run, witnessed>>
  ELSE /\ ReserveIfNone
       /\ BeginAttempt(1)
       /\ witnessed' = {disk}
       /\ UNCHANGED <<current, manifest, forced>>

(* Mutant of Repolled: the poll is rescheduled whatever was closed.        *)
RepolledBlindly == IF poll = "reconciling" THEN "armed" ELSE poll

(* The poll timer once the reconciliation it waits for has ended.          *)
Repolled ==
  IF poll # "reconciling" THEN poll ELSE IF closed THEN "off" ELSE "armed"

(* The reconciliation ends: running is cleared, start() and the refresh    *)
(* waiting for it resume.                                                  *)
EndRun ==
  /\ runAt' = "none" /\ attempt' = 0 /\ todo' = {}
  /\ captured' = Unread /\ verified' = Unread /\ analyzed' = None
  /\ witnessed' = {}
  /\ opened' = TRUE
  /\ poll' = Repolled
  /\ IF phase = "reconciling"
     THEN tail' = Tail(tail) /\ phase' = "idle"
     ELSE UNCHANGED <<tail, phase>>
  /\ UNCHANGED <<workspace, mode, listening, closed, coalesce, requested>>

(* One file is stable and hashed.                                          *)
ReadFile(f) ==
  /\ runAt # "none" /\ f \in todo
  /\ todo' = todo \ {f}
  /\ IF runAt = "capture"
     THEN captured' = [captured EXCEPT ![f] = disk[f]] /\ UNCHANGED verified
     ELSE verified' = [verified EXCEPT ![f] = disk[f]] /\ UNCHANGED captured
  /\ UNCHANGED <<workspace, timers, status, runAt, attempt, analyzed,
                 scheduler, witnessed>>

(* A file cannot be read, keeps changing, is too large, or was deleted     *)
(* after it was listed: incomplete_write, scan_limit, unavailable.         *)
ReadFails ==
  /\ runAt # "none" /\ todo # {}
  /\ GiveUp("degraded")
  /\ EndRun
  /\ UNCHANGED <<current, next, manifest>>

(* Mutant of CanReuse: the captured manifest is not compared.              *)
CanReuseAny == ~forced /\ current > 0

CanReuse == ~forced /\ current > 0 /\ manifest = captured

(* The captured manifest is the current one: nothing to publish.           *)
ReuseCurrent ==
  /\ runAt = "capture" /\ todo = {} /\ CanReuse
  /\ GiveUp("ready")
  /\ EndRun
  /\ UNCHANGED <<current, next, manifest>>

(* Analyse the captured manifest and verify it before publication.         *)
Analyze ==
  /\ runAt = "capture" /\ todo = {} /\ ~CanReuse
  /\ ReserveIfNone
  /\ analyzed' = pending'
  /\ runAt' = "verify" /\ todo' = Files
  /\ UNCHANGED <<workspace, timers, current, manifest, forced, attempt,
                 captured, verified, scheduler, witnessed>>

(* Mutant of CanPublish: the manifests are not compared.                   *)
CanPublishUnverified == analyzed > current

CanPublish == analyzed > current /\ captured = verified

Publish ==
  /\ runAt = "verify" /\ todo = {} /\ CanPublish
  /\ current' = analyzed /\ manifest' = verified
  /\ GiveUp("ready")
  /\ EndRun
  /\ UNCHANGED next

(* A mismatch discards the analysis and reserves another generation, and   *)
(* the last attempt gives up with workspace_churn.                         *)
Mismatch ==
  /\ runAt = "verify" /\ todo = {} /\ ~CanPublish
  /\ UNCHANGED <<current, manifest>>
  /\ IF attempt < MaxAttempts
     THEN /\ Reserve /\ UNCHANGED forced
          /\ BeginAttempt(attempt + 1)
          /\ UNCHANGED <<workspace, timers, scheduler, witnessed>>
     ELSE /\ next' = next + 1 /\ GiveUp("degraded")
          /\ EndRun

-----------------------------------------------------------------------------
(* What asks for a reconciliation.                                         *)

(* A file is created, saved, renamed or deleted; a watcher will tell.      *)
Save(f) ==
  /\ disk[f] < VersionBound
  /\ disk' = [disk EXCEPT ![f] = @ + 1]
  /\ unseen' = listening
  /\ witnessed' = IF runAt = "none" THEN {} ELSE witnessed \union {disk'}
  /\ UNCHANGED <<timers, status, run, scheduler>>

(* The first call starts freshness, also when the server is closed: then   *)
(* nobody closes the watcher.  chokidar reports the files it finds.        *)
Start ==
  /\ mode = "unstarted"
  /\ \/ /\ mode' = "watching" /\ listening' = TRUE /\ unseen' = TRUE
        /\ UNCHANGED poll
     \/ /\ mode' = "polling" /\ UNCHANGED <<listening, unseen>>
        /\ poll' = IF closed THEN "off" ELSE "armed"
  /\ Reconcile
  /\ UNCHANGED <<disk, opened, closed, coalesce, scheduler>>

(* A change reaches schedule().                                            *)
WatcherEvent ==
  /\ unseen /\ unseen' = FALSE
  /\ coalesce' = TRUE
  /\ UNCHANGED <<disk, mode, listening, opened, closed, poll, status, run,
                 scheduler, witnessed>>

(* A watcher error or overflow reaches schedule().                         *)
WatcherError ==
  /\ listening /\ ~coalesce /\ next <= GenerationBound
  /\ coalesce' = TRUE
  /\ UNCHANGED <<workspace, mode, listening, opened, closed, poll, status, run,
                 scheduler, witnessed>>

CoalesceFires ==
  /\ coalesce /\ coalesce' = FALSE
  /\ Reconcile
  /\ UNCHANGED <<workspace, mode, listening, opened, closed, poll, scheduler>>

PollFires ==
  /\ poll = "armed" /\ next <= GenerationBound
  /\ poll' = "reconciling"
  /\ Reconcile
  /\ UNCHANGED <<workspace, mode, listening, opened, closed, coalesce,
                 scheduler>>

(* close(): the timers are cleared and the watcher there is stops          *)
(* reporting.  What is in flight goes on.                                  *)
Close ==
  /\ ~closed /\ closed' = TRUE
  /\ coalesce' = FALSE /\ unseen' = FALSE /\ listening' = FALSE
  /\ poll' = IF poll = "armed" THEN "off" ELSE poll
  /\ UNCHANGED <<disk, mode, opened, status, run, scheduler, witnessed>>

-----------------------------------------------------------------------------
(* ProjectGenerationScheduler.                                             *)

AtHead(kind) == tail # <<>> /\ Head(tail) = kind

Request(kind) ==
  /\ opened /\ requested < RequestBound
  /\ requested' = requested + 1
  /\ tail' = Append(tail, kind)
  /\ UNCHANGED <<workspace, timers, status, run, phase, witnessed>>

RequestAccept == Request("accept")

Refreshing == \E i \in DOMAIN tail : tail[i] = "refresh"

RequestRefresh == ~Refreshing /\ Request("refresh")

(* A refresh requested while one is outstanding shares its answer.         *)
JoinRefresh ==
  /\ opened /\ Refreshing /\ requested < RequestBound
  /\ requested' = requested + 1
  /\ UNCHANGED <<workspace, timers, status, run, tail, phase, witnessed>>

(* An ordinary request takes the status and leaves the queue.              *)
Accept ==
  /\ AtHead("accept")
  /\ tail' = Tail(tail)
  /\ UNCHANGED <<workspace, timers, status, run, phase, requested,
                 witnessed>>

(* reserveRefresh, then the adapters and the derived data are rebuilt.     *)
BeginRefresh ==
  /\ AtHead("refresh") /\ phase = "idle"
  /\ phase' = "working"
  /\ ReserveIfNone /\ forced' = TRUE
  /\ UNCHANGED <<workspace, timers, current, manifest, run, tail, requested,
                 witnessed>>

RefreshRebuilt ==
  /\ phase = "working" /\ phase' = "reconciling"
  /\ Reconcile
  /\ UNCHANGED <<workspace, timers, tail, requested>>

(* Mutant of RebuildFails: the failure is not caught.                      *)
RebuildFailsUncaught ==
  /\ phase = "working" /\ phase' = "failed"
  /\ UNCHANGED <<workspace, timers, status, run, tail, requested,
                 witnessed>>

(* Mutant of RebuildFails: the reserved generation stays pending.          *)
RebuildFailsPending ==
  /\ phase = "working" /\ phase' = "idle"
  /\ tail' = Tail(tail)
  /\ forced' = FALSE /\ UNCHANGED <<pending, state>>
  /\ UNCHANGED <<workspace, timers, current, next, manifest, run, requested,
                 witnessed>>

(* A backend or the rebuild fails: failRefresh.                            *)
RebuildFails ==
  /\ phase = "working" /\ phase' = "idle"
  /\ tail' = Tail(tail)
  /\ GiveUp("refresh_failed")
  /\ UNCHANGED <<workspace, timers, current, next, manifest, run, requested,
                 witnessed>>

-----------------------------------------------------------------------------

Running ==
  \/ \E f \in Files : ReadFile(f)
  \/ ReuseCurrent
  \/ Analyze
  \/ Publish
  \/ Mismatch

Serving ==
  \/ Accept
  \/ BeginRefresh
  \/ RefreshRebuilt
  \/ RebuildFails

Next ==
  \/ \E f \in Files : Save(f)
  \/ Start
  \/ WatcherEvent
  \/ WatcherError
  \/ CoalesceFires
  \/ PollFires
  \/ Close
  \/ Running
  \/ ReadFails
  \/ RequestAccept
  \/ RequestRefresh
  \/ JoinRefresh
  \/ Serving

Spec == Init /\ [][Next]_vars

(* Reads finish (ten seconds and a hundred milliseconds bound the stat     *)
(* samples) and adapters are cut off by the request limiter.               *)
ServingFairness == WF_vars(Running) /\ WF_vars(Serving)

(* Timers fire and the watcher delivers what it has seen.                  *)
WatchingFairness == WF_vars(WatcherEvent) /\ WF_vars(CoalesceFires)

ServingSpec == Spec /\ ServingFairness

FairSpec == ServingSpec /\ WatchingFairness

-----------------------------------------------------------------------------
(* Properties.                                                             *)

Manifests == [Files -> Nat]
Operations == {"accept", "refresh"}

(* Every variable has its type.                                            *)
TypeOK ==
  /\ disk \in Manifests /\ unseen \in BOOLEAN
  /\ mode \in {"unstarted", "watching", "polling"}
  /\ listening \in BOOLEAN /\ opened \in BOOLEAN
  /\ closed \in BOOLEAN /\ coalesce \in BOOLEAN
  /\ poll \in {"off", "armed", "reconciling"}
  /\ current \in Nat /\ pending \in Nat /\ next \in Nat \ {0}
  /\ state \in {"initializing", "ready", "refreshing", "degraded",
                "refresh_failed"}
  /\ manifest \in Manifests /\ forced \in BOOLEAN
  /\ runAt \in {"none", "capture", "verify"} /\ attempt \in 0..MaxAttempts
  /\ todo \subseteq Files /\ captured \in Manifests /\ verified \in Manifests
  /\ analyzed \in Nat
  /\ tail \in Seq(Operations) /\ phase \in {"idle", "working", "reconciling"}
  /\ requested \in Nat
  /\ witnessed \subseteq Manifests

(* The status tells the truth about work in progress: it says refreshing   *)
(* exactly when a generation is pending, the pending generation is newer   *)
(* than every other, and while one is pending somebody is working on it,   *)
(* whatever reconciliations and refreshes ended in between.                *)
StatusTruthful ==
  /\ (state = "refreshing") <=> (pending # None)
  /\ pending # None => /\ pending > current /\ pending = next - 1
                       /\ runAt # "none" \/ phase = "working"

(* A reconciliation that leaves the status ready leaves a manifest that    *)
(* was the whole content of the workspace at one moment since it began,    *)
(* although files were read one by one while others were being saved.      *)
ReadyIsReal ==
  [][(runAt # "none" /\ runAt' = "none" /\ state' = "ready")
       => manifest' \in witnessed]_vars

(* Polling ends with close(), also when it comes during a poll's reconcile, *)
(* and so does coalescing, unless the first call came only after close():  *)
(* the watcher it creates stays open and wakes the closed server.          *)
ClosedStopsPolling ==
  closed => poll # "armed" /\ (coalesce => listening)

(* The refinement: what a reader of current_generation sees is a timeline. *)
Promise == INSTANCE Timeline WITH working <- (runAt # "none")

(* Readers see the promised timeline of generations.                       *)
TimelineKept == Promise!Spec

(* The queue of the scheduler drains again and again, so every request     *)
(* that entered it leaves it (an instance has finitely many): neither a    *)
(* failing backend nor a workspace that keeps changing blocks the queue.   *)
EveryRequestServed == []<>(tail = <<>>)

(* workspace-freshness: "Saved project changes become visible without a    *)
(* process restart".  In watching mode the current generation catches up   *)
(* with what is on disk, unless reading fails and the status says so.      *)
SavesBecomeVisible ==
  (mode = "watching" /\ disk # manifest)
    ~> (disk = manifest \/ closed \/ state = "degraded")
=============================================================================
