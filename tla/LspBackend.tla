----------------------------- MODULE LspBackend -----------------------------
(***************************************************************************)
(* A semantic backend of the Code Explorer server                          *)
(* (semantic/runtime/runtime-lsp-backend.ts and its helpers) and the       *)
(* direct LSP clients it owns (semantic/direct-lsp).                       *)
(*                                                                         *)
(* The backend starts a client on its first use, sends the queries through *)
(* it and shuts it down.  A client owns one language server process at a   *)
(* time; it fails on a crash, on a malformed frame or on two timeouts, and *)
(* replaces a crashed process from a timer, at most twice in a minute.     *)
(*                                                                         *)
(* The program is one JavaScript thread.  A callback of the event loop (a  *)
(* timer, an exit, a chunk of output) runs only when no promise reaction   *)
(* is waiting, but the frames of one chunk are all handled before the      *)
(* reactions to the first of them: chunk names the process being read, and *)
(* the ...Resumes actions are the reactions.  Callers of the backend are   *)
(* reactions themselves and may run between any two of those.              *)
(*                                                                         *)
(* Request ids are never reused (nextRequestId only grows), so the answer  *)
(* to a request that was settled finds no entry and is left out.           *)
(* Notifications the client permits and requests of the server change no   *)
(* state the properties see and are left out too.                          *)
(***************************************************************************)
EXTENDS Integers, FiniteSets

CONSTANTS
  Queries,        \* callers of query(), one semantic request at a time each
  Closer,         \* the caller of shutdown()
  RestartDelays,  \* entries of RESTART_DELAYS_MS: crashes that are restarted
  ClientBound,    \* model bound: direct LSP clients ever created
  ProcBound,      \* model bound: processes spawned; then spawn throws
  RefreshBound    \* model bound: explicit refreshes

Clients == 1..ClientBound
Procs == 1..ProcBound
Ops == Queries \cup Clients \cup {Closer}  \* a client: its initialize request

ASSUME LspAssumption ==
  /\ IsFiniteSet(Queries) /\ Closer \notin Queries \cup Clients
  /\ Queries \cap Clients = {}
  /\ RestartDelays \in Nat
  /\ ClientBound \in Nat \ {0} /\ ProcBound \in Nat /\ RefreshBound \in Nat

MaxTimeouts == 2    \* timeouts within the window that terminate the process

VARIABLES
  backend,    \* RuntimeLspState; client and inner are 0 for undefined
  lsp,        \* DirectLspRuntimeState of every client
  proc,       \* the processes: whose, attached at which epoch, how alive
  wait,       \* the request every operation is waiting for
  query,      \* how far each query is; idle when it has been settled
  closing,    \* how far shutdown() is
  chunk,      \* the process whose chunk of output is being handled, or 0
  refreshes   \* calls of refresh() so far

vars == <<backend, lsp, proc, wait, query, closing, chunk, refreshes>>

Resting == [status |-> "idle", client |-> 0, epoch |-> 0, proc |-> 0]

Init ==
  /\ backend = [client |-> 0, created |-> 0, inner |-> 0, started |-> "none",
                state |-> "initializing", disposed |-> FALSE,
                refreshRequired |-> FALSE]
  /\ lsp = [c \in Clients |->
       [epoch |-> 0, state |-> "initializing", stopping |-> FALSE,
        stopped |-> FALSE, proc |-> 0, buffered |-> FALSE,
        timers |-> 0, crashes |-> 0, timeouts |-> 0]]
  /\ proc = [p \in Procs |-> [client |-> 0, epoch |-> 0, life |-> "none"]]
  /\ wait = [o \in Ops |-> Resting]
  /\ query = [q \in Queries |-> "idle"]
  /\ closing = "open" /\ chunk = 0 /\ refreshes = 0

-----------------------------------------------------------------------------
(* What the handlers of a client are built from.  L, W and P stand for     *)
(* lsp, wait and proc as the handler has left them so far.                 *)

DownOnlyUnavailable == {"unavailable"}  \* mutant: a failed client fails again
DownOnlyFailed == {"failed"}            \* mutant: an unavailable one fails
Down == {"failed", "unavailable"}
Unsettled == {"pending", "lost"}

KillNothing(P, p) == P  \* mutant: failing leaves the process running
Kill(P, p) ==
  [r \in Procs |-> IF r = p /\ P[r].life = "live"
                   THEN [P[r] EXCEPT !.life = "killed"] ELSE P[r]]

RejectNothing(W, c) == W  \* mutant: failing leaves the requests pending
RejectInflight(W, c) ==
  [o \in Ops |-> IF W[o].client = c /\ W[o].status \in Unsettled
                 THEN [W[o] EXCEPT !.status = "rejected"] ELSE W[o]]

\* A third crash within the window makes the client unavailable, the others
\* arm a restart timer.
RecordCrash(l) ==
  IF l.crashes >= RestartDelays
  THEN [l EXCEPT !.state = "unavailable", !.crashes = RestartDelays + 1]
  ELSE [l EXCEPT !.crashes = @ + 1, !.timers = @ + 1]

Fail(c, e, restart, L, W, P) ==
  IF L[c].epoch = e /\ L[c].state \notin Down
  THEN LET down == [L[c] EXCEPT !.state = "failed"] IN
       /\ lsp' = [L EXCEPT ![c] = IF restart THEN RecordCrash(down) ELSE down]
       /\ wait' = RejectInflight(W, c)
       /\ proc' = Kill(P, L[c].proc)
  ELSE lsp' = L /\ wait' = W /\ proc' = P

\* sendRequest: a pending entry with its timer, written to the process.
Send(W, L, o, c) ==
  [W EXCEPT ![o] = [status |-> "pending", client |-> c,
                    epoch |-> L[c].epoch, proc |-> L[c].proc]]

Invalidated(l) ==
  [l EXCEPT !.epoch = @ + 1, !.stopping = TRUE, !.stopped = TRUE]

TerminateNow(c, L, W) ==
  /\ lsp' = [L EXCEPT ![c] = [Invalidated(@) EXCEPT !.timers = 0]]
  /\ wait' = RejectInflight(W, c)
  /\ proc' = Kill(proc, L[c].proc)

\* beginStart.
Begun(l, p) ==
  [l EXCEPT !.epoch = @ + 1, !.state = "initializing", !.stopping = FALSE,
            !.stopped = FALSE, !.proc = p, !.buffered = FALSE]

Unborn == {p \in Procs : proc[p].life = "none"}

\* spawnProcess, then start(process) of client c up to the first await.
Spawn(c, L, W) ==
  \E p \in Unborn :
    /\ \A r \in Unborn : p <= r
    /\ IF L[c].stopping
       THEN /\ proc' = [proc EXCEPT ![p] = [client |-> c, epoch |-> 0,
                                            life |-> "live"]]
            /\ lsp' = L /\ wait' = W
       ELSE LET begun == [L EXCEPT ![c] = Begun(@, p)] IN
            /\ proc' = [proc EXCEPT ![p] =
                 [client |-> c, epoch |-> begun[c].epoch, life |-> "live"]]
            /\ lsp' = begun
            /\ wait' = Send(W, begun, c, c)

-----------------------------------------------------------------------------
(* The event loop: whether a reaction is waiting.                          *)

Settled(o) == wait[o].status \in {"result", "modified", "rejected"}
Reactions ==
  \/ \E o \in Ops : Settled(o)
  \/ backend.started = "done" /\ \E q \in Queries : query[q] = "starting"
  \/ closing = "exited"
Quiet == chunk = 0 /\ ~Reactions

-----------------------------------------------------------------------------
(* The backend: start, query, refresh, shutdown.                           *)

\* recordStartFailure and the catch of trackStart; everybody who awaited
\* the start is rejected.
StartFailedWithCode(b, code) ==  \* mutant: the code is published as the state
  [b EXCEPT !.started = "none", !.state = code]
StartFailed(b, code) ==
  [b EXCEPT !.started = "none",
            !.state = IF code = "identity" THEN "unavailable" ELSE "failed",
            !.refreshRequired = @ \/ code = "identity"]
Refused(Q) == [q \in Queries |-> IF Q[q] = "starting" THEN "idle" ELSE Q[q]]

\* startFreshRuntime up to the await of client.start: the launch policy may
\* refuse, the executable may have changed, spawn may throw.
StartFresh(b, Q) ==
  \/ \E code \in {"identity", "other"} :
       /\ backend' = StartFailed(b, code) /\ query' = Refused(Q)
       /\ UNCHANGED <<lsp, wait, proc>>
  \/ /\ b.created < ClientBound
     /\ LET made == [b EXCEPT !.created = @ + 1, !.client = b.created + 1] IN
        \/ /\ backend' = StartFailed(made, "other") /\ query' = Refused(Q)
           /\ UNCHANGED <<lsp, wait, proc>>
        \/ /\ backend' = [made EXCEPT !.started = "running"] /\ query' = Q
           /\ Spawn(made.client, lsp, wait)

CanStart == ~backend.disposed /\ ~backend.refreshRequired

\* The start that the first tool call of the process makes for every backend.
Start ==
  /\ chunk = 0 /\ CanStart /\ backend.started = "none"
  /\ StartFresh(backend, query)
  /\ UNCHANGED <<closing, chunk, refreshes>>

Query(q) ==
  /\ chunk = 0 /\ query[q] = "idle"
  /\ IF ~CanStart
     THEN UNCHANGED <<backend, query, lsp, wait, proc>>  \* refused at once
     ELSE IF backend.started # "none"
     THEN /\ query' = [query EXCEPT ![q] = "starting"]
          /\ UNCHANGED <<backend, lsp, wait, proc>>
     ELSE StartFresh(backend, [query EXCEPT ![q] = "starting"])
  /\ UNCHANGED <<closing, chunk, refreshes>>

\* The initialize request of client c has settled: initializeRuntime goes on,
\* with startRuntime behind it and, when the backend awaits this client, the
\* end of startRuntimeProcess.
InitializeResumes(c) ==
  LET w == [wait EXCEPT ![c] = Resting]
      e == wait[c].epoch
      awaited == backend.started = "running" /\ backend.client = c
      fails(code) == IF awaited
        THEN backend' = StartFailed(backend, code) /\ query' = Refused(query)
        ELSE UNCHANGED <<backend, query>> IN
  /\ chunk = 0 /\ Settled(c)
  /\ IF wait[c].status = "rejected" \/ lsp[c].epoch # e
     THEN Fail(c, e, TRUE, lsp, w, proc) /\ fails("other")
     ELSE \/ \E code \in {"identity", "other"} :  \* confirmInitialized refuses
               /\ lsp' = [lsp EXCEPT ![c].state = "unavailable"]
               /\ wait' = w /\ proc' = Kill(proc, lsp[c].proc)
               /\ fails(code)
          \/ /\ lsp' = [lsp EXCEPT ![c].state = "ready"]
             /\ wait' = w /\ UNCHANGED proc
             /\ \/ fails("other")  \* an initial document cannot be read
                \/ /\ backend' = IF ~awaited THEN backend
                     ELSE IF backend.disposed
                     THEN StartFailed(backend, "other")
                     ELSE [backend EXCEPT !.inner = c, !.started = "done",
                                          !.state = "ready"]
                   /\ query' = IF awaited /\ backend.disposed
                               THEN Refused(query) ELSE query
  /\ UNCHANGED <<closing, chunk, refreshes>>

\* queryRuntime after its await of the start, to the request of the client.
StartResumes(q) ==
  LET c == backend.inner IN
  /\ chunk = 0 /\ query[q] = "starting" /\ backend.started = "done"
  /\ \/ /\ c # 0 /\ lsp[c].state = "ready"
        /\ query' = [query EXCEPT ![q] = "first"]
        /\ wait' = Send(wait, lsp, q, c)
     \/ query' = [query EXCEPT ![q] = "idle"] /\ UNCHANGED wait  \* refused
  /\ UNCHANGED <<backend, lsp, proc, closing, chunk, refreshes>>

\* requestWithRetry: the retry does not look at the state of the client.
QueryResumes(q) ==
  LET s == wait[q].status IN
  /\ chunk = 0 /\ Settled(q)
  /\ IF s = "modified" /\ query[q] = "first"
     THEN /\ query' = [query EXCEPT ![q] = "retry"]
          /\ wait' = Send(wait, lsp, q, wait[q].client)
     ELSE /\ query' = [query EXCEPT ![q] = "idle"]
          /\ wait' = [wait EXCEPT ![q] = Resting]
  /\ UNCHANGED <<backend, lsp, proc, closing, chunk, refreshes>>

\* refresh(): only an identity change is answered with a new start.
RefreshRuntime ==
  /\ chunk = 0 /\ refreshes < RefreshBound
  /\ refreshes' = refreshes + 1
  /\ IF backend.disposed \/ ~backend.refreshRequired
     THEN UNCHANGED <<backend, query, lsp, wait, proc>>
     ELSE StartFresh([backend EXCEPT !.refreshRequired = FALSE,
                        !.started = "none", !.inner = 0, !.client = 0,
                        !.state = "refreshing"], query)
  /\ UNCHANGED <<closing, chunk>>

Shutdown ==
  LET c == backend.client IN
  /\ chunk = 0 /\ ~backend.disposed
  /\ backend' = [backend EXCEPT !.disposed = TRUE]
  /\ IF c = 0
     THEN closing' = "closed" /\ UNCHANGED <<lsp, wait, proc>>
     ELSE IF lsp[c].proc = 0 \/ lsp[c].stopped
     THEN /\ lsp' = [lsp EXCEPT ![c] = [Invalidated(@) EXCEPT !.timers = 0]]
          /\ wait' = RejectInflight(wait, c)
          /\ closing' = "closed" /\ UNCHANGED proc
     ELSE IF lsp[c].state = "ready"
     THEN /\ lsp' = [lsp EXCEPT ![c].timers = 0, ![c].stopping = TRUE]
          /\ wait' = Send(wait, lsp, Closer, c)
          /\ closing' = "asking" /\ UNCHANGED proc
     ELSE TerminateNow(c, lsp, wait) /\ closing' = "closed"
  /\ UNCHANGED <<query, chunk, refreshes>>

\* finishShutdown, whatever became of the shutdown request.
ShutdownResumes ==
  LET c == wait[Closer].client
      w == [wait EXCEPT ![Closer] = Resting] IN
  /\ chunk = 0 /\ Settled(Closer)
  /\ IF lsp[c].epoch # wait[Closer].epoch
     THEN /\ proc' = Kill(proc, lsp[c].proc) /\ closing' = "closed"
          /\ wait' = w /\ UNCHANGED lsp
     ELSE IF lsp[c].state # "ready"
     THEN TerminateNow(c, lsp, w) /\ closing' = "closed"
     ELSE closing' = "exiting" /\ wait' = w /\ UNCHANGED <<lsp, proc>>
  /\ UNCHANGED <<backend, query, chunk, refreshes>>

ExitResumes ==
  /\ chunk = 0 /\ closing = "exited" /\ closing' = "closed"
  /\ UNCHANGED <<backend, lsp, proc, wait, query, chunk, refreshes>>

ExitResolved == IF closing = "exiting" THEN "exited" ELSE closing

-----------------------------------------------------------------------------
(* Callbacks: timers.                                                      *)

Timeout(o) ==
  LET c == wait[o].client
      n == lsp[c].timeouts + 1
      L == [lsp EXCEPT ![c].timeouts = IF n < MaxTimeouts THEN n ELSE MaxTimeouts]
      W == [wait EXCEPT ![o].status = "rejected"] IN
  /\ Quiet /\ wait[o].status = "pending"
  /\ IF lsp[c].epoch # wait[o].epoch
     THEN /\ wait' = [wait EXCEPT ![o].status = "lost"]
          /\ UNCHANGED <<lsp, proc>>
     ELSE IF n >= MaxTimeouts
     THEN Fail(c, wait[o].epoch, TRUE, L, W, proc)
     ELSE lsp' = L /\ wait' = W /\ UNCHANGED proc
  /\ UNCHANGED <<backend, query, closing, chunk, refreshes>>

\* Mutant: replacementProcess does not look at disposed.
RestartFiresAlways(c) ==
  /\ Quiet /\ lsp[c].timers > 0
  /\ Spawn(c, [lsp EXCEPT ![c].timers = @ - 1], wait)
  /\ UNCHANGED <<backend, query, closing, chunk, refreshes>>

\* The restart timer: replacementProcess, and start() with what it returns.
RestartFires(c) ==
  LET L == [lsp EXCEPT ![c].timers = @ - 1] IN
  /\ Quiet /\ lsp[c].timers > 0
  /\ \/ ~backend.disposed /\ Spawn(c, L, wait)
     \/ lsp' = L /\ UNCHANGED <<wait, proc>>  \* disposed, refused or spawn threw
  /\ UNCHANGED <<backend, query, closing, chunk, refreshes>>

\* Mutant: the process is killed, but its exit is still waited for.
ForceShutdownWaits ==
  LET c == backend.client IN
  /\ Quiet /\ closing = "exiting" /\ ~lsp[c].stopped
  /\ Fail(c, lsp[c].epoch, TRUE, [lsp EXCEPT ![c].stopping = FALSE], wait, proc)
  /\ UNCHANGED <<backend, query, closing, chunk, refreshes>>

ForceShutdown ==
  LET c == backend.client
      L == [lsp EXCEPT ![c].stopping = FALSE] IN
  /\ Quiet /\ closing = "exiting"
  /\ IF lsp[c].stopped THEN UNCHANGED <<lsp, wait, proc>>
     ELSE Fail(c, lsp[c].epoch, TRUE, L, wait, proc)
  /\ closing' = ExitResolved
  /\ UNCHANGED <<backend, query, chunk, refreshes>>

\* A minute without a crash or a timeout empties both windows.
WindowPasses(c) ==
  /\ Quiet /\ lsp[c].crashes + lsp[c].timeouts > 0
  /\ lsp' = [lsp EXCEPT ![c].crashes = 0, ![c].timeouts = 0]
  /\ UNCHANGED <<backend, proc, wait, query, closing, chunk, refreshes>>

-----------------------------------------------------------------------------
(* Callbacks: the process.                                                 *)

Alive(p) == proc[p].life \in {"live", "killed"}
Current(p) == proc[p].epoch = lsp[proc[p].client].epoch
StreamActive(p) ==
  LET l == lsp[proc[p].client] IN
  Current(p) /\ ~l.stopped /\ l.state \notin Down
Reading(p) == Alive(p) /\ (chunk = p \/ Quiet) /\ StreamActive(p)

\* A frame answers the request of o.
Answer(p, o, r) ==
  /\ Reading(p)
  /\ wait[o].status \in Unsettled /\ wait[o].proc = p
  /\ r = "modified" => o \in Queries
  /\ wait' = [wait EXCEPT ![o].status = r]
  /\ lsp' = [lsp EXCEPT ![proc[p].client].buffered = FALSE]
  /\ chunk' = p
  /\ UNCHANGED <<backend, proc, query, closing, refreshes>>

\* Mutant: a malformed frame restarts the process like a crash.
ProtocolFailureRestarts(p) ==
  /\ Reading(p)
  /\ Fail(proc[p].client, proc[p].epoch, TRUE, lsp, wait, proc)
  /\ chunk' = 0
  /\ UNCHANGED <<backend, query, closing, refreshes>>

\* A malformed frame stays in the buffer, a forbidden notification does not.
ProtocolFailure(p) ==
  /\ Reading(p)
  /\ \E kept \in BOOLEAN :
       Fail(proc[p].client, proc[p].epoch, FALSE,
            [lsp EXCEPT ![proc[p].client].buffered = kept], wait, proc)
  /\ chunk' = 0
  /\ UNCHANGED <<backend, query, closing, refreshes>>

\* The chunk ends within a frame.
PartialFrame(p) ==
  /\ Reading(p)
  /\ lsp' = [lsp EXCEPT ![proc[p].client].buffered = TRUE]
  /\ chunk' = 0
  /\ UNCHANGED <<backend, proc, wait, query, closing, refreshes>>

ChunkEnds ==
  /\ chunk # 0 /\ chunk' = 0
  /\ UNCHANGED <<backend, lsp, proc, wait, query, closing, refreshes>>

\* Mutant: an exit that was asked for leaves the state alone.
HandleExitQuietly(p) ==
  LET c == proc[p].client
      L == [lsp EXCEPT ![c].stopped = TRUE]
      P == [proc EXCEPT ![p].life = "gone"] IN
  /\ Quiet /\ Alive(p) /\ Current(p)
  /\ closing' = ExitResolved
  /\ IF lsp[c].stopping THEN lsp' = L /\ proc' = P /\ UNCHANGED wait
     ELSE Fail(c, proc[p].epoch, TRUE, L, wait, P)
  /\ UNCHANGED <<backend, query, chunk, refreshes>>

HandleExit(p) ==
  LET c == proc[p].client
      L == [lsp EXCEPT ![c].stopped = TRUE]
      P == [proc EXCEPT ![p].life = "gone"] IN
  /\ Quiet /\ Alive(p)
  /\ IF ~Current(p)
     THEN proc' = P /\ UNCHANGED <<lsp, wait, closing>>
     ELSE /\ closing' = IF c = backend.client THEN ExitResolved ELSE closing
          /\ IF lsp[c].buffered
             THEN Fail(c, proc[p].epoch, FALSE, L, wait, P)
             ELSE IF lsp[c].stopping
             THEN /\ lsp' = [L EXCEPT ![c].state = "failed"]
                  /\ proc' = P /\ UNCHANGED wait
             ELSE Fail(c, proc[p].epoch, TRUE, L, wait, P)
  /\ UNCHANGED <<backend, query, chunk, refreshes>>

\* The error event of a child that could not be spawned: no exit follows.
ProcessError(p) ==
  /\ Quiet /\ proc[p].life = "live"
  /\ Fail(proc[p].client, proc[p].epoch, TRUE, lsp, wait,
          [proc EXCEPT ![p].life = "gone"])
  /\ UNCHANGED <<backend, query, closing, chunk, refreshes>>

-----------------------------------------------------------------------------
Next ==
  \/ Start \/ RefreshRuntime \/ Shutdown \/ ShutdownResumes \/ ExitResumes
  \/ ForceShutdown \/ ChunkEnds
  \/ \E q \in Queries : Query(q) \/ StartResumes(q) \/ QueryResumes(q)
  \/ \E c \in Clients :
       InitializeResumes(c) \/ RestartFires(c) \/ WindowPasses(c)
  \/ \E o \in Ops : Timeout(o)
  \/ \E p \in Procs :
       \/ ProtocolFailure(p) \/ PartialFrame(p)
       \/ HandleExit(p) \/ ProcessError(p)
       \/ \E o \in Ops, r \in {"result", "modified", "rejected"} :
            Answer(p, o, r)

Spec == Init /\ [][Next]_vars

\* Node runs every reaction that is due and fires every timer; a language
\* server owes nothing.
Fairness ==
  /\ WF_vars(ShutdownResumes) /\ WF_vars(ExitResumes)
  /\ WF_vars(ForceShutdown) /\ WF_vars(ChunkEnds)
  /\ \A q \in Queries : WF_vars(StartResumes(q)) /\ WF_vars(QueryResumes(q))
  /\ \A c \in Clients : WF_vars(InitializeResumes(c))
  /\ \A o \in Ops : WF_vars(Timeout(o))

FairSpec == Spec /\ Fairness

-----------------------------------------------------------------------------
(* Correctness.                                                            *)

LspState ==
  [epoch : Nat, state : {"initializing", "ready", "failed", "unavailable"},
   stopping : BOOLEAN, stopped : BOOLEAN, proc : Procs \cup {0},
   buffered : BOOLEAN, timers : Nat, crashes : 0..(RestartDelays + 1),
   timeouts : 0..MaxTimeouts]
Waiting ==
  [status : {"idle", "pending", "lost", "result", "modified", "rejected"},
   client : Clients \cup {0}, epoch : Nat, proc : Procs \cup {0}]

\* Every variable has its type.
TypeOK ==
  /\ backend \in [client : Clients \cup {0}, created : Clients \cup {0},
       inner : Clients \cup {0}, started : {"none", "running", "done"},
       state : {"initializing", "ready", "failed", "unavailable", "refreshing"},
       disposed : BOOLEAN, refreshRequired : BOOLEAN]
  /\ lsp \in [Clients -> LspState]
  /\ proc \in [Procs -> [client : Clients \cup {0}, epoch : Nat,
                         life : {"none", "live", "killed", "gone"}]]
  /\ wait \in [Ops -> Waiting]
  /\ query \in [Queries -> {"idle", "starting", "first", "retry"}]
  /\ closing \in {"open", "asking", "exiting", "exited", "closed"}
  /\ chunk \in Procs \cup {0} /\ refreshes \in Nat

\* A request in flight belongs to the process its client now owns.  The
\* timeout of a request from before a restart returns without settling it
\* (onRequestTimeout), so such a request would never be answered; a retry
\* registers itself without a look at the state of the client.
PendingIsCurrent ==
  \A o \in Ops : wait[o].status \in Unsettled =>
    /\ wait[o].status = "pending"
    /\ wait[o].epoch = lsp[wait[o].client].epoch

\* A client never leaves a running process behind: one that has not been told
\* to stop is the process of its client, attached at its current epoch.
ServersNotAbandoned ==
  \A p \in Procs : proc[p].life = "live" =>
    /\ lsp[proc[p].client].proc = p
    /\ Current(p)

\* A restart is only ever armed once, and only while its client has failed:
\* it replaces nothing that works.
RestartsReplaceFailures ==
  \A c \in Clients :
    /\ lsp[c].timers <= 1
    /\ lsp[c].timers = 1 => lsp[c].state = "failed"

\* Until the backend is shut down a client that has become unavailable stays
\* so, whatever arrives from the processes it killed and the timers it armed.
UnavailableIsFinal ==
  [][\A c \in Clients :
       ~backend.disposed /\ lsp[c].state = "unavailable"
         => lsp'[c].state = "unavailable"]_vars

\* The process of a ready client has not exited, so a crash is still going to
\* be noticed.  (It may have been killed: when a malformed frame follows the
\* answer to initialize in one chunk, the reaction to the answer makes the
\* client that has just failed ready, until the exit event.)
ReadyHasProcess ==
  \A c \in Clients : lsp[c].state = "ready" =>
    \E p \in Procs : lsp[c].proc = p /\ Alive(p) /\ Current(p)

\* Once shutdown() has been called no process is spawned, not even by a
\* restart timer that the shutdown did not cancel.
NothingSpawnsAfterShutdown ==
  [][backend.disposed =>
       \A p \in Procs : proc[p].life = "none" => proc'[p].life = "none"]_vars

\* Every query is settled, whatever the server does or fails to do.
QueriesSettle == \A q \in Queries : query[q] # "idle" ~> query[q] = "idle"

\* shutdown() comes to an end.
ShutdownEnds == backend.disposed ~> closing = "closed"

\* When shutdown() has ended every server of the backend has been stopped
\* (docs/archive/openspec-history/specs/code-explorer/workspace-freshness/
\* spec.md:130, "semantic backends stop").
ShutdownStopsServers ==
  closing = "closed" => \A p \in Procs : proc[p].life # "live"

\* An explicit refresh ends the unavailability that crashes have caused
\* (.../specs/code-explorer/language-adapters/spec.md:191, "a third crash
\* within 60 seconds leaves it unavailable until explicit refresh").
CrashedOut ==
  backend.inner # 0 /\ lsp[backend.inner].state = "unavailable"
    /\ lsp[backend.inner].crashes > RestartDelays
RefreshRevives ==
  [][refreshes' # refreshes /\ ~backend.disposed => ~CrashedOut']_vars
=============================================================================
