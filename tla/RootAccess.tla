------------------------------ MODULE RootAccess ------------------------------
(***************************************************************************)
(* The gate in front of every navigation call and the lazy adapters behind *)
(* it (semantic/project-root/root-access.ts, semantic/runtime/             *)
(* runtime-lazy-adapter.ts).  The gate revalidates the frozen project root *)
(* before each call; a root that cannot be accessed closes the adapters    *)
(* and is retried by a timer for thirty seconds, a root that is gone or    *)
(* replaced closes them for good.  A lazy adapter looks for sources of its *)
(* language and builds its backend at most once.  Checks, starts,          *)
(* refreshes and the retry timer interleave wherever the code awaits.      *)
(*                                                                         *)
(* What the built backend does is LspBackend's; here its start ends well   *)
(* or badly and its shutdown ends.                                         *)
(***************************************************************************)
EXTENDS Naturals, FiniteSets, Sequences

CONSTANTS
  Adapters,    \* the lazy adapters of the runtime, one per language
  Checks,      \* model bound: calls of check() in flight at once
  Refreshes,   \* model bound: calls of refreshLazy in flight at once
  RunBound     \* model bound: the starts of one adapter

ASSUME RootAccessAssumption ==
  /\ Adapters # {} /\ RunBound \in Nat \ {0}
  /\ IsFiniteSet(Checks) /\ Cardinality(Checks) > 1

VARIABLES
  \* The disk.
  root,        \* what revalidating the project root finds
  \* RootAccessGate.
  gate,        \* state
  window,      \* inaccessibleSince: unset, less than 30 s ago, or longer
  retry,       \* whether retryTimer is armed
  checks,      \* the calls of check(), where they await and who called
  \* The runtime.
  begun,       \* backendsStarted
  closing,     \* core.close() has stopped the adapters
  crashed,     \* a rejection nobody handles has ended the process
  \* The adapters.
  lazy,        \* LazyState of each adapter
  refreshes    \* the calls of refreshLazy that await a start

gateVars == <<gate, window, retry, checks>>
processVars == <<begun, closing, crashed>>
rootVars == <<root, gateVars, processVars, lazy, refreshes>>

RootStates == {"ready", "inaccessible", "unavailable"}
IdleCheck == [at |-> "idle", by |-> "nobody"]
NoRefresh == [run |-> 0, adapter |-> CHOOSE a \in Adapters : TRUE]

\* runs[n] is where the n-th call of runStart is; starting is the number of
\* the call whose promise LazyState.starting holds, 0 if none.
Untouched ==
  [closed |-> FALSE, inner |-> "none", starting |-> 0, runs |-> <<>>,
   built |-> 0]

RootInit ==
  /\ root = "ready"
  /\ gate = "ready" /\ window = "unset" /\ retry = FALSE
  /\ checks = [c \in Checks |-> IdleCheck]
  /\ begun = FALSE /\ closing = FALSE /\ crashed = FALSE
  /\ lazy = [a \in Adapters |-> Untouched]
  /\ refreshes = [r \in Refreshes |-> NoRefresh]

-----------------------------------------------------------------------------
(* The operations of a lazy adapter.                                       *)

(* startLazy: refused once closed, joined while a start is remembered.     *)
Started(l) ==
  IF l.closed \/ l.starting # 0 THEN l
  ELSE [l EXCEPT !.starting = Len(l.runs) + 1,
                 !.runs = Append(@, IF l.inner = "none" THEN "presence"
                                                        ELSE "inner")]

(* refreshLazy once no start is awaited: a built backend is refreshed, a   *)
(* missing one is looked for again.                                        *)
Refreshed(l) ==
  IF l.inner # "none" THEN l ELSE Started([l EXCEPT !.starting = 0])

(* Mutant of ShutDown: an adapter that has built nothing stays open.       *)
ShutDownBuilt(l) ==
  [l EXCEPT !.closed = l.inner # "none",
            !.inner = IF @ = "up" THEN "stopping" ELSE @]

(* shutdownLazy, up to its await.                                          *)
ShutDown(l) ==
  [l EXCEPT !.closed = TRUE,
            !.inner = IF @ = "up" THEN "stopping" ELSE @]

MayStart(l) == Len(l.runs) < RunBound
StartSettled(l, n) == n # 0 => l.runs[n] = "settled"

(* The presence check of a start resumes with the backend missing: it is   *)
(* built, unless the language is absent or building throws.                *)
Build(a, n) ==
  \/ lazy' = [lazy EXCEPT ![a].runs[n] = "settled"]
  \/ lazy' = [lazy EXCEPT ![a].runs[n] = "failed"]
  \/ lazy' = [lazy EXCEPT ![a].runs[n] = "inner", ![a].inner = "up",
                          ![a].built = @ + 1]

(* Mutant of PresenceResumes: builds whatever a refresh has built.         *)
PresenceResumesAgain(a, n) ==
  /\ ~crashed /\ lazy[a].runs[n] = "presence"
  /\ IF lazy[a].closed
     THEN lazy' = [lazy EXCEPT ![a].runs[n] = "failed"]
     ELSE Build(a, n)
  /\ UNCHANGED <<root, gateVars, processVars, refreshes>>

(* Mutant of PresenceResumes: forgets that it may have been closed.        *)
PresenceResumesOpen(a, n) ==
  /\ ~crashed /\ lazy[a].runs[n] = "presence"
  /\ IF lazy[a].inner # "none"
     THEN lazy' = [lazy EXCEPT ![a].runs[n] = "inner"]
     ELSE Build(a, n)
  /\ UNCHANGED <<root, gateVars, processVars, refreshes>>

(* runStart after isPresent() has answered: closed and inner are read      *)
(* again.                                                                  *)
PresenceResumes(a, n) ==
  /\ ~crashed /\ lazy[a].runs[n] = "presence"
  /\ \/ /\ lazy[a].closed
        /\ lazy' = [lazy EXCEPT ![a].runs[n] = "failed"]
     \/ /\ ~lazy[a].closed /\ lazy[a].inner = "none"
        /\ Build(a, n)
     \/ /\ ~lazy[a].closed /\ lazy[a].inner # "none"
        /\ lazy' = [lazy EXCEPT ![a].runs[n] = "inner"]
  /\ UNCHANGED <<root, gateVars, processVars, refreshes>>

(* The start of the built backend ends.                                    *)
InnerStarted(a, n) ==
  /\ ~crashed /\ lazy[a].runs[n] = "inner"
  /\ \E end \in {"settled", "failed"} :
       lazy' = [lazy EXCEPT ![a].runs[n] = end]
  /\ UNCHANGED <<root, gateVars, processVars, refreshes>>

(* The catch of startLazy forgets the start, even one that began later.    *)
StartCaught(a, n) ==
  /\ ~crashed /\ lazy[a].runs[n] = "failed"
  /\ lazy' = [lazy EXCEPT ![a].runs[n] = "settled", ![a].starting = 0]
  /\ UNCHANGED <<root, gateVars, processVars, refreshes>>

InnerStopped(a) ==
  /\ ~crashed /\ lazy[a].inner = "stopping"
  /\ lazy' = [lazy EXCEPT ![a].inner = "stopped"]
  /\ UNCHANGED <<root, gateVars, processVars, refreshes>>

(* A request of a navigation call reaches the adapter.                     *)
Request(a) ==
  /\ ~crashed /\ begun /\ MayStart(lazy[a])
  /\ lazy' = [lazy EXCEPT ![a] = Started(@)]
  /\ UNCHANGED <<root, gateVars, processVars, refreshes>>

(* refreshLazy is called; it first awaits the start that is remembered.    *)
Refresh(a, r) ==
  /\ ~crashed /\ begun /\ refreshes[r] = NoRefresh
  /\ ~lazy[a].closed /\ MayStart(lazy[a])
  /\ IF lazy[a].starting = 0
     THEN /\ lazy' = [lazy EXCEPT ![a] = Refreshed(@)]
          /\ UNCHANGED refreshes
     ELSE /\ refreshes' = [refreshes EXCEPT ![r] =
                             [run |-> lazy[a].starting, adapter |-> a]]
          /\ UNCHANGED lazy
  /\ UNCHANGED <<root, gateVars, processVars>>

RefreshResumes(r) ==
  LET a == refreshes[r].adapter
  IN  /\ ~crashed /\ refreshes[r].run # 0
      /\ StartSettled(lazy[a], refreshes[r].run) /\ MayStart(lazy[a])
      /\ lazy' = [lazy EXCEPT ![a] = Refreshed(@)]
      /\ refreshes' = [refreshes EXCEPT ![r] = NoRefresh]
      /\ UNCHANGED <<root, gateVars, processVars>>

-----------------------------------------------------------------------------
(* RootAccessGate.check, up to its first await; armed is whether the retry *)
(* timer is set when it is called.                                         *)

AllShutDown == lazy' = [a \in Adapters |-> ShutDown(lazy[a])]

(* The state is unavailable: nothing is asked of the root again.           *)
StayUnavailable(armed) ==
  /\ gate = "unavailable"
  /\ retry' = armed
  /\ UNCHANGED <<gate, window, checks, lazy>>

(* handleReady in the ready state.                                         *)
PassReady ==
  /\ gate = "ready" /\ root = "ready"
  /\ window' = "unset" /\ retry' = FALSE
  /\ UNCHANGED <<gate, checks, lazy>>

(* handleReady after an inaccessible root: restart() calls start() of      *)
(* every adapter and awaits them all.                                      *)
BeginRestart(c, by, armed) ==
  /\ gate = "inaccessible" /\ root = "ready"
  /\ lazy' = [a \in Adapters |-> Started(lazy[a])]
  /\ checks' = [checks EXCEPT ![c] = [at |-> "restart", by |-> by]]
  /\ retry' = armed
  /\ UNCHANGED <<gate, window>>

(* handleTransientInaccessibility.                                         *)
BecomeInaccessible(c, by, armed) ==
  /\ gate # "unavailable" /\ root = "inaccessible" /\ window # "passed"
  /\ gate' = "inaccessible"
  /\ window' = "open"
  /\ AllShutDown
  /\ checks' = [checks EXCEPT ![c] = [at |-> "stop", by |-> by]]
  /\ retry' = armed

(* handleUnavailable.                                                      *)
BecomeUnavailable(c, by) ==
  /\ gate # "unavailable"
  /\ \/ root = "unavailable"
     \/ root = "inaccessible" /\ window = "passed"
  /\ gate' = "unavailable"
  /\ retry' = FALSE
  /\ AllShutDown
  /\ checks' = [checks EXCEPT ![c] = [at |-> "final", by |-> by]]
  /\ UNCHANGED window

Check(c, by, armed) ==
  \/ StayUnavailable(armed)
  \/ PassReady
  \/ BeginRestart(c, by, armed)
  \/ BecomeInaccessible(c, by, armed)
  \/ BecomeUnavailable(c, by)

IdleChecks == {c \in Checks : checks[c] = IdleCheck}

(* A call passes performCall.  One slot is left to the retry timer.        *)
CallChecks(c) ==
  /\ ~crashed /\ begun
  /\ c \in IdleChecks /\ Cardinality(IdleChecks) > 1
  /\ Check(c, "call", retry)
  /\ UNCHANGED <<root, processVars, refreshes>>

(* The timer fires: void this.check().                                     *)
RetryFires(c) ==
  /\ ~crashed /\ retry /\ c \in IdleChecks
  /\ Check(c, "retry", FALSE)
  /\ UNCHANGED <<root, processVars, refreshes>>

-----------------------------------------------------------------------------
(* The continuations of check().                                           *)

(* Mutant of Refused: a closed adapter starts again.                       *)
RefusedNever == FALSE

Refused == \E a \in Adapters : lazy[a].closed

(* handleReady resumes.  A start that was refused rejects the check: a     *)
(* call answers an error, but nothing handles the rejection of the check   *)
(* the timer has called, which ends the process.                           *)
RestartResumes(c) ==
  /\ ~crashed /\ checks[c].at = "restart"
  /\ ~Refused => \A a \in Adapters : StartSettled(lazy[a], lazy[a].starting)
  /\ IF Refused
     THEN /\ crashed' = (checks[c].by = "retry")
          /\ UNCHANGED <<gate, window, retry>>
     ELSE /\ gate' = "ready" /\ window' = "unset" /\ retry' = FALSE
          /\ UNCHANGED crashed
  /\ checks' = [checks EXCEPT ![c] = IdleCheck]
  /\ UNCHANGED <<root, begun, closing, lazy, refreshes>>

BackendsStopped == \A a \in Adapters : lazy[a].inner # "stopping"

(* Mutant of StopResumes: the retry is armed only by the first failure.    *)
StopResumesOnce(c) ==
  /\ ~crashed /\ checks[c].at = "stop" /\ BackendsStopped
  /\ retry' = (retry \/ checks[c].by = "call")
  /\ checks' = [checks EXCEPT ![c] = IdleCheck]
  /\ UNCHANGED <<root, gate, window, processVars, lazy, refreshes>>

(* handleTransientInaccessibility resumes and arms the timer.              *)
StopResumes(c) ==
  /\ ~crashed /\ checks[c].at = "stop" /\ BackendsStopped
  /\ retry' = TRUE
  /\ checks' = [checks EXCEPT ![c] = IdleCheck]
  /\ UNCHANGED <<root, gate, window, processVars, lazy, refreshes>>

FinalResumes(c) ==
  /\ ~crashed /\ checks[c].at = "final" /\ BackendsStopped
  /\ checks' = [checks EXCEPT ![c] = IdleCheck]
  /\ UNCHANGED <<root, gate, window, retry, processVars, lazy, refreshes>>

-----------------------------------------------------------------------------
(* The rest of the process and its environment.                            *)

(* The first call starts every adapter; nobody awaits them.                *)
StartPresentBackends ==
  /\ ~crashed /\ ~begun /\ begun' = TRUE
  /\ lazy' = [a \in Adapters |-> Started(lazy[a])]
  /\ UNCHANGED <<root, gateVars, closing, crashed, refreshes>>

(* core.close(), once the server is closed.                                *)
CloseCore ==
  /\ ~crashed /\ ~closing /\ closing' = TRUE
  /\ AllShutDown
  /\ UNCHANGED <<root, gateVars, begun, crashed, refreshes>>

RootChanges ==
  /\ root' \in RootStates \ {root}
  /\ UNCHANGED <<gateVars, processVars, lazy, refreshes>>

(* Thirty seconds since the first failure.                                 *)
WindowPasses ==
  /\ window = "open" /\ window' = "passed"
  /\ UNCHANGED <<root, gate, retry, checks, processVars, lazy, refreshes>>

CheckResumes(c) == RestartResumes(c) \/ StopResumes(c) \/ FinalResumes(c)

StartProceeds ==
  \E a \in Adapters : \E n \in DOMAIN lazy[a].runs :
    PresenceResumes(a, n) \/ InnerStarted(a, n) \/ StartCaught(a, n)

RetryTimer == \E c \in Checks : RetryFires(c)

RootNext ==
  \/ StartPresentBackends
  \/ CloseCore
  \/ RootChanges
  \/ WindowPasses
  \/ \E c \in Checks : CallChecks(c)
  \/ RetryTimer
  \/ \E c \in Checks : CheckResumes(c)
  \/ \E a \in Adapters : InnerStopped(a)
  \/ StartProceeds
  \/ \E a \in Adapters : Request(a)
  \/ \E a \in Adapters, r \in Refreshes : Refresh(a, r)
  \/ \E r \in Refreshes : RefreshResumes(r)

RootSpec == RootInit /\ [][RootNext]_rootVars

(* Promises that have settled resume, backends that are shut down end      *)
(* (LspBackend!ShutdownEnds) and time passes.                              *)
RootFairness ==
  /\ \A c \in Checks : WF_rootVars(CheckResumes(c))
  /\ \A a \in Adapters : WF_rootVars(InnerStopped(a))
  /\ WF_rootVars(RetryTimer) /\ WF_rootVars(WindowPasses)

RootFairSpec == RootSpec /\ RootFairness

-----------------------------------------------------------------------------
(* Correctness.                                                            *)

RunPhases == {"presence", "inner", "failed", "settled"}

LazyStates ==
  [closed : BOOLEAN, inner : {"none", "up", "stopping", "stopped"},
   starting : 0..RunBound, runs : Seq(RunPhases), built : Nat]

(* Every variable keeps its type.                                          *)
RootTypeOK ==
  /\ root \in RootStates /\ gate \in RootStates
  /\ window \in {"unset", "open", "passed"}
  /\ retry \in BOOLEAN /\ begun \in BOOLEAN
  /\ closing \in BOOLEAN /\ crashed \in BOOLEAN
  /\ checks \in [Checks -> [at : {"idle", "restart", "stop", "final"},
                            by : {"nobody", "call", "retry"}]]
  /\ lazy \in [Adapters -> LazyStates]
  /\ refreshes \in [Refreshes -> [run : 0..RunBound, adapter : Adapters]]

(* However starts and refreshes overlap around the presence check, an      *)
(* adapter builds its backend at most once, so no second server is left    *)
(* behind unowned.                                                         *)
BuiltOnce == \A a \in Adapters : lazy[a].built <= 1

(* Backends and gate agree: behind a gate that admits calls no adapter is  *)
(* closed (until the core itself is), and behind one that refuses them     *)
(* every adapter is closed and no backend is left up, whatever starts were *)
(* in flight.  Without it calls would be admitted to dead adapters, or     *)
(* servers would keep reading a root that is not the frozen one.           *)
BackendsFollowGate ==
  /\ gate = "ready" /\ ~closing => \A a \in Adapters : ~lazy[a].closed
  /\ gate # "ready" =>
       \A a \in Adapters : lazy[a].closed /\ lazy[a].inner # "up"

(* workspace-freshness: "the process requires restart before navigation".  *)
(* A check that awaits a stop or a restart while another finds the root    *)
(* gone never makes the gate anything else again.                          *)
RootLossIsFinal ==
  [][gate = "unavailable" => gate' = "unavailable"]_rootVars

(* A closed adapter never builds a backend or starts the one it has, even  *)
(* when its presence check was pending when it was closed.                 *)
ClosedAdaptersStayDown ==
  [][\A a \in Adapters : lazy[a].closed =>
       /\ lazy'[a].closed
       /\ lazy'[a].built = lazy[a].built
       /\ lazy'[a].inner # "up"]_rootVars

(* workspace-freshness: "retries every 5 seconds for at most 30 seconds".  *)
(* The gate does not stay inaccessible: a timer is always there to find    *)
(* that the window has passed (or to end the process, see SurvivesRetry).  *)
InaccessibilityEnds == gate = "inaccessible" ~> gate # "inaccessible" \/ crashed

(* workspace-freshness: "selected backends restart through their validated *)
(* launch path and navigation resumes without an MCP process restart".     *)
SurvivesRetry == ~crashed
===============================================================================
