------------------------------ MODULE RuntimeProof ------------------------------
(***************************************************************************)
(* Proofs about the runtime around navigation: the root gate with its lazy *)
(* adapters (RootAccess) and the life of a process (ProcessLifetime).      *)
(***************************************************************************)
EXTENDS RootAccess, ProcessLifetime, TLAPS

-----------------------------------------------------------------------------
(* Root access.  What makes the gate safe is that a closed adapter stays   *)
(* closed: a restart that awaits its starts was begun behind closed        *)
(* adapters, so it is refused and never makes the gate ready again.        *)

(* No start before the first call; a restart is begun behind closed        *)
(* adapters only.                                                          *)
StartsBegun ==
  /\ ~begun => \A a \in Adapters : lazy[a].runs = <<>>
  /\ ~begun => \A r \in Refreshes : refreshes[r].run = 0
  /\ \A c \in Checks : checks[c].at = "restart" =>
       \A a \in Adapters : lazy[a].closed

(* What is known of each adapter by itself.                                *)
AdapterInv ==
  \A a \in Adapters :
    /\ lazy[a].closed => lazy[a].inner # "up"
    /\ lazy[a].inner = "none" => lazy[a].built = 0
    /\ lazy[a].built <= 1

RootInv == RootTypeOK /\ StartsBegun /\ AdapterInv /\ BackendsFollowGate

(* An adapter whose start is in another phase is an adapter.               *)
LEMMA RunMoves ==
  ASSUME NEW l \in LazyStates, NEW n \in DOMAIN l.runs, NEW ph \in RunPhases
  PROVE  [l EXCEPT !.runs[n] = ph] \in LazyStates
  BY DEF LazyStates

(* An adapter whose backend is built is an adapter.                        *)
LEMMA RunBuilds ==
  ASSUME NEW l \in LazyStates, NEW b, b = 0
  PROVE  [l EXCEPT !.inner = "up", !.built = b + 1] \in LazyStates
<1> DEFINE up == [l EXCEPT !.inner = "up"]
<1>1. b + 1 \in Nat
  OBVIOUS
<1>2. up \in LazyStates
  BY DEF LazyStates
<1>3. [up EXCEPT !.built = b + 1] \in LazyStates
  <2> HIDE DEF up
  <2> QED BY <1>1, <1>2 DEF LazyStates
<1>4. [up EXCEPT !.built = b + 1] = [l EXCEPT !.inner = "up", !.built = b + 1]
  OBVIOUS
<1> QED BY <1>3, <1>4

(* startLazy: what a call of start() may change.                           *)
LEMMA StartedEffect ==
  ASSUME NEW l \in LazyStates, l.closed \/ MayStart(l)
  PROVE  /\ Started(l) \in LazyStates
         /\ Started(l).closed = l.closed
         /\ Started(l).inner = l.inner
         /\ Started(l).built = l.built
         /\ l.closed => Started(l) = l
<1> USE RootAccessAssumption DEF LazyStates, MayStart, RunPhases
<1>1. CASE l.closed \/ l.starting # 0
  BY <1>1 DEF Started
<1>2. CASE ~(l.closed \/ l.starting # 0)
  <2> DEFINE new == IF l.inner = "none" THEN "presence" ELSE "inner"
  <2>1. Append(l.runs, new) \in Seq(RunPhases)
    OBVIOUS
  <2>2. Len(l.runs) + 1 \in 0..RunBound
    BY <1>2
  <2>3. Started(l) = [l EXCEPT !.starting = Len(l.runs) + 1,
                               !.runs = Append(l.runs, new)]
    BY <1>2 DEF Started
  <2> QED BY <1>2, <2>1, <2>2, <2>3
<1> QED BY <1>1, <1>2

(* shutdownLazy: an adapter that is shut down is closed and not up.        *)
LEMMA ShutDownEffect ==
  ASSUME NEW l \in LazyStates
  PROVE  /\ ShutDown(l) \in LazyStates
         /\ ShutDown(l).closed
         /\ ShutDown(l).inner # "up"
         /\ ShutDown(l).inner = "none" <=> l.inner = "none"
         /\ ShutDown(l).built = l.built
         /\ ShutDown(l).runs = l.runs
  BY DEF ShutDown, LazyStates

(* The gate, its checks and its adapters in the initial state.             *)
LEMMA RootInitHolds == RootInit => RootInv
<1> SUFFICES ASSUME RootInit PROVE RootInv
  OBVIOUS
<1> USE RootAccessAssumption
<1>1. Untouched \in LazyStates
  BY DEF Untouched, LazyStates
<1>2. (CHOOSE a \in Adapters : TRUE) \in Adapters
  OBVIOUS
<1>3. RootTypeOK
  <2>1. lazy \in [Adapters -> LazyStates]
    BY <1>1 DEF RootInit
  <2>2. NoRefresh \in [run : 0..RunBound, adapter : Adapters]
    BY <1>2 DEF NoRefresh
  <2>3. refreshes \in [Refreshes -> [run : 0..RunBound, adapter : Adapters]]
    BY <2>2 DEF RootInit
  <2>4. checks \in [Checks -> [at : {"idle", "restart", "stop", "final"},
                               by : {"nobody", "call", "retry"}]]
    BY DEF RootInit, IdleCheck
  <2> QED BY <2>1, <2>3, <2>4 DEF RootInit, RootTypeOK, RootStates
<1>4. StartsBegun /\ AdapterInv /\ BackendsFollowGate
  BY DEF RootInit, StartsBegun, AdapterInv, BackendsFollowGate, IdleCheck,
         NoRefresh, Untouched
<1> QED BY <1>3, <1>4 DEF RootInv

(* What a step may do to one adapter: everything but reopen it.            *)
AdapterStep(old, new) ==
  /\ new \in LazyStates
  /\ old.closed => new.closed /\ new.built = old.built /\ new.inner # "up"
  /\ new.inner = "none" => new.built = 0
  /\ new.built <= 1
  /\ ~old.closed /\ new.closed => new.inner # "up"

(* What RootLossIsFinal and ClosedAdaptersStayDown say of one step.         *)
GateStep ==
  /\ gate = "unavailable" => gate' = "unavailable"
  /\ \A a \in Adapters : lazy[a].closed =>
       lazy'[a].closed /\ lazy'[a].built = lazy[a].built /\ lazy'[a].inner # "up"

(* A step of one adapter in which it neither closes nor opens keeps what   *)
(* gate and adapters know of each other.                                   *)
LEMMA AdapterKeepsGate ==
  ASSUME RootInv, NEW a \in Adapters, NEW l \in LazyStates,
         lazy' = [lazy EXCEPT ![a] = l],
         AdapterStep(lazy[a], l), l.closed = lazy[a].closed,
         begun \/ (lazy[a].runs = <<>> => l.runs = <<>>),
         UNCHANGED <<root, gateVars, processVars>>,
         refreshes' \in [Refreshes -> [run : 0..RunBound, adapter : Adapters]],
         begun \/ refreshes' = refreshes
  PROVE  RootInv' /\ GateStep
<1>1. RootTypeOK'
  BY DEF RootInv, RootTypeOK, gateVars, processVars
<1>2. \A b \in Adapters : lazy'[b] = IF b = a THEN l ELSE lazy[b]
  BY DEF RootInv, RootTypeOK
<1>3. StartsBegun'
  BY <1>2 DEF RootInv, StartsBegun, gateVars, processVars
<1>4. AdapterInv'
  BY <1>2 DEF RootInv, AdapterInv, AdapterStep
<1>5. BackendsFollowGate'
  BY <1>2 DEF RootInv, BackendsFollowGate, AdapterStep, gateVars, processVars
<1>6. GateStep
  BY <1>2 DEF GateStep, RootInv, AdapterInv, AdapterStep, gateVars
<1> QED BY <1>1, <1>3, <1>4, <1>5, <1>6 DEF RootInv


(* shutdown() of every adapter.                                            *)
LEMMA AllShutDownEffect ==
  ASSUME RootInv, AllShutDown
  PROVE  /\ lazy' \in [Adapters -> LazyStates]
         /\ AdapterInv'
         /\ \A a \in Adapters :
              /\ lazy'[a].closed /\ lazy'[a].inner # "up"
              /\ lazy'[a].built = lazy[a].built /\ lazy'[a].runs = lazy[a].runs
<1>1. \A a \in Adapters : lazy'[a] = ShutDown(lazy[a])
  BY DEF AllShutDown
<1>2. \A a \in Adapters : lazy[a] \in LazyStates
  BY DEF RootInv, RootTypeOK
<1>3. lazy' \in [Adapters -> LazyStates]
  BY <1>2, ShutDownEffect DEF AllShutDown
<1>4. \A a \in Adapters :
        /\ lazy'[a].closed /\ lazy'[a].inner # "up"
        /\ lazy'[a].inner = "none" <=> lazy[a].inner = "none"
        /\ lazy'[a].built = lazy[a].built /\ lazy'[a].runs = lazy[a].runs
  BY <1>1, <1>2, ShutDownEffect
<1> QED BY <1>3, <1>4 DEF RootInv, AdapterInv

(* The three steps of a start.                                             *)
LEMMA StartStepKeeps ==
  ASSUME RootInv, NEW a \in Adapters, NEW n \in DOMAIN lazy[a].runs,
         PresenceResumes(a, n) \/ InnerStarted(a, n) \/ StartCaught(a, n)
  PROVE  RootInv' /\ GateStep
<1> DEFINE moved(ph) == [lazy[a] EXCEPT !.runs[n] = ph]
<1>1. lazy[a] \in LazyStates
  BY DEF RootInv, RootTypeOK
<1>2. \A ph \in RunPhases : moved(ph) \in LazyStates
  BY <1>1, RunMoves
<1>3. refreshes' = refreshes /\ UNCHANGED <<root, gateVars, processVars>>
  BY DEF PresenceResumes, InnerStarted, StartCaught
<1>4. refreshes' \in [Refreshes -> [run : 0..RunBound, adapter : Adapters]]
  BY <1>3 DEF RootInv, RootTypeOK
<1>5. lazy[a].runs # <<>>
  BY <1>1 DEF LazyStates
<1>6. ASSUME NEW ph \in RunPhases, lazy' = [lazy EXCEPT ![a].runs[n] = ph]
      PROVE  RootInv' /\ GateStep
  <2>1. lazy' = [lazy EXCEPT ![a] = moved(ph)]
    BY <1>6
  <2>2. AdapterStep(lazy[a], moved(ph)) /\ moved(ph).closed = lazy[a].closed
    BY <1>1, <1>2 DEF AdapterStep, RootInv, AdapterInv, LazyStates
  <2>3. moved(ph) \in LazyStates
    BY <1>2
  <2> HIDE DEF moved
  <2> QED BY <1>3, <1>4, <1>5, <2>1, <2>2, <2>3, AdapterKeepsGate
<1>7. CASE \E ph \in RunPhases : lazy' = [lazy EXCEPT ![a].runs[n] = ph]
  BY <1>6, <1>7
<1>8. CASE /\ ~lazy[a].closed /\ lazy[a].inner = "none"
           /\ lazy' = [lazy EXCEPT ![a].runs[n] = "inner", ![a].inner = "up",
                                   ![a].built = @ + 1]
  <2> DEFINE up == [moved("inner") EXCEPT !.inner = "up",
                                          !.built = lazy[a].built + 1]
  <2>0. "inner" \in RunPhases
    BY DEF RunPhases
  <2>1. lazy' = [lazy EXCEPT ![a] = up]
    BY <1>8
  <2>2. lazy[a].built = 0
    BY <1>8 DEF RootInv, AdapterInv
  <2>3. up \in LazyStates
    <3>1. moved("inner") \in LazyStates
      BY <1>2, <2>0
    <3> HIDE DEF moved
    <3> QED BY <3>1, <2>2, RunBuilds
  <2>4. up.closed = lazy[a].closed /\ up.inner = "up" /\ up.built = 1
    BY <1>1, <2>2 DEF LazyStates
  <2>5. AdapterStep(lazy[a], up)
    BY <1>8, <2>3, <2>4 DEF AdapterStep
  <2> HIDE DEF up, moved
  <2> QED BY <1>3, <1>4, <1>5, <2>1, <2>3, <2>4, <2>5, AdapterKeepsGate
<1>9. CASE lazy' = [lazy EXCEPT ![a].runs[n] = "settled", ![a].starting = 0]
  <2> DEFINE caught == [moved("settled") EXCEPT !.starting = 0]
  <2>0. "settled" \in RunPhases
    BY DEF RunPhases
  <2>1. lazy' = [lazy EXCEPT ![a] = caught]
    BY <1>9
  <2>3. caught \in LazyStates
    <3>1. moved("settled") \in LazyStates
      BY <1>2, <2>0
    <3> HIDE DEF moved
    <3> QED BY <3>1, RootAccessAssumption DEF LazyStates
  <2>4. /\ caught.closed = lazy[a].closed /\ caught.inner = lazy[a].inner
        /\ caught.built = lazy[a].built
    BY <1>1 DEF LazyStates
  <2>5. AdapterStep(lazy[a], caught)
    BY <2>3, <2>4 DEF AdapterStep, RootInv, AdapterInv
  <2> HIDE DEF caught, moved
  <2> QED BY <1>3, <1>4, <1>5, <2>1, <2>3, <2>4, <2>5, AdapterKeepsGate
<1> QED
  BY <1>7, <1>8, <1>9 DEF PresenceResumes, Build, InnerStarted, StartCaught,
     RunPhases

(* refreshLazy: at most a start, of an adapter whose backend is missing.   *)
LEMMA RefreshedEffect ==
  ASSUME NEW l \in LazyStates, MayStart(l)
  PROVE  /\ Refreshed(l) \in LazyStates
         /\ Refreshed(l).closed = l.closed
         /\ Refreshed(l).inner = l.inner
         /\ Refreshed(l).built = l.built
<1> DEFINE forgot == [l EXCEPT !.starting = 0]
<1>1. /\ forgot \in LazyStates /\ MayStart(forgot)
      /\ forgot.closed = l.closed /\ forgot.inner = l.inner
      /\ forgot.built = l.built
  BY RootAccessAssumption DEF LazyStates, MayStart
<1>2. Refreshed(l) = IF l.inner # "none" THEN l ELSE Started(forgot)
  BY DEF Refreshed
<1> HIDE DEF forgot
<1> QED BY <1>1, <1>2, StartedEffect

(* A refresh and its resumption.                                           *)
LEMMA RefreshKeeps ==
  ASSUME RootInv, NEW a \in Adapters, NEW r \in Refreshes,
         Refresh(a, r) \/ RefreshResumes(r)
  PROVE  RootInv' /\ GateStep
<1> DEFINE Type == [Refreshes -> [run : 0..RunBound, adapter : Adapters]]
<1>1. \A b \in Adapters : lazy[b] \in LazyStates
  BY DEF RootInv, RootTypeOK
<1>2. refreshes \in Type
  BY DEF RootInv, RootTypeOK
<1>3. [refreshes EXCEPT ![r] = NoRefresh] \in Type
  <2>1. (CHOOSE b \in Adapters : TRUE) \in Adapters
    BY RootAccessAssumption
  <2> QED BY <1>2, <2>1, RootAccessAssumption DEF NoRefresh
<1>4. begun
  BY DEF Refresh, RefreshResumes, RootInv, StartsBegun
<1>5. ASSUME NEW b \in Adapters, NEW l \in LazyStates,
             lazy' = [lazy EXCEPT ![b] = l],
             l.closed = lazy[b].closed, l.inner = lazy[b].inner,
             l.built = lazy[b].built,
             UNCHANGED <<root, gateVars, processVars>>,
             refreshes' \in Type
      PROVE  RootInv' /\ GateStep
  <2>1. AdapterStep(lazy[b], l)
    BY <1>5 DEF AdapterStep, RootInv, AdapterInv
  <2> QED BY <1>4, <1>5, <2>1, AdapterKeepsGate
<1> HIDE DEF Type
<1>6. CASE Refresh(a, r)
  <2>1. MayStart(lazy[a]) /\ UNCHANGED <<root, gateVars, processVars>>
    BY <1>6 DEF Refresh
  <2>2. CASE lazy[a].starting = 0
    <3>1. lazy' = [lazy EXCEPT ![a] = Refreshed(lazy[a])]
      BY <1>6, <2>2 DEF Refresh
    <3>2. refreshes' = refreshes
      BY <1>6, <2>2 DEF Refresh
    <3> QED BY <1>1, <1>2, <1>5, <2>1, <3>1, <3>2, RefreshedEffect
  <2>3. CASE lazy[a].starting # 0
    <3>1. lazy' = [lazy EXCEPT ![a] = lazy[a]]
      BY <1>6, <2>3 DEF Refresh, RootInv, RootTypeOK
    <3>2. refreshes' = [refreshes EXCEPT ![r] =
                          [run |-> lazy[a].starting, adapter |-> a]]
      BY <1>6, <2>3 DEF Refresh
    <3>3. refreshes' \in Type
      BY <1>1, <1>2, <3>2 DEF LazyStates, Type
    <3> QED BY <1>1, <1>5, <2>1, <3>1, <3>3
  <2> QED BY <2>2, <2>3
<1>7. CASE RefreshResumes(r)
  <2> DEFINE b == refreshes[r].adapter
  <2>1. b \in Adapters
    BY <1>2 DEF Type
  <2>2. /\ MayStart(lazy[b]) /\ UNCHANGED <<root, gateVars, processVars>>
        /\ lazy' = [lazy EXCEPT ![b] = Refreshed(lazy[b])]
        /\ refreshes' = [refreshes EXCEPT ![r] = NoRefresh]
    BY <1>7 DEF RefreshResumes
  <2> HIDE DEF b
  <2> QED BY <1>1, <1>3, <1>5, <2>1, <2>2, RefreshedEffect
<1> QED BY <1>6, <1>7

(* The core closes the adapters, whatever the gate says.                   *)
LEMMA ClosingKeeps ==
  ASSUME RootInv, RootTypeOK', AllShutDown,
         closing', UNCHANGED <<gate, checks, begun, refreshes>>
  PROVE  RootInv' /\ GateStep
<1>1. /\ AdapterInv'
      /\ \A a \in Adapters :
           /\ lazy'[a].closed /\ lazy'[a].inner # "up"
           /\ lazy'[a].built = lazy[a].built /\ lazy'[a].runs = lazy[a].runs
  BY AllShutDownEffect
<1>2. StartsBegun'
  BY <1>1 DEF RootInv, StartsBegun
<1>3. BackendsFollowGate'
  BY <1>1 DEF BackendsFollowGate
<1>4. GateStep
  BY <1>1 DEF GateStep
<1> QED BY <1>1, <1>2, <1>3, <1>4 DEF RootInv

(* A step that leaves the adapters alone.                                  *)
LEMMA LazyUnchangedKeeps ==
  ASSUME RootInv, RootTypeOK', UNCHANGED <<lazy, refreshes, begun, closing>>,
         gate' = gate,
         \A c \in Checks : checks'[c].at = "restart" =>
           \/ checks[c].at = "restart"
           \/ \A a \in Adapters : lazy[a].closed
  PROVE  RootInv' /\ GateStep
<1>1. AdapterInv' /\ BackendsFollowGate' /\ GateStep
  BY DEF RootInv, AdapterInv, BackendsFollowGate, GateStep
<1>2. StartsBegun'
  BY DEF RootInv, StartsBegun
<1> QED BY <1>1, <1>2 DEF RootInv

CheckStates == [at : {"idle", "restart", "stop", "final"},
                by : {"nobody", "call", "retry"}]

(* The outcomes of check() up to its first await.                          *)
LEMMA CheckKeeps ==
  ASSUME RootInv, NEW c \in Checks, NEW by \in {"call", "retry"},
         NEW armed \in BOOLEAN, Check(c, by, armed),
         UNCHANGED <<root, processVars, refreshes>>
  PROVE  RootInv' /\ GateStep
<1>0. checks \in [Checks -> CheckStates] /\ lazy \in [Adapters -> LazyStates]
  BY DEF RootInv, RootTypeOK, CheckStates
<1>1. \A at \in {"restart", "stop", "final"} :
        [checks EXCEPT ![c] = [at |-> at, by |-> by]] \in [Checks -> CheckStates]
  BY <1>0 DEF CheckStates
<1>2. CASE StayUnavailable(armed) \/ PassReady
  <2>1. /\ UNCHANGED <<lazy, checks, gate>> /\ retry' \in BOOLEAN
        /\ window' \in {"unset", "open", "passed"}
    BY <1>2 DEF StayUnavailable, PassReady, RootInv, RootTypeOK
  <2>2. RootTypeOK'
    BY <2>1 DEF RootInv, RootTypeOK, processVars
  <2> QED BY <2>1, <2>2, LazyUnchangedKeeps DEF processVars
<1>3. CASE BeginRestart(c, by, armed)
  <2>1. \A a \in Adapters : lazy[a].closed
    BY <1>3 DEF BeginRestart, RootInv, BackendsFollowGate
  <2>2. lazy' = lazy
    <3>1. \A a \in Adapters : Started(lazy[a]) = lazy[a]
      BY <2>1 DEF Started
    <3> QED BY <1>0, <1>3, <3>1 DEF BeginRestart
  <2>3. /\ checks' = [checks EXCEPT ![c] = [at |-> "restart", by |-> by]]
        /\ gate' = gate /\ window' = window /\ retry' \in BOOLEAN
    BY <1>3 DEF BeginRestart
  <2>4. checks' \in [Checks -> CheckStates]
    BY <1>1, <2>3
  <2>5. RootTypeOK'
    BY <2>2, <2>3, <2>4 DEF RootInv, RootTypeOK, processVars, CheckStates
  <2> QED BY <2>1, <2>2, <2>3, <2>5, LazyUnchangedKeeps DEF processVars
<1>4. CASE BecomeInaccessible(c, by, armed) \/ BecomeUnavailable(c, by)
  <2>1. AllShutDown /\ gate' # "ready" /\ gate # "unavailable"
    BY <1>4 DEF BecomeInaccessible, BecomeUnavailable
  <2>2. \E at \in {"stop", "final"} :
          checks' = [checks EXCEPT ![c] = [at |-> at, by |-> by]]
    BY <1>4 DEF BecomeInaccessible, BecomeUnavailable
  <2>3. checks' \in [Checks -> CheckStates]
    BY <1>1, <2>2
  <2>4. /\ gate' \in RootStates /\ window' \in {"unset", "open", "passed"}
        /\ retry' \in BOOLEAN
    BY <1>4 DEF BecomeInaccessible, BecomeUnavailable, RootInv, RootTypeOK,
                RootStates
  <2>5. lazy' \in [Adapters -> LazyStates]
    BY <2>1, AllShutDownEffect
  <2>6. RootTypeOK'
    BY <2>3, <2>4, <2>5 DEF RootInv, RootTypeOK, processVars, CheckStates
  <2>7. StartsBegun'
    <3>1. \A a \in Adapters :
            lazy'[a].closed /\ lazy'[a].runs = lazy[a].runs
      BY <2>1, AllShutDownEffect
    <3> QED BY <3>1 DEF RootInv, StartsBegun, processVars
  <2>8. /\ AdapterInv'
        /\ \A a \in Adapters : /\ lazy'[a].closed /\ lazy'[a].inner # "up"
                               /\ lazy'[a].built = lazy[a].built
    BY <2>1, AllShutDownEffect
  <2>9. BackendsFollowGate' /\ GateStep
    BY <2>1, <2>8 DEF BackendsFollowGate, GateStep
  <2> QED BY <2>6, <2>7, <2>8, <2>9 DEF RootInv
<1> QED BY <1>2, <1>3, <1>4 DEF Check

(* A restart that resumes is refused: its adapters were closed when it     *)
(* began and are closed still, so the gate is never ready again.           *)
LEMMA ResumptionKeeps ==
  ASSUME RootInv, NEW c \in Checks, CheckResumes(c)
  PROVE  RootInv' /\ GateStep
<1>1. IdleCheck \in CheckStates
  BY DEF IdleCheck, CheckStates
<1>2. checks \in [Checks -> CheckStates]
  BY DEF RootInv, RootTypeOK, CheckStates
<1>3. checks' = [checks EXCEPT ![c] = IdleCheck]
  BY DEF CheckResumes, RestartResumes, StopResumes, FinalResumes
<1>4. UNCHANGED <<root, begun, closing, lazy, refreshes>>
  BY DEF CheckResumes, RestartResumes, StopResumes, FinalResumes, processVars
<1>5. gate' = gate /\ window' = window /\ retry' \in BOOLEAN /\ crashed' \in BOOLEAN
  <2>1. CASE RestartResumes(c)
    <3>1. \A a \in Adapters : lazy[a].closed
      BY <2>1 DEF RestartResumes, RootInv, StartsBegun
    <3>2. Refused
      BY <3>1, RootAccessAssumption DEF Refused
    <3> QED BY <2>1, <3>2 DEF RestartResumes, RootInv, RootTypeOK
  <2>2. CASE StopResumes(c) \/ FinalResumes(c)
    BY <2>2 DEF StopResumes, FinalResumes, RootInv, RootTypeOK, processVars
  <2> QED BY <2>1, <2>2 DEF CheckResumes
<1>6. RootTypeOK'
  BY <1>1, <1>2, <1>3, <1>4, <1>5 DEF RootInv, RootTypeOK, CheckStates
<1>7. \A d \in Checks : checks'[d].at = "restart" => checks[d].at = "restart"
  BY <1>2, <1>3 DEF IdleCheck
<1> QED BY <1>4, <1>5, <1>6, <1>7, LazyUnchangedKeeps

(* The first call and the end of the core.                                 *)
LEMMA ProcessKeeps ==
  ASSUME RootInv, StartPresentBackends \/ CloseCore
  PROVE  RootInv' /\ GateStep
<1>1. \A a \in Adapters : lazy[a] \in LazyStates
  BY DEF RootInv, RootTypeOK
<1>2. CASE StartPresentBackends
  <2>1. \A a \in Adapters : MayStart(lazy[a])
    BY <1>1, <1>2, RootAccessAssumption
       DEF StartPresentBackends, RootInv, StartsBegun, MayStart, LazyStates
  <2>2. \A a \in Adapters : lazy'[a] = Started(lazy[a])
    BY <1>2 DEF StartPresentBackends
  <2>3. \A a \in Adapters :
          /\ lazy'[a] \in LazyStates /\ lazy'[a].closed = lazy[a].closed
          /\ lazy'[a].inner = lazy[a].inner /\ lazy'[a].built = lazy[a].built
    BY <1>1, <2>1, <2>2, StartedEffect
  <2>4. /\ lazy' \in [Adapters -> LazyStates] /\ begun'
        /\ UNCHANGED <<root, gate, window, retry, checks, closing, crashed,
                       refreshes>>
    <3>1. lazy' = [a \in Adapters |-> lazy'[a]]
      BY <1>2 DEF StartPresentBackends
    <3>2. lazy' \in [Adapters -> LazyStates]
      BY <2>3, <3>1
    <3> QED BY <1>2, <3>2 DEF StartPresentBackends, gateVars
  <2>5. RootTypeOK'
    BY <2>4 DEF RootInv, RootTypeOK
  <2>6. StartsBegun'
    BY <2>3, <2>4 DEF RootInv, StartsBegun
  <2>7. AdapterInv' /\ BackendsFollowGate' /\ GateStep
    BY <2>3, <2>4 DEF RootInv, AdapterInv, BackendsFollowGate, GateStep
  <2> QED BY <2>5, <2>6, <2>7 DEF RootInv
<1>3. CASE CloseCore
  <2>1. /\ AllShutDown /\ closing' = TRUE
        /\ UNCHANGED <<root, gate, window, retry, checks, begun, crashed,
                       refreshes>>
    BY <1>3 DEF CloseCore, gateVars
  <2>2. lazy' \in [Adapters -> LazyStates]
    BY <2>1, AllShutDownEffect
  <2>3. RootTypeOK'
    BY <2>1, <2>2 DEF RootInv, RootTypeOK
  <2> QED BY <2>1, <2>3, ClosingKeeps
<1> QED BY <1>2, <1>3

(* Every step keeps the invariant and what GateStep says of it.            *)
LEMMA RootStepHolds ==
  ASSUME RootInv, RootNext
  PROVE  RootInv' /\ GateStep
<1>1. CASE StartPresentBackends \/ CloseCore
  BY <1>1, ProcessKeeps
<1>2. CASE RootChanges
  <2>1. UNCHANGED <<gate, window, retry, checks, begun, closing, crashed, lazy,
                    refreshes>> /\ root' \in RootStates
    BY <1>2 DEF RootChanges, gateVars, processVars
  <2>2. RootTypeOK'
    BY <2>1 DEF RootInv, RootTypeOK
  <2> QED BY <2>1, <2>2, LazyUnchangedKeeps
<1>3. CASE WindowPasses
  <2>1. UNCHANGED <<root, gate, retry, checks, begun, closing, crashed, lazy,
                    refreshes>> /\ window' = "passed"
    BY <1>3 DEF WindowPasses, processVars
  <2>2. RootTypeOK'
    BY <2>1 DEF RootInv, RootTypeOK
  <2> QED BY <2>1, <2>2, LazyUnchangedKeeps
<1>4. ASSUME NEW c \in Checks, CallChecks(c) PROVE RootInv' /\ GateStep
  <2>1. Check(c, "call", retry) /\ UNCHANGED <<root, processVars, refreshes>>
    BY <1>4 DEF CallChecks
  <2>2. retry \in BOOLEAN
    BY DEF RootInv, RootTypeOK
  <2> QED BY <2>1, <2>2, CheckKeeps
<1>5. ASSUME NEW c \in Checks, RetryFires(c) PROVE RootInv' /\ GateStep
  BY <1>5, CheckKeeps DEF RetryFires
<1>6. ASSUME NEW c \in Checks, CheckResumes(c) PROVE RootInv' /\ GateStep
  BY <1>6, ResumptionKeeps
<1>7. ASSUME NEW a \in Adapters, InnerStopped(a) PROVE RootInv' /\ GateStep
  <2> DEFINE stopped == [lazy[a] EXCEPT !.inner = "stopped"]
  <2>1. /\ lazy' = [lazy EXCEPT ![a] = stopped] /\ refreshes' = refreshes
        /\ UNCHANGED <<root, gateVars, processVars>>
        /\ lazy[a].inner = "stopping"
    BY <1>7 DEF InnerStopped
  <2>2. lazy[a] \in LazyStates
    BY DEF RootInv, RootTypeOK
  <2>3. /\ stopped \in LazyStates /\ stopped.closed = lazy[a].closed
        /\ stopped.inner = "stopped" /\ stopped.built = lazy[a].built
        /\ stopped.runs = lazy[a].runs
    BY <2>2 DEF LazyStates
  <2>4. AdapterStep(lazy[a], stopped)
    BY <2>3 DEF AdapterStep, RootInv, AdapterInv
  <2>5. refreshes' \in [Refreshes -> [run : 0..RunBound, adapter : Adapters]]
    BY <2>1 DEF RootInv, RootTypeOK
  <2> HIDE DEF stopped
  <2> QED BY <2>1, <2>3, <2>4, <2>5, AdapterKeepsGate
<1>8. CASE StartProceeds
  BY <1>8, StartStepKeeps DEF StartProceeds
<1>9. ASSUME NEW a \in Adapters, Request(a) PROVE RootInv' /\ GateStep
  <2>1. lazy[a].closed \/ MayStart(lazy[a])
    BY <1>9 DEF Request
  <2>2. lazy[a] \in LazyStates
    BY DEF RootInv, RootTypeOK
  <2>3. /\ lazy' = [lazy EXCEPT ![a] = Started(lazy[a])] /\ begun
        /\ UNCHANGED <<root, gateVars, processVars>> /\ refreshes' = refreshes
    BY <1>9 DEF Request
  <2>4. AdapterStep(lazy[a], Started(lazy[a]))
    BY <2>1, <2>2, StartedEffect DEF AdapterStep, RootInv, AdapterInv
  <2>5. refreshes' \in [Refreshes -> [run : 0..RunBound, adapter : Adapters]]
    BY <2>3 DEF RootInv, RootTypeOK
  <2> QED BY <2>1, <2>2, <2>3, <2>4, <2>5, StartedEffect, AdapterKeepsGate
<1>10. ASSUME NEW a \in Adapters, NEW r \in Refreshes, Refresh(a, r)
       PROVE  RootInv' /\ GateStep
  BY <1>10, RefreshKeeps
<1>11. ASSUME NEW r \in Refreshes, RefreshResumes(r)
       PROVE  RootInv' /\ GateStep
  <2>1. PICK a \in Adapters : TRUE
    BY RootAccessAssumption
  <2> QED BY <1>11, RefreshKeeps
<1> QED
  BY <1>1, <1>2, <1>3, <1>4, <1>5, <1>6, <1>7, <1>8, <1>9, <1>10, <1>11
     DEF RootNext, RetryTimer

(* Stuttering steps too.                                                    *)
LEMMA RootStutters ==
  ASSUME RootInv, UNCHANGED rootVars
  PROVE  RootInv' /\ GateStep
<1>1. UNCHANGED <<root, gate, window, retry, checks, begun, closing, crashed,
                  lazy, refreshes>>
  BY DEF rootVars, gateVars, processVars
<1>2. RootTypeOK'
  BY <1>1 DEF RootInv, RootTypeOK
<1> QED BY <1>1, <1>2, LazyUnchangedKeeps

(* The invariant of the gate and its adapters.                             *)
LEMMA RootInvHolds == RootSpec => []RootInv
<1>1. RootInv /\ [RootNext]_rootVars => RootInv'
  BY RootStepHolds, RootStutters
<1> QED BY RootInitHolds, <1>1, PTL DEF RootSpec

(* RootAccessGate and the lazy adapters keep their types, with any number  *)
(* of adapters, calls and refreshes in flight.                             *)
THEOREM RootTypesKept == RootSpec => []RootTypeOK
<1>1. RootInv => RootTypeOK
  BY DEF RootInv
<1> QED BY RootInvHolds, <1>1, PTL

(* runStart builds a backend once: the check for `inner` is repeated after *)
(* the presence check, so overlapping starts and refreshes share it.       *)
THEOREM BackendBuiltOnce == RootSpec => []BuiltOnce
<1>1. RootInv => BuiltOnce
  BY DEF RootInv, AdapterInv, BuiltOnce
<1> QED BY RootInvHolds, <1>1, PTL

(* A gate that admits calls stands before open adapters, one that refuses  *)
(* them before closed ones without a backend, in every interleaving of     *)
(* checks, retries, starts, refreshes and the end of the core.             *)
THEOREM GateAndBackendsAgree == RootSpec => []BackendsFollowGate
<1>1. RootInv => BackendsFollowGate
  BY DEF RootInv
<1> QED BY RootInvHolds, <1>1, PTL

(* handleUnavailable is final, whatever other checks still await.          *)
THEOREM RootLossHolds == RootSpec => RootLossIsFinal
<1>1. RootInv /\ [RootNext]_rootVars =>
        [gate = "unavailable" => gate' = "unavailable"]_rootVars
  BY RootStepHolds DEF GateStep
<1> QED BY RootInvHolds, <1>1, PTL DEF RootSpec, RootLossIsFinal

(* shutdownLazy is final: no start in flight builds or revives a backend.  *)
THEOREM ClosedAdaptersHold == RootSpec => ClosedAdaptersStayDown
<1>1. RootInv /\ [RootNext]_rootVars =>
        [\A a \in Adapters : lazy[a].closed =>
           /\ lazy'[a].closed
           /\ lazy'[a].built = lazy[a].built
           /\ lazy'[a].inner # "up"]_rootVars
  BY RootStepHolds DEF GateStep
<1> QED BY RootInvHolds, <1>1, PTL DEF RootSpec, ClosedAdaptersStayDown

-----------------------------------------------------------------------------
(* Progress of an inaccessible root: somebody always looks at it again.    *)

\* A check that arms the timer when it resumes, or ends the process.
WillRetry(c) ==
  \/ checks[c].at = "stop"
  \/ checks[c].at = "restart" /\ checks[c].by = "retry"

(* While the root is inaccessible the thirty seconds run, and the retry    *)
(* timer is armed or a check is under way that arms it.                    *)
InaccessibilityWatched ==
  gate = "inaccessible" /\ ~crashed =>
    /\ window # "unset"
    /\ retry \/ \E c \in Checks : WillRetry(c)

(* The thirty seconds never begin again.                                   *)
WindowRunsOut ==
  gate = "inaccessible" => UNCHANGED window \/ window' = "passed"

(* An outcome of check(): a new failure awaits its stop, a restart that    *)
(* the timer has begun stands for the timer.                               *)
LEMMA CheckWatches ==
  ASSUME RootInv, InaccessibilityWatched, NEW c \in Checks,
         NEW by \in {"call", "retry"}, NEW armed \in BOOLEAN,
         by = "call" => armed = retry, checks[c] = IdleCheck, ~crashed,
         Check(c, by, armed), UNCHANGED crashed
  PROVE  InaccessibilityWatched' /\ WindowRunsOut
<1> USE DEF InaccessibilityWatched, WindowRunsOut
<1>0. checks \in [Checks -> CheckStates]
  BY DEF RootInv, RootTypeOK, CheckStates
<1>1. CASE StayUnavailable(armed)
  BY <1>1 DEF StayUnavailable
<1>2. CASE PassReady
  BY <1>2 DEF PassReady
<1>3. CASE BeginRestart(c, by, armed)
  <2>1. /\ checks' = [checks EXCEPT ![c] = [at |-> "restart", by |-> by]]
        /\ retry' = armed /\ UNCHANGED <<gate, window>>
        /\ gate = "inaccessible"
    BY <1>3 DEF BeginRestart
  <2>2. CASE by = "retry"
    <3>1. WillRetry(c)'
      BY <1>0, <2>1, <2>2 DEF WillRetry
    <3> QED BY <2>1, <3>1
  <2>3. CASE by = "call"
    <3>1. CASE retry
      BY <2>1, <2>3, <3>1
    <3>2. CASE ~retry
      <4>1. PICK d \in Checks : WillRetry(d)
        BY <2>1, <3>2
      <4>2. d # c
        BY <4>1 DEF WillRetry, IdleCheck
      <4>3. WillRetry(d)'
        BY <1>0, <2>1, <4>1, <4>2 DEF WillRetry
      <4> QED BY <2>1, <4>3
    <3> QED BY <3>1, <3>2
  <2> QED BY <2>2, <2>3
<1>4. CASE BecomeInaccessible(c, by, armed)
  <2>1. /\ checks' = [checks EXCEPT ![c] = [at |-> "stop", by |-> by]]
        /\ window' = "open" /\ window # "passed"
    BY <1>4 DEF BecomeInaccessible
  <2>2. WillRetry(c)'
    BY <1>0, <2>1 DEF WillRetry
  <2>3. gate = "inaccessible" => window = "open"
    BY <2>1 DEF RootInv, RootTypeOK
  <2> QED BY <2>1, <2>2, <2>3
<1>5. CASE BecomeUnavailable(c, by)
  BY <1>5 DEF BecomeUnavailable
<1> QED BY <1>1, <1>2, <1>3, <1>4, <1>5 DEF Check

(* A continuation: a stop arms the timer, and the restart of a timer is    *)
(* refused, which ends the process.                                        *)
LEMMA ResumptionWatches ==
  ASSUME RootInv, InaccessibilityWatched, NEW c \in Checks, CheckResumes(c)
  PROVE  InaccessibilityWatched' /\ WindowRunsOut
<1> USE DEF InaccessibilityWatched, WindowRunsOut
<1>0. checks \in [Checks -> CheckStates]
  BY DEF RootInv, RootTypeOK, CheckStates
<1>1. CASE StopResumes(c)
  BY <1>1 DEF StopResumes, processVars
<1>2. ASSUME \/ checks[c].at = "restart" /\ checks[c].by # "retry"
             \/ checks[c].at = "final",
             checks' = [checks EXCEPT ![c] = IdleCheck],
             UNCHANGED <<gate, window, retry, crashed>>
      PROVE  InaccessibilityWatched' /\ WindowRunsOut
  <2>1. \A d \in Checks : WillRetry(d) => d # c
    BY <1>2 DEF WillRetry
  <2>2. \A d \in Checks : WillRetry(d) => WillRetry(d)'
    BY <1>0, <1>2, <2>1 DEF WillRetry
  <2> QED BY <1>2, <2>2
<1>3. CASE FinalResumes(c)
  BY <1>2, <1>3 DEF FinalResumes, processVars
<1>4. CASE RestartResumes(c)
  <2>1. \A a \in Adapters : lazy[a].closed
    BY <1>4 DEF RestartResumes, RootInv, StartsBegun
  <2>2. Refused
    BY <2>1, RootAccessAssumption DEF Refused
  <2>3. /\ checks[c].at = "restart" /\ ~crashed
        /\ crashed' = (checks[c].by = "retry")
        /\ checks' = [checks EXCEPT ![c] = IdleCheck]
        /\ UNCHANGED <<gate, window, retry>>
    BY <1>4, <2>2 DEF RestartResumes
  <2>4. CASE checks[c].by = "retry"
    BY <2>3, <2>4
  <2>5. CASE checks[c].by # "retry"
    <3>1. crashed \in BOOLEAN
      BY DEF RootInv, RootTypeOK
    <3>2. UNCHANGED crashed
      BY <2>3, <2>5, <3>1
    <3> QED BY <1>2, <2>3, <2>5, <3>2
  <2> QED BY <2>4, <2>5
<1> QED BY <1>1, <1>3, <1>4 DEF CheckResumes

(* No step leaves an inaccessible root unwatched.                          *)
LEMMA WatchStep ==
  ASSUME RootInv, InaccessibilityWatched, RootNext
  PROVE  InaccessibilityWatched' /\ WindowRunsOut
<1>1. ASSUME UNCHANGED <<gate, retry, checks, crashed>>,
             UNCHANGED window \/ window' = "passed"
      PROVE  InaccessibilityWatched' /\ WindowRunsOut
  BY <1>1 DEF InaccessibilityWatched, WindowRunsOut, WillRetry
<1>2. CASE \/ StartPresentBackends \/ CloseCore \/ RootChanges \/ WindowPasses
           \/ StartProceeds
  BY <1>1, <1>2 DEF StartPresentBackends, CloseCore, RootChanges, WindowPasses,
     StartProceeds, PresenceResumes, InnerStarted, StartCaught, gateVars,
     processVars
<1>3. ASSUME NEW c \in Checks, CallChecks(c)
      PROVE  InaccessibilityWatched' /\ WindowRunsOut
  <2>1. /\ Check(c, "call", retry) /\ ~crashed /\ UNCHANGED crashed
        /\ checks[c] = IdleCheck
    BY <1>3 DEF CallChecks, IdleChecks, processVars
  <2>2. retry \in BOOLEAN
    BY DEF RootInv, RootTypeOK
  <2> QED BY <2>1, <2>2, CheckWatches
<1>4. ASSUME NEW c \in Checks, RetryFires(c)
      PROVE  InaccessibilityWatched' /\ WindowRunsOut
  <2>1. /\ Check(c, "retry", FALSE) /\ ~crashed /\ UNCHANGED crashed
        /\ checks[c] = IdleCheck
    BY <1>4 DEF RetryFires, IdleChecks, processVars
  <2> QED BY <2>1, CheckWatches
<1>5. ASSUME NEW a \in Adapters, InnerStopped(a) \/ Request(a)
      PROVE  InaccessibilityWatched' /\ WindowRunsOut
  BY <1>1, <1>5 DEF InnerStopped, Request, gateVars, processVars
<1>6. ASSUME NEW r \in Refreshes,
             RefreshResumes(r) \/ \E a \in Adapters : Refresh(a, r)
      PROVE  InaccessibilityWatched' /\ WindowRunsOut
  BY <1>1, <1>6 DEF RefreshResumes, Refresh, gateVars, processVars
<1> QED
  BY <1>2, <1>3, <1>4, <1>5, <1>6, ResumptionWatches DEF RootNext, RetryTimer

(* An inaccessible root is never forgotten: whichever checks overlap, the  *)
(* timer is armed or will be (handleTransientInaccessibility), so that it  *)
(* is left to fairness alone that the gate leaves the state.               *)
THEOREM InaccessibleRootWatched == RootSpec => []InaccessibilityWatched
<1>1. RootInit => InaccessibilityWatched
  BY DEF RootInit, InaccessibilityWatched
<1>2. RootInv /\ InaccessibilityWatched /\ [RootNext]_rootVars =>
        InaccessibilityWatched'
  BY WatchStep DEF InaccessibilityWatched, WillRetry, rootVars, gateVars,
                   processVars
<1> QED BY <1>1, <1>2, RootInvHolds, PTL DEF RootSpec

(* No check of an inaccessible root restarts its thirty seconds            *)
(* (inaccessibleSince ??= now).                                            *)
THEOREM RecoveryIsBounded ==
  RootSpec => [][WindowRunsOut]_rootVars
<1>1. RootInv /\ InaccessibilityWatched /\ [RootNext]_rootVars =>
        [WindowRunsOut]_rootVars
  BY WatchStep
<1> QED BY <1>1, RootInvHolds, InaccessibleRootWatched, PTL DEF RootSpec

-----------------------------------------------------------------------------
(* The life of a process.  A root belongs to the one process that made it; *)
(* while that process lives its marker holds the pid of a live process, or *)
(* is about to and the root is young, so no sweep finds it stale.          *)

ProcStates ==
  [at : Phases, pid : Pids \union {NoPid}, unswept : SUBSET TempRoots,
   closing : BOOLEAN, sealed : BOOLEAN, hooked : BOOLEAN, children : Nat,
   tracked : SUBSET TempRoots, marking : SUBSET TempRoots]

DirStates ==
  [there : BOOLEAN, used : BOOLEAN, pid : Pids \union {NoPid},
   old : BOOLEAN, stuck : BOOLEAN]

Alive(proc) == proc.at \notin {"off", "exited", "killed"}

(* What is known of a process by itself.                                   *)
ProcInv(proc) ==
  /\ Alive(proc) => proc.pid \in Pids
  /\ proc.at = "exited" => proc.children = 0
  /\ proc.at \in {"off", "exited"} => proc.tracked = {}
  /\ ~proc.hooked => proc.children = 0 /\ proc.tracked = {}
  /\ proc.marking \subseteq proc.tracked

(* Pids of live processes and owners of roots are unique.                  *)
OwnersUnique ==
  \A p, q \in Processes :
    /\ Alive(procs[p]) /\ Alive(procs[q]) /\ procs[p].pid = procs[q].pid => p = q
    /\ \A t \in procs[p].tracked : t \in procs[q].tracked => p = q

(* What a root on disk and the process that has it know of each other.     *)
RootsOwned ==
  /\ \A p \in Processes : \A t \in procs[p].tracked :
       /\ tempdir[t].used
       /\ Alive(procs[p]) =>
            /\ tempdir[t].there
            /\ IF t \in procs[p].marking
               THEN tempdir[t].pid = NoPid /\ ~tempdir[t].old
               ELSE tempdir[t].pid = procs[p].pid
  /\ \A t \in TempRoots :
       /\ tempdir[t].there => tempdir[t].used
       /\ tempdir[t].there /\ ~tempdir[t].stuck =>
            \E p \in Processes : procs[p].at # "exited" /\ t \in procs[p].tracked

LifeInv ==
  /\ procs \in [Processes -> ProcStates]
  /\ tempdir \in [TempRoots -> DirStates]
  /\ \A p \in Processes : ProcInv(procs[p])
  /\ OwnersUnique /\ RootsOwned

(* No process has started and no root is made.                             *)
LEMMA LifeInitHolds == LifeInit => LifeInv
  BY DEF LifeInit, LifeInv, ProcStates, DirStates, Phases, NotYetStarted, Unmade,
         ProcInv, Alive, OwnersUnique, RootsOwned

(* removeServiceTree touches the roots it is given, and those it leaves    *)
(* are stuck.                                                              *)
LEMMA RemovalEffect ==
  ASSUME tempdir \in [TempRoots -> DirStates], NEW set \in SUBSET TempRoots,
         \A t \in set : tempdir[t].used, Removal(set)
  PROVE  /\ tempdir' \in [TempRoots -> DirStates]
         /\ \A t \in TempRoots \ set : tempdir'[t] = tempdir[t]
         /\ \A t \in set : /\ tempdir'[t].used
                           /\ tempdir'[t].there => tempdir'[t].stuck
<1>1. PICK left \in SUBSET set, bare \in SUBSET set :
        tempdir' = [t \in TempRoots |->
          CASE t \in set \ left -> Gone
            [] t \in bare -> [Made EXCEPT !.stuck = TRUE]
            [] t \in left \ bare -> [tempdir[t] EXCEPT !.stuck = TRUE]
            [] OTHER -> tempdir[t]]
  BY DEF Removal
<1>2. Gone \in DirStates /\ Gone.used /\ ~Gone.there
  BY DEF Gone, Unmade, DirStates
<1>3. [Made EXCEPT !.stuck = TRUE] \in DirStates
  BY DEF Made, Unmade, DirStates
<1>4. [Made EXCEPT !.stuck = TRUE].used /\ [Made EXCEPT !.stuck = TRUE].stuck
  BY DEF Made, Unmade
<1>5. \A t \in TempRoots : /\ [tempdir[t] EXCEPT !.stuck = TRUE] \in DirStates
                           /\ [tempdir[t] EXCEPT !.stuck = TRUE].stuck
                           /\ [tempdir[t] EXCEPT !.stuck = TRUE].used = tempdir[t].used
  BY DEF DirStates
<1> DEFINE bared == [Made EXCEPT !.stuck = TRUE]
           kept(t) == [tempdir[t] EXCEPT !.stuck = TRUE]
<1>6. tempdir' = [t \in TempRoots |->
          CASE t \in set \ left -> Gone
            [] t \in bare -> bared
            [] t \in left \ bare -> kept(t)
            [] OTHER -> tempdir[t]]
  BY <1>1
<1>7. /\ bared \in DirStates /\ bared.used /\ bared.stuck
      /\ \A t \in TempRoots : /\ kept(t) \in DirStates /\ kept(t).stuck
                              /\ kept(t).used = tempdir[t].used
  BY <1>3, <1>4, <1>5
<1> HIDE DEF bared, kept
<1>8. \A t \in TempRoots : tempdir'[t] =
          CASE t \in set \ left -> Gone
            [] t \in bare -> bared
            [] t \in left \ bare -> kept(t)
            [] OTHER -> tempdir[t]
  BY <1>6
<1>9. \A t \in TempRoots : tempdir'[t] \in DirStates
  BY <1>2, <1>7, <1>8
<1>10. tempdir' \in [TempRoots -> DirStates]
  BY <1>6, <1>9
<1>11. \A t \in TempRoots \ set : tempdir'[t] = tempdir[t]
  BY <1>8
<1>12. \A t \in set : tempdir'[t].used /\ (tempdir'[t].there => tempdir'[t].stuck)
  BY <1>2, <1>7, <1>8
<1> QED BY <1>10, <1>11, <1>12

(* A step of one process that releases some of its roots, or none, and     *)
(* takes up no new one.                                                    *)
LEMMA OwnStepKeeps ==
  ASSUME LifeInv, NEW p \in Processes, NEW new \in ProcStates, ProcInv(new),
         procs' = [procs EXCEPT ![p] = new],
         Alive(new) => Alive(procs[p]) /\ new.pid = procs[p].pid,
         NEW gone \in SUBSET procs[p].tracked,
         new.tracked = procs[p].tracked \ gone,
         new.marking = procs[p].marking \ gone,
         tempdir' \in [TempRoots -> DirStates],
         \A t \in TempRoots \ gone : tempdir'[t] = tempdir[t],
         \A t \in gone : /\ tempdir'[t].used
                         /\ tempdir'[t].there => tempdir'[t].stuck
  PROVE  LifeInv'
<1>1. procs' \in [Processes -> ProcStates]
  BY DEF LifeInv
<1>2. \A q \in Processes : procs'[q] = IF q = p THEN new ELSE procs[q]
  BY DEF LifeInv
<1>3. \A q \in Processes : procs[q].tracked \subseteq TempRoots
  BY DEF LifeInv, ProcStates
<1>4. \A q \in Processes : ProcInv(procs'[q])
  BY <1>2 DEF LifeInv
<1>5. OwnersUnique'
  BY <1>2 DEF LifeInv, OwnersUnique
<1>6. \A q \in Processes : procs'[q].tracked = procs[q].tracked \ gone
  BY <1>2 DEF LifeInv, OwnersUnique
<1>7. \A q \in Processes : \A t \in procs'[q].tracked :
        /\ tempdir'[t] = tempdir[t] /\ t \in procs[q].tracked
        /\ Alive(procs'[q]) => Alive(procs[q]) /\ procs'[q].pid = procs[q].pid
        /\ t \in procs'[q].marking <=> t \in procs[q].marking
  BY <1>2, <1>3, <1>6
<1>8. \A q \in Processes : \A t \in procs'[q].tracked :
       /\ tempdir'[t].used
       /\ Alive(procs'[q]) =>
            /\ tempdir'[t].there
            /\ IF t \in procs'[q].marking
               THEN tempdir'[t].pid = NoPid /\ ~tempdir'[t].old
               ELSE tempdir'[t].pid = procs'[q].pid
  BY <1>7 DEF LifeInv, RootsOwned
<1>9. ASSUME NEW t \in TempRoots
      PROVE  /\ tempdir'[t].there => tempdir'[t].used
             /\ tempdir'[t].there /\ ~tempdir'[t].stuck =>
                  \E q \in Processes : procs'[q].at # "exited" /\ t \in procs'[q].tracked
  <2>1. CASE t \in gone
    BY <2>1
  <2>2. CASE t \notin gone
    <3>1. tempdir'[t] = tempdir[t]
      BY <2>2
    <3>2. \A q \in Processes : t \in procs[q].tracked /\ procs[q].at # "exited"
            => t \in procs'[q].tracked /\ procs'[q].at # "exited"
      BY <1>2, <1>4, <1>6, <2>2 DEF ProcInv
    <3> QED BY <3>1, <3>2 DEF LifeInv, RootsOwned
  <2> QED BY <2>1, <2>2
<1>10. RootsOwned'
  BY <1>8, <1>9 DEF RootsOwned
<1> QED BY <1>1, <1>4, <1>5, <1>10 DEF LifeInv

(* The same, when no root is released.                                     *)
LEMMA QuietStepKeeps ==
  ASSUME LifeInv, NEW p \in Processes, NEW new \in ProcStates, ProcInv(new),
         procs' = [procs EXCEPT ![p] = new], tempdir' = tempdir,
         Alive(new) => Alive(procs[p]) /\ new.pid = procs[p].pid,
         new.tracked = procs[p].tracked, new.marking = procs[p].marking
  PROVE  LifeInv'
<1>1. tempdir \in [TempRoots -> DirStates]
  BY DEF LifeInv
<1>2. {} \in SUBSET procs[p].tracked
  OBVIOUS
<1> QED BY <1>1, <1>2, OwnStepKeeps

(* A step of one process that removes some of its roots.                   *)
LEMMA ReleaseKeeps ==
  ASSUME LifeInv, NEW p \in Processes, NEW new \in ProcStates, ProcInv(new),
         procs' = [procs EXCEPT ![p] = new],
         Alive(procs[p]), new.pid = procs[p].pid,
         NEW gone \in SUBSET procs[p].tracked,
         new.tracked = procs[p].tracked \ gone,
         new.marking = procs[p].marking \ gone,
         Removal(gone)
  PROVE  LifeInv'
<1>1. procs[p] \in ProcStates /\ tempdir \in [TempRoots -> DirStates]
  BY DEF LifeInv
<1>2. gone \in SUBSET TempRoots /\ \A t \in gone : tempdir[t].used
  BY <1>1 DEF ProcStates, LifeInv, RootsOwned
<1>3. /\ tempdir' \in [TempRoots -> DirStates]
      /\ \A t \in TempRoots \ gone : tempdir'[t] = tempdir[t]
      /\ \A t \in gone : /\ tempdir'[t].used
                         /\ tempdir'[t].there => tempdir'[t].stuck
  BY <1>1, <1>2, RemovalEffect
<1> QED BY <1>3, OwnStepKeeps

(* The steps of one process that leave its roots alone.                    *)
LEMMA QuietSteps ==
  ASSUME LifeInv, NEW p \in Processes,
         \/ SweepEnds(p) \/ CoreStarts(p) \/ SpawnBackend(p) \/ ChildExits(p)
         \/ KillProcess(p)
         \/ UncaughtError(p) /\ ~procs[p].hooked
  PROVE  LifeInv'
<1> DEFINE proc == procs[p]
<1>1. proc \in ProcStates /\ ProcInv(proc)
  BY DEF LifeInv
<1>2. CASE SweepEnds(p)
  <2> DEFINE new == [proc EXCEPT !.at = "starting"]
  <2>1. /\ new \in ProcStates /\ ProcInv(new) /\ Alive(proc) /\ new.pid = proc.pid
        /\ new.tracked = proc.tracked /\ new.marking = proc.marking
    BY <1>1, <1>2 DEF SweepEnds, ProcStates, ProcInv, Alive, Phases
  <2> QED BY <1>2, <2>1, QuietStepKeeps DEF SweepEnds
<1>3. CASE CoreStarts(p)
  <2> DEFINE new == [proc EXCEPT !.at = "serving"]
  <2>1. /\ new \in ProcStates /\ ProcInv(new) /\ Alive(proc) /\ new.pid = proc.pid
        /\ new.tracked = proc.tracked /\ new.marking = proc.marking
    BY <1>1, <1>3 DEF CoreStarts, ProcStates, ProcInv, Alive, Phases
  <2> QED BY <1>3, <2>1, QuietStepKeeps DEF CoreStarts
<1>4. CASE SpawnBackend(p)
  <2> DEFINE new == [proc EXCEPT !.children = proc.children + 1, !.hooked = TRUE]
  <2>0. proc.children + 1 \in Nat /\ proc.at # "exited" /\ Alive(proc)
    BY <1>1, <1>4 DEF SpawnBackend, Free, ProcStates, Alive
  <2>1. /\ new \in ProcStates /\ ProcInv(new) /\ new.pid = proc.pid
        /\ new.tracked = proc.tracked /\ new.marking = proc.marking
    BY <1>1, <2>0 DEF ProcStates, ProcInv, Alive
  <2>2. procs' = [procs EXCEPT ![p] = new] /\ tempdir' = tempdir
    BY <1>4 DEF SpawnBackend
  <2> QED BY <2>0, <2>1, <2>2, QuietStepKeeps
<1>5. CASE ChildExits(p)
  <2> DEFINE new == [proc EXCEPT !.children = proc.children - 1]
  <2>0. /\ proc.children > 0 /\ Alive(proc) /\ proc.at # "exited"
        /\ proc.children - 1 \in Nat
    BY <1>1, <1>5 DEF ChildExits, Free, ProcStates, Alive
  <2>1. /\ new \in ProcStates /\ ProcInv(new) /\ new.pid = proc.pid
        /\ new.tracked = proc.tracked /\ new.marking = proc.marking
    BY <1>1, <2>0 DEF ProcStates, ProcInv, Alive
  <2>2. procs' = [procs EXCEPT ![p] = new] /\ tempdir' = tempdir
    BY <1>5 DEF ChildExits
  <2> QED BY <2>0, <2>1, <2>2, QuietStepKeeps
<1>6. CASE KillProcess(p)
  <2> DEFINE new == [proc EXCEPT !.at = "killed"]
  <2>1. /\ new \in ProcStates /\ ProcInv(new) /\ ~Alive(new)
        /\ new.tracked = proc.tracked /\ new.marking = proc.marking
    BY <1>1, <1>6 DEF KillProcess, ProcStates, ProcInv, Alive, Phases
  <2> QED BY <1>6, <2>1, QuietStepKeeps DEF KillProcess
<1>7. CASE UncaughtError(p) /\ ~procs[p].hooked
  <2> DEFINE new == [proc EXCEPT !.at = "exited"]
  <2>1. /\ new \in ProcStates /\ ProcInv(new) /\ ~Alive(new)
        /\ new.tracked = proc.tracked /\ new.marking = proc.marking
    BY <1>1, <1>7 DEF ProcStates, ProcInv, Alive, Phases
  <2> QED BY <1>7, <2>1, QuietStepKeeps DEF UncaughtError
<1> QED BY <1>2, <1>3, <1>4, <1>5, <1>6, <1>7

(* The steps of one process that release roots.                            *)
LEMMA ReleasingSteps ==
  ASSUME LifeInv, NEW p \in Processes,
         \/ CloseBegins(p) \/ CloseSettles(p) \/ BudgetPasses(p) \/ StartFails(p)
         \/ UncaughtError(p) /\ procs[p].hooked
         \/ \E t \in TempRoots : ReleaseRoot(p, t)
  PROVE  LifeInv'
<1> DEFINE proc == procs[p]
<1>1. proc \in ProcStates /\ ProcInv(proc) /\ tempdir \in [TempRoots -> DirStates]
  BY DEF LifeInv
<1>2. Alive(proc) /\ proc.marking = {}
  BY DEF CloseBegins, CloseSettles, BudgetPasses, StartFails, UncaughtError,
         ReleaseRoot, Free, Alive
<1>3. CASE CloseBegins(p)
  <2> DEFINE new == [Sealed(proc) EXCEPT !.closing = TRUE]
  <2>1. /\ new \in ProcStates /\ new.pid = proc.pid /\ ProcInv(new)
        /\ new.tracked = proc.tracked \ proc.tracked
        /\ new.marking = proc.marking \ proc.tracked
    BY <1>1, <1>2 DEF Sealed, ProcStates, ProcInv, Alive
  <2>2. procs' = [procs EXCEPT ![p] = new] /\ Removal(procs[p].tracked)
    BY <1>3 DEF CloseBegins
  <2> HIDE DEF new
  <2>3. proc.tracked \in SUBSET proc.tracked
    OBVIOUS
  <2> QED BY <1>2, <2>1, <2>2, <2>3, ReleaseKeeps
<1>4. CASE Finishes(p)
  <2> DEFINE new == [Sealed(proc) EXCEPT !.at = "exited"]
  <2>1. /\ new \in ProcStates /\ new.pid = proc.pid /\ ProcInv(new)
        /\ new.tracked = proc.tracked \ proc.tracked
        /\ new.marking = proc.marking \ proc.tracked
    BY <1>1, <1>2 DEF Sealed, ProcStates, Phases, ProcInv, Alive
  <2>2. procs' = [procs EXCEPT ![p] = new] /\ Removal(procs[p].tracked)
    BY <1>4 DEF Finishes
  <2> HIDE DEF new
  <2>3. proc.tracked \in SUBSET proc.tracked
    OBVIOUS
  <2> QED BY <1>2, <2>1, <2>2, <2>3, ReleaseKeeps
<1>5. ASSUME NEW t \in TempRoots, ReleaseRoot(p, t) PROVE LifeInv'
  <2> DEFINE new == [proc EXCEPT !.tracked = proc.tracked \ {t}]
  <2>1. /\ new \in ProcStates /\ new.tracked = proc.tracked \ {t}
        /\ new.marking = {} /\ new.pid = proc.pid /\ ProcInv(new)
    BY <1>1, <1>2 DEF ProcStates, ProcInv, Alive
  <2>2. /\ procs' = [procs EXCEPT ![p] = new] /\ Removal({t})
        /\ t \in proc.tracked
    BY <1>5 DEF ReleaseRoot
  <2>3. new.marking = proc.marking \ {t} /\ {t} \in SUBSET proc.tracked
    BY <1>2, <2>1, <2>2
  <2> HIDE DEF new
  <2> QED BY <1>2, <2>1, <2>2, <2>3, ReleaseKeeps
<1> QED
  BY <1>3, <1>4, <1>5 DEF CloseSettles, BudgetPasses, StartFails, UncaughtError

(* A new process has a pid of its own and no roots.                        *)
LEMMA StartKeeps ==
  ASSUME LifeInv, NEW p \in Processes, NEW pid \in Pids, StartProcess(p, pid)
  PROVE  LifeInv'
<1> DEFINE found == {t \in TempRoots : tempdir[t].there}
           new == [NotYetStarted EXCEPT !.at = "sweeping", !.pid = pid,
                                        !.unswept = found]
<1>1. /\ procs' = [procs EXCEPT ![p] = new] /\ tempdir' = tempdir
      /\ \A q \in Processes : Alive(procs[q]) => procs[q].pid # pid
  BY DEF StartProcess, Live, Alive
<1>2. /\ new \in ProcStates /\ ProcInv(new) /\ new.pid = pid
      /\ new.tracked = {} /\ new.marking = {}
  BY DEF NotYetStarted, ProcStates, ProcInv, Phases
<1> HIDE DEF new
<1>3. \A q \in Processes : procs'[q] = IF q = p THEN new ELSE procs[q]
  BY <1>1 DEF LifeInv
<1>4. procs[p].tracked = {} \/ procs[p].at # "off"
  BY DEF LifeInv, ProcInv
<1>5. procs[p].tracked = {}
  BY <1>4 DEF StartProcess
<1>6. procs' \in [Processes -> ProcStates] /\ \A q \in Processes : ProcInv(procs'[q])
  BY <1>1, <1>2, <1>3 DEF LifeInv
<1>7. OwnersUnique'
  BY <1>1, <1>2, <1>3 DEF LifeInv, OwnersUnique
<1>8. RootsOwned'
  BY <1>1, <1>2, <1>3, <1>5 DEF LifeInv, RootsOwned
<1> QED BY <1>1, <1>6, <1>7, <1>8 DEF LifeInv

(* A sweep removes no root that a live process has.                        *)
LEMMA SweepKeeps ==
  ASSUME LifeInv, NEW p \in Processes, NEW t \in TempRoots, SweepRoot(p, t)
  PROVE  LifeInv'
<1> DEFINE new == [procs[p] EXCEPT !.unswept = procs[p].unswept \ {t}]
<1>1. procs[p] \in ProcStates /\ ProcInv(procs[p])
  BY DEF LifeInv
<1>2. /\ new \in ProcStates /\ ProcInv(new) /\ new.pid = procs[p].pid
      /\ new.tracked = procs[p].tracked /\ new.marking = procs[p].marking
      /\ new.at = procs[p].at
  BY <1>1 DEF ProcStates, ProcInv, Alive
<1>3. Alive(procs[p]) /\ procs' = [procs EXCEPT ![p] = new]
  BY DEF SweepRoot, Alive
<1> HIDE DEF new
<1>4. CASE tempdir' = tempdir
  BY <1>2, <1>3, <1>4, QuietStepKeeps
<1>5. CASE tempdir[t].there /\ StaleRoot(t) /\ Removal({t})
  <2>1. \A q \in Processes : t \in procs[q].tracked => ~Alive(procs[q])
    <3>1. SUFFICES ASSUME NEW q \in Processes, t \in procs[q].tracked,
                          Alive(procs[q])
                   PROVE  FALSE
      OBVIOUS
    <3>2. IF t \in procs[q].marking
          THEN tempdir[t].pid = NoPid /\ ~tempdir[t].old
          ELSE tempdir[t].pid = procs[q].pid
      BY <3>1 DEF LifeInv, RootsOwned
    <3>3. procs[q].pid \in Pids
      BY <3>1 DEF LifeInv, ProcInv
    <3> QED BY <1>5, <3>1, <3>2, <3>3, LifetimeAssumption
            DEF StaleRoot, Live, Alive
  <2>2. tempdir[t].used /\ tempdir \in [TempRoots -> DirStates]
    BY <1>5 DEF LifeInv, RootsOwned
  <2>3. /\ tempdir' \in [TempRoots -> DirStates]
        /\ \A u \in TempRoots \ {t} : tempdir'[u] = tempdir[u]
        /\ \A u \in {t} : /\ tempdir'[u].used
                          /\ tempdir'[u].there => tempdir'[u].stuck
    BY <1>5, <2>2, RemovalEffect
  <2>4. \A q \in Processes : procs'[q] = IF q = p THEN new ELSE procs[q]
    BY <1>3 DEF LifeInv
  <2>5. \A q \in Processes :
          /\ procs'[q].tracked = procs[q].tracked
          /\ procs'[q].marking = procs[q].marking
          /\ procs'[q].pid = procs[q].pid /\ procs'[q].at = procs[q].at
          /\ ProcInv(procs'[q])
    BY <1>2, <2>4 DEF LifeInv
  <2>6. \A q \in Processes : procs[q].tracked \in SUBSET TempRoots
    BY DEF LifeInv, ProcStates
  <2>7. OwnersUnique'
    BY <2>5 DEF LifeInv, OwnersUnique, Alive
  <2>8. RootsOwned'
    BY <2>1, <2>3, <2>5, <2>6 DEF LifeInv, RootsOwned, Alive
  <2>9. procs' \in [Processes -> ProcStates]
    BY <1>2, <1>3 DEF LifeInv
  <2> QED BY <2>3, <2>5, <2>7, <2>8, <2>9 DEF LifeInv
<1> QED BY <1>4, <1>5 DEF SweepRoot

(* A new root has a name nobody has used, and is young and unmarked.       *)
LEMMA MakeKeeps ==
  ASSUME LifeInv, NEW p \in Processes, NEW t \in TempRoots, MakeRoot(p, t)
  PROVE  LifeInv'
<1> DEFINE new == [procs[p] EXCEPT !.tracked = procs[p].tracked \union {t},
                                   !.hooked = TRUE, !.marking = {t}]
<1>1. procs[p] \in ProcStates /\ ProcInv(procs[p])
  BY DEF LifeInv
<1>2. Alive(procs[p]) /\ procs[p].marking = {} /\ procs[p].at # "exited"
  BY DEF MakeRoot, Free, Alive
<1>3. /\ new \in ProcStates /\ ProcInv(new) /\ new.pid = procs[p].pid
      /\ new.tracked = procs[p].tracked \union {t} /\ new.marking = {t}
      /\ new.at = procs[p].at
  BY <1>1, <1>2 DEF ProcStates, ProcInv, Alive
<1>4. /\ procs' = [procs EXCEPT ![p] = new] /\ ~tempdir[t].used
      /\ tempdir' = [tempdir EXCEPT ![t] = Made]
  BY DEF MakeRoot
<1>5. Made \in DirStates /\ Made.there /\ Made.used /\ Made.pid = NoPid /\ ~Made.old
  BY DEF Made, Unmade, DirStates
<1> HIDE DEF new
<1>6. \A q \in Processes : procs'[q] = IF q = p THEN new ELSE procs[q]
  BY <1>4 DEF LifeInv
<1>7. \A u \in TempRoots : tempdir'[u] = IF u = t THEN Made ELSE tempdir[u]
  BY <1>4 DEF LifeInv
<1>8. \A q \in Processes : /\ t \notin procs[q].tracked
                           /\ procs[q].tracked \in SUBSET TempRoots
  BY <1>4 DEF LifeInv, RootsOwned, ProcStates
<1>9. OwnersUnique'
  BY <1>2, <1>3, <1>6, <1>8 DEF LifeInv, OwnersUnique, Alive
<1>10. \A q \in Processes : \A u \in procs'[q].tracked :
       /\ tempdir'[u].used
       /\ Alive(procs'[q]) =>
            /\ tempdir'[u].there
            /\ IF u \in procs'[q].marking
               THEN tempdir'[u].pid = NoPid /\ ~tempdir'[u].old
               ELSE tempdir'[u].pid = procs'[q].pid
  <2> TAKE q \in Processes
  <2> TAKE u \in procs'[q].tracked
  <2>1. CASE u = t
    <3>1. q = p
      BY <1>6, <1>8, <2>1
    <3> QED BY <1>3, <1>5, <1>6, <1>7, <2>1, <3>1
  <2>2. CASE u # t
    <3>1. u \in procs[q].tracked /\ tempdir'[u] = tempdir[u]
      BY <1>3, <1>6, <1>7, <1>8, <2>2
    <3>2. /\ procs'[q].pid = procs[q].pid /\ procs'[q].at = procs[q].at
          /\ u \in procs'[q].marking <=> u \in procs[q].marking
      BY <1>2, <1>3, <1>6, <2>2
    <3> QED BY <3>1, <3>2 DEF LifeInv, RootsOwned, Alive
  <2> QED BY <2>1, <2>2
<1>11. \A u \in TempRoots :
         /\ tempdir'[u].there => tempdir'[u].used
         /\ tempdir'[u].there /\ ~tempdir'[u].stuck =>
              \E q \in Processes : procs'[q].at # "exited" /\ u \in procs'[q].tracked
  <2> TAKE u \in TempRoots
  <2>1. CASE u = t
    BY <1>2, <1>3, <1>5, <1>6, <1>7, <2>1
  <2>2. CASE u # t
    <3>1. \A q \in Processes : u \in procs[q].tracked => u \in procs'[q].tracked
      BY <1>3, <1>6
    <3>2. \A q \in Processes : procs'[q].at = procs[q].at
      BY <1>3, <1>6
    <3> QED BY <1>7, <2>2, <3>1, <3>2 DEF LifeInv, RootsOwned
  <2> QED BY <2>1, <2>2
<1>12. procs' \in [Processes -> ProcStates] /\ tempdir' \in [TempRoots -> DirStates]
  BY <1>3, <1>4, <1>5 DEF LifeInv
<1>13. \A q \in Processes : ProcInv(procs'[q])
  BY <1>3, <1>6 DEF LifeInv
<1> QED BY <1>9, <1>10, <1>11, <1>12, <1>13 DEF LifeInv, RootsOwned

(* The marker gets the pid of its process, or the root is released.        *)
LEMMA MarkKeeps ==
  ASSUME LifeInv, NEW p \in Processes, NEW t \in TempRoots, MarkRoot(p, t)
  PROVE  LifeInv'
<1>1. procs[p] \in ProcStates /\ ProcInv(procs[p]) /\ Alive(procs[p])
  BY DEF LifeInv, MarkRoot, Live, Alive
<1>2. procs[p].marking = {t} /\ t \in procs[p].tracked /\ procs[p].pid \in Pids
  BY <1>1 DEF MarkRoot, ProcInv
<1>3. CASE /\ tempdir' = [tempdir EXCEPT ![t].pid = procs[p].pid]
           /\ procs' = [procs EXCEPT ![p].marking = {}]
  <2> DEFINE new == [procs[p] EXCEPT !.marking = {}]
             marked == [tempdir[t] EXCEPT !.pid = procs[p].pid]
  <2>1. /\ procs' = [procs EXCEPT ![p] = new]
        /\ tempdir' = [tempdir EXCEPT ![t] = marked]
    BY <1>3
  <2>2. /\ new \in ProcStates /\ ProcInv(new) /\ new.pid = procs[p].pid
        /\ new.tracked = procs[p].tracked /\ new.marking = {}
        /\ new.at = procs[p].at
    BY <1>1 DEF ProcStates, ProcInv, Alive
  <2>3. tempdir[t] \in DirStates
    BY DEF LifeInv
  <2>4. /\ marked \in DirStates /\ marked.there = tempdir[t].there
        /\ marked.used = tempdir[t].used /\ marked.stuck = tempdir[t].stuck
        /\ marked.pid = procs[p].pid
    BY <1>2, <2>3 DEF DirStates
  <2> HIDE DEF new, marked
  <2>5. \A q \in Processes : procs'[q] = IF q = p THEN new ELSE procs[q]
    BY <2>1 DEF LifeInv
  <2>6. \A u \in TempRoots : tempdir'[u] = IF u = t THEN marked ELSE tempdir[u]
    BY <2>1 DEF LifeInv
  <2>7. \A q \in Processes :
          /\ procs'[q].tracked = procs[q].tracked
          /\ procs'[q].pid = procs[q].pid /\ procs'[q].at = procs[q].at
          /\ q # p => procs'[q].marking = procs[q].marking
          /\ ProcInv(procs'[q])
    BY <2>2, <2>5 DEF LifeInv
  <2>8. OwnersUnique'
    BY <2>7 DEF LifeInv, OwnersUnique, Alive
  <2>9. \A q \in Processes : procs[q].tracked \in SUBSET TempRoots
    BY DEF LifeInv, ProcStates
  <2>10. \A q \in Processes : \A u \in procs'[q].tracked :
       /\ tempdir'[u].used
       /\ Alive(procs'[q]) =>
            /\ tempdir'[u].there
            /\ IF u \in procs'[q].marking
               THEN tempdir'[u].pid = NoPid /\ ~tempdir'[u].old
               ELSE tempdir'[u].pid = procs'[q].pid
    <3> TAKE q \in Processes
    <3> TAKE u \in procs'[q].tracked
    <3>1. u \in procs[q].tracked /\ u \in TempRoots
      BY <2>7, <2>9
    <3>2. CASE u = t
      <4>1. q = p
        BY <1>2, <3>1, <3>2 DEF LifeInv, OwnersUnique
      <4> QED BY <1>1, <2>2, <2>4, <2>5, <2>6, <3>1, <3>2, <4>1
              DEF LifeInv, RootsOwned
    <3>3. CASE u # t /\ q = p
      <4>1. u \notin procs[q].marking /\ u \notin procs'[q].marking
        BY <1>2, <2>2, <2>5, <3>3
      <4> QED BY <2>6, <2>7, <3>1, <3>3, <4>1 DEF LifeInv, RootsOwned, Alive
    <3>4. CASE u # t /\ q # p
      BY <2>6, <2>7, <3>1, <3>4 DEF LifeInv, RootsOwned, Alive
    <3> QED BY <3>2, <3>3, <3>4
  <2>11. \A u \in TempRoots :
         /\ tempdir'[u].there => tempdir'[u].used
         /\ tempdir'[u].there /\ ~tempdir'[u].stuck =>
              \E q \in Processes : procs'[q].at # "exited" /\ u \in procs'[q].tracked
    BY <2>4, <2>6, <2>7 DEF LifeInv, RootsOwned
  <2>12. procs' \in [Processes -> ProcStates] /\ tempdir' \in [TempRoots -> DirStates]
    BY <2>1, <2>2, <2>4 DEF LifeInv
  <2> QED BY <2>7, <2>8, <2>10, <2>11, <2>12 DEF LifeInv, RootsOwned
<1>4. CASE /\ Removal({t})
           /\ procs' = [procs EXCEPT ![p].marking = {},
                                     ![p].tracked = procs[p].tracked \ {t}]
  <2> DEFINE new == [procs[p] EXCEPT !.marking = {},
                                     !.tracked = procs[p].tracked \ {t}]
  <2>1. procs' = [procs EXCEPT ![p] = new]
    BY <1>4
  <2>2. /\ new \in ProcStates /\ ProcInv(new) /\ new.pid = procs[p].pid
        /\ new.tracked = procs[p].tracked \ {t}
        /\ new.marking = procs[p].marking \ {t}
    BY <1>1, <1>2 DEF ProcStates, ProcInv, Alive
  <2>3. {t} \in SUBSET procs[p].tracked
    BY <1>2
  <2> HIDE DEF new
  <2> QED BY <1>1, <1>4, <2>1, <2>2, <2>3, ReleaseKeeps
<1> QED BY <1>3, <1>4 DEF MarkRoot

(* A root that its process is about to mark does not become old.           *)
LEMMA AgeKeeps ==
  ASSUME LifeInv, NEW t \in TempRoots, RootAges(t)
  PROVE  LifeInv'
<1> DEFINE aged == [tempdir[t] EXCEPT !.old = TRUE]
<1>1. tempdir' = [tempdir EXCEPT ![t] = aged] /\ procs' = procs
  BY DEF RootAges
<1>2. tempdir[t] \in DirStates
  BY DEF LifeInv
<1>3. /\ aged \in DirStates /\ aged.there = tempdir[t].there
      /\ aged.used = tempdir[t].used /\ aged.stuck = tempdir[t].stuck
      /\ aged.pid = tempdir[t].pid
  BY <1>2 DEF DirStates
<1> HIDE DEF aged
<1>4. \A u \in TempRoots : tempdir'[u] = IF u = t THEN aged ELSE tempdir[u]
  BY <1>1 DEF LifeInv
<1>5. \A q \in Processes : Alive(procs[q]) => t \notin procs[q].marking
  BY DEF RootAges, Live, Alive
<1>6. \A q \in Processes : procs[q].tracked \in SUBSET TempRoots
  BY DEF LifeInv, ProcStates
<1>7. RootsOwned'
  BY <1>1, <1>3, <1>4, <1>5, <1>6 DEF LifeInv, RootsOwned
<1>8. tempdir' \in [TempRoots -> DirStates]
  BY <1>1, <1>3 DEF LifeInv
<1> QED BY <1>1, <1>7, <1>8 DEF LifeInv, OwnersUnique

(* Every step of every process keeps the invariant.                        *)
LEMMA LifeInvHolds == LifeSpec => []LifeInv
<1>1. ASSUME LifeInv, LifeNext PROVE LifeInv'
  BY <1>1, StartKeeps, SweepKeeps, QuietSteps, ReleasingSteps, MakeKeeps,
     MarkKeeps, AgeKeeps DEF LifeNext, RootMarked, UncaughtError
<1>2. LifeInv /\ UNCHANGED lifeVars => LifeInv'
  BY DEF lifeVars, LifeInv, OwnersUnique, RootsOwned
<1> QED BY LifeInitHolds, <1>1, <1>2, PTL DEF LifeSpec

(* The types of the processes and of the temp roots.                       *)
THEOREM LifeTypesKept == LifeSpec => []LifeTypeOK
<1>1. LifeInv => LifeTypeOK
  BY DEF LifeInv, LifeTypeOK, ProcStates, DirStates
<1> QED BY LifeInvHolds, <1>1, PTL

(* sweepStaleServiceRoots and the releases of owned-resources never remove *)
(* the root of a live process, whatever pids processes get.                *)
THEOREM LiveRootsHold == LifeSpec => []LiveRootsKept
<1>1. LifeInv => LiveRootsKept
  BY DEF LifeInv, OwnersUnique, RootsOwned, LiveRootsKept, Live, Alive
<1> QED BY LifeInvHolds, <1>1, PTL

(* A process that exits, but is not killed, has no child and no root left, *)
(* save those it could not remove.                                         *)
THEOREM ExitIsClean == LifeSpec => []ExitLeavesNothing
<1>1. LifeInv => ExitLeavesNothing
  BY DEF LifeInv, ProcInv, RootsOwned, ExitLeavesNothing
<1> QED BY LifeInvHolds, <1>1, PTL

=============================================================================
