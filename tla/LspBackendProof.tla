-------------------------- MODULE LspBackendProof --------------------------
(* Proofs about LspBackend, for any number of clients, processes, queries  *)
(* and restart delays.                                                     *)
EXTENDS LspBackend, TLAPS

ProcState ==
  [client : Clients \cup {0}, epoch : Nat,
   life : {"none", "live", "killed", "gone"}]

(* Operations wait for, and processes belong to, clients that were created. *)
Made == 1..backend.created
WaitsKnown ==
  /\ \A o \in Ops : wait[o].status # "idle" => wait[o].client \in Made
  /\ \A c \in Clients : wait[c].status # "idle" => wait[c].client = c
  /\ wait[Closer].status # "idle" => backend.disposed /\ backend.client # 0
ProcsKnown ==
  \A p \in Procs : proc[p].life # "none" => proc[p].client \in Made
BackendKnown ==
  /\ backend.client \in Made \cup {0} /\ backend.inner \in Made \cup {0}
  /\ closing \in {"asking", "exiting"} => backend.disposed /\ backend.client # 0

(* A client that was not created has done nothing.                         *)
Unmade ==
  \A c \in Clients \ Made :
    lsp[c].timers = 0 /\ lsp[c].proc = 0 /\ ~lsp[c].stopping /\ ~lsp[c].stopped
StoppingInv == \A c \in Clients : lsp[c].stopping => backend.disposed

TypeInv ==
  /\ TypeOK
  /\ WaitsKnown /\ ProcsKnown /\ BackendKnown /\ Unmade /\ StoppingInv

-----------------------------------------------------------------------------
(* What the handlers are built from.                                       *)

(* Rejecting the requests of a client changes nothing but their status.    *)
LEMMA RejectEffect ==
  ASSUME NEW W \in [Ops -> Waiting], NEW c \in Clients
  PROVE  /\ RejectInflight(W, c) \in [Ops -> Waiting]
         /\ \A o \in Ops :
              /\ RejectInflight(W, c)[o].client = W[o].client
              /\ RejectInflight(W, c)[o].epoch = W[o].epoch
              /\ RejectInflight(W, c)[o].proc = W[o].proc
              /\ RejectInflight(W, c)[o].status =
                   IF W[o].client = c /\ W[o].status \in Unsettled
                   THEN "rejected" ELSE W[o].status
BY DEF RejectInflight, Waiting, Unsettled

(* Killing a process changes nothing but its life.                         *)
LEMMA KillEffect ==
  ASSUME NEW P \in [Procs -> ProcState], NEW p
  PROVE  /\ Kill(P, p) \in [Procs -> ProcState]
         /\ \A r \in Procs :
              /\ Kill(P, p)[r].client = P[r].client
              /\ Kill(P, p)[r].epoch = P[r].epoch
              /\ Kill(P, p)[r].life = IF r = p /\ P[r].life = "live"
                                     THEN "killed" ELSE P[r].life
BY DEF Kill, ProcState

(* A crash leaves a client failed with one more timer, or unavailable.     *)
LEMMA CrashEffect ==
  ASSUME NEW l \in LspState, l.state = "failed"
  PROVE  /\ RecordCrash(l) \in LspState
         /\ RecordCrash(l).epoch = l.epoch /\ RecordCrash(l).proc = l.proc
         /\ RecordCrash(l).stopping = l.stopping
         /\ RecordCrash(l).stopped = l.stopped
         /\ \/ RecordCrash(l).state = "failed"
               /\ RecordCrash(l).timers = l.timers + 1
            \/ RecordCrash(l).state = "unavailable"
               /\ RecordCrash(l).timers = l.timers
<1>1. CASE l.crashes >= RestartDelays
  <2>1. RecordCrash(l) =
          [l EXCEPT !.state = "unavailable", !.crashes = RestartDelays + 1]
    BY <1>1 DEF RecordCrash
  <2>2. RestartDelays + 1 \in 0..(RestartDelays + 1)
    BY LspAssumption
  <2>. QED
    BY <2>1, <2>2 DEF LspState
<1>2. CASE ~(l.crashes >= RestartDelays)
  <2>1. RecordCrash(l) =
          [l EXCEPT !.crashes = l.crashes + 1, !.timers = l.timers + 1]
    BY <1>2 DEF RecordCrash
  <2>2. l.crashes + 1 \in 0..(RestartDelays + 1) /\ l.timers + 1 \in Nat
    BY <1>2, LspAssumption DEF LspState
  <2>. QED
    BY <2>1, <2>2 DEF LspState
<1>. QED
  BY <1>1, <1>2

(* How a client looks after it may have failed: M, V and Q for lsp', wait'  *)
(* and proc'.  Nothing happened, or it is down, its requests were rejected *)
(* and its process was killed.                                             *)
Failing(c, e, restart, L, W, P, M, V, Q) ==
  /\ L[c].epoch = e /\ L[c].state \notin Down
  /\ M[c].state \in Down
  /\ \/ M[c].timers = L[c].timers
     \/ restart /\ M[c].timers = L[c].timers + 1 /\ M[c].state = "failed"
  /\ M[c].state = "unavailable" => restart
  /\ \A o \in Ops : V[o].status =
       IF W[o].client = c /\ W[o].status \in Unsettled
       THEN "rejected" ELSE W[o].status
  /\ \A p \in Procs : Q[p].life =
       IF p = L[c].proc /\ P[p].life = "live" THEN "killed" ELSE P[p].life
NotFailing(c, e, L, W, P, M, V, Q) ==
  /\ L[c].epoch # e \/ L[c].state \in Down
  /\ M = L /\ V = W /\ Q = P

(* A failure either takes its client down or does nothing at all.          *)
LEMMA FailEffect ==
  ASSUME NEW L \in [Clients -> LspState], NEW W \in [Ops -> Waiting],
         NEW P \in [Procs -> ProcState], NEW c \in Clients, NEW e \in Nat,
         NEW restart \in BOOLEAN, Fail(c, e, restart, L, W, P)
  PROVE  /\ lsp' \in [Clients -> LspState] /\ wait' \in [Ops -> Waiting]
         /\ proc' \in [Procs -> ProcState]
         /\ \A d \in Clients \ {c} : lsp'[d] = L[d]
         /\ lsp'[c].epoch = L[c].epoch /\ lsp'[c].proc = L[c].proc
         /\ lsp'[c].stopping = L[c].stopping /\ lsp'[c].stopped = L[c].stopped
         /\ \A o \in Ops : wait'[o].client = W[o].client
              /\ wait'[o].epoch = W[o].epoch /\ wait'[o].proc = W[o].proc
         /\ \A p \in Procs :
              proc'[p].client = P[p].client /\ proc'[p].epoch = P[p].epoch
         /\ \/ Failing(c, e, restart, L, W, P, lsp', wait', proc')
            \/ NotFailing(c, e, L, W, P, lsp', wait', proc')
<1>1. CASE ~(L[c].epoch = e /\ L[c].state \notin Down)
  BY <1>1 DEF Fail, NotFailing
<1>2. CASE L[c].epoch = e /\ L[c].state \notin Down
  <2> DEFINE down == [L[c] EXCEPT !.state = "failed"]
  <2>1. /\ down \in LspState /\ down.state = "failed"
        /\ down.epoch = L[c].epoch /\ down.proc = L[c].proc
        /\ down.stopping = L[c].stopping /\ down.stopped = L[c].stopped
        /\ down.timers = L[c].timers
    BY DEF LspState
  <2>2. /\ lsp' = [L EXCEPT ![c] = IF restart THEN RecordCrash(down) ELSE down]
        /\ wait' = RejectInflight(W, c) /\ proc' = Kill(P, L[c].proc)
    BY <1>2 DEF Fail
  <2> HIDE DEF down
  <2>3. /\ lsp' \in [Clients -> LspState]
        /\ \A d \in Clients \ {c} : lsp'[d] = L[d]
        /\ lsp'[c] = IF restart THEN RecordCrash(down) ELSE down
    BY <2>1, <2>2, CrashEffect
  <2>4. /\ lsp'[c].epoch = L[c].epoch /\ lsp'[c].proc = L[c].proc
        /\ lsp'[c].stopping = L[c].stopping /\ lsp'[c].stopped = L[c].stopped
        /\ lsp'[c].state \in Down
        /\ lsp'[c].state = "unavailable" => restart
        /\ \/ lsp'[c].timers = L[c].timers
           \/ /\ restart /\ lsp'[c].timers = L[c].timers + 1
              /\ lsp'[c].state = "failed"
    BY <2>1, <2>3, CrashEffect DEF Down
  <2>. QED
    BY <1>2, <2>2, <2>3, <2>4, RejectEffect, KillEffect DEF Failing
<1>. QED
  BY <1>1, <1>2

(* Sending changes the entry of one operation.                             *)
LEMMA SendEffect ==
  ASSUME NEW W \in [Ops -> Waiting], NEW L \in [Clients -> LspState],
         NEW o \in Ops, NEW c \in Clients
  PROVE  /\ Send(W, L, o, c) \in [Ops -> Waiting]
         /\ \A x \in Ops \ {o} : Send(W, L, o, c)[x] = W[x]
         /\ Send(W, L, o, c)[o].status = "pending"
         /\ Send(W, L, o, c)[o].client = c
         /\ Send(W, L, o, c)[o].epoch = L[c].epoch
         /\ Send(W, L, o, c)[o].proc = L[c].proc
<1>1. [status |-> "pending", client |-> c, epoch |-> L[c].epoch,
       proc |-> L[c].proc] \in Waiting
  BY DEF Waiting, LspState
<1>. QED
  BY <1>1 DEF Send

(* A client that is not stopping takes a process nobody had and asks it to *)
(* initialize.  M, V and Q stand for lsp', wait' and proc'.                *)
Spawned(c, p, L, W, M, V, Q) ==
  /\ proc[p].life = "none"
  /\ Q[p].client = c /\ Q[p].epoch = L[c].epoch + 1 /\ Q[p].life = "live"
  /\ \A r \in Procs \ {p} : Q[r] = proc[r]
  /\ M[c].epoch = L[c].epoch + 1 /\ M[c].state = "initializing"
  /\ ~M[c].stopping /\ ~M[c].stopped /\ M[c].proc = p
  /\ M[c].timers = L[c].timers
  /\ \A d \in Clients \ {c} : M[d] = L[d]
  /\ V[c].status = "pending" /\ V[c].client = c
  /\ V[c].epoch = L[c].epoch + 1
  /\ \A o \in Ops \ {c} : V[o] = W[o]

(* beginStart counts the epoch and clears the flags, not the timers.       *)
LEMMA BegunEffect ==
  ASSUME NEW l \in LspState, NEW p \in Procs
  PROVE  /\ Begun(l, p) \in LspState
         /\ Begun(l, p).epoch = l.epoch + 1
         /\ Begun(l, p).state = "initializing"
         /\ ~Begun(l, p).stopping /\ ~Begun(l, p).stopped
         /\ Begun(l, p).proc = p /\ Begun(l, p).timers = l.timers
<1>1. l.epoch + 1 \in Nat
  BY DEF LspState
<1>. QED
  BY <1>1 DEF Begun, LspState

(* Spawning for a client that is not stopping is Spawned.                  *)
LEMMA SpawnEffect ==
  ASSUME proc \in [Procs -> ProcState],
         NEW L \in [Clients -> LspState], NEW W \in [Ops -> Waiting],
         NEW c \in Clients, ~L[c].stopping, Spawn(c, L, W)
  PROVE  /\ lsp' \in [Clients -> LspState] /\ wait' \in [Ops -> Waiting]
         /\ proc' \in [Procs -> ProcState]
         /\ \E p \in Procs : Spawned(c, p, L, W, lsp', wait', proc')
<1> DEFINE begun(p) == [L EXCEPT ![c] = Begun(@, p)]
<1>1. PICK p \in Procs :
        /\ proc[p].life = "none"
        /\ proc' = [proc EXCEPT ![p] =
             [client |-> c, epoch |-> begun(p)[c].epoch, life |-> "live"]]
        /\ lsp' = begun(p)
        /\ wait' = Send(W, begun(p), c, c)
  BY DEF Spawn, Unborn
<1>2. /\ begun(p) \in [Clients -> LspState]
      /\ begun(p)[c].epoch = L[c].epoch + 1 /\ begun(p)[c].state = "initializing"
      /\ ~begun(p)[c].stopping /\ ~begun(p)[c].stopped /\ begun(p)[c].proc = p
      /\ begun(p)[c].timers = L[c].timers
      /\ \A d \in Clients \ {c} : begun(p)[d] = L[d]
  BY BegunEffect
<1> HIDE DEF begun
<1>3. c \in Ops
  BY DEF Ops
<1>4. [client |-> c, epoch |-> begun(p)[c].epoch, life |-> "live"] \in ProcState
  BY <1>2 DEF ProcState, LspState
<1>5. proc' \in [Procs -> ProcState] /\ wait' \in [Ops -> Waiting]
  BY <1>1, <1>2, <1>3, <1>4, SendEffect
<1>6. Spawned(c, p, L, W, lsp', wait', proc')
  BY <1>1, <1>2, <1>3, SendEffect DEF Spawned
<1>. QED
  BY <1>1, <1>2, <1>5, <1>6

(* Invalidating a client counts its epoch and stops it.                    *)
LEMMA InvalidatedEffect ==
  ASSUME NEW l \in LspState
  PROVE  LET i == [Invalidated(l) EXCEPT !.timers = 0] IN
         /\ i \in LspState
         /\ i.epoch = l.epoch + 1 /\ i.stopping /\ i.stopped
         /\ i.timers = 0 /\ i.proc = l.proc /\ i.state = l.state
<1>0. l.epoch + 1 \in Nat
  BY DEF LspState
<1>1. /\ Invalidated(l) \in LspState
      /\ Invalidated(l).epoch = l.epoch + 1
      /\ Invalidated(l).stopping /\ Invalidated(l).stopped
      /\ Invalidated(l).proc = l.proc /\ Invalidated(l).state = l.state
  BY <1>0 DEF Invalidated, LspState
<1>2. ASSUME NEW i \in LspState
      PROVE  /\ [i EXCEPT !.timers = 0] \in LspState
             /\ [i EXCEPT !.timers = 0].epoch = i.epoch
             /\ [i EXCEPT !.timers = 0].stopping = i.stopping
             /\ [i EXCEPT !.timers = 0].stopped = i.stopped
             /\ [i EXCEPT !.timers = 0].timers = 0
             /\ [i EXCEPT !.timers = 0].proc = i.proc
             /\ [i EXCEPT !.timers = 0].state = i.state
  BY DEF LspState
<1>. QED
  BY <1>1, <1>2

(* Terminating stops the client in a new epoch and disarms its timers.     *)
LEMMA TerminateEffect ==
  ASSUME NEW L \in [Clients -> LspState], NEW W \in [Ops -> Waiting],
         proc \in [Procs -> ProcState], NEW c \in Clients,
         TerminateNow(c, L, W)
  PROVE  /\ lsp' \in [Clients -> LspState] /\ wait' \in [Ops -> Waiting]
         /\ proc' \in [Procs -> ProcState]
         /\ \A d \in Clients \ {c} : lsp'[d] = L[d]
         /\ lsp'[c].epoch = L[c].epoch + 1 /\ lsp'[c].timers = 0
         /\ lsp'[c].stopping /\ lsp'[c].stopped
         /\ lsp'[c].proc = L[c].proc /\ lsp'[c].state = L[c].state
         /\ wait' = RejectInflight(W, c) /\ proc' = Kill(proc, L[c].proc)
<1>1. /\ lsp' = [L EXCEPT ![c] = [Invalidated(L[c]) EXCEPT !.timers = 0]]
      /\ wait' = RejectInflight(W, c) /\ proc' = Kill(proc, L[c].proc)
  BY DEF TerminateNow
<1>2. [Invalidated(L[c]) EXCEPT !.timers = 0] \in LspState
  BY InvalidatedEffect
<1>. QED
  BY <1>1, <1>2, InvalidatedEffect, RejectEffect, KillEffect

(* What a handler has done to the clients, the requests and the processes  *)
(* before it ends or fails: flags were set, requests ended, a process is   *)
(* gone.                                                                   *)
Kept(L, W, P) ==
  /\ L \in [Clients -> LspState] /\ W \in [Ops -> Waiting]
  /\ P \in [Procs -> ProcState]
  /\ \A d \in Clients :
       /\ L[d].stopping => lsp[d].stopping
       /\ L[d].stopped => d \in Made
       /\ L[d].epoch = lsp[d].epoch /\ L[d].proc = lsp[d].proc
       /\ L[d].timers <= lsp[d].timers
  /\ \A o \in Ops : W[o].status # "idle" =>
       /\ wait[o].status # "idle" /\ W[o].client = wait[o].client
       /\ W[o].epoch = wait[o].epoch /\ W[o].proc = wait[o].proc
  /\ \A p \in Procs :
       /\ P[p].client = proc[p].client /\ P[p].epoch = proc[p].epoch
       /\ P[p].life = "none" <=> proc[p].life = "none"

-----------------------------------------------------------------------------
(* Types.                                                                  *)

BackendState ==
  [client : Clients \cup {0}, created : Clients \cup {0},
   inner : Clients \cup {0}, started : {"none", "running", "done"},
   state : {"initializing", "ready", "failed", "unavailable", "refreshing"},
   disposed : BOOLEAN, refreshRequired : BOOLEAN]

(* The part of the types that the clients, requests and processes have.    *)
ClientTypes ==
  /\ lsp \in [Clients -> LspState] /\ wait \in [Ops -> Waiting]
  /\ proc \in [Procs -> ProcState]
  /\ WaitsKnown /\ ProcsKnown /\ Unmade /\ StoppingInv
OtherTypes ==
  /\ backend \in BackendState
  /\ query \in [Queries -> {"idle", "starting", "first", "retry"}]
  /\ closing \in {"open", "asking", "exiting", "exited", "closed"}
  /\ chunk \in Procs \cup {0} /\ refreshes \in Nat
  /\ BackendKnown

(* Queries, initialize requests and the shutdown are different callers.    *)
LEMMA Operations ==
  /\ Closer \in Ops /\ Clients \subseteq Ops /\ Queries \subseteq Ops
  /\ Closer \notin Clients /\ Closer \notin Queries
  /\ \A q \in Queries : q \notin Clients
BY LspAssumption DEF Ops

(* The type invariant falls into two parts.                                *)
LEMMA TypeParts == TypeInv <=> ClientTypes /\ OtherTypes
BY DEF TypeInv, TypeOK, ClientTypes, OtherTypes, ProcState, BackendState

(* The same in the next state.                                             *)
LEMMA TypePartsNext == TypeInv' <=> ClientTypes' /\ OtherTypes'
BY DEF TypeInv, TypeOK, ClientTypes, OtherTypes, ProcState, BackendState,
       LspState, Waiting, WaitsKnown, ProcsKnown, BackendKnown, Unmade,
       StoppingInv, Made

(* A handler that ends there keeps the types of the clients.               *)
LEMMA KeptTypes ==
  ASSUME ClientTypes, Kept(lsp', wait', proc'),
         backend'.created = backend.created,
         backend.disposed =>
           backend'.disposed /\ backend'.client = backend.client
  PROVE  ClientTypes'
<1>1. WaitsKnown' /\ ProcsKnown'
  BY DEF ClientTypes, Kept, WaitsKnown, ProcsKnown, Made, Ops
<1>2. Unmade'
  BY DEF ClientTypes, Kept, Unmade, Made, LspState
<1>3. StoppingInv'
  BY DEF ClientTypes, Kept, StoppingInv
<1>. QED
  BY <1>1, <1>2, <1>3 DEF ClientTypes, Kept, LspState, Waiting, ProcState

(* So does one that fails its client.                                      *)
LEMMA FailTypes ==
  ASSUME ClientTypes, NEW L, NEW W, NEW P, Kept(L, W, P),
         NEW c \in Clients, c \in Made, NEW e \in Nat, NEW restart \in BOOLEAN,
         Fail(c, e, restart, L, W, P),
         backend'.created = backend.created,
         backend.disposed =>
           backend'.disposed /\ backend'.client = backend.client
  PROVE  ClientTypes'
<1>1. /\ L \in [Clients -> LspState] /\ W \in [Ops -> Waiting]
      /\ P \in [Procs -> ProcState]
  BY DEF Kept
<1>2. /\ lsp' \in [Clients -> LspState] /\ wait' \in [Ops -> Waiting]
      /\ proc' \in [Procs -> ProcState]
      /\ \A d \in Clients \ {c} : lsp'[d] = L[d]
      /\ lsp'[c].epoch = L[c].epoch /\ lsp'[c].proc = L[c].proc
      /\ lsp'[c].stopping = L[c].stopping /\ lsp'[c].stopped = L[c].stopped
      /\ \A o \in Ops : wait'[o].client = W[o].client
           /\ wait'[o].epoch = W[o].epoch /\ wait'[o].proc = W[o].proc
      /\ \A p \in Procs :
           proc'[p].client = P[p].client /\ proc'[p].epoch = P[p].epoch
  BY <1>1, FailEffect
<1>3. /\ \A o \in Ops : wait'[o].status = "idle" <=> W[o].status = "idle"
      /\ \A p \in Procs : proc'[p].life = "none" <=> P[p].life = "none"
  <2>1. CASE Failing(c, e, restart, L, W, P, lsp', wait', proc')
    BY <2>1 DEF Failing, Unsettled
  <2>2. CASE NotFailing(c, e, L, W, P, lsp', wait', proc')
    BY <2>2 DEF NotFailing
  <2>. QED
    BY <1>1, <2>1, <2>2, FailEffect
<1>4. WaitsKnown'
  BY <1>2, <1>3, Operations DEF ClientTypes, Kept, WaitsKnown, Made
<1>5. ProcsKnown'
  BY <1>2, <1>3 DEF ClientTypes, Kept, ProcsKnown, Made
<1>6. Unmade'
  BY <1>2 DEF ClientTypes, Kept, Unmade, Made, LspState
<1>7. StoppingInv'
  BY <1>2 DEF ClientTypes, Kept, StoppingInv
<1>. QED
  BY <1>2, <1>4, <1>5, <1>6, <1>7
  DEF ClientTypes, LspState, Waiting, ProcState

(* So does one that terminates its client, once disposed.                  *)
LEMMA TerminateTypes ==
  ASSUME ClientTypes, NEW W, Kept(lsp, W, proc),
         NEW c \in Clients, c \in Made, TerminateNow(c, lsp, W),
         backend'.created = backend.created, backend'.disposed,
         backend'.client # 0
  PROVE  ClientTypes'
<1>1. lsp \in [Clients -> LspState] /\ W \in [Ops -> Waiting]
      /\ proc \in [Procs -> ProcState]
  BY DEF Kept
<1>2. /\ lsp' \in [Clients -> LspState] /\ wait' \in [Ops -> Waiting]
      /\ proc' \in [Procs -> ProcState]
      /\ \A d \in Clients \ {c} : lsp'[d] = lsp[d]
      /\ wait' = RejectInflight(W, c) /\ proc' = Kill(proc, lsp[c].proc)
  BY <1>1, TerminateEffect
<1>3. \A o \in Ops :
        /\ wait'[o].client = W[o].client
        /\ wait'[o].status = "idle" <=> W[o].status = "idle"
  <2>1. \A o \in Ops :
          /\ wait'[o].client = W[o].client
          /\ wait'[o].status = IF W[o].client = c /\ W[o].status \in Unsettled
                               THEN "rejected" ELSE W[o].status
    BY <1>1, <1>2, RejectEffect
  <2>. QED
    BY <2>1 DEF Unsettled
<1>4. \A p \in Procs :
        /\ proc'[p].client = proc[p].client
        /\ proc'[p].life = "none" <=> proc[p].life = "none"
  BY <1>1, <1>2, KillEffect
<1>5. WaitsKnown' /\ ProcsKnown'
  BY <1>3, <1>4 DEF ClientTypes, Kept, WaitsKnown, ProcsKnown, Made, Ops
<1>6. Unmade' /\ StoppingInv'
  BY <1>2 DEF ClientTypes, Unmade, StoppingInv, Made
<1>. QED
  BY <1>2, <1>5, <1>6 DEF ClientTypes, LspState, Waiting, ProcState

(* So does one that spawns a process for a client that was created.        *)
LEMMA SpawnTypes ==
  ASSUME ClientTypes, NEW L, NEW W, Kept(L, W, proc),
         NEW c \in Clients, ~L[c].stopping, Spawn(c, L, W),
         backend.created \in Nat, backend'.created \in Nat,
         backend.created <= backend'.created, c <= backend'.created,
         backend.disposed =>
           backend'.disposed /\ backend'.client = backend.client
  PROVE  ClientTypes'
<1>1. /\ L \in [Clients -> LspState] /\ W \in [Ops -> Waiting]
      /\ proc \in [Procs -> ProcState]
  BY DEF Kept
<1>2. /\ lsp' \in [Clients -> LspState] /\ wait' \in [Ops -> Waiting]
      /\ proc' \in [Procs -> ProcState]
  BY <1>1, SpawnEffect
<1>3. PICK p \in Procs : Spawned(c, p, L, W, lsp', wait', proc')
  BY <1>1, SpawnEffect
<1>4. c \in Made' /\ Made \subseteq Made'
  BY DEF Made, Clients
<1>5. WaitsKnown'
  BY <1>3, <1>4, Operations DEF ClientTypes, Kept, Spawned, WaitsKnown
<1>6. ProcsKnown'
  BY <1>3, <1>4 DEF ClientTypes, Spawned, ProcsKnown
<1>7. Unmade'
  BY <1>3, <1>4 DEF ClientTypes, Kept, Spawned, Unmade, LspState
<1>8. StoppingInv'
  BY <1>3 DEF ClientTypes, Kept, Spawned, StoppingInv
<1>. QED
  BY <1>2, <1>5, <1>6, <1>7, <1>8
  DEF ClientTypes, LspState, Waiting, ProcState

(* So does a query that is sent to a client that was created.              *)
LEMMA SendTypes ==
  ASSUME ClientTypes, NEW o \in Queries, NEW c \in Clients, c \in Made,
         wait' = Send(wait, lsp, o, c), Kept(lsp', wait, proc'),
         backend'.created = backend.created,
         backend.disposed =>
           backend'.disposed /\ backend'.client = backend.client
  PROVE  ClientTypes'
<1>1. /\ wait \in [Ops -> Waiting] /\ lsp \in [Clients -> LspState]
      /\ o \in Ops /\ o \notin Clients /\ o # Closer
  BY LspAssumption DEF ClientTypes, Ops
<1>2. /\ wait' \in [Ops -> Waiting]
      /\ \A x \in Ops \ {o} : wait'[x] = wait[x]
      /\ wait'[o].client = c
  BY <1>1, SendEffect
<1>3. WaitsKnown' /\ ProcsKnown'
  BY <1>1, <1>2 DEF ClientTypes, Kept, WaitsKnown, ProcsKnown, Made, Ops
<1>4. Unmade'
  BY DEF ClientTypes, Kept, Unmade, Made, LspState
<1>5. StoppingInv'
  BY DEF ClientTypes, Kept, StoppingInv
<1>. QED
  BY <1>2, <1>3, <1>4, <1>5 DEF ClientTypes, Kept, LspState, Waiting, ProcState

(* Nothing done keeps everything.                                          *)
LEMMA KeptAsIs == ClientTypes => Kept(lsp, wait, proc)
BY DEF ClientTypes, Kept, LspState, Unmade

(* The three of them can be looked at one by one.                          *)
LEMMA KeptParts ==
  ASSUME NEW L, NEW W, NEW P,
         Kept(L, wait, proc), Kept(lsp, W, proc), Kept(lsp, wait, P)
  PROVE  Kept(L, W, P)
BY DEF Kept

(* One client may be changed within the bounds of Kept.                    *)
LEMMA ClientKept ==
  ASSUME ClientTypes, NEW c \in Clients, NEW l \in LspState,
         l.stopping => lsp[c].stopping, l.stopped => c \in Made,
         l.epoch = lsp[c].epoch, l.proc = lsp[c].proc,
         l.timers <= lsp[c].timers
  PROVE  Kept([lsp EXCEPT ![c] = l], wait, proc)
BY KeptAsIs DEF Kept, ClientTypes

(* One process may be gone.                                                *)
LEMMA GoneKept ==
  ASSUME ClientTypes, NEW p \in Procs, proc[p].life # "none"
  PROVE  Kept(lsp, wait, [proc EXCEPT ![p].life = "gone"])
BY KeptAsIs DEF Kept, ClientTypes, ProcState

QueryStates == {"idle", "starting", "first", "retry"}

(* Refusing those who await a start leaves their types alone.              *)
LEMMA RefusedType ==
  ASSUME NEW Q \in [Queries -> QueryStates]
  PROVE  Refused(Q) \in [Queries -> QueryStates]
BY DEF Refused, QueryStates

(* A failed start is published without touching the client.                *)
LEMMA StartFailedType ==
  ASSUME NEW b \in BackendState, NEW code
  PROVE  /\ StartFailed(b, code) \in BackendState
         /\ StartFailed(b, code).created = b.created
         /\ StartFailed(b, code).client = b.client
         /\ StartFailed(b, code).inner = b.inner
         /\ StartFailed(b, code).disposed = b.disposed
<1>1. CASE code = "identity"
  BY <1>1 DEF StartFailed, BackendState
<1>2. CASE code # "identity"
  BY <1>2 DEF StartFailed, BackendState
<1>. QED
  BY <1>1, <1>2

(* A start, from the backend b its caller leaves behind.                   *)
LEMMA StartFreshTypes ==
  ASSUME ClientTypes, OtherTypes, NEW b \in BackendState,
         b.created = backend.created, ~b.disposed, ~backend.disposed,
         b.client \in Made \cup {0}, b.inner \in Made \cup {0},
         NEW Q \in [Queries -> QueryStates], StartFresh(b, Q),
         UNCHANGED <<closing, chunk>>, refreshes' \in Nat
  PROVE  TypeInv'
<1>1. \/ /\ \E code : backend' = StartFailed(b, code)
         /\ query' = Refused(Q) /\ UNCHANGED <<lsp, wait, proc>>
      \/ /\ b.created < ClientBound
         /\ LET made == [b EXCEPT !.created = @ + 1, !.client = b.created + 1] IN
            \/ /\ backend' = StartFailed(made, "other") /\ query' = Refused(Q)
               /\ UNCHANGED <<lsp, wait, proc>>
            \/ /\ backend' = [made EXCEPT !.started = "running"] /\ query' = Q
               /\ Spawn(made.client, lsp, wait)
  BY DEF StartFresh
<1>2. closing \notin {"asking", "exiting"}
  BY DEF OtherTypes, BackendKnown
<1>3. backend.created \in Nat
  BY DEF OtherTypes, BackendState, Clients
<1>4. CASE /\ \E code : backend' = StartFailed(b, code)
           /\ query' = Refused(Q) /\ UNCHANGED <<lsp, wait, proc>>
  <2>1. /\ backend' \in BackendState /\ backend'.created = backend.created
        /\ ~backend'.disposed
        /\ backend'.client = b.client /\ backend'.inner = b.inner
    BY <1>4, StartFailedType
  <2>2. ClientTypes'
    BY <1>4, <2>1, KeptAsIs, KeptTypes
  <2>3. OtherTypes'
    BY <1>2, <1>4, <2>1, RefusedType
    DEF OtherTypes, BackendKnown, Made, BackendState, QueryStates
  <2>. QED
    BY <2>2, <2>3, TypePartsNext
<1>5. CASE b.created < ClientBound
  <2> DEFINE made == [b EXCEPT !.created = @ + 1, !.client = b.created + 1]
  <2>0. b.created + 1 \in Clients /\ b.created + 1 \notin Made
    BY <1>3, <1>5, LspAssumption DEF Clients, Made
  <2>1. /\ made \in BackendState /\ made.created = backend.created + 1
        /\ made.client = backend.created + 1 /\ made.inner = b.inner
        /\ ~made.disposed
    BY <2>0 DEF BackendState
  <2> HIDE DEF made
  <2>2. CASE /\ backend' = StartFailed(made, "other") /\ query' = Refused(Q)
             /\ UNCHANGED <<lsp, wait, proc>>
    <3>1. /\ backend' \in BackendState
          /\ backend'.created = backend.created + 1
          /\ backend'.client = backend.created + 1
          /\ backend'.inner = b.inner /\ ~backend'.disposed
      BY <2>1, <2>2, StartFailedType
    <3>2. Made \subseteq Made' /\ backend'.client \in Made'
      BY <1>3, <3>1 DEF Made
    <3>3. ClientTypes'
      BY <2>2, <3>1, <3>2
      DEF ClientTypes, WaitsKnown, ProcsKnown, Unmade, StoppingInv,
          LspState, Waiting, ProcState
    <3>4. OtherTypes'
      BY <1>2, <2>2, <3>1, <3>2, RefusedType
      DEF OtherTypes, BackendKnown, BackendState, QueryStates
    <3>. QED
      BY <3>3, <3>4, TypePartsNext
  <2>3. CASE /\ backend' = [made EXCEPT !.started = "running"] /\ query' = Q
             /\ Spawn(made.client, lsp, wait)
    <3>1. /\ backend' \in BackendState
          /\ backend'.created = backend.created + 1
          /\ backend'.client = backend.created + 1
          /\ backend'.inner = b.inner /\ ~backend'.disposed
      BY <2>1, <2>3 DEF BackendState
    <3>2. Made \subseteq Made' /\ backend'.client \in Made'
      BY <1>3, <3>1 DEF Made
    <3>3. ~lsp[made.client].stopping /\ made.client \in Clients
      BY <2>0, <2>1 DEF ClientTypes, Unmade
    <3>4. backend'.created \in Nat /\ backend.created <= backend'.created
      BY <1>3, <3>1
    <3>5. ClientTypes'
      BY <1>3, <2>1, <2>3, <3>1, <3>3, <3>4, KeptAsIs, SpawnTypes
    <3>6. OtherTypes'
      BY <1>2, <2>3, <3>1, <3>2
      DEF OtherTypes, BackendKnown, BackendState, QueryStates
    <3>. QED
      BY <3>5, <3>6, TypePartsNext
  <2>4. \/ /\ backend' = StartFailed(made, "other") /\ query' = Refused(Q)
           /\ UNCHANGED <<lsp, wait, proc>>
        \/ /\ backend' = [made EXCEPT !.started = "running"] /\ query' = Q
           /\ Spawn(made.client, lsp, wait)
        \/ /\ \E code : backend' = StartFailed(b, code)
           /\ query' = Refused(Q) /\ UNCHANGED <<lsp, wait, proc>>
    BY <1>1 DEF made
  <2>. QED
    BY <1>4, <2>2, <2>3, <2>4
<1>. QED
  BY <1>1, <1>4, <1>5

(* The invariant holds initially.                                          *)
LEMMA TypeInit == Init => TypeInv
<1> SUFFICES ASSUME Init PROVE TypeInv
  OBVIOUS
<1> USE DEF Init
<1>1. backend \in BackendState
  BY DEF BackendState
<1>2. lsp \in [Clients -> LspState]
  <2>1. 0 \in 0..(RestartDelays + 1) /\ 0 \in 0..MaxTimeouts
    BY LspAssumption DEF MaxTimeouts
  <2>. QED
    BY <2>1 DEF LspState
<1>3. proc \in [Procs -> ProcState] /\ wait \in [Ops -> Waiting]
  BY DEF ProcState, Waiting, Resting
<1>4. ClientTypes
  BY <1>2, <1>3
  DEF ClientTypes, WaitsKnown, ProcsKnown, Unmade, StoppingInv, Resting, Ops
<1>5. OtherTypes
  BY <1>1 DEF OtherTypes, BackendKnown
<1>. QED
  BY <1>4, <1>5, TypeParts

(* Every step keeps it.                                                    *)
LEMMA TypeStep == TypeInv /\ [Next]_vars => TypeInv'
<1> SUFFICES ASSUME TypeInv, [Next]_vars PROVE TypeInv'
  OBVIOUS
<1>0. ClientTypes /\ OtherTypes
  BY TypeParts
<1>t. /\ lsp \in [Clients -> LspState] /\ wait \in [Ops -> Waiting]
      /\ proc \in [Procs -> ProcState] /\ backend \in BackendState
      /\ query \in [Queries -> QueryStates]
  BY <1>0 DEF ClientTypes, OtherTypes, QueryStates
<1>k. Kept(lsp, wait, proc)
  BY <1>0, KeptAsIs
<1>w. \A o \in Ops : wait[o].status # "idle" =>
        wait[o].client \in Clients /\ wait[o].client \in Made
  BY <1>0 DEF ClientTypes, WaitsKnown, Waiting, Made
<1>1. CASE Start
  BY <1>0, <1>1, <1>t, StartFreshTypes
  DEF Start, CanStart, OtherTypes, BackendKnown, BackendState
<1>2. ASSUME NEW q \in Queries, Query(q) PROVE TypeInv'
  <2> DEFINE Q == [query EXCEPT ![q] = "starting"]
  <2>1. Q \in [Queries -> QueryStates]
    BY <1>t DEF QueryStates
  <2>2. CASE ~CanStart \/ backend.started # "none"
    <3>1. /\ UNCHANGED <<backend, lsp, wait, proc, closing, chunk, refreshes>>
          /\ query' \in [Queries -> QueryStates]
      BY <1>2, <1>t, <2>1, <2>2 DEF Query
    <3>2. ClientTypes'
      BY <1>0, <1>k, <3>1, KeptTypes
    <3>. QED
      BY <1>0, <3>1, <3>2, TypePartsNext
      DEF OtherTypes, BackendKnown, Made, BackendState, QueryStates
  <2>3. CASE CanStart /\ backend.started = "none"
    BY <1>0, <1>2, <1>t, <2>1, <2>3, StartFreshTypes
    DEF Query, CanStart, OtherTypes, BackendKnown
  <2>. QED
    BY <2>2, <2>3
<1>3. CASE RefreshRuntime
  <2>1. refreshes' \in Nat /\ UNCHANGED <<closing, chunk>>
    BY <1>0, <1>3 DEF RefreshRuntime, OtherTypes
  <2>2. CASE backend.disposed \/ ~backend.refreshRequired
    <3>1. UNCHANGED <<backend, query, lsp, wait, proc>>
      BY <1>3, <2>2 DEF RefreshRuntime
    <3>2. ClientTypes'
      BY <1>0, <1>k, <3>1, KeptTypes
    <3>. QED
      BY <1>0, <2>1, <3>1, <3>2, TypePartsNext
      DEF OtherTypes, BackendKnown, Made, BackendState, QueryStates
  <2>3. CASE ~(backend.disposed \/ ~backend.refreshRequired)
    <3> DEFINE b == [backend EXCEPT !.refreshRequired = FALSE,
                       !.started = "none", !.inner = 0, !.client = 0,
                       !.state = "refreshing"]
    <3>1. /\ b \in BackendState /\ b.created = backend.created
          /\ ~b.disposed /\ b.client = 0 /\ b.inner = 0
      BY <1>t, <2>3 DEF BackendState
    <3>2. StartFresh(b, query)
      BY <1>3, <2>3 DEF RefreshRuntime
    <3> HIDE DEF b
    <3>. QED
      BY <1>0, <1>t, <2>1, <2>3, <3>1, <3>2, StartFreshTypes
  <2>. QED
    BY <2>2, <2>3
<1>4. ASSUME NEW c \in Clients, InitializeResumes(c) PROVE TypeInv'
  <2> DEFINE w == [wait EXCEPT ![c] = Resting]
             e == wait[c].epoch
  <2>1. wait[c].status # "idle" /\ c \in Made /\ c \in Ops
    BY <1>0, <1>4 DEF InitializeResumes, Settled, ClientTypes, WaitsKnown, Ops
  <2>2. Kept(lsp, w, proc) /\ e \in Nat
    <3>1. Resting \in Waiting /\ Resting.status = "idle"
      BY DEF Resting, Waiting
    <3>. QED
      BY <1>k, <1>t, <2>1, <3>1 DEF Kept, Waiting
  <2>3. /\ backend' \in BackendState /\ query' \in [Queries -> QueryStates]
        /\ backend'.created = backend.created
        /\ backend'.client = backend.client
        /\ backend'.disposed = backend.disposed
        /\ backend'.inner \in {backend.inner, c}
    <3>1. \/ \E code : backend' = StartFailed(backend, code)
                        /\ query' = Refused(query)
          \/ UNCHANGED <<backend, query>>
          \/ /\ backend' = [backend EXCEPT !.inner = c, !.started = "done",
                                            !.state = "ready"]
             /\ query' = query
          \/ UNCHANGED backend /\ query' = Refused(query)
      BY <1>4 DEF InitializeResumes
    <3>2. ASSUME NEW code, backend' = StartFailed(backend, code),
                 query' = Refused(query)
          PROVE  /\ backend' \in BackendState
                 /\ query' \in [Queries -> QueryStates]
                 /\ backend'.created = backend.created
                 /\ backend'.client = backend.client
                 /\ backend'.disposed = backend.disposed
                 /\ backend'.inner \in {backend.inner, c}
      BY <1>t, <3>2, StartFailedType, RefusedType
    <3>3. CASE /\ backend' = [backend EXCEPT !.inner = c, !.started = "done",
                                            !.state = "ready"]
               /\ query' = query
      BY <1>t, <3>3 DEF BackendState
    <3>4. CASE UNCHANGED backend /\ query' \in {query, Refused(query)}
      BY <1>t, <3>4, RefusedType
    <3>. QED
      BY <3>1, <3>2, <3>3, <3>4
  <2>4. UNCHANGED <<closing, chunk, refreshes>>
    BY <1>4 DEF InitializeResumes
  <2>5. OtherTypes'
    BY <1>0, <2>1, <2>3, <2>4 DEF OtherTypes, BackendKnown, Made, QueryStates
  <2>6. \/ Fail(c, e, TRUE, lsp, w, proc)
        \/ /\ lsp' = [lsp EXCEPT ![c].state = "unavailable"]
           /\ wait' = w /\ proc' = Kill(proc, lsp[c].proc)
        \/ /\ lsp' = [lsp EXCEPT ![c].state = "ready"]
           /\ wait' = w /\ UNCHANGED proc
    BY <1>4 DEF InitializeResumes
  <2> HIDE DEF w, e
  <2>7. CASE Fail(c, e, TRUE, lsp, w, proc)
    BY <1>0, <2>1, <2>2, <2>3, <2>5, <2>7, FailTypes, TypePartsNext
  <2>8. CASE /\ lsp' = [lsp EXCEPT ![c].state = "unavailable"]
             /\ wait' = w /\ proc' = Kill(proc, lsp[c].proc)
    <3>1. Kept(lsp', wait, proc)
      BY <1>k, <1>t, <2>8 DEF Kept, LspState
    <3>2. Kept(lsp, wait, proc')
      BY <1>k, <1>t, <2>8, KillEffect DEF Kept
    <3>3. Kept(lsp', wait', proc')
      BY <2>2, <2>8, <3>1, <3>2, KeptParts
    <3>. QED
      BY <1>0, <2>3, <2>5, <3>3, KeptTypes, TypePartsNext
  <2>9. CASE /\ lsp' = [lsp EXCEPT ![c].state = "ready"]
             /\ wait' = w /\ UNCHANGED proc
    <3>1. Kept(lsp', wait', proc')
      BY <1>t, <2>2, <2>9 DEF Kept, LspState
    <3>. QED
      BY <1>0, <2>3, <2>5, <3>1, KeptTypes, TypePartsNext
  <2>. QED
    BY <2>6, <2>7, <2>8, <2>9
<1>5. ASSUME NEW q \in Queries, StartResumes(q) PROVE TypeInv'
  <2>1. /\ UNCHANGED <<backend, lsp, proc, closing, chunk, refreshes>>
        /\ query' \in [Queries -> QueryStates]
        /\ \/ backend.inner # 0 /\ wait' = Send(wait, lsp, q, backend.inner)
           \/ UNCHANGED wait
    BY <1>5, <1>t DEF StartResumes, QueryStates
  <2>2. q \in Ops
    BY DEF Ops
  <2>3. backend.inner # 0 =>
          backend.inner \in Clients /\ backend.inner \in Made
    BY <1>0, <1>t DEF OtherTypes, BackendKnown, BackendState
  <2>4. ClientTypes'
    BY <1>0, <1>k, <2>1, <2>2, <2>3, SendTypes, KeptTypes
  <2>. QED
    BY <1>0, <2>1, <2>4, TypePartsNext
    DEF OtherTypes, BackendKnown, Made, QueryStates
<1>6. ASSUME NEW q \in Queries, QueryResumes(q) PROVE TypeInv'
  <2>1. /\ UNCHANGED <<backend, lsp, proc, closing, chunk, refreshes>>
        /\ query' \in [Queries -> QueryStates]
        /\ wait[q].status # "idle"
        /\ \/ wait' = Send(wait, lsp, q, wait[q].client)
           \/ wait' = [wait EXCEPT ![q] = Resting]
    BY <1>6, <1>t DEF QueryResumes, QueryStates, Settled
  <2>2. q \in Ops
    BY DEF Ops
  <2>3. CASE wait' = [wait EXCEPT ![q] = Resting]
    <3>1. Resting \in Waiting /\ Resting.status = "idle"
      BY DEF Resting, Waiting
    <3>2. Kept(lsp', wait', proc')
      BY <1>k, <1>t, <2>1, <2>2, <2>3, <3>1 DEF Kept
    <3>. QED
      BY <1>0, <2>1, <3>2, KeptTypes, TypePartsNext
      DEF OtherTypes, BackendKnown, Made, QueryStates
  <2>4. CASE wait' = Send(wait, lsp, q, wait[q].client)
    <3>1. ClientTypes'
      BY <1>0, <1>k, <1>w, <2>1, <2>2, <2>4, SendTypes
    <3>. QED
      BY <1>0, <2>1, <3>1, TypePartsNext
      DEF OtherTypes, BackendKnown, Made, QueryStates
  <2>. QED
    BY <2>1, <2>3, <2>4
<1>7. CASE Shutdown
  <2> DEFINE c == backend.client
  <2>1. /\ backend' \in BackendState /\ backend'.disposed
        /\ backend'.client = backend.client /\ backend'.inner = backend.inner
        /\ backend'.created = backend.created
        /\ UNCHANGED <<query, chunk, refreshes>>
        /\ closing' \in {"closed", "asking"} /\ (c = 0 => closing' = "closed")
    BY <1>7, <1>t DEF Shutdown, BackendState
  <2>2. OtherTypes'
    BY <1>0, <2>1 DEF OtherTypes, BackendKnown, Made
  <2>3. c # 0 => c \in Clients /\ c \in Made
    BY <1>0, <1>t DEF OtherTypes, BackendKnown, BackendState
  <2>4. CASE UNCHANGED <<lsp, wait, proc>>
    BY <1>0, <1>k, <2>1, <2>2, <2>4, KeptTypes, TypePartsNext
  <2>5. CASE c # 0 /\ TerminateNow(c, lsp, wait)
    BY <1>0, <1>k, <2>1, <2>2, <2>3, <2>5, TerminateTypes, TypePartsNext
  <2>6. CASE /\ c # 0 /\ wait' = RejectInflight(wait, c) /\ UNCHANGED proc
             /\ lsp' = [lsp EXCEPT ![c] = [Invalidated(@) EXCEPT !.timers = 0]]
    <3>1. [Invalidated(lsp[c]) EXCEPT !.timers = 0] \in LspState
      BY <1>t, <2>3, <2>6, InvalidatedEffect
    <3>2. /\ lsp' \in [Clients -> LspState]
          /\ \A d \in Clients \ {c} : lsp'[d] = lsp[d]
      BY <1>t, <2>3, <2>6, <3>1
    <3>3. /\ wait' \in [Ops -> Waiting]
          /\ \A o \in Ops :
               /\ wait'[o].client = wait[o].client
               /\ wait'[o].status =
                    IF wait[o].client = c /\ wait[o].status \in Unsettled
                    THEN "rejected" ELSE wait[o].status
      BY <1>t, <2>3, <2>6, RejectEffect
    <3>4. WaitsKnown' /\ ProcsKnown'
      BY <1>0, <2>1, <2>6, <3>3
      DEF ClientTypes, WaitsKnown, ProcsKnown, Made, Ops, Unsettled
    <3>5. Unmade' /\ StoppingInv'
      BY <1>0, <2>1, <2>3, <2>6, <3>2 DEF ClientTypes, Unmade, StoppingInv, Made
    <3>6. ClientTypes'
      BY <1>0, <2>6, <3>2, <3>3, <3>4, <3>5
      DEF ClientTypes, LspState, Waiting, ProcState
    <3>. QED
      BY <2>2, <3>6, TypePartsNext
  <2>7. CASE /\ c # 0 /\ wait' = Send(wait, lsp, Closer, c) /\ UNCHANGED proc
             /\ lsp' = [lsp EXCEPT ![c].timers = 0, ![c].stopping = TRUE]
    <3>1. Closer \in Ops \ Clients
      BY LspAssumption DEF Ops
    <3>2. /\ lsp' \in [Clients -> LspState]
          /\ \A d \in Clients \ {c} : lsp'[d] = lsp[d]
      BY <1>t, <2>3, <2>7 DEF LspState
    <3>3. /\ wait' \in [Ops -> Waiting] /\ wait'[Closer].client = c
          /\ \A o \in Ops \ {Closer} : wait'[o] = wait[o]
      <4>1. c \in Clients
        BY <2>3, <2>7
      <4> HIDE DEF c
      <4>. QED
        BY <1>t, <2>7, <3>1, <4>1, SendEffect
    <3>4. WaitsKnown' /\ ProcsKnown'
      BY <1>0, <2>1, <2>3, <2>7, <3>1, <3>3
      DEF ClientTypes, WaitsKnown, ProcsKnown, Made, Ops
    <3>5. Unmade' /\ StoppingInv'
      BY <1>0, <2>1, <2>3, <2>7, <3>2 DEF ClientTypes, Unmade, StoppingInv, Made
    <3>6. ClientTypes'
      BY <1>0, <2>7, <3>2, <3>3, <3>4, <3>5
      DEF ClientTypes, LspState, Waiting, ProcState
    <3>. QED
      BY <2>2, <3>6, TypePartsNext
  <2>8. \/ UNCHANGED <<lsp, wait, proc>>
        \/ c # 0 /\ TerminateNow(c, lsp, wait)
        \/ /\ c # 0 /\ wait' = RejectInflight(wait, c) /\ UNCHANGED proc
           /\ lsp' = [lsp EXCEPT ![c] = [Invalidated(@) EXCEPT !.timers = 0]]
        \/ /\ c # 0 /\ wait' = Send(wait, lsp, Closer, c) /\ UNCHANGED proc
           /\ lsp' = [lsp EXCEPT ![c].timers = 0, ![c].stopping = TRUE]
    BY <1>7 DEF Shutdown
  <2>. QED
    BY <2>4, <2>5, <2>6, <2>7, <2>8
<1>8. CASE ShutdownResumes
  <2> DEFINE c == wait[Closer].client
             w == [wait EXCEPT ![Closer] = Resting]
  <2>1. /\ wait[Closer].status # "idle" /\ Closer \in Ops
        /\ UNCHANGED <<backend, query, chunk, refreshes>>
        /\ closing' \in {"closed", "exiting"}
    BY <1>8 DEF ShutdownResumes, Settled, Ops
  <2>2. c \in Clients /\ c \in Made
    BY <1>w, <2>1
  <2>3. Kept(lsp, w, proc)
    <3>1. Resting \in Waiting /\ Resting.status = "idle"
      BY DEF Resting, Waiting
    <3>. QED
      BY <1>k, <1>t, <2>1, <3>1 DEF Kept
  <2>4. backend.disposed /\ backend.client # 0
    BY <1>0, <2>1 DEF ClientTypes, WaitsKnown
  <2>5. OtherTypes'
    BY <1>0, <2>1, <2>4 DEF OtherTypes, BackendKnown, Made
  <2>6. \/ wait' = w /\ UNCHANGED lsp /\ proc' \in {proc, Kill(proc, lsp[c].proc)}
        \/ TerminateNow(c, lsp, w)
    BY <1>8 DEF ShutdownResumes
  <2> HIDE DEF c, w
  <2>7. CASE wait' = w /\ UNCHANGED lsp /\ proc' \in {proc, Kill(proc, lsp[c].proc)}
    <3>1. Kept(lsp', wait', proc')
      BY <1>t, <2>3, <2>7, KillEffect DEF Kept
    <3>. QED
      BY <1>0, <2>1, <2>5, <3>1, KeptTypes, TypePartsNext
  <2>8. CASE TerminateNow(c, lsp, w)
    BY <1>0, <2>1, <2>2, <2>3, <2>4, <2>5, <2>8, TerminateTypes, TypePartsNext
  <2>. QED
    BY <2>6, <2>7, <2>8
<1>9. ASSUME NEW o \in Ops, Timeout(o) PROVE TypeInv'
  <2> DEFINE c == wait[o].client
             n == lsp[c].timeouts + 1
             L == [lsp EXCEPT ![c].timeouts =
                     IF n < MaxTimeouts THEN n ELSE MaxTimeouts]
             W == [wait EXCEPT ![o].status = "rejected"]
  <2>1. /\ wait[o].status = "pending"
        /\ UNCHANGED <<backend, query, closing, chunk, refreshes>>
    BY <1>9 DEF Timeout
  <2>2. c \in Clients /\ c \in Made
    BY <1>w, <2>1
  <2>3. (IF n < MaxTimeouts THEN n ELSE MaxTimeouts) \in 0..MaxTimeouts
    BY <1>t, <2>2 DEF LspState, MaxTimeouts
  <2>4. Kept(L, W, proc)
    BY <1>k, <1>t, <2>1, <2>2, <2>3 DEF Kept, LspState, Waiting
  <2>5. [wait EXCEPT ![o].status = "lost"] \in [Ops -> Waiting]
    BY <1>t DEF Waiting
  <2>6. \/ /\ wait' = [wait EXCEPT ![o].status = "lost"]
           /\ UNCHANGED <<lsp, proc>>
        \/ Fail(c, wait[o].epoch, TRUE, L, W, proc)
        \/ lsp' = L /\ wait' = W /\ UNCHANGED proc
    BY <1>9 DEF Timeout
  <2>7. OtherTypes'
    BY <1>0, <2>1 DEF OtherTypes, BackendKnown, Made
  <2>8. wait[o].epoch \in Nat
    BY <1>t DEF Waiting
  <2> HIDE DEF c, n, L, W
  <2>9. CASE /\ wait' = [wait EXCEPT ![o].status = "lost"]
             /\ UNCHANGED <<lsp, proc>>
    <3>1. Kept(lsp', wait', proc')
      BY <1>k, <1>t, <2>1, <2>5, <2>9 DEF Kept, Waiting
    <3>. QED
      BY <1>0, <2>1, <2>7, <3>1, KeptTypes, TypePartsNext
  <2>10. CASE Fail(c, wait[o].epoch, TRUE, L, W, proc)
    BY <1>0, <2>1, <2>2, <2>4, <2>7, <2>8, <2>10, FailTypes, TypePartsNext
  <2>11. CASE lsp' = L /\ wait' = W /\ UNCHANGED proc
    BY <1>0, <2>1, <2>4, <2>7, <2>11, KeptTypes, TypePartsNext
  <2>. QED
    BY <2>6, <2>9, <2>10, <2>11
<1>10. ASSUME NEW c \in Clients, RestartFires(c) PROVE TypeInv'
  <2> DEFINE L == [lsp EXCEPT ![c].timers = @ - 1]
  <2>1. /\ lsp[c].timers > 0
        /\ UNCHANGED <<backend, query, closing, chunk, refreshes>>
        /\ \/ ~backend.disposed /\ Spawn(c, L, wait)
           \/ lsp' = L /\ UNCHANGED <<wait, proc>>
    BY <1>10 DEF RestartFires
  <2>2. lsp[c].timers - 1 \in Nat /\ lsp[c].timers - 1 <= lsp[c].timers
    BY <1>t, <2>1 DEF LspState
  <2>3. Kept(L, wait, proc) /\ L[c].stopping = lsp[c].stopping
    BY <1>k, <1>t, <2>2 DEF Kept, LspState
  <2>4. OtherTypes'
    BY <1>0, <2>1 DEF OtherTypes, BackendKnown, Made
  <2>5. c \in Made
    BY <1>0, <2>1 DEF ClientTypes, Unmade
  <2>6. /\ backend.created \in Nat /\ backend.created <= backend.created
        /\ c <= backend.created
    BY <1>t, <2>5 DEF BackendState, Clients, Made
  <2> HIDE DEF L
  <2>7. CASE ~backend.disposed /\ Spawn(c, L, wait)
    <3>1. ~L[c].stopping
      BY <1>0, <2>3, <2>7 DEF ClientTypes, StoppingInv
    <3>. QED
      BY <1>0, <2>1, <2>3, <2>4, <2>6, <2>7, <3>1, SpawnTypes, TypePartsNext
  <2>8. CASE lsp' = L /\ UNCHANGED <<wait, proc>>
    BY <1>0, <2>1, <2>3, <2>4, <2>8, KeptTypes, TypePartsNext
  <2>. QED
    BY <2>1, <2>7, <2>8
<1>11. CASE ForceShutdown
  <2> DEFINE c == backend.client
             L == [lsp EXCEPT ![c].stopping = FALSE]
  <2>1. /\ closing = "exiting" /\ closing' = "exited"
        /\ UNCHANGED <<backend, query, chunk, refreshes>>
        /\ \/ UNCHANGED <<lsp, wait, proc>>
           \/ Fail(c, lsp[c].epoch, TRUE, L, wait, proc)
    BY <1>11 DEF ForceShutdown, ExitResolved
  <2>2. c \in Clients /\ c \in Made
    BY <1>0, <1>t, <2>1 DEF OtherTypes, BackendKnown, BackendState
  <2>3. Kept(L, wait, proc)
    BY <1>k, <1>t, <2>2 DEF Kept, LspState
  <2>4. OtherTypes'
    BY <1>0, <2>1 DEF OtherTypes, BackendKnown, Made
  <2>5. lsp[c].epoch \in Nat
    BY <1>t, <2>2 DEF LspState
  <2> HIDE DEF c, L
  <2>6. CASE UNCHANGED <<lsp, wait, proc>>
    BY <1>0, <1>k, <2>1, <2>4, <2>6, KeptTypes, TypePartsNext
  <2>7. CASE Fail(c, lsp[c].epoch, TRUE, L, wait, proc)
    BY <1>0, <2>1, <2>2, <2>3, <2>4, <2>5, <2>7, FailTypes, TypePartsNext
  <2>. QED
    BY <2>1, <2>6, <2>7
<1>12. ASSUME NEW c \in Clients, WindowPasses(c) PROVE TypeInv'
  <2>1. /\ lsp' = [lsp EXCEPT ![c].crashes = 0, ![c].timeouts = 0]
        /\ UNCHANGED <<backend, proc, wait, query, closing, chunk, refreshes>>
    BY <1>12 DEF WindowPasses
  <2>2. 0 \in 0..(RestartDelays + 1) /\ 0 \in 0..MaxTimeouts
    BY LspAssumption DEF MaxTimeouts
  <2>3. Kept(lsp', wait', proc')
    <3> DEFINE l == [lsp[c] EXCEPT !.crashes = 0, !.timeouts = 0]
    <3>0. lsp[c] \in LspState /\ lsp[c].timers <= lsp[c].timers
      BY <1>k, <1>t DEF Kept
    <3>1. /\ l \in LspState /\ l.stopping = lsp[c].stopping
          /\ l.stopped = lsp[c].stopped /\ l.epoch = lsp[c].epoch
          /\ l.proc = lsp[c].proc /\ l.timers = lsp[c].timers
      BY <2>2, <3>0 DEF LspState
    <3>2. lsp' = [lsp EXCEPT ![c] = l]
      BY <1>t, <2>1
    <3>3. lsp[c].stopped => c \in Made
      BY <1>k DEF Kept
    <3> HIDE DEF l
    <3>. QED
      BY <1>0, <2>1, <3>0, <3>1, <3>2, <3>3, ClientKept
  <2>. QED
    BY <1>0, <2>1, <2>3, KeptTypes, TypePartsNext
    DEF OtherTypes, BackendKnown, Made
<1>13. ASSUME NEW p \in Procs,
              (\E o \in Ops, r \in {"result", "modified", "rejected"} :
                 Answer(p, o, r)) \/ PartialFrame(p)
       PROVE  TypeInv'
  <2>1. /\ UNCHANGED <<backend, proc, query, closing, refreshes>>
        /\ \/ UNCHANGED wait
           \/ \E o \in Ops, r \in {"result", "modified", "rejected"} :
                wait[o].status # "idle" /\ wait' = [wait EXCEPT ![o].status = r]
        /\ \E v \in BOOLEAN : lsp' = [lsp EXCEPT ![proc[p].client].buffered = v]
        /\ chunk' \in {0, p}
    BY <1>13 DEF Answer, PartialFrame, Unsettled
  <2>c. proc[p].client \in Clients
    BY <1>0, <1>t, <1>13
    DEF Answer, PartialFrame, Reading, Alive, ClientTypes, ProcsKnown,
        ProcState, Made
  <2>2. Kept(lsp', wait, proc)
    <3>1. PICK v \in BOOLEAN :
            lsp' = [lsp EXCEPT ![proc[p].client].buffered = v]
      BY <2>1
    <3>. QED
      BY <1>k, <1>t, <2>c, <3>1 DEF Kept, LspState
  <2>3. CASE \E o \in Ops, r \in {"result", "modified", "rejected"} :
               wait[o].status # "idle" /\ wait' = [wait EXCEPT ![o].status = r]
    <3>1. PICK o \in Ops, r \in {"result", "modified", "rejected"} :
            wait[o].status # "idle" /\ wait' = [wait EXCEPT ![o].status = r]
      BY <2>3
    <3>2. /\ wait' \in [Ops -> Waiting]
          /\ \A x \in Ops : wait'[x].status # "idle" =>
               /\ wait[x].status # "idle" /\ wait'[x].client = wait[x].client
               /\ wait'[x].epoch = wait[x].epoch /\ wait'[x].proc = wait[x].proc
      BY <1>t, <3>1 DEF Waiting
    <3>3. Kept(lsp', wait', proc')
      BY <2>1, <2>2, <3>2 DEF Kept
    <3>. QED
      BY <1>0, <2>1, <3>3, KeptTypes, TypePartsNext
      DEF OtherTypes, BackendKnown, Made
  <2>4. CASE UNCHANGED wait
    BY <1>0, <2>1, <2>2, <2>4, KeptTypes, TypePartsNext
    DEF OtherTypes, BackendKnown, Made
  <2>. QED
    BY <2>1, <2>3, <2>4
<1>14. ASSUME NEW p \in Procs, ProtocolFailure(p) PROVE TypeInv'
  <2> DEFINE c == proc[p].client
  <2>1. /\ UNCHANGED <<backend, query, closing, refreshes>> /\ chunk' = 0
        /\ proc[p].life # "none"
    BY <1>14 DEF ProtocolFailure, Reading, Alive
  <2>2. c \in Clients /\ c \in Made /\ proc[p].epoch \in Nat
    BY <1>0, <1>t, <2>1 DEF ClientTypes, ProcsKnown, ProcState, Made
  <2>3. PICK kept \in BOOLEAN :
          Fail(c, proc[p].epoch, FALSE, [lsp EXCEPT ![c].buffered = kept],
               wait, proc)
    BY <1>14 DEF ProtocolFailure
  <2>4. Kept([lsp EXCEPT ![c].buffered = kept], wait, proc)
    BY <1>k, <1>t, <2>2 DEF Kept, LspState
  <2>5. ClientTypes'
    BY <1>0, <2>1, <2>2, <2>3, <2>4, FailTypes
  <2>. QED
    BY <1>0, <2>1, <2>5, TypePartsNext DEF OtherTypes, BackendKnown, Made
<1>15. CASE ExitResumes \/ ChunkEnds \/ UNCHANGED vars
  <2>1. /\ UNCHANGED <<backend, lsp, proc, wait, query, refreshes>>
        /\ closing' \in {closing, "closed"} /\ chunk' \in {0, chunk}
    BY <1>15 DEF ExitResumes, ChunkEnds, vars
  <2>2. ClientTypes'
    BY <1>0, <1>k, <2>1, KeptTypes
  <2>. QED
    BY <1>0, <2>1, <2>2, TypePartsNext DEF OtherTypes, BackendKnown, Made
<1>16. ASSUME NEW p \in Procs, HandleExit(p) PROVE TypeInv'
  <2> DEFINE c == proc[p].client
             L == [lsp EXCEPT ![c].stopped = TRUE]
             P == [proc EXCEPT ![p].life = "gone"]
  <2>1. /\ UNCHANGED <<backend, query, chunk, refreshes>>
        /\ proc[p].life # "none"
        /\ closing' \in {closing, "exited"}
    BY <1>16 DEF HandleExit, Alive, ExitResolved
  <2>2. c \in Clients /\ c \in Made /\ proc[p].epoch \in Nat
    BY <1>0, <1>t, <2>1 DEF ClientTypes, ProcsKnown, ProcState, Made
  <2>3. OtherTypes'
    BY <1>0, <2>1 DEF OtherTypes, BackendKnown, Made
  <2>4. Kept(lsp, wait, P)
    BY <1>0, <2>1, GoneKept
  <2>5. Kept(L, wait, P)
    <3> DEFINE l == [lsp[c] EXCEPT !.stopped = TRUE]
    <3>0. lsp[c] \in LspState /\ lsp[c].timers <= lsp[c].timers
      BY <1>k, <1>t, <2>2 DEF Kept
    <3>2. /\ l \in LspState /\ l.stopping = lsp[c].stopping
          /\ l.epoch = lsp[c].epoch
          /\ l.proc = lsp[c].proc /\ l.timers = lsp[c].timers
      BY <3>0 DEF LspState
    <3>3. L = [lsp EXCEPT ![c] = l]
      BY <1>t
    <3> HIDE DEF l, L
    <3>1. Kept(L, wait, proc)
      BY <1>0, <2>2, <3>0, <3>2, <3>3, ClientKept
    <3>. QED
      BY <1>k, <2>4, <3>1, KeptParts
  <2>6. Kept([L EXCEPT ![c].state = "failed"], wait, P)
    <3>1. L \in [Clients -> LspState]
      BY <2>5 DEF Kept
    <3> HIDE DEF L
    <3>. QED
      BY <2>2, <2>5, <3>1 DEF Kept, LspState
  <2>7. \/ proc' = P /\ UNCHANGED <<lsp, wait>>
        \/ \E restart \in BOOLEAN : Fail(c, proc[p].epoch, restart, L, wait, P)
        \/ /\ lsp' = [L EXCEPT ![c].state = "failed"]
           /\ proc' = P /\ UNCHANGED wait
    BY <1>16 DEF HandleExit
  <2> HIDE DEF c, L, P
  <2>8. ASSUME NEW restart \in BOOLEAN,
               Fail(c, proc[p].epoch, restart, L, wait, P)
        PROVE  TypeInv'
    BY <1>0, <2>1, <2>2, <2>3, <2>5, <2>8, FailTypes, TypePartsNext
  <2>9. CASE \/ proc' = P /\ UNCHANGED <<lsp, wait>>
             \/ /\ lsp' = [L EXCEPT ![c].state = "failed"]
                /\ proc' = P /\ UNCHANGED wait
    <3>1. Kept(lsp', wait', proc')
      BY <2>4, <2>6, <2>9
    <3>. QED
      BY <1>0, <2>1, <2>3, <3>1, KeptTypes, TypePartsNext
  <2>. QED
    BY <2>7, <2>8, <2>9
<1>17. ASSUME NEW p \in Procs, ProcessError(p) PROVE TypeInv'
  <2> DEFINE c == proc[p].client
             P == [proc EXCEPT ![p].life = "gone"]
  <2>1. /\ UNCHANGED <<backend, query, closing, chunk, refreshes>>
        /\ proc[p].life = "live"
        /\ Fail(c, proc[p].epoch, TRUE, lsp, wait, P)
    BY <1>17 DEF ProcessError
  <2>2. c \in Clients /\ c \in Made /\ proc[p].epoch \in Nat
    BY <1>0, <1>t, <2>1 DEF ClientTypes, ProcsKnown, ProcState, Made
  <2>3. Kept(lsp, wait, P)
    BY <1>0, <2>1, GoneKept
  <2>4. OtherTypes'
    BY <1>0, <2>1 DEF OtherTypes, BackendKnown, Made
  <2> HIDE DEF c, P
  <2>. QED
    BY <1>0, <2>1, <2>2, <2>3, <2>4, FailTypes, TypePartsNext
<1>. QED
  BY <1>1, <1>2, <1>3, <1>4, <1>5, <1>6, <1>7, <1>8, <1>9, <1>10, <1>11,
     <1>12, <1>13, <1>14, <1>15, <1>16, <1>17 DEF Next

(* Every variable of a backend keeps its type, for any number of clients,  *)
(* processes, queries and restart delays: in particular no client counts   *)
(* more crashes than its restart policy knows.                             *)
THEOREM TypeCorrect == Spec => []TypeOK
<1>1. TypeInv => TypeOK
  BY DEF TypeInv
<1>. QED
  BY <1>1, TypeInit, TypeStep, PTL DEF Spec
=============================================================================
