----------------------- MODULE LspBackendSafetyProof -----------------------
(* The safety properties of LspBackend, for any number of clients,         *)
(* processes, queries and restart delays.                                  *)
EXTENDS LspBackendProof

(* Epochs only grow, and a process was attached at an epoch of its own.    *)
WaitEpochs ==
  \A o \in Ops : wait[o].status # "idle" =>
    wait[o].epoch <= lsp[wait[o].client].epoch
ProcEpochs ==
  \A p \in Procs : proc[p].life # "none" =>
    /\ proc[p].epoch <= lsp[proc[p].client].epoch
    /\ proc[p].epoch = lsp[proc[p].client].epoch => lsp[proc[p].client].proc = p
OwnProc ==
  \A c \in Clients, p \in Procs : lsp[c].proc = p =>
    proc[p].client = c /\ proc[p].life # "none"
EpochInv == WaitEpochs /\ ProcEpochs /\ OwnProc

(* While a client initializes, nobody else waits for it.                   *)
InitializeAlone ==
  \A c \in Clients : wait[c].status # "idle" =>
    /\ lsp[c].state # "ready"
    /\ \A o \in Ops \ {c} : wait[o].status # "idle" => wait[o].client # c
InitializePending ==
  \A c \in Clients : wait[c].status = "pending" =>
    lsp[c].state = "initializing" /\ ~lsp[c].stopping
InitializeAnswered ==
  \A c \in Clients :
    wait[c].status \notin {"idle", "rejected"}
      /\ wait[c].epoch = lsp[c].epoch =>
    /\ lsp[c].proc # 0 /\ Alive(lsp[c].proc) /\ Current(lsp[c].proc)
    /\ ~lsp[c].stopped

(* A restart timer is armed when everybody was rejected and the process    *)
(* is no longer running.                                                   *)
RestartInv ==
  \A c \in Clients : lsp[c].timers > 0 =>
    /\ \A o \in Ops : wait[o].status # "idle" /\ wait[o].client = c =>
         wait[o].status = "rejected"
    /\ \A p \in Procs : proc[p].life = "live" => proc[p].client # c

UnavailableInv ==
  \A c \in Clients : lsp[c].state = "unavailable" =>
    wait[c].status \in {"idle", "rejected"} /\ c \in Made
StoppedInv ==
  \A c \in Clients : lsp[c].stopped =>
    /\ lsp[c].state # "ready"
    /\ \A p \in Procs : proc[p].life = "live" => proc[p].client # c

LspInv ==
  /\ EpochInv
  /\ InitializeAlone /\ InitializePending /\ InitializeAnswered
  /\ RestartInv /\ UnavailableInv /\ StoppedInv
  /\ PendingIsCurrent /\ ServersNotAbandoned /\ RestartsReplaceFailures
  /\ ReadyHasProcess


-----------------------------------------------------------------------------
(* What a handler may have done to client c before it ends or fails:       *)
(* requests ended, processes were killed, a process of c is gone, and of   *)
(* the clients only flags and counters changed.                            *)
Ended(o, W) ==
  \/ W[o].status = "idle"
  \/ /\ wait[o].status # "idle" /\ W[o].status \in {wait[o].status, "rejected"}
     /\ W[o].client = wait[o].client /\ W[o].epoch = wait[o].epoch
     /\ W[o].proc = wait[o].proc
Gone(p, P) == P[p].life = "gone" /\ proc[p].life \in {"live", "killed"}
Withdrawn(p, P) ==
  /\ P[p].client = proc[p].client /\ P[p].epoch = proc[p].epoch
  /\ \/ P[p].life = proc[p].life
     \/ P[p].life = "killed" /\ proc[p].life = "live"
     \/ Gone(p, P)
Touched(c, L, W, P) ==
  /\ L \in [Clients -> LspState] /\ W \in [Ops -> Waiting]
  /\ P \in [Procs -> ProcState]
  /\ \A d \in Clients :
       /\ L[d].state = lsp[d].state /\ L[d].epoch = lsp[d].epoch
       /\ L[d].proc = lsp[d].proc /\ L[d].timers = lsp[d].timers
       /\ L[d].stopping => lsp[d].stopping
       /\ L[d].stopped => lsp[d].stopped
            \/ /\ \E p \in Procs : lsp[d].proc = p /\ Gone(p, P) /\ Current(p)
               /\ \A p \in Procs : P[p].life = "live" => P[p].client # d
  /\ \A o \in Ops : Ended(o, W)
  /\ \A p \in Procs : Withdrawn(p, P)
  /\ \A p \in Procs : Gone(p, P) => proc[p].client = c

(* The clients, requests and processes belong together.                    *)
LEMMA Known ==
  ASSUME ClientTypes
  PROVE  /\ \A o \in Ops : wait[o].status # "idle" => wait[o].client \in Clients
         /\ \A c \in Clients : wait[c].status # "idle" => wait[c].client = c
         /\ \A p \in Procs : proc[p].life # "none" => proc[p].client \in Clients
         /\ \A p \in Procs : p \in Nat /\ p # 0
         /\ Clients \subseteq Ops
BY DEF ClientTypes, WaitsKnown, ProcsKnown, Waiting, ProcState, Made, Procs, Ops,
       Clients

(* A process that is gone is not one that its client still counts on.      *)
Missed(c, W, P) ==
  \A p \in Procs : Gone(p, P) /\ p = lsp[c].proc /\ Current(p) =>
    lsp[c].state \in Down /\ W[c].status \notin {"result", "modified"}

(* Handlers that end there keep the invariant.                             *)
LEMMA TouchedSafe ==
  ASSUME ClientTypes, LspInv, NEW c \in Clients, Touched(c, lsp', wait', proc'),
         Missed(c, wait', proc'), Made \subseteq Made'
  PROVE  LspInv'
<1> USE Known
<1>1. EpochInv'
  <2>1. WaitEpochs'
    BY DEF LspInv, Touched, Ended, EpochInv, WaitEpochs
  <2>2. ProcEpochs'
    BY DEF LspInv, Touched, Withdrawn, Gone, EpochInv, ProcEpochs
  <2>3. OwnProc'
    BY DEF LspInv, Touched, Withdrawn, Gone, EpochInv, OwnProc
  <2>. QED
    BY <2>1, <2>2, <2>3 DEF EpochInv
<1>2. InitializeAlone'
  BY DEF LspInv, Touched, Ended, InitializeAlone
<1>3. InitializePending'
  BY DEF LspInv, Touched, Ended, InitializePending
<1>g. ASSUME NEW d \in Clients, NEW p \in Procs, p = lsp[d].proc,
             proc[p].life \in {"live", "killed"}, Current(p),
             \/ lsp[d].state = "ready"
             \/ wait'[d].status \notin {"idle", "rejected"}
      PROVE  ~Gone(p, proc') /\ proc[p].client = d
  <2>1. proc[p].client = d
    BY <1>g DEF LspInv, EpochInv, OwnProc
  <2>2. wait'[d].status = "pending" => lsp[d].state = "initializing"
    BY <1>3 DEF Touched, InitializePending
  <2>3. wait'[d].status # "lost"
    BY DEF LspInv, Touched, Ended, PendingIsCurrent, Unsettled
  <2>4. wait'[d].status \in
          {"idle", "pending", "result", "modified", "rejected"}
    BY <2>3 DEF Touched, Waiting
  <2>5. ASSUME Gone(p, proc') PROVE FALSE
    BY <1>g, <2>1, <2>2, <2>4, <2>5 DEF Touched, Missed, Down
  <2>. QED
    BY <2>1, <2>5
<1>4. InitializeAnswered'
  <2> SUFFICES ASSUME NEW d \in Clients,
                      wait'[d].status \notin {"idle", "rejected"},
                      wait'[d].epoch = lsp'[d].epoch
               PROVE  LET p == lsp'[d].proc IN
                      /\ p # 0 /\ proc'[p].life \in {"live", "killed"}
                      /\ proc'[p].epoch = lsp'[proc'[p].client].epoch
                      /\ ~lsp'[d].stopped
    BY DEF InitializeAnswered, Alive, Current
  <2>1. /\ wait[d].status \notin {"idle", "rejected"}
        /\ wait[d].epoch = lsp[d].epoch /\ lsp'[d].proc = lsp[d].proc
    BY DEF Touched, Ended
  <2>2. /\ lsp[d].proc # 0 /\ ~lsp[d].stopped
        /\ proc[lsp[d].proc].life \in {"live", "killed"}
        /\ Current(lsp[d].proc)
    BY <2>1 DEF LspInv, InitializeAnswered, Alive
  <2>3. lsp[d].proc \in Procs
    BY <2>2 DEF ClientTypes, LspState
  <2>4. ~Gone(lsp[d].proc, proc') /\ proc[lsp[d].proc].client = d
    BY <1>g, <2>2, <2>3
  <2>5. ~lsp'[d].stopped
    BY <2>2, <2>4 DEF Touched
  <2>. QED
    BY <2>1, <2>2, <2>3, <2>4, <2>5 DEF Touched, Withdrawn, Gone, Current
<1>5. RestartInv'
  BY DEF LspInv, Touched, Ended, Withdrawn, Gone, RestartInv
<1>6. UnavailableInv'
  BY DEF LspInv, Touched, Ended, UnavailableInv
<1>7. ASSUME NEW d \in Clients, lsp[d].state = "ready"
      PROVE  /\ ~lsp'[d].stopped
             /\ \E p \in Procs : lsp'[d].proc = p /\ Alive(p)' /\ Current(p)'
  <2>1. PICK p \in Procs : lsp[d].proc = p /\ Alive(p) /\ Current(p)
    BY <1>7 DEF LspInv, ReadyHasProcess
  <2>2. ~Gone(p, proc') /\ proc[p].client = d
    BY <1>g, <1>7, <2>1 DEF Alive
  <2>3. ~lsp'[d].stopped
    BY <1>7, <2>1, <2>2 DEF Touched, LspInv, StoppedInv
  <2>4. /\ lsp'[d].proc = p /\ proc'[p].life \in {"live", "killed"}
        /\ proc'[p].epoch = lsp'[proc'[p].client].epoch
    BY <2>1, <2>2 DEF Touched, Withdrawn, Gone, Alive, Current
  <2>. QED
    BY <2>3, <2>4 DEF Alive, Current
<1>8. StoppedInv'
  BY <1>7 DEF LspInv, Touched, Withdrawn, Gone, StoppedInv
<1>9. PendingIsCurrent'
  BY DEF LspInv, Touched, Ended, PendingIsCurrent, Unsettled
<1>10. ServersNotAbandoned'
  BY DEF LspInv, Touched, Withdrawn, Gone, ServersNotAbandoned, Current
<1>11. RestartsReplaceFailures'
  BY DEF LspInv, Touched, RestartsReplaceFailures
<1>12. ReadyHasProcess'
  BY <1>7 DEF Touched, ReadyHasProcess
<1>. QED
  BY <1>1, <1>2, <1>3, <1>4, <1>5, <1>6, <1>8, <1>9, <1>10, <1>11, <1>12
  DEF LspInv

(* A failure keeps the invariant.  Failures that restart the client, and   *)
(* those of a process that is gone, come when no answer is left to look at. *)
LEMMA FailSafe ==
  ASSUME ClientTypes, LspInv, NEW c \in Clients, c \in Made,
         NEW L, NEW W, NEW P, Touched(c, L, W, P), Made \subseteq Made',
         NEW e \in Nat, NEW restart \in BOOLEAN, Fail(c, e, restart, L, W, P),
         \A p \in Procs : Gone(p, P) /\ p = lsp[c].proc /\ Current(p) =>
           e = lsp[c].epoch,
         restart \/ (\E p \in Procs : Gone(p, P)) => \A o \in Ops :
           W[o].client = c => W[o].status \notin {"result", "modified"}
  PROVE  LspInv'
<1> USE Known
<1>1. /\ L \in [Clients -> LspState] /\ W \in [Ops -> Waiting]
      /\ P \in [Procs -> ProcState]
  BY DEF Touched
<1>2. CASE NotFailing(c, e, L, W, P, lsp', wait', proc')
  <2>1. lsp' = L /\ wait' = W /\ proc' = P
    BY <1>2 DEF NotFailing
  <2>2. Touched(c, lsp', wait', proc')
    BY <2>1
  <2>3. ASSUME NEW p \in Procs, Gone(p, proc'), p = lsp[c].proc, Current(p)
        PROVE  lsp[c].state \in Down /\ wait'[c].status \notin {"result", "modified"}
    <3>1. e = lsp[c].epoch /\ L[c].epoch = lsp[c].epoch /\ L[c].state = lsp[c].state
      BY <2>1, <2>3 DEF Touched
    <3>2. lsp[c].state \in Down
      BY <1>2, <3>1 DEF NotFailing
    <3>3. W[c].status # "idle" => W[c].client = c
      BY DEF Touched, Ended
    <3>. QED
      BY <2>1, <2>3, <3>2, <3>3
  <2>. QED
    BY <2>2, <2>3, TouchedSafe DEF Missed
<1>3. CASE Failing(c, e, restart, L, W, P, lsp', wait', proc')
  <2>1. /\ lsp' \in [Clients -> LspState] /\ wait' \in [Ops -> Waiting]
        /\ proc' \in [Procs -> ProcState]
        /\ \A d \in Clients \ {c} : lsp'[d] = L[d]
        /\ lsp'[c].epoch = L[c].epoch /\ lsp'[c].proc = L[c].proc
        /\ lsp'[c].stopping = L[c].stopping /\ lsp'[c].stopped = L[c].stopped
        /\ \A o \in Ops : wait'[o].client = W[o].client
             /\ wait'[o].epoch = W[o].epoch /\ wait'[o].proc = W[o].proc
        /\ \A p \in Procs :
             proc'[p].client = P[p].client /\ proc'[p].epoch = P[p].epoch
    BY <1>1, FailEffect
  <2>2. /\ \A d \in Clients :
             /\ lsp'[d].epoch = lsp[d].epoch /\ lsp'[d].proc = lsp[d].proc
             /\ lsp'[d].stopping => lsp[d].stopping
        /\ \A d \in Clients \ {c} :
             /\ lsp'[d].state = lsp[d].state
             /\ lsp'[d].timers = lsp[d].timers
    BY <2>1 DEF Touched
  <2>3. \A o \in Ops :
          \/ wait'[o].status = "idle"
          \/ /\ wait[o].status # "idle"
             /\ wait'[o].status \in {wait[o].status, "rejected"}
             /\ wait[o].client = c => wait'[o].status \notin Unsettled
             /\ wait'[o].client = wait[o].client
             /\ wait'[o].epoch = wait[o].epoch
    BY <1>3, <2>1 DEF Failing, Touched, Ended, Unsettled
  <2>4. \A p \in Procs :
          /\ proc'[p].client = proc[p].client
          /\ proc'[p].epoch = proc[p].epoch
          /\ proc'[p].life = "none" <=> proc[p].life = "none"
          /\ proc'[p].life = "live" => proc[p].life = "live"
          /\ proc[p].life \in {"live", "killed"} =>
               Gone(p, P) \/ proc'[p].life \in {"live", "killed"}
    BY <1>3, <2>1 DEF Failing, Touched, Withdrawn, Gone
  <2>5. \A p \in Procs : proc'[p].life = "live" => proc[p].client # c
    BY <1>3, <2>1, <2>4
    DEF Failing, Touched, LspInv, ServersNotAbandoned
  <2>6. lsp'[c].state \in Down /\ lsp[c].state \notin Down
    BY <1>3 DEF Failing, Touched
  <2>7. lsp[c].timers = 0
    <3>1. lsp[c].timers \in Nat
      BY DEF ClientTypes, LspState
    <3>2. lsp[c].timers <= 1 /\ lsp[c].timers # 1
      BY <2>6 DEF LspInv, RestartsReplaceFailures, Down
    <3>. QED
      BY <3>1, <3>2
  <2>8. \/ lsp'[c].timers = 0
        \/ restart /\ lsp'[c].timers = 1 /\ lsp'[c].state = "failed"
    BY <1>3, <2>7 DEF Failing, Touched
  <2>9. restart => \A o \in Ops :
          wait'[o].status # "idle" /\ wait'[o].client = c =>
            wait'[o].status = "rejected"
    BY <1>3, <2>1 DEF Failing, Waiting, Unsettled
  <2>10. EpochInv'
    <3>1. WaitEpochs'
      BY <2>2, <2>3 DEF LspInv, EpochInv, WaitEpochs
    <3>2. ProcEpochs'
      BY <2>2, <2>4 DEF LspInv, EpochInv, ProcEpochs
    <3>3. OwnProc'
      BY <2>2, <2>4 DEF LspInv, EpochInv, OwnProc
    <3>. QED
      BY <3>1, <3>2, <3>3 DEF EpochInv
  <2>11. InitializeAlone'
    BY <2>2, <2>3, <2>6 DEF LspInv, InitializeAlone, Down
  <2>12. InitializePending'
    BY <2>2, <2>3 DEF LspInv, InitializePending, Unsettled
  <2>13. InitializeAnswered'
    <3> SUFFICES ASSUME NEW d \in Clients,
                        wait'[d].status \notin {"idle", "rejected"},
                        wait'[d].epoch = lsp'[d].epoch
                 PROVE  LET p == lsp'[d].proc IN
                        /\ p # 0 /\ proc'[p].life \in {"live", "killed"}
                        /\ proc'[p].epoch = lsp'[proc'[p].client].epoch
                        /\ ~lsp'[d].stopped
      BY DEF InitializeAnswered, Alive, Current
    <3>1. /\ wait[d].status \notin {"idle", "rejected"}
          /\ wait[d].epoch = lsp[d].epoch /\ lsp'[d].proc = lsp[d].proc
      BY <2>2, <2>3
    <3>2. /\ lsp[d].proc # 0 /\ ~lsp[d].stopped
          /\ proc[lsp[d].proc].life \in {"live", "killed"}
          /\ Current(lsp[d].proc)
      BY <3>1 DEF LspInv, InitializeAnswered, Alive
    <3>3. lsp[d].proc \in Procs /\ proc[lsp[d].proc].client = d
      BY <3>2 DEF ClientTypes, LspState, LspInv, EpochInv, OwnProc
    <3>4. ~Gone(lsp[d].proc, P)
      <4>1. CASE d # c
        BY <3>3, <4>1 DEF Touched
      <4>2. CASE d = c
        <5>1. wait'[c].client = c /\ wait'[c].status \in {"result", "modified"}
          BY <2>1, <2>3, <4>2 DEF Waiting, Unsettled
        <5>2. W[c].status \in {"result", "modified"} /\ W[c].client = c
          BY <1>3, <2>1, <5>1 DEF Failing
        <5>. QED
          BY <3>3, <5>2
      <4>. QED
        BY <4>1, <4>2
    <3>5. ~lsp'[d].stopped
      BY <2>1, <3>2, <3>4 DEF Touched
    <3>. QED
      BY <2>2, <2>4, <3>2, <3>3, <3>4, <3>5 DEF Current
  <2>14. RestartInv'
    BY <2>2, <2>3, <2>4, <2>5, <2>8, <2>9 DEF LspInv, RestartInv
  <2>15. UnavailableInv'
    <3>1. lsp'[c].state = "unavailable" => restart
      BY <1>3 DEF Failing
    <3>2. wait'[c].status # "idle" => wait'[c].client = c
      BY <2>3
    <3>. QED
      BY <2>2, <2>3, <2>9, <3>1, <3>2 DEF LspInv, UnavailableInv
  <2>16. StoppedInv'
    <3> SUFFICES ASSUME NEW d \in Clients, lsp'[d].stopped
                 PROVE  /\ lsp'[d].state # "ready"
                        /\ \A p \in Procs :
                             proc'[p].life = "live" => proc'[p].client # d
      BY DEF StoppedInv
    <3>1. CASE d = c
      BY <2>4, <2>5, <2>6, <3>1 DEF Down
    <3>2. CASE d # c
      <4>1. lsp[d].stopped
        BY <2>1, <3>2 DEF Touched, Gone, LspInv, EpochInv, OwnProc
      <4>. QED
        BY <2>2, <2>4, <3>2, <4>1 DEF LspInv, StoppedInv
    <3>. QED
      BY <3>1, <3>2
  <2>17. PendingIsCurrent'
    BY <2>2, <2>3 DEF LspInv, PendingIsCurrent, Unsettled
  <2>18. ServersNotAbandoned'
    BY <2>2, <2>4 DEF LspInv, ServersNotAbandoned, Current
  <2>19. RestartsReplaceFailures'
    BY <2>2, <2>8 DEF LspInv, RestartsReplaceFailures
  <2>20. ReadyHasProcess'
    <3> SUFFICES ASSUME NEW d \in Clients, lsp'[d].state = "ready"
                 PROVE  \E p \in Procs : lsp'[d].proc = p /\ Alive(p)' /\ Current(p)'
      BY DEF ReadyHasProcess
    <3>1. d # c /\ lsp[d].state = "ready"
      BY <2>2, <2>6 DEF Down
    <3>2. PICK p \in Procs : lsp[d].proc = p /\ Alive(p) /\ Current(p)
      BY <3>1 DEF LspInv, ReadyHasProcess
    <3>3. ~Gone(p, P)
      BY <3>1, <3>2 DEF Touched, LspInv, EpochInv, OwnProc
    <3>4. /\ lsp'[d].proc = p /\ proc'[p].life \in {"live", "killed"}
          /\ proc'[p].epoch = lsp'[proc'[p].client].epoch
      BY <2>2, <2>4, <3>2, <3>3 DEF Alive, Current
    <3>. QED
      BY <3>4 DEF Alive, Current
  <2>. QED
    BY <2>10, <2>11, <2>12, <2>13, <2>14, <2>15, <2>16, <2>17, <2>18, <2>19,
       <2>20 DEF LspInv
<1>. QED
  BY <1>1, <1>2, <1>3, FailEffect

(* Terminating a client that is not ready keeps the invariant.             *)
LEMMA InvalidatedSafe ==
  ASSUME ClientTypes, LspInv, NEW c \in Clients, Made \subseteq Made',
         lsp[c].state # "ready",
         \A d \in Clients \ {c} : lsp'[d] = lsp[d],
         lsp'[c].epoch = lsp[c].epoch + 1, lsp'[c].timers = 0,
         lsp'[c].proc = lsp[c].proc, lsp'[c].state = lsp[c].state,
         NEW W \in [Ops -> Waiting], \A o \in Ops : Ended(o, W),
         \A o \in Ops :
           /\ wait'[o].client = W[o].client
           /\ wait'[o].epoch = W[o].epoch
           /\ wait'[o].status =
                IF W[o].client = c /\ W[o].status \in Unsettled
                THEN "rejected" ELSE W[o].status,
         \A p \in Procs :
           /\ proc'[p].client = proc[p].client
           /\ proc'[p].epoch = proc[p].epoch
           /\ \/ proc'[p].life = proc[p].life
              \/ proc'[p].life = "killed" /\ proc[p].life = "live"
           /\ proc'[p].life = "live" => proc[p].client # c
  PROVE  LspInv'
<1> USE Known
<1>1. \A o \in Ops :
        \/ wait'[o].status = "idle"
        \/ /\ wait[o].status # "idle"
           /\ wait'[o].status \in {wait[o].status, "rejected"}
           /\ wait[o].client = c => wait'[o].status \notin Unsettled
           /\ wait'[o].client = wait[o].client
           /\ wait'[o].epoch = wait[o].epoch
  BY DEF Ended, Unsettled
<1>2. \A d \in Clients : lsp[d].epoch \in Nat
  BY DEF ClientTypes, LspState
<1>3. \A o \in Ops : wait[o].epoch \in Nat
  BY DEF ClientTypes, Waiting
<1>4. \A p \in Procs : proc[p].epoch \in Nat
  BY DEF ClientTypes, ProcState
<1>5. \A d \in Clients : lsp'[d].epoch \in {lsp[d].epoch, lsp[d].epoch + 1}
        /\ lsp'[d].proc = lsp[d].proc /\ lsp'[d].state = lsp[d].state
        /\ lsp'[d].timers \in {0, lsp[d].timers}
  OBVIOUS
<1>6. EpochInv'
  <2>1. WaitEpochs'
    BY <1>1, <1>2, <1>3, <1>5 DEF LspInv, EpochInv, WaitEpochs
  <2>2. ProcEpochs'
    BY <1>2, <1>4, <1>5 DEF LspInv, EpochInv, ProcEpochs
  <2>3. OwnProc'
    BY <1>5 DEF LspInv, EpochInv, OwnProc
  <2>. QED
    BY <2>1, <2>2, <2>3 DEF EpochInv
<1>7. InitializeAlone'
  BY <1>1, <1>5 DEF LspInv, InitializeAlone
<1>8. InitializePending'
  BY <1>1 DEF LspInv, InitializePending, Unsettled
<1>9. InitializeAnswered'
  <2> SUFFICES ASSUME NEW d \in Clients,
                      wait'[d].status \notin {"idle", "rejected"},
                      wait'[d].epoch = lsp'[d].epoch
               PROVE  LET p == lsp'[d].proc IN
                      /\ p # 0 /\ proc'[p].life \in {"live", "killed"}
                      /\ proc'[p].epoch = lsp'[proc'[p].client].epoch
                      /\ ~lsp'[d].stopped
    BY DEF InitializeAnswered, Alive, Current
  <2>1. /\ wait[d].status \notin {"idle", "rejected"}
        /\ wait'[d].epoch = wait[d].epoch
    BY <1>1
  <2>2. wait[d].epoch <= lsp[d].epoch
    BY <2>1 DEF LspInv, EpochInv, WaitEpochs
  <2>3. d # c
    <3>1. /\ wait[d].epoch = lsp'[d].epoch /\ wait[d].epoch \in Nat
          /\ lsp[c].epoch \in Nat
      BY <1>2, <1>3, <2>1
    <3>2. lsp'[d].epoch <= lsp[d].epoch
      BY <2>2, <3>1
    <3>3. ~(lsp[c].epoch + 1 <= lsp[c].epoch)
      BY <3>1
    <3>. QED
      BY <3>2, <3>3
  <2>4. /\ lsp[d].proc # 0 /\ ~lsp[d].stopped
        /\ proc[lsp[d].proc].life \in {"live", "killed"}
        /\ Current(lsp[d].proc)
    BY <2>1, <2>3 DEF LspInv, InitializeAnswered, Alive
  <2>5. lsp[d].proc \in Procs /\ proc[lsp[d].proc].client = d
    BY <2>4 DEF ClientTypes, LspState, LspInv, EpochInv, OwnProc
  <2>. QED
    BY <2>3, <2>4, <2>5 DEF Current
<1>10. RestartInv'
  BY <1>1 DEF LspInv, RestartInv
<1>11. UnavailableInv'
  BY <1>1, <1>5 DEF LspInv, UnavailableInv
<1>12. StoppedInv'
  BY DEF LspInv, StoppedInv
<1>13. PendingIsCurrent'
  BY <1>1 DEF LspInv, PendingIsCurrent, Unsettled
<1>14. ServersNotAbandoned'
  BY DEF LspInv, ServersNotAbandoned, Current
<1>15. RestartsReplaceFailures'
  BY <1>5 DEF LspInv, RestartsReplaceFailures
<1>16. ReadyHasProcess'
  <2> SUFFICES ASSUME NEW d \in Clients, lsp'[d].state = "ready"
               PROVE  \E p \in Procs : lsp'[d].proc = p /\ Alive(p)' /\ Current(p)'
    BY DEF ReadyHasProcess
  <2>1. d # c
    BY <1>5
  <2>2. PICK p \in Procs : lsp[d].proc = p /\ Alive(p) /\ Current(p)
    BY <1>5 DEF LspInv, ReadyHasProcess
  <2>3. proc[p].client = d
    BY <2>2 DEF LspInv, EpochInv, OwnProc
  <2>. QED
    BY <2>1, <2>2, <2>3 DEF Alive, Current
<1>. QED
  BY <1>6, <1>7, <1>8, <1>9, <1>10, <1>11, <1>12, <1>13, <1>14, <1>15, <1>16
  DEF LspInv

(* terminateNow is such a step.                                            *)
LEMMA TerminateSafe ==
  ASSUME ClientTypes, LspInv, NEW c \in Clients, Made \subseteq Made',
         lsp[c].state # "ready",
         NEW W \in [Ops -> Waiting], \A o \in Ops : Ended(o, W),
         TerminateNow(c, lsp, W)
  PROVE  LspInv'
<1>1. /\ lsp \in [Clients -> LspState] /\ proc \in [Procs -> ProcState]
  BY DEF ClientTypes
<1>2. /\ \A d \in Clients \ {c} : lsp'[d] = lsp[d]
      /\ lsp'[c].epoch = lsp[c].epoch + 1 /\ lsp'[c].timers = 0
      /\ lsp'[c].proc = lsp[c].proc /\ lsp'[c].state = lsp[c].state
      /\ wait' = RejectInflight(W, c) /\ proc' = Kill(proc, lsp[c].proc)
  BY <1>1, TerminateEffect
<1>3. \A o \in Ops :
        /\ wait'[o].client = W[o].client
        /\ wait'[o].epoch = W[o].epoch
        /\ wait'[o].status = IF W[o].client = c /\ W[o].status \in Unsettled
                             THEN "rejected" ELSE W[o].status
  BY <1>2, RejectEffect
<1>4. \A p \in Procs :
        /\ proc'[p].client = proc[p].client
        /\ proc'[p].epoch = proc[p].epoch
        /\ proc'[p].life = IF p = lsp[c].proc /\ proc[p].life = "live"
                           THEN "killed" ELSE proc[p].life
  BY <1>1, <1>2, KillEffect
<1>5. \A p \in Procs : proc'[p].life = "live" => proc[p].client # c
  BY <1>4 DEF LspInv, ServersNotAbandoned
<1>. QED
  BY <1>2, <1>3, <1>4, <1>5, InvalidatedSafe

(* A request keeps the invariant when its client is ready, or when its     *)
(* sender was waiting for that client already.                             *)
LEMMA SendSafe ==
  ASSUME ClientTypes, LspInv, NEW c \in Clients, Made \subseteq Made',
         NEW o \in Ops \ Clients, wait[c].status = "idle",
         \A x \in Ops \ {o} : wait'[x] = wait[x],
         wait'[o].client = c, wait'[o].status = "pending",
         wait'[o].epoch = lsp[c].epoch,
         lsp[c].timers = 0, proc' = proc,
         \A d \in Clients :
           /\ lsp'[d].state = lsp[d].state /\ lsp'[d].epoch = lsp[d].epoch
           /\ lsp'[d].proc = lsp[d].proc /\ lsp'[d].timers = lsp[d].timers
           /\ lsp'[d].stopped = lsp[d].stopped,
         \A d \in Clients \ {c} : lsp'[d].stopping = lsp[d].stopping
  PROVE  LspInv'
<1> USE Known
<1>1. EpochInv'
  <2>1. WaitEpochs'
    BY DEF LspInv, EpochInv, WaitEpochs, ClientTypes, LspState
  <2>2. ProcEpochs' /\ OwnProc'
    BY DEF LspInv, EpochInv, ProcEpochs, OwnProc
  <2>. QED
    BY <2>1, <2>2 DEF EpochInv
<1>2. InitializeAlone'
  BY DEF LspInv, InitializeAlone
<1>3. InitializePending'
  BY DEF LspInv, InitializePending
<1>4. InitializeAnswered'
  <2> SUFFICES ASSUME NEW d \in Clients,
                      wait'[d].status \notin {"idle", "rejected"},
                      wait'[d].epoch = lsp'[d].epoch
               PROVE  LET p == lsp'[d].proc IN
                      /\ p # 0 /\ proc'[p].life \in {"live", "killed"}
                      /\ proc'[p].epoch = lsp'[proc'[p].client].epoch
                      /\ ~lsp'[d].stopped
    BY DEF InitializeAnswered, Alive, Current
  <2>1. /\ wait[d].status \notin {"idle", "rejected"}
        /\ wait[d].epoch = lsp[d].epoch
    OBVIOUS
  <2>2. /\ lsp[d].proc # 0 /\ ~lsp[d].stopped
        /\ proc[lsp[d].proc].life \in {"live", "killed"}
        /\ Current(lsp[d].proc)
    BY <2>1 DEF LspInv, InitializeAnswered, Alive
  <2>3. lsp[d].proc \in Procs /\ proc[lsp[d].proc].client = d
    BY <2>2 DEF ClientTypes, LspState, LspInv, EpochInv, OwnProc
  <2>. QED
    BY <2>2, <2>3 DEF Current
<1>5. RestartInv'
  BY DEF LspInv, RestartInv
<1>6. UnavailableInv'
  BY DEF LspInv, UnavailableInv
<1>7. StoppedInv'
  BY DEF LspInv, StoppedInv
<1>8. PendingIsCurrent'
  BY DEF LspInv, PendingIsCurrent, Unsettled
<1>9. ServersNotAbandoned'
  BY DEF LspInv, ServersNotAbandoned, Current
<1>10. RestartsReplaceFailures'
  BY DEF LspInv, RestartsReplaceFailures
<1>11. ReadyHasProcess'
  BY DEF LspInv, ReadyHasProcess, Alive, Current
<1>. QED
  BY <1>1, <1>2, <1>3, <1>4, <1>5, <1>6, <1>7, <1>8, <1>9, <1>10, <1>11
  DEF LspInv

(* A process is spawned for a client that nobody waits for and that has no *)
(* running process.                                                        *)
LEMMA SpawnSafe ==
  ASSUME ClientTypes, LspInv, NEW c \in Clients, NEW p \in Procs, NEW L,
         Made \subseteq Made', Spawned(c, p, L, wait, lsp', wait', proc'),
         \A d \in Clients \ {c} : L[d] = lsp[d],
         L[c].epoch = lsp[c].epoch, L[c].timers = 0,
         \A o \in Ops : wait[o].status # "idle" => wait[o].client # c,
         \A r \in Procs : proc[r].life = "live" => proc[r].client # c
  PROVE  LspInv'
<1> USE Known
<1>1. /\ \A d \in Clients : lsp[d].epoch \in Nat
      /\ \A o \in Ops : wait[o].epoch \in Nat
      /\ \A r \in Procs : proc[r].epoch \in Nat
  BY DEF ClientTypes, LspState, Waiting, ProcState
<1>2. /\ \A d \in Clients \ {c} : lsp'[d] = lsp[d]
      /\ lsp'[c].epoch = lsp[c].epoch + 1 /\ lsp'[c].state = "initializing"
      /\ ~lsp'[c].stopping /\ ~lsp'[c].stopped /\ lsp'[c].proc = p
      /\ lsp'[c].timers = 0
  BY DEF Spawned
<1>3. /\ \A o \in Ops \ {c} : wait'[o] = wait[o]
      /\ wait'[c].status = "pending" /\ wait'[c].client = c
      /\ wait'[c].epoch = lsp'[c].epoch
  BY <1>2 DEF Spawned
<1>4. /\ proc[p].life = "none"
      /\ \A r \in Procs \ {p} : proc'[r] = proc[r]
      /\ proc'[p].life = "live" /\ proc'[p].client = c
      /\ proc'[p].epoch = lsp'[c].epoch
  BY <1>2 DEF Spawned
<1>5. \A d \in Clients \ {c} : lsp[d].proc # p
  BY <1>4 DEF LspInv, EpochInv, OwnProc
<1>6. EpochInv'
  <2>1. WaitEpochs'
    BY <1>1, <1>2, <1>3 DEF LspInv, EpochInv, WaitEpochs
  <2>2. ProcEpochs'
    <3> SUFFICES ASSUME NEW r \in Procs, proc'[r].life # "none"
                 PROVE  /\ proc'[r].epoch <= lsp'[proc'[r].client].epoch
                        /\ proc'[r].epoch = lsp'[proc'[r].client].epoch =>
                             lsp'[proc'[r].client].proc = r
      BY DEF ProcEpochs
    <3>1. CASE r = p
      BY <1>1, <1>2, <1>4, <3>1
    <3>2. CASE r # p
      <4>1. /\ proc'[r] = proc[r] /\ proc[r].client \in Clients
            /\ proc[r].epoch \in Nat
            /\ proc[r].epoch <= lsp[proc[r].client].epoch
            /\ proc[r].epoch = lsp[proc[r].client].epoch =>
                 lsp[proc[r].client].proc = r
        BY <1>1, <1>4, <3>2 DEF LspInv, EpochInv, ProcEpochs
      <4>2. CASE proc[r].client # c
        BY <1>2, <4>1, <4>2
      <4>3. CASE proc[r].client = c
        BY <1>1, <1>2, <4>1, <4>3
      <4>. QED
        BY <4>2, <4>3
    <3>. QED
      BY <3>1, <3>2
  <2>3. OwnProc'
    BY <1>2, <1>4, <1>5 DEF LspInv, EpochInv, OwnProc
  <2>. QED
    BY <2>1, <2>2, <2>3 DEF EpochInv
<1>7. InitializeAlone'
  BY <1>2, <1>3 DEF LspInv, InitializeAlone
<1>8. InitializePending'
  BY <1>2, <1>3 DEF LspInv, InitializePending
<1>9. InitializeAnswered'
  <2> SUFFICES ASSUME NEW d \in Clients,
                      wait'[d].status \notin {"idle", "rejected"},
                      wait'[d].epoch = lsp'[d].epoch
               PROVE  LET r == lsp'[d].proc IN
                      /\ r # 0 /\ proc'[r].life \in {"live", "killed"}
                      /\ proc'[r].epoch = lsp'[proc'[r].client].epoch
                      /\ ~lsp'[d].stopped
    BY DEF InitializeAnswered, Alive, Current
  <2>1. CASE d = c
    BY <1>2, <1>4, <2>1
  <2>2. CASE d # c
    <3>1. /\ wait[d].status \notin {"idle", "rejected"}
          /\ wait[d].epoch = lsp[d].epoch
      BY <1>2, <1>3, <2>2
    <3>2. /\ lsp[d].proc # 0 /\ ~lsp[d].stopped
          /\ proc[lsp[d].proc].life \in {"live", "killed"}
          /\ Current(lsp[d].proc)
      BY <3>1 DEF LspInv, InitializeAnswered, Alive
    <3>3. lsp[d].proc \in Procs /\ proc[lsp[d].proc].client = d
      BY <3>2 DEF ClientTypes, LspState, LspInv, EpochInv, OwnProc
    <3>. QED
      BY <1>2, <1>4, <1>5, <2>2, <3>2, <3>3 DEF Current
  <2>. QED
    BY <2>1, <2>2
<1>10. RestartInv'
  BY <1>2, <1>3, <1>4 DEF LspInv, RestartInv
<1>11. UnavailableInv'
  BY <1>2, <1>3 DEF LspInv, UnavailableInv
<1>12. StoppedInv'
  BY <1>2, <1>4 DEF LspInv, StoppedInv
<1>13. PendingIsCurrent'
  BY <1>2, <1>3 DEF LspInv, PendingIsCurrent, Unsettled
<1>14. ServersNotAbandoned'
  BY <1>2, <1>4 DEF LspInv, ServersNotAbandoned, Current
<1>15. RestartsReplaceFailures'
  BY <1>2 DEF LspInv, RestartsReplaceFailures
<1>16. ReadyHasProcess'
  <2> SUFFICES ASSUME NEW d \in Clients, lsp'[d].state = "ready"
               PROVE  \E r \in Procs : lsp'[d].proc = r /\ Alive(r)' /\ Current(r)'
    BY DEF ReadyHasProcess
  <2>1. d # c /\ lsp'[d] = lsp[d]
    BY <1>2
  <2>2. PICK r \in Procs : lsp[d].proc = r /\ Alive(r) /\ Current(r)
    BY <2>1 DEF LspInv, ReadyHasProcess
  <2>3. proc[r].client = d /\ proc'[r] = proc[r]
    BY <1>4, <1>5, <2>1, <2>2 DEF LspInv, EpochInv, OwnProc
  <2>. QED
    BY <2>1, <2>2, <2>3 DEF Alive, Current
<1>. QED
  BY <1>6, <1>7, <1>8, <1>9, <1>10, <1>11, <1>12, <1>13, <1>14, <1>15, <1>16
  DEF LspInv

(* A client changes its state once its initialize request, which only it   *)
(* waits for, is out of the way.                                           *)
LEMMA StateSafe ==
  ASSUME ClientTypes, LspInv, NEW c \in Clients, c \in Made,
         Made \subseteq Made',
         \A d \in Clients :
           /\ d # c => lsp'[d].state = lsp[d].state
           /\ lsp'[d].epoch = lsp[d].epoch /\ lsp'[d].proc = lsp[d].proc
           /\ lsp'[d].timers = lsp[d].timers
           /\ lsp'[d].stopping = lsp[d].stopping,
         \A d \in Clients \ {c} : lsp'[d].stopped = lsp[d].stopped,
         wait'[c].status = "idle", \A o \in Ops \ {c} : wait'[o] = wait[o],
         \A p \in Procs :
           /\ proc'[p].client = proc[p].client
           /\ proc'[p].epoch = proc[p].epoch
           /\ proc'[p].life = "none" <=> proc[p].life = "none"
           /\ proc'[p].life = "live" => proc[p].life = "live"
           /\ proc[p].client # c /\ Alive(p) => Alive(p)',
         lsp'[c].timers > 0 => lsp'[c].state = "failed",
         lsp'[c].stopped =>
           /\ lsp'[c].state # "ready"
           /\ \A p \in Procs : proc'[p].life = "live" => proc[p].client # c,
         lsp'[c].state = "ready" =>
           \E p \in Procs : lsp[c].proc = p /\ Alive(p)' /\ Current(p)
  PROVE  LspInv'
<1> USE Known
<1>1. EpochInv'
  BY DEF LspInv, EpochInv, WaitEpochs, ProcEpochs, OwnProc
<1>2. InitializeAlone'
  BY DEF LspInv, InitializeAlone
<1>3. InitializePending'
  BY DEF LspInv, InitializePending
<1>4. InitializeAnswered'
  <2> SUFFICES ASSUME NEW d \in Clients,
                      wait'[d].status \notin {"idle", "rejected"},
                      wait'[d].epoch = lsp'[d].epoch
               PROVE  LET p == lsp'[d].proc IN
                      /\ p # 0 /\ proc'[p].life \in {"live", "killed"}
                      /\ proc'[p].epoch = lsp'[proc'[p].client].epoch
                      /\ ~lsp'[d].stopped
    BY DEF InitializeAnswered, Alive, Current
  <2>1. /\ d # c /\ wait[d].status \notin {"idle", "rejected"}
        /\ wait[d].epoch = lsp[d].epoch
    OBVIOUS
  <2>2. /\ lsp[d].proc # 0 /\ ~lsp[d].stopped
        /\ Alive(lsp[d].proc) /\ Current(lsp[d].proc)
    BY <2>1 DEF LspInv, InitializeAnswered
  <2>3. lsp[d].proc \in Procs /\ proc[lsp[d].proc].client = d
    BY <2>2 DEF ClientTypes, LspState, LspInv, EpochInv, OwnProc
  <2>4. PICK p \in Procs : p = lsp[d].proc
    BY <2>3
  <2>5. Alive(p)'
    BY <2>1, <2>2, <2>3, <2>4
  <2>. QED
    BY <2>1, <2>2, <2>3, <2>4, <2>5 DEF Current, Alive
<1>5. RestartInv'
  BY DEF LspInv, RestartInv
<1>6. UnavailableInv'
  BY DEF LspInv, UnavailableInv
<1>7. StoppedInv'
  BY DEF LspInv, StoppedInv
<1>8. PendingIsCurrent'
  BY DEF LspInv, PendingIsCurrent, Unsettled
<1>9. ServersNotAbandoned'
  BY DEF LspInv, ServersNotAbandoned, Current
<1>10. RestartsReplaceFailures'
  BY DEF LspInv, RestartsReplaceFailures, ClientTypes, LspState
<1>11. ReadyHasProcess'
  <2> SUFFICES ASSUME NEW d \in Clients, lsp'[d].state = "ready"
               PROVE  \E p \in Procs : lsp'[d].proc = p /\ Alive(p)' /\ Current(p)'
    BY DEF ReadyHasProcess
  <2>1. PICK p \in Procs : lsp[d].proc = p /\ Alive(p)' /\ Current(p)
    <3>1. CASE d = c
      BY <3>1
    <3>2. CASE d # c
      BY <3>2 DEF LspInv, ReadyHasProcess, EpochInv, OwnProc
    <3>. QED
      BY <3>1, <3>2
  <2>. QED
    BY <2>1 DEF Current, LspInv, EpochInv, OwnProc
<1>. QED
  BY <1>1, <1>2, <1>3, <1>4, <1>5, <1>6, <1>7, <1>8, <1>9, <1>10, <1>11
  DEF LspInv

(* A restart timer that fires for nothing.                                 *)
LEMMA Disarmed ==
  ASSUME ClientTypes, LspInv, NEW c \in Clients, Made \subseteq Made',
         lsp[c].state = "failed", lsp'[c].timers = 0,
         \A d \in Clients \ {c} : lsp'[d].timers = lsp[d].timers,
         \A d \in Clients :
           /\ lsp'[d].epoch = lsp[d].epoch /\ lsp'[d].proc = lsp[d].proc
           /\ lsp'[d].stopping = lsp[d].stopping
           /\ lsp'[d].stopped = lsp[d].stopped
           /\ lsp'[d].state = lsp[d].state,
         UNCHANGED <<wait, proc>>
  PROVE  LspInv'
<1> USE Known
<1>1. EpochInv'
  BY DEF LspInv, EpochInv, WaitEpochs, ProcEpochs, OwnProc
<1>2. InitializeAlone' /\ InitializePending'
  BY DEF LspInv, InitializeAlone, InitializePending
<1>3. InitializeAnswered'
  <2> SUFFICES ASSUME NEW d \in Clients,
                      wait'[d].status \notin {"idle", "rejected"},
                      wait'[d].epoch = lsp'[d].epoch
               PROVE  LET p == lsp'[d].proc IN
                      /\ p # 0 /\ proc'[p].life \in {"live", "killed"}
                      /\ proc'[p].epoch = lsp'[proc'[p].client].epoch
                      /\ ~lsp'[d].stopped
    BY DEF InitializeAnswered, Alive, Current
  <2>1. /\ lsp[d].proc # 0 /\ ~lsp[d].stopped
        /\ proc[lsp[d].proc].life \in {"live", "killed"}
        /\ Current(lsp[d].proc)
    BY DEF LspInv, InitializeAnswered, Alive
  <2>2. lsp[d].proc \in Procs /\ proc[lsp[d].proc].client = d
    BY <2>1 DEF ClientTypes, LspState, LspInv, EpochInv, OwnProc
  <2>. QED
    BY <2>1, <2>2 DEF Current
<1>4. RestartInv' /\ UnavailableInv' /\ StoppedInv'
  BY DEF LspInv, RestartInv, UnavailableInv, StoppedInv
<1>5. PendingIsCurrent' /\ ServersNotAbandoned'
  BY DEF LspInv, PendingIsCurrent, ServersNotAbandoned, Unsettled, Current
<1>6. RestartsReplaceFailures'
  BY DEF LspInv, RestartsReplaceFailures
<1>7. ReadyHasProcess'
  BY DEF LspInv, ReadyHasProcess, Alive, Current, EpochInv, OwnProc
<1>. QED
  BY <1>1, <1>2, <1>3, <1>4, <1>5, <1>6, <1>7 DEF LspInv

(* An answer in flight changes what its operation will see, no more.       *)
LEMMA AnswerSafe ==
  ASSUME ClientTypes, LspInv, NEW o \in Ops, wait[o].status \in Unsettled,
         Made \subseteq Made', proc' = proc, wait' \in [Ops -> Waiting],
         \A x \in Ops :
           /\ x # o => wait'[x].status = wait[x].status
           /\ wait'[x].client = wait[x].client
           /\ wait'[x].epoch = wait[x].epoch,
         wait'[o].status \in {"result", "modified", "rejected"},
         \A d \in Clients :
           /\ lsp'[d].state = lsp[d].state /\ lsp'[d].epoch = lsp[d].epoch
           /\ lsp'[d].proc = lsp[d].proc /\ lsp'[d].timers = lsp[d].timers
           /\ lsp'[d].stopped = lsp[d].stopped
           /\ lsp'[d].stopping = lsp[d].stopping
  PROVE  LspInv'
<1> USE Known
<1>1. wait[o].client \in Clients /\ wait[o].status = "pending"
  BY DEF LspInv, PendingIsCurrent, Unsettled
<1>2. EpochInv'
  BY <1>1 DEF LspInv, EpochInv, WaitEpochs, ProcEpochs, OwnProc
<1>3. InitializeAlone'
  BY <1>1 DEF LspInv, InitializeAlone
<1>4. InitializePending'
  BY <1>1 DEF LspInv, InitializePending
<1>5. InitializeAnswered'
  <2> SUFFICES ASSUME NEW d \in Clients,
                      wait'[d].status \notin {"idle", "rejected"},
                      wait'[d].epoch = lsp'[d].epoch
               PROVE  LET p == lsp'[d].proc IN
                      /\ p # 0 /\ proc'[p].life \in {"live", "killed"}
                      /\ proc'[p].epoch = lsp'[proc'[p].client].epoch
                      /\ ~lsp'[d].stopped
    BY DEF InitializeAnswered, Alive, Current
  <2>1. /\ wait[d].status \notin {"idle", "rejected"}
        /\ wait[d].epoch = lsp[d].epoch
    BY <1>1
  <2>2. /\ lsp[d].proc # 0 /\ ~lsp[d].stopped
        /\ proc[lsp[d].proc].life \in {"live", "killed"}
        /\ Current(lsp[d].proc)
    BY <2>1 DEF LspInv, InitializeAnswered, Alive
  <2>3. lsp[d].proc \in Procs /\ proc[lsp[d].proc].client = d
    BY <2>2 DEF ClientTypes, LspState, LspInv, EpochInv, OwnProc
  <2>. QED
    BY <2>2, <2>3 DEF Current
<1>6. RestartInv'
  BY <1>1 DEF LspInv, RestartInv
<1>7. UnavailableInv'
  BY <1>1 DEF LspInv, UnavailableInv
<1>8. StoppedInv'
  BY DEF LspInv, StoppedInv
<1>9. PendingIsCurrent'
  BY DEF LspInv, PendingIsCurrent, Unsettled
<1>10. ServersNotAbandoned'
  BY DEF LspInv, ServersNotAbandoned, Current
<1>11. RestartsReplaceFailures'
  BY DEF LspInv, RestartsReplaceFailures
<1>12. ReadyHasProcess'
  BY DEF LspInv, ReadyHasProcess, Alive, Current, EpochInv, OwnProc
<1>. QED
  BY <1>2, <1>3, <1>4, <1>5, <1>6, <1>7, <1>8, <1>9, <1>10, <1>11, <1>12
  DEF LspInv

-----------------------------------------------------------------------------
(* The steps.                                                              *)

(* The invariant holds initially.                                          *)
LEMMA LspInit == Init => LspInv
<1> SUFFICES ASSUME Init PROVE LspInv
  OBVIOUS
<1>1. /\ \A o \in Ops : wait[o].status = "idle"
      /\ \A p \in Procs : proc[p].life = "none"
      /\ \A c \in Clients :
           /\ lsp[c].state = "initializing" /\ lsp[c].timers = 0
           /\ lsp[c].proc = 0 /\ ~lsp[c].stopped
      /\ \A p \in Procs : p # 0
      /\ Clients \subseteq Ops
  BY DEF Init, Resting, Procs, Ops
<1>2. EpochInv
  BY <1>1 DEF EpochInv, WaitEpochs, ProcEpochs, OwnProc
<1>3. InitializeAlone /\ InitializePending /\ InitializeAnswered
  BY <1>1 DEF InitializeAlone, InitializePending, InitializeAnswered
<1>4. RestartInv /\ UnavailableInv /\ StoppedInv
  BY <1>1 DEF RestartInv, UnavailableInv, StoppedInv
<1>5. PendingIsCurrent /\ ServersNotAbandoned
  BY <1>1 DEF PendingIsCurrent, ServersNotAbandoned, Unsettled
<1>6. RestartsReplaceFailures /\ ReadyHasProcess
  BY <1>1 DEF RestartsReplaceFailures, ReadyHasProcess
<1>. QED
  BY <1>2, <1>3, <1>4, <1>5, <1>6 DEF LspInv

(* Nothing done is the least a handler does.                               *)
LEMMA TouchedAsIs ==
  ASSUME ClientTypes
  PROVE  \A c \in Clients : Touched(c, lsp, wait, proc)
BY DEF ClientTypes, Touched, Ended, Withdrawn, Gone

(* Steps of the backend alone keep the invariant.                          *)
LEMMA UnchangedSafe ==
  ASSUME ClientTypes, LspInv, Made \subseteq Made', UNCHANGED <<lsp, wait, proc>>
  PROVE  LspInv'
<1>1. 1 \in Clients
  BY LspAssumption DEF Clients
<1>2. Touched(1, lsp', wait', proc')
  BY <1>1, TouchedAsIs
<1>3. Missed(1, wait', proc')
  BY DEF Missed, Gone
<1>. QED
  BY <1>1, <1>2, <1>3, TouchedSafe

(* A start spawns at most the first process of a new client.               *)
LEMMA StartFreshSafe ==
  ASSUME TypeInv, LspInv, NEW b, NEW Q, b \in BackendState,
         b.created = backend.created, StartFresh(b, Q), Made \subseteq Made'
  PROVE  LspInv'
<1>0. ClientTypes
  BY TypeParts
<1>1. CASE UNCHANGED <<lsp, wait, proc>>
  BY <1>0, <1>1, UnchangedSafe
<1>2. CASE b.created < ClientBound /\ Spawn(b.created + 1, lsp, wait)
  <2> DEFINE c == b.created + 1
  <2>1. c \in Clients /\ c \notin Made
    BY <1>2, LspAssumption DEF Clients, Made, BackendState
  <2>2. ~lsp[c].stopping /\ lsp[c].timers = 0
    BY <1>0, <2>1 DEF ClientTypes, Unmade
  <2> HIDE DEF c
  <2>3. Spawn(c, lsp, wait)
    BY <1>2 DEF c
  <2>4. PICK p \in Procs : Spawned(c, p, lsp, wait, lsp', wait', proc')
    BY <1>0, <2>1, <2>2, <2>3, SpawnEffect DEF ClientTypes
  <2>5. /\ \A o \in Ops : wait[o].status # "idle" => wait[o].client # c
        /\ \A r \in Procs : proc[r].life = "live" => proc[r].client # c
    BY <1>0, <2>1 DEF ClientTypes, WaitsKnown, ProcsKnown
  <2>. QED
    BY <1>0, <2>1, <2>2, <2>4, <2>5, SpawnSafe
<1>3. [b EXCEPT !.created = b.created + 1, !.client = b.created + 1].client
        = b.created + 1
  BY DEF BackendState
<1>. QED
  BY <1>1, <1>2, <1>3 DEF StartFresh

(* A client that was created is never forgotten.                           *)
LEMMA MadeGrows == TypeInv /\ [Next]_vars => Made \subseteq Made'
<1> SUFFICES ASSUME TypeInv, [Next]_vars PROVE Made \subseteq Made'
  OBVIOUS
<1>1. backend \in BackendState /\ backend.created \in Nat
  BY TypeParts DEF OtherTypes, BackendState, Clients
<1>2. ASSUME backend'.created \in {backend.created, backend.created + 1}
      PROVE  Made \subseteq Made'
  BY <1>1, <1>2 DEF Made
<1>3. ASSUME NEW b \in BackendState, b.created = backend.created, NEW Q,
             StartFresh(b, Q)
      PROVE  Made \subseteq Made'
  <2> DEFINE made == [b EXCEPT !.created = @ + 1, !.client = b.created + 1]
  <2>1. \/ \E code : backend' = StartFailed(b, code)
        \/ b.created < ClientBound
             /\ (backend' = StartFailed(made, "other")
                  \/ backend' = [made EXCEPT !.started = "running"])
    BY <1>3 DEF StartFresh
  <2>2. CASE \E code : backend' = StartFailed(b, code)
    BY <1>2, <1>3, <2>2, StartFailedType
  <2>3. CASE b.created < ClientBound
               /\ (backend' = StartFailed(made, "other")
                    \/ backend' = [made EXCEPT !.started = "running"])
    <3>1. b.created + 1 \in Clients
      BY <1>1, <1>3, <2>3, LspAssumption DEF Clients
    <3>2. made \in BackendState /\ made.created = backend.created + 1
      BY <1>3, <3>1 DEF BackendState
    <3> HIDE DEF made
    <3>3. backend'.created = made.created
      BY <2>3, <3>2, StartFailedType DEF BackendState
    <3>. QED
      BY <1>2, <3>2, <3>3
  <2>. QED
    BY <2>1, <2>2, <2>3
<1>4. CASE Start
  BY <1>1, <1>3, <1>4 DEF Start
<1>5. ASSUME NEW q \in Queries, Query(q) PROVE Made \subseteq Made'
  BY <1>1, <1>2, <1>3, <1>5 DEF Query
<1>6. CASE RefreshRuntime
  <2> DEFINE b == [backend EXCEPT !.refreshRequired = FALSE,
                     !.started = "none", !.inner = 0, !.client = 0,
                     !.state = "refreshing"]
  <2>1. b \in BackendState /\ b.created = backend.created
    BY <1>1 DEF BackendState
  <2> HIDE DEF b
  <2>2. UNCHANGED backend \/ StartFresh(b, query)
    BY <1>6 DEF RefreshRuntime, b
  <2>. QED
    BY <1>2, <1>3, <2>1, <2>2
<1>7. ASSUME NEW c \in Clients, InitializeResumes(c) PROVE Made \subseteq Made'
  <2>1. \/ \E code : backend' = StartFailed(backend, code)
        \/ UNCHANGED backend
        \/ backend' = [backend EXCEPT !.inner = c, !.started = "done",
                                      !.state = "ready"]
    BY <1>7 DEF InitializeResumes
  <2>2. backend'.created = backend.created
    <3>1. CASE \E code : backend' = StartFailed(backend, code)
      BY <1>1, <3>1, StartFailedType
    <3>2. CASE UNCHANGED backend
      BY <3>2
    <3>3. CASE backend' = [backend EXCEPT !.inner = c, !.started = "done",
                                          !.state = "ready"]
      BY <1>1, <3>3 DEF BackendState
    <3>. QED
      BY <2>1, <3>1, <3>2, <3>3
  <2>. QED
    BY <1>2, <2>2
<1>8. CASE Shutdown
  <2>1. backend'.created = backend.created
    BY <1>1, <1>8 DEF Shutdown, BackendState
  <2>. QED
    BY <1>2, <2>1
<1>9. CASE UNCHANGED backend
  BY <1>2, <1>9
<1>10. UNCHANGED backend \/ Start \/ RefreshRuntime \/ Shutdown
       \/ (\E q \in Queries : Query(q)) \/ \E c \in Clients : InitializeResumes(c)
  BY DEF Next, vars, ShutdownResumes, ExitResumes, ForceShutdown, ChunkEnds,
         StartResumes, QueryResumes, RestartFires, WindowPasses, Timeout,
         ProtocolFailure, PartialFrame, HandleExit, ProcessError, Answer
<1>. QED
  BY <1>4, <1>5, <1>6, <1>7, <1>8, <1>9, <1>10

(* What a timer or an exit finds: nobody has an answer to look at.         *)
LEMMA QuietWaits ==
  ASSUME TypeInv, LspInv, Quiet
  PROVE  \A o \in Ops : wait[o].status \in {"idle", "pending"}
<1>1. \A o \in Ops : wait[o].status \in
        {"idle", "pending", "lost", "result", "modified", "rejected"}
  BY TypeParts DEF ClientTypes, Waiting
<1>2. \A o \in Ops : wait[o].status # "lost"
  BY DEF LspInv, PendingIsCurrent, Unsettled
<1>. QED
  BY <1>1, <1>2 DEF Quiet, Reactions, Settled

(* Every step keeps the invariant.                                         *)
LEMMA LspStep == TypeInv /\ LspInv /\ [Next]_vars => LspInv'
<1> SUFFICES ASSUME TypeInv, LspInv, [Next]_vars PROVE LspInv'
  OBVIOUS
<1>0. ClientTypes /\ OtherTypes
  BY TypeParts
<1>t. /\ lsp \in [Clients -> LspState] /\ wait \in [Ops -> Waiting]
      /\ proc \in [Procs -> ProcState] /\ backend \in BackendState
  BY <1>0 DEF ClientTypes, OtherTypes
<1>m. Made \subseteq Made'
  BY MadeGrows
<1>a. \A c \in Clients : Touched(c, lsp, wait, proc)
  BY <1>0, TouchedAsIs
<1>k. /\ \A o \in Ops : wait[o].status # "idle" =>
           wait[o].client \in Clients /\ wait[o].client \in Made
      /\ \A c \in Clients : wait[c].status # "idle" => wait[c].client = c
      /\ \A p \in Procs : proc[p].life # "none" =>
           proc[p].client \in Clients /\ proc[p].client \in Made
      /\ \A p \in Procs : p # 0
  BY <1>0, Known DEF ClientTypes, WaitsKnown, ProcsKnown
<1>r. Resting \in Waiting /\ Resting.status = "idle"
  BY DEF Resting, Waiting
<1>1. CASE UNCHANGED <<lsp, wait, proc>>
  BY <1>0, <1>1, <1>m, UnchangedSafe
<1>2. CASE Start
  BY <1>2, <1>m, <1>t, StartFreshSafe DEF Start
<1>3. ASSUME NEW q \in Queries, Query(q) PROVE LspInv'
  BY <1>1, <1>3, <1>m, <1>t, StartFreshSafe DEF Query
<1>4. CASE RefreshRuntime
  <2> DEFINE b == [backend EXCEPT !.refreshRequired = FALSE,
                     !.started = "none", !.inner = 0, !.client = 0,
                     !.state = "refreshing"]
  <2>1. b \in BackendState /\ b.created = backend.created
    BY <1>t DEF BackendState
  <2> HIDE DEF b
  <2>2. UNCHANGED <<lsp, wait, proc>> \/ StartFresh(b, query)
    BY <1>4 DEF RefreshRuntime, b
  <2>. QED
    BY <1>1, <1>m, <2>1, <2>2, StartFreshSafe
<1>5. ASSUME NEW c \in Clients, InitializeResumes(c) PROVE LspInv'
  <2> DEFINE w == [wait EXCEPT ![c] = Resting]
             e == wait[c].epoch
  <2>1. wait[c].status # "idle" /\ wait[c].client = c /\ c \in Made /\ c \in Ops
    BY <1>5, <1>k DEF InitializeResumes, Settled, Ops
  <2>2. /\ w \in [Ops -> Waiting] /\ w[c].status = "idle"
        /\ \A o \in Ops \ {c} : w[o] = wait[o]
    BY <1>r, <1>t, <2>1
  <2>3. \A o \in Ops : w[o].client = c => w[o].status = "idle"
    BY <2>1, <2>2 DEF LspInv, InitializeAlone
  <2>4. CASE Fail(c, e, TRUE, lsp, w, proc)
    <3>1. Touched(c, lsp, w, proc)
      BY <1>a, <2>2 DEF Touched, Ended
    <3>2. e \in Nat
      BY <1>t, <2>1 DEF Waiting
    <3>3. \A p \in Procs : ~Gone(p, proc)
      BY DEF Gone
    <3> HIDE DEF w, e
    <3>. QED
      BY <1>0, <1>m, <2>1, <2>3, <2>4, <3>1, <3>2, <3>3, FailSafe
  <2>5. CASE /\ wait[c].status # "rejected" /\ lsp[c].epoch = e /\ wait' = w
             /\ \/ /\ lsp' = [lsp EXCEPT ![c].state = "unavailable"]
                   /\ proc' = Kill(proc, lsp[c].proc)
                \/ /\ lsp' = [lsp EXCEPT ![c].state = "ready"]
                   /\ UNCHANGED proc
    <3>1. /\ lsp[c].proc # 0 /\ Alive(lsp[c].proc) /\ Current(lsp[c].proc)
          /\ ~lsp[c].stopped
      BY <2>1, <2>5 DEF LspInv, InitializeAnswered
    <3>2. lsp[c].proc \in Procs
      BY <1>t, <3>1 DEF LspState
    <3>3. lsp[c].timers = 0
      BY <1>t, <2>1, <2>5 DEF LspInv, RestartInv, LspState
    <3>4. /\ \A d \in Clients :
               /\ d # c => lsp'[d].state = lsp[d].state
               /\ lsp'[d].epoch = lsp[d].epoch /\ lsp'[d].proc = lsp[d].proc
               /\ lsp'[d].timers = lsp[d].timers
               /\ lsp'[d].stopping = lsp[d].stopping
               /\ lsp'[d].stopped = lsp[d].stopped
          /\ lsp'[c].state \in {"ready", "unavailable"}
          /\ lsp'[c].state = "ready" => UNCHANGED proc
      BY <1>t, <2>5 DEF LspState
    <3>5. \A p \in Procs :
            /\ proc'[p].client = proc[p].client
            /\ proc'[p].epoch = proc[p].epoch
            /\ proc'[p].life = "none" <=> proc[p].life = "none"
            /\ proc'[p].life = "live" => proc[p].life = "live"
            /\ Alive(p) => Alive(p)'
      BY <1>t, <2>5, KillEffect DEF Alive
    <3>6. lsp'[c].state = "ready" =>
            \E p \in Procs : lsp[c].proc = p /\ Alive(p)' /\ Current(p)
      BY <3>1, <3>2, <3>5
    <3> HIDE DEF w, e
    <3>7. wait'[c].status = "idle" /\ \A o \in Ops \ {c} : wait'[o] = wait[o]
      BY <2>2, <2>5
    <3>. QED
      BY <1>0, <1>m, <2>1, <3>1, <3>3, <3>4, <3>5, <3>6, <3>7, StateSafe
  <2>. QED
    BY <1>5, <2>4, <2>5 DEF InitializeResumes
<1>6. ASSUME NEW q \in Queries, StartResumes(q) PROVE LspInv'
  <2> DEFINE c == backend.inner
  <2>1. q \in Ops \ Clients
    BY Operations
  <2>2. UNCHANGED <<lsp, proc>>
    BY <1>6 DEF StartResumes
  <2>3. CASE UNCHANGED wait
    BY <1>1, <2>2, <2>3
  <2>4. CASE /\ c # 0 /\ lsp[c].state = "ready" /\ wait' = Send(wait, lsp, q, c)
    <3>1. c \in Clients
      BY <1>t, <2>4 DEF BackendState
    <3>2. wait[c].status = "idle"
      BY <2>4, <3>1 DEF LspInv, InitializeAlone
    <3>3. lsp[c].timers = 0
      BY <1>t, <2>4, <3>1 DEF LspInv, RestartsReplaceFailures, LspState
    <3> HIDE DEF c
    <3>. QED
      BY <1>0, <1>m, <1>t, <2>1, <2>2, <2>4, <3>1, <3>2, <3>3, SendEffect, SendSafe
  <2>. QED
    BY <1>6, <2>3, <2>4 DEF StartResumes
<1>7. ASSUME NEW q \in Queries, QueryResumes(q) PROVE LspInv'
  <2> DEFINE c == wait[q].client
  <2>1. /\ q \in Ops \ Clients /\ wait[q].status # "idle"
        /\ UNCHANGED <<lsp, proc>>
    BY <1>7, Operations DEF QueryResumes, Settled
  <2>2. c \in Clients /\ c \in Ops
    BY <1>k, <2>1, Operations
  <2>3. CASE wait' = [wait EXCEPT ![q] = Resting]
    <3>1. Touched(c, lsp', wait', proc')
      BY <1>a, <1>r, <1>t, <2>1, <2>2, <2>3 DEF Touched, Ended
    <3>2. Missed(c, wait', proc')
      BY <2>1 DEF Missed, Gone
    <3> HIDE DEF c
    <3>. QED
      BY <1>0, <1>m, <2>2, <3>1, <3>2, TouchedSafe
  <2>4. CASE wait[q].status = "modified" /\ wait' = Send(wait, lsp, q, c)
    <3>1. wait[c].status = "idle"
      BY <2>1, <2>2 DEF LspInv, InitializeAlone
    <3>2. lsp[c].timers = 0
      BY <1>t, <2>1, <2>2, <2>4 DEF LspInv, RestartInv, LspState
    <3> HIDE DEF c
    <3>3. /\ \A x \in Ops \ {q} : wait'[x] = wait[x]
          /\ wait'[q].client = c /\ wait'[q].status = "pending"
          /\ wait'[q].epoch = lsp[c].epoch
      BY <1>t, <2>1, <2>2, <2>4, SendEffect
    <3>. QED
      BY <1>0, <1>m, <2>1, <2>2, <3>1, <3>2, <3>3, SendSafe
  <2>. QED
    BY <1>7, <2>3, <2>4 DEF QueryResumes
<1>8. CASE Shutdown
  <2> DEFINE c == backend.client
  <2>1. c # 0 => c \in Clients
    BY <1>t DEF BackendState
  <2>2. CASE c # 0 /\ lsp[c].state # "ready" /\ TerminateNow(c, lsp, wait)
    <3>1. \A o \in Ops : Ended(o, wait)
      BY DEF Ended
    <3> HIDE DEF c
    <3>. QED
      BY <1>0, <1>m, <1>t, <2>1, <2>2, <3>1, TerminateSafe
  <2>3. CASE /\ c # 0 /\ (lsp[c].proc = 0 \/ lsp[c].stopped)
             /\ lsp' = [lsp EXCEPT ![c] = [Invalidated(@) EXCEPT !.timers = 0]]
             /\ wait' = RejectInflight(wait, c) /\ UNCHANGED proc
    <3> DEFINE l == [Invalidated(lsp[c]) EXCEPT !.timers = 0]
    <3>1. c \in Clients /\ lsp[c] \in LspState
      BY <1>t, <2>1, <2>3
    <3>2. lsp[c].state # "ready"
      BY <1>k, <2>3, <3>1 DEF LspInv, StoppedInv, ReadyHasProcess
    <3>3. \A p \in Procs : proc[p].life = "live" => proc[p].client # c
      BY <1>k, <2>3, <3>1 DEF LspInv, StoppedInv, ServersNotAbandoned
    <3>4. lsp' = [lsp EXCEPT ![c] = l]
      BY <2>3
    <3>5. /\ l.epoch = lsp[c].epoch + 1 /\ l.timers = 0
          /\ l.proc = lsp[c].proc /\ l.state = lsp[c].state
      BY <3>1, InvalidatedEffect
    <3> HIDE DEF c, l
    <3>6. \A o \in Ops : Ended(o, wait)
      BY DEF Ended
    <3>7. \A o \in Ops :
            /\ wait'[o].client = wait[o].client
            /\ wait'[o].epoch = wait[o].epoch
            /\ wait'[o].status =
                 IF wait[o].client = c /\ wait[o].status \in Unsettled
                 THEN "rejected" ELSE wait[o].status
      BY <1>t, <2>3, <3>1, RejectEffect
    <3>8. /\ \A d \in Clients \ {c} : lsp'[d] = lsp[d]
          /\ lsp'[c] = l
      BY <1>t, <3>1, <3>4
    <3>. QED
      BY <1>0, <1>m, <1>t, <2>3, <3>1, <3>2, <3>3, <3>5, <3>6, <3>7, <3>8,
         InvalidatedSafe
  <2>4. CASE /\ c # 0 /\ lsp[c].state = "ready"
             /\ lsp' = [lsp EXCEPT ![c].timers = 0, ![c].stopping = TRUE]
             /\ wait' = Send(wait, lsp, Closer, c) /\ UNCHANGED proc
    <3>1. c \in Clients
      BY <2>1, <2>4
    <3>2. wait[c].status = "idle"
      BY <2>4, <3>1 DEF LspInv, InitializeAlone
    <3>3. lsp[c].timers = 0
      <4>1. lsp[c].timers \in Nat
        BY <1>t, <3>1 DEF LspState
      <4>2. lsp[c].timers <= 1 /\ lsp[c].timers # 1
        BY <2>4, <3>1 DEF LspInv, RestartsReplaceFailures
      <4>. QED
        BY <4>1, <4>2
    <3>4. /\ \A d \in Clients :
               /\ lsp'[d].state = lsp[d].state /\ lsp'[d].epoch = lsp[d].epoch
               /\ lsp'[d].proc = lsp[d].proc /\ lsp'[d].timers = lsp[d].timers
               /\ lsp'[d].stopped = lsp[d].stopped
          /\ \A d \in Clients \ {c} : lsp'[d].stopping = lsp[d].stopping
      BY <1>t, <2>4, <3>1, <3>3 DEF LspState
    <3>5. Closer \in Ops \ Clients
      BY Operations
    <3> HIDE DEF c
    <3>. QED
      <4>1. /\ \A x \in Ops \ {Closer} : wait'[x] = wait[x]
            /\ wait'[Closer].client = c /\ wait'[Closer].status = "pending"
            /\ wait'[Closer].epoch = lsp[c].epoch
        BY <1>t, <2>4, <3>1, <3>5, SendEffect
      <4>. QED
        BY <1>0, <1>m, <2>4, <3>1, <3>2, <3>3, <3>4, <3>5, <4>1, SendSafe
  <2>5. CASE UNCHANGED <<lsp, wait, proc>>
    BY <1>1, <2>5
  <2>. QED
    BY <1>8, <2>2, <2>3, <2>4, <2>5 DEF Shutdown
<1>9. CASE ShutdownResumes
  <2> DEFINE c == wait[Closer].client
             w == [wait EXCEPT ![Closer] = Resting]
  <2>1. wait[Closer].status # "idle" /\ Closer \in Ops
    BY <1>9, Operations DEF ShutdownResumes, Settled
  <2>2. c \in Clients
    BY <1>k, <2>1
  <2>3. w \in [Ops -> Waiting] /\ \A o \in Ops : Ended(o, w)
    BY <1>r, <1>t, <2>1 DEF Ended
  <2>4. CASE /\ wait' = w /\ UNCHANGED lsp
             /\ proc' = proc \/ proc' = Kill(proc, lsp[c].proc)
    <3>1. proc' \in [Procs -> ProcState] /\ \A p \in Procs : Withdrawn(p, proc')
      BY <1>t, <2>4, KillEffect DEF Withdrawn
    <3>2. \A p \in Procs : ~Gone(p, proc')
      BY <1>t, <2>4, KillEffect DEF Gone
    <3> HIDE DEF c, w
    <3>3. Touched(c, lsp', wait', proc')
      BY <1>t, <2>2, <2>3, <2>4, <3>1, <3>2 DEF Touched, Ended
    <3>. QED
      BY <1>0, <1>m, <2>2, <3>2, <3>3, TouchedSafe DEF Missed
  <2>5. CASE lsp[c].state # "ready" /\ TerminateNow(c, lsp, w)
    <3> HIDE DEF c, w
    <3>. QED
      BY <1>0, <1>m, <2>2, <2>3, <2>5, TerminateSafe
  <2>. QED
    BY <1>9, <2>4, <2>5 DEF ShutdownResumes
<1>10. ASSUME NEW o \in Ops, Timeout(o) PROVE LspInv'
  <2> DEFINE c == wait[o].client
             n == lsp[c].timeouts + 1
             L == [lsp EXCEPT ![c].timeouts =
                     IF n < MaxTimeouts THEN n ELSE MaxTimeouts]
             W == [wait EXCEPT ![o].status = "rejected"]
  <2>1. wait[o].status = "pending" /\ Quiet
    BY <1>10 DEF Timeout
  <2>2. c \in Clients /\ c \in Made /\ wait[o].epoch \in Nat
    BY <1>k, <1>t, <2>1 DEF Waiting
  <2>3. lsp[c].epoch = wait[o].epoch
    BY <2>1 DEF LspInv, PendingIsCurrent, Unsettled
  <2>4. (IF n < MaxTimeouts THEN n ELSE MaxTimeouts) \in 0..MaxTimeouts
    BY <1>t, <2>2 DEF LspState, MaxTimeouts
  <2>5. Touched(c, L, W, proc)
    <3>1. L \in [Clients -> LspState]
      BY <1>t, <2>2, <2>4 DEF LspState
    <3>2. W \in [Ops -> Waiting] /\ \A x \in Ops : Ended(x, W)
      BY <1>t, <2>1 DEF Waiting, Ended
    <3>3. \A d \in Clients :
            /\ L[d].state = lsp[d].state /\ L[d].epoch = lsp[d].epoch
            /\ L[d].proc = lsp[d].proc /\ L[d].timers = lsp[d].timers
            /\ L[d].stopping = lsp[d].stopping
            /\ L[d].stopped = lsp[d].stopped
      BY <1>t, <2>2 DEF LspState
    <3> HIDE DEF c, n, L, W
    <3>. QED
      BY <1>a, <2>2, <3>1, <3>2, <3>3 DEF Touched
  <2>6. \A x \in Ops : W[x].status \notin {"result", "modified"}
    BY <1>t, <2>1, QuietWaits DEF Waiting
  <2>7. \A p \in Procs : ~Gone(p, proc)
    BY DEF Gone
  <2>8. \/ Fail(c, wait[o].epoch, TRUE, L, W, proc)
        \/ lsp' = L /\ wait' = W /\ UNCHANGED proc
    <3>1. CASE n >= MaxTimeouts
      BY <1>10, <2>3, <3>1 DEF Timeout
    <3>2. CASE ~(n >= MaxTimeouts)
      BY <1>10, <2>3, <3>2 DEF Timeout
    <3>. QED
      BY <3>1, <3>2
  <2> HIDE DEF c, n, L, W
  <2>9. CASE Fail(c, wait[o].epoch, TRUE, L, W, proc)
    BY <1>0, <1>m, <2>2, <2>5, <2>6, <2>7, <2>9, FailSafe
  <2>10. CASE lsp' = L /\ wait' = W /\ UNCHANGED proc
    <3>1. Touched(c, lsp', wait', proc')
      BY <2>5, <2>10
    <3>2. Missed(c, wait', proc')
      BY <2>7, <2>10 DEF Missed
    <3>. QED
      BY <1>0, <1>m, <2>2, <3>1, <3>2, TouchedSafe
  <2>. QED
    BY <2>8, <2>9, <2>10
<1>11. ASSUME NEW c \in Clients, RestartFires(c) PROVE LspInv'
  <2> DEFINE L == [lsp EXCEPT ![c].timers = @ - 1]
  <2>1. /\ Quiet /\ lsp[c].timers > 0
        /\ \/ ~backend.disposed /\ Spawn(c, L, wait)
           \/ lsp' = L /\ UNCHANGED <<wait, proc>>
    BY <1>11 DEF RestartFires
  <2>2. lsp[c].timers = 1
    BY <1>t, <2>1 DEF LspInv, RestartsReplaceFailures, LspState
  <2>3. lsp[c].state = "failed"
    BY <2>2 DEF LspInv, RestartsReplaceFailures
  <2>4. /\ \A o \in Ops : wait[o].status # "idle" => wait[o].client # c
        /\ \A r \in Procs : proc[r].life = "live" => proc[r].client # c
    <3>1. \A o \in Ops : wait[o].status \in {"idle", "pending"}
      BY <2>1, QuietWaits
    <3>. QED
      BY <2>1, <3>1 DEF LspInv, RestartInv
  <2>5. L \in [Clients -> LspState]
    BY <1>t, <2>2 DEF LspState
  <2>6. /\ \A d \in Clients \ {c} : L[d] = lsp[d]
        /\ L[c].epoch = lsp[c].epoch /\ L[c].proc = lsp[c].proc
        /\ L[c].timers = 0 /\ L[c].state = lsp[c].state
        /\ L[c].stopping = lsp[c].stopping /\ L[c].stopped = lsp[c].stopped
    BY <1>t, <2>2 DEF LspState
  <2> HIDE DEF L
  <2>7. CASE ~backend.disposed /\ Spawn(c, L, wait)
    <3>1. ~L[c].stopping
      BY <1>0, <2>6, <2>7 DEF ClientTypes, StoppingInv
    <3>2. PICK p \in Procs : Spawned(c, p, L, wait, lsp', wait', proc')
      BY <1>t, <2>5, <2>7, <3>1, SpawnEffect
    <3>. QED
      BY <1>0, <1>m, <2>4, <2>6, <3>2, SpawnSafe
  <2>8. CASE lsp' = L /\ UNCHANGED <<wait, proc>>
    BY <1>0, <1>m, <2>3, <2>6, <2>8, Disarmed
  <2>. QED
    BY <2>1, <2>7, <2>8
<1>12. CASE ForceShutdown
  <2> DEFINE c == backend.client
             L == [lsp EXCEPT ![c].stopping = FALSE]
  <2>1. /\ Quiet /\ closing = "exiting"
        /\ \/ UNCHANGED <<lsp, wait, proc>>
           \/ Fail(c, lsp[c].epoch, TRUE, L, wait, proc)
    BY <1>12 DEF ForceShutdown
  <2>2. c \in Clients /\ c \in Made
    BY <1>0, <1>t, <2>1 DEF OtherTypes, BackendKnown, BackendState
  <2>3. Touched(c, L, wait, proc)
    <3>1. L \in [Clients -> LspState]
      BY <1>t, <2>2 DEF LspState
    <3>2. \A d \in Clients :
            /\ L[d].state = lsp[d].state /\ L[d].epoch = lsp[d].epoch
            /\ L[d].proc = lsp[d].proc /\ L[d].timers = lsp[d].timers
            /\ L[d].stopping => lsp[d].stopping
            /\ L[d].stopped = lsp[d].stopped
      BY <1>t, <2>2 DEF LspState
    <3> HIDE DEF c, L
    <3>. QED
      BY <1>a, <2>2, <3>1, <3>2 DEF Touched
  <2>4. \A x \in Ops : wait[x].status \notin {"result", "modified"}
    BY <2>1, QuietWaits
  <2>5. \A p \in Procs : ~Gone(p, proc)
    BY DEF Gone
  <2>6. lsp[c].epoch \in Nat
    BY <1>t, <2>2 DEF LspState
  <2> HIDE DEF c, L
  <2>7. CASE Fail(c, lsp[c].epoch, TRUE, L, wait, proc)
    BY <1>0, <1>m, <2>2, <2>3, <2>4, <2>5, <2>6, <2>7, FailSafe
  <2>. QED
    BY <1>1, <2>1, <2>7
<1>13. ASSUME NEW c \in Clients, WindowPasses(c) PROVE LspInv'
  <2> DEFINE l == [lsp[c] EXCEPT !.crashes = 0, !.timeouts = 0]
  <2>1. lsp' = [lsp EXCEPT ![c] = l] /\ UNCHANGED <<wait, proc>>
    BY <1>13, <1>t DEF WindowPasses
  <2>2. 0 \in 0..(RestartDelays + 1) /\ 0 \in 0..MaxTimeouts
    BY LspAssumption DEF MaxTimeouts
  <2>3. /\ l \in LspState /\ l.state = lsp[c].state /\ l.epoch = lsp[c].epoch
        /\ l.proc = lsp[c].proc /\ l.timers = lsp[c].timers
        /\ l.stopping = lsp[c].stopping /\ l.stopped = lsp[c].stopped
    BY <1>t, <2>2 DEF LspState
  <2> HIDE DEF l
  <2>4. Touched(c, lsp', wait', proc')
    BY <1>a, <1>t, <2>1, <2>3 DEF Touched
  <2>5. Missed(c, wait', proc')
    BY <2>1 DEF Missed, Gone
  <2>. QED
    BY <1>0, <1>m, <2>4, <2>5, TouchedSafe
<1>b. ASSUME NEW c \in Clients, NEW v \in BOOLEAN
      PROVE  Touched(c, [lsp EXCEPT ![c].buffered = v], wait, proc)
  <2> DEFINE L == [lsp EXCEPT ![c].buffered = v]
  <2>1. /\ L \in [Clients -> LspState]
        /\ \A d \in Clients :
             /\ L[d].state = lsp[d].state /\ L[d].epoch = lsp[d].epoch
             /\ L[d].proc = lsp[d].proc /\ L[d].timers = lsp[d].timers
             /\ L[d].stopping = lsp[d].stopping
             /\ L[d].stopped = lsp[d].stopped
    BY <1>t, <1>b DEF LspState
  <2> HIDE DEF L
  <2>2. Touched(c, L, wait, proc)
    BY <1>a, <1>b, <2>1 DEF Touched
  <2>. QED
    BY <2>2 DEF L
<1>14. ASSUME NEW p \in Procs, NEW o \in Ops,
              NEW r \in {"result", "modified", "rejected"}, Answer(p, o, r)
       PROVE  LspInv'
  <2> DEFINE c == proc[p].client
             L == [lsp EXCEPT ![c].buffered = FALSE]
  <2>1. /\ wait[o].status \in Unsettled /\ Alive(p)
        /\ wait' = [wait EXCEPT ![o].status = r]
        /\ lsp' = L /\ UNCHANGED proc
    BY <1>14 DEF Answer, Reading
  <2>2. c \in Clients
    BY <1>k, <2>1 DEF Alive
  <2>3. /\ wait' \in [Ops -> Waiting] /\ wait'[o].status = r
        /\ \A x \in Ops :
             /\ x # o => wait'[x].status = wait[x].status
             /\ wait'[x].client = wait[x].client
             /\ wait'[x].epoch = wait[x].epoch
    BY <1>t, <2>1 DEF Waiting
  <2>4. \A d \in Clients :
          /\ L[d].state = lsp[d].state /\ L[d].epoch = lsp[d].epoch
          /\ L[d].proc = lsp[d].proc /\ L[d].timers = lsp[d].timers
          /\ L[d].stopped = lsp[d].stopped
          /\ L[d].stopping = lsp[d].stopping
    BY <1>t, <2>2 DEF LspState
  <2> HIDE DEF c, L
  <2>. QED
    BY <1>0, <1>m, <2>1, <2>3, <2>4, AnswerSafe
<1>15. ASSUME NEW p \in Procs, PartialFrame(p) PROVE LspInv'
  <2> DEFINE c == proc[p].client
             L == [lsp EXCEPT ![c].buffered = TRUE]
  <2>1. Alive(p) /\ lsp' = L /\ UNCHANGED <<wait, proc>>
    BY <1>15 DEF PartialFrame, Reading
  <2>2. c \in Clients
    BY <1>k, <2>1 DEF Alive
  <2>3. Touched(c, L, wait, proc)
    BY <1>b, <2>2
  <2> HIDE DEF c, L
  <2>4. Touched(c, lsp', wait', proc') /\ Missed(c, wait', proc')
    BY <2>1, <2>3 DEF Missed, Gone
  <2>. QED
    BY <1>0, <1>m, <2>2, <2>4, TouchedSafe
<1>16. ASSUME NEW p \in Procs, ProtocolFailure(p) PROVE LspInv'
  <2> DEFINE c == proc[p].client
             L(v) == [lsp EXCEPT ![c].buffered = v]
  <2>1. /\ Alive(p)
        /\ \E v \in BOOLEAN : Fail(c, proc[p].epoch, FALSE, L(v), wait, proc)
    BY <1>16 DEF ProtocolFailure, Reading
  <2>2. c \in Clients /\ c \in Made /\ proc[p].epoch \in Nat
    BY <1>k, <1>t, <2>1 DEF Alive, ProcState
  <2>3. \A v \in BOOLEAN : Touched(c, L(v), wait, proc)
    BY <1>b, <2>2
  <2>4. \A r \in Procs : ~Gone(r, proc)
    BY DEF Gone
  <2> HIDE DEF c, L
  <2>5. PICK v \in BOOLEAN : Fail(c, proc[p].epoch, FALSE, L(v), wait, proc)
    BY <2>1
  <2>. QED
    BY <1>0, <1>m, <2>2, <2>3, <2>4, <2>5, FailSafe
<1>17. ASSUME NEW p \in Procs, HandleExit(p) PROVE LspInv'
  <2> DEFINE c == proc[p].client
             L == [lsp EXCEPT ![c].stopped = TRUE]
             P == [proc EXCEPT ![p].life = "gone"]
             F == [L EXCEPT ![c].state = "failed"]
  <2>1. Quiet /\ proc[p].life \in {"live", "killed"}
    BY <1>17 DEF HandleExit, Alive
  <2>2. c \in Clients /\ c \in Made /\ proc[p].epoch \in Nat
    BY <1>k, <1>t, <2>1 DEF ProcState
  <2>3. \A x \in Ops : wait[x].status \in {"idle", "pending"}
    BY <2>1, QuietWaits
  <2>4. /\ P \in [Procs -> ProcState] /\ Gone(p, P)
        /\ \A r \in Procs : Withdrawn(r, P)
        /\ \A r \in Procs : Gone(r, P) => r = p
    BY <1>t, <2>1 DEF ProcState, Withdrawn, Gone
  <2>5. Touched(c, lsp, wait, P)
    BY <1>a, <2>2, <2>4 DEF Touched
  <2>6. /\ L \in [Clients -> LspState]
        /\ \A d \in Clients :
             /\ L[d].state = lsp[d].state /\ L[d].epoch = lsp[d].epoch
             /\ L[d].proc = lsp[d].proc /\ L[d].timers = lsp[d].timers
             /\ L[d].stopping = lsp[d].stopping
             /\ d # c => L[d].stopped = lsp[d].stopped
    BY <1>t, <2>2 DEF LspState
  <2>7. /\ F \in [Clients -> LspState] /\ F[c].state = "failed"
        /\ \A d \in Clients :
             /\ d # c => F[d].state = lsp[d].state
             /\ F[d].epoch = lsp[d].epoch
             /\ F[d].proc = lsp[d].proc /\ F[d].timers = lsp[d].timers
             /\ F[d].stopping = lsp[d].stopping
             /\ d # c => F[d].stopped = lsp[d].stopped
    <3> HIDE DEF c, L
    <3>. QED
      BY <2>2, <2>6 DEF LspState
  <2>8. \/ ~Current(p) /\ proc' = P /\ UNCHANGED <<lsp, wait>>
        \/ /\ Current(p)
           /\ \/ \E restart \in BOOLEAN :
                   Fail(c, proc[p].epoch, restart, L, wait, P)
              \/ /\ lsp[c].stopping /\ lsp' = F /\ proc' = P /\ UNCHANGED wait
    BY <1>17 DEF HandleExit
  <2>9. Current(p) => proc[p].epoch = lsp[c].epoch
    BY DEF Current
  <2>d. proc[p].client = c
    OBVIOUS
  <2> HIDE DEF c, L, P, F
  <2>10. CASE ~Current(p) /\ proc' = P /\ UNCHANGED <<lsp, wait>>
    <3>1. Touched(c, lsp', wait', proc') /\ Missed(c, wait', proc')
      BY <2>4, <2>5, <2>10 DEF Missed
    <3>. QED
      BY <1>0, <1>m, <2>2, <3>1, TouchedSafe
  <2>11. ASSUME Current(p)
         PROVE  /\ lsp[c].proc = p
                /\ \A r \in Procs : P[r].life = "live" => P[r].client # c
    <3>1. lsp[c].proc = p
      BY <2>1, <2>9, <2>11, <2>d DEF LspInv, EpochInv, ProcEpochs
    <3>2. \A r \in Procs : P[r].life = "live" =>
            r # p /\ proc[r].life = "live" /\ P[r].client = proc[r].client
      BY <2>4 DEF Withdrawn, Gone
    <3>. QED
      BY <3>1, <3>2 DEF LspInv, ServersNotAbandoned
  <2>12. ASSUME Current(p), NEW restart \in BOOLEAN,
                Fail(c, proc[p].epoch, restart, L, wait, P)
         PROVE  LspInv'
    <3>1. Touched(c, L, wait, P)
      BY <2>2, <2>4, <2>5, <2>6, <2>11, <2>12 DEF Touched
    <3>. QED
      BY <1>0, <1>m, <2>2, <2>3, <2>4, <2>9, <2>12, <3>1, FailSafe
  <2>13. CASE /\ Current(p) /\ lsp[c].stopping
              /\ lsp' = F /\ proc' = P /\ UNCHANGED wait
    <3>1. wait'[c].status = "idle"
      BY <2>2, <2>3, <2>13, Operations DEF LspInv, InitializePending
    <3>2. \A r \in Procs :
            /\ proc'[r].client = proc[r].client
            /\ proc'[r].epoch = proc[r].epoch
            /\ proc'[r].life = "none" <=> proc[r].life = "none"
            /\ proc'[r].life = "live" => proc[r].life = "live"
            /\ proc[r].client # c /\ Alive(r) => Alive(r)'
      BY <2>4, <2>13, <2>d DEF Withdrawn, Gone, Alive
    <3>3. lsp'[c].state = "failed"
      BY <2>7, <2>13
    <3>4. \A r \in Procs : proc'[r].life = "live" => proc[r].client # c
      BY <2>11, <2>13, <3>2
    <3>5. /\ \A d \in Clients :
               /\ d # c => lsp'[d].state = lsp[d].state
               /\ lsp'[d].epoch = lsp[d].epoch /\ lsp'[d].proc = lsp[d].proc
               /\ lsp'[d].timers = lsp[d].timers
               /\ lsp'[d].stopping = lsp[d].stopping
          /\ \A d \in Clients \ {c} : lsp'[d].stopped = lsp[d].stopped
          /\ \A o \in Ops \ {c} : wait'[o] = wait[o]
      BY <2>7, <2>13
    <3>. QED
      BY <1>0, <1>m, <2>2, <3>1, <3>2, <3>3, <3>4, <3>5, StateSafe
  <2>. QED
    BY <2>8, <2>10, <2>12, <2>13
<1>18. ASSUME NEW p \in Procs, ProcessError(p) PROVE LspInv'
  <2> DEFINE c == proc[p].client
             P == [proc EXCEPT ![p].life = "gone"]
  <2>1. /\ Quiet /\ proc[p].life = "live"
        /\ Fail(c, proc[p].epoch, TRUE, lsp, wait, P)
    BY <1>18 DEF ProcessError
  <2>2. c \in Clients /\ c \in Made /\ proc[p].epoch \in Nat
    BY <1>k, <1>t, <2>1 DEF ProcState
  <2>3. \A x \in Ops : wait[x].status \in {"idle", "pending"}
    BY <2>1, QuietWaits
  <2>4. /\ P \in [Procs -> ProcState]
        /\ \A r \in Procs : Withdrawn(r, P)
        /\ \A r \in Procs : Gone(r, P) => r = p
    BY <1>t, <2>1 DEF ProcState, Withdrawn, Gone
  <2>5. Touched(c, lsp, wait, P)
    BY <1>a, <2>2, <2>4 DEF Touched
  <2>6. Current(p) => proc[p].epoch = lsp[c].epoch
    BY DEF Current
  <2> HIDE DEF c, P
  <2>. QED
    BY <1>0, <1>m, <2>1, <2>2, <2>3, <2>4, <2>5, <2>6, FailSafe
<1>19. CASE ExitResumes \/ ChunkEnds \/ UNCHANGED vars
  BY <1>1, <1>19 DEF ExitResumes, ChunkEnds, vars
<1>. QED
  BY <1>2, <1>3, <1>4, <1>5, <1>6, <1>7, <1>8, <1>9, <1>10, <1>11, <1>12,
     <1>13, <1>14, <1>15, <1>16, <1>17, <1>18, <1>19 DEF Next

-----------------------------------------------------------------------------
(* What no step does.                                                      *)

(* A failure leaves an unavailable client as it is.                        *)
LEMMA FailKeepsUnavailable ==
  ASSUME NEW L \in [Clients -> LspState], NEW W, NEW P, NEW c \in Clients,
         NEW d \in Clients, NEW e, NEW restart, Fail(d, e, restart, L, W, P),
         L[c].state = "unavailable"
  PROVE  lsp'[c].state = "unavailable"
BY DEF Fail, Down

(* A failure spawns nothing.                                               *)
LEMMA FailSpawnsNothing ==
  ASSUME NEW P \in [Procs -> ProcState], NEW L, NEW W, NEW d, NEW e,
         NEW restart, Fail(d, e, restart, L, W, P),
         NEW p \in Procs, P[p].life = "none"
  PROVE  proc'[p].life = "none"
<1>1. \A q : Kill(P, q)[p].life = "none"
  BY KillEffect
<1>. QED
  BY <1>1 DEF Fail

(* Before the shutdown no step makes an unavailable client anything else.  *)
LEMMA UnavailableKept ==
  ASSUME TypeInv, LspInv, [Next]_vars, ~backend.disposed,
         NEW c \in Clients, lsp[c].state = "unavailable"
  PROVE  lsp'[c].state = "unavailable"
<1>0. ClientTypes /\ OtherTypes
  BY TypeParts
<1>t. /\ lsp \in [Clients -> LspState] /\ wait \in [Ops -> Waiting]
      /\ proc \in [Procs -> ProcState] /\ backend \in BackendState
  BY <1>0 DEF ClientTypes, OtherTypes
<1>k. /\ \A o \in Ops : wait[o].status # "idle" => wait[o].client \in Clients
      /\ \A p \in Procs : proc[p].life # "none" => proc[p].client \in Clients
  BY <1>0, Known
<1>u. c \in Made /\ wait[c].status \in {"idle", "rejected"}
  BY DEF LspInv, UnavailableInv
<1>1. CASE UNCHANGED lsp
  BY <1>1
<1>2. ASSUME NEW b \in BackendState, b.created = backend.created, NEW Q,
             StartFresh(b, Q)
      PROVE  lsp'[c].state = "unavailable"
  <2> DEFINE made == [b EXCEPT !.created = @ + 1, !.client = b.created + 1]
  <2>1. CASE b.created < ClientBound /\ Spawn(b.created + 1, lsp, wait)
    <3>1. b.created + 1 \in Clients /\ b.created + 1 \notin Made
      BY <1>2, <2>1, LspAssumption DEF Clients, Made, BackendState
    <3> DEFINE d == b.created + 1
    <3>2. d \in Clients /\ d # c /\ ~lsp[d].stopping
      BY <1>0, <1>u, <3>1 DEF ClientTypes, Unmade
    <3>3. Spawn(d, lsp, wait)
      BY <2>1
    <3> HIDE DEF d
    <3>4. \E p \in Procs : Spawned(d, p, lsp, wait, lsp', wait', proc')
      BY <1>t, <3>2, <3>3, SpawnEffect
    <3>. QED
      BY <3>2, <3>4 DEF Spawned
  <2>2. made.client = b.created + 1
    BY <1>2 DEF BackendState
  <2>. QED
    BY <1>1, <1>2, <2>1, <2>2 DEF StartFresh
<1>3. CASE Start \/ \E q \in Queries : Query(q)
  BY <1>1, <1>2, <1>3, <1>t DEF Start, Query
<1>4. CASE RefreshRuntime
  <2> DEFINE b == [backend EXCEPT !.refreshRequired = FALSE,
                     !.started = "none", !.inner = 0, !.client = 0,
                     !.state = "refreshing"]
  <2>1. b \in BackendState /\ b.created = backend.created
    BY <1>t DEF BackendState
  <2> HIDE DEF b
  <2>2. UNCHANGED lsp \/ StartFresh(b, query)
    BY <1>4 DEF RefreshRuntime, b
  <2>. QED
    BY <1>1, <1>2, <2>1, <2>2
<1>5. ASSUME NEW d \in Clients, InitializeResumes(d)
      PROVE  lsp'[c].state = "unavailable"
  <2>1. CASE d = c
    <3>1. wait[c].status = "rejected"
      BY <1>5, <1>u, <2>1 DEF InitializeResumes, Settled
    <3>2. Fail(c, wait[c].epoch, TRUE, lsp, [wait EXCEPT ![c] = Resting], proc)
      BY <1>5, <2>1, <3>1 DEF InitializeResumes
    <3>. QED
      BY <1>t, <3>2, FailKeepsUnavailable
  <2>2. CASE d # c
    <3>1. \/ Fail(d, wait[d].epoch, TRUE, lsp, [wait EXCEPT ![d] = Resting], proc)
          \/ lsp' = [lsp EXCEPT ![d].state = "unavailable"]
          \/ lsp' = [lsp EXCEPT ![d].state = "ready"]
      BY <1>5 DEF InitializeResumes
    <3>. QED
      BY <1>t, <2>2, <3>1, FailKeepsUnavailable
  <2>. QED
    BY <2>1, <2>2
<1>6. CASE Shutdown
  <2> DEFINE d == backend.client
             l == [Invalidated(lsp[d]) EXCEPT !.timers = 0]
  <2>1. \/ UNCHANGED lsp
        \/ d # 0 /\ lsp' = [lsp EXCEPT ![d] = l]
        \/ d # 0 /\ lsp' = [lsp EXCEPT ![d].timers = 0, ![d].stopping = TRUE]
    BY <1>6 DEF Shutdown, TerminateNow
  <2>2. d # 0 => d \in Clients
    BY <1>t DEF BackendState
  <2>3. CASE d # 0 /\ lsp' = [lsp EXCEPT ![d] = l]
    <3>1. l.state = lsp[d].state
      BY <1>t, <2>2, <2>3, InvalidatedEffect
    <3> HIDE DEF d, l
    <3>. QED
      BY <1>t, <2>3, <3>1
  <2>4. CASE d # 0 /\ lsp' = [lsp EXCEPT ![d].timers = 0, ![d].stopping = TRUE]
    BY <1>t, <2>2, <2>4 DEF LspState
  <2>. QED
    BY <1>1, <2>1, <2>3, <2>4
<1>7. CASE ShutdownResumes
  <2>1. wait[Closer].status # "idle" /\ Closer \in Ops
    BY <1>7, Operations DEF ShutdownResumes, Settled
  <2>. QED
    BY <1>0, <2>1 DEF ClientTypes, WaitsKnown
<1>8. ASSUME NEW o \in Ops, Timeout(o) PROVE lsp'[c].state = "unavailable"
  <2> DEFINE d == wait[o].client
             n == lsp[d].timeouts + 1
             L == [lsp EXCEPT ![d].timeouts =
                     IF n < MaxTimeouts THEN n ELSE MaxTimeouts]
             W == [wait EXCEPT ![o].status = "rejected"]
  <2>1. \/ UNCHANGED lsp \/ lsp' = L
        \/ Fail(d, wait[o].epoch, TRUE, L, W, proc)
    BY <1>8 DEF Timeout
  <2>2. d \in Clients
    BY <1>8, <1>k DEF Timeout
  <2>3. (IF n < MaxTimeouts THEN n ELSE MaxTimeouts) \in 0..MaxTimeouts
    BY <1>t, <2>2 DEF LspState, MaxTimeouts
  <2>4. L \in [Clients -> LspState] /\ L[c].state = "unavailable"
    BY <1>t, <2>2, <2>3 DEF LspState
  <2> HIDE DEF d, L, W
  <2>. QED
    BY <2>1, <2>2, <2>4, FailKeepsUnavailable
<1>9. ASSUME NEW d \in Clients, RestartFires(d)
      PROVE  lsp'[c].state = "unavailable"
  <2> DEFINE L == [lsp EXCEPT ![d].timers = @ - 1]
  <2>1. lsp[d].timers = 1
    BY <1>9, <1>t DEF RestartFires, LspInv, RestartsReplaceFailures, LspState
  <2>2. d # c
    BY <2>1 DEF LspInv, RestartsReplaceFailures
  <2>3. L \in [Clients -> LspState] /\ L[c] = lsp[c] /\ ~L[d].stopping
    BY <1>0, <1>t, <2>1, <2>2 DEF LspState, ClientTypes, StoppingInv
  <2>4. lsp' = L \/ Spawn(d, L, wait)
    BY <1>9 DEF RestartFires
  <2> HIDE DEF L
  <2>5. CASE Spawn(d, L, wait)
    <3>1. \E p \in Procs : Spawned(d, p, L, wait, lsp', wait', proc')
      BY <1>t, <2>3, <2>5, SpawnEffect
    <3>. QED
      BY <2>2, <2>3, <3>1 DEF Spawned
  <2>. QED
    BY <2>3, <2>4, <2>5
<1>10. CASE ForceShutdown
  BY <1>0, <1>10 DEF ForceShutdown, OtherTypes, BackendKnown
<1>11. ASSUME NEW d \in Clients, WindowPasses(d)
       PROVE  lsp'[c].state = "unavailable"
  BY <1>11, <1>t DEF WindowPasses, LspState
<1>12. ASSUME NEW p \in Procs, proc[p].client \in Clients,
              NEW v \in BOOLEAN, NEW W, NEW P, NEW e, NEW restart,
              LET L == [lsp EXCEPT ![proc[p].client].buffered = v] IN
              lsp' = L \/ Fail(proc[p].client, e, restart, L, W, P)
       PROVE  lsp'[c].state = "unavailable"
  <2> DEFINE L == [lsp EXCEPT ![proc[p].client].buffered = v]
  <2>1. L \in [Clients -> LspState] /\ L[c].state = "unavailable"
    BY <1>12, <1>t DEF LspState
  <2>2. lsp' = L \/ Fail(proc[p].client, e, restart, L, W, P)
    BY <1>12
  <2> HIDE DEF L
  <2>. QED
    BY <1>12, <2>1, <2>2, FailKeepsUnavailable
<1>13. ASSUME NEW p \in Procs,
              \/ PartialFrame(p) \/ ProtocolFailure(p)
              \/ \E o \in Ops, r \in {"result", "modified", "rejected"} :
                   Answer(p, o, r)
       PROVE  lsp'[c].state = "unavailable"
  <2>1. proc[p].client \in Clients
    BY <1>13, <1>k DEF PartialFrame, ProtocolFailure, Answer, Reading, Alive
  <2>2. \E v \in BOOLEAN :
          LET L == [lsp EXCEPT ![proc[p].client].buffered = v] IN
          \/ lsp' = L
          \/ Fail(proc[p].client, proc[p].epoch, FALSE, L, wait, proc)
    BY <1>13 DEF PartialFrame, ProtocolFailure, Answer
  <2>. QED
    BY <1>12, <2>1, <2>2
<1>14. ASSUME NEW p \in Procs, HandleExit(p)
       PROVE  lsp'[c].state = "unavailable"
  <2> DEFINE d == proc[p].client
             L == [lsp EXCEPT ![d].stopped = TRUE]
             P == [proc EXCEPT ![p].life = "gone"]
  <2>1. d \in Clients
    BY <1>14, <1>k DEF HandleExit, Alive
  <2>2. ~lsp[d].stopping
    BY <1>0, <2>1 DEF ClientTypes, StoppingInv
  <2>3. \/ UNCHANGED lsp
        \/ \E restart \in BOOLEAN : Fail(d, proc[p].epoch, restart, L, wait, P)
    BY <1>14, <2>2 DEF HandleExit
  <2>4. L \in [Clients -> LspState] /\ L[c].state = "unavailable"
    BY <1>t, <2>1 DEF LspState
  <2> HIDE DEF d, L, P
  <2>. QED
    BY <2>1, <2>3, <2>4, FailKeepsUnavailable
<1>15. ASSUME NEW p \in Procs, ProcessError(p)
       PROVE  lsp'[c].state = "unavailable"
  <2>1. proc[p].client \in Clients
    BY <1>15, <1>k DEF ProcessError
  <2>. QED
    BY <1>15, <1>t, <2>1, FailKeepsUnavailable DEF ProcessError
<1>16. CASE \/ ExitResumes \/ ChunkEnds \/ UNCHANGED vars
            \/ \E q \in Queries : StartResumes(q) \/ QueryResumes(q)
  BY <1>16 DEF ExitResumes, ChunkEnds, StartResumes, QueryResumes, vars
<1>. QED
  BY <1>3, <1>4, <1>5, <1>6, <1>7, <1>8, <1>9, <1>10, <1>11, <1>13, <1>14,
     <1>15, <1>16 DEF Next

(* After the shutdown no step spawns a process.                            *)
LEMMA SpawnedNothing ==
  ASSUME TypeInv, [Next]_vars, backend.disposed,
         NEW p \in Procs, proc[p].life = "none"
  PROVE  proc'[p].life = "none"
<1>0. ClientTypes /\ OtherTypes
  BY TypeParts
<1>t. /\ lsp \in [Clients -> LspState] /\ wait \in [Ops -> Waiting]
      /\ proc \in [Procs -> ProcState] /\ backend \in BackendState
  BY <1>0 DEF ClientTypes, OtherTypes
<1>1. CASE UNCHANGED proc
  BY <1>1
<1>2. ASSUME NEW P \in [Procs -> ProcState], P[p].life = "none",
             NEW L, NEW W, NEW d, NEW e, NEW restart,
             proc' = P \/ Fail(d, e, restart, L, W, P)
      PROVE  proc'[p].life = "none"
  BY <1>2, FailSpawnsNothing
<1>3. ASSUME NEW r \in Procs, proc[r].life # "none"
      PROVE  LET P == [proc EXCEPT ![r].life = "gone"] IN
             P \in [Procs -> ProcState] /\ P[p].life = "none"
  BY <1>3, <1>t DEF ProcState
<1>4. \A q : Kill(proc, q)[p].life = "none"
  BY <1>t, KillEffect
<1>5. CASE \/ Start \/ RefreshRuntime \/ ExitResumes \/ ChunkEnds
           \/ \E q \in Queries : Query(q) \/ StartResumes(q) \/ QueryResumes(q)
           \/ UNCHANGED vars
  BY <1>5 DEF Start, Query, RefreshRuntime, ExitResumes, ChunkEnds,
              StartResumes, QueryResumes, CanStart, vars
<1>6. ASSUME NEW c \in Clients,
             InitializeResumes(c) \/ RestartFires(c) \/ WindowPasses(c)
      PROVE  proc'[p].life = "none"
  <2>1. \/ proc' = proc \/ proc' = Kill(proc, lsp[c].proc)
        \/ Fail(c, wait[c].epoch, TRUE, lsp, [wait EXCEPT ![c] = Resting], proc)
    BY <1>6 DEF InitializeResumes, RestartFires, WindowPasses
  <2>. QED
    BY <1>2, <1>4, <1>t, <2>1
<1>7. CASE Shutdown \/ ShutdownResumes
  <2>1. proc' = proc \/ \E q : proc' = Kill(proc, q)
    BY <1>7 DEF Shutdown, ShutdownResumes, TerminateNow
  <2>. QED
    BY <1>4, <2>1
<1>8. ASSUME NEW o \in Ops, Timeout(o) PROVE proc'[p].life = "none"
  <2>1. proc' = proc \/ \E L, W : Fail(wait[o].client, wait[o].epoch, TRUE, L, W, proc)
    BY <1>8 DEF Timeout
  <2>. QED
    BY <1>2, <1>t, <2>1
<1>9. CASE ForceShutdown
  <2>1. proc' = proc
          \/ \E L : Fail(backend.client, lsp[backend.client].epoch, TRUE, L, wait, proc)
    BY <1>9 DEF ForceShutdown
  <2>. QED
    BY <1>2, <1>t, <2>1
<1>10. ASSUME NEW r \in Procs,
              \/ PartialFrame(r) \/ ProtocolFailure(r)
              \/ \E o \in Ops, a \in {"result", "modified", "rejected"} :
                   Answer(r, o, a)
       PROVE  proc'[p].life = "none"
  <2>1. proc' = proc
          \/ \E L : Fail(proc[r].client, proc[r].epoch, FALSE, L, wait, proc)
    BY <1>10 DEF PartialFrame, ProtocolFailure, Answer
  <2>. QED
    BY <1>2, <1>t, <2>1
<1>11. ASSUME NEW r \in Procs, HandleExit(r) \/ ProcessError(r)
       PROVE  proc'[p].life = "none"
  <2> DEFINE P == [proc EXCEPT ![r].life = "gone"]
  <2>1. proc[r].life # "none"
    BY <1>11 DEF HandleExit, ProcessError, Alive
  <2>2. P \in [Procs -> ProcState] /\ P[p].life = "none"
    BY <1>3, <2>1
  <2>3. proc' = P \/ \E L, restart :
                       Fail(proc[r].client, proc[r].epoch, restart, L, wait, P)
    BY <1>11 DEF HandleExit, ProcessError
  <2> HIDE DEF P
  <2>. QED
    BY <1>2, <2>2, <2>3
<1>. QED
  BY <1>5, <1>6, <1>7, <1>8, <1>9, <1>10, <1>11 DEF Next

-----------------------------------------------------------------------------
(* What keeps queries and the shutdown going.                              *)

(* A query waits for the start or has a request of its own, the start in   *)
(* progress waits for the initialize request of its client, and shutdown() *)
(* has asked for its answer or is past it.                                 *)
Awaits ==
  /\ \A q \in Queries :
       query[q] \in {"first", "retry"} <=> wait[q].status # "idle"
  /\ \A q \in Queries : query[q] = "starting" => backend.started # "none"
  /\ backend.started = "running" =>
       backend.client # 0 /\ wait[backend.client].status # "idle"
  /\ backend.refreshRequired => backend.started = "none"
  /\ closing = "asking" <=> wait[Closer].status # "idle"
  /\ closing = "open" <=> ~backend.disposed

(* What a query and the shutdown still have before them.                   *)
QueryRank(s) == CASE s = "starting" -> 3 [] s = "first" -> 2
                  [] s = "retry" -> 1 [] OTHER -> 0
ClosingRank(s) == CASE s = "open" -> 4 [] s = "asking" -> 3
                    [] s = "exiting" -> 2 [] s = "exited" -> 1 [] OTHER -> 0

(* Whoever is under way gets nearer to the end, or stays where he is and   *)
(* keeps the answer that he has got.                                       *)
GetsNearer(q) ==
  query[q] # "idle" =>
    \/ QueryRank(query'[q]) < QueryRank(query[q])
    \/ query'[q] = query[q] /\ (Settled(q) => Settled(q)')
ShutdownGetsNearer ==
  \/ ClosingRank(closing') < ClosingRank(closing)
  \/ closing' = closing /\ (Settled(Closer) => Settled(Closer)')
NearerToTheEnd == (\A q \in Queries : GetsNearer(q)) /\ ShutdownGetsNearer

(* The requests of all operations but those in S are still there when they *)
(* were, and still answered when they were.                                *)
Carried(S, W) ==
  \A o \in Ops \ S :
    /\ W[o].status = "idle" <=> wait[o].status = "idle"
    /\ Settled(o) => W[o].status \in {"result", "modified", "rejected"}

(* Doing nothing to the requests carries them.                             *)
LEMMA NothingCarried == \A S : Carried(S, wait)
BY DEF Carried, Settled

(* Rejecting the requests of a client carries all requests.                *)
LEMMA RejectCarries ==
  ASSUME NEW W \in [Ops -> Waiting], NEW c \in Clients, NEW S, Carried(S, W)
  PROVE  Carried(S, RejectInflight(W, c))
BY RejectEffect DEF Carried, Unsettled

(* So does a failure.                                                      *)
LEMMA FailCarries ==
  ASSUME NEW L \in [Clients -> LspState], NEW W \in [Ops -> Waiting],
         NEW P \in [Procs -> ProcState], NEW c \in Clients, NEW e \in Nat,
         NEW restart \in BOOLEAN, Fail(c, e, restart, L, W, P),
         NEW S, Carried(S, W)
  PROVE  Carried(S, wait')
<1>1. wait' = W \/ wait' = RejectInflight(W, c)
  BY DEF Fail
<1>. QED
  BY <1>1, RejectCarries

(* A handler that leaves the backend and the queries alone and carries the *)
(* requests of queries and shutdown keeps everybody waiting as he was, and *)
(* so does one that ends the wait of shutdown() for the exit.              *)
LEMMA BystanderAwaits ==
  ASSUME TypeInv, Awaits, NEW S \in SUBSET Clients, Carried(S, wait'),
         \A c \in S : wait'[c].status # "idle",
         UNCHANGED <<backend, query>>,
         \/ closing' = closing
         \/ closing = "exiting" /\ closing' = "exited"
         \/ closing = "exited" /\ closing' = "closed"
  PROVE  Awaits' /\ NearerToTheEnd
<1>0. ClientTypes /\ OtherTypes
  BY TypeParts
<1>1. \A q \in Queries : q \in Ops \ S
  BY Operations
<1>2. Closer \in Ops \ S
  BY Operations
<1>3. backend.client # 0 =>
        (wait[backend.client].status # "idle" =>
           wait'[backend.client].status # "idle")
  <2>1. backend.client # 0 => backend.client \in Clients
    BY <1>0 DEF OtherTypes, BackendState
  <2>. QED
    BY <2>1, Operations DEF Carried
<1>4. Awaits'
  BY <1>1, <1>2, <1>3 DEF Awaits, Carried
<1>5. \A q \in Queries : GetsNearer(q)
  BY <1>1 DEF GetsNearer, Carried, Settled
<1>6. ShutdownGetsNearer
  BY <1>2 DEF ShutdownGetsNearer, ClosingRank, Carried, Settled
<1>. QED
  BY <1>4, <1>5, <1>6 DEF NearerToTheEnd

(* Starting the backend: whoever waits for it is refused when the start    *)
(* fails, and waits for the initialize request when it does not.           *)
LEMMA StartFreshAwaits ==
  ASSUME TypeInv, Awaits, NEW b \in BackendState, NEW Q, StartFresh(b, Q),
         b.created = backend.created, b.disposed = backend.disposed,
         b.started = "none", ~b.refreshRequired,
         Q \in [Queries -> {"idle", "starting", "first", "retry"}],
         \A q \in Queries :
           Q[q] = query[q] \/ (query[q] = "idle" /\ Q[q] = "starting"),
         closing' = closing
  PROVE  Awaits' /\ NearerToTheEnd
<1>0. ClientTypes /\ OtherTypes
  BY TypeParts
<1>t. /\ lsp \in [Clients -> LspState] /\ wait \in [Ops -> Waiting]
      /\ proc \in [Procs -> ProcState]
      /\ query \in [Queries -> {"idle", "starting", "first", "retry"}]
  BY <1>0 DEF ClientTypes, OtherTypes
<1> DEFINE made == [b EXCEPT !.created = @ + 1, !.client = b.created + 1]
<1>1. /\ made.client = b.created + 1 /\ made.disposed = b.disposed
      /\ ~made.refreshRequired /\ made.started = "none"
      /\ [made EXCEPT !.started = "running"].client = made.client
      /\ [made EXCEPT !.started = "running"].started = "running"
      /\ [made EXCEPT !.started = "running"].disposed = b.disposed
      /\ ~[made EXCEPT !.started = "running"].refreshRequired
  BY DEF BackendState
<1>2. ASSUME NEW x \in {b, made}, NEW code, backend' = StartFailed(x, code),
             query' = Refused(Q), UNCHANGED <<lsp, wait, proc>>
      PROVE  Awaits' /\ NearerToTheEnd
  <2>1. backend'.started = "none" /\ backend'.disposed = backend.disposed
    BY <1>1, <1>2 DEF StartFailed, BackendState
  <2>2. \A q \in Queries :
          query'[q] = IF Q[q] = "starting" THEN "idle" ELSE Q[q]
    BY <1>2 DEF Refused
  <2>3. \A q \in Queries : query'[q] # "starting"
    BY <2>2
  <2>4. \A q \in Queries : \/ query[q] = "starting" /\ query'[q] = "idle"
                           \/ query'[q] = query[q]
    BY <2>2
  <2>5. Awaits'
    BY <1>2, <2>1, <2>3, <2>4 DEF Awaits
  <2>6. \A q \in Queries : GetsNearer(q)
    BY <1>2, <2>4 DEF GetsNearer, QueryRank, Settled
  <2>. QED
    BY <1>2, <2>5, <2>6 DEF NearerToTheEnd, ShutdownGetsNearer, Settled
<1>3. CASE /\ b.created < ClientBound
           /\ backend' = [made EXCEPT !.started = "running"] /\ query' = Q
           /\ Spawn(made.client, lsp, wait)
  <2> DEFINE c == b.created + 1
  <2>1. c \in Clients /\ c \notin Made
    BY <1>3, LspAssumption DEF Clients, Made, BackendState
  <2>2. ~lsp[c].stopping /\ Spawn(c, lsp, wait)
    BY <1>0, <1>1, <1>3, <2>1 DEF ClientTypes, Unmade
  <2>3. c # 0 /\ backend'.client = c /\ backend'.started = "running"
        /\ backend'.disposed = backend.disposed /\ ~backend'.refreshRequired
    BY <1>1, <1>3, <2>1 DEF Clients
  <2> HIDE DEF c
  <2>4. \E p \in Procs : Spawned(c, p, lsp, wait, lsp', wait', proc')
    BY <1>t, <2>1, <2>2, SpawnEffect
  <2>5. /\ \A o \in Ops \ {c} : wait'[o] = wait[o]
        /\ wait'[c].status = "pending"
    BY <2>4 DEF Spawned
  <2>6. /\ \A q \in Queries : wait'[q] = wait[q]
        /\ wait'[Closer] = wait[Closer]
    BY <2>1, <2>5, Operations
  <2>7. Awaits'
    BY <1>3, <2>3, <2>5, <2>6 DEF Awaits
  <2>8. \A q \in Queries : GetsNearer(q)
    BY <1>3, <2>6 DEF GetsNearer, Settled
  <2>. QED
    BY <2>6, <2>7, <2>8 DEF NearerToTheEnd, ShutdownGetsNearer, Settled
<1>. QED
  BY <1>2, <1>3 DEF StartFresh

(* The reaction to the initialize request of client c: the start it was    *)
(* for is over, and whoever waited for it is refused or can go on.         *)
LEMMA InitializedAwaits ==
  ASSUME TypeInv, LspInv, Awaits, NEW c \in Clients, InitializeResumes(c)
  PROVE  Awaits' /\ NearerToTheEnd
<1>0. ClientTypes /\ OtherTypes
  BY TypeParts
<1>t. /\ lsp \in [Clients -> LspState] /\ wait \in [Ops -> Waiting]
      /\ proc \in [Procs -> ProcState] /\ backend \in BackendState
      /\ query \in [Queries -> {"idle", "starting", "first", "retry"}]
  BY <1>0 DEF ClientTypes, OtherTypes
<1> DEFINE w == [wait EXCEPT ![c] = Resting]
           awaited == backend.started = "running" /\ backend.client = c
<1>1. w \in [Ops -> Waiting] /\ Carried({c}, w)
  BY <1>t DEF Carried, Settled, Resting, Waiting
<1>2. Carried({c}, wait')
  <2>1. wait' = w \/ Fail(c, wait[c].epoch, TRUE, lsp, w, proc)
    BY DEF InitializeResumes
  <2>2. wait[c].epoch \in Nat
    BY <1>t, Operations DEF Waiting
  <2>3. CASE Fail(c, wait[c].epoch, TRUE, lsp, w, proc)
    <3> HIDE DEF w
    <3>. QED
      BY <1>1, <1>t, <2>2, <2>3, FailCarries
  <2>. QED
    BY <1>1, <2>1, <2>3
<1>3. /\ closing' = closing
      /\ \A q \in Queries : q \in Ops \ {c}
      /\ Closer \in Ops \ {c}
  BY Operations DEF InitializeResumes
<1>4. ShutdownGetsNearer
  BY <1>2, <1>3 DEF ShutdownGetsNearer, Carried, Settled
<1>5. backend.client # 0 => backend.client \in Ops
  BY <1>t, Operations DEF BackendState
<1>6. CASE ~awaited /\ UNCHANGED <<backend, query>>
  <2>1. Awaits'
    BY <1>2, <1>3, <1>5, <1>6 DEF Awaits, Carried
  <2>2. \A q \in Queries : GetsNearer(q)
    BY <1>2, <1>3, <1>6 DEF GetsNearer, Carried, Settled
  <2>. QED
    BY <1>4, <2>1, <2>2 DEF NearerToTheEnd
<1>7. ASSUME NEW code, backend' = StartFailed(backend, code),
             query' = Refused(query)
      PROVE  Awaits' /\ NearerToTheEnd
  <2>1. backend'.started = "none" /\ backend'.disposed = backend.disposed
    BY <1>t, <1>7 DEF StartFailed, BackendState
  <2>2. \A q \in Queries : \/ query[q] = "starting" /\ query'[q] = "idle"
                           \/ query[q] # "starting" /\ query'[q] = query[q]
    BY <1>7 DEF Refused
  <2>3. Awaits'
    BY <1>2, <1>3, <2>1, <2>2 DEF Awaits, Carried
  <2>4. \A q \in Queries : GetsNearer(q)
    BY <1>2, <1>3, <2>2 DEF GetsNearer, QueryRank, Carried, Settled
  <2>. QED
    BY <1>4, <2>3, <2>4 DEF NearerToTheEnd
<1>8. CASE /\ awaited /\ query' = query
           /\ backend' = [backend EXCEPT !.inner = c, !.started = "done",
                                         !.state = "ready"]
  <2>1. backend'.started = "done" /\ backend'.disposed = backend.disposed
        /\ backend'.refreshRequired = backend.refreshRequired
    BY <1>t, <1>8 DEF BackendState
  <2>2. Awaits'
    BY <1>2, <1>3, <1>8, <2>1 DEF Awaits, Carried
  <2>3. \A q \in Queries : GetsNearer(q)
    BY <1>2, <1>3, <1>8 DEF GetsNearer, Carried, Settled
  <2>. QED
    BY <1>4, <2>2, <2>3 DEF NearerToTheEnd
<1>9. \/ ~awaited /\ UNCHANGED <<backend, query>>
      \/ /\ awaited /\ query' = query
         /\ backend' = [backend EXCEPT !.inner = c, !.started = "done",
                                       !.state = "ready"]
      \/ \E code : backend' = StartFailed(backend, code) /\ query' = Refused(query)
  BY DEF InitializeResumes
<1>. QED
  BY <1>6, <1>7, <1>8, <1>9

(* Every step keeps whoever waits waiting for something, and brings him    *)
(* nearer to the end or leaves him where he is.                            *)
LEMMA AwaitsStep ==
  ASSUME TypeInv, LspInv, Awaits, [Next]_vars
  PROVE  Awaits' /\ NearerToTheEnd
<1>0. ClientTypes /\ OtherTypes
  BY TypeParts
<1>t. /\ lsp \in [Clients -> LspState] /\ wait \in [Ops -> Waiting]
      /\ proc \in [Procs -> ProcState] /\ backend \in BackendState
      /\ query \in [Queries -> {"idle", "starting", "first", "retry"}]
  BY <1>0 DEF ClientTypes, OtherTypes
<1>k. /\ \A o \in Ops : wait[o].status # "idle" => wait[o].client \in Clients
      /\ \A p \in Procs : proc[p].life # "none" => proc[p].client \in Clients
  BY <1>0, Known
<1>e. /\ \A c \in Clients : lsp[c].epoch \in Nat
      /\ \A p \in Procs : proc[p].epoch \in Nat
      /\ \A o \in Ops : wait[o].epoch \in Nat
  BY <1>t DEF LspState, ProcState, Waiting
<1>1. Carried({}, wait) /\ {} \in SUBSET Clients
  BY NothingCarried
<1>2. ASSUME Carried({}, wait'), UNCHANGED <<backend, query>>,
             \/ closing' = closing
             \/ closing = "exiting" /\ closing' = "exited"
             \/ closing = "exited" /\ closing' = "closed"
      PROVE  Awaits' /\ NearerToTheEnd
  BY <1>2, BystanderAwaits
<1>3. CASE Start
  <2>1. /\ backend.started = "none" /\ ~backend.refreshRequired
        /\ StartFresh(backend, query) /\ closing' = closing
    BY <1>3 DEF Start, CanStart
  <2>. QED
    BY <1>t, <2>1, StartFreshAwaits
<1>4. ASSUME NEW q \in Queries, Query(q)
      PROVE  Awaits' /\ NearerToTheEnd
  <2> DEFINE Q == [query EXCEPT ![q] = "starting"]
  <2>1. /\ Q \in [Queries -> {"idle", "starting", "first", "retry"}]
        /\ \A r \in Queries :
             Q[r] = query[r] \/ (query[r] = "idle" /\ Q[r] = "starting")
    <3>1. query[q] = "idle"
      BY <1>4 DEF Query
    <3>. QED
      BY <1>t, <3>1
  <2>2. CASE UNCHANGED <<backend, query, lsp, wait, proc>>
    BY <1>1, <1>2, <1>4, <2>2 DEF Query
  <2>3. CASE /\ backend.started # "none" /\ query' = Q
             /\ UNCHANGED <<backend, lsp, wait, proc>>
    <3>1. closing' = closing
      BY <1>4 DEF Query
    <3>2. Awaits'
      BY <2>1, <2>3, <3>1 DEF Awaits
    <3>3. NearerToTheEnd
      BY <2>1, <2>3, <3>1 DEF NearerToTheEnd, GetsNearer, ShutdownGetsNearer,
                              Settled
    <3>. QED
      BY <3>2, <3>3
  <2>4. CASE CanStart /\ backend.started = "none" /\ StartFresh(backend, Q)
    <3>1. closing' = closing
      BY <1>4 DEF Query
    <3> HIDE DEF Q
    <3>. QED
      BY <1>t, <2>1, <2>4, <3>1, StartFreshAwaits DEF CanStart
  <2>. QED
    BY <1>4, <2>2, <2>3, <2>4 DEF Query
<1>5. CASE RefreshRuntime
  <2> DEFINE b == [backend EXCEPT !.refreshRequired = FALSE,
                     !.started = "none", !.inner = 0, !.client = 0,
                     !.state = "refreshing"]
  <2>1. /\ b \in BackendState /\ b.created = backend.created
        /\ b.disposed = backend.disposed /\ b.started = "none"
        /\ ~b.refreshRequired
    BY <1>t DEF BackendState
  <2> HIDE DEF b
  <2>2. closing' = closing
    BY <1>5 DEF RefreshRuntime
  <2>3. \/ UNCHANGED <<backend, query, lsp, wait, proc>>
        \/ StartFresh(b, query)
    BY <1>5 DEF RefreshRuntime, b
  <2>4. CASE UNCHANGED <<backend, query, lsp, wait, proc>>
    BY <1>1, <1>2, <2>2, <2>4
  <2>5. CASE StartFresh(b, query)
    BY <1>t, <2>1, <2>2, <2>5, StartFreshAwaits
  <2>. QED
    BY <2>3, <2>4, <2>5
<1>6. ASSUME NEW c \in Clients, InitializeResumes(c)
      PROVE  Awaits' /\ NearerToTheEnd
  BY <1>6, InitializedAwaits
<1>7. ASSUME NEW q \in Queries, StartResumes(q)
      PROVE  Awaits' /\ NearerToTheEnd
  <2>1. UNCHANGED <<backend, closing>> /\ query[q] = "starting"
    BY <1>7 DEF StartResumes
  <2>2. wait[q].status = "idle"
    BY <1>t, <2>1, Operations DEF Awaits
  <2>3. CASE /\ backend.inner # 0
             /\ query' = [query EXCEPT ![q] = "first"]
             /\ wait' = Send(wait, lsp, q, backend.inner)
    <3>1. backend.inner \in Clients
      BY <1>t, <2>3 DEF BackendState
    <3>2. /\ \A x \in Ops \ {q} : wait'[x] = wait[x]
          /\ wait'[q].status = "pending"
      BY <1>t, <2>3, <3>1, Operations, SendEffect
    <3>3. /\ \A r \in Queries \ {q} : query'[r] = query[r] /\ wait'[r] = wait[r]
          /\ query'[q] = "first" /\ wait'[Closer] = wait[Closer]
          /\ backend.client # 0 => wait'[backend.client] = wait[backend.client]
      BY <1>t, <2>3, <3>2, Operations DEF BackendState
    <3>4. Awaits'
      BY <2>1, <3>2, <3>3 DEF Awaits
    <3>5. \A r \in Queries : GetsNearer(r)
      BY <2>1, <3>3 DEF GetsNearer, QueryRank, Settled
    <3>. QED
      BY <2>1, <3>3, <3>4, <3>5 DEF NearerToTheEnd, ShutdownGetsNearer, Settled
  <2>4. CASE query' = [query EXCEPT ![q] = "idle"] /\ UNCHANGED wait
    <3>1. /\ \A r \in Queries \ {q} : query'[r] = query[r]
          /\ query'[q] = "idle"
      BY <1>t, <2>4
    <3>2. Awaits'
      BY <2>1, <2>2, <2>4, <3>1 DEF Awaits
    <3>3. \A r \in Queries : GetsNearer(r)
      BY <2>1, <2>4, <3>1 DEF GetsNearer, QueryRank, Settled
    <3>. QED
      BY <2>1, <2>4, <3>2, <3>3 DEF NearerToTheEnd, ShutdownGetsNearer, Settled
  <2>. QED
    BY <1>7, <2>3, <2>4 DEF StartResumes
<1>8. ASSUME NEW q \in Queries, QueryResumes(q)
      PROVE  Awaits' /\ NearerToTheEnd
  <2>1. UNCHANGED <<backend, closing>> /\ Settled(q)
    BY <1>8 DEF QueryResumes
  <2>2. wait[q].status # "idle" /\ query[q] \in {"first", "retry"}
    BY <2>1 DEF Awaits, Settled
  <2>3. ASSUME NEW s \in {"idle", "retry"}, query' = [query EXCEPT ![q] = s],
               s = "retry" => query[q] = "first",
               \A x \in Ops \ {q} : wait'[x] = wait[x],
               wait'[q].status # "idle" <=> s = "retry"
        PROVE  Awaits' /\ NearerToTheEnd
    <3>1. /\ \A r \in Queries \ {q} : query'[r] = query[r] /\ wait'[r] = wait[r]
          /\ query'[q] = s /\ wait'[Closer] = wait[Closer]
          /\ backend.client # 0 => wait'[backend.client] = wait[backend.client]
      BY <1>t, <2>3, Operations DEF BackendState
    <3>2. Awaits'
      BY <2>1, <2>3, <3>1 DEF Awaits
    <3>3. QueryRank(query'[q]) < QueryRank(query[q])
      BY <2>2, <2>3, <3>1 DEF QueryRank
    <3>4. \A r \in Queries : GetsNearer(r)
      BY <3>1, <3>3 DEF GetsNearer, Settled
    <3>. QED
      BY <2>1, <3>1, <3>2, <3>4 DEF NearerToTheEnd, ShutdownGetsNearer, Settled
  <2>4. CASE wait[q].status = "modified" /\ query[q] = "first"
    <3>1. /\ query' = [query EXCEPT ![q] = "retry"]
          /\ wait' = Send(wait, lsp, q, wait[q].client)
      BY <1>8, <2>4 DEF QueryResumes
    <3>2. q \in Ops /\ wait[q].client \in Clients
      BY <1>k, <2>2, Operations
    <3>3. /\ \A x \in Ops \ {q} : wait'[x] = wait[x]
          /\ wait'[q].status = "pending"
      BY <1>t, <3>1, <3>2, SendEffect
    <3>. QED
      BY <2>3, <2>4, <3>1, <3>3
  <2>5. CASE ~(wait[q].status = "modified" /\ query[q] = "first")
    <3>1. /\ query' = [query EXCEPT ![q] = "idle"]
          /\ wait' = [wait EXCEPT ![q] = Resting]
      BY <1>8, <2>5 DEF QueryResumes
    <3>2. /\ \A x \in Ops \ {q} : wait'[x] = wait[x]
          /\ wait'[q].status = "idle"
      BY <1>t, <3>1, Operations DEF Resting
    <3>. QED
      BY <2>3, <3>1, <3>2
  <2>. QED
    BY <2>4, <2>5
<1>9. CASE Shutdown
  <2> DEFINE c == backend.client
  <2>1. /\ query' = query /\ closing = "open" /\ wait[Closer].status = "idle"
        /\ backend' = [backend EXCEPT !.disposed = TRUE]
    BY <1>9 DEF Shutdown, Awaits
  <2>2. /\ backend'.disposed /\ backend'.started = backend.started
        /\ backend'.client = backend.client
        /\ backend'.refreshRequired = backend.refreshRequired
    BY <1>t, <2>1 DEF BackendState
  <2>3. c # 0 => c \in Clients
    BY <1>t DEF BackendState
  <2>4. ASSUME \/ Carried({}, wait') /\ closing' = "closed"
               \/ /\ Carried({Closer}, wait') /\ closing' = "asking"
                  /\ wait'[Closer].status # "idle"
        PROVE  Awaits' /\ NearerToTheEnd
    <3>1. /\ \A q \in Queries : q \in Ops \ {Closer} /\ q \in Ops \ {}
          /\ c # 0 => c \in Ops \ {Closer} /\ c \in Ops \ {}
          /\ Closer \in Ops \ {}
      BY <2>3, Operations
    <3>2. /\ \A q \in Queries :
               /\ wait'[q].status = "idle" <=> wait[q].status = "idle"
               /\ Settled(q) => Settled(q)'
          /\ c # 0 => (wait'[c].status = "idle" <=> wait[c].status = "idle")
      BY <2>4, <3>1 DEF Carried, Settled
    <3>3. \/ closing' = "closed" /\ wait'[Closer].status = "idle"
          \/ closing' = "asking" /\ wait'[Closer].status # "idle"
      BY <2>1, <2>4, <3>1 DEF Carried
    <3>4. Awaits'
      BY <2>1, <2>2, <3>2, <3>3 DEF Awaits
    <3>5. ShutdownGetsNearer
      BY <2>1, <3>3 DEF ShutdownGetsNearer, ClosingRank
    <3>. QED
      BY <2>1, <3>2, <3>4, <3>5 DEF NearerToTheEnd, GetsNearer
  <2>5. \/ wait' = wait /\ closing' = "closed"
        \/ c # 0 /\ wait' = RejectInflight(wait, c) /\ closing' = "closed"
        \/ c # 0 /\ wait' = Send(wait, lsp, Closer, c) /\ closing' = "asking"
    BY <1>9 DEF Shutdown, TerminateNow
  <2> HIDE DEF c
  <2>6. CASE c # 0 /\ wait' = Send(wait, lsp, Closer, c) /\ closing' = "asking"
    <3>1. /\ \A x \in Ops \ {Closer} : wait'[x] = wait[x]
          /\ wait'[Closer].status = "pending"
      BY <1>t, <2>3, <2>6, Operations, SendEffect
    <3>. QED
      BY <2>4, <2>6, <3>1 DEF Carried, Settled
  <2>7. CASE c # 0 /\ wait' = RejectInflight(wait, c) /\ closing' = "closed"
    BY <1>1, <1>t, <2>3, <2>4, <2>7, RejectCarries
  <2>. QED
    BY <1>1, <2>4, <2>5, <2>6, <2>7
<1>10. CASE ShutdownResumes
  <2> DEFINE c == wait[Closer].client
             w == [wait EXCEPT ![Closer] = Resting]
  <2>1. /\ UNCHANGED <<backend, query>> /\ Settled(Closer)
        /\ wait' = w \/ wait' = RejectInflight(w, c)
        /\ closing' \in {"closed", "exiting"}
    BY <1>10 DEF ShutdownResumes, TerminateNow
  <2>2. closing = "asking" /\ c \in Clients
    BY <1>k, <2>1, Operations DEF Awaits, Settled
  <2>3. /\ w \in [Ops -> Waiting] /\ w[Closer].status = "idle"
        /\ \A x \in Ops \ {Closer} : w[x] = wait[x]
    BY <1>t, Operations DEF Resting, Waiting
  <2>4. Carried({Closer}, w)
    BY <2>3 DEF Carried, Settled
  <2> HIDE DEF c, w
  <2>5. Carried({Closer}, wait') /\ wait'[Closer].status = "idle"
    BY <2>1, <2>2, <2>3, <2>4, Operations, RejectCarries, RejectEffect
       DEF Unsettled
  <2>6. /\ \A q \in Queries : q \in Ops \ {Closer}
        /\ backend.client # 0 => backend.client \in Ops \ {Closer}
    BY <1>t, Operations DEF BackendState
  <2>7. Awaits'
    BY <2>1, <2>2, <2>5, <2>6 DEF Awaits, Carried
  <2>8. \A q \in Queries : GetsNearer(q)
    BY <2>1, <2>5, <2>6 DEF GetsNearer, Carried, Settled
  <2>9. ShutdownGetsNearer
    BY <2>1, <2>2 DEF ShutdownGetsNearer, ClosingRank
  <2>. QED
    BY <2>7, <2>8, <2>9 DEF NearerToTheEnd
<1>11. ASSUME NEW o \in Ops, Timeout(o)
       PROVE  Awaits' /\ NearerToTheEnd
  <2> DEFINE c == wait[o].client
             n == lsp[c].timeouts + 1
             m == IF n < MaxTimeouts THEN n ELSE MaxTimeouts
             L == [lsp EXCEPT ![c].timeouts = m]
             W(s) == [wait EXCEPT ![o].status = s]
  <2>1. c \in Clients /\ wait[o].status = "pending"
    BY <1>11, <1>k DEF Timeout
  <2>2. m \in 0..MaxTimeouts
    BY <1>t, <2>1 DEF LspState, MaxTimeouts
  <2>3. L \in [Clients -> LspState]
    BY <1>t, <2>1, <2>2 DEF LspState
  <2>4. \A s \in {"rejected", "lost"} :
          W(s) \in [Ops -> Waiting] /\ Carried({}, W(s))
    BY <1>t, <2>1 DEF Waiting, Carried, Settled
  <2>5. \/ wait' = W("rejected") \/ wait' = W("lost")
        \/ Fail(c, wait[o].epoch, TRUE, L, W("rejected"), proc)
    BY <1>11 DEF Timeout
  <2> HIDE DEF c, L, W
  <2>6. Carried({}, wait')
    BY <1>t, <1>e, <2>1, <2>3, <2>4, <2>5, FailCarries
  <2>. QED
    BY <1>2, <1>11, <2>6 DEF Timeout
<1>12. ASSUME NEW c \in Clients, RestartFires(c)
       PROVE  Awaits' /\ NearerToTheEnd
  <2> DEFINE L == [lsp EXCEPT ![c].timers = @ - 1]
  <2>1. lsp[c].timers = 1
    BY <1>12, <1>t DEF RestartFires, LspInv, RestartsReplaceFailures, LspState
  <2>2. CASE ~backend.disposed /\ Spawn(c, L, wait)
    <3>1. L \in [Clients -> LspState] /\ ~L[c].stopping
      BY <1>0, <1>t, <2>1, <2>2 DEF LspState, ClientTypes, StoppingInv
    <3> HIDE DEF L
    <3>2. \E p \in Procs : Spawned(c, p, L, wait, lsp', wait', proc')
      BY <1>t, <2>2, <3>1, SpawnEffect
    <3>3. /\ \A x \in Ops \ {c} : wait'[x] = wait[x]
          /\ wait'[c].status = "pending"
      BY <3>2 DEF Spawned
    <3>4. Carried({c}, wait')
      BY <3>3 DEF Carried, Settled
    <3>. QED
      BY <1>12, <3>3, <3>4, BystanderAwaits DEF RestartFires
  <2>3. CASE UNCHANGED wait
    BY <1>1, <1>2, <1>12, <2>3 DEF RestartFires
  <2>. QED
    BY <1>12, <2>2, <2>3 DEF RestartFires
<1>13. CASE ForceShutdown
  <2> DEFINE c == backend.client
             L == [lsp EXCEPT ![c].stopping = FALSE]
  <2>1. /\ closing = "exiting" /\ closing' = "exited"
        /\ UNCHANGED <<backend, query>>
        /\ UNCHANGED wait \/ Fail(c, lsp[c].epoch, TRUE, L, wait, proc)
    BY <1>13 DEF ForceShutdown, ExitResolved
  <2>2. c \in Clients
    BY <1>0, <1>t, <2>1 DEF OtherTypes, BackendKnown, BackendState
  <2>3. L \in [Clients -> LspState]
    BY <1>t, <2>2 DEF LspState
  <2> HIDE DEF c, L
  <2>4. Carried({}, wait')
    BY <1>1, <1>t, <1>e, <2>1, <2>2, <2>3, FailCarries
  <2>. QED
    BY <1>2, <2>1, <2>4
<1>14. ASSUME NEW p \in Procs,
              \/ PartialFrame(p) \/ ProtocolFailure(p)
              \/ \E o \in Ops, r \in {"result", "modified", "rejected"} :
                   Answer(p, o, r)
       PROVE  Awaits' /\ NearerToTheEnd
  <2> DEFINE c == proc[p].client
             L(v) == [lsp EXCEPT ![c].buffered = v]
  <2>1. c \in Clients /\ UNCHANGED <<backend, query, closing>>
    BY <1>14, <1>k DEF PartialFrame, ProtocolFailure, Answer, Reading, Alive
  <2>2. \A v \in BOOLEAN : L(v) \in [Clients -> LspState]
    BY <1>t, <2>1 DEF LspState
  <2>3. \/ UNCHANGED wait
        \/ \E v \in BOOLEAN :
             Fail(c, proc[p].epoch, FALSE, L(v), wait, proc)
        \/ \E o \in Ops, r \in {"result", "modified", "rejected"} :
             /\ wait[o].status \in Unsettled
             /\ wait' = [wait EXCEPT ![o].status = r]
    BY <1>14 DEF PartialFrame, ProtocolFailure, Answer
  <2>4. CASE \E o \in Ops, r \in {"result", "modified", "rejected"} :
               /\ wait[o].status \in Unsettled
               /\ wait' = [wait EXCEPT ![o].status = r]
    BY <1>2, <1>t, <2>1, <2>4 DEF Carried, Settled, Unsettled, Waiting
  <2> HIDE DEF c, L
  <2>5. CASE \E v \in BOOLEAN :
               Fail(c, proc[p].epoch, FALSE, L(v), wait, proc)
    BY <1>1, <1>2, <1>t, <1>e, <2>1, <2>2, <2>5, FailCarries
  <2>. QED
    BY <1>1, <1>2, <2>1, <2>3, <2>4, <2>5
<1>15. ASSUME NEW p \in Procs, HandleExit(p) \/ ProcessError(p)
       PROVE  Awaits' /\ NearerToTheEnd
  <2> DEFINE c == proc[p].client
             L == [lsp EXCEPT ![c].stopped = TRUE]
             P == [proc EXCEPT ![p].life = "gone"]
  <2>1. c \in Clients
    BY <1>15, <1>k DEF HandleExit, ProcessError, Alive
  <2>2. L \in [Clients -> LspState] /\ P \in [Procs -> ProcState]
    BY <1>t, <2>1 DEF LspState, ProcState
  <2>3. /\ UNCHANGED <<backend, query>>
        /\ closing' = closing \/ (closing = "exiting" /\ closing' = "exited")
        /\ \/ UNCHANGED wait
           \/ Fail(c, proc[p].epoch, FALSE, L, wait, P)
           \/ Fail(c, proc[p].epoch, TRUE, L, wait, P)
           \/ Fail(c, proc[p].epoch, TRUE, lsp, wait, P)
    BY <1>15 DEF HandleExit, ProcessError, ExitResolved
  <2> HIDE DEF c, L, P
  <2>4. Carried({}, wait')
    BY <1>1, <1>t, <1>e, <2>1, <2>2, <2>3, FailCarries
  <2>. QED
    BY <1>2, <2>3, <2>4
<1>16. CASE \/ ExitResumes \/ ChunkEnds \/ UNCHANGED vars
            \/ \E c \in Clients : WindowPasses(c)
  BY <1>1, <1>2, <1>16 DEF ExitResumes, ChunkEnds, WindowPasses, vars
<1>. QED
  BY <1>3, <1>4, <1>5, <1>6, <1>7, <1>8, <1>9, <1>10, <1>11, <1>12, <1>13,
     <1>14, <1>15, <1>16 DEF Next

(* The three invariants hold throughout.                                   *)
LEMMA AlwaysAwaits == Spec => [](TypeInv /\ LspInv /\ Awaits)
<1>1. Init => TypeInv /\ LspInv /\ Awaits
  <2>1. Init => Awaits
    BY Operations DEF Init, Awaits, Resting
  <2>. QED
    BY <2>1, TypeInit, LspInit
<1>2. TypeInv /\ LspInv /\ Awaits /\ [Next]_vars => (TypeInv /\ LspInv /\ Awaits)'
  BY TypeStep, LspStep, AwaitsStep
<1>. QED
  BY <1>1, <1>2, PTL DEF Spec

-----------------------------------------------------------------------------
(* The invariants and action properties of the specification.              *)

(* Both invariants hold throughout.                                        *)
LEMMA AlwaysSafe == Spec => [](TypeInv /\ LspInv)
<1>1. Init => TypeInv /\ LspInv
  BY TypeInit, LspInit
<1>2. TypeInv /\ LspInv /\ [Next]_vars => (TypeInv /\ LspInv)'
  BY TypeStep, LspStep
<1>. QED
  BY <1>1, <1>2, PTL DEF Spec

(* A request in flight belongs to the process its client owns now, so its  *)
(* timeout never returns without settling it (onRequestTimeout) and the    *)
(* blind retry of requestWithRetry reaches the process it means.           *)
THEOREM RequestsStayCurrent == Spec => []PendingIsCurrent
<1>1. LspInv => PendingIsCurrent
  BY DEF LspInv
<1>. QED
  BY <1>1, AlwaysSafe, PTL

(* No client leaves a running server behind, through crashes, restarts,    *)
(* protocol failures, timeouts and shutdown.                               *)
THEOREM ServersStayOwned == Spec => []ServersNotAbandoned
<1>1. LspInv => ServersNotAbandoned
  BY DEF LspInv
<1>. QED
  BY <1>1, AlwaysSafe, PTL

(* A restart is armed at most once and only for a client that has failed.  *)
THEOREM RestartsStayReplacements == Spec => []RestartsReplaceFailures
<1>1. LspInv => RestartsReplaceFailures
  BY DEF LspInv
<1>. QED
  BY <1>1, AlwaysSafe, PTL

(* The process of a ready client has not exited: a crash between the       *)
(* answer to initialize and the reaction to it cannot be overlooked.       *)
THEOREM ReadyKeepsProcess == Spec => []ReadyHasProcess
<1>1. LspInv => ReadyHasProcess
  BY DEF LspInv
<1>. QED
  BY <1>1, AlwaysSafe, PTL

(* A client that has become unavailable stays so until the shutdown.       *)
THEOREM UnavailableStays == Spec => UnavailableIsFinal
<1>1. TypeInv /\ LspInv /\ [Next]_vars =>
        [\A c \in Clients :
           ~backend.disposed /\ lsp[c].state = "unavailable"
             => lsp'[c].state = "unavailable"]_vars
  BY UnavailableKept
<1>. QED
  BY <1>1, AlwaysSafe, PTL DEF Spec, UnavailableIsFinal

(* After shutdown() has been called nothing spawns a process, and the      *)
(* restart timers it did not cancel do not either.                         *)
THEOREM ShutdownSpawnsNothing == Spec => NothingSpawnsAfterShutdown
<1>1. TypeInv /\ [Next]_vars =>
        [backend.disposed =>
           \A p \in Procs : proc[p].life = "none" => proc'[p].life = "none"]_vars
  BY SpawnedNothing
<1>. QED
  BY <1>1, AlwaysSafe, PTL DEF Spec, NothingSpawnsAfterShutdown
(* A request is on its way with its timer running, or its reaction is due. *)
Due(o) == wait[o].status = "pending" \/ Settled(o)
NobodyForgotten ==
  /\ \A q \in Queries :
       /\ query[q] = "starting" =>
            backend.started = "done"
              \/ (backend.client \in Clients /\ Due(backend.client))
       /\ query[q] \in {"first", "retry"} => Due(q)
  /\ closing = "asking" => Due(Closer)

(* Nobody waits for something that cannot come: a query that waits for the *)
(* start, for its answer or for its retry, and shutdown() while it asks,   *)
(* have a request with a running timer or a reaction that is due, through  *)
(* failed starts, crashes, restarts, refreshes and shutdowns.  (While it   *)
(* waits for the exit, shutdown() has the timer of forceShutdown.)         *)
THEOREM NobodyIsForgotten == Spec => []NobodyForgotten
<1>1. TypeInv /\ LspInv /\ Awaits => NobodyForgotten
  <2> SUFFICES ASSUME TypeInv, LspInv, Awaits PROVE NobodyForgotten
    OBVIOUS
  <2>0. ClientTypes /\ OtherTypes
    BY TypeParts
  <2>1. ASSUME NEW o \in Ops, wait[o].status # "idle" PROVE Due(o)
    <3>1. wait[o].status # "lost"
      BY <2>1 DEF LspInv, PendingIsCurrent, Unsettled
    <3>2. wait[o].status \in
            {"idle", "pending", "lost", "result", "modified", "rejected"}
      BY <2>0 DEF ClientTypes, Waiting
    <3>. QED
      BY <2>1, <3>1, <3>2 DEF Due, Settled
  <2>2. /\ backend.started \in {"none", "running", "done"}
        /\ backend.client \in Clients \cup {0}
    BY <2>0 DEF OtherTypes, BackendState
  <2>3. ASSUME NEW q \in Queries, query[q] = "starting",
               backend.started # "done"
        PROVE  backend.client \in Clients /\ Due(backend.client)
    <3>1. backend.client # 0 /\ wait[backend.client].status # "idle"
      BY <2>2, <2>3 DEF Awaits
    <3>. QED
      BY <2>1, <2>2, <3>1, Operations
  <2>4. ASSUME NEW q \in Queries, query[q] \in {"first", "retry"}
        PROVE  Due(q)
    BY <2>1, <2>4, Operations DEF Awaits
  <2>5. closing = "asking" => Due(Closer)
    BY <2>1, Operations DEF Awaits
  <2>. QED
    BY <2>3, <2>4, <2>5 DEF NobodyForgotten
<1>. QED
  BY <1>1, AlwaysAwaits, PTL

(* A query only goes from the start to its request, to one retry, to its   *)
(* end, and shutdown() from the request to the exit to its end; an answer  *)
(* that either has got stays until it is taken up.  So no number of        *)
(* crashes and restarts makes a query begin again.                         *)
THEOREM CallsGoForward == Spec => [][NearerToTheEnd]_vars
<1>1. TypeInv /\ LspInv /\ Awaits /\ [Next]_vars => [NearerToTheEnd]_vars
  BY AwaitsStep
<1>. QED
  BY <1>1, AlwaysAwaits, PTL DEF Spec
=============================================================================
