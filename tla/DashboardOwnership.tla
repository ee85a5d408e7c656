--------------------------- MODULE DashboardOwnership ---------------------------
(***************************************************************************)
(* How one dashboard process replaces another                              *)
(* (tools/openspec-dashboard/lib/dashboard-ownership.mjs and serve.mjs).   *)
(* A dashboard that listens reads the owner file, asks the dashboard named *)
(* there to shut down, waits until the file is gone and writes its own;    *)
(* from then on it admits launches.  The processes share only the file and *)
(* the shutdown route, and any of them may be signalled or crash between   *)
(* two file operations.                                                    *)
(***************************************************************************)
EXTENDS Naturals, FiniteSets

CONSTANTS
  Dashboards,  \* the dashboard processes that are ever started
  Nobody       \* the owner of no file

ASSUME OwnershipAssumption == Nobody \notin Dashboards

VARIABLES
  owner,       \* who wrote the owner file, Nobody if there is none
  complete,    \* whether the record in it is complete
  phase,       \* where each dashboard is in claim()
  prior,       \* the dashboard claim() found in the file
  accepting,   \* acceptingLaunches
  stopping,    \* where each dashboard is in managedShutdown()
  alive        \* the processes that run

ownerVars == <<owner, complete, phase, prior, accepting, stopping, alive>>

ClaimPhases ==
  {"reading", "asking", "waiting", "checking", "removing", "opening", "filling",
   "verifying"}

OwnerInit ==
  /\ owner = Nobody /\ complete = FALSE
  /\ phase = [d \in Dashboards |-> "off"]
  /\ prior = [d \in Dashboards |-> Nobody]
  /\ accepting = [d \in Dashboards |-> FALSE]
  /\ stopping = [d \in Dashboards |-> "no"]
  /\ alive = {}

\* claim() goes on; only the phase of d changes.
Claims(d, at, next) ==
  /\ d \in alive /\ phase[d] = at
  /\ phase' = [phase EXCEPT ![d] = next]

(* The server listens and claim() begins.                                  *)
Listen(d) ==
  /\ d \notin alive /\ phase[d] = "off"
  /\ alive' = alive \union {d}
  /\ phase' = [phase EXCEPT ![d] = "reading"]
  /\ UNCHANGED <<owner, complete, prior, accepting, stopping>>

(* The file is looked for and read; an incomplete record fails the claim.  *)
ReadOwner(d) ==
  /\ \/ /\ owner = Nobody /\ Claims(d, "reading", "opening")
        /\ UNCHANGED prior
     \/ /\ owner # Nobody /\ complete /\ Claims(d, "reading", "asking")
        /\ prior' = [prior EXCEPT ![d] = owner]
     \/ /\ owner # Nobody /\ ~complete /\ Claims(d, "reading", "failed")
        /\ UNCHANGED prior
  /\ UNCHANGED <<owner, complete, accepting, stopping, alive>>

(* claim() awaits nothing between these: no callback of d runs.            *)
Busy(d) ==
  phase[d] \in {"reading", "checking", "removing", "opening", "filling",
                "verifying"}

ServerOpen(d) ==
  /\ d \in alive /\ ~Busy(d) /\ phase[d] # "failed"
  /\ stopping[d] \in {"no", "cleanup", "timedout"}

Stopped(d) ==
  stopping' = [stopping EXCEPT ![d] = IF @ = "no" THEN "cleanup" ELSE @]

(* The authenticated request reaches the prior dashboard, which begins its *)
(* shutdown; the answer may come too late.                                 *)
AskPrior(d) ==
  /\ prior[d] # Nobody /\ ServerOpen(prior[d])
  /\ \/ Claims(d, "asking", "waiting") \/ Claims(d, "asking", "checking")
  /\ accepting' = [accepting EXCEPT ![prior[d]] = FALSE]
  /\ Stopped(prior[d])
  /\ UNCHANGED <<owner, complete, prior, alive>>

(* Nothing listens there, or one second passes.                            *)
AskFails(d) ==
  /\ Claims(d, "asking", "checking")
  /\ UNCHANGED <<owner, complete, prior, accepting, stopping, alive>>

FileGone(d) ==
  /\ owner = Nobody /\ Claims(d, "waiting", "opening")
  /\ UNCHANGED <<owner, complete, prior, accepting, stopping, alive>>

(* Fifteen seconds pass and the file is still there.                       *)
WaitFails(d) ==
  /\ owner # Nobody /\ Claims(d, "waiting", "checking")
  /\ UNCHANGED <<owner, complete, prior, accepting, stopping, alive>>

(* Mutant of CheckPrior: a dashboard that does not answer is replaced.     *)
CheckPriorNot(d) ==
  /\ Claims(d, "checking", "removing")
  /\ UNCHANGED <<owner, complete, prior, accepting, stopping, alive>>

(* A prior process that lives fails the claim.                             *)
CheckPrior(d) ==
  /\ \/ prior[d] \in alive /\ Claims(d, "checking", "failed")
     \/ prior[d] \notin alive /\ Claims(d, "checking", "removing")
  /\ UNCHANGED <<owner, complete, prior, accepting, stopping, alive>>

(* The file is unlinked, whoever has written it by now.                    *)
RemoveFile(d) ==
  /\ \/ owner # Nobody /\ Claims(d, "removing", "opening")
     \/ owner = Nobody /\ Claims(d, "removing", "failed")
  /\ owner' = Nobody /\ complete' = FALSE
  /\ UNCHANGED <<prior, accepting, stopping, alive>>

(* write() creates the file exclusively and then fills it.                 *)
CreateFile(d) ==
  /\ \/ /\ owner = Nobody /\ Claims(d, "opening", "filling")
        /\ owner' = d
     \/ /\ owner # Nobody /\ Claims(d, "opening", "failed")
        /\ UNCHANGED owner
  /\ UNCHANGED <<complete, prior, accepting, stopping, alive>>

(* The record is written through the descriptor of the file created above, *)
(* which may have been unlinked meanwhile.                                 *)
FillFile(d) ==
  /\ Claims(d, "filling", "verifying")
  /\ complete' = (complete \/ owner = d)
  /\ UNCHANGED <<owner, prior, accepting, stopping, alive>>

(* The file is verified by name: there must be one, but any dashboard may  *)
(* have written it.                                                        *)
VerifyFile(d) ==
  /\ \/ /\ owner # Nobody /\ Claims(d, "verifying", "owner")
        /\ accepting' = [accepting EXCEPT ![d] = TRUE]
     \/ /\ owner = Nobody /\ Claims(d, "verifying", "failed")
        /\ UNCHANGED accepting
  /\ UNCHANGED <<owner, complete, prior, stopping, alive>>

(* SIGINT or SIGTERM.                                                      *)
Signal(d) ==
  /\ d \in alive /\ ~Busy(d) /\ stopping[d] = "no"
  /\ accepting' = [accepting EXCEPT ![d] = FALSE]
  /\ Stopped(d)
  /\ UNCHANGED <<owner, complete, phase, prior, alive>>

(* runtimes.shutdown() resolves, or rejects after ten seconds.             *)
CleanUp(d) ==
  /\ d \in alive /\ ~Busy(d) /\ stopping[d] = "cleanup"
  /\ \E end \in {"closing", "timedout"} :
       stopping' = [stopping EXCEPT ![d] = end]
  /\ UNCHANGED <<owner, complete, phase, prior, accepting, alive>>

(* The server has closed: release() unlinks the file, whoever wrote it.    *)
Release(d) ==
  /\ d \in alive /\ ~Busy(d) /\ stopping[d] = "closing"
  /\ stopping' = [stopping EXCEPT ![d] = "released"]
  /\ owner' = Nobody /\ complete' = FALSE
  /\ UNCHANGED <<phase, prior, accepting, alive>>

(* Nothing keeps the process, or its claim has failed.                     *)
Exit(d) ==
  /\ d \in alive
  /\ \/ phase[d] = "failed"
     \/ stopping[d] = "released" /\ phase[d] \notin ClaimPhases
  /\ alive' = alive \ {d}
  /\ UNCHANGED <<owner, complete, phase, prior, accepting, stopping>>

Crash(d) ==
  /\ d \in alive
  /\ alive' = alive \ {d}
  /\ UNCHANGED <<owner, complete, phase, prior, accepting, stopping>>

Claiming(d) ==
  \/ ReadOwner(d) \/ AskPrior(d) \/ AskFails(d) \/ FileGone(d) \/ WaitFails(d)
  \/ CheckPrior(d) \/ RemoveFile(d)
  \/ CreateFile(d) \/ FillFile(d) \/ VerifyFile(d)

OwnerNext ==
  \E d \in Dashboards :
    \/ Listen(d) \/ Claiming(d)
    \/ Signal(d) \/ CleanUp(d) \/ Release(d) \/ Exit(d) \/ Crash(d)

OwnerSpec == OwnerInit /\ [][OwnerNext]_ownerVars

-----------------------------------------------------------------------------
(* Correctness.                                                            *)

(* A launch is admitted by a running dashboard that accepts launches and   *)
(* whose runtime manager is not shutting down.                             *)
Admits(d) == d \in alive /\ accepting[d] /\ stopping[d] = "no"

OwnerTypeOK ==
  /\ owner \in Dashboards \union {Nobody} /\ complete \in BOOLEAN
  /\ phase \in [Dashboards -> {"off", "owner", "failed"} \union ClaimPhases]
  /\ prior \in [Dashboards -> Dashboards \union {Nobody}]
  /\ accepting \in [Dashboards -> BOOLEAN]
  /\ stopping \in [Dashboards -> {"no", "cleanup", "closing", "released",
                                  "timedout"}]
  /\ alive \subseteq Dashboards

(* code-explorer-launch: the prior dashboard stops "before the replacement *)
(* admits launches".  Whatever is lost, late, signalled or crashes, a      *)
(* dashboard begins to admit launches only after the dashboard it found in *)
(* the owner file has stopped admitting them.                              *)
PriorStopsFirst ==
  [][\A d \in Dashboards :
       Admits(d)' /\ ~Admits(d) => prior[d] = Nobody \/ ~Admits(prior[d])]_ownerVars
===============================================================================
