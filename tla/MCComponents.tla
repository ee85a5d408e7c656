------------------------------ MODULE MCComponents ------------------------------
(* Small instances of the components that share no state, checked in one   *)
(* run: every behaviour is one of a single component, the subject, chosen  *)
(* in the initial state; the others keep their initial states.             *)
EXTENDS Sessions, RootAccess, ProcessLifetime, DashboardOwnership,
        DashboardRuntimes, MCClosure

CONSTANTS c1, r1

VARIABLE subject

OneConnection == {c1}
OneRequestId == {r1}
OneBodySize == {1}

(* RootAccess is the subject twice: in "gate" its root comes and goes and  *)
(* no refresh has to wait for a start; in "starts" starts and waiting      *)
(* refreshes overlap while the root stays as it is.                        *)
Components ==
  {"sessions", "gate", "starts", "process", "ownership", "runtimes", "closure"}

allVars ==
  <<vars, rootVars, lifeVars, ownerVars, runtimesVars, closureVars>>

ComponentsInit ==
  /\ subject \in Components
  /\ Init /\ RootInit /\ LifeInit /\ OwnerInit /\ RuntimesInit /\ ClosureInit
  /\ subject # "closure" =>
       /\ github.record[successor] = NoRecord /\ ~github.done[successor]
       /\ github.scope = {}

Only(component) == subject = component /\ UNCHANGED subject

ComponentsNext ==
  \/ /\ Only("sessions") /\ Next
     /\ UNCHANGED <<rootVars, lifeVars, ownerVars, runtimesVars, closureVars>>
  \/ /\ \/ Only("gate") /\ RootNext /\ UNCHANGED refreshes
        \/ Only("starts") /\ RootNext /\ UNCHANGED root
     /\ UNCHANGED <<vars, lifeVars, ownerVars, runtimesVars, closureVars>>
  \/ /\ Only("process") /\ LifeNext
     /\ UNCHANGED <<vars, rootVars, ownerVars, runtimesVars, closureVars>>
  \/ /\ Only("ownership") /\ OwnerNext
     /\ UNCHANGED <<vars, rootVars, lifeVars, runtimesVars, closureVars>>
  \/ /\ Only("runtimes") /\ RuntimesNext
     /\ UNCHANGED <<vars, rootVars, lifeVars, ownerVars, closureVars>>
  \/ /\ Only("closure") /\ ClosureNext
     /\ UNCHANGED <<vars, rootVars, lifeVars, ownerVars, runtimesVars>>

(* The fairness of each component, while it is the subject.                *)
ComponentsFairness ==
  /\ WF_vars(subject = "sessions" /\ Entered)
  /\ WF_vars(subject = "sessions" /\ Added)
  /\ \A s \in SessionIds : SF_vars(subject = "sessions" /\ Operate(s))
  /\ \A c \in Checks : WF_rootVars(subject = "gate" /\ CheckResumes(c))
  /\ \A a \in Adapters : WF_rootVars(subject = "gate" /\ InnerStopped(a))
  /\ WF_rootVars(subject = "gate" /\ RetryTimer)
  /\ WF_rootVars(subject = "gate" /\ WindowPasses)
  /\ \A p \in Processes :
       WF_lifeVars(subject = "process" /\ (RootMarked(p) \/ BudgetPasses(p)))
  /\ WF_runtimesVars(subject = "runtimes" /\ Reserving)
  /\ WF_runtimesVars(subject = "runtimes" /\ RuntimeEnds)
  /\ WF_closureVars(subject = "closure" /\ RunStep)
  /\ SF_closureVars(subject = "closure" /\ TakeSnapshot(NoIssue))

ComponentsSpec ==
  ComponentsInit /\ [][ComponentsNext]_<<subject, allVars>> /\ ComponentsFairness

(* The variables of the five components that Sessions does not share keep  *)
(* their types.                                                            *)
ComponentsTypeOK ==
  RootTypeOK /\ LifeTypeOK /\ OwnerTypeOK /\ RuntimesTypeOK /\ ClosureTypeOK
=============================================================================
