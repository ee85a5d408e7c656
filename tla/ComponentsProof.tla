---------------------------- MODULE ComponentsProof ----------------------------
(***************************************************************************)
(* Proofs about the components of dod-guard: how one OpenSpec dashboard    *)
(* replaces another (DashboardOwnership), its Code Explorer runtimes       *)
(* (DashboardRuntimes) and the closure helper (Closure); and about the     *)
(* components that run side by side in MCComponents.                       *)
(***************************************************************************)
EXTENDS MCComponents, RuntimeProof, FiniteSetTheorems, SequenceTheorems, TLAPS

-----------------------------------------------------------------------------
(* Ownership.  From the moment a claim goes past the dashboard it found,   *)
(* that dashboard has begun to stop or is dead, and neither is undone.     *)

(* A dashboard that will never admit launches again.                       *)
Finished(e) == stopping[e] # "no" \/ (e \notin alive /\ phase[e] # "off")

PastPrior == {"waiting", "removing", "opening", "filling", "verifying"}

OwnerInv ==
  /\ OwnerTypeOK
  /\ owner # Nobody => phase[owner] # "off"
  /\ \A d \in Dashboards :
       /\ d \in alive => phase[d] # "off"
       /\ prior[d] # Nobody => phase[prior[d]] # "off"
       /\ phase[d] \in {"off", "reading"} => prior[d] = Nobody
       /\ accepting[d] => phase[d] = "owner"
       /\ phase[d] \in PastPrior /\ prior[d] # Nobody => Finished(prior[d])

(* What PriorStopsFirst says of one step.                                  *)
PriorStep ==
  \A d \in Dashboards :
    Admits(d)' /\ ~Admits(d) => prior[d] = Nobody \/ ~Admits(prior[d])

(* No dashboard has started.                                               *)
LEMMA OwnerInitHolds == OwnerInit => OwnerInv
  BY DEF OwnerInit, OwnerInv, OwnerTypeOK, ClaimPhases, PastPrior

(* The steps of a claim, one at a time.                                    *)
LEMMA ClaimSteps ==
  ASSUME OwnerInv, NEW d \in Dashboards, Listen(d) \/ Claiming(d)
  PROVE  OwnerInv' /\ PriorStep
<1> USE OwnershipAssumption
    DEF OwnerInv, OwnerTypeOK, PriorStep, Admits, Finished, PastPrior,
        ClaimPhases, Claims
<1>1. CASE Listen(d)
  BY <1>1 DEF Listen
<1>2. CASE ReadOwner(d)
  BY <1>2 DEF ReadOwner
<1>3. CASE AskPrior(d)
  BY <1>3 DEF AskPrior, ServerOpen, Stopped
<1>4. CASE AskFails(d)
  BY <1>4 DEF AskFails
<1>5. CASE FileGone(d)
  BY <1>5 DEF FileGone
<1>6. CASE WaitFails(d)
  BY <1>6 DEF WaitFails
<1>7. CASE CheckPrior(d)
  BY <1>7 DEF CheckPrior
<1>8. CASE RemoveFile(d)
  BY <1>8 DEF RemoveFile
<1>9. CASE CreateFile(d)
  BY <1>9 DEF CreateFile
<1>10. CASE FillFile(d)
  BY <1>10 DEF FillFile
<1>11. CASE VerifyFile(d)
  <2>1. CASE Claims(d, "verifying", "owner")
             /\ accepting' = [accepting EXCEPT ![d] = TRUE]
    <3>1. OwnerInv'
      BY <1>11, <2>1 DEF VerifyFile
    <3>2. PriorStep
      BY <1>11, <2>1 DEF VerifyFile
    <3> QED
      BY <3>1, <3>2
  <2>2. CASE Claims(d, "verifying", "failed") /\ UNCHANGED accepting
    <3>1. OwnerInv'
      BY <1>11, <2>2 DEF VerifyFile
    <3>2. PriorStep
      BY <1>11, <2>2 DEF VerifyFile
    <3> QED
      BY <3>1, <3>2
  <2> QED
    BY <1>11, <2>1, <2>2 DEF VerifyFile
<1> QED
  BY <1>1, <1>2, <1>3, <1>4, <1>5, <1>6, <1>7, <1>8, <1>9, <1>10, <1>11
     DEF Claiming

(* The ends of a dashboard.                                                *)
LEMMA EndSteps ==
  ASSUME OwnerInv, NEW d \in Dashboards,
         Signal(d) \/ CleanUp(d) \/ Release(d) \/ Exit(d) \/ Crash(d)
  PROVE  OwnerInv' /\ PriorStep
<1> USE OwnershipAssumption
    DEF OwnerInv, OwnerTypeOK, PriorStep, Admits, Finished, PastPrior,
        ClaimPhases
<1>1. CASE Signal(d)
  BY <1>1 DEF Signal, Stopped
<1>2. CASE CleanUp(d)
  BY <1>2 DEF CleanUp
<1>3. CASE Release(d)
  BY <1>3 DEF Release
<1>4. CASE Exit(d)
  BY <1>4 DEF Exit
<1>5. CASE Crash(d)
  BY <1>5 DEF Crash
<1> QED BY <1>1, <1>2, <1>3, <1>4, <1>5

(* The invariant of the dashboards and their owner file.                   *)
LEMMA OwnerInvHolds == OwnerSpec => []OwnerInv
<1>1. ASSUME OwnerInv, OwnerNext PROVE OwnerInv'
  BY <1>1, ClaimSteps, EndSteps DEF OwnerNext
<1>2. OwnerInv /\ UNCHANGED ownerVars => OwnerInv'
  BY DEF OwnerInv, OwnerTypeOK, Finished, ownerVars
<1> QED BY OwnerInitHolds, <1>1, <1>2, PTL DEF OwnerSpec

(* A replacement admits launches only after the dashboard it found in the  *)
(* owner file has stopped, with any number of dashboards that claim, are   *)
(* signalled and crash between any two file operations.                    *)
THEOREM PriorStopsFirstHolds == OwnerSpec => PriorStopsFirst
<1>1. ASSUME OwnerInv, OwnerNext PROVE PriorStep
  BY <1>1, ClaimSteps, EndSteps DEF OwnerNext
<1>2. OwnerInv /\ [OwnerNext]_ownerVars =>
        [\A d \in Dashboards :
           Admits(d)' /\ ~Admits(d) =>
             prior[d] = Nobody \/ ~Admits(prior[d])]_ownerVars
  BY <1>1 DEF PriorStep
<1> QED BY OwnerInvHolds, <1>2, PTL DEF OwnerSpec, PriorStopsFirst

-----------------------------------------------------------------------------
(* Runtimes.  A runtime is attended until its close() has settled.  Until  *)
(* shutdown() sweeps, every attended runtime has a record in the map or is *)
(* awaited by the admission that removed it; afterwards every one is among *)
(* those swept.                                                            *)

RuntimeRecords ==
  [project : Projects, identity : Nat, used : Nat,
   state : {"starting", "open", "closing", "discarded", "abandoned", "closed"}]

\* What close() leaves, whether it resolves or rejects.
Over == {"closed", "abandoned"}

USE DEF Over

(* The map holds attended runtimes, and all that are open.                 *)
MapInv ==
  /\ records \subseteq AttendedRuntimes
  /\ \A r \in DOMAIN runtimes : runtimes[r].state = "open" => r \in records

(* The admission in progress.                                              *)
ReserveInv ==
  /\ reserving.at = "idle" => reserving.awaits = {}
  /\ reserving.at # "idle" => admission # <<>>
  /\ \A q \in reserving.awaits : q \notin records
  /\ \A q, r \in reserving.awaits : q = r
  /\ reserving.at = "stale" => \A r \in records :
       runtimes[r].project = reserving.project =>
         runtimes[r].identity = reserving.identity
  /\ reserving.at = "create" => \A r \in records :
       runtimes[r].project # reserving.project

CapacityInv ==
  /\ Cardinality(records \union reserving.awaits) <= MaxRuntimes
  /\ reserving.at = "create" => Cardinality(records) < MaxRuntimes
  /\ Cardinality(swept) <= MaxRuntimes

Admitting == shutdown \in {"no", "draining"}

ShutdownInv ==
  /\ Admitting => AttendedRuntimes \subseteq records \union reserving.awaits
  /\ ~Admitting => /\ admission = <<>> /\ records = {}
                   /\ AttendedRuntimes \subseteq swept
  /\ shutdown = "swept" => AttendedRuntimes = {}

RuntimesInv ==
  /\ RuntimesTypeOK /\ MapInv /\ OneRuntimePerProject
  /\ ReserveInv /\ CapacityInv /\ ShutdownInv

(* The elements of a sequence.                                             *)
LEMMA ElementsIn ==
  ASSUME NEW S, NEW s \in Seq(S)
  PROVE  \A r \in DOMAIN s : s[r] \in S
  OBVIOUS

(* A function on the indices of a sequence is a sequence.                  *)
LEMMA SameLength ==
  ASSUME NEW S, NEW s \in Seq(S), NEW f \in [DOMAIN s -> S]
  PROVE  f \in Seq(S) /\ DOMAIN f = DOMAIN s
<1>1. DOMAIN s = 1..Len(s) /\ Len(s) \in Nat
  OBVIOUS
<1>2. f \in [1..Len(s) -> S]
  BY <1>1
<1> QED BY <1>1, <1>2

(* Sets of runtimes are finite.                                            *)
LEMMA RuntimesFinite ==
  ASSUME RuntimesTypeOK
  PROVE  \A set \in SUBSET DOMAIN runtimes :
           IsFiniteSet(set) /\ Cardinality(set) \in Nat
<1>1. DOMAIN runtimes = 1..Len(runtimes) /\ Len(runtimes) \in Nat
  BY DEF RuntimesTypeOK
<1>2. IsFiniteSet(DOMAIN runtimes)
  BY <1>1, FS_Interval
<1> QED BY <1>2, FS_Subset, FS_CardinalityType

(* A subset of a set that is small enough is small enough.                 *)
LEMMA Smaller ==
  ASSUME NEW S, IsFiniteSet(S), NEW T \in SUBSET S, NEW n \in Nat
  PROVE  /\ Cardinality(S) <= n => Cardinality(T) <= n
         /\ Cardinality(S) < n => Cardinality(T) < n
  BY FS_Subset, FS_CardinalityType

(* What every step does to the runtimes there are, but the one that adds   *)
(* one: they keep their project and identity, and none runs again.         *)
Narrowed ==
  /\ runtimes' \in Seq(RuntimeRecords) /\ DOMAIN runtimes' = DOMAIN runtimes
  /\ \A r \in DOMAIN runtimes :
       /\ runtimes'[r].project = runtimes[r].project
       /\ runtimes'[r].identity = runtimes[r].identity
       /\ runtimes'[r].state \notin Over => runtimes[r].state \notin Over

(* Attended is not being over.                                             *)
LEMMA AttendedMeans ==
  AttendedRuntimes = {r \in DOMAIN runtimes : runtimes[r].state \notin Over}
  BY DEF AttendedRuntimes, RunningRuntimes, Abandoned

(* A step that narrows the runtimes runs no other and keeps projects apart. *)
LEMMA NarrowedKeeps ==
  ASSUME RuntimesInv, Narrowed
  PROVE  OneRuntimePerProject' /\ AttendedRuntimes' \subseteq AttendedRuntimes
<1>1. runtimes \in Seq(RuntimeRecords)
  BY DEF RuntimesInv, RuntimesTypeOK, RuntimeRecords
<1>2. AttendedRuntimes = {r \in DOMAIN runtimes : runtimes[r].state \notin Over}
  BY <1>1, AttendedMeans
<1>3. \A r \in DOMAIN runtimes' : runtimes'[r] \in RuntimeRecords
  BY DEF Narrowed
<1>4. AttendedRuntimes' = {r \in DOMAIN runtimes' : runtimes'[r].state \notin Over}
  BY <1>3 DEF AttendedRuntimes, RunningRuntimes, Abandoned
<1>5. AttendedRuntimes' \subseteq AttendedRuntimes
  BY <1>2, <1>4 DEF Narrowed
<1>6. OneRuntimePerProject'
  BY <1>2, <1>4, <1>5 DEF OneRuntimePerProject, RuntimesInv, Narrowed
<1> QED BY <1>5, <1>6

(* remove(): what is open in the set begins to close.                      *)
LEMMA ClosingEffect ==
  ASSUME RuntimesTypeOK, NEW set, Closing(set)
  PROVE  /\ Narrowed
         /\ \A r \in DOMAIN runtimes :
              /\ runtimes'[r].state \in Over <=> runtimes[r].state \in Over
              /\ runtimes'[r].state = "open" <=>
                   runtimes[r].state = "open" /\ r \notin set
<1>1. runtimes \in Seq(RuntimeRecords)
  BY DEF RuntimesTypeOK, RuntimeRecords
<1>2. \A r \in DOMAIN runtimes : runtimes[r] \in RuntimeRecords
  BY <1>1, ElementsIn
<1>3. runtimes' = [r \in DOMAIN runtimes |->
        IF r \in set /\ runtimes[r].state = "open"
        THEN [runtimes[r] EXCEPT !.state = "closing"] ELSE runtimes[r]]
  BY DEF Closing
<1>4. \A r \in DOMAIN runtimes :
        /\ [runtimes[r] EXCEPT !.state = "closing"] \in RuntimeRecords
        /\ [runtimes[r] EXCEPT !.state = "closing"].project = runtimes[r].project
        /\ [runtimes[r] EXCEPT !.state = "closing"].identity = runtimes[r].identity
        /\ [runtimes[r] EXCEPT !.state = "closing"].state = "closing"
  BY <1>2 DEF RuntimeRecords
<1>5. runtimes' \in [DOMAIN runtimes -> RuntimeRecords]
  BY <1>2, <1>3, <1>4
<1>6. runtimes' \in Seq(RuntimeRecords) /\ DOMAIN runtimes' = DOMAIN runtimes
  BY <1>1, <1>5, SameLength
<1>7. \A r \in DOMAIN runtimes : runtimes'[r] =
        IF r \in set /\ runtimes[r].state = "open"
        THEN [runtimes[r] EXCEPT !.state = "closing"] ELSE runtimes[r]
  BY <1>3
<1> QED BY <1>4, <1>6, <1>7 DEF Narrowed

(* One runtime gets another state, or is used.                             *)
LEMMA BecomeEffect ==
  ASSUME RuntimesTypeOK, NEW r \in DOMAIN runtimes, NEW new \in RuntimeRecords,
         new.project = runtimes[r].project, new.identity = runtimes[r].identity,
         new.state \notin Over => runtimes[r].state \notin Over,
         runtimes' = [runtimes EXCEPT ![r] = new]
  PROVE  /\ Narrowed
         /\ \A q \in DOMAIN runtimes :
              runtimes'[q].state = IF q = r THEN new.state ELSE runtimes[q].state
<1>1. runtimes \in Seq(RuntimeRecords)
  BY DEF RuntimesTypeOK, RuntimeRecords
<1>2. runtimes' \in [DOMAIN runtimes -> RuntimeRecords]
  BY <1>1
<1>3. runtimes' \in Seq(RuntimeRecords) /\ DOMAIN runtimes' = DOMAIN runtimes
  BY <1>1, <1>2, SameLength
<1>4. \A q \in DOMAIN runtimes :
        runtimes'[q] = IF q = r THEN new ELSE runtimes[q]
  BY <1>2
<1> QED BY <1>3, <1>4 DEF Narrowed

(* Nothing has been launched.                                              *)
LEMMA RuntimesInitHolds == RuntimesInit => RuntimesInv
<1> SUFFICES ASSUME RuntimesInit PROVE RuntimesInv
  OBVIOUS
<1> USE RuntimesAssumption DEF RuntimesInit
<1>1. (CHOOSE p \in Projects : TRUE) \in Projects
  OBVIOUS
<1>2. /\ runtimes \in Seq(RuntimeRecords) /\ DOMAIN runtimes = {}
      /\ admission \in Seq(Projects)
  <2>1. <<>> \in Seq(RuntimeRecords) /\ <<>> \in Seq(Projects)
    OBVIOUS
  <2>2. DOMAIN <<>> = {}
    OBVIOUS
  <2> QED BY <2>1, <2>2
<1>3. RuntimesTypeOK
  BY <1>1, <1>2 DEF RuntimesTypeOK, NoReservation, RuntimeRecords
<1>4. AttendedRuntimes = {}
  BY <1>2 DEF AttendedRuntimes, RunningRuntimes
<1>5. swept = {}
  OBVIOUS
<1>6. Cardinality({}) = 0 /\ MaxRuntimes \in Nat /\ MaxRuntimes > 0
  BY FS_EmptySet
<1>7. records \union reserving.awaits = {} /\ reserving.at = "idle"
  BY DEF NoReservation
<1>8. CapacityInv
  <2>1. /\ Cardinality(records \union reserving.awaits) = 0
        /\ Cardinality(swept) = 0
    BY <1>5, <1>6, <1>7
  <2> HIDE DEF RuntimesInit
  <2> QED BY <1>6, <1>7, <2>1 DEF CapacityInv
<1>9. MapInv /\ OneRuntimePerProject /\ ReserveInv /\ ShutdownInv
  BY <1>2, <1>4, <1>7 DEF MapInv, OneRuntimePerProject, ReserveInv, ShutdownInv,
                           Admitting
<1> QED BY <1>3, <1>8, <1>9 DEF RuntimesInv

(* A step that adds no runtime and no record.                              *)
LEMMA ShrinkKeeps ==
  ASSUME RuntimesInv, RuntimesTypeOK', Narrowed, ReserveInv',
         records' \subseteq records, records' \subseteq AttendedRuntimes',
         \A r \in DOMAIN runtimes : runtimes'[r].state = "open" => r \in records',
         reserving'.awaits \subseteq records \union reserving.awaits,
         reserving'.at = "create" => Cardinality(records') < MaxRuntimes,
         swept' = swept,
         Admitting' =>
           Admitting /\ AttendedRuntimes' \subseteq records' \union reserving'.awaits,
         ~Admitting' => ~Admitting /\ admission' = <<>>,
         shutdown' = "swept" => shutdown = "swept" \/ AttendedRuntimes = {}
  PROVE  RuntimesInv'
<1>1. OneRuntimePerProject' /\ AttendedRuntimes' \subseteq AttendedRuntimes
  BY NarrowedKeeps
<1>2. MapInv'
  BY DEF MapInv, Narrowed
<1>3. CapacityInv'
  <2> DEFINE held == records \union reserving.awaits
             after == records' \union reserving'.awaits
  <2>1. held \in SUBSET DOMAIN runtimes /\ after \in SUBSET held
    BY DEF RuntimesInv, RuntimesTypeOK
  <2>2. IsFiniteSet(held) /\ Cardinality(held) <= MaxRuntimes
    BY <2>1, RuntimesFinite DEF RuntimesInv, CapacityInv
  <2> HIDE DEF held
  <2>3. Cardinality(after) <= MaxRuntimes
    <3> HIDE DEF after
    <3> QED BY <2>1, <2>2, Smaller, RuntimesAssumption
  <2> QED BY <2>3 DEF CapacityInv, RuntimesInv
<1>4. ShutdownInv'
  BY <1>1 DEF ShutdownInv, RuntimesInv
<1> QED BY <1>1, <1>2, <1>3, <1>4 DEF RuntimesInv

(* The runtimes that run after a step.                                     *)
LEMMA AttendedAfter ==
  ASSUME RuntimesTypeOK, Narrowed
  PROVE  /\ AttendedRuntimes = {r \in DOMAIN runtimes : runtimes[r].state \notin Over}
         /\ AttendedRuntimes' = {r \in DOMAIN runtimes : runtimes'[r].state \notin Over}
<1>1. runtimes \in Seq(RuntimeRecords)
  BY DEF RuntimesTypeOK, RuntimeRecords
<1>2. AttendedRuntimes = {r \in DOMAIN runtimes : runtimes[r].state \notin Over}
  BY <1>1, AttendedMeans
<1>3. \A r \in DOMAIN runtimes' : runtimes'[r] \in RuntimeRecords
  BY DEF Narrowed
<1>4. AttendedRuntimes' = {r \in DOMAIN runtimes' : runtimes'[r].state \notin Over}
  BY <1>3 DEF AttendedRuntimes, RunningRuntimes, Abandoned
<1> QED BY <1>2, <1>4 DEF Narrowed

(* An admission that ends.                                                 *)
LEMMA AdmittedEffect ==
  ASSUME RuntimesTypeOK, admission # <<>>, Admitted
  PROVE  /\ admission' \in Seq(Projects)
         /\ reserving'.at = "idle" /\ reserving'.awaits = {}
         /\ reserving' \in [at : {"idle", "stale", "create"}, project : Projects,
                            identity : Nat, awaits : SUBSET DOMAIN runtimes]
         /\ ReserveInv'
<1>1. (CHOOSE p \in Projects : TRUE) \in Projects
  BY RuntimesAssumption
<1>2. reserving' = NoReservation /\ admission' = Tail(admission)
  BY DEF Admitted
<1>3. admission' \in Seq(Projects)
  BY <1>2 DEF RuntimesTypeOK
<1> QED BY <1>1, <1>2, <1>3 DEF NoReservation, ReserveInv

(* A step that touches neither records nor the admission in progress.      *)
LEMMA QuietKeeps ==
  ASSUME RuntimesInv, RuntimesTypeOK', Narrowed,
         \A r \in DOMAIN runtimes :
           /\ runtimes'[r].state \in Over <=> runtimes[r].state \in Over
           /\ runtimes'[r].state = "open" <=> runtimes[r].state = "open",
         UNCHANGED <<records, reserving, swept>>,
         reserving.at # "idle" => admission' # <<>>,
         Admitting' => Admitting,
         ~Admitting' => ~Admitting /\ admission' = <<>>,
         shutdown' = "swept" => shutdown = "swept" \/ AttendedRuntimes = {}
  PROVE  RuntimesInv'
<1>1. AttendedRuntimes' = AttendedRuntimes
  BY AttendedAfter DEF RuntimesInv
<1>2. \A r \in records : r \in DOMAIN runtimes
  BY DEF RuntimesInv, RuntimesTypeOK
<1>3. ReserveInv'
  BY <1>2 DEF ReserveInv, RuntimesInv, Narrowed
<1>4. /\ records' \subseteq records /\ records' \subseteq AttendedRuntimes'
      /\ \A r \in DOMAIN runtimes : runtimes'[r].state = "open" => r \in records'
  BY <1>1 DEF RuntimesInv, MapInv
<1>5. /\ reserving'.awaits \subseteq records \union reserving.awaits
      /\ reserving'.at = "create" => Cardinality(records') < MaxRuntimes
  BY DEF RuntimesInv, CapacityInv
<1>6. Admitting' =>
        Admitting /\ AttendedRuntimes' \subseteq records' \union reserving'.awaits
  BY <1>1 DEF RuntimesInv, ShutdownInv
<1> QED BY <1>3, <1>4, <1>5, <1>6, ShrinkKeeps

(* Steps of the environment, of routes and of shutdown() but its sweep.    *)
LEMMA QuietStepsKeep ==
  ASSUME RuntimesInv,
         \/ \E p \in Projects : Launch(p) \/ ReplaceRoot(p)
         \/ RefuseLaunch \/ IdleTimePasses \/ BeginShutdown \/ Swept
         \/ \E r \in DOMAIN runtimes : Use(r)
  PROVE  RuntimesInv'
<1>1. runtimes \in Seq(RuntimeRecords) /\ admission \in Seq(Projects)
  BY DEF RuntimesInv, RuntimesTypeOK, RuntimeRecords
<1>2. RuntimesTypeOK
  BY DEF RuntimesInv
<1>3. CASE \/ \E p \in Projects : Launch(p) \/ ReplaceRoot(p)
           \/ RefuseLaunch \/ IdleTimePasses \/ BeginShutdown \/ Swept
  <2>0. runtimes' = runtimes
    BY <1>3 DEF Launch, ReplaceRoot, RefuseLaunch, IdleTimePasses, BeginShutdown,
                Swept
  <2>1. Narrowed
    BY <1>1, <2>0 DEF Narrowed
  <2>2. \A p \in Projects : /\ Append(admission, p) \in Seq(Projects)
                            /\ Append(admission, p) # <<>>
    BY <1>1
  <2>3. admission # <<>> => Tail(admission) \in Seq(Projects)
    BY <1>1
  <2>4. /\ UNCHANGED <<records, reserving, swept>> /\ admission' \in Seq(Projects)
        /\ requested' \in Nat /\ identity' \in [Projects -> Nat] /\ clock' \in Nat
        /\ shutdown' \in {"no", "draining", "sweeping", "swept"}
    <3>1. /\ requested \in Nat /\ identity \in [Projects -> Nat] /\ clock \in Nat
          /\ shutdown \in {"no", "draining", "sweeping", "swept"}
      BY <1>2 DEF RuntimesTypeOK
    <3>2. CASE \E p \in Projects : Launch(p)
      BY <1>1, <2>2, <3>1, <3>2 DEF Launch
    <3>3. CASE \E p \in Projects : ReplaceRoot(p)
      BY <1>1, <3>1, <3>3 DEF ReplaceRoot
    <3>4. CASE RefuseLaunch
      BY <2>3, <3>1, <3>4 DEF RefuseLaunch
    <3>5. CASE IdleTimePasses \/ BeginShutdown \/ Swept
      BY <1>1, <3>1, <3>5 DEF IdleTimePasses, BeginShutdown, Swept
    <3> QED BY <1>3, <3>2, <3>3, <3>4, <3>5
  <2>5. RuntimesTypeOK'
    BY <1>2, <2>0, <2>4 DEF RuntimesTypeOK
  <2>6. /\ reserving.at # "idle" => admission' # <<>>
        /\ Admitting' => Admitting
        /\ ~Admitting' => ~Admitting /\ admission' = <<>>
    BY <1>2, <1>3, <2>2
       DEF RuntimesInv, RuntimesTypeOK, ReserveInv, ShutdownInv, Admitting,
           Launch, ReplaceRoot, RefuseLaunch, IdleTimePasses, BeginShutdown, Swept
  <2>7. shutdown' = "swept" => shutdown = "swept" \/ AttendedRuntimes = {}
    <3>1. CASE Swept
      <4>1. AttendedRuntimes \subseteq swept /\ records = {}
        BY <3>1 DEF Swept, RuntimesInv, ShutdownInv, Admitting
      <4>2. \A r \in swept :
              runtimes[r].state = "open" \/ runtimes[r].state \in Over
        BY <3>1 DEF Swept, Ended
      <4>3. \A r \in AttendedRuntimes :
              r \in DOMAIN runtimes /\ runtimes[r].state \notin Over
        BY <1>1, AttendedMeans
      <4>4. \A r \in AttendedRuntimes : r \in records
        BY <4>1, <4>2, <4>3 DEF RuntimesInv, MapInv
      <4> QED BY <4>1, <4>4
    <3>2. CASE ~Swept
      BY <1>3, <3>2 DEF Launch, ReplaceRoot, RefuseLaunch, IdleTimePasses,
         BeginShutdown
    <3> QED BY <3>1, <3>2
  <2> QED BY <2>0, <2>1, <2>4, <2>5, <2>6, <2>7, QuietKeeps
<1>4. ASSUME NEW r \in DOMAIN runtimes, Use(r) PROVE RuntimesInv'
  <2> DEFINE new == [runtimes[r] EXCEPT !.used = clock]
  <2>1. /\ new \in RuntimeRecords /\ new.project = runtimes[r].project
        /\ new.identity = runtimes[r].identity /\ new.state = runtimes[r].state
    <3>1. runtimes[r] \in RuntimeRecords /\ clock \in Nat
      BY <1>1, <1>2 DEF RuntimesTypeOK
    <3> QED BY <3>1 DEF RuntimeRecords
  <2>2. /\ runtimes' = [runtimes EXCEPT ![r] = new]
        /\ UNCHANGED <<identity, clock, records, admission, reserving, requested,
                       shutdown, swept>>
    BY <1>4 DEF Use
  <2> HIDE DEF new
  <2>3. /\ Narrowed
        /\ \A q \in DOMAIN runtimes : runtimes'[q].state = runtimes[q].state
    BY <1>2, <2>1, <2>2, BecomeEffect
  <2>4. RuntimesTypeOK'
    BY <1>2, <2>2, <2>3 DEF RuntimesTypeOK, Narrowed, RuntimeRecords
  <2>5. /\ reserving.at # "idle" => admission # <<>>
        /\ ~Admitting => admission = <<>>
    BY DEF RuntimesInv, ReserveInv, ShutdownInv
  <2> QED BY <2>2, <2>3, <2>4, <2>5, QuietKeeps DEF Admitting
<1> QED BY <1>3, <1>4

(* A start ends: the runtime is open, discarded or closed.                 *)
LEMMA StartEndKeeps ==
  ASSUME RuntimesInv, NEW r \in DOMAIN runtimes, StartEnds(r)
  PROVE  RuntimesInv'
<1>0. /\ runtimes \in Seq(RuntimeRecords) /\ clock \in Nat /\ RuntimesTypeOK
      /\ runtimes[r].state = "starting"
  BY DEF RuntimesInv, RuntimesTypeOK, RuntimeRecords, StartEnds
<1>1. /\ runtimes \in Seq(RuntimeRecords) /\ runtimes[r] \in RuntimeRecords
      /\ clock \in Nat /\ RuntimesTypeOK /\ runtimes[r].state = "starting"
  BY <1>0
<1>2. PICK state \in {"open", "discarded", "closed"} :
        /\ runtimes' = Become(r, state)
        /\ state = "open" => r \in records
        /\ records' = IF state = "closed" THEN records \ {r} ELSE records
  <2>1. StartEnds(r) =>
          \/ r \in records /\ runtimes' = Become(r, "open") /\ records' = records
          \/ runtimes' = Become(r, "discarded") /\ records' = records
          \/ runtimes' = Become(r, "closed") /\ records' = records \ {r}
    BY DEF StartEnds
  <2> QED BY <2>1
<1> DEFINE new == [runtimes[r] EXCEPT !.state = state, !.used = clock]
<1>3. /\ new \in RuntimeRecords /\ new.project = runtimes[r].project
      /\ new.identity = runtimes[r].identity /\ new.state = state
  BY <1>1 DEF RuntimeRecords
<1>4. runtimes' = [runtimes EXCEPT ![r] = new]
  BY <1>2 DEF Become
<1>5. UNCHANGED <<identity, clock, admission, reserving, requested, shutdown,
                  swept>>
  BY DEF StartEnds
<1> HIDE DEF new
<1>6. /\ Narrowed
      /\ \A q \in DOMAIN runtimes :
           runtimes'[q].state = IF q = r THEN state ELSE runtimes[q].state
  BY <1>1, <1>3, <1>4, BecomeEffect
<1>7. RuntimesTypeOK'
  BY <1>1, <1>2, <1>5, <1>6 DEF RuntimesTypeOK, Narrowed, RuntimeRecords
<1>8. /\ AttendedRuntimes = {q \in DOMAIN runtimes : runtimes[q].state \notin Over}
      /\ AttendedRuntimes' = {q \in DOMAIN runtimes : runtimes'[q].state \notin Over}
  BY <1>1, <1>6, AttendedAfter
<1>9. /\ records' \subseteq records /\ records' \subseteq AttendedRuntimes'
      /\ \A q \in DOMAIN runtimes : runtimes'[q].state = "open" => q \in records'
  BY <1>2, <1>6, <1>8 DEF RuntimesInv, MapInv
<1>10. ReserveInv'
  <2>1. \A q \in records' : q \in DOMAIN runtimes /\ q \in records
    BY <1>8, <1>9 DEF RuntimesInv, MapInv
  <2> QED BY <1>5, <1>6, <2>1 DEF RuntimesInv, ReserveInv, Narrowed
<1>11. reserving'.at = "create" => Cardinality(records') < MaxRuntimes
  <2>1. records \in SUBSET DOMAIN runtimes /\ records' \in SUBSET records
    BY <1>8, <1>9 DEF RuntimesInv, MapInv
  <2>2. IsFiniteSet(records)
    BY <1>1, <2>1, RuntimesFinite
  <2> QED BY <1>5, <2>1, <2>2, Smaller, RuntimesAssumption
          DEF RuntimesInv, CapacityInv
<1>12. Admitting' =>
         Admitting /\ AttendedRuntimes' \subseteq records' \union reserving'.awaits
  <2>1. SUFFICES ASSUME Admitting'
                 PROVE  AttendedRuntimes' \subseteq records' \union reserving.awaits
    BY <1>5 DEF Admitting
  <2>2. AttendedRuntimes \subseteq records \union reserving.awaits
    BY <1>5, <2>1 DEF RuntimesInv, ShutdownInv, Admitting
  <2>3. state = "closed" => r \notin AttendedRuntimes'
    BY <1>6, <1>8
  <2>4. AttendedRuntimes' \subseteq AttendedRuntimes
    BY <1>1, <1>6, <1>8
  <2>5. records \ {r} \subseteq records'
    BY <1>2
  <2>6. state # "closed" => records' = records
    BY <1>2
  <2> QED BY <2>2, <2>3, <2>4, <2>5, <2>6
<1>13. /\ ~Admitting' => ~Admitting /\ admission' = <<>>
       /\ shutdown' = "swept" => shutdown = "swept"
  BY <1>5 DEF RuntimesInv, ShutdownInv, Admitting
<1> QED BY <1>5, <1>6, <1>7, <1>9, <1>10, <1>11, <1>12, <1>13, ShrinkKeeps

(* close() resolves or rejects, and may fail the admission that awaits it. *)
LEMMA OverKeeps ==
  ASSUME RuntimesInv, NEW r \in DOMAIN runtimes, NEW over \in Over,
         runtimes[r].state \in {"closing", "discarded"},
         runtimes' = [runtimes EXCEPT ![r].state = over],
         records' = records \ {r},
         UNCHANGED <<identity, clock, requested, shutdown, swept>>,
         \/ UNCHANGED <<admission, reserving>>
         \/ r \in reserving.awaits /\ Admitted
  PROVE  RuntimesInv'
<1>0. runtimes \in Seq(RuntimeRecords) /\ RuntimesTypeOK
  BY DEF RuntimesInv, RuntimesTypeOK, RuntimeRecords
<1>1. runtimes[r] \in RuntimeRecords
  BY <1>0
<1> DEFINE new == [runtimes[r] EXCEPT !.state = over]
<1>2. /\ new \in RuntimeRecords /\ new.project = runtimes[r].project
      /\ new.identity = runtimes[r].identity /\ new.state = over
  BY <1>1 DEF RuntimeRecords
<1>3. /\ runtimes' = [runtimes EXCEPT ![r] = new] /\ records' = records \ {r}
      /\ UNCHANGED <<identity, clock, requested, shutdown, swept>>
  OBVIOUS
<1> HIDE DEF new
<1>4. /\ Narrowed
      /\ \A q \in DOMAIN runtimes :
           runtimes'[q].state = IF q = r THEN over ELSE runtimes[q].state
  BY <1>0, <1>2, <1>3, BecomeEffect
<1>5. /\ AttendedRuntimes = {q \in DOMAIN runtimes : runtimes[q].state \notin Over}
      /\ AttendedRuntimes' = {q \in DOMAIN runtimes : runtimes'[q].state \notin Over}
  BY <1>0, <1>4, AttendedAfter
<1>6. AttendedRuntimes' = AttendedRuntimes \ {r}
  BY <1>4, <1>5
<1>7. /\ records' \subseteq records /\ records' \subseteq AttendedRuntimes'
      /\ \A q \in DOMAIN runtimes : runtimes'[q].state = "open" => q \in records'
  BY <1>3, <1>4, <1>6 DEF RuntimesInv, MapInv
<1>8. CASE UNCHANGED <<admission, reserving>>
  <2>1. RuntimesTypeOK'
    BY <1>0, <1>3, <1>4, <1>8 DEF RuntimesTypeOK, Narrowed, RuntimeRecords
  <2>2. ReserveInv'
    <3>1. \A q \in records' : q \in DOMAIN runtimes /\ q \in records
      BY <1>5, <1>7 DEF RuntimesInv, MapInv
    <3> QED BY <1>4, <1>8, <3>1 DEF RuntimesInv, ReserveInv, Narrowed
  <2>3. reserving'.at = "create" => Cardinality(records') < MaxRuntimes
    <3>1. records \in SUBSET DOMAIN runtimes /\ records' \in SUBSET records
      BY <1>3 DEF RuntimesInv, RuntimesTypeOK
    <3>2. IsFiniteSet(records)
      BY <1>0, <3>1, RuntimesFinite
    <3> QED BY <1>8, <3>1, <3>2, Smaller, RuntimesAssumption
            DEF RuntimesInv, CapacityInv
  <2>4. Admitting' =>
          Admitting /\ AttendedRuntimes' \subseteq records' \union reserving'.awaits
    BY <1>3, <1>6, <1>8 DEF RuntimesInv, ShutdownInv, Admitting
  <2>5. /\ ~Admitting' => ~Admitting /\ admission' = <<>>
        /\ shutdown' = "swept" => shutdown = "swept"
    BY <1>3, <1>8 DEF RuntimesInv, ShutdownInv, Admitting
  <2>6. reserving'.awaits \subseteq records \union reserving.awaits
    BY <1>8
  <2> QED BY <1>3, <1>4, <1>7, <2>1, <2>2, <2>3, <2>4, <2>5, <2>6, ShrinkKeeps
<1>9. CASE r \in reserving.awaits /\ Admitted
  <2>1. reserving.at # "idle" /\ admission # <<>>
    BY <1>0, <1>9 DEF RuntimesInv, RuntimesTypeOK, ReserveInv
  <2>2. /\ admission' \in Seq(Projects) /\ ReserveInv'
        /\ reserving'.at = "idle" /\ reserving'.awaits = {}
        /\ reserving' \in [at : {"idle", "stale", "create"}, project : Projects,
                           identity : Nat, awaits : SUBSET DOMAIN runtimes]
    BY <1>0, <1>9, <2>1, AdmittedEffect
  <2>3. RuntimesTypeOK'
    BY <1>0, <1>3, <1>4, <2>2 DEF RuntimesTypeOK, Narrowed, RuntimeRecords
  <2>4. Admitting /\ shutdown' = shutdown
    BY <1>3, <2>1 DEF RuntimesInv, ShutdownInv
  <2>5. reserving.awaits = {r}
    BY <1>9 DEF RuntimesInv, ReserveInv
  <2>6. AttendedRuntimes' \subseteq records' \union reserving'.awaits
    BY <1>3, <1>6, <2>4, <2>5 DEF RuntimesInv, ShutdownInv
  <2>7. Admitting' /\ shutdown' # "swept"
    BY <2>4 DEF Admitting
  <2> QED BY <1>3, <1>4, <1>7, <2>2, <2>3, <2>4, <2>6, <2>7, ShrinkKeeps
<1> QED BY <1>8, <1>9

LEMMA CloseSettlesKeeps ==
  ASSUME RuntimesInv, NEW r \in DOMAIN runtimes, CloseEnds(r) \/ CloseRejects(r)
  PROVE  RuntimesInv'
<1>1. CASE CloseEnds(r)
  BY <1>1, OverKeeps DEF CloseEnds
<1>2. CASE CloseRejects(r)
  BY <1>2, OverKeeps DEF CloseRejects
<1> QED BY <1>1, <1>2

(* The cleanup of an abandoned runtime ends: nobody had awaited it.        *)
LEMMA LateCleanupKeeps ==
  ASSUME RuntimesInv, NEW r \in DOMAIN runtimes, LateCleanup(r)
  PROVE  RuntimesInv'
<1>1. /\ runtimes \in Seq(RuntimeRecords) /\ RuntimesTypeOK
      /\ runtimes[r].state = "abandoned"
  BY DEF RuntimesInv, RuntimesTypeOK, RuntimeRecords, LateCleanup
<1>2. runtimes[r] \in RuntimeRecords
  BY <1>1
<1> DEFINE new == [runtimes[r] EXCEPT !.state = "closed"]
<1>3. /\ new \in RuntimeRecords /\ new.project = runtimes[r].project
      /\ new.identity = runtimes[r].identity /\ new.state = "closed"
  BY <1>2 DEF RuntimeRecords
<1>4. /\ runtimes' = [runtimes EXCEPT ![r] = new]
      /\ UNCHANGED <<identity, clock, records, admission, reserving, requested,
                     shutdown, swept>>
  BY DEF LateCleanup
<1> HIDE DEF new
<1>5. /\ Narrowed
      /\ \A q \in DOMAIN runtimes :
           runtimes'[q].state = IF q = r THEN "closed" ELSE runtimes[q].state
  BY <1>1, <1>3, <1>4, BecomeEffect
<1>6. RuntimesTypeOK'
  BY <1>1, <1>4, <1>5 DEF RuntimesTypeOK, Narrowed, RuntimeRecords
<1>7. /\ reserving.at # "idle" => admission # <<>>
      /\ ~Admitting => admission = <<>>
  BY DEF RuntimesInv, ReserveInv, ShutdownInv
<1> QED BY <1>1, <1>4, <1>5, <1>6, <1>7, QuietKeeps DEF Admitting

(* At most one runtime of an earlier identity is removed, as a project has *)
(* no other running.                                                       *)
LEMMA BeginReserveKeeps ==
  ASSUME RuntimesInv, BeginReserve
  PROVE  RuntimesInv'
<1> DEFINE p == Head(admission)
<1>1. /\ runtimes \in Seq(RuntimeRecords) /\ RuntimesTypeOK
      /\ reserving.at = "idle" /\ reserving.awaits = {} /\ admission # <<>>
  BY DEF RuntimesInv, RuntimesTypeOK, RuntimeRecords, BeginReserve, ReserveInv
<1>2. p \in Projects /\ identity[p] \in Nat
  BY <1>1 DEF RuntimesTypeOK
<1>3. /\ reserving' = [at |-> "stale", project |-> p,
                       identity |-> identity[p], awaits |-> Stale(p)]
      /\ records' = records \ Stale(p) /\ Closing(Stale(p))
      /\ UNCHANGED <<identity, clock, admission, requested, shutdown, swept>>
  BY DEF BeginReserve
<1> HIDE DEF p
<1>4. Stale(p) \in SUBSET records
  BY DEF Stale, OfProject
<1>5. records \in SUBSET DOMAIN runtimes /\ records \subseteq AttendedRuntimes
  BY <1>1 DEF RuntimesTypeOK, RuntimesInv, MapInv
<1>6. /\ Narrowed
      /\ \A r \in DOMAIN runtimes :
           /\ runtimes'[r].state \in Over <=> runtimes[r].state \in Over
           /\ runtimes'[r].state = "open" <=>
                runtimes[r].state = "open" /\ r \notin Stale(p)
  BY <1>1, <1>3, ClosingEffect
<1>7. AttendedRuntimes' = AttendedRuntimes
  BY <1>1, <1>6, AttendedAfter
<1>8. RuntimesTypeOK'
  BY <1>1, <1>2, <1>3, <1>4, <1>5, <1>6
     DEF RuntimesTypeOK, Narrowed, RuntimeRecords
<1>9. /\ records' \subseteq records /\ records' \subseteq AttendedRuntimes'
      /\ \A q \in DOMAIN runtimes : runtimes'[q].state = "open" => q \in records'
  BY <1>3, <1>5, <1>6, <1>7 DEF RuntimesInv, MapInv
<1>10. ReserveInv'
  <2>1. \A q \in Stale(p) : q \notin records'
    BY <1>3
  <2>2. \A q, r \in Stale(p) : q = r
    BY <1>4, <1>5 DEF Stale, OfProject, RuntimesInv, OneRuntimePerProject
  <2>3. \A r \in records' : runtimes'[r].project = p =>
          runtimes'[r].identity = identity[p]
    BY <1>3, <1>5, <1>6 DEF Stale, OfProject, Narrowed
  <2> QED BY <1>1, <1>3, <2>1, <2>2, <2>3 DEF ReserveInv
<1>11. Admitting /\ Admitting' /\ shutdown' = shutdown /\ shutdown # "swept"
  BY <1>1, <1>3 DEF RuntimesInv, ShutdownInv, Admitting
<1>12. AttendedRuntimes' \subseteq records' \union reserving'.awaits
  BY <1>1, <1>3, <1>4, <1>7, <1>11 DEF RuntimesInv, ShutdownInv
<1>13. /\ reserving'.awaits \subseteq records \union reserving.awaits
       /\ reserving'.at # "create"
  BY <1>3, <1>4
<1> QED
  BY <1>3, <1>6, <1>8, <1>9, <1>10, <1>11, <1>12, <1>13, ShrinkKeeps

(* Once what an admission awaits has ended, every running runtime is in    *)
(* the map.                                                                *)
LEMMA AwaitsEnded ==
  ASSUME RuntimesInv, reserving.at # "idle", Ended(reserving.awaits)
  PROVE  Admitting /\ admission # <<>> /\ AttendedRuntimes \subseteq records
<1>1. runtimes \in Seq(RuntimeRecords)
  BY DEF RuntimesInv, RuntimesTypeOK, RuntimeRecords
<1>2. AttendedRuntimes = {r \in DOMAIN runtimes : runtimes[r].state \notin Over}
  BY <1>1, AttendedMeans
<1>3. admission # <<>> /\ Admitting
  BY DEF RuntimesInv, ReserveInv, ShutdownInv
<1>4. \A r \in reserving.awaits : r \notin AttendedRuntimes
  BY <1>2 DEF Ended, RuntimesInv, MapInv, ReserveInv
<1> QED BY <1>3, <1>4 DEF RuntimesInv, ShutdownInv

(* A launch that finds a record of its identity adds none.                 *)
LEMMA JoinKeeps ==
  ASSUME RuntimesInv, JoinExisting
  PROVE  RuntimesInv'
<1>1. /\ runtimes \in Seq(RuntimeRecords) /\ RuntimesTypeOK /\ clock \in Nat
      /\ reserving.at = "stale"
  BY DEF RuntimesInv, RuntimesTypeOK, RuntimeRecords, JoinExisting
<1>2. Admitting /\ admission # <<>> /\ AttendedRuntimes \subseteq records
  BY <1>1, AwaitsEnded DEF JoinExisting
<1> DEFINE reused(r) == [runtimes[r] EXCEPT !.used = clock]
           chosen == Existing
<1>3. /\ runtimes' = [r \in DOMAIN runtimes |->
           IF r \in chosen /\ runtimes[r].state = "open"
           THEN reused(r) ELSE runtimes[r]]
      /\ Admitted /\ UNCHANGED <<identity, clock, records, requested, shutdown, swept>>
  BY DEF JoinExisting
<1>4. \A r \in DOMAIN runtimes : runtimes[r] \in RuntimeRecords
  BY <1>1, ElementsIn
<1>5. \A r \in DOMAIN runtimes :
        /\ reused(r) \in RuntimeRecords /\ reused(r).project = runtimes[r].project
        /\ reused(r).identity = runtimes[r].identity
        /\ reused(r).state = runtimes[r].state
  BY <1>1, <1>4 DEF RuntimeRecords
<1> HIDE DEF reused, chosen
<1>6. runtimes' \in [DOMAIN runtimes -> RuntimeRecords]
  BY <1>3, <1>4, <1>5
<1>7. runtimes' \in Seq(RuntimeRecords) /\ DOMAIN runtimes' = DOMAIN runtimes
  BY <1>1, <1>6, SameLength
<1>8. /\ Narrowed
      /\ \A r \in DOMAIN runtimes : runtimes'[r].state = runtimes[r].state
  BY <1>3, <1>5, <1>7 DEF Narrowed
<1>9. AttendedRuntimes' = AttendedRuntimes
  BY <1>1, <1>8, AttendedAfter
<1>10. /\ admission' \in Seq(Projects) /\ ReserveInv'
       /\ reserving'.at = "idle" /\ reserving'.awaits = {}
       /\ reserving' \in [at : {"idle", "stale", "create"}, project : Projects,
                          identity : Nat, awaits : SUBSET DOMAIN runtimes]
  BY <1>1, <1>2, <1>3, AdmittedEffect
<1>11. RuntimesTypeOK'
  BY <1>1, <1>3, <1>8, <1>10 DEF RuntimesTypeOK, Narrowed, RuntimeRecords
<1>12. /\ records' \subseteq records /\ records' \subseteq AttendedRuntimes'
       /\ \A r \in DOMAIN runtimes : runtimes'[r].state = "open" => r \in records'
  BY <1>3, <1>8, <1>9 DEF RuntimesInv, MapInv
<1>13. Admitting' /\ shutdown' # "swept" /\ AttendedRuntimes' \subseteq records'
  BY <1>2, <1>3, <1>9 DEF Admitting
<1> QED BY <1>2, <1>3, <1>8, <1>10, <1>11, <1>12, <1>13, ShrinkKeeps

(* A launch that finds room, makes it or fails.                            *)
LEMMA ReclaimKeeps ==
  ASSUME RuntimesInv, Reclaim
  PROVE  RuntimesInv'
<1>1. /\ runtimes \in Seq(RuntimeRecords) /\ RuntimesTypeOK
      /\ reserving.at = "stale" /\ Existing = {}
      /\ UNCHANGED <<identity, clock, requested, shutdown, swept>>
  BY DEF RuntimesInv, RuntimesTypeOK, RuntimeRecords, Reclaim
<1>2. Admitting /\ admission # <<>> /\ AttendedRuntimes \subseteq records
  BY <1>1, AwaitsEnded DEF Reclaim
<1>3. records \in SUBSET DOMAIN runtimes /\ IsFiniteSet(records)
      /\ Cardinality(records) \in Nat
  BY <1>1, RuntimesFinite DEF RuntimesTypeOK
<1>4. Cardinality(records) <= MaxRuntimes
  <2>1. reserving.awaits \in SUBSET DOMAIN runtimes
    BY <1>1 DEF RuntimesTypeOK
  <2>2. IsFiniteSet(records \union reserving.awaits)
    BY <1>1, <1>3, <2>1, RuntimesFinite
  <2> QED BY <2>2, Smaller, RuntimesAssumption DEF RuntimesInv, CapacityInv
<1>5. \A r \in records : runtimes[r].project # reserving.project
  BY <1>1 DEF Existing, OfProject, RuntimesInv, ReserveInv
<1>6. Admitting' /\ shutdown' # "swept"
  BY <1>1, <1>2 DEF Admitting
<1>7. CASE /\ Cardinality(records) < MaxRuntimes
           /\ reserving' = [reserving EXCEPT !.at = "create", !.awaits = {}]
           /\ UNCHANGED <<runtimes, records, admission>>
  <2>1. /\ reserving'.at = "create" /\ reserving'.awaits = {}
        /\ reserving'.project = reserving.project
        /\ reserving' \in [at : {"idle", "stale", "create"}, project : Projects,
                           identity : Nat, awaits : SUBSET DOMAIN runtimes]
    BY <1>1, <1>7 DEF RuntimesTypeOK
  <2>2. Narrowed
    BY <1>1, <1>7 DEF Narrowed
  <2>3. RuntimesTypeOK'
    BY <1>1, <1>7, <2>1 DEF RuntimesTypeOK
  <2>4. AttendedRuntimes' = AttendedRuntimes
    BY <1>1, <1>7, <2>2, AttendedAfter
  <2>5. ReserveInv'
    BY <1>2, <1>5, <1>7, <2>1 DEF ReserveInv
  <2>6. /\ records' \subseteq records /\ records' \subseteq AttendedRuntimes'
        /\ \A r \in DOMAIN runtimes : runtimes'[r].state = "open" => r \in records'
    BY <1>7, <2>4 DEF RuntimesInv, MapInv
  <2>7. AttendedRuntimes' \subseteq records' \union reserving'.awaits
    BY <1>2, <1>7, <2>4
  <2> QED BY <1>1, <1>2, <1>6, <1>7, <2>1, <2>2, <2>3, <2>5, <2>6, <2>7, ShrinkKeeps
<1>8. ASSUME NEW r \in Reclaimable,
             reserving' = [reserving EXCEPT !.at = "create", !.awaits = {r}],
             records' = records \ {r}, Closing({r}), admission' = admission
      PROVE  RuntimesInv'
  <2>1. r \in records
    BY DEF Reclaimable, IdleRuntimes
  <2>2. /\ reserving'.at = "create" /\ reserving'.awaits = {r}
        /\ reserving'.project = reserving.project
        /\ reserving' \in [at : {"idle", "stale", "create"}, project : Projects,
                           identity : Nat, awaits : SUBSET DOMAIN runtimes]
    BY <1>1, <1>3, <1>8, <2>1 DEF RuntimesTypeOK
  <2>3. /\ Narrowed
        /\ \A q \in DOMAIN runtimes :
             /\ runtimes'[q].state \in Over <=> runtimes[q].state \in Over
             /\ runtimes'[q].state = "open" <=>
                  runtimes[q].state = "open" /\ q \notin {r}
    BY <1>1, <1>8, ClosingEffect
  <2>4. AttendedRuntimes' = AttendedRuntimes
    BY <1>1, <2>3, AttendedAfter
  <2>5. RuntimesTypeOK'
    BY <1>1, <1>3, <1>8, <2>2, <2>3 DEF RuntimesTypeOK, Narrowed, RuntimeRecords
  <2>6. ReserveInv'
    <3>1. \A q \in records' : runtimes'[q].project = runtimes[q].project
      BY <1>3, <1>8, <2>3 DEF Narrowed
    <3> QED BY <1>2, <1>5, <1>8, <2>2, <3>1 DEF ReserveInv
  <2>7. Cardinality(records') < MaxRuntimes
    <3>1. Cardinality(records') = Cardinality(records) - 1
      BY <1>3, <1>8, <2>1, FS_RemoveElement
    <3> QED BY <1>3, <1>4, <3>1, RuntimesAssumption
  <2>8. /\ records' \subseteq records /\ records' \subseteq AttendedRuntimes'
        /\ \A q \in DOMAIN runtimes : runtimes'[q].state = "open" => q \in records'
    BY <1>8, <2>3, <2>4 DEF RuntimesInv, MapInv
  <2>9. /\ AttendedRuntimes' \subseteq records' \union reserving'.awaits
        /\ reserving'.awaits \subseteq records \union reserving.awaits
    BY <1>2, <1>8, <2>1, <2>2, <2>4
  <2> QED BY <1>1, <1>2, <1>6, <2>3, <2>5, <2>6, <2>7, <2>8, <2>9, ShrinkKeeps
<1>9. CASE Admitted /\ UNCHANGED <<runtimes, records>>
  <2>1. /\ admission' \in Seq(Projects) /\ ReserveInv'
        /\ reserving'.at = "idle" /\ reserving'.awaits = {}
        /\ reserving' \in [at : {"idle", "stale", "create"}, project : Projects,
                           identity : Nat, awaits : SUBSET DOMAIN runtimes]
    BY <1>1, <1>2, <1>9, AdmittedEffect
  <2>2. Narrowed
    BY <1>1, <1>9 DEF Narrowed
  <2>3. RuntimesTypeOK'
    BY <1>1, <1>9, <2>1 DEF RuntimesTypeOK
  <2>4. AttendedRuntimes' = AttendedRuntimes
    BY <1>1, <1>9, <2>2, AttendedAfter
  <2>5. /\ records' \subseteq records /\ records' \subseteq AttendedRuntimes'
        /\ \A r \in DOMAIN runtimes : runtimes'[r].state = "open" => r \in records'
    BY <1>9, <2>4 DEF RuntimesInv, MapInv
  <2>6. AttendedRuntimes' \subseteq records' \union reserving'.awaits
    BY <1>2, <1>9, <2>4
  <2> QED BY <1>1, <1>2, <1>6, <2>1, <2>2, <2>3, <2>5, <2>6, ShrinkKeeps
<1> QED BY <1>7, <1>8, <1>9 DEF Reclaim

(* The record of a new runtime: there is room for it and its project has   *)
(* no other.                                                               *)
LEMMA CreateKeeps ==
  ASSUME RuntimesInv, CreateStartingRecord
  PROVE  RuntimesInv'
<1> DEFINE n == Len(runtimes) + 1
           new == [project |-> reserving.project, identity |-> reserving.identity,
                   state |-> "starting", used |-> clock]
<1>1. /\ runtimes \in Seq(RuntimeRecords) /\ RuntimesTypeOK
      /\ reserving.at = "create"
      /\ UNCHANGED <<identity, clock, requested, shutdown, swept>>
  BY DEF RuntimesInv, RuntimesTypeOK, RuntimeRecords, CreateStartingRecord
<1>2. Admitting /\ admission # <<>> /\ AttendedRuntimes \subseteq records
  BY <1>1, AwaitsEnded DEF CreateStartingRecord
<1>3. /\ new \in RuntimeRecords /\ new.project = reserving.project
      /\ new.state = "starting"
  BY <1>1 DEF RuntimesTypeOK, RuntimeRecords
<1>4. /\ runtimes' = Append(runtimes, new) /\ records' = records \union {n}
      /\ Admitted
  BY DEF CreateStartingRecord
<1> HIDE DEF new
<1>5. Len(runtimes) \in Nat /\ DOMAIN runtimes = 1..Len(runtimes)
  BY <1>1
<1>6. /\ runtimes' \in Seq(RuntimeRecords) /\ DOMAIN runtimes' = DOMAIN runtimes \union {n}
      /\ \A r \in DOMAIN runtimes : runtimes'[r] = runtimes[r]
      /\ runtimes'[n] = new /\ n \notin DOMAIN runtimes
  BY <1>1, <1>3, <1>4, <1>5
<1> HIDE DEF n
<1>7. AttendedRuntimes = {r \in DOMAIN runtimes : runtimes[r].state \notin Over}
  BY <1>1, AttendedMeans
<1>8. AttendedRuntimes' = {r \in DOMAIN runtimes' : runtimes'[r].state \notin Over}
  <2>1. runtimes' \in Seq(RuntimeRecords)
    BY <1>6
  <2>2. \A r \in DOMAIN runtimes' : runtimes'[r] \in RuntimeRecords
    BY <2>1, ElementsIn
  <2> QED BY <2>2 DEF AttendedRuntimes, RunningRuntimes, Abandoned
<1>9. AttendedRuntimes' = AttendedRuntimes \union {n}
  BY <1>3, <1>6, <1>7, <1>8
<1>10. /\ admission' \in Seq(Projects) /\ ReserveInv'
       /\ reserving'.at = "idle" /\ reserving'.awaits = {}
       /\ reserving' \in [at : {"idle", "stale", "create"}, project : Projects,
                          identity : Nat, awaits : SUBSET DOMAIN runtimes]
  BY <1>1, <1>2, <1>4, AdmittedEffect
<1>11. RuntimesTypeOK'
  BY <1>1, <1>4, <1>6, <1>10 DEF RuntimesTypeOK, RuntimeRecords
<1>12. MapInv'
  BY <1>3, <1>4, <1>6, <1>9 DEF RuntimesInv, MapInv
<1>13. OneRuntimePerProject'
  <2>1. \A r \in AttendedRuntimes :
          /\ runtimes[r].project # reserving.project
          /\ runtimes'[r] = runtimes[r] /\ r # n
    BY <1>1, <1>2, <1>6, <1>7 DEF RuntimesInv, ReserveInv
  <2>2. runtimes'[n].project = reserving.project
    BY <1>3, <1>6
  <2> QED BY <1>9, <2>1, <2>2 DEF RuntimesInv, OneRuntimePerProject
<1>14. CapacityInv'
  <2>1. records \in SUBSET DOMAIN runtimes /\ n \notin records
    BY <1>1, <1>6 DEF RuntimesTypeOK
  <2>2. IsFiniteSet(records) /\ Cardinality(records) \in Nat
    BY <1>1, <2>1, RuntimesFinite
  <2>3. Cardinality(records') = Cardinality(records) + 1
    BY <1>4, <2>1, <2>2, FS_AddElement
  <2>4. Cardinality(records) < MaxRuntimes
    BY <1>1 DEF RuntimesInv, CapacityInv
  <2>5. records' \union reserving'.awaits = records'
    BY <1>10
  <2>6. Cardinality(records') <= MaxRuntimes
    BY <2>2, <2>3, <2>4, RuntimesAssumption
  <2> QED BY <1>1, <1>10, <2>5, <2>6 DEF RuntimesInv, CapacityInv
<1>15. ShutdownInv'
  BY <1>1, <1>2, <1>4, <1>9 DEF ShutdownInv, Admitting
<1> QED BY <1>10, <1>11, <1>12, <1>13, <1>14, <1>15 DEF RuntimesInv

(* shutdown() sweeps what there is: no admission is in progress.           *)
LEMMA ClosingSweepKeeps ==
  ASSUME RuntimesInv, Sweep
  PROVE  RuntimesInv'
<1>1. /\ runtimes \in Seq(RuntimeRecords) /\ RuntimesTypeOK /\ admission = <<>>
      /\ swept' = records /\ records' = {} /\ Closing(records)
      /\ shutdown' = "sweeping"
      /\ UNCHANGED <<identity, clock, admission, reserving, requested>>
  BY DEF RuntimesInv, RuntimesTypeOK, RuntimeRecords, Sweep
<1>2. reserving.at = "idle" /\ reserving.awaits = {}
  BY <1>1 DEF RuntimesInv, RuntimesTypeOK, ReserveInv
<1>3. AttendedRuntimes \subseteq records
  BY <1>2 DEF Sweep, RuntimesInv, ShutdownInv, Admitting
<1>4. records \in SUBSET DOMAIN runtimes
  BY <1>1 DEF RuntimesTypeOK
<1>5. /\ Narrowed
      /\ \A r \in DOMAIN runtimes :
           /\ runtimes'[r].state \in Over <=> runtimes[r].state \in Over
           /\ runtimes'[r].state = "open" <=>
                runtimes[r].state = "open" /\ r \notin records
  BY <1>1, ClosingEffect
<1>6. AttendedRuntimes' \subseteq AttendedRuntimes /\ OneRuntimePerProject'
  BY <1>5, NarrowedKeeps
<1>7. RuntimesTypeOK'
  BY <1>1, <1>4, <1>5 DEF RuntimesTypeOK, Narrowed, RuntimeRecords
<1>8. MapInv'
  BY <1>1, <1>5 DEF RuntimesInv, MapInv, Narrowed
<1>9. ReserveInv'
  BY <1>1, <1>2 DEF ReserveInv
<1>10. Cardinality({}) = 0 /\ MaxRuntimes \in Nat
  BY FS_EmptySet, RuntimesAssumption
<1>11. CapacityInv'
  <2>1. records \union reserving.awaits = records
    BY <1>2
  <2>2. Cardinality(swept') <= MaxRuntimes
    BY <1>1, <2>1 DEF RuntimesInv, CapacityInv
  <2>3. records' \union reserving'.awaits = {} /\ reserving'.at = "idle"
    BY <1>1, <1>2
  <2>4. Cardinality(records' \union reserving'.awaits) <= MaxRuntimes
    BY <1>10, <2>3
  <2> QED BY <2>2, <2>3, <2>4 DEF CapacityInv
<1>12. ShutdownInv'
  BY <1>1, <1>3, <1>6 DEF ShutdownInv, Admitting
<1> QED BY <1>6, <1>7, <1>8, <1>9, <1>11, <1>12 DEF RuntimesInv

(* The invariant of the runtime manager.                                   *)
LEMMA RuntimesInvHolds == RuntimesSpec => []RuntimesInv
<1>1. ASSUME RuntimesInv, RuntimesNext PROVE RuntimesInv'
  <2>1. CASE Reserving
    <3>1. RefuseLaunch => RuntimesInv'
      BY <1>1, QuietStepsKeep
    <3> QED BY <1>1, <2>1, <3>1, BeginReserveKeeps, JoinKeeps, ReclaimKeeps,
               CreateKeeps DEF Reserving
  <2>2. CASE RuntimeEnds
    BY <1>1, <2>2, StartEndKeeps, CloseSettlesKeeps DEF RuntimeEnds
  <2>3. CASE Sweep
    BY <1>1, <2>3, ClosingSweepKeeps
  <2>4. CASE \/ \E p \in Projects : Launch(p) \/ ReplaceRoot(p)
             \/ IdleTimePasses \/ BeginShutdown \/ Swept
             \/ \E r \in DOMAIN runtimes : Use(r)
    BY <1>1, <2>4, QuietStepsKeep
  <2>5. CASE \E r \in DOMAIN runtimes : LateCleanup(r)
    BY <1>1, <2>5, LateCleanupKeeps
  <2> QED BY <1>1, <2>1, <2>2, <2>3, <2>4, <2>5 DEF RuntimesNext
<1>2. RuntimesInv /\ UNCHANGED runtimesVars => RuntimesInv'
  <2> SUFFICES ASSUME RuntimesInv, UNCHANGED runtimesVars PROVE RuntimesInv'
    OBVIOUS
  <2>1. UNCHANGED <<identity, clock, runtimes, records, admission, reserving,
                    requested, shutdown, swept>>
    BY DEF runtimesVars
  <2>2. AttendedRuntimes' = AttendedRuntimes
    BY <2>1 DEF AttendedRuntimes, RunningRuntimes, Abandoned
  <2> QED BY <2>1, <2>2 DEF RuntimesInv, RuntimesTypeOK, MapInv,
             OneRuntimePerProject, ReserveInv, CapacityInv, ShutdownInv, Admitting
<1> QED BY RuntimesInitHolds, <1>1, <1>2, PTL DEF RuntimesSpec

(* At most MaxRuntimes runtimes start, serve or are being closed at once,  *)
(* for any number of projects, launches, replaced roots and rejected       *)
(* closes: a rejection gives away the place of its own runtime only        *)
(* (reserve, reclaimCapacity, remove).                                     *)
THEOREM RuntimesAreBounded == RuntimesSpec => []RuntimesBounded
<1>1. ASSUME RuntimesInv PROVE RuntimesBounded
  <2> DEFINE held == records \union reserving.awaits
  <2>1. held \in SUBSET DOMAIN runtimes /\ swept \in SUBSET DOMAIN runtimes
    BY <1>1 DEF RuntimesInv, RuntimesTypeOK
  <2>2. /\ IsFiniteSet(held) /\ Cardinality(held) <= MaxRuntimes
        /\ IsFiniteSet(swept) /\ Cardinality(swept) <= MaxRuntimes
    BY <1>1, <2>1, RuntimesFinite DEF RuntimesInv, CapacityInv
  <2>3. AttendedRuntimes \in SUBSET held \/ AttendedRuntimes \in SUBSET swept
    BY <1>1 DEF RuntimesInv, ShutdownInv
  <2> HIDE DEF held
  <2> QED BY <2>2, <2>3, Smaller, RuntimesAssumption DEF RuntimesBounded
<1> QED BY RuntimesInvHolds, <1>1, PTL

(* No two runtimes of one project start, serve or are being closed at      *)
(* once: a second one runs only beside one whose close() was rejected      *)
(* (reserve, createStartingRecord, remove).                                *)
THEOREM OneRuntimeHolds == RuntimesSpec => []OneRuntimePerProject
<1>1. RuntimesInv => OneRuntimePerProject
  BY DEF RuntimesInv
<1> QED BY RuntimesInvHolds, <1>1, PTL

(* What runs once shutdown() has resolved has had its close() rejected,    *)
(* whatever launches, starts and closes were in progress (shutdown).       *)
THEOREM ShutdownIsComplete == RuntimesSpec => []NothingOutlivesShutdown
<1>1. RuntimesInv => NothingOutlivesShutdown
  BY DEF RuntimesInv, ShutdownInv, NothingOutlivesShutdown, AttendedRuntimes
<1> QED BY RuntimesInvHolds, <1>1, PTL

-----------------------------------------------------------------------------
(* Progress of admissions and of runtimes.                                 *)

\* The states a runtime may be in next (createStartingRecord, remove).
LaterStates ==
  {<<"starting", "open">>, <<"starting", "discarded">>, <<"starting", "closed">>,
   <<"open", "closing">>, <<"closing", "closed">>, <<"discarded", "closed">>,
   <<"closing", "abandoned">>, <<"discarded", "abandoned">>,
   <<"abandoned", "closed">>}

Ages(r) == <<runtimes[r].state, runtimes'[r].state>> \in LaterStates

(* A record is for ever that of its project and identity, and its runtime  *)
(* only gets older; a start or a close that ends makes one older.          *)
RuntimesAge ==
  /\ \A r \in DOMAIN runtimes :
       /\ r \in DOMAIN runtimes'
       /\ runtimes'[r].project = runtimes[r].project
       /\ runtimes'[r].identity = runtimes[r].identity
       /\ runtimes'[r].state = runtimes[r].state \/ Ages(r)
  /\ RuntimeEnds => \E r \in DOMAIN runtimes : Ages(r)

(* remove(): what is open becomes older, and nothing else changes.         *)
LEMMA ClosingAges ==
  ASSUME RuntimesTypeOK, NEW set, Closing(set)
  PROVE  \A r \in DOMAIN runtimes :
           /\ r \in DOMAIN runtimes'
           /\ runtimes'[r].project = runtimes[r].project
           /\ runtimes'[r].identity = runtimes[r].identity
           /\ runtimes'[r].state = runtimes[r].state \/ Ages(r)
<1>1. \A r \in DOMAIN runtimes : runtimes[r] \in RuntimeRecords
  BY ElementsIn DEF RuntimesTypeOK, RuntimeRecords
<1>2. \A r \in DOMAIN runtimes :
        /\ [runtimes[r] EXCEPT !.state = "closing"].project = runtimes[r].project
        /\ [runtimes[r] EXCEPT !.state = "closing"].identity = runtimes[r].identity
        /\ [runtimes[r] EXCEPT !.state = "closing"].state = "closing"
  BY <1>1 DEF RuntimeRecords
<1>3. \A r \in DOMAIN runtimes :
        /\ r \in DOMAIN runtimes'
        /\ runtimes'[r] =
             IF r \in set /\ runtimes[r].state = "open"
             THEN [runtimes[r] EXCEPT !.state = "closing"] ELSE runtimes[r]
  BY DEF Closing
<1> QED BY <1>2, <1>3 DEF Ages, LaterStates

(* A start or a close that ends makes its runtime older.                   *)
LEMMA EndsAge ==
  ASSUME RuntimesTypeOK, NEW r \in DOMAIN runtimes,
         StartEnds(r) \/ CloseEnds(r) \/ CloseRejects(r) \/ LateCleanup(r)
  PROVE  RuntimesAge
<1>1. /\ runtimes \in Seq(RuntimeRecords) /\ runtimes[r] \in RuntimeRecords
      /\ clock \in Nat
  BY ElementsIn DEF RuntimesTypeOK, RuntimeRecords
<1>2. PICK state \in {"open", "discarded", "closed", "abandoned"}, used \in Nat :
        /\ runtimes' = [runtimes EXCEPT ![r] =
                          [runtimes[r] EXCEPT !.state = state, !.used = used]]
        /\ <<runtimes[r].state, state>> \in LaterStates
  <2>1. CASE StartEnds(r)
    <3>1. PICK state \in {"open", "discarded", "closed"} :
            runtimes' = Become(r, state) /\ runtimes[r].state = "starting"
      BY <2>1 DEF StartEnds
    <3>2. Become(r, state) =
            [runtimes EXCEPT ![r] =
               [runtimes[r] EXCEPT !.state = state, !.used = clock]]
      BY <1>1 DEF Become, RuntimeRecords
    <3>3. <<runtimes[r].state, state>> \in LaterStates
      BY <3>1 DEF LaterStates
    <3> QED BY <1>1, <3>1, <3>2, <3>3
  <2>2. CASE CloseEnds(r) \/ CloseRejects(r) \/ LateCleanup(r)
    <3>1. PICK over \in Over :
            /\ runtimes' = [runtimes EXCEPT ![r].state = over]
            /\ \/ runtimes[r].state \in {"closing", "discarded"}
               \/ runtimes[r].state = "abandoned" /\ over = "closed"
      BY <2>2 DEF CloseEnds, CloseRejects, LateCleanup
    <3>2. runtimes' =
            [runtimes EXCEPT ![r] =
               [runtimes[r] EXCEPT !.state = over, !.used = runtimes[r].used]]
      BY <1>1, <3>1 DEF RuntimeRecords
    <3>3. <<runtimes[r].state, over>> \in LaterStates
      BY <3>1 DEF LaterStates
    <3>4. runtimes[r].used \in Nat
      BY <1>1 DEF RuntimeRecords
    <3> QED BY <3>2, <3>3, <3>4
  <2> QED BY <2>1, <2>2
<1> DEFINE new == [runtimes[r] EXCEPT !.state = state, !.used = used]
<1>3. /\ new.project = runtimes[r].project /\ new.identity = runtimes[r].identity
      /\ new.state = state /\ new \in RuntimeRecords
  BY <1>1, <1>2 DEF RuntimeRecords
<1>4. runtimes' = [runtimes EXCEPT ![r] = new]
  BY <1>2
<1> HIDE DEF new
<1>5. \A q \in DOMAIN runtimes :
        /\ q \in DOMAIN runtimes'
        /\ runtimes'[q] = IF q = r THEN new ELSE runtimes[q]
  BY <1>1, <1>4
<1>6. Ages(r)
  BY <1>2, <1>3, <1>5 DEF Ages
<1> QED BY <1>3, <1>5, <1>6 DEF RuntimesAge

(* No runtime is started again or comes back once its place is given up:   *)
(* the records only age, whatever is launched, used, replaced or shut down *)
(* meanwhile (createStartingRecord, remove, shutdown).                     *)
THEOREM RuntimesOnlyAge == RuntimesSpec => [][RuntimesAge]_runtimesVars
<1>1. RuntimesInv /\ [RuntimesNext]_runtimesVars => [RuntimesAge]_runtimesVars
  <2> SUFFICES ASSUME RuntimesInv, RuntimesNext PROVE RuntimesAge
    BY DEF RuntimesInv
  <2>0. RuntimesTypeOK /\ runtimes \in Seq(RuntimeRecords)
    BY DEF RuntimesInv, RuntimesTypeOK, RuntimeRecords
  <2>1. CASE RuntimeEnds
    BY <2>0, <2>1, EndsAge DEF RuntimeEnds
  <2>2. ASSUME ~RuntimeEnds, runtimes' = runtimes PROVE RuntimesAge
    BY <2>2 DEF RuntimesAge
  <2>3. ASSUME ~RuntimeEnds, NEW set, Closing(set) PROVE RuntimesAge
    BY <2>0, <2>3, ClosingAges DEF RuntimesAge
  <2>4. ASSUME ~RuntimeEnds,
               JoinExisting \/ \E r \in DOMAIN runtimes : Use(r)
        PROVE  RuntimesAge
    <3>1. PICK set \in SUBSET DOMAIN runtimes :
            runtimes' = [r \in DOMAIN runtimes |->
              IF r \in set THEN [runtimes[r] EXCEPT !.used = clock]
                           ELSE runtimes[r]]
      <4>1. CASE JoinExisting
        <5> DEFINE joined == {r \in DOMAIN runtimes :
                                r \in Existing /\ runtimes[r].state = "open"}
        <5>1. runtimes' = [r \in DOMAIN runtimes |->
                IF r \in joined THEN [runtimes[r] EXCEPT !.used = clock]
                                ELSE runtimes[r]]
          BY <4>1 DEF JoinExisting
        <5> QED BY <5>1
      <4>2. ASSUME NEW r \in DOMAIN runtimes, Use(r)
            PROVE  runtimes' = [q \in DOMAIN runtimes |->
                     IF q \in {r} THEN [runtimes[q] EXCEPT !.used = clock]
                                  ELSE runtimes[q]]
        BY <4>2 DEF Use
      <4> QED BY <2>4, <4>1, <4>2
    <3>2. \A r \in DOMAIN runtimes : runtimes[r] \in RuntimeRecords
      BY <2>0, ElementsIn
    <3>3. \A r \in DOMAIN runtimes :
            LET new == [runtimes[r] EXCEPT !.used = clock]
            IN  /\ new.project = runtimes[r].project
                /\ new.identity = runtimes[r].identity
                /\ new.state = runtimes[r].state
      BY <3>2 DEF RuntimeRecords
    <3>4. \A r \in DOMAIN runtimes :
            /\ r \in DOMAIN runtimes'
            /\ runtimes'[r] = IF r \in set THEN [runtimes[r] EXCEPT !.used = clock]
                                           ELSE runtimes[r]
      BY <3>1
    <3> QED BY <2>4, <3>3, <3>4 DEF RuntimesAge
  <2>5. ASSUME ~RuntimeEnds, CreateStartingRecord PROVE RuntimesAge
    <3> DEFINE new == [project |-> reserving.project,
                       identity |-> reserving.identity,
                       state |-> "starting", used |-> clock]
    <3>1. runtimes' = Append(runtimes, new)
      BY <2>5 DEF CreateStartingRecord
    <3> HIDE DEF new
    <3>2. \A r \in DOMAIN runtimes :
            r \in DOMAIN runtimes' /\ runtimes'[r] = runtimes[r]
      BY <2>0, <3>1
    <3> QED BY <2>5, <3>2 DEF RuntimesAge
  <2>6. CASE ~RuntimeEnds
    <3>1. CASE \/ \E p \in Projects : Launch(p) \/ ReplaceRoot(p)
               \/ RefuseLaunch \/ IdleTimePasses \/ BeginShutdown \/ Swept
      BY <2>2, <2>6, <3>1 DEF Launch, ReplaceRoot, RefuseLaunch, IdleTimePasses,
                              BeginShutdown, Swept
    <3>2. CASE BeginReserve \/ Reclaim \/ Sweep
      <4>1. runtimes' = runtimes \/ \E set : Closing(set)
        BY <3>2 DEF BeginReserve, Reclaim, Sweep
      <4> QED BY <2>2, <2>3, <2>6, <4>1
    <3>3. CASE JoinExisting \/ \E r \in DOMAIN runtimes : Use(r)
      BY <2>4, <2>6, <3>3
    <3>4. CASE CreateStartingRecord
      BY <2>5, <2>6, <3>4
    <3>5. CASE \E r \in DOMAIN runtimes : LateCleanup(r)
      BY <2>0, <3>5, EndsAge
    <3> QED BY <2>6, <3>1, <3>2, <3>3, <3>4, <3>5 DEF RuntimesNext, Reserving
  <2> QED BY <2>1, <2>6
<1> QED BY <1>1, RuntimesInvHolds, PTL DEF RuntimesSpec

(* The admission in progress is that of the head of the chain.             *)
HeadReserved ==
  IF reserving.at = "idle"
  THEN reserving = NoReservation
  ELSE admission # <<>> /\ reserving.project = Head(admission)

(* The head of the chain is done with, or past its next await.             *)
HeadGoesOn ==
  /\ admission # <<>>
  /\ \/ admission' = Tail(admission) /\ reserving' = NoReservation
     \/ /\ admission' = admission /\ reserving'.project = Head(admission)
        /\ \/ reserving.at = "idle" /\ reserving'.at = "stale"
           \/ reserving.at = "stale" /\ reserving'.at = "create"

(* What a step may do to the chain of admissions, and to what the one in   *)
(* progress awaits: once that has ended it stays so.                       *)
AdmissionGoesOn ==
  /\ Reserving => HeadGoesOn
  /\ \/ UNCHANGED <<admission, reserving>>
     \/ \E p \in Projects : admission' = Append(admission, p) /\ UNCHANGED reserving
     \/ HeadGoesOn
  /\ UNCHANGED reserving /\ Ended(reserving.awaits) => Ended(reserving.awaits)'

(* A step of the admission moves its head on; others add a launch or, as a *)
(* close that rejects, end the one that awaits it.                         *)
LEMMA HeadMovesOn ==
  ASSUME RuntimesInv, HeadReserved, RuntimesNext
  PROVE  /\ HeadReserved' /\ (Reserving => HeadGoesOn)
         /\ \/ UNCHANGED <<admission, reserving>>
            \/ \E p \in Projects :
                 admission' = Append(admission, p) /\ UNCHANGED reserving
            \/ HeadGoesOn
<1> DEFINE Goal == /\ HeadReserved' /\ (Reserving => HeadGoesOn)
                   /\ \/ UNCHANGED <<admission, reserving>>
                      \/ \E p \in Projects :
                           admission' = Append(admission, p) /\ UNCHANGED reserving
                      \/ HeadGoesOn
<1>0. /\ admission \in Seq(Projects) /\ (reserving.at # "idle" => admission # <<>>)
      /\ NoReservation.at = "idle"
      /\ reserving \in [at : {"idle", "stale", "create"}, project : Projects,
                        identity : Nat, awaits : SUBSET DOMAIN runtimes]
  BY DEF RuntimesInv, RuntimesTypeOK, ReserveInv, NoReservation
<1>1. ASSUME HeadGoesOn, reserving'.at # "idle" \/ reserving' = NoReservation
      PROVE  Goal
  BY <1>0, <1>1 DEF HeadGoesOn, HeadReserved
<1>2. ASSUME Admitted, reserving.at # "idle" PROVE Goal
  <2>1. HeadGoesOn /\ reserving' = NoReservation
    BY <1>0, <1>2 DEF Admitted, HeadGoesOn
  <2> QED BY <1>1, <2>1
<1>3. CASE RefuseLaunch
  <2>1. HeadGoesOn /\ reserving' = NoReservation
    BY <1>3 DEF RefuseLaunch, HeadGoesOn, HeadReserved
  <2> QED BY <1>1, <2>1
<1>4. CASE BeginReserve
  <2>1. HeadGoesOn /\ reserving'.at = "stale"
    BY <1>4 DEF BeginReserve, HeadGoesOn
  <2> QED BY <1>1, <2>1
<1>5. CASE JoinExisting \/ CreateStartingRecord
  BY <1>2, <1>5 DEF JoinExisting, CreateStartingRecord
<1>6. CASE Reclaim
  <2>1. CASE Admitted
    BY <1>2, <1>6, <2>1 DEF Reclaim
  <2>2. CASE ~Admitted
    <3>1. /\ admission' = admission /\ reserving.at = "stale"
          /\ \E set : reserving' =
                        [reserving EXCEPT !.at = "create", !.awaits = set]
      BY <1>6, <2>2 DEF Reclaim
    <3>2. reserving'.at = "create" /\ reserving'.project = reserving.project
      BY <1>0, <3>1
    <3>3. HeadGoesOn
      BY <1>0, <3>1, <3>2 DEF HeadGoesOn, HeadReserved
    <3> QED BY <1>1, <3>2, <3>3
  <2> QED BY <2>1, <2>2
<1>7. CASE Reserving
  BY <1>3, <1>4, <1>5, <1>6, <1>7 DEF Reserving
<1>8. ASSUME ~Reserving, NEW p \in Projects, Launch(p) PROVE Goal
  <2>1. CASE admission' = admission
    BY <1>8, <2>1 DEF Launch, HeadReserved
  <2>2. CASE admission' = Append(admission, p)
    <3>1. admission # <<>> => admission' # <<>> /\ Head(admission') = Head(admission)
      BY <1>0, <2>2
    <3>2. UNCHANGED reserving
      BY <1>8 DEF Launch
    <3>3. HeadReserved'
      BY <1>0, <3>1, <3>2 DEF HeadReserved
    <3> QED BY <1>8, <2>2, <3>2, <3>3
  <2> QED BY <1>8, <2>1, <2>2 DEF Launch
<1>9. ASSUME ~Reserving, UNCHANGED <<admission, reserving>> PROVE Goal
  BY <1>9 DEF HeadReserved
<1>10. ASSUME ~Reserving, NEW r \in DOMAIN runtimes,
              CloseEnds(r) \/ CloseRejects(r)
       PROVE  Goal
  <2>1. CASE UNCHANGED <<admission, reserving>>
    BY <1>9, <1>10, <2>1
  <2>2. CASE Admitted /\ r \in reserving.awaits
    <3>1. reserving.at # "idle"
      BY <2>2 DEF RuntimesInv, ReserveInv
    <3> QED BY <1>2, <2>2, <3>1
  <2> QED BY <1>10, <2>1, <2>2 DEF CloseEnds, CloseRejects
<1>11. CASE ~Reserving
  <2>1. ASSUME NEW r \in DOMAIN runtimes, StartEnds(r) \/ Use(r) \/ LateCleanup(r)
        PROVE  UNCHANGED <<admission, reserving>>
    BY <2>1 DEF StartEnds, Use, LateCleanup
  <2>2. ASSUME NEW p \in Projects, ReplaceRoot(p)
        PROVE  UNCHANGED <<admission, reserving>>
    BY <2>2 DEF ReplaceRoot
  <2>3. IdleTimePasses \/ BeginShutdown \/ Sweep \/ Swept =>
          UNCHANGED <<admission, reserving>>
    BY DEF IdleTimePasses, BeginShutdown, Sweep, Swept
  <2> QED BY <1>8, <1>9, <1>10, <1>11, <2>1, <2>2, <2>3
          DEF RuntimesNext, RuntimeEnds
<1> QED BY <1>7, <1>11

(* What an admission awaits is out of the map, so that it never opens, and *)
(* once it has ended it is over.                                           *)
LEMMA AwaitedStaysEnded ==
  ASSUME RuntimesInv, RuntimesAge, Ended(reserving.awaits), UNCHANGED reserving
  PROVE  Ended(reserving.awaits)'
<1>1. reserving.awaits \subseteq DOMAIN runtimes
  BY DEF RuntimesInv, RuntimesTypeOK
<1>2. \A r \in reserving.awaits : runtimes[r].state \in Over
  BY <1>1 DEF RuntimesInv, MapInv, ReserveInv, Ended
<1>3. \A r \in reserving.awaits : runtimes'[r].state \in Over
  BY <1>1, <1>2 DEF RuntimesAge, Ages, LaterStates
<1> QED BY <1>3 DEF Ended

(* Launches are admitted in turn and each goes on (launch, reserve): the   *)
(* chain never goes back, every step of an admission ends it or takes it   *)
(* past an await, and it awaits what, once ended, stays ended.  This is    *)
(* what AdmissionDrains needs of the code besides fairness.                *)
THEOREM AdmissionsAdvance == RuntimesSpec => [][AdmissionGoesOn]_runtimesVars
<1>1. RuntimesInit => HeadReserved
  BY DEF RuntimesInit, HeadReserved, NoReservation
<1>2. RuntimesInv /\ HeadReserved /\ [RuntimesNext]_runtimesVars => HeadReserved'
  BY HeadMovesOn DEF HeadReserved, runtimesVars
<1>3. RuntimesInv /\ HeadReserved /\ [RuntimesNext]_runtimesVars
        /\ [RuntimesAge]_runtimesVars => [AdmissionGoesOn]_runtimesVars
  BY HeadMovesOn, AwaitedStaysEnded DEF AdmissionGoesOn
<1> QED BY <1>1, <1>2, <1>3, RuntimesInvHolds, RuntimesOnlyAge, PTL
        DEF RuntimesSpec

HIDE DEF Over

-----------------------------------------------------------------------------
(* Closure evidence.  The comment of an issue is posted in a call of its   *)
(* own, after the call that read how many there are.  What makes it safe   *)
(* is that nobody else posts one: EvidenceInv says that while a run is     *)
(* about to comment, the count it read, zero, is still the count there is. *)

\* github and run are the records they were made as, whatever they hold.
RecordsInv ==
  /\ github = [state |-> github.state, record |-> github.record,
               evidence |-> github.evidence, done |-> github.done,
               scope |-> github.scope]
  /\ github.evidence \in [Issues -> Nat]
  /\ run = [at |-> run.at, snapshot |-> run.snapshot,
            hierarchy |-> run.hierarchy, closes |-> run.closes,
            repairs |-> run.repairs]

CommentInv == run.at = "comment" => github.evidence[NextClose.issue] = 0

EvidenceInv == RecordsInv /\ CommentInv /\ EvidencePostedOnce

\* Initially no issue carries closure evidence and no run is under way.
LEMMA EvidenceInit == ClosureInit => EvidenceInv
<1>1. SUFFICES ASSUME ClosureInit PROVE EvidenceInv
  OBVIOUS
<1>2. /\ github.evidence = [i \in Issues |-> 0]
      /\ github = [state |-> github.state, record |-> github.record,
                   evidence |-> github.evidence, done |-> github.done,
                   scope |-> github.scope]
  BY <1>1 DEF ClosureInit
<1>3. run = IdleRun
  BY <1>1 DEF ClosureInit
<1> QED
  BY <1>2, <1>3 DEF EvidenceInv, RecordsInv, CommentInv, EvidencePostedOnce,
                    IdleRun

\* A step that leaves the counts alone keeps the invariant, unless it goes on
\* to comment or changes the closes while it is about to.
LEMMA CountsKept ==
  ASSUME EvidenceInv, github'.evidence = github.evidence,
         github' = [state |-> github'.state, record |-> github'.record,
                    evidence |-> github'.evidence, done |-> github'.done,
                    scope |-> github'.scope],
         run' = [at |-> run'.at, snapshot |-> run'.snapshot,
                 hierarchy |-> run'.hierarchy, closes |-> run'.closes,
                 repairs |-> run'.repairs],
         run'.at # "comment" \/ (run'.closes = run.closes /\ run.at = "comment")
  PROVE  EvidenceInv'
<1>1. RecordsInv'
  BY DEF EvidenceInv, RecordsInv
<1>2. CommentInv'
  BY DEF EvidenceInv, CommentInv, NextClose
<1>3. EvidencePostedOnce'
  BY DEF EvidenceInv, EvidencePostedOnce
<1> QED
  BY <1>1, <1>2, <1>3 DEF EvidenceInv

\* The steps that plan and read change no issue, and read their way to the
\* comment only when the count is zero.
LEMMA ReadsKeepEvidence ==
  ASSUME EvidenceInv, UNCHANGED github,
         \/ \E h \in Hierarchies \union {NoIssue} : TakeSnapshot(h)
         \/ PlanOriginals \/ WalkParents \/ PlanRepairs \/ EndRun
         \/ ReadBeforeClose \/ Readback \/ ReadBeforeRepair
         \/ Interrupt
  PROVE  EvidenceInv'
<1> USE DEF EvidenceInv, RecordsInv
<1>1. CASE \E h \in Hierarchies \union {NoIssue} : TakeSnapshot(h)
  BY <1>1, CountsKept DEF TakeSnapshot
<1>2. CASE PlanOriginals
  BY <1>2, CountsKept DEF PlanOriginals
<1>3. CASE WalkParents
  BY <1>3, CountsKept DEF WalkParents
<1>4. CASE PlanRepairs
  BY <1>4, CountsKept DEF PlanRepairs
<1>5. CASE EndRun \/ Interrupt
  BY <1>5, CountsKept DEF EndRun, Interrupt, Stop, IdleRun
<1>6. CASE ReadBeforeClose
  <2>1. CASE Stop
    BY <2>1, CountsKept DEF Stop, IdleRun
  <2>2. CASE ~Stop
    <3>1. PICK at : /\ run' = [run EXCEPT !.at = at]
                    /\ at = "comment" => github.evidence[NextClose.issue] = 0
      BY <1>6, <2>2 DEF ReadBeforeClose, Continue
    <3>2. /\ run'.at = at /\ run'.closes = run.closes
          /\ run' = [at |-> run'.at, snapshot |-> run'.snapshot,
                     hierarchy |-> run'.hierarchy, closes |-> run'.closes,
                     repairs |-> run'.repairs]
      BY <3>1
    <3>3. CommentInv'
      BY <3>1, <3>2 DEF CommentInv, NextClose
    <3> QED
      BY <3>2, <3>3 DEF EvidencePostedOnce
  <2> QED
    BY <2>1, <2>2
<1>7. CASE Readback \/ ReadBeforeRepair
  BY <1>7, CountsKept DEF Readback, ReadBeforeRepair, Continue, Stop, IdleRun
<1> QED
  BY <1>1, <1>2, <1>3, <1>4, <1>5, <1>6, <1>7

\* Closing an issue and setting its Project status leave the counts alone.
LEMMA WritesKeepEvidence ==
  ASSUME EvidenceInv, CloseIssue \/ WriteDone \/ WriteRepair
  PROVE  EvidenceInv'
<1> USE DEF EvidenceInv, RecordsInv
<1>1. CASE CloseIssue
  BY <1>1, CountsKept DEF CloseIssue, Continue
<1>2. CASE WriteDone
  BY <1>2, CountsKept DEF WriteDone
<1>3. CASE WriteRepair
  BY <1>3, CountsKept DEF WriteRepair
<1> QED
  BY <1>1, <1>2, <1>3

\* Setting the count of one issue to one leaves a count for every issue.
LEMMA CountSet ==
  ASSUME NEW counts \in [Issues -> Nat], NEW issue
  PROVE  [counts EXCEPT ![issue] = 1] \in [Issues -> Nat]
<1>1. CASE issue \in Issues
  BY <1>1
<1>2. CASE issue \notin Issues
  BY <1>2, Zenon
<1> QED
  BY <1>1, <1>2

\* The comment takes the count of its issue from zero to one.
LEMMA CommentKeepsEvidence ==
  ASSUME EvidenceInv, PostComment
  PROVE  EvidenceInv'
<1> DEFINE issue == NextClose.issue
<1>1. github.evidence[issue] = 0
  BY DEF EvidenceInv, CommentInv, PostComment
<1>2. github'.evidence = [github.evidence EXCEPT ![issue] = 1]
  BY <1>1 DEF EvidenceInv, RecordsInv, PostComment
<1>3. RecordsInv'
  <2>1. github'.evidence \in [Issues -> Nat]
    <3>1. github.evidence \in [Issues -> Nat]
      BY DEF EvidenceInv, RecordsInv
    <3> QED
      BY <1>2, <3>1, CountSet
  <2> QED
    BY <2>1 DEF EvidenceInv, RecordsInv, PostComment, Continue
<1>4. CommentInv'
  BY DEF EvidenceInv, RecordsInv, CommentInv, PostComment, Continue
<1>5. EvidencePostedOnce'
  BY <1>2 DEF EvidenceInv, RecordsInv, EvidencePostedOnce
<1> QED
  BY <1>3, <1>4, <1>5 DEF EvidenceInv

\* Nobody else posts closure evidence.
LEMMA OthersKeepEvidence ==
  ASSUME EvidenceInv, OthersEdit
  PROVE  EvidenceInv'
<1> USE DEF EvidenceInv, RecordsInv
<1>1. PICK i \in Issues :
        EditState(i) \/ EditStatus(i) \/ RecordCompletion(i) \/ ScopeDelivered(i)
  BY DEF OthersEdit
<1>2. run' = run
  BY DEF OthersEdit
<1>3. CASE EditState(i)
  BY <1>2, <1>3, CountsKept DEF EditState
<1>4. CASE EditStatus(i)
  BY <1>2, <1>4, CountsKept DEF EditStatus
<1>5. CASE RecordCompletion(i)
  BY <1>2, <1>5, CountsKept DEF RecordCompletion
<1>6. CASE ScopeDelivered(i)
  BY <1>2, <1>6, CountsKept DEF ScopeDelivered
<1> QED
  BY <1>1, <1>3, <1>4, <1>5, <1>6

\* Whatever is edited, stopped and run again, an issue carries at most one
\* closure evidence comment (closure-apply.mjs: writeClose, requireWritable).
THEOREM EvidencePostedOnceHolds == ClosureSpec => []EvidencePostedOnce
<1>1. ClosureInit => EvidenceInv
  BY EvidenceInit
<1>2. EvidenceInv /\ [ClosureNext]_closureVars => EvidenceInv'
  <2> SUFFICES ASSUME EvidenceInv, [ClosureNext]_closureVars
               PROVE  EvidenceInv'
    OBVIOUS
  <2>1. CASE \E h \in Hierarchies \union {NoIssue} : TakeSnapshot(h)
    BY <2>1, ReadsKeepEvidence DEF TakeSnapshot
  <2>2. CASE RunStep
    <3>1. CASE CloseIssue \/ WriteDone \/ WriteRepair
      BY <3>1, WritesKeepEvidence
    <3>2. CASE PostComment
      BY <3>2, CommentKeepsEvidence
    <3>3. CASE ~(CloseIssue \/ WriteDone \/ WriteRepair \/ PostComment)
      <4>1. \/ PlanOriginals \/ WalkParents \/ PlanRepairs \/ EndRun
            \/ ReadBeforeClose \/ Readback \/ ReadBeforeRepair
        BY <2>2, <3>3 DEF RunStep
      <4>2. UNCHANGED github
        BY <4>1 DEF PlanOriginals, WalkParents, PlanRepairs, EndRun,
                    ReadBeforeClose, Readback, ReadBeforeRepair
      <4> QED
        BY <4>1, <4>2, ReadsKeepEvidence
    <3> QED
      BY <3>1, <3>2, <3>3
  <2>3. CASE Interrupt
    BY <2>3, ReadsKeepEvidence DEF Interrupt
  <2>4. CASE OthersEdit
    BY <2>4, OthersKeepEvidence
  <2>5. CASE UNCHANGED closureVars
    BY <2>5 DEF closureVars, EvidenceInv, RecordsInv, CommentInv, NextClose,
                EvidencePostedOnce
  <2> QED
    BY <2>1, <2>2, <2>3, <2>4, <2>5 DEF ClosureNext
<1>3. EvidenceInv => EvidencePostedOnce
  BY DEF EvidenceInv
<1> QED
  BY <1>1, <1>2, <1>3, PTL DEF ClosureSpec

-----------------------------------------------------------------------------
(* The plan of the closure helper.  A parent counts on its sub-issues by a *)
(* recursion over the hierarchy, which has a solution because sub-issues   *)
(* form trees.                                                             *)

\* Among sets of issues, some contains no other of them.
LEMMA LeastGroup ==
  ASSUME NEW C, C \subseteq SUBSET Issues, C # {}
  PROVE  \E m \in C : \A t \in C : t \subseteq m => t = m
<1>1. IsWellFoundedOn(StrictSubsetOrdering(Issues), SUBSET Issues)
  <2>1. IsFiniteSet(Issues)
    BY ClosureAssumption
  <2> QED
    BY <2>1, FS_StrictSubsetOrderingWellFounded, FS_FiniteSubsetsOfFinite
<1>2. PICK m \in C :
        \A t \in C : ~ (<<t, m>> \in StrictSubsetOrdering(Issues))
  BY <1>1, WFMin, Zenon
<1>3. ASSUME NEW t \in C, t \subseteq m, t # m
      PROVE  <<t, m>> \in StrictSubsetOrdering(Issues)
  BY <1>3 DEF StrictSubsetOrdering
<1>4. \A t \in C : t \subseteq m => t = m
  BY <1>2, <1>3, Zenon
<1> QED
  BY <1>4, Zenon

(* What SettledChildren says of an issue, given the answers for others.    *)
SettlesBy(g, planned, held, answers, c) ==
  \/ c \in planned
  \/ /\ c \notin held /\ ~IsOpen(g, c)
     /\ ClosureEvidence(g, c, ParentRule(g, c, answers))

(* A set of issues that has the sub-issues of its members.                 *)
HasChildren(group) == \A i \in group : Children(i) \subseteq group

(* The answers for such a set.                                             *)
Answers(g, planned, held, group, f) ==
  f = [c \in group |-> SettlesBy(g, planned, held, f, c)]

\* Only the answers for its sub-issues count.
LEMMA SettlesByChildren ==
  ASSUME NEW g, NEW planned, NEW held, NEW c, NEW f, NEW h,
         \A d \in Children(c) : f[d] = h[d]
  PROVE  SettlesBy(g, planned, held, f, c) = SettlesBy(g, planned, held, h, c)
<1>1. ParentRule(g, c, f) = ParentRule(g, c, h)
  BY DEF ParentRule
<1> QED
  BY <1>1 DEF SettlesBy

\* An issue whose parent is elsewhere is nobody's sub-issue in the set.
LEMMA WithoutTop ==
  ASSUME NEW group \in SUBSET Issues, HasChildren(group),
         NEW top \in group, Parent[top] \notin group
  PROVE  /\ HasChildren(group \ {top})
         /\ \A c \in group : Children(c) \subseteq group \ {top}
  BY DEF HasChildren, Children

\* Every set of issues that has its sub-issues has answers.
LEMMA AnswersExist ==
  ASSUME NEW g, NEW planned, NEW held
  PROVE  \A group \in SUBSET Issues : HasChildren(group) =>
           \E f : Answers(g, planned, held, group, f)
<1> DEFINE Unanswered ==
      {group \in SUBSET Issues :
         HasChildren(group) /\ ~ \E f : Answers(g, planned, held, group, f)}
<1>1. SUFFICES ASSUME Unanswered # {} PROVE FALSE
  OBVIOUS
<1>2. PICK group \in Unanswered :
        \A t \in Unanswered : t \subseteq group => t = group
  <2>1. Unanswered \subseteq SUBSET Issues
    OBVIOUS
  <2> HIDE DEF Unanswered
  <2> QED
    BY <1>1, <2>1, LeastGroup
<1>3. group \in SUBSET Issues /\ HasChildren(group)
  OBVIOUS
<1>4. group # {}
  <2>1. SUFFICES ASSUME group = {} PROVE FALSE
    OBVIOUS
  <2> DEFINE f == [c \in {} |-> FALSE]
  <2>2. Answers(g, planned, held, {}, f)
    BY DEF Answers
  <2> QED
    BY <2>1, <2>2
<1>5. PICK top \in group : Parent[top] \notin group
  BY <1>3, <1>4, ClosureAssumption
<1> DEFINE rest == group \ {top}
<1>6. HasChildren(rest) /\ \A c \in group : Children(c) \subseteq rest
  BY <1>3, <1>5, WithoutTop
<1>7. PICK h : Answers(g, planned, held, rest, h)
  <2>1. rest \notin Unanswered
    BY <1>2, <1>5
  <2> QED
    BY <1>3, <1>6, <2>1
<1> DEFINE f == [c \in group |-> SettlesBy(g, planned, held, h, c)]
<1>8. \A c \in rest : f[c] = h[c]
  BY <1>7 DEF Answers
<1>9. \A c \in group :
        SettlesBy(g, planned, held, f, c) = SettlesBy(g, planned, held, h, c)
  <2>1. ASSUME NEW c \in group
        PROVE  SettlesBy(g, planned, held, f, c)
                 = SettlesBy(g, planned, held, h, c)
    <3>1. \A d \in Children(c) : f[d] = h[d]
      BY <1>6, <1>8
    <3> HIDE DEF f
    <3> QED
      BY <3>1, SettlesByChildren
  <2> QED
    BY <2>1
<1>10. Answers(g, planned, held, group, f)
  BY <1>9 DEF Answers
<1> QED
  BY <1>10

\* SettledChildren answers for every issue as its recursion says.
LEMMA SettledEquation ==
  ASSUME NEW g, NEW planned, NEW held
  PROVE  LET settled == SettledChildren(g, planned, held)
         IN  settled = [c \in Issues |-> SettlesBy(g, planned, held, settled, c)]
<1>1. HasChildren(Issues)
  BY DEF HasChildren, Children
<1>2. PICK f : Answers(g, planned, held, Issues, f)
  BY <1>1, AnswersExist
<1> QED
  BY <1>2 DEF SettledChildren, SettlesBy, Answers

\* A sub-issue that counts as settled is planned or closed.
LEMMA SettledIsClosed ==
  ASSUME NEW g, NEW planned, NEW held, NEW c \in Issues,
         SettledChildren(g, planned, held)[c]
  PROVE  c \in planned \/ ~IsOpen(g, c)
<1> DEFINE settled == SettledChildren(g, planned, held)
<1>1. settled = [d \in Issues |-> SettlesBy(g, planned, held, settled, d)]
  BY SettledEquation
<1> HIDE DEF settled
<1>2. SettlesBy(g, planned, held, settled, c)
  BY <1>1 DEF settled
<1> QED
  BY <1>2 DEF SettlesBy

\* So is every sub-issue of a parent that is settleable.
LEMMA SettleableChildren ==
  ASSUME NEW g, NEW closes, NEW held, NEW p \in Settleable(g, closes, held),
         NEW c \in Children(p)
  PROVE  c \in Planned(closes) \/ ~IsOpen(g, c)
<1>1. SettledChildren(g, Planned(closes), held)[c]
  BY DEF Settleable, ParentRule
<1> QED
  BY <1>1, SettledIsClosed DEF Children

-----------------------------------------------------------------------------
(* Types.  Where a run is tells which parts of its plan it holds.          *)

PlannedClose == [issue : Issues, root : Issues \union {NoIssue},
          rule : {"replaced-original", "hierarchy", "parent"}]
PlannedRepair == [issue : Issues, reason : {"any", "not_planned", "completed"}]
IssueStates == {"open", "completed", "not_planned"}
CompletionRecords == [pull : Pulls \union {NoPull}, pending : BOOLEAN]

Runs ==
  [at : RunSteps, snapshot : Snapshots, hierarchy : Issues \union {NoIssue},
   closes : Seq(PlannedClose), repairs : Seq(PlannedRepair)]

PlanHeld ==
  /\ run.at \in {"idle", "plan"} => run.closes = <<>>
  /\ run.at \in {"idle", "plan", "walk"} => run.repairs = <<>>
  /\ run.at \in {"comment", "close", "readback", "done"} => run.closes # <<>>
  /\ run.at = "repair" => run.repairs # <<>>

ClosureInv == ClosureTypeOK /\ run \in Runs /\ PlanHeld

\* The members of a finite set as a sequence of them.
LEMMA SetAsSeq ==
  ASSUME NEW S, IsFiniteSet(S)
  PROVE  SetToSeq(S) \in Seq(S)
<1>1. Cardinality(S) \in Nat /\ ExistsBijection(1..Cardinality(S), S)
  BY FS_CardinalityType
<1>2. \E f \in [1..Cardinality(S) -> S] : IsInjective(f)
  BY <1>1 DEF ExistsBijection, Bijection, Injection, IsInjective
<1>3. SetToSeq(S) \in [1..Cardinality(S) -> S]
  BY <1>2 DEF SetToSeq
<1> QED
  BY <1>1, <1>3

\* The original closes of a plan are closes.
LEMMA OriginalClosesTyped ==
  ASSUME NEW g
  PROVE  /\ OriginalCloses(g) \in Seq(PlannedClose)
         /\ \A n \in DOMAIN OriginalCloses(g) :
              OriginalCloses(g)[n].rule # "parent"
<1> DEFINE order == SetToSeq(Replaced(g))
<1>1. IsFiniteSet(Replaced(g))
  <2>1. IsFiniteSet(Issues)
    BY ClosureAssumption
  <2> QED
    BY <2>1, FS_Subset DEF Replaced
<1>2. order \in Seq(Replaced(g))
  BY <1>1, SetAsSeq
<1>3. ASSUME NEW n \in DOMAIN order
      PROVE  /\ order[n] \in Issues
             /\ (CHOOSE r \in RootsOf(order[n]) : TRUE) \in Issues
  <2>1. order[n] \in Replaced(g)
    BY <1>2
  <2>2. order[n] \in Issues /\ RootsOf(order[n]) # {}
    BY <2>1 DEF Replaced
  <2> QED
    BY <2>2 DEF RootsOf
<1> HIDE DEF order
<1>4. OriginalCloses(g) =
        [n \in DOMAIN order |->
           [issue |-> order[n], rule |-> "replaced-original",
            root |-> CHOOSE r \in RootsOf(order[n]) : TRUE]]
  BY DEF OriginalCloses, order
<1>5. /\ DOMAIN OriginalCloses(g) = DOMAIN order
      /\ \A n \in DOMAIN order :
           /\ OriginalCloses(g)[n] \in PlannedClose
           /\ OriginalCloses(g)[n].rule # "parent"
  BY <1>3, <1>4 DEF PlannedClose
<1>6. Len(order) \in Nat /\ DOMAIN order = 1..Len(order)
  BY <1>2
<1>7. OriginalCloses(g) \in [1..Len(order) -> PlannedClose]
  BY <1>4, <1>5, <1>6
<1> QED
  BY <1>5, <1>6, <1>7

\* The close of the hierarchy record is one.
LEMMA HierarchyClosesTyped ==
  ASSUME NEW g, NEW h \in Issues \union {NoIssue}
  PROVE  /\ HierarchyCloses(g, h) \in Seq(PlannedClose)
         /\ \A n \in DOMAIN HierarchyCloses(g, h) :
              HierarchyCloses(g, h)[n].rule # "parent"
<1>1. CASE ClosesHierarchy(g, h)
  <2> DEFINE close == [issue |-> h, rule |-> "hierarchy", root |-> NoIssue]
  <2>1. close \in PlannedClose /\ close.rule # "parent"
    BY <1>1 DEF ClosesHierarchy, PlannedClose
  <2>2. HierarchyCloses(g, h) = <<close>>
    BY <1>1 DEF HierarchyCloses
  <2> HIDE DEF close
  <2> QED
    BY <2>1, <2>2
<1>2. CASE ~ClosesHierarchy(g, h)
  BY <1>2 DEF HierarchyCloses
<1> QED
  BY <1>1, <1>2

\* The Done repairs of a plan are repairs.
LEMMA StatusRepairsTyped ==
  ASSUME NEW g, NEW closes, NEW held
  PROVE  StatusRepairs(g, closes, held) \in Seq(PlannedRepair)
<1> DEFINE settled == SettledChildren(g, Planned(closes), held)
           kind(i) == RepairKind(g, i, settled)
           lagging == {i \in Issues :
                         /\ ~IsOpen(g, i) /\ ~g.done[i]
                         /\ i \notin Planned(closes) \union held
                         /\ kind(i) # "none"}
           order == SetToSeq(lagging)
<1>1. \A i : kind(i) \in {"any", "not_planned", "completed", "none"}
  <2> HIDE DEF settled
  <2> QED
    BY DEF RepairKind
<1>2. IsFiniteSet(lagging)
  <2>1. IsFiniteSet(Issues)
    BY ClosureAssumption
  <2>2. lagging \subseteq Issues
    OBVIOUS
  <2> HIDE DEF lagging
  <2> QED
    BY <2>1, <2>2, FS_Subset
<1>3. \A i \in lagging : i \in Issues /\ kind(i) # "none"
  OBVIOUS
<1>4. StatusRepairs(g, closes, held) =
        [n \in DOMAIN order |-> [issue |-> order[n], reason |-> kind(order[n])]]
  BY DEF StatusRepairs
<1> HIDE DEF lagging, kind
<1>5. order \in Seq(lagging)
  BY <1>2, SetAsSeq
<1> HIDE DEF order
<1>6. Len(order) \in Nat /\ DOMAIN order = 1..Len(order)
  BY <1>5
<1>7. \A n \in DOMAIN order : order[n] \in lagging
  BY <1>5
<1>8. \A n \in 1..Len(order) :
        [issue |-> order[n], reason |-> kind(order[n])] \in PlannedRepair
  BY <1>1, <1>3, <1>6, <1>7 DEF PlannedRepair
<1>9. StatusRepairs(g, closes, held) \in [1..Len(order) -> PlannedRepair]
  BY <1>4, <1>6, <1>8
<1> QED
  BY <1>6, <1>9

\* Issues stay issues when one of their fields is set.
LEMMA FieldsSet ==
  ASSUME NEW g \in Snapshots, NEW i \in Issues
  PROVE  /\ \A s \in IssueStates : [g EXCEPT !.state[i] = s] \in Snapshots
         /\ \A r \in CompletionRecords : [g EXCEPT !.record[i] = r] \in Snapshots
         /\ \A n \in Nat : [g EXCEPT !.evidence[i] = n] \in Snapshots
         /\ \A b \in BOOLEAN : [g EXCEPT !.done[i] = b] \in Snapshots
         /\ \A s \in SUBSET Issues : [g EXCEPT !.scope = s] \in Snapshots
  BY DEF Snapshots, IssueStates, CompletionRecords

\* A run stays one when it goes on.
LEMMA RunContinues ==
  ASSUME NEW r \in Runs, NEW at \in RunSteps
  PROVE  [r EXCEPT !.at = at] \in Runs
  BY DEF Runs

\* The initial states have their types.
LEMMA ClosureTypesInit == ClosureInit => ClosureInv
<1>1. SUFFICES ASSUME ClosureInit PROVE ClosureInv
  OBVIOUS
<1>2. NoSnapshot \in Snapshots
  BY DEF NoSnapshot, NoRecord, Snapshots
<1>3. IdleRun \in Runs
  BY <1>2 DEF IdleRun, Runs, RunSteps
<1>4. github \in Snapshots
  <2>1. github = [state |-> github.state, record |-> github.record,
                  evidence |-> github.evidence, done |-> github.done,
                  scope |-> github.scope]
    BY <1>1 DEF ClosureInit
  <2>2. github.state \in [Issues -> {"open", "completed", "not_planned"}]
    BY <1>1 DEF ClosureInit
  <2>3. github.record
          \in [Issues -> [pull : Pulls \union {NoPull}, pending : BOOLEAN]]
    <3>1. PICK r \in {NoRecord} \union [pull : Pulls, pending : BOOLEAN] :
            github.record =
              [i \in Issues |-> IF Supersedes[i] # {} THEN r ELSE NoRecord]
      BY <1>1 DEF ClosureInit
    <3>2. NoRecord \in [pull : Pulls \union {NoPull}, pending : BOOLEAN]
      BY DEF NoRecord
    <3>3. r \in [pull : Pulls \union {NoPull}, pending : BOOLEAN]
      <4>1. CASE r = NoRecord
        BY <3>2, <4>1
      <4>2. CASE r \in [pull : Pulls, pending : BOOLEAN]
        BY <4>2
      <4> QED
        BY <4>1, <4>2
    <3> QED
      BY <3>1, <3>2, <3>3
  <2>4. github.evidence \in [Issues -> Nat]
    BY <1>1 DEF ClosureInit
  <2>5. github.done \in [Issues -> BOOLEAN]
    <3>1. PICK lag \in BOOLEAN :
            github.done = [i \in Issues |-> Supersedes[i] # {} /\ lag]
      BY <1>1 DEF ClosureInit
    <3> QED
      BY <3>1, Zenon
  <2>6. github.scope \in SUBSET Issues
    <3>1. Hierarchies \subseteq Issues
      BY ClosureAssumption
    <3> QED
      BY <1>1, <3>1 DEF ClosureInit
  <2> QED
    BY <2>1, <2>2, <2>3, <2>4, <2>5, <2>6 DEF Snapshots
<1>5. PlanHeld
  BY <1>1 DEF ClosureInit, PlanHeld, IdleRun
<1>6. run \in Runs /\ edits \in Nat /\ quiet \in BOOLEAN
  BY <1>1, <1>3 DEF ClosureInit
<1> QED
  BY <1>4, <1>5, <1>6 DEF ClosureInv, ClosureTypeOK, Runs, PlannedClose, PlannedRepair

\* The steps that plan keep the types.
LEMMA PlanningKeepsTypes ==
  ASSUME ClosureInv,
         \/ \E h \in Hierarchies \union {NoIssue} : TakeSnapshot(h)
         \/ PlanOriginals \/ WalkParents \/ PlanRepairs
  PROVE  ClosureInv'
<1>1. /\ github \in Snapshots /\ run \in Runs /\ run.snapshot \in Snapshots
      /\ run.hierarchy \in Issues \union {NoIssue}
      /\ run.closes \in Seq(PlannedClose) /\ run.repairs \in Seq(PlannedRepair)
      /\ edits \in Nat /\ quiet \in BOOLEAN /\ PlanHeld
  BY DEF ClosureInv, ClosureTypeOK, Runs
<1>2. SUFFICES github' = github /\ edits' = edits /\ quiet' \in BOOLEAN
               /\ run' \in Runs /\ PlanHeld'
  BY <1>1 DEF ClosureInv, ClosureTypeOK, Runs, PlannedClose, PlannedRepair
<1>3. ASSUME NEW h \in Hierarchies \union {NoIssue}, TakeSnapshot(h)
      PROVE  /\ github' = github /\ edits' = edits /\ quiet' \in BOOLEAN
             /\ run' \in Runs /\ PlanHeld'
  <2>1. h \in Issues \union {NoIssue}
    BY ClosureAssumption
  <2>2. run' \in Runs
    BY <1>1, <1>3, <2>1 DEF TakeSnapshot, Runs, RunSteps
  <2>3. PlanHeld'
    BY <1>1, <1>3 DEF TakeSnapshot, Runs, PlanHeld
  <2> QED
    BY <1>3, <2>2, <2>3 DEF TakeSnapshot
<1>4. CASE PlanOriginals
  <2> DEFINE closes == OriginalCloses(run.snapshot) \o
                       HierarchyCloses(run.snapshot, run.hierarchy)
  <2>1. closes \in Seq(PlannedClose)
    <3>1. OriginalCloses(run.snapshot) \in Seq(PlannedClose)
      BY OriginalClosesTyped
    <3>2. HierarchyCloses(run.snapshot, run.hierarchy) \in Seq(PlannedClose)
      BY <1>1, HierarchyClosesTyped
    <3> QED
      BY <3>1, <3>2
  <2>2. run' = [run EXCEPT !.at = "walk", !.closes = closes]
    BY <1>4 DEF PlanOriginals
  <2> HIDE DEF closes
  <2>3. run' \in Runs /\ run'.at = "walk" /\ run'.repairs = run.repairs
    BY <1>1, <2>1, <2>2 DEF Runs, RunSteps
  <2>4. PlanHeld'
    BY <1>1, <1>4, <2>3 DEF PlanOriginals, PlanHeld
  <2> QED
    BY <1>1, <1>4, <2>3, <2>4 DEF PlanOriginals
<1>5. CASE WalkParents
  <2>1. PICK p \in Settleable(run.snapshot, run.closes, RunHeld) :
          run' = [run EXCEPT !.closes =
                    Append(@, [issue |-> p, rule |-> "parent", root |-> NoIssue])]
    BY <1>5 DEF WalkParents
  <2> DEFINE close == [issue |-> p, rule |-> "parent", root |-> NoIssue]
  <2>2. close \in PlannedClose
    <3>1. p \in Issues
      BY DEF Settleable, Reached
    <3> QED
      BY <3>1 DEF PlannedClose
  <2>3. Append(run.closes, close) \in Seq(PlannedClose)
    BY <1>1, <2>2
  <2>4. run' = [run EXCEPT !.closes = Append(run.closes, close)]
    BY <2>1
  <2> HIDE DEF close
  <2>5. run' \in Runs /\ run'.at = run.at /\ run'.repairs = run.repairs
    BY <1>1, <2>3, <2>4 DEF Runs
  <2>6. PlanHeld'
    BY <1>1, <1>5, <2>5 DEF WalkParents, PlanHeld
  <2> QED
    BY <1>1, <1>5, <2>5, <2>6 DEF WalkParents
<1>6. CASE PlanRepairs
  <2>1. NoSnapshot \in Snapshots
    BY DEF NoSnapshot, NoRecord, Snapshots
  <2>2. StatusRepairs(run.snapshot, run.closes, RunHeld) \in Seq(PlannedRepair)
    BY StatusRepairsTyped
  <2>3. run' \in Runs /\ run'.at = "next"
    BY <1>1, <1>6, <2>1, <2>2 DEF PlanRepairs, Runs, RunSteps
  <2>4. PlanHeld'
    BY <2>3 DEF PlanHeld
  <2> QED
    BY <1>1, <1>6, <2>3, <2>4 DEF PlanRepairs
<1> QED
  BY <1>3, <1>4, <1>5, <1>6

\* So does a run that stops.
LEMMA StopKeepsTypes ==
  ASSUME Stop
  PROVE  run' \in Runs /\ PlanHeld'
<1>1. NoSnapshot \in Snapshots
  BY DEF NoSnapshot, NoRecord, Snapshots
<1>2. IdleRun \in Runs
  BY <1>1 DEF IdleRun, Runs, RunSteps
<1>3. run' = IdleRun
  BY DEF Stop
<1> QED
  BY <1>2, <1>3 DEF PlanHeld, IdleRun

\* So do the steps that read.
LEMMA ReadingKeepsTypes ==
  ASSUME ClosureInv,
         EndRun \/ ReadBeforeClose \/ Readback \/ ReadBeforeRepair \/ Interrupt
  PROVE  ClosureInv'
<1>1. /\ github \in Snapshots /\ run \in Runs
      /\ edits \in Nat /\ quiet \in BOOLEAN /\ PlanHeld
  BY DEF ClosureInv, ClosureTypeOK
<1>2. github' = github /\ edits' \in Nat /\ quiet' = quiet
  BY <1>1 DEF EndRun, ReadBeforeClose, Readback, ReadBeforeRepair, Interrupt,
              Edit
<1>3. SUFFICES run' \in Runs /\ PlanHeld'
  BY <1>1, <1>2 DEF ClosureInv, ClosureTypeOK, Runs, PlannedClose, PlannedRepair
<1>4. CASE Stop
  BY <1>4, StopKeepsTypes
<1>5. CASE ~Stop
  <2>1. CASE ReadBeforeClose
    <3>1. PICK at \in {"comment", "close", "readback"} : Continue(at)
      BY <1>5, <2>1 DEF ReadBeforeClose
    <3>2. run' = [run EXCEPT !.at = at] /\ at \in RunSteps
      BY <3>1 DEF Continue, RunSteps
    <3>3. run' \in Runs
      BY <1>1, <3>2, RunContinues
    <3>4. PlanHeld'
      BY <1>1, <2>1, <3>2 DEF ReadBeforeClose, PlanHeld, Runs
    <3> QED
      BY <3>3, <3>4
  <2>2. CASE Readback
    <3>1. run' = [run EXCEPT !.at = "done"] /\ "done" \in RunSteps
      BY <1>5, <2>2 DEF Readback, Continue, RunSteps
    <3>2. run' \in Runs
      BY <1>1, <3>1, RunContinues
    <3>3. PlanHeld'
      BY <1>1, <2>2, <3>1 DEF Readback, PlanHeld, Runs
    <3> QED
      BY <3>2, <3>3
  <2>3. CASE ReadBeforeRepair
    <3>1. run' = [run EXCEPT !.at = "repair"] /\ "repair" \in RunSteps
      BY <1>5, <2>3 DEF ReadBeforeRepair, Continue, RunSteps
    <3>2. run' \in Runs
      BY <1>1, <3>1, RunContinues
    <3>3. PlanHeld'
      BY <1>1, <2>3, <3>1 DEF ReadBeforeRepair, PlanHeld, Runs
    <3> QED
      BY <3>2, <3>3
  <2> QED
    BY <1>5, <2>1, <2>2, <2>3 DEF EndRun, Interrupt
<1> QED
  BY <1>4, <1>5

\* The close or repair that a run is at names an issue.
LEMMA NextTyped ==
  ASSUME ClosureInv
  PROVE  /\ run.closes # <<>> => /\ NextClose \in PlannedClose
                                 /\ NextClose = run.closes[1]
         /\ run.repairs # <<>> => NextRepair \in PlannedRepair
  BY DEF ClosureInv, Runs, NextClose, NextRepair

\* So do the steps that write.
LEMMA WritingKeepsTypes ==
  ASSUME ClosureInv, PostComment \/ CloseIssue \/ WriteDone \/ WriteRepair
  PROVE  ClosureInv'
<1>1. /\ github \in Snapshots /\ run \in Runs
      /\ run.closes \in Seq(PlannedClose) /\ run.repairs \in Seq(PlannedRepair)
      /\ edits \in Nat /\ quiet \in BOOLEAN /\ PlanHeld
  BY DEF ClosureInv, ClosureTypeOK, Runs
<1>2. edits' = edits /\ quiet' = quiet
  BY DEF PostComment, CloseIssue, WriteDone, WriteRepair
<1>3. SUFFICES github' \in Snapshots /\ run' \in Runs /\ PlanHeld'
  BY <1>1, <1>2 DEF ClosureInv, ClosureTypeOK, Runs, PlannedClose, PlannedRepair
<1>4. ASSUME PostComment \/ CloseIssue \/ WriteDone
      PROVE  /\ run.closes # <<>> /\ NextClose.issue \in Issues
             /\ Tail(run.closes) \in Seq(PlannedClose)
  <2>1. run.closes # <<>>
    BY <1>1, <1>4 DEF PostComment, CloseIssue, WriteDone, PlanHeld
  <2>2. NextClose \in PlannedClose
    BY <2>1, NextTyped
  <2> QED
    BY <1>1, <2>1, <2>2 DEF PlannedClose
<1>5. CASE PostComment
  <2>1. github' \in Snapshots
    <3>1. github.evidence[NextClose.issue] + 1 \in Nat
      BY <1>1, <1>4, <1>5 DEF Snapshots
    <3>2. github' = [github EXCEPT !.evidence[NextClose.issue] =
                       github.evidence[NextClose.issue] + 1]
      BY <1>5 DEF PostComment
    <3> QED
      BY <1>1, <1>4, <1>5, <3>1, <3>2, FieldsSet
  <2>2. run' = [run EXCEPT !.at = "close"] /\ "close" \in RunSteps
    BY <1>5 DEF PostComment, Continue, RunSteps
  <2>3. run' \in Runs
    BY <1>1, <2>2, RunContinues
  <2>4. PlanHeld'
    BY <1>1, <1>4, <1>5, <2>2 DEF PlanHeld, Runs
  <2> QED
    BY <2>1, <2>3, <2>4
<1>6. CASE CloseIssue
  <2>1. github' \in Snapshots
    <3>1. StateReason(NextClose) \in IssueStates
      BY DEF StateReason, IssueStates
    <3>2. github' = [github EXCEPT !.state[NextClose.issue] =
                       StateReason(NextClose)]
      BY <1>6 DEF CloseIssue
    <3> QED
      BY <1>1, <1>4, <1>6, <3>1, <3>2, FieldsSet
  <2>2. run' = [run EXCEPT !.at = "readback"] /\ "readback" \in RunSteps
    BY <1>6 DEF CloseIssue, Continue, RunSteps
  <2>3. run' \in Runs
    BY <1>1, <2>2, RunContinues
  <2>4. PlanHeld'
    BY <1>1, <1>4, <1>6, <2>2 DEF PlanHeld, Runs
  <2> QED
    BY <2>1, <2>3, <2>4
<1>7. CASE WriteDone
  <2>1. github' \in Snapshots
    BY <1>1, <1>4, <1>7, FieldsSet DEF WriteDone
  <2>2. run' = [run EXCEPT !.at = "next", !.closes = Tail(run.closes)]
    BY <1>7 DEF WriteDone
  <2>3. run' \in Runs /\ run'.at = "next"
    BY <1>1, <1>4, <1>7, <2>2 DEF Runs, RunSteps
  <2> QED
    BY <2>1, <2>3 DEF PlanHeld
<1>8. CASE WriteRepair
  <2>1. run.repairs # <<>>
    BY <1>1, <1>8 DEF WriteRepair, PlanHeld
  <2>2. NextRepair.issue \in Issues /\ Tail(run.repairs) \in Seq(PlannedRepair)
    <3>1. NextRepair \in PlannedRepair
      BY <2>1, NextTyped
    <3> QED
      BY <1>1, <2>1, <3>1 DEF PlannedRepair
  <2>3. github' \in Snapshots
    BY <1>1, <1>8, <2>2, FieldsSet DEF WriteRepair
  <2>4. run' = [run EXCEPT !.at = "next", !.repairs = Tail(run.repairs)]
    BY <1>8 DEF WriteRepair
  <2>5. run' \in Runs /\ run'.at = "next"
    BY <1>1, <2>2, <2>4 DEF Runs, RunSteps
  <2> QED
    BY <2>3, <2>5 DEF PlanHeld
<1> QED
  BY <1>5, <1>6, <1>7, <1>8

\* So do the edits of others.
LEMMA EditsKeepTypes ==
  ASSUME ClosureInv, OthersEdit
  PROVE  ClosureInv'
<1>1. /\ github \in Snapshots /\ run \in Runs
      /\ edits \in Nat /\ quiet \in BOOLEAN /\ PlanHeld
  BY DEF ClosureInv, ClosureTypeOK
<1>2. run' = run /\ edits' \in Nat /\ quiet' = FALSE
  BY <1>1 DEF OthersEdit, Edit
<1>3. SUFFICES github' \in Snapshots
  BY <1>1, <1>2 DEF ClosureInv, ClosureTypeOK, Runs, PlannedClose, PlannedRepair, PlanHeld
<1>4. PICK i \in Issues :
        EditState(i) \/ EditStatus(i) \/ RecordCompletion(i) \/ ScopeDelivered(i)
  BY DEF OthersEdit
<1>5. CASE EditState(i)
  <2>1. PICK s \in {"open", "completed", "not_planned"} :
          github' = [github EXCEPT !.state[i] = s]
    BY <1>5 DEF EditState
  <2> QED
    BY <1>1, <2>1, FieldsSet DEF IssueStates
<1>6. CASE EditStatus(i)
  <2>1. github' = [github EXCEPT !.done[i] = ~github.done[i]]
    BY <1>6 DEF EditStatus
  <2>2. (~github.done[i]) \in BOOLEAN
    OBVIOUS
  <2> QED
    BY <1>1, <2>1, <2>2, FieldsSet
<1>7. CASE RecordCompletion(i)
  <2>1. PICK p \in Pulls, pending \in BOOLEAN :
          github' = [github EXCEPT !.record[i] =
                       [pull |-> p, pending |-> pending]]
    BY <1>7 DEF RecordCompletion
  <2>2. [pull |-> p, pending |-> pending] \in CompletionRecords
    BY DEF CompletionRecords
  <2> QED
    BY <1>1, <2>1, <2>2, FieldsSet
<1>8. CASE ScopeDelivered(i)
  <2>1. github' = [github EXCEPT !.scope = github.scope \ {i}]
    BY <1>8 DEF ScopeDelivered
  <2>2. github.scope \ {i} \in SUBSET Issues
    BY <1>1 DEF Snapshots
  <2> QED
    BY <1>1, <2>1, <2>2, FieldsSet
<1> QED
  BY <1>4, <1>5, <1>6, <1>7, <1>8

\* Every step keeps the types.
LEMMA ClosureTypesStep ==
  ASSUME ClosureInv, [ClosureNext]_closureVars
  PROVE  ClosureInv'
<1>1. CASE UNCHANGED closureVars
  BY <1>1 DEF closureVars, ClosureInv, ClosureTypeOK, PlanHeld
<1>2. CASE ClosureNext
  BY <1>2, PlanningKeepsTypes, ReadingKeepsTypes, WritingKeepsTypes,
     EditsKeepTypes DEF ClosureNext, RunStep
<1> QED
  BY <1>1, <1>2

\* The plan and the issues keep their types, whoever edits meanwhile.
LEMMA ClosureTypesKept == ClosureSpec => []ClosureTypeOK
<1>1. ClosureInit => ClosureInv
  BY ClosureTypesInit
<1>2. ClosureInv /\ [ClosureNext]_closureVars => ClosureInv'
  BY ClosureTypesStep
<1>3. ClosureInv => ClosureTypeOK
  BY DEF ClosureInv
<1> QED
  BY <1>1, <1>2, <1>3, PTL DEF ClosureSpec

-----------------------------------------------------------------------------
(* Parents close last.  While nobody edits, each sub-issue of a parent     *)
(* that is to close is closed, or its close comes before that of the       *)
(* parent.                                                                 *)

InOrder(closes) ==
  \A n \in 1..Len(closes) : closes[n].rule = "parent" =>
    \A c \in Children(closes[n].issue) :
      ~IsOpen(github, c) \/ \E m \in 1..(n - 1) : closes[m].issue = c

OrderInv ==
  /\ run.at \in {"plan", "walk"} => github = run.snapshot
  /\ quiet => InOrder(run.closes)
  /\ quiet /\ run.at = "done" => ~IsOpen(github, NextClose.issue)

\* No close is out of order before there is any.
LEMMA NoCloses == InOrder(<<>>)
  BY DEF InOrder

\* A parent whose sub-issues are closed or planned keeps the order.
LEMMA InOrderAppend ==
  ASSUME NEW closes \in Seq(PlannedClose), InOrder(closes), NEW p \in Issues,
         \A c \in Children(p) : ~IsOpen(github, c) \/ c \in Planned(closes)
  PROVE  InOrder(Append(closes,
           [issue |-> p, rule |-> "parent", root |-> NoIssue]))
<1> DEFINE close == [issue |-> p, rule |-> "parent", root |-> NoIssue]
           longer == Append(closes, close)
<1>1. /\ Len(longer) = Len(closes) + 1 /\ Len(closes) \in Nat
      /\ longer[Len(closes) + 1] = close
      /\ \A n \in 1..Len(closes) : longer[n] = closes[n]
      /\ DOMAIN closes = 1..Len(closes)
  OBVIOUS
<1>2. close.issue = p
  OBVIOUS
<1> HIDE DEF close, longer
<1>3. ASSUME NEW n \in 1..Len(longer), longer[n].rule = "parent",
             NEW c \in Children(longer[n].issue), IsOpen(github, c)
      PROVE  \E m \in 1..(n - 1) : longer[m].issue = c
  <2>1. CASE n \in 1..Len(closes)
    <3>1. PICK m \in 1..(n - 1) : closes[m].issue = c
      BY <1>1, <1>3, <2>1 DEF InOrder
    <3>2. m \in 1..Len(closes)
      BY <1>1, <2>1
    <3> QED
      BY <1>1, <3>1, <3>2
  <2>2. CASE n = Len(closes) + 1
    <3>1. c \in Planned(closes)
      BY <1>1, <1>2, <1>3, <2>2
    <3>2. PICK m \in DOMAIN closes : closes[m].issue = c
      BY <3>1 DEF Planned
    <3>3. m \in 1..(n - 1) /\ longer[m] = closes[m]
      BY <1>1, <2>2, <3>2
    <3> QED
      BY <3>2, <3>3
  <2> QED
    BY <1>1, <1>3, <2>1, <2>2
<1> QED
  BY <1>3 DEF InOrder, longer, close

\* The order is kept when the first of them has closed its issue.
LEMMA InOrderTail ==
  ASSUME NEW closes \in Seq(PlannedClose), closes # <<>>, InOrder(closes),
         ~IsOpen(github, closes[1].issue)
  PROVE  InOrder(Tail(closes))
<1> DEFINE shorter == Tail(closes)
<1>1. /\ Len(closes) \in Nat /\ Len(shorter) = Len(closes) - 1
      /\ \A n \in 1..Len(shorter) : shorter[n] = closes[n + 1]
  OBVIOUS
<1> HIDE DEF shorter
<1>2. ASSUME NEW n \in 1..Len(shorter), shorter[n].rule = "parent",
             NEW c \in Children(shorter[n].issue), IsOpen(github, c)
      PROVE  \E m \in 1..(n - 1) : shorter[m].issue = c
  <2>1. n + 1 \in 1..Len(closes) /\ shorter[n] = closes[n + 1]
    BY <1>1
  <2>2. PICK k \in 1..((n + 1) - 1) : closes[k].issue = c
    BY <1>2, <2>1 DEF InOrder
  <2>3. k # 1
    BY <1>2, <2>2
  <2>4. k - 1 \in 1..(n - 1) /\ k - 1 \in 1..Len(shorter) /\ (k - 1) + 1 = k
    BY <1>1, <2>2, <2>3
  <2>5. shorter[k - 1] = closes[k]
    BY <1>1, <2>4
  <2> QED
    BY <2>2, <2>4, <2>5
<1> QED
  BY <1>2 DEF InOrder, shorter

\* Closing an issue or leaving it as it is keeps the order.
LEMMA InOrderClosed ==
  ASSUME ClosureInv, InOrder(run.closes), NEW closed,
         \A i \in Issues : ~IsOpen(github, i) => ~IsOpen(closed, i)
  PROVE  \A n \in 1..Len(run.closes) : run.closes[n].rule = "parent" =>
           \A c \in Children(run.closes[n].issue) :
             ~IsOpen(closed, c) \/
             \E m \in 1..(n - 1) : run.closes[m].issue = c
  BY DEF InOrder, Children

\* Initially nothing is planned.
LEMMA OrderInit == ClosureInit => OrderInv
  BY NoCloses DEF ClosureInit, OrderInv, IdleRun

\* A run that stops has no closes left.
LEMMA StopKeepsOrder ==
  ASSUME Stop
  PROVE  OrderInv'
<1>1. run' = IdleRun
  BY DEF Stop
<1>2. run'.at = "idle" /\ run'.closes = <<>>
  BY <1>1 DEF IdleRun
<1> QED
  BY <1>2 DEF OrderInv, InOrder

\* The steps that plan put a parent after its sub-issues.
LEMMA PlanningKeepsOrder ==
  ASSUME ClosureInv, OrderInv,
         \/ \E h \in Hierarchies \union {NoIssue} : TakeSnapshot(h)
         \/ PlanOriginals \/ WalkParents \/ PlanRepairs
  PROVE  OrderInv'
<1>1. run \in Runs /\ run.closes \in Seq(PlannedClose) /\ PlanHeld /\ github' = github
  BY DEF ClosureInv, Runs, TakeSnapshot, PlanOriginals, WalkParents, PlanRepairs
<1>2. CASE \E h \in Hierarchies \union {NoIssue} : TakeSnapshot(h)
  <2>1. /\ run'.closes = <<>> /\ run'.at = "plan" /\ run'.snapshot = github
    BY <1>1, <1>2 DEF TakeSnapshot, Runs, PlanHeld
  <2> QED
    BY <1>1, <2>1 DEF OrderInv, InOrder
<1>3. CASE PlanOriginals
  <2> DEFINE originals == OriginalCloses(run.snapshot)
             ofHierarchy == HierarchyCloses(run.snapshot, run.hierarchy)
  <2>1. run.hierarchy \in Issues \union {NoIssue}
    BY <1>1 DEF Runs
  <2>2. /\ originals \in Seq(PlannedClose) /\ ofHierarchy \in Seq(PlannedClose)
        /\ \A n \in DOMAIN originals : originals[n].rule # "parent"
        /\ \A n \in DOMAIN ofHierarchy : ofHierarchy[n].rule # "parent"
    BY <2>1, OriginalClosesTyped, HierarchyClosesTyped
  <2>3. /\ run'.at = "walk" /\ run'.snapshot = run.snapshot
        /\ run'.closes = originals \o ofHierarchy
    BY <1>1, <1>3 DEF PlanOriginals, Runs
  <2> HIDE DEF originals, ofHierarchy
  <2>4. \A n \in 1..Len(run'.closes) : run'.closes[n].rule # "parent"
    BY <2>2, <2>3
  <2> QED
    BY <1>1, <1>3, <2>3, <2>4 DEF OrderInv, InOrder, PlanOriginals
<1>4. CASE WalkParents
  <2>1. PICK p \in Settleable(run.snapshot, run.closes, RunHeld) :
          run' = [run EXCEPT !.closes =
                    Append(@, [issue |-> p, rule |-> "parent", root |-> NoIssue])]
    BY <1>4 DEF WalkParents
  <2>2. p \in Issues
    BY DEF Settleable, Reached
  <2>3. run.at = "walk" /\ github = run.snapshot /\ quiet' = quiet
    BY <1>4 DEF OrderInv, WalkParents
  <2>4. \A c \in Children(p) : ~IsOpen(github, c) \/ c \in Planned(run.closes)
    BY <2>3, SettleableChildren
  <2>5. /\ run'.at = run.at /\ run'.snapshot = run.snapshot
        /\ run'.closes = Append(run.closes,
                           [issue |-> p, rule |-> "parent", root |-> NoIssue])
    BY <1>1, <2>1 DEF Runs
  <2>6. InOrder(run.closes) =>
          InOrder(Append(run.closes,
            [issue |-> p, rule |-> "parent", root |-> NoIssue]))
    BY <1>1, <2>2, <2>4, InOrderAppend
  <2> QED
    BY <1>1, <2>3, <2>5, <2>6 DEF OrderInv, InOrder, IsOpen
<1>5. CASE PlanRepairs
  <2>1. /\ run'.at = "next" /\ run'.closes = run.closes /\ quiet' = quiet
    BY <1>1, <1>5 DEF PlanRepairs, Runs
  <2> QED
    BY <1>1, <2>1 DEF OrderInv, InOrder
<1> QED
  BY <1>2, <1>3, <1>4, <1>5

\* Reading keeps the order, and finds the issue closed before its Done.
LEMMA ReadingKeepsOrder ==
  ASSUME ClosureInv, OrderInv,
         EndRun \/ ReadBeforeClose \/ Readback \/ ReadBeforeRepair \/ Interrupt
  PROVE  OrderInv'
<1>1. run \in Runs /\ github' = github /\ quiet' = quiet
  BY DEF ClosureInv, EndRun, ReadBeforeClose, Readback, ReadBeforeRepair,
         Interrupt
<1>2. CASE Stop
  BY <1>2, StopKeepsOrder
<1>3. CASE ~Stop
  <2>1. PICK at \in {"comment", "close", "readback", "done", "repair"} :
          /\ run' = [run EXCEPT !.at = at]
          /\ at = "done" => ClosedAsPlanned
    BY <1>3 DEF EndRun, ReadBeforeClose, Readback, ReadBeforeRepair, Interrupt,
                Continue
  <2>2. run'.at = at /\ run'.closes = run.closes
    BY <1>1, <2>1 DEF Runs
  <2>3. at = "done" => ~IsOpen(github, NextClose.issue)
    BY <2>1 DEF ClosedAsPlanned, StateReason, IsOpen
  <2> QED
    BY <1>1, <2>2, <2>3 DEF OrderInv, InOrder, NextClose
<1> QED
  BY <1>2, <1>3

\* Writing keeps the order: an issue leaves the closes once it is closed.
LEMMA WritingKeepsOrder ==
  ASSUME ClosureInv, OrderInv,
         PostComment \/ CloseIssue \/ WriteDone \/ WriteRepair
  PROVE  OrderInv'
<1>1. /\ run \in Runs /\ run.closes \in Seq(PlannedClose) /\ github \in Snapshots
      /\ quiet' = quiet /\ PlanHeld
  BY DEF ClosureInv, ClosureTypeOK, Runs, PostComment, CloseIssue, WriteDone,
         WriteRepair
<1>2. \A i \in Issues : ~IsOpen(github, i) => ~IsOpen(github', i)
  <2>1. CASE CloseIssue
    BY <1>1, <2>1 DEF CloseIssue, IsOpen, StateReason, Snapshots
  <2>2. CASE PostComment \/ WriteDone \/ WriteRepair
    <3>1. github'.state = github.state
      BY <1>1, <2>2 DEF PostComment, WriteDone, WriteRepair, Snapshots
    <3> QED
      BY <3>1 DEF IsOpen
  <2> QED
    BY <2>1, <2>2
<1>3. run'.at \in {"close", "readback", "next"}
  BY <1>1 DEF PostComment, CloseIssue, WriteDone, WriteRepair, Continue, Runs
<1>4. CASE PostComment \/ CloseIssue \/ WriteRepair
  <2>1. run'.closes = run.closes
    BY <1>1, <1>4 DEF PostComment, CloseIssue, WriteRepair, Continue, Runs
  <2>2. quiet => InOrder(run.closes)
    BY DEF OrderInv
  <2>3. quiet' => InOrder(run.closes)'
    BY <1>1, <1>2, <2>1, <2>2, InOrderClosed DEF InOrder
  <2> QED
    BY <1>3, <2>3 DEF OrderInv
<1>5. CASE WriteDone
  <2>1. github'.state = github.state /\ run'.closes = Tail(run.closes)
    BY <1>1, <1>5 DEF WriteDone, Snapshots, Runs
  <2>2. run.closes # <<>> /\ NextClose = run.closes[1]
    BY <1>1, <1>5, NextTyped DEF WriteDone, PlanHeld
  <2>3. quiet => InOrder(Tail(run.closes))
    BY <1>1, <1>5, <2>2, InOrderTail DEF OrderInv, WriteDone
  <2>4. quiet' => InOrder(run.closes)'
    BY <1>1, <2>1, <2>3 DEF InOrder, IsOpen
  <2> QED
    BY <1>3, <2>4 DEF OrderInv
<1> QED
  BY <1>4, <1>5

\* Every step keeps the order, as long as nobody edits.
LEMMA OrderStep ==
  ASSUME ClosureInv, OrderInv, [ClosureNext]_closureVars
  PROVE  OrderInv'
<1>1. CASE UNCHANGED closureVars
  BY <1>1 DEF closureVars, OrderInv, InOrder, NextClose
<1>2. CASE OthersEdit
  <2>1. run' = run /\ quiet' = FALSE /\ run.at \notin {"plan", "walk"}
    BY <1>2 DEF OthersEdit, Edit
  <2> QED
    BY <2>1 DEF OrderInv
<1>3. CASE ClosureNext /\ ~OthersEdit
  BY <1>3, PlanningKeepsOrder, ReadingKeepsOrder, WritingKeepsOrder
     DEF ClosureNext, RunStep
<1> QED
  BY <1>1, <1>2, <1>3

\* A parent is closed as completed only when each of its sub-issues is closed,
\* as long as nobody has edited since the snapshot (closure-walk.mjs:
\* walkParents; closure-apply.mjs: one close at a time, stopping at a failure).
THEOREM ParentsCloseLastHolds == ClosureSpec => ParentsCloseLast
<1>1. ClosureInit => ClosureInv /\ OrderInv
  BY ClosureTypesInit, OrderInit
<1>2. ClosureInv /\ OrderInv /\ [ClosureNext]_closureVars
        => (ClosureInv /\ OrderInv)'
  BY ClosureTypesStep, OrderStep
<1>3. ClosureInv /\ OrderInv /\ [ClosureNext]_closureVars =>
        [\A p \in Issues : ClosesAsParent(p) /\ CloseIssue /\ quiet =>
           \A c \in Children(p) : ~IsOpen(github, c)]_closureVars
  <2>1. SUFFICES ASSUME ClosureInv, OrderInv, quiet,
                        NEW p \in Issues, ClosesAsParent(p),
                        NEW c \in Children(p)
                 PROVE  ~IsOpen(github, c)
    OBVIOUS
  <2>2. run.closes # <<>> /\ run.closes \in Seq(PlannedClose)
    BY <2>1 DEF ClosureInv, PlanHeld, ClosesAsParent, Runs
  <2>3. run.closes[1].issue = p /\ run.closes[1].rule = "parent"
    BY <2>1, <2>2, NextTyped DEF ClosesAsParent
  <2>4. Len(run.closes) \in Nat /\ 1 \in 1..Len(run.closes)
    BY <2>2
  <2>5. ~ \E m \in 1..(1 - 1) : run.closes[m].issue = c
    OBVIOUS
  <2> QED
    BY <2>1, <2>3, <2>4, <2>5 DEF OrderInv, InOrder
<1> QED
  BY <1>1, <1>2, <1>3, PTL DEF ClosureSpec, ParentsCloseLast

-----------------------------------------------------------------------------
(* A run ends.  Each pass of walkParents that goes on plans an issue that  *)
(* was not planned yet, and each call to GitHub is one of the few that its *)
(* close or repair takes, so a run cannot plan or write for ever.          *)

Phase(r) ==
  CASE r.at = "plan" -> 3 [] r.at = "walk" -> 2 [] r.at = "idle" -> 0
    [] OTHER -> 1

\* The calls that were made for the close or the repair the run is at.
CallsMade(at) ==
  CASE at = "comment" -> 1 [] at = "close" -> 2 [] at = "readback" -> 3
    [] at = "done" -> 4 [] at = "repair" -> 1 [] OTHER -> 0

(* What is left of a phase: the issues not planned yet, or the calls that  *)
(* the closes and repairs may still take.                                  *)
Left(r) ==
  IF r.at \in {"plan", "walk"} THEN Cardinality(Issues \ Planned(r.closes))
  ELSE 5 * (Len(r.closes) + Len(r.repairs)) + 4 - CallsMade(r.at)

NearerItsEnd ==
  /\ Phase(run') \in Nat /\ Left(run') \in Nat
  /\ \/ Phase(run') < Phase(run)
     \/ Phase(run') = Phase(run) /\ Left(run') < Left(run)

\* Arithmetic of what is left.
LEMMA CallsLeft ==
  ASSUME NEW c \in Nat, NEW r \in Nat, NEW i \in 0..4, NEW j \in 0..4
  PROVE  /\ 5 * (c + r) + 4 - i \in Nat
         /\ i < j => 5 * (c + r) + 4 - j < 5 * (c + r) + 4 - i
  OBVIOUS

\* Arithmetic of the last call of a close and of a repair.
LEMMA LastCall ==
  ASSUME NEW c \in Nat, NEW r \in Nat
  PROVE  /\ 5 * (c - 1 + r) + 4 - 0 < 5 * (c + r) + 4 - 4
         /\ 5 * (c + (r - 1)) + 4 - 0 < 5 * (c + r) + 4 - 1
  OBVIOUS

\* What is left is a number.
LEMMA LeftTyped ==
  ASSUME NEW r \in Runs
  PROVE  Phase(r) \in 0..3 /\ Left(r) \in Nat
<1>1. IsFiniteSet(Issues)
  BY ClosureAssumption
<1>2. IsFiniteSet(Issues \ Planned(r.closes))
  BY <1>1, FS_Subset
<1>3. Cardinality(Issues \ Planned(r.closes)) \in Nat
  BY <1>2, FS_CardinalityType
<1>4. Len(r.closes) \in Nat /\ Len(r.repairs) \in Nat
  BY DEF Runs
<1>5. CallsMade(r.at) \in 0..4
  BY DEF CallsMade
<1>6. Left(r) \in Nat
  <2>1. 5 * (Len(r.closes) + Len(r.repairs)) + 4 - CallsMade(r.at) \in Nat
    BY <1>4, <1>5, CallsLeft
  <2> QED
    BY <1>3, <2>1, Zenon DEF Left
<1>7. Phase(r) \in 0..3
  BY DEF Phase
<1> QED
  BY <1>6, <1>7

\* A pass of walkParents plans an issue that was not planned.
LEMMA WalkPlansAnother ==
  ASSUME ClosureInv, WalkParents
  PROVE  Left(run') < Left(run)
<1>1. run \in Runs /\ run.closes \in Seq(PlannedClose) /\ run.at = "walk"
  BY DEF ClosureInv, Runs, WalkParents
<1>2. PICK p \in Settleable(run.snapshot, run.closes, RunHeld) :
        run' = [run EXCEPT !.closes =
                  Append(@, [issue |-> p, rule |-> "parent", root |-> NoIssue])]
  BY DEF WalkParents
<1> DEFINE close == [issue |-> p, rule |-> "parent", root |-> NoIssue]
           rest == Issues \ Planned(run.closes)
<1>3. p \in rest
  BY DEF Settleable, Reached
<1>4. run'.at = "walk" /\ run'.closes = Append(run.closes, close)
  BY <1>1, <1>2 DEF Runs
<1>5. Planned(run'.closes) = Planned(run.closes) \union {p}
  <2>1. close.issue = p
    OBVIOUS
  <2> HIDE DEF close
  <2>2. /\ DOMAIN run.closes = 1..Len(run.closes) /\ Len(run.closes) \in Nat
        /\ DOMAIN run'.closes = 1..(Len(run.closes) + 1)
        /\ run'.closes[Len(run.closes) + 1] = close
        /\ \A n \in 1..Len(run.closes) : run'.closes[n] = run.closes[n]
    BY <1>1, <1>4
  <2>3. DOMAIN run'.closes = DOMAIN run.closes \union {Len(run.closes) + 1}
    BY <2>2
  <2> QED
    BY <2>1, <2>2, <2>3 DEF Planned
<1>6. IsFiniteSet(rest)
  <2>1. IsFiniteSet(Issues)
    BY ClosureAssumption
  <2> QED
    BY <2>1, FS_Subset
<1>7. Issues \ Planned(run'.closes) = rest \ {p}
  BY <1>5
<1> HIDE DEF rest
<1>8. /\ Cardinality(rest \ {p}) = Cardinality(rest) - 1
      /\ Cardinality(rest) \in Nat
  BY <1>3, <1>6, FS_RemoveElement, FS_CardinalityType
<1>9. Left(run) = Cardinality(rest) /\ Left(run') = Cardinality(rest \ {p})
  BY <1>1, <1>4, <1>7 DEF Left, rest
<1> QED
  BY <1>8, <1>9

\* Each call is one of those left for its close or repair.
LEMMA CallsRunOut ==
  ASSUME ClosureInv, ~Stop,
         \/ ReadBeforeClose \/ PostComment \/ CloseIssue \/ Readback
         \/ WriteDone \/ ReadBeforeRepair \/ WriteRepair
  PROVE  Phase(run') = Phase(run) /\ Left(run') < Left(run)
<1>1. /\ run \in Runs /\ PlanHeld
      /\ run.closes \in Seq(PlannedClose) /\ run.repairs \in Seq(PlannedRepair)
  BY DEF ClosureInv, Runs
<1>2. Len(run.closes) \in Nat /\ Len(run.repairs) \in Nat
  BY <1>1
<1>3. ASSUME NEW from, NEW at, run.at = from, run' = [run EXCEPT !.at = at],
             << from, at >> \in
               {<<"next", "comment">>, <<"next", "close">>,
                <<"next", "readback">>, <<"comment", "close">>,
                <<"close", "readback">>, <<"readback", "done">>,
                <<"next", "repair">>}
      PROVE  Phase(run') = Phase(run) /\ Left(run') < Left(run)
  <2>1. /\ run'.at = at /\ run'.closes = run.closes
        /\ run'.repairs = run.repairs
    BY <1>1, <1>3 DEF Runs
  <2>2. CallsMade(from) < CallsMade(at) /\ CallsMade(at) \in 0..4
        /\ CallsMade(from) \in 0..4
    BY <1>3 DEF CallsMade
  <2>3. {from, at} \subseteq {"next", "comment", "close", "readback", "done",
                              "repair"}
    BY <1>3
  <2>4. Phase(run') = 1 /\ Phase(run) = 1
    BY <1>3, <2>1, <2>3 DEF Phase
  <2>5. /\ Left(run) = 5 * (Len(run.closes) + Len(run.repairs)) + 4
                         - CallsMade(from)
        /\ Left(run') = 5 * (Len(run.closes) + Len(run.repairs)) + 4
                          - CallsMade(at)
    BY <1>3, <2>1, <2>3 DEF Left
  <2>6. Left(run') < Left(run)
    BY <1>2, <2>2, <2>5, CallsLeft
  <2> QED
    BY <2>4, <2>6
<1>4. CASE ReadBeforeClose
  <2>1. PICK at \in {"comment", "close", "readback"} : Continue(at)
    BY <1>4 DEF ReadBeforeClose
  <2>2. run.at = "next"
    BY <1>4 DEF ReadBeforeClose
  <2> QED
    BY <1>3, <2>1, <2>2 DEF Continue
<1>5. CASE PostComment \/ CloseIssue \/ Readback \/ ReadBeforeRepair
  BY <1>3, <1>5 DEF PostComment, CloseIssue, Readback, ReadBeforeRepair, Continue
<1>6. CASE WriteDone
  <2>1. run.at = "done" /\ run.closes # <<>>
    BY <1>1, <1>6 DEF WriteDone, PlanHeld
  <2>2. /\ run'.at = "next" /\ run'.closes = Tail(run.closes)
        /\ run'.repairs = run.repairs
    BY <1>1, <1>6 DEF WriteDone, Runs
  <2>3. Len(Tail(run.closes)) = Len(run.closes) - 1 /\ Len(run.closes) \in Nat
    BY <1>1, <2>1
  <2>4. /\ Left(run) = 5 * (Len(run.closes) + Len(run.repairs)) + 4 - 4
        /\ Left(run') = 5 * (Len(run.closes) - 1 + Len(run.repairs)) + 4 - 0
    BY <2>1, <2>2, <2>3 DEF Left, CallsMade
  <2>5. Phase(run) = 1 /\ Phase(run') = 1
    BY <2>1, <2>2 DEF Phase
  <2>6. Left(run') < Left(run)
    BY <1>2, <2>4, LastCall
  <2> QED
    BY <2>5, <2>6
<1>7. CASE WriteRepair
  <2>1. run.at = "repair" /\ run.repairs # <<>>
    BY <1>1, <1>7 DEF WriteRepair, PlanHeld
  <2>2. /\ run'.at = "next" /\ run'.repairs = Tail(run.repairs)
        /\ run'.closes = run.closes
    BY <1>1, <1>7 DEF WriteRepair, Runs
  <2>3. /\ Len(Tail(run.repairs)) = Len(run.repairs) - 1
        /\ Len(run.repairs) \in Nat
    BY <1>1, <2>1
  <2>4. /\ Left(run) = 5 * (Len(run.closes) + Len(run.repairs)) + 4 - 1
        /\ Left(run') = 5 * (Len(run.closes) + (Len(run.repairs) - 1)) + 4 - 0
    BY <2>1, <2>2, <2>3 DEF Left, CallsMade
  <2>5. Phase(run) = 1 /\ Phase(run') = 1
    BY <2>1, <2>2 DEF Phase
  <2>6. Left(run') < Left(run)
    BY <1>2, <2>4, LastCall
  <2> QED
    BY <2>5, <2>6
<1> QED
  BY <1>4, <1>5, <1>6, <1>7

\* Every step of a run brings it nearer its end, so a run that goes on ends,
\* however the hierarchy is shaped and whatever is edited meanwhile
\* (closure-walk.mjs: walkParents; closure-apply.mjs: applyClosures).
THEOREM RunsEnd == ClosureSpec => [][RunStep => NearerItsEnd]_closureVars
<1>1. ClosureInit => ClosureInv
  BY ClosureTypesInit
<1>2. ClosureInv /\ [ClosureNext]_closureVars => ClosureInv'
  BY ClosureTypesStep
<1>3. ASSUME ClosureInv, ClosureInv', RunStep
      PROVE  NearerItsEnd
  <2>1. /\ run \in Runs /\ run' \in Runs /\ run.at \in RunSteps
    BY <1>3 DEF ClosureInv, ClosureTypeOK
  <2>2. Phase(run) \in 0..3 /\ Phase(run') \in 0..3 /\ Left(run') \in Nat
    BY <2>1, LeftTyped
  <2>3. CASE Stop
    <3>1. Phase(run') = 0
      BY <2>3 DEF Stop, IdleRun, Phase
    <3>2. run.at # "idle"
      BY <1>3 DEF RunStep, PlanOriginals, WalkParents, PlanRepairs, EndRun,
                  ReadBeforeClose, PostComment, CloseIssue, Readback,
                  WriteDone, ReadBeforeRepair, WriteRepair
    <3>3. Phase(run) # 0
      BY <3>2 DEF Phase
    <3> QED
      BY <2>2, <3>1, <3>3 DEF NearerItsEnd
  <2>4. CASE PlanOriginals \/ PlanRepairs
    <3>1. \/ run.at = "plan" /\ run'.at = "walk"
          \/ run.at = "walk" /\ run'.at = "next"
      BY <2>1, <2>4 DEF PlanOriginals, PlanRepairs, Runs
    <3>2. Phase(run') < Phase(run)
      BY <3>1 DEF Phase
    <3> QED
      BY <2>2, <3>2 DEF NearerItsEnd
  <2>5. CASE WalkParents
    <3>1. run.at = "walk" /\ run'.at = "walk"
      BY <2>1, <2>5 DEF WalkParents, Runs
    <3>2. Phase(run') = Phase(run)
      BY <3>1 DEF Phase
    <3> QED
      BY <1>3, <2>2, <2>5, <3>2, WalkPlansAnother DEF NearerItsEnd
  <2>6. CASE ~Stop /\ \/ ReadBeforeClose \/ PostComment \/ CloseIssue
                      \/ Readback \/ WriteDone \/ ReadBeforeRepair
                      \/ WriteRepair
    BY <1>3, <2>2, <2>6, CallsRunOut DEF NearerItsEnd
  <2> QED
    BY <1>3, <2>3, <2>4, <2>5, <2>6 DEF RunStep, EndRun
<1>4. ClosureInv /\ ClosureInv' /\ [ClosureNext]_closureVars =>
        [RunStep => NearerItsEnd]_closureVars
  BY <1>3
<1> QED
  BY <1>1, <1>2, <1>4, PTL DEF ClosureSpec

-----------------------------------------------------------------------------
(* Side by side.  The components share no variable, so what happens in     *)
(* their composition happens in each of them, and what is proved of one    *)
(* holds there.                                                            *)

\* Every step of the composition is a step of each component or none.
LEMMA StepsAreOwn ==
  ASSUME [ComponentsNext]_<<subject, allVars>>
  PROVE  /\ [RootNext]_rootVars /\ [LifeNext]_lifeVars
         /\ [OwnerNext]_ownerVars /\ [RuntimesNext]_runtimesVars
         /\ [ClosureNext]_closureVars
<1>1. CASE UNCHANGED <<subject, allVars>>
  BY <1>1 DEF allVars
<1>2. CASE ComponentsNext
  BY <1>2 DEF ComponentsNext
<1> QED
  BY <1>1, <1>2

\* The root gate, the process lifetime, both parts of the dashboard and the
\* closure helper behave in MCComponents as each does on its own.
LEMMA ComponentsRunFreely ==
  ComponentsSpec =>
    RootSpec /\ LifeSpec /\ OwnerSpec /\ RuntimesSpec /\ ClosureSpec
<1>1. ComponentsInit =>
        RootInit /\ LifeInit /\ OwnerInit /\ RuntimesInit /\ ClosureInit
  BY DEF ComponentsInit
<1>2. [ComponentsNext]_<<subject, allVars>> =>
        /\ [RootNext]_rootVars /\ [LifeNext]_lifeVars
        /\ [OwnerNext]_ownerVars /\ [RuntimesNext]_runtimesVars
        /\ [ClosureNext]_closureVars
  BY StepsAreOwn
<1> QED
  BY <1>1, <1>2, PTL
     DEF ComponentsSpec, RootSpec, LifeSpec, OwnerSpec, RuntimesSpec, ClosureSpec

\* The variables of the five components keep their types, for any processes,
\* adapters, dashboards, projects and issues.
THEOREM ComponentsTypesKept == ComponentsSpec => []ComponentsTypeOK
<1>1. OwnerInv => OwnerTypeOK
  BY DEF OwnerInv
<1>2. RuntimesInv => RuntimesTypeOK
  BY DEF RuntimesInv
<1>3. RootTypeOK /\ LifeTypeOK /\ OwnerTypeOK /\ RuntimesTypeOK /\ ClosureTypeOK
        => ComponentsTypeOK
  BY DEF ComponentsTypeOK
<1> QED
  BY <1>1, <1>2, <1>3, ComponentsRunFreely, RootTypesKept, LifeTypesKept,
     OwnerInvHolds, RuntimesInvHolds, ClosureTypesKept, PTL
===============================================================================
