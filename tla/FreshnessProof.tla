--------------------------- MODULE FreshnessProof ---------------------------
(* Proofs about Freshness, for any set of files and any number of attempts. *)
EXTENDS Freshness, SequenceTheorems, TLAPS

(* The refresh under way is the operation at the head of the queue.        *)
RefreshAtHead == phase # "idle" => AtHead("refresh")

TypeInv == TypeOK /\ RefreshAtHead

(* What was reserved or analysed is behind the next generation.            *)
StatusInv ==
  /\ TypeInv /\ StatusTruthful
  /\ current < next /\ analyzed < next

(* Every file of the one manifest is at most as new as in the other.       *)
Below(m, n) == \A f \in Files : m[f] <= n[f]

(* Some content of the workspace lies between the manifest of the current  *)
(* generation and what the capture has read of it so far...                *)
CaptureSpans ==
  \E w \in witnessed :
    /\ Below(manifest, w) /\ Below(w, disk)
    /\ \A f \in Files \ todo : w[f] <= captured[f]

(* ... and between what was captured and what the verification has read.   *)
VerifySpans ==
  \E w \in witnessed :
    /\ Below(captured, w) /\ Below(w, disk)
    /\ \A f \in Files \ todo : w[f] <= verified[f]

ReadsInv ==
  /\ TypeOK
  /\ Below(manifest, disk) /\ Below(captured, disk) /\ Below(verified, disk)
  /\ runAt = "none" => witnessed = {}
  /\ runAt # "none" => disk \in witnessed
  /\ runAt = "capture" => CaptureSpans
  /\ runAt = "verify" => VerifySpans

-----------------------------------------------------------------------------
(* Types.                                                                  *)

(* What is left of the queue is a queue.                                   *)
LEMMA TailType ==
  ASSUME TypeOK, tail # <<>>
  PROVE  Tail(tail) \in Seq(Operations)
BY HeadTailProperties DEF TypeOK

(* An operation joins the end of the queue and leaves its head alone.      *)
LEMMA AppendType ==
  ASSUME NEW q \in Seq(Operations), NEW o \in Operations
  PROVE  /\ Append(q, o) \in Seq(Operations)
         /\ Append(q, o) # <<>>
         /\ q # <<>> => Head(Append(q, o)) = Head(q)
<1>1. /\ Append(q, o) \in Seq(Operations) /\ Append(q, o) # <<>>
      /\ Len(Append(q, o)) = Len(q) + 1
      /\ \A i \in 1..Len(q) : Append(q, o)[i] = q[i]
  BY AppendProperties
<1>2. ASSUME q # <<>> PROVE Head(Append(q, o)) = Head(q)
  <2>1. Len(q) \in Nat /\ Len(q) > 0
    BY <1>2, EmptySeq, LenProperties
  <2>2. Append(q, o)[1] = q[1]
    BY <1>1, <2>1
  <2>3. Head(q) = q[1] /\ Head(Append(q, o)) = Append(q, o)[1]
    BY <1>1, <1>2, HeadTailProperties
  <2>. QED
    BY <2>2, <2>3
<1>. QED
  BY <1>1, <1>2

(* An empty manifest and the workspace are manifests.                      *)
LEMMA UnreadType == Unread \in Manifests
BY DEF Unread, Manifests

(* The part of the types that the end of a reconciliation settles.         *)
LEMMA EndRunType ==
  ASSUME TypeInv, EndRun
  PROVE  /\ runAt' = "none" /\ attempt' \in 0..MaxAttempts
         /\ todo' \subseteq Files
         /\ captured' \in Manifests /\ verified' \in Manifests
         /\ analyzed' \in Nat /\ witnessed' \subseteq Manifests
         /\ opened' \in BOOLEAN
         /\ poll' \in {"off", "armed", "reconciling"}
         /\ tail' \in Seq(Operations)
         /\ phase' \in {"idle", "working", "reconciling"}
         /\ RefreshAtHead'
         /\ UNCHANGED <<disk, unseen, mode, listening, closed, coalesce, requested>>
<1>1. /\ attempt' \in 0..MaxAttempts /\ analyzed' \in Nat
      /\ captured' \in Manifests /\ verified' \in Manifests
  BY UnreadType, FreshnessAssumption DEF EndRun, FreshnessAssumption, None
<1>2. poll' \in {"off", "armed", "reconciling"}
  BY DEF EndRun, Repolled, TypeInv, TypeOK
<1>3. /\ tail' \in Seq(Operations)
      /\ phase' \in {"idle", "working", "reconciling"}
      /\ RefreshAtHead'
  BY TailType DEF EndRun, TypeInv, TypeOK, RefreshAtHead, AtHead
<1>. QED
  BY <1>1, <1>2, <1>3 DEF EndRun, workspace

(* Reading a file keeps a manifest a manifest.                             *)
LEMMA ReadType ==
  ASSUME NEW m \in Manifests, NEW d \in Manifests, NEW f \in Files
  PROVE  [m EXCEPT ![f] = d[f]] \in Manifests
BY DEF Manifests

(* The part of the types that asking for a reconciliation settles.         *)
LEMMA ReconcileType ==
  ASSUME TypeOK, Reconcile
  PROVE  /\ pending' \in Nat /\ next' \in Nat \ {0}
         /\ state' \in {"initializing", "ready", "refreshing", "degraded",
                        "refresh_failed"}
         /\ runAt' \in {"none", "capture", "verify"}
         /\ attempt' \in 0..MaxAttempts /\ todo' \subseteq Files
         /\ captured' \in Manifests /\ verified' \in Manifests
         /\ analyzed' \in Nat /\ witnessed' \subseteq Manifests
         /\ UNCHANGED <<current, manifest, forced>>
<1>1. CASE runAt # "none"
  BY <1>1 DEF Reconcile, TypeOK, status, run
<1>2. CASE runAt = "none"
  BY <1>2, UnreadType, FreshnessAssumption
  DEF Reconcile, ReserveIfNone, Reserve, BeginAttempt, TypeOK, None,
      FreshnessAssumption
<1>. QED
  BY <1>1, <1>2

(* The types hold at the start.                                            *)
LEMMA TypeInit == Init => TypeInv
<1> SUFFICES ASSUME Init PROVE TypeInv
  OBVIOUS
<1>1. disk \in Manifests
  BY DEF Init, Manifests
<1>2. 0 \in 0..MaxAttempts
  BY FreshnessAssumption DEF FreshnessAssumption
<1>3. tail \in Seq(Operations)
  BY EmptySeq DEF Init
<1>5. /\ manifest \in Manifests /\ captured \in Manifests
      /\ verified \in Manifests
  BY UnreadType DEF Init
<1>6. /\ attempt \in 0..MaxAttempts /\ todo \subseteq Files
      /\ witnessed \subseteq Manifests
      /\ current \in Nat /\ pending \in Nat /\ next \in Nat \ {0}
      /\ analyzed \in Nat /\ requested \in Nat
  BY <1>2 DEF Init, None
<1>7. /\ unseen \in BOOLEAN /\ listening \in BOOLEAN /\ opened \in BOOLEAN /\ closed \in BOOLEAN
      /\ coalesce \in BOOLEAN /\ forced \in BOOLEAN
      /\ mode = "unstarted" /\ poll = "off" /\ state = "initializing"
      /\ runAt = "none" /\ phase = "idle"
  BY DEF Init
<1>. QED
  BY <1>1, <1>3, <1>5, <1>6, <1>7 DEF TypeInv, TypeOK, RefreshAtHead

(* Every step preserves the types.                                         *)
LEMMA TypeStep == TypeInv /\ [Next]_vars => TypeInv'
<1> SUFFICES ASSUME TypeInv, [Next]_vars PROVE TypeInv'
  OBVIOUS
<1> USE DEF TypeInv, TypeOK, workspace, timers, status, run, scheduler
<1>1. ASSUME NEW f \in Files, Save(f) PROVE TypeInv'
  <2>1. disk' \in Manifests
    BY <1>1 DEF Save, Manifests
  <2>2. unseen' \in BOOLEAN /\ witnessed' \subseteq Manifests
    BY <1>1, <2>1 DEF Save
  <2>3. UNCHANGED <<timers, status, run, scheduler>>
    BY <1>1 DEF Save
  <2>. QED
    BY <2>1, <2>2, <2>3 DEF RefreshAtHead, AtHead
<1>2. CASE Start
  BY <1>2, ReconcileType DEF Start, RefreshAtHead, AtHead
<1>3. CASE WatcherEvent
  <2>1. /\ unseen' \in BOOLEAN /\ coalesce' \in BOOLEAN
        /\ UNCHANGED <<disk, mode, listening, opened, closed, poll, witnessed>>
        /\ UNCHANGED <<status, run, scheduler>>
    BY <1>3 DEF WatcherEvent
  <2>. QED
    BY <2>1 DEF RefreshAtHead, AtHead
<1>4. CASE WatcherError
  BY <1>4 DEF WatcherError, RefreshAtHead, AtHead
<1>5. CASE CoalesceFires
  BY <1>5, ReconcileType DEF CoalesceFires, RefreshAtHead, AtHead
<1>6. CASE PollFires
  BY <1>6, ReconcileType DEF PollFires, RefreshAtHead, AtHead
<1>7. CASE Close
  BY <1>7 DEF Close, RefreshAtHead, AtHead
<1>8. ASSUME NEW f \in Files, ReadFile(f) PROVE TypeInv'
  <2>1. /\ [captured EXCEPT ![f] = disk[f]] \in Manifests
        /\ [verified EXCEPT ![f] = disk[f]] \in Manifests
    BY ReadType
  <2>. QED
    BY <1>8, <2>1 DEF ReadFile, RefreshAtHead, AtHead
<1>9. CASE ReadFails
  BY <1>9, EndRunType DEF ReadFails, GiveUp, None
<1>10. CASE ReuseCurrent
  BY <1>10, EndRunType DEF ReuseCurrent, GiveUp, None
<1>11. CASE Analyze
  BY <1>11 DEF Analyze, ReserveIfNone, Reserve, RefreshAtHead, AtHead
<1>12. CASE Publish
  BY <1>12, EndRunType DEF Publish, GiveUp, None
<1>13. CASE Mismatch
  <2>1. CASE attempt < MaxAttempts
    <3>1. attempt + 1 \in 0..MaxAttempts
      BY <2>1, FreshnessAssumption DEF FreshnessAssumption
    <3>. QED
      BY <1>13, <2>1, <3>1, UnreadType
      DEF Mismatch, Reserve, BeginAttempt, None, RefreshAtHead, AtHead
  <2>2. CASE ~ (attempt < MaxAttempts)
    <3>1. EndRun /\ GiveUp("degraded") /\ next' = next + 1
          /\ UNCHANGED <<current, manifest>>
      BY <1>13, <2>2 DEF Mismatch
    <3>2. next' \in Nat \ {0}
      BY <3>1
    <3>3. /\ pending' \in Nat /\ forced' \in BOOLEAN
          /\ state' = "degraded" /\ current' = current
          /\ manifest' = manifest
      BY <3>1 DEF GiveUp, None
    <3>. QED
      BY <3>1, <3>2, <3>3, EndRunType
  <2>. QED
    BY <2>1, <2>2
<1>14. CASE RequestAccept \/ RequestRefresh
  <2>1. PICK kind \in {"accept", "refresh"} : Request(kind)
    BY <1>14 DEF RequestAccept, RequestRefresh
  <2>2. requested' \in Nat /\ kind \in Operations
    BY <2>1 DEF Request, Operations
  <2>3. /\ tail' \in Seq(Operations)
        /\ RefreshAtHead'
    BY <2>1, <2>2, AppendType DEF Request, RefreshAtHead, AtHead
  <2>. QED
    BY <2>1, <2>2, <2>3 DEF Request
<1>15. CASE JoinRefresh
  BY <1>15 DEF JoinRefresh, RefreshAtHead, AtHead
<1>16. CASE Accept
  <2>1. phase = "idle" /\ tail # <<>>
    BY <1>16 DEF Accept, AtHead, RefreshAtHead
  <2>. QED
    BY <1>16, <2>1, TailType DEF Accept, RefreshAtHead
<1>17. CASE BeginRefresh
  BY <1>17 DEF BeginRefresh, ReserveIfNone, Reserve, RefreshAtHead, AtHead
<1>18. CASE RefreshRebuilt
  BY <1>18, ReconcileType DEF RefreshRebuilt, RefreshAtHead, AtHead
<1>19. CASE RebuildFails
  <2>1. tail # <<>>
    BY <1>19 DEF RebuildFails, RefreshAtHead, AtHead
  <2>. QED
    BY <1>19, <2>1, TailType DEF RebuildFails, GiveUp, None, RefreshAtHead
<1>20. CASE UNCHANGED vars
  BY <1>20 DEF vars, RefreshAtHead, AtHead
<1>. QED
  BY <1>1, <1>2, <1>3, <1>4, <1>5, <1>6, <1>7, <1>8, <1>9, <1>10, <1>11,
     <1>12, <1>13, <1>14, <1>15, <1>16, <1>17, <1>18, <1>19, <1>20
  DEF Next, Running, Serving

(* Every variable of the freshness runtime, its timers and its scheduler   *)
(* keeps its type.                                                         *)
THEOREM TypeCorrect == Spec => []TypeOK
<1>1. TypeInv => TypeOK
  BY DEF TypeInv
<1>. QED
  BY <1>1, TypeInit, TypeStep, PTL DEF Spec

-----------------------------------------------------------------------------
(* The status.                                                             *)

(* What a step must preserve, its types apart.                             *)
StatusKept == StatusTruthful /\ current < next /\ analyzed < next

(* Asking for a reconciliation leaves one at work.                         *)
LEMMA ReconcileStatus ==
  ASSUME StatusInv, Reconcile
  PROVE  StatusKept' /\ runAt' # "none"
<1>1. CASE runAt # "none"
  BY <1>1
  DEF Reconcile, StatusInv, StatusKept, StatusTruthful, status, run
<1>2. CASE runAt = "none"
  <2>1. ReserveIfNone /\ BeginAttempt(1) /\ current' = current
    BY <1>2 DEF Reconcile
  <2>2. runAt' = "capture" /\ analyzed' = 0
    BY <2>1 DEF BeginAttempt, None
  <2>3. CASE pending = None
    BY <2>1, <2>2, <2>3
    DEF ReserveIfNone, Reserve, StatusInv, TypeInv, TypeOK, StatusKept,
        StatusTruthful, None
  <2>4. CASE pending # None
    BY <2>1, <2>2, <2>4
    DEF ReserveIfNone, StatusInv, TypeInv, TypeOK, StatusKept,
        StatusTruthful, None
  <2>. QED
    BY <2>3, <2>4, <2>2
<1>. QED
  BY <1>1, <1>2

(* Giving up a pending generation leaves nothing to tell.                  *)
LEMMA GiveUpStatus ==
  ASSUME NEW reason, reason # "refreshing", GiveUp(reason),
         current' < next', analyzed' < next'
  PROVE  StatusKept'
BY DEF GiveUp, StatusKept, StatusTruthful, None

(* The end of a reconciliation forgets what it analysed.                   *)
LEMMA EndRunForgets ==
  ASSUME StatusInv, EndRun, next' \in {next, next + 1}
  PROVE  analyzed' < next'
BY DEF EndRun, StatusInv, TypeInv, TypeOK, None

(* The status is truthful at the start.                                    *)
LEMMA StatusInit == Init => StatusInv
BY TypeInit DEF Init, StatusInv, StatusTruthful, None

(* Every step keeps the status truthful.                                   *)
LEMMA StatusStep == StatusInv /\ [Next]_vars => StatusInv'
<1> SUFFICES ASSUME StatusInv, [Next]_vars PROVE StatusKept'
  BY TypeStep DEF StatusInv, StatusKept
<1> USE DEF workspace, timers, status, run, scheduler
<1>1. ASSUME NEW f \in Files, Save(f) PROVE StatusKept'
  BY <1>1 DEF Save, StatusInv, StatusKept, StatusTruthful
<1>2. CASE Start
  BY <1>2, ReconcileStatus DEF Start
<1>3. CASE WatcherEvent \/ WatcherError \/ Close
  BY <1>3
  DEF WatcherEvent, WatcherError, Close, StatusInv, StatusKept, StatusTruthful
<1>4. CASE CoalesceFires \/ PollFires
  BY <1>4, ReconcileStatus DEF CoalesceFires, PollFires
<1>5. ASSUME NEW f \in Files, ReadFile(f) PROVE StatusKept'
  BY <1>5 DEF ReadFile, StatusInv, StatusKept, StatusTruthful
<1>6. CASE ReadFails \/ ReuseCurrent
  BY <1>6, EndRunForgets, GiveUpStatus
  DEF ReadFails, ReuseCurrent, StatusInv
<1>7. CASE Analyze
  BY <1>7
  DEF Analyze, ReserveIfNone, Reserve, StatusInv, TypeInv, TypeOK, StatusKept,
      StatusTruthful, None
<1>8. CASE Publish
  <2>1. GiveUp("ready") /\ current' = analyzed /\ next' = next /\ EndRun
    BY <1>8 DEF Publish
  <2>. QED
    BY <2>1, EndRunForgets, GiveUpStatus DEF StatusInv
<1>9. CASE Mismatch
  <2>1. CASE attempt < MaxAttempts
    BY <1>9, <2>1
    DEF Mismatch, Reserve, BeginAttempt, StatusInv, TypeInv, TypeOK,
        StatusKept, StatusTruthful, None
  <2>2. CASE ~ (attempt < MaxAttempts)
    <3>1. /\ GiveUp("degraded") /\ EndRun
          /\ current' = current /\ next' = next + 1
      BY <1>9, <2>2 DEF Mismatch
    <3>2. current' < next'
      BY <3>1 DEF StatusInv, TypeInv, TypeOK
    <3>. QED
      BY <3>1, <3>2, EndRunForgets, GiveUpStatus
  <2>. QED
    BY <2>1, <2>2
<1>10. CASE RequestAccept \/ RequestRefresh \/ JoinRefresh \/ Accept
  BY <1>10
  DEF RequestAccept, RequestRefresh, Request, JoinRefresh, Accept, StatusInv,
      StatusKept, StatusTruthful
<1>11. CASE BeginRefresh
  BY <1>11
  DEF BeginRefresh, ReserveIfNone, Reserve, StatusInv, TypeInv, TypeOK,
      StatusKept, StatusTruthful, None
<1>12. CASE RefreshRebuilt
  BY <1>12, ReconcileStatus DEF RefreshRebuilt, StatusKept, StatusTruthful
<1>13. CASE RebuildFails
  BY <1>13, GiveUpStatus DEF RebuildFails, StatusInv
<1>14. CASE UNCHANGED vars
  BY <1>14 DEF vars, StatusInv, StatusKept, StatusTruthful
<1>. QED
  BY <1>1, <1>2, <1>3, <1>4, <1>5, <1>6, <1>7, <1>8, <1>9, <1>10, <1>11,
     <1>12, <1>13, <1>14
  DEF Next, Running, Serving

(* The status says refreshing exactly while a generation is pending and    *)
(* somebody works on it, whatever reconciliations, refreshes, failures and *)
(* polls meet (FreshnessRuntime, reconcileWorkspace, failRefresh).         *)
THEOREM StatusStaysTruthful == Spec => []StatusTruthful
<1>1. StatusInv => StatusTruthful
  BY DEF StatusInv
<1>. QED
  BY <1>1, StatusInit, StatusStep, PTL DEF Spec

-----------------------------------------------------------------------------
(* What a reconciliation reads.                                            *)

(* What a step must preserve, its types apart.                             *)
ReadsKept ==
  /\ Below(manifest, disk) /\ Below(captured, disk) /\ Below(verified, disk)
  /\ runAt = "none" => witnessed = {}
  /\ runAt # "none" => disk \in witnessed
  /\ runAt = "capture" => CaptureSpans
  /\ runAt = "verify" => VerifySpans

(* Order on manifests.                                                     *)
LEMMA BelowOrder ==
  ASSUME NEW a \in Manifests, NEW b \in Manifests
  PROVE  /\ Below(a, a)
         /\ Below(Unread, a)
         /\ Below(a, b) /\ Below(b, a) => a = b
         /\ \A c \in Manifests : Below(a, b) /\ Below(b, c) => Below(a, c)
<1>1. /\ \A f \in Files : a[f] \in Nat /\ b[f] \in Nat
      /\ \A c \in Manifests : \A f \in Files : c[f] \in Nat
  BY DEF Manifests
<1>2. Below(a, b) /\ Below(b, a) => a = b
  <2> SUFFICES ASSUME Below(a, b), Below(b, a) PROVE a = b
    OBVIOUS
  <2>1. \A f \in Files : a[f] = b[f]
    BY <1>1 DEF Below
  <2>. QED
    BY <2>1 DEF Manifests
<1>. QED
  BY <1>1, <1>2 DEF Below, Unread

(* A reconciliation that begins captures from the workspace as it is.      *)
LEMMA BeginReads ==
  ASSUME TypeOK, Below(manifest, disk), UNCHANGED <<disk, manifest>>,
         NEW n, BeginAttempt(n), disk \in witnessed'
  PROVE  ReadsKept'
<1>1. /\ runAt' = "capture" /\ todo' = Files
      /\ captured' = Unread /\ verified' = Unread
  BY DEF BeginAttempt
<1>2. Below(Unread, disk) /\ Below(disk, disk)
  BY BelowOrder DEF TypeOK
<1>3. CaptureSpans'
  BY <1>1, <1>2 DEF CaptureSpans, Below
<1>4. Below(manifest, disk)'
  BY DEF Below
<1>5. Below(captured, disk)' /\ Below(verified, disk)'
  BY <1>1, <1>2 DEF Below
<1>. QED
  BY <1>1, <1>3, <1>4, <1>5 DEF ReadsKept

(* The end of a reconciliation forgets what it read.                       *)
LEMMA EndReads ==
  ASSUME TypeOK, EndRun, Below(manifest', disk)
  PROVE  ReadsKept'
<1>1. /\ runAt' = "none" /\ witnessed' = {} /\ disk' = disk
      /\ captured' = Unread /\ verified' = Unread
  BY DEF EndRun, workspace
<1>2. Below(Unread, disk)
  BY BelowOrder DEF TypeOK
<1>3. Below(manifest, disk)' /\ Below(captured, disk)' /\ Below(verified, disk)'
  BY <1>1, <1>2 DEF Below
<1>. QED
  BY <1>1, <1>3 DEF ReadsKept

(* Steps that leave the workspace and the reconciliation alone.            *)
LEMMA SameReads ==
  ASSUME ReadsInv, UNCHANGED <<disk, manifest, run, witnessed>>
  PROVE  ReadsKept'
BY DEF ReadsInv, ReadsKept, Below, CaptureSpans, VerifySpans, run

(* Asking for a reconciliation joins the one at work or begins one.        *)
LEMMA ReconcileReads ==
  ASSUME ReadsInv, Reconcile, disk' = disk
  PROVE  ReadsKept'
<1>1. CASE runAt # "none"
  BY <1>1, SameReads DEF Reconcile, status, run
<1>2. CASE runAt = "none"
  BY <1>2, BeginReads DEF Reconcile, ReadsInv
<1>. QED
  BY <1>1, <1>2

(* A save makes the workspace newer than everything read before it.        *)
LEMMA SaveReads ==
  ASSUME ReadsInv, NEW f \in Files, Save(f)
  PROVE  ReadsKept'
<1>1. /\ disk' = [disk EXCEPT ![f] = @ + 1]
      /\ witnessed' = IF runAt = "none" THEN {} ELSE witnessed \union {disk'}
      /\ UNCHANGED <<manifest, runAt, todo, captured, verified>>
  BY DEF Save, status, run
<1>2. /\ disk \in Manifests /\ disk' \in Manifests /\ Below(disk, disk')
      /\ manifest \in Manifests /\ captured \in Manifests
      /\ verified \in Manifests /\ witnessed \subseteq Manifests
  BY <1>1 DEF ReadsInv, TypeOK, Manifests, Below
<1>3. \A m \in Manifests : Below(m, disk) => Below(m, disk')
  BY <1>2, BelowOrder
<1>4. Below(manifest, disk)' /\ Below(captured, disk)' /\ Below(verified, disk)'
  BY <1>1, <1>2, <1>3 DEF ReadsInv, Below
<1>5. ASSUME runAt = "capture" PROVE CaptureSpans'
  <2>1. PICK w \in witnessed :
             /\ Below(manifest, w) /\ Below(w, disk)
             /\ \A g \in Files \ todo : w[g] <= captured[g]
    BY <1>5 DEF ReadsInv, CaptureSpans
  <2>2. w \in witnessed' /\ Below(w, disk')
    BY <1>1, <1>2, <1>3, <1>5, <2>1
  <2>. QED
    BY <1>1, <2>1, <2>2 DEF CaptureSpans, Below
<1>6. ASSUME runAt = "verify" PROVE VerifySpans'
  <2>1. PICK w \in witnessed :
             /\ Below(captured, w) /\ Below(w, disk)
             /\ \A g \in Files \ todo : w[g] <= verified[g]
    BY <1>6 DEF ReadsInv, VerifySpans
  <2>2. w \in witnessed' /\ Below(w, disk')
    BY <1>1, <1>2, <1>3, <1>6, <2>1
  <2>. QED
    BY <1>1, <2>1, <2>2 DEF VerifySpans, Below
<1>. QED
  BY <1>1, <1>4, <1>5, <1>6 DEF ReadsKept

(* What is read of a file is as new as the workspace the span began with.  *)
LEMMA ReadFileReads ==
  ASSUME ReadsInv, NEW f \in Files, ReadFile(f)
  PROVE  ReadsKept'
<1>1. /\ f \in todo /\ todo' = todo \ {f} /\ runAt \in {"capture", "verify"}
      /\ UNCHANGED <<disk, manifest, runAt, witnessed>>
  BY DEF ReadFile, workspace, status, ReadsInv, TypeOK
<1>2. /\ disk \in Manifests /\ captured \in Manifests
      /\ verified \in Manifests /\ witnessed \subseteq Manifests
  BY DEF ReadsInv, TypeOK
<1>3. Below(manifest, disk) /\ Below(captured, disk) /\ Below(verified, disk)
  BY DEF ReadsInv
<1>4. CASE runAt = "capture"
  <2>1. captured' = [captured EXCEPT ![f] = disk[f]] /\ verified' = verified
    BY <1>4 DEF ReadFile
  <2>2. Below(captured', disk)
    BY <1>2, <1>3, <2>1 DEF Below, Manifests
  <2>3. PICK w \in witnessed :
             /\ Below(manifest, w) /\ Below(w, disk)
             /\ \A g \in Files \ todo : w[g] <= captured[g]
    BY <1>4 DEF ReadsInv, CaptureSpans
  <2>4. \A g \in Files \ todo' : w[g] <= captured'[g]
    BY <1>1, <1>2, <2>1, <2>3 DEF Below, Manifests
  <2>5. CaptureSpans'
    BY <1>1, <2>3, <2>4 DEF CaptureSpans, Below
  <2>. QED
    BY <1>1, <1>3, <1>4, <2>1, <2>2, <2>5 DEF ReadsKept, ReadsInv, Below
<1>5. CASE runAt = "verify"
  <2>1. verified' = [verified EXCEPT ![f] = disk[f]] /\ captured' = captured
    BY <1>5 DEF ReadFile
  <2>2. Below(verified', disk)
    BY <1>2, <1>3, <2>1 DEF Below, Manifests
  <2>3. PICK w \in witnessed :
             /\ Below(captured, w) /\ Below(w, disk)
             /\ \A g \in Files \ todo : w[g] <= verified[g]
    BY <1>5 DEF ReadsInv, VerifySpans
  <2>4. \A g \in Files \ todo' : w[g] <= verified'[g]
    BY <1>1, <1>2, <2>1, <2>3 DEF Below, Manifests
  <2>5. VerifySpans'
    BY <1>1, <2>1, <2>3, <2>4 DEF VerifySpans, Below
  <2>. QED
    BY <1>1, <1>3, <1>5, <2>1, <2>2, <2>5 DEF ReadsKept, ReadsInv, Below
<1>. QED
  BY <1>1, <1>4, <1>5

(* A capture that is complete lies between the manifest of the current     *)
(* generation and the workspace.                                           *)
LEMMA AnalyzeReads ==
  ASSUME ReadsInv, Analyze
  PROVE  ReadsKept'
<1>1. /\ runAt = "capture" /\ runAt' = "verify" /\ todo' = Files
      /\ UNCHANGED <<disk, manifest, captured, verified, witnessed>>
  BY DEF Analyze, workspace
<1>2. /\ disk \in witnessed /\ Below(captured, disk) /\ Below(disk, disk)
      /\ Below(manifest, disk) /\ Below(verified, disk)
  BY <1>1, BelowOrder DEF ReadsInv, TypeOK
<1>3. VerifySpans'
  BY <1>1, <1>2 DEF VerifySpans, Below
<1>. QED
  BY <1>1, <1>2, <1>3 DEF ReadsKept, Below

(* The reads invariant holds at the start.                                 *)
LEMMA ReadsInit == Init => ReadsInv
<1> SUFFICES ASSUME Init PROVE ReadsInv
  OBVIOUS
<1>1. /\ TypeOK /\ runAt = "none" /\ witnessed = {}
      /\ manifest = Unread /\ captured = Unread /\ verified = Unread
  BY TypeInit DEF Init, TypeInv
<1>2. Below(Unread, disk)
  BY <1>1, BelowOrder DEF TypeOK
<1>. QED
  BY <1>1, <1>2 DEF ReadsInv

(* Every step keeps the reads invariant.                                   *)
LEMMA ReadsStep == TypeInv /\ ReadsInv /\ [Next]_vars => ReadsInv'
<1> SUFFICES ASSUME TypeInv, ReadsInv, [Next]_vars PROVE ReadsKept'
  BY TypeStep DEF TypeInv, ReadsInv, ReadsKept
<1>1. ASSUME NEW f \in Files, Save(f) PROVE ReadsKept'
  BY <1>1, SaveReads
<1>2. CASE Start \/ CoalesceFires \/ PollFires \/ RefreshRebuilt
  BY <1>2, ReconcileReads
  DEF Start, CoalesceFires, PollFires, RefreshRebuilt, workspace
<1>3. CASE WatcherEvent \/ WatcherError \/ Close
  BY <1>3, SameReads DEF WatcherEvent, WatcherError, Close, status, workspace
<1>4. ASSUME NEW f \in Files, ReadFile(f) PROVE ReadsKept'
  BY <1>4, ReadFileReads
<1>5. CASE ReadFails \/ ReuseCurrent
  <2>1. EndRun /\ Below(manifest', disk)
    BY <1>5 DEF ReadFails, ReuseCurrent, ReadsInv
  <2>. QED
    BY <2>1, EndReads DEF ReadsInv
<1>6. CASE Analyze
  BY <1>6, AnalyzeReads
<1>7. CASE Publish
  <2>1. EndRun /\ Below(manifest', disk)
    BY <1>7 DEF Publish, ReadsInv
  <2>. QED
    BY <2>1, EndReads DEF ReadsInv
<1>8. CASE Mismatch
  <2>1. CASE attempt < MaxAttempts
    <3>1. /\ BeginAttempt(attempt + 1) /\ runAt = "verify"
          /\ UNCHANGED <<disk, manifest, witnessed>>
      BY <1>8, <2>1 DEF Mismatch, workspace
    <3>. QED
      BY <3>1, BeginReads DEF ReadsInv
  <2>2. CASE ~ (attempt < MaxAttempts)
    <3>1. EndRun /\ Below(manifest', disk)
      BY <1>8, <2>2 DEF Mismatch, ReadsInv
    <3>. QED
      BY <3>1, EndReads DEF ReadsInv
  <2>. QED
    BY <2>1, <2>2
<1>9. CASE RequestAccept \/ RequestRefresh \/ JoinRefresh \/ Accept
  BY <1>9, SameReads
  DEF RequestAccept, RequestRefresh, Request, JoinRefresh, Accept, status,
      workspace
<1>10. CASE BeginRefresh \/ RebuildFails
  BY <1>10, SameReads DEF BeginRefresh, RebuildFails, workspace
<1>11. CASE UNCHANGED vars
  BY <1>11, SameReads DEF vars, status, workspace
<1>. QED
  BY <1>1, <1>2, <1>3, <1>4, <1>5, <1>6, <1>7, <1>8, <1>9, <1>10, <1>11
  DEF Next, Running, Serving

(* What two equal readings of the workspace agree on it once contained.    *)
LEMMA PublishedWasReal ==
  ASSUME ReadsInv, Publish
  PROVE  manifest' \in witnessed
<1>1. /\ runAt = "verify" /\ todo = {} /\ captured = verified
      /\ manifest' = verified
  BY DEF Publish, CanPublish
<1>2. PICK w \in witnessed :
           /\ Below(captured, w)
           /\ \A f \in Files \ todo : w[f] <= verified[f]
  BY <1>1 DEF ReadsInv, VerifySpans
<1>3. Below(w, captured) /\ w \in Manifests /\ captured \in Manifests
  BY <1>1, <1>2 DEF Below, ReadsInv, TypeOK
<1>4. w = captured
  BY <1>2, <1>3, BelowOrder
<1>. QED
  BY <1>1, <1>2, <1>4

(* A current manifest that was captured again was never left.              *)
LEMMA ReusedWasReal ==
  ASSUME ReadsInv, ReuseCurrent
  PROVE  manifest' \in witnessed
<1>1. /\ runAt = "capture" /\ todo = {} /\ manifest = captured
      /\ manifest' = manifest
  BY DEF ReuseCurrent, CanReuse
<1>2. PICK w \in witnessed :
           /\ Below(manifest, w)
           /\ \A f \in Files \ todo : w[f] <= captured[f]
  BY <1>1 DEF ReadsInv, CaptureSpans
<1>3. Below(w, manifest) /\ w \in Manifests /\ manifest \in Manifests
  BY <1>1, <1>2 DEF Below, ReadsInv, TypeOK
<1>4. w = manifest
  BY <1>2, <1>3, BelowOrder
<1>. QED
  BY <1>1, <1>2, <1>4

-----------------------------------------------------------------------------
(* What readers are promised.                                              *)

(* How a step relates to the reconciliation in flight.                     *)
Joins == UNCHANGED <<disk, witnessed, runAt, current, manifest>>

Begins ==
  /\ runAt = "none" /\ runAt' # "none" /\ witnessed' = {disk}
  /\ UNCHANGED <<disk, current, manifest>>

Continues ==
  /\ runAt # "none" /\ runAt' # "none"
  /\ UNCHANGED <<disk, witnessed, current, manifest>>

Ends ==
  /\ runAt # "none" /\ runAt' = "none" /\ witnessed' = {}
  /\ disk' = disk
  /\ \/ state' = "degraded" /\ UNCHANGED <<current, manifest>>
     \/ ReuseCurrent /\ UNCHANGED <<current, manifest>>
     \/ Publish

(* Asking for a reconciliation joins one or begins one.                    *)
LEMMA ReconcileWorks ==
  ASSUME Reconcile, disk' = disk
  PROVE  Joins \/ Begins
BY DEF Reconcile, BeginAttempt, Joins, Begins, status, run

(* A step saves a file, or joins, begins, continues or ends a              *)
(* reconciliation.                                                         *)
LEMMA StepsOfWork ==
  ASSUME [Next]_vars
  PROVE  (\E f \in Files : Save(f)) \/ Joins \/ Begins \/ Continues \/ Ends
<1> DEFINE Goal == (\E f \in Files : Save(f)) \/ Joins \/ Begins \/ Continues
                   \/ Ends
<1>1. ASSUME NEW f \in Files, Save(f) PROVE Goal
  BY <1>1
<1>2. CASE Start \/ CoalesceFires \/ PollFires \/ RefreshRebuilt
  BY <1>2, ReconcileWorks
  DEF Start, CoalesceFires, PollFires, RefreshRebuilt, workspace
<1>3. CASE WatcherEvent \/ WatcherError \/ Close
  BY <1>3
  DEF WatcherEvent, WatcherError, Close, Joins, status, run, workspace
<1>4. ASSUME NEW f \in Files, ReadFile(f) PROVE Goal
  BY <1>4 DEF ReadFile, Joins, workspace, status
<1>5. CASE ReadFails \/ ReuseCurrent
  BY <1>5 DEF ReadFails, ReuseCurrent, EndRun, GiveUp, Ends, workspace
<1>6. CASE Analyze
  BY <1>6 DEF Analyze, Continues, workspace
<1>7. CASE Publish
  BY <1>7 DEF Publish, EndRun, Ends, workspace
<1>8. CASE Mismatch
  <2>1. CASE attempt < MaxAttempts
    BY <1>8, <2>1 DEF Mismatch, BeginAttempt, Continues, workspace
  <2>2. CASE ~ (attempt < MaxAttempts)
    BY <1>8, <2>2 DEF Mismatch, EndRun, GiveUp, Ends, workspace
  <2>. QED
    BY <2>1, <2>2
<1>9. CASE RequestAccept \/ RequestRefresh \/ JoinRefresh \/ Accept
  BY <1>9
  DEF RequestAccept, RequestRefresh, Request, JoinRefresh, Accept, Joins,
      status, run, workspace
<1>10. CASE BeginRefresh \/ RebuildFails
  BY <1>10 DEF BeginRefresh, RebuildFails, Joins, run, workspace
<1>11. CASE UNCHANGED vars
  BY <1>11 DEF vars, Joins, status, run, workspace
<1>. QED
  BY <1>1, <1>2, <1>3, <1>4, <1>5, <1>6, <1>7, <1>8, <1>9, <1>10, <1>11
  DEF Next, Running, Serving

(* A reconciliation that leaves the status ready leaves a manifest that    *)
(* was the whole content of the workspace while it ran, for any number of  *)
(* files saved in any order between its reads (analyzeAndPublish,          *)
(* readyCurrent).                                                          *)
THEOREM ReadyManifestsAreReal == Spec => ReadyIsReal
<1> DEFINE Real == (runAt # "none" /\ runAt' = "none" /\ state' = "ready")
                     => manifest' \in witnessed
<1>1. Init => TypeInv /\ ReadsInv
  BY TypeInit, ReadsInit
<1>2. TypeInv /\ ReadsInv /\ [Next]_vars => (TypeInv /\ ReadsInv)'
  BY TypeStep, ReadsStep
<1>3. TypeInv /\ ReadsInv /\ [Next]_vars => [Real]_vars
  <2> SUFFICES ASSUME ReadsInv, [Next]_vars,
                      runAt # "none", runAt' = "none", state' = "ready"
               PROVE  manifest' \in witnessed
    OBVIOUS
  <2>1. ~ Joins /\ ~ Begins /\ ~ Continues
    BY DEF Joins, Begins, Continues
  <2>2. ASSUME NEW f \in Files PROVE ~ Save(f)
    BY <2>2 DEF Save, run
  <2>3. ReuseCurrent \/ Publish
    BY <2>1, <2>2, StepsOfWork DEF Ends
  <2>. QED
    BY <2>3, ReusedWasReal, PublishedWasReal
<1>. QED
  BY <1>1, <1>2, <1>3, PTL DEF Spec, ReadyIsReal

(* The initial states of the code are those of the promise.                *)
LEMMA TimelineInit == Init => Promise!Init
BY DEF Init, Promise!Init, Unread

(* Every step of the code is a step of the promise or changes nothing of   *)
(* what it speaks of.                                                      *)
LEMMA TimelineStep ==
  ReadsInv /\ [Next]_vars => [Promise!Next]_(Promise!timeline)
<1> SUFFICES ASSUME ReadsInv, [Next]_vars
             PROVE  Promise!Next \/ UNCHANGED Promise!timeline
  OBVIOUS
<1>1. ASSUME NEW f \in Files, Save(f) PROVE Promise!Save
  <2>1. /\ disk' = [disk EXCEPT ![f] = @ + 1]
        /\ witnessed' = IF runAt = "none" THEN {} ELSE witnessed \union {disk'}
        /\ UNCHANGED <<current, manifest, runAt>>
    BY <1>1 DEF Save, status, run
  <2>2. witnessed' = IF runAt # "none" THEN witnessed \union {disk'}
                     ELSE witnessed
    BY <2>1 DEF ReadsInv
  <2>. QED
    BY <2>1, <2>2 DEF Promise!Save
<1>2. CASE Joins \/ Continues
  BY <1>2 DEF Joins, Continues, Promise!timeline
<1>3. CASE Begins
  BY <1>3 DEF Begins, Promise!Next, Promise!Begin
<1>4. CASE Ends
  <2>1. CASE Publish
    <3>1. /\ current' = analyzed /\ analyzed > current /\ analyzed \in Nat
          /\ manifest' \in witnessed
      BY <2>1, PublishedWasReal DEF Publish, CanPublish, ReadsInv, TypeOK
    <3>. QED
      BY <1>4, <3>1 DEF Ends, Promise!Next, Promise!Publish
  <2>2. CASE UNCHANGED <<current, manifest>>
    BY <1>4, <2>2 DEF Ends, Promise!Next, Promise!GiveUp
  <2>. QED
    BY <1>4, <2>1, <2>2 DEF Ends
<1>. QED
  BY <1>1, <1>2, <1>3, <1>4, StepsOfWork DEF Promise!Next

(* The freshness runtime implements the timeline its readers are promised: *)
(* generations only grow, and each carries a workspace that existed.       *)
THEOREM FreshnessImplementsTimeline == Spec => TimelineKept
<1>1. Init => TypeInv /\ ReadsInv
  BY TypeInit, ReadsInit
<1>2. TypeInv /\ ReadsInv /\ [Next]_vars => (TypeInv /\ ReadsInv)'
  BY TypeStep, ReadsStep
<1>. QED
  BY <1>1, <1>2, TimelineInit, TimelineStep, PTL
  DEF Spec, TimelineKept, Promise!Spec

-----------------------------------------------------------------------------
(* Closing.                                                                *)

(* A closed server polls no more, and only a watcher that is open, which   *)
(* start() has created after close(), has events and arms the other timer. *)
ClosedInv ==
  /\ closed => poll # "armed" /\ (coalesce => listening)
  /\ unseen => listening

(* No step arms a timer of a closed server but the events of that watcher. *)
LEMMA ClosedStep == TypeInv /\ ClosedInv /\ [Next]_vars => ClosedInv'
<1> SUFFICES ASSUME TypeInv, ClosedInv, [Next]_vars PROVE ClosedInv'
  OBVIOUS
<1> USE DEF ClosedInv, workspace, timers
<1>1. ASSUME NEW f \in Files, Save(f) PROVE ClosedInv'
  BY <1>1 DEF Save
<1>2. CASE Start \/ WatcherEvent \/ WatcherError
  BY <1>2 DEF Start, WatcherEvent, WatcherError
<1>3. CASE CoalesceFires \/ PollFires \/ Close
  BY <1>3 DEF CoalesceFires, PollFires, Close
<1>4. ASSUME NEW f \in Files, ReadFile(f) PROVE ClosedInv'
  BY <1>4 DEF ReadFile
<1>5. ASSUME EndRun PROVE ClosedInv'
  BY <1>5 DEF EndRun, Repolled
<1>6. CASE ReadFails \/ ReuseCurrent \/ Publish
  BY <1>5, <1>6 DEF ReadFails, ReuseCurrent, Publish
<1>7. CASE Analyze
  BY <1>7 DEF Analyze
<1>8. CASE Mismatch
  BY <1>5, <1>8 DEF Mismatch
<1>9. CASE RequestAccept \/ RequestRefresh \/ JoinRefresh \/ Accept
  BY <1>9 DEF RequestAccept, RequestRefresh, Request, JoinRefresh, Accept
<1>10. CASE BeginRefresh \/ RefreshRebuilt \/ RebuildFails
  BY <1>10 DEF BeginRefresh, RefreshRebuilt, RebuildFails
<1>11. CASE UNCHANGED vars
  BY <1>11 DEF vars
<1>. QED
  BY <1>1, <1>2, <1>3, <1>4, <1>6, <1>7, <1>8, <1>9, <1>10, <1>11
  DEF Next, Running, Serving

(* close() ends polling for good, also when it comes during the            *)
(* reconciliation of a poll, and coalescing unless the watcher it arms     *)
(* itself for was created after the close (WorkspaceFreshness.close, start *)
(* and schedule, schedulePolling).                                         *)
THEOREM ClosedStaysQuiet == Spec => []ClosedStopsPolling
<1>1. Init => TypeInv /\ ClosedInv
  BY TypeInit DEF Init, ClosedInv
<1>2. TypeInv /\ ClosedInv /\ [Next]_vars => (TypeInv /\ ClosedInv)'
  BY TypeStep, ClosedStep
<1>3. ClosedInv => ClosedStopsPolling
  BY DEF ClosedInv, ClosedStopsPolling
<1>. QED
  BY <1>1, <1>2, <1>3, PTL DEF Spec

-----------------------------------------------------------------------------
(* Progress: what fairness has to drive.                                   *)

(* Whoever awaits a reconciliation awaits one that is in flight: the       *)
(* refresh at the head of the queue, the poll timer, and start().          *)
WaitersHaveWork ==
  \/ runAt # "none"
  \/ /\ phase # "reconciling" /\ poll # "reconciling"
     /\ opened \/ mode = "unstarted"

(* A reconciliation that is asked for is in flight.                        *)
LEMMA ReconcileInFlight ==
  ASSUME Reconcile PROVE runAt' # "none"
BY DEF Reconcile, BeginAttempt, run

(* No step leaves a waiter without the reconciliation it waits for.        *)
LEMMA WaitersStep == WaitersHaveWork /\ [Next]_vars => WaitersHaveWork'
<1> SUFFICES ASSUME WaitersHaveWork, [Next]_vars PROVE WaitersHaveWork'
  OBVIOUS
<1> USE DEF WaitersHaveWork
<1>1. ASSUME NEW f \in Files, Save(f) PROVE WaitersHaveWork'
  BY <1>1 DEF Save, timers, run, scheduler
<1>2. CASE Start \/ CoalesceFires \/ PollFires \/ RefreshRebuilt
  BY <1>2, ReconcileInFlight DEF Start, CoalesceFires, PollFires, RefreshRebuilt
<1>3. CASE WatcherEvent \/ WatcherError \/ Close
  BY <1>3 DEF WatcherEvent, WatcherError, Close, run, scheduler
<1>4. ASSUME NEW f \in Files, ReadFile(f) PROVE WaitersHaveWork'
  BY <1>4 DEF ReadFile
<1>5. ASSUME EndRun PROVE WaitersHaveWork'
  BY <1>5 DEF EndRun, Repolled
<1>6. CASE ReadFails \/ ReuseCurrent \/ Publish
  BY <1>5, <1>6 DEF ReadFails, ReuseCurrent, Publish
<1>7. CASE Analyze
  BY <1>7 DEF Analyze
<1>8. CASE Mismatch
  BY <1>5, <1>8 DEF Mismatch, BeginAttempt
<1>9. CASE RequestAccept \/ RequestRefresh \/ JoinRefresh \/ Accept
  BY <1>9
  DEF RequestAccept, RequestRefresh, Request, JoinRefresh, Accept, timers, run
<1>10. CASE BeginRefresh \/ RebuildFails
  BY <1>10 DEF BeginRefresh, RebuildFails, timers, run
<1>11. CASE UNCHANGED vars
  BY <1>11 DEF vars, timers, run, scheduler
<1>. QED
  BY <1>1, <1>2, <1>3, <1>4, <1>6, <1>7, <1>8, <1>9, <1>10, <1>11
  DEF Next, Running, Serving

(* A refresh, a poll and start() never wait for a reconciliation that is   *)
(* not there, whichever of them began it and whatever ended it             *)
(* (WorkspaceFreshness.reconcile, which shares the promise in flight).     *)
THEOREM WaitersAreServed == Spec => []WaitersHaveWork
<1>1. Init => WaitersHaveWork
  BY DEF Init, WaitersHaveWork
<1>. QED
  BY <1>1, WaitersStep, PTL DEF Spec

(* The reconciliation has less left to do: it is in a later attempt, or in *)
(* the later phase of its attempt, or has a file less to read.  There are  *)
(* at most MaxAttempts attempts, of two phases over finitely many files.   *)
NearerItsDecision ==
  \/ attempt < attempt' /\ attempt' <= MaxAttempts
  \/ attempt' = attempt /\ runAt = "capture" /\ runAt' = "verify"
  \/ /\ UNCHANGED <<attempt, runAt>>
     /\ \E f \in todo : todo' = todo \ {f}

(* What a step may do to the reconciliation in flight.                     *)
GoesOn ==
  /\ Running => runAt' = "none" \/ NearerItsDecision
  /\ runAt # "none" =>
       runAt' = "none" \/ NearerItsDecision \/ UNCHANGED <<runAt, attempt, todo>>

(* However often files are saved and whoever else asks for one meanwhile,  *)
(* a reconciliation ends: no step takes it back, and each step of its own  *)
(* brings it nearer to publishing or giving up (analyzeAndPublish stops at *)
(* its last attempt).  This is what EveryRequestServed needs of the work.  *)
THEOREM ReconciliationsEnd == Spec => [][GoesOn]_vars
<1>1. TypeInv /\ [Next]_vars => [GoesOn]_vars
  <2> SUFFICES ASSUME TypeInv, [Next]_vars PROVE GoesOn \/ UNCHANGED vars
    OBVIOUS
  <2> DEFINE Moves == runAt' = "none" \/ NearerItsDecision
             Left == runAt = "none" \/ UNCHANGED <<runAt, attempt, todo>>
  <2>1. ASSUME Moves PROVE GoesOn
    BY <2>1 DEF GoesOn
  <2>2. ASSUME NEW f \in Files, ReadFile(f) PROVE Moves
    BY <2>2 DEF ReadFile, NearerItsDecision
  <2>3. ASSUME ReadFails \/ ReuseCurrent \/ Publish PROVE Moves
    BY <2>3 DEF ReadFails, ReuseCurrent, Publish, EndRun
  <2>4. ASSUME Analyze PROVE Moves
    BY <2>4 DEF Analyze, NearerItsDecision
  <2>5. ASSUME Mismatch PROVE Moves
    <3>1. CASE attempt < MaxAttempts
      <4>1. attempt' = attempt + 1
        BY <2>5, <3>1 DEF Mismatch, BeginAttempt
      <4>2. attempt \in Nat /\ MaxAttempts \in Nat
        BY FreshnessAssumption DEF FreshnessAssumption, TypeInv, TypeOK
      <4>. QED
        BY <3>1, <4>1, <4>2 DEF NearerItsDecision
    <3>2. CASE ~ (attempt < MaxAttempts)
      BY <2>5, <3>2 DEF Mismatch, EndRun
    <3>. QED
      BY <3>1, <3>2
  <2>6. ASSUME ~ Running, Left PROVE GoesOn
    BY <2>6 DEF GoesOn
  <2>7. CASE Running
    BY <2>1, <2>2, <2>3, <2>4, <2>5, <2>7 DEF Running
  <2>8. CASE ~ Running
    <3>1. ASSUME NEW f \in Files, Save(f) PROVE Left
      BY <3>1 DEF Save, run
    <3>2. ASSUME Start \/ CoalesceFires \/ PollFires \/ RefreshRebuilt PROVE Left
      BY <3>2
      DEF Start, CoalesceFires, PollFires, RefreshRebuilt, Reconcile, run
    <3>3. ASSUME WatcherEvent \/ WatcherError \/ Close PROVE Left
      BY <3>3 DEF WatcherEvent, WatcherError, Close, run
    <3>4. ASSUME RequestAccept \/ RequestRefresh \/ JoinRefresh \/ Accept
          PROVE  Left
      BY <3>4 DEF RequestAccept, RequestRefresh, Request, JoinRefresh, Accept, run
    <3>5. ASSUME BeginRefresh \/ RebuildFails PROVE Left
      BY <3>5 DEF BeginRefresh, RebuildFails, run
    <3>6. CASE ReadFails
      BY <2>1, <2>3, <3>6
    <3>7. CASE Left
      BY <2>6, <2>8, <3>7
    <3>. QED
      BY <2>8, <3>1, <3>2, <3>3, <3>4, <3>5, <3>6, <3>7 DEF Next, Serving
  <2>. QED
    BY <2>7, <2>8
<1>. QED
  BY <1>1, TypeInit, TypeStep, PTL DEF Spec

(* The head of the queue leaves it, or the refresh there has less to await.*)
HeadMoves ==
  \/ tail' = Tail(tail)
  \/ /\ tail' = tail
     /\ \/ phase = "idle" /\ phase' = "working"
        \/ phase = "working" /\ phase' = "reconciling"

(* What a step may do to the queue of the scheduler.                       *)
QueueAdvances ==
  /\ Serving => HeadMoves
  /\ phase = "reconciling" /\ runAt' = "none" => tail' = Tail(tail)
  /\ \/ UNCHANGED <<tail, phase>>
     \/ \E o \in Operations : tail' = Append(tail, o) /\ UNCHANGED phase
     \/ HeadMoves

(* The queue is first in, first out, and nothing sets its head back: every *)
(* step of the scheduler moves it on, and the end of the reconciliation    *)
(* that a refresh awaits answers it (ProjectGenerationScheduler).          *)
THEOREM QueueIsServed == Spec => [][QueueAdvances]_vars
<1>1. WaitersHaveWork /\ [Next]_vars => [QueueAdvances]_vars
  <2> SUFFICES ASSUME WaitersHaveWork, [Next]_vars
               PROVE  QueueAdvances \/ UNCHANGED vars
    OBVIOUS
  <2> DEFINE Stays == UNCHANGED <<tail, phase>>
             Lives == phase = "reconciling" => runAt' # "none"
  <2>1. ASSUME ~ Serving, Stays, Lives PROVE QueueAdvances
    BY <2>1 DEF QueueAdvances
  <2>2. ASSUME ~ Serving, EndRun PROVE QueueAdvances
    BY <2>2 DEF EndRun, QueueAdvances, HeadMoves
  <2>3. ASSUME UNCHANGED runAt PROVE Lives
    BY <2>3 DEF WaitersHaveWork
  <2>4. CASE Serving
    <3>1. CASE Accept \/ RebuildFails
      BY <3>1 DEF Accept, RebuildFails, QueueAdvances, HeadMoves
    <3>2. CASE BeginRefresh \/ RefreshRebuilt
      BY <3>2 DEF BeginRefresh, RefreshRebuilt, QueueAdvances, HeadMoves
    <3>. QED
      BY <2>4, <3>1, <3>2 DEF Serving
  <2>5. CASE ~ Serving
    <3>1. ASSUME NEW f \in Files, Save(f) PROVE Stays /\ UNCHANGED runAt
      BY <3>1 DEF Save, run, scheduler
    <3>2. ASSUME Start \/ CoalesceFires \/ PollFires PROVE Stays /\ Lives
      BY <3>2, ReconcileInFlight DEF Start, CoalesceFires, PollFires, scheduler
    <3>3. ASSUME WatcherEvent \/ WatcherError \/ Close
          PROVE  Stays /\ UNCHANGED runAt
      BY <3>3 DEF WatcherEvent, WatcherError, Close, run, scheduler
    <3>4. ASSUME NEW f \in Files, ReadFile(f) PROVE Stays /\ UNCHANGED runAt
      BY <3>4 DEF ReadFile, scheduler
    <3>5. ASSUME ReadFails \/ ReuseCurrent \/ Publish PROVE EndRun
      BY <3>5 DEF ReadFails, ReuseCurrent, Publish
    <3>6. ASSUME Analyze PROVE Stays /\ Lives
      BY <3>6 DEF Analyze, scheduler
    <3>7. ASSUME Mismatch PROVE EndRun \/ (Stays /\ Lives)
      BY <3>7 DEF Mismatch, BeginAttempt, scheduler
    <3>8. ASSUME NEW o \in Operations, Request(o) PROVE QueueAdvances
      <4>1. tail' = Append(tail, o) /\ UNCHANGED <<phase, runAt>>
        BY <3>8 DEF Request, run
      <4>. QED
        BY <2>3, <2>5, <4>1 DEF QueueAdvances
    <3>9. ASSUME RequestAccept \/ RequestRefresh
          PROVE  \E o \in Operations : Request(o)
      BY <3>9 DEF RequestAccept, RequestRefresh, Operations
    <3>10. ASSUME JoinRefresh PROVE Stays /\ UNCHANGED runAt
      BY <3>10 DEF JoinRefresh, run
    <3>. QED
      BY <2>1, <2>2, <2>3, <2>5, <3>1, <3>2, <3>3, <3>4, <3>5, <3>6, <3>7,
         <3>8, <3>9, <3>10
      DEF Next, Running
  <2>. QED
    BY <2>4, <2>5
<1>. QED
  BY <1>1, WaitersAreServed, PTL DEF Spec
=============================================================================
