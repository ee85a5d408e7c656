--------------------------- MODULE SessionsProof ---------------------------
(* Proofs about Sessions, for every value of its constants.                *)
EXTENDS Sessions, SequenceTheorems, WellFoundedInduction, TLAPS

(* The naturals are well ordered by <.                                     *)
LEMMA NaturalsOrdered ==
  \E R : IsWellFoundedOn(R, Nat) /\ \A a, b \in Nat : a < b => <<a, b>> \in R
<1>1. \A a, b \in Nat : a < b => <<a, b>> \in OpToRel(<, Nat)
  BY DEF OpToRel
<1>. QED
  BY <1>1, NatLessThanWellFounded

(* A nonempty set of naturals has a least element, and Min is it.          *)
LEMMA MinOfNaturals ==
  ASSUME NEW T \in SUBSET Nat, T # {}
  PROVE  Min(T) \in T /\ \A y \in T : Min(T) <= y
<1>1. PICK R : IsWellFoundedOn(R, Nat)
               /\ \A a, b \in Nat : a < b => <<a, b>> \in R
  BY NaturalsOrdered
<1>2. PICK x \in T : \A y \in T : ~ (<<y, x>> \in R)
  <2>1. T \subseteq Nat
    OBVIOUS
  <2>2. IsWellFoundedOn(R, Nat)
    BY <1>1
  <2>. QED
    BY <2>1, <2>2, WFMin, Zenon
<1>3. \A y \in T : ~ (y < x)
  BY <1>1, <1>2
<1>4. \A y \in T : x <= y
  BY <1>3
<1>. QED
  BY <1>4 DEF Min

(* Removing one element of a sequence keeps the others, in order.          *)
LEMMA RemoveAtProperties ==
  ASSUME NEW S, NEW h \in Seq(S), NEW i \in 1..Len(h)
  PROVE  /\ RemoveAt(h, i) \in Seq(S)
         /\ Len(RemoveAt(h, i)) = Len(h) - 1
         /\ \A j \in 1..(Len(h) - 1) :
              RemoveAt(h, i)[j] = IF j < i THEN h[j] ELSE h[j + 1]
<1>1. Len(h) \in Nat /\ \A j \in 1..Len(h) : h[j] \in S
  BY LenProperties, ElementOfSeq
<1> DEFINE a == SubSeq(h, 1, i - 1)
           b == SubSeq(h, i + 1, Len(h))
<1>2. /\ a \in Seq(S)
      /\ Len(a) = i - 1
      /\ \A j \in 1..(i - 1) : a[j] = h[j]
  BY <1>1, SubSeqProperties
<1>3. /\ b \in Seq(S)
      /\ Len(b) = Len(h) - i
      /\ \A j \in 1..(Len(h) - i) : b[j] = h[i + j]
  BY <1>1, SubSeqProperties
<1>4. RemoveAt(h, i) = a \o b
  BY DEF RemoveAt
<1> HIDE DEF a, b
<1>5. /\ a \o b \in Seq(S)
      /\ Len(a \o b) = Len(a) + Len(b)
      /\ \A j \in 1..(Len(a) + Len(b)) :
           (a \o b)[j] = IF j <= Len(a) THEN a[j] ELSE b[j - Len(a)]
  BY <1>2, <1>3, ConcatProperties
<1>6. \A j \in 1..(Len(h) - 1) :
        (a \o b)[j] = IF j < i THEN h[j] ELSE h[j + 1]
  <2> SUFFICES ASSUME NEW j \in 1..(Len(h) - 1)
               PROVE  (a \o b)[j] = IF j < i THEN h[j] ELSE h[j + 1]
    OBVIOUS
  <2>1. (a \o b)[j] = IF j <= Len(a) THEN a[j] ELSE b[j - Len(a)]
    BY <1>1, <1>2, <1>3, <1>5
  <2>2. CASE j < i
    BY <1>1, <1>2, <2>1, <2>2
  <2>3. CASE ~ (j < i)
    <3>1. j - Len(a) \in 1..(Len(h) - i) /\ i + (j - Len(a)) = j + 1
      BY <1>1, <1>2, <2>3
    <3>. QED
      BY <1>1, <1>2, <1>3, <2>1, <2>3, <3>1
  <2>. QED
    BY <2>2, <2>3
<1>. QED
  BY <1>1, <1>2, <1>3, <1>4, <1>5, <1>6

-----------------------------------------------------------------------------
(* Type correctness.                                                       *)

(* A session whose head operation was dispatched has one, an operation     *)
(* that is adding views was dispatched, and a start found an identifier.   *)
Attended ==
  /\ \A s \in SessionIds : running[s] # NotStarted => queue[s] # <<>>
  /\ turn.at \in {"room", "trim"} => running[turn.session] # NotStarted
  /\ turn.at = "start" => started < SessionBound

(* A session retains only views that were minted.                          *)
ViewsMinted == \A s \in SessionIds : session[s].views \subseteq DOMAIN minted

TypeInv == TypeOK /\ Attended /\ ViewsMinted

(* The fields a turn has at each of its steps.                              *)
LEMMA TurnTypes ==
  ASSUME turn \in Turns
  PROVE  /\ turn.at \in {"idle", "start", "close", "execute", "room", "trim"}
         /\ turn.at \in {"start", "close"} => turn.connection \in Connections
         /\ turn.at = "execute" =>
              /\ turn.connection \in Connections /\ turn.session \in SessionIds
              /\ turn.request \in RequestIds /\ turn.call \in Calls
         /\ turn.at \in {"room", "trim"} =>
              /\ turn.session \in SessionIds /\ turn.bytes \in BodySizes
              /\ turn.more \in Nat /\ turn.generation \in Nat
BY DEF Turns

(* Discarding a view of a session leaves a session.                         *)
LEMMA DiscardedType ==
  ASSUME NEW record \in SessionRecords, NEW v \in Nat
  PROVE  Discarded(record, v) \in SessionRecords
BY DEF Discarded, SessionRecords

(* Accepting a request changes nothing of the views of a session.           *)
LEMMA AcceptingType ==
  ASSUME NEW record \in SessionRecords, NEW n \in Nat,
         NEW kept \in SUBSET Entries
  PROVE  LET accepting == [record EXCEPT !.lastAcceptedAt = n,
                                         !.queued = @ + 1,
                                         !.requests = kept]
         IN  /\ accepting \in SessionRecords
             /\ accepting.views = record.views
             /\ accepting.stale = record.stale
             /\ accepting.history = record.history
             /\ accepting.position = record.position
<1>1. record.queued \in Nat /\ record.queued + 1 \in Nat
  BY DEF SessionRecords
<1>. QED
  BY <1>1 DEF SessionRecords

(* A promise chain stays a sequence, and one with work in it.               *)
LEMMA EnqueueType ==
  ASSUME NEW q \in Seq(Nat), NEW n \in Nat
  PROVE  Append(q, n) \in Seq(Nat) /\ Append(q, n) # <<>>
BY AppendProperties

(* The record of an identifier without a session is a session record.       *)
LEMMA NoSessionType == NoSession \in SessionRecords
BY EmptySeq DEF NoSession, SessionRecords

(* The size of a retained view is a natural number.                         *)
LEMMA BytesOfType ==
  ASSUME TypeInv, NEW s \in SessionIds, NEW v
  PROVE  BytesOf(session[s], v) \in Nat
<1>1. CASE v \in session[s].views
  <2>1. v \in 1..Len(minted)
    BY <1>1, LenProperties DEF TypeInv, TypeOK, ViewsMinted
  <2>2. minted[v] \in [session : SessionIds, bytes : BodySizes,
                      generation : Nat, captured : Nat]
    BY <2>1, ElementOfSeq DEF TypeInv, TypeOK
  <2>. QED
    BY <1>1, <2>2, LimitsAssumption DEF BytesOf, LimitsAssumption
<1>2. CASE v \notin session[s].views
  BY <1>2 DEF BytesOf
<1>. QED
  BY <1>1, <1>2

(* Settling the head operation.                                            *)
LEMMA SettleType ==
  ASSUME TypeInv, NEW s \in SessionIds, queue[s] # <<>>, Settle(s)
  PROVE  /\ session' \in [SessionIds -> SessionRecords]
         /\ queuedRequests' \in Int
         /\ queue' \in [SessionIds -> Seq(Nat)]
         /\ running' \in [SessionIds -> Nat \union {NotStarted}]
         /\ \A r \in SessionIds : running'[r] # NotStarted => queue'[r] # <<>>
<1>1. Tail(queue[s]) \in Seq(Nat)
  BY HeadTailProperties DEF TypeInv, TypeOK
<1>2. /\ queue' \in [SessionIds -> Seq(Nat)]
      /\ running' \in [SessionIds -> Nat \union {NotStarted}]
  BY <1>1 DEF TypeInv, TypeOK, Settle
<1>3. /\ session' \in [SessionIds -> SessionRecords]
      /\ queuedRequests' \in Int
  <2>1. session[s] \in SessionRecords /\ session[s].queued \in Nat
    BY DEF TypeInv, TypeOK, SessionRecords
  <2>2. CASE session[s].queued = 0
    BY <2>2 DEF TypeInv, TypeOK, Settle
  <2>3. CASE session[s].queued # 0
    <3>1. [session[s] EXCEPT !.queued = @ - 1] \in SessionRecords
      BY <2>1, <2>3 DEF SessionRecords
    <3>2. /\ session' = [session EXCEPT
               ![s] = [session[s] EXCEPT !.queued = @ - 1]]
          /\ queuedRequests' = queuedRequests - 1
      BY <2>3 DEF Settle
    <3>. QED
      BY <3>1, <3>2 DEF TypeInv, TypeOK
  <2>. QED
    BY <2>2, <2>3
<1>4. \A r \in SessionIds : running'[r] # NotStarted => queue'[r] # <<>>
  BY DEF TypeInv, TypeOK, Attended, Settle
<1>. QED
  BY <1>2, <1>3, <1>4

(* Settling leaves everything of a session but its queue counter alone.    *)
LEMMA SettleKeeps ==
  ASSUME TypeInv, NEW s \in SessionIds, Settle(s), NEW r \in SessionIds
  PROVE  /\ session'[r].views = session[r].views
         /\ session'[r].stale = session[r].stale
         /\ session'[r].history = session[r].history
         /\ session'[r].position = session[r].position
         /\ session'[r].owner = session[r].owner
         /\ session'[r].lastAcceptedAt = session[r].lastAcceptedAt
<1>1. session[r] \in SessionRecords /\ session \in [SessionIds -> SessionRecords]
  BY DEF TypeInv, TypeOK
<1>2. CASE session[s].queued = 0
  BY <1>2 DEF Settle
<1>3. CASE session[s].queued # 0
  <2>1. session' = [session EXCEPT ![s] =
                      [session[s] EXCEPT !.queued = @ - 1]]
    BY <1>3 DEF Settle
  <2>2. CASE r = s
    <3>1. session'[r] = [session[r] EXCEPT !.queued = @ - 1]
      BY <1>1, <2>1, <2>2
    <3>. QED
      BY <1>1, <3>1 DEF SessionRecords
  <2>3. CASE r # s
    BY <1>1, <2>1, <2>3
  <2>. QED
    BY <2>2, <2>3
<1>. QED
  BY <1>2, <1>3

(* What evicting the oldest evictable entry of a session does.             *)
LEMMA EvictOldestEffect ==
  ASSUME TypeInv, NEW s \in SessionIds, Evictable(s) # {}, EvictOldest(s)
  PROVE  \E i \in Evictable(s) :
           /\ i \in 1..Len(session[s].history)
           /\ session[s].history[i] \in Nat
           /\ session' = [session EXCEPT ![s] =
                Discarded([session[s] EXCEPT
                             !.history = RemoveAt(@, i),
                             !.position = IF i < @ THEN @ - 1 ELSE @],
                          session[s].history[i])]
           /\ retainedBodyBytes' =
                retainedBodyBytes - BytesOf(session[s], session[s].history[i])
<1> DEFINE i == Min(Evictable(s))
<1>1. session[s].history \in Seq(Nat)
  BY DEF TypeInv, TypeOK, SessionRecords
<1>2. Evictable(s) \in SUBSET (1..Len(session[s].history))
  BY <1>1, LenProperties DEF Evictable
<1>3. Evictable(s) \in SUBSET Nat
  BY <1>2
<1>4. i \in Evictable(s)
  BY <1>3, MinOfNaturals
<1>5. session[s].history[i] \in Nat
  BY <1>1, <1>2, <1>4, ElementOfSeq
<1>. QED
  BY <1>2, <1>4, <1>5 DEF EvictOldest

(* Evicting keeps the types and adds no view to any session.                *)
LEMMA EvictOldestType ==
  ASSUME TypeInv, NEW s \in SessionIds, Evictable(s) # {}, EvictOldest(s)
  PROVE  /\ session' \in [SessionIds -> SessionRecords]
         /\ retainedBodyBytes' \in Int
         /\ \A r \in SessionIds : session'[r].views \subseteq session[r].views
<1>1. PICK i \in Evictable(s) :
           /\ i \in 1..Len(session[s].history)
           /\ session[s].history[i] \in Nat
           /\ session' = [session EXCEPT ![s] =
                Discarded([session[s] EXCEPT
                             !.history = RemoveAt(@, i),
                             !.position = IF i < @ THEN @ - 1 ELSE @],
                          session[s].history[i])]
           /\ retainedBodyBytes' =
                retainedBodyBytes - BytesOf(session[s], session[s].history[i])
  BY EvictOldestEffect
<1> DEFINE spliced == [session[s] EXCEPT
                             !.history = RemoveAt(@, i),
                             !.position = IF i < @ THEN @ - 1 ELSE @]
<1>2. session[s] \in SessionRecords /\ session[s].history \in Seq(Nat)
      /\ session[s].position \in Nat
  BY DEF TypeInv, TypeOK, SessionRecords
<1>3. RemoveAt(session[s].history, i) \in Seq(Nat)
  BY <1>1, <1>2, RemoveAtProperties
<1>4. spliced \in SessionRecords
  <2>1. (IF i < session[s].position THEN session[s].position - 1
         ELSE session[s].position) \in Nat
    BY <1>1, <1>2
  <2>. QED
    BY <1>2, <1>3, <2>1 DEF SessionRecords
<1>5. spliced.views = session[s].views
  BY <1>2 DEF SessionRecords
<1> HIDE DEF spliced
<1>6. Discarded(spliced, session[s].history[i]) \in SessionRecords
  BY <1>1, <1>4, DiscardedType
<1>7. Discarded(spliced, session[s].history[i]).views \subseteq spliced.views
  BY <1>4 DEF Discarded, SessionRecords
<1>8. session' = [session EXCEPT ![s] =
                    Discarded(spliced, session[s].history[i])]
  BY <1>1 DEF spliced
<1>9. retainedBodyBytes' \in Int
  BY <1>1, BytesOfType DEF TypeInv, TypeOK
<1>. QED
  BY <1>5, <1>6, <1>7, <1>8, <1>9 DEF TypeInv, TypeOK

(* Live sessions are sessions that can be started.                          *)
LEMMA LiveAreSessions ==
  ASSUME TypeInv
  PROVE  live \subseteq SessionIds
BY LimitsAssumption DEF TypeInv, TypeOK, SessionIds, LimitsAssumption

(* Appending a new view to the history of a session.                       *)
LEMMA AppendViewEffect ==
  ASSUME TypeInv, AppendView, NEW s, s = turn.session, NEW v, v = Len(minted) + 1
  PROVE  /\ s \in SessionIds /\ v \in Nat
         /\ session' = [session EXCEPT ![s] =
              [session[s] EXCEPT !.history = Append(@, v), !.position = @ + 1,
                                 !.views = @ \union {v}]]
         /\ [session[s] EXCEPT !.history = Append(@, v), !.position = @ + 1,
                               !.views = @ \union {v}] \in SessionRecords
         /\ minted' \in Seq([session : SessionIds, bytes : BodySizes,
                             generation : Nat, captured : Nat])
         /\ DOMAIN minted = 1..Len(minted) /\ DOMAIN minted' = 1..v
         /\ \A w \in DOMAIN minted : minted'[w] = minted[w]
         /\ minted'[v].session = s /\ minted'[v].bytes = turn.bytes
         /\ retainedBodyBytes' \in Int
<1>1. /\ s \in SessionIds /\ turn.bytes \in BodySizes /\ turn.generation \in Nat
      /\ running[s] \in Nat
  BY TurnTypes DEF AppendView, TypeInv, TypeOK, Attended
<1>2. minted \in Seq([session : SessionIds, bytes : BodySizes,
                     generation : Nat, captured : Nat])
  BY DEF TypeInv, TypeOK
<1>3. Len(minted) \in Nat /\ DOMAIN minted = 1..Len(minted) /\ v \in Nat
  BY <1>2, LenProperties
<1> DEFINE view == [session |-> s, bytes |-> turn.bytes,
                    generation |-> turn.generation, captured |-> running[s]]
<1>4. /\ view \in [session : SessionIds, bytes : BodySizes,
                   generation : Nat, captured : Nat]
      /\ view.session = s /\ view.bytes = turn.bytes
  BY <1>1
<1>5. minted' = Append(minted, view)
  BY DEF AppendView
<1> HIDE DEF view
<1>6. /\ minted' \in Seq([session : SessionIds, bytes : BodySizes,
                         generation : Nat, captured : Nat])
      /\ Len(minted') = Len(minted) + 1
      /\ \A w \in 1..Len(minted) : minted'[w] = minted[w]
      /\ minted'[Len(minted) + 1] = view
  BY <1>2, <1>4, <1>5, AppendProperties
<1>7. DOMAIN minted' = 1..v
  BY <1>6, LenProperties
<1>8. /\ session[s] \in SessionRecords /\ session[s].history \in Seq(Nat)
      /\ session[s].position \in Nat /\ session[s].views \in SUBSET Nat
  BY <1>1 DEF TypeInv, TypeOK, SessionRecords
<1>9. Append(session[s].history, v) \in Seq(Nat)
  BY <1>3, <1>8, EnqueueType
<1>10. [session[s] EXCEPT !.history = Append(@, v), !.position = @ + 1,
                          !.views = @ \union {v}] \in SessionRecords
  <2>1. session[s].position + 1 \in Nat /\ session[s].views \union {v} \in SUBSET Nat
    BY <1>3, <1>8
  <2>. QED
    BY <1>8, <1>9, <2>1 DEF SessionRecords
<1>11. session' = [session EXCEPT ![s] =
              [session[s] EXCEPT !.history = Append(@, v), !.position = @ + 1,
                                 !.views = @ \union {v}]]
  BY <1>1, <1>8 DEF AppendView, TypeInv, TypeOK
<1>12. retainedBodyBytes' \in Int
  <2>1. turn.bytes \in Int /\ retainedBodyBytes \in Int
    <3>1. BodySizes \subseteq Nat
      BY LimitsAssumption DEF LimitsAssumption
    <3>2. turn.bytes \in BodySizes
      BY <1>1
    <3>3. turn.bytes \in Nat
      BY <3>1, <3>2
    <3>. QED
      BY <3>3 DEF TypeInv, TypeOK
  <2>2. retainedBodyBytes' = retainedBodyBytes + turn.bytes
    BY DEF AppendView
  <2>. QED
    BY <2>1, <2>2
<1>. QED
  BY <1>1, <1>3, <1>4, <1>6, <1>7, <1>10, <1>11, <1>12

(* What deleting the oldest doomed session does in one round.              *)
LEMMA DoomedIsSession ==
  ASSUME TypeInv, Doomed # {}
  PROVE  Min(Doomed) \in Doomed /\ Min(Doomed) \in live
         /\ Min(Doomed) \in SessionIds
<1>1. Doomed \subseteq live
  BY DEF Doomed
<1>2. live \subseteq SessionIds
  BY LimitsAssumption DEF TypeInv, TypeOK, SessionIds, LimitsAssumption
<1>3. Doomed \in SUBSET Nat
  BY <1>1, <1>2 DEF SessionIds
<1>4. Min(Doomed) \in Doomed
  BY <1>3, MinOfNaturals
<1>. QED
  BY <1>1, <1>2, <1>4

(* A round of deleteSession discards one view or removes the session.       *)
LEMMA DeleteDoomedEffect ==
  ASSUME TypeInv, DeleteDoomed, NEW s, s = Min(Doomed)
  PROVE  \/ /\ live' = live
            /\ \E v \in session[s].views :
                 /\ v \in Nat
                 /\ session' = [session EXCEPT ![s] = Discarded(session[s], v)]
                 /\ retainedBodyBytes' =
                      retainedBodyBytes - BytesOf(session[s], v)
            /\ UNCHANGED queuedRequests
         \/ /\ live' = live \ {s}
            /\ session[s].views = {}
            /\ session' = [session EXCEPT
                 ![s] = [NoSession EXCEPT !.queued = session[s].queued]]
            /\ queuedRequests' = queuedRequests - session[s].queued
            /\ UNCHANGED retainedBodyBytes
<1>1. s \in SessionIds
  BY DoomedIsSession DEF DeleteDoomed
<1>2. session[s].views \in SUBSET Nat
  BY <1>1 DEF TypeInv, TypeOK, SessionRecords
<1>3. CASE session[s].views # {}
  <2>1. Min(session[s].views) \in session[s].views
    BY <1>2, <1>3, MinOfNaturals
  <2>. QED
    BY <1>2, <1>3, <2>1 DEF DeleteDoomed
<1>4. CASE session[s].views = {}
  BY <1>4 DEF DeleteDoomed
<1>. QED
  BY <1>3, <1>4

(* The type invariant holds at the start.                                   *)
LEMMA TypeInit == Init => TypeInv
<1> SUFFICES ASSUME Init PROVE TypeInv
  OBVIOUS
<1>1. Idle \in Turns /\ Idle.at = "idle"
  BY DEF Idle, Turns
<1>2. /\ session \in [SessionIds -> SessionRecords]
      /\ queue \in [SessionIds -> Seq(Nat)]
      /\ minted \in Seq([session : SessionIds, bytes : BodySizes,
                         generation : Nat, captured : Nat])
      /\ accepted \in Seq([session : SessionIds, request : RequestIds,
                           call : Calls, at : Nat])
  BY NoSessionType, EmptySeq DEF Init
<1>3. TypeOK
  BY <1>1, <1>2, LimitsAssumption DEF Init, TypeOK, LimitsAssumption, NotStarted
<1>4. \A s \in SessionIds : session[s].views = {}
  BY DEF Init, NoSession
<1>. QED
  BY <1>1, <1>3, <1>4 DEF Init, TypeInv, Attended, ViewsMinted

(* Every step of every handler preserves the type invariant.                *)
LEMMA TypeStep == TypeInv /\ [Next]_vars => TypeInv'
<1> SUFFICES ASSUME TypeInv, [Next]_vars PROVE TypeInv'
  OBVIOUS
<1> USE DEF Idle
<1>idle. Idle \in Turns
  BY DEF Turns
<1>1. CASE Tick
  BY <1>1 DEF Tick, TypeInv, TypeOK, Attended, ViewsMinted
<1>2. CASE PublishGeneration
  BY <1>2 DEF PublishGeneration, TypeInv, TypeOK, Attended, ViewsMinted
<1>3. CASE Arrivals
  <2>1. PICK t : /\ t \in Turns /\ t.at \in {"start", "close", "execute"}
                 /\ t.at = "start" => started < SessionBound
                 /\ Arrive(t)
    BY <1>3 DEF Arrivals, Start, Close, Execute, Turns
  <2>. QED
    BY <2>1 DEF Arrive, TypeInv, TypeOK, Attended, ViewsMinted
<1>4. CASE DeleteDoomed
  <2> DEFINE s == Min(Doomed)
  <2>1. s \in SessionIds /\ session[s] \in SessionRecords
    BY <1>4, DoomedIsSession DEF DeleteDoomed, TypeInv, TypeOK
  <2>2. /\ session' \in [SessionIds -> SessionRecords]
        /\ queuedRequests' \in Int /\ retainedBodyBytes' \in Int
        /\ live' \subseteq live
        /\ \A r \in SessionIds : session'[r].views \subseteq session[r].views
    <3> HIDE DEF s
    <3>1. CASE live' = live /\ UNCHANGED queuedRequests
               /\ \E v \in session[s].views :
                    /\ v \in Nat
                    /\ session' = [session EXCEPT ![s] = Discarded(session[s], v)]
                    /\ retainedBodyBytes' =
                         retainedBodyBytes - BytesOf(session[s], v)
      <4>1. PICK v \in session[s].views :
                    /\ v \in Nat
                    /\ session' = [session EXCEPT ![s] = Discarded(session[s], v)]
                    /\ retainedBodyBytes' =
                         retainedBodyBytes - BytesOf(session[s], v)
        BY <3>1
      <4>2. Discarded(session[s], v) \in SessionRecords
        BY <2>1, <4>1, DiscardedType
      <4>3. Discarded(session[s], v).views \subseteq session[s].views
        BY <2>1 DEF Discarded, SessionRecords
      <4>4. BytesOf(session[s], v) \in Nat
        BY <2>1, BytesOfType
      <4>. QED
        BY <2>1, <3>1, <4>1, <4>2, <4>3, <4>4 DEF TypeInv, TypeOK
    <3>2. CASE /\ live' = live \ {s}
               /\ session' = [session EXCEPT
                    ![s] = [NoSession EXCEPT !.queued = session[s].queued]]
               /\ queuedRequests' = queuedRequests - session[s].queued
               /\ UNCHANGED retainedBodyBytes
      <4>1. session[s].queued \in Nat
        BY <2>1 DEF SessionRecords
      <4>2. [NoSession EXCEPT !.queued = session[s].queued] \in SessionRecords
        BY <4>1, NoSessionType DEF SessionRecords
      <4>3. [NoSession EXCEPT !.queued = session[s].queued].views = {}
        BY DEF NoSession
      <4>. QED
        BY <2>1, <3>2, <4>1, <4>2, <4>3 DEF TypeInv, TypeOK
    <3>3. s = Min(Doomed)
      BY DEF s
    <3>. QED
      BY <1>4, <3>1, <3>2, <3>3, DeleteDoomedEffect
  <2>. QED
    BY <1>4, <2>2 DEF DeleteDoomed, TypeInv, TypeOK, Attended, ViewsMinted
<1>5. CASE Closed
  BY <1>5, <1>idle DEF Closed, TypeInv, TypeOK, Attended, ViewsMinted
<1>6. CASE StartSession
  <2>1. turn.connection \in Connections /\ started < SessionBound
    BY <1>6, TurnTypes DEF StartSession, TypeInv, TypeOK, Attended
  <2>2. CASE Cardinality(live) >= MaxSessions
    BY <1>6, <2>2, <1>idle
    DEF StartSession, TypeInv, TypeOK, Attended, ViewsMinted
  <2>3. CASE ~ (Cardinality(live) >= MaxSessions)
    <3> DEFINE fresh == [NoSession EXCEPT !.owner = turn.connection,
                                          !.lastAcceptedAt = now]
    <3>1. fresh \in SessionRecords /\ fresh.views = {}
      BY <2>1, NoSessionType, EmptySeq
      DEF NoSession, SessionRecords, TypeInv, TypeOK
    <3> HIDE DEF fresh
    <3>2. started + 1 \in SessionIds /\ started + 1 \in 0..SessionBound
      BY <2>1, LimitsAssumption
      DEF SessionIds, LimitsAssumption, TypeInv, TypeOK
    <3>3. /\ started' = started + 1 /\ live' = live \union {started + 1}
          /\ session' = [session EXCEPT ![started + 1] = fresh]
      BY <1>6, <2>3 DEF StartSession, fresh
    <3>4. live' \subseteq 1..started'
      BY <3>3 DEF TypeInv, TypeOK
    <3>5. /\ session' \in [SessionIds -> SessionRecords]
          /\ \A r \in SessionIds : session'[r].views \subseteq session[r].views
      BY <3>1, <3>2, <3>3 DEF TypeInv, TypeOK
    <3>. QED
      BY <1>6, <3>2, <3>3, <3>4, <3>5, <1>idle
      DEF StartSession, TypeInv, TypeOK, Attended, ViewsMinted
  <2>. QED
    BY <2>2, <2>3
<1>7. CASE AnswerInvalidSession
  BY <1>7, <1>idle DEF AnswerInvalidSession, TypeInv, TypeOK, Attended, ViewsMinted
<1>unexpired. ASSUME NEW s \in SessionIds,
                     session' = [session EXCEPT ![s].requests = Unexpired(s)]
              PROVE  /\ session' \in [SessionIds -> SessionRecords]
                     /\ \A r \in SessionIds :
                          session'[r].views = session[r].views
  <2>1. session[s] \in SessionRecords /\ Unexpired(s) \subseteq Entries
    BY DEF TypeInv, TypeOK, SessionRecords, Unexpired
  <2>2. [session[s] EXCEPT !.requests = Unexpired(s)] \in SessionRecords
        /\ [session[s] EXCEPT !.requests = Unexpired(s)].views
             = session[s].views
    BY <2>1 DEF SessionRecords
  <2>. QED
    BY <2>2, <1>unexpired DEF TypeInv, TypeOK
<1>8. CASE AnswerRetained
  <2>1. turn.session \in SessionIds
    BY <1>8, TurnTypes DEF AnswerRetained, Executing, TypeInv, TypeOK
  <2>. QED
    BY <1>8, <1>idle, <1>unexpired, <2>1
    DEF AnswerRetained, TypeInv, TypeOK, Attended, ViewsMinted
<1>9. CASE RefuseRequest
  <2>1. turn.session \in SessionIds
    BY <1>9, TurnTypes DEF RefuseRequest, Executing, TypeInv, TypeOK
  <2>. QED
    BY <1>9, <1>idle, <1>unexpired, <2>1
    DEF RefuseRequest, TypeInv, TypeOK, Attended, ViewsMinted
<1>10. CASE AcceptRequest
  <2> DEFINE s == turn.session
             operation == Len(accepted) + 1
             entry == [request |-> turn.request, operation |-> operation,
                       expiresAt |-> now + Retention]
             kept == Trimmed(Unexpired(s) \union {entry})
  <2>1. /\ s \in SessionIds /\ turn.request \in RequestIds
        /\ turn.call \in Calls
    BY <1>10, TurnTypes DEF AcceptRequest, Executing, TypeInv, TypeOK
  <2>2. operation \in Nat /\ now + Retention \in Nat /\ now \in Nat
    BY LenProperties, LimitsAssumption DEF TypeInv, TypeOK, LimitsAssumption
  <2>3. session[s] \in SessionRecords /\ Unexpired(s) \subseteq Entries
        /\ session[s].queued \in Nat
    BY <2>1 DEF TypeInv, TypeOK, SessionRecords, Unexpired
  <2>4. kept \subseteq Entries
    <3>1. entry \in Entries
      BY <2>1, <2>2 DEF Entries
    <3>. QED
      BY <2>3, <3>1 DEF Trimmed
  <2> HIDE DEF kept, entry
  <2>5. [session[s] EXCEPT !.lastAcceptedAt = now, !.queued = @ + 1,
                           !.requests = kept]
          \in SessionRecords
    BY <2>2, <2>3, <2>4, AcceptingType
  <2>6. [session[s] EXCEPT !.lastAcceptedAt = now, !.queued = @ + 1,
                           !.requests = kept].views
          = session[s].views
    BY <2>3 DEF SessionRecords
  <2>7. session' = [session EXCEPT ![s] =
                     [session[s] EXCEPT !.lastAcceptedAt = now,
                                        !.queued = @ + 1, !.requests = kept]]
    BY <1>10, <2>1, <2>3 DEF AcceptRequest, TypeInv, TypeOK, kept, entry
  <2>8. /\ session' \in [SessionIds -> SessionRecords]
        /\ \A r \in SessionIds : session'[r].views = session[r].views
    BY <2>1, <2>5, <2>6, <2>7 DEF TypeInv, TypeOK
  <2>9. accepted' \in Seq([session : SessionIds, request : RequestIds,
                          call : Calls, at : Nat])
    BY <1>10, <2>1, <2>2, AppendProperties DEF AcceptRequest, TypeInv, TypeOK
  <2>10. /\ queue' \in [SessionIds -> Seq(Nat)]
         /\ \A r \in SessionIds : queue'[r] = <<>> => queue[r] = <<>>
    <3>1. queue' = [queue EXCEPT ![s] = Append(queue[s], operation)]
      BY <1>10 DEF AcceptRequest
    <3> HIDE DEF operation
    <3>2. queue[s] \in Seq(Nat)
      BY <2>1 DEF TypeInv, TypeOK
    <3>3. Append(queue[s], operation) \in Seq(Nat)
          /\ Append(queue[s], operation) # <<>>
      BY <2>2, <3>2, EnqueueType
    <3>. QED
      BY <2>1, <3>1, <3>3 DEF TypeInv, TypeOK
  <2>11. /\ queuedRequests' = queuedRequests + 1 /\ turn' = Idle
         /\ UNCHANGED <<now, generation, started, live, retainedBodyBytes,
                        running, minted>>
    BY <1>10 DEF AcceptRequest
  <2> HIDE DEF operation
  <2>12. TypeOK'
    BY <1>idle, <2>8, <2>9, <2>10, <2>11 DEF TypeInv, TypeOK
  <2>13. Attended' /\ ViewsMinted'
    BY <2>8, <2>10, <2>11 DEF TypeInv, Attended, ViewsMinted
  <2>. QED
    BY <2>12, <2>13 DEF TypeInv
<1>settle. ASSUME NEW s \in SessionIds, queue[s] # <<>>, Settle(s),
                  turn' = Idle,
                  UNCHANGED <<now, generation, started, live,
                              retainedBodyBytes, accepted, minted>>
           PROVE  TypeInv'
  <2>1. /\ session' \in [SessionIds -> SessionRecords]
        /\ queuedRequests' \in Int
        /\ queue' \in [SessionIds -> Seq(Nat)]
        /\ running' \in [SessionIds -> Nat \union {NotStarted}]
        /\ \A r \in SessionIds : running'[r] # NotStarted => queue'[r] # <<>>
    BY <1>settle, SettleType
  <2>2. \A r \in SessionIds : session'[r].views = session[r].views
    BY <1>settle, SettleKeeps
  <2>. QED
    BY <1>settle, <1>idle, <2>1, <2>2
    DEF TypeInv, TypeOK, Attended, ViewsMinted
<1>dispatch. ASSUME NEW s \in SessionIds, queue[s] # <<>>, Dispatch(s),
                    turn' = turn, turn = Idle,
                    UNCHANGED <<now, generation, started, live,
                                retainedBodyBytes, accepted, minted>>
             PROVE  TypeInv'
  <2>1. running' \in [SessionIds -> Nat \union {NotStarted}]
    BY <1>dispatch DEF Dispatch, TypeInv, TypeOK
  <2>. QED
    BY <1>dispatch, <1>idle, <2>1
    DEF Dispatch, TypeInv, TypeOK, Attended, ViewsMinted
<1>11. ASSUME NEW s \in SessionIds, Focus(s) PROVE TypeInv'
  BY <1>11, <1>dispatch DEF Focus, AtHead
<1>12. ASSUME NEW s \in SessionIds, NEW v \in 0..Len(minted), Follow(s, v)
       PROVE  TypeInv'
  <2>1. CASE Resolves(s, v)
    BY <1>12, <1>dispatch, <2>1 DEF Follow, AtHead
  <2>2. CASE ~ Resolves(s, v)
    BY <1>12, <1>settle, <2>2 DEF Follow, AtHead
  <2>. QED
    BY <2>1, <2>2
<1>13. ASSUME NEW s \in SessionIds, NEW direction \in Directions,
              History(s, direction)
       PROVE  TypeInv'
  <2>1. queue[s] # <<>> /\ turn = Idle /\ running[s] = NotStarted
    BY <1>13 DEF History, AtHead
  <2>2. /\ queue[s] \in Seq(Nat) /\ session[s] \in SessionRecords
        /\ session[s].queued \in Nat
    BY DEF TypeInv, TypeOK, SessionRecords
  <2>3. Restored(s, direction) \in Nat
    BY <2>2, LenProperties DEF Restored, SessionRecords
  <2>4. [session[s] EXCEPT !.position = Restored(s, direction),
                           !.queued = IF @ = 0 THEN 0 ELSE @ - 1]
          \in SessionRecords
    <3>1. (IF session[s].queued = 0 THEN 0 ELSE session[s].queued - 1) \in Nat
      BY <2>2
    <3>. QED
      BY <2>2, <2>3, <3>1 DEF SessionRecords
  <2>5. [session[s] EXCEPT !.position = Restored(s, direction),
                           !.queued = IF @ = 0 THEN 0 ELSE @ - 1].views
          = session[s].views
    BY <2>2 DEF SessionRecords
  <2>6. session' = [session EXCEPT ![s] =
                     [session[s] EXCEPT
                        !.position = Restored(s, direction),
                        !.queued = IF @ = 0 THEN 0 ELSE @ - 1]]
    BY <1>13, <2>2 DEF History, TypeInv, TypeOK
  <2>7. /\ session' \in [SessionIds -> SessionRecords]
        /\ \A r \in SessionIds : session'[r].views = session[r].views
    BY <2>4, <2>5, <2>6 DEF TypeInv, TypeOK
  <2>8. queue' \in [SessionIds -> Seq(Nat)]
    BY <1>13, <2>1, <2>2, HeadTailProperties DEF History, TypeInv, TypeOK
  <2>9. TypeOK'
    BY <1>13, <2>1, <2>7, <2>8, <1>idle DEF History, TypeInv, TypeOK
  <2>10. Attended' /\ ViewsMinted'
    BY <1>13, <2>1, <2>7 DEF History, TypeInv, TypeOK, Attended, ViewsMinted
  <2>. QED
    BY <2>9, <2>10 DEF TypeInv
<1>14. ASSUME NEW s \in SessionIds, AnswerAtOnce(s) PROVE TypeInv'
  BY <1>14, <1>settle DEF AnswerAtOnce, AtHead
<1>15. ASSUME NEW s \in SessionIds, BackendFails(s) PROVE TypeInv'
  BY <1>15, <1>settle DEF BackendFails, Waiting, TypeInv, Attended
<1>16. ASSUME NEW s \in SessionIds, NEW bytes \in BodySizes,
              AnswerFocus(s, bytes)
       PROVE  TypeInv'
  <2>1. running[s] \in Nat /\ running[s] # NotStarted
    BY <1>16 DEF AnswerFocus, Waiting, TypeInv, TypeOK
  <2>2. turn' = Adding(s, bytes, 0, running[s])
        /\ turn' \in Turns /\ turn'.at = "room" /\ turn'.session = s
    BY <1>16, <2>1 DEF AnswerFocus, Adding, Turns
  <2>. QED
    BY <1>16, <2>1, <2>2
    DEF AnswerFocus, TypeInv, TypeOK, Attended, ViewsMinted
<1>17. ASSUME NEW s \in SessionIds, NEW bytes \in BodySizes,
              NEW candidates \in 1..MaxCandidates,
              AnswerFollow(s, bytes, candidates)
       PROVE  TypeInv'
  <2>1. running[s] \in Nat /\ running[s] # NotStarted
    BY <1>17 DEF AnswerFollow, Waiting, TypeInv, TypeOK
  <2>2. candidates - 1 \in Nat
    BY LimitsAssumption DEF LimitsAssumption
  <2>3. turn' = Adding(s, bytes, candidates - 1, 0)
        /\ turn' \in Turns /\ turn'.at = "room" /\ turn'.session = s
    BY <1>17, <2>2 DEF AnswerFollow, Adding, Turns
  <2>. QED
    BY <1>17, <2>1, <2>3
    DEF AnswerFollow, TypeInv, TypeOK, Attended, ViewsMinted
<1>18. CASE EvictForRoom
  <2> DEFINE s == Min(Lenders)
  <2>1. Lenders \subseteq SessionIds
    BY LiveAreSessions DEF Lenders
  <2>2. Lenders \in SUBSET Nat /\ Lenders # {}
    BY <1>18, <2>1 DEF SessionIds, EvictForRoom
  <2>3. s \in Lenders
    BY <2>2, MinOfNaturals
  <2>4. s \in SessionIds /\ Evictable(s) # {} /\ EvictOldest(s)
    BY <1>18, <2>1, <2>3 DEF Lenders, EvictForRoom
  <2> HIDE DEF s
  <2>5. /\ session' \in [SessionIds -> SessionRecords]
        /\ retainedBodyBytes' \in Int
        /\ \A r \in SessionIds : session'[r].views \subseteq session[r].views
    BY <2>4, EvictOldestType
  <2>. QED
    BY <1>18, <2>5 DEF EvictForRoom, TypeInv, TypeOK, Attended, ViewsMinted
<1>19. CASE RefuseView
  <2>1. turn.session \in SessionIds /\ queue[turn.session] # <<>>
    BY <1>19, TurnTypes DEF RefuseView, TypeInv, TypeOK, Attended
  <2>. QED
    BY <1>19, <1>settle, <2>1 DEF RefuseView
<1>20. CASE AbandonForward
  <2> DEFINE s == turn.session
             last == Len(session[s].history)
             v == session[s].history[last]
             shortened == [session[s] EXCEPT !.history = RemoveAt(@, last)]
  <2>1. s \in SessionIds
    BY <1>20, TurnTypes DEF AbandonForward, TypeInv, TypeOK
  <2>2. /\ session[s] \in SessionRecords
        /\ session[s].history \in Seq(Nat) /\ session[s].position \in Nat
    BY <2>1 DEF TypeInv, TypeOK, SessionRecords
  <2>3. last \in 1..last
    BY <1>20, <2>2, LenProperties DEF AbandonForward
  <2>4. v \in Nat /\ RemoveAt(session[s].history, last) \in Seq(Nat)
    BY <2>2, <2>3, ElementOfSeq, RemoveAtProperties
  <2>5. shortened \in SessionRecords /\ shortened.views = session[s].views
    BY <2>2, <2>4 DEF SessionRecords
  <2>6. /\ session' = [session EXCEPT ![s] = Discarded(shortened, v)]
        /\ retainedBodyBytes' = retainedBodyBytes - BytesOf(session[s], v)
    BY <1>20 DEF AbandonForward
  <2> HIDE DEF shortened, v
  <2>7. /\ Discarded(shortened, v) \in SessionRecords
        /\ Discarded(shortened, v).views \subseteq session[s].views
    BY <2>4, <2>5, DiscardedType DEF Discarded, SessionRecords
  <2>8. retainedBodyBytes' \in Int
    BY <2>1, <2>6, BytesOfType DEF TypeInv, TypeOK
  <2>9. /\ session' \in [SessionIds -> SessionRecords]
        /\ \A r \in SessionIds : session'[r].views \subseteq session[r].views
    BY <2>1, <2>6, <2>7 DEF TypeInv, TypeOK
  <2>. QED
    BY <1>20, <2>8, <2>9 DEF AbandonForward, TypeInv, TypeOK, Attended, ViewsMinted
<1>21. CASE AppendView
  <2> DEFINE s == turn.session
             v == Len(minted) + 1
             added == [session[s] EXCEPT !.history = Append(@, v),
                                         !.position = @ + 1,
                                         !.views = @ \union {v}]
  <2>1. /\ s \in SessionIds /\ v \in Nat
        /\ session' = [session EXCEPT ![s] = added]
        /\ added \in SessionRecords
        /\ minted' \in Seq([session : SessionIds, bytes : BodySizes,
                            generation : Nat, captured : Nat])
        /\ DOMAIN minted = 1..Len(minted) /\ DOMAIN minted' = 1..v
        /\ retainedBodyBytes' \in Int
    BY <1>21, AppendViewEffect
  <2>2. session[s] \in SessionRecords /\ Len(minted) \in Nat
    BY <2>1, LenProperties DEF TypeInv, TypeOK
  <2>3. added.views = session[s].views \union {v}
    BY <2>2 DEF SessionRecords
  <2> HIDE DEF added
  <2>4. /\ session' \in [SessionIds -> SessionRecords]
        /\ \A r \in SessionIds : session'[r].views \subseteq DOMAIN minted'
    <3>1. session' \in [SessionIds -> SessionRecords]
      BY <2>1 DEF TypeInv, TypeOK
    <3>2. DOMAIN minted \subseteq DOMAIN minted' /\ v \in DOMAIN minted'
      BY <2>1, <2>2
    <3>3. ASSUME NEW r \in SessionIds
          PROVE  session'[r].views \subseteq session[r].views \union {v}
      BY <2>1, <2>3 DEF TypeInv, TypeOK
    <3> HIDE DEF v
    <3>. QED
      BY <3>1, <3>2, <3>3 DEF TypeInv, ViewsMinted
  <2>5. turn' \in Turns /\ turn'.at = "trim" /\ turn'.session = s
    BY <1>21 DEF AppendView, TypeInv, TypeOK, Turns
  <2>6. TypeOK'
    BY <1>21, <2>1, <2>4, <2>5 DEF AppendView, TypeInv, TypeOK
  <2>7. Attended' /\ ViewsMinted'
    BY <1>21, <2>1, <2>4, <2>5 DEF AppendView, TypeInv, Attended, ViewsMinted
  <2>. QED
    BY <2>6, <2>7 DEF TypeInv
<1>22. CASE TrimViews
  <2>1. turn.session \in SessionIds
    BY <1>22, TurnTypes DEF TrimViews, TypeInv, TypeOK
  <2>2. Evictable(turn.session) # {} /\ EvictOldest(turn.session)
    BY <1>22 DEF TrimViews, Crowded
  <2>3. /\ session' \in [SessionIds -> SessionRecords]
        /\ retainedBodyBytes' \in Int
        /\ \A r \in SessionIds : session'[r].views \subseteq session[r].views
    BY <2>1, <2>2, EvictOldestType
  <2>. QED
    BY <1>22, <2>3 DEF TrimViews, TypeInv, TypeOK, Attended, ViewsMinted
<1>23. CASE ViewAdded
  <2>1. /\ turn.session \in SessionIds /\ queue[turn.session] # <<>>
        /\ running[turn.session] # NotStarted
        /\ turn.more \in Nat /\ turn.generation \in Nat
    BY <1>23, TurnTypes DEF ViewAdded, TypeInv, TypeOK, Attended
  <2>2. CASE turn.more > 0
    <3>1. PICK bytes \in BodySizes :
            turn' = Adding(turn.session, bytes, turn.more - 1, turn.generation)
      BY <1>23, <2>2 DEF ViewAdded
    <3>2. /\ turn' \in Turns /\ turn'.at = "room"
          /\ turn'.session = turn.session
      BY <2>1, <2>2, <3>1 DEF Adding, Turns
    <3>. QED
      BY <1>23, <2>1, <2>2, <3>2
      DEF ViewAdded, TypeInv, TypeOK, Attended, ViewsMinted
  <2>3. CASE ~ (turn.more > 0)
    BY <1>23, <1>settle, <2>1, <2>3 DEF ViewAdded
  <2>. QED
    BY <2>2, <2>3
<1>24. CASE UNCHANGED vars
  BY <1>24 DEF vars, TypeInv, TypeOK, Attended, ViewsMinted, Turns
<1>. QED
  BY <1>1, <1>2, <1>3, <1>4, <1>5, <1>6, <1>7, <1>8, <1>9, <1>10, <1>11,
     <1>12, <1>13, <1>14, <1>15, <1>16, <1>17, <1>18, <1>19, <1>20, <1>21,
     <1>22, <1>23, <1>24
  DEF Next, Entered, Operate, Added

(* Every variable keeps its type, for every value of the limits: no order  *)
(* of evictions, expiries, closing connections and answers moves           *)
(* historyPosition, a queue counter or a queue out of range.               *)
THEOREM TypeCorrect == Spec => []TypeOK
<1>1. Init => TypeInv
  BY TypeInit
<1>2. TypeInv /\ [Next]_vars => TypeInv'
  BY TypeStep
<1>3. TypeInv => TypeOK
  BY DEF TypeInv
<1>. QED
  BY <1>1, <1>2, <1>3, PTL DEF Spec

-----------------------------------------------------------------------------
(* Progress: chains only move forward, and every handler ends.             *)

(* Every chain holds operations of its own session, in the order in which  *)
(* they were accepted.                                                     *)
QueuesInOrder ==
  \A s \in SessionIds :
    /\ \A i \in 1..Len(queue[s]) :
         /\ queue[s][i] \in 1..Len(accepted)
         /\ accepted[queue[s][i]].session = s
    /\ \A i, j \in 1..Len(queue[s]) : i < j => queue[s][i] < queue[s][j]

HeadSettles(s) ==
  queue[s] # <<>> /\ queue'[s] = Tail(queue[s]) /\ running'[s] = NotStarted

HeadStarts(s) ==
  /\ queue[s] # <<>> /\ queue'[s] = queue[s]
  /\ running[s] = NotStarted /\ running'[s] = generation

\* The backend of the head answers: its views are added in this turn.
HeadAnswered(s) ==
  /\ running[s] # NotStarted /\ queue'[s] = queue[s] /\ running'[s] = running[s]
  /\ turn = Idle /\ turn'.at = "room" /\ turn'.session = s

RequestJoins(s) ==
  /\ queue'[s] = Append(queue[s], Len(accepted) + 1) /\ running'[s] = running[s]
  /\ Len(accepted') = Len(accepted) + 1
  /\ accepted'[Len(accepted) + 1].session = s

ChainStays(s) == queue'[s] = queue[s] /\ running'[s] = running[s]

(* What a step may do to the chains: take the head out of one, start it,   *)
(* or add a new request at its end.                                        *)
ChainsMove ==
  /\ \A s \in SessionIds :
       ChainStays(s) \/ RequestJoins(s) \/ HeadStarts(s) \/ HeadSettles(s)
  /\ Len(accepted') >= Len(accepted)
  /\ \A n \in 1..Len(accepted) : accepted'[n] = accepted[n]

ChainsGoOn ==
  /\ ChainsMove
  /\ \A s \in SessionIds :
       Operate(s) => HeadSettles(s) \/ HeadStarts(s) \/ HeadAnswered(s)

(* A chain whose head settles.                                             *)
LEMMA SettleMoves ==
  ASSUME TypeInv, NEW s \in SessionIds, queue[s] # <<>>, Settle(s),
         UNCHANGED accepted
  PROVE  ChainsMove /\ HeadSettles(s)
<1>1. /\ queue' = [queue EXCEPT ![s] = Tail(queue[s])]
      /\ running' = [running EXCEPT ![s] = NotStarted]
  BY DEF Settle
<1>2. /\ queue \in [SessionIds -> Seq(Nat)] /\ Len(accepted) \in Nat
      /\ running \in [SessionIds -> Nat \union {NotStarted}]
  BY LenProperties DEF TypeInv, TypeOK
<1>3. HeadSettles(s)
  BY <1>1, <1>2 DEF HeadSettles
<1>4. \A r \in SessionIds \ {s} : ChainStays(r)
  BY <1>1, <1>2 DEF ChainStays
<1>. QED
  BY <1>2, <1>3, <1>4 DEF ChainsMove

(* A chain whose head is dispatched.                                       *)
LEMMA DispatchMoves ==
  ASSUME TypeInv, NEW s \in SessionIds, queue[s] # <<>>,
         running[s] = NotStarted, Dispatch(s), UNCHANGED accepted
  PROVE  ChainsMove /\ HeadStarts(s)
<1>1. /\ queue' = queue
      /\ running' = [running EXCEPT ![s] = generation]
  BY DEF Dispatch
<1>2. /\ Len(accepted) \in Nat
      /\ running \in [SessionIds -> Nat \union {NotStarted}]
  BY LenProperties DEF TypeInv, TypeOK
<1>3. HeadStarts(s)
  BY <1>1, <1>2 DEF HeadStarts
<1>4. \A r \in SessionIds \ {s} : ChainStays(r)
  BY <1>1, <1>2 DEF ChainStays
<1>. QED
  BY <1>2, <1>3, <1>4 DEF ChainsMove

(* A step that leaves the chains alone.                                    *)
LEMMA ChainsStay ==
  ASSUME TypeInv, UNCHANGED <<queue, running, accepted>>
  PROVE  ChainsMove
<1>1. Len(accepted) \in Nat
  BY LenProperties DEF TypeInv, TypeOK
<1>. QED
  BY <1>1 DEF ChainsMove, ChainStays

(* A request that is accepted joins the end of its chain.                  *)
LEMMA AcceptMoves ==
  ASSUME TypeInv, AcceptRequest
  PROVE  ChainsMove
<1> DEFINE s == turn.session
           request == [session |-> s, request |-> turn.request,
                       call |-> turn.call, at |-> now]
<1>1. /\ s \in SessionIds /\ turn.request \in RequestIds
      /\ turn.call \in Calls /\ now \in Nat
  BY TurnTypes DEF AcceptRequest, Executing, TypeInv, TypeOK
<1>2. /\ accepted' = Append(accepted, request) /\ running' = running
      /\ queue' = [queue EXCEPT ![s] = Append(queue[s], Len(accepted) + 1)]
  BY DEF AcceptRequest
<1>3. /\ request \in [session : SessionIds, request : RequestIds,
                      call : Calls, at : Nat]
      /\ request.session = s
  BY <1>1
<1>4. /\ accepted \in Seq([session : SessionIds, request : RequestIds,
                           call : Calls, at : Nat])
      /\ queue \in [SessionIds -> Seq(Nat)]
  BY DEF TypeInv, TypeOK
<1> HIDE DEF request, s
<1>5. /\ Len(accepted) \in Nat /\ Len(accepted') = Len(accepted) + 1
      /\ \A n \in 1..Len(accepted) : accepted'[n] = accepted[n]
      /\ accepted'[Len(accepted) + 1] = request
  BY <1>2, <1>3, <1>4, LenProperties, AppendProperties
<1>6. RequestJoins(s)
  BY <1>1, <1>2, <1>3, <1>4, <1>5 DEF RequestJoins
<1>7. \A r \in SessionIds \ {s} : ChainStays(r)
  BY <1>2, <1>4 DEF ChainStays
<1>. QED
  BY <1>5, <1>6, <1>7 DEF ChainsMove

(* What the chain of a session does next moves its head on.                *)
LEMMA OperateMoves ==
  ASSUME TypeInv, NEW s \in SessionIds, Operate(s)
  PROVE  /\ ChainsMove
         /\ HeadSettles(s) \/ HeadStarts(s) \/ HeadAnswered(s)
<1> DEFINE Goal == /\ ChainsMove
                   /\ HeadSettles(s) \/ HeadStarts(s) \/ HeadAnswered(s)
<1>settle. ASSUME queue[s] # <<>>, Settle(s), UNCHANGED accepted PROVE Goal
  BY <1>settle, SettleMoves
<1>dispatch. ASSUME queue[s] # <<>>, running[s] = NotStarted, Dispatch(s),
                    UNCHANGED accepted
             PROVE  Goal
  BY <1>dispatch, DispatchMoves
<1>1. CASE Focus(s)
  BY <1>1, <1>dispatch DEF Focus, AtHead
<1>2. ASSUME NEW v \in 0..Len(minted), Follow(s, v) PROVE Goal
  BY <1>2, <1>dispatch, <1>settle DEF Follow, AtHead
<1>3. ASSUME NEW direction \in Directions, History(s, direction) PROVE Goal
  <2>1. /\ queue' = [queue EXCEPT ![s] = Tail(queue[s])] /\ queue[s] # <<>>
        /\ running' = running /\ running[s] = NotStarted /\ accepted' = accepted
    BY <1>3 DEF History, AtHead
  <2>2. /\ queue \in [SessionIds -> Seq(Nat)] /\ Len(accepted) \in Nat
    BY LenProperties DEF TypeInv, TypeOK
  <2>3. HeadSettles(s)
    BY <2>1, <2>2 DEF HeadSettles
  <2>4. \A r \in SessionIds \ {s} : ChainStays(r)
    BY <2>1, <2>2 DEF ChainStays
  <2>. QED
    BY <2>1, <2>2, <2>3, <2>4 DEF ChainsMove
<1>4. CASE AnswerAtOnce(s)
  BY <1>4, <1>settle DEF AnswerAtOnce, AtHead
<1>5. CASE BackendFails(s)
  BY <1>5, <1>settle DEF BackendFails, Waiting, TypeInv, Attended
<1>6. ASSUME NEW bytes, NEW more, NEW g,
             turn' = Adding(s, bytes, more, g), turn = Idle,
             running[s] # NotStarted, UNCHANGED <<queue, running, accepted>>
      PROVE  Goal
  BY <1>6, ChainsStay DEF HeadAnswered, Adding
<1>7. ASSUME NEW bytes \in BodySizes, AnswerFocus(s, bytes) PROVE Goal
  BY <1>6, <1>7 DEF AnswerFocus, Waiting
<1>8. ASSUME NEW bytes \in BodySizes, NEW candidates \in 1..MaxCandidates,
             AnswerFollow(s, bytes, candidates)
      PROVE  Goal
  BY <1>6, <1>8 DEF AnswerFollow, Waiting
<1>. QED
  BY <1>1, <1>2, <1>3, <1>4, <1>5, <1>7, <1>8 DEF Operate

(* Every step moves the chains forward or leaves them alone.               *)
LEMMA ChainsStep == TypeInv /\ [Next]_vars => ChainsMove
<1> SUFFICES ASSUME TypeInv, [Next]_vars PROVE ChainsMove
  OBVIOUS
<1>1. CASE Tick \/ PublishGeneration \/ Arrivals \/ UNCHANGED vars
  BY <1>1, ChainsStay DEF Tick, PublishGeneration, Arrivals, Start, Close,
     Execute, Arrive, vars
<1>2. CASE Entered
  BY <1>2, ChainsStay, AcceptMoves
  DEF Entered, DeleteDoomed, Closed, StartSession, AnswerInvalidSession,
      AnswerRetained, RefuseRequest
<1>3. ASSUME NEW s \in SessionIds, Operate(s) PROVE ChainsMove
  BY <1>3, OperateMoves
<1>4. CASE Added
  <2>1. ASSUME turn.at \in {"room", "trim"}, Settle(turn.session),
               UNCHANGED accepted
        PROVE  ChainsMove
    <3>1. turn.session \in SessionIds /\ queue[turn.session] # <<>>
      BY <2>1, TurnTypes DEF TypeInv, TypeOK, Attended
    <3>. QED
      BY <2>1, <3>1, SettleMoves
  <2>2. CASE RefuseView \/ ViewAdded
    BY <2>1, <2>2, ChainsStay DEF RefuseView, ViewAdded
  <2>. QED
    BY <1>4, <2>2, ChainsStay
    DEF Added, EvictForRoom, AbandonForward, AppendView, TrimViews
<1>. QED
  BY <1>1, <1>2, <1>3, <1>4 DEF Next

(* Moving forward keeps the order.                                         *)
LEMMA MovesKeepOrder ==
  ASSUME TypeInv, TypeInv', QueuesInOrder, ChainsMove
  PROVE  QueuesInOrder'
<1> DEFINE n == Len(accepted)
           Ordered(q) == \A i, j \in 1..Len(q) : i < j => q[i] < q[j]
           Own(q, s) == \A i \in 1..Len(q) :
                          q[i] \in 1..n /\ accepted[q[i]].session = s
           OwnNow(q, s) == \A i \in 1..Len(q) :
             q[i] \in 1..Len(accepted') /\ accepted'[q[i]].session = s
<1> SUFFICES ASSUME NEW s \in SessionIds
             PROVE  OwnNow(queue'[s], s) /\ Ordered(queue'[s])
  BY DEF QueuesInOrder
<1>1. /\ queue[s] \in Seq(Nat) /\ Len(queue[s]) \in Nat
      /\ n \in Nat /\ Len(accepted') \in Nat /\ Len(accepted') >= n
      /\ \A m \in 1..n : accepted'[m] = accepted[m]
      /\ \A i \in 1..Len(queue[s]) : queue[s][i] \in Nat
  BY LenProperties, ElementOfSeq DEF TypeInv, TypeOK, ChainsMove
<1>2. Own(queue[s], s) /\ Ordered(queue[s])
  BY DEF QueuesInOrder
<1>3. \A q : Own(q, s) => OwnNow(q, s)
  BY <1>1
<1>4. CASE queue'[s] = queue[s]
  BY <1>2, <1>3, <1>4
<1>5. CASE RequestJoins(s)
  <2> DEFINE q == queue[s]
  <2>1. /\ queue'[s] = Append(q, n + 1) /\ Len(accepted') = n + 1
        /\ accepted'[n + 1].session = s
    BY <1>5 DEF RequestJoins
  <2>2. n + 1 \in Nat /\ n + 1 \in 1..(n + 1)
    BY <1>1
  <2>3. /\ Len(queue'[s]) = Len(q) + 1
        /\ \A i \in 1..Len(q) : queue'[s][i] = q[i]
        /\ queue'[s][Len(q) + 1] = n + 1
    BY <1>1, <2>1, <2>2, AppendProperties
  <2>4. \A i \in 1..Len(queue'[s]) : i \in 1..Len(q) \/ i = Len(q) + 1
    BY <1>1, <2>3
  <2>5. OwnNow(queue'[s], s)
    BY <1>1, <1>2, <1>3, <2>1, <2>2, <2>3, <2>4
  <2>6. Ordered(queue'[s])
    <3> SUFFICES ASSUME NEW i \in 1..Len(queue'[s]), NEW j \in 1..Len(queue'[s]),
                        i < j
                 PROVE  queue'[s][i] < queue'[s][j]
      OBVIOUS
    <3>1. i \in 1..Len(q)
      BY <1>1, <2>3, <2>4
    <3>2. q[i] \in 1..n
      BY <1>2, <3>1
    <3>3. CASE j = Len(q) + 1
      BY <1>1, <2>3, <3>1, <3>2, <3>3
    <3>4. CASE j \in 1..Len(q)
      BY <1>2, <2>3, <3>1, <3>4
    <3>. QED
      BY <2>4, <3>3, <3>4
  <2>. QED
    BY <2>5, <2>6
<1>6. CASE HeadSettles(s)
  <2> DEFINE q == queue[s]
  <2>1. /\ Len(queue'[s]) = Len(q) - 1
        /\ \A i \in 1..(Len(q) - 1) : queue'[s][i] = q[i + 1]
    BY <1>1, <1>6, HeadTailProperties DEF HeadSettles
  <2>2. \A i \in 1..(Len(q) - 1) : i + 1 \in 1..Len(q)
    BY <1>1
  <2>3. Own(queue'[s], s)
    BY <1>2, <2>1, <2>2
  <2>4. Ordered(queue'[s])
    <3> SUFFICES ASSUME NEW i \in 1..(Len(q) - 1), NEW j \in 1..(Len(q) - 1),
                        i < j
                 PROVE  queue'[s][i] < queue'[s][j]
      BY <2>1
    <3>1. i + 1 \in 1..Len(q) /\ j + 1 \in 1..Len(q) /\ i + 1 < j + 1
      BY <1>1
    <3>2. q[i + 1] < q[j + 1]
      BY <1>2, <3>1
    <3>. QED
      BY <2>1, <3>2
  <2>. QED
    BY <1>3, <2>3, <2>4
<1>. QED
  BY <1>4, <1>5, <1>6 DEF ChainsMove, ChainStays, HeadStarts

(* The chain of a session holds its accepted requests, each once and in    *)
(* the order of their acceptance (session.tail).  With ChainsAdvance: they *)
(* run one at a time, and what has left the chain is older than the rest.  *)
THEOREM OperationsInOrder == Spec => []QueuesInOrder
<1>1. Init => QueuesInOrder
  BY DEF Init, QueuesInOrder
<1>2. TypeInv /\ TypeInv' /\ QueuesInOrder /\ [Next]_vars => QueuesInOrder'
  BY ChainsStep, MovesKeepOrder
<1>3. Spec => []TypeInv
  BY TypeInit, TypeStep, PTL DEF Spec
<1>. QED
  BY <1>1, <1>2, <1>3, PTL DEF Spec

(* No step sets a chain back: each step of it starts its head, answers it  *)
(* or settles it, and nothing else takes an operation out of the chain or  *)
(* puts one before another (queueRequest).  With TurnsEnd this is what     *)
(* EveryRequestSettles needs of the code besides fairness.                 *)
THEOREM ChainsAdvance == Spec => [][ChainsGoOn]_vars
<1>1. TypeInv /\ [Next]_vars => [ChainsGoOn]_vars
  BY ChainsStep, OperateMoves DEF ChainsGoOn
<1>2. Spec => []TypeInv
  BY TypeInit, TypeStep, PTL DEF Spec
<1>. QED
  BY <1>1, <1>2, PTL DEF Spec

\* One session loses an entry of its history, and no other is touched.
HistoryShrinks(s) ==
  /\ Len(session'[s].history) = Len(session[s].history) - 1
  /\ \A r \in SessionIds \ {s} : session'[r] = session[r]

\* A session that is deleted loses a view, or goes.
DeletionShrinks(s) ==
  /\ s \in live
  /\ \/ live' = live \ {s}
     \/ /\ live' = live
        /\ \E v \in session[s].views :
             session'[s].views = session[s].views \ {v}
  /\ \A r \in SessionIds \ {s} : session'[r] = session[r]

(* The handler in the middle of its turn has less left to do: fewer views  *)
(* to add, or the view added and only room to restore, or a view less in a *)
(* session that is deleted or has to give one up; or it ends.              *)
NearerItsAnswer ==
  \/ turn' = Idle
  \/ turn.at = "trim" /\ turn'.at = "room" /\ turn'.more < turn.more
  \/ turn.at = "room" /\ turn' = [turn EXCEPT !.at = "trim"]
  \/ /\ turn' = turn
     /\ \E s \in SessionIds : DeletionShrinks(s) \/ HistoryShrinks(s)

(* Evicting takes one entry out of one history.                            *)
LEMMA EvictOldestShrinks ==
  ASSUME TypeInv, NEW s \in SessionIds, Evictable(s) # {}, EvictOldest(s)
  PROVE  HistoryShrinks(s)
<1>1. PICK i \in Evictable(s) :
           /\ i \in 1..Len(session[s].history)
           /\ session[s].history[i] \in Nat
           /\ session' = [session EXCEPT ![s] =
                Discarded([session[s] EXCEPT
                             !.history = RemoveAt(@, i),
                             !.position = IF i < @ THEN @ - 1 ELSE @],
                          session[s].history[i])]
  BY EvictOldestEffect
<1> DEFINE spliced == [session[s] EXCEPT
                             !.history = RemoveAt(@, i),
                             !.position = IF i < @ THEN @ - 1 ELSE @]
<1>2. /\ session \in [SessionIds -> SessionRecords]
      /\ session[s].history \in Seq(Nat)
  BY DEF TypeInv, TypeOK, SessionRecords
<1>3. Len(RemoveAt(session[s].history, i)) = Len(session[s].history) - 1
  BY <1>1, <1>2, RemoveAtProperties
<1>4. spliced.history = RemoveAt(session[s].history, i)
  BY <1>2 DEF SessionRecords
<1>5. session' = [session EXCEPT ![s] =
                    Discarded(spliced, session[s].history[i])]
  BY <1>1
<1> HIDE DEF spliced
<1>6. Discarded(spliced, session[s].history[i]).history = spliced.history
  BY DEF Discarded
<1>. QED
  BY <1>2, <1>3, <1>4, <1>5, <1>6 DEF HistoryShrinks

(* A round of deleteSession takes one view, or the session.                *)
LEMMA DeleteDoomedShrinks ==
  ASSUME TypeInv, DeleteDoomed
  PROVE  \E s \in SessionIds : DeletionShrinks(s)
<1>1. PICK s \in live : s = Min(Doomed) /\ s \in SessionIds
  BY DoomedIsSession DEF DeleteDoomed
<1>2. /\ session \in [SessionIds -> SessionRecords]
      /\ session[s] \in SessionRecords
  BY <1>1 DEF TypeInv, TypeOK
<1>3. CASE live' = live
           /\ \E v \in session[s].views :
                /\ v \in Nat
                /\ session' = [session EXCEPT ![s] = Discarded(session[s], v)]
  <2>1. PICK v \in session[s].views :
               session' = [session EXCEPT ![s] = Discarded(session[s], v)]
    BY <1>3
  <2>2. Discarded(session[s], v).views = session[s].views \ {v}
    BY <1>2 DEF Discarded, SessionRecords
  <2>. QED
    BY <1>1, <1>2, <1>3, <2>1, <2>2 DEF DeletionShrinks
<1>4. CASE /\ live' = live \ {s}
           /\ session' = [session EXCEPT
                ![s] = [NoSession EXCEPT !.queued = session[s].queued]]
  BY <1>1, <1>2, <1>4 DEF DeletionShrinks
<1>. QED
  BY <1>1, <1>3, <1>4, DeleteDoomedEffect

(* Every handler runs to its end: the loops of expireIdle, deleteSession,  *)
(* makeViewCapacity, addView and evictViews, and the candidates of a       *)
(* follow, each shrink something finite, whatever other sessions hold.     *)
THEOREM TurnsEnd == Spec => [][Entered \/ Added => NearerItsAnswer]_vars
<1>1. ASSUME TypeInv, Entered PROVE NearerItsAnswer
  <2>1. CASE DeleteDoomed
    BY <1>1, <2>1, DeleteDoomedShrinks DEF DeleteDoomed, NearerItsAnswer
  <2>2. CASE ~DeleteDoomed
    BY <1>1, <2>2 DEF Entered, Closed, StartSession, AnswerInvalidSession,
       AnswerRetained, RefuseRequest, AcceptRequest, NearerItsAnswer
  <2>. QED
    BY <2>1, <2>2
<1>2. ASSUME TypeInv, Added PROVE NearerItsAnswer
  <2>1. CASE EvictForRoom
    <3>1. Lenders \subseteq live /\ Lenders \in SUBSET Nat /\ Lenders # {}
      BY <1>2, <2>1, LiveAreSessions DEF Lenders, SessionIds, EvictForRoom
    <3>2. Min(Lenders) \in Lenders
      BY <3>1, MinOfNaturals
    <3>3. /\ Min(Lenders) \in live /\ Min(Lenders) \in SessionIds
          /\ Evictable(Min(Lenders)) # {}
      BY <1>2, <3>1, <3>2, LiveAreSessions DEF Lenders
    <3>4. HistoryShrinks(Min(Lenders))
      BY <1>2, <2>1, <3>3, EvictOldestShrinks DEF EvictForRoom
    <3>. QED
      BY <2>1, <3>3, <3>4 DEF EvictForRoom, NearerItsAnswer
  <2>2. CASE AbandonForward
    <3> DEFINE s == turn.session
               last == Len(session[s].history)
               v == session[s].history[last]
               shortened == [session[s] EXCEPT !.history = RemoveAt(@, last)]
    <3>1. /\ s \in SessionIds /\ s \in live
          /\ session \in [SessionIds -> SessionRecords]
          /\ session[s] \in SessionRecords
          /\ session[s].history \in Seq(Nat) /\ session[s].position \in Nat
      BY <1>2, <2>2, TurnTypes DEF AbandonForward, TypeInv, TypeOK, SessionRecords
    <3>2. last \in 1..last
      BY <2>2, <3>1, LenProperties DEF AbandonForward
    <3>3. /\ shortened.history = RemoveAt(session[s].history, last)
          /\ Len(RemoveAt(session[s].history, last)) = last - 1
      BY <3>1, <3>2, RemoveAtProperties DEF SessionRecords
    <3>4. session' = [session EXCEPT ![s] = Discarded(shortened, v)]
      BY <2>2 DEF AbandonForward
    <3> HIDE DEF shortened, v
    <3>5. Discarded(shortened, v).history = shortened.history
      BY DEF Discarded
    <3>6. HistoryShrinks(s)
      BY <3>1, <3>3, <3>4, <3>5 DEF HistoryShrinks
    <3>. QED
      BY <2>2, <3>1, <3>6 DEF AbandonForward, NearerItsAnswer
  <2>3. CASE TrimViews
    <3>1. turn.session \in SessionIds
      BY <1>2, <2>3, TurnTypes DEF TrimViews, TypeInv, TypeOK
    <3>2. HistoryShrinks(turn.session)
      BY <1>2, <2>3, <3>1, EvictOldestShrinks DEF TrimViews, Crowded
    <3>. QED
      BY <2>3, <3>1, <3>2 DEF TrimViews, NearerItsAnswer
  <2>4. CASE RefuseView \/ AppendView
    BY <2>4 DEF RefuseView, AppendView, NearerItsAnswer
  <2>5. CASE ViewAdded
    <3>1. turn.more \in Nat
      BY <1>2, <2>5, TurnTypes DEF ViewAdded, TypeInv, TypeOK
    <3>2. CASE turn' = Idle
      BY <3>2 DEF NearerItsAnswer
    <3>3. CASE turn' # Idle
      <4>1. PICK bytes : turn' = Adding(turn.session, bytes, turn.more - 1,
                                        turn.generation)
        BY <2>5, <3>3 DEF ViewAdded
      <4>. QED
        BY <2>5, <3>1, <4>1 DEF ViewAdded, Adding, NearerItsAnswer
    <3>. QED
      BY <3>2, <3>3
  <2>. QED
    BY <1>2, <2>1, <2>2, <2>3, <2>4, <2>5 DEF Added
<1>3. Spec => []TypeInv
  BY TypeInit, TypeStep, PTL DEF Spec
<1>. QED
  BY <1>1, <1>2, <1>3, PTL DEF Spec

=============================================================================
