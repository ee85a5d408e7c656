----------------------- MODULE SessionsHistoryProof -----------------------
(* The histories of Sessions stay coherent and evicted views stay stale,   *)
(* for every value of the limits and any number of sessions and views.     *)
EXTENDS SessionsProof

(* The record left when entry i of the history of record is evicted.       *)
Evicted(record, i) ==
  Discarded([record EXCEPT !.history = RemoveAt(@, i),
                           !.position = IF i < @ THEN @ - 1 ELSE @],
            record.history[i])

(* What eviction keeps: coherence, the partition and the shown view.       *)
EvictsOne(record, evicted, v) ==
  /\ Coherent(evicted)
  /\ v \in record.views
  /\ evicted.views = record.views \ {v}
  /\ evicted.stale = record.stale \union {v}
  /\ record.position \in DOMAIN record.history
  /\ evicted.position \in DOMAIN evicted.history
  /\ evicted.history[evicted.position] = record.history[record.position]

(* Taking one entry other than the shown one out of a coherent history.    *)
LEMMA EvictingCoherent ==
  ASSUME NEW record \in SessionRecords, Coherent(record),
         NEW i \in 1..Len(record.history), i # record.position,
         NEW evicted, evicted = Evicted(record, i)
  PROVE  EvictsOne(record, evicted, record.history[i])
<1> DEFINE h == record.history
           p == record.position
           q == IF i < p THEN p - 1 ELSE p
           g == RemoveAt(h, i)
           spliced == [record EXCEPT !.history = g, !.position = q]
<1>1. /\ h \in Seq(Nat) /\ p \in Nat /\ record.views \in SUBSET Nat
      /\ record.stale \in SUBSET Nat
  BY DEF SessionRecords
<1>2. /\ Len(h) \in Nat /\ DOMAIN h = 1..Len(h)
      /\ \A j \in 1..Len(h) : h[j] \in Nat
  BY <1>1, LenProperties, ElementOfSeq
<1>3. /\ g \in Seq(Nat)
      /\ Len(g) = Len(h) - 1
      /\ \A j \in 1..(Len(h) - 1) : g[j] = IF j < i THEN h[j] ELSE h[j + 1]
  BY <1>1, RemoveAtProperties
<1>4. DOMAIN g = 1..(Len(h) - 1)
  BY <1>3, LenProperties
<1>5. /\ Range(h) = record.views
      /\ \A j, k \in 1..Len(h) : j < k => h[j] < h[k]
      /\ p \in 1..Len(h)
  <2>1. h # <<>>
    BY <1>2
  <2>. QED
    BY <1>2, <2>1 DEF Coherent
<1>6. h[i] \in record.views
  BY <1>2, <1>5 DEF Range
<1>7. /\ evicted.history = g /\ evicted.position = q
      /\ evicted.views = record.views \ {h[i]}
      /\ evicted.stale = record.stale \union {h[i]}
  <2>1. evicted = Discarded(spliced, h[i])
    BY DEF Evicted
  <2>2. /\ spliced.history = g /\ spliced.position = q
        /\ spliced.views = record.views /\ spliced.stale = record.stale
    BY DEF SessionRecords
  <2>3. DOMAIN spliced = DOMAIN record /\ {"views", "stale", "history", "position"}
          \subseteq DOMAIN record
    BY DEF SessionRecords
  <2> HIDE DEF spliced, g, q, h
  <2>. QED
    BY <1>6, <2>1, <2>2, <2>3 DEF Discarded
<1> HIDE DEF g
<1>8. Range(g) = record.views \ {h[i]}
  <2>1. ASSUME NEW x \in Range(g) PROVE x \in record.views \ {h[i]}
    <3>1. PICK j \in 1..(Len(h) - 1) : x = g[j]
      BY <1>4, <2>1 DEF Range
    <3>2. PICK k \in 1..Len(h) : k # i /\ x = h[k]
      <4>1. CASE j < i
        BY <1>2, <1>3, <3>1, <4>1
      <4>2. CASE ~ (j < i)
        <5>1. j + 1 \in 1..Len(h) /\ j + 1 # i
          BY <1>2, <4>2
        <5>2. x = h[j + 1]
          BY <1>3, <3>1, <4>2
        <5>. QED
          BY <5>1, <5>2
      <4>. QED
        BY <4>1, <4>2
    <3>3. h[k] # h[i]
      BY <1>2, <1>5, <3>2
    <3>. QED
      BY <1>2, <1>5, <3>2, <3>3 DEF Range
  <2>2. ASSUME NEW x \in record.views \ {h[i]} PROVE x \in Range(g)
    <3>1. PICK k \in 1..Len(h) : x = h[k]
      BY <1>2, <1>5, <2>2 DEF Range
    <3>2. k # i
      BY <2>2, <3>1
    <3>3. PICK j \in 1..(Len(h) - 1) : x = g[j]
      <4>1. CASE k < i
        <5>1. k \in 1..(Len(h) - 1)
          BY <1>2, <4>1
        <5>. QED
          BY <1>3, <3>1, <4>1, <5>1
      <4>2. CASE ~ (k < i)
        <5>1. k - 1 \in 1..(Len(h) - 1) /\ ~ (k - 1 < i) /\ (k - 1) + 1 = k
          BY <1>2, <3>2, <4>2
        <5>. QED
          BY <1>3, <3>1, <5>1
      <4>. QED
        BY <4>1, <4>2
    <3>. QED
      BY <1>4, <3>3 DEF Range
  <2>. QED
    BY <2>1, <2>2
<1>9. \A j, k \in DOMAIN g : j < k => g[j] < g[k]
  <2> SUFFICES ASSUME NEW j \in 1..(Len(h) - 1), NEW k \in 1..(Len(h) - 1), j < k
               PROVE  g[j] < g[k]
    BY <1>4
  <2>1. g[j] = IF j < i THEN h[j] ELSE h[j + 1]
    BY <1>3
  <2>2. g[k] = IF k < i THEN h[k] ELSE h[k + 1]
    BY <1>3
  <2> DEFINE a == IF j < i THEN j ELSE j + 1
             b == IF k < i THEN k ELSE k + 1
  <2>3. a \in 1..Len(h) /\ b \in 1..Len(h) /\ a < b
    BY <1>2
  <2>4. g[j] = h[a] /\ g[k] = h[b]
    BY <2>1, <2>2
  <2> HIDE DEF a, b
  <2>. QED
    BY <1>5, <2>3, <2>4
<1>10. g # <<>> /\ q \in DOMAIN g
  BY <1>2, <1>3, <1>4, <1>5
<1>11. g[q] = h[p]
  <2>1. CASE i < p
    <3>1. q \in 1..(Len(h) - 1) /\ ~ (q < i) /\ q + 1 = p
      BY <1>2, <1>5, <2>1
    <3>. QED
      BY <1>3, <3>1
  <2>2. CASE ~ (i < p)
    <3>1. q \in 1..(Len(h) - 1) /\ q < i /\ q = p
      BY <1>2, <1>5, <2>2
    <3>. QED
      BY <1>3, <3>1
  <2>. QED
    BY <2>1, <2>2
<1>12. Coherent(evicted)
  BY <1>7, <1>8, <1>9, <1>10 DEF Coherent
<1>. QED
  BY <1>2, <1>5, <1>6, <1>7, <1>10, <1>11, <1>12 DEF EvictsOne

(* Appending a view newer than every retained one.                         *)
LEMMA AppendingCoherent ==
  ASSUME NEW record \in SessionRecords, Coherent(record),
         record.position = Len(record.history),
         NEW v \in Nat, \A w \in record.views : w < v,
         NEW added,
         added = [record EXCEPT !.history = Append(@, v), !.position = @ + 1,
                                !.views = @ \union {v}]
  PROVE  /\ Coherent(added)
         /\ added.views = record.views \union {v}
         /\ added.stale = record.stale
<1> DEFINE h == record.history
           g == Append(h, v)
<1>1. /\ h \in Seq(Nat) /\ record.position \in Nat
      /\ record.views \in SUBSET Nat
  BY DEF SessionRecords
<1>2. /\ Len(h) \in Nat /\ DOMAIN h = 1..Len(h)
      /\ \A j \in 1..Len(h) : h[j] \in Nat
  BY <1>1, LenProperties, ElementOfSeq
<1>3. /\ g \in Seq(Nat) /\ g # <<>> /\ Len(g) = Len(h) + 1
      /\ \A j \in 1..Len(h) : g[j] = h[j]
      /\ g[Len(h) + 1] = v
  <2> HIDE DEF h
  <2>. QED
    BY <1>1, AppendProperties
<1>4. DOMAIN g = 1..(Len(h) + 1)
  BY <1>3, LenProperties
<1>5. /\ added.history = g /\ added.position = Len(h) + 1
      /\ added.views = record.views \union {v}
      /\ added.stale = record.stale
  BY DEF SessionRecords
<1> HIDE DEF g
<1>6. Range(h) = record.views /\ \A j, k \in 1..Len(h) : j < k => h[j] < h[k]
  BY <1>2 DEF Coherent
<1>7. Range(g) = record.views \union {v}
  <2>1. ASSUME NEW x \in Range(g) PROVE x \in record.views \union {v}
    BY <1>2, <1>3, <1>4, <1>6, <2>1 DEF Range
  <2>2. ASSUME NEW x \in record.views \union {v} PROVE x \in Range(g)
    <3>1. CASE x = v
      BY <1>2, <1>3, <1>4, <3>1 DEF Range
    <3>2. CASE x \in record.views
      <4>1. PICK j \in 1..Len(h) : x = h[j]
        BY <1>2, <1>6, <3>2 DEF Range
      <4>2. j \in DOMAIN g /\ g[j] = x
        BY <1>2, <1>3, <1>4, <4>1
      <4>. QED
        BY <4>2 DEF Range
    <3>. QED
      BY <2>2, <3>1, <3>2
  <2>. QED
    BY <2>1, <2>2
<1>8. \A j, k \in DOMAIN g : j < k => g[j] < g[k]
  <2> SUFFICES ASSUME NEW j \in 1..(Len(h) + 1), NEW k \in 1..(Len(h) + 1), j < k
               PROVE  g[j] < g[k]
    BY <1>4
  <2>1. j \in 1..Len(h) /\ g[j] = h[j] /\ h[j] \in record.views
    BY <1>2, <1>3, <1>6 DEF Range
  <2>2. CASE k = Len(h) + 1
    BY <1>3, <2>1, <2>2
  <2>3. CASE k # Len(h) + 1
    <3>1. k \in 1..Len(h)
      BY <1>2, <2>3
    <3>. QED
      BY <1>3, <1>6, <2>1, <3>1
  <2>. QED
    BY <2>2, <2>3
<1>9. added.position \in DOMAIN g
  BY <1>2, <1>4, <1>5
<1>. QED
  BY <1>3, <1>5, <1>7, <1>8, <1>9 DEF Coherent

-----------------------------------------------------------------------------
(* The inductive invariant.  A history is coherent outside the deletion of *)
(* its session, the views a session was given are partitioned into the     *)
(* retained and the stale ones, and no view was minted for a session that  *)
(* is yet to start (a fresh session was given nothing).  A session whose   *)
(* views are being trimmed is still live.                                  *)

MintedForStarted == \A v \in DOMAIN minted : minted[v].session \in 1..started

TrimmingLive == turn.at = "trim" => turn.session \in live

ViewInv ==
  /\ TypeInv
  /\ HistoryCoherent
  /\ EvictedViewsAreStale
  /\ MintedForStarted
  /\ TrimmingLive

(* What a step must preserve, its types apart.                             *)
ViewsKept == HistoryCoherent /\ EvictedViewsAreStale /\ MintedForStarted

(* Only starts, requests and closing connections delete sessions.           *)
LEMMA NobodyDoomed ==
  ASSUME turn.at \notin {"start", "close", "execute"}
  PROVE  Doomed = {}
BY DEF Doomed

(* Between deletions the history of every live session is coherent.         *)
LEMMA LiveCoherent ==
  ASSUME ViewInv, Doomed = {}, NEW s \in live
  PROVE  Coherent(session[s])
BY DEF ViewInv, HistoryCoherent, Settled

(* Steps that leave what a session retains and shows alone.                *)
LEMMA FrameKeeps ==
  ASSUME ViewInv, Doomed = {}, live' \subseteq live,
         UNCHANGED <<minted, started>>,
         \A r \in live : /\ session'[r].views = session[r].views
                         /\ session'[r].stale = session[r].stale
                         /\ session'[r].history = session[r].history
                         /\ session'[r].position = session[r].position
  PROVE  ViewsKept'
<1>1. \A r \in live' : Coherent(session[r])
  BY LiveCoherent
<1>2. \A r \in live' : Coherent(session'[r])
  BY <1>1 DEF Coherent
<1>3. HistoryCoherent'
  BY <1>2 DEF HistoryCoherent, Settled
<1>4. EvictedViewsAreStale'
  BY DEF ViewInv, EvictedViewsAreStale, GivenTo
<1>5. MintedForStarted'
  BY DEF ViewInv, MintedForStarted
<1>. QED
  BY <1>3, <1>4, <1>5 DEF ViewsKept

(* Steps that take one entry other than the shown one out of a history.    *)
LEMMA EvictionKeeps ==
  ASSUME ViewInv, Doomed = {}, UNCHANGED <<live, minted, started>>,
         NEW s \in live, NEW i \in 1..Len(session[s].history),
         i # session[s].position,
         session' = [session EXCEPT ![s] = Evicted(session[s], i)]
  PROVE  ViewsKept'
<1> DEFINE evicted == Evicted(session[s], i)
<1>1. /\ s \in SessionIds /\ session[s] \in SessionRecords
      /\ session \in [SessionIds -> SessionRecords]
      /\ live \subseteq SessionIds
  BY LiveAreSessions DEF ViewInv, TypeInv, TypeOK
<1>2. Coherent(session[s])
  BY LiveCoherent
<1>3. EvictsOne(session[s], evicted, session[s].history[i])
  BY <1>1, <1>2, EvictingCoherent
<1>4. session'[s] = evicted /\ \A r \in live : r # s => session'[r] = session[r]
  BY <1>1
<1> HIDE DEF evicted
<1>5. \A r \in live : Coherent(session'[r])
  BY <1>3, <1>4, LiveCoherent DEF EvictsOne
<1>6. HistoryCoherent'
  BY <1>5 DEF HistoryCoherent, Settled
<1>7. EvictedViewsAreStale'
  <2> SUFFICES ASSUME NEW r \in live
               PROVE  /\ session'[r].views \intersect session'[r].stale = {}
                      /\ session'[r].views \union session'[r].stale = GivenTo(r)
    BY DEF EvictedViewsAreStale, GivenTo
  <2>1. /\ session[r].views \intersect session[r].stale = {}
        /\ session[r].views \union session[r].stale = GivenTo(r)
    BY DEF ViewInv, EvictedViewsAreStale
  <2>2. PICK v \in session[s].views :
          /\ evicted.views = session[s].views \ {v}
          /\ evicted.stale = session[s].stale \union {v}
    BY <1>3 DEF EvictsOne
  <2>. QED
    BY <1>4, <2>1, <2>2
<1>8. MintedForStarted'
  BY DEF ViewInv, MintedForStarted
<1>. QED
  BY <1>6, <1>7, <1>8 DEF ViewsKept

(* The last round of a deletion, and those that discard a view.            *)
LEMMA DeletionKeeps ==
  ASSUME ViewInv, DeleteDoomed
  PROVE  ViewsKept'
<1> DEFINE s == Min(Doomed)
<1>1. s \in Doomed /\ s \in live /\ s \in SessionIds
  BY DoomedIsSession DEF DeleteDoomed, ViewInv
<1>2. /\ session[s] \in SessionRecords
      /\ session \in [SessionIds -> SessionRecords]
      /\ live \subseteq SessionIds
  BY <1>1, LiveAreSessions DEF ViewInv, TypeInv, TypeOK
<1>3. UNCHANGED <<now, turn, minted, started>>
  BY DEF DeleteDoomed
<1>4. \/ /\ live' = live
         /\ \E v \in session[s].views :
              /\ v \in Nat
              /\ session' = [session EXCEPT ![s] = Discarded(session[s], v)]
      \/ /\ live' = live \ {s}
         /\ session' = [session EXCEPT
              ![s] = [NoSession EXCEPT !.queued = session[s].queued]]
  BY DeleteDoomedEffect DEF ViewInv
<1> HIDE DEF s
<1>5. live' \subseteq live /\ \A r \in live : r # s => session'[r] = session[r]
  BY <1>1, <1>2, <1>4
<1>6. MintedForStarted'
  BY <1>3 DEF ViewInv, MintedForStarted
<1>7. CASE /\ live' = live
           /\ \E v \in session[s].views :
                /\ v \in Nat
                /\ session' = [session EXCEPT ![s] = Discarded(session[s], v)]
  <2>1. PICK v \in session[s].views :
           session' = [session EXCEPT ![s] = Discarded(session[s], v)]
    BY <1>7
  <2>2. /\ session'[s].owner = session[s].owner
        /\ session'[s].lastAcceptedAt = session[s].lastAcceptedAt
        /\ session'[s].views = session[s].views \ {v}
        /\ session'[s].stale = session[s].stale \union {v}
    BY <1>1, <1>2, <2>1 DEF Discarded, SessionRecords
  <2>3. Doomed' = Doomed
    BY <1>3, <1>5, <1>7, <2>2 DEF Doomed
  <2>4. HistoryCoherent'
    BY <1>1, <1>5, <1>7, <2>3 DEF ViewInv, HistoryCoherent, Settled
  <2>5. EvictedViewsAreStale'
    BY <1>1, <1>3, <1>5, <1>7, <2>1, <2>2
    DEF ViewInv, EvictedViewsAreStale, GivenTo
  <2>. QED
    BY <1>6, <2>4, <2>5 DEF ViewsKept
<1>8. CASE live' = live \ {s}
  <2>1. \A r \in live' : r \in live /\ session'[r] = session[r]
    BY <1>5, <1>8
  <2>2. \A r \in live' : r \in Doomed => r \in Doomed'
    BY <1>3, <2>1 DEF Doomed
  <2>3. HistoryCoherent'
    BY <2>1, <2>2 DEF ViewInv, HistoryCoherent, Settled
  <2>4. EvictedViewsAreStale'
    BY <1>3, <2>1 DEF ViewInv, EvictedViewsAreStale, GivenTo
  <2>. QED
    BY <1>6, <2>3, <2>4 DEF ViewsKept
<1>. QED
  BY <1>4, <1>7, <1>8

(* A new view at the end of a history.                                     *)
LEMMA AppendKeeps ==
  ASSUME ViewInv, AppendView
  PROVE  ViewsKept'
<1> DEFINE s == turn.session
           v == Len(minted) + 1
           added == [session[s] EXCEPT !.history = Append(@, v),
                                       !.position = @ + 1,
                                       !.views = @ \union {v}]
<1>1. /\ s \in live /\ Doomed = {} /\ UNCHANGED <<live, started>>
      /\ session[s].position = Len(session[s].history)
  BY NobodyDoomed DEF AppendView
<1>2. /\ s \in SessionIds /\ v \in Nat
      /\ session' = [session EXCEPT ![s] = added]
      /\ DOMAIN minted = 1..Len(minted) /\ DOMAIN minted' = 1..v
      /\ \A w \in DOMAIN minted : minted'[w] = minted[w]
      /\ minted'[v].session = s
  BY AppendViewEffect DEF ViewInv
<1>3. /\ session \in [SessionIds -> SessionRecords]
      /\ session[s] \in SessionRecords
      /\ live \subseteq SessionIds /\ live \subseteq 1..started
      /\ Len(minted) \in Nat
  BY <1>2, LiveAreSessions, LenProperties DEF ViewInv, TypeInv, TypeOK
<1>4. \A w \in session[s].views : w < v
  BY <1>2, <1>3 DEF ViewInv, TypeInv, ViewsMinted
<1>5. Coherent(session[s])
  BY <1>1, LiveCoherent
<1>6. /\ Coherent(added)
      /\ added.views = session[s].views \union {v}
      /\ added.stale = session[s].stale
  BY <1>1, <1>2, <1>3, <1>4, <1>5, AppendingCoherent
<1> HIDE DEF added
<1>7. session'[s] = added /\ \A r \in live : r # s => session'[r] = session[r]
  BY <1>2, <1>3
<1>8. HistoryCoherent'
  <2>1. \A r \in live : Coherent(session'[r])
    BY <1>1, <1>6, <1>7, LiveCoherent
  <2>. QED
    BY <1>1, <2>1 DEF HistoryCoherent, Settled
<1>9. DOMAIN minted' = DOMAIN minted \union {v} /\ v \notin DOMAIN minted
  BY <1>2, <1>3
<1> HIDE DEF v
<1>10. EvictedViewsAreStale'
  <2> SUFFICES ASSUME NEW r \in live
               PROVE  /\ session'[r].views \intersect session'[r].stale = {}
                      /\ session'[r].views \union session'[r].stale
                           = (GivenTo(r))'
    BY <1>1 DEF EvictedViewsAreStale
  <2>1. /\ session[r].views \intersect session[r].stale = {}
        /\ session[r].views \union session[r].stale = GivenTo(r)
    BY DEF ViewInv, EvictedViewsAreStale
  <2>2. (GivenTo(r))' = IF r = s THEN GivenTo(r) \union {v} ELSE GivenTo(r)
    BY <1>2, <1>9 DEF GivenTo
  <2>3. v \notin GivenTo(r)
    BY <1>9 DEF GivenTo
  <2>4. CASE r = s
    BY <1>6, <1>7, <2>1, <2>2, <2>3, <2>4
  <2>5. CASE r # s
    BY <1>7, <2>1, <2>2, <2>5
  <2>. QED
    BY <2>4, <2>5
<1>11. MintedForStarted'
  BY <1>1, <1>2, <1>3, <1>9 DEF ViewInv, MintedForStarted
<1>. QED
  BY <1>8, <1>10, <1>11 DEF ViewsKept

(* A fresh session was given no view.                                      *)
LEMMA StartKeeps ==
  ASSUME ViewInv, StartSession
  PROVE  ViewsKept'
<1> DEFINE s == started + 1
<1>1. Doomed = {} /\ UNCHANGED minted /\ started < SessionBound
  BY DEF StartSession, ViewInv, TypeInv, Attended
<1>2. CASE Cardinality(live) >= MaxSessions
  BY <1>1, <1>2, FrameKeeps DEF StartSession
<1>3. CASE ~ (Cardinality(live) >= MaxSessions)
  <2>1. /\ started' = s /\ live' = live \union {s}
        /\ session' = [session EXCEPT
             ![s] = [NoSession EXCEPT !.owner = turn.connection,
                                      !.lastAcceptedAt = now]]
    BY <1>3 DEF StartSession
  <2>2. /\ started \in Nat /\ live \subseteq 1..started /\ s \in SessionIds
        /\ session \in [SessionIds -> SessionRecords]
    BY <1>1, LimitsAssumption
    DEF ViewInv, TypeInv, TypeOK, SessionIds, LimitsAssumption
  <2>3. s \notin live
    BY <2>2
  <2>4. /\ session'[s].views = {} /\ session'[s].stale = {}
        /\ session'[s].history = <<>> /\ session'[s].position = 0
        /\ \A r \in live : session'[r] = session[r]
    BY <2>1, <2>2, <2>3, LiveAreSessions DEF NoSession, ViewInv
  <2>5. Coherent(session'[s])
    BY <2>4, EmptySeq DEF Coherent, Range
  <2>6. HistoryCoherent'
    <3>1. \A r \in live' : Coherent(session'[r])
      BY <1>1, <2>1, <2>4, <2>5, LiveCoherent
    <3>. QED
      BY <3>1 DEF HistoryCoherent, Settled
  <2>7. GivenTo(s) = {}
    BY <2>2 DEF ViewInv, MintedForStarted, GivenTo
  <2>8. \A r : (GivenTo(r))' = GivenTo(r)
    BY <1>1 DEF GivenTo
  <2> HIDE DEF s
  <2>9. EvictedViewsAreStale'
    BY <2>1, <2>4, <2>7, <2>8 DEF ViewInv, EvictedViewsAreStale
  <2>10. MintedForStarted'
    BY <1>1, <2>1, <2>2 DEF ViewInv, MintedForStarted, s
  <2>. QED
    BY <2>6, <2>9, <2>10 DEF ViewsKept
<1>. QED
  BY <1>2, <1>3

(* Back and Forward move within the history.                               *)
LEMMA HistoryKeeps ==
  ASSUME ViewInv, NEW s \in SessionIds, NEW direction \in Directions,
         History(s, direction)
  PROVE  ViewsKept'
<1>1. Doomed = {} /\ UNCHANGED <<live, minted, started>>
  BY NobodyDoomed DEF History, AtHead, Idle
<1>2. /\ session \in [SessionIds -> SessionRecords]
      /\ session[s] \in SessionRecords /\ live \subseteq SessionIds
  BY LiveAreSessions DEF ViewInv, TypeInv, TypeOK
<1>3. /\ session'[s].views = session[s].views
      /\ session'[s].stale = session[s].stale
      /\ session'[s].history = session[s].history
      /\ session'[s].position = Restored(s, direction)
      /\ \A r \in live : r # s => session'[r] = session[r]
  BY <1>2 DEF History, SessionRecords
<1>4. \A r \in live : Coherent(session'[r])
  <2> SUFFICES ASSUME NEW r \in live PROVE Coherent(session'[r])
    OBVIOUS
  <2>1. Coherent(session[r])
    BY <1>1, LiveCoherent
  <2>2. CASE r = s
    <3>1. session'[r].position = session[r].position
          \/ session'[r].position \in DOMAIN session[r].history
      BY <1>3, <2>2 DEF Restored
    <3>2. session[r].history = <<>> => DOMAIN session[r].history = {}
      OBVIOUS
    <3>. QED
      BY <1>3, <2>1, <2>2, <3>1, <3>2 DEF Coherent
  <2>3. CASE r # s
    BY <1>3, <2>1, <2>3
  <2>. QED
    BY <2>2, <2>3
<1>5. HistoryCoherent'
  BY <1>1, <1>4 DEF HistoryCoherent, Settled
<1>6. EvictedViewsAreStale'
  BY <1>1, <1>3 DEF ViewInv, EvictedViewsAreStale, GivenTo
<1>7. MintedForStarted'
  BY <1>1 DEF ViewInv, MintedForStarted
<1>. QED
  BY <1>5, <1>6, <1>7 DEF ViewsKept

(* Evicting the oldest entry of any live session.                          *)
LEMMA EvictOldestKeeps ==
  ASSUME ViewInv, Doomed = {}, NEW s \in live, Evictable(s) # {},
         EvictOldest(s), UNCHANGED <<live, minted, started>>
  PROVE  ViewsKept'
<1>1. s \in SessionIds
  BY LiveAreSessions DEF ViewInv
<1>2. PICK i \in Evictable(s) :
           /\ i \in 1..Len(session[s].history)
           /\ session' = [session EXCEPT ![s] = Evicted(session[s], i)]
  BY <1>1, EvictOldestEffect DEF ViewInv, Evicted
<1>3. i # session[s].position
  BY DEF Evictable
<1>. QED
  BY <1>2, <1>3, EvictionKeeps

(* Abandoning the last entry of the forward branch.                        *)
LEMMA AbandonKeeps ==
  ASSUME ViewInv, AbandonForward
  PROVE  ViewsKept'
<1> DEFINE s == turn.session
           last == Len(session[s].history)
<1>1. /\ Doomed = {} /\ s \in live /\ UNCHANGED <<live, minted, started>>
      /\ session[s].position < last
  BY NobodyDoomed DEF AbandonForward
<1>2. /\ session[s] \in SessionRecords /\ session[s].history \in Seq(Nat)
      /\ session[s].position \in Nat
  BY <1>1, LiveAreSessions DEF ViewInv, TypeInv, TypeOK, SessionRecords
<1>3. last \in 1..last /\ last # session[s].position
      /\ ~ (last < session[s].position)
  BY <1>1, <1>2, LenProperties
<1>4. [session[s] EXCEPT !.history = RemoveAt(@, last)]
       = [session[s] EXCEPT !.history = RemoveAt(@, last),
                            !.position = IF last < @ THEN @ - 1 ELSE @]
  BY <1>2, <1>3 DEF SessionRecords
<1>5. session' = [session EXCEPT ![s] = Evicted(session[s], last)]
  BY <1>4 DEF AbandonForward, Evicted
<1>. QED
  BY <1>1, <1>3, <1>5, EvictionKeeps

(* The view invariant holds at the start.                                   *)
LEMMA ViewInit == Init => ViewInv
<1> SUFFICES ASSUME Init PROVE ViewInv
  OBVIOUS
<1>1. live = {} /\ DOMAIN minted = {}
  BY DEF Init
<1>. QED
  BY <1>1, TypeInit
  DEF Init, Idle, ViewInv, HistoryCoherent, Settled, EvictedViewsAreStale,
      MintedForStarted, TrimmingLive

(* The session whose history is being trimmed is live.                      *)
LEMMA TrimmingStep == TrimmingLive /\ [Next]_vars => TrimmingLive'
<1> SUFFICES ASSUME TrimmingLive, [Next]_vars PROVE TrimmingLive'
  OBVIOUS
<1> USE DEF TrimmingLive, Idle
<1>1. CASE Tick \/ PublishGeneration \/ Closed \/ StartSession
           \/ AnswerInvalidSession \/ AnswerRetained \/ RefuseRequest
           \/ AcceptRequest \/ RefuseView
  BY <1>1 DEF Tick, PublishGeneration, Closed, StartSession,
       AnswerInvalidSession, AnswerRetained, RefuseRequest, AcceptRequest,
       RefuseView
<1>2. CASE Arrivals
  BY <1>2 DEF Arrivals, Start, Close, Execute, Arrive
<1>3. CASE DeleteDoomed
  BY <1>3, NobodyDoomed DEF DeleteDoomed
<1>4. ASSUME NEW s \in SessionIds, Operate(s) PROVE TrimmingLive'
  <2>1. /\ turn = Idle
        /\ \/ turn' = turn
           \/ \E bytes, more, g : turn' = Adding(s, bytes, more, g)
    <3>1. CASE Focus(s) \/ \E v \in 0..Len(minted) : Follow(s, v)
      BY <3>1 DEF Focus, Follow, AtHead
    <3>2. CASE \E direction \in Directions : History(s, direction)
      BY <3>2 DEF History, AtHead
    <3>3. CASE AnswerAtOnce(s) \/ BackendFails(s)
      BY <3>3 DEF AnswerAtOnce, BackendFails, AtHead, Waiting
    <3>4. CASE \E bytes \in BodySizes : AnswerFocus(s, bytes)
      BY <3>4 DEF AnswerFocus, Waiting
    <3>5. CASE \E bytes \in BodySizes, candidates \in 1..MaxCandidates :
                 AnswerFollow(s, bytes, candidates)
      BY <3>5 DEF AnswerFollow, Waiting
    <3>. QED
      BY <1>4, <3>1, <3>2, <3>3, <3>4, <3>5 DEF Operate
  <2>. QED
    BY <2>1 DEF Adding
<1>5. CASE EvictForRoom \/ AbandonForward \/ TrimViews
  BY <1>5 DEF EvictForRoom, AbandonForward, TrimViews
<1>6. CASE AppendView
  <2>1. turn'.session = turn.session
    BY <1>6 DEF AppendView
  <2>. QED
    BY <1>6, <2>1 DEF AppendView
<1>7. CASE ViewAdded
  BY <1>7 DEF ViewAdded, Adding
<1>8. CASE UNCHANGED vars
  BY <1>8 DEF vars
<1>. QED
  BY <1>1, <1>2, <1>3, <1>4, <1>5, <1>6, <1>7, <1>8 DEF Next, Entered, Added

(* Every step of every handler preserves the view invariant.                *)
LEMMA ViewStep == ViewInv /\ [Next]_vars => ViewInv'
<1> SUFFICES ASSUME ViewInv, [Next]_vars PROVE ViewsKept'
  BY TypeStep, TrimmingStep DEF ViewInv, ViewsKept
<1>live. live \subseteq SessionIds
  BY LiveAreSessions DEF ViewInv
<1>idle. turn = Idle => Doomed = {}
  BY NobodyDoomed DEF Idle
<1>1. CASE Tick
  BY <1>1, <1>idle, FrameKeeps DEF Tick
<1>2. CASE PublishGeneration
  BY <1>2, <1>idle, FrameKeeps DEF PublishGeneration
<1>3. CASE Arrivals
  <2>1. Doomed = {} /\ UNCHANGED <<live, minted, started, session>>
    BY <1>3, <1>idle DEF Arrivals, Start, Close, Execute, Arrive
  <2>. QED
    BY <2>1, FrameKeeps
<1>4. CASE DeleteDoomed
  BY <1>4, DeletionKeeps
<1>5. CASE Closed
  BY <1>5, FrameKeeps DEF Closed
<1>6. CASE StartSession
  BY <1>6, StartKeeps
<1>7. CASE AnswerInvalidSession
  BY <1>7, FrameKeeps DEF AnswerInvalidSession, Executing
<1>8. CASE AnswerRetained \/ RefuseRequest \/ AcceptRequest
  <2>1. /\ Doomed = {} /\ UNCHANGED <<live, minted, started>>
        /\ turn.session \in SessionIds
    BY <1>8, <1>live
    DEF AnswerRetained, RefuseRequest, AcceptRequest, Executing, Owned
  <2>2. session[turn.session] \in SessionRecords
        /\ session \in [SessionIds -> SessionRecords]
    BY <2>1 DEF ViewInv, TypeInv, TypeOK
  <2>3. \A r \in live : /\ session'[r].views = session[r].views
                        /\ session'[r].stale = session[r].stale
                        /\ session'[r].history = session[r].history
                        /\ session'[r].position = session[r].position
    <3> DEFINE s == turn.session
    <3>1. CASE session' = [session EXCEPT ![s].requests = Unexpired(s)]
      BY <1>live, <2>1, <2>2, <3>1 DEF SessionRecords
    <3>2. CASE AcceptRequest
      <4> DEFINE entry == [request |-> turn.request,
                           operation |-> Len(accepted) + 1,
                           expiresAt |-> now + Retention]
                 kept == Trimmed(Unexpired(s) \union {entry})
                 accepting == [session[s] EXCEPT !.lastAcceptedAt = now,
                                                 !.queued = @ + 1,
                                                 !.requests = kept]
      <4>1. session' = [session EXCEPT ![s] = accepting]
        BY <2>1, <2>2, <3>2 DEF AcceptRequest
      <4> HIDE DEF kept
      <4>2. /\ accepting.views = session[s].views
            /\ accepting.stale = session[s].stale
            /\ accepting.history = session[s].history
            /\ accepting.position = session[s].position
        BY <2>2 DEF SessionRecords
      <4> HIDE DEF accepting
      <4>. QED
        BY <1>live, <2>1, <2>2, <4>1, <4>2
    <3>. QED
      BY <1>8, <3>1, <3>2 DEF AnswerRetained, RefuseRequest
  <2>. QED
    BY <2>1, <2>3, FrameKeeps
<1>settle. ASSUME NEW s \in SessionIds, Settle(s), Doomed = {},
                  UNCHANGED <<live, minted, started>>
           PROVE  ViewsKept'
  <2>1. \A r \in live : /\ session'[r].views = session[r].views
                        /\ session'[r].stale = session[r].stale
                        /\ session'[r].history = session[r].history
                        /\ session'[r].position = session[r].position
    BY <1>settle, <1>live, SettleKeeps DEF ViewInv
  <2>. QED
    BY <1>settle, <2>1, FrameKeeps
<1>9. ASSUME NEW s \in SessionIds, Operate(s) PROVE ViewsKept'
  <2>1. CASE Focus(s)
    BY <1>idle, <2>1, FrameKeeps DEF Focus, AtHead, Dispatch
  <2>2. CASE \E v \in 0..Len(minted) : Follow(s, v)
    <3>1. /\ Doomed = {} /\ UNCHANGED <<live, minted, started>>
          /\ Dispatch(s) \/ Settle(s)
      BY <1>idle, <2>2 DEF Follow, AtHead
    <3>2. CASE Dispatch(s)
      BY <3>1, <3>2, FrameKeeps DEF Dispatch
    <3>. QED
      BY <1>settle, <3>1, <3>2
  <2>3. CASE \E direction \in Directions : History(s, direction)
    BY <2>3, HistoryKeeps
  <2>4. CASE AnswerAtOnce(s)
    BY <1>idle, <1>settle, <2>4 DEF AnswerAtOnce, AtHead
  <2>5. CASE BackendFails(s)
    BY <1>idle, <1>settle, <2>5 DEF BackendFails, Waiting
  <2>6. CASE \E bytes \in BodySizes : AnswerFocus(s, bytes)
    BY <1>idle, <2>6, FrameKeeps DEF AnswerFocus, Waiting
  <2>7. CASE \E bytes \in BodySizes, candidates \in 1..MaxCandidates :
               AnswerFollow(s, bytes, candidates)
    BY <1>idle, <2>7, FrameKeeps DEF AnswerFollow, Waiting
  <2>. QED
    BY <1>9, <2>1, <2>2, <2>3, <2>4, <2>5, <2>6, <2>7 DEF Operate
<1>10. CASE EvictForRoom
  <2>1. Doomed = {} /\ UNCHANGED <<live, minted, started>>
        /\ Lenders # {} /\ EvictOldest(Min(Lenders))
    BY <1>10, NobodyDoomed DEF EvictForRoom
  <2>2. Lenders \in SUBSET Nat
    <3>1. Lenders \subseteq live
      BY DEF Lenders
    <3>2. live \subseteq Nat
      BY <1>live DEF SessionIds
    <3>. QED
      BY <3>1, <3>2
  <2>3. Min(Lenders) \in Lenders
    BY <2>1, <2>2, MinOfNaturals
  <2>. QED
    BY <2>1, <2>3, EvictOldestKeeps DEF Lenders
<1>11. CASE RefuseView
  <2>1. turn.session \in SessionIds /\ Doomed = {}
    BY <1>11, TurnTypes, NobodyDoomed DEF RefuseView, ViewInv, TypeInv, TypeOK
  <2>. QED
    BY <1>11, <1>settle, <2>1 DEF RefuseView
<1>12. CASE AbandonForward
  BY <1>12, AbandonKeeps
<1>13. CASE AppendView
  BY <1>13, AppendKeeps
<1>14. CASE TrimViews
  <2>1. /\ turn.session \in live /\ Doomed = {}
        /\ UNCHANGED <<live, minted, started>>
        /\ Evictable(turn.session) # {} /\ EvictOldest(turn.session)
    BY <1>14, NobodyDoomed DEF TrimViews, Crowded, ViewInv, TrimmingLive
  <2>. QED
    BY <2>1, EvictOldestKeeps
<1>15. CASE ViewAdded
  <2>1. turn.session \in SessionIds /\ Doomed = {}
        /\ UNCHANGED <<live, minted, started>>
    BY <1>15, TurnTypes, NobodyDoomed DEF ViewAdded, ViewInv, TypeInv, TypeOK
  <2>2. CASE UNCHANGED session
    BY <2>1, <2>2, FrameKeeps
  <2>. QED
    BY <1>15, <1>settle, <2>1, <2>2 DEF ViewAdded
<1>16. CASE UNCHANGED vars
  <2>1. Doomed' = Doomed
    BY <1>16 DEF vars, Doomed
  <2>. QED
    BY <1>16, <2>1
    DEF vars, ViewsKept, ViewInv, HistoryCoherent, Settled, GivenTo,
        EvictedViewsAreStale, MintedForStarted, Coherent
<1>. QED
  BY <1>1, <1>2, <1>3, <1>4, <1>5, <1>6, <1>7, <1>8, <1>9, <1>10, <1>11,
     <1>12, <1>13, <1>14, <1>15, <1>16
  DEF Next, Entered, Added

(* Histories and view maps agree after any interleaving of requests,       *)
(* evictions that reach into other sessions, expiries and disconnections.  *)
THEOREM HistoriesStayCoherent == Spec => []HistoryCoherent
<1>1. ViewInv => HistoryCoherent
  BY DEF ViewInv
<1>. QED
  BY <1>1, ViewInit, ViewStep, PTL DEF Spec

(* A view a live session was given is retained or answered stale_view,     *)
(* and never both: an evicted identifier does not come back to life.       *)
THEOREM EvictedStayStale == Spec => []EvictedViewsAreStale
<1>1. ViewInv => EvictedViewsAreStale
  BY DEF ViewInv
<1>. QED
  BY <1>1, ViewInit, ViewStep, PTL DEF Spec

-----------------------------------------------------------------------------
(* The view a session shows.                                               *)

(* A session whose history and position stay shows the same view.           *)
LEMMA SameShown ==
  ASSUME NEW r, session'[r].history = session[r].history,
         session'[r].position = session[r].position
  PROVE  Shown(r)' = Shown(r)
BY DEF Shown

(* Evicting an entry other than the shown one changes no shown view.        *)
LEMMA EvictionShows ==
  ASSUME ViewInv, Doomed = {}, NEW s \in live,
         NEW i \in 1..Len(session[s].history), i # session[s].position,
         session' = [session EXCEPT ![s] = Evicted(session[s], i)],
         NEW r \in live
  PROVE  Shown(r)' = Shown(r)
<1> DEFINE evicted == Evicted(session[s], i)
<1>1. /\ s \in SessionIds /\ session[s] \in SessionRecords
      /\ session \in [SessionIds -> SessionRecords]
      /\ live \subseteq SessionIds
  BY LiveAreSessions DEF ViewInv, TypeInv, TypeOK
<1>2. Coherent(session[s])
  BY LiveCoherent
<1>3. /\ session[s].position \in DOMAIN session[s].history
      /\ evicted.position \in DOMAIN evicted.history
      /\ evicted.history[evicted.position]
           = session[s].history[session[s].position]
  <2>1. EvictsOne(session[s], evicted, session[s].history[i])
    BY <1>1, <1>2, EvictingCoherent
  <2>. QED
    BY <2>1 DEF EvictsOne
<1>4. session'[s] = evicted /\ (r # s => session'[r] = session[r])
  BY <1>1
<1> HIDE DEF evicted
<1>5. CASE r = s
  BY <1>3, <1>4, <1>5 DEF Shown
<1>6. CASE r # s
  BY <1>4, <1>6, SameShown
<1>. QED
  BY <1>5, <1>6

(* evictViews and makeViewCapacity change no shown view.                    *)
LEMMA EvictOldestShows ==
  ASSUME ViewInv, Doomed = {}, NEW s \in live, Evictable(s) # {},
         EvictOldest(s), NEW r \in live
  PROVE  Shown(r)' = Shown(r)
<1>1. s \in SessionIds
  BY LiveAreSessions DEF ViewInv
<1>2. PICK i \in Evictable(s) :
           /\ i \in 1..Len(session[s].history)
           /\ session' = [session EXCEPT ![s] = Evicted(session[s], i)]
  BY <1>1, EvictOldestEffect DEF ViewInv, Evicted
<1>3. i # session[s].position
  BY DEF Evictable
<1>. QED
  BY <1>2, <1>3, EvictionShows

(* Abandoning the forward branch changes no shown view.                     *)
LEMMA AbandonShows ==
  ASSUME ViewInv, AbandonForward, NEW r \in live
  PROVE  Shown(r)' = Shown(r)
<1> DEFINE s == turn.session
           last == Len(session[s].history)
<1>1. Doomed = {} /\ s \in live /\ session[s].position < last
  BY NobodyDoomed DEF AbandonForward
<1>2. /\ session[s] \in SessionRecords /\ session[s].history \in Seq(Nat)
      /\ session[s].position \in Nat
  BY <1>1, LiveAreSessions DEF ViewInv, TypeInv, TypeOK, SessionRecords
<1>3. last \in 1..last /\ last # session[s].position
      /\ ~ (last < session[s].position)
  BY <1>1, <1>2, LenProperties
<1>4. [session[s] EXCEPT !.history = RemoveAt(@, last)]
       = [session[s] EXCEPT !.history = RemoveAt(@, last),
                            !.position = IF last < @ THEN @ - 1 ELSE @]
  BY <1>2, <1>3 DEF SessionRecords
<1>5. session' = [session EXCEPT ![s] = Evicted(session[s], last)]
  BY <1>4 DEF AbandonForward, Evicted
<1>. QED
  BY <1>1, <1>3, <1>5, EvictionShows

(* Deleting a session changes no view another session shows.                *)
LEMMA DeletionShows ==
  ASSUME ViewInv, DeleteDoomed, NEW r \in live \intersect live'
  PROVE  Shown(r)' = Shown(r)
<1> DEFINE s == Min(Doomed)
<1>1. s \in SessionIds /\ s \in live
  BY DoomedIsSession DEF DeleteDoomed, ViewInv
<1>2. /\ session[s] \in SessionRecords
      /\ session \in [SessionIds -> SessionRecords]
      /\ r \in SessionIds
  BY <1>1, LiveAreSessions DEF ViewInv, TypeInv, TypeOK
<1>3. \/ \E v \in session[s].views :
           session' = [session EXCEPT ![s] = Discarded(session[s], v)]
      \/ /\ live' = live \ {s}
         /\ session' = [session EXCEPT
              ![s] = [NoSession EXCEPT !.queued = session[s].queued]]
  BY DeleteDoomedEffect DEF ViewInv
<1> HIDE DEF s
<1>4. CASE r = s
  <2>1. PICK v : session' = [session EXCEPT ![s] = Discarded(session[s], v)]
    BY <1>3, <1>4
  <2>2. /\ session'[r].history = session[r].history
        /\ session'[r].position = session[r].position
    BY <1>2, <1>4, <2>1 DEF Discarded, SessionRecords
  <2>. QED
    BY <2>2, SameShown
<1>5. CASE r # s
  <2>1. session'[r] = session[r]
    BY <1>2, <1>3, <1>5
  <2>. QED
    BY <2>1, SameShown
<1>. QED
  BY <1>4, <1>5

(* A step that changes what a session shows is one of its own.              *)
LEMMA ShownStep == ViewInv /\ [Next]_vars => [ShowsOwnMoves]_vars
<1> SUFFICES ASSUME ViewInv, Next, NEW r \in live \intersect live',
                    Shown(r)' # Shown(r)
             PROVE  \/ \E direction \in Directions : History(r, direction)
                    \/ turn.at = "room" /\ turn.session = r /\ AppendView
  BY DEF ShowsOwnMoves
<1>live. /\ live \subseteq SessionIds /\ r \in SessionIds
         /\ session \in [SessionIds -> SessionRecords]
         /\ session[r] \in SessionRecords
  BY LiveAreSessions DEF ViewInv, TypeInv, TypeOK
<1>same. session'[r].history = session[r].history
         /\ session'[r].position = session[r].position => FALSE
  BY SameShown
<1>1. CASE Tick \/ PublishGeneration \/ Closed \/ AnswerInvalidSession
  BY <1>1, <1>same DEF Tick, PublishGeneration, Closed, AnswerInvalidSession
<1>2. CASE Arrivals
  BY <1>2, <1>same DEF Arrivals, Start, Close, Execute, Arrive
<1>3. CASE DeleteDoomed
  BY <1>3, DeletionShows
<1>4. CASE StartSession
  <2>1. started + 1 # r
    BY DEF ViewInv, TypeInv, TypeOK
  <2>2. session'[r] = session[r]
    BY <1>4, <1>live, <2>1 DEF StartSession
  <2>. QED
    BY <1>same, <2>2
<1>5. CASE AnswerRetained \/ RefuseRequest \/ AcceptRequest
  <2>1. session'[r].history = session[r].history
        /\ session'[r].position = session[r].position
    <3>1. CASE r # turn.session
      BY <1>5, <1>live, <3>1
      DEF AnswerRetained, RefuseRequest, AcceptRequest
    <3>2. CASE r = turn.session
      <4>1. CASE session' = [session EXCEPT ![r].requests = Unexpired(r)]
        <5>1. session'[r] = [session[r] EXCEPT !.requests = Unexpired(r)]
          BY <1>live, <4>1
        <5>. QED
          BY <1>live, <5>1 DEF SessionRecords
      <4>2. CASE AcceptRequest
        <5>1. PICK kept :
                session'[r] = [session[r] EXCEPT !.lastAcceptedAt = now,
                                                 !.queued = @ + 1,
                                                 !.requests = kept]
          BY <1>live, <3>2, <4>2 DEF AcceptRequest
        <5>. QED
          BY <1>live, <5>1 DEF SessionRecords
      <4>. QED
        BY <1>5, <3>2, <4>1, <4>2 DEF AnswerRetained, RefuseRequest
    <3>. QED
      BY <3>1, <3>2
  <2>. QED
    BY <1>same, <2>1
<1>6. ASSUME NEW s \in SessionIds, Operate(s)
      PROVE  \E direction \in Directions : History(r, direction)
  <2>1. CASE UNCHANGED session
    BY <1>same, <2>1
  <2>2. CASE Settle(s)
    BY <1>live, <1>same, <2>2, SettleKeeps DEF ViewInv
  <2>3. CASE \E direction \in Directions : History(s, direction)
    <3>1. CASE r = s
      BY <2>3, <3>1
    <3>2. CASE r # s
      <4>1. session'[r] = session[r]
        BY <1>live, <2>3, <3>2 DEF History
      <4>. QED
        BY <1>same, <4>1
    <3>. QED
      BY <3>1, <3>2
  <2>. QED
    BY <1>6, <2>1, <2>2, <2>3
    DEF Operate, Focus, Follow, AnswerAtOnce, BackendFails, AnswerFocus,
        AnswerFollow, Dispatch
<1>7. CASE EvictForRoom
  <2>1. Doomed = {} /\ Lenders # {} /\ EvictOldest(Min(Lenders))
    BY <1>7, NobodyDoomed DEF EvictForRoom
  <2>2. Lenders \subseteq live /\ live \subseteq Nat
    BY <1>live DEF Lenders, SessionIds
  <2>3. Min(Lenders) \in Lenders
    BY <2>1, <2>2, MinOfNaturals
  <2>. QED
    BY <2>1, <2>3, EvictOldestShows DEF Lenders
<1>8. CASE RefuseView
  <2>1. turn.session \in SessionIds
    BY <1>8, TurnTypes DEF RefuseView, ViewInv, TypeInv, TypeOK
  <2>. QED
    BY <1>8, <1>live, <1>same, <2>1, SettleKeeps DEF RefuseView, ViewInv
<1>9. CASE AbandonForward
  BY <1>9, AbandonShows
<1>10. CASE AppendView
  <2>1. CASE r = turn.session
    BY <1>10, <2>1 DEF AppendView
  <2>2. CASE r # turn.session
    <3>1. session'[r] = session[r]
      BY <1>10, <1>live, <2>2 DEF AppendView
    <3>. QED
      BY <1>same, <3>1
  <2>. QED
    BY <2>1, <2>2
<1>11. CASE TrimViews
  <2>1. /\ turn.session \in live /\ Doomed = {}
        /\ Evictable(turn.session) # {} /\ EvictOldest(turn.session)
    BY <1>11, NobodyDoomed DEF TrimViews, Crowded, ViewInv, TrimmingLive
  <2>. QED
    BY <2>1, EvictOldestShows
<1>12. CASE ViewAdded
  <2>1. turn.session \in SessionIds
    BY <1>12, TurnTypes DEF ViewAdded, ViewInv, TypeInv, TypeOK
  <2>2. CASE UNCHANGED session
    BY <1>same, <2>2
  <2>. QED
    BY <1>12, <1>live, <1>same, <2>1, <2>2, SettleKeeps DEF ViewAdded, ViewInv
<1>. QED
  BY <1>1, <1>2, <1>3, <1>4, <1>5, <1>6, <1>7, <1>8, <1>9, <1>10, <1>11, <1>12
  DEF Next, Entered, Added

(* The view a session shows changes only by its own Back, Forward or new   *)
(* view, although makeViewCapacity evicts from whichever session is oldest *)
(* and every arriving request sweeps all the sessions.                     *)
THEOREM ShownViewsKept == Spec => ShownViewKept
<1>1. ViewInv /\ [Next]_vars => [ShowsOwnMoves]_vars
  BY ShownStep
<1>. QED
  BY <1>1, ViewInit, ViewStep, PTL DEF Spec, ShownViewKept

=============================================================================
