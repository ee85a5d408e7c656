----------------------- MODULE SessionsAccountsProof -----------------------
(* What Sessions counts and remembers: the slots of the request queue, the *)
(* bytes of the retained views and the requests kept for retries, for      *)
(* every value of the limits.                                              *)
EXTENDS SessionsHistoryProof, FiniteSetTheorems

-----------------------------------------------------------------------------
(* Sums over finite sets.                                                  *)

(* Among the subsets of a finite set that do something there is one none   *)
(* of whose proper subsets does it.                                        *)
LEMMA MinimalSubset ==
  ASSUME NEW S, IsFiniteSet(S), NEW C, C \subseteq SUBSET S, C # {}
  PROVE  \E m \in C : \A t \in C : t \subseteq m => t = m
<1>1. IsWellFoundedOn(StrictSubsetOrdering(S), SUBSET S)
  BY FS_StrictSubsetOrderingWellFounded, FS_FiniteSubsetsOfFinite
<1>2. PICK m \in C : \A t \in C : ~ (<<t, m>> \in StrictSubsetOrdering(S))
  BY <1>1, WFMin, Zenon
<1>3. ASSUME NEW t \in C, t \subseteq m, t # m
      PROVE  <<t, m>> \in StrictSubsetOrdering(S)
  BY <1>3 DEF StrictSubsetOrdering
<1>4. \A t \in C : t \subseteq m => t = m
  BY <1>2, <1>3, Zenon
<1>. QED
  BY <1>4, Zenon

(* The element that a sum takes out of a set first.                        *)
Pick(s) == CHOOSE x \in s : TRUE

(* g is the sum of fun over the subsets of S, as the community modules     *)
(* define it: by removing an arbitrary element at a time.                  *)
SumsOver(fun, S, g) ==
  g = [s \in SUBSET S |->
         IF s = {} THEN 0 ELSE fun[Pick(s)] + g[s \ {Pick(s)}]]

(* It is an element of it.                                                *)
LEMMA Picked == \A s : s # {} => Pick(s) \in s
  BY DEF Pick

(* SumFunctionOnSet is a sum in this sense, if there is one.               *)
LEMMA SumIsChosen ==
  ASSUME NEW fun, NEW S
  PROVE  SumFunctionOnSet(fun, S) = (CHOOSE g : SumsOver(fun, S, g))[S]
  BY DEF SumFunctionOnSet, FoldFunctionOnSet, MapThenFoldSet, SumsOver, Pick

(* The sums over a set and over one that contains it agree.                *)
LEMMA SumsAgree ==
  ASSUME NEW fun, NEW T, IsFiniteSet(T), NEW S \in SUBSET T, NEW g, NEW h,
         SumsOver(fun, S, g), SumsOver(fun, T, h)
  PROVE  \A s \in SUBSET S : g[s] = h[s]
<1> DEFINE C == {s \in SUBSET S : g[s] # h[s]}
<1> SUFFICES ASSUME C # {} PROVE FALSE
  OBVIOUS
<1>0. IsFiniteSet(S)
  BY FS_Subset
<1>1. PICK m \in C : \A t \in C : t \subseteq m => t = m
  <2>1. C \subseteq SUBSET S
    OBVIOUS
  <2> HIDE DEF C
  <2>. QED
    BY <1>0, <2>1, MinimalSubset
<1>2. /\ g[m] = IF m = {} THEN 0 ELSE fun[Pick(m)] + g[m \ {Pick(m)}]
      /\ h[m] = IF m = {} THEN 0 ELSE fun[Pick(m)] + h[m \ {Pick(m)}]
  BY DEF SumsOver
<1>3. m # {}
  BY <1>2
<1>4. Pick(m) \in m
  BY <1>3, Picked
<1>5. m \ {Pick(m)} \notin C
  BY <1>1, <1>4
<1>. QED
  BY <1>2, <1>3, <1>5

(* There is a sum over every finite set.                                   *)
LEMMA SumsExist ==
  ASSUME NEW fun, NEW S, IsFiniteSet(S)
  PROVE  \E g : SumsOver(fun, S, g)
<1> DEFINE C == {s \in SUBSET S : ~ \E g : SumsOver(fun, s, g)}
<1> SUFFICES ASSUME C # {} PROVE FALSE
  OBVIOUS
<1>1. PICK m \in C : \A t \in C : t \subseteq m => t = m
  <2>1. C \subseteq SUBSET S
    OBVIOUS
  <2> HIDE DEF C
  <2>. QED
    BY <2>1, MinimalSubset
<1> DEFINE H(u) == CHOOSE g : SumsOver(fun, u, g)
           v(s) == IF s = {} THEN 0 ELSE fun[Pick(s)] + H(s \ {Pick(s)})[s \ {Pick(s)}]
           g == [s \in SUBSET m |-> v(s)]
<1>2. \A u \in SUBSET m : u # m => SumsOver(fun, u, H(u)) /\ IsFiniteSet(u)
  <2> SUFFICES ASSUME NEW u \in SUBSET m, u # m
               PROVE  SumsOver(fun, u, H(u)) /\ IsFiniteSet(u)
    OBVIOUS
  <2>1. u \in SUBSET S /\ u \notin C
    BY <1>1
  <2>2. \E k : SumsOver(fun, u, k)
    BY <2>1
  <2>. QED
    BY <2>1, <2>2, FS_Subset
<1> HIDE DEF H
<1>3. \A s \in SUBSET m : s # {} => H(s \ {Pick(s)})[s \ {Pick(s)}] = v(s \ {Pick(s)})
  <2> SUFFICES ASSUME NEW s \in SUBSET m, s # {}
               PROVE  H(s \ {Pick(s)})[s \ {Pick(s)}] = v(s \ {Pick(s)})
    OBVIOUS
  <2> DEFINE u == s \ {Pick(s)}
             w == u \ {Pick(u)}
  <2>1. Pick(s) \in s /\ u \in SUBSET m /\ u # m
    BY Picked
  <2>2. SumsOver(fun, u, H(u)) /\ IsFiniteSet(u)
    BY <1>2, <2>1
  <2>3. H(u)[u] = IF u = {} THEN 0 ELSE fun[Pick(u)] + H(u)[w]
    <3> HIDE DEF u
    <3>. QED
      BY <2>2 DEF SumsOver
  <2>4. CASE u = {}
    BY <2>3, <2>4
  <2>5. CASE u # {}
    <3>1. w \in SUBSET u /\ w \in SUBSET m /\ w # m
      BY <2>1
    <3>2. SumsOver(fun, w, H(w))
      BY <1>2, <3>1
    <3> HIDE DEF u, w
    <3>3. H(w)[w] = H(u)[w]
      BY <2>2, <3>1, <3>2, SumsAgree
    <3>. QED
      BY <2>3, <2>5, <3>3 DEF w, u
  <2>. QED
    BY <2>4, <2>5
<1>4. g = [s \in SUBSET m |-> IF s = {} THEN 0 ELSE fun[Pick(s)] + g[s \ {Pick(s)}]]
  <2>1. \A s \in SUBSET m :
          v(s) = IF s = {} THEN 0 ELSE fun[Pick(s)] + g[s \ {Pick(s)}]
    BY <1>3
  <2>. QED
    BY <2>1
<1>5. SumsOver(fun, m, g)
  <2> HIDE DEF g
  <2>. QED
    BY <1>4 DEF SumsOver
<1>. QED
  BY <1>1, <1>5

(* So SumFunctionOnSet is the sum over a finite set.                       *)
LEMMA SumIsSum ==
  ASSUME NEW fun, NEW S, IsFiniteSet(S)
  PROVE  \E g : SumsOver(fun, S, g) /\ SumFunctionOnSet(fun, S) = g[S]
<1>1. SumsOver(fun, S, CHOOSE g : SumsOver(fun, S, g))
  BY SumsExist
<1>. QED
  BY <1>1, SumIsChosen

(* The sum over the empty set.                                             *)
LEMMA SumEmpty ==
  ASSUME NEW fun
  PROVE  SumFunctionOnSet(fun, {}) = 0
<1>1. IsFiniteSet({})
  BY FS_EmptySet
<1>2. PICK g : SumsOver(fun, {}, g) /\ SumFunctionOnSet(fun, {}) = g[{}]
  BY <1>1, SumIsSum
<1>. QED
  BY <1>2 DEF SumsOver

(* The sum over a nonempty set, by its defining equation.                  *)
LEMMA SumUnfolds ==
  ASSUME NEW fun, NEW S, IsFiniteSet(S), S # {}
  PROVE  SumFunctionOnSet(fun, S) =
           fun[Pick(S)] + SumFunctionOnSet(fun, S \ {Pick(S)})
<1> DEFINE T == S \ {Pick(S)}
<1>1. IsFiniteSet(T) /\ T \in SUBSET S
  BY FS_Subset
<1>2. PICK g : SumsOver(fun, S, g) /\ SumFunctionOnSet(fun, S) = g[S]
  BY SumIsSum
<1>3. g[S] = fun[Pick(S)] + g[T]
  BY <1>2 DEF SumsOver
<1> HIDE DEF T
<1>4. PICK h : SumsOver(fun, T, h) /\ SumFunctionOnSet(fun, T) = h[T]
  BY <1>1, SumIsSum
<1>5. \A s \in SUBSET T : h[s] = g[s]
  BY <1>1, <1>2, <1>4, SumsAgree
<1>. QED
  BY <1>2, <1>3, <1>4, <1>5 DEF T

(* A sum of integers is an integer.                                        *)
LEMMA SumInt ==
  ASSUME NEW fun, NEW S, IsFiniteSet(S), \A x \in S : fun[x] \in Int
  PROVE  SumFunctionOnSet(fun, S) \in Int
<1> DEFINE C == {s \in SUBSET S : SumFunctionOnSet(fun, s) \notin Int}
<1> SUFFICES ASSUME C # {} PROVE FALSE
  OBVIOUS
<1>1. PICK m \in C : \A t \in C : t \subseteq m => t = m
  <2>1. C \subseteq SUBSET S
    OBVIOUS
  <2> HIDE DEF C
  <2>. QED
    BY <2>1, MinimalSubset
<1>2. IsFiniteSet(m) /\ m # {}
  <2>1. m \in SUBSET S
    OBVIOUS
  <2>2. IsFiniteSet(m)
    BY <2>1, FS_Subset
  <2>. QED
    BY <2>2, SumEmpty
<1>3. Pick(m) \in m /\ m \ {Pick(m)} \notin C
  BY <1>1, <1>2, Picked
<1>4. fun[Pick(m)] \in Int /\ SumFunctionOnSet(fun, m \ {Pick(m)}) \in Int
  BY <1>3
<1>5. SumFunctionOnSet(fun, m) =
        fun[Pick(m)] + SumFunctionOnSet(fun, m \ {Pick(m)})
  BY <1>2, SumUnfolds
<1>. QED
  BY <1>4, <1>5

(* Any element of the set may be taken out of the sum.                     *)
LEMMA SumTakesOut ==
  ASSUME NEW fun, NEW S, IsFiniteSet(S), \A x \in S : fun[x] \in Int,
         NEW x \in S
  PROVE  SumFunctionOnSet(fun, S) = fun[x] + SumFunctionOnSet(fun, S \ {x})
<1> DEFINE Sum(s) == SumFunctionOnSet(fun, s)
           C == {s \in SUBSET S :
                   \E y \in s : Sum(s) # fun[y] + Sum(s \ {y})}
<1> SUFFICES ASSUME C # {} PROVE FALSE
  OBVIOUS
<1>1. PICK m \in C : \A t \in C : t \subseteq m => t = m
  <2>1. C \subseteq SUBSET S
    OBVIOUS
  <2> HIDE DEF C
  <2>. QED
    BY <2>1, MinimalSubset
<1>2. PICK y \in m : Sum(m) # fun[y] + Sum(m \ {y})
  OBVIOUS
<1> DEFINE p == Pick(m)
           r == m \ {p}
           u == m \ {y}
           w == (m \ {p}) \ {y}
<1>3. /\ IsFiniteSet(m) /\ IsFiniteSet(r) /\ IsFiniteSet(u) /\ IsFiniteSet(w)
      /\ p \in m
  <2>1. m \in SUBSET S /\ r \in SUBSET S /\ u \in SUBSET S /\ w \in SUBSET S
    OBVIOUS
  <2> HIDE DEF r, u, w
  <2>2. IsFiniteSet(m) /\ IsFiniteSet(r) /\ IsFiniteSet(u) /\ IsFiniteSet(w)
    BY <2>1, FS_Subset
  <2>3. m # {}
    OBVIOUS
  <2>. QED
    BY <2>2, <2>3, Picked
<1>4. Sum(m) = fun[p] + Sum(r)
  BY <1>3, SumUnfolds
<1>5. p # y
  BY <1>2, <1>4
<1>6. r \notin C /\ u \notin C /\ y \in r /\ p \in u
  BY <1>1, <1>3, <1>5
<1>7. Sum(r) = fun[y] + Sum(w) /\ Sum(u) = fun[p] + Sum(u \ {p})
  <2> HIDE DEF Sum, p
  <2>. QED
    BY <1>6
<1>8. u \ {p} = w
  OBVIOUS
<1>9. fun[p] \in Int /\ fun[y] \in Int /\ Sum(w) \in Int
  <2>1. \A z \in w : fun[z] \in Int
    OBVIOUS
  <2> HIDE DEF w
  <2>. QED
    BY <1>3, <2>1, SumInt
<1>10. Sum(m) # fun[y] + Sum(u)
  BY <1>2
<1>11. Sum(u) = fun[p] + Sum(w)
  BY <1>7, <1>8
<1>12. Sum(m) = fun[p] + (fun[y] + Sum(w))
  BY <1>4, <1>7
<1> HIDE DEF Sum, w, u, r, p, C
<1>13. fun[p] + (fun[y] + Sum(w)) = fun[y] + (fun[p] + Sum(w))
  BY <1>9
<1>. QED
  BY <1>10, <1>11, <1>12, <1>13

(* A sum depends on the function only over the set.                        *)
LEMMA SumSame ==
  ASSUME NEW f, NEW g, NEW S, IsFiniteSet(S), \A x \in S : f[x] = g[x]
  PROVE  SumFunctionOnSet(f, S) = SumFunctionOnSet(g, S)
<1> DEFINE C == {s \in SUBSET S :
                   SumFunctionOnSet(f, s) # SumFunctionOnSet(g, s)}
<1> SUFFICES ASSUME C # {} PROVE FALSE
  OBVIOUS
<1>1. PICK m \in C : \A t \in C : t \subseteq m => t = m
  <2>1. C \subseteq SUBSET S
    OBVIOUS
  <2> HIDE DEF C
  <2>. QED
    BY <2>1, MinimalSubset
<1>2. IsFiniteSet(m) /\ m # {}
  <2>1. m \in SUBSET S
    OBVIOUS
  <2>2. IsFiniteSet(m)
    BY <2>1, FS_Subset
  <2>. QED
    BY <2>2, SumEmpty
<1>3. Pick(m) \in m /\ m \ {Pick(m)} \notin C
  BY <1>1, <1>2, Picked
<1>4. /\ f[Pick(m)] = g[Pick(m)]
      /\ SumFunctionOnSet(f, m \ {Pick(m)}) = SumFunctionOnSet(g, m \ {Pick(m)})
  BY <1>3
<1>. QED
  BY <1>2, <1>4, SumUnfolds
(* A sum of zeros is zero.                                                 *)
LEMMA SumZero ==
  ASSUME NEW fun, NEW S, IsFiniteSet(S), \A x \in S : fun[x] = 0
  PROVE  SumFunctionOnSet(fun, S) = 0
<1> DEFINE C == {s \in SUBSET S : SumFunctionOnSet(fun, s) # 0}
<1> SUFFICES ASSUME C # {} PROVE FALSE
  OBVIOUS
<1>1. PICK m \in C : \A t \in C : t \subseteq m => t = m
  <2>1. C \subseteq SUBSET S
    OBVIOUS
  <2> HIDE DEF C
  <2>. QED
    BY <2>1, MinimalSubset
<1>2. IsFiniteSet(m) /\ m # {}
  <2>1. m \in SUBSET S
    OBVIOUS
  <2>2. IsFiniteSet(m)
    BY <2>1, FS_Subset
  <2>. QED
    BY <2>2, SumEmpty
<1>3. Pick(m) \in m /\ m \ {Pick(m)} \notin C
  BY <1>1, <1>2, Picked
<1>4. fun[Pick(m)] = 0 /\ SumFunctionOnSet(fun, m \ {Pick(m)}) = 0
  BY <1>3
<1>. QED
  BY <1>2, <1>4, SumUnfolds

-----------------------------------------------------------------------------
(* The slots of the request queue.                                         *)

(* Changing a function at one point changes its sum by the difference.     *)
LEMMA SumChangesAt ==
  ASSUME NEW S, IsFiniteSet(S), NEW s \in S, NEW f, NEW g,
         \A x \in S : f[x] \in Int /\ g[x] \in Int,
         \A x \in S : x # s => g[x] = f[x]
  PROVE  /\ SumFunctionOnSet(g, S) = (SumFunctionOnSet(f, S) - f[s]) + g[s]
         /\ SumFunctionOnSet(f, S) \in Int
<1> DEFINE T == S \ {s}
<1>1. IsFiniteSet(T) /\ \A x \in T : f[x] = g[x] /\ f[x] \in Int
  BY FS_RemoveElement
<1>2. SumFunctionOnSet(f, T) = SumFunctionOnSet(g, T)
      /\ SumFunctionOnSet(f, T) \in Int
  <2> HIDE DEF T
  <2>. QED
    BY <1>1, SumSame, SumInt
<1>3. SumFunctionOnSet(f, S) = f[s] + SumFunctionOnSet(f, T)
  BY SumTakesOut
<1>4. SumFunctionOnSet(g, S) = g[s] + SumFunctionOnSet(g, T)
  BY SumTakesOut
<1> HIDE DEF T
<1>. QED
  BY <1>2, <1>3, <1>4

(* The counter of a session is the length of its promise chain, deleted or *)
(* not: the slots an operation may give back are those it took.            *)
SlotsCounted == \A s \in SessionIds : session[s].queued = Len(queue[s])

(* Identifiers without a session have no slots.                            *)
NoSlotsBeforeStart ==
  \A s \in SessionIds : s > started => session[s].queued = 0

SlotInv == TypeInv /\ SlotsCounted /\ NoSlotsBeforeStart /\ SlotsNotLeaked

(* What a step may do to the slots: take one, release one, or give up      *)
(* those of a deleted session.                                             *)
TakesSlot(s) ==
  /\ s <= started
  /\ queue' = [queue EXCEPT ![s] = Append(queue[s], Len(accepted) + 1)]
  /\ session'[s].queued = session[s].queued + 1
  /\ \A r \in SessionIds : r # s => session'[r].queued = session[r].queued
  /\ queuedRequests' = queuedRequests + 1

ReleasesSlot(s) ==
  /\ queue[s] # <<>>
  /\ queue' = [queue EXCEPT ![s] = Tail(queue[s])]
  /\ \A r \in SessionIds : r # s => session'[r].queued = session[r].queued
  /\ IF session[s].queued = 0
     THEN session'[s].queued = 0 /\ queuedRequests' = queuedRequests
     ELSE /\ session'[s].queued = session[s].queued - 1
          /\ queuedRequests' = queuedRequests - 1

ForgetsSlots ==
  /\ queue' = queue
  /\ \A r \in SessionIds : session'[r].queued = session[r].queued
  /\ queuedRequests' \in Int /\ queuedRequests' <= queuedRequests

MovesSlots ==
  /\ started' \in Nat /\ started <= started'
  /\ \/ \E s \in SessionIds : TakesSlot(s) \/ ReleasesSlot(s)
     \/ ForgetsSlots

(* Settling releases the slot of the head operation.                       *)
LEMMA SettleReleases ==
  ASSUME TypeInv, NEW s \in SessionIds, queue[s] # <<>>, Settle(s)
  PROVE  ReleasesSlot(s)
<1>1. session \in [SessionIds -> SessionRecords] /\ session[s].queued \in Nat
  BY DEF TypeInv, TypeOK, SessionRecords
<1>2. queue' = [queue EXCEPT ![s] = Tail(queue[s])]
  BY DEF Settle
<1>3. CASE session[s].queued = 0
  BY <1>2, <1>3 DEF Settle, ReleasesSlot
<1>4. CASE session[s].queued # 0
  <2> DEFINE new == [session[s] EXCEPT !.queued = @ - 1]
  <2>1. session' = [session EXCEPT ![s] = new]
    BY <1>4 DEF Settle
  <2>2. new.queued = session[s].queued - 1
    BY <1>1 DEF SessionRecords
  <2> HIDE DEF new
  <2>3. session'[s].queued = session[s].queued - 1
        /\ \A r \in SessionIds : r # s => session'[r].queued = session[r].queued
    BY <1>1, <2>1, <2>2
  <2>. QED
    BY <1>2, <1>4, <2>3 DEF Settle, ReleasesSlot
<1>. QED
  BY <1>3, <1>4

(* Replacing a record by one with the same counter moves no slot.          *)
LEMMA SameSlots ==
  ASSUME TypeInv, NEW s \in SessionIds, NEW new,
         new.queued = session[s].queued,
         session' = [session EXCEPT ![s] = new],
         UNCHANGED <<queue, queuedRequests>>
  PROVE  ForgetsSlots
BY DEF TypeInv, TypeOK, ForgetsSlots

(* Evicting a view keeps the counter of its session.                       *)
LEMMA EvictKeepsSlots ==
  ASSUME TypeInv, NEW s \in SessionIds, Evictable(s) # {}, EvictOldest(s),
         UNCHANGED <<queue, queuedRequests>>
  PROVE  ForgetsSlots
<1>1. PICK i \in Evictable(s) :
           session' = [session EXCEPT ![s] =
                Discarded([session[s] EXCEPT
                             !.history = RemoveAt(@, i),
                             !.position = IF i < @ THEN @ - 1 ELSE @],
                          session[s].history[i])]
  BY EvictOldestEffect
<1> DEFINE spliced == [session[s] EXCEPT !.history = RemoveAt(@, i),
                                         !.position = IF i < @ THEN @ - 1 ELSE @]
           new == Discarded(spliced, session[s].history[i])
<1>2. session[s] \in SessionRecords
  BY DEF TypeInv, TypeOK
<1>3. spliced.queued = session[s].queued
      /\ {"queued", "views", "stale"} \subseteq DOMAIN spliced
  BY <1>2 DEF SessionRecords
<1>4. new.queued = spliced.queued
  <2> HIDE DEF spliced
  <2>. QED
    BY <1>3 DEF Discarded
<1>5. session' = [session EXCEPT ![s] = new]
  BY <1>1
<1> HIDE DEF new, spliced
<1>. QED
  BY <1>3, <1>4, <1>5, SameSlots

(* The identifiers in use only grow.                                        *)
LEMMA StartedGrows ==
  ASSUME TypeInv, [Next]_vars
  PROVE  started' \in Nat /\ started <= started'
<1>1. started \in Nat /\ started + 1 \in Nat /\ started <= started + 1
  BY LimitsAssumption DEF TypeInv, TypeOK, LimitsAssumption
<1>2. UNCHANGED started \/ started' = started + 1
  <2>1. CASE \E s \in SessionIds : Operate(s)
    BY <2>1 DEF Operate, Focus, Follow, History, AnswerAtOnce, BackendFails,
         AnswerFocus, AnswerFollow
  <2>2. CASE Arrivals
    BY <2>2 DEF Arrivals, Start, Close, Execute, Arrive
  <2>3. CASE Entered
    BY <2>3 DEF Entered, DeleteDoomed, Closed, StartSession,
         AnswerInvalidSession, AnswerRetained, RefuseRequest, AcceptRequest
  <2>4. CASE Added
    BY <2>4 DEF Added, EvictForRoom, RefuseView, AbandonForward, AppendView,
         TrimViews, ViewAdded
  <2>. QED
    BY <2>1, <2>2, <2>3, <2>4 DEF Next, Tick, PublishGeneration, vars
<1>. QED
  BY <1>1, <1>2

(* Every step of every handler takes, releases or gives up slots.          *)
LEMMA SlotSteps ==
  ASSUME TypeInv, NoSlotsBeforeStart, [Next]_vars
  PROVE  MovesSlots
<1> SUFFICES (\E s \in SessionIds : TakesSlot(s) \/ ReleasesSlot(s))
             \/ ForgetsSlots
  BY StartedGrows DEF MovesSlots
<1>typed. /\ session \in [SessionIds -> SessionRecords]
          /\ queuedRequests \in Int
          /\ \A s \in SessionIds : session[s] \in SessionRecords
                                   /\ session[s].queued \in Nat
  BY DEF TypeInv, TypeOK, SessionRecords
<1>same. ASSUME UNCHANGED <<session, queue, queuedRequests>>
         PROVE  ForgetsSlots
  BY <1>typed, <1>same DEF ForgetsSlots
<1>head. ASSUME NEW s \in SessionIds, NEW call,
                AtHead(s, call) \/ Waiting(s, call)
         PROVE  queue[s] # <<>>
  BY <1>head DEF AtHead, Waiting, TypeInv, Attended
<1>1. CASE Tick \/ PublishGeneration \/ Closed \/ AnswerInvalidSession
  BY <1>1, <1>same DEF Tick, PublishGeneration, Closed, AnswerInvalidSession
<1>2. CASE Arrivals
  BY <1>2, <1>same DEF Arrivals, Start, Close, Execute, Arrive
<1>3. CASE DeleteDoomed
  <2> DEFINE s == Min(Doomed)
  <2>1. s \in SessionIds /\ queue' = queue
    BY <1>3, DoomedIsSession DEF DeleteDoomed
  <2> HIDE DEF s
  <2>2. CASE /\ \E v \in session[s].views :
                  session' = [session EXCEPT ![s] = Discarded(session[s], v)]
             /\ UNCHANGED queuedRequests
    <3>1. PICK v : session' = [session EXCEPT ![s] = Discarded(session[s], v)]
      BY <2>2
    <3>2. Discarded(session[s], v).queued = session[s].queued
      BY <1>typed, <2>1 DEF Discarded, SessionRecords
    <3>. QED
      BY <2>1, <2>2, <3>1, <3>2, SameSlots
  <2>3. CASE /\ session' = [session EXCEPT
                  ![s] = [NoSession EXCEPT !.queued = session[s].queued]]
             /\ queuedRequests' = queuedRequests - session[s].queued
    <3>1. [NoSession EXCEPT !.queued = session[s].queued].queued
            = session[s].queued
      BY DEF NoSession
    <3>2. \A r \in SessionIds : session'[r].queued = session[r].queued
      BY <1>typed, <2>1, <2>3, <3>1
    <3>3. queuedRequests' \in Int /\ queuedRequests' <= queuedRequests
      BY <1>typed, <2>1, <2>3
    <3>. QED
      BY <2>1, <3>2, <3>3 DEF ForgetsSlots
  <2>. QED
    BY <1>3, <2>2, <2>3, DeleteDoomedEffect DEF s
<1>4. CASE StartSession
  <2>1. CASE UNCHANGED session
    BY <1>4, <2>1, <1>same DEF StartSession
  <2> DEFINE new == [NoSession EXCEPT !.owner = turn.connection,
                                      !.lastAcceptedAt = now]
  <2>2. CASE session' = [session EXCEPT ![started + 1] = new]
    <3>0. started \in Nat /\ SessionBound \in Nat /\ started < SessionBound
      <4>1. started \in Nat
        BY DEF TypeInv, TypeOK
      <4>2. SessionBound \in Nat
        BY LimitsAssumption DEF LimitsAssumption
      <4>. QED
        BY <1>4, <4>1, <4>2 DEF StartSession, TypeInv, Attended
    <3>1. started + 1 \in SessionIds /\ started + 1 > started
      BY <3>0 DEF SessionIds
    <3>2. new.queued = 0
      BY DEF NoSession
    <3>3. session[started + 1].queued = 0
      BY <3>1 DEF NoSlotsBeforeStart
    <3> HIDE DEF new
    <3>. QED
      BY <1>4, <2>2, <3>1, <3>2, <3>3, SameSlots DEF StartSession
  <2>. QED
    BY <1>4, <2>1, <2>2 DEF StartSession
<1>5. CASE AnswerRetained \/ RefuseRequest
  <2> DEFINE new == [session[turn.session] EXCEPT !.requests = Unexpired(turn.session)]
  <2>1. turn.session \in SessionIds
    BY <1>5, LiveAreSessions DEF AnswerRetained, RefuseRequest, Owned
  <2>2. new.queued = session[turn.session].queued
    BY <1>typed, <2>1 DEF SessionRecords
  <2>3. session' = [session EXCEPT ![turn.session] = new]
    BY <1>5 DEF AnswerRetained, RefuseRequest
  <2> HIDE DEF new
  <2>. QED
    BY <1>5, <2>1, <2>2, <2>3, SameSlots DEF AnswerRetained, RefuseRequest
<1>6. CASE AcceptRequest
  <2> DEFINE s == turn.session
             entry == [request |-> turn.request,
                       operation |-> Len(accepted) + 1,
                       expiresAt |-> now + Retention]
             kept == Trimmed(Unexpired(s) \union {entry})
             new == [session[s] EXCEPT !.lastAcceptedAt = now,
                                       !.queued = @ + 1,
                                       !.requests = kept]
  <2>1. s \in SessionIds /\ s <= started
    BY <1>6, LiveAreSessions DEF AcceptRequest, Owned, TypeInv, TypeOK
  <2>2. session' = [session EXCEPT ![s] = new]
    BY <1>typed, <2>1, <1>6 DEF AcceptRequest
  <2> HIDE DEF kept
  <2>3. new.queued = session[s].queued + 1
    BY <1>typed, <2>1 DEF SessionRecords
  <2> HIDE DEF new, s
  <2>4. /\ session'[s].queued = session[s].queued + 1
        /\ \A r \in SessionIds : r # s => session'[r].queued = session[r].queued
    BY <1>typed, <2>1, <2>2, <2>3
  <2>5. /\ queue' = [queue EXCEPT ![s] = Append(queue[s], Len(accepted) + 1)]
        /\ queuedRequests' = queuedRequests + 1
    BY <1>6 DEF AcceptRequest, s
  <2>. QED
    BY <2>1, <2>4, <2>5 DEF TakesSlot
<1>7. ASSUME NEW s \in SessionIds, Operate(s)
      PROVE  ReleasesSlot(s) \/ ForgetsSlots
  <2>1. CASE Focus(s)
    BY <1>same, <2>1 DEF Focus, Dispatch
  <2>2. CASE \E v \in 0..Len(minted) : Follow(s, v)
    <3>1. queue[s] # <<>> /\ (Dispatch(s) \/ Settle(s))
      BY <1>head, <2>2 DEF Follow
    <3>. QED
      BY <1>same, <3>1, SettleReleases DEF Dispatch
  <2>3. CASE \E direction \in Directions : History(s, direction)
    <3>1. PICK direction \in Directions : History(s, direction)
      BY <2>3
    <3> DEFINE p == Restored(s, direction)
               n == IF session[s].queued = 0 THEN 0 ELSE session[s].queued - 1
               new == [session[s] EXCEPT !.position = p, !.queued = n]
    <3>2. session' = [session EXCEPT ![s] = new]
      BY <1>typed, <3>1 DEF History
    <3>3. queue' = [queue EXCEPT ![s] = Tail(queue[s])] /\ queue[s] # <<>>
      BY <1>head, <3>1 DEF History
    <3>4. queuedRequests' = IF session[s].queued = 0 THEN queuedRequests
                            ELSE queuedRequests - 1
      BY <3>1 DEF History
    <3> HIDE DEF p
    <3>5. new.queued = n
      BY <1>typed DEF SessionRecords
    <3> HIDE DEF new
    <3>6. /\ session'[s].queued = n
          /\ \A r \in SessionIds : r # s => session'[r].queued = session[r].queued
      BY <1>typed, <3>2, <3>5
    <3>. QED
      BY <3>3, <3>4, <3>6 DEF ReleasesSlot
  <2>4. CASE AnswerAtOnce(s)
    BY <1>head, <2>4, SettleReleases DEF AnswerAtOnce
  <2>5. CASE BackendFails(s)
    BY <1>head, <2>5, SettleReleases DEF BackendFails
  <2>6. CASE \E bytes \in BodySizes : AnswerFocus(s, bytes)
    BY <1>same, <2>6 DEF AnswerFocus
  <2>7. CASE \E bytes \in BodySizes, candidates \in 1..MaxCandidates :
               AnswerFollow(s, bytes, candidates)
    BY <1>same, <2>7 DEF AnswerFollow
  <2>. QED
    BY <1>7, <2>1, <2>2, <2>3, <2>4, <2>5, <2>6, <2>7 DEF Operate
<1>adding. ASSUME turn.at \in {"room", "trim"}
           PROVE  turn.session \in SessionIds /\ queue[turn.session] # <<>>
  BY <1>adding, TurnTypes DEF TypeInv, TypeOK, Attended
<1>8. CASE EvictForRoom
  <2>1. Lenders \in SUBSET Nat /\ Lenders # {} /\ Lenders \subseteq SessionIds
    BY <1>8, LiveAreSessions DEF EvictForRoom, Lenders, SessionIds
  <2>2. Min(Lenders) \in Lenders
    BY <2>1, MinOfNaturals
  <2>3. Min(Lenders) \in SessionIds /\ Evictable(Min(Lenders)) # {}
    BY <2>1, <2>2 DEF Lenders
  <2>. QED
    BY <1>8, <2>3, EvictKeepsSlots DEF EvictForRoom
<1>9. CASE RefuseView
  BY <1>9, <1>adding, SettleReleases DEF RefuseView
<1>10. CASE AbandonForward
  <2> DEFINE s == turn.session
             last == Len(session[s].history)
             v == session[s].history[last]
             shortened == [session[s] EXCEPT !.history = RemoveAt(@, last)]
             new == Discarded(shortened, v)
  <2>1. s \in SessionIds
    BY <1>10, <1>adding DEF AbandonForward
  <2>2. session' = [session EXCEPT ![s] = new]
    BY <1>10 DEF AbandonForward
  <2> HIDE DEF last, v
  <2>3. shortened.queued = session[s].queued
        /\ {"queued", "views", "stale"} \subseteq DOMAIN shortened
    BY <1>typed, <2>1 DEF SessionRecords
  <2> HIDE DEF shortened
  <2>4. new.queued = session[s].queued
    BY <2>3 DEF Discarded
  <2> HIDE DEF new, s
  <2>. QED
    BY <1>10, <2>1, <2>2, <2>4, SameSlots DEF AbandonForward
<1>11. CASE AppendView
  <2> DEFINE s == turn.session
             v == Len(minted) + 1
             new == [session[s] EXCEPT !.history = Append(@, v),
                                       !.position = @ + 1,
                                       !.views = @ \union {v}]
  <2>1. s \in SessionIds /\ session' = [session EXCEPT ![s] = new]
    BY <1>11, AppendViewEffect
  <2>2. new.queued = session[s].queued
    BY <1>typed, <2>1 DEF SessionRecords
  <2> HIDE DEF new, s
  <2>. QED
    BY <1>11, <2>1, <2>2, SameSlots DEF AppendView
<1>12. CASE TrimViews
  BY <1>12, <1>adding, EvictKeepsSlots DEF TrimViews, Crowded
<1>13. CASE ViewAdded
  BY <1>13, <1>adding, <1>same, SettleReleases DEF ViewAdded
<1>14. CASE UNCHANGED vars
  BY <1>14, <1>same DEF vars
<1>. QED
  BY <1>1, <1>2, <1>3, <1>4, <1>5, <1>6, <1>7, <1>8, <1>9, <1>10, <1>11,
     <1>12, <1>13, <1>14
  DEF Next, Entered, Added

(* Taking and releasing slots keeps the count of every session and never   *)
(* raises the process-wide counter above the operations in flight.         *)
LEMMA SlotStep == SlotInv /\ [Next]_vars => SlotInv'
<1> SUFFICES ASSUME SlotInv, [Next]_vars PROVE SlotInv'
  OBVIOUS
<1> DEFINE lens == [s \in SessionIds |-> Len(queue[s])]
           lens2 == [s \in SessionIds |-> Len(queue'[s])]
<1>1. TypeInv' /\ MovesSlots
  BY TypeStep, SlotSteps DEF SlotInv
<1>2. IsFiniteSet(SessionIds)
  BY FS_Interval, LimitsAssumption DEF SessionIds, LimitsAssumption
<1>3. /\ queue \in [SessionIds -> Seq(Nat)] /\ queue' \in [SessionIds -> Seq(Nat)]
      /\ queuedRequests \in Int /\ queuedRequests' \in Int
      /\ started \in Nat
      /\ \A s \in SessionIds : session[s].queued \in Nat
  BY <1>1, LimitsAssumption
  DEF SlotInv, TypeInv, TypeOK, SessionRecords, LimitsAssumption
<1>4. \A s \in SessionIds : /\ lens[s] = Len(queue[s]) /\ lens[s] \in Int
                            /\ lens2[s] = Len(queue'[s]) /\ lens2[s] \in Int
  BY <1>3, LenProperties
<1>5. InFlight(SessionIds) = SumFunctionOnSet(lens, SessionIds)
      /\ InFlight(SessionIds)' = SumFunctionOnSet(lens2, SessionIds)
  BY DEF InFlight
<1> HIDE DEF lens, lens2
<1>6. /\ \A s \in SessionIds : session[s].queued = Len(queue[s])
      /\ \A s \in SessionIds : s > started => session[s].queued = 0
      /\ queuedRequests <= SumFunctionOnSet(lens, SessionIds)
  BY <1>5 DEF SlotInv, SlotsCounted, NoSlotsBeforeStart, SlotsNotLeaked
<1>moved. ASSUME NEW s \in SessionIds,
                 \A r \in SessionIds : r # s => queue'[r] = queue[r]
          PROVE  /\ SumFunctionOnSet(lens2, SessionIds) =
                      (SumFunctionOnSet(lens, SessionIds) - Len(queue[s]))
                        + Len(queue'[s])
                 /\ SumFunctionOnSet(lens, SessionIds) \in Int
  <2>1. \A r \in SessionIds : r # s => lens2[r] = lens[r]
    BY <1>4, <1>moved
  <2>2. /\ SumFunctionOnSet(lens2, SessionIds) =
             (SumFunctionOnSet(lens, SessionIds) - lens[s]) + lens2[s]
        /\ SumFunctionOnSet(lens, SessionIds) \in Int
    <3>1. \A r \in SessionIds : lens[r] \in Int /\ lens2[r] \in Int
      BY <1>4
    <3>. QED
      BY <1>2, <2>1, <3>1, SumChangesAt
  <2>. QED
    BY <1>4, <2>2
<1>7. ASSUME NEW s \in SessionIds, TakesSlot(s) PROVE SlotInv'
  <2>1. Len(queue'[s]) = Len(queue[s]) + 1 /\ Len(queue[s]) \in Nat
        /\ \A r \in SessionIds : r # s => queue'[r] = queue[r]
    <3>1. accepted \in Seq([session : SessionIds, request : RequestIds,
                           call : Calls, at : Nat])
      BY DEF SlotInv, TypeInv, TypeOK
    <3>2. Len(accepted) + 1 \in Nat
      BY <3>1, LenProperties
    <3>. QED
      BY <1>3, <1>7, <3>2, AppendProperties, LenProperties DEF TakesSlot
  <2>2. SlotsCounted'
    BY <1>6, <1>7, <2>1 DEF TakesSlot, SlotsCounted
  <2>3. NoSlotsBeforeStart'
    BY <1>1, <1>3, <1>6, <1>7
    DEF TakesSlot, NoSlotsBeforeStart, MovesSlots, SessionIds
  <2>4. SlotsNotLeaked'
    <3>1. /\ SumFunctionOnSet(lens2, SessionIds) =
               (SumFunctionOnSet(lens, SessionIds) - Len(queue[s]))
                 + Len(queue'[s])
          /\ SumFunctionOnSet(lens, SessionIds) \in Int
      BY <1>moved, <2>1
    <3>2. InFlight(SessionIds)' = InFlight(SessionIds) + 1
          /\ InFlight(SessionIds) \in Int
      BY <1>5, <2>1, <3>1
    <3>3. queuedRequests' = queuedRequests + 1 /\ queuedRequests \in Int
      BY <1>3, <1>7 DEF TakesSlot
    <3>4. queuedRequests <= InFlight(SessionIds)
      BY <1>5, <1>6
    <3>. QED
      BY <3>2, <3>3, <3>4 DEF SlotsNotLeaked
  <2>. QED
    BY <1>1, <2>2, <2>3, <2>4 DEF SlotInv
<1>8. ASSUME NEW s \in SessionIds, ReleasesSlot(s) PROVE SlotInv'
  <2>1. Len(queue'[s]) = Len(queue[s]) - 1 /\ Len(queue[s]) \in Nat \ {0}
        /\ \A r \in SessionIds : r # s => queue'[r] = queue[r]
    <3>1. queue[s] \in Seq(Nat) /\ queue[s] # <<>>
      BY <1>3, <1>8 DEF ReleasesSlot
    <3>2. Len(queue[s]) \in Nat \ {0} /\ Len(Tail(queue[s])) = Len(queue[s]) - 1
      BY <3>1, HeadTailProperties, EmptySeq
    <3>. QED
      BY <1>3, <1>8, <3>2 DEF ReleasesSlot
  <2>2. /\ session[s].queued # 0
        /\ session'[s].queued = session[s].queued - 1
        /\ queuedRequests' = queuedRequests - 1
    BY <1>6, <1>8, <2>1 DEF ReleasesSlot
  <2>3. SlotsCounted'
    BY <1>6, <1>8, <2>1, <2>2 DEF ReleasesSlot, SlotsCounted
  <2>4. NoSlotsBeforeStart'
    <3> SUFFICES ASSUME NEW r \in SessionIds, r > started'
                 PROVE  session'[r].queued = 0
      BY DEF NoSlotsBeforeStart
    <3>1. r > started
      BY <1>1, <1>3 DEF MovesSlots, SessionIds
    <3>2. session[r].queued = 0 /\ r # s
      BY <1>6, <2>2, <3>1
    <3>. QED
      BY <1>8, <3>2 DEF ReleasesSlot
  <2>5. SlotsNotLeaked'
    <3>1. /\ SumFunctionOnSet(lens2, SessionIds) =
               (SumFunctionOnSet(lens, SessionIds) - Len(queue[s]))
                 + Len(queue'[s])
          /\ SumFunctionOnSet(lens, SessionIds) \in Int
      BY <1>moved, <2>1
    <3>2. InFlight(SessionIds)' = InFlight(SessionIds) - 1
          /\ InFlight(SessionIds) \in Int
      BY <1>5, <2>1, <3>1
    <3>3. queuedRequests' = queuedRequests - 1 /\ queuedRequests \in Int
      BY <1>3, <2>2
    <3>4. queuedRequests <= InFlight(SessionIds)
      BY <1>5, <1>6
    <3>. QED
      BY <3>2, <3>3, <3>4 DEF SlotsNotLeaked
  <2>. QED
    BY <1>1, <2>3, <2>4, <2>5 DEF SlotInv
<1>9. CASE ForgetsSlots
  <2>1. SlotsCounted'
    BY <1>6, <1>9 DEF ForgetsSlots, SlotsCounted
  <2>2. NoSlotsBeforeStart'
    BY <1>1, <1>3, <1>6, <1>9
    DEF ForgetsSlots, NoSlotsBeforeStart, MovesSlots, SessionIds
  <2>3. InFlight(SessionIds)' = InFlight(SessionIds)
    BY <1>9 DEF ForgetsSlots, InFlight
  <2>4. InFlight(SessionIds) \in Int
    BY <1>2, <1>4, <1>5, SumInt
  <2>5. SlotsNotLeaked'
    BY <1>3, <1>9, <2>3, <2>4 DEF ForgetsSlots, SlotInv, SlotsNotLeaked
  <2>. QED
    BY <1>1, <2>1, <2>2, <2>5 DEF SlotInv
<1>. QED
  BY <1>1, <1>7, <1>8, <1>9 DEF MovesSlots

(* No slot is taken at the start.                                           *)
LEMMA SlotInit == Init => SlotInv
<1> SUFFICES ASSUME Init PROVE SlotInv
  OBVIOUS
<1>1. TypeInv
  BY TypeInit
<1>2. \A s \in SessionIds : session[s].queued = 0 /\ Len(queue[s]) = 0
  BY EmptySeq DEF Init, NoSession
<1>3. queuedRequests <= InFlight(SessionIds)
  <2> DEFINE lens == [s \in SessionIds |-> Len(queue[s])]
  <2>1. IsFiniteSet(SessionIds) /\ \A s \in SessionIds : lens[s] = 0
    BY <1>2, FS_Interval, LimitsAssumption DEF SessionIds, LimitsAssumption
  <2> HIDE DEF lens
  <2>2. SumFunctionOnSet(lens, SessionIds) = 0
    BY <2>1, SumZero
  <2>3. InFlight(SessionIds) = 0
    BY <2>2 DEF InFlight, lens
  <2>. QED
    BY <2>3 DEF Init
<1>. QED
  BY <1>1, <1>2, <1>3 DEF SlotInv, SlotsCounted, NoSlotsBeforeStart, SlotsNotLeaked

(* Slots are never leaked: whatever mixture of failures, refused views,    *)
(* expiries and disconnections, the counter that refuses new requests      *)
(* stays within the operations that are really queued or running.          *)
THEOREM SlotsNeverLeak == Spec => []SlotsNotLeaked
<1>1. SlotInv => SlotsNotLeaked
  BY DEF SlotInv
<1>. QED
  BY <1>1, SlotInit, SlotStep, PTL DEF Spec

-----------------------------------------------------------------------------
(* The bytes of the retained views.                                        *)

Retained == UNION {session[s].views : s \in live}

BytesInv == ViewInv /\ BytesAccounted

(* What a step may do to the retained views: nothing, drop one, add one.   *)
KeepsViews ==
  Retained' = Retained /\ UNCHANGED <<minted, retainedBodyBytes>>

DropsView ==
  /\ UNCHANGED minted
  /\ \E v \in Retained :
       /\ Retained' = Retained \ {v}
       /\ retainedBodyBytes' = retainedBodyBytes - minted[v].bytes

AddsView ==
  /\ DOMAIN minted' = DOMAIN minted \union {Len(minted) + 1}
  /\ \A w \in DOMAIN minted : minted'[w] = minted[w]
  /\ Len(minted) + 1 \notin DOMAIN minted
  /\ Retained' = Retained \union {Len(minted) + 1}
  /\ minted'[Len(minted) + 1].bytes \in Nat
  /\ retainedBodyBytes' = retainedBodyBytes + minted'[Len(minted) + 1].bytes
  /\ retainedBodyBytes' <= MaxBodyBytes

(* The views of the live sessions stay.                                    *)
LEMMA SameViews ==
  ASSUME UNCHANGED <<live, minted, retainedBodyBytes>>,
         \A r \in live : session'[r].views = session[r].views
  PROVE  KeepsViews
<1>1. {session'[s].views : s \in live} = {session[s].views : s \in live}
  OBVIOUS
<1>. QED
  BY <1>1 DEF KeepsViews, Retained

(* A view belongs to one live session, so discarding it takes it, and the  *)
(* bytes it was counted with, from the process.                            *)
LEMMA LosingView ==
  ASSUME ViewInv, NEW s \in live, NEW v \in session[s].views, NEW new,
         new.views = session[s].views \ {v},
         session' = [session EXCEPT ![s] = new],
         UNCHANGED <<live, minted>>,
         retainedBodyBytes' = retainedBodyBytes - BytesOf(session[s], v)
  PROVE  DropsView
<1>1. session'[s].views = session[s].views \ {v}
      /\ \A r \in live : r # s => session'[r].views = session[r].views
  BY LiveAreSessions DEF ViewInv, TypeInv, TypeOK
<1>2. \A r \in live : r # s => v \notin session[r].views
  BY DEF ViewInv, EvictedViewsAreStale, GivenTo
<1>3. v \in Retained
  BY DEF Retained
<1>4. Retained' = Retained \ {v}
  <2>1. ASSUME NEW w \in Retained' PROVE w \in Retained \ {v}
    <3>1. PICK r \in live : w \in session'[r].views
      BY <2>1 DEF Retained
    <3>. QED
      BY <1>1, <1>2, <3>1 DEF Retained
  <2>2. ASSUME NEW w \in Retained \ {v} PROVE w \in Retained'
    <3>1. PICK r \in live : w \in session[r].views
      BY <2>2 DEF Retained
    <3>2. w \in session'[r].views
      BY <1>1, <2>2, <3>1
    <3>. QED
      BY <3>2 DEF Retained
  <2>. QED
    BY <2>1, <2>2
<1>5. BytesOf(session[s], v) = minted[v].bytes
  BY DEF BytesOf
<1>. QED
  BY <1>3, <1>4, <1>5 DEF DropsView

(* Evicting an entry other than the shown one drops its view.              *)
LEMMA EvictingDrops ==
  ASSUME ViewInv, Doomed = {}, UNCHANGED <<live, minted>>,
         NEW s \in live, NEW i \in 1..Len(session[s].history),
         i # session[s].position,
         session' = [session EXCEPT ![s] = Evicted(session[s], i)],
         retainedBodyBytes' =
           retainedBodyBytes - BytesOf(session[s], session[s].history[i])
  PROVE  DropsView
<1>1. session[s] \in SessionRecords /\ Coherent(session[s])
  BY LiveCoherent, LiveAreSessions DEF ViewInv, TypeInv, TypeOK
<1> DEFINE evicted == Evicted(session[s], i)
           v == session[s].history[i]
<1>2. EvictsOne(session[s], evicted, v)
  BY <1>1, EvictingCoherent
<1>3. session' = [session EXCEPT ![s] = evicted]
      /\ retainedBodyBytes' = retainedBodyBytes - BytesOf(session[s], v)
  OBVIOUS
<1> HIDE DEF evicted, v
<1>4. v \in session[s].views /\ evicted.views = session[s].views \ {v}
  BY <1>2 DEF EvictsOne
<1>. QED
  BY <1>3, <1>4, LosingView

(* Evicting the oldest evictable entry of any live session drops its view. *)
LEMMA EvictOldestDrops ==
  ASSUME ViewInv, Doomed = {}, NEW s \in live, Evictable(s) # {},
         EvictOldest(s), UNCHANGED <<live, minted>>
  PROVE  DropsView
<1>1. s \in SessionIds
  BY LiveAreSessions DEF ViewInv
<1>2. PICK i \in Evictable(s) :
           /\ i \in 1..Len(session[s].history)
           /\ session' = [session EXCEPT ![s] = Evicted(session[s], i)]
           /\ retainedBodyBytes' =
                retainedBodyBytes - BytesOf(session[s], session[s].history[i])
  BY <1>1, EvictOldestEffect DEF ViewInv, Evicted
<1>3. i # session[s].position
  BY DEF Evictable
<1>. QED
  BY <1>2, <1>3, EvictingDrops

(* A new view is counted with its bytes, for which there is room.          *)
LEMMA AppendAdds ==
  ASSUME ViewInv, AppendView
  PROVE  AddsView
<1> DEFINE s == turn.session
           v == Len(minted) + 1
           new == [session[s] EXCEPT !.history = Append(@, v),
                                     !.position = @ + 1,
                                     !.views = @ \union {v}]
<1>1. /\ s \in live /\ s \in SessionIds /\ v \in Nat /\ live' = live
      /\ session' = [session EXCEPT ![s] = new]
      /\ DOMAIN minted = 1..Len(minted) /\ DOMAIN minted' = 1..v
      /\ \A w \in DOMAIN minted : minted'[w] = minted[w]
      /\ minted'[v].bytes = turn.bytes
  BY AppendViewEffect DEF ViewInv, AppendView
<1>2. /\ session \in [SessionIds -> SessionRecords]
      /\ session[s] \in SessionRecords
      /\ Len(minted) \in Nat /\ live \subseteq SessionIds
  BY <1>1, LenProperties, LiveAreSessions DEF ViewInv, TypeInv, TypeOK
<1>3. new.views = session[s].views \union {v}
  BY <1>2 DEF SessionRecords
<1> HIDE DEF new
<1>4. session'[s].views = session[s].views \union {v}
      /\ \A r \in live : r # s => session'[r].views = session[r].views
  BY <1>1, <1>2, <1>3
<1>5. Retained' = Retained \union {v}
  <2>1. ASSUME NEW w \in Retained' PROVE w \in Retained \union {v}
    <3>1. PICK r \in live : w \in session'[r].views
      BY <1>1, <2>1 DEF Retained
    <3>. QED
      BY <1>4, <3>1 DEF Retained
  <2>2. ASSUME NEW w \in Retained \union {v} PROVE w \in Retained'
    <3>1. CASE w = v
      <4>1. w \in session'[s].views /\ s \in live'
        BY <1>1, <1>4, <3>1
      <4>. QED
        BY <4>1 DEF Retained
    <3>2. CASE w \in Retained
      <4>1. PICK r \in live : w \in session[r].views
        BY <3>2 DEF Retained
      <4>2. w \in session'[r].views /\ r \in live'
        BY <1>1, <1>4, <4>1
      <4>. QED
        BY <4>2 DEF Retained
    <3>. QED
      BY <2>2, <3>1, <3>2
  <2>. QED
    BY <2>1, <2>2
<1>6. /\ retainedBodyBytes' = retainedBodyBytes + turn.bytes
      /\ ~ (retainedBodyBytes + turn.bytes > MaxBodyBytes)
  BY DEF AppendView, Overflows
<1>7. turn.bytes \in Nat /\ retainedBodyBytes + turn.bytes <= MaxBodyBytes
  <2>1. turn.bytes \in BodySizes
    BY TurnTypes DEF AppendView, ViewInv, TypeInv, TypeOK
  <2>2. turn.bytes \in Nat /\ MaxBodyBytes \in Nat
    BY <2>1, LimitsAssumption DEF LimitsAssumption
  <2>3. retainedBodyBytes \in Int
    BY DEF ViewInv, TypeInv, TypeOK
  <2>. QED
    BY <1>6, <2>2, <2>3
<1>8. DOMAIN minted' = DOMAIN minted \union {v} /\ v \notin DOMAIN minted
  BY <1>1, <1>2
<1>. QED
  BY <1>1, <1>5, <1>6, <1>7, <1>8 DEF AddsView

(* A round of a deletion drops a view, or removes a session without any.   *)
LEMMA DeletionDrops ==
  ASSUME ViewInv, DeleteDoomed
  PROVE  KeepsViews \/ DropsView
<1> DEFINE s == Min(Doomed)
<1>1. s \in live /\ s \in SessionIds /\ UNCHANGED minted
  BY DoomedIsSession DEF DeleteDoomed, ViewInv
<1>2. /\ session[s] \in SessionRecords
      /\ session \in [SessionIds -> SessionRecords]
      /\ live \subseteq SessionIds
  BY <1>1, LiveAreSessions DEF ViewInv, TypeInv, TypeOK
<1>3. \/ /\ live' = live
         /\ \E v \in session[s].views :
              /\ session' = [session EXCEPT ![s] = Discarded(session[s], v)]
              /\ retainedBodyBytes' = retainedBodyBytes - BytesOf(session[s], v)
      \/ /\ live' = live \ {s}
         /\ session[s].views = {}
         /\ session' = [session EXCEPT
              ![s] = [NoSession EXCEPT !.queued = session[s].queued]]
         /\ UNCHANGED retainedBodyBytes
  BY DeleteDoomedEffect DEF ViewInv
<1> HIDE DEF s
<1>4. CASE /\ live' = live
           /\ \E v \in session[s].views :
                /\ session' = [session EXCEPT ![s] = Discarded(session[s], v)]
                /\ retainedBodyBytes' = retainedBodyBytes - BytesOf(session[s], v)
  <2>1. PICK v \in session[s].views :
                /\ session' = [session EXCEPT ![s] = Discarded(session[s], v)]
                /\ retainedBodyBytes' = retainedBodyBytes - BytesOf(session[s], v)
    BY <1>4
  <2>2. Discarded(session[s], v).views = session[s].views \ {v}
    BY <1>2 DEF Discarded, SessionRecords
  <2>. QED
    BY <1>1, <1>4, <2>1, <2>2, LosingView
<1>5. CASE /\ live' = live \ {s}
           /\ session[s].views = {}
           /\ session' = [session EXCEPT
                ![s] = [NoSession EXCEPT !.queued = session[s].queued]]
           /\ UNCHANGED retainedBodyBytes
  <2>1. \A r \in live' : r \in live /\ session'[r].views = session[r].views
    BY <1>2, <1>5
  <2>2. \A r \in live : r \in live' \/ session[r].views = {}
    BY <1>5
  <2>3. Retained' = Retained
    <3>1. ASSUME NEW w \in Retained' PROVE w \in Retained
      <4>1. PICK r \in live' : w \in session'[r].views
        BY <3>1 DEF Retained
      <4>. QED
        BY <2>1, <4>1 DEF Retained
    <3>2. ASSUME NEW w \in Retained PROVE w \in Retained'
      <4>1. PICK r \in live : w \in session[r].views
        BY <3>2 DEF Retained
      <4>2. r \in live' /\ w \in session'[r].views
        BY <2>1, <2>2, <4>1
      <4>. QED
        BY <4>2 DEF Retained
    <3>. QED
      BY <3>1, <3>2
  <2>. QED
    BY <1>1, <1>5, <2>3 DEF KeepsViews
<1>. QED
  BY <1>3, <1>4, <1>5

(* A fresh session retains no view.                                        *)
LEMMA StartKeepsViews ==
  ASSUME ViewInv, StartSession
  PROVE  KeepsViews
<1> DEFINE s == started + 1
           new == [NoSession EXCEPT !.owner = turn.connection,
                                    !.lastAcceptedAt = now]
<1>1. CASE UNCHANGED <<session, live>>
  BY <1>1, SameViews DEF StartSession
<1>2. CASE live' = live \union {s} /\ session' = [session EXCEPT ![s] = new]
  <2>1. /\ started \in Nat /\ live \subseteq 1..started /\ s \in SessionIds
        /\ session \in [SessionIds -> SessionRecords]
    <3>1. /\ started \in Nat /\ live \subseteq 1..started
          /\ session \in [SessionIds -> SessionRecords]
      BY DEF ViewInv, TypeInv, TypeOK
    <3>2. started < SessionBound
      BY DEF StartSession, ViewInv, TypeInv, Attended
    <3>3. SessionBound \in Nat
      BY LimitsAssumption DEF LimitsAssumption
    <3>. QED
      BY <3>1, <3>2, <3>3 DEF SessionIds
  <2>2. s \notin live /\ live \subseteq SessionIds
    BY <2>1, LiveAreSessions DEF ViewInv
  <2>3. new.views = {}
    BY DEF NoSession
  <2> HIDE DEF new, s
  <2>4. session'[s].views = {} /\ \A r \in live : session'[r].views = session[r].views
    BY <1>2, <2>1, <2>2, <2>3
  <2>5. Retained' = Retained
    <3>1. ASSUME NEW w \in Retained' PROVE w \in Retained
      <4>1. PICK r \in live' : w \in session'[r].views
        BY <3>1 DEF Retained
      <4>2. r \in live /\ w \in session[r].views
        BY <1>2, <2>4, <4>1
      <4>. QED
        BY <4>2 DEF Retained
    <3>2. ASSUME NEW w \in Retained PROVE w \in Retained'
      <4>1. PICK r \in live : w \in session[r].views
        BY <3>2 DEF Retained
      <4>2. r \in live' /\ w \in session'[r].views
        BY <1>2, <2>4, <4>1
      <4>. QED
        BY <4>2 DEF Retained
    <3>. QED
      BY <3>1, <3>2
  <2>. QED
    BY <2>5 DEF KeepsViews, StartSession
<1>. QED
  BY <1>1, <1>2 DEF StartSession

RetainedMoves == KeepsViews \/ DropsView \/ AddsView

(* Every step of every handler keeps, drops or adds a retained view.       *)
LEMMA RetainedSteps ==
  ASSUME ViewInv, [Next]_vars
  PROVE  RetainedMoves
<1> USE DEF RetainedMoves
<1>typed. /\ session \in [SessionIds -> SessionRecords]
          /\ \A s \in SessionIds : session[s] \in SessionRecords
          /\ live \subseteq SessionIds
  BY LiveAreSessions DEF ViewInv, TypeInv, TypeOK
<1>same. ASSUME UNCHANGED <<session, live, minted, retainedBodyBytes>>
         PROVE  KeepsViews
  BY <1>same, SameViews
<1>settle. ASSUME NEW s \in SessionIds, Settle(s),
                  UNCHANGED <<live, minted, retainedBodyBytes>>
           PROVE  KeepsViews
  <2>1. \A r \in live : session'[r].views = session[r].views
    BY <1>settle, <1>typed, SettleKeeps DEF ViewInv
  <2>. QED
    BY <1>settle, <2>1, SameViews
<1>1. CASE Tick \/ PublishGeneration \/ Closed \/ AnswerInvalidSession
  BY <1>1, <1>same DEF Tick, PublishGeneration, Closed, AnswerInvalidSession
<1>2. CASE Arrivals
  BY <1>2, <1>same DEF Arrivals, Start, Close, Execute, Arrive
<1>3. CASE DeleteDoomed
  BY <1>3, DeletionDrops
<1>4. CASE StartSession
  BY <1>4, StartKeepsViews
<1>5. CASE AnswerRetained \/ RefuseRequest
  <2> DEFINE s == turn.session
             new == [session[s] EXCEPT !.requests = Unexpired(s)]
  <2>1. s \in SessionIds /\ UNCHANGED <<live, minted, retainedBodyBytes>>
    BY <1>5, <1>typed DEF AnswerRetained, RefuseRequest, Owned
  <2>2. new.views = session[s].views
    BY <1>typed, <2>1 DEF SessionRecords
  <2>3. session' = [session EXCEPT ![s] = new]
    BY <1>5 DEF AnswerRetained, RefuseRequest
  <2> HIDE DEF new, s
  <2>4. \A r \in live : session'[r].views = session[r].views
    BY <1>typed, <2>1, <2>2, <2>3
  <2>. QED
    BY <2>1, <2>4, SameViews
<1>6. CASE AcceptRequest
  <2> DEFINE s == turn.session
             entry == [request |-> turn.request,
                       operation |-> Len(accepted) + 1,
                       expiresAt |-> now + Retention]
             kept == Trimmed(Unexpired(s) \union {entry})
             new == [session[s] EXCEPT !.lastAcceptedAt = now,
                                       !.queued = @ + 1,
                                       !.requests = kept]
  <2>1. s \in SessionIds /\ UNCHANGED <<live, minted, retainedBodyBytes>>
    BY <1>6, <1>typed DEF AcceptRequest, Owned
  <2>2. session' = [session EXCEPT ![s] = new]
    BY <1>typed, <2>1, <1>6 DEF AcceptRequest
  <2> HIDE DEF kept
  <2>3. new.views = session[s].views
    BY <1>typed, <2>1 DEF SessionRecords
  <2> HIDE DEF new, s
  <2>4. \A r \in live : session'[r].views = session[r].views
    BY <1>typed, <2>1, <2>2, <2>3
  <2>. QED
    BY <2>1, <2>4, SameViews
<1>7. ASSUME NEW s \in SessionIds, Operate(s) PROVE KeepsViews
  <2>1. CASE Focus(s)
    BY <1>same, <2>1 DEF Focus, Dispatch
  <2>2. CASE \E v \in 0..Len(minted) : Follow(s, v)
    BY <1>same, <1>settle, <2>2 DEF Follow, Dispatch
  <2>3. CASE \E direction \in Directions : History(s, direction)
    <3>1. PICK direction \in Directions : History(s, direction)
      BY <2>3
    <3> DEFINE p == Restored(s, direction)
               n == IF session[s].queued = 0 THEN 0 ELSE session[s].queued - 1
               new == [session[s] EXCEPT !.position = p, !.queued = n]
    <3>2. session' = [session EXCEPT ![s] = new]
      BY <1>typed, <3>1 DEF History
    <3> HIDE DEF p, n
    <3>3. new.views = session[s].views
      BY <1>typed DEF SessionRecords
    <3> HIDE DEF new
    <3>4. \A r \in live : session'[r].views = session[r].views
      BY <1>typed, <3>2, <3>3
    <3>. QED
      BY <3>1, <3>4, SameViews DEF History
  <2>4. CASE AnswerAtOnce(s)
    BY <1>settle, <2>4 DEF AnswerAtOnce
  <2>5. CASE BackendFails(s)
    BY <1>settle, <2>5 DEF BackendFails
  <2>6. CASE \E bytes \in BodySizes : AnswerFocus(s, bytes)
    BY <1>same, <2>6 DEF AnswerFocus
  <2>7. CASE \E bytes \in BodySizes, candidates \in 1..MaxCandidates :
               AnswerFollow(s, bytes, candidates)
    BY <1>same, <2>7 DEF AnswerFollow
  <2>. QED
    BY <1>7, <2>1, <2>2, <2>3, <2>4, <2>5, <2>6, <2>7 DEF Operate
<1>adding. ASSUME turn.at \in {"room", "trim"}
           PROVE  turn.session \in SessionIds /\ Doomed = {}
  BY <1>adding, TurnTypes, NobodyDoomed DEF ViewInv, TypeInv, TypeOK
<1>8. CASE EvictForRoom
  <2>1. Lenders \in SUBSET Nat /\ Lenders # {} /\ Lenders \subseteq live
    <3>1. Lenders \subseteq live /\ Lenders # {}
      BY <1>8 DEF EvictForRoom, Lenders
    <3>2. live \subseteq Nat
      BY <1>typed DEF SessionIds
    <3>. QED
      BY <3>1, <3>2
  <2>2. Min(Lenders) \in Lenders
    BY <2>1, MinOfNaturals
  <2>3. Min(Lenders) \in live /\ Evictable(Min(Lenders)) # {}
    BY <2>1, <2>2 DEF Lenders
  <2>. QED
    BY <1>8, <1>adding, <2>3, EvictOldestDrops DEF EvictForRoom
<1>9. CASE RefuseView
  BY <1>9, <1>adding, <1>settle DEF RefuseView
<1>10. CASE AbandonForward
  <2> DEFINE s == turn.session
             last == Len(session[s].history)
  <2>1. /\ Doomed = {} /\ s \in live /\ UNCHANGED <<live, minted>>
        /\ session[s].position < last
    BY <1>10, <1>adding DEF AbandonForward
  <2>2. /\ session[s] \in SessionRecords /\ session[s].history \in Seq(Nat)
        /\ session[s].position \in Nat
    BY <1>typed, <2>1 DEF SessionRecords
  <2>3. last \in 1..last /\ last # session[s].position
        /\ ~ (last < session[s].position)
    BY <2>1, <2>2, LenProperties
  <2>4. [session[s] EXCEPT !.history = RemoveAt(@, last)]
         = [session[s] EXCEPT !.history = RemoveAt(@, last),
                              !.position = IF last < @ THEN @ - 1 ELSE @]
    BY <2>2, <2>3 DEF SessionRecords
  <2>5. /\ session' = [session EXCEPT ![s] = Evicted(session[s], last)]
        /\ retainedBodyBytes' =
             retainedBodyBytes - BytesOf(session[s], session[s].history[last])
    BY <1>10, <2>4 DEF AbandonForward, Evicted
  <2>. QED
    BY <2>1, <2>3, <2>5, EvictingDrops
<1>11. CASE AppendView
  BY <1>11, AppendAdds
<1>12. CASE TrimViews
  <2>1. turn.session \in live /\ Doomed = {}
    BY <1>12, <1>adding DEF TrimViews, ViewInv, TrimmingLive
  <2>. QED
    BY <1>12, <2>1, EvictOldestDrops DEF TrimViews, Crowded
<1>13. CASE ViewAdded
  BY <1>13, <1>adding, <1>same, <1>settle DEF ViewAdded
<1>14. CASE UNCHANGED vars
  BY <1>14, <1>same DEF vars
<1>. QED
  BY <1>1, <1>2, <1>3, <1>4, <1>5, <1>6, <1>7, <1>8, <1>9, <1>10, <1>11,
     <1>12, <1>13, <1>14
  DEF Next, Entered, Added

(* The views sums range over, and their sizes.                             *)
LEMMA RetainedFinite ==
  ASSUME ViewInv
  PROVE  /\ IsFiniteSet(Retained) /\ Retained \subseteq DOMAIN minted
         /\ DOMAIN minted = 1..Len(minted) /\ Len(minted) \in Nat
         /\ \A v \in DOMAIN minted : minted[v].bytes \in Nat
<1>1. minted \in Seq([session : SessionIds, bytes : BodySizes,
                     generation : Nat, captured : Nat])
  BY DEF ViewInv, TypeInv, TypeOK
<1>2. Len(minted) \in Nat /\ DOMAIN minted = 1..Len(minted)
  BY <1>1, LenProperties
<1>3. \A v \in DOMAIN minted : minted[v].bytes \in Nat
  <2> SUFFICES ASSUME NEW v \in 1..Len(minted) PROVE minted[v].bytes \in Nat
    BY <1>2
  <2>1. minted[v] \in [session : SessionIds, bytes : BodySizes,
                      generation : Nat, captured : Nat]
    BY <1>1, ElementOfSeq
  <2>2. minted[v].bytes \in BodySizes
    BY <2>1
  <2>. QED
    BY <2>2, LimitsAssumption DEF LimitsAssumption
<1>4. Retained \subseteq DOMAIN minted
  BY LiveAreSessions DEF Retained, ViewInv, TypeInv, ViewsMinted
<1>5. IsFiniteSet(Retained)
  <2>1. IsFiniteSet(1..Len(minted))
    BY <1>2, FS_Interval
  <2>. QED
    BY <1>2, <1>4, <2>1, FS_Subset
<1>. QED
  BY <1>2, <1>3, <1>4, <1>5

(* Keeping, dropping and adding views keep the account.                    *)
LEMMA BytesStep == BytesInv /\ [Next]_vars => BytesInv'
<1> SUFFICES ASSUME BytesInv, [Next]_vars PROVE BytesAccounted'
  BY ViewStep DEF BytesInv
<1> DEFINE size == [v \in DOMAIN minted |-> minted[v].bytes]
           size2 == [v \in DOMAIN minted' |-> minted'[v].bytes]
<1>1. ViewInv /\ ViewInv' /\ RetainedMoves
  BY ViewStep, RetainedSteps DEF BytesInv
<1>2. /\ IsFiniteSet(Retained) /\ Retained \subseteq DOMAIN minted
      /\ \A v \in DOMAIN minted : size[v] = minted[v].bytes
                                  /\ minted[v].bytes \in Nat
  BY <1>1, RetainedFinite
<1>3. /\ retainedBodyBytes = SumFunctionOnSet(size, Retained)
      /\ retainedBodyBytes <= MaxBodyBytes
  BY DEF BytesInv, BytesAccounted, BytesIn, Retained
<1>4. BytesAccounted' <=>
        /\ retainedBodyBytes' = SumFunctionOnSet(size2, Retained')
        /\ retainedBodyBytes' <= MaxBodyBytes
  BY DEF BytesAccounted, BytesIn, Retained
<1>5. retainedBodyBytes \in Int /\ MaxBodyBytes \in Int
  BY <1>1, LimitsAssumption DEF ViewInv, TypeInv, TypeOK, LimitsAssumption
<1>6. CASE KeepsViews
  <2>1. size2 = size
    BY <1>6 DEF KeepsViews
  <2>. QED
    BY <1>3, <1>4, <1>6, <2>1 DEF KeepsViews
<1>7. CASE DropsView
  <2>1. size2 = size
    BY <1>7 DEF DropsView
  <2>2. PICK v \in Retained :
          /\ Retained' = Retained \ {v}
          /\ retainedBodyBytes' = retainedBodyBytes - minted[v].bytes
    BY <1>7 DEF DropsView
  <2> HIDE DEF size, size2
  <2>3. \A x \in Retained : size[x] \in Int
    BY <1>2
  <2>4. SumFunctionOnSet(size, Retained) =
          size[v] + SumFunctionOnSet(size, Retained \ {v})
    BY <1>2, <2>3, SumTakesOut
  <2>5. SumFunctionOnSet(size, Retained \ {v}) \in Int
    <3>1. IsFiniteSet(Retained \ {v})
      BY <1>2, FS_RemoveElement
    <3>2. \A x \in Retained \ {v} : size[x] \in Int
      BY <2>3
    <3>. QED
      BY <3>1, <3>2, SumInt
  <2>6. size[v] = minted[v].bytes /\ size[v] \in Nat
    BY <1>2
  <2>. QED
    BY <1>3, <1>4, <1>5, <2>1, <2>2, <2>4, <2>5, <2>6
<1>8. CASE AddsView
  <2> DEFINE v == Len(minted) + 1
  <2>1. /\ DOMAIN minted' = DOMAIN minted \union {v} /\ v \notin DOMAIN minted
        /\ \A w \in DOMAIN minted : minted'[w] = minted[w]
        /\ Retained' = Retained \union {v}
        /\ minted'[v].bytes \in Nat
        /\ retainedBodyBytes' = retainedBodyBytes + minted'[v].bytes
        /\ retainedBodyBytes' <= MaxBodyBytes
    BY <1>8 DEF AddsView
  <2>2. /\ IsFiniteSet(Retained')
        /\ \A w \in DOMAIN minted' : minted'[w].bytes \in Nat
    BY <1>2, <2>1, FS_AddElement
  <2> HIDE DEF v
  <2>3. \A x \in Retained' : size2[x] \in Int
    BY <1>2, <2>1, <2>2
  <2>4. \A x \in Retained : size2[x] = size[x]
    BY <1>2, <2>1
  <2>5. size2[v] = minted'[v].bytes /\ size2[v] \in Nat
    BY <2>1, <2>2
  <2>6. v \in Retained' /\ Retained' \ {v} = Retained
    BY <1>2, <2>1
  <2> HIDE DEF size, size2
  <2>7. SumFunctionOnSet(size2, Retained') =
          size2[v] + SumFunctionOnSet(size2, Retained)
    BY <2>2, <2>3, <2>6, SumTakesOut
  <2>8. SumFunctionOnSet(size2, Retained) = SumFunctionOnSet(size, Retained)
    BY <1>2, <2>4, SumSame
  <2>. QED
    BY <1>3, <1>4, <1>5, <2>1, <2>5, <2>7, <2>8
<1>. QED
  BY <1>1, <1>6, <1>7, <1>8 DEF RetainedMoves

(* Nothing is retained at the start.                                        *)
LEMMA BytesInit == Init => BytesInv
<1> SUFFICES ASSUME Init PROVE BytesInv
  OBVIOUS
<1>1. Retained = {} /\ retainedBodyBytes = 0
  BY DEF Init, Retained
<1>2. BytesIn({}) = 0
  BY SumEmpty DEF BytesIn
<1>. QED
  BY <1>1, <1>2, ViewInit, LimitsAssumption
  DEF BytesInv, BytesAccounted, Retained, LimitsAssumption

(* The process-wide byte account is exact and within its limit, whatever   *)
(* was added, evicted from other sessions, abandoned, expired or closed.   *)
THEOREM RetainedBytesAccounted == Spec => []BytesAccounted
<1>1. BytesInv => BytesAccounted
  BY DEF BytesInv
<1>. QED
  BY <1>1, BytesInit, BytesStep, PTL DEF Spec

-----------------------------------------------------------------------------
(* Retries.                                                                *)

(* Requests are accepted for sessions that were started, in the past.      *)
AcceptedPast ==
  \A m \in DOMAIN accepted :
    accepted[m].session <= started /\ accepted[m].at <= now

(* What a session retains of a request is true of the accepted one.        *)
EntryTrue(s, e) ==
  /\ e.operation \in DOMAIN accepted
  /\ accepted[e.operation].session = s
  /\ accepted[e.operation].request = e.request
  /\ e.expiresAt = accepted[e.operation].at + Retention

EntriesTrue == \A s \in live : \A e \in session[s].requests : EntryTrue(s, e)

(* What the session of request m accepted after it.                        *)
Later(m) ==
  {k \in DOMAIN accepted :
     k > m /\ accepted[k].session = accepted[m].session}

Remembered(m) ==
  \/ \E e \in session[accepted[m].session].requests : e.operation = m
  \/ accepted[m].at + Retention <= now
  \/ Cardinality(Later(m)) >= MaxRequests

(* A live session has forgotten only requests whose retention is over and  *)
(* those that MaxRequests later ones displaced.                            *)
AllRemembered ==
  \A m \in DOMAIN accepted : accepted[m].session \in live => Remembered(m)

RetryInv ==
  TypeInv /\ AcceptedPast /\ EntriesTrue /\ AllRemembered /\ RetryRunsOnce

(* What a step may do to the retained requests: forget expired ones, start *)
(* or delete sessions, or accept one.                                      *)
KeepsRequests ==
  /\ UNCHANGED accepted
  /\ now' \in Nat /\ now <= now' /\ started' \in Nat /\ started <= started'
  /\ \A s \in live' :
       IF s \in live
       THEN session'[s].requests \subseteq session[s].requests
            /\ Unexpired(s) \subseteq session'[s].requests
       ELSE started < s /\ session'[s].requests = {}

AddsRequest(s, entry) ==
  /\ s \in live /\ live' = live /\ now' = now /\ started' = started
  /\ entry \in Entries
  /\ entry.operation = Len(accepted) + 1 /\ entry.expiresAt = now + Retention
  /\ ~ Known(s, entry.request)
  /\ \E operation \in [session : {s}, request : {entry.request},
                       call : Calls, at : {now}] :
       accepted' = Append(accepted, operation)
  /\ session'[s].requests = Trimmed(Unexpired(s) \union {entry})
  /\ \A r \in live : r # s => session'[r].requests = session[r].requests

RequestsMove == KeepsRequests \/ \E s, entry : AddsRequest(s, entry)

(* Only the entry of the least operation is trimmed, and only when there   *)
(* are too many.                                                           *)
LEMMA TrimmedKeeps ==
  ASSUME NEW entries, NEW e \in entries
  PROVE  /\ Trimmed(entries) \subseteq entries
         /\ e \notin Trimmed(entries) =>
              /\ ~ (Cardinality(entries) <= MaxRequests)
              /\ \A x \in entries : ~ (x.operation < e.operation)
BY DEF Trimmed

(* The sequence of accepted requests and its extension.                    *)
LEMMA AcceptedSequence ==
  ASSUME TypeInv
  PROVE  /\ Len(accepted) \in Nat /\ DOMAIN accepted = 1..Len(accepted)
         /\ \A m \in DOMAIN accepted : accepted[m].at \in Nat
                                       /\ accepted[m].session \in SessionIds
<1>1. accepted \in Seq([session : SessionIds, request : RequestIds,
                       call : Calls, at : Nat])
  BY DEF TypeInv, TypeOK
<1>2. Len(accepted) \in Nat /\ DOMAIN accepted = 1..Len(accepted)
  BY <1>1, LenProperties
<1>3. \A m \in 1..Len(accepted) :
        accepted[m] \in [session : SessionIds, request : RequestIds,
                         call : Calls, at : Nat]
  BY <1>1, ElementOfSeq
<1>. QED
  BY <1>2, <1>3

(* An entry is determined by its fields.                                   *)
LEMMA EntryDetermined ==
  ASSUME NEW x \in Entries, NEW y \in Entries, x.request = y.request,
         x.operation = y.operation, x.expiresAt = y.expiresAt
  PROVE  x = y
BY DEF Entries

(* Forgetting expired requests, deleting and starting sessions.            *)
LEMMA KeepsRetries ==
  ASSUME RetryInv, TypeInv', KeepsRequests
  PROVE  RetryInv'
<1>1. /\ DOMAIN accepted = 1..Len(accepted)
      /\ \A m \in DOMAIN accepted : accepted[m].at \in Nat
                                    /\ accepted[m].session \in SessionIds
      /\ started \in Nat /\ now \in Nat /\ Retention \in Nat
      /\ now' \in Nat /\ started' \in Nat /\ now <= now' /\ started <= started'
      /\ accepted' = accepted
  BY AcceptedSequence, LimitsAssumption
  DEF RetryInv, TypeInv, TypeOK, LimitsAssumption, KeepsRequests
<1>2. AcceptedPast'
  <2> SUFFICES ASSUME NEW m \in DOMAIN accepted
               PROVE  accepted[m].session <= started' /\ accepted[m].at <= now'
    BY <1>1 DEF AcceptedPast
  <2>1. accepted[m].session <= started /\ accepted[m].at <= now
    BY DEF RetryInv, AcceptedPast
  <2>2. accepted[m].session \in Int
    BY <1>1 DEF SessionIds
  <2>. QED
    BY <1>1, <2>1, <2>2
<1>3. EntriesTrue'
  <2> SUFFICES ASSUME NEW s \in live', NEW e \in session'[s].requests
               PROVE  EntryTrue(s, e)
    BY <1>1 DEF EntriesTrue, EntryTrue
  <2>1. s \in live /\ e \in session[s].requests
    BY DEF KeepsRequests
  <2>. QED
    BY <2>1 DEF RetryInv, EntriesTrue
<1>4. AllRemembered'
  <2> SUFFICES ASSUME NEW m \in DOMAIN accepted, accepted[m].session \in live'
               PROVE  Remembered(m)'
    BY <1>1 DEF AllRemembered
  <2> DEFINE s == accepted[m].session
  <2>1. s \in live
    <3>1. s <= started /\ s \in Int
      BY <1>1 DEF RetryInv, AcceptedPast, SessionIds
    <3>2. ~ (started < s)
      BY <1>1, <3>1
    <3>. QED
      BY <3>2 DEF KeepsRequests
  <2>2. Remembered(m)
    BY <2>1 DEF RetryInv, AllRemembered
  <2>3. Later(m)' = Later(m)
    BY <1>1 DEF Later
  <2>4. CASE accepted[m].at + Retention <= now
    <3>1. accepted[m].at + Retention <= now'
      BY <1>1, <2>4
    <3>. QED
      BY <1>1, <3>1 DEF Remembered
  <2>5. CASE Cardinality(Later(m)) >= MaxRequests
    BY <2>3, <2>5 DEF Remembered
  <2>6. CASE \E e \in session[s].requests : e.operation = m
    <3>1. PICK e \in session[s].requests : e.operation = m
      BY <2>6
    <3>2. e.expiresAt = accepted[m].at + Retention
      BY <2>1, <3>1 DEF RetryInv, EntriesTrue, EntryTrue
    <3>3. CASE e \in Unexpired(s)
      <4>1. e \in session'[s].requests
        BY <2>1, <3>3 DEF KeepsRequests
      <4>. QED
        BY <1>1, <3>1, <4>1 DEF Remembered
    <3>4. CASE e \notin Unexpired(s)
      <4>1. ~ (accepted[m].at + Retention > now)
        BY <3>1, <3>2, <3>4 DEF Unexpired
      <4>. QED
        BY <1>1, <2>4, <4>1
    <3>. QED
      BY <3>3, <3>4
  <2>. QED
    BY <2>2, <2>4, <2>5, <2>6 DEF Remembered
<1>5. RetryRunsOnce'
  BY <1>1 DEF RetryInv, RetryRunsOnce
<1>. QED
  BY <1>2, <1>3, <1>4, <1>5 DEF RetryInv

(* Accepting a request, trimming included: a trimmed entry is displaced by *)
(* as many later requests of its session as there are entries left, and a  *)
(* request_id is accepted again only when the session forgot it.           *)
LEMMA AddsRetries ==
  ASSUME RetryInv, TypeInv', NEW s, NEW entry, AddsRequest(s, entry)
  PROVE  RetryInv'
<1> DEFINE n == Len(accepted) + 1
           entries == Unexpired(s) \union {entry}
<1>1. PICK operation \in [session : {s}, request : {entry.request},
                          call : Calls, at : {now}] :
         accepted' = Append(accepted, operation)
  BY DEF AddsRequest
<1>2. operation.session = s /\ operation.request = entry.request
      /\ operation.at = now
  BY <1>1
<1>3. /\ DOMAIN accepted = 1..Len(accepted) /\ Len(accepted) \in Nat
      /\ \A m \in DOMAIN accepted : accepted[m].at \in Nat
                                    /\ accepted[m].session \in SessionIds
      /\ started \in Nat /\ now \in Nat /\ Retention \in Nat
      /\ MaxRequests \in Nat /\ MaxRequests > 0 /\ n \in Nat
      /\ s <= started
  <2>1. /\ DOMAIN accepted = 1..Len(accepted) /\ Len(accepted) \in Nat
        /\ \A m \in DOMAIN accepted : accepted[m].at \in Nat
                                      /\ accepted[m].session \in SessionIds
    BY AcceptedSequence DEF RetryInv
  <2>2. started \in Nat /\ now \in Nat /\ live \subseteq 1..started
    BY LimitsAssumption DEF RetryInv, TypeInv, TypeOK, LimitsAssumption
  <2>3. s \in live
    BY DEF AddsRequest
  <2>4. Retention \in Nat /\ MaxRequests \in Nat /\ MaxRequests > 0
    BY LimitsAssumption DEF LimitsAssumption
  <2>. QED
    BY <2>1, <2>2, <2>3, <2>4
<1>4. /\ \A m \in DOMAIN accepted : accepted'[m] = accepted[m]
      /\ accepted'[n] = operation
      /\ DOMAIN accepted' = 1..n
      /\ DOMAIN accepted' = DOMAIN accepted \union {n} /\ n \notin DOMAIN accepted
  <2>1. accepted \in Seq([session : SessionIds, request : RequestIds,
                         call : Calls, at : Nat])
    BY DEF RetryInv, TypeInv, TypeOK
  <2>2. accepted' \in Seq([session : SessionIds, request : RequestIds,
                          call : Calls, at : Nat])
    BY DEF TypeInv, TypeOK
  <2>3. /\ \A m \in DOMAIN accepted : accepted'[m] = accepted[m]
        /\ accepted'[n] = operation /\ DOMAIN accepted' = 1..n
    BY <1>1, <1>3, <2>1
  <2>. QED
    BY <1>3, <2>3
<1>5. AcceptedPast'
  BY <1>2, <1>3, <1>4 DEF RetryInv, AcceptedPast, AddsRequest
<1> HIDE DEF n
<1>6. \A e \in Unexpired(s) :
        /\ EntryTrue(s, e) /\ e.operation # n /\ e.operation < n
        /\ e.operation \in Nat
  <2> SUFFICES ASSUME NEW e \in Unexpired(s)
               PROVE  EntryTrue(s, e) /\ e.operation # n /\ e.operation < n
                      /\ e.operation \in Nat
    OBVIOUS
  <2>1. EntryTrue(s, e)
    BY DEF RetryInv, EntriesTrue, Unexpired, AddsRequest
  <2>. QED
    BY <1>3, <2>1 DEF EntryTrue, n
<1>7. /\ entry.operation = n /\ entry.expiresAt = now + Retention
      /\ live' = live /\ now' = now /\ started' = started /\ s \in live
      /\ session'[s].requests = Trimmed(entries)
      /\ \A r \in live : r # s => session'[r].requests = session[r].requests
      /\ ~ Known(s, entry.request)
  BY DEF AddsRequest, n
<1>8. \A e \in entries : EntryTrue(s, e)' /\ e.operation \in Nat
  <2>1. EntryTrue(s, entry)'
    BY <1>2, <1>4, <1>7 DEF EntryTrue
  <2>2. \A e \in Unexpired(s) : EntryTrue(s, e)'
    BY <1>4, <1>6 DEF EntryTrue
  <2>. QED
    BY <1>3, <1>6, <1>7, <2>1, <2>2 DEF n
<1>9. EntriesTrue'
  <2> SUFFICES ASSUME NEW r \in live, NEW e \in session'[r].requests
               PROVE  EntryTrue(r, e)'
    BY <1>7 DEF EntriesTrue
  <2>1. CASE r = s
    <3>1. e \in entries
      BY <1>7, <2>1 DEF Trimmed
    <3>. QED
      BY <1>8, <2>1, <3>1
  <2>2. CASE r # s
    <3>1. EntryTrue(r, e)
      BY <1>7, <2>2 DEF RetryInv, EntriesTrue
    <3>. QED
      BY <1>4, <3>1 DEF EntryTrue
  <2>. QED
    BY <2>1, <2>2
<1>later. ASSUME NEW m \in DOMAIN accepted'
          PROVE  /\ IsFiniteSet(Later(m)')
                 /\ m # n => Later(m) \subseteq Later(m)'
  <2>1. Later(m)' \subseteq 1..n
    BY <1>4 DEF Later
  <2>2. IsFiniteSet(1..n)
    BY <1>3, FS_Interval DEF n
  <2>3. IsFiniteSet(Later(m)')
    BY <2>1, <2>2, FS_Subset
  <2>4. m # n => Later(m) \subseteq Later(m)'
    BY <1>4 DEF Later
  <2>. QED
    BY <2>3, <2>4
<1>entry. \A x, y \in entries : x.operation = y.operation => x = y
  <2>1. Unexpired(s) \subseteq Entries
    BY LiveAreSessions, <1>7
    DEF Unexpired, RetryInv, TypeInv, TypeOK, SessionRecords
  <2>2. entries \subseteq Entries
    BY <2>1 DEF AddsRequest
  <2> SUFFICES ASSUME NEW x \in entries, NEW y \in entries,
                      x.operation = y.operation
               PROVE  x = y
    OBVIOUS
  <2>3. x.request = y.request /\ x.expiresAt = y.expiresAt
    BY <1>8 DEF EntryTrue
  <2> HIDE DEF entries
  <2>. QED
    BY <2>2, <2>3, EntryDetermined
<1>trimmed. ASSUME NEW e \in entries, e \notin Trimmed(entries)
            PROVE  /\ e.operation # n
                   /\ Cardinality(Later(e.operation)') >= MaxRequests
  <2> DEFINE W == entries \ {e}
             m == e.operation
             f == [x \in W |-> x.operation]
             L == Later(m)'
  <2>1. /\ ~ (Cardinality(entries) <= MaxRequests)
        /\ \A x \in entries : ~ (x.operation < m)
    BY <1>trimmed, TrimmedKeeps
  <2>2. m \in DOMAIN accepted' /\ accepted'[m].session = s /\ m \in Nat
    BY <1>8 DEF EntryTrue
  <2>3. \A x \in W : x.operation # m
    BY <1>entry
  <2>4. \A x \in W : x.operation \in L
    <3> SUFFICES ASSUME NEW x \in entries, x.operation # m
                 PROVE  x.operation \in L
      BY <2>3
    <3>1. /\ x.operation \in DOMAIN accepted'
          /\ accepted'[x.operation].session = s /\ x.operation \in Nat
      BY <1>8 DEF EntryTrue
    <3>2. x.operation > m
      BY <2>1, <2>2, <3>1
    <3>. QED
      BY <2>2, <3>1, <3>2 DEF Later
  <2>5. IsFiniteSet(L)
    BY <1>later, <2>2
  <2>6. f \in Injection(W, L)
    BY <1>entry, <2>4 DEF Injection, IsInjective
  <2> HIDE DEF f, L
  <2>7. IsFiniteSet(W) /\ Cardinality(W) <= Cardinality(L)
        /\ Cardinality(L) \in Nat /\ Cardinality(W) \in Nat
    <3> HIDE DEF W
    <3>. QED
      BY <2>5, <2>6, FS_Injection, FS_CardinalityType
  <2>8. Cardinality(entries) = Cardinality(W) + 1
    <3>1. entries = W \union {e} /\ e \notin W
      OBVIOUS
    <3> HIDE DEF W, entries
    <3>. QED
      BY <2>7, <3>1, FS_AddElement
  <2>9. Cardinality(L) >= MaxRequests /\ Cardinality(W) > 0
    BY <1>3, <2>1, <2>7, <2>8
  <2>10. PICK x \in W : TRUE
    BY <2>9, FS_EmptySet
  <2>11. m # n
    <3>1. x.operation \in 1..n /\ x.operation > m
      BY <1>4, <2>4 DEF Later, L
    <3>. QED
      BY <1>3, <2>2, <3>1 DEF n
  <2>. QED
    BY <2>9, <2>11 DEF L
<1>10. AllRemembered'
  <2> SUFFICES ASSUME NEW m \in DOMAIN accepted', accepted'[m].session \in live
               PROVE  Remembered(m)'
    BY <1>7 DEF AllRemembered
  <2>later. ASSUME Cardinality(Later(m)') >= MaxRequests
            PROVE  Remembered(m)'
    BY <2>later DEF Remembered
  <2>entry. ASSUME NEW e \in entries, e.operation = m, accepted'[m].session = s
            PROVE  Remembered(m)'
    <3>1. CASE e \in Trimmed(entries)
      BY <1>7, <2>entry, <3>1 DEF Remembered
    <3>2. CASE e \notin Trimmed(entries)
      BY <1>trimmed, <2>entry, <2>later, <3>2
    <3>. QED
      BY <3>1, <3>2
  <2>1. CASE m = n
    <3>1. entry \in entries /\ entry.operation = m /\ accepted'[m].session = s
      BY <1>2, <1>4, <1>7, <2>1
    <3>. QED
      BY <2>entry, <3>1
  <2>2. CASE m # n
    <3>1. /\ m \in DOMAIN accepted /\ accepted'[m] = accepted[m]
          /\ Remembered(m)
      BY <1>4, <2>2 DEF RetryInv, AllRemembered
    <3>2. CASE accepted[m].at + Retention <= now
      BY <1>7, <3>1, <3>2 DEF Remembered
    <3>3. CASE Cardinality(Later(m)) >= MaxRequests
      <4>1. IsFiniteSet(Later(m)') /\ Later(m) \in SUBSET Later(m)'
        BY <1>later, <2>2
      <4>2. /\ Cardinality(Later(m)) <= Cardinality(Later(m)')
            /\ Cardinality(Later(m)) \in Nat /\ Cardinality(Later(m)') \in Nat
        BY <4>1, FS_Subset, FS_CardinalityType
      <4>3. Cardinality(Later(m)') >= MaxRequests
        BY <1>3, <3>3, <4>2
      <4>. QED
        BY <2>later, <4>3
    <3>4. CASE \E e \in session[accepted[m].session].requests : e.operation = m
      <4>1. PICK e \in session[accepted[m].session].requests : e.operation = m
        BY <3>4
      <4>2. CASE accepted[m].session # s
        <5>1. e \in session'[accepted'[m].session].requests
          BY <1>7, <3>1, <4>1, <4>2
        <5>. QED
          BY <4>1, <5>1 DEF Remembered
      <4>3. CASE accepted[m].session = s
        <5>1. e.expiresAt = accepted[m].at + Retention
          BY <1>7, <4>1, <4>3 DEF RetryInv, EntriesTrue, EntryTrue
        <5>2. CASE e \in Unexpired(s)
          BY <2>entry, <3>1, <4>1, <4>3, <5>2
        <5>3. CASE e \notin Unexpired(s)
          <6>1. ~ (accepted[m].at + Retention > now)
            BY <4>1, <4>3, <5>1, <5>3 DEF Unexpired
          <6>2. accepted[m].at + Retention <= now
            BY <1>3, <3>1, <6>1
          <6>. QED
            BY <1>7, <3>1, <6>2 DEF Remembered
        <5>. QED
          BY <5>2, <5>3
      <4>. QED
        BY <4>2, <4>3
    <3>. QED
      BY <3>1, <3>2, <3>3, <3>4 DEF Remembered
  <2>. QED
    BY <2>1, <2>2
<1>11. RetryRunsOnce'
  <2> SUFFICES ASSUME NEW m \in DOMAIN accepted', NEW k \in DOMAIN accepted',
                      m < k, accepted'[m].session = accepted'[k].session,
                      accepted'[m].request = accepted'[k].request
               PROVE  \/ accepted'[k].at >= accepted'[m].at + Retention
                      \/ Cardinality({j \in (m + 1)..(k - 1) :
                           accepted'[j].session = accepted'[m].session})
                         >= MaxRequests
    BY DEF RetryRunsOnce
  <2>1. m \in DOMAIN accepted /\ m \in Nat /\ m \in 1..n /\ k \in 1..n
    BY <1>3, <1>4 DEF n
  <2>2. CASE k # n
    <3>1. k \in DOMAIN accepted
      BY <1>4, <2>2
    <3>2. {j \in (m + 1)..(k - 1) : accepted'[j].session = accepted'[m].session}
          = {j \in (m + 1)..(k - 1) : accepted[j].session = accepted[m].session}
      <4>1. \A j \in (m + 1)..(k - 1) : j \in DOMAIN accepted
        BY <1>3, <2>1, <3>1
      <4>. QED
        BY <1>4, <2>1, <4>1
    <3>3. \/ accepted[k].at >= accepted[m].at + Retention
          \/ Cardinality({j \in (m + 1)..(k - 1) :
                accepted[j].session = accepted[m].session}) >= MaxRequests
      <4>1. accepted[m].session = accepted[k].session
            /\ accepted[m].request = accepted[k].request
        BY <1>4, <2>1, <3>1
      <4>. QED
        BY <2>1, <3>1, <4>1 DEF RetryInv, RetryRunsOnce
    <3>. QED
      BY <1>4, <2>1, <3>1, <3>2, <3>3
  <2>3. CASE k = n
    <3>1. /\ accepted[m].session = s /\ accepted[m].request = entry.request
          /\ accepted'[k].at = now /\ accepted'[m] = accepted[m]
      BY <1>2, <1>4, <2>1, <2>3
    <3>2. Remembered(m)
      BY <1>7, <2>1, <3>1 DEF RetryInv, AllRemembered
    <3>3. Later(m) = {j \in (m + 1)..(k - 1) :
                        accepted'[j].session = accepted'[m].session}
      <4>1. \A j : j \in DOMAIN accepted /\ j > m <=> j \in (m + 1)..(k - 1)
        BY <1>3, <2>1, <2>3 DEF n
      <4>2. \A j \in DOMAIN accepted : accepted'[j] = accepted[j]
        BY <1>4
      <4>. QED
        BY <3>1, <4>1, <4>2 DEF Later
    <3>4. ~ \E e \in session[s].requests :
              e.operation = m /\ ~ (accepted[m].at + Retention <= now)
      <4> SUFFICES ASSUME NEW e \in session[s].requests, e.operation = m,
                          ~ (accepted[m].at + Retention <= now)
                   PROVE  FALSE
        OBVIOUS
      <4>1. EntryTrue(s, e)
        BY <1>7 DEF RetryInv, EntriesTrue
      <4>2. e.request = entry.request
            /\ e.expiresAt = accepted[m].at + Retention
        BY <3>1, <4>1 DEF EntryTrue
      <4>3. e.expiresAt > now
        BY <1>3, <2>1, <4>2
      <4>. QED
        BY <1>7, <4>2, <4>3 DEF Known, Unexpired
    <3>5. accepted[m].at + Retention <= now \/ Cardinality(Later(m)) >= MaxRequests
      BY <3>1, <3>2, <3>4 DEF Remembered
    <3>6. accepted[m].at + Retention <= now => now >= accepted[m].at + Retention
      BY <1>3, <2>1
    <3>. QED
      BY <3>1, <3>3, <3>5, <3>6
  <2>. QED
    BY <2>2, <2>3
<1>. QED
  BY <1>5, <1>9, <1>10, <1>11 DEF RetryInv

(* Every step of every handler keeps the retained requests or accepts one. *)
LEMMA RequestSteps ==
  ASSUME TypeInv, [Next]_vars
  PROVE  RequestsMove
<1> USE DEF RequestsMove
<1>typed. /\ session \in [SessionIds -> SessionRecords]
          /\ \A s \in SessionIds : session[s] \in SessionRecords
          /\ live \subseteq SessionIds /\ now \in Nat /\ started \in Nat
          /\ started' \in Nat /\ started <= started'
  BY LiveAreSessions, StartedGrows, LimitsAssumption
  DEF TypeInv, TypeOK, LimitsAssumption
<1>keeps. ASSUME UNCHANGED <<now, live, accepted>>,
                 \A r \in live : session'[r].requests = session[r].requests
          PROVE  KeepsRequests
  BY <1>typed, <1>keeps DEF KeepsRequests, Unexpired
<1>same. ASSUME UNCHANGED <<now, live, accepted, session>>
         PROVE  KeepsRequests
  BY <1>keeps, <1>same
<1>new. ASSUME NEW s \in SessionIds, NEW new,
               session' = [session EXCEPT ![s] = new],
               new.requests = session[s].requests,
               UNCHANGED <<now, live, accepted>>
        PROVE  KeepsRequests
  <2>1. \A r \in live : session'[r].requests = session[r].requests
    BY <1>typed, <1>new
  <2>. QED
    BY <1>keeps, <1>new, <2>1
<1>settle. ASSUME NEW s \in SessionIds, Settle(s),
                  UNCHANGED <<now, live, accepted>>
           PROVE  KeepsRequests
  <2>1. CASE session[s].queued = 0
    BY <1>same, <1>settle, <2>1 DEF Settle
  <2>2. CASE session[s].queued # 0
    <3> DEFINE new == [session[s] EXCEPT !.queued = @ - 1]
    <3>1. session' = [session EXCEPT ![s] = new]
      BY <1>settle, <2>2 DEF Settle
    <3>2. new.requests = session[s].requests
      BY <1>typed DEF SessionRecords
    <3> HIDE DEF new
    <3>. QED
      BY <1>new, <1>settle, <3>1, <3>2
  <2>. QED
    BY <2>1, <2>2
<1>evict. ASSUME NEW s \in SessionIds, NEW i,
                 session' = [session EXCEPT ![s] = Evicted(session[s], i)],
                 UNCHANGED <<now, live, accepted>>
          PROVE  KeepsRequests
  <2> DEFINE h == RemoveAt(session[s].history, i)
             p == IF i < session[s].position THEN session[s].position - 1
                  ELSE session[s].position
             spliced == [session[s] EXCEPT !.history = h, !.position = p]
             new == Discarded(spliced, session[s].history[i])
  <2>1. session' = [session EXCEPT ![s] = new]
    BY <1>evict DEF Evicted
  <2> HIDE DEF h, p
  <2>2. spliced.requests = session[s].requests
        /\ {"requests", "views", "stale"} \subseteq DOMAIN spliced
    BY <1>typed DEF SessionRecords
  <2> HIDE DEF spliced
  <2>3. new.requests = session[s].requests
    BY <2>2 DEF Discarded
  <2> HIDE DEF new
  <2>. QED
    BY <1>evict, <1>new, <2>1, <2>3
<1>oldest. ASSUME NEW s \in SessionIds, Evictable(s) # {}, EvictOldest(s),
                  UNCHANGED <<now, live, accepted>>
           PROVE  KeepsRequests
  <2>1. PICK i \in Evictable(s) :
          session' = [session EXCEPT ![s] = Evicted(session[s], i)]
    BY <1>oldest, EvictOldestEffect DEF Evicted
  <2>. QED
    BY <1>evict, <1>oldest, <2>1
<1>1. CASE PublishGeneration \/ Closed \/ AnswerInvalidSession
  BY <1>1, <1>same DEF PublishGeneration, Closed, AnswerInvalidSession
<1>2. CASE Tick
  <2>1. now' \in Nat /\ now <= now' /\ UNCHANGED <<accepted, live, session>>
    BY <1>2, <1>typed DEF Tick
  <2>. QED
    BY <1>typed, <2>1 DEF KeepsRequests, Unexpired
<1>3. CASE Arrivals
  BY <1>3, <1>same DEF Arrivals, Start, Close, Execute, Arrive
<1>4. CASE DeleteDoomed
  <2> DEFINE s == Min(Doomed)
  <2>1. s \in SessionIds /\ UNCHANGED <<now, accepted>>
    BY <1>4, DoomedIsSession DEF DeleteDoomed
  <2>2. \/ /\ live' = live
           /\ \E v : session' = [session EXCEPT ![s] = Discarded(session[s], v)]
        \/ /\ live' = live \ {s}
           /\ session' = [session EXCEPT
                ![s] = [NoSession EXCEPT !.queued = session[s].queued]]
    BY <1>4, DeleteDoomedEffect
  <2> HIDE DEF s
  <2>3. CASE /\ live' = live
             /\ \E v : session' = [session EXCEPT ![s] = Discarded(session[s], v)]
    <3>1. PICK v : session' = [session EXCEPT ![s] = Discarded(session[s], v)]
      BY <2>3
    <3>2. Discarded(session[s], v).requests = session[s].requests
      BY <1>typed, <2>1 DEF Discarded, SessionRecords
    <3>. QED
      BY <1>new, <2>1, <2>3, <3>1, <3>2
  <2>4. CASE /\ live' = live \ {s}
             /\ session' = [session EXCEPT
                  ![s] = [NoSession EXCEPT !.queued = session[s].queued]]
    <3>1. \A r \in live' : r \in live /\ session'[r] = session[r]
      BY <1>typed, <2>4
    <3>. QED
      BY <1>typed, <2>1, <3>1 DEF KeepsRequests, Unexpired
  <2>. QED
    BY <2>2, <2>3, <2>4
<1>5. CASE StartSession
  <2>1. CASE UNCHANGED <<session, live>>
    BY <1>5, <1>same, <2>1 DEF StartSession
  <2> DEFINE s == started + 1
             new == [NoSession EXCEPT !.owner = turn.connection,
                                      !.lastAcceptedAt = now]
  <2>2. CASE live' = live \union {s} /\ session' = [session EXCEPT ![s] = new]
    <3>1. /\ live \subseteq 1..started /\ s \in SessionIds /\ started < s
      <4>1. started < SessionBound /\ live \subseteq 1..started
        BY <1>5 DEF StartSession, TypeInv, TypeOK, Attended
      <4>2. SessionBound \in Nat
        BY LimitsAssumption DEF LimitsAssumption
      <4>. QED
        BY <1>typed, <4>1, <4>2 DEF SessionIds
    <3>2. s \notin live
      BY <1>typed, <3>1
    <3>3. new.requests = {}
      BY DEF NoSession
    <3> HIDE DEF new, s
    <3>4. session'[s].requests = {} /\ \A r \in live : session'[r] = session[r]
      BY <1>typed, <2>2, <3>1, <3>2, <3>3
    <3>5. UNCHANGED <<now, accepted>>
      BY <1>5 DEF StartSession
    <3>. QED
      BY <1>typed, <2>2, <3>1, <3>2, <3>4, <3>5 DEF KeepsRequests, Unexpired
  <2>. QED
    BY <1>5, <2>1, <2>2 DEF StartSession
<1>6. CASE AnswerRetained \/ RefuseRequest
  <2> DEFINE s == turn.session
             kept == Unexpired(s)
             new == [session[s] EXCEPT !.requests = kept]
  <2>1. s \in live /\ s \in SessionIds /\ UNCHANGED <<now, live, accepted>>
    BY <1>6, <1>typed DEF AnswerRetained, RefuseRequest, Owned
  <2>2. session' = [session EXCEPT ![s] = new]
    BY <1>6 DEF AnswerRetained, RefuseRequest
  <2>3. kept \subseteq session[s].requests /\ kept = Unexpired(s)
    BY DEF Unexpired
  <2> HIDE DEF kept
  <2>4. new.requests = kept
    BY <1>typed, <2>1 DEF SessionRecords
  <2> HIDE DEF new, s
  <2>5. session'[s].requests = kept /\ \A r \in live : r # s => session'[r] = session[r]
    BY <1>typed, <2>1, <2>2, <2>4
  <2>6. \A r \in live : /\ session'[r].requests \subseteq session[r].requests
                        /\ Unexpired(r) \subseteq session'[r].requests
    <3> SUFFICES ASSUME NEW r \in live
                 PROVE  /\ session'[r].requests \subseteq session[r].requests
                        /\ Unexpired(r) \subseteq session'[r].requests
      OBVIOUS
    <3>1. CASE r = s
      BY <2>3, <2>5, <3>1
    <3>2. CASE r # s
      BY <2>5, <3>2 DEF Unexpired
    <3>. QED
      BY <3>1, <3>2
  <2>. QED
    BY <1>typed, <2>1, <2>6 DEF KeepsRequests
<1>7. CASE AcceptRequest
  <2> DEFINE s == turn.session
             n == Len(accepted) + 1
             entry == [request |-> turn.request, operation |-> n,
                       expiresAt |-> now + Retention]
             operation == [session |-> s, request |-> turn.request,
                           call |-> turn.call, at |-> now]
             kept == Trimmed(Unexpired(s) \union {entry})
             new == [session[s] EXCEPT !.lastAcceptedAt = now,
                                       !.queued = @ + 1,
                                       !.requests = kept]
  <2>1. s \in live /\ s \in SessionIds /\ UNCHANGED <<now, live, started>>
    BY <1>7, <1>typed DEF AcceptRequest, Owned
  <2>2. session' = [session EXCEPT ![s] = new]
    BY <1>7, <1>typed, <2>1 DEF AcceptRequest
  <2>3. turn.request \in RequestIds /\ turn.call \in Calls
    BY <1>7, TurnTypes DEF AcceptRequest, Executing, TypeInv, TypeOK
  <2>4. n \in Nat /\ now + Retention \in Nat
    BY <1>typed, AcceptedSequence, LimitsAssumption DEF LimitsAssumption
  <2>5. /\ entry \in Entries /\ entry.operation = n
        /\ entry.expiresAt = now + Retention /\ entry.request = turn.request
    BY <2>3, <2>4 DEF Entries
  <2>6. operation \in [session : {s}, request : {entry.request}, call : Calls,
                       at : {now}]
        /\ accepted' = Append(accepted, operation)
    BY <1>7, <2>3 DEF AcceptRequest
  <2>7. ~ Known(s, entry.request)
    BY <1>7 DEF AcceptRequest
  <2>8. kept = Trimmed(Unexpired(s) \union {entry})
    OBVIOUS
  <2> HIDE DEF kept, operation
  <2>9. new.requests = kept
    BY <1>typed, <2>1 DEF SessionRecords
  <2> HIDE DEF new, entry
  <2>10. session'[s].requests = kept
         /\ \A r \in live : r # s => session'[r].requests = session[r].requests
    BY <1>typed, <2>1, <2>2, <2>9
  <2>. QED
    BY <2>1, <2>5, <2>6, <2>7, <2>8, <2>10 DEF AddsRequest
<1>8. ASSUME NEW s \in SessionIds, Operate(s) PROVE KeepsRequests
  <2>1. CASE Focus(s)
    BY <1>same, <2>1 DEF Focus, Dispatch
  <2>2. CASE \E v \in 0..Len(minted) : Follow(s, v)
    BY <1>same, <1>settle, <2>2 DEF Follow, Dispatch
  <2>3. CASE \E direction \in Directions : History(s, direction)
    <3>1. PICK direction \in Directions : History(s, direction)
      BY <2>3
    <3> DEFINE p == Restored(s, direction)
               n == IF session[s].queued = 0 THEN 0 ELSE session[s].queued - 1
               new == [session[s] EXCEPT !.position = p, !.queued = n]
    <3>2. session' = [session EXCEPT ![s] = new]
      BY <1>typed, <3>1 DEF History
    <3> HIDE DEF p, n
    <3>3. new.requests = session[s].requests
      BY <1>typed DEF SessionRecords
    <3> HIDE DEF new
    <3>. QED
      BY <1>new, <3>1, <3>2, <3>3 DEF History
  <2>4. CASE AnswerAtOnce(s)
    BY <1>settle, <2>4 DEF AnswerAtOnce
  <2>5. CASE BackendFails(s)
    BY <1>settle, <2>5 DEF BackendFails
  <2>6. CASE \E bytes \in BodySizes : AnswerFocus(s, bytes)
    BY <1>same, <2>6 DEF AnswerFocus
  <2>7. CASE \E bytes \in BodySizes, candidates \in 1..MaxCandidates :
               AnswerFollow(s, bytes, candidates)
    BY <1>same, <2>7 DEF AnswerFollow
  <2>. QED
    BY <1>8, <2>1, <2>2, <2>3, <2>4, <2>5, <2>6, <2>7 DEF Operate
<1>adding. ASSUME turn.at \in {"room", "trim"}
           PROVE  turn.session \in SessionIds
  BY <1>adding, TurnTypes DEF TypeInv, TypeOK
<1>9. CASE EvictForRoom
  <2>1. Lenders \subseteq SessionIds /\ Lenders # {}
    BY <1>9, <1>typed DEF EvictForRoom, Lenders
  <2>2. Lenders \in SUBSET Nat
    BY <2>1 DEF SessionIds
  <2>3. Min(Lenders) \in Lenders
    BY <2>1, <2>2, MinOfNaturals
  <2>4. Min(Lenders) \in SessionIds /\ Evictable(Min(Lenders)) # {}
    BY <2>1, <2>3 DEF Lenders
  <2>. QED
    BY <1>9, <1>oldest, <2>4 DEF EvictForRoom
<1>10. CASE RefuseView
  BY <1>10, <1>adding, <1>settle DEF RefuseView
<1>11. CASE AbandonForward
  <2> DEFINE s == turn.session
             h == RemoveAt(session[s].history, Len(session[s].history))
             v == session[s].history[Len(session[s].history)]
             shortened == [session[s] EXCEPT !.history = h]
             new == Discarded(shortened, v)
  <2>1. s \in SessionIds /\ UNCHANGED <<now, live, accepted>>
    BY <1>11, <1>adding DEF AbandonForward
  <2>2. session' = [session EXCEPT ![s] = new]
    BY <1>11 DEF AbandonForward
  <2> HIDE DEF h, v
  <2>3. shortened.requests = session[s].requests
        /\ {"requests", "views", "stale"} \subseteq DOMAIN shortened
    BY <1>typed, <2>1 DEF SessionRecords
  <2> HIDE DEF shortened
  <2>4. new.requests = session[s].requests
    BY <2>3 DEF Discarded
  <2> HIDE DEF new, s
  <2>. QED
    BY <1>new, <2>1, <2>2, <2>4
<1>12. CASE AppendView
  <2> DEFINE s == turn.session
             v == Len(minted) + 1
             new == [session[s] EXCEPT !.history = Append(@, v),
                                       !.position = @ + 1,
                                       !.views = @ \union {v}]
  <2>1. s \in SessionIds /\ session' = [session EXCEPT ![s] = new]
    BY <1>12, AppendViewEffect
  <2>2. new.requests = session[s].requests
    BY <1>typed, <2>1 DEF SessionRecords
  <2>3. UNCHANGED <<now, live, accepted>>
    BY <1>12 DEF AppendView
  <2> HIDE DEF new, s
  <2>. QED
    BY <1>new, <2>1, <2>2, <2>3
<1>13. CASE TrimViews
  BY <1>13, <1>adding, <1>oldest DEF TrimViews, Crowded
<1>14. CASE ViewAdded
  BY <1>14, <1>adding, <1>same, <1>settle DEF ViewAdded
<1>15. CASE UNCHANGED vars
  BY <1>15, <1>same DEF vars
<1>. QED
  BY <1>1, <1>2, <1>3, <1>4, <1>5, <1>6, <1>7, <1>8, <1>9, <1>10, <1>11,
     <1>12, <1>13, <1>14, <1>15
  DEF Next, Entered, Added

(* Every step keeps what retries rest on.                                  *)
LEMMA RetryStep == RetryInv /\ [Next]_vars => RetryInv'
<1> SUFFICES ASSUME RetryInv, [Next]_vars PROVE RetryInv'
  OBVIOUS
<1>1. TypeInv' /\ RequestsMove
  BY TypeStep, RequestSteps DEF RetryInv
<1>. QED
  BY <1>1, KeepsRetries, AddsRetries DEF RequestsMove

(* At first nothing was accepted.                                          *)
LEMMA RetryInit == Init => RetryInv
<1> SUFFICES ASSUME Init PROVE RetryInv
  OBVIOUS
<1>1. DOMAIN accepted = {} /\ live = {}
  BY DEF Init
<1>. QED
  BY <1>1, TypeInit
  DEF RetryInv, AcceptedPast, EntriesTrue, AllRemembered, RetryRunsOnce

(* A retry never runs a second time while its request is retained: it is   *)
(* dispatched again only after the retention ended or the session accepted *)
(* MaxRequests others, whatever was evicted, expired or deleted between.   *)
THEOREM RetriesRunOnce == Spec => []RetryRunsOnce
<1>1. RetryInv => RetryRunsOnce
  BY DEF RetryInv
<1>. QED
  BY <1>1, RetryInit, RetryStep, PTL DEF Spec

=============================================================================
