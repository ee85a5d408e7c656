------------------------------ MODULE Sessions ------------------------------
(***************************************************************************)
(* The navigation sessions of the Code Explorer server                     *)
(* (packages/code-explorer/src/navigation): request queueing and replay,   *)
(* view retention, history and expiry, for all sessions of one process.    *)
(*                                                                         *)
(* JavaScript runs to completion.  A handler that loops (expireIdle,       *)
(* makeViewCapacity, evictViews, the candidates of one follow) is a        *)
(* sequence of steps under "turn": while turn.at is not "idle" only the    *)
(* steps of that turn are enabled, so nothing interleaves with them.       *)
(* Waiting for a backend is what ends a turn in the middle of a request.   *)
(*                                                                         *)
(* Session and view identifiers are random; here they are numbered in the  *)
(* order they are minted, which is also the iteration order of the maps    *)
(* that hold them.  A request's canonical fingerprint is its call.         *)
(***************************************************************************)
EXTENDS Integers, Sequences, FiniteSets, SequencesExt

CONSTANTS
  Connections,      \* MCP connections
  RequestIds,       \* the request_id values clients choose
  MaxSessions,      \* MAX_SESSIONS
  MaxQueued,        \* MAX_QUEUED_REQUESTS, over the process
  MaxRequests,      \* MAX_RETAINED_REQUESTS, per session
  MaxViews,         \* MAX_RETAINED_VIEWS, per session
  MaxBodyBytes,     \* maxRetainedBodyBytes, over the process
  Retention,        \* REQUEST_RETENTION_MS
  IdleLimit,        \* SESSION_IDLE_MS
  BodySizes,        \* returned_bytes of the views a backend answer yields
  MaxCandidates,    \* the views one follow answer retains, at most
  SessionBound,     \* model bound: sessions ever started
  RequestBound,     \* model bound: requests ever accepted
  ViewBound,        \* model bound: views ever retained
  TimeBound,        \* model bound: the clock
  GenerationBound   \* model bound: the project generation

ASSUME LimitsAssumption ==
  /\ MaxSessions \in Nat /\ MaxQueued \in Nat
  /\ MaxRequests \in Nat \ {0} /\ MaxViews \in Nat \ {0}
  /\ MaxBodyBytes \in Nat /\ Retention \in Nat /\ IdleLimit \in Nat
  /\ BodySizes \subseteq Nat /\ MaxCandidates \in Nat
  /\ SessionBound \in Nat /\ RequestBound \in Nat /\ ViewBound \in Nat
  /\ TimeBound \in Nat /\ GenerationBound \in Nat

SessionIds == 1..SessionBound
Calls == {"focus", "follow", "history"}
Directions == {"back", "forward"}
NotStarted == -1

VARIABLES
  now,               \* the clock every entry point reads once
  generation,        \* current_generation of the freshness runtime
  started,           \* sessions started so far: the last session identifier
  live,              \* the keys of runtime.sessions
  session,           \* the Session record of each identifier
  queuedRequests,    \* runtime.queuedRequests
  retainedBodyBytes, \* runtime.retainedBodyBytes
  queue,             \* the promise chain of each session, oldest first
  running,           \* generation the head operation captured, or NotStarted
  accepted,          \* every accepted request, in order (the operations)
  minted,            \* every retained view, in order
  turn               \* the handler in the middle of its synchronous turn

vars == <<now, generation, started, live, session, queuedRequests,
          retainedBodyBytes, queue, running, accepted, minted, turn>>

Idle == [at |-> "idle"]

NoSession ==
  [owner |-> "none", lastAcceptedAt |-> 0, requests |-> {}, queued |-> 0,
   views |-> {}, stale |-> {}, history |-> <<>>, position |-> 0]

Owned(c, s) == s \in live /\ session[s].owner = c

(* The sessions the running handler deletes before anything else: all of   *)
(* a closing connection, or those idle too long when a start or a request  *)
(* arrives (expireIdle).                                                   *)
Doomed ==
  CASE turn.at = "close" -> {s \in live : session[s].owner = turn.connection}
    [] turn.at \in {"start", "execute"} ->
         {s \in live : now - session[s].lastAcceptedAt >= IdleLimit}
    [] OTHER -> {}

(* Mutant of Discarded: an evicted view is forgotten instead of stale.     *)
DiscardedSilently(record, v) == [record EXCEPT !.views = @ \ {v}]

(* discardView: drop the view and its bytes, remember it as stale.         *)
Discarded(record, v) ==
  [record EXCEPT !.views = @ \ {v},
                 !.stale = IF v \in record.views THEN @ \union {v} ELSE @]

BytesOf(record, v) == IF v \in record.views THEN minted[v].bytes ELSE 0

(* Mutant of Evictable: the shown view is evicted like any other.          *)
EvictableAny(s) == DOMAIN session[s].history

(* History entries other than the one the session shows.                   *)
Evictable(s) == DOMAIN session[s].history \ {session[s].position}

(* Mutant of EvictOldest: historyPosition is not moved with its entry.      *)
EvictOldestInPlace(s) ==
  LET i == Min(Evictable(s))
      v == session[s].history[i]
      spliced == [session[s] EXCEPT !.history = RemoveAt(@, i)]
  IN  /\ session' = [session EXCEPT ![s] = Discarded(spliced, v)]
      /\ retainedBodyBytes' = retainedBodyBytes - BytesOf(session[s], v)

(* Splice the oldest evictable entry out of the history, discard its view  *)
(* and move historyPosition down when the entry lay before it.             *)
EvictOldest(s) ==
  LET i == Min(Evictable(s))
      v == session[s].history[i]
      spliced == [session[s] EXCEPT
                    !.history = RemoveAt(@, i),
                    !.position = IF i < @ THEN @ - 1 ELSE @]
  IN  /\ session' = [session EXCEPT ![s] = Discarded(spliced, v)]
      /\ retainedBodyBytes' = retainedBodyBytes - BytesOf(session[s], v)

(* The head operation of s settles: its slot is released and the next      *)
(* operation of the chain becomes the head, whether it failed or not.      *)
Settle(s) ==
  /\ queue' = [queue EXCEPT ![s] = Tail(@)]
  /\ running' = [running EXCEPT ![s] = NotStarted]
  /\ IF session[s].queued = 0
     THEN UNCHANGED <<session, queuedRequests>>
     ELSE /\ session' = [session EXCEPT ![s].queued = @ - 1]
          /\ queuedRequests' = queuedRequests - 1

Init ==
  /\ now = 0 /\ generation = 0 /\ started = 0 /\ live = {}
  /\ session = [s \in SessionIds |-> NoSession]
  /\ queuedRequests = 0 /\ retainedBodyBytes = 0
  /\ queue = [s \in SessionIds |-> <<>>]
  /\ running = [s \in SessionIds |-> NotStarted]
  /\ accepted = <<>> /\ minted = <<>>
  /\ turn = Idle

-----------------------------------------------------------------------------
(* The environment: time, and the generations WorkspaceFreshness publishes. *)

Tick ==
  /\ turn = Idle /\ now < TimeBound
  /\ now' = now + 1
  /\ UNCHANGED <<generation, started, live, session, queuedRequests,
                 retainedBodyBytes, queue, running, accepted, minted, turn>>

PublishGeneration ==
  /\ turn = Idle /\ generation < GenerationBound
  /\ generation' = generation + 1
  /\ UNCHANGED <<now, started, live, session, queuedRequests,
                 retainedBodyBytes, queue, running, accepted, minted, turn>>

-----------------------------------------------------------------------------
(* Arrivals: start_session, a closing connection, a state-changing call.   *)

Arrive(t) ==
  /\ turn = Idle
  /\ turn' = t
  /\ UNCHANGED <<now, generation, started, live, session, queuedRequests,
                 retainedBodyBytes, queue, running, accepted, minted>>

Start(c) == started < SessionBound /\ Arrive([at |-> "start", connection |-> c])

Close(c) == Arrive([at |-> "close", connection |-> c])

Execute(c, s, r, call) ==
  /\ s <= started /\ Len(accepted) < RequestBound
  /\ Arrive([at |-> "execute", connection |-> c, session |-> s,
             request |-> r, call |-> call])

(* Mutant of DeleteDoomed: the slots of queued requests are not released.  *)
DeleteDoomedLeaking ==
  /\ Doomed # {}
  /\ LET s == Min(Doomed)
     IN  IF session[s].views # {}
         THEN LET v == Min(session[s].views)
              IN  /\ session' = [session EXCEPT ![s] = Discarded(@, v)]
                  /\ retainedBodyBytes' =
                       retainedBodyBytes - BytesOf(session[s], v)
                  /\ UNCHANGED live
         ELSE /\ live' = live \ {s}
              /\ session' = [session EXCEPT ![s] = NoSession]
              /\ UNCHANGED retainedBodyBytes
  /\ UNCHANGED <<now, generation, started, queue, running, accepted, minted,
                 turn, queuedRequests>>

(* One round of deleteSession's loop over the oldest doomed session.       *)
DeleteDoomed ==
  /\ Doomed # {}
  /\ LET s == Min(Doomed)
     IN  IF session[s].views # {}
         THEN LET v == Min(session[s].views)
              IN  /\ session' = [session EXCEPT ![s] = Discarded(@, v)]
                  /\ retainedBodyBytes' =
                       retainedBodyBytes - BytesOf(session[s], v)
                  /\ UNCHANGED <<live, queuedRequests>>
         ELSE /\ live' = live \ {s}
              /\ queuedRequests' = queuedRequests - session[s].queued
              /\ session' = [session EXCEPT
                   ![s] = [NoSession EXCEPT !.queued = session[s].queued]]
              /\ UNCHANGED retainedBodyBytes
  /\ UNCHANGED <<now, generation, started, queue, running, accepted, minted,
                 turn>>

Closed ==
  /\ turn.at = "close" /\ Doomed = {}
  /\ turn' = Idle
  /\ UNCHANGED <<now, generation, started, live, session, queuedRequests,
                 retainedBodyBytes, queue, running, accepted, minted>>

(* tryStart once the idle sessions are gone.                               *)
StartSession ==
  /\ turn.at = "start" /\ Doomed = {}
  /\ IF Cardinality(live) >= MaxSessions
     THEN UNCHANGED <<started, live, session>>
     ELSE /\ started' = started + 1
          /\ live' = live \union {started + 1}
          /\ session' = [session EXCEPT
               ![started + 1] = [NoSession EXCEPT !.owner = turn.connection,
                                                  !.lastAcceptedAt = now]]
  /\ turn' = Idle
  /\ UNCHANGED <<now, generation, queuedRequests, retainedBodyBytes, queue,
                 running, accepted, minted>>

Executing == turn.at = "execute" /\ Doomed = {}

AnswerInvalidSession ==
  /\ Executing /\ ~Owned(turn.connection, turn.session)
  /\ turn' = Idle
  /\ UNCHANGED <<now, generation, started, live, session, queuedRequests,
                 retainedBodyBytes, queue, running, accepted, minted>>

(* expireRequests: what is still retained when the request is looked up.   *)
Unexpired(s) == {e \in session[s].requests : e.expiresAt > now}

Known(s, r) == \E e \in Unexpired(s) : e.request = r

(* A retained request_id: the recorded response, or request_id_conflict    *)
(* for another fingerprint.  Neither dispatches.                           *)
AnswerRetained ==
  LET s == turn.session
  IN  /\ Executing /\ Owned(turn.connection, s) /\ Known(s, turn.request)
      /\ session' = [session EXCEPT ![s].requests = Unexpired(s)]
      /\ turn' = Idle
      /\ UNCHANGED <<now, generation, started, live, queuedRequests,
                     retainedBodyBytes, queue, running, accepted, minted>>

RefuseRequest ==
  LET s == turn.session
  IN  /\ Executing /\ Owned(turn.connection, s) /\ ~Known(s, turn.request)
      /\ queuedRequests >= MaxQueued
      /\ session' = [session EXCEPT ![s].requests = Unexpired(s)]
      /\ turn' = Idle
      /\ UNCHANGED <<now, generation, started, live, queuedRequests,
                     retainedBodyBytes, queue, running, accepted, minted>>

(* Mutant of Trimmed: one entry too few is kept.                           *)
TrimmedEarly(entries) ==
  IF Cardinality(entries) < MaxRequests THEN entries
  ELSE {e \in entries : \E older \in entries : older.operation < e.operation}

(* trimRequests: the oldest entry goes when one too many is retained.      *)
Trimmed(entries) ==
  IF Cardinality(entries) <= MaxRequests THEN entries
  ELSE {e \in entries : \E older \in entries : older.operation < e.operation}

AcceptRequest ==
  LET s == turn.session
      operation == Len(accepted) + 1
      entry == [request |-> turn.request, operation |-> operation,
                expiresAt |-> now + Retention]
  IN  /\ Executing /\ Owned(turn.connection, s) /\ ~Known(s, turn.request)
      /\ queuedRequests < MaxQueued
      /\ accepted' = Append(accepted, [session |-> s, request |-> turn.request,
                                       call |-> turn.call, at |-> now])
      /\ session' = [session EXCEPT
           ![s].lastAcceptedAt = now,
           ![s].queued = @ + 1,
           ![s].requests = Trimmed(Unexpired(s) \union {entry})]
      /\ queuedRequests' = queuedRequests + 1
      /\ queue' = [queue EXCEPT ![s] = Append(@, operation)]
      /\ turn' = Idle
      /\ UNCHANGED <<now, generation, started, live, retainedBodyBytes,
                     running, minted>>

-----------------------------------------------------------------------------
(* The head operation of a session, live or deleted: performCall.          *)

AtHead(s, call) ==
  /\ turn = Idle /\ queue[s] # <<>> /\ running[s] = NotStarted
  /\ accepted[Head(queue[s])].call = call

Waiting(s, call) ==
  /\ turn = Idle /\ running[s] # NotStarted
  /\ accepted[Head(queue[s])].call = call

(* Capture the generation and dispatch to a backend.                       *)
Dispatch(s) ==
  /\ running' = [running EXCEPT ![s] = generation]
  /\ UNCHANGED <<session, queuedRequests, queue>>

Focus(s) ==
  /\ AtHead(s, "focus")
  /\ Dispatch(s)
  /\ UNCHANGED <<now, generation, started, live, retainedBodyBytes, accepted,
                 minted, turn>>

(* resolveHandle: the view is retained by the session and was recorded at  *)
(* the current generation.                                                 *)
Resolves(s, v) ==
  /\ s \in live /\ v \notin session[s].stale /\ v \in session[s].views
  /\ minted[v].generation = generation

(* Follow a handle of view v, 0 being one never issued: dispatch, or       *)
(* answer stale_view or invalid_view_handle.                               *)
Follow(s, v) ==
  /\ AtHead(s, "follow")
  /\ IF Resolves(s, v) THEN Dispatch(s) ELSE Settle(s)
  /\ UNCHANGED <<now, generation, started, live, retainedBodyBytes, accepted,
                 minted, turn>>

(* Mutant of Restored: no entry is looked up before moving.                *)
RestoredBlindly(s, direction) ==
  session[s].position + (IF direction = "back" THEN -1 ELSE 1)

(* restore: one step along the history when there is an entry there.       *)
Restored(s, direction) ==
  LET next == session[s].position + (IF direction = "back" THEN -1 ELSE 1)
  IN  IF s \in live /\ next \in DOMAIN session[s].history THEN next
      ELSE session[s].position

History(s, direction) ==
  /\ AtHead(s, "history")
  /\ queue' = [queue EXCEPT ![s] = Tail(@)]
  /\ session' = [session EXCEPT
       ![s].position = Restored(s, direction),
       ![s].queued = IF @ = 0 THEN 0 ELSE @ - 1]
  /\ queuedRequests' =
       IF session[s].queued = 0 THEN queuedRequests ELSE queuedRequests - 1
  /\ UNCHANGED <<now, generation, started, live, retainedBodyBytes, running,
                 accepted, minted, turn>>

(* Anything that ends without a backend and without touching the session:  *)
(* a call of another tool, recent history, refused arguments, or a root    *)
(* that is no longer accessible.                                           *)
AnswerAtOnce(s) ==
  /\ \E call \in Calls : AtHead(s, call)
  /\ Settle(s)
  /\ UNCHANGED <<now, generation, started, live, retainedBodyBytes, accepted,
                 minted, turn>>

(* Mutant of BackendFails: a failed operation is dispatched again.         *)
BackendFailsRetried(s) ==
  /\ Waiting(s, "focus") \/ Waiting(s, "follow")
  /\ running' = [running EXCEPT ![s] = NotStarted]
  /\ UNCHANGED <<now, generation, started, live, session, queuedRequests,
                 retainedBodyBytes, queue, accepted, minted, turn>>

(* The backend fails, times out, or answers with nothing to retain.        *)
BackendFails(s) ==
  /\ Waiting(s, "focus") \/ Waiting(s, "follow")
  /\ Settle(s)
  /\ UNCHANGED <<now, generation, started, live, retainedBodyBytes, accepted,
                 minted, turn>>

Adding(s, bytes, more, g) ==
  [at |-> "room", session |-> s, bytes |-> bytes, more |-> more,
   generation |-> g]

(* The backend answers a focus: one view of the captured generation.       *)
AnswerFocus(s, bytes) ==
  /\ Waiting(s, "focus")
  /\ Len(minted) < ViewBound
  /\ turn' = Adding(s, bytes, 0, running[s])
  /\ UNCHANGED <<now, generation, started, live, session, queuedRequests,
                 retainedBodyBytes, queue, running, accepted, minted>>

(* The backend answers a follow: a view per candidate.  createFocusView is *)
(* called without a generation, which makes it 0.                          *)
AnswerFollow(s, bytes, candidates) ==
  /\ Waiting(s, "follow")
  /\ Len(minted) + candidates <= ViewBound
  /\ turn' = Adding(s, bytes, candidates - 1, 0)
  /\ UNCHANGED <<now, generation, started, live, session, queuedRequests,
                 retainedBodyBytes, queue, running, accepted, minted>>

-----------------------------------------------------------------------------
(* addView, in the turn of the operation that answers.                     *)

Overflows == retainedBodyBytes + turn.bytes > MaxBodyBytes

(* oldestEvictableView: the first session that has one.                    *)
Lenders == {s \in live : Evictable(s) # {}}

(* One round of makeViewCapacity.                                          *)
EvictForRoom ==
  /\ turn.at = "room" /\ turn.session \in live
  /\ Overflows /\ Lenders # {}
  /\ EvictOldest(Min(Lenders))
  /\ UNCHANGED <<now, generation, started, live, queuedRequests, queue,
                 running, accepted, minted, turn>>

(* invalid_session, or project_capacity: the operation ends here.          *)
RefuseView ==
  /\ turn.at = "room"
  /\ turn.session \notin live \/ (Overflows /\ Lenders = {})
  /\ Settle(turn.session)
  /\ turn' = Idle
  /\ UNCHANGED <<now, generation, started, live, retainedBodyBytes, accepted,
                 minted>>

(* Mutant of AbandonForward: the bytes of abandoned views stay counted.    *)
AbandonForwardCounted ==
  LET s == turn.session
      last == Len(session[s].history)
      v == session[s].history[last]
      shortened == [session[s] EXCEPT !.history = RemoveAt(@, last)]
  IN  /\ turn.at = "room" /\ s \in live /\ ~Overflows
      /\ session[s].position < last
      /\ session' = [session EXCEPT ![s] = Discarded(shortened, v)]
      /\ UNCHANGED <<now, generation, started, live, queuedRequests, queue,
                     running, accepted, minted, turn, retainedBodyBytes>>

(* The forward branch is abandoned entry by entry.                         *)
AbandonForward ==
  LET s == turn.session
      last == Len(session[s].history)
      v == session[s].history[last]
      shortened == [session[s] EXCEPT !.history = RemoveAt(@, last)]
  IN  /\ turn.at = "room" /\ s \in live /\ ~Overflows
      /\ session[s].position < last
      /\ session' = [session EXCEPT ![s] = Discarded(shortened, v)]
      /\ retainedBodyBytes' = retainedBodyBytes - BytesOf(session[s], v)
      /\ UNCHANGED <<now, generation, started, live, queuedRequests, queue,
                     running, accepted, minted, turn>>

AppendView ==
  LET s == turn.session
      v == Len(minted) + 1
  IN  /\ turn.at = "room" /\ s \in live /\ ~Overflows
      /\ session[s].position = Len(session[s].history)
      /\ session' = [session EXCEPT
           ![s].history = Append(@, v),
           ![s].position = @ + 1,
           ![s].views = @ \union {v}]
      /\ minted' = Append(minted, [session |-> s, bytes |-> turn.bytes,
                                   generation |-> turn.generation,
                                   captured |-> running[s]])
      /\ retainedBodyBytes' = retainedBodyBytes + turn.bytes
      /\ turn' = [turn EXCEPT !.at = "trim"]
      /\ UNCHANGED <<now, generation, started, live, queuedRequests, queue,
                     running, accepted>>

Crowded(s) == Cardinality(session[s].views) > MaxViews /\ Evictable(s) # {}

(* One round of evictViews.                                                *)
TrimViews ==
  /\ turn.at = "trim" /\ Crowded(turn.session)
  /\ EvictOldest(turn.session)
  /\ UNCHANGED <<now, generation, started, live, queuedRequests, queue,
                 running, accepted, minted, turn>>

(* The next candidate of a follow, or the end of the operation.            *)
ViewAdded ==
  /\ turn.at = "trim" /\ ~Crowded(turn.session)
  /\ IF turn.more > 0
     THEN /\ \E bytes \in BodySizes :
               turn' = Adding(turn.session, bytes, turn.more - 1,
                              turn.generation)
          /\ UNCHANGED <<session, queuedRequests, queue, running>>
     ELSE /\ turn' = Idle
          /\ Settle(turn.session)
  /\ UNCHANGED <<now, generation, started, live, retainedBodyBytes, accepted,
                 minted>>

-----------------------------------------------------------------------------

Arrivals ==
  \E c \in Connections :
    \/ Start(c)
    \/ Close(c)
    \/ \E s \in SessionIds, r \in RequestIds, call \in Calls :
         Execute(c, s, r, call)

Entered ==
  \/ DeleteDoomed
  \/ Closed
  \/ StartSession
  \/ AnswerInvalidSession
  \/ AnswerRetained
  \/ RefuseRequest
  \/ AcceptRequest

(* What the promise chain of session s does next.                          *)
Operate(s) ==
  \/ Focus(s)
  \/ \E v \in 0..Len(minted) : Follow(s, v)
  \/ \E direction \in Directions : History(s, direction)
  \/ AnswerAtOnce(s)
  \/ BackendFails(s)
  \/ \E bytes \in BodySizes : AnswerFocus(s, bytes)
  \/ \E bytes \in BodySizes, candidates \in 1..MaxCandidates :
       AnswerFollow(s, bytes, candidates)

Added ==
  \/ EvictForRoom
  \/ RefuseView
  \/ AbandonForward
  \/ AppendView
  \/ TrimViews
  \/ ViewAdded

Next ==
  \/ Tick
  \/ PublishGeneration
  \/ Arrivals
  \/ Entered
  \/ \E s \in SessionIds : Operate(s)
  \/ Added

Spec == Init /\ [][Next]_vars

(* A turn runs to its end, and every backend call is cut off by a timeout  *)
(* (BackendRequestLimiter), so the head operation of every chain moves on. *)
Fairness ==
  /\ WF_vars(Entered) /\ WF_vars(Added)
  /\ \A s \in SessionIds : SF_vars(Operate(s))

FairSpec == Spec /\ Fairness

-----------------------------------------------------------------------------
(* Properties.                                                             *)

Turns ==
  [at : {"idle"}]
    \union [at : {"start", "close"}, connection : Connections]
    \union [at : {"execute"}, connection : Connections, session : SessionIds,
            request : RequestIds, call : Calls]
    \union [at : {"room", "trim"}, session : SessionIds, bytes : BodySizes,
            more : Nat, generation : Nat]

Entries == [request : RequestIds, operation : Nat, expiresAt : Nat]

SessionRecords ==
  [owner : Connections \union {"none"}, lastAcceptedAt : Nat,
   requests : SUBSET Entries, queued : Nat, views : SUBSET Nat,
   stale : SUBSET Nat, history : Seq(Nat), position : Nat]

(* Every variable has its type; in particular historyPosition never leaves *)
(* the range the array operations of the code allow.                       *)
TypeOK ==
  /\ now \in Nat /\ generation \in Nat /\ started \in 0..SessionBound
  /\ live \subseteq 1..started
  /\ session \in [SessionIds -> SessionRecords]
  /\ queuedRequests \in Int /\ retainedBodyBytes \in Int
  /\ queue \in [SessionIds -> Seq(Nat)]
  /\ running \in [SessionIds -> Nat \union {NotStarted}]
  /\ accepted \in Seq([session : SessionIds, request : RequestIds,
                       call : Calls, at : Nat])
  /\ minted \in Seq([session : SessionIds, bytes : BodySizes,
                     generation : Nat, captured : Nat])
  /\ turn \in Turns

(* The sessions no handler is in the middle of deleting.                   *)
Settled == live \ Doomed

Coherent(record) ==
  LET h == record.history
  IN  /\ Range(h) = record.views
      /\ \A i, j \in DOMAIN h : i < j => h[i] < h[j]
      /\ IF h = <<>> THEN record.position = 0
         ELSE record.position \in DOMAIN h

(* The history and the view map of a session agree: the history lists the  *)
(* retained views once each, oldest first, and a session with history      *)
(* shows one of them (splices in evictViews, makeViewCapacity and addView  *)
(* keep three structures in step, across sessions).                        *)
HistoryCoherent == \A s \in Settled : Coherent(session[s])

GivenTo(s) == {v \in DOMAIN minted : minted[v].session = s}

(* A view a live session was ever given is either retained or known to be  *)
(* stale, never both: using an evicted view is answered stale_view and     *)
(* never resolves.                                                         *)
EvictedViewsAreStale ==
  \A s \in live :
    /\ session[s].views \intersect session[s].stale = {}
    /\ session[s].views \union session[s].stale = GivenTo(s)

BytesIn(views) == SumFunctionOnSet([v \in DOMAIN minted |-> minted[v].bytes], views)

(* retainedBodyBytes is exactly the size of the views the process retains, *)
(* and within the limit, after any order of additions, evictions in other  *)
(* sessions, abandoned branches, expiries and closing connections.         *)
BytesAccounted ==
  /\ retainedBodyBytes = BytesIn(UNION {session[s].views : s \in live})
  /\ retainedBodyBytes <= MaxBodyBytes

(* A request_id is dispatched again only after its retention ended or      *)
(* after the session accepted MaxRequests others: a retry, in flight or    *)
(* answered, never runs a second time, whatever was evicted or expired.    *)
RetryRunsOnce ==
  \A m, n \in DOMAIN accepted :
    (/\ m < n
     /\ accepted[m].session = accepted[n].session
     /\ accepted[m].request = accepted[n].request)
    => \/ accepted[n].at >= accepted[m].at + Retention
       \/ Cardinality({k \in (m + 1)..(n - 1) :
            accepted[k].session = accepted[m].session}) >= MaxRequests

InFlight(sessions) ==
  SumFunctionOnSet([s \in SessionIds |-> Len(queue[s])], sessions)

(* Slots are never leaked: the process-wide counter that refuses requests  *)
(* never exceeds the operations that are really queued or running.         *)
SlotsNotLeaked == queuedRequests <= InFlight(SessionIds)

(* mcp-navigation: "queue at most 64 requests".  The operations queued or  *)
(* running for live sessions, those of deleted ones being released, never  *)
(* exceed the limit.                                                       *)
QueueBounded == InFlight(live) <= MaxQueued

Shown(s) ==
  IF session[s].position \in DOMAIN session[s].history
  THEN session[s].history[session[s].position] ELSE 0

ShowsOwnMoves ==
  \A s \in live \intersect live' :
    Shown(s)' # Shown(s) =>
      \/ \E direction \in Directions : History(s, direction)
      \/ turn.at = "room" /\ turn.session = s /\ AppendView

(* The view a session shows is replaced only by its own Back, Forward or   *)
(* new view: capacity evictions, which reach into other sessions, expiry   *)
(* sweeps and other requests never take it away.                           *)
ShownViewKept == [][ShowsOwnMoves]_vars

(* mcp-navigation: a handle passed with the view_id that issued it is      *)
(* resolved.  A retained view is not stale while the generation its own    *)
(* request captured is still the current one.                              *)
FreshHandlesResolve ==
  \A s \in Settled : \A v \in session[s].views :
    minted[v].captured = generation => Resolves(s, v)

(* Every accepted request is settled: a failing operation, a refused view  *)
(* or a deleted session never blocks the chain behind it.                  *)
EveryRequestSettles ==
  \A n \in 1..RequestBound :
    (\E s \in SessionIds : n \in Range(queue[s]))
      ~> (\A s \in SessionIds : n \notin Range(queue[s]))

=============================================================================
