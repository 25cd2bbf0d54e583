----------------------------- MODULE BookingApi -----------------------------
(***************************************************************************)
(* POST /bookings as a client meets it: the idempotency interceptor around *)
(* the handler, the notification worker behind it, and the process that    *)
(* holds them all and may die.                                             *)
(*                                                                         *)
(* The interceptor's cache lives in the memory of the process, so a        *)
(* restart empties it and kills the handlers in flight; PostgreSQL and     *)
(* Redis keep the tables and the jobs.  The lookup and the start of the    *)
(* handler run without yielding to another request, and so do the end of   *)
(* the handler and the store.  The ValidationPipe runs between the lookup  *)
(* and the handler: a cached response is served whatever the body is.      *)
(***************************************************************************)
EXTENDS Bookings, Errors

CONSTANTS Keys,          \* valid idempotency keys
          BadKey,        \* a header that is missing or is not a UUID
          BadBody,       \* a body that the ValidationPipe rejects
          Submissions,   \* what clients send: [key, call]
          Nothing,       \* a cache miss
          MaxRestarts,   \* bounds of the model, not of the code
          MaxOutages

ASSUME SubmissionsAssumption ==
  /\ \A s \in Submissions : /\ s.key \in Keys \cup {BadKey}
                            /\ s.call \in Calls \cup {BadBody}
  /\ BadKey \notin Keys
  /\ BadBody \notin Calls
  /\ Nothing \notin BookingRequests
  /\ MaxRestarts \in Nat
  /\ MaxOutages \in Nat

VARIABLES
  key,        \* key[r]: the Idempotency-Key header of r
  cache,      \* cache[k]: the request whose response is stored under k
  replay,     \* replay[r]: the request whose response r was served
  thrown,     \* thrown[r]: what r's guard, pipe or handler threw
  restarts,   \* how often the process died
  outages,    \* how often Redis was out of reach at a moment that mattered
  dropped,    \* auxiliary: the keys whose entry was lost at least once
  before      \* auxiliary: the requests answered when r arrived

apiVars == <<key, cache, replay, thrown, restarts, outages, dropped, before>>
vars == <<dbVars, jobVars, requestVars, apiVars>>

ApiInit ==
  /\ key = [r \in BookingRequests |-> BadKey]
  /\ cache = [k \in Keys |-> Nothing]
  /\ replay = [r \in BookingRequests |-> Nothing]
  /\ thrown = [r \in BookingRequests |-> NoException]
  /\ restarts = 0
  /\ outages = 0
  /\ dropped = {}
  /\ before = [r \in BookingRequests |-> {}]

Init ==
  /\ DatabaseInit
  /\ NotificationsInit
  /\ BookingsInit
  /\ ApiInit

-----------------------------------------------------------------------------
Throw(r, e) == thrown' = [thrown EXCEPT ![r] = e]

\* r arrives: intercept() up to its answer or up to next.handle().
Arrive(r, s) ==
  /\ key' = [key EXCEPT ![r] = s.key]
  /\ before' = [before EXCEPT ![r] = {q \in BookingRequests : pc[q] = "done"}]
  /\ UNCHANGED <<cache, restarts, outages, dropped>>

\* r is answered before its handler runs.
Answered(r, s, result) ==
  /\ pc[r] = "idle"
  /\ Finish(r, result)
  /\ call' = [call EXCEPT ![r] = s.call]
  /\ Arrive(r, s)
  /\ ReadsUnchanged
  /\ UNCHANGED <<dbVars, jobVars>>

\* A missing or malformed key.  The mutant never answers.
IgnoreKey(r, s) ==
  /\ pc[r] = "idle"
  /\ s.key = BadKey
  /\ Goto(r, "done")
  /\ call' = [call EXCEPT ![r] = s.call]
  /\ Arrive(r, s)
  /\ ReadsUnchanged
  /\ UNCHANGED <<replay, thrown, dbVars, jobVars>>

RejectKey(r, s) ==
  /\ s.key = BadKey
  /\ Answered(r, s, "bad_key")
  /\ Throw(r, Http(400))
  /\ UNCHANGED replay

ServeCached(r, s) ==
  /\ s.key \in Keys
  /\ cache[s.key] # Nothing
  /\ Answered(r, s, "replayed")
  /\ replay' = [replay EXCEPT ![r] = cache[s.key]]
  /\ UNCHANGED thrown

\* next.handle(): the ValidationPipe, then the handler.
RejectBody(r, s) ==
  /\ s.key \in Keys
  /\ cache[s.key] = Nothing
  /\ s.call = BadBody
  /\ Answered(r, s, "bad_body")
  /\ Throw(r, Http(400))
  /\ UNCHANGED replay

Handle(r, s) ==
  /\ s.key \in Keys
  /\ cache[s.key] = Nothing
  /\ s.call # BadBody
  /\ StartCreate(r, s.call)
  /\ Arrive(r, s)
  /\ UNCHANGED <<replay, thrown>>

\* tap(): a successful response is stored, an error is not.  The first
\* mutant stores nothing, the second stores before the job is queued.
StoreNothing(r) == UNCHANGED cache

StoreEarly(r) ==
  cache' = IF pc'[r] = "enqueue" \/ answer'[r] = "created"
           THEN [cache EXCEPT ![key[r]] = r] ELSE cache

Store(r) ==
  cache' = IF answer'[r] = "created"
           THEN [cache EXCEPT ![key[r]] = r] ELSE cache

\* What a refusal throws, and what a failed await rejects with: the insert
\* may have committed.
RefusalThrown(result) ==
  CASE result \in {"business_not_found", "service_not_found"} -> Http(404)
    [] result = "outside_hours"                               -> Http(400)
    [] result \in {"own_business", "closed", "blocked", "reserved"}
                                                              -> Http(409)

Rejections(r) ==
  IF pc[r] = "enqueue" THEN {RedisRefused, RedisGaveUp}
  ELSE IF r \in Ids(bookings') THEN {ConnectionClosed, Terminated}
  ELSE {Unreachable, ConnectionClosed, Terminated}
         \cup (IF pc[r] = "insert" THEN {NoConnection} ELSE {})

Raise(r) ==
  CASE answer'[r] = "error"         -> \E e \in Rejections(r) : Throw(r, e)
    [] answer'[r] \in {"none", "created"} -> UNCHANGED thrown
    [] OTHER -> Throw(r, RefusalThrown(answer'[r]))

HandlerStep(r) ==
  /\ BookingStep(r)
  /\ Store(r)
  /\ Raise(r)
  /\ UNCHANGED <<key, replay, restarts, outages, dropped, before>>

\* The entry's 86 400 ms are over.
Expire(k) ==
  /\ cache[k] # Nothing
  /\ cache' = [cache EXCEPT ![k] = Nothing]
  /\ dropped' = dropped \cup {k}
  /\ UNCHANGED <<key, replay, thrown, restarts, outages, before,
                 dbVars, jobVars, requestVars>>

\* The process dies and is started again.
Restart ==
  /\ restarts < MaxRestarts
  /\ restarts' = restarts + 1
  /\ LET killed == {r \in BookingRequests : pc[r] \notin {"idle", "done"}}
     IN  /\ pc' = [r \in BookingRequests |->
                     IF r \in killed THEN "done" ELSE pc[r]]
         /\ answer' = [r \in BookingRequests |->
                         IF r \in killed THEN "lost" ELSE answer[r]]
  /\ cache' = [k \in Keys |-> Nothing]
  /\ dropped' = dropped \cup {k \in Keys : cache[k] # Nothing}
  /\ LoseWorker
  /\ ReadsUnchanged
  /\ UNCHANGED <<call, key, replay, thrown, outages, before, dbVars>>

\* Redis is lost under an add of r, and comes back; or under the worker.
Outage ==
  /\ outages < MaxOutages
  /\ outages' = outages + 1
  /\ UNCHANGED <<key, cache, replay, thrown, restarts, dropped, before>>

AddAgain(r) == LoseReply(r) /\ Outage

Cut(j) == LoseLock(j) /\ Outage /\ UNCHANGED <<dbVars, requestVars>>

Worker(j) ==
  /\ WorkerStep(j)
  /\ UNCHANGED <<dbVars, requestVars, apiVars>>

Next ==
  \/ \E r \in BookingRequests, s \in Submissions :
       \/ RejectKey(r, s) \/ ServeCached(r, s)
       \/ RejectBody(r, s) \/ Handle(r, s)
  \/ \E r \in BookingRequests : HandlerStep(r) \/ AddAgain(r)
  \/ \E j \in Jobs : Worker(j) \/ Cut(j)
  \/ \E k \in Keys : Expire(k)
  \/ Restart

Spec == Init /\ [][Next]_vars

\* The event loop runs, queries are answered or time out, an add is answered
\* or rejected, and BullMQ's worker and its stalled checker poll for as long
\* as the process lives.  Nothing has to fail.
Fairness ==
  /\ \A r \in BookingRequests : WF_vars(HandlerStep(r))
  /\ \A j \in Jobs : WF_vars(Worker(j))

FairSpec == Spec /\ Fairness

-----------------------------------------------------------------------------
\* The status line of r's response; 0 while there is none.
Status(r) ==
  CASE answer[r] \in {"none", "lost"}         -> 0
    [] answer[r] \in {"created", "replayed"} -> 201
    [] OTHER                                 -> MapError(thrown[r])

ApiAnswers == Answers \cup {"bad_key", "bad_body", "replayed", "lost"}

\* The variables have their values, and a request is done exactly when it
\* has an answer or its process died.
TypeOK ==
  /\ NotificationsTypeOK
  /\ pc \in [BookingRequests -> Phases]
  /\ call \in [BookingRequests -> Calls \cup {NoCall, BadBody}]
  /\ answer \in [BookingRequests -> ApiAnswers]
  /\ key \in [BookingRequests -> Keys \cup {BadKey}]
  /\ cache \in [Keys -> BookingRequests \cup {Nothing}]
  /\ replay \in [BookingRequests -> BookingRequests \cup {Nothing}]
  /\ \A r \in BookingRequests : Status(r) \in {0, 201} \cup 400 .. 599
  /\ restarts \in 0 .. MaxRestarts
  /\ outages \in 0 .. MaxOutages
  /\ dropped \subseteq Keys
  /\ before \in [BookingRequests -> SUBSET BookingRequests]
  /\ \A r \in BookingRequests : pc[r] = "done" <=> answer[r] # "none"

\* What the cache serves is the answer of a request that had the same key,
\* was told "created", and whose booking is in the table: never that of one
\* that failed after its commit or died.
ReplaysAreTrue ==
  /\ \A k \in Keys :
       cache[k] # Nothing => /\ key[cache[k]] = k
                             /\ answer[cache[k]] = "created"
                             /\ cache[k] \in Ids(bookings)
  /\ \A r \in BookingRequests :
       answer[r] = "replayed" => /\ key[replay[r]] = key[r]
                                 /\ answer[replay[r]] = "created"
                                 /\ replay[r] \in before[r]

\* While the entry of a key is kept, a request that arrives after one with
\* its key was told "created" is served that answer and runs nothing.
ReplayedWhileKept ==
  \A q, r \in BookingRequests :
    /\ q \in before[r]
    /\ key[r] \in Keys \ dropped
    /\ key[q] = key[r]
    /\ answer[q] = "created"
    => answer[r] = "replayed"

\* Repeating a request under its key never books twice unless the two were
\* in flight together: not after its answer was lost, its entry expired, its
\* process died, or its enqueue failed.  A second booking under the key of
\* one that was answered before is for other time (another body), and only
\* when the key's entry was lost or never stored.
SecondBookingNeedsRace ==
  \A x, y \in bookings :
    x.id \in before[y.id] /\ key[x.id] = key[y.id] =>
      /\ ~Overlaps(x, y.start, y.end)
      /\ key[x.id] \in dropped \/ answer[x.id] # "created"

\* A booking that stands was not blamed on its client: whatever fails after
\* the insert, the client is told 201, 5xx or nothing.  The one exception is
\* a connection that PostgreSQL closes under the commit, which the filter
\* takes for an invalid request.
BookedIsNotBlamed ==
  \A r \in Ids(bookings) :
    Status(r) \in 400 .. 499 => thrown[r] = ConnectionClosed

\* The notification of a booking goes out once, and once more at most for
\* each crash and each loss of Redis: whether it added a second job or took
\* the first from its worker.  A job gives up only after more of these than
\* MaxStalledCount, it is completed only when the notification went out, and
\* only a committed booking has one.
NotifiedOncePerLoss ==
  /\ \A r \in BookingRequests : sent[r] <= 1 + restarts + outages
  /\ \A j \in Jobs :
       /\ stalls[j] <= restarts + outages
       /\ job[j] = "failed" => stalls[j] > MaxStalledCount
       /\ job[j] = "completed" => sent[j[1]] > 0
       /\ job[j] # "none" => j[1] \in Ids(bookings)

\* A client told "created" is notified in the end, or every job of the
\* booking has failed because its worker was lost too often.
CreatedIsNotified ==
  \A r \in BookingRequests :
    answer[r] = "created" ~>
      \/ sent[r] > 0
      \/ {job[j] : j \in JobsOf(r)} \in {{"failed"}, {"failed", "none"}}

\* README, Idempotency: subsequent requests with the same key return the
\* cached response, so none of them is refused.
RepeatIsReplayed ==
  \A q, r \in BookingRequests :
    q \in before[r] /\ key[q] = key[r] /\ answer[q] = "created"
      => answer[r] \notin Refusals \ {"error"}
=============================================================================
