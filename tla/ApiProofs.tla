------------------------------ MODULE ApiProofs ------------------------------
(***************************************************************************)
(* What holds of POST /bookings behind its interceptor for every catalogue,*)
(* every set of requests, keys and submissions, any number of crashes and  *)
(* of losses of Redis, and any order of expiry.                            *)
(*                                                                         *)
(* ApiInv is the base of every other proof here: the types, what a request *)
(* has got past by the time it is in flight, that a row is the booking of  *)
(* a request past its insert, and what each answer was thrown for.         *)
(***************************************************************************)
EXTENDS BookingApi, FiniteSetTheorems, TLAPS

\* All a handler, its pipe or its guard throws.
Exceptions == {Http(400), Http(404), Http(409), RedisRefused, RedisGaveUp,
               Unreachable, ConnectionClosed, NoConnection, Terminated}

\* After the row is in the table, only these.
LateExceptions == {RedisRefused, RedisGaveUp, ConnectionClosed, Terminated}

VariablesOK ==
  /\ pc \in [BookingRequests -> Phases]
  /\ call \in [BookingRequests -> Calls \cup {NoCall, BadBody}]
  /\ answer \in [BookingRequests -> ApiAnswers]
  /\ key \in [BookingRequests -> Keys \cup {BadKey}]
  /\ cache \in [Keys -> BookingRequests \cup {Nothing}]
  /\ replay \in [BookingRequests -> BookingRequests \cup {Nothing}]
  /\ thrown \in [BookingRequests -> Exceptions \cup {NoException}]
  /\ restarts \in 0 .. MaxRestarts
  /\ outages \in 0 .. MaxOutages
  /\ dropped \subseteq Keys
  /\ before \in [BookingRequests -> SUBSET BookingRequests]
  /\ awaiting \in [BookingRequests -> SUBSET {"blocks", "bookings"}]
  /\ foundBookings \in [BookingRequests -> SUBSET BookingRequests]
  /\ NotificationsTypeOK

RequestsOK ==
  \A r \in BookingRequests :
    /\ pc[r] = "done" <=> answer[r] # "none"
    /\ pc[r] \notin {"idle", "done"} => key[r] \in Keys /\ call[r] \in Calls
    /\ pc[r] \notin {"enqueue", "done"} => r \notin Ids(bookings)
    /\ pc[r] = "enqueue" => r \in Ids(bookings)
    /\ answer[r] \notin {"none", "lost", "created", "replayed"}
         => thrown[r] \in Exceptions
    /\ answer[r] = "created" => r \in Ids(bookings)
    /\ r \in Ids(bookings) =>
         \/ answer[r] \in {"none", "created", "lost"}
         \/ answer[r] = "error" /\ thrown[r] \in LateExceptions

RowsOK ==
  \A x \in bookings : /\ x.id \in BookingRequests
                      /\ x.start = Start(x.id)
                      /\ x.end = End(x.id)

ApiInv == VariablesOK /\ RequestsOK /\ RowsOK

-----------------------------------------------------------------------------
(***************************************************************************)
(* Steps.  What one await of a handler does to the variables that the      *)
(* interceptor, the filter and the queue look at.                          *)
(***************************************************************************)
Outcome(r) ==
  \* it goes on, or is refused, or fails
  \/ /\ pc[r] # "enqueue" /\ pc'[r] \notin {"idle", "enqueue", "done"}
     /\ answer'[r] = "none" /\ UNCHANGED <<bookings, job>>
  \/ /\ pc[r] # "enqueue" /\ pc'[r] = "done"
     /\ answer'[r] \in Refusals /\ UNCHANGED <<bookings, job>>
  \/ /\ pc[r] = "enqueue" /\ pc'[r] = "done"
     /\ answer'[r] = "error" /\ UNCHANGED <<bookings, job>>
  \* it inserts, and learns of it or not
  \/ /\ pc[r] = "insert" /\ bookings' = bookings \cup {Row(r)}
     /\ UNCHANGED job
     /\ \/ pc'[r] = "enqueue" /\ answer'[r] = "none"
        \/ pc'[r] = "done" /\ answer'[r] = "error"
  \* it queues the job and answers
  \/ /\ pc[r] = "enqueue" /\ UNCHANGED bookings
     /\ \E n \in Copies : AddJob(r, n)
     /\ pc'[r] = "done" /\ answer'[r] = "created"

\* The job that an add makes is a new one.
LEMMA AddEffect ==
  ASSUME NotificationsTypeOK, NEW r \in BookingRequests, NEW n \in Copies,
         AddJob(r, n)
  PROVE  /\ <<r, n>> \in Jobs /\ job[<<r, n>>] = "none"
         /\ job' = [job EXCEPT ![<<r, n>>] = "waiting"]
         /\ UNCHANGED <<stalls, sent>>
         /\ NotificationsTypeOK'
<1>1. <<r, n>> \in Jobs
  BY DEF Jobs
<1>2. job[<<r, n>>] = "none"
  BY MaxAddsAssumption DEF AddJob, Copies
<1>3. QED
  BY <1>1, <1>2 DEF AddJob, NotificationsTypeOK, JobStates

LEMMA HandlerEffect ==
  ASSUME ApiInv, NEW r \in BookingRequests, BookingStep(r)
  PROVE  /\ pc[r] \notin {"idle", "done"}
         /\ pc' = [pc EXCEPT ![r] = pc'[r]] /\ pc'[r] \in Phases
         /\ answer' = [answer EXCEPT ![r] = answer'[r]]
         /\ UNCHANGED <<call, stalls, sent>>
         /\ Outcome(r)
<1> USE DEF Goto, Finish, ReadsUnchanged, dbVars, jobVars, Outcome, Phases,
            Refusals
<1>1. /\ pc \in [BookingRequests -> Phases]
      /\ answer \in [BookingRequests -> ApiAnswers]
      /\ pc[r] # "done" => answer[r] = "none"
  BY DEF ApiInv, VariablesOK, RequestsOK
<1>2. CASE ValidateBusiness(r) \/ ValidateService(r)
  BY <1>1, <1>2 DEF ValidateBusiness, ValidateService
<1>3. ASSUME NEW now \in Instants, GetWorkingHours(r, now)
      PROVE  /\ pc[r] = "hours" /\ UNCHANGED <<call, bookings, jobVars>>
             /\ Goto(r, "overlaps") \/ Finish(r, "closed")
                  \/ Finish(r, "outside_hours")
  BY <1>3 DEF GetWorkingHours
<1>4. CASE \E now \in Instants : GetWorkingHours(r, now)
  BY <1>1, <1>3, <1>4
<1>5. CASE ReadBlocks(r) \/ ReadBookings(r)
  BY <1>1, <1>5 DEF ReadBlocks, ReadBookings
<1>6. CASE CheckReserved(r)
  BY <1>1, <1>6 DEF CheckReserved
<1>7. CASE CreateBookingRecord(r) \/ LoseCommit(r)
  BY <1>1, <1>7 DEF CreateBookingRecord, LoseCommit
<1>8. CASE EnqueueBookingCreated(r)
  BY <1>1, <1>8 DEF EnqueueBookingCreated, AddJob
<1>9. CASE Fail(r)
  BY <1>1, <1>9 DEF Fail
<1>10. QED
  BY <1>2, <1>4, <1>5, <1>6, <1>7, <1>8, <1>9 DEF BookingStep, BookingMove

\* What the reads return are ids of requests.
LEMMA ReadsEffect ==
  ASSUME ApiInv, NEW r \in BookingRequests, BookingStep(r)
  PROVE  /\ awaiting' \in [BookingRequests -> SUBSET {"blocks", "bookings"}]
         /\ foundBookings' \in [BookingRequests -> SUBSET BookingRequests]
<1>1. /\ awaiting \in [BookingRequests -> SUBSET {"blocks", "bookings"}]
      /\ foundBookings \in [BookingRequests -> SUBSET BookingRequests]
  BY DEF ApiInv, VariablesOK
<1>2. Ids(OverlappingBookings(Start(r), End(r))) \subseteq BookingRequests
  BY DEF ApiInv, RowsOK, Ids, OverlappingBookings
<1>3. QED
  BY <1>1, <1>2 DEF BookingStep, BookingMove, ValidateBusiness,
     ValidateService, GetWorkingHours, ReadBlocks, ReadBookings,
     CheckReserved, CreateBookingRecord, LoseCommit, EnqueueBookingCreated,
     Fail, ReadsUnchanged

LEMMA RowsEffect ==
  ASSUME NEW r, bookings' = bookings \cup {Row(r)}
  PROVE  Ids(bookings)' = Ids(bookings) \cup {r}
<1>1. Row(r).id = r
  BY DEF Row
<1>2. QED
  BY <1>1 DEF Ids

LEMMA ApiBase ==
  Init => ApiInv
<1> SUFFICES ASSUME Init PROVE ApiInv
  OBVIOUS
<1> USE DEF Init, DatabaseInit, NotificationsInit, BookingsInit, ApiInit
<1>1. VariablesOK
  BY SubmissionsAssumption DEF VariablesOK, Phases, ApiAnswers, Answers,
     Refusals, JobStates, NotificationsTypeOK
<1>2. RequestsOK
  BY DEF RequestsOK, Ids
<1>3. RowsOK
  BY DEF RowsOK
<1>4. QED
  BY <1>1, <1>2, <1>3 DEF ApiInv

\* A request that its handler never sees.
LEMMA ArrivalApi ==
  ASSUME ApiInv, NEW r \in BookingRequests, NEW s \in Submissions,
         RejectKey(r, s) \/ ServeCached(r, s) \/ RejectBody(r, s)
  PROVE  ApiInv'
<1> USE DEF RejectKey, ServeCached, RejectBody, Answered, Finish, Arrive,
            Throw
<1>1. VariablesOK /\ RequestsOK /\ RowsOK
  BY DEF ApiInv
<1>2. s.key \in Keys \cup {BadKey} /\ s.call \in Calls \cup {BadBody}
  BY SubmissionsAssumption
<1>3. pc[r] = "idle"
  OBVIOUS
<1>4. UNCHANGED <<bookings, job, stalls, sent, awaiting, foundBookings,
                  restarts, outages, dropped, cache>>
  BY DEF dbVars, jobVars, ReadsUnchanged
<1>5. VariablesOK'
  <2>1. NotificationsTypeOK'
    BY <1>1, <1>4 DEF VariablesOK, NotificationsTypeOK
  <2>2. QED
    BY <1>1, <1>2, <1>4, <2>1 DEF VariablesOK, Phases, ApiAnswers, Exceptions
<1>6. RequestsOK'
  BY <1>1, <1>3, <1>4 DEF VariablesOK, RequestsOK, Ids, Exceptions
<1>7. RowsOK'
  <2>1. \A x \in bookings : x.id # r
    BY <1>1, <1>3 DEF RequestsOK, Ids
  <2>2. \A x \in bookings : call'[x.id] = call[x.id]
    BY <1>1, <2>1 DEF RowsOK, VariablesOK
  <2>3. QED
    BY <1>1, <1>4, <2>2 DEF RowsOK, Start, End
<1>8. QED
  BY <1>5, <1>6, <1>7 DEF ApiInv

LEMMA HandleApi ==
  ASSUME ApiInv, NEW r \in BookingRequests, NEW s \in Submissions,
         Handle(r, s)
  PROVE  ApiInv'
<1> USE DEF Handle, StartCreate, Goto, Arrive
<1>1. VariablesOK /\ RequestsOK /\ RowsOK
  BY DEF ApiInv
<1>2. s.key \in Keys /\ s.call \in Calls
  BY SubmissionsAssumption
<1>3. pc[r] = "idle"
  OBVIOUS
<1>4. UNCHANGED <<bookings, job, stalls, sent, awaiting, foundBookings,
                  restarts, outages, dropped, cache, replay, thrown, answer>>
  BY DEF dbVars, jobVars, ReadsUnchanged
<1>5. VariablesOK'
  BY <1>1, <1>2, <1>4 DEF VariablesOK, Phases, NotificationsTypeOK
<1>6. RequestsOK'
  BY <1>1, <1>2, <1>3, <1>4 DEF VariablesOK, RequestsOK, Ids
<1>7. RowsOK'
  <2>1. \A x \in bookings : x.id # r
    BY <1>1, <1>3 DEF RequestsOK, Ids
  <2>2. \A x \in bookings : call'[x.id] = call[x.id]
    BY <1>1, <2>1 DEF RowsOK, VariablesOK
  <2>3. QED
    BY <1>1, <1>4, <2>2 DEF RowsOK, Start, End
<1>8. QED
  BY <1>5, <1>6, <1>7 DEF ApiInv

\* A handler that fails throws what the filter knows, and after its insert
\* nothing that is a refusal.
LEMMA RaiseEffect ==
  ASSUME ApiInv, NEW r \in BookingRequests, BookingStep(r), Raise(r)
  PROVE  /\ \A q \in BookingRequests \ {r} : thrown'[q] = thrown[q]
         /\ thrown' \in [BookingRequests -> Exceptions \cup {NoException}]
         /\ answer'[r] \notin {"none", "created"} => thrown'[r] \in Exceptions
         /\ answer'[r] = "error" /\ r \in Ids(bookings')
              => thrown'[r] \in LateExceptions
<1> USE DEF Throw
<1>1. thrown \in [BookingRequests -> Exceptions \cup {NoException}]
  BY DEF ApiInv, VariablesOK
<1>2. answer'[r] \in Refusals \cup {"none", "created"}
  BY HandlerEffect DEF Outcome, Refusals
<1>3. CASE answer'[r] \in {"none", "created"}
  BY <1>1, <1>3 DEF Raise
<1>4. CASE answer'[r] = "error"
  <2>1. PICK e \in Rejections(r) : Throw(r, e)
    BY <1>4 DEF Raise
  <2>2. Rejections(r) \subseteq Exceptions
    BY DEF Rejections, Exceptions
  <2>3. r \in Ids(bookings') => Rejections(r) \subseteq LateExceptions
    BY DEF Rejections, LateExceptions
  <2>4. QED
    BY <1>1, <1>4, <2>1, <2>2, <2>3
<1>5. CASE answer'[r] \in Refusals \ {"error"}
  <2>1. RefusalThrown(answer'[r]) \in Exceptions
    BY <1>5 DEF RefusalThrown, Refusals, Exceptions
  <2>2. Throw(r, RefusalThrown(answer'[r]))
    BY <1>5 DEF Raise, Refusals
  <2>3. QED
    BY <1>1, <1>5, <2>1, <2>2
<1>6. QED
  BY <1>2, <1>3, <1>4, <1>5

LEMMA HandlerApi ==
  ASSUME ApiInv, NEW r \in BookingRequests, HandlerStep(r)
  PROVE  ApiInv'
<1>1. VariablesOK /\ RequestsOK /\ RowsOK
  BY DEF ApiInv
<1>2. BookingStep(r) /\ Store(r) /\ Raise(r)
      /\ UNCHANGED <<key, replay, restarts, outages, dropped, before>>
  BY DEF HandlerStep
<1>3. /\ pc[r] \notin {"idle", "done"}
      /\ pc' = [pc EXCEPT ![r] = pc'[r]] /\ pc'[r] \in Phases
      /\ answer' = [answer EXCEPT ![r] = answer'[r]]
      /\ UNCHANGED <<call, stalls, sent>>
      /\ Outcome(r)
  BY <1>2, HandlerEffect
<1>4. answer'[r] \in Refusals \cup {"none", "created"}
  BY <1>3 DEF Outcome, Refusals
<1>5. VariablesOK'
  <2>1. /\ thrown' \in [BookingRequests -> Exceptions \cup {NoException}]
        /\ awaiting' \in [BookingRequests -> SUBSET {"blocks", "bookings"}]
        /\ foundBookings' \in [BookingRequests -> SUBSET BookingRequests]
    BY <1>2, RaiseEffect, ReadsEffect
  <2>2. cache' \in [Keys -> BookingRequests \cup {Nothing}]
    BY <1>1, <1>2 DEF VariablesOK, Store
  <2>3. /\ pc' \in [BookingRequests -> Phases]
        /\ answer' \in [BookingRequests -> ApiAnswers]
    BY <1>1, <1>3, <1>4 DEF VariablesOK, ApiAnswers, Answers
  <2>4. NotificationsTypeOK'
    BY <1>1, <1>3, AddEffect DEF VariablesOK, Outcome, NotificationsTypeOK
  <2>5. QED
    BY <1>1, <1>2, <1>3, <2>1, <2>2, <2>3, <2>4 DEF VariablesOK
<1>6. RequestsOK'
  <2>1. \/ UNCHANGED bookings
        \/ Ids(bookings)' = Ids(bookings) \cup {r}
    BY <1>3, RowsEffect DEF Outcome
  <2>2. /\ \A q \in BookingRequests \ {r} : thrown'[q] = thrown[q]
        /\ answer'[r] \notin {"none", "created"} => thrown'[r] \in Exceptions
        /\ answer'[r] = "error" /\ r \in Ids(bookings')
             => thrown'[r] \in LateExceptions
    BY <1>2, RaiseEffect
  <2>3. /\ pc \in [BookingRequests -> Phases]
        /\ answer \in [BookingRequests -> ApiAnswers]
        /\ answer[r] = "none"
    BY <1>1, <1>3 DEF VariablesOK, RequestsOK
  <2>4. \A q \in BookingRequests \ {r} :
          /\ pc'[q] = pc[q] /\ answer'[q] = answer[q]
          /\ q \in Ids(bookings)' <=> q \in Ids(bookings)
    BY <1>3, <2>1, <2>3 DEF Ids
  <2>5. /\ pc'[r] = "done" <=> answer'[r] # "none"
        /\ pc'[r] \notin {"enqueue", "done"} => r \notin Ids(bookings)'
        /\ pc'[r] = "enqueue" => r \in Ids(bookings)'
        /\ answer'[r] = "created" => r \in Ids(bookings)'
        /\ r \in Ids(bookings)' => answer'[r] \in {"none", "created", "error"}
    <3>1. CASE /\ pc[r] # "enqueue" /\ pc'[r] # "enqueue"
               /\ UNCHANGED bookings
      BY <1>1, <1>3, <3>1 DEF Outcome, RequestsOK, Ids, Refusals
    <3>2. CASE pc[r] = "enqueue"
      BY <1>1, <1>3, <3>2 DEF Outcome, RequestsOK, Ids, Refusals
    <3>3. CASE bookings' = bookings \cup {Row(r)}
      BY <1>1, <1>3, <3>3, RowsEffect DEF Outcome, RequestsOK
    <3>4. QED
      BY <1>3, <3>1, <3>2, <3>3 DEF Outcome
  <2>6. QED
    BY <1>1, <1>2, <1>3, <2>2, <2>4, <2>5 DEF RequestsOK, Ids
<1>7. RowsOK'
  <2>1. Row(r).id = r /\ Row(r).start = Start(r) /\ Row(r).end = End(r)
    BY DEF Row
  <2>2. bookings' = bookings \/ bookings' = bookings \cup {Row(r)}
    BY <1>3 DEF Outcome
  <2>3. QED
    BY <1>1, <1>3, <2>1, <2>2 DEF RowsOK, Start, End
<1>8. QED
  BY <1>5, <1>6, <1>7 DEF ApiInv

\* The process dies: what ran is done, and nobody is told anything.
LEMMA RestartApi ==
  ASSUME ApiInv, Restart
  PROVE  ApiInv'
<1>1. VariablesOK /\ RequestsOK /\ RowsOK
  BY DEF ApiInv
<1>2. /\ UNCHANGED <<bookings, call, key, replay, thrown, before, awaiting,
                     foundBookings, outages, stalls, sent>>
      /\ restarts < MaxRestarts /\ restarts' = restarts + 1
      /\ cache' = [k \in Keys |-> Nothing]
      /\ dropped' \subseteq dropped \cup Keys
  BY DEF Restart, dbVars, ReadsUnchanged, LoseWorker
<1>3. /\ pc' = [r \in BookingRequests |->
                  IF pc[r] \notin {"idle", "done"} THEN "done" ELSE pc[r]]
      /\ answer' = [r \in BookingRequests |->
                      IF pc[r] \notin {"idle", "done"} THEN "lost"
                      ELSE answer[r]]
  BY DEF Restart
<1>4. job' = [j \in Jobs |-> IF j \in Held THEN "orphaned" ELSE job[j]]
  BY DEF Restart, LoseWorker
<1>5. VariablesOK'
  <2>1. NotificationsTypeOK'
    BY <1>1, <1>2, <1>4 DEF VariablesOK, NotificationsTypeOK, JobStates
  <2>2. /\ pc' \in [BookingRequests -> Phases]
        /\ answer' \in [BookingRequests -> ApiAnswers]
    BY <1>1, <1>3 DEF VariablesOK, Phases, ApiAnswers
  <2>3. restarts' \in 0 .. MaxRestarts
    BY <1>1, <1>2, SubmissionsAssumption DEF VariablesOK
  <2>4. QED
    BY <1>1, <1>2, <2>1, <2>2, <2>3 DEF VariablesOK
<1>6. RequestsOK'
  BY <1>1, <1>2, <1>3 DEF RequestsOK, Ids
<1>7. RowsOK'
  BY <1>1, <1>2 DEF RowsOK, Start, End
<1>8. QED
  BY <1>5, <1>6, <1>7 DEF ApiInv

\* What the worker and the expiry leave alone is all that RequestsOK and
\* RowsOK speak of.
LEMMA WorkerEffect ==
  ASSUME VariablesOK, NEW j \in Jobs, Worker(j)
  PROVE  /\ UNCHANGED <<dbVars, requestVars, apiVars>>
         /\ NotificationsTypeOK'
<1>1. NotificationsTypeOK /\ j[1] \in BookingRequests
  BY DEF VariablesOK, Jobs
<1>2. QED
  BY <1>1 DEF Worker, WorkerStep, Take, Process, Complete, Stalled, JobStates,
     NotificationsTypeOK

\* Redis is lost: a job appears, or loses its lock, and nothing else moves.
LEMMA OutageEffect ==
  ASSUME VariablesOK,
         \/ \E r \in BookingRequests : AddAgain(r)
         \/ \E j \in Jobs : Cut(j)
  PROVE  /\ UNCHANGED <<dbVars, requestVars, stalls, sent>>
         /\ UNCHANGED <<key, cache, replay, thrown, restarts, dropped, before>>
         /\ outages' = outages + 1
         /\ outages' \in 0 .. MaxOutages
         /\ NotificationsTypeOK'
<1>1. NotificationsTypeOK /\ outages \in 0 .. MaxOutages /\ MaxOutages \in Nat
  BY SubmissionsAssumption DEF VariablesOK
<1>2. CASE \E r \in BookingRequests : AddAgain(r)
  <2>1. PICK r \in BookingRequests : AddAgain(r)
    BY <1>2
  <2>2. PICK n \in Copies : AddJob(r, n)
    BY <2>1, MaxAddsAssumption DEF AddAgain, LoseReply, Copies
  <2>3. NotificationsTypeOK' /\ UNCHANGED <<stalls, sent>>
    BY <1>1, <2>2, AddEffect
  <2>4. /\ UNCHANGED <<dbVars, requestVars>>
        /\ UNCHANGED <<key, cache, replay, thrown, restarts, dropped, before>>
        /\ outages < MaxOutages /\ outages' = outages + 1
    BY <2>1 DEF AddAgain, LoseReply, Outage, ReadsUnchanged, requestVars
  <2>5. outages' \in 0 .. MaxOutages
    BY <1>1, <2>4
  <2>6. QED
    BY <2>3, <2>4, <2>5
<1>3. CASE \E j \in Jobs : Cut(j)
  BY <1>1, <1>3 DEF Cut, LoseLock, Outage, NotificationsTypeOK, JobStates
<1>4. QED
  BY <1>2, <1>3

LEMMA ApiStep == ApiInv /\ [Next]_vars => ApiInv'
<1> SUFFICES ASSUME ApiInv, [Next]_vars PROVE ApiInv'
  OBVIOUS
<1>1. VariablesOK /\ RequestsOK /\ RowsOK
  BY DEF ApiInv
<1>2. ASSUME NEW j \in Jobs, Worker(j)
      PROVE  ApiInv'
  BY <1>1, <1>2, WorkerEffect DEF ApiInv, VariablesOK, RequestsOK, RowsOK,
     dbVars, requestVars, apiVars, Ids, Start, End
<1>3. ASSUME NEW k \in Keys, Expire(k)
      PROVE  ApiInv'
  BY <1>1, <1>3 DEF Expire, ApiInv, VariablesOK, RequestsOK, RowsOK,
     NotificationsTypeOK, dbVars, jobVars, requestVars, Ids, Start, End
<1>4. CASE UNCHANGED vars
  BY <1>1, <1>4 DEF vars, ApiInv, VariablesOK, RequestsOK, RowsOK,
     NotificationsTypeOK, dbVars, jobVars, requestVars, apiVars, Ids, Start,
     End
<1>5. CASE \/ \E r \in BookingRequests : AddAgain(r)
           \/ \E j \in Jobs : Cut(j)
  BY <1>1, <1>5, OutageEffect DEF ApiInv, VariablesOK, RequestsOK, RowsOK,
     dbVars, requestVars, Ids, Start, End
<1>6. CASE Next
  BY <1>2, <1>3, <1>6, <1>5, ArrivalApi, HandleApi, HandlerApi, RestartApi
     DEF Next
<1>7. QED
  BY <1>4, <1>6

\* Every variable keeps its type, and a request past a check of create(), or
\* an exception thrown at a request, is backed by what that phase established.
THEOREM AlwaysApiInv == Spec => []ApiInv
BY ApiBase, ApiStep, PTL DEF Spec

-----------------------------------------------------------------------------
(***************************************************************************)
(* The exception filter, on what this route throws.                        *)
(***************************************************************************)
LEMMA ErrorStatuses ==
  /\ \A e \in Exceptions : MapError(e) \in 400 .. 599
  /\ \A e \in LateExceptions \ {ConnectionClosed} : MapError(e) \in 500 .. 599
<1> USE DEF MapError, LooksLikeDependencyDown, IsPrisma, PrismaStatus,
            KnownStatus, Fallback, Exception
<1>1. /\ MapError(Http(400)) = 400
      /\ MapError(Http(404)) = 404
      /\ MapError(Http(409)) = 409
  BY DEF Http
<1>2. MapError(RedisRefused) = 503
  BY DEF RedisRefused
<1>3. MapError(RedisGaveUp) = 500
  BY DEF RedisGaveUp
<1>4. MapError(Unreachable) = 503
  <2>1. "can't reach database server" \in
          {"econnrefused", "timeout", "can't reach database server"}
            \cap Unreachable.says
    BY DEF Unreachable
  <2>2. LooksLikeDependencyDown(Unreachable)
    BY <2>1
  <2>3. QED
    BY <2>2 DEF Unreachable
<1>5. MapError(ConnectionClosed) = 400
  BY DEF ConnectionClosed, Prisma
<1>6. MapError(NoConnection) = 400
  BY DEF NoConnection, Prisma
<1>7. MapError(Terminated) = 500
  BY DEF Terminated
<1> HIDE DEF MapError
<1>8. QED
  BY <1>1, <1>2, <1>3, <1>4, <1>5, <1>6, <1>7
     DEF Exceptions, LateExceptions

\* Every variable keeps its type and every response has a status; a request
\* is done exactly when it was answered or its process died.
THEOREM ApiTypeCorrect == Spec => []TypeOK
<1>1. ApiInv => TypeOK
  <2> SUFFICES ASSUME ApiInv PROVE TypeOK
    OBVIOUS
  <2>1. VariablesOK /\ RequestsOK
    BY DEF ApiInv
  <2>2. ASSUME NEW r \in BookingRequests
        PROVE  Status(r) \in {0, 201} \cup 400 .. 599
    BY <2>1, ErrorStatuses DEF Status, RequestsOK
  <2>3. QED
    BY <2>1, <2>2 DEF TypeOK, NotificationsTypeOK, VariablesOK, RequestsOK
<1>2. QED
  BY <1>1, AlwaysApiInv, PTL

\* A client whose booking stands is not told that its request was bad,
\* whatever failed after the insert, unless PostgreSQL closed the connection
\* under the commit.
THEOREM BookedNotBlamed == Spec => []BookedIsNotBlamed
<1>1. ApiInv => BookedIsNotBlamed
  <2> SUFFICES ASSUME ApiInv, NEW r \in Ids(bookings),
                      Status(r) \in 400 .. 499
               PROVE  thrown[r] = ConnectionClosed
    BY DEF BookedIsNotBlamed
  <2>1. r \in BookingRequests
    BY DEF ApiInv, RowsOK, Ids
  <2>2. answer[r] \notin {"none", "lost", "created", "replayed"}
    BY DEF Status
  <2>3. thrown[r] \in LateExceptions /\ MapError(thrown[r]) \in 400 .. 499
    BY <2>1, <2>2 DEF ApiInv, RequestsOK, Status
  <2>4. QED
    BY <2>3, ErrorStatuses
<1>2. QED
  BY <1>1, AlwaysApiInv, PTL

-----------------------------------------------------------------------------
(***************************************************************************)
(* The cache.  Two facts make its properties inductive: whoever was        *)
(* answered before r arrived is done, so that its answer is settled; and   *)
(* the key of one that was told "created" has an entry until it is lost.   *)
(***************************************************************************)
SettledBefore ==
  \A r \in BookingRequests :
    /\ \A q \in before[r] : pc[q] = "done"
    /\ pc[r] = "idle" => before[r] = {}

StoredWhileKept ==
  \A q \in BookingRequests :
    answer[q] = "created" =>
      /\ key[q] \in Keys
      /\ key[q] \in dropped \/ cache[key[q]] # Nothing

CacheInv ==
  SettledBefore /\ StoredWhileKept /\ ReplaysAreTrue /\ ReplayedWhileKept

LEMMA CacheBase == Init => CacheInv
BY SubmissionsAssumption
   DEF Init, BookingsInit, ApiInit, CacheInv, SettledBefore, StoredWhileKept,
       ReplaysAreTrue, ReplayedWhileKept

\* A request arrives.
LEMMA ArrivalCache ==
  ASSUME ApiInv, CacheInv, NEW r \in BookingRequests,
         NEW s \in Submissions,
         \/ RejectKey(r, s) \/ ServeCached(r, s) \/ RejectBody(r, s)
         \/ Handle(r, s)
  PROVE  CacheInv'
<1> USE DEF RejectKey, ServeCached, RejectBody, Handle, StartCreate, Goto,
            Answered, Finish, Arrive, Throw
<1>1. VariablesOK /\ RequestsOK /\ CacheInv
  BY DEF ApiInv
<1>2. /\ UNCHANGED <<bookings, cache, dropped>>
      /\ pc[r] = "idle" /\ answer[r] = "none"
  BY <1>1 DEF dbVars, RequestsOK
<1>3. /\ pc'[r] # "idle" /\ answer'[r] # "created" /\ key'[r] = s.key
      /\ before'[r] = {q \in BookingRequests : pc[q] = "done"}
      /\ r \notin before'[r]
  BY <1>1, <1>2 DEF VariablesOK
<1>4. \A q \in BookingRequests \ {r} :
        /\ pc'[q] = pc[q] /\ answer'[q] = answer[q] /\ key'[q] = key[q]
        /\ replay'[q] = replay[q] /\ before'[q] = before[q]
  BY <1>1 DEF VariablesOK
<1>5. SettledBefore'
  BY <1>1, <1>2, <1>3, <1>4 DEF CacheInv, SettledBefore, VariablesOK
<1>6. StoredWhileKept'
  BY <1>1, <1>2, <1>3, <1>4 DEF CacheInv, StoredWhileKept
<1>7. ReplaysAreTrue'
  <2>1. \A k \in Keys :
          cache[k] # Nothing => cache[k] \in BookingRequests \ {r}
    BY <1>1, <1>2 DEF CacheInv, ReplaysAreTrue, VariablesOK
  <2>2. \A k \in Keys :
          cache[k] # Nothing => /\ key'[cache[k]] = k
                                /\ answer'[cache[k]] = "created"
                                /\ cache[k] \in Ids(bookings)
    BY <1>1, <1>4, <2>1 DEF CacheInv, ReplaysAreTrue
  <2>3. answer'[r] = "replayed" =>
          /\ s.key \in Keys /\ cache[s.key] # Nothing
          /\ replay'[r] = cache[s.key]
    BY <1>1, <1>2, <1>3 DEF VariablesOK
  <2>4. answer'[r] = "replayed" =>
          /\ key'[replay'[r]] = key'[r]
          /\ answer'[replay'[r]] = "created"
          /\ replay'[r] \in before'[r]
    <3> SUFFICES ASSUME answer'[r] = "replayed" PROVE
          /\ key'[replay'[r]] = key'[r]
          /\ answer'[replay'[r]] = "created"
          /\ replay'[r] \in before'[r]
      OBVIOUS
    <3> DEFINE q == replay'[r]
    <3>1. /\ q \in BookingRequests \ {r} /\ key'[q] = s.key
          /\ answer'[q] = "created"
      BY <2>1, <2>2, <2>3
    <3>2. pc[q] = "done"
      BY <1>1, <1>4, <3>1 DEF RequestsOK
    <3>3. QED
      BY <1>3, <3>1, <3>2
  <2>5. ASSUME NEW p \in BookingRequests \ {r}, answer'[p] = "replayed"
        PROVE  /\ key'[replay'[p]] = key'[p]
               /\ answer'[replay'[p]] = "created"
               /\ replay'[p] \in before'[p]
    <3>1. /\ key[replay[p]] = key[p] /\ answer[replay[p]] = "created"
          /\ replay[p] \in before[p] /\ before[p] \subseteq BookingRequests
      BY <1>1, <1>4, <2>5 DEF CacheInv, ReplaysAreTrue, VariablesOK
    <3>2. replay[p] # r /\ replay[p] \in BookingRequests
      BY <1>2, <3>1
    <3>3. QED
      BY <1>4, <3>1, <3>2
  <2>6. QED
    BY <1>2, <2>2, <2>4, <2>5 DEF ReplaysAreTrue, Ids
<1>8. ReplayedWhileKept'
  <2>1. ASSUME NEW q \in BookingRequests, q \in before'[r],
               answer'[q] = "created", key'[q] = key'[r],
               key'[r] \in Keys \ dropped
        PROVE  answer'[r] = "replayed"
    <3>1. q # r /\ cache[s.key] # Nothing
      BY <1>1, <1>3, <1>4, <2>1 DEF CacheInv, StoredWhileKept
    <3>2. ServeCached(r, s)
      BY <1>3, <2>1, <3>1, SubmissionsAssumption
    <3>3. QED
      BY <1>1, <3>2 DEF VariablesOK
  <2>2. ASSUME NEW q \in BookingRequests, NEW p \in BookingRequests \ {r},
               q \in before'[p], answer'[q] = "created",
               key'[q] = key'[p], key'[p] \in Keys \ dropped
        PROVE  answer'[p] = "replayed"
    <3>1. q # r
      BY <1>3, <2>2
    <3>2. QED
      BY <1>1, <1>4, <2>2, <3>1 DEF CacheInv, ReplayedWhileKept
  <2>3. QED
    BY <1>2, <2>1, <2>2 DEF ReplayedWhileKept
<1>9. QED
  BY <1>5, <1>6, <1>7, <1>8 DEF CacheInv

\* A handler goes on, or answers and perhaps stores.
LEMMA HandlerCache ==
  ASSUME ApiInv, CacheInv, NEW r \in BookingRequests, HandlerStep(r)
  PROVE  CacheInv'
<1>1. VariablesOK /\ RequestsOK /\ CacheInv
  BY DEF ApiInv
<1>2. /\ pc[r] \notin {"idle", "done"} /\ answer[r] = "none"
      /\ pc' = [pc EXCEPT ![r] = pc'[r]] /\ pc'[r] # "idle"
      /\ answer' = [answer EXCEPT ![r] = answer'[r]]
      /\ answer'[r] # "replayed"
      /\ UNCHANGED <<key, replay, dropped, before>>
      /\ key[r] \in Keys
  BY <1>1, HandlerEffect DEF HandlerStep, Outcome, Refusals, RequestsOK
<1>3. \A q \in BookingRequests \ {r} : pc'[q] = pc[q] /\ answer'[q] = answer[q]
  BY <1>1, <1>2 DEF VariablesOK
<1>4. /\ Ids(bookings) \subseteq Ids(bookings)'
      /\ answer'[r] = "created" => r \in Ids(bookings)'
  BY HandlerEffect, RowsEffect, HandlerApi
     DEF HandlerStep, Outcome, Ids, ApiInv, RequestsOK
<1>5. \A k \in Keys : cache'[k] = IF answer'[r] = "created" /\ k = key[r]
                                  THEN r ELSE cache[k]
  BY <1>1, <1>2 DEF HandlerStep, Store, VariablesOK
<1>6. SettledBefore'
  BY <1>1, <1>2, <1>3 DEF CacheInv, SettledBefore, VariablesOK
<1>7. StoredWhileKept'
  BY <1>1, <1>2, <1>3, <1>5, SubmissionsAssumption
     DEF CacheInv, StoredWhileKept
<1>8. ReplaysAreTrue'
  <2>1. ASSUME NEW k \in Keys, cache'[k] # Nothing
        PROVE  /\ key[cache'[k]] = k
               /\ answer'[cache'[k]] = "created"
               /\ cache'[k] \in Ids(bookings)'
    <3>1. CASE answer'[r] = "created" /\ k = key[r]
      BY <1>4, <1>5, <3>1
    <3>2. CASE ~(answer'[r] = "created" /\ k = key[r])
      <4>1. /\ cache'[k] = cache[k] /\ cache[k] \in BookingRequests
            /\ key[cache[k]] = k /\ answer[cache[k]] = "created"
            /\ cache[k] \in Ids(bookings)
        BY <1>1, <1>5, <2>1, <3>2 DEF CacheInv, ReplaysAreTrue, VariablesOK
      <4>2. QED
        BY <1>2, <1>3, <1>4, <4>1
    <3>3. QED
      BY <3>1, <3>2
  <2>2. ASSUME NEW p \in BookingRequests, answer'[p] = "replayed"
        PROVE  /\ key[replay[p]] = key[p]
               /\ answer'[replay[p]] = "created"
               /\ replay[p] \in before[p]
    <3>1. /\ key[replay[p]] = key[p] /\ answer[replay[p]] = "created"
          /\ replay[p] \in before[p] /\ replay[p] \in BookingRequests
      BY <1>1, <1>2, <1>3, <2>2 DEF CacheInv, ReplaysAreTrue, VariablesOK
    <3>2. QED
      BY <1>2, <1>3, <3>1
  <2>3. QED
    BY <1>2, <2>1, <2>2 DEF ReplaysAreTrue
<1>9. ReplayedWhileKept'
  <2>1. \A p \in BookingRequests : r \notin before[p]
    BY <1>1, <1>2 DEF CacheInv, SettledBefore
  <2>2. QED
    BY <1>1, <1>2, <1>3, <2>1 DEF CacheInv, ReplayedWhileKept
<1>10. QED
  BY <1>6, <1>7, <1>8, <1>9 DEF CacheInv

LEMMA RestartCache ==
  ASSUME ApiInv, CacheInv, Restart
  PROVE  CacheInv'
<1>1. VariablesOK /\ RequestsOK /\ CacheInv
  BY DEF ApiInv
<1>2. /\ UNCHANGED <<bookings, key, replay, before>>
      /\ \A k \in Keys : cache'[k] = Nothing
      /\ dropped' = dropped \cup {k \in Keys : cache[k] # Nothing}
  BY DEF Restart, dbVars
<1>3. \A q \in BookingRequests :
        /\ pc'[q] = "idle" <=> pc[q] = "idle"
        /\ pc[q] = "done" => pc'[q] = "done"
        /\ \/ answer'[q] = answer[q]
           \/ answer'[q] = "lost" /\ answer[q] = "none"
  BY <1>1 DEF Restart, RequestsOK
<1>4. SettledBefore'
  BY <1>1, <1>2, <1>3 DEF CacheInv, SettledBefore, VariablesOK
<1>5. StoredWhileKept'
  BY <1>1, <1>2, <1>3 DEF CacheInv, StoredWhileKept
<1>6. ReplaysAreTrue'
  BY <1>1, <1>2, <1>3 DEF CacheInv, ReplaysAreTrue, VariablesOK, Ids
<1>7. ReplayedWhileKept'
  BY <1>1, <1>2, <1>3 DEF CacheInv, ReplayedWhileKept
<1>8. QED
  BY <1>4, <1>5, <1>6, <1>7 DEF CacheInv

LEMMA CacheStep == ApiInv /\ CacheInv /\ [Next]_vars => CacheInv'
<1> SUFFICES ASSUME ApiInv, CacheInv, [Next]_vars PROVE CacheInv'
  OBVIOUS
<1> USE DEF CacheInv, SettledBefore, StoredWhileKept, ReplaysAreTrue,
            ReplayedWhileKept, Ids
<1>1. ASSUME NEW k \in Keys, Expire(k)
      PROVE  CacheInv'
  <2>1. /\ UNCHANGED <<pc, answer, bookings, key, replay, before>>
        /\ cache' = [cache EXCEPT ![k] = Nothing]
        /\ dropped' = dropped \cup {k}
    BY <1>1 DEF Expire, dbVars, requestVars
  <2>2. cache \in [Keys -> BookingRequests \cup {Nothing}]
    BY DEF ApiInv, VariablesOK
  <2>3. QED
    BY <2>1, <2>2
<1>2. CASE UNCHANGED <<pc, answer, bookings, key, cache, replay, dropped,
                       before>>
  BY <1>2
<1>3. ASSUME NEW j \in Jobs, Worker(j) \/ Cut(j)
      PROVE  CacheInv'
  BY <1>2, <1>3 DEF Worker, Cut, Outage, dbVars, requestVars, apiVars
<1>4. ASSUME NEW r \in BookingRequests, AddAgain(r)
      PROVE  CacheInv'
  BY <1>2, <1>4 DEF AddAgain, LoseReply, Outage, dbVars
<1>5. CASE UNCHANGED vars
  BY <1>2, <1>5 DEF vars, dbVars, requestVars, apiVars
<1> HIDE DEF CacheInv, SettledBefore, StoredWhileKept, ReplaysAreTrue,
             ReplayedWhileKept, Ids
<1>6. CASE Next
  BY <1>1, <1>3, <1>6, <1>4, ArrivalCache, HandlerCache, RestartCache
     DEF Next
<1>7. QED
  BY <1>5, <1>6

\* Who was answered before a request arrived is done, and the key of one that
\* was told "created" has an entry until it is lost.
THEOREM AlwaysCacheInv == Spec => []CacheInv
BY CacheBase, CacheStep, AlwaysApiInv, PTL DEF Spec

\* A replay is the answer of an earlier request that had the same key, was
\* told "created" and has its row, for any keys, crashes and expiries.
THEOREM ReplaysHold == Spec => []ReplaysAreTrue
BY AlwaysCacheInv, PTL DEF CacheInv

\* Until the entry of its key is lost, a request answered "created" answers
\* every later one with its key.
THEOREM KeptKeysReplay == Spec => []ReplayedWhileKept
BY AlwaysCacheInv, PTL DEF CacheInv

-----------------------------------------------------------------------------
(***************************************************************************)
(* The queue.  Each add that Redis executes makes a job, so a booking may  *)
(* have several, and what bounds its notifications is an account: what was *)
(* sent, the jobs that may still send, and the add that is still due never *)
(* exceed one and the losses so far, since only a crash or an outage makes *)
(* a job that had sent send again, or makes a second job.                  *)
(***************************************************************************)
Live(r) == {j \in JobsOf(r) : job[j] \in {"waiting", "active", "orphaned"}}

Losses == restarts + outages

Due(r) == IF pc[r] = "done" THEN 0 ELSE 1

Accounts ==
  \A r \in BookingRequests :
    sent[r] + Cardinality(Live(r)) + Due(r) <= 1 + Losses

\* The worker holds one job at a time, and a crash takes one from it.
OneHeld == \A i, j \in Held : i = j

JobOK(j) ==
  /\ job[j] # "none" => /\ pc[j[1]] \in {"enqueue", "done"}
                        /\ j[1] \in Ids(bookings)
  /\ stalls[j] <= Losses
  /\ job[j] = "none" => stalls[j] = 0
  /\ job[j] \in {"waiting", "active", "processed", "completed", "orphaned"}
       => stalls[j] <= MaxStalledCount
  /\ job[j] = "orphaned" => stalls[j] < Losses
  /\ job[j] = "failed" => stalls[j] = MaxStalledCount + 1
  /\ job[j] \in {"processed", "completed"} => sent[j[1]] > 0

JobInv == (\A j \in Jobs : JobOK(j)) /\ OneHeld /\ Accounts

LEMMA LiveFinite ==
  ASSUME NEW r
  PROVE  IsFiniteSet(Live(r)) /\ Cardinality(Live(r)) \in Nat
<1>1. IsFiniteSet({r}) /\ IsFiniteSet(1 .. MaxAdds)
  <2>1. 1 \in Int /\ MaxAdds \in Int
    BY MaxAddsAssumption
  <2>2. IsFiniteSet(1 .. MaxAdds)
    BY ONLY <2>1, FS_Interval
  <2>3. IsFiniteSet({r})
    BY ONLY FS_Singleton
  <2>4. QED
    BY <2>2, <2>3
<1>2. IsFiniteSet(JobsOf(r))
  BY <1>1, FS_Product DEF JobsOf, Copies
<1>3. Live(r) \subseteq JobsOf(r)
  BY DEF Live
<1>4. QED
  BY <1>2, <1>3, FS_Subset, FS_CardinalityType

\* At most one job more, and one less when one that was live is not any more.
LEMMA LiveGrows ==
  ASSUME NEW r, NEW j, Live(r)' \subseteq Live(r) \cup {j}
  PROVE  Cardinality(Live(r))' <= Cardinality(Live(r)) + 1
<1>1. IsFiniteSet(Live(r)) /\ Cardinality(Live(r)) \in Nat
  BY LiveFinite
<1>2. /\ IsFiniteSet(Live(r) \cup {j})
      /\ Cardinality(Live(r) \cup {j}) \in {Cardinality(Live(r)),
                                            Cardinality(Live(r)) + 1}
  BY <1>1, FS_AddElement
<1>3. /\ IsFiniteSet(Live(r)')
      /\ Cardinality(Live(r)') <= Cardinality(Live(r) \cup {j})
  BY <1>2, FS_Subset
<1>4. Cardinality(Live(r)') \in Nat
  BY <1>3, FS_CardinalityType
<1>5. QED
  BY <1>1, <1>2, <1>3, <1>4

LEMMA LiveKept ==
  ASSUME NEW r, Live(r)' \subseteq Live(r)
  PROVE  /\ Cardinality(Live(r))' \in Nat
         /\ Cardinality(Live(r))' <= Cardinality(Live(r))
<1>1. IsFiniteSet(Live(r))
  BY LiveFinite
<1>2. QED
  BY <1>1, FS_Subset, FS_CardinalityType

LEMMA LiveShrinks ==
  ASSUME NEW r, NEW j \in Live(r), Live(r)' \subseteq Live(r) \ {j}
  PROVE  Cardinality(Live(r))' + 1 <= Cardinality(Live(r))
<1>1. IsFiniteSet(Live(r)) /\ Cardinality(Live(r)) \in Nat
  BY LiveFinite
<1>2. /\ IsFiniteSet(Live(r) \ {j})
      /\ Cardinality(Live(r) \ {j}) = Cardinality(Live(r)) - 1
  BY <1>1, FS_RemoveElement
<1>3. /\ Cardinality(Live(r)') \in Nat
      /\ Cardinality(Live(r)') <= Cardinality(Live(r) \ {j})
  BY <1>2, FS_Subset, FS_CardinalityType
<1>4. QED
  BY <1>1, <1>2, <1>3

LEMMA JobBase == Init => JobInv
<1> SUFFICES ASSUME Init PROVE JobInv
  OBVIOUS
<1> USE DEF Init, NotificationsInit, BookingsInit, ApiInit
<1>1. \A j \in Jobs : JobOK(j)
  BY MaxStalledAssumption DEF JobOK, Losses, Jobs
<1>2. OneHeld
  BY DEF OneHeld, Held
<1>3. \A r \in BookingRequests : Live(r) = {}
  BY DEF Live, JobsOf, Jobs
<1>4. Accounts
  <2>1. \A r \in BookingRequests : Cardinality(Live(r)) = 0
    BY <1>3, FS_EmptySet
  <2>2. Losses = 0 /\ \A r \in BookingRequests : Due(r) = 1 /\ sent[r] = 0
    BY DEF Due, Losses
  <2> HIDE DEF Init, NotificationsInit, BookingsInit, ApiInit
  <2>3. QED
    BY <2>1, <2>2 DEF Accounts
<1>5. QED
  BY <1>1, <1>2, <1>4 DEF JobInv

LEMMA JobTypes ==
  ASSUME ApiInv
  PROVE  /\ job \in [Jobs -> JobStates]
         /\ stalls \in [Jobs -> Nat]
         /\ sent \in [BookingRequests -> Nat]
         /\ restarts \in Nat /\ outages \in Nat /\ Losses \in Nat
         /\ \A j \in Jobs : j[1] \in BookingRequests /\ j \in JobsOf(j[1])
         /\ \A r \in BookingRequests : JobsOf(r) \subseteq Jobs
<1>1. VariablesOK /\ MaxRestarts \in Nat /\ MaxOutages \in Nat
  BY SubmissionsAssumption DEF ApiInv
<1>2. QED
  BY <1>1 DEF VariablesOK, NotificationsTypeOK, Losses, Jobs, JobsOf

\* Steps that leave the jobs alone.
LEMMA QuietJob ==
  ASSUME ApiInv, JobInv, UNCHANGED <<job, stalls, sent, restarts, outages>>,
         Ids(bookings) \subseteq Ids(bookings)',
         \A r \in BookingRequests :
           \/ pc'[r] = pc[r]
           \/ pc'[r] = "done"
           \/ pc[r] \notin {"enqueue", "done"}
  PROVE  JobInv'
<1>1. \A j \in Jobs : JobOK(j)'
  BY JobTypes DEF JobInv, JobOK, Losses
<1>2. OneHeld'
  BY DEF JobInv, OneHeld, Held
<1>3. Accounts'
  <2> SUFFICES ASSUME NEW r \in BookingRequests
               PROVE  sent'[r] + Cardinality(Live(r))' + Due(r)' <= 1 + Losses'
    BY DEF Accounts
  <2>1. Live(r)' = Live(r) /\ Losses' = Losses
    BY DEF Live, Losses
  <2>2. Due(r)' <= Due(r) /\ Due(r) \in {0, 1} /\ Due(r)' \in {0, 1}
    BY DEF Due
  <2>3. sent[r] + Cardinality(Live(r)) + Due(r) <= 1 + Losses
    BY DEF JobInv, Accounts
  <2>4. QED
    BY <2>1, <2>2, <2>3, JobTypes, LiveFinite
<1>4. QED
  BY <1>1, <1>2, <1>3 DEF JobInv

\* An add: the last of the request, or one whose answer is lost.
LEMMA AddJobInv ==
  ASSUME ApiInv, JobInv, NEW r \in BookingRequests, NEW n \in Copies,
         AddJob(r, n), pc[r] = "enqueue",
         UNCHANGED <<bookings, restarts>>,
         \A q \in BookingRequests \ {r} : pc'[q] = pc[q],
         \/ pc'[r] = "done" /\ UNCHANGED outages
         \/ pc'[r] = "enqueue" /\ outages' = outages + 1
  PROVE  JobInv'
<1> DEFINE k == <<r, n>>
<1>1. /\ k \in Jobs /\ k[1] = r /\ job[k] = "none"
      /\ job' = [job EXCEPT ![k] = "waiting"]
      /\ UNCHANGED <<stalls, sent>>
  BY AddEffect DEF ApiInv, VariablesOK
<1>2. Losses' \in Nat /\ Losses <= Losses' /\ r \in Ids(bookings)
  BY JobTypes DEF Losses, ApiInv, RequestsOK
<1>3. \A j \in Jobs : JobOK(j)'
  <2>1. ASSUME NEW j \in Jobs \ {k}
        PROVE  JobOK(j)'
    BY <1>1, <1>2, JobTypes DEF JobInv, JobOK, Ids
  <2>2. JobOK(k)'
    BY <1>1, <1>2, JobTypes, MaxStalledAssumption DEF JobInv, JobOK, Ids
  <2>3. QED
    BY <2>1, <2>2
<1>4. OneHeld'
  BY <1>1, JobTypes DEF JobInv, OneHeld, Held
<1>5. Accounts'
  <2> SUFFICES ASSUME NEW q \in BookingRequests
               PROVE  sent'[q] + Cardinality(Live(q))' + Due(q)' <= 1 + Losses'
    BY DEF Accounts
  <2>1. sent[q] + Cardinality(Live(q)) + Due(q) <= 1 + Losses
    BY DEF JobInv, Accounts
  <2>2. CASE q = r
    <3>1. Live(r)' \subseteq Live(r) \cup {k}
      BY <1>1, JobTypes DEF Live
    <3>2. Cardinality(Live(r))' <= Cardinality(Live(r)) + 1
      BY <3>1, LiveGrows
    <3>3. Due(r) = 1 /\ Due(r)' + Losses <= Losses'
      BY JobTypes DEF Due, Losses
    <3>4. Due(r)' \in {0, 1} /\ Cardinality(Live(r))' \in Nat
      BY LiveFinite, <3>1, FS_AddElement, FS_Subset, FS_CardinalityType DEF Due
    <3>5. QED
      BY <1>1, <1>2, <2>1, <2>2, <3>2, <3>3, <3>4, JobTypes, LiveFinite
  <2>3. CASE q # r
    <3>1. Live(q)' = Live(q) /\ Due(q)' = Due(q) /\ Due(q) \in {0, 1}
      BY <1>1, <2>3, JobTypes DEF Live, JobsOf, Due
    <3>2. QED
      BY <1>1, <1>2, <2>1, <3>1, JobTypes, LiveFinite
  <2>4. QED
    BY <2>2, <2>3
<1>6. QED
  BY <1>3, <1>4, <1>5 DEF JobInv

\* The worker takes, sends, completes, or finds a job stalled.
LEMMA WorkerJob ==
  ASSUME ApiInv, JobInv, NEW k \in Jobs, Worker(k)
  PROVE  JobInv'
<1> DEFINE r == k[1]
<1>1. /\ UNCHANGED <<pc, bookings, restarts, outages>>
      /\ Losses' = Losses /\ r \in BookingRequests
  BY JobTypes DEF Worker, dbVars, requestVars, apiVars, Losses
<1>2. /\ \A j \in Jobs \ {k} : job'[j] = job[j] /\ stalls'[j] = stalls[j]
      /\ \A q \in BookingRequests \ {r} : sent'[q] = sent[q]
  BY JobTypes DEF Worker, WorkerStep, Take, Process, Complete, Stalled
<1>3. \/ /\ job[k] = "waiting" /\ job'[k] = "active" /\ Held = {}
         /\ stalls'[k] = stalls[k] /\ sent'[r] = sent[r]
      \/ /\ job[k] = "active" /\ job'[k] = "processed"
         /\ stalls'[k] = stalls[k] /\ sent'[r] = sent[r] + 1
      \/ /\ job[k] = "processed" /\ job'[k] = "completed"
         /\ stalls'[k] = stalls[k] /\ sent'[r] = sent[r]
      \/ /\ job[k] = "orphaned" /\ stalls'[k] = stalls[k] + 1
         /\ sent'[r] = sent[r]
         /\ \/ job'[k] = "waiting" /\ stalls[k] < MaxStalledCount
            \/ job'[k] = "failed" /\ ~(stalls[k] < MaxStalledCount)
  BY JobTypes DEF Worker, WorkerStep, Take, Process, Complete, Stalled
<1>4. \A q \in BookingRequests : sent'[q] \in Nat /\ sent[q] <= sent'[q]
  BY <1>2, <1>3, JobTypes
<1>5. \A j \in Jobs : JobOK(j)'
  <2>1. ASSUME NEW j \in Jobs \ {k}
        PROVE  JobOK(j)'
    BY <1>1, <1>2, <1>4, JobTypes DEF JobInv, JobOK, Ids
  <2>2. JobOK(k)'
    BY <1>1, <1>3, <1>4, JobTypes, MaxStalledAssumption
       DEF JobInv, JobOK, Ids
  <2>3. QED
    BY <2>1, <2>2
<1>6. OneHeld'
  <2>1. Held' \subseteq Held \/ Held' \subseteq {k}
    BY <1>2, <1>3 DEF Held
  <2>2. QED
    BY <2>1 DEF JobInv, OneHeld
<1>7. Accounts'
  <2> SUFFICES ASSUME NEW q \in BookingRequests
               PROVE  sent'[q] + Cardinality(Live(q))' + Due(q)' <= 1 + Losses'
    BY DEF Accounts
  <2>1. sent[q] + Cardinality(Live(q)) + Due(q) <= 1 + Losses
    BY DEF JobInv, Accounts
  <2>2. Due(q)' = Due(q) /\ Due(q) \in {0, 1}
    BY <1>1 DEF Due
  <2>3. Live(q)' \subseteq Live(q)
    BY <1>2, <1>3, JobTypes DEF Live
  <2>4. /\ Cardinality(Live(q))' \in Nat
        /\ Cardinality(Live(q))' <= Cardinality(Live(q))
    BY <2>3, LiveKept
  <2>5. CASE sent'[q] = sent[q]
    BY <1>1, <2>1, <2>2, <2>4, <2>5, JobTypes, LiveFinite
  <2>6. CASE sent'[q] # sent[q]
    <3>1. q = r /\ sent'[r] = sent[r] + 1 /\ job[k] = "active"
          /\ job'[k] = "processed"
      BY <1>2, <1>3, <2>6
    <3>2. k \in Live(r) /\ Live(r)' \subseteq Live(r) \ {k}
      BY <2>3, <3>1, JobTypes DEF Live
    <3>3. Cardinality(Live(r))' + 1 <= Cardinality(Live(r))
      BY <3>2, LiveShrinks
    <3>4. QED
      BY <1>1, <2>1, <2>2, <2>4, <3>1, <3>3, JobTypes, LiveFinite
  <2>7. QED
    BY <2>5, <2>6
<1>8. QED
  BY <1>5, <1>6, <1>7 DEF JobInv

\* The worker loses what it holds, to a crash or to an outage.
LEMMA LossJob ==
  ASSUME ApiInv, JobInv, NEW S \in SUBSET Held,
         UNCHANGED <<bookings, stalls, sent>>, Losses' = Losses + 1,
         \A j \in Jobs : job'[j] = IF j \in S THEN "orphaned" ELSE job[j],
         \A r \in BookingRequests : pc'[r] = pc[r] \/ pc'[r] = "done"
  PROVE  JobInv'
<1>1. PICK h : S \subseteq {h}
  BY DEF JobInv, OneHeld
<1>2. \A j \in Jobs : JobOK(j)'
  BY JobTypes DEF JobInv, JobOK, Held, Ids
<1>3. OneHeld'
  BY DEF JobInv, OneHeld, Held
<1>4. Accounts'
  <2> SUFFICES ASSUME NEW q \in BookingRequests
               PROVE  sent'[q] + Cardinality(Live(q))' + Due(q)' <= 1 + Losses'
    BY DEF Accounts
  <2>1. sent[q] + Cardinality(Live(q)) + Due(q) <= 1 + Losses
    BY DEF JobInv, Accounts
  <2>2. Live(q)' \subseteq Live(q) \cup {h}
    BY <1>1, JobTypes DEF Live
  <2>3. /\ Cardinality(Live(q))' <= Cardinality(Live(q)) + 1
        /\ Cardinality(Live(q))' \in Nat
    BY <2>2, LiveGrows, LiveFinite, FS_AddElement, FS_Subset,
       FS_CardinalityType
  <2>4. Due(q)' <= Due(q) /\ Due(q) \in {0, 1} /\ Due(q)' \in {0, 1}
    BY DEF Due
  <2>5. QED
    BY <2>1, <2>3, <2>4, JobTypes, LiveFinite
<1>5. QED
  BY <1>2, <1>3, <1>4 DEF JobInv

LEMMA JobStep == ApiInv /\ JobInv /\ [Next]_vars => JobInv'
<1> SUFFICES ASSUME ApiInv, JobInv, [Next]_vars PROVE JobInv'
  OBVIOUS
<1>1. ASSUME NEW r \in BookingRequests, NEW s \in Submissions,
             \/ RejectKey(r, s) \/ ServeCached(r, s) \/ RejectBody(r, s)
             \/ Handle(r, s)
      PROVE  JobInv'
  <2>1. /\ UNCHANGED <<bookings, job, stalls, sent, restarts, outages>>
        /\ pc[r] = "idle"
        /\ \A q \in BookingRequests \ {r} : pc'[q] = pc[q]
    BY <1>1 DEF RejectKey, ServeCached, RejectBody, Handle, Answered,
       StartCreate, Goto, Finish, Arrive, dbVars, jobVars, ApiInv, VariablesOK
  <2>2. QED
    BY <2>1, QuietJob DEF Ids
<1>2. ASSUME NEW r \in BookingRequests, HandlerStep(r)
      PROVE  JobInv'
  <2>1. /\ pc[r] # "done" /\ pc' = [pc EXCEPT ![r] = pc'[r]]
        /\ UNCHANGED <<stalls, sent, restarts, outages>>
        /\ Outcome(r)
    BY <1>2, HandlerEffect DEF HandlerStep
  <2>2. \A q \in BookingRequests \ {r} : pc'[q] = pc[q]
    BY <2>1 DEF ApiInv, VariablesOK
  <2>3. CASE UNCHANGED job
    <3>1. Ids(bookings) \subseteq Ids(bookings)'
      BY <2>1 DEF Outcome, Ids
    <3>2. pc[r] = "enqueue" => pc'[r] = "done"
      BY <2>1 DEF Outcome
    <3>3. QED
      BY <2>1, <2>2, <2>3, <3>1, <3>2, QuietJob
  <2>4. CASE /\ pc[r] = "enqueue" /\ UNCHANGED bookings
             /\ \E n \in Copies : AddJob(r, n)
             /\ pc'[r] = "done"
    BY <2>1, <2>2, <2>4, AddJobInv
  <2>5. QED
    BY <2>1, <2>3, <2>4 DEF Outcome
<1>3. ASSUME NEW r \in BookingRequests, AddAgain(r)
      PROVE  JobInv'
  <2>1. PICK n \in Copies : AddJob(r, n)
    BY <1>3, MaxAddsAssumption DEF AddAgain, LoseReply, Copies
  <2>2. /\ pc[r] = "enqueue" /\ UNCHANGED <<pc, bookings, restarts>>
        /\ outages' = outages + 1
    BY <1>3 DEF AddAgain, LoseReply, Outage, dbVars
  <2>3. QED
    BY <2>1, <2>2, AddJobInv
<1>4. ASSUME NEW j \in Jobs, Cut(j)
      PROVE  JobInv'
  <2>1. /\ UNCHANGED <<pc, bookings, stalls, sent, restarts>>
        /\ j \in Held /\ job' = [job EXCEPT ![j] = "orphaned"]
        /\ outages' = outages + 1
    BY <1>4 DEF Cut, LoseLock, Outage, dbVars, requestVars
  <2>2. Losses' = Losses + 1
    BY <2>1, JobTypes DEF Losses
  <2>3. {j} \in SUBSET Held
    BY <2>1
  <2>4. \A i \in Jobs : job'[i] = IF i \in {j} THEN "orphaned" ELSE job[i]
    BY <2>1, JobTypes
  <2>5. QED
    BY <2>1, <2>2, <2>3, <2>4, LossJob
<1>5. CASE Restart
  <2>1. /\ UNCHANGED <<bookings, stalls, sent, outages>>
        /\ restarts' = restarts + 1
        /\ \A j \in Jobs : job'[j] = IF j \in Held THEN "orphaned" ELSE job[j]
        /\ \A r \in BookingRequests : pc'[r] = pc[r] \/ pc'[r] = "done"
    BY <1>5 DEF Restart, LoseWorker, dbVars
  <2>2. Losses' = Losses + 1 /\ Held \in SUBSET Held
    BY <2>1, JobTypes DEF Losses
  <2>3. QED
    BY <2>1, <2>2, LossJob
<1>6. ASSUME NEW k \in Keys, Expire(k)
      PROVE  JobInv'
  BY <1>6, QuietJob DEF Expire, dbVars, jobVars, requestVars, Ids
<1>7. CASE UNCHANGED vars
  BY <1>7, QuietJob DEF vars, dbVars, jobVars, requestVars, apiVars, Ids
<1>8. QED
  BY <1>1, <1>2, <1>3, <1>4, <1>5, <1>6, <1>7, WorkerJob DEF Next

\* A notification is repeated only for a crash or an outage, however many adds
\* were sent and in whatever order jobs are taken, lost and found stalled; and
\* a job gives up only after more of these than MaxStalledCount.
THEOREM NotifiedOnce == Spec => []NotifiedOncePerLoss
<1>1. ApiInv /\ JobInv => NotifiedOncePerLoss
  <2> SUFFICES ASSUME ApiInv, JobInv PROVE NotifiedOncePerLoss
    OBVIOUS
  <2>1. ASSUME NEW r \in BookingRequests
        PROVE  sent[r] <= 1 + restarts + outages
    <3>1. Cardinality(Live(r)) \in Nat /\ Due(r) \in {0, 1}
      BY LiveFinite DEF Due
    <3>2. sent[r] + Cardinality(Live(r)) + Due(r) <= 1 + Losses
      BY DEF JobInv, Accounts
    <3>3. QED
      BY <3>1, <3>2, JobTypes DEF Losses
  <2>2. ASSUME NEW j \in Jobs
        PROVE  /\ stalls[j] <= restarts + outages
               /\ job[j] = "failed" => stalls[j] > MaxStalledCount
               /\ job[j] = "completed" => sent[j[1]] > 0
               /\ job[j] # "none" => j[1] \in Ids(bookings)
    BY JobTypes, MaxStalledAssumption DEF JobInv, JobOK, Losses
  <2>3. QED
    BY <2>1, <2>2 DEF NotifiedOncePerLoss
<1>2. Spec => []JobInv
  BY JobBase, JobStep, AlwaysApiInv, PTL DEF Spec
<1>3. QED
  BY <1>1, <1>2, AlwaysApiInv, PTL

-----------------------------------------------------------------------------
(***************************************************************************)
(* Second bookings.  A row of a request that was answered before r arrived *)
(* is in the table whenever r reads it: r finds it if it is in the way.    *)
(***************************************************************************)
FoundBefore ==
  \A r \in BookingRequests :
    /\ pc[r] = "overlaps" /\ "bookings" \notin awaiting[r] =>
         \A x \in bookings :
           x.id \in before[r] /\ Overlaps(x, Start(r), End(r))
             => x.id \in foundBookings[r]
    /\ pc[r] = "insert" =>
         \A x \in bookings :
           x.id \in before[r] => ~Overlaps(x, Start(r), End(r))

EarlierIsClear ==
  \A x, y \in bookings : x.id \in before[y.id] => ~Overlaps(x, y.start, y.end)

SeenInv == FoundBefore /\ EarlierIsClear

LEMMA SeenBase == Init => SeenInv
BY DEF Init, DatabaseInit, SeenInv, FoundBefore, EarlierIsClear

LEMMA ArrivalSeen ==
  ASSUME ApiInv, SeenInv, NEW r \in BookingRequests,
         NEW s \in Submissions,
         \/ RejectKey(r, s) \/ ServeCached(r, s) \/ RejectBody(r, s)
         \/ Handle(r, s)
  PROVE  SeenInv'
<1>1. VariablesOK /\ RequestsOK /\ RowsOK
  BY DEF ApiInv
<1>2. /\ UNCHANGED <<bookings, awaiting, foundBookings>>
      /\ pc[r] = "idle" /\ pc'[r] \in {"business", "done"}
      /\ \A q \in BookingRequests \ {r} : /\ pc'[q] = pc[q]
                                          /\ call'[q] = call[q]
                                          /\ before'[q] = before[q]
  BY <1>1 DEF RejectKey, ServeCached, RejectBody, Handle, StartCreate, Goto,
     Answered, Finish, Arrive, ReadsUnchanged, dbVars, VariablesOK
<1>3. \A x \in bookings : x.id \in BookingRequests \ {r}
  BY <1>1, <1>2 DEF RequestsOK, RowsOK, Ids
<1>4. QED
  BY <1>2, <1>3 DEF SeenInv, FoundBefore, EarlierIsClear, Start, End,
                    Overlaps

LEMMA HandlerSeen ==
  ASSUME ApiInv, SettledBefore, SeenInv, NEW r \in BookingRequests,
         HandlerStep(r)
  PROVE  SeenInv'
<1>1. VariablesOK /\ RequestsOK /\ RowsOK
  BY DEF ApiInv
<1>2. /\ BookingStep(r) /\ UNCHANGED before
      /\ pc[r] \notin {"idle", "done"}
      /\ pc' = [pc EXCEPT ![r] = pc'[r]]
      /\ UNCHANGED call
      /\ Outcome(r)
  BY HandlerEffect DEF HandlerStep
<1>3. \A q \in BookingRequests : Start(q)' = Start(q) /\ End(q)' = End(q)
  BY <1>2 DEF Start, End
<1>4. \A q \in BookingRequests : r \notin before[q]
  BY <1>2 DEF SettledBefore
<1>5. ASSUME NEW q \in BookingRequests \ {r}
      PROVE  /\ pc'[q] = pc[q]
             /\ awaiting'[q] = awaiting[q]
             /\ foundBookings'[q] = foundBookings[q]
  <2>1. pc'[q] = pc[q]
    BY <1>1, <1>2 DEF VariablesOK
  <2>2. awaiting'[q] = awaiting[q] /\ foundBookings'[q] = foundBookings[q]
    BY <1>1, <1>2 DEF VariablesOK, BookingStep, BookingMove,
       ValidateBusiness, ValidateService, GetWorkingHours, ReadBlocks,
       ReadBookings, CheckReserved, CreateBookingRecord, LoseCommit,
       EnqueueBookingCreated, Fail, ReadsUnchanged
  <2>3. QED
    BY <2>1, <2>2
<1>6. \A x \in bookings' : x \in bookings \/ x = Row(r)
  BY <1>2 DEF Outcome
<1>7. FoundBefore'
  <2>1. ASSUME NEW q \in BookingRequests \ {r}, NEW x \in bookings',
               x.id \in before[q], Overlaps(x, Start(q), End(q))
        PROVE  /\ pc[q] = "overlaps" /\ "bookings" \notin awaiting[q]
                    => x.id \in foundBookings[q]
               /\ pc[q] # "insert"
    <3>1. x \in bookings
      BY <1>4, <1>6, <2>1 DEF Row
    <3>2. QED
      BY <2>1, <3>1 DEF SeenInv, FoundBefore
  <2>2. ASSUME NEW x \in bookings',
               x.id \in before[r], Overlaps(x, Start(r), End(r))
        PROVE  /\ pc'[r] = "overlaps" /\ "bookings" \notin awaiting'[r]
                    => x.id \in foundBookings'[r]
               /\ pc'[r] # "insert"
    <3>1. x \in bookings
      BY <1>4, <1>6, <2>2 DEF Row
    <3>2. /\ pc[r] = "overlaps" /\ "bookings" \notin awaiting[r]
               => x.id \in foundBookings[r]
          /\ pc[r] # "insert"
      BY <2>2, <3>1 DEF SeenInv, FoundBefore
    <3> USE DEF Goto, Finish, ReadsUnchanged
    <3>3. CASE \E now \in Instants : GetWorkingHours(r, now)
      <4>1. \/ pc'[r] = "done"
            \/ pc'[r] = "overlaps" /\ "bookings" \in awaiting'[r]
        BY <1>1, <3>3 DEF GetWorkingHours, VariablesOK
      <4>2. QED
        BY <4>1
    <3>4. CASE ReadBookings(r)
      <4>1. x.id \in Ids(OverlappingBookings(Start(r), End(r)))
        BY <2>2, <3>1 DEF Ids, OverlappingBookings
      <4>2. QED
        BY <1>1, <3>4, <4>1 DEF ReadBookings, VariablesOK
    <3>5. CASE ReadBlocks(r)
      BY <1>1, <3>2, <3>5 DEF ReadBlocks, VariablesOK
    <3>6. CASE CheckReserved(r)
      <4>1. foundBookings[r] # {}
        BY <3>2, <3>6 DEF CheckReserved
      <4>2. QED
        BY <1>1, <3>6, <4>1 DEF CheckReserved, VariablesOK
    <3>7. CASE \/ ValidateBusiness(r) \/ ValidateService(r)
               \/ CreateBookingRecord(r) \/ LoseCommit(r)
               \/ EnqueueBookingCreated(r) \/ Fail(r)
      BY <1>1, <3>7 DEF ValidateBusiness, ValidateService,
         CreateBookingRecord, LoseCommit, EnqueueBookingCreated, Fail,
         VariablesOK
    <3>8. QED
      BY <1>2, <3>3, <3>4, <3>5, <3>6, <3>7 DEF BookingStep, BookingMove
  <2>3. QED
    BY <1>2, <1>3, <1>5, <2>1, <2>2 DEF FoundBefore, Overlaps
<1>8. EarlierIsClear'
  <2>1. ASSUME NEW x \in bookings', NEW y \in bookings',
               x.id \in before[y.id]
        PROVE  ~Overlaps(x, y.start, y.end)
    <3>1. y.id \in BookingRequests
      BY <1>1, <1>6 DEF RowsOK, Row
    <3>2. x \in bookings
      BY <1>4, <1>6, <2>1, <3>1 DEF Row
    <3>3. CASE y \in bookings
      BY <2>1, <3>2, <3>3 DEF SeenInv, EarlierIsClear
    <3>4. CASE y \notin bookings
      <4>1. /\ pc[r] = "insert" /\ y.id = r
            /\ y.start = Start(r) /\ y.end = End(r)
        BY <1>2, <3>4 DEF Outcome, Row
      <4>2. QED
        BY <2>1, <3>2, <4>1 DEF SeenInv, FoundBefore
    <3>5. QED
      BY <3>3, <3>4
  <2>2. QED
    BY <1>2, <2>1 DEF EarlierIsClear, Overlaps
<1>9. QED
  BY <1>7, <1>8 DEF SeenInv

LEMMA SeenStep ==
  ApiInv /\ CacheInv /\ SeenInv /\ [Next]_vars => SeenInv'
<1> SUFFICES ASSUME ApiInv, CacheInv, SeenInv, [Next]_vars PROVE SeenInv'
  OBVIOUS
<1>1. CASE /\ UNCHANGED <<bookings, call, before, awaiting, foundBookings>>
           /\ \A r \in BookingRequests : pc'[r] = pc[r] \/ pc'[r] = "done"
  BY <1>1 DEF SeenInv, FoundBefore, EarlierIsClear, Start, End, Overlaps
<1>2. CASE Restart
  BY <1>1, <1>2 DEF Restart, dbVars, ReadsUnchanged
<1>3. ASSUME NEW j \in Jobs, Worker(j) \/ Cut(j)
      PROVE  SeenInv'
  BY <1>1, <1>3 DEF Worker, Cut, Outage, dbVars, requestVars, apiVars
<1>4. ASSUME NEW r \in BookingRequests, AddAgain(r)
      PROVE  SeenInv'
  BY <1>1, <1>4 DEF AddAgain, LoseReply, Outage, ReadsUnchanged, dbVars
<1>5. ASSUME NEW k \in Keys, Expire(k)
      PROVE  SeenInv'
  BY <1>1, <1>5 DEF Expire, dbVars, requestVars
<1>6. CASE UNCHANGED vars
  BY <1>1, <1>6 DEF vars, dbVars, requestVars, apiVars
<1>7. CASE Next
  BY <1>2, <1>3, <1>5, <1>7, <1>4, ArrivalSeen, HandlerSeen
     DEF Next, CacheInv
<1>8. QED
  BY <1>6, <1>7

\* Repeating a request never books twice without a race, whatever was lost
\* in between; another body under its key books only when the entry is gone.
THEOREM SecondBookings == Spec => []SecondBookingNeedsRace
<1>1. ApiInv /\ CacheInv /\ SeenInv => SecondBookingNeedsRace
  <2> SUFFICES ASSUME ApiInv, CacheInv, SeenInv,
                      NEW x \in bookings, NEW y \in bookings,
                      x.id \in before[y.id], key[x.id] = key[y.id]
               PROVE  /\ ~Overlaps(x, y.start, y.end)
                      /\ key[x.id] \in dropped \/ answer[x.id] # "created"
    BY DEF SecondBookingNeedsRace
  <2>1. x.id \in BookingRequests /\ y.id \in BookingRequests
    BY DEF ApiInv, RowsOK
  <2>2. ~Overlaps(x, y.start, y.end)
    BY DEF SeenInv, EarlierIsClear
  <2>3. answer[y.id] # "replayed"
    BY <2>1 DEF ApiInv, RequestsOK, Ids
  <2>4. key[x.id] \in dropped \/ answer[x.id] # "created"
    BY <2>1, <2>3 DEF CacheInv, StoredWhileKept, ReplayedWhileKept
  <2>5. QED
    BY <2>2, <2>4
<1>2. Spec => []SeenInv
  BY SeenBase, SeenStep, AlwaysApiInv, AlwaysCacheInv, PTL DEF Spec
<1>3. QED
  BY <1>1, <1>2, AlwaysApiInv, AlwaysCacheInv, PTL
=============================================================================
