-------------------------- MODULE SchedulingProofs --------------------------
(***************************************************************************)
(* What holds of Scheduling for every catalogue, every set of requests and *)
(* every zone, however the handlers interleave.                            *)
(*                                                                         *)
(* TypeOK is not inductive: that a row of the tables names a business that *)
(* exists depends on what the handler that inserts it has checked before.  *)
(* Progress says what each handler has established by the time it is in a  *)
(* given phase, and TypeInv is the two together.                           *)
(***************************************************************************)
EXTENDS Scheduling, TLAPS

BookingProgress ==
  \A r \in BookingRequests :
    /\ pc[r] # "idle" => call[r] \in Calls
    /\ pc[r] \in {"service", "hours", "overlaps", "insert", "enqueue"}
         => call[r].business \in Businesses
    /\ pc[r] \in {"hours", "overlaps", "insert", "enqueue"}
         => call[r].service \in Services

BlockProgress ==
  \A r \in BlockRequests :
    /\ bpc[r] # "idle" => bcall[r] \in BlockCalls
    /\ bpc[r] \in {"business", "overlap", "hours", "insert"}
         => /\ bcall[r].business \in Businesses
            /\ Owner[bcall[r].business] = bcall[r].user

ScheduleProgress ==
  \A w \in ScheduleRequests :
    /\ wpc[w] # "idle" => wcall[w] \in ScheduleCalls
    /\ wpc[w] \in {"begin", "commit"}
         => /\ wcall[w].business \in Businesses
            /\ Owner[wcall[w].business] = wcall[w].user
    /\ wpc[w] = "commit" => ~wcall[w].broken

Progress == BookingProgress /\ BlockProgress /\ ScheduleProgress

TypeInv == TypeOK /\ Progress

-----------------------------------------------------------------------------
\* The handlers find their requests idle and the tables empty but for the
\* first working hours, which belong to businesses that exist.
LEMMA TypeInit == Init => TypeInv
<1> SUFFICES ASSUME Init PROVE TypeInv
  OBVIOUS
<1> USE DEF Init
<1>1. DatabaseTypeOK
  BY CatalogAssumption DEF DatabaseInit, DatabaseTypeOK, AllHours
<1>2. NotificationsTypeOK
  BY DEF NotificationsInit, NotificationsTypeOK, JobStates
<1>3. BookingsTypeOK /\ BookingProgress
  BY DEF BookingsInit, BookingsTypeOK, BookingProgress, Phases, Answers
<1>4. BlocksTypeOK /\ BlockProgress
  BY DEF BlocksInit, BlocksTypeOK, BlockProgress, BlockPhases, BlockAnswers,
         DeletePhases, DeleteAnswers
<1>5. ScheduleTypeOK /\ ScheduleProgress
  BY DEF ScheduleInit, ScheduleTypeOK, ScheduleProgress, SchedulePhases,
         ScheduleAnswers
<1>6. QED
  BY <1>1, <1>2, <1>3, <1>4, <1>5 DEF TypeInv, TypeOK, Progress

-----------------------------------------------------------------------------
(***************************************************************************)
(* One lemma for the steps of each kind of handler.  Every step of a       *)
(* booking that is not its insert leaves the tables alone, and moves only  *)
(* its own phase.                                                          *)
(***************************************************************************)
LEMMA BookingType ==
  ASSUME TypeInv, NEW r \in BookingRequests, BookingNext(r)
  PROVE  TypeInv'
<1> DEFINE BInv == /\ DatabaseTypeOK /\ NotificationsTypeOK
                   /\ BookingsTypeOK /\ BookingProgress
<1>a. /\ BlocksTypeOK' /\ BlockProgress'
      /\ ScheduleTypeOK' /\ ScheduleProgress'
  BY DEF TypeInv, TypeOK, Progress, BookingNext, blockVars, createBlockVars,
         deleteBlockVars, scheduleVars, BlocksTypeOK, BlockProgress,
         ScheduleTypeOK, ScheduleProgress
<1> SUFFICES BInv'
  BY <1>a DEF TypeInv, TypeOK, Progress
<1> USE DEF BookingsTypeOK, BookingProgress, Phases, Answers, Refusals,
            Goto, Finish, ReadsUnchanged, dbVars, jobVars
<1>1. DatabaseTypeOK /\ NotificationsTypeOK /\ BookingsTypeOK
        /\ BookingProgress
  BY DEF TypeInv, TypeOK, Progress
<1>2. ASSUME NEW c \in Calls, StartCreate(r, c)
      PROVE  BInv'
  BY <1>1, <1>2 DEF StartCreate, DatabaseTypeOK, NotificationsTypeOK
<1>3. CASE ValidateBusiness(r)
  BY <1>1, <1>3 DEF ValidateBusiness, DatabaseTypeOK, NotificationsTypeOK
<1>4. CASE ValidateService(r)
  BY <1>1, <1>4 DEF ValidateService, DatabaseTypeOK, NotificationsTypeOK
<1>5. ASSUME NEW now \in Instants, GetWorkingHours(r, now)
      PROVE  BInv'
  <2>1. UNCHANGED <<bookings, blocks, workingHours, job, stalls, sent>>
    BY <1>5 DEF GetWorkingHours
  <2>2. \A b, d : HoursOn(b, d) \subseteq AllHours
    BY <1>1 DEF HoursOn, DatabaseTypeOK
  <2>3. BookingsTypeOK' /\ BookingProgress'
    BY <1>1, <1>5, <2>2 DEF GetWorkingHours
  <2>4. QED
    BY <1>1, <2>1, <2>3 DEF DatabaseTypeOK, NotificationsTypeOK
<1>6. CASE ReadBlocks(r)
  <2>1. Ids(OverlappingBlocks(Start(r), End(r))) \subseteq BlockRequests
        /\ Ids(blocks) \subseteq BlockRequests
    BY <1>1 DEF Ids, OverlappingBlocks, DatabaseTypeOK, BlockRows
  <2>2. QED
    BY <1>1, <1>6, <2>1 DEF ReadBlocks, DatabaseTypeOK, NotificationsTypeOK
<1>7. CASE ReadBookings(r)
  <2>1. Ids(OverlappingBookings(Start(r), End(r))) \subseteq BookingRequests
        /\ Ids(bookings) \subseteq BookingRequests
    BY <1>1 DEF Ids, OverlappingBookings, DatabaseTypeOK, BookingRows
  <2>2. QED
    BY <1>1, <1>7, <2>1 DEF ReadBookings, DatabaseTypeOK, NotificationsTypeOK
<1>8. CASE CheckReserved(r)
  BY <1>1, <1>8 DEF CheckReserved, DatabaseTypeOK, NotificationsTypeOK
<1>9. ASSUME pc[r] = "insert"
      PROVE  Row(r) \in BookingRows
  <2>1. call[r] \in Calls /\ call[r].business \in Businesses
        /\ call[r].service \in Services
    BY <1>1, <1>9
  <2>2. call[r].user \in Users /\ call[r].start \in Int
    BY <2>1, CallsAssumption DEF SoundCall
  <2>3. Start(r) \in Int /\ End(r) \in Int
    BY <2>1, <2>2, CatalogAssumption DEF Start, End
  <2>4. QED
    BY <2>1, <2>2, <2>3 DEF Row, BookingRows
<1>10. CASE CreateBookingRecord(r)
  BY <1>1, <1>9, <1>10
     DEF CreateBookingRecord, DatabaseTypeOK, NotificationsTypeOK
<1>11. CASE LoseCommit(r)
  BY <1>1, <1>9, <1>11 DEF LoseCommit, DatabaseTypeOK, NotificationsTypeOK
<1>12. CASE EnqueueBookingCreated(r)
  BY <1>1, <1>12 DEF EnqueueBookingCreated, AddJob, DatabaseTypeOK,
                     NotificationsTypeOK, JobStates
<1>13. CASE LoseReply(r)
  BY <1>1, <1>13 DEF LoseReply, AddJob, DatabaseTypeOK,
                     NotificationsTypeOK, JobStates
<1>14. CASE Fail(r)
  BY <1>1, <1>14 DEF Fail, DatabaseTypeOK, NotificationsTypeOK
<1>15. QED
  BY <1>2, <1>3, <1>4, <1>5, <1>6, <1>7, <1>8, <1>10, <1>11, <1>12, <1>13,
     <1>14 DEF BookingNext, BookingStep, BookingMove

LEMMA BlockType ==
  ASSUME TypeInv, NEW r \in BlockRequests, BlockNext(r)
  PROVE  TypeInv'
<1> DEFINE KInv == DatabaseTypeOK /\ BlocksTypeOK /\ BlockProgress
<1>a. /\ NotificationsTypeOK' /\ BookingsTypeOK' /\ BookingProgress'
       /\ ScheduleTypeOK' /\ ScheduleProgress'
  BY DEF TypeInv, TypeOK, Progress, BlockNext, jobVars, requestVars,
         scheduleVars, NotificationsTypeOK, BookingsTypeOK, BookingProgress,
         ScheduleTypeOK, ScheduleProgress
<1> SUFFICES KInv'
  BY <1>a DEF TypeInv, TypeOK, Progress
<1> USE DEF BlocksTypeOK, BlockProgress, BlockPhases, BlockAnswers,
            GotoBlock, FinishBlock, dbVars, deleteBlockVars
<1>1. DatabaseTypeOK /\ BlocksTypeOK /\ BlockProgress
  BY DEF TypeInv, TypeOK, Progress
<1>2. ASSUME NEW c \in BlockCalls, StartBlock(r, c)
      PROVE  KInv'
  BY <1>1, <1>2 DEF StartBlock, DatabaseTypeOK
<1>3. CASE GuardBlock(r)
  <2>1. bcall[r] \in BlockCalls
    BY <1>1, <1>3 DEF GuardBlock
  <2>2. QED
    BY <1>1, <1>3, <2>1 DEF GuardBlock, RoleGuard, DatabaseTypeOK
<1>4. CASE ValidateBlockBusiness(r)
  BY <1>1, <1>4 DEF ValidateBlockBusiness, DatabaseTypeOK
<1>5. CASE ReadOverlap(r)
  <2>1. Ids(blocks) \subseteq BlockRequests
    BY <1>1 DEF Ids, DatabaseTypeOK, BlockRows
  <2>2. QED
    BY <1>1, <1>5, <2>1 DEF ReadOverlap, DatabaseTypeOK
<1>6. CASE ReadBlockHours(r)
  BY <1>1, <1>6 DEF ReadBlockHours, DatabaseTypeOK
<1>7. CASE CreateBlockRecord(r)
  <2>1. bcall[r] \in BlockCalls /\ bcall[r].business \in Businesses
    BY <1>1, <1>7 DEF CreateBlockRecord
  <2>2. bcall[r].start \in Int /\ bcall[r].end \in Int
    BY <2>1, BlockCallsAssumption DEF SoundBlockCall
  <2>3. BlockRow(r) \in BlockRows
    BY <2>1, <2>2 DEF BlockRow, BlockRows
  <2>4. QED
    BY <1>1, <1>7, <2>3 DEF CreateBlockRecord, DatabaseTypeOK
<1>8. CASE FailBlock(r)
  BY <1>1, <1>8 DEF FailBlock, DatabaseTypeOK
<1>9. QED
  BY <1>2, <1>3, <1>4, <1>5, <1>6, <1>7, <1>8
     DEF BlockNext, BlockStep, BlockMove

LEMMA DeleteType ==
  ASSUME TypeInv, NEW r \in DeleteRequests, DeleteNext(r)
  PROVE  TypeInv'
<1> DEFINE KInv == DatabaseTypeOK /\ BlocksTypeOK /\ BlockProgress
<1>a. /\ NotificationsTypeOK' /\ BookingsTypeOK' /\ BookingProgress'
      /\ ScheduleTypeOK' /\ ScheduleProgress'
  BY DEF TypeInv, TypeOK, Progress, DeleteNext, jobVars, requestVars,
         scheduleVars, NotificationsTypeOK, BookingsTypeOK, BookingProgress,
         ScheduleTypeOK, ScheduleProgress
<1> SUFFICES KInv'
  BY <1>a DEF TypeInv, TypeOK, Progress
<1> USE DEF BlocksTypeOK, BlockProgress, DeletePhases, DeleteAnswers,
            GotoDelete, FinishDelete, dbVars, createBlockVars
<1>1. DatabaseTypeOK /\ BlocksTypeOK /\ BlockProgress
  BY DEF TypeInv, TypeOK, Progress
<1>2. ASSUME NEW c \in DeleteCalls, StartDelete(r, c)
      PROVE  KInv'
  BY <1>1, <1>2 DEF StartDelete, DatabaseTypeOK
<1>3. CASE GuardDelete(r)
  BY <1>1, <1>3 DEF GuardDelete, RoleGuard, DatabaseTypeOK
<1>4. CASE DeleteBlock(r)
  BY <1>1, <1>4 DEF DeleteBlock, DatabaseTypeOK
<1>5. CASE FailDelete(r)
  BY <1>1, <1>5 DEF FailDelete, DatabaseTypeOK
<1>6. QED
  BY <1>2, <1>3, <1>4, <1>5 DEF DeleteNext, DeleteStep, DeleteMove

LEMMA ScheduleType ==
  ASSUME TypeInv, NEW w \in ScheduleRequests, ScheduleNext(w)
  PROVE  TypeInv'
<1> DEFINE WInv == DatabaseTypeOK /\ ScheduleTypeOK /\ ScheduleProgress
<1>a. /\ NotificationsTypeOK' /\ BookingsTypeOK' /\ BookingProgress'
      /\ BlocksTypeOK' /\ BlockProgress'
  BY DEF TypeInv, TypeOK, Progress, ScheduleNext, jobVars, requestVars,
         blockVars, createBlockVars, deleteBlockVars, NotificationsTypeOK,
         BookingsTypeOK, BookingProgress, BlocksTypeOK, BlockProgress
<1> SUFFICES WInv'
  BY <1>a DEF TypeInv, TypeOK, Progress
<1> USE DEF ScheduleTypeOK, ScheduleProgress, SchedulePhases,
            ScheduleAnswers, GotoSchedule, FinishSchedule, dbVars
<1>1. DatabaseTypeOK /\ ScheduleTypeOK /\ ScheduleProgress
  BY DEF TypeInv, TypeOK, Progress
<1>2. ASSUME NEW c \in ScheduleCalls, StartSchedule(w, c)
      PROVE  WInv'
  BY <1>1, <1>2 DEF StartSchedule, DatabaseTypeOK
<1>3. CASE GuardSchedule(w)
  <2>1. wcall[w] \in ScheduleCalls
    BY <1>1, <1>3 DEF GuardSchedule
  <2>2. QED
    BY <1>1, <1>3, <2>1 DEF GuardSchedule, RoleGuard, DatabaseTypeOK
<1>4. CASE DeleteWeek(w)
  <2>1. HoursOf(wcall[w].business) \subseteq AllHours
    BY <1>1 DEF HoursOf, DatabaseTypeOK
  <2>2. QED
    BY <1>1, <1>4, <2>1 DEF DeleteWeek, DatabaseTypeOK
<1>5. CASE CommitWeek(w)
  <2>1. wcall[w] \in ScheduleCalls /\ wcall[w].business \in Businesses
    BY <1>1, <1>5 DEF CommitWeek
  <2>2. RowsOf(w, wcall[w]) \subseteq AllHours
    BY <2>1 DEF AllHours
  <2>3. \A h \in RowsOf(w, wcall[w]) : h.business \in Businesses
    BY <2>1 DEF RowsOf
  <2>4. QED
    BY <1>1, <1>5, <2>2, <2>3 DEF CommitWeek, DatabaseTypeOK
<1>6. CASE FailSchedule(w)
  BY <1>1, <1>6 DEF FailSchedule, DatabaseTypeOK
<1>7. QED
  BY <1>2, <1>3, <1>4, <1>5, <1>6 DEF ScheduleNext, ScheduleStep,
     ScheduleMove

LEMMA TypeStep == TypeInv /\ [Next]_vars => TypeInv'
<1> SUFFICES ASSUME TypeInv, [Next]_vars PROVE TypeInv'
  OBVIOUS
<1>1. CASE Next
  BY <1>1, BookingType, BlockType, DeleteType, ScheduleType DEF Next
<1>2. CASE UNCHANGED vars
  BY <1>2 DEF vars, dbVars, jobVars, requestVars, blockVars, createBlockVars,
    deleteBlockVars, scheduleVars, TypeInv, TypeOK, Progress, DatabaseTypeOK,
    NotificationsTypeOK, BookingsTypeOK, BookingProgress, BlocksTypeOK,
    BlockProgress, ScheduleTypeOK, ScheduleProgress
<1>3. QED
  BY <1>1, <1>2

\* In every reachable state each handler has established what its phase
\* says: a handler about to insert has validated its business and service.
THEOREM AlwaysTypeInv == Spec => []TypeInv
BY TypeInit, TypeStep, PTL DEF Spec

\* Every variable keeps its type, and every row of the tables belongs to a
\* business that exists, whatever ids the request bodies carried.
THEOREM TypeCorrect == Spec => []TypeOK
BY AlwaysTypeInv, PTL DEF TypeInv

-----------------------------------------------------------------------------
(***************************************************************************)
(* Answers.  AnswersAreTrue speaks of requests that were answered; while   *)
(* one runs, its row and its job are there from exactly one step on.       *)
(***************************************************************************)
AnswerInv ==
  /\ AnswersAreTrue
  /\ \A r \in BookingRequests :
       /\ pc[r] # "done" => answer[r] = "none"
       /\ pc[r] \notin {"enqueue", "done"} =>
            /\ r \notin Ids(bookings)
            /\ \A j \in JobsOf(r) : job[j] = "none"
       /\ pc[r] = "enqueue" => r \in Ids(bookings)

\* The jobs of a request are jobs, and of no other request.
LEMMA JobsAreOnes ==
  ASSUME NEW r \in BookingRequests
  PROVE  /\ JobsOf(r) \subseteq Jobs
         /\ \A j \in JobsOf(r) : j[1] = r
         /\ \A n \in Copies : <<r, n>> \in JobsOf(r)
BY DEF JobsOf, Jobs

LEMMA AnswerInit == Init => AnswerInv
BY JobsAreOnes DEF Init, AnswerInv, AnswersAreTrue, DatabaseInit,
       BookingsInit, NotificationsInit, Ids, Refusals

\* A step of r keeps what is known of the other requests.
LEMMA BookingAnswer ==
  ASSUME TypeInv, AnswerInv, NEW r \in BookingRequests, BookingNext(r)
  PROVE  AnswerInv'
<1>1. /\ pc \in [BookingRequests -> Phases]
      /\ answer \in [BookingRequests -> Answers]
      /\ job \in [Jobs -> JobStates]
  BY DEF TypeInv, TypeOK, BookingsTypeOK, NotificationsTypeOK
<1> DEFINE Told(q) ==
      /\ answer[q] \in Refusals \ {"error"} => q \notin Ids(bookings)
      /\ answer[q] = "created" => /\ q \in Ids(bookings)
                                  /\ \E j \in JobsOf(q) : job[j] # "none"
      /\ \A j \in JobsOf(q) : job[j] # "none" => q \in Ids(bookings)
      /\ pc[q] # "done" => answer[q] = "none"
      /\ pc[q] \notin {"enqueue", "done"} =>
           /\ q \notin Ids(bookings)
           /\ \A j \in JobsOf(q) : job[j] = "none"
      /\ pc[q] = "enqueue" => q \in Ids(bookings)
<1>2. \A q \in BookingRequests : Told(q)
  BY DEF AnswerInv, AnswersAreTrue
<1>3. SUFFICES \A q \in BookingRequests : Told(q)'
  BY DEF AnswerInv, AnswersAreTrue
<1>4. ASSUME NEW c \in Calls, StartCreate(r, c)
      PROVE  \A q \in BookingRequests : Told(q)'
  BY <1>1, <1>2, <1>4 DEF StartCreate, Goto, dbVars, jobVars, Ids
<1>5. CASE CreateBookingRecord(r) \/ LoseCommit(r)
  <2>1. Ids(bookings)' = Ids(bookings) \cup {r}
    <3>1. bookings' = bookings \cup {Row(r)}
      BY <1>5 DEF CreateBookingRecord, LoseCommit
    <3>2. Row(r).id = r
      BY DEF Row
    <3>3. QED
      BY <3>1, <3>2 DEF Ids
  <2>2. QED
    BY <1>1, <1>2, <1>5, <2>1 DEF CreateBookingRecord, LoseCommit, Goto,
       Finish, jobVars, Refusals
<1>6. CASE EnqueueBookingCreated(r) \/ LoseReply(r)
  <2>1. Ids(bookings)' = Ids(bookings)
    BY <1>6 DEF EnqueueBookingCreated, LoseReply, dbVars, Ids
  <2>2. PICK n \in Copies : AddJob(r, n)
    BY <1>6, MaxAddsAssumption DEF EnqueueBookingCreated, LoseReply, Copies
  <2>3. /\ pc[r] = "enqueue"
        /\ \/ Finish(r, "created")
           \/ UNCHANGED <<pc, answer>>
    BY <1>6 DEF EnqueueBookingCreated, LoseReply
  <2>4. ASSUME NEW q \in BookingRequests \ {r}
        PROVE  Told(q)'
    <3>1. \A j \in JobsOf(q) : job'[j] = job[j]
      BY <1>1, <2>2, JobsAreOnes DEF AddJob
    <3>2. pc'[q] = pc[q] /\ answer'[q] = answer[q]
      BY <1>1, <2>3 DEF Finish
    <3>3. QED
      BY <1>2, <2>1, <3>1, <3>2
  <2>5. Told(r)'
    <3>1. job'[<<r, n>>] # "none" /\ <<r, n>> \in JobsOf(r)
      BY <1>1, <2>2, JobsAreOnes DEF AddJob
    <3>2. r \in Ids(bookings)'
      BY <1>2, <2>1, <2>3
    <3>3. CASE Finish(r, "created")
      <4>1. pc'[r] = "done" /\ answer'[r] = "created"
        BY <1>1, <3>3 DEF Finish
      <4>2. QED
        BY <3>1, <3>2, <4>1 DEF Refusals
    <3>4. CASE UNCHANGED <<pc, answer>>
      <4>1. pc'[r] = "enqueue" /\ answer'[r] = "none"
        BY <1>2, <2>3, <3>4
      <4>2. QED
        BY <3>2, <4>1 DEF Refusals
    <3>5. QED
      BY <2>3, <3>3, <3>4
  <2>6. QED
    BY <2>4, <2>5
<1>7. CASE /\ UNCHANGED <<bookings, job>>
           /\ pc[r] \notin {"idle", "done"}
           /\ \/ /\ pc[r] # "enqueue"
                 /\ \E phase \in Phases \ {"enqueue", "done"} : Goto(r, phase)
              \/ pc[r] # "enqueue" /\ \E a \in Refusals : Finish(r, a)
              \/ Finish(r, "error")
              \/ UNCHANGED <<pc, answer>>
  <2>1. Ids(bookings)' = Ids(bookings)
    BY <1>7 DEF Ids
  <2>2. CASE UNCHANGED <<pc, answer>>
    BY <1>2, <1>7, <2>1, <2>2
  <2>3. CASE /\ pc[r] # "enqueue"
             /\ \E phase \in Phases \ {"enqueue", "done"} : Goto(r, phase)
    BY <1>1, <1>2, <1>7, <2>1, <2>3 DEF Goto
  <2>4. CASE pc[r] # "enqueue" /\ \E a \in Refusals : Finish(r, a)
    BY <1>1, <1>2, <1>7, <2>1, <2>4 DEF Finish, Refusals
  <2>5. CASE Finish(r, "error")
    BY <1>1, <1>2, <1>7, <2>1, <2>5 DEF Finish, Refusals
  <2>6. QED
    BY <1>7, <2>2, <2>3, <2>4, <2>5
<1>8. CASE \/ ValidateBusiness(r) \/ ValidateService(r)
           \/ \E now \in Instants : GetWorkingHours(r, now)
           \/ ReadBlocks(r) \/ ReadBookings(r) \/ CheckReserved(r)
           \/ Fail(r)
  BY <1>7, <1>8 DEF ValidateBusiness, ValidateService, GetWorkingHours,
     ReadBlocks, ReadBookings, CheckReserved, Fail, dbVars, jobVars, Phases,
     Refusals
<1>9. QED
  BY <1>4, <1>5, <1>6, <1>8 DEF BookingNext, BookingStep, BookingMove

LEMMA AnswerStep == TypeInv /\ AnswerInv /\ [Next]_vars => AnswerInv'
<1> SUFFICES ASSUME TypeInv, AnswerInv, [Next]_vars PROVE AnswerInv'
  OBVIOUS
<1>1. CASE UNCHANGED <<bookings, pc, answer, job>>
  BY <1>1 DEF AnswerInv, AnswersAreTrue, Ids
<1>2. ASSUME NEW r \in BlockRequests, BlockNext(r)
      PROVE  UNCHANGED <<bookings, pc, answer, job>>
  BY <1>2 DEF BlockNext, BlockStep, BlockMove, StartBlock, GuardBlock,
     ValidateBlockBusiness, ReadOverlap, ReadBlockHours, CreateBlockRecord,
     FailBlock, dbVars, jobVars, requestVars
<1>3. ASSUME NEW d \in DeleteRequests, DeleteNext(d)
      PROVE  UNCHANGED <<bookings, pc, answer, job>>
  BY <1>3 DEF DeleteNext, DeleteStep, DeleteMove, StartDelete, GuardDelete,
     DeleteBlock, FailDelete, dbVars, jobVars, requestVars
<1>4. ASSUME NEW w \in ScheduleRequests, ScheduleNext(w)
      PROVE  UNCHANGED <<bookings, pc, answer, job>>
  BY <1>4 DEF ScheduleNext, ScheduleStep, ScheduleMove, StartSchedule,
     GuardSchedule, DeleteWeek, CommitWeek, FailSchedule, dbVars, jobVars,
     requestVars
<1>5. CASE UNCHANGED vars
  BY <1>1, <1>5 DEF vars, dbVars, jobVars, requestVars
<1>6. CASE Next
  BY <1>1, <1>2, <1>3, <1>4, <1>6, BookingAnswer DEF Next
<1>7. QED
  BY <1>5, <1>6

\* A request that has not been answered has no answer and no job, and its row
\* is in the table exactly from its insert on.
THEOREM AlwaysAnswerInv == Spec => []AnswerInv
BY AnswerInit, AnswerStep, AlwaysTypeInv, PTL DEF Spec

\* What a client is told of its booking is true, errors apart, and a job is
\* only ever there for a booking that was committed.
THEOREM AnswersHold == Spec => []AnswersAreTrue
BY AlwaysAnswerInv, PTL DEF AnswerInv
=============================================================================
