------------------------------ MODULE Bookings ------------------------------
(***************************************************************************)
(* BookingsService#create: the handler of POST /bookings.                  *)
(*                                                                         *)
(* A handler is a chain of awaits.  Between two of them it runs alone (one *)
(* Node process, one thread), so an action is one await with the code that *)
(* follows it up to the next; whatever other handlers do comes in between. *)
(* Only the insert is inside the serializable transaction; every check was *)
(* made before, in queries of its own.                                     *)
(*                                                                         *)
(*   idle -> business -> service -> hours -> overlaps -> insert            *)
(*        -> enqueue -> done                                               *)
(***************************************************************************)
EXTENDS Database, Notifications

CONSTANTS Calls,      \* the bodies POSTed: [user, business, service, start]
          Instants,   \* the moments at which a handler may run
          NoCall,     \* what call[r] is before r arrives
          NoHours     \* what hours[r] is before r has read its row

SoundCall(c) == c \in [user : Users, business : {c.business},
                       service : {c.service}, start : Int]

ASSUME CallsAssumption ==
  /\ \A c \in Calls : SoundCall(c)
  /\ NoCall \notin Calls

VARIABLES
  pc,             \* pc[r]: the await request r is in
  call,           \* call[r]: its body and its user
  hours,          \* hours[r]: the row getWorkingHours returned
  awaiting,       \* awaiting[r]: the reads of Promise.all still pending
  foundBlocks,    \* foundBlocks[r]: ids of the overlapping blocks it read
  foundBookings,  \* foundBookings[r]: ids of the overlapping bookings
  answer,         \* answer[r]: how it was answered
  sawBlocks,      \* auxiliary: ids of all the blocks when r read them
  sawBookings     \* auxiliary: ids of all the bookings when r read them

requestVars == <<pc, call, hours, awaiting, foundBlocks, foundBookings,
                 answer, sawBlocks, sawBookings>>

Phases == {"idle", "business", "service", "hours", "overlaps", "insert",
           "enqueue", "done"}

Refusals == {"business_not_found", "own_business", "service_not_found",
             "closed", "outside_hours", "blocked", "reserved", "error"}
Answers == Refusals \cup {"none", "created"}

BookingsInit ==
  /\ pc = [r \in BookingRequests |-> "idle"]
  /\ call = [r \in BookingRequests |-> NoCall]
  /\ hours = [r \in BookingRequests |-> NoHours]
  /\ awaiting = [r \in BookingRequests |-> {}]
  /\ foundBlocks = [r \in BookingRequests |-> {}]
  /\ foundBookings = [r \in BookingRequests |-> {}]
  /\ answer = [r \in BookingRequests |-> "none"]
  /\ sawBlocks = [r \in BookingRequests |-> {}]
  /\ sawBookings = [r \in BookingRequests |-> {}]

-----------------------------------------------------------------------------
Goto(r, phase) ==
  /\ pc' = [pc EXCEPT ![r] = phase]
  /\ UNCHANGED answer

Finish(r, result) ==
  /\ pc' = [pc EXCEPT ![r] = "done"]
  /\ answer' = [answer EXCEPT ![r] = result]

ReadsUnchanged == UNCHANGED <<hours, awaiting, foundBlocks, foundBookings,
                              sawBlocks, sawBookings>>

\* buildBookingWindow: the instants [Start(r), End(r)) the booking takes.
Start(r) == call[r].start
End(r)   == call[r].start + Duration[call[r].service]

\* The request has passed authentication and its body is well formed.
StartCreate(r, c) ==
  /\ pc[r] = "idle"
  /\ call' = [call EXCEPT ![r] = c]
  /\ Goto(r, "business")
  /\ ReadsUnchanged
  /\ UNCHANGED <<dbVars, jobVars>>

ValidateBusiness(r) ==
  /\ pc[r] = "business"
  /\ IF call[r].business \notin Businesses
       THEN Finish(r, "business_not_found")
     ELSE IF Owner[call[r].business] = call[r].user
       THEN Finish(r, "own_business")
     ELSE Goto(r, "service")
  /\ ReadsUnchanged
  /\ UNCHANGED <<call, dbVars, jobVars>>

ValidateService(r) ==
  /\ pc[r] = "service"
  /\ LET s == call[r].service
     IN  IF s \in Services /\ BusinessOf[s] = call[r].business
         THEN Goto(r, "hours")
         ELSE Finish(r, "service_not_found")
  /\ ReadsUnchanged
  /\ UNCHANGED <<call, dbVars, jobVars>>

\* BookingWorkingHoursValidator#validate, run at instant now.  The mutant
\* compares the start of the booking, not its end, with the closing time.
StartsInsideHours(r, h, now) ==
  /\ AtMinute(call[r].business, Start(r), h.close, now) >= Start(r)
  /\ AtMinute(call[r].business, Start(r), h.open, now) <= Start(r)

InsideHours(r, h, now) ==
  /\ AtMinute(call[r].business, Start(r), h.close, now) >= End(r)
  /\ AtMinute(call[r].business, Start(r), h.open, now) <= Start(r)

\* getWorkingHours and the validator; then Promise.all sends both reads.
GetWorkingHours(r, now) ==
  /\ pc[r] = "hours"
  /\ LET b    == call[r].business
         rows == HoursOn(b, Weekday(b, Start(r)))
     IN  \/ /\ rows = {}
            /\ Finish(r, "closed")
            /\ UNCHANGED <<hours, awaiting>>
         \/ \E h \in rows :
              /\ hours' = [hours EXCEPT ![r] = h]
              /\ IF InsideHours(r, h, now)
                 THEN /\ Goto(r, "overlaps")
                      /\ awaiting' = [awaiting EXCEPT
                                        ![r] = {"blocks", "bookings"}]
                 ELSE Finish(r, "outside_hours") /\ UNCHANGED awaiting
  /\ UNCHANGED <<call, foundBlocks, foundBookings, sawBlocks, sawBookings,
                 dbVars, jobVars>>

\* The two queries of getOverlaps answer in either order.
ReadBlocks(r) ==
  /\ pc[r] = "overlaps"
  /\ "blocks" \in awaiting[r]
  /\ awaiting' = [awaiting EXCEPT ![r] = @ \ {"blocks"}]
  /\ foundBlocks' = [foundBlocks EXCEPT
                       ![r] = Ids(OverlappingBlocks(Start(r), End(r)))]
  /\ sawBlocks' = [sawBlocks EXCEPT ![r] = Ids(blocks)]
  /\ UNCHANGED <<pc, call, hours, foundBookings, answer, sawBookings,
                 dbVars, jobVars>>

ReadBookings(r) ==
  /\ pc[r] = "overlaps"
  /\ "bookings" \in awaiting[r]
  /\ awaiting' = [awaiting EXCEPT ![r] = @ \ {"bookings"}]
  /\ foundBookings' = [foundBookings EXCEPT
                         ![r] = Ids(OverlappingBookings(Start(r), End(r)))]
  /\ sawBookings' = [sawBookings EXCEPT ![r] = Ids(bookings)]
  /\ UNCHANGED <<pc, call, hours, foundBlocks, answer, sawBlocks,
                 dbVars, jobVars>>

\* BookingAvailabilityService#validate, with what both reads returned.  The
\* first mutant looks at the blocks only, the second goes on only when there
\* is a conflict to report.
CheckBlocksOnly(r) ==
  /\ pc[r] = "overlaps"
  /\ awaiting[r] = {}
  /\ IF foundBlocks[r] # {} THEN Finish(r, "blocked") ELSE Goto(r, "insert")
  /\ ReadsUnchanged
  /\ UNCHANGED <<call, dbVars, jobVars>>

CheckConflicts(r) ==
  /\ pc[r] = "overlaps"
  /\ awaiting[r] = {}
  /\ foundBlocks[r] \cup foundBookings[r] # {}
  /\ Finish(r, IF foundBlocks[r] # {} THEN "blocked" ELSE "reserved")
  /\ ReadsUnchanged
  /\ UNCHANGED <<call, dbVars, jobVars>>

CheckReserved(r) ==
  /\ pc[r] = "overlaps"
  /\ awaiting[r] = {}
  /\ IF foundBlocks[r] # {} THEN Finish(r, "blocked")
     ELSE IF foundBookings[r] # {} THEN Finish(r, "reserved")
     ELSE Goto(r, "insert")
  /\ ReadsUnchanged
  /\ UNCHANGED <<call, dbVars, jobVars>>

Row(r) == [id |-> r, user |-> call[r].user, business |-> call[r].business,
           service |-> call[r].service, start |-> Start(r), end |-> End(r)]

\* createBookingRecord: the transaction's only statement is the insert, so
\* there is nothing for the serializable level to detect.
CreateBookingRecord(r) ==
  /\ pc[r] = "insert"
  /\ bookings' = bookings \cup {Row(r)}
  /\ Goto(r, "enqueue")
  /\ ReadsUnchanged
  /\ UNCHANGED <<call, blocks, workingHours, jobVars>>

\* The transaction commits but its acknowledgement is lost: the handler
\* fails with the row in the table.
LoseCommit(r) ==
  /\ pc[r] = "insert"
  /\ bookings' = bookings \cup {Row(r)}
  /\ Finish(r, "error")
  /\ ReadsUnchanged
  /\ UNCHANGED <<call, blocks, workingHours, jobVars>>

\* enqueueBookingCreated and the return of the handler.  The mutant forgets
\* the job.
ReturnOnly(r) ==
  /\ pc[r] = "enqueue"
  /\ Finish(r, "created")
  /\ ReadsUnchanged
  /\ UNCHANGED <<call, dbVars, jobVars>>

EnqueueBookingCreated(r) ==
  /\ pc[r] = "enqueue"
  /\ \E n \in Copies : AddJob(r, n)
  /\ Finish(r, "created")
  /\ ReadsUnchanged
  /\ UNCHANGED <<call, dbVars>>

\* Redis adds the job but its answer is lost with the connection.  The
\* handler still waits: ioredis sends the add again, or rejects it (Fail).
LoseReply(r) ==
  /\ pc[r] = "enqueue"
  /\ \E n \in 1 .. MaxAdds - 1 : AddJob(r, n)
  /\ ReadsUnchanged
  /\ UNCHANGED <<pc, call, answer, dbVars>>

\* A query, the transaction or queue.add is rejected: create() does not
\* catch, and the exception filter answers.  The row and the jobs, if any,
\* stay.
Fail(r) ==
  /\ pc[r] \notin {"idle", "done"}
  /\ pc[r] = "overlaps" => awaiting[r] # {}
  /\ Finish(r, "error")
  /\ ReadsUnchanged
  /\ UNCHANGED <<call, dbVars, jobVars>>

\* What the handler does by itself when nothing fails; and when it may.
BookingMove(r) ==
  \/ ValidateBusiness(r)
  \/ ValidateService(r)
  \/ \E now \in Instants : GetWorkingHours(r, now)
  \/ ReadBlocks(r)
  \/ ReadBookings(r)
  \/ CheckReserved(r)
  \/ CreateBookingRecord(r)
  \/ LoseCommit(r)
  \/ EnqueueBookingCreated(r)

BookingStep(r) == BookingMove(r) \/ Fail(r)
=============================================================================
