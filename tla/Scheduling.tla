----------------------------- MODULE Scheduling -----------------------------
(***************************************************************************)
(* The handlers that meet in the database: bookings, availability blocks   *)
(* and weekly schedules, any number of each in flight at once.  The worker *)
(* of the notification queue reads and writes none of these tables and is  *)
(* left to BookingApi; here a job is only added.                           *)
(***************************************************************************)
EXTENDS Bookings, AvailabilityBlocks, WeeklySchedule

ASSUME RequestsAssumption ==
  /\ BookingRequests \cap (BlockRequests \cup DeleteRequests
                            \cup ScheduleRequests) = {}
  /\ BlockRequests \cap (DeleteRequests \cup ScheduleRequests) = {}
  /\ DeleteRequests \cap ScheduleRequests = {}

\* A row of working hours is the first week's or some schedule's, never both,
\* and no row stands for the absence of one.
ASSUME HoursAssumption ==
  /\ NoHours \notin AllHours
  /\ \A h \in InitialHours : h.by \notin ScheduleRequests

vars == <<dbVars, jobVars, requestVars, blockVars, scheduleVars>>

Init ==
  /\ DatabaseInit
  /\ NotificationsInit
  /\ BookingsInit
  /\ BlocksInit
  /\ ScheduleInit

BookingNext(r) ==
  /\ \/ \E c \in Calls : StartCreate(r, c)
     \/ BookingStep(r)
     \/ LoseReply(r)
  /\ UNCHANGED <<blockVars, scheduleVars>>

BlockNext(r) ==
  /\ (\E c \in BlockCalls : StartBlock(r, c)) \/ BlockStep(r)
  /\ UNCHANGED <<jobVars, requestVars, scheduleVars>>

DeleteNext(r) ==
  /\ (\E c \in DeleteCalls : StartDelete(r, c)) \/ DeleteStep(r)
  /\ UNCHANGED <<jobVars, requestVars, scheduleVars>>

ScheduleNext(w) ==
  /\ (\E c \in ScheduleCalls : StartSchedule(w, c)) \/ ScheduleStep(w)
  /\ UNCHANGED <<jobVars, requestVars, blockVars>>

Next ==
  \/ \E r \in BookingRequests : BookingNext(r)
  \/ \E r \in BlockRequests : BlockNext(r)
  \/ \E r \in DeleteRequests : DeleteNext(r)
  \/ \E w \in ScheduleRequests : ScheduleNext(w)

Spec == Init /\ [][Next]_vars

\* Every query is answered (each transaction has a timeout of 10 seconds) and
\* the event loop runs each continuation it was handed.  Nothing has to fail.
Fairness ==
  /\ \A r \in BookingRequests :
       WF_vars(BookingMove(r) /\ UNCHANGED <<blockVars, scheduleVars>>)
  /\ \A r \in BlockRequests :
       WF_vars(BlockMove(r)
                 /\ UNCHANGED <<jobVars, requestVars, scheduleVars>>)
  /\ \A r \in DeleteRequests :
       WF_vars(DeleteMove(r)
                 /\ UNCHANGED <<jobVars, requestVars, scheduleVars>>)
  /\ \A w \in ScheduleRequests :
       WF_vars(ScheduleMove(w)
                 /\ UNCHANGED <<jobVars, requestVars, blockVars>>)

FairSpec == Spec /\ Fairness

\* The same handlers when requests arrive one at a time: none starts while
\* another is in flight.
InFlight ==
  {r \in BookingRequests : pc[r] \notin {"idle", "done"}}
    \cup {r \in BlockRequests : bpc[r] \notin {"idle", "done"}}
    \cup {r \in DeleteRequests : dpc[r] \notin {"idle", "done"}}
    \cup {w \in ScheduleRequests : wpc[w] \notin {"idle", "done"}}

OneAtATime == InFlight = {} \/ InFlight' \subseteq InFlight

SerialSpec == Init /\ [][Next /\ OneAtATime]_vars

-----------------------------------------------------------------------------
(***************************************************************************)
(* Types.                                                                  *)
(***************************************************************************)

BookingRows == [id : BookingRequests, user : Users, business : Businesses,
                service : Services, start : Int, end : Int]
BlockRows   == [id : BlockRequests, business : Businesses,
                start : Int, end : Int]

DatabaseTypeOK ==
  /\ bookings \subseteq BookingRows
  /\ blocks \subseteq BlockRows
  /\ workingHours \subseteq {h \in AllHours : h.business \in Businesses}

BookingsTypeOK ==
  /\ pc \in [BookingRequests -> Phases]
  /\ call \in [BookingRequests -> Calls \cup {NoCall}]
  /\ hours \in [BookingRequests -> AllHours \cup {NoHours}]
  /\ awaiting \in [BookingRequests -> SUBSET {"blocks", "bookings"}]
  /\ foundBlocks \in [BookingRequests -> SUBSET BlockRequests]
  /\ foundBookings \in [BookingRequests -> SUBSET BookingRequests]
  /\ answer \in [BookingRequests -> Answers]
  /\ sawBlocks \in [BookingRequests -> SUBSET BlockRequests]
  /\ sawBookings \in [BookingRequests -> SUBSET BookingRequests]

\* Every variable has the values its declaration says: in particular every
\* row of the three tables belongs to a business that exists, whatever ids
\* the request bodies carried.
TypeOK ==
  /\ DatabaseTypeOK
  /\ NotificationsTypeOK
  /\ BookingsTypeOK
  /\ BlocksTypeOK
  /\ ScheduleTypeOK

-----------------------------------------------------------------------------
(***************************************************************************)
(* What holds however the handlers interleave.                             *)
(***************************************************************************)

\* Two rows share an instant, one of them a booking or both blocks.
Meet(x, y) == Overlaps(x, y.start, y.end)

\* A double booking needs a race: if two bookings overlap, each was inserted
\* after the other had read the table, so neither's check saw the other.  A
\* booking never overlaps a block that its own check could see.
OverlapNeedsRace ==
  \A x \in bookings :
    /\ \A y \in bookings :
         x.id # y.id /\ Meet(x, y) => y.id \notin sawBookings[x.id]
    /\ \A y \in blocks : Meet(x, y) => y.id \notin sawBlocks[x.id]

\* The same for blocks, within a business.
BlockOverlapNeedsRace ==
  \A x, y \in blocks :
    x.id # y.id /\ x.business = y.business /\ Meet(x, y)
      => y.id \notin bsaw[x.id]

\* The tick-by-tick meaning of working hours: at every instant of the
\* booking the business's wall clock shows the day h is about, the day the
\* booking began, and a minute between opening and closing.
WithinHours(x, h) ==
  /\ h.business = x.business
  /\ \A t \in x.start .. (x.end - 1) :
       LET wall == Wall(x.business, t)
       IN  /\ Day(wall) = Day(Wall(x.business, x.start))
           /\ Day(wall) % 7 = h.day
           /\ h.open <= Minute(wall) /\ Minute(wall) < h.close

\* On the day of instant t the clock of business b comes to the opening and
\* to the closing minute of row h once.
ClearHours(b, t, h) ==
  LET midnight == Day(Wall(b, t)) * DayLength
  IN  ComesOnce(b, midnight + h.open) /\ ComesOnce(b, midnight + h.close)

\* A booking in the table lies inside the working hours it was checked
\* against, on the clock of the business, through its whole length, also when
\* that clock moves during the hours.  (A clock that repeats the opening or
\* the closing minute, or skips what comes before it, leaves no such hours.)
InsideCheckedHours ==
  \A x \in bookings :
    ClearHours(x.business, x.start, hours[x.id]) => WithinHours(x, hours[x.id])

\* A business's week is always one request's week (or the first one): two
\* concurrent PUTs never leave a mixture of their days.
ScheduleIsOneRequest ==
  \A b \in Businesses :
    \/ HoursOf(b) = {h \in InitialHours : h.business = b}
    \/ \E w \in ScheduleRequests :
         /\ wcall[w] # NoScheduleCall
         /\ ~wcall[w].broken
         /\ HoursOf(b) = RowsOf(w, wcall[w])
         /\ wcall[w].business = b

\* What the client is told is true, errors apart: a refused request booked
\* nothing, and one told "created" has its row and a job.  A job is only ever
\* there for a booking that was committed.
AnswersAreTrue ==
  \A r \in BookingRequests :
    /\ answer[r] \in Refusals \ {"error"} => r \notin Ids(bookings)
    /\ answer[r] = "created" => /\ r \in Ids(bookings)
                                /\ \E j \in JobsOf(r) : job[j] # "none"
    /\ \A j \in JobsOf(r) : job[j] # "none" => r \in Ids(bookings)

\* If a step changes the blocks or the hours of business b, it is a write of
\* a request that the owner of b sent.
OwnerWrites(b) ==
  /\ {x \in blocks : x.business = b} # {x \in blocks : x.business = b}'
       => \/ \E r \in BlockRequests : /\ bpc[r] = "insert"
                                      /\ bcall[r].user = Owner[b]
                                      /\ bpc'[r] = "done"
          \/ \E r \in DeleteRequests : /\ dpc[r] = "delete"
                                       /\ dcall[r].user = Owner[b]
                                       /\ dpc'[r] = "done"
  /\ HoursOf(b) # HoursOf(b)'
       => \E w \in ScheduleRequests : /\ wpc[w] = "commit"
                                      /\ wcall[w].user = Owner[b]
                                      /\ wpc'[w] = "done"

\* Only the owner of a business changes its blocks and its hours, however
\* long after the guard's verdict the write comes.
OwnersOnly == [][\A b \in Businesses : OwnerWrites(b)]_vars

\* Every request that arrives is answered, with or without a failure: also
\* one whose rows another request took, or whose week another replaced.
RequestsSettle ==
  /\ \A r \in BookingRequests : pc[r] # "idle" ~> pc[r] = "done"
  /\ \A r \in BlockRequests : bpc[r] # "idle" ~> bpc[r] = "done"
  /\ \A r \in DeleteRequests : dpc[r] # "idle" ~> dpc[r] = "done"
  /\ \A w \in ScheduleRequests : wpc[w] # "idle" ~> wpc[w] = "done"

-----------------------------------------------------------------------------
(***************************************************************************)
(* What holds when requests arrive one at a time, and what the documents   *)
(* promise of every arrival order.                                         *)
(***************************************************************************)

Led == INSTANCE Ledger WITH ledger <- bookings

\* Bookings of one business do not overlap: README, Booking Engine, "No
\* overlap", and docs/mvp.md, "concurrent requests cannot create conflicting
\* bookings".  It holds of one request at a time.
NoDoubleBooking ==
  \A x, y \in bookings : x.id # y.id => ~Led!Clash(x, y)

\* Blocks of one business do not overlap: the validator's "Blocks are
\* overlapping on this time-span".
BlocksDisjoint ==
  \A x, y \in blocks :
    x.id # y.id /\ x.business = y.business => ~Meet(x, y)

\* One at a time, the engine is a ledger: each step confirms one booking in
\* time nobody holds, or changes no booking.
LedgerSpec == Led!Spec

\* A booking is refused for a conflict only when its own business has a
\* booking then: the documents state the rule per business.
RefusedForOwnBusiness ==
  \A r \in BookingRequests :
    answer[r] = "reserved" =>
      \E x \in bookings : /\ x.business = call[r].business
                          /\ Overlaps(x, Start(r), End(r))

\* A booking is confirmed inside the schedule its business has then.
ConfirmedInsideSchedule ==
  [][\A x \in bookings' \ bookings :
       \E h \in HoursOn(x.business, Weekday(x.business, x.start)) :
         ClearHours(x.business, x.start, h) => WithinHours(x, h)]_vars

\* A block lies inside the hours of the weekday it falls on.
BlocksInsideHours ==
  \A x \in blocks : \E h \in workingHours : WithinHours(x, h)
=============================================================================
