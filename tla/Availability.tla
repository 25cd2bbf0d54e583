---------------------------- MODULE Availability ----------------------------
(***************************************************************************)
(* ServicesService#getAvailability: the handler of                         *)
(* GET /businesses/:id/services/:serviceId/availability, beside the        *)
(* handlers that change what it reads.  It offers the starts of a day at   *)
(* which a booking would fit; the client books one with a later request,   *)
(* whose checks are made by other code (BookingWorkingHoursValidator and   *)
(* BookingAvailabilityService) on tables that may have changed.            *)
(*                                                                         *)
(*   idle -> business -> service -> hours -> overlaps -> done              *)
(***************************************************************************)
EXTENDS Scheduling

CONSTANTS SlotRequests,
          SlotCalls,      \* [business, service, at]
          NoSlotCall,
          BadDate         \* a date that passes the DTO and is none to Luxon

\* at is an instant of the day asked for: the query's date, read on the
\* clock of the business.
ASSUME SlotCallsAssumption ==
  /\ \A c \in SlotCalls :
       c \in [business : {c.business}, service : {c.service},
             at : Int \cup {BadDate}]
  /\ NoSlotCall \notin SlotCalls
  /\ BadDate \notin Int

VARIABLES
  spc, scall, sanswer,   \* as pc, call and answer
  shours,                \* shours[q]: the row of working hours it found
  opening,               \* opening[q]: [open, close], two instants
  sawaiting,             \* sawaiting[q]: the reads still pending
  busyBlocks,            \* busyBlocks[q]: the blocks between them
  busyBookings,          \* busyBookings[q]: the bookings between them
  slots,                 \* slots[q]: the starts that were offered
  offeredBlocks,         \* auxiliary: ids of all the blocks when q read them
  offeredBookings,       \* auxiliary: ids of all the bookings then
  early                  \* auxiliary: the bookings requested before the offer

slotVars == <<spc, scall, sanswer, shours, opening, sawaiting, busyBlocks,
              busyBookings, slots, offeredBlocks, offeredBookings, early>>

SlotPhases  == {"idle", "business", "service", "hours", "overlaps", "done"}
SlotAnswers == {"none", "offered", "business_not_found", "service_not_found",
                "bad_request", "error"}

Closed == [open |-> 0, close |-> 0]

SlotsInit ==
  /\ spc = [q \in SlotRequests |-> "idle"]
  /\ scall = [q \in SlotRequests |-> NoSlotCall]
  /\ sanswer = [q \in SlotRequests |-> "none"]
  /\ shours = [q \in SlotRequests |-> NoHours]
  /\ opening = [q \in SlotRequests |-> Closed]
  /\ sawaiting = [q \in SlotRequests |-> {}]
  /\ busyBlocks = [q \in SlotRequests |-> {}]
  /\ busyBookings = [q \in SlotRequests |-> {}]
  /\ slots = [q \in SlotRequests |-> {}]
  /\ offeredBlocks = [q \in SlotRequests |-> {}]
  /\ offeredBookings = [q \in SlotRequests |-> {}]
  /\ early = [q \in SlotRequests |-> {}]

-----------------------------------------------------------------------------
GotoSlots(q, phase) ==
  /\ spc' = [spc EXCEPT ![q] = phase]
  /\ UNCHANGED <<sanswer, slots, early>>

\* The answer, and who had asked for a booking by then.
FinishSlots(q, result, starts) ==
  /\ spc' = [spc EXCEPT ![q] = "done"]
  /\ sanswer' = [sanswer EXCEPT ![q] = result]
  /\ slots' = [slots EXCEPT ![q] = starts]
  /\ early' = [early EXCEPT ![q] = {r \in BookingRequests : pc[r] # "idle"}]

SlotReadsUnchanged ==
  UNCHANGED <<shours, opening, sawaiting, busyBlocks, busyBookings,
              offeredBlocks, offeredBookings>>

StartSlots(q, c) ==
  /\ spc[q] = "idle"
  /\ scall' = [scall EXCEPT ![q] = c]
  /\ GotoSlots(q, "business")
  /\ SlotReadsUnchanged

FindBusiness(q) ==
  /\ spc[q] = "business"
  /\ IF scall[q].business \in Businesses
     THEN GotoSlots(q, "service")
     ELSE FinishSlots(q, "business_not_found", {})
  /\ SlotReadsUnchanged
  /\ UNCHANGED scall

FindService(q) ==
  /\ spc[q] = "service"
  /\ LET s == scall[q].service
     IN  IF ~(s \in Services /\ BusinessOf[s] = scall[q].business)
           THEN FinishSlots(q, "service_not_found", {})
         ELSE IF scall[q].at = BadDate THEN FinishSlots(q, "bad_request", {})
         ELSE GotoSlots(q, "hours")
  /\ SlotReadsUnchanged
  /\ UNCHANGED scall

\* openAt and closeAt of row h on the day asked for, resolved at instant now.
Opening(q, h, now) ==
  LET b == scall[q].business
      t == scall[q].at
  IN  [open |-> AtMinute(b, t, h.open, now),
       close |-> AtMinute(b, t, h.close, now)]

\* The weekday's row, if there is one; then, if the service fits between
\* opening and closing, Promise.all sends both reads.
FindHours(q, now) ==
  /\ spc[q] = "hours"
  /\ LET b    == scall[q].business
         rows == HoursOn(b, Weekday(b, scall[q].at))
     IN  \/ /\ rows = {}
            /\ FinishSlots(q, "offered", {})
            /\ UNCHANGED <<shours, opening, sawaiting>>
         \/ \E h \in rows :
              LET o == Opening(q, h, now)
              IN  /\ shours' = [shours EXCEPT ![q] = h]
                  /\ opening' = [opening EXCEPT ![q] = o]
                  /\ IF o.close - Duration[scall[q].service] < o.open
                     THEN FinishSlots(q, "offered", {}) /\ UNCHANGED sawaiting
                     ELSE /\ GotoSlots(q, "overlaps")
                          /\ sawaiting' = [sawaiting EXCEPT
                                             ![q] = {"blocks", "bookings"}]
  /\ UNCHANGED <<scall, busyBlocks, busyBookings, offeredBlocks,
                 offeredBookings>>

\* getOverlaps of the whole opening time, whose queries answer in any order.
ReadBusyBlocks(q) ==
  /\ spc[q] = "overlaps"
  /\ "blocks" \in sawaiting[q]
  /\ sawaiting' = [sawaiting EXCEPT ![q] = @ \ {"blocks"}]
  /\ busyBlocks' = [busyBlocks EXCEPT
       ![q] = OverlappingBlocks(opening[q].open, opening[q].close)]
  /\ offeredBlocks' = [offeredBlocks EXCEPT ![q] = Ids(blocks)]
  /\ UNCHANGED <<spc, scall, sanswer, slots, early, shours, opening,
                 busyBookings, offeredBookings>>

ReadBusyBookings(q) ==
  /\ spc[q] = "overlaps"
  /\ "bookings" \in sawaiting[q]
  /\ sawaiting' = [sawaiting EXCEPT ![q] = @ \ {"bookings"}]
  /\ busyBookings' = [busyBookings EXCEPT
       ![q] = OverlappingBookings(opening[q].open, opening[q].close)]
  /\ offeredBookings' = [offeredBookings EXCEPT ![q] = Ids(bookings)]
  /\ UNCHANGED <<spc, scall, sanswer, slots, early, shours, opening,
                 busyBlocks, offeredBlocks>>

\* generateCandidates: every tick at which the service fits and meets
\* nothing.  Of the mutants, one looks at the blocks only, one stops short
\* of the last start.
Candidates(q, busy, last) ==
  LET d == Duration[scall[q].service]
  IN  {t \in opening[q].open .. (opening[q].close - d - last) :
         \A x \in busy : ~Overlaps(x, t, t + d)}

GenerateUnblocked(q) == Candidates(q, busyBlocks[q], 0)
GenerateButLast(q)   == Candidates(q, busyBlocks[q] \cup busyBookings[q], 1)

GenerateCandidates(q) == Candidates(q, busyBlocks[q] \cup busyBookings[q], 0)

OfferSlots(q) ==
  /\ spc[q] = "overlaps"
  /\ sawaiting[q] = {}
  /\ FinishSlots(q, "offered", GenerateCandidates(q))
  /\ SlotReadsUnchanged
  /\ UNCHANGED scall

\* A query is rejected.
FailSlots(q) ==
  /\ spc[q] \notin {"idle", "done"}
  /\ spc[q] = "overlaps" => sawaiting[q] # {}
  /\ FinishSlots(q, "error", {})
  /\ SlotReadsUnchanged
  /\ UNCHANGED scall

SlotStep(q) ==
  \/ FindBusiness(q)
  \/ FindService(q)
  \/ \E now \in Instants : FindHours(q, now)
  \/ ReadBusyBlocks(q)
  \/ ReadBusyBookings(q)
  \/ OfferSlots(q)
  \/ FailSlots(q)

AvailabilityInit == Init /\ SlotsInit

SlotNext(q) ==
  /\ (\E c \in SlotCalls : StartSlots(q, c)) \/ SlotStep(q)
  /\ UNCHANGED vars

AvailabilityNext ==
  \/ Next /\ UNCHANGED slotVars
  \/ \E q \in SlotRequests : SlotNext(q)

AvailabilitySpec ==
  AvailabilityInit /\ [][AvailabilityNext]_<<vars, slotVars>>

-----------------------------------------------------------------------------
\* r asks for one of the starts that q was offered, after the offer.
Takes(r, q) ==
  /\ spc[q] = "done"
  /\ r \notin early[q]
  /\ call[r] # NoCall
  /\ call[r].business = scall[q].business
  /\ call[r].service = scall[q].service

\* The hours q found have one opening and one closing instant that day.
ClearOffer(q) == ClearHours(scall[q].business, scall[q].at, shours[q])

\* An offered start is one that create() accepts, unless something changed
\* since: it is refused only for a block or a booking that is newer than the
\* offer, for other working hours, or because the client owns the business.
\* Two pieces of code, on two sets of reads, must agree on every boundary.
OfferedIsBookable ==
  \A q \in SlotRequests, r \in BookingRequests :
    Takes(r, q) /\ Start(r) \in slots[q] =>
      /\ answer[r] \notin {"business_not_found", "service_not_found"}
      /\ answer[r] = "blocked" => ~(sawBlocks[r] \subseteq offeredBlocks[q])
      /\ answer[r] = "reserved" =>
           ~(sawBookings[r] \subseteq offeredBookings[q])
      /\ ClearOffer(q) =>
           /\ answer[r] = "outside_hours" => hours[r] # shours[q]
           /\ answer[r] = "closed" => shours[q] \notin workingHours

\* And the other way: a start that create() accepted on the day of an offer
\* was offered, unless what stood in its way then has gone since.  Bookings
\* never go, so only a deleted block or other working hours explain it.
BookableIsOffered ==
  \A q \in SlotRequests, r \in BookingRequests :
    /\ Takes(r, q)
    /\ sanswer[q] = "offered"
    /\ r \in Ids(bookings)
    /\ hours[r] = shours[q]
    /\ ClearOffer(q)
    /\ Day(Wall(call[r].business, Start(r)))
         = Day(Wall(call[r].business, scall[q].at))
    /\ offeredBlocks[q] \subseteq sawBlocks[r]
    => Start(r) \in slots[q]

\* Every offer lies, tick by tick on the business's clock, inside the hours
\* it was computed from, on days when that clock moves as well.
OffersInsideHours ==
  \A q \in SlotRequests : \A t \in slots[q] :
    ClearOffer(q) =>
      WithinHours([business |-> scall[q].business, start |-> t,
                   end |-> t + Duration[scall[q].service]], shours[q])
=============================================================================
