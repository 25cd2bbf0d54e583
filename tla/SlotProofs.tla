------------------------------ MODULE SlotProofs ------------------------------
(***************************************************************************)
(* Working hours on a clock that moves, and slots: a booking lies inside   *)
(* the hours it was checked against, an offered start is one that can be   *)
(* booked, and the other way round.                                        *)
(***************************************************************************)
EXTENDS Availability, SerialProofs

\* The zones of the businesses are ordinary: no clock is more than a day from
\* UTC, and around any one moment it is moved at most once, between offsets of
\* which one is the offset it has while a handler runs.
ZonesAreOrdinary ==
  \A b \in Businesses, t \in Int :
    /\ UtcOffset(b, t) \in Offsets
    /\ \A now \in Instants : OneShift(b, t, UtcOffset(b, now))

-----------------------------------------------------------------------------
(***************************************************************************)
(* Luxon's clock.                                                          *)
(***************************************************************************)

LEMMA WallIsInt ==
  ASSUME ZonesAreOrdinary, NEW b \in Businesses, NEW t \in Int
  PROVE  Wall(b, t) \in Int
<1>1. UtcOffset(b, t) \in -DayLength .. DayLength
  BY DEF ZonesAreOrdinary, Offsets
<1>2. QED
  BY <1>1, DayLengthAssumption DEF Wall

\* If b's clock comes to `wall` once, fixOffset finds that moment: before it
\* the clock shows less, from then on it does not.
LEMMA ClockTurns ==
  ASSUME ZonesAreOrdinary, NEW b \in Businesses, NEW wall \in Int,
         NEW now \in Instants, ComesOnce(b, wall)
  PROVE  LET f == FixOffset(b, wall, UtcOffset(b, now))
         IN  /\ f \in Int
             /\ \A t \in Int : t < f <=> Wall(b, t) < wall
<1> DEFINE o == UtcOffset(b, now)
           f == FixOffset(b, wall, o)
<1>1. /\ \A t \in Int : UtcOffset(b, t) \in Offsets
      /\ DayLength \in Nat \ {0}
  BY DayLengthAssumption DEF ZonesAreOrdinary
<1>2. OneShift(b, wall, o)
  BY DEF ZonesAreOrdinary
<1>3. PICK T \in Around(wall), p \in Offsets, n \in Offsets :
        /\ \A t \in Around(wall) : UtcOffset(b, t) = IF t < T THEN p ELSE n
        /\ o \in {p, n}
  BY <1>2 DEF OneShift
<1>4. PICK i \in Around(wall) :
        /\ \A t \in Around(wall) : /\ t < i => Wall(b, t) < wall
                                   /\ t > i => Wall(b, t) > wall
        /\ \/ Wall(b, i) = wall
           \/ Wall(b, i) > wall /\ Wall(b, i - 1) = wall - 1
  BY DEF ComesOnce
<1>5. \A t \in Int : /\ t < i => Wall(b, t) < wall
                     /\ t > i => Wall(b, t) > wall
  <2> SUFFICES ASSUME NEW t \in Int, t \notin Around(wall)
               PROVE  /\ t < i => Wall(b, t) < wall
                      /\ t > i => Wall(b, t) > wall
    BY <1>4
  <2>1. t < wall - DayLength \/ t > wall + DayLength
    BY <1>1 DEF Around
  <2>2. UtcOffset(b, t) \in -DayLength .. DayLength /\ i \in Int
    BY <1>1, <1>4 DEF Offsets, Around
  <2>3. QED
    BY <1>1, <1>4, <2>1, <2>2 DEF Wall, Around
<1>6. f = i
  <2> HIDE DEF o
  <2> DEFINE o2 == UtcOffset(b, wall - o)
             o3 == UtcOffset(b, wall - o2)
  <2>1. /\ T \in Int /\ p \in Int /\ n \in Int /\ i \in Int
        /\ wall - p \in Around(wall) /\ wall - n \in Around(wall)
        /\ o \in Int
    BY <1>1, <1>3, <1>4 DEF Around, Offsets
  <2>2. /\ o2 = IF wall - o < T THEN p ELSE n
        /\ o3 = IF wall - o2 < T THEN p ELSE n
    BY <1>3, <2>1
  <2>3. \A t \in Int : Wall(b, t) = wall => t = i
    BY <1>5, <2>1
  <2>4. CASE o = o2
    BY <2>1, <2>3, <2>4 DEF FixOffset, Wall
  <2>5. CASE o # o2 /\ o2 = o3
    BY <2>1, <2>2, <2>3, <2>5 DEF FixOffset, Wall
  <2>6. CASE o # o2 /\ o2 # o3
    <3>1. /\ p < n
          /\ wall - n < T /\ T <= wall - p
          /\ f = wall - p
      BY <1>3, <2>1, <2>2, <2>6 DEF FixOffset
    <3>2. Wall(b, i) # wall
      BY <1>3, <2>1, <3>1 DEF Wall
    <3>3. Wall(b, i) > wall /\ Wall(b, i - 1) = wall - 1
      BY <1>4, <3>2
    <3>4. i - 1 \in Around(wall)
      BY <1>1, <1>3, <1>4, <2>1, <3>3 DEF Wall, Around, Offsets
    <3>5. i = wall - p
      BY <1>3, <2>1, <3>1, <3>3, <3>4 DEF Wall
    <3>6. QED
      BY <3>1, <3>5
  <2>7. QED
    BY <2>4, <2>5, <2>6
<1>7. Wall(b, i) >= wall
  BY <1>1, <1>3, <1>4 DEF Wall, Around, Offsets
<1>8. \A t \in Int : t < i <=> Wall(b, t) < wall
  <2> TAKE t \in Int
  <2>1. i \in Int /\ Wall(b, t) \in Int
    BY <1>1, <1>4 DEF Wall, Offsets, Around
  <2>2. CASE t = i
    BY <1>7, <2>1, <2>2
  <2>3. CASE t # i
    BY <1>5, <2>1, <2>3
  <2>4. QED
    BY <2>2, <2>3
<1>9. QED
  BY <1>4, <1>6, <1>8 DEF Around

\* The moment at which the handler asks for it makes no difference.
LEMMA ClockAgrees ==
  ASSUME ZonesAreOrdinary, NEW b \in Businesses, NEW wall \in Int,
         NEW now \in Instants, NEW then \in Instants, ComesOnce(b, wall)
  PROVE  FixOffset(b, wall, UtcOffset(b, now))
           = FixOffset(b, wall, UtcOffset(b, then))
<1> DEFINE f(t) == FixOffset(b, wall, UtcOffset(b, t))
<1>1. /\ f(now) \in Int /\ f(then) \in Int
      /\ \A t \in Int : t < f(now) <=> t < f(then)
  BY ClockTurns
<1> HIDE DEF f
<1>2. f(now) = f(then)
  <2>1. f(now) < f(then) => FALSE
    BY <1>1
  <2>2. f(then) < f(now) => FALSE
    BY <1>1
  <2>3. QED
    BY <1>1, <2>1, <2>2
<1>3. QED
  BY <1>2 DEF f

-----------------------------------------------------------------------------
(***************************************************************************)
(* Days.                                                                   *)
(***************************************************************************)

\* A wall clock that is past the midnight of day d and short of the next one
\* shows day d and the minutes gone since.
LEMMA DayAndMinute ==
  ASSUME NEW w \in Int, NEW d \in Int,
         d * DayLength <= w, w < d * DayLength + DayLength
  PROVE  Day(w) = d /\ Minute(w) = w - d * DayLength
<1> DEFINE q == w \div DayLength
           m == w % DayLength
<1>1. DayLength \in Nat \ {0}
  BY DayLengthAssumption
<1>2. /\ q \in Int /\ m \in 0 .. DayLength - 1
      /\ w = DayLength * q + m
  BY <1>1
<1> HIDE DEF q, m
<1>3. q = d
  <2>1. DayLength * (q - d) < DayLength /\ DayLength * (d - q) < DayLength
    BY <1>1, <1>2
  <2>2. q - d < 1 /\ d - q < 1
    BY <1>1, <1>2, <2>1
  <2>3. QED
    BY <1>2, <2>2
<1>4. QED
  BY <1>1, <1>2, <1>3 DEF Day, Minute, q, m

\* A wall clock shows a minute of a day.
LEMMA MidnightBefore ==
  ASSUME NEW w \in Int
  PROVE  /\ Day(w) \in Int
         /\ Day(w) * DayLength <= w
         /\ w < Day(w) * DayLength + DayLength
<1> DEFINE q == w \div DayLength
           m == w % DayLength
<1>1. DayLength \in Nat \ {0}
  BY DayLengthAssumption
<1>2. /\ q \in Int /\ m \in 0 .. DayLength - 1
      /\ w = DayLength * q + m
  BY <1>1
<1> HIDE DEF q, m
<1>3. q * DayLength <= w /\ w < q * DayLength + DayLength
  BY <1>1, <1>2
<1>4. QED
  BY <1>2, <1>3 DEF Day, q

(***************************************************************************)
(* What the clear hours of a day contain.                                  *)
(***************************************************************************)

\* Between opening and closing, resolved at any two moments, the clock shows
\* that day and a minute between the two.
LEMMA ClearDay ==
  ASSUME ZonesAreOrdinary, NEW b \in Businesses, NEW t \in Int,
         NEW now \in Instants, NEW h,
         h.open \in 0 .. DayLength - 1, h.close \in 0 .. DayLength - 1,
         ClearHours(b, t, h),
         NEW u \in Int,
         AtMinute(b, t, h.open, now) <= u, u < AtMinute(b, t, h.close, now)
  PROVE  /\ Day(Wall(b, u)) = Day(Wall(b, t))
         /\ h.open <= Minute(Wall(b, u)) /\ Minute(Wall(b, u)) < h.close
<1> DEFINE d == Day(Wall(b, t))
           w == Wall(b, u)
           o == UtcOffset(b, now)
<1>1. DayLength \in Nat \ {0}
  BY DayLengthAssumption
<1>2. Wall(b, t) \in Int /\ w \in Int
  BY WallIsInt
<1>3. d \in Int
  BY <1>2, MidnightBefore
<1> HIDE DEF d, w
<1>4. d * DayLength + h.open \in Int /\ d * DayLength + h.close \in Int
  BY <1>1, <1>3
<1>5. /\ ComesOnce(b, d * DayLength + h.open)
      /\ ComesOnce(b, d * DayLength + h.close)
  BY DEF ClearHours, d
<1>6. /\ FixOffset(b, d * DayLength + h.open, o) <= u
      /\ u < FixOffset(b, d * DayLength + h.close, o)
  BY DEF AtMinute, d
<1>7. ~(w < d * DayLength + h.open) /\ w < d * DayLength + h.close
  BY <1>4, <1>5, <1>6, ClockTurns DEF w
<1>8. d * DayLength <= w /\ w < d * DayLength + DayLength
  BY <1>1, <1>2, <1>3, <1>4, <1>7
<1>9. Day(w) = d /\ Minute(w) = w - d * DayLength
  BY <1>2, <1>3, <1>8, DayAndMinute
<1>10. QED
  BY <1>1, <1>2, <1>3, <1>4, <1>7, <1>9 DEF w, d

\* Opening and closing are the same two instants for every handler that asks
\* on that day.
LEMMA ClearInstants ==
  ASSUME ZonesAreOrdinary, NEW b \in Businesses, NEW t \in Int, NEW u \in Int,
         Day(Wall(b, u)) = Day(Wall(b, t)),
         NEW now \in Instants, NEW then \in Instants, NEW h,
         h.open \in 0 .. DayLength - 1, h.close \in 0 .. DayLength - 1,
         ClearHours(b, t, h)
  PROVE  /\ AtMinute(b, u, h.open, then) = AtMinute(b, t, h.open, now)
         /\ AtMinute(b, u, h.close, then) = AtMinute(b, t, h.close, now)
         /\ AtMinute(b, t, h.open, now) \in Int
         /\ AtMinute(b, t, h.close, now) \in Int
<1> DEFINE d == Day(Wall(b, t))
<1>1. DayLength \in Nat \ {0}
  BY DayLengthAssumption
<1>2. Wall(b, t) \in Int
  BY WallIsInt
<1>3. d \in Int
  BY <1>2, MidnightBefore
<1>4. /\ ComesOnce(b, d * DayLength + h.open)
      /\ ComesOnce(b, d * DayLength + h.close)
  BY DEF ClearHours
<1> HIDE DEF d
<1>5. d * DayLength + h.open \in Int /\ d * DayLength + h.close \in Int
  BY <1>1, <1>3
<1>6. /\ FixOffset(b, d * DayLength + h.open, UtcOffset(b, then))
           = FixOffset(b, d * DayLength + h.open, UtcOffset(b, now))
      /\ FixOffset(b, d * DayLength + h.close, UtcOffset(b, then))
           = FixOffset(b, d * DayLength + h.close, UtcOffset(b, now))
  BY <1>4, <1>5, ClockAgrees
<1>7. /\ FixOffset(b, d * DayLength + h.open, UtcOffset(b, now)) \in Int
      /\ FixOffset(b, d * DayLength + h.close, UtcOffset(b, now)) \in Int
  BY <1>4, <1>5, ClockTurns
<1>8. QED
  BY <1>6, <1>7 DEF AtMinute, d

-----------------------------------------------------------------------------
(***************************************************************************)
(* What a booking request knows.  A row in the tables is the one its       *)
(* request inserts, so what a handler saw is known by the ids alone, also  *)
(* after a block is gone.                                                  *)
(***************************************************************************)
HitBlocks(r)   == {k \in sawBlocks[r] :
                     Overlaps(BlockRow(k), Start(r), End(r))}
HitBookings(r) == {k \in sawBookings[r] : Overlaps(Row(k), Start(r), End(r))}

RowsAreTheirs ==
  /\ \A x \in bookings : x = Row(x.id)
  /\ \A x \in blocks : x = BlockRow(x.id)

\* r passed every check; r passed the check of the working hours.
Checked(r) == pc[r] = "insert" \/ r \in Ids(bookings)
InHours(r) == pc[r] = "overlaps" \/ Checked(r)

\* What the two reads found are the rows among those seen that overlap; they
\* decide whether r goes on.
SeesConflicts(r) ==
  /\ pc[r] = "overlaps" /\ "blocks" \notin awaiting[r]
       => foundBlocks[r] = HitBlocks(r)
  /\ pc[r] = "overlaps" /\ "bookings" \notin awaiting[r]
       => foundBookings[r] = HitBookings(r)
  /\ Checked(r) => HitBlocks(r) = {} /\ HitBookings(r) = {}
  /\ answer[r] = "blocked" => HitBlocks(r) # {}
  /\ answer[r] = "reserved" => HitBookings(r) # {}

\* The row of working hours is one of the weekday the booking starts on.
SeesHours(r) ==
  /\ InHours(r) \/ answer[r] = "outside_hours" =>
       /\ hours[r] \in AllHours
       /\ hours[r].business = call[r].business
       /\ hours[r].day = Weekday(call[r].business, Start(r))
  /\ InHours(r) =>
       /\ call[r].business \in Businesses
       /\ \E now \in Instants : InsideHours(r, hours[r], now)
  /\ answer[r] = "outside_hours" =>
       \E now \in Instants : ~InsideHours(r, hours[r], now)

SeesCatalog(r) ==
  /\ answer[r] = "business_not_found" => call[r].business \notin Businesses
  /\ answer[r] = "service_not_found" =>
       ~(call[r].service \in Services
           /\ BusinessOf[call[r].service] = call[r].business)

Sees(r) == SeesConflicts(r) /\ SeesHours(r) /\ SeesCatalog(r)

SightInv == RowsAreTheirs /\ \A r \in BookingRequests : Sees(r)

-----------------------------------------------------------------------------
(***************************************************************************)
(* What a request for slots knows.                                         *)
(***************************************************************************)

\* No schedule will write row h any more.
Settled(h) == \A w \in ScheduleRequests : h.by = w => wpc[w] = "done"

HoursAreSettled ==
  /\ \A h \in workingHours : Settled(h)
  /\ \A q \in SlotRequests : shours[q] # NoHours => Settled(shours[q])

\* The service does not fit between opening and closing.
Short(q) == opening[q].close - Duration[scall[q].service] < opening[q].open

SlotProgress(q) ==
  /\ spc[q] \in {"service", "hours"} => scall[q].business \in Businesses
  /\ spc[q] = "hours" =>
       /\ scall[q].service \in Services
       /\ BusinessOf[scall[q].service] = scall[q].business
       /\ scall[q].at \in Int
  /\ spc[q] # "idle" => scall[q] \in SlotCalls
  /\ spc[q] = "overlaps" => shours[q] # NoHours /\ ~Short(q)
  /\ spc[q] \in {"idle", "business", "service", "hours"} =>
       /\ shours[q] = NoHours
       /\ offeredBlocks[q] = {} /\ offeredBookings[q] = {}

\* The hours it found are those of the weekday asked for.
FoundHours(q) ==
  shours[q] # NoHours =>
    /\ scall[q].business \in Businesses
    /\ scall[q].service \in Services
    /\ BusinessOf[scall[q].service] = scall[q].business
    /\ scall[q].at \in Int
    /\ shours[q] \in AllHours
    /\ shours[q].business = scall[q].business
    /\ shours[q].day = Weekday(scall[q].business, scall[q].at)
    /\ \E now \in Instants : opening[q] = Opening(q, shours[q], now)

\* Of the rows there when q read, it has those that overlap the opening time.
BusyBetween(q) ==
  /\ busyBlocks[q] =
       {BlockRow(k) : k \in {i \in offeredBlocks[q] :
          Overlaps(BlockRow(i), opening[q].open, opening[q].close)}}
  /\ busyBookings[q] =
       {Row(k) : k \in {i \in offeredBookings[q] :
          Overlaps(Row(i), opening[q].open, opening[q].close)}}
  /\ \A k \in offeredBlocks[q] : k \in BlockRequests /\ bpc[k] = "done"
  /\ offeredBookings[q] \subseteq Ids(bookings)

OffersCandidates(q) ==
  /\ spc[q] # "done" => sanswer[q] = "none"
  /\ slots[q] = IF sanswer[q] = "offered" /\ shours[q] # NoHours /\ ~Short(q)
                THEN GenerateCandidates(q) ELSE {}

Offers(q) == SlotProgress(q) /\ FoundHours(q) /\ BusyBetween(q)
               /\ OffersCandidates(q)

\* A request that comes after the offer sees the bookings the offer knew of;
\* and if it finds no hours that day, those of the offer have gone.
SeesLater(r, q) ==
  spc[q] = "done" /\ r \notin early[q] =>
    /\ HasRead(r) \/ r \in Ids(bookings)
         => offeredBookings[q] \subseteq sawBookings[r]
    /\ /\ answer[r] = "closed"
       /\ shours[q] # NoHours
       /\ shours[q].business = call[r].business
       /\ shours[q].day = Weekday(call[r].business, Start(r))
       => shours[q] \notin workingHours

\* Of most of its variables it matters only that there is one per request.
SlotTypeOK ==
  /\ spc \in [SlotRequests -> SlotPhases]
  /\ scall \in [SlotRequests -> SlotCalls \cup {NoSlotCall}]
  /\ sanswer \in [SlotRequests -> SlotAnswers]
  /\ shours \in [SlotRequests -> AllHours \cup {NoHours}]
  /\ early \in [SlotRequests -> SUBSET BookingRequests]
  /\ opening = [q \in SlotRequests |-> opening[q]]
  /\ sawaiting = [q \in SlotRequests |-> sawaiting[q]]
  /\ busyBlocks = [q \in SlotRequests |-> busyBlocks[q]]
  /\ busyBookings = [q \in SlotRequests |-> busyBookings[q]]
  /\ slots = [q \in SlotRequests |-> slots[q]]
  /\ offeredBlocks = [q \in SlotRequests |-> offeredBlocks[q]]
  /\ offeredBookings = [q \in SlotRequests |-> offeredBookings[q]]

SlotInv ==
  /\ SlotTypeOK
  /\ HoursAreSettled
  /\ \A q \in SlotRequests : Offers(q)
  /\ \A q \in SlotRequests, r \in BookingRequests : SeesLater(r, q)

-----------------------------------------------------------------------------
(***************************************************************************)
(* SightInv.                                                               *)
(***************************************************************************)
LEMMA SightInit == Init => SightInv
BY DEF Init, SightInv, RowsAreTheirs, Sees, SeesConflicts, SeesHours,
       SeesCatalog, Checked, InHours, Ids, DatabaseInit, BookingsInit

\* A request that has inserted its row or been answered keeps its body.
LEMMA BodiesStay ==
  ASSUME TypeInv, [Next]_vars
  PROVE  /\ \A k \in BookingRequests :
              pc[k] \in {"enqueue", "done"} => call'[k] = call[k]
         /\ \A k \in BlockRequests :
              bpc[k] = "done" => bpc'[k] = "done" /\ bcall'[k] = bcall[k]
<1>1. /\ call \in [BookingRequests -> Calls \cup {NoCall}]
      /\ bpc \in [BlockRequests -> BlockPhases]
      /\ bcall \in [BlockRequests -> BlockCalls \cup {NoBlockCall}]
  BY DEF TypeInv, TypeOK, BookingsTypeOK, BlocksTypeOK
<1>2. ASSUME NEW r \in BookingRequests, BookingNext(r)
      PROVE  /\ UNCHANGED <<bpc, bcall>>
             /\ \A k \in BookingRequests :
                  pc[k] \in {"enqueue", "done"} => call'[k] = call[k]
  BY <1>1, <1>2 DEF BookingNext, BookingStep, BookingMove, StartCreate,
     ValidateBusiness, ValidateService, GetWorkingHours, ReadBlocks,
     ReadBookings, CheckReserved, CreateBookingRecord, LoseCommit,
     EnqueueBookingCreated, LoseReply, Fail, blockVars, createBlockVars
<1>3. ASSUME NEW r \in BlockRequests, BlockNext(r)
      PROVE  /\ UNCHANGED call
             /\ \A k \in BlockRequests :
                  bpc[k] = "done" => bpc'[k] = "done" /\ bcall'[k] = bcall[k]
  BY <1>1, <1>3 DEF BlockNext, BlockStep, BlockMove, StartBlock, GuardBlock,
     ValidateBlockBusiness, ReadOverlap, ReadBlockHours, CreateBlockRecord,
     FailBlock, GotoBlock, FinishBlock, requestVars
<1>4. ASSUME NEW d \in DeleteRequests, DeleteNext(d)
      PROVE  UNCHANGED <<call, bpc, bcall>>
  BY <1>4 DEF DeleteNext, DeleteStep, DeleteMove, StartDelete, GuardDelete,
     DeleteBlock, FailDelete, requestVars, createBlockVars
<1>5. ASSUME NEW w \in ScheduleRequests, ScheduleNext(w)
      PROVE  UNCHANGED <<call, bpc, bcall>>
  BY <1>5 DEF ScheduleNext, requestVars, blockVars, createBlockVars
<1>6. CASE UNCHANGED vars
  BY <1>6 DEF vars, requestVars, blockVars, createBlockVars
<1>7. QED
  BY <1>2, <1>3, <1>4, <1>5, <1>6 DEF Next

\* What a step does to the tables of bookings and of blocks.
LEMMA RowsStay ==
  ASSUME TypeInv, RaceInv, RowsAreTheirs, [Next]_vars
  PROVE  /\ RowsAreTheirs'
         /\ bookings \subseteq bookings'
         /\ Ids(bookings) \subseteq Ids(bookings)'
<1>1. /\ \A x \in bookings : /\ x.id \in BookingRequests
                             /\ pc[x.id] \in {"enqueue", "done"}
      /\ \A x \in blocks : x.id \in BlockRequests /\ bpc[x.id] = "done"
  BY DEF TypeInv, TypeOK, DatabaseTypeOK, BookingRows, BlockRows, RaceInv,
         RowsAreInserted
<1>2. /\ \A x \in bookings : Row(x.id)' = Row(x.id)
      /\ \A x \in blocks : BlockRow(x.id)' = BlockRow(x.id)
  BY <1>1, BodiesStay DEF Row, BlockRow, Start, End
<1>3. /\ \/ bookings' = bookings
         \/ \E r \in BookingRequests : /\ bookings' = bookings \cup {Row(r)}
                                       /\ call' = call
      /\ \/ blocks' \subseteq blocks
         \/ \E r \in BlockRequests : /\ blocks' = blocks \cup {BlockRow(r)}
                                     /\ bcall' = bcall
  <2>1. ASSUME NEW r \in BookingRequests, BookingNext(r)
        PROVE  /\ blocks' = blocks
               /\ \/ bookings' = bookings
                  \/ bookings' = bookings \cup {Row(r)} /\ call' = call
    BY <2>1 DEF BookingNext, BookingStep, BookingMove, StartCreate,
       ValidateBusiness, ValidateService, GetWorkingHours, ReadBlocks,
       ReadBookings, CheckReserved, CreateBookingRecord, LoseCommit,
       EnqueueBookingCreated, LoseReply, Fail, dbVars
  <2>2. ASSUME NEW r \in BlockRequests, BlockNext(r)
        PROVE  /\ bookings' = bookings
               /\ \/ blocks' = blocks
                  \/ blocks' = blocks \cup {BlockRow(r)} /\ bcall' = bcall
    BY <2>2 DEF BlockNext, BlockStep, BlockMove, StartBlock, GuardBlock,
       ValidateBlockBusiness, ReadOverlap, ReadBlockHours, CreateBlockRecord,
       FailBlock, dbVars
  <2>3. ASSUME NEW d \in DeleteRequests, DeleteNext(d)
        PROVE  bookings' = bookings /\ blocks' \subseteq blocks
    BY <2>3 DEF DeleteNext, DeleteStep, DeleteMove, StartDelete, GuardDelete,
       DeleteBlock, FailDelete, dbVars
  <2>4. ASSUME NEW w \in ScheduleRequests, ScheduleNext(w)
        PROVE  UNCHANGED <<bookings, blocks>>
    BY <2>4 DEF ScheduleNext, ScheduleStep, ScheduleMove, StartSchedule,
       GuardSchedule, DeleteWeek, CommitWeek, FailSchedule, dbVars
  <2>5. CASE UNCHANGED vars
    BY <2>5 DEF vars, dbVars
  <2>6. QED
    BY <2>1, <2>2, <2>3, <2>4, <2>5 DEF Next
<1>4. bookings \subseteq bookings'
  BY <1>3
<1>5. ASSUME NEW x \in bookings' PROVE x = Row(x.id)'
  <2>1. CASE x \in bookings
    BY <1>2, <2>1 DEF RowsAreTheirs
  <2>2. CASE x \notin bookings
    <3>1. PICK r \in BookingRequests : x = Row(r) /\ call' = call
      BY <1>3, <1>5, <2>2
    <3>2. QED
      BY <3>1 DEF Row, Start, End
  <2>3. QED
    BY <2>1, <2>2
<1>6. ASSUME NEW x \in blocks' PROVE x = BlockRow(x.id)'
  <2>1. CASE x \in blocks
    BY <1>2, <2>1 DEF RowsAreTheirs
  <2>2. CASE x \notin blocks
    <3>1. PICK r \in BlockRequests : x = BlockRow(r) /\ bcall' = bcall
      BY <1>3, <1>6, <2>2
    <3>2. QED
      BY <3>1 DEF BlockRow
  <2>3. QED
    BY <2>1, <2>2
<1>7. QED
  BY <1>4, <1>5, <1>6 DEF RowsAreTheirs, Ids

\* A request whose own variables a step leaves alone goes on seeing what it
\* saw: the rows it saw keep their bodies.
LEMMA SightStays ==
  ASSUME TypeInv, RaceInv, [Next]_vars, NEW r \in BookingRequests, Sees(r),
         pc'[r] = pc[r], call'[r] = call[r], hours'[r] = hours[r],
         awaiting'[r] = awaiting[r], answer'[r] = answer[r],
         foundBlocks'[r] = foundBlocks[r], sawBlocks'[r] = sawBlocks[r],
         foundBookings'[r] = foundBookings[r],
         sawBookings'[r] = sawBookings[r],
         r \in Ids(bookings)' <=> r \in Ids(bookings)
  PROVE  Sees(r)'
<1>1. Start(r)' = Start(r) /\ End(r)' = End(r)
  BY DEF Start, End
<1>2. HitBlocks(r)' = HitBlocks(r)
  <2>1. ASSUME NEW k \in sawBlocks[r] PROVE BlockRow(k)' = BlockRow(k)
    <3>1. k \in BlockRequests /\ bpc[k] = "done"
      BY DEF TypeInv, TypeOK, BookingsTypeOK, RaceInv, SeenWasThere
    <3>2. QED
      BY <3>1, BodiesStay DEF BlockRow
  <2>2. QED
    BY <1>1, <2>1 DEF HitBlocks, Overlaps
<1>3. HitBookings(r)' = HitBookings(r)
  <2>1. ASSUME NEW k \in sawBookings[r] PROVE Row(k)' = Row(k)
    <3>1. k \in BookingRequests /\ pc[k] \in {"enqueue", "done"}
      BY DEF TypeInv, TypeOK, BookingsTypeOK, RaceInv, SeenWasThere
    <3>2. QED
      BY <3>1, BodiesStay DEF Row, Start, End
  <2>2. QED
    BY <1>1, <2>1 DEF HitBookings, Overlaps
<1>4. SeesConflicts(r)'
  BY <1>2, <1>3 DEF Sees, SeesConflicts, Checked
<1>5. SeesHours(r)'
  <2>1. \A now : InsideHours(r, hours[r], now)' = InsideHours(r, hours[r], now)
    BY <1>1 DEF InsideHours
  <2>2. QED
    BY <1>1, <2>1 DEF Sees, SeesHours, InHours, Checked, InsideHours
<1>6. SeesCatalog(r)'
  BY DEF Sees, SeesCatalog
<1>7. QED
  BY <1>4, <1>5, <1>6 DEF Sees

\* A step of r's own.
LEMMA BookingSight ==
  ASSUME TypeInv, AnswerInv, RaceInv, SightInv, RowsAreTheirs',
         NEW r \in BookingRequests, BookingNext(r)
  PROVE  Sees(r)'
<1> USE DEF Goto, Finish, ReadsUnchanged, dbVars, jobVars
<1>1. /\ pc \in [BookingRequests -> Phases]
      /\ call \in [BookingRequests -> Calls \cup {NoCall}]
      /\ hours \in [BookingRequests -> AllHours \cup {NoHours}]
      /\ awaiting \in [BookingRequests -> SUBSET {"blocks", "bookings"}]
      /\ answer \in [BookingRequests -> Answers]
      /\ foundBlocks \in [BookingRequests -> SUBSET BlockRequests]
      /\ foundBookings \in [BookingRequests -> SUBSET BookingRequests]
      /\ sawBlocks \in [BookingRequests -> SUBSET BlockRequests]
      /\ sawBookings \in [BookingRequests -> SUBSET BookingRequests]
      /\ workingHours \subseteq AllHours
  BY DEF TypeInv, TypeOK, BookingsTypeOK, DatabaseTypeOK
<1>2. Sees(r)
  BY DEF SightInv
<1>3. /\ pc[r] # "done" => answer[r] = "none"
      /\ pc[r] \notin {"enqueue", "done"} => r \notin Ids(bookings)
      /\ pc[r] = "enqueue" => r \in Ids(bookings)
  BY DEF AnswerInv
<1>4. UNCHANGED <<bpc, bcall>>
  BY DEF BookingNext, blockVars, createBlockVars
<1>5. /\ pc[r] \in {"business", "service", "hours", "overlaps", "insert"} =>
           call[r] \in Calls
      /\ pc[r] \in {"service", "hours", "overlaps", "insert"} =>
           call[r].business \in Businesses
  BY DEF TypeInv, Progress, BookingProgress
<1>6. call'[r] = call[r] =>
        /\ Start(r)' = Start(r) /\ End(r)' = End(r)
        /\ \A k \in BlockRequests : BlockRow(k)' = BlockRow(k)
        /\ call' = call => \A k \in BookingRequests : Row(k)' = Row(k)
  BY <1>4 DEF Start, End, BlockRow, Row
<1>7. /\ sawBlocks'[r] = sawBlocks[r] /\ call' = call
           => HitBlocks(r)' = HitBlocks(r)
      /\ sawBookings'[r] = sawBookings[r] /\ call' = call
           => HitBookings(r)' = HitBookings(r)
  BY <1>1, <1>6 DEF HitBlocks, HitBookings, Overlaps
<1>8. \A h, now : call' = call
        => InsideHours(r, h, now)' = InsideHours(r, h, now)
  BY <1>6 DEF InsideHours
<1>9. bookings' = bookings => Ids(bookings)' = Ids(bookings)
  BY DEF Ids
<1>10. ASSUME NEW c \in Calls, StartCreate(r, c)
       PROVE  Sees(r)'
  <2>1. pc'[r] = "business" /\ answer'[r] = "none" /\ r \notin Ids(bookings)'
    BY <1>1, <1>3, <1>9, <1>10 DEF StartCreate
  <2>2. QED
    BY <2>1 DEF Sees, SeesConflicts, SeesHours, SeesCatalog, InHours, Checked
<1>11. CASE ValidateBusiness(r) \/ ValidateService(r) \/ Fail(r)
  <2>1. /\ pc'[r] \in {"service", "hours", "done"}
        /\ UNCHANGED <<call, hours, sawBlocks, sawBookings>>
        /\ Ids(bookings)' = Ids(bookings)
        /\ answer'[r] \in {"none", "error", "business_not_found",
                           "own_business", "service_not_found"}
    BY <1>1, <1>3, <1>9, <1>11
       DEF ValidateBusiness, ValidateService, Fail
  <2>2. SeesConflicts(r)' /\ SeesHours(r)'
    <3>1. InHours(r)' => r \in Ids(bookings)
      BY <2>1 DEF InHours, Checked
    <3>2. QED
      BY <1>2, <1>6, <1>7, <1>8, <2>1, <3>1
         DEF Sees, SeesConflicts, SeesHours, InHours, Checked
  <2>3. SeesCatalog(r)'
    BY <1>1, <1>3, <1>11 DEF SeesCatalog, ValidateBusiness, ValidateService,
       Fail
  <2>4. QED
    BY <2>2, <2>3 DEF Sees
<1>12. ASSUME NEW now \in Instants, GetWorkingHours(r, now)
       PROVE  Sees(r)'
  <2>1. /\ UNCHANGED <<call, bookings>> /\ r \notin Ids(bookings)'
        /\ pc[r] = "hours" /\ call[r].business \in Businesses
    BY <1>3, <1>5, <1>9, <1>12 DEF GetWorkingHours
  <2>2. CASE pc'[r] = "done" /\ answer'[r] = "closed"
    BY <2>1, <2>2 DEF Sees, SeesConflicts, SeesHours, SeesCatalog, InHours,
       Checked
  <2>3. CASE ~(pc'[r] = "done" /\ answer'[r] = "closed")
    <3>1. PICK h \in HoursOn(call[r].business,
                             Weekday(call[r].business, Start(r))) :
            /\ hours' = [hours EXCEPT ![r] = h]
            /\ IF InsideHours(r, h, now)
               THEN /\ Goto(r, "overlaps")
                    /\ awaiting' = [awaiting EXCEPT
                                      ![r] = {"blocks", "bookings"}]
               ELSE Finish(r, "outside_hours") /\ UNCHANGED awaiting
      BY <1>1, <1>12, <2>3 DEF GetWorkingHours
    <3>2. /\ hours'[r] = h /\ h \in AllHours
          /\ h.business = call[r].business
          /\ h.day = Weekday(call[r].business, Start(r))
      BY <1>1, <3>1 DEF HoursOn
    <3>3. /\ answer'[r] \in {"none", "outside_hours"}
          /\ pc'[r] = "overlaps" => awaiting'[r] = {"blocks", "bookings"}
          /\ pc'[r] \in {"overlaps", "done"}
          /\ pc'[r] = "overlaps" => InsideHours(r, h, now)
          /\ answer'[r] = "outside_hours" => ~InsideHours(r, h, now)
      BY <1>1, <1>3, <2>1, <3>1
    <3>4. SeesConflicts(r)' /\ SeesCatalog(r)'
      BY <2>1, <3>3 DEF SeesConflicts, SeesCatalog, Checked
    <3>5. SeesHours(r)'
      BY <1>6, <1>8, <2>1, <3>2, <3>3 DEF SeesHours, InHours, Checked
    <3>6. QED
      BY <3>4, <3>5 DEF Sees
  <2>4. QED
    BY <2>2, <2>3
<1>13. CASE ReadBlocks(r) \/ ReadBookings(r)
  <2>1. /\ UNCHANGED <<pc, call, hours, answer>> /\ pc[r] = "overlaps"
        /\ Ids(bookings)' = Ids(bookings)
        /\ answer[r] = "none" /\ ~Checked(r) /\ ~Checked(r)'
    BY <1>3, <1>9, <1>13 DEF ReadBlocks, ReadBookings, Checked
  <2>2. Ids(OverlappingBlocks(Start(r), End(r)))
          = {k \in Ids(blocks) : Overlaps(BlockRow(k), Start(r), End(r))}
    BY DEF SightInv, RowsAreTheirs, Ids, OverlappingBlocks
  <2>3. Ids(OverlappingBookings(Start(r), End(r)))
          = {k \in Ids(bookings) : Overlaps(Row(k), Start(r), End(r))}
    BY DEF SightInv, RowsAreTheirs, Ids, OverlappingBookings
  <2>4. CASE ReadBlocks(r)
    <3>1. /\ foundBlocks'[r] = HitBlocks(r)'
          /\ foundBookings'[r] = foundBookings[r]
          /\ HitBookings(r)' = HitBookings(r)
          /\ "bookings" \notin awaiting'[r] => "bookings" \notin awaiting[r]
      <4>1. /\ foundBlocks'[r] = Ids(OverlappingBlocks(Start(r), End(r)))
            /\ sawBlocks'[r] = Ids(blocks)
            /\ sawBookings' = sawBookings /\ foundBookings' = foundBookings
            /\ awaiting'[r] = awaiting[r] \ {"blocks"}
        BY <1>1, <2>4 DEF ReadBlocks
      <4>2. Ids(blocks) \subseteq BlockRequests
        BY DEF Ids, TypeInv, TypeOK, DatabaseTypeOK, BlockRows
      <4>3. HitBlocks(r)'
              = {k \in Ids(blocks) : Overlaps(BlockRow(k), Start(r), End(r))}
        BY <1>6, <2>1, <4>1, <4>2 DEF HitBlocks, Overlaps
      <4>4. QED
        BY <1>7, <2>1, <2>2, <4>1, <4>3
    <3>2. SeesConflicts(r)'
      BY <1>2, <2>1, <3>1 DEF Sees, SeesConflicts
    <3>3. QED
      BY <1>2, <1>6, <1>8, <2>1, <3>2
         DEF Sees, SeesHours, SeesCatalog, InHours
  <2>5. CASE ReadBookings(r)
    <3>1. /\ foundBookings'[r] = HitBookings(r)'
          /\ foundBlocks'[r] = foundBlocks[r]
          /\ HitBlocks(r)' = HitBlocks(r)
          /\ "blocks" \notin awaiting'[r] => "blocks" \notin awaiting[r]
      <4>1. /\ foundBookings'[r] = Ids(OverlappingBookings(Start(r), End(r)))
            /\ sawBookings'[r] = Ids(bookings)
            /\ sawBlocks' = sawBlocks /\ foundBlocks' = foundBlocks
            /\ awaiting'[r] = awaiting[r] \ {"bookings"}
        BY <1>1, <2>5 DEF ReadBookings
      <4>2. Ids(bookings) \subseteq BookingRequests
        BY DEF Ids, TypeInv, TypeOK, DatabaseTypeOK, BookingRows
      <4>3. HitBookings(r)'
              = {k \in Ids(bookings) : Overlaps(Row(k), Start(r), End(r))}
        BY <1>6, <2>1, <4>1, <4>2 DEF HitBookings, Overlaps
      <4>4. QED
        BY <1>7, <2>1, <2>3, <4>1, <4>3
    <3>2. SeesConflicts(r)'
      BY <1>2, <2>1, <3>1 DEF Sees, SeesConflicts
    <3>3. QED
      BY <1>2, <1>6, <1>8, <2>1, <3>2
         DEF Sees, SeesHours, SeesCatalog, InHours
  <2>6. QED
    BY <1>13, <2>4, <2>5
<1>14. CASE CheckReserved(r)
  <2>1. /\ UNCHANGED <<call, hours, sawBlocks, sawBookings>>
        /\ Ids(bookings)' = Ids(bookings) /\ r \notin Ids(bookings)
        /\ foundBlocks[r] = HitBlocks(r) /\ foundBookings[r] = HitBookings(r)
        /\ pc[r] = "overlaps"
    BY <1>2, <1>3, <1>9, <1>14 DEF CheckReserved, Sees, SeesConflicts
  <2>2. \/ HitBlocks(r) # {} /\ pc'[r] = "done" /\ answer'[r] = "blocked"
        \/ HitBookings(r) # {} /\ pc'[r] = "done" /\ answer'[r] = "reserved"
        \/ /\ HitBlocks(r) = {} /\ HitBookings(r) = {}
           /\ pc'[r] = "insert" /\ answer'[r] = "none"
    BY <1>1, <1>3, <1>14, <2>1 DEF CheckReserved
  <2>3. HitBlocks(r)' = HitBlocks(r) /\ HitBookings(r)' = HitBookings(r)
    BY <1>7, <2>1
  <2>4. SeesConflicts(r)'
    BY <2>1, <2>2, <2>3 DEF SeesConflicts, Checked
  <2>5. SeesHours(r)'
    BY <1>2, <1>6, <1>8, <2>1, <2>2 DEF Sees, SeesHours, InHours, Checked
  <2>6. SeesCatalog(r)'
    BY <2>2 DEF SeesCatalog
  <2>7. QED
    BY <2>4, <2>5, <2>6 DEF Sees
<1>15. CASE \/ CreateBookingRecord(r) \/ LoseCommit(r)
            \/ EnqueueBookingCreated(r) \/ LoseReply(r)
  <2>1. /\ UNCHANGED <<call, hours, sawBlocks, sawBookings>>
        /\ Checked(r) /\ pc'[r] \in {"enqueue", "done"}
        /\ answer'[r] \in {"none", "error", "created"}
    BY <1>1, <1>3, <1>15 DEF CreateBookingRecord, LoseCommit,
       EnqueueBookingCreated, LoseReply, Checked
  <2>2. HitBlocks(r)' = HitBlocks(r) /\ HitBookings(r)' = HitBookings(r)
    BY <1>7, <2>1
  <2>3. SeesConflicts(r)'
    BY <1>2, <2>1, <2>2 DEF Sees, SeesConflicts
  <2>4. SeesHours(r)'
    BY <1>2, <1>6, <1>8, <2>1 DEF Sees, SeesHours, InHours
  <2>5. SeesCatalog(r)'
    BY <2>1 DEF SeesCatalog
  <2>6. QED
    BY <2>3, <2>4, <2>5 DEF Sees
<1>16. QED
  BY <1>10, <1>11, <1>12, <1>13, <1>14, <1>15
     DEF BookingNext, BookingStep, BookingMove

\* A step leaves the variables of every booking request but the one that acts
\* alone, and what is in the table of every other.
LEMMA OthersStay ==
  ASSUME TypeInv, [Next]_vars, NEW r \in BookingRequests, ~BookingNext(r)
  PROVE  /\ pc'[r] = pc[r] /\ call'[r] = call[r] /\ hours'[r] = hours[r]
         /\ awaiting'[r] = awaiting[r] /\ answer'[r] = answer[r]
         /\ foundBlocks'[r] = foundBlocks[r] /\ sawBlocks'[r] = sawBlocks[r]
         /\ foundBookings'[r] = foundBookings[r]
         /\ sawBookings'[r] = sawBookings[r]
         /\ r \in Ids(bookings)' <=> r \in Ids(bookings)
<1>1. CASE UNCHANGED <<requestVars, bookings>>
  BY <1>1 DEF requestVars, Ids
<1>2. ASSUME NEW q \in BookingRequests \ {r}, BookingNext(q)
      PROVE  /\ pc'[r] = pc[r] /\ call'[r] = call[r] /\ hours'[r] = hours[r]
             /\ awaiting'[r] = awaiting[r] /\ answer'[r] = answer[r]
             /\ foundBlocks'[r] = foundBlocks[r]
             /\ sawBlocks'[r] = sawBlocks[r]
             /\ foundBookings'[r] = foundBookings[r]
             /\ sawBookings'[r] = sawBookings[r]
             /\ bookings' = bookings \/ bookings' = bookings \cup {Row(q)}
  <2>1. /\ pc \in [BookingRequests -> Phases]
        /\ call \in [BookingRequests -> Calls \cup {NoCall}]
        /\ hours \in [BookingRequests -> AllHours \cup {NoHours}]
        /\ awaiting \in [BookingRequests -> SUBSET {"blocks", "bookings"}]
        /\ answer \in [BookingRequests -> Answers]
        /\ foundBlocks \in [BookingRequests -> SUBSET BlockRequests]
        /\ foundBookings \in [BookingRequests -> SUBSET BookingRequests]
        /\ sawBlocks \in [BookingRequests -> SUBSET BlockRequests]
        /\ sawBookings \in [BookingRequests -> SUBSET BookingRequests]
    BY DEF TypeInv, TypeOK, BookingsTypeOK
  <2>2. QED
    BY <1>2, <2>1 DEF BookingNext, BookingStep, BookingMove, StartCreate,
       ValidateBusiness, ValidateService, GetWorkingHours, ReadBlocks,
       ReadBookings, CheckReserved, CreateBookingRecord, LoseCommit,
       EnqueueBookingCreated, LoseReply, Fail, Goto, Finish, ReadsUnchanged,
     dbVars
<1>3. ASSUME NEW q \in BookingRequests \ {r}, BookingNext(q)
      PROVE  r \in Ids(bookings)' <=> r \in Ids(bookings)
  <2>1. bookings' = bookings \/ bookings' = bookings \cup {Row(q)}
    BY <1>2, <1>3
  <2>2. QED
    BY <2>1 DEF Ids, Row
<1>4. ASSUME NEW k \in BlockRequests, BlockNext(k)
      PROVE  UNCHANGED <<requestVars, bookings>>
  BY <1>4 DEF BlockNext, BlockStep, BlockMove, StartBlock, GuardBlock,
     ValidateBlockBusiness, ReadOverlap, ReadBlockHours, CreateBlockRecord,
     FailBlock, dbVars
<1>5. ASSUME NEW d \in DeleteRequests, DeleteNext(d)
      PROVE  UNCHANGED <<requestVars, bookings>>
  BY <1>5 DEF DeleteNext, DeleteStep, DeleteMove, StartDelete, GuardDelete,
     DeleteBlock, FailDelete, dbVars
<1>6. ASSUME NEW w \in ScheduleRequests, ScheduleNext(w)
      PROVE  UNCHANGED <<requestVars, bookings>>
  BY <1>6 DEF ScheduleNext, ScheduleStep, ScheduleMove, StartSchedule,
     GuardSchedule, DeleteWeek, CommitWeek, FailSchedule, dbVars
<1>7. CASE UNCHANGED vars
  BY <1>1, <1>7 DEF vars, dbVars
<1>8. CASE \E q \in BookingRequests : BookingNext(q)
  BY <1>2, <1>3, <1>8
<1>9. QED
  BY <1>1, <1>4, <1>5, <1>6, <1>7, <1>8 DEF Next

LEMMA SightStep ==
  TypeInv /\ AnswerInv /\ RaceInv /\ SightInv /\ [Next]_vars => SightInv'
<1> SUFFICES ASSUME TypeInv, AnswerInv, RaceInv, SightInv, [Next]_vars
             PROVE  SightInv'
  OBVIOUS
<1>1. RowsAreTheirs'
  BY RowsStay DEF SightInv
<1>2. ASSUME NEW r \in BookingRequests PROVE Sees(r)'
  <2>1. CASE BookingNext(r)
    BY <1>1, <2>1, BookingSight
  <2>2. CASE ~BookingNext(r)
    <3>1. Sees(r)
      BY DEF SightInv
    <3>2. QED
      BY <2>2, <3>1, OthersStay, SightStays
  <2>3. QED
    BY <2>1, <2>2
<1>3. QED
  BY <1>1, <1>2 DEF SightInv

\* A booking request goes on exactly when what it saw left room for it, on a
\* day whose hours contain it; and what it answers says what it saw.
THEOREM AlwaysSightInv == Spec => []SightInv
<1>1. Spec => [](TypeInv /\ AnswerInv /\ RaceInv)
  BY AlwaysTypeInv, AlwaysAnswerInv, AlwaysRaceInv, PTL
<1>2. QED
  BY <1>1, SightInit, SightStep, PTL DEF Spec

-----------------------------------------------------------------------------
(***************************************************************************)
(* Bookings and working hours.                                             *)
(***************************************************************************)
LEMMA HoursAreMinutes ==
  ASSUME NEW h \in AllHours
  PROVE  h.open \in 0 .. DayLength - 1 /\ h.close \in 0 .. DayLength - 1
BY CatalogAssumption, ScheduleCallsAssumption
   DEF SoundWeekCall, AllHours, RowsOf

\* What starts after opening and ends before closing, resolved at any moment,
\* is inside the hours tick by tick.
LEMMA WithinClearHours ==
  ASSUME ZonesAreOrdinary, NEW h \in AllHours, NEW x,
         x.business \in Businesses, x.start \in Int, x.end \in Int,
         NEW t \in Int, ClearHours(x.business, t, h),
         h.business = x.business, h.day = Weekday(x.business, t),
         NEW now \in Instants, x.start < x.end,
         AtMinute(x.business, t, h.open, now) <= x.start,
         AtMinute(x.business, t, h.close, now) >= x.end
  PROVE  /\ WithinHours(x, h)
         /\ Day(Wall(x.business, x.start)) = Day(Wall(x.business, t))
<1> DEFINE b == x.business
           opening0 == AtMinute(b, t, h.open, now)
           closing0 == AtMinute(b, t, h.close, now)
<1>1. h.open \in 0 .. DayLength - 1 /\ h.close \in 0 .. DayLength - 1
  BY HoursAreMinutes
<1>2. opening0 \in Int /\ closing0 \in Int
  BY <1>1, ClearInstants
<1>3. ASSUME NEW u \in x.start .. (x.end - 1)
      PROVE  /\ Day(Wall(b, u)) = Day(Wall(b, t))
             /\ h.open <= Minute(Wall(b, u)) /\ Minute(Wall(b, u)) < h.close
  <2>1. u \in Int /\ opening0 <= u /\ u < closing0
    BY <1>2
  <2>2. QED
    BY <1>1, <2>1, ClearDay
<1>4. x.start \in x.start .. (x.end - 1)
  OBVIOUS
<1>5. QED
  BY <1>3, <1>4 DEF WithinHours, Weekday

LEMMA InsideIsWithin ==
  ASSUME ZonesAreOrdinary, TypeInv, SightInv,
         NEW r \in BookingRequests, InHours(r),
         ClearHours(call[r].business, Start(r), hours[r]),
         call[r] \in Calls, call[r].service \in Services
  PROVE  WithinHours(Row(r), hours[r])
<1> DEFINE h == hours[r]
<1>1. /\ h \in AllHours
      /\ h.business = call[r].business
      /\ h.day = Weekday(call[r].business, Start(r))
      /\ call[r].business \in Businesses
  BY DEF SightInv, Sees, SeesHours
<1>2. PICK now \in Instants : InsideHours(r, h, now)
  BY DEF SightInv, Sees, SeesHours
<1>3. Start(r) \in Int /\ End(r) \in Int /\ Start(r) < End(r)
  BY CallsAssumption, CatalogAssumption DEF SoundCall, Start, End
<1>4. /\ Row(r).business = call[r].business
      /\ Row(r).start = Start(r) /\ Row(r).end = End(r)
  BY DEF Row
<1>5. /\ AtMinute(call[r].business, Start(r), h.open, now) <= Start(r)
      /\ AtMinute(call[r].business, Start(r), h.close, now) >= End(r)
  BY <1>2 DEF InsideHours
<1> HIDE DEF h
<1>6. WithinHours(Row(r), h)
  BY <1>1, <1>3, <1>4, <1>5, WithinClearHours DEF h
<1>7. QED
  BY <1>6 DEF h

LEMMA SightIsInside ==
  ASSUME ZonesAreOrdinary, TypeInv, RaceInv, SightInv
  PROVE  InsideCheckedHours
<1> SUFFICES ASSUME NEW x \in bookings,
                    ClearHours(x.business, x.start, hours[x.id])
             PROVE  WithinHours(x, hours[x.id])
  BY DEF InsideCheckedHours
<1>1. x = Row(x.id)
  BY DEF SightInv, RowsAreTheirs
<1>2. x.id \in BookingRequests /\ InHours(x.id) /\ x.service \in Services
  BY DEF TypeInv, TypeOK, DatabaseTypeOK, BookingRows, InHours, Checked, Ids
<1>3. x.business = call[x.id].business /\ x.start = Start(x.id)
      /\ x.service = call[x.id].service
  BY <1>1 DEF Row
<1>4. call[x.id] \in Calls
  BY <1>2 DEF RaceInv, RowsAreInserted, TypeInv, Progress, BookingProgress
<1>5. QED
  BY <1>1, <1>2, <1>3, <1>4, InsideIsWithin

\* A booking in the table lies inside the working hours it was checked
\* against, tick by tick on the clock of its business, also on a day on which
\* that clock moves.
THEOREM BookedInsideHours ==
  ASSUME ZonesAreOrdinary
  PROVE  Spec => []InsideCheckedHours
<1>1. TypeInv /\ RaceInv /\ SightInv => InsideCheckedHours
  BY SightIsInside
<1>2. QED
  BY <1>1, AlwaysTypeInv, AlwaysRaceInv, AlwaysSightInv, PTL

-----------------------------------------------------------------------------
(***************************************************************************)
(* One request at a time: the hours a booking was checked against are the  *)
(* schedule that stands when it is inserted.                               *)
(***************************************************************************)
HoursStand ==
  \A r \in BookingRequests :
    pc[r] \in {"overlaps", "insert"} => hours[r] \in workingHours

LEMMA StandStep ==
  ASSUME TypeInv, SerialInv, HoursStand, [Next /\ OneAtATime]_vars
  PROVE  HoursStand'
<1>1. CASE UNCHANGED <<pc, hours, workingHours>>
  BY <1>1 DEF HoursStand
<1>2. ASSUME NEW r \in BookingRequests, BookingNext(r)
      PROVE  HoursStand'
  <2>1. /\ pc \in [BookingRequests -> Phases]
        /\ hours \in [BookingRequests -> AllHours \cup {NoHours}]
    BY DEF TypeInv, TypeOK, BookingsTypeOK
  <2>2. /\ workingHours' = workingHours
        /\ \A q \in BookingRequests \ {r} : pc'[q] = pc[q]
                                            /\ hours'[q] = hours[q]
        /\ pc'[r] \in {"overlaps", "insert"} =>
             \/ pc[r] = "overlaps" /\ hours'[r] = hours[r]
             \/ hours'[r] \in workingHours
    <3>1. ASSUME NEW now \in Instants, GetWorkingHours(r, now)
          PROVE  /\ workingHours' = workingHours
                 /\ \A q \in BookingRequests \ {r} : pc'[q] = pc[q]
                                                     /\ hours'[q] = hours[q]
                 /\ pc'[r] \in {"overlaps", "insert"} =>
                      hours'[r] \in workingHours
      <4>1. workingHours' = workingHours
        BY <3>1 DEF GetWorkingHours, dbVars
      <4>2. \/ Finish(r, "closed") /\ UNCHANGED hours
            \/ \E h \in workingHours :
                 /\ hours' = [hours EXCEPT ![r] = h]
                 /\ Goto(r, "overlaps") \/ Finish(r, "outside_hours")
        BY <3>1 DEF GetWorkingHours, HoursOn
      <4>3. QED
        BY <2>1, <4>1, <4>2 DEF Goto, Finish
    <3>2. CASE ~\E now \in Instants : GetWorkingHours(r, now)
      BY <1>2, <2>1, <3>2 DEF BookingNext, BookingStep, BookingMove,
         StartCreate, ValidateBusiness, ValidateService, ReadBlocks,
         ReadBookings, CheckReserved, CreateBookingRecord, LoseCommit,
         EnqueueBookingCreated, LoseReply, Fail, Goto, Finish, ReadsUnchanged,
     dbVars
    <3>3. QED
      BY <3>1, <3>2
  <2>3. QED
    BY <2>2 DEF HoursStand
<1>3. ASSUME NEW k \in BlockRequests, BlockNext(k)
      PROVE  UNCHANGED <<pc, hours, workingHours>>
  BY <1>3 DEF BlockNext, BlockStep, BlockMove, StartBlock, GuardBlock,
     ValidateBlockBusiness, ReadOverlap, ReadBlockHours, CreateBlockRecord,
     FailBlock, dbVars, requestVars
<1>4. ASSUME NEW d \in DeleteRequests, DeleteNext(d)
      PROVE  UNCHANGED <<pc, hours, workingHours>>
  BY <1>4 DEF DeleteNext, DeleteStep, DeleteMove, StartDelete, GuardDelete,
     DeleteBlock, FailDelete, dbVars, requestVars
<1>5. ASSUME NEW w \in ScheduleRequests, ScheduleNext(w), OneAtATime
      PROVE  HoursStand'
  <2>1. InFlight \subseteq {w}
    BY <1>5, ScheduleActs, ActsAlone DEF SerialInv
  <2>2. \A r \in BookingRequests : pc[r] \notin {"overlaps", "insert"}
    BY <2>1, RequestsAssumption DEF InFlight
  <2>3. pc' = pc
    BY <1>5 DEF ScheduleNext, requestVars
  <2>4. QED
    BY <2>2, <2>3 DEF HoursStand
<1>6. CASE UNCHANGED vars
  BY <1>1, <1>6 DEF vars, dbVars, requestVars
<1>7. QED
  BY <1>1, <1>2, <1>3, <1>4, <1>5, <1>6 DEF Next

\* One request at a time, the hours a booking was checked against are in the
\* schedule until it is inserted.
THEOREM AlwaysHoursStand == SerialSpec => []HoursStand
<1>1. Init => HoursStand
  BY DEF Init, HoursStand, BookingsInit
<1>2. SerialSpec => [](TypeInv /\ SerialInv)
  BY SerialIsSpec, AlwaysTypeInv, AlwaysSerialInv, PTL
<1>3. QED
  BY <1>1, <1>2, StandStep, PTL DEF SerialSpec

\* A new row is the one of a request about to insert.
LEMMA NewRow ==
  ASSUME [Next]_vars, NEW x \in bookings' \ bookings
  PROVE  \E r \in BookingRequests : x = Row(r) /\ pc[r] = "insert"
<1>1. ASSUME NEW r \in BookingRequests, BookingNext(r)
      PROVE  x = Row(r) /\ pc[r] = "insert"
  BY <1>1 DEF BookingNext, BookingStep, BookingMove, StartCreate,
     ValidateBusiness, ValidateService, GetWorkingHours, ReadBlocks,
     ReadBookings, CheckReserved, CreateBookingRecord, LoseCommit,
     EnqueueBookingCreated, LoseReply, Fail, dbVars
<1>2. ASSUME NEW k \in BlockRequests, BlockNext(k)
      PROVE  FALSE
  BY <1>2 DEF BlockNext, BlockStep, BlockMove, StartBlock, GuardBlock,
     ValidateBlockBusiness, ReadOverlap, ReadBlockHours, CreateBlockRecord,
     FailBlock, dbVars
<1>3. ASSUME NEW d \in DeleteRequests, DeleteNext(d)
      PROVE  FALSE
  BY <1>3 DEF DeleteNext, DeleteStep, DeleteMove, StartDelete, GuardDelete,
     DeleteBlock, FailDelete, dbVars
<1>4. ASSUME NEW w \in ScheduleRequests, ScheduleNext(w)
      PROVE  FALSE
  BY <1>4 DEF ScheduleNext, ScheduleStep, ScheduleMove, StartSchedule,
     GuardSchedule, DeleteWeek, CommitWeek, FailSchedule, dbVars
<1>5. CASE UNCHANGED vars
  BY <1>5 DEF vars, dbVars
<1>6. QED
  BY <1>1, <1>2, <1>3, <1>4, <1>5 DEF Next

LEMMA NewRowInside ==
  ASSUME ZonesAreOrdinary, TypeInv, SightInv, HoursStand, [Next]_vars,
         NEW x \in bookings' \ bookings
  PROVE  \E h \in HoursOn(x.business, Weekday(x.business, x.start)) :
           ClearHours(x.business, x.start, h) => WithinHours(x, h)
<1>1. PICK r \in BookingRequests : x = Row(r) /\ pc[r] = "insert"
  BY NewRow
<1>2. InHours(r) /\ call[r] \in Calls /\ call[r].service \in Services
  BY <1>1 DEF InHours, Checked, TypeInv, Progress, BookingProgress
<1>3. /\ hours[r] \in workingHours
      /\ hours[r].business = call[r].business
      /\ hours[r].day = Weekday(call[r].business, Start(r))
  BY <1>1, <1>2 DEF HoursStand, SightInv, Sees, SeesHours
<1>4. x.business = call[r].business /\ x.start = Start(r)
  BY <1>1 DEF Row
<1>5. hours[r] \in HoursOn(x.business, Weekday(x.business, x.start))
  BY <1>3, <1>4 DEF HoursOn
<1>6. ClearHours(x.business, x.start, hours[r]) => WithinHours(x, hours[r])
  BY <1>1, <1>2, <1>4, InsideIsWithin
<1>7. QED
  BY <1>5, <1>6

\* One request at a time, a booking is confirmed inside the schedule that its
\* business has at that moment.
THEOREM SerialInsideSchedule ==
  ASSUME ZonesAreOrdinary
  PROVE  SerialSpec => ConfirmedInsideSchedule
<1> DEFINE Fits ==
      \A x \in bookings' \ bookings :
        \E h \in HoursOn(x.business, Weekday(x.business, x.start)) :
          ClearHours(x.business, x.start, h) => WithinHours(x, h)
<1>1. TypeInv /\ SightInv /\ HoursStand /\ [Next /\ OneAtATime]_vars => Fits
  BY NewRowInside
<1>2. SerialSpec => [](TypeInv /\ SightInv /\ HoursStand)
  BY SerialIsSpec, AlwaysTypeInv, AlwaysSightInv, AlwaysHoursStand, PTL
<1>3. TypeInv /\ SightInv /\ HoursStand /\ [Next /\ OneAtATime]_vars
        => [Fits]_vars
  BY <1>1
<1>4. QED
  BY <1>2, <1>3, PTL DEF SerialSpec, ConfirmedInsideSchedule

-----------------------------------------------------------------------------
(***************************************************************************)
(* SlotInv.  A step is one of the engine's or one of a request for slots.  *)
(***************************************************************************)
LEMMA SlotInit == AvailabilityInit => SlotInv
<1> SUFFICES ASSUME AvailabilityInit PROVE SlotInv
  OBVIOUS
<1> USE DEF AvailabilityInit, SlotsInit
<1>1. SlotTypeOK
  BY DEF SlotTypeOK, SlotPhases, SlotAnswers
<1>2. HoursAreSettled
  BY HoursAssumption DEF Init, DatabaseInit, HoursAreSettled, Settled
<1>3. ASSUME NEW q \in SlotRequests PROVE Offers(q)
  BY DEF Offers, SlotProgress, FoundHours, BusyBetween, OffersCandidates
<1>4. ASSUME NEW q \in SlotRequests, NEW r \in BookingRequests
      PROVE  SeesLater(r, q)
  BY DEF SeesLater
<1>5. QED
  BY <1>1, <1>2, <1>3, <1>4 DEF SlotInv

\* Every row is written by the one commit of its request, so a row that has
\* been written and has gone never comes back.
LEMMA HoursNeverReturn ==
  ASSUME TypeInv, [Next]_vars, \A h \in workingHours : Settled(h)
  PROVE  /\ \A h \in workingHours' : Settled(h)'
         /\ \A h : Settled(h) =>
              Settled(h)' /\ (h \notin workingHours => h \notin workingHours')
<1>1. wpc \in [ScheduleRequests -> SchedulePhases]
  BY DEF TypeInv, TypeOK, ScheduleTypeOK
<1>2. CASE UNCHANGED <<wpc, workingHours>>
  BY <1>2 DEF Settled
<1>3. ASSUME NEW r \in BookingRequests, BookingNext(r)
      PROVE  UNCHANGED <<wpc, workingHours>>
  BY <1>3 DEF BookingNext, BookingStep, BookingMove, StartCreate,
     ValidateBusiness, ValidateService, GetWorkingHours, ReadBlocks,
     ReadBookings, CheckReserved, CreateBookingRecord, LoseCommit,
     EnqueueBookingCreated, LoseReply, Fail, dbVars, scheduleVars
<1>4. ASSUME NEW k \in BlockRequests, BlockNext(k)
      PROVE  UNCHANGED <<wpc, workingHours>>
  BY <1>4 DEF BlockNext, BlockStep, BlockMove, StartBlock, GuardBlock,
     ValidateBlockBusiness, ReadOverlap, ReadBlockHours, CreateBlockRecord,
     FailBlock, dbVars, scheduleVars
<1>5. ASSUME NEW d \in DeleteRequests, DeleteNext(d)
      PROVE  UNCHANGED <<wpc, workingHours>>
  BY <1>5 DEF DeleteNext, DeleteStep, DeleteMove, StartDelete, GuardDelete,
     DeleteBlock, FailDelete, dbVars, scheduleVars
<1>6. ASSUME NEW w \in ScheduleRequests, ScheduleNext(w)
      PROVE  /\ \A v \in ScheduleRequests :
                  wpc[v] = "done" => wpc'[v] = "done"
             /\ \/ UNCHANGED workingHours
                \/ /\ wpc[w] # "done" /\ wpc'[w] = "done"
                   /\ workingHours' \subseteq
                        workingHours \cup RowsOf(w, wcall[w])
  BY <1>1, <1>6 DEF ScheduleNext, ScheduleStep, ScheduleMove, StartSchedule,
     GuardSchedule, DeleteWeek, CommitWeek, FailSchedule, GotoSchedule,
     FinishSchedule, dbVars
<1>7. ASSUME NEW w \in ScheduleRequests, ScheduleNext(w)
      PROVE  /\ \A h \in workingHours' : Settled(h)'
             /\ \A h : Settled(h) =>
                  /\ Settled(h)'
                  /\ h \notin workingHours => h \notin workingHours'
  <2>1. \A h \in RowsOf(w, wcall[w]) : h.by = w
    BY DEF RowsOf
  <2>2. \A h : Settled(h) => Settled(h)'
    BY <1>6, <1>7 DEF Settled
  <2>3. CASE UNCHANGED workingHours
    BY <2>2, <2>3
  <2>4. CASE /\ wpc[w] # "done" /\ wpc'[w] = "done"
             /\ workingHours' \subseteq workingHours \cup RowsOf(w, wcall[w])
    <3>1. \A h \in RowsOf(w, wcall[w]) : ~Settled(h) /\ Settled(h)'
      BY <2>1, <2>4 DEF Settled
    <3>2. QED
      BY <2>2, <2>4, <3>1
  <2>5. QED
    BY <1>6, <1>7, <2>3, <2>4
<1>8. CASE UNCHANGED vars
  BY <1>2, <1>8 DEF vars, dbVars, scheduleVars
<1>9. QED
  BY <1>2, <1>3, <1>4, <1>5, <1>7, <1>8 DEF Next

\* A step of the engine: the rows an offer knew of keep their bodies.
LEMMA OffersStay ==
  ASSUME TypeInv, RaceInv, RowsAreTheirs, [Next]_vars, UNCHANGED slotVars,
         NEW q \in SlotRequests, Offers(q)
  PROVE  Offers(q)'
<1>1. UNCHANGED <<spc, scall, sanswer, shours, opening, sawaiting, busyBlocks,
                  busyBookings, slots, offeredBlocks, offeredBookings, early>>
  BY DEF slotVars
<1>2. SlotProgress(q)' /\ FoundHours(q)' /\ OffersCandidates(q)'
  BY <1>1 DEF Offers, SlotProgress, FoundHours, OffersCandidates, Short,
     Opening, GenerateCandidates, Candidates
<1>3. \A k \in offeredBlocks[q] :
        /\ k \in BlockRequests /\ bpc'[k] = "done"
        /\ BlockRow(k)' = BlockRow(k)
  BY BodiesStay DEF Offers, BusyBetween, BlockRow
<1>4. \A k \in offeredBookings[q] : Row(k)' = Row(k)
  <2> TAKE k \in offeredBookings[q]
  <2>1. k \in BookingRequests /\ pc[k] \in {"enqueue", "done"}
    BY DEF Offers, BusyBetween, Ids, TypeInv, TypeOK, DatabaseTypeOK,
       BookingRows, RaceInv, RowsAreInserted
  <2>2. QED
    BY <2>1, BodiesStay DEF Row, Start, End
<1>5. Ids(bookings) \subseteq Ids(bookings)'
  BY RowsStay
<1>6. BusyBetween(q)'
  BY <1>1, <1>3, <1>4, <1>5 DEF Offers, BusyBetween, Overlaps
<1>7. QED
  BY <1>2, <1>6 DEF Offers

LEMMA LaterStays ==
  ASSUME TypeInv, AnswerInv, RaceInv, RowsAreTheirs, SlotInv, [Next]_vars,
         UNCHANGED slotVars, NEW q \in SlotRequests, NEW r \in BookingRequests
  PROVE  SeesLater(r, q)'
<1> SUFFICES ASSUME spc[q] = "done", r \notin early[q]
             PROVE  SeesLater(r, q)'
  BY DEF slotVars, SeesLater
<1>1. /\ SeesLater(r, q) /\ Offers(q)
      /\ shours[q] # NoHours => Settled(shours[q])
      /\ \A h \in workingHours : Settled(h)
  BY DEF SlotInv, HoursAreSettled
<1>2. /\ offeredBookings' = offeredBookings /\ shours' = shours
      /\ spc' = spc /\ early' = early
  BY DEF slotVars
<1>3. CASE ~BookingNext(r)
  <2>1. /\ HasRead(r)' = HasRead(r)
        /\ r \in Ids(bookings)' <=> r \in Ids(bookings)
        /\ sawBookings'[r] = sawBookings[r]
        /\ answer'[r] = answer[r] /\ call'[r] = call[r]
        /\ Start(r)' = Start(r)
    BY <1>3, OthersStay DEF HasRead, Start
  <2>2. QED
    BY <1>1, <1>2, <2>1, HoursNeverReturn DEF SeesLater
<1>4. CASE BookingNext(r)
  <2>1. /\ HasRead(r)' => \/ sawBookings'[r] = Ids(bookings)
                          \/ HasRead(r) /\ sawBookings'[r] = sawBookings[r]
        /\ r \in Ids(bookings)' =>
             /\ HasRead(r) \/ r \in Ids(bookings)
             /\ HasRead(r)' \/ sawBookings'[r] = sawBookings[r]
    <3>1. HasRead(r)' => \/ sawBookings'[r] = Ids(bookings)
                         \/ HasRead(r) /\ sawBookings'[r] = sawBookings[r]
      BY <1>4, BookingEffect
    <3>2. r \in Ids(bookings)' => HasRead(r) \/ r \in Ids(bookings)
      <4>1. \/ UNCHANGED bookings
            \/ pc[r] = "insert" /\ bookings' = bookings \cup {Row(r)}
        BY <1>4, BookingEffect
      <4>2. QED
        BY <4>1 DEF HasRead, Ids
    <3>3. sawBookings'[r] = sawBookings[r] \/ ReadBookings(r)
      BY <1>4 DEF BookingNext, BookingStep, BookingMove, StartCreate,
         ValidateBusiness, ValidateService, GetWorkingHours, ReadBlocks,
         CheckReserved, CreateBookingRecord, LoseCommit,
         EnqueueBookingCreated, LoseReply, Fail, ReadsUnchanged
    <3>4. ReadBookings(r) => sawBookings'[r] = Ids(bookings) /\ HasRead(r)'
      <4>1. /\ sawBookings \in [BookingRequests -> SUBSET BookingRequests]
            /\ awaiting \in
                 [BookingRequests -> SUBSET {"blocks", "bookings"}]
        BY DEF TypeInv, TypeOK, BookingsTypeOK
      <4>2. QED
        BY <4>1 DEF ReadBookings, HasRead
    <3>5. QED
      BY <3>1, <3>2, <3>3, <3>4
  <2>2. HasRead(r)' \/ r \in Ids(bookings)'
          => offeredBookings[q] \subseteq sawBookings'[r]
    BY <1>1, <2>1 DEF SeesLater, Offers, BusyBetween
  <2>3. ASSUME answer'[r] = "closed", shours[q] # NoHours,
               shours[q].business = call'[r].business,
               shours[q].day = Weekday(call'[r].business, Start(r)')
        PROVE  shours[q] \notin workingHours'
    <3>1. /\ pc \in [BookingRequests -> Phases]
          /\ answer \in [BookingRequests -> Answers]
          /\ pc[r] # "done" => answer[r] = "none"
      BY DEF TypeInv, TypeOK, BookingsTypeOK, AnswerInv
    <3>2. PICK now \in Instants : GetWorkingHours(r, now)
      BY <1>4, <2>3, <3>1 DEF BookingNext, BookingStep, BookingMove,
         StartCreate, ValidateBusiness, ValidateService, ReadBlocks,
         ReadBookings, CheckReserved, CreateBookingRecord, LoseCommit,
         EnqueueBookingCreated, LoseReply, Fail, Goto, Finish
    <3>3. /\ UNCHANGED <<call, workingHours>>
          /\ HoursOn(call[r].business,
                     Weekday(call[r].business, Start(r))) = {}
      BY <2>3, <3>1, <3>2 DEF GetWorkingHours, Goto, Finish, dbVars
    <3>4. Start(r)' = Start(r)
      BY <3>3 DEF Start
    <3>5. QED
      BY <2>3, <3>3, <3>4 DEF HoursOn
  <2>4. QED
    BY <1>2, <2>2, <2>3 DEF SeesLater
<1>5. QED
  BY <1>3, <1>4

\* A step of q's own keeps the engine's rows, so only what q has learnt
\* changes.
LEMMA SlotOffers ==
  ASSUME TypeInv, RowsAreTheirs, RaceInv, SlotInv,
         NEW q \in SlotRequests, SlotNext(q)
  PROVE  Offers(q)'
<1> USE DEF GotoSlots, FinishSlots, SlotReadsUnchanged
<1>1. SlotTypeOK /\ Offers(q)
  BY DEF SlotInv
<1>2. /\ \A k : BlockRow(k)' = BlockRow(k) /\ Row(k)' = Row(k)
      /\ Ids(bookings)' = Ids(bookings) /\ bpc' = bpc
  BY DEF SlotNext, vars, dbVars, requestVars, blockVars, createBlockVars,
         BlockRow, Row, Start, End, Ids
<1>3. UNCHANGED <<opening, busyBlocks, busyBookings, offeredBlocks,
                  offeredBookings>>
        => BusyBetween(q)'
  BY <1>1, <1>2 DEF Offers, BusyBetween, Overlaps
<1>4. ASSUME NEW c \in SlotCalls, StartSlots(q, c)
      PROVE  Offers(q)'
  <2>1. SlotProgress(q)' /\ FoundHours(q)' /\ OffersCandidates(q)'
    BY <1>1, <1>4 DEF StartSlots, SlotTypeOK, Offers, SlotProgress,
       FoundHours, OffersCandidates
  <2>2. QED
    BY <1>3, <1>4, <2>1 DEF StartSlots, Offers
<1>5. CASE FindBusiness(q) \/ FindService(q)
  <2>1. /\ UNCHANGED <<scall, shours, opening, busyBlocks, busyBookings,
                       offeredBlocks, offeredBookings>>
        /\ spc[q] \in {"business", "service"}
        /\ shours[q] = NoHours
        /\ slots'[q] = {}
    BY <1>1, <1>5 DEF FindBusiness, FindService, SlotTypeOK, Offers,
       SlotProgress, OffersCandidates
  <2>2. SlotProgress(q)'
    <3>1. scall[q] \in SlotCalls
      BY <1>1, <2>1 DEF Offers, SlotProgress
    <3>2. QED
      BY <1>1, <1>5, <2>1, <3>1, SlotCallsAssumption DEF FindBusiness,
         FindService, SlotTypeOK, Offers, SlotProgress
  <2>3. FoundHours(q)'
    BY <2>1 DEF FoundHours
  <2>4. OffersCandidates(q)'
    BY <1>1, <1>5, <2>1 DEF FindBusiness, FindService, SlotTypeOK, Offers,
       OffersCandidates
  <2>5. QED
    BY <1>3, <2>1, <2>2, <2>3, <2>4 DEF Offers
<1>6. ASSUME NEW now \in Instants, FindHours(q, now)
      PROVE  Offers(q)'
  <2> DEFINE b == scall[q].business
             rows == HoursOn(b, Weekday(b, scall[q].at))
  <2>1. /\ spc[q] = "hours"
        /\ UNCHANGED <<scall, busyBlocks, busyBookings, offeredBlocks,
                       offeredBookings>>
        /\ scall[q] \in SlotCalls
        /\ b \in Businesses /\ scall[q].service \in Services
        /\ BusinessOf[scall[q].service] = b
        /\ scall[q].at \in Int
        /\ shours[q] = NoHours
        /\ offeredBlocks[q] = {} /\ offeredBookings[q] = {}
        /\ sanswer[q] = "none" /\ slots[q] = {}
    BY <1>1, <1>6 DEF FindHours, Offers, SlotProgress, OffersCandidates
  <2>2. BusyBetween(q)'
    BY <1>1, <2>1 DEF Offers, BusyBetween
  <2>3. CASE rows = {} /\ FinishSlots(q, "offered", {}) /\ UNCHANGED shours
    BY <1>1, <2>1, <2>2, <2>3 DEF SlotTypeOK, Offers, SlotProgress,
       FoundHours, OffersCandidates
  <2>4. ASSUME NEW h \in rows,
               shours' = [shours EXCEPT ![q] = h],
               opening' = [opening EXCEPT ![q] = Opening(q, h, now)],
               IF Opening(q, h, now).close - Duration[scall[q].service]
                    < Opening(q, h, now).open
               THEN FinishSlots(q, "offered", {})
               ELSE GotoSlots(q, "overlaps")
        PROVE  Offers(q)'
    <3>1. /\ shours'[q] = h
          /\ opening'[q] = Opening(q, h, now)
          /\ h \in AllHours
          /\ h.business = b /\ h.day = Weekday(b, scall[q].at)
      BY <1>1, <2>4 DEF SlotTypeOK, HoursOn, TypeInv, TypeOK, DatabaseTypeOK
    <3>2. Short(q)' <=>
            Opening(q, h, now).close - Duration[scall[q].service]
              < Opening(q, h, now).open
      BY <2>1, <3>1 DEF Short
    <3>3. h # NoHours
      BY <3>1, HoursAssumption
    <3>4. \/ Short(q)' /\ spc'[q] = "done" /\ slots'[q] = {}
          \/ /\ ~Short(q)' /\ spc'[q] = "overlaps" /\ slots'[q] = {}
             /\ sanswer'[q] = "none"
      BY <1>1, <2>1, <2>4, <3>2 DEF SlotTypeOK
    <3>5. SlotProgress(q)'
      BY <2>1, <3>1, <3>3, <3>4 DEF SlotProgress
    <3>6. FoundHours(q)'
      <4>1. opening'[q] = Opening(q, shours[q], now)'
        BY <2>1, <3>1 DEF Opening
      <4>2. QED
        BY <2>1, <3>1, <4>1 DEF FoundHours
    <3>7. OffersCandidates(q)'
      BY <3>4 DEF OffersCandidates
    <3>8. QED
      BY <2>2, <3>5, <3>6, <3>7 DEF Offers
  <2>5. QED
    BY <1>6, <2>3, <2>4 DEF FindHours
<1>7. CASE ReadBusyBlocks(q) \/ ReadBusyBookings(q)
  <2>1. /\ UNCHANGED <<spc, scall, sanswer, slots, shours, opening>>
        /\ spc[q] = "overlaps"
    BY <1>7 DEF ReadBusyBlocks, ReadBusyBookings
  <2>2. SlotProgress(q)' /\ OffersCandidates(q)'
    BY <1>1, <2>1 DEF Offers, SlotProgress, OffersCandidates, Short
  <2>3. FoundHours(q)'
    BY <1>1, <2>1 DEF Offers, FoundHours, Opening
  <2>4. CASE ReadBusyBlocks(q)
    <3>1. /\ busyBlocks'[q]
               = OverlappingBlocks(opening[q].open, opening[q].close)
          /\ offeredBlocks'[q] = Ids(blocks)
          /\ UNCHANGED <<busyBookings, offeredBookings>>
      BY <1>1, <2>4 DEF ReadBusyBlocks, SlotTypeOK
    <3>2. /\ \A x \in blocks : x = BlockRow(x.id)
          /\ \A k \in Ids(blocks) : k \in BlockRequests /\ bpc[k] = "done"
      BY DEF RowsAreTheirs, Ids, RaceInv, RowsAreInserted, TypeInv, TypeOK,
             DatabaseTypeOK, BlockRows
    <3>3. OverlappingBlocks(opening[q].open, opening[q].close)
            = {BlockRow(k) : k \in {i \in Ids(blocks) :
                 Overlaps(BlockRow(i), opening[q].open, opening[q].close)}}
      BY <3>2 DEF OverlappingBlocks, Ids
    <3>4. BusyBetween(q)'
      BY <1>1, <1>2, <2>1, <3>1, <3>2, <3>3 DEF Offers, BusyBetween, Overlaps
    <3>5. QED
      BY <2>2, <2>3, <3>4 DEF Offers
  <2>5. CASE ReadBusyBookings(q)
    <3>1. /\ busyBookings'[q]
               = OverlappingBookings(opening[q].open, opening[q].close)
          /\ offeredBookings'[q] = Ids(bookings)
          /\ UNCHANGED <<busyBlocks, offeredBlocks>>
      BY <1>1, <2>5 DEF ReadBusyBookings, SlotTypeOK
    <3>2. OverlappingBookings(opening[q].open, opening[q].close)
            = {Row(k) : k \in {i \in Ids(bookings) :
                 Overlaps(Row(i), opening[q].open, opening[q].close)}}
      BY DEF RowsAreTheirs, OverlappingBookings, Ids
    <3>3. BusyBetween(q)'
      BY <1>1, <1>2, <2>1, <3>1, <3>2 DEF Offers, BusyBetween, Overlaps
    <3>4. QED
      BY <2>2, <2>3, <3>3 DEF Offers
  <2>6. QED
    BY <1>7, <2>4, <2>5
<1>8. CASE OfferSlots(q) \/ FailSlots(q)
  <2>1. /\ UNCHANGED <<scall, shours, opening, busyBlocks, busyBookings,
                       offeredBlocks, offeredBookings>>
        /\ spc'[q] = "done" /\ spc[q] # "idle"
        /\ \/ sanswer'[q] = "error" /\ slots'[q] = {}
           \/ /\ spc[q] = "overlaps" /\ sanswer'[q] = "offered"
              /\ slots'[q] = GenerateCandidates(q)
    BY <1>1, <1>8 DEF OfferSlots, FailSlots, SlotTypeOK
  <2>2. SlotProgress(q)' /\ FoundHours(q)'
    BY <1>1, <2>1 DEF Offers, SlotProgress, FoundHours, Opening
  <2>3. OffersCandidates(q)'
    <3>1. GenerateCandidates(q)' = GenerateCandidates(q)
      BY <2>1 DEF GenerateCandidates, Candidates
    <3>2. Short(q)' = Short(q)
      BY <2>1 DEF Short
    <3>3. QED
      BY <1>1, <2>1, <3>1, <3>2 DEF Offers, SlotProgress, OffersCandidates
  <2>4. QED
    BY <1>3, <2>1, <2>2, <2>3 DEF Offers
<1>9. QED
  BY <1>4, <1>5, <1>6, <1>7, <1>8 DEF SlotNext, SlotStep

\* It leaves the other requests for slots alone, and when it ends, whoever has
\* not yet asked for a booking has seen nothing.
LEMMA SlotFrame ==
  ASSUME SlotTypeOK, TypeInv, NEW q \in SlotRequests, SlotNext(q)
  PROVE  /\ SlotTypeOK'
         /\ \A p \in SlotRequests \ {q} :
              /\ spc'[p] = spc[p] /\ scall'[p] = scall[p]
              /\ sanswer'[p] = sanswer[p] /\ shours'[p] = shours[p]
              /\ opening'[p] = opening[p] /\ slots'[p] = slots[p]
              /\ busyBlocks'[p] = busyBlocks[p]
              /\ busyBookings'[p] = busyBookings[p]
              /\ offeredBlocks'[p] = offeredBlocks[p]
              /\ offeredBookings'[p] = offeredBookings[p]
              /\ early'[p] = early[p]
         /\ spc'[q] = "done" =>
              early'[q] = {r \in BookingRequests : pc[r] # "idle"}
         /\ shours'[q] = shours[q] \/ shours'[q] \in workingHours
<1> USE DEF GotoSlots, FinishSlots, SlotReadsUnchanged, SlotTypeOK,
            SlotPhases, SlotAnswers
<1>1. workingHours \subseteq AllHours
  BY DEF TypeInv, TypeOK, DatabaseTypeOK
<1> DEFINE Frame ==
      /\ SlotTypeOK'
      /\ \A p \in SlotRequests \ {q} :
           /\ spc'[p] = spc[p] /\ scall'[p] = scall[p]
           /\ sanswer'[p] = sanswer[p] /\ shours'[p] = shours[p]
           /\ opening'[p] = opening[p] /\ slots'[p] = slots[p]
           /\ busyBlocks'[p] = busyBlocks[p]
           /\ busyBookings'[p] = busyBookings[p]
           /\ offeredBlocks'[p] = offeredBlocks[p]
           /\ offeredBookings'[p] = offeredBookings[p]
           /\ early'[p] = early[p]
      /\ spc'[q] = "done" =>
           early'[q] = {r \in BookingRequests : pc[r] # "idle"}
      /\ shours'[q] = shours[q] \/ shours'[q] \in workingHours
<1> SUFFICES Frame
  OBVIOUS
<1>2. ASSUME NEW c \in SlotCalls, StartSlots(q, c) PROVE Frame
  BY <1>2 DEF StartSlots
<1>3. CASE FindBusiness(q)
  BY <1>3 DEF FindBusiness
<1>4. CASE FindService(q)
  BY <1>4 DEF FindService
<1>5. ASSUME NEW now \in Instants, FindHours(q, now) PROVE Frame
  BY <1>1, <1>5 DEF FindHours, HoursOn
<1>6. CASE ReadBusyBlocks(q)
  BY <1>6 DEF ReadBusyBlocks
<1>7. CASE ReadBusyBookings(q)
  BY <1>7 DEF ReadBusyBookings
<1>8. CASE OfferSlots(q)
  BY <1>8 DEF OfferSlots
<1>9. CASE FailSlots(q)
  BY <1>9 DEF FailSlots
<1>10. QED
  BY <1>2, <1>3, <1>4, <1>5, <1>6, <1>7, <1>8, <1>9 DEF SlotNext, SlotStep

LEMMA SlotKeeps ==
  ASSUME TypeInv, AnswerInv, RaceInv, SightInv, SlotInv,
         NEW q \in SlotRequests, SlotNext(q)
  PROVE  SlotInv'
<1>1. RowsAreTheirs /\ SlotTypeOK
  BY DEF SightInv, SlotInv
<1>2. /\ UNCHANGED vars
      /\ UNCHANGED <<dbVars, requestVars, blockVars, scheduleVars>>
  BY DEF SlotNext, vars
<1>3. HoursAreSettled'
  <2>1. \A h : Settled(h)' = Settled(h)
    BY <1>2 DEF Settled, scheduleVars
  <2>2. workingHours' = workingHours
    BY <1>2 DEF dbVars
  <2>3. QED
    BY <1>1, <2>1, <2>2, SlotFrame DEF SlotInv, HoursAreSettled
<1>4. ASSUME NEW p \in SlotRequests PROVE Offers(p)'
  <2>1. CASE p = q
    BY <1>1, <2>1, SlotOffers
  <2>2. CASE p # q
    <3>1. Offers(p)
      BY DEF SlotInv
    <3>2. /\ \A k : BlockRow(k)' = BlockRow(k) /\ Row(k)' = Row(k)
          /\ Ids(bookings)' = Ids(bookings) /\ bpc' = bpc
      BY <1>2 DEF dbVars, requestVars, blockVars, createBlockVars, BlockRow,
                  Row, Start, End, Ids
    <3>3. /\ spc'[p] = spc[p] /\ scall'[p] = scall[p]
          /\ sanswer'[p] = sanswer[p] /\ shours'[p] = shours[p]
          /\ opening'[p] = opening[p] /\ slots'[p] = slots[p]
          /\ busyBlocks'[p] = busyBlocks[p]
          /\ busyBookings'[p] = busyBookings[p]
          /\ offeredBlocks'[p] = offeredBlocks[p]
          /\ offeredBookings'[p] = offeredBookings[p]
      BY <1>1, <2>2, SlotFrame
    <3>4. SlotProgress(p)' /\ FoundHours(p)' /\ OffersCandidates(p)'
      BY <3>1, <3>3 DEF Offers, SlotProgress, FoundHours, OffersCandidates,
         Short, Opening, GenerateCandidates, Candidates
    <3>5. BusyBetween(p)'
      BY <3>1, <3>2, <3>3 DEF Offers, BusyBetween, Overlaps
    <3>6. QED
      BY <3>4, <3>5 DEF Offers
  <2>3. QED
    BY <2>1, <2>2
<1>5. ASSUME NEW p \in SlotRequests, NEW r \in BookingRequests
      PROVE  SeesLater(r, p)'
  <2>1. /\ UNCHANGED <<pc, call, awaiting, answer, sawBookings, workingHours,
                       bookings>>
        /\ HasRead(r)' = HasRead(r) /\ Start(r)' = Start(r)
        /\ Ids(bookings)' = Ids(bookings)
    BY <1>2 DEF requestVars, dbVars, HasRead, Start, Ids
  <2>2. CASE p = q
    <3>1. spc'[q] = "done" /\ r \notin early'[q] => pc[r] = "idle"
      BY <1>1, SlotFrame
    <3>2. pc[r] = "idle" => /\ ~HasRead(r) /\ r \notin Ids(bookings)
                            /\ answer[r] = "none"
      BY DEF HasRead, AnswerInv
    <3>3. QED
      BY <2>1, <2>2, <3>1, <3>2 DEF SeesLater
  <2>3. CASE p # q
    <3>1. /\ spc'[p] = spc[p] /\ early'[p] = early[p]
          /\ shours'[p] = shours[p]
          /\ offeredBookings'[p] = offeredBookings[p]
      BY <1>1, <2>3, SlotFrame
    <3>2. QED
      BY <2>1, <3>1 DEF SlotInv, SeesLater
  <2>4. QED
    BY <2>2, <2>3
<1>6. QED
  BY <1>1, <1>3, <1>4, <1>5, SlotFrame DEF SlotInv

LEMMA SlotStepInv ==
  ASSUME TypeInv, AnswerInv, RaceInv, SightInv, SlotInv,
         [AvailabilityNext]_<<vars, slotVars>>
  PROVE  SlotInv'
<1>1. ASSUME [Next]_vars, UNCHANGED slotVars
      PROVE  SlotInv'
  <2>1. SlotTypeOK'
    BY <1>1 DEF slotVars, SlotInv, SlotTypeOK
  <2>2. HoursAreSettled'
    BY <1>1, HoursNeverReturn DEF SlotInv, HoursAreSettled, slotVars
  <2>3. \A q \in SlotRequests : Offers(q)'
    BY <1>1, OffersStay DEF SlotInv, SightInv
  <2>4. \A q \in SlotRequests, r \in BookingRequests : SeesLater(r, q)'
    BY <1>1, LaterStays DEF SightInv
  <2>5. QED
    BY <2>1, <2>2, <2>3, <2>4 DEF SlotInv
<1>2. ASSUME NEW q \in SlotRequests, SlotNext(q)
      PROVE  SlotInv'
  BY <1>2, SlotKeeps
<1>3. QED
  BY <1>1, <1>2 DEF AvailabilityNext

\* Beside requests for slots the engine behaves as without them: they change
\* nothing.
THEOREM SlotsOnlyRead == AvailabilitySpec => Spec
<1>1. AvailabilityInit => Init
  BY DEF AvailabilityInit
<1>2. [AvailabilityNext]_<<vars, slotVars>> => [Next]_vars
  BY DEF AvailabilityNext, SlotNext
<1>3. QED
  BY <1>1, <1>2, PTL DEF AvailabilitySpec, Spec

\* An offer is made of the rows that were there when it was computed, and who
\* asks for a booking later sees those bookings again.
THEOREM AlwaysSlotInv == AvailabilitySpec => []SlotInv
<1>1. AvailabilitySpec => [](TypeInv /\ AnswerInv /\ RaceInv /\ SightInv)
  BY SlotsOnlyRead, AlwaysTypeInv, AlwaysAnswerInv, AlwaysRaceInv,
     AlwaysSightInv, PTL
<1>2. TypeInv /\ AnswerInv /\ RaceInv /\ SightInv /\ SlotInv
        /\ [AvailabilityNext]_<<vars, slotVars>> => SlotInv'
  BY SlotStepInv
<1>3. QED
  BY <1>1, <1>2, SlotInit, PTL DEF AvailabilitySpec

-----------------------------------------------------------------------------
(***************************************************************************)
(* Offers.                                                                 *)
(***************************************************************************)

LEMMA InstantIsInt ==
  ASSUME ZonesAreOrdinary, NEW b \in Businesses, NEW wall \in Int,
         NEW now \in Instants
  PROVE  FixOffset(b, wall, UtcOffset(b, now)) \in Int
<1> DEFINE o == UtcOffset(b, now)
           o2 == UtcOffset(b, wall - o)
           o3 == UtcOffset(b, wall - o2)
<1>1. \A t \in Int : UtcOffset(b, t) \in Int
  BY DayLengthAssumption DEF ZonesAreOrdinary, Offsets
<1>2. o \in Int
  BY DayLengthAssumption DEF ZonesAreOrdinary, OneShift, Offsets
<1> HIDE DEF o
<1>3. o2 \in Int
  BY <1>1, <1>2
<1>4. o3 \in Int
  BY <1>1, <1>3
<1>5. FixOffset(b, wall, o) \in {wall - o, wall - o2, wall - o3}
  BY DEF FixOffset
<1>6. QED
  BY <1>2, <1>3, <1>4, <1>5 DEF o

LEMMA OpeningIsInt ==
  ASSUME ZonesAreOrdinary, NEW q \in SlotRequests, FoundHours(q),
         shours[q] # NoHours
  PROVE  opening[q].open \in Int /\ opening[q].close \in Int
<1> DEFINE b == scall[q].business
           d == Day(Wall(b, scall[q].at))
           h == shours[q]
<1>1. /\ b \in Businesses /\ scall[q].at \in Int /\ h \in AllHours
      /\ \E now \in Instants : opening[q] = Opening(q, h, now)
  BY DEF FoundHours
<1>2. PICK now \in Instants : opening[q] = Opening(q, h, now)
  BY <1>1
<1>3. d \in Int
  BY <1>1, WallIsInt, MidnightBefore
<1>4. h.open \in 0 .. DayLength - 1 /\ h.close \in 0 .. DayLength - 1
  BY <1>1, HoursAreMinutes
<1>5. /\ opening[q].open
           = FixOffset(b, d * DayLength + h.open, UtcOffset(b, now))
      /\ opening[q].close
           = FixOffset(b, d * DayLength + h.close, UtcOffset(b, now))
  BY <1>2 DEF Opening, AtMinute
<1> HIDE DEF d
<1>6. d * DayLength + h.open \in Int /\ d * DayLength + h.close \in Int
  BY <1>3, <1>4, DayLengthAssumption
<1>7. QED
  BY <1>1, <1>5, <1>6, InstantIsInt

\* What a start that was offered is.
LEMMA OfferedStart ==
  ASSUME ZonesAreOrdinary, SlotInv, NEW q \in SlotRequests, NEW t \in slots[q]
  PROVE  LET d == Duration[scall[q].service]
         IN  /\ sanswer[q] = "offered" /\ shours[q] # NoHours
             /\ FoundHours(q) /\ BusyBetween(q)
             /\ opening[q].open \in Int /\ opening[q].close \in Int
             /\ d \in Nat \ {0} /\ t \in Int
             /\ opening[q].open <= t /\ t + d <= opening[q].close
             /\ \A x \in busyBlocks[q] \cup busyBookings[q] :
                  ~Overlaps(x, t, t + d)
<1> DEFINE d == Duration[scall[q].service]
<1>1. /\ sanswer[q] = "offered" /\ shours[q] # NoHours
      /\ t \in GenerateCandidates(q)
      /\ FoundHours(q) /\ BusyBetween(q)
  BY DEF SlotInv, Offers, OffersCandidates
<1>2. d \in Nat \ {0}
  BY <1>1, CatalogAssumption DEF FoundHours
<1>3. opening[q].open \in Int /\ opening[q].close \in Int
  BY <1>1, OpeningIsInt
<1>4. /\ t \in opening[q].open .. (opening[q].close - d - 0)
      /\ \A x \in busyBlocks[q] \cup busyBookings[q] : ~Overlaps(x, t, t + d)
  BY <1>1 DEF GenerateCandidates, Candidates
<1> HIDE DEF d
<1>5. t \in Int /\ opening[q].open <= t /\ t + d <= opening[q].close
  BY <1>2, <1>3, <1>4
<1>6. QED
  BY <1>1, <1>2, <1>3, <1>4, <1>5 DEF d

\* On a day with clear hours the opening time is the same for everyone, and an
\* offered start is inside the hours.
LEMMA OfferIsWithin ==
  ASSUME ZonesAreOrdinary, SlotInv, NEW q \in SlotRequests,
         NEW t \in slots[q], ClearOffer(q)
  PROVE  LET b == scall[q].business
             d == Duration[scall[q].service]
         IN  /\ WithinHours([business |-> b, start |-> t, end |-> t + d],
                            shours[q])
             /\ Day(Wall(b, t)) = Day(Wall(b, scall[q].at))
<1> DEFINE b == scall[q].business
           d == Duration[scall[q].service]
           at == scall[q].at
           h == shours[q]
           x == [business |-> b, start |-> t, end |-> t + d]
<1>1. /\ b \in Businesses /\ at \in Int /\ h \in AllHours
      /\ h.business = b /\ h.day = Weekday(b, at)
      /\ d \in Nat \ {0} /\ t \in Int
      /\ opening[q].open <= t /\ t + d <= opening[q].close
      /\ opening[q].close \in Int
  BY OfferedStart DEF FoundHours
<1>2. PICK now \in Instants : opening[q] = Opening(q, h, now)
  BY OfferedStart DEF FoundHours
<1>3. /\ opening[q].open = AtMinute(b, at, h.open, now)
      /\ opening[q].close = AtMinute(b, at, h.close, now)
  BY <1>2 DEF Opening
<1>4. ClearHours(b, at, h)
  BY DEF ClearOffer
<1> HIDE DEF b, d, at, h
<1>5. /\ x.business = b /\ x.start = t /\ x.end = t + d
      /\ x.start < x.end /\ x.end \in Int
  BY <1>1
<1>6. WithinHours(x, h) /\ Day(Wall(b, t)) = Day(Wall(b, at))
  BY <1>1, <1>3, <1>4, <1>5, WithinClearHours
<1>7. QED
  BY <1>6 DEF b, d, at, h

\* Every offer lies, tick by tick on the clock of the business, inside the
\* hours it was computed from, on days when that clock moves as well.
THEOREM OffersFitHours ==
  ASSUME ZonesAreOrdinary
  PROVE  AvailabilitySpec => []OffersInsideHours
<1>1. SlotInv => OffersInsideHours
  BY OfferIsWithin DEF OffersInsideHours
<1>2. QED
  BY <1>1, AlwaysSlotInv, PTL

\* r takes a start that q was offered: their times are the same, and so are
\* opening and closing.
LEMMA TakenStart ==
  ASSUME TypeInv, NEW q \in SlotRequests, NEW r \in BookingRequests,
         Takes(r, q)
  PROVE  /\ call[r] \in Calls /\ Start(r) \in Int
         /\ End(r) = Start(r) + Duration[scall[q].service]
         /\ call[r].business = scall[q].business
<1>1. call[r] \in Calls
  BY DEF TypeInv, TypeOK, BookingsTypeOK, Takes
<1>2. QED
  BY <1>1, CallsAssumption DEF SoundCall, Takes, Start, End

LEMMA OfferedBooks ==
  ASSUME ZonesAreOrdinary, TypeInv, RaceInv, SightInv, SlotInv
  PROVE  OfferedIsBookable
<1> SUFFICES ASSUME NEW q \in SlotRequests, NEW r \in BookingRequests,
                    Takes(r, q), Start(r) \in slots[q]
             PROVE  /\ answer[r] \notin {"business_not_found",
                                         "service_not_found"}
                    /\ answer[r] = "blocked" =>
                         ~(sawBlocks[r] \subseteq offeredBlocks[q])
                    /\ answer[r] = "reserved" =>
                         ~(sawBookings[r] \subseteq offeredBookings[q])
                    /\ ClearOffer(q) =>
                         /\ answer[r] = "outside_hours" => hours[r] # shours[q]
                         /\ answer[r] = "closed" => shours[q] \notin workingHours
  BY DEF OfferedIsBookable
<1> DEFINE b == scall[q].business
           d == Duration[scall[q].service]
           t == Start(r)
           o == opening[q].open
           c == opening[q].close
<1>1. /\ call[r] \in Calls /\ t \in Int /\ End(r) = t + d
      /\ call[r].business = b /\ call[r].service = scall[q].service
  BY TakenStart DEF Takes
<1>2. /\ shours[q] # NoHours /\ FoundHours(q) /\ BusyBetween(q)
      /\ o \in Int /\ c \in Int /\ d \in Nat \ {0}
      /\ o <= t /\ t + d <= c
      /\ \A x \in busyBlocks[q] \cup busyBookings[q] : ~Overlaps(x, t, t + d)
  BY OfferedStart
<1>3. /\ Sees(r)
      /\ b \in Businesses /\ scall[q].at \in Int /\ shours[q] \in AllHours
      /\ shours[q].business = b
      /\ shours[q].day = Weekday(b, scall[q].at)
  BY <1>2 DEF SightInv, FoundHours
<1>4. answer[r] \notin {"business_not_found", "service_not_found"}
  BY <1>1, <1>2, <1>3 DEF Sees, SeesCatalog, FoundHours
<1>5. ASSUME NEW x, x.start \in Int, x.end \in Int, Overlaps(x, t, t + d)
      PROVE  Overlaps(x, o, c)
  BY <1>1, <1>2, <1>5 DEF Overlaps
<1>6. ASSUME answer[r] = "blocked"
      PROVE  ~(sawBlocks[r] \subseteq offeredBlocks[q])
  <2>1. PICK k \in sawBlocks[r] : Overlaps(BlockRow(k), t, t + d)
    BY <1>1, <1>3, <1>6 DEF Sees, SeesConflicts, HitBlocks
  <2>2. k \in BlockRequests /\ bpc[k] = "done"
    BY DEF TypeInv, TypeOK, BookingsTypeOK, RaceInv, SeenWasThere
  <2>3. BlockRow(k).start \in Int /\ BlockRow(k).end \in Int
    BY <2>2, BlockCallsAssumption DEF SoundBlockCall, TypeInv, Progress,
       BlockProgress, BlockRow
  <2>4. k \in offeredBlocks[q] => BlockRow(k) \in busyBlocks[q]
    BY <1>2, <1>5, <2>1, <2>3 DEF BusyBetween
  <2>5. QED
    BY <1>2, <2>1, <2>4
<1>7. ASSUME answer[r] = "reserved"
      PROVE  ~(sawBookings[r] \subseteq offeredBookings[q])
  <2>1. PICK k \in sawBookings[r] : Overlaps(Row(k), t, t + d)
    BY <1>1, <1>3, <1>7 DEF Sees, SeesConflicts, HitBookings
  <2>2. ASSUME k \in offeredBookings[q]
        PROVE  Row(k).start \in Int /\ Row(k).end \in Int
    BY <1>2, <2>2 DEF BusyBetween, Ids, SightInv, RowsAreTheirs, TypeInv,
       TypeOK, DatabaseTypeOK, BookingRows
  <2>3. k \in offeredBookings[q] => Row(k) \in busyBookings[q]
    BY <1>2, <1>5, <2>1, <2>2 DEF BusyBetween
  <2>4. QED
    BY <1>2, <2>1, <2>3
<1>8. ASSUME ClearOffer(q)
      PROVE  Day(Wall(b, t)) = Day(Wall(b, scall[q].at))
  BY <1>8, OfferIsWithin
<1>9. ASSUME ClearOffer(q), answer[r] = "outside_hours"
      PROVE  hours[r] # shours[q]
  <2> SUFFICES ASSUME hours[r] = shours[q] PROVE FALSE
    OBVIOUS
  <2> DEFINE h == shours[q]
  <2>1. PICK now \in Instants : ~InsideHours(r, h, now)
    BY <1>3, <1>9 DEF Sees, SeesHours
  <2>2. PICK then \in Instants : opening[q] = Opening(q, h, then)
    BY <1>2 DEF FoundHours
  <2>3. /\ o = AtMinute(b, scall[q].at, h.open, then)
        /\ c = AtMinute(b, scall[q].at, h.close, then)
    BY <2>2 DEF Opening
  <2>4. h.open \in 0 .. DayLength - 1 /\ h.close \in 0 .. DayLength - 1
    BY <1>3, HoursAreMinutes
  <2>5. ClearHours(b, scall[q].at, h)
    BY <1>9 DEF ClearOffer
  <2>6. /\ AtMinute(b, t, h.open, now) = o
        /\ AtMinute(b, t, h.close, now) = c
    BY <1>1, <1>3, <1>8, <1>9, <2>3, <2>4, <2>5, ClearInstants
  <2>7. QED
    BY <1>1, <1>2, <2>1, <2>6 DEF InsideHours
<1>10. ASSUME ClearOffer(q), answer[r] = "closed"
       PROVE  shours[q] \notin workingHours
  <2>1. SeesLater(r, q)
    BY DEF SlotInv
  <2>2. spc[q] = "done" /\ r \notin early[q]
    BY DEF Takes
  <2>3. Weekday(b, t) = Weekday(b, scall[q].at)
    BY <1>8, <1>10 DEF Weekday
  <2>4. QED
    BY <1>1, <1>2, <1>3, <1>10, <2>1, <2>2, <2>3 DEF SeesLater
<1>11. QED
  BY <1>4, <1>6, <1>7, <1>9, <1>10

\* An offered start is one that create() accepts, unless a block or a booking
\* is newer than the offer, the hours are others or the client is the owner.
THEOREM OffersCanBeBooked ==
  ASSUME ZonesAreOrdinary
  PROVE  AvailabilitySpec => []OfferedIsBookable
<1>1. TypeInv /\ RaceInv /\ SightInv /\ SlotInv => OfferedIsBookable
  BY OfferedBooks
<1>2. AvailabilitySpec => [](TypeInv /\ RaceInv /\ SightInv)
  BY SlotsOnlyRead, AlwaysTypeInv, AlwaysRaceInv, AlwaysSightInv, PTL
<1>3. QED
  BY <1>1, <1>2, AlwaysSlotInv, PTL

LEMMA BookedWasOffered ==
  ASSUME ZonesAreOrdinary, TypeInv, RaceInv, SightInv, SlotInv
  PROVE  BookableIsOffered
<1> SUFFICES ASSUME NEW q \in SlotRequests, NEW r \in BookingRequests,
                    Takes(r, q), sanswer[q] = "offered",
                    r \in Ids(bookings), hours[r] = shours[q], ClearOffer(q),
                    Day(Wall(call[r].business, Start(r)))
                      = Day(Wall(call[r].business, scall[q].at)),
                    offeredBlocks[q] \subseteq sawBlocks[r]
             PROVE  Start(r) \in slots[q]
  BY DEF BookableIsOffered
<1> DEFINE b == scall[q].business
           d == Duration[scall[q].service]
           t == Start(r)
           o == opening[q].open
           c == opening[q].close
           h == shours[q]
<1>1. /\ call[r] \in Calls /\ t \in Int /\ End(r) = t + d
      /\ call[r].business = b
  BY TakenStart
<1>2. Checked(r) /\ InHours(r) /\ Sees(r)
  BY DEF Checked, InHours, SightInv
<1>3. h \in AllHours /\ h # NoHours
  BY <1>2, HoursAssumption DEF Sees, SeesHours
<1>4. FoundHours(q) /\ BusyBetween(q) /\ OffersCandidates(q)
  BY DEF SlotInv, Offers
<1>5. o \in Int /\ c \in Int
  BY <1>3, <1>4, OpeningIsInt
<1>6. d \in Nat \ {0} /\ b \in Businesses /\ scall[q].at \in Int
  BY <1>3, <1>4, CatalogAssumption DEF FoundHours
<1>7. o <= t /\ t + d <= c
  <2>1. PICK now \in Instants : InsideHours(r, h, now)
    BY <1>2 DEF Sees, SeesHours
  <2>2. PICK then \in Instants : opening[q] = Opening(q, h, then)
    BY <1>3, <1>4 DEF FoundHours
  <2>3. /\ o = AtMinute(b, scall[q].at, h.open, then)
        /\ c = AtMinute(b, scall[q].at, h.close, then)
    BY <2>2 DEF Opening
  <2>4. h.open \in 0 .. DayLength - 1 /\ h.close \in 0 .. DayLength - 1
    BY <1>3, HoursAreMinutes
  <2>5. ClearHours(b, scall[q].at, h)
    BY DEF ClearOffer
  <2>6. /\ AtMinute(b, t, h.open, now) = o
        /\ AtMinute(b, t, h.close, now) = c
    BY <1>1, <1>6, <2>3, <2>4, <2>5, ClearInstants
  <2>7. QED
    BY <1>1, <1>5, <1>6, <2>1, <2>6 DEF InsideHours
<1>8. \A x \in busyBlocks[q] : ~Overlaps(x, t, t + d)
  BY <1>1, <1>2, <1>4 DEF BusyBetween, Sees, SeesConflicts, HitBlocks
<1>9. \A x \in busyBookings[q] : ~Overlaps(x, t, t + d)
  <2>1. spc[q] = "done" /\ r \notin early[q] /\ SeesLater(r, q)
    BY DEF Takes, SlotInv
  <2>2. offeredBookings[q] \subseteq sawBookings[r]
    BY <2>1 DEF SeesLater
  <2>3. QED
    BY <1>1, <1>2, <1>4, <2>2
       DEF BusyBetween, Sees, SeesConflicts, HitBookings
<1> HIDE DEF b, t, o, c, h
<1>10. ~Short(q)
  BY <1>1, <1>5, <1>6, <1>7 DEF Short, o, c
<1>11. t \in o .. (c - d - 0)
  BY <1>1, <1>5, <1>6, <1>7
<1>12. t \in GenerateCandidates(q)
  BY <1>8, <1>9, <1>11 DEF GenerateCandidates, Candidates, o, c
<1>13. QED
  BY <1>3, <1>4, <1>10, <1>12 DEF OffersCandidates, h, t

\* A start that create() accepted later was offered, unless a block that stood
\* in its way has gone or the hours are others.
THEOREM BookableWasOffered ==
  ASSUME ZonesAreOrdinary
  PROVE  AvailabilitySpec => []BookableIsOffered
<1>1. TypeInv /\ RaceInv /\ SightInv /\ SlotInv => BookableIsOffered
  BY BookedWasOffered
<1>2. AvailabilitySpec => [](TypeInv /\ RaceInv /\ SightInv)
  BY SlotsOnlyRead, AlwaysTypeInv, AlwaysRaceInv, AlwaysSightInv, PTL
<1>3. QED
  BY <1>1, <1>2, AlwaysSlotInv, PTL
=============================================================================
