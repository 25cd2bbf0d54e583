--------------------------- MODULE GatewayProofs ---------------------------
(***************************************************************************)
(* The three routes with their pipes, for every set of bodies: what a pipe *)
(* lets pass is a call that the engine is specified for, so that the routes*)
(* implement the engine, and what comes to be in the tables is what was    *)
(* sent.  Nothing is assumed of the bodies but that JSON.parse made them.  *)
(***************************************************************************)
EXTENDS Gateway, TLAPS

-----------------------------------------------------------------------------
(***************************************************************************)
(* Ticks.  What is aligned is a whole number of ticks, in the same order;  *)
(* what is not is between two of them.                                     *)
(***************************************************************************)
LEMMA TickBounds ==
  ASSUME NEW m \in Int
  PROVE  /\ Tick(m) \in Int /\ TickUp(m) \in Int
         /\ Resolution * Tick(m) <= m /\ m < Resolution * Tick(m) + Resolution
         /\ m <= Resolution * TickUp(m)
         /\ Resolution * TickUp(m) < m + Resolution
<1>1. ASSUME NEW n \in Int
      PROVE  /\ n \div Resolution \in Int
             /\ Resolution * (n \div Resolution) <= n
             /\ n < Resolution * (n \div Resolution) + Resolution
  BY ResolutionAssumption
<1>2. Resolution \in Int /\ m + Resolution - 1 \in Int
  BY ResolutionAssumption
<1>3. QED
  BY <1>1, <1>2 DEF Tick, TickUp

LEMMA TickScales ==
  ASSUME NEW m \in Int, Aligned(m)
  PROVE  Tick(m) \in Int /\ m = Resolution * Tick(m)
BY ResolutionAssumption DEF Aligned, Tick

\* Multiples of the resolution are in the order of their ticks.
LEMMA Scaled ==
  ASSUME NEW a \in Int, NEW b \in Int
  PROVE  /\ a <= b => a * Resolution <= b * Resolution
         /\ a * Resolution < b * Resolution => a < b
BY ResolutionAssumption

LEMMA TickOrder ==
  ASSUME NEW m \in Int, NEW n \in Int, Aligned(m), Aligned(n), m < n
  PROVE  Tick(m) < Tick(n)
<1> DEFINE a == Tick(m)
           b == Tick(n)
<1>1. a \in Int /\ b \in Int /\ Resolution * a < Resolution * b
  BY TickScales
<1> HIDE DEF a, b
<1>2. a < b
  BY <1>1, ResolutionAssumption
<1>3. QED
  BY <1>2 DEF a, b

\* The minutes of a day fall into its ticks, and reach up to its last one.
LEMMA TickOfDay ==
  ASSUME NEW m \in Int, 0 <= m, m < DayLength * Resolution
  PROVE  /\ Tick(m) \in 0 .. DayLength - 1
         /\ TickUp(m) \in 0 .. DayLength
<1> DEFINE a == Tick(m)
           c == TickUp(m)
<1>1. /\ a \in Int /\ c \in Int
      /\ Resolution * a <= m /\ m < Resolution * a + Resolution
      /\ m <= Resolution * c /\ Resolution * c < m + Resolution
  BY TickBounds
<1> HIDE DEF a, c
<1>2. DayLength \in Int /\ Resolution \in Int /\ Resolution > 0
  BY DayLengthAssumption, ResolutionAssumption
<1>3. a < DayLength
  BY <1>1, <1>2, Resolution * a < Resolution * DayLength
<1>4. 0 <= a
  <2>1. 0 < Resolution * (a + 1)
    BY <1>1, <1>2
  <2>2. 0 < a + 1
    BY <1>1, <1>2, <2>1
  <2>3. QED
    BY <1>1, <2>2
<1>5. c <= DayLength
  <2>1. Resolution * c < Resolution * (DayLength + 1)
    BY <1>1, <1>2
  <2>2. c < DayLength + 1
    BY <1>1, <1>2, <2>1
  <2>3. QED
    BY <1>1, <1>2, <2>2
<1>6. 0 <= c
  <2>1. 0 <= Resolution * c
    BY <1>1, <1>2
  <2>2. QED
    BY <1>1, <1>2, <2>1
<1>7. QED
  BY <1>1, <1>2, <1>3, <1>4, <1>5, <1>6 DEF a, c

-----------------------------------------------------------------------------
(***************************************************************************)
(* What each pipe establishes of a body it passes, as the handler reads it.*)
(***************************************************************************)
LEMMA DateTimes ==
  ASSUME NEW v \in RawTimes, IsDateTime(v)
  PROVE  /\ v.minute \in Int /\ v.offset \in Int
         /\ Aligned(v.minute)
         /\ Tick(v.minute) \in Int /\ Tick(v.minute) * Resolution = v.minute
         /\ WallMinute(v) \in Int
         /\ 0 <= WallMinute(v) /\ WallMinute(v) < DayLength * Resolution
<1>1. v.minute \in Int /\ v.offset \in Int /\ Aligned(v.minute)
  BY DEF RawTimes, IsDateTime
<1>2. DayLength * Resolution \in Int /\ DayLength * Resolution > 0
  BY DayLengthAssumption, ResolutionAssumption
<1>3. \A m, n \in Int : n > 0 => /\ m % n \in Int
                                 /\ 0 <= m % n /\ m % n < n
  OBVIOUS
<1>4. v.minute + v.offset \in Int
  BY <1>1
<1>5. /\ WallMinute(v) \in Int
      /\ 0 <= WallMinute(v) /\ WallMinute(v) < DayLength * Resolution
  BY <1>2, <1>3, <1>4 DEF WallMinute
<1>6. QED
  BY <1>1, <1>5, TickScales, ResolutionAssumption

LEMMA BlockTimes ==
  ASSUME NEW b \in BlockBodies, TakesBlock(b)
  PROVE  /\ b.user \in Users
         /\ b.start \in RawTimes /\ IsDateTime(b.start)
         /\ b.end \in RawTimes /\ IsDateTime(b.end)
         /\ b.start.minute < b.end.minute
BY BodiesAssumption DEF TakesBlock, AvailabilityBlockDto, ReadsBlock

LEMMA BlockTicks ==
  ASSUME NEW b \in BlockBodies, TakesBlock(b)
  PROVE  Tick(b.start.minute) < Tick(b.end.minute)
BY BlockTimes, DateTimes, TickOrder

LEMMA BookingCallIsSound ==
  ASSUME NEW b \in BookingBodies, TakesBooking(b)
  PROVE  SoundCall(BookingCall(b))
<1>1. b.user \in Users /\ b.start \in RawTimes /\ IsDateTime(b.start)
  BY BodiesAssumption DEF TakesBooking, CreateBookingDto
<1>2. Tick(b.start.minute) \in Int
  BY <1>1, DateTimes
<1>3. QED
  BY <1>1, <1>2 DEF BookingCall, SoundCall

LEMMA BlockCallIsSound ==
  ASSUME NEW b \in BlockBodies, TakesBlock(b)
  PROVE  SoundBlockCall(BlockCall(b))
<1>1. /\ Tick(b.start.minute) \in Int /\ Tick(b.end.minute) \in Int
      /\ Tick(b.start.minute) < Tick(b.end.minute)
  BY BlockTimes, BlockTicks, DateTimes
<1>2. /\ Tick(WallMinute(b.start)) \in 0 .. DayLength - 1
      /\ TickUp(WallMinute(b.end)) \in 0 .. DayLength
  BY BlockTimes, DateTimes, TickOfDay
<1>3. QED
  BY <1>1, <1>2, BlockTimes DEF BlockCall, SoundBlockCall

\* An entry that the pipe looked into.
LEMMA DayTicks ==
  ASSUME NEW d, SingleDayDto(d)
  PROVE  /\ d.day \in 0 .. 6 /\ d.open < d.close
         /\ Tick(d.open) \in 0 .. DayLength - 1
         /\ Tick(d.close) \in 0 .. DayLength - 1
         /\ Tick(d.open) < Tick(d.close)
         /\ Tick(d.open) * Resolution = d.open
         /\ Tick(d.close) * Resolution = d.close
<1> DEFINE o == d.open
           c == d.close
<1>1. d.day \in 0 .. 6 /\ IsTime(o) /\ IsTime(c) /\ o < c
  BY DEF SingleDayDto, IsTime, IsTimeRange
<1> HIDE DEF o, c
<1>2. DayLength * Resolution \in Int
  BY DayLengthAssumption, ResolutionAssumption
<1>3. /\ o \in Int /\ 0 <= o /\ o < DayLength * Resolution /\ Aligned(o)
      /\ c \in Int /\ 0 <= c /\ c < DayLength * Resolution /\ Aligned(c)
  BY <1>1, <1>2 DEF IsTime, IsHHmm
<1>4. /\ Tick(o) \in 0 .. DayLength - 1 /\ Tick(c) \in 0 .. DayLength - 1
      /\ Tick(o) < Tick(c)
  BY <1>1, <1>3, TickOfDay, TickOrder
<1>5. Tick(o) * Resolution = o /\ Tick(c) * Resolution = c
  BY <1>3, TickScales, ResolutionAssumption
<1>6. QED
  BY <1>1, <1>4, <1>5 DEF o, c

\* A week whose entries are all entries: the pipe looked into each of them,
\* and no two are of one day.
LEMMA WholeWeek ==
  ASSUME NEW b \in WeekBodies, TakesWeek(b), ~Broken(b)
  PROVE  /\ \A i \in DOMAIN b.days : b.days[i] # Null
                                     /\ SingleDayDto(b.days[i])
         /\ \A i, j \in DOMAIN b.days : i # j => b.days[i].day # b.days[j].day
<1>1. \A i \in DOMAIN b.days : b.days[i] # Null
  BY DEF Broken, Entries
<1>2. \A i \in DOMAIN b.days : SingleDayDto(b.days[i])
  BY <1>1 DEF TakesWeek, WeekScheduleDto, ValidateNested
<1>3. \A i \in DOMAIN b.days : HasDay(b.days[i])
  BY <1>1, <1>2 DEF SingleDayDto, HasDay
<1>4. QED
  BY <1>1, <1>2, <1>3 DEF TakesWeek, WeekScheduleDto, NoDuplicateDay

LEMMA WeekCallIsSound ==
  ASSUME NEW b \in WeekBodies, TakesWeek(b)
  PROVE  SoundWeekCall(WeekCall(b))
<1>1. b.user \in Users /\ Broken(b) \in BOOLEAN
  BY BodiesAssumption DEF Broken
<1>2. CASE Broken(b)
  BY <1>1, <1>2 DEF WeekCall, SoundWeekCall
<1>3. CASE ~Broken(b)
  <2>1. WeekCall(b).days = {DayCall(b.days[i]) : i \in DOMAIN b.days}
    BY <1>3 DEF WeekCall
  <2>2. \A i \in DOMAIN b.days :
          /\ DayCall(b.days[i]) \in [day : 0 .. 6, open : 0 .. DayLength - 1,
                                     close : 0 .. DayLength - 1]
          /\ DayCall(b.days[i]).open < DayCall(b.days[i]).close
    BY <1>3, WholeWeek, DayTicks DEF DayCall
  <2>3. \A i, j \in DOMAIN b.days :
          DayCall(b.days[i]).day = DayCall(b.days[j]).day => i = j
    BY <1>3, WholeWeek DEF DayCall
  <2>4. QED
    BY <1>1, <1>3, <2>1, <2>2, <2>3 DEF WeekCall, SoundWeekCall
<1>4. QED
  BY <1>2, <1>3

\* Hours are Integers: the first ones, and those of a week that a pipe took.
LEMMA SentHoursAreInts ==
  ASSUME NEW h \in SentHours
  PROVE  h.open \in Int /\ h.close \in Int
<1>1. CASE h \in InitialHours
  BY <1>1, CatalogAssumption, DayLengthAssumption
<1>2. ASSUME NEW w \in ScheduleRequests, NEW b \in WeekBodies, TakesWeek(b),
             h \in RowsOf(w, WeekCall(b))
      PROVE  h.open \in Int /\ h.close \in Int
  <2>1. \A d \in WeekCall(b).days : d.open \in Int /\ d.close \in Int
    BY <1>2, WeekCallIsSound, DayLengthAssumption DEF SoundWeekCall
  <2>2. QED
    BY <1>2, <2>1 DEF RowsOf
<1>3. QED
  BY <1>1, <1>2 DEF SentHours

\* Every call that comes out of a pipe has what Scheduling, Bookings,
\* AvailabilityBlocks and WeeklySchedule assume of their calls: the checks of
\* the DTOs, none of which says so alone, add up to it, and a week that they
\* do not see through is one that the handler throws at.
THEOREM PipesEnsureCalls ==
  /\ \A b \in BookingBodies : TakesBooking(b) => SoundCall(BookingCall(b))
  /\ \A b \in BlockBodies : TakesBlock(b) => SoundBlockCall(BlockCall(b))
  /\ \A b \in WeekBodies : TakesWeek(b) => SoundWeekCall(WeekCall(b))
BY BookingCallIsSound, BlockCallIsSound, WeekCallIsSound

-----------------------------------------------------------------------------
(***************************************************************************)
(* The invariant.  A request in flight carries a body that its pipe passed,*)
(* and its call is what the handler made of it; a row is of a request in   *)
(* flight or answered, and has what its call says; the hours are some      *)
(* week's, all of it or none.                                              *)
(***************************************************************************)
DomainsOK ==
  /\ DOMAIN pc = BookingRequests /\ DOMAIN call = BookingRequests
  /\ DOMAIN bpc = BlockRequests /\ DOMAIN bcall = BlockRequests
  /\ DOMAIN wpc = ScheduleRequests /\ DOMAIN wcall = ScheduleRequests
  /\ DOMAIN snapshot = ScheduleRequests
  /\ DOMAIN body = BodyRequests

BookingCarried(r) ==
  pc[r] # "idle" => /\ body[r] \in BookingBodies /\ TakesBooking(body[r])
                    /\ call[r] = BookingCall(body[r])

BlockCarried(r) ==
  bpc[r] # "idle" => /\ body[r] \in BlockBodies /\ TakesBlock(body[r])
                     /\ bcall[r] = BlockCall(body[r])

WeekCarried(w) ==
  wpc[w] # "idle" => /\ body[w] \in WeekBodies /\ TakesWeek(body[w])
                     /\ wcall[w] = WeekCall(body[w])

CarriedOK ==
  /\ \A r \in BookingRequests : BookingCarried(r)
  /\ \A r \in BlockRequests : BlockCarried(r)
  /\ \A w \in ScheduleRequests : WeekCarried(w)

\* A booking is of a request past its pipe.
BookingRowsOK ==
  \A x \in bookings : /\ x.id \in BookingRequests /\ pc[x.id] # "idle"
                      /\ x.start = call[x.id].start

\* Block request r was compared with hours its business had or was sent.
FitsSent(r) ==
  \E h \in SentHours : /\ h.business = bcall[r].business
                       /\ InsideBlockHours(bcall[r], h)

BlockRowsOK ==
  /\ \A x \in blocks : /\ x.id \in BlockRequests /\ bpc[x.id] # "idle"
                       /\ x.business = bcall[x.id].business
                       /\ x.start = bcall[x.id].start
                       /\ x.end = bcall[x.id].end
                       /\ FitsSent(x.id)
  /\ \A r \in BlockRequests : bpc[r] = "insert" => FitsSent(r)

RowsBy(w) == {h \in workingHours : h.by = w}

HoursOK ==
  /\ workingHours \subseteq SentHours
  /\ \A w \in ScheduleRequests :
       /\ wpc[w] = "commit" => ~wcall[w].broken
       /\ RowsBy(w) # {} => /\ wpc[w] = "done" /\ ~wcall[w].broken
                            /\ RowsBy(w) = RowsOf(w, wcall[w])

GatewayInv ==
  DomainsOK /\ CarriedOK /\ BookingRowsOK /\ BlockRowsOK /\ HoursOK

LEMMA GatewayBase == GatewayInit => GatewayInv
<1> SUFFICES ASSUME GatewayInit PROVE GatewayInv
  OBVIOUS
<1> USE DEF GatewayInit, Init, DatabaseInit, BookingsInit, BlocksInit,
            ScheduleInit
<1>1. DomainsOK /\ CarriedOK
  BY DEF DomainsOK, CarriedOK, BookingCarried, BlockCarried, WeekCarried
<1>2. BookingRowsOK /\ BlockRowsOK
  BY DEF BookingRowsOK, BlockRowsOK
<1>3. \A w \in ScheduleRequests : RowsBy(w) = {}
  BY HoursAssumption DEF RowsBy
<1>4. HoursOK
  BY <1>3 DEF HoursOK, SentHours
<1>5. QED
  BY <1>1, <1>2, <1>4 DEF GatewayInv

-----------------------------------------------------------------------------
(***************************************************************************)
(* Steps.  Each handler leaves the other ones' variables alone.            *)
(***************************************************************************)
BookingSide == <<pc, call, bookings>>
BlockSide   == <<bpc, bcall, blocks>>
WeekSide    == <<wpc, wcall, snapshot, workingHours>>

\* A handler of a booking goes on: its call stays, and a new row is its own.
LEMMA BookingHandler ==
  ASSUME GatewayInv, UNCHANGED body, NEW r \in BookingRequests,
         pc[r] # "idle", BookingNext(r)
  PROVE  GatewayInv'
<1>1. UNCHANGED <<BlockSide, WeekSide, call>>
  BY DEF BookingNext, BookingStep, BookingMove, StartCreate,
     ValidateBusiness, ValidateService, GetWorkingHours, ReadBlocks,
     ReadBookings, CheckReserved, CreateBookingRecord, LoseCommit,
     EnqueueBookingCreated, LoseReply, Fail, dbVars, blockVars,
     createBlockVars, scheduleVars, BlockSide, WeekSide
<1>2. /\ DOMAIN pc' = BookingRequests /\ pc'[r] # "idle"
      /\ \A q \in BookingRequests \ {r} : pc'[q] = pc[q]
      /\ bookings' = bookings \/ bookings' = bookings \cup {Row(r)}
  <2>1. DOMAIN pc = BookingRequests
    BY DEF GatewayInv, DomainsOK
  <2>2. \/ \E p : p # "idle" /\ pc' = [pc EXCEPT ![r] = p]
        \/ UNCHANGED pc
    BY DEF BookingNext, BookingStep, BookingMove, StartCreate,
       ValidateBusiness, ValidateService, GetWorkingHours, ReadBlocks,
       ReadBookings, CheckReserved, CreateBookingRecord, LoseCommit,
       EnqueueBookingCreated, LoseReply, Fail, Goto, Finish
  <2>3. bookings' = bookings \/ bookings' = bookings \cup {Row(r)}
    BY DEF BookingNext, BookingStep, BookingMove, StartCreate,
       ValidateBusiness, ValidateService, GetWorkingHours, ReadBlocks,
       ReadBookings, CheckReserved, CreateBookingRecord, LoseCommit,
       EnqueueBookingCreated, LoseReply, Fail, dbVars
  <2>4. QED
    BY <2>1, <2>2, <2>3
<1>3. DomainsOK'
  BY <1>1, <1>2 DEF GatewayInv, DomainsOK, BlockSide, WeekSide
<1>4. \A q \in BookingRequests : pc'[q] # "idle" <=> pc[q] # "idle"
  BY <1>2 DEF GatewayInv, DomainsOK
<1>5. CarriedOK'
  BY <1>1, <1>4 DEF GatewayInv, CarriedOK, BookingCarried, BlockCarried,
     WeekCarried, BlockSide, WeekSide
<1>6. BookingRowsOK'
  BY <1>1, <1>2, <1>4 DEF GatewayInv, BookingRowsOK, Row, Start
<1>7. BlockRowsOK' /\ HoursOK'
  BY <1>1 DEF GatewayInv, BlockRowsOK, FitsSent, InsideBlockHours, HoursOK,
     RowsBy, RowsOf, BlockSide, WeekSide
<1>8. QED
  BY <1>3, <1>5, <1>6, <1>7 DEF GatewayInv

\* A handler of a block: what it inserts was inside hours that it had read.
LEMMA BlockHandler ==
  ASSUME GatewayInv, UNCHANGED body, NEW r \in BlockRequests,
         bpc[r] # "idle", BlockNext(r)
  PROVE  GatewayInv'
<1>1. UNCHANGED <<BookingSide, WeekSide, bcall>>
  BY DEF BlockNext, BlockStep, BlockMove, StartBlock, GuardBlock,
     ValidateBlockBusiness, ReadOverlap, ReadBlockHours, CreateBlockRecord,
     FailBlock, dbVars, requestVars, scheduleVars, BookingSide, WeekSide
<1>2. /\ bpc' = [bpc EXCEPT ![r] = bpc'[r]] /\ bpc'[r] # "idle"
      /\ bpc'[r] = "insert" => FitsSent(r)
      /\ \/ blocks' = blocks
         \/ bpc[r] = "insert" /\ blocks' = blocks \cup {BlockRow(r)}
  <2>1. DOMAIN bpc = BlockRequests
    BY DEF GatewayInv, DomainsOK
  <2>2. CASE ReadBlockHours(r)
    <3>1. HoursOf(bcall[r].business) \subseteq SentHours
      BY DEF GatewayInv, HoursOK, HoursOf
    <3>2. \A h \in HoursOf(bcall[r].business) : h.business = bcall[r].business
      BY DEF HoursOf
    <3>3. \/ FinishBlock(r, "hours_not_found")
          \/ FinishBlock(r, "outside_hours")
          \/ GotoBlock(r, "insert") /\ FitsSent(r)
      BY <2>2, <3>1, <3>2 DEF ReadBlockHours, FitsSent
    <3>4. UNCHANGED blocks
      BY <2>2 DEF ReadBlockHours, dbVars
    <3>5. QED
      BY <2>1, <3>3, <3>4 DEF FinishBlock, GotoBlock
  <2>3. CASE ~ReadBlockHours(r)
    BY <2>1, <2>3 DEF BlockNext, BlockStep, BlockMove, StartBlock, GuardBlock,
       ValidateBlockBusiness, ReadOverlap, CreateBlockRecord,
       FailBlock, dbVars, FinishBlock, GotoBlock
  <2>4. QED
    BY <2>2, <2>3
<1>3. DomainsOK'
  BY <1>1, <1>2 DEF GatewayInv, DomainsOK, BookingSide, WeekSide
<1>4. \A q \in BlockRequests : bpc'[q] # "idle" <=> bpc[q] # "idle"
  BY <1>2 DEF GatewayInv, DomainsOK
<1>5. CarriedOK'
  BY <1>1, <1>4 DEF GatewayInv, CarriedOK, BookingCarried, BlockCarried,
     WeekCarried, BookingSide, WeekSide
<1>6. BlockRowsOK'
  <2>1. \A q \in BlockRequests : FitsSent(q)' <=> FitsSent(q)
    BY <1>1 DEF FitsSent, InsideBlockHours
  <2>2. \A q \in BlockRequests \ {r} : bpc'[q] = bpc[q]
    BY <1>2 DEF GatewayInv, DomainsOK
  <2>3. \A q \in BlockRequests : bpc'[q] = "insert" => FitsSent(q)
    BY <1>2, <2>2 DEF GatewayInv, BlockRowsOK
  <2>4. \A x \in blocks' : x \in blocks \/ (x = BlockRow(r) /\ FitsSent(r))
    BY <1>2 DEF GatewayInv, BlockRowsOK
  <2>5. \A x \in blocks' : /\ x.id \in BlockRequests /\ bpc'[x.id] # "idle"
                           /\ x.business = bcall[x.id].business
                           /\ x.start = bcall[x.id].start
                           /\ x.end = bcall[x.id].end
                           /\ FitsSent(x.id)
    BY <1>2, <1>4, <2>4 DEF GatewayInv, BlockRowsOK, BlockRow
  <2>6. QED
    BY <1>1, <2>1, <2>3, <2>5 DEF BlockRowsOK
<1>7. BookingRowsOK' /\ HoursOK'
  BY <1>1 DEF GatewayInv, BookingRowsOK, HoursOK, RowsBy, RowsOf,
     BookingSide, WeekSide
<1>8. QED
  BY <1>3, <1>5, <1>6, <1>7 DEF GatewayInv

\* A deletion only takes rows away.
LEMMA DeleteHandler ==
  ASSUME GatewayInv, UNCHANGED body, NEW r \in DeleteRequests, DeleteNext(r)
  PROVE  GatewayInv'
<1>1. /\ UNCHANGED <<BookingSide, WeekSide, bpc, bcall>>
      /\ blocks' \subseteq blocks
  BY DEF DeleteNext, DeleteStep, DeleteMove, StartDelete, GuardDelete,
     DeleteBlock, FailDelete, dbVars, requestVars, createBlockVars,
     scheduleVars, BookingSide, WeekSide
<1>2. DomainsOK' /\ CarriedOK'
  BY <1>1 DEF GatewayInv, DomainsOK, CarriedOK, BookingCarried, BlockCarried,
     WeekCarried, BookingSide, WeekSide
<1>3. BlockRowsOK'
  BY <1>1 DEF GatewayInv, BlockRowsOK, FitsSent, InsideBlockHours
<1>4. BookingRowsOK' /\ HoursOK'
  BY <1>1 DEF GatewayInv, BookingRowsOK, HoursOK, RowsBy, RowsOf,
     BookingSide, WeekSide
<1>5. QED
  BY <1>2, <1>3, <1>4 DEF GatewayInv

\* A handler of a week: it commits a whole week, in place of the rows of its
\* business, which may be the whole week of another request.
LEMMA WeekHandler ==
  ASSUME GatewayInv, UNCHANGED body, NEW w \in ScheduleRequests,
         wpc[w] # "idle", ScheduleNext(w)
  PROVE  GatewayInv'
<1>1. UNCHANGED <<BookingSide, BlockSide, wcall>>
  BY DEF ScheduleNext, ScheduleStep, ScheduleMove, StartSchedule,
     GuardSchedule, DeleteWeek, CommitWeek, Lost, FailSchedule, dbVars,
     requestVars, blockVars, createBlockVars, BookingSide, BlockSide
<1>2. /\ DOMAIN wpc = ScheduleRequests /\ DOMAIN snapshot = ScheduleRequests
      /\ CarriedOK /\ HoursOK
  BY DEF GatewayInv, DomainsOK
<1>3. /\ DOMAIN wpc' = ScheduleRequests /\ DOMAIN snapshot' = ScheduleRequests
      /\ wpc[w] # "done" /\ wpc'[w] # "idle"
      /\ \A v \in ScheduleRequests \ {w} : wpc'[v] = wpc[v]
      /\ wpc'[w] = "commit" => ~wcall[w].broken
      /\ \/ workingHours' = workingHours
         \/ /\ wpc[w] = "commit" /\ wpc'[w] = "done"
            /\ workingHours' = (workingHours \ HoursOf(wcall[w].business))
                                 \cup RowsOf(w, wcall[w])
  <2> USE <1>2 DEF GotoSchedule, FinishSchedule, dbVars
  <2>1. CASE GuardSchedule(w)
    BY <2>1 DEF GuardSchedule
  <2>2. CASE DeleteWeek(w)
    BY <2>2 DEF DeleteWeek
  <2>3. CASE CommitWeek(w)
    BY <2>3 DEF CommitWeek
  <2>4. CASE FailSchedule(w)
    BY <2>4 DEF FailSchedule
  <2>5. QED
    BY <2>1, <2>2, <2>3, <2>4
       DEF ScheduleNext, ScheduleStep, ScheduleMove, StartSchedule
<1>4. DomainsOK'
  BY <1>1, <1>3 DEF GatewayInv, DomainsOK, BookingSide, BlockSide
<1>5. \A v \in ScheduleRequests : wpc'[v] # "idle" <=> wpc[v] # "idle"
  BY <1>3
<1>6. CarriedOK'
  BY <1>1, <1>2, <1>5 DEF CarriedOK, BookingCarried, BlockCarried,
     WeekCarried, BookingSide, BlockSide
<1>7. BookingRowsOK' /\ BlockRowsOK'
  BY <1>1 DEF GatewayInv, BookingRowsOK, BlockRowsOK, FitsSent,
     InsideBlockHours, BookingSide, BlockSide
<1>8. HoursOK'
  <2>1. \A v \in ScheduleRequests : wpc'[v] = "commit" => ~wcall[v].broken
    BY <1>2, <1>3 DEF HoursOK
  <2>2. RowsBy(w) = {}
    BY <1>2, <1>3 DEF HoursOK
  <2>3. CASE workingHours' = workingHours
    BY <1>1, <1>2, <1>3, <2>1, <2>2, <2>3 DEF HoursOK, RowsBy, RowsOf
  <2>4. CASE /\ wpc[w] = "commit" /\ wpc'[w] = "done"
             /\ workingHours' = (workingHours \ HoursOf(wcall[w].business))
                                  \cup RowsOf(w, wcall[w])
    <3>1. ~wcall[w].broken /\ wcall[w] = WeekCall(body[w])
          /\ body[w] \in WeekBodies /\ TakesWeek(body[w])
      BY <1>2, <2>4 DEF HoursOK, CarriedOK, WeekCarried
    <3>2. RowsOf(w, wcall[w]) \subseteq SentHours
      BY <3>1 DEF SentHours
    <3>3. \A h \in RowsOf(w, wcall[w]) : h.by = w
      BY DEF RowsOf
    <3>4. RowsBy(w)' = RowsOf(w, wcall[w])
      BY <2>2, <2>4, <3>3 DEF RowsBy
    <3>5. ASSUME NEW v \in ScheduleRequests \ {w}, RowsBy(v)' # {}
          PROVE  /\ wpc'[v] = "done" /\ ~wcall[v].broken
                 /\ RowsBy(v)' = RowsOf(v, wcall[v])
      <4>1. RowsBy(v)' = RowsBy(v) \ HoursOf(wcall[w].business)
        BY <2>4, <3>3 DEF RowsBy
      <4>2. /\ wpc[v] = "done" /\ ~wcall[v].broken
            /\ RowsBy(v) = RowsOf(v, wcall[v])
        BY <1>2, <3>5, <4>1 DEF HoursOK
      <4>3. \A h \in RowsBy(v) : h.business = wcall[v].business
        BY <4>2 DEF RowsOf
      <4>4. RowsBy(v)' = RowsBy(v)
        BY <3>5, <4>1, <4>3 DEF HoursOf, RowsBy
      <4>5. QED
        BY <1>3, <4>2, <4>4
    <3>6. workingHours' \subseteq SentHours
      BY <1>2, <2>4, <3>2 DEF HoursOK
    <3>7. /\ SentHours' = SentHours /\ wcall' = wcall
          /\ \A v \in ScheduleRequests :
               RowsOf(v, wcall[v])' = RowsOf(v, wcall[v])
      BY <1>1 DEF RowsOf, SentHours
    <3>8. \A v \in ScheduleRequests :
            RowsBy(v)' # {} => /\ wpc'[v] = "done" /\ ~wcall[v].broken
                               /\ RowsBy(v)' = RowsOf(v, wcall[v])
      BY <2>4, <3>1, <3>4, <3>5
    <3>9. QED
      BY <2>1, <3>6, <3>7, <3>8 DEF HoursOK
  <2>5. QED
    BY <1>3, <2>3, <2>4
<1>9. QED
  BY <1>4, <1>6, <1>7, <1>8 DEF GatewayInv

-----------------------------------------------------------------------------
\* A request arrives with a body: its call is what the handler makes of it,
\* and no row is its own yet.
LEMMA Arrivals ==
  ASSUME GatewayInv,
         \/ \E r \in BookingRequests, b \in BookingBodies : PostBooking(r, b)
         \/ \E r \in BlockRequests, b \in BlockBodies : PostBlock(r, b)
         \/ \E w \in ScheduleRequests, b \in WeekBodies : PutWeek(w, b)
  PROVE  GatewayInv' /\ EngineNext
<1>1. /\ DomainsOK /\ CarriedOK /\ BookingRowsOK /\ BlockRowsOK /\ HoursOK
  BY DEF GatewayInv
<1> USE RequestsAssumption DEF BodyRequests
<1>2. ASSUME NEW r \in BookingRequests, NEW b \in BookingBodies,
             PostBooking(r, b)
      PROVE  GatewayInv' /\ EngineNext
  <2>1. /\ UNCHANGED <<bookings, BlockSide, WeekSide>>
        /\ pc[r] = "idle" /\ pc' = [pc EXCEPT ![r] = "business"]
        /\ call' = [call EXCEPT ![r] = BookingCall(b)]
        /\ body' = [body EXCEPT ![r] = b] /\ TakesBooking(b)
    BY <1>2 DEF PostBooking, StartCreate, Goto, Carry, dbVars, blockVars,
       createBlockVars, scheduleVars, BlockSide, WeekSide
  <2>2. call'[r] = BookingCall(b)
    BY <1>1, <2>1 DEF DomainsOK
  <2>3. EngineNext
    BY <1>2, <2>1, <2>2, BookingCallIsSound DEF EngineNext, PostBooking
  <2>4. DomainsOK'
    BY <1>1, <2>1 DEF DomainsOK, BlockSide, WeekSide
  <2>5. CarriedOK'
    <3>1. BookingCarried(r)'
      BY <1>1, <2>1, <2>2 DEF DomainsOK, BookingCarried
    <3>2. \A q \in BookingRequests \ {r} : BookingCarried(q)'
      BY <1>1, <2>1 DEF DomainsOK, CarriedOK, BookingCarried
    <3>3. \A q \in BlockRequests : BlockCarried(q)'
      BY <1>1, <2>1 DEF DomainsOK, CarriedOK, BlockCarried, BlockSide
    <3>4. \A w \in ScheduleRequests : WeekCarried(w)'
      BY <1>1, <2>1 DEF DomainsOK, CarriedOK, WeekCarried, WeekSide
    <3>5. QED
      BY <3>1, <3>2, <3>3, <3>4 DEF CarriedOK
  <2>6. BookingRowsOK'
    BY <1>1, <2>1 DEF DomainsOK, BookingRowsOK
  <2>7. BlockRowsOK' /\ HoursOK'
    BY <1>1, <2>1 DEF BlockRowsOK, FitsSent, InsideBlockHours, HoursOK,
       RowsBy, RowsOf, BlockSide, WeekSide
  <2>8. QED
    BY <2>3, <2>4, <2>5, <2>6, <2>7 DEF GatewayInv
<1>3. ASSUME NEW r \in BlockRequests, NEW b \in BlockBodies, PostBlock(r, b)
      PROVE  GatewayInv' /\ EngineNext
  <2>1. /\ UNCHANGED <<blocks, BookingSide, WeekSide>>
        /\ bpc[r] = "idle" /\ bpc' = [bpc EXCEPT ![r] = "guard"]
        /\ bcall' = [bcall EXCEPT ![r] = BlockCall(b)]
        /\ body' = [body EXCEPT ![r] = b] /\ TakesBlock(b)
    BY <1>3 DEF PostBlock, StartBlock, GotoBlock, Carry, dbVars, requestVars,
       scheduleVars, BookingSide, WeekSide
  <2>2. bcall'[r] = BlockCall(b)
    BY <1>1, <2>1 DEF DomainsOK
  <2>3. EngineNext
    BY <1>3, <2>1, <2>2, BlockCallIsSound DEF EngineNext, PostBlock
  <2>4. DomainsOK'
    BY <1>1, <2>1 DEF DomainsOK, BookingSide, WeekSide
  <2>5. CarriedOK'
    <3>1. BlockCarried(r)'
      BY <1>1, <2>1, <2>2 DEF DomainsOK, BlockCarried
    <3>2. \A q \in BlockRequests \ {r} : BlockCarried(q)'
      BY <1>1, <2>1 DEF DomainsOK, CarriedOK, BlockCarried
    <3>3. \A q \in BookingRequests : BookingCarried(q)'
      BY <1>1, <2>1 DEF DomainsOK, CarriedOK, BookingCarried, BookingSide
    <3>4. \A w \in ScheduleRequests : WeekCarried(w)'
      BY <1>1, <2>1 DEF DomainsOK, CarriedOK, WeekCarried, WeekSide
    <3>5. QED
      BY <3>1, <3>2, <3>3, <3>4 DEF CarriedOK
  <2>6. BlockRowsOK'
    <3>1. \A q \in BlockRequests \ {r} :
            /\ bpc'[q] = bpc[q] /\ bcall'[q] = bcall[q]
            /\ FitsSent(q)' <=> FitsSent(q)
      BY <1>1, <2>1 DEF DomainsOK, FitsSent, InsideBlockHours
    <3>2. \A x \in blocks : x.id \in BlockRequests \ {r}
      BY <1>1, <2>1 DEF BlockRowsOK
    <3>3. bpc'[r] # "insert"
      BY <1>1, <2>1 DEF DomainsOK
    <3>4. QED
      BY <1>1, <2>1, <3>1, <3>2, <3>3 DEF BlockRowsOK
  <2>7. BookingRowsOK' /\ HoursOK'
    BY <1>1, <2>1 DEF BookingRowsOK, HoursOK, RowsBy, RowsOf, BookingSide,
       WeekSide
  <2>8. QED
    BY <2>3, <2>4, <2>5, <2>6, <2>7 DEF GatewayInv
<1>4. ASSUME NEW w \in ScheduleRequests, NEW b \in WeekBodies, PutWeek(w, b)
      PROVE  GatewayInv' /\ EngineNext
  <2>1. /\ UNCHANGED <<workingHours, snapshot, BookingSide, BlockSide>>
        /\ wpc[w] = "idle" /\ wpc' = [wpc EXCEPT ![w] = "guard"]
        /\ wcall' = [wcall EXCEPT ![w] = WeekCall(b)]
        /\ body' = [body EXCEPT ![w] = b] /\ TakesWeek(b)
    BY <1>4 DEF PutWeek, StartSchedule, GotoSchedule, Carry, dbVars,
       requestVars, blockVars, createBlockVars, BookingSide, BlockSide
  <2>2. wcall'[w] = WeekCall(b)
    BY <1>1, <2>1 DEF DomainsOK
  <2>3. EngineNext
    BY <1>4, <2>1, <2>2, WeekCallIsSound DEF EngineNext, PutWeek
  <2>4. DomainsOK'
    BY <1>1, <2>1 DEF DomainsOK, BookingSide, BlockSide
  <2>5. CarriedOK'
    <3>1. WeekCarried(w)'
      BY <1>1, <2>1, <2>2 DEF DomainsOK, WeekCarried
    <3>2. \A v \in ScheduleRequests \ {w} : WeekCarried(v)'
      BY <1>1, <2>1 DEF DomainsOK, CarriedOK, WeekCarried
    <3>3. \A q \in BookingRequests : BookingCarried(q)'
      BY <1>1, <2>1 DEF DomainsOK, CarriedOK, BookingCarried, BookingSide
    <3>4. \A q \in BlockRequests : BlockCarried(q)'
      BY <1>1, <2>1 DEF DomainsOK, CarriedOK, BlockCarried, BlockSide
    <3>5. QED
      BY <3>1, <3>2, <3>3, <3>4 DEF CarriedOK
  <2>6. HoursOK'
    <3>1. \A v \in ScheduleRequests \ {w} :
            wpc'[v] = wpc[v] /\ wcall'[v] = wcall[v]
      BY <1>1, <2>1 DEF DomainsOK
    <3>2. RowsBy(w) = {} /\ wpc'[w] # "commit"
      BY <1>1, <2>1 DEF DomainsOK, HoursOK
    <3>3. \A v \in ScheduleRequests : RowsBy(v)' = RowsBy(v)
      BY <2>1 DEF RowsBy
    <3>4. QED
      BY <1>1, <2>1, <3>1, <3>2, <3>3 DEF HoursOK, RowsOf
  <2>7. BookingRowsOK' /\ BlockRowsOK'
    BY <1>1, <2>1 DEF BookingRowsOK, BlockRowsOK, FitsSent, InsideBlockHours,
       BookingSide, BlockSide
  <2>8. QED
    BY <2>3, <2>4, <2>5, <2>6, <2>7 DEF GatewayInv
<1>5. QED
  BY <1>2, <1>3, <1>4

LEMMA GatewayStep ==
  GatewayInv /\ [GatewayNext]_<<vars, body>>
    => GatewayInv' /\ [EngineNext]_vars
<1> SUFFICES ASSUME GatewayInv, [GatewayNext]_<<vars, body>>
             PROVE  GatewayInv' /\ [EngineNext]_vars
  OBVIOUS
<1>1. CASE HandlersStep /\ UNCHANGED body
  <2>1. EngineNext
    BY <1>1 DEF EngineNext
  <2>2. GatewayInv'
    BY <1>1, BookingHandler, BlockHandler, DeleteHandler, WeekHandler
       DEF HandlersStep
  <2>3. QED
    BY <2>1, <2>2
<1>2. CASE UNCHANGED <<vars, body>>
  BY <1>2 DEF vars, dbVars, requestVars, blockVars, createBlockVars,
     scheduleVars, GatewayInv, DomainsOK, CarriedOK, BookingCarried,
     BlockCarried, WeekCarried, BookingRowsOK, BlockRowsOK, FitsSent,
     InsideBlockHours, HoursOK, RowsBy, RowsOf
<1>3. QED
  BY <1>1, <1>2, Arrivals DEF GatewayNext

\* The three routes implement the engine: whatever bodies are sent, and
\* however the requests race, it meets only calls it is specified for, takes
\* only its own steps, and what a pipe refuses is no step of it.
THEOREM GatewayImplements == GatewaySpec => EngineSpec
<1>1. GatewayInit => Init
  BY DEF GatewayInit
<1>2. QED
  BY <1>1, GatewayBase, GatewayStep, PTL DEF GatewaySpec, EngineSpec

\* Bookings, blocks and weeks in the tables are those that were sent, to the
\* minute and to the last entry: no two entries of a stored week are of one
\* day, and a block's own clock was inside hours of its business.
THEOREM StoredAsSentHolds == GatewaySpec => []StoredAsSent
<1>1. GatewayInv => StoredAsSent
  <2> SUFFICES ASSUME GatewayInv PROVE StoredAsSent
    OBVIOUS
  <2>1. CarriedOK /\ BookingRowsOK /\ BlockRowsOK /\ HoursOK
    BY DEF GatewayInv
  <2>2. BookingsAsSent
    <3> SUFFICES ASSUME NEW x \in bookings
                 PROVE  x.start * Resolution = body[x.id].start.minute
      BY DEF BookingsAsSent
    <3>1. /\ body[x.id] \in BookingBodies /\ TakesBooking(body[x.id])
          /\ x.start = BookingCall(body[x.id]).start
      BY <2>1 DEF CarriedOK, BookingCarried, BookingRowsOK
    <3>2. /\ body[x.id].start \in RawTimes /\ IsDateTime(body[x.id].start)
      BY <3>1, BodiesAssumption DEF TakesBooking, CreateBookingDto
    <3>3. QED
      BY <3>1, <3>2, DateTimes DEF BookingCall
  <2>3. BlocksAsSent
    <3> SUFFICES ASSUME NEW x \in blocks
                 PROVE  /\ x.start * Resolution = body[x.id].start.minute
                        /\ x.end * Resolution = body[x.id].end.minute
                        /\ x.start < x.end
                        /\ \E h \in SentHours :
                             /\ h.business = x.business
                             /\ h.open * Resolution
                                  <= WallMinute(body[x.id].start)
                             /\ WallMinute(body[x.id].end)
                                  <= h.close * Resolution
      BY DEF BlocksAsSent
    <3> DEFINE b == body[x.id]
    <3>1. /\ b \in BlockBodies /\ TakesBlock(b)
          /\ x.business = BlockCall(b).business
          /\ x.start = BlockCall(b).start /\ x.end = BlockCall(b).end
      BY <2>1 DEF CarriedOK, BlockCarried, BlockRowsOK
    <3>2. PICK h \in SentHours : /\ h.business = x.business
                                 /\ InsideBlockHours(BlockCall(b), h)
      BY <2>1, <3>1 DEF CarriedOK, BlockCarried, BlockRowsOK, FitsSent
    <3>3. h.open \in Int /\ h.close \in Int
      BY SentHoursAreInts
    <3>4. /\ h.open * Resolution <= WallMinute(b.start)
          /\ WallMinute(b.end) <= h.close * Resolution
      <4> DEFINE m == WallMinute(b.start)
                 n == WallMinute(b.end)
      <4>1. m \in Int /\ n \in Int
        BY <3>1, BlockTimes, DateTimes
      <4>2. Tick(m) >= h.open /\ TickUp(n) <= h.close
        BY <3>2 DEF InsideBlockHours, BlockCall
      <4> HIDE DEF m, n
      <4>3. /\ Tick(m) \in Int /\ TickUp(n) \in Int
            /\ Resolution * Tick(m) <= m /\ n <= Resolution * TickUp(n)
        BY <4>1, TickBounds
      <4>4. /\ h.open * Resolution <= Tick(m) * Resolution
            /\ TickUp(n) * Resolution <= h.close * Resolution
        BY <3>3, <4>2, <4>3, Scaled
      <4>5. h.open * Resolution <= m /\ n <= h.close * Resolution
        <5>1. /\ Resolution * Tick(m) = Tick(m) * Resolution
              /\ Resolution * TickUp(n) = TickUp(n) * Resolution
          BY <4>3, ResolutionAssumption
        <5>2. /\ Tick(m) * Resolution \in Int /\ TickUp(n) * Resolution \in Int
              /\ h.open * Resolution \in Int /\ h.close * Resolution \in Int
          BY <3>3, <4>3, ResolutionAssumption
        <5>3. QED
          BY <4>1, <4>3, <4>4, <5>1, <5>2
      <4>6. QED
        BY <4>5 DEF m, n
    <3>5. QED
      BY <3>1, <3>2, <3>4, BlockTimes, BlockTicks, DateTimes DEF BlockCall
  <2>4. WeeksAsSent
    <3> SUFFICES ASSUME NEW w \in ScheduleRequests, RowsBy(w) # {}
                 PROVE  LET days == body[w].days
                        IN  /\ \A i \in DOMAIN days :
                                 /\ days[i] # Null
                                 /\ days[i].open < days[i].close
                                 /\ \E h \in RowsBy(w) :
                                      /\ h.day = days[i].day
                                      /\ h.open * Resolution = days[i].open
                                      /\ h.close * Resolution = days[i].close
                            /\ \A i, j \in DOMAIN days :
                                 i # j => days[i].day # days[j].day
      BY DEF WeeksAsSent, RowsBy
    <3> DEFINE b == body[w]
    <3>1. /\ b \in WeekBodies /\ TakesWeek(b) /\ ~WeekCall(b).broken
          /\ RowsBy(w) = RowsOf(w, WeekCall(b))
      BY <2>1 DEF HoursOK, CarriedOK, WeekCarried
    <3>2. ~Broken(b)
      BY <3>1 DEF WeekCall
    <3>3. WeekCall(b).days = {DayCall(b.days[i]) : i \in DOMAIN b.days}
      BY <3>2 DEF WeekCall
    <3>4. ASSUME NEW i \in DOMAIN b.days
          PROVE  /\ b.days[i].open < b.days[i].close
                 /\ \E h \in RowsBy(w) :
                      /\ h.day = b.days[i].day
                      /\ h.open * Resolution = b.days[i].open
                      /\ h.close * Resolution = b.days[i].close
      <4> DEFINE d == b.days[i]
                 h == [by |-> w, business |-> WeekCall(b).business,
                       day |-> d.day, open |-> Tick(d.open),
                       close |-> Tick(d.close)]
      <4>1. SingleDayDto(d)
        BY <3>1, <3>2, WholeWeek
      <4>2. h \in RowsBy(w)
        <5>1. DayCall(d) \in WeekCall(b).days
          BY <3>3
        <5>2. h = [by |-> w, business |-> WeekCall(b).business,
                   day |-> DayCall(d).day, open |-> DayCall(d).open,
                   close |-> DayCall(d).close]
          BY DEF DayCall
        <5> HIDE DEF h
        <5>3. h \in RowsOf(w, WeekCall(b))
          BY <5>1, <5>2 DEF RowsOf
        <5>4. QED
          BY <3>1, <5>3
      <4>3. QED
        BY <4>1, <4>2, DayTicks
    <3>5. QED
      BY <3>1, <3>2, <3>4, WholeWeek
  <2>5. QED
    BY <2>2, <2>3, <2>4 DEF StoredAsSent
<1>2. QED
  BY <1>1, GatewayBase, GatewayStep, PTL DEF GatewaySpec

-----------------------------------------------------------------------------
\* Scheduling draws its calls from three sets.  When these have every call
\* that a pipe lets pass, which PipesEnsureCalls shows to agree with what is
\* assumed of them, the routes implement Scheduling itself, and all that is
\* proved of it holds behind them.
CallsCoverBodies ==
  /\ \A b \in BookingBodies : TakesBooking(b) => BookingCall(b) \in Calls
  /\ \A b \in BlockBodies : TakesBlock(b) => BlockCall(b) \in BlockCalls
  /\ \A b \in WeekBodies : TakesWeek(b) => WeekCall(b) \in ScheduleCalls

COROLLARY RoutesImplementScheduling ==
  ASSUME CallsCoverBodies
  PROVE  GatewaySpec => Spec
<1>1. GatewayInit => Init
  BY DEF GatewayInit
<1>2. [GatewayNext]_<<vars, body>> => [Next]_vars
  BY DEF CallsCoverBodies, GatewayNext, PostBooking, PostBlock, PutWeek,
     HandlersStep, Next, BookingNext, BlockNext, DeleteNext, ScheduleNext
<1>3. QED
  BY <1>1, <1>2, PTL DEF GatewaySpec, Spec
=============================================================================
