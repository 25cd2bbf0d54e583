---------------------------- MODULE SerialProofs ----------------------------
(***************************************************************************)
(* What the engine promises when requests arrive one at a time: bookings   *)
(* of a business do not overlap, nor do its blocks, and the table of       *)
(* bookings implements Ledger.                                             *)
(*                                                                         *)
(* At most one request is in flight (AtMostOne), so nothing is inserted    *)
(* between a handler's read and its insert: what it saw is still all there *)
(* is (SawAll).  With RaceInv, which says that nothing it saw overlaps its *)
(* own time, the insert finds the time free.                               *)
(***************************************************************************)
EXTENDS RaceProofs

AtMostOne == \A q, r \in InFlight : q = r

\* r has read the bookings and has yet to insert its own.
HasRead(r) == \/ pc[r] = "overlaps" /\ "bookings" \notin awaiting[r]
              \/ pc[r] = "insert"

SawAll ==
  /\ \A r \in BookingRequests :
       HasRead(r) => Ids(bookings) \subseteq sawBookings[r]
  /\ \A r \in BlockRequests :
       bpc[r] \in {"hours", "insert"} => Ids(blocks) \subseteq bsaw[r]

SerialInv ==
  /\ AtMostOne
  /\ SawAll
  /\ NoDoubleBooking
  /\ BlocksDisjoint

-----------------------------------------------------------------------------
LEMMA SerialInit == Init => SerialInv
BY DEF Init, SerialInv, AtMostOne, InFlight, SawAll, HasRead,
       NoDoubleBooking, BlocksDisjoint, DatabaseInit, BookingsInit,
       BlocksInit, ScheduleInit

\* Whoever acts is the only one in flight, before its step and after it.
LEMMA ActsAlone ==
  ASSUME AtMostOne, OneAtATime, NEW r,
         r \in InFlight \cup InFlight', InFlight' \subseteq InFlight \cup {r}
  PROVE  InFlight \subseteq {r} /\ AtMostOne'
BY DEF AtMostOne, OneAtATime

(***************************************************************************)
(* Who acts is in flight, and no one else enters.                          *)
(***************************************************************************)
LEMMA BookingActs ==
  ASSUME TypeInv, NEW r \in BookingRequests, BookingNext(r)
  PROVE  /\ r \in InFlight \cup InFlight'
         /\ InFlight' \subseteq InFlight \cup {r}
         /\ \A q \in BookingRequests \ {r} : pc'[q] = pc[q]
<1> USE DEF Goto, Finish
<1>1. pc \in [BookingRequests -> Phases]
  BY DEF TypeInv, TypeOK, BookingsTypeOK
<1>2. UNCHANGED <<bpc, dpc, wpc>>
  BY DEF BookingNext, blockVars, createBlockVars, deleteBlockVars,
         scheduleVars
<1>3. /\ pc[r] \notin {"idle", "done"} \/ pc'[r] \notin {"idle", "done"}
      /\ \A q \in BookingRequests \ {r} : pc'[q] = pc[q]
  BY <1>1 DEF BookingNext, BookingStep, BookingMove, StartCreate,
     ValidateBusiness,
     ValidateService, GetWorkingHours, ReadBlocks, ReadBookings,
     CheckReserved, CreateBookingRecord, LoseCommit, EnqueueBookingCreated,
     LoseReply, Fail
<1>4. QED
  BY <1>2, <1>3 DEF InFlight

LEMMA BlockActs ==
  ASSUME TypeInv, NEW r \in BlockRequests, BlockNext(r)
  PROVE  /\ r \in InFlight \cup InFlight'
         /\ InFlight' \subseteq InFlight \cup {r}
         /\ \A q \in BlockRequests \ {r} : bpc'[q] = bpc[q]
<1> USE DEF GotoBlock, FinishBlock
<1>1. bpc \in [BlockRequests -> BlockPhases]
  BY DEF TypeInv, TypeOK, BlocksTypeOK
<1>2. UNCHANGED <<pc, dpc, wpc>>
  BY DEF BlockNext, requestVars, scheduleVars, BlockStep, BlockMove,
     StartBlock,
     GuardBlock, ValidateBlockBusiness, ReadOverlap, ReadBlockHours,
     CreateBlockRecord, FailBlock, deleteBlockVars
<1>3. /\ bpc[r] \notin {"idle", "done"} \/ bpc'[r] \notin {"idle", "done"}
      /\ \A q \in BlockRequests \ {r} : bpc'[q] = bpc[q]
  BY <1>1 DEF BlockNext, BlockStep, BlockMove, StartBlock, GuardBlock,
     ValidateBlockBusiness, ReadOverlap, ReadBlockHours, CreateBlockRecord,
     FailBlock
<1>4. QED
  BY <1>2, <1>3 DEF InFlight

LEMMA DeleteActs ==
  ASSUME TypeInv, NEW r \in DeleteRequests, DeleteNext(r)
  PROVE  /\ r \in InFlight \cup InFlight'
         /\ InFlight' \subseteq InFlight \cup {r}
<1> USE DEF GotoDelete, FinishDelete
<1>1. dpc \in [DeleteRequests -> DeletePhases]
  BY DEF TypeInv, TypeOK, BlocksTypeOK
<1>2. UNCHANGED <<pc, bpc, wpc>>
  BY DEF DeleteNext, requestVars, scheduleVars, DeleteStep, DeleteMove,
     StartDelete,
     GuardDelete, DeleteBlock, FailDelete, createBlockVars
<1>3. /\ dpc[r] \notin {"idle", "done"} \/ dpc'[r] \notin {"idle", "done"}
      /\ \A q \in DeleteRequests \ {r} : dpc'[q] = dpc[q]
  BY <1>1 DEF DeleteNext, DeleteStep, DeleteMove, StartDelete,
     GuardDelete, DeleteBlock,
     FailDelete
<1>4. QED
  BY <1>2, <1>3 DEF InFlight

LEMMA ScheduleActs ==
  ASSUME TypeInv, NEW w \in ScheduleRequests, ScheduleNext(w)
  PROVE  /\ w \in InFlight \cup InFlight'
         /\ InFlight' \subseteq InFlight \cup {w}
<1> USE DEF GotoSchedule, FinishSchedule
<1>1. wpc \in [ScheduleRequests -> SchedulePhases]
  BY DEF TypeInv, TypeOK, ScheduleTypeOK
<1>2. UNCHANGED <<pc, bpc, dpc>>
  BY DEF ScheduleNext, requestVars, blockVars, createBlockVars,
     deleteBlockVars
<1>3. /\ wpc[w] \notin {"idle", "done"} \/ wpc'[w] \notin {"idle", "done"}
      /\ \A q \in ScheduleRequests \ {w} : wpc'[q] = wpc[q]
  BY <1>1 DEF ScheduleNext, ScheduleStep, ScheduleMove, StartSchedule,
     GuardSchedule,
     DeleteWeek, CommitWeek, FailSchedule
<1>4. QED
  BY <1>2, <1>3 DEF InFlight

-----------------------------------------------------------------------------
(***************************************************************************)
(* What a step does to the two tables, and to SawAll.                      *)
(***************************************************************************)

\* A booking's step leaves the blocks alone and changes the bookings by its
\* insert only, and r has read the bookings after it only if it just did or
\* had before.
LEMMA BookingEffect ==
  ASSUME TypeInv, NEW r \in BookingRequests, BookingNext(r)
  PROVE  /\ UNCHANGED <<blocks, bpc, bcall, bsaw>>
         /\ \/ UNCHANGED bookings
            \/ pc[r] = "insert" /\ bookings' = bookings \cup {Row(r)}
         /\ HasRead(r)' => /\ UNCHANGED bookings
                           /\ \/ sawBookings'[r] = Ids(bookings)
                              \/ HasRead(r) /\ sawBookings'[r] = sawBookings[r]
<1> USE DEF Goto, Finish, ReadsUnchanged, dbVars
<1>1. /\ pc \in [BookingRequests -> Phases]
      /\ awaiting \in [BookingRequests -> SUBSET {"blocks", "bookings"}]
      /\ sawBookings \in [BookingRequests -> SUBSET BookingRequests]
  BY DEF TypeInv, TypeOK, BookingsTypeOK
<1>2. UNCHANGED <<bpc, bcall, bsaw>>
  BY DEF BookingNext, blockVars, createBlockVars
<1>3. ASSUME NEW c \in Calls, StartCreate(r, c)
      PROVE  UNCHANGED <<bookings, blocks>> /\ ~HasRead(r)'
  BY <1>1, <1>3 DEF StartCreate, HasRead
<1>4. CASE ValidateBusiness(r) \/ ValidateService(r)
  BY <1>1, <1>2, <1>4 DEF ValidateBusiness, ValidateService, HasRead
<1>5. ASSUME NEW now \in Instants, GetWorkingHours(r, now)
      PROVE  UNCHANGED <<bookings, blocks>> /\ ~HasRead(r)'
  BY <1>1, <1>5 DEF GetWorkingHours, HasRead
<1>6. CASE ReadBlocks(r)
  BY <1>1, <1>2, <1>6 DEF ReadBlocks, HasRead
<1>7. CASE ReadBookings(r)
  BY <1>1, <1>2, <1>7 DEF ReadBookings, HasRead
<1>8. CASE CheckReserved(r)
  BY <1>1, <1>2, <1>8 DEF CheckReserved, HasRead
<1>9. CASE CreateBookingRecord(r) \/ LoseCommit(r)
  BY <1>1, <1>2, <1>9 DEF CreateBookingRecord, LoseCommit, HasRead
<1>10. CASE EnqueueBookingCreated(r) \/ LoseReply(r) \/ Fail(r)
  BY <1>1, <1>2, <1>10 DEF EnqueueBookingCreated, LoseReply, Fail, HasRead
<1>11. QED
  BY <1>2, <1>3, <1>4, <1>5, <1>6, <1>7, <1>8, <1>9, <1>10
     DEF BookingNext, BookingStep, BookingMove

\* The row that r inserts overlaps no booking: it saw them all.
LEMMA InsertIsFree ==
  ASSUME RaceInv, SawAll, NEW r \in BookingRequests, pc[r] = "insert",
         NEW x \in bookings
  PROVE  ~Led!Clash(Row(r), x) /\ ~Led!Clash(x, Row(r))
<1>1. x \notin SeenBookings(r) /\ x.id \in sawBookings[r]
  BY DEF RaceInv, SeenIsFree, SawAll, HasRead, Ids
<1>2. ~Overlaps(x, Start(r), End(r))
  BY <1>1 DEF SeenBookings
<1>3. QED
  BY <1>2 DEF Led!Clash, Overlaps, Row

LEMMA BookingSerial ==
  ASSUME TypeInv, RaceInv, SerialInv, OneAtATime,
         NEW r \in BookingRequests, BookingNext(r)
  PROVE  SerialInv' /\ [Led!Next]_bookings
<1>1. InFlight \subseteq {r} /\ AtMostOne'
  BY BookingActs, ActsAlone DEF SerialInv
<1>2. /\ \A q \in BookingRequests \ {r} : pc'[q] \in {"idle", "done"}
      /\ \A q \in BlockRequests : bpc'[q] \in {"idle", "done"}
  BY <1>1, BookingActs, BookingEffect, RequestsAssumption DEF InFlight
<1>3. SawAll'
  <2>1. \A q \in BookingRequests \ {r} : ~HasRead(q)'
    BY <1>2 DEF HasRead
  <2>2. HasRead(r)' => Ids(bookings)' \subseteq sawBookings'[r]
    BY BookingEffect DEF SerialInv, SawAll, Ids
  <2>3. \A q \in BlockRequests : bpc'[q] \notin {"hours", "insert"}
    BY <1>2
  <2>4. QED
    BY <2>1, <2>2, <2>3 DEF SawAll
<1>4. BlocksDisjoint'
  BY BookingEffect DEF SerialInv, BlocksDisjoint, Meet, Overlaps
<1>5. NoDoubleBooking' /\ [Led!Next]_bookings
  <2>1. CASE UNCHANGED bookings
    BY <2>1 DEF SerialInv, NoDoubleBooking, Led!Clash
  <2>2. CASE pc[r] = "insert" /\ bookings' = bookings \cup {Row(r)}
    <3>1. \A x \in bookings : ~Led!Clash(Row(r), x) /\ ~Led!Clash(x, Row(r))
      BY <2>2, InsertIsFree DEF SerialInv
    <3>2. NoDoubleBooking'
      BY <2>2, <3>1 DEF SerialInv, NoDoubleBooking, Led!Clash
    <3>3. Row(r) \notin bookings
      BY <2>2 DEF RaceInv, RowsAreInserted, Row
    <3>4. Led!Confirm(Row(r))
      BY <2>2, <3>1 DEF Led!Confirm, Led!Clash
    <3>5. QED
      BY <2>2, <3>2, <3>3, <3>4 DEF Led!Next
  <2>3. QED
    BY <2>1, <2>2, BookingEffect
<1>6. QED
  BY <1>1, <1>3, <1>4, <1>5 DEF SerialInv

LEMMA BlockSerial ==
  ASSUME TypeInv, RaceInv, SerialInv, OneAtATime,
         NEW r \in BlockRequests, BlockNext(r)
  PROVE  SerialInv' /\ UNCHANGED bookings
<1> USE DEF GotoBlock, FinishBlock
<1>1. /\ InFlight \subseteq {r}
      /\ AtMostOne'
      /\ \A q \in BlockRequests \ {r} : bpc'[q] = bpc[q]
  BY BlockActs, ActsAlone DEF SerialInv
<1>2. UNCHANGED <<bookings, pc, awaiting, sawBookings>>
  BY DEF BlockNext, requestVars, BlockStep, BlockMove, StartBlock,
     GuardBlock,
         ValidateBlockBusiness, ReadOverlap, ReadBlockHours,
         CreateBlockRecord, FailBlock, dbVars
<1>3. /\ bpc \in [BlockRequests -> BlockPhases]
      /\ bsaw \in [BlockRequests -> SUBSET BlockRequests]
  BY DEF TypeInv, TypeOK, BlocksTypeOK
<1>4. /\ \A q \in BookingRequests : ~HasRead(q)'
      /\ \A q \in BlockRequests \ {r} : bpc'[q] \notin {"hours", "insert"}
  BY <1>1, <1>2, RequestsAssumption DEF InFlight, HasRead
<1>5. /\ \/ UNCHANGED blocks
         \/ bpc[r] = "insert" /\ blocks' = blocks \cup {BlockRow(r)}
      /\ bpc'[r] \in {"hours", "insert"} =>
           /\ UNCHANGED blocks
           /\ \/ bsaw'[r] = Ids(blocks)
              \/ bpc[r] \in {"hours", "insert"} /\ UNCHANGED bsaw
  <2>1. ASSUME NEW c \in BlockCalls, StartBlock(r, c)
        PROVE  UNCHANGED blocks /\ bpc'[r] = "guard"
    BY <1>3, <2>1 DEF StartBlock, dbVars
  <2>2. CASE BlockStep(r)
    BY <1>3, <2>2 DEF BlockStep, BlockMove, GuardBlock,
       ValidateBlockBusiness,
       ReadOverlap, ReadBlockHours, CreateBlockRecord, FailBlock, dbVars
  <2>3. QED
    BY <2>1, <2>2 DEF BlockNext
<1>6. SawAll'
  BY <1>4, <1>5 DEF SerialInv, SawAll, Ids
<1>7. BlocksDisjoint'
  <2>1. CASE UNCHANGED blocks
    BY <2>1 DEF SerialInv, BlocksDisjoint, Meet, Overlaps
  <2>2. CASE bpc[r] = "insert" /\ blocks' = blocks \cup {BlockRow(r)}
    <3>1. ASSUME NEW x \in blocks, x.business = BlockRow(r).business
          PROVE  ~Meet(x, BlockRow(r)) /\ ~Meet(BlockRow(r), x)
      <4>1. x.id \in bsaw[r]
        BY <2>2 DEF SerialInv, SawAll, Ids
      <4>2. QED
        BY <2>2, <3>1, <4>1 DEF RaceInv, SeenIsFree, Meet, Overlaps, BlockRow
    <3>2. QED
      BY <2>2, <3>1 DEF SerialInv, BlocksDisjoint, Meet, Overlaps
  <2>3. QED
    BY <1>5, <2>1, <2>2
<1>8. NoDoubleBooking'
  BY <1>2 DEF SerialInv, NoDoubleBooking, Led!Clash
<1>9. QED
  BY <1>1, <1>2, <1>6, <1>7, <1>8 DEF SerialInv

\* A step that inserts nothing and moves no handler that inserts.
LEMMA OtherSerial ==
  ASSUME SerialInv, AtMostOne',
         UNCHANGED <<bookings, pc, awaiting, sawBookings, bpc, bsaw>>,
         blocks' \subseteq blocks
  PROVE  SerialInv' /\ UNCHANGED bookings
<1>1. SawAll'
  BY DEF SerialInv, SawAll, HasRead, Ids
<1>2. NoDoubleBooking' /\ BlocksDisjoint'
  BY DEF SerialInv, NoDoubleBooking, BlocksDisjoint, Led!Clash, Meet, Overlaps
<1>3. QED
  BY <1>1, <1>2 DEF SerialInv

LEMMA SerialStep ==
  TypeInv /\ RaceInv /\ SerialInv /\ [Next /\ OneAtATime]_vars
    => SerialInv' /\ [Led!Next]_bookings
<1> SUFFICES ASSUME TypeInv, RaceInv, SerialInv, [Next /\ OneAtATime]_vars
             PROVE  SerialInv' /\ [Led!Next]_bookings
  OBVIOUS
<1>1. ASSUME NEW r \in BookingRequests, BookingNext(r), OneAtATime
      PROVE  SerialInv' /\ [Led!Next]_bookings
  BY <1>1, BookingSerial
<1>2. ASSUME NEW r \in BlockRequests, BlockNext(r), OneAtATime
      PROVE  SerialInv' /\ UNCHANGED bookings
  BY <1>2, BlockSerial
<1>3. ASSUME NEW r \in DeleteRequests, DeleteNext(r), OneAtATime
      PROVE  SerialInv' /\ UNCHANGED bookings
  <2>1. AtMostOne'
    BY <1>3, DeleteActs, ActsAlone DEF SerialInv
  <2>2. /\ UNCHANGED <<bookings, pc, awaiting, sawBookings, bpc, bsaw>>
        /\ blocks' \subseteq blocks
    BY <1>3 DEF DeleteNext, requestVars, DeleteStep, DeleteMove,
       StartDelete,
       GuardDelete, DeleteBlock, FailDelete, dbVars, createBlockVars
  <2>3. QED
    BY <2>1, <2>2, OtherSerial
<1>4. ASSUME NEW w \in ScheduleRequests, ScheduleNext(w), OneAtATime
      PROVE  SerialInv' /\ UNCHANGED bookings
  <2>1. AtMostOne'
    BY <1>4, ScheduleActs, ActsAlone DEF SerialInv
  <2>2. UNCHANGED <<bookings, blocks, pc, awaiting, sawBookings, bpc, bsaw>>
    BY <1>4 DEF ScheduleNext, requestVars, blockVars, createBlockVars,
       ScheduleStep, ScheduleMove, StartSchedule, GuardSchedule,
          DeleteWeek, CommitWeek,
       FailSchedule, dbVars
  <2>3. QED
    BY <2>1, <2>2, OtherSerial
<1>5. CASE UNCHANGED vars
  <2>1. UNCHANGED <<bookings, blocks, pc, awaiting, sawBookings, bpc, bsaw,
                    dpc, wpc>>
    BY <1>5 DEF vars, dbVars, requestVars, blockVars, createBlockVars,
       deleteBlockVars, scheduleVars
  <2>2. AtMostOne'
    BY <2>1 DEF SerialInv, AtMostOne, InFlight
  <2>3. QED
    BY <2>1, <2>2, OtherSerial
<1>6. QED
  BY <1>1, <1>2, <1>3, <1>4, <1>5 DEF Next

-----------------------------------------------------------------------------
LEMMA SerialIsSpec == SerialSpec => Spec
<1>1. [Next /\ OneAtATime]_vars => [Next]_vars
  OBVIOUS
<1>2. QED
  BY <1>1, PTL DEF SerialSpec, Spec

\* With one request at a time, what a handler saw is all there is when it
\* inserts.
THEOREM AlwaysSerialInv == SerialSpec => []SerialInv
<1>1. SerialSpec => [](TypeInv /\ RaceInv)
  BY SerialIsSpec, AlwaysTypeInv, AlwaysRaceInv, PTL
<1>2. QED
  BY <1>1, SerialInit, SerialStep, PTL DEF SerialSpec

\* Requests that arrive one at a time never double-book a business.
THEOREM SerialNoDoubleBooking == SerialSpec => []NoDoubleBooking
BY AlwaysSerialInv, PTL DEF SerialInv

\* Nor do they leave two overlapping blocks of one business.
THEOREM SerialBlocksDisjoint == SerialSpec => []BlocksDisjoint
BY AlwaysSerialInv, PTL DEF SerialInv

\* The engine then implements the ledger: the table starts empty, and each
\* step confirms one booking in time nobody holds or changes no booking.
THEOREM SerialRefinement == SerialSpec => LedgerSpec
<1>1. Init => Led!Init
  BY DEF Init, DatabaseInit, Led!Init
<1>2. SerialSpec => [](TypeInv /\ RaceInv /\ SerialInv)
  BY SerialIsSpec, AlwaysTypeInv, AlwaysRaceInv, AlwaysSerialInv, PTL
<1>3. QED
  BY <1>1, <1>2, SerialStep, PTL DEF SerialSpec, LedgerSpec, Led!Spec
=============================================================================
