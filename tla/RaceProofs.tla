----------------------------- MODULE RaceProofs -----------------------------
(***************************************************************************)
(* Overlaps need a race, for bookings and for blocks.                      *)
(*                                                                         *)
(* OverlapNeedsRace speaks of rows in the tables; what makes it hold is    *)
(* what each handler still in flight knows.  A row it saw was inserted     *)
(* before, so a later row is never among those it saw (SeenWasThere); and  *)
(* a handler about to insert found no overlap among what it saw            *)
(* (SeenIsFree).  RaceInv is inductive relative to TypeInv.                *)
(***************************************************************************)
EXTENDS SchedulingProofs

\* A row in the tables was put there by a request that is past its insert.
RowsAreInserted ==
  /\ \A x \in bookings : pc[x.id] \in {"enqueue", "done"}
  /\ \A y \in blocks : bpc[y.id] = "done"

SeenWasThere ==
  /\ \A r \in BookingRequests :
       /\ \A q \in sawBookings[r] : pc[q] \in {"enqueue", "done"}
       /\ \A k \in sawBlocks[r] : bpc[k] = "done"
  /\ \A r \in BlockRequests : \A k \in bsaw[r] : bpc[k] = "done"

\* The rows that r saw and that overlap its time.
SeenBookings(r) == {x \in bookings : /\ x.id \in sawBookings[r]
                                     /\ Overlaps(x, Start(r), End(r))}
SeenBlocks(r)   == {x \in blocks : /\ x.id \in sawBlocks[r]
                                   /\ Overlaps(x, Start(r), End(r))}

SeenIsFree ==
  /\ \A r \in BookingRequests :
       /\ pc[r] = "overlaps" /\ "bookings" \notin awaiting[r]
            => \A x \in SeenBookings(r) : x.id \in foundBookings[r]
       /\ pc[r] = "overlaps" /\ "blocks" \notin awaiting[r]
            => \A x \in SeenBlocks(r) : x.id \in foundBlocks[r]
       /\ pc[r] = "insert" => SeenBookings(r) = {} /\ SeenBlocks(r) = {}
  /\ \A r \in BlockRequests :
       bpc[r] \in {"hours", "insert"} =>
         \A x \in blocks :
           x.business = bcall[r].business /\ x.id \in bsaw[r]
             => ~Overlaps(x, bcall[r].start, bcall[r].end)

RaceInv ==
  /\ RowsAreInserted
  /\ SeenWasThere
  /\ SeenIsFree
  /\ OverlapNeedsRace
  /\ BlockOverlapNeedsRace

-----------------------------------------------------------------------------
LEMMA RaceInit == Init => RaceInv
BY DEF Init, RaceInv, RowsAreInserted, SeenWasThere, SeenIsFree,
       OverlapNeedsRace, BlockOverlapNeedsRace, DatabaseInit, BookingsInit,
       BlocksInit

(***************************************************************************)
(* Steps of a booking.  Only its two inserts change the table, only its    *)
(* two reads change what it saw, and only the check leads to an insert.    *)
(***************************************************************************)
LEMMA BookingQuiet ==
  ASSUME TypeInv, RaceInv, NEW r \in BookingRequests,
         UNCHANGED <<bookings, blocks, sawBlocks, sawBookings, bpc, bcall,
                     bsaw>>,
         pc' = [pc EXCEPT ![r] = pc'[r]],
         \A q \in BookingRequests \ {r} :
           call'[q] = call[q] /\ awaiting'[q] = awaiting[q]
             /\ foundBlocks'[q] = foundBlocks[q]
             /\ foundBookings'[q] = foundBookings[q],
         pc[r] \in {"enqueue", "done"} => pc'[r] \in {"enqueue", "done"},
         pc'[r] = "overlaps" => awaiting'[r] = {"blocks", "bookings"},
         pc'[r] = "insert" => SeenBookings(r)' = {} /\ SeenBlocks(r)' = {}
  PROVE  RaceInv'
<1>1. /\ pc \in [BookingRequests -> Phases]
      /\ sawBookings \in [BookingRequests -> SUBSET BookingRequests]
      /\ \A x \in bookings : x.id \in BookingRequests
  BY DEF TypeInv, TypeOK, BookingsTypeOK, DatabaseTypeOK, BookingRows
<1>2. RowsAreInserted' /\ SeenWasThere'
  <2>1. \A q \in BookingRequests :
          pc[q] \in {"enqueue", "done"} => pc'[q] \in {"enqueue", "done"}
    BY <1>1
  <2>2. QED
    BY <1>1, <2>1 DEF RaceInv, RowsAreInserted, SeenWasThere
<1>3. OverlapNeedsRace' /\ BlockOverlapNeedsRace'
  BY DEF RaceInv, OverlapNeedsRace, BlockOverlapNeedsRace, Meet, Overlaps
<1>4. ASSUME NEW q \in BookingRequests \ {r}
      PROVE  /\ SeenBookings(q)' = SeenBookings(q)
             /\ SeenBlocks(q)' = SeenBlocks(q)
             /\ pc'[q] = pc[q]
  BY <1>1 DEF SeenBookings, SeenBlocks, Overlaps, Start, End
<1>5. SeenIsFree'
  BY <1>1, <1>4 DEF RaceInv, SeenIsFree, Overlaps
<1>6. QED
  BY <1>2, <1>3, <1>5 DEF RaceInv

\* The insert of r, acknowledged or not.  No handler has seen the new row,
\* and r saw none that it overlaps.
LEMMA BookingInsert ==
  ASSUME TypeInv, RaceInv, NEW r \in BookingRequests, pc[r] = "insert",
         bookings' = bookings \cup {Row(r)},
         UNCHANGED <<blocks, call, awaiting, foundBlocks, foundBookings,
                     sawBlocks, sawBookings, bpc, bcall, bsaw>>,
         NEW phase \in {"enqueue", "done"},
         pc' = [pc EXCEPT ![r] = phase]
  PROVE  RaceInv'
<1>1. /\ pc \in [BookingRequests -> Phases]
      /\ sawBookings \in [BookingRequests -> SUBSET BookingRequests]
      /\ \A x \in bookings : x.id \in BookingRequests
  BY DEF TypeInv, TypeOK, BookingsTypeOK, DatabaseTypeOK, BookingRows
<1>2. /\ Row(r).id = r
      /\ Row(r).start = Start(r)
      /\ Row(r).end = End(r)
  BY DEF Row
<1>3. /\ \A q \in BookingRequests :
           pc[q] \in {"enqueue", "done"} => pc'[q] \in {"enqueue", "done"}
      /\ pc'[r] \in {"enqueue", "done"}
      /\ \A q \in BookingRequests \ {r} : pc'[q] = pc[q]
  BY <1>1
<1>4. RowsAreInserted' /\ SeenWasThere'
  BY <1>1, <1>2, <1>3 DEF RaceInv, RowsAreInserted, SeenWasThere
<1>5. /\ \A q \in BookingRequests : r \notin sawBookings[q]
      /\ \A x \in bookings : x.id # r
  BY DEF RaceInv, SeenWasThere, RowsAreInserted
<1>6. \A q \in BookingRequests : /\ SeenBookings(q)' = SeenBookings(q)
                                 /\ SeenBlocks(q)' = SeenBlocks(q)
  BY <1>2, <1>5 DEF SeenBookings, SeenBlocks, Overlaps, Start, End
<1>7. SeenIsFree'
  BY <1>3, <1>6 DEF RaceInv, SeenIsFree, Overlaps
<1>8. OverlapNeedsRace'
  <2>1. \A y \in bookings : Meet(Row(r), y) => y.id \notin sawBookings[r]
    BY <1>2 DEF RaceInv, SeenIsFree, SeenBookings, Meet, Overlaps
  <2>2. \A y \in blocks : Meet(Row(r), y) => y.id \notin sawBlocks[r]
    BY <1>2 DEF RaceInv, SeenIsFree, SeenBlocks, Meet, Overlaps
  <2>3. QED
    BY <1>1, <1>2, <1>5, <2>1, <2>2
       DEF RaceInv, OverlapNeedsRace, Meet, Overlaps
<1>9. BlockOverlapNeedsRace'
  BY DEF RaceInv, BlockOverlapNeedsRace, Meet, Overlaps
<1>10. QED
  BY <1>4, <1>7, <1>8, <1>9 DEF RaceInv

\* What r saw is what is there, and what it found are the rows of that which
\* overlap.
LEMMA BookingRead ==
  ASSUME TypeInv, RaceInv, NEW r \in BookingRequests,
         ReadBlocks(r) \/ ReadBookings(r), UNCHANGED blockVars
  PROVE  RaceInv'
<1>1. UNCHANGED <<pc, call, bookings, blocks, bpc, bcall, bsaw>>
  BY DEF ReadBlocks, ReadBookings, dbVars, blockVars, createBlockVars
<1>2. /\ sawBookings \in [BookingRequests -> SUBSET BookingRequests]
      /\ sawBlocks \in [BookingRequests -> SUBSET BlockRequests]
      /\ foundBookings \in [BookingRequests -> SUBSET BookingRequests]
      /\ foundBlocks \in [BookingRequests -> SUBSET BlockRequests]
      /\ awaiting \in [BookingRequests -> SUBSET {"blocks", "bookings"}]
      /\ \A x \in bookings : x.id \in BookingRequests
      /\ \A x \in blocks : x.id \in BlockRequests
  BY DEF TypeInv, TypeOK, BookingsTypeOK, DatabaseTypeOK, BookingRows,
         BlockRows
<1>3. pc[r] = "overlaps"
  BY DEF ReadBlocks, ReadBookings
<1>4. RowsAreInserted'
  BY <1>1 DEF RaceInv, RowsAreInserted
<1>5. SeenWasThere'
  BY <1>1, <1>2 DEF RaceInv, SeenWasThere, RowsAreInserted, ReadBlocks,
                    ReadBookings, Ids
<1>6. OverlapNeedsRace' /\ BlockOverlapNeedsRace'
  <2>1. \A x \in bookings : x.id # r
    BY <1>3 DEF RaceInv, RowsAreInserted
  <2>2. \A q \in BookingRequests \ {r} :
          sawBookings'[q] = sawBookings[q] /\ sawBlocks'[q] = sawBlocks[q]
    BY <1>2 DEF ReadBlocks, ReadBookings
  <2>3. QED
    BY <1>1, <1>2, <2>1, <2>2 DEF RaceInv, OverlapNeedsRace,
       BlockOverlapNeedsRace, Meet, Overlaps
<1>7. SeenIsFree'
  <2>1. ASSUME NEW q \in BookingRequests \ {r}
        PROVE  /\ SeenBookings(q)' = SeenBookings(q)
               /\ SeenBlocks(q)' = SeenBlocks(q)
               /\ awaiting'[q] = awaiting[q]
               /\ foundBookings'[q] = foundBookings[q]
               /\ foundBlocks'[q] = foundBlocks[q]
    BY <1>1, <1>2 DEF SeenBookings, SeenBlocks, Overlaps, Start, End,
                      ReadBlocks, ReadBookings
  <2>2. "bookings" \notin awaiting'[r]
          => \A x \in SeenBookings(r)' : x.id \in foundBookings'[r]
    BY <1>1, <1>2, <1>3 DEF RaceInv, SeenIsFree, SeenBookings, ReadBlocks,
       ReadBookings, Ids, OverlappingBookings, Overlaps, Start, End
  <2>3. "blocks" \notin awaiting'[r]
          => \A x \in SeenBlocks(r)' : x.id \in foundBlocks'[r]
    BY <1>1, <1>2, <1>3 DEF RaceInv, SeenIsFree, SeenBlocks, ReadBlocks,
       ReadBookings, Ids, OverlappingBlocks, Overlaps, Start, End
  <2>4. QED
    BY <1>1, <1>3, <2>1, <2>2, <2>3 DEF RaceInv, SeenIsFree, Overlaps
<1>8. QED
  BY <1>4, <1>5, <1>6, <1>7 DEF RaceInv

LEMMA BookingRace ==
  ASSUME TypeInv, RaceInv, NEW r \in BookingRequests, BookingNext(r)
  PROVE  RaceInv'
<1> USE DEF Goto, Finish, ReadsUnchanged, dbVars, blockVars, createBlockVars,
            deleteBlockVars
<1>1. /\ pc \in [BookingRequests -> Phases]
      /\ call \in [BookingRequests -> Calls \cup {NoCall}]
      /\ awaiting \in [BookingRequests -> SUBSET {"blocks", "bookings"}]
  BY DEF TypeInv, TypeOK, BookingsTypeOK
<1>2. UNCHANGED blockVars
  BY DEF BookingNext
<1>3. ASSUME NEW c \in Calls, StartCreate(r, c)
      PROVE  RaceInv'
  BY <1>1, <1>2, <1>3, BookingQuiet DEF StartCreate
<1>4. CASE ValidateBusiness(r)
  BY <1>1, <1>2, <1>4, BookingQuiet DEF ValidateBusiness
<1>5. CASE ValidateService(r)
  BY <1>1, <1>2, <1>5, BookingQuiet DEF ValidateService
<1>6. ASSUME NEW now \in Instants, GetWorkingHours(r, now)
      PROVE  RaceInv'
  BY <1>1, <1>2, <1>6, BookingQuiet DEF GetWorkingHours
<1>7. CASE ReadBlocks(r) \/ ReadBookings(r)
  BY <1>2, <1>7, BookingRead
<1>8. CASE CheckReserved(r)
  <2>1. foundBlocks[r] = {} /\ foundBookings[r] = {}
          => SeenBookings(r) = {} /\ SeenBlocks(r) = {}
    BY <1>8 DEF CheckReserved, RaceInv, SeenIsFree
  <2>2. SeenBookings(r)' = SeenBookings(r) /\ SeenBlocks(r)' = SeenBlocks(r)
    BY <1>8 DEF CheckReserved, SeenBookings, SeenBlocks, Overlaps, Start, End
  <2>3. QED
    BY <1>1, <1>2, <1>8, <2>1, <2>2, BookingQuiet DEF CheckReserved
<1>9. CASE CreateBookingRecord(r)
  BY <1>2, <1>9, BookingInsert DEF CreateBookingRecord
<1>10. CASE LoseCommit(r)
  BY <1>2, <1>10, BookingInsert DEF LoseCommit
<1>11. CASE EnqueueBookingCreated(r) \/ LoseReply(r)
  BY <1>1, <1>2, <1>11, BookingQuiet DEF EnqueueBookingCreated, LoseReply
<1>12. CASE Fail(r)
  BY <1>1, <1>2, <1>12, BookingQuiet DEF Fail
<1>13. QED
  BY <1>3, <1>4, <1>5, <1>6, <1>7, <1>8, <1>9, <1>10, <1>11, <1>12
     DEF BookingNext, BookingStep, BookingMove

-----------------------------------------------------------------------------
(***************************************************************************)
(* Steps of a block's creation and of its deletion.                        *)
(***************************************************************************)
LEMMA BlockQuiet ==
  ASSUME TypeInv, RaceInv, NEW r \in BlockRequests,
         UNCHANGED <<bookings, pc, call, awaiting, foundBlocks, foundBookings,
                     sawBlocks, sawBookings, blocks, bsaw>>,
         bpc' = [bpc EXCEPT ![r] = bpc'[r]],
         \A q \in BlockRequests \ {r} : bcall'[q] = bcall[q],
         bpc[r] = "done" => bpc'[r] = "done",
         bpc'[r] # "hours",
         bpc'[r] = "insert" => bpc[r] = "hours" /\ UNCHANGED bcall
  PROVE  RaceInv'
<1>1. /\ bpc \in [BlockRequests -> BlockPhases]
      /\ bcall \in [BlockRequests -> BlockCalls \cup {NoBlockCall}]
      /\ bsaw \in [BlockRequests -> SUBSET BlockRequests]
      /\ sawBlocks \in [BookingRequests -> SUBSET BlockRequests]
      /\ \A x \in blocks : x.id \in BlockRequests
  BY DEF TypeInv, TypeOK, BlocksTypeOK, BookingsTypeOK, DatabaseTypeOK,
         BlockRows
<1>2. \A q \in BlockRequests : bpc[q] = "done" => bpc'[q] = "done"
  BY <1>1
<1>3. RowsAreInserted' /\ SeenWasThere'
  BY <1>1, <1>2 DEF RaceInv, RowsAreInserted, SeenWasThere
<1>4. \A q \in BookingRequests : /\ SeenBookings(q)' = SeenBookings(q)
                                 /\ SeenBlocks(q)' = SeenBlocks(q)
  BY DEF SeenBookings, SeenBlocks, Overlaps, Start, End
<1>5. SeenIsFree'
  BY <1>1, <1>4 DEF RaceInv, SeenIsFree, Overlaps
<1>6. OverlapNeedsRace' /\ BlockOverlapNeedsRace'
  BY DEF RaceInv, OverlapNeedsRace, BlockOverlapNeedsRace, Meet, Overlaps
<1>7. QED
  BY <1>3, <1>5, <1>6 DEF RaceInv

LEMMA BlockRace ==
  ASSUME TypeInv, RaceInv, NEW r \in BlockRequests, BlockNext(r)
  PROVE  RaceInv'
<1> USE DEF GotoBlock, FinishBlock, dbVars, deleteBlockVars
<1>1. UNCHANGED <<bookings, pc, call, awaiting, foundBlocks, foundBookings,
                  sawBlocks, sawBookings>>
  BY DEF BlockNext, requestVars, BlockStep, BlockMove, StartBlock,
     GuardBlock,
         ValidateBlockBusiness, ReadOverlap, ReadBlockHours,
         CreateBlockRecord, FailBlock
<1>2. /\ bpc \in [BlockRequests -> BlockPhases]
      /\ bcall \in [BlockRequests -> BlockCalls \cup {NoBlockCall}]
      /\ bsaw \in [BlockRequests -> SUBSET BlockRequests]
      /\ sawBlocks \in [BookingRequests -> SUBSET BlockRequests]
      /\ \A x \in blocks : x.id \in BlockRequests
  BY DEF TypeInv, TypeOK, BlocksTypeOK, BookingsTypeOK, DatabaseTypeOK,
         BlockRows
<1>3. \A q \in BookingRequests : SeenBookings(q)' = SeenBookings(q)
  BY <1>1 DEF SeenBookings, Overlaps, Start, End
<1>5. ASSUME NEW c \in BlockCalls, StartBlock(r, c)
      PROVE  RaceInv'
  BY <1>1, <1>2, <1>5, BlockQuiet DEF StartBlock
<1>6. CASE GuardBlock(r)
  BY <1>1, <1>2, <1>6, BlockQuiet DEF GuardBlock
<1>7. CASE ValidateBlockBusiness(r)
  BY <1>1, <1>2, <1>7, BlockQuiet DEF ValidateBlockBusiness
<1>8. CASE ReadOverlap(r)
  <2>1. /\ UNCHANGED <<blocks, bcall>>
        /\ bpc[r] = "overlap"
        /\ bpc'[r] \in {"hours", "done"}
        /\ \A q \in BlockRequests \ {r} : bpc'[q] = bpc[q]
        /\ \A q \in BlockRequests \ {r} : bsaw'[q] = bsaw[q]
        /\ bsaw'[r] = Ids(blocks)
    BY <1>2, <1>8 DEF ReadOverlap
  <2>2. RowsAreInserted' /\ SeenWasThere'
    BY <1>1, <1>2, <2>1 DEF RaceInv, RowsAreInserted, SeenWasThere, Ids
  <2>3. \A q \in BookingRequests : SeenBlocks(q)' = SeenBlocks(q)
    BY <1>1, <2>1 DEF SeenBlocks, Overlaps, Start, End
  <2>4. bpc'[r] = "hours" =>
          \A x \in blocks : x.business = bcall[r].business
             => ~Overlaps(x, bcall[r].start, bcall[r].end)
    BY <1>2, <1>8 DEF ReadOverlap
  <2>5. SeenIsFree'
    BY <1>1, <1>2, <1>3, <2>1, <2>3, <2>4 DEF RaceInv, SeenIsFree, Overlaps
  <2>6. OverlapNeedsRace'
    BY <1>1, <2>1 DEF RaceInv, OverlapNeedsRace, Meet, Overlaps
  <2>7. \A x \in blocks : x.id # r
    BY <2>1 DEF RaceInv, RowsAreInserted
  <2>8. BlockOverlapNeedsRace'
    BY <1>2, <2>1, <2>7 DEF RaceInv, BlockOverlapNeedsRace, Meet, Overlaps
  <2>9. QED
    BY <2>2, <2>5, <2>6, <2>8 DEF RaceInv
<1>9. CASE ReadBlockHours(r)
  BY <1>1, <1>2, <1>9, BlockQuiet DEF ReadBlockHours
<1>10. CASE CreateBlockRecord(r)
  <2>1. /\ blocks' = blocks \cup {BlockRow(r)}
        /\ UNCHANGED <<bcall, bsaw>>
        /\ bpc[r] = "insert"
        /\ bpc'[r] = "done"
        /\ \A q \in BlockRequests \ {r} : bpc'[q] = bpc[q]
    BY <1>2, <1>10 DEF CreateBlockRecord
  <2>2. /\ BlockRow(r).id = r
        /\ BlockRow(r).business = bcall[r].business
        /\ BlockRow(r).start = bcall[r].start
        /\ BlockRow(r).end = bcall[r].end
    BY DEF BlockRow
  <2>3. RowsAreInserted' /\ SeenWasThere'
    BY <1>1, <1>2, <2>1, <2>2 DEF RaceInv, RowsAreInserted, SeenWasThere
  <2>4. /\ \A q \in BookingRequests : r \notin sawBlocks[q]
        /\ \A q \in BlockRequests : r \notin bsaw[q]
        /\ \A x \in blocks : x.id # r
    BY <2>1 DEF RaceInv, SeenWasThere, RowsAreInserted
  <2>5. \A q \in BookingRequests : SeenBlocks(q)' = SeenBlocks(q)
    BY <1>1, <2>1, <2>2, <2>4 DEF SeenBlocks, Overlaps, Start, End
  <2>6. SeenIsFree'
    BY <1>1, <1>2, <1>3, <2>1, <2>2, <2>4, <2>5
       DEF RaceInv, SeenIsFree, Overlaps
  <2>7. OverlapNeedsRace'
    <3>1. \A x \in bookings : x.id \in BookingRequests
      BY DEF TypeInv, TypeOK, DatabaseTypeOK, BookingRows
    <3>2. QED
      BY <1>1, <2>1, <2>2, <2>4, <3>1
         DEF RaceInv, OverlapNeedsRace, Meet, Overlaps
  <2>8. BlockOverlapNeedsRace'
    BY <1>2, <2>1, <2>2, <2>4
       DEF RaceInv, SeenIsFree, BlockOverlapNeedsRace, Meet, Overlaps
  <2>9. QED
    BY <2>3, <2>6, <2>7, <2>8 DEF RaceInv
<1>11. CASE FailBlock(r)
  BY <1>1, <1>2, <1>11, BlockQuiet DEF FailBlock
<1>12. QED
  BY <1>5, <1>6, <1>7, <1>8, <1>9, <1>10, <1>11
     DEF BlockNext, BlockStep, BlockMove

LEMMA DeleteRace ==
  ASSUME TypeInv, RaceInv, NEW r \in DeleteRequests, DeleteNext(r)
  PROVE  RaceInv'
<1>1. /\ UNCHANGED <<bookings, pc, call, awaiting, foundBlocks,
                     foundBookings, sawBlocks, sawBookings, bpc, bcall, bsaw>>
      /\ blocks' \subseteq blocks
  BY DEF DeleteNext, requestVars, DeleteStep, DeleteMove, StartDelete,
     GuardDelete,
         DeleteBlock, FailDelete, dbVars, createBlockVars, GotoDelete,
         FinishDelete
<1>2. RowsAreInserted' /\ SeenWasThere'
  BY <1>1 DEF RaceInv, RowsAreInserted, SeenWasThere
<1>3. \A q \in BookingRequests : /\ SeenBookings(q)' = SeenBookings(q)
                                 /\ SeenBlocks(q)' \subseteq SeenBlocks(q)
  BY <1>1 DEF SeenBookings, SeenBlocks, Overlaps, Start, End
<1>4. SeenIsFree'
  BY <1>1, <1>3 DEF RaceInv, SeenIsFree, Overlaps
<1>5. OverlapNeedsRace' /\ BlockOverlapNeedsRace'
  BY <1>1 DEF RaceInv, OverlapNeedsRace, BlockOverlapNeedsRace, Meet, Overlaps
<1>6. QED
  BY <1>2, <1>4, <1>5 DEF RaceInv

\* A step that touches none of the variables RaceInv speaks of: a schedule's
\* or a stutter.
LEMMA OtherRace ==
  ASSUME RaceInv,
         UNCHANGED <<bookings, blocks, pc, call, awaiting, foundBlocks,
                     foundBookings, sawBlocks, sawBookings, bpc, bcall, bsaw>>
  PROVE  RaceInv'
<1>1. \A q \in BookingRequests : /\ SeenBookings(q)' = SeenBookings(q)
                                 /\ SeenBlocks(q)' = SeenBlocks(q)
  BY DEF SeenBookings, SeenBlocks, Overlaps, Start, End
<1>2. QED
  BY <1>1 DEF RaceInv, RowsAreInserted, SeenWasThere, SeenIsFree,
     OverlapNeedsRace, BlockOverlapNeedsRace, Meet, Overlaps

LEMMA RaceStep == TypeInv /\ RaceInv /\ [Next]_vars => RaceInv'
<1> SUFFICES ASSUME TypeInv, RaceInv, [Next]_vars PROVE RaceInv'
  OBVIOUS
<1>1. ASSUME NEW w \in ScheduleRequests, ScheduleNext(w)
      PROVE  RaceInv'
  BY <1>1, OtherRace DEF ScheduleNext, ScheduleStep, ScheduleMove,
     StartSchedule,
     GuardSchedule, DeleteWeek, CommitWeek, FailSchedule, GotoSchedule,
     FinishSchedule, dbVars, requestVars, blockVars, createBlockVars
<1>2. CASE UNCHANGED vars
  BY <1>2, OtherRace DEF vars, dbVars, requestVars, blockVars,
                         createBlockVars
<1>3. CASE Next
  BY <1>1, <1>3, BookingRace, BlockRace, DeleteRace DEF Next
<1>4. QED
  BY <1>2, <1>3

\* Rows come from requests past their insert, a row inserted later was not
\* seen, and who is about to insert saw nothing in its way.
THEOREM AlwaysRaceInv == Spec => []RaceInv
BY RaceInit, RaceStep, AlwaysTypeInv, PTL DEF Spec

\* Two bookings overlap only if each was inserted after the other's request
\* had read the table, and a booking never overlaps a block its check saw.
THEOREM DoubleBookingNeedsRace == Spec => []OverlapNeedsRace
BY AlwaysRaceInv, PTL DEF RaceInv

\* The same for two blocks of a business.
THEOREM BlocksNeedRace == Spec => []BlockOverlapNeedsRace
BY AlwaysRaceInv, PTL DEF RaceInv
=============================================================================
