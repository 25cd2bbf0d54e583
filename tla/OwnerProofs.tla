----------------------------- MODULE OwnerProofs -----------------------------
(***************************************************************************)
(* Who may change what a business offers, and what a week can be, for      *)
(* every catalogue and every interleaving.                                 *)
(*                                                                         *)
(* RoleGuard runs some awaits before the write it allows.  What keeps its  *)
(* verdict true until then: a block keeps its business for as long as it   *)
(* exists, and a request that has been sent keeps its body (OwnerInv).     *)
(***************************************************************************)
EXTENDS SchedulingProofs

BlocksKeepBusiness ==
  \A x \in blocks : bpc[x.id] = "done" /\ x.business = bcall[x.id].business

DeletesAreOwned ==
  \A d \in DeleteRequests :
    dpc[d] = "delete" =>
      /\ dcall[d].block \in BlockRequests
      /\ bpc[dcall[d].block] = "done"
      /\ Owner[bcall[dcall[d].block].business] = dcall[d].user

OwnerInv == BlocksKeepBusiness /\ DeletesAreOwned

-----------------------------------------------------------------------------
LEMMA OwnerInit == Init => OwnerInv
BY DEF Init, OwnerInv, BlocksKeepBusiness, DeletesAreOwned, DatabaseInit,
       BlocksInit

\* Creating a block: only the insert changes the table, and a request that is
\* done makes no more steps.
LEMMA BlockOwner ==
  ASSUME TypeInv, OwnerInv, NEW r \in BlockRequests, BlockNext(r)
  PROVE  OwnerInv'
<1>1. /\ bpc \in [BlockRequests -> BlockPhases]
      /\ bcall \in [BlockRequests -> BlockCalls \cup {NoBlockCall}]
      /\ \A x \in blocks : x.id \in BlockRequests
  BY DEF TypeInv, TypeOK, BlocksTypeOK, DatabaseTypeOK, BlockRows
<1>2. /\ UNCHANGED <<dpc, dcall>>
      /\ bpc[r] # "done"
      /\ \A q \in BlockRequests \ {r} : bpc'[q] = bpc[q]
                                        /\ bcall'[q] = bcall[q]
  BY <1>1 DEF BlockNext, BlockStep, BlockMove, StartBlock, GuardBlock,
     ValidateBlockBusiness, ReadOverlap, ReadBlockHours, CreateBlockRecord,
     FailBlock, GotoBlock, FinishBlock, deleteBlockVars
<1>3. \A x \in blocks : x.id # r
  BY <1>2 DEF OwnerInv, BlocksKeepBusiness
<1>4. \/ blocks' = blocks
      \/ /\ blocks' = blocks \cup {BlockRow(r)}
         /\ bpc'[r] = "done"
         /\ bcall'[r] = bcall[r]
  BY <1>1 DEF BlockNext, BlockStep, BlockMove, StartBlock, GuardBlock,
     ValidateBlockBusiness, ReadOverlap, ReadBlockHours, CreateBlockRecord,
     FailBlock, FinishBlock, dbVars
<1>5. BlocksKeepBusiness'
  BY <1>1, <1>2, <1>3, <1>4 DEF OwnerInv, BlocksKeepBusiness, BlockRow
<1>6. DeletesAreOwned'
  BY <1>2 DEF OwnerInv, DeletesAreOwned
<1>7. QED
  BY <1>5, <1>6 DEF OwnerInv

\* Deleting one: the guard reads the owner of a block that exists.
LEMMA DeleteOwner ==
  ASSUME TypeInv, OwnerInv, NEW d \in DeleteRequests, DeleteNext(d)
  PROVE  OwnerInv'
<1>1. /\ dpc \in [DeleteRequests -> DeletePhases]
      /\ dcall \in [DeleteRequests -> DeleteCalls \cup {NoBlockCall}]
      /\ \A x \in blocks : x.id \in BlockRequests /\ x.business \in Businesses
  BY DEF TypeInv, TypeOK, BlocksTypeOK, DatabaseTypeOK, BlockRows
<1>2. /\ UNCHANGED <<bpc, bcall>>
      /\ blocks' \subseteq blocks
      /\ \A q \in DeleteRequests \ {d} : dpc'[q] = dpc[q]
                                         /\ dcall'[q] = dcall[q]
  BY <1>1 DEF DeleteNext, DeleteStep, DeleteMove, StartDelete, GuardDelete,
     DeleteBlock, FailDelete, GotoDelete, FinishDelete, createBlockVars,
     dbVars
<1>3. BlocksKeepBusiness'
  BY <1>2 DEF OwnerInv, BlocksKeepBusiness
<1>4. CASE dpc'[d] # "delete"
  BY <1>2, <1>3, <1>4 DEF OwnerInv, DeletesAreOwned
<1>5. CASE dpc'[d] = "delete"
  <2>1. GuardDelete(d) /\ dcall' = dcall
    BY <1>1, <1>5 DEF DeleteNext, DeleteStep, DeleteMove, StartDelete,
       GuardDelete, DeleteBlock, FailDelete, GotoDelete, FinishDelete
  <2> DEFINE rows == {x \in blocks : x.id = dcall[d].block}
             owners == {Owner[x.business] : x \in rows}
             owner == CHOOSE u \in Users : rows = {} \/ u \in owners
  <2>2. RoleGuard(dcall[d].user, rows # {}, owner) = "pass"
    BY <1>1, <1>5, <2>1 DEF GuardDelete, FinishDelete
  <2>3. rows # {} /\ dcall[d].user = owner
    BY <2>2 DEF RoleGuard
  <2>4. PICK x \in blocks : x.id = dcall[d].block
    BY <2>3
  <2>5. owners = {Owner[bcall[dcall[d].block].business]}
    BY <2>4 DEF OwnerInv, BlocksKeepBusiness
  <2>6. Owner[bcall[dcall[d].block].business] \in Users
    BY <1>1, <2>4, CatalogAssumption DEF OwnerInv, BlocksKeepBusiness
  <2>7. owner = Owner[bcall[dcall[d].block].business]
    <3> HIDE DEF rows, owners
    <3>1. rows # {}
      BY <2>3
    <3>2. \E u \in Users : rows = {} \/ u \in owners
      BY <2>5, <2>6
    <3>3. owner \in owners
      BY <3>1, <3>2
    <3>4. QED
      BY <3>3, <2>5
  <2>8. bpc[dcall[d].block] = "done"
    BY <2>4 DEF OwnerInv, BlocksKeepBusiness
  <2>9. QED
    BY <1>1, <1>2, <1>3, <2>1, <2>3, <2>4, <2>7, <2>8
    DEF OwnerInv, DeletesAreOwned
<1>6. QED
  BY <1>4, <1>5

LEMMA OwnerStep == TypeInv /\ OwnerInv /\ [Next]_vars => OwnerInv'
<1> SUFFICES ASSUME TypeInv, OwnerInv, [Next]_vars PROVE OwnerInv'
  OBVIOUS
<1>1. CASE UNCHANGED <<blocks, bpc, bcall, dpc, dcall>>
  BY <1>1 DEF OwnerInv, BlocksKeepBusiness, DeletesAreOwned
<1>2. ASSUME NEW r \in BookingRequests, BookingNext(r)
      PROVE  UNCHANGED <<blocks, bpc, bcall, dpc, dcall>>
  BY <1>2 DEF BookingNext, BookingStep, BookingMove, StartCreate,
     ValidateBusiness, ValidateService, GetWorkingHours, ReadBlocks,
     ReadBookings, CheckReserved, CreateBookingRecord, LoseCommit,
     EnqueueBookingCreated, LoseReply, Fail, dbVars, blockVars,
     createBlockVars,
     deleteBlockVars
<1>3. ASSUME NEW w \in ScheduleRequests, ScheduleNext(w)
      PROVE  UNCHANGED <<blocks, bpc, bcall, dpc, dcall>>
  BY <1>3 DEF ScheduleNext, ScheduleStep, ScheduleMove, StartSchedule,
     GuardSchedule, DeleteWeek, CommitWeek, FailSchedule, dbVars, blockVars,
     createBlockVars, deleteBlockVars
<1>4. CASE UNCHANGED vars
  BY <1>1, <1>4 DEF vars, dbVars, blockVars, createBlockVars, deleteBlockVars
<1>5. CASE Next
  BY <1>1, <1>2, <1>3, <1>5, BlockOwner, DeleteOwner DEF Next
<1>6. QED
  BY <1>4, <1>5

\* The guard's verdict is still true when the handler writes.
THEOREM AlwaysOwnerInv == Spec => []OwnerInv
BY OwnerInit, OwnerStep, AlwaysTypeInv, PTL DEF Spec

-----------------------------------------------------------------------------
(***************************************************************************)
(* The writes.                                                             *)
(***************************************************************************)

BlocksChange(b) ==
  {x \in blocks : x.business = b} # {x \in blocks : x.business = b}'

LEMMA QuietWrites ==
  ASSUME NEW b, UNCHANGED <<blocks, workingHours>>
  PROVE  OwnerWrites(b)
BY DEF OwnerWrites, BlocksChange, HoursOf

LEMMA BlockWrites ==
  ASSUME TypeInv, NEW r \in BlockRequests, BlockNext(r), NEW b \in Businesses
  PROVE  OwnerWrites(b)
<1>1. CASE CreateBlockRecord(r)
  <2>1. /\ bpc \in [BlockRequests -> BlockPhases]
        /\ bpc[r] = "insert" /\ bpc'[r] = "done"
        /\ Owner[bcall[r].business] = bcall[r].user
    BY <1>1 DEF CreateBlockRecord, FinishBlock, TypeInv, TypeOK, BlocksTypeOK,
       Progress, BlockProgress
  <2>2. blocks' = blocks \cup {BlockRow(r)} /\ workingHours' = workingHours
    BY <1>1 DEF CreateBlockRecord
  <2>3. BlocksChange(b) => BlockRow(r).business = b
    BY <2>2 DEF BlocksChange
  <2>4. QED
    BY <2>1, <2>2, <2>3 DEF OwnerWrites, BlocksChange, BlockRow, HoursOf
<1>2. CASE ~CreateBlockRecord(r)
  BY <1>2, QuietWrites DEF BlockNext, BlockStep, BlockMove, StartBlock,
     GuardBlock, ValidateBlockBusiness, ReadOverlap, ReadBlockHours,
     FailBlock, dbVars
<1>3. QED
  BY <1>1, <1>2

LEMMA DeleteWrites ==
  ASSUME TypeInv, OwnerInv, NEW d \in DeleteRequests, DeleteNext(d),
         NEW b \in Businesses
  PROVE  OwnerWrites(b)
<1>1. CASE DeleteBlock(d)
  <2>1. /\ dpc[d] = "delete" /\ dpc'[d] = "done"
        /\ workingHours' = workingHours
        /\ blocks' = {x \in blocks : x.id # dcall[d].block}
    <3>1. dpc \in [DeleteRequests -> DeletePhases]
      BY DEF TypeInv, TypeOK, BlocksTypeOK
    <3>2. dpc[d] = "delete" /\ dpc'[d] = "done"
          /\ workingHours' = workingHours
      BY <1>1, <3>1 DEF DeleteBlock, FinishDelete
    <3>3. CASE dcall[d].block \in Ids(blocks)
      BY <1>1, <3>2, <3>3 DEF DeleteBlock
    <3>4. CASE dcall[d].block \notin Ids(blocks)
      BY <1>1, <3>2, <3>4 DEF DeleteBlock, Ids
    <3>5. QED
      BY <3>3, <3>4
  <2>2. ASSUME BlocksChange(b)
        PROVE  dcall[d].user = Owner[b]
    <3>1. PICK x \in blocks : x.business = b /\ x.id = dcall[d].block
      BY <2>1, <2>2 DEF BlocksChange
    <3>2. bcall[dcall[d].block].business = b
      BY <3>1 DEF OwnerInv, BlocksKeepBusiness
    <3>3. QED
      BY <2>1, <3>2 DEF OwnerInv, DeletesAreOwned
  <2>3. QED
    BY <2>1, <2>2 DEF OwnerWrites, BlocksChange, HoursOf
<1>2. CASE ~DeleteBlock(d)
  BY <1>2, QuietWrites DEF DeleteNext, DeleteStep, DeleteMove, StartDelete,
     GuardDelete, FailDelete, dbVars
<1>3. QED
  BY <1>1, <1>2

\* The commit replaces the rows of one business by rows of that business.
LEMMA CommitWrites ==
  ASSUME TypeInv, NEW w \in ScheduleRequests, CommitWeek(w)
  PROVE  /\ wcall[w] \in ScheduleCalls
         /\ wcall[w].business \in Businesses
         /\ Owner[wcall[w].business] = wcall[w].user
         /\ ~wcall[w].broken
         /\ wpc[w] = "commit" /\ wpc'[w] = "done"
         /\ UNCHANGED <<blocks, wcall>>
         /\ HoursOf(wcall[w].business)' = RowsOf(w, wcall[w])
         /\ \A b : b # wcall[w].business => HoursOf(b)' = HoursOf(b)
<1>1. /\ wpc \in [ScheduleRequests -> SchedulePhases]
      /\ wpc[w] = "commit" /\ wpc'[w] = "done"
      /\ UNCHANGED <<blocks, wcall>>
  BY DEF CommitWeek, FinishSchedule, TypeInv, TypeOK, ScheduleTypeOK
<1>2. /\ wcall[w] \in ScheduleCalls
      /\ wcall[w].business \in Businesses
      /\ Owner[wcall[w].business] = wcall[w].user
      /\ ~wcall[w].broken
  BY <1>1 DEF TypeInv, Progress, ScheduleProgress
<1>3. workingHours' = (workingHours \ HoursOf(wcall[w].business))
                        \cup RowsOf(w, wcall[w])
  BY DEF CommitWeek
<1>4. \A h \in RowsOf(w, wcall[w]) : h.business = wcall[w].business
  BY DEF RowsOf
<1>5. HoursOf(wcall[w].business)' = RowsOf(w, wcall[w])
  BY <1>1, <1>3, <1>4 DEF HoursOf
<1>6. \A b : b # wcall[w].business => HoursOf(b)' = HoursOf(b)
  BY <1>3, <1>4 DEF HoursOf
<1>7. QED
  BY <1>1, <1>2, <1>5, <1>6

LEMMA ScheduleWrites ==
  ASSUME TypeInv, NEW w \in ScheduleRequests, ScheduleNext(w),
         NEW b \in Businesses
  PROVE  OwnerWrites(b)
<1>1. CASE CommitWeek(w)
  BY <1>1, CommitWrites DEF OwnerWrites, BlocksChange
<1>2. CASE ~CommitWeek(w)
  BY <1>2, QuietWrites DEF ScheduleNext, ScheduleStep, ScheduleMove,
     StartSchedule, GuardSchedule, DeleteWeek, FailSchedule, dbVars
<1>3. QED
  BY <1>1, <1>2

LEMMA WritesAreOwned ==
  ASSUME TypeInv, OwnerInv, [Next]_vars, NEW b \in Businesses
  PROVE  OwnerWrites(b)
<1>1. CASE UNCHANGED vars
  BY <1>1, QuietWrites DEF vars, dbVars
<1>2. ASSUME NEW r \in BookingRequests, BookingNext(r)
      PROVE  OwnerWrites(b)
  BY <1>2, QuietWrites DEF BookingNext, BookingStep, BookingMove,
     StartCreate, ValidateBusiness, ValidateService, GetWorkingHours,
     ReadBlocks, ReadBookings, CheckReserved, CreateBookingRecord, LoseCommit,
     EnqueueBookingCreated, LoseReply, Fail, dbVars
<1>3. CASE Next
  BY <1>2, <1>3, BlockWrites, DeleteWrites, ScheduleWrites DEF Next
<1>4. QED
  BY <1>1, <1>3

\* Only the owner of a business changes its blocks and its working hours.
THEOREM OnlyOwnersWrite == Spec => OwnersOnly
<1>1. TypeInv /\ OwnerInv /\ [Next]_vars
        => [\A b \in Businesses : OwnerWrites(b)]_vars
  BY WritesAreOwned
<1>2. QED
  BY <1>1, AlwaysTypeInv, AlwaysOwnerInv, PTL DEF Spec, OwnersOnly

-----------------------------------------------------------------------------
(***************************************************************************)
(* Weeks.  A request that is not sent yet has no body, so nothing can be   *)
(* its week.                                                               *)
(***************************************************************************)
WeekInv ==
  /\ \A w \in ScheduleRequests : wpc[w] = "idle" => wcall[w] = NoScheduleCall
  /\ ScheduleIsOneRequest

LEMMA WeekInit == Init => WeekInv
BY DEF Init, WeekInv, ScheduleIsOneRequest, HoursOf, DatabaseInit,
       ScheduleInit

LEMMA WeekStep == TypeInv /\ WeekInv /\ [Next]_vars => WeekInv'
<1> SUFFICES ASSUME TypeInv, WeekInv, [Next]_vars PROVE WeekInv'
  OBVIOUS
<1>1. CASE UNCHANGED <<workingHours, wpc, wcall>>
  BY <1>1 DEF WeekInv, ScheduleIsOneRequest, HoursOf
<1>2. ASSUME NEW w \in ScheduleRequests, ScheduleNext(w)
      PROVE  WeekInv'
  <2>1. /\ wpc \in [ScheduleRequests -> SchedulePhases]
        /\ wcall \in [ScheduleRequests -> ScheduleCalls \cup {NoScheduleCall}]
    BY DEF TypeInv, TypeOK, ScheduleTypeOK
  <2>2. ASSUME NEW c \in ScheduleCalls, StartSchedule(w, c)
        PROVE  WeekInv'
    <3>1. /\ wcall[w] = NoScheduleCall
          /\ UNCHANGED workingHours
          /\ wpc'[w] = "guard"
          /\ \A v \in ScheduleRequests \ {w} : wcall'[v] = wcall[v]
                                               /\ wpc'[v] = wpc[v]
      BY <2>1, <2>2 DEF WeekInv, StartSchedule, GotoSchedule, dbVars
    <3>2. \A b \in Businesses : HoursOf(b)' = HoursOf(b)
      BY <3>1 DEF HoursOf
    <3>3. ScheduleIsOneRequest'
      BY <3>1, <3>2 DEF WeekInv, ScheduleIsOneRequest
    <3>4. QED
      BY <3>1, <3>3 DEF WeekInv
  <2>3. CASE CommitWeek(w)
    <3>1. \A v \in ScheduleRequests : wpc'[v] = "idle" => wpc[v] = "idle"
      BY <2>1, <2>3 DEF CommitWeek, FinishSchedule
    <3>2. wcall[w] # NoScheduleCall
      BY <2>3, CommitWrites, ScheduleCallsAssumption
    <3>3. ScheduleIsOneRequest'
      BY <2>3, <3>2, CommitWrites DEF WeekInv, ScheduleIsOneRequest
    <3>4. QED
      BY <2>3, <3>1, <3>3, CommitWrites DEF WeekInv
  <2>4. CASE GuardSchedule(w) \/ DeleteWeek(w) \/ FailSchedule(w)
    <3>1. /\ UNCHANGED <<workingHours, wcall>>
          /\ \A v \in ScheduleRequests : wpc'[v] = "idle" => wpc[v] = "idle"
      BY <2>1, <2>4 DEF GuardSchedule, DeleteWeek, FailSchedule, GotoSchedule,
         FinishSchedule, dbVars
    <3>2. QED
      BY <3>1 DEF WeekInv, ScheduleIsOneRequest, HoursOf
  <2>5. QED
    BY <1>2, <2>2, <2>3, <2>4 DEF ScheduleNext, ScheduleStep, ScheduleMove
<1>3. ASSUME NEW r \in BookingRequests, BookingNext(r)
      PROVE  UNCHANGED <<workingHours, wpc, wcall>>
  BY <1>3 DEF BookingNext, BookingStep, BookingMove, StartCreate,
     ValidateBusiness, ValidateService, GetWorkingHours, ReadBlocks,
     ReadBookings, CheckReserved, CreateBookingRecord, LoseCommit,
     EnqueueBookingCreated, LoseReply, Fail, dbVars, scheduleVars
<1>4. ASSUME NEW r \in BlockRequests, BlockNext(r)
      PROVE  UNCHANGED <<workingHours, wpc, wcall>>
  BY <1>4 DEF BlockNext, BlockStep, BlockMove, StartBlock, GuardBlock,
     ValidateBlockBusiness, ReadOverlap, ReadBlockHours, CreateBlockRecord,
     FailBlock, dbVars, scheduleVars
<1>5. ASSUME NEW d \in DeleteRequests, DeleteNext(d)
      PROVE  UNCHANGED <<workingHours, wpc, wcall>>
  BY <1>5 DEF DeleteNext, DeleteStep, DeleteMove, StartDelete, GuardDelete,
     DeleteBlock, FailDelete, dbVars, scheduleVars
<1>6. CASE UNCHANGED vars
  BY <1>1, <1>6 DEF vars, dbVars, scheduleVars
<1>7. CASE Next
  BY <1>1, <1>2, <1>3, <1>4, <1>5, <1>7 DEF Next
<1>8. QED
  BY <1>6, <1>7

\* A business's week is always one request's week, or the one it had first.
THEOREM WeeksAreWhole == Spec => []ScheduleIsOneRequest
<1>1. WeekInv => ScheduleIsOneRequest
  BY DEF WeekInv
<1>2. QED
  BY <1>1, WeekInit, WeekStep, AlwaysTypeInv, PTL DEF Spec
=============================================================================
