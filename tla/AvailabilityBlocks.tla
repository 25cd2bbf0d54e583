------------------------- MODULE AvailabilityBlocks -------------------------
(***************************************************************************)
(* BlocksService: POST /businesses/:id/blocks and DELETE /blocks/:id, with *)
(* the RoleGuard that runs before each.  As in Bookings, an action is one  *)
(* await with the code that follows it.  A block is checked against the    *)
(* blocks of its business and against working hours, never against the     *)
(* bookings.                                                               *)
(*                                                                         *)
(*   create   idle -> guard -> business -> overlap -> hours -> insert      *)
(*                 -> done                                                 *)
(*   delete   idle -> guard -> delete -> done                              *)
(***************************************************************************)
EXTENDS Database

CONSTANTS BlockRequests,    \* the requests that may create a block
          BlockCalls,       \* [user, business, start, end, from, to]
          DeleteRequests,
          DeleteCalls,      \* [user, block]
          NoBlockCall

\* The bodies that pass the ValidationPipe: aligned, and start before end.
\* `from` and `to` are the minutes of the day that the two ISO strings show,
\* in ticks: the start rounded down and the end rounded up (a written offset
\* may be off the ticks).
SoundBlockCall(c) ==
  /\ c \in [user : Users, business : {c.business}, start : Int, end : Int,
            from : 0 .. DayLength - 1, to : 0 .. DayLength]
  /\ c.start < c.end

ASSUME BlockCallsAssumption ==
  /\ \A c \in BlockCalls : SoundBlockCall(c)
  /\ NoBlockCall \notin BlockCalls

VARIABLES bpc, bcall, banswer,   \* as pc, call and answer, for creations
          bsaw,                  \* auxiliary: ids of the blocks r saw
          dpc, dcall, danswer    \* the same for deletions

createBlockVars == <<bpc, bcall, banswer, bsaw>>
deleteBlockVars == <<dpc, dcall, danswer>>
blockVars == <<createBlockVars, deleteBlockVars>>

BlockPhases == {"idle", "guard", "business", "overlap", "hours", "insert",
                "done"}
BlockAnswers == {"none", "created", "bad_request", "forbidden",
                 "business_not_found", "overlap", "hours_not_found",
                 "outside_hours", "error"}
DeletePhases == {"idle", "guard", "delete", "done"}
DeleteAnswers == {"none", "deleted", "bad_request", "forbidden",
                  "not_found", "error"}

BlocksTypeOK ==
  /\ bpc \in [BlockRequests -> BlockPhases]
  /\ bcall \in [BlockRequests -> BlockCalls \cup {NoBlockCall}]
  /\ banswer \in [BlockRequests -> BlockAnswers]
  /\ bsaw \in [BlockRequests -> SUBSET BlockRequests]
  /\ dpc \in [DeleteRequests -> DeletePhases]
  /\ dcall \in [DeleteRequests -> DeleteCalls \cup {NoBlockCall}]
  /\ danswer \in [DeleteRequests -> DeleteAnswers]

BlocksInit ==
  /\ bpc = [r \in BlockRequests |-> "idle"]
  /\ bcall = [r \in BlockRequests |-> NoBlockCall]
  /\ banswer = [r \in BlockRequests |-> "none"]
  /\ bsaw = [r \in BlockRequests |-> {}]
  /\ dpc = [r \in DeleteRequests |-> "idle"]
  /\ dcall = [r \in DeleteRequests |-> NoBlockCall]
  /\ danswer = [r \in DeleteRequests |-> "none"]

-----------------------------------------------------------------------------
GotoBlock(r, phase) ==
  /\ bpc' = [bpc EXCEPT ![r] = phase]
  /\ UNCHANGED banswer

FinishBlock(r, result) ==
  /\ bpc' = [bpc EXCEPT ![r] = "done"]
  /\ banswer' = [banswer EXCEPT ![r] = result]

StartBlock(r, c) ==
  /\ bpc[r] = "idle"
  /\ bcall' = [bcall EXCEPT ![r] = c]
  /\ GotoBlock(r, "guard")
  /\ UNCHANGED <<bsaw, deleteBlockVars, dbVars>>

GuardBlock(r) ==
  /\ bpc[r] = "guard"
  /\ LET b       == bcall[r].business
         exists  == b \in Businesses
         verdict == RoleGuard(bcall[r].user, exists,
                              IF exists THEN Owner[b] ELSE bcall[r].user)
     IN  IF verdict = "pass" THEN GotoBlock(r, "business")
                             ELSE FinishBlock(r, verdict)
  /\ UNCHANGED <<bcall, bsaw, deleteBlockVars, dbVars>>

ValidateBlockBusiness(r) ==
  /\ bpc[r] = "business"
  /\ IF bcall[r].business \in Businesses
     THEN GotoBlock(r, "overlap")
     ELSE FinishBlock(r, "business_not_found")
  /\ UNCHANGED <<bcall, bsaw, deleteBlockVars, dbVars>>

\* The findFirst of BlocksOverlapService: only this business's blocks.
ReadOverlap(r) ==
  /\ bpc[r] = "overlap"
  /\ bsaw' = [bsaw EXCEPT ![r] = Ids(blocks)]
  /\ IF \E x \in blocks : /\ x.business = bcall[r].business
                          /\ Overlaps(x, bcall[r].start, bcall[r].end)
     THEN FinishBlock(r, "overlap")
     ELSE GotoBlock(r, "hours")
  /\ UNCHANGED <<bcall, deleteBlockVars, dbVars>>

\* Minutes of the day as the request's own strings show them.
InsideBlockHours(c, h) ==
  /\ c.from >= h.open
  /\ c.to <= h.close

\* findFirst({businessId}) has no weekday and no order: any row of the
\* business may come back.
ReadBlockHours(r) ==
  /\ bpc[r] = "hours"
  /\ LET rows == HoursOf(bcall[r].business)
     IN  \/ rows = {} /\ FinishBlock(r, "hours_not_found")
         \/ \E h \in rows : IF InsideBlockHours(bcall[r], h)
                            THEN GotoBlock(r, "insert")
                            ELSE FinishBlock(r, "outside_hours")
  /\ UNCHANGED <<bcall, bsaw, deleteBlockVars, dbVars>>

BlockRow(r) == [id |-> r, business |-> bcall[r].business,
                start |-> bcall[r].start, end |-> bcall[r].end]

\* createBlockRecord; "error" when the commit's acknowledgement is lost.
CreateBlockRecord(r) ==
  /\ bpc[r] = "insert"
  /\ blocks' = blocks \cup {BlockRow(r)}
  /\ \E result \in {"created", "error"} : FinishBlock(r, result)
  /\ UNCHANGED <<bcall, bsaw, deleteBlockVars, bookings, workingHours>>

FailBlock(r) ==
  /\ bpc[r] \notin {"idle", "done"}
  /\ FinishBlock(r, "error")
  /\ UNCHANGED <<bcall, bsaw, deleteBlockVars, dbVars>>

-----------------------------------------------------------------------------
GotoDelete(r, phase) ==
  /\ dpc' = [dpc EXCEPT ![r] = phase]
  /\ UNCHANGED danswer

FinishDelete(r, result) ==
  /\ dpc' = [dpc EXCEPT ![r] = "done"]
  /\ danswer' = [danswer EXCEPT ![r] = result]

StartDelete(r, c) ==
  /\ dpc[r] = "idle"
  /\ dcall' = [dcall EXCEPT ![r] = c]
  /\ GotoDelete(r, "guard")
  /\ UNCHANGED <<createBlockVars, dbVars>>

\* getResource('blocks', id): the owner of the business of the block.
GuardDelete(r) ==
  /\ dpc[r] = "guard"
  /\ LET rows    == {x \in blocks : x.id = dcall[r].block}
         owners  == {Owner[x.business] : x \in rows}
         verdict == RoleGuard(dcall[r].user, rows # {},
                              CHOOSE u \in Users : rows = {} \/ u \in owners)
     IN  IF verdict = "pass" THEN GotoDelete(r, "delete")
                             ELSE FinishDelete(r, verdict)
  /\ UNCHANGED <<dcall, createBlockVars, dbVars>>

\* BlocksService#delete.  A block that has gone since the guard is a 404;
\* the acknowledgement of a delete that was done may be lost.  The mutant
\* waits for a block to delete.
DeleteExisting(r) ==
  /\ dpc[r] = "delete"
  /\ dcall[r].block \in Ids(blocks)
  /\ blocks' = {x \in blocks : x.id # dcall[r].block}
  /\ FinishDelete(r, "deleted")
  /\ UNCHANGED <<dcall, createBlockVars, bookings, workingHours>>

DeleteBlock(r) ==
  /\ dpc[r] = "delete"
  /\ IF dcall[r].block \in Ids(blocks)
     THEN /\ blocks' = {x \in blocks : x.id # dcall[r].block}
          /\ \E result \in {"deleted", "error"} : FinishDelete(r, result)
     ELSE FinishDelete(r, "not_found") /\ UNCHANGED blocks
  /\ UNCHANGED <<dcall, createBlockVars, bookings, workingHours>>

FailDelete(r) ==
  /\ dpc[r] \notin {"idle", "done"}
  /\ FinishDelete(r, "error")
  /\ UNCHANGED <<dcall, createBlockVars, dbVars>>

\* What the handlers do by themselves when nothing fails; and when it may.
BlockMove(r) ==
  \/ GuardBlock(r) \/ ValidateBlockBusiness(r) \/ ReadOverlap(r)
  \/ ReadBlockHours(r) \/ CreateBlockRecord(r)

BlockStep(r) == BlockMove(r) \/ FailBlock(r)

DeleteMove(r) == GuardDelete(r) \/ DeleteBlock(r)

DeleteStep(r) == DeleteMove(r) \/ FailDelete(r)
=============================================================================
