--------------------------- MODULE WeeklySchedule ---------------------------
(***************************************************************************)
(* WorkingHoursService#setWeeklySchedule: PUT /businesses/:id/working-hours*)
(* replaces the whole week of a business: deleteMany, then createMany, in  *)
(* one serializable transaction.                                           *)
(*                                                                         *)
(*   idle -> guard -> begin -> commit -> done                              *)
(*                                                                         *)
(* PostgreSQL is external.  deleteMany fixes the rows the transaction is   *)
(* about; when it wants to commit and they are no longer the rows of the   *)
(* business, a concurrent schedule has won and this one is aborted.  An    *)
(* abort for any other reason is always possible.                          *)
(***************************************************************************)
EXTENDS Database

CONSTANTS ScheduleRequests,
          ScheduleCalls,      \* [user, business, days, broken]
          NoScheduleCall

\* WeekScheduleDto: at most one entry per day, each opening before it
\* closes, in minutes 00:00 to 23:55 of the day; or a broken week, one with
\* an entry that is null, of whose days nothing is known or used.
SoundWeekCall(c) ==
  /\ c.user \in Users
  /\ c.broken \in BOOLEAN
  /\ c.broken => c.days = {}
  /\ c.days \subseteq [day : 0 .. 6, open : 0 .. DayLength - 1,
                       close : 0 .. DayLength - 1]
  /\ \A d \in c.days : d.open < d.close
  /\ \A d, e \in c.days : d.day = e.day => d = e

ASSUME ScheduleCallsAssumption ==
  /\ \A c \in ScheduleCalls : SoundWeekCall(c)
  /\ NoScheduleCall \notin ScheduleCalls

VARIABLES wpc, wcall, wanswer,
          snapshot     \* snapshot[w]: the rows w's deleteMany removes

scheduleVars == <<wpc, wcall, wanswer, snapshot>>

SchedulePhases == {"idle", "guard", "begin", "commit", "done"}
ScheduleAnswers == {"none", "saved", "bad_request", "forbidden", "error"}

\* The rows createManyAndReturn inserts for request w with body c.
RowsOf(w, c) == {[by |-> w, business |-> c.business, day |-> d.day,
                  open |-> d.open, close |-> d.close] : d \in c.days}

AllHours == InitialHours \cup
            UNION {RowsOf(w, c) : w \in ScheduleRequests, c \in ScheduleCalls}

ScheduleTypeOK ==
  /\ wpc \in [ScheduleRequests -> SchedulePhases]
  /\ wcall \in [ScheduleRequests -> ScheduleCalls \cup {NoScheduleCall}]
  /\ wanswer \in [ScheduleRequests -> ScheduleAnswers]
  /\ snapshot \in [ScheduleRequests -> SUBSET AllHours]

ScheduleInit ==
  /\ wpc = [w \in ScheduleRequests |-> "idle"]
  /\ wcall = [w \in ScheduleRequests |-> NoScheduleCall]
  /\ wanswer = [w \in ScheduleRequests |-> "none"]
  /\ snapshot = [w \in ScheduleRequests |-> {}]

-----------------------------------------------------------------------------
GotoSchedule(w, phase) ==
  /\ wpc' = [wpc EXCEPT ![w] = phase]
  /\ UNCHANGED wanswer

FinishSchedule(w, result) ==
  /\ wpc' = [wpc EXCEPT ![w] = "done"]
  /\ wanswer' = [wanswer EXCEPT ![w] = result]

StartSchedule(w, c) ==
  /\ wpc[w] = "idle"
  /\ wcall' = [wcall EXCEPT ![w] = c]
  /\ GotoSchedule(w, "guard")
  /\ UNCHANGED <<snapshot, dbVars>>

GuardSchedule(w) ==
  /\ wpc[w] = "guard"
  /\ LET b       == wcall[w].business
         exists  == b \in Businesses
         verdict == RoleGuard(wcall[w].user, exists,
                              IF exists THEN Owner[b] ELSE wcall[w].user)
     IN  IF verdict = "pass" THEN GotoSchedule(w, "begin")
                             ELSE FinishSchedule(w, verdict)
  /\ UNCHANGED <<wcall, snapshot, dbVars>>

\* The transaction begins, deleteMany runs in it, and the days are mapped to
\* rows.  On a broken week that throws, and Prisma rolls the deletion back.
DeleteWeek(w) ==
  /\ wpc[w] = "begin"
  /\ snapshot' = [snapshot EXCEPT ![w] = HoursOf(wcall[w].business)]
  /\ IF wcall[w].broken THEN FinishSchedule(w, "error")
                        ELSE GotoSchedule(w, "commit")
  /\ UNCHANGED <<wcall, dbVars>>

\* createManyAndReturn and the commit; "error" when its acknowledgement is
\* lost.  The mutant is the same code at READ COMMITTED.
CommitUnchecked(w) ==
  /\ wpc[w] = "commit"
  /\ workingHours' = (workingHours \ snapshot[w]) \cup RowsOf(w, wcall[w])
  /\ \E result \in {"saved", "error"} : FinishSchedule(w, result)
  /\ UNCHANGED <<wcall, snapshot, bookings, blocks>>

CommitWeek(w) ==
  /\ wpc[w] = "commit"
  /\ HoursOf(wcall[w].business) = snapshot[w]
  /\ workingHours' = (workingHours \ snapshot[w]) \cup RowsOf(w, wcall[w])
  /\ \E result \in {"saved", "error"} : FinishSchedule(w, result)
  /\ UNCHANGED <<wcall, snapshot, bookings, blocks>>

\* A query is rejected or the transaction is aborted: nothing was written.
FailSchedule(w) ==
  /\ wpc[w] \notin {"idle", "done"}
  /\ FinishSchedule(w, "error")
  /\ UNCHANGED <<wcall, snapshot, dbVars>>

\* A concurrent schedule has won: PostgreSQL aborts this transaction.
Lost(w) == wpc[w] = "commit" /\ HoursOf(wcall[w].business) # snapshot[w]

\* What the handler does by itself when nothing fails but the transaction;
\* and when anything may.
ScheduleMove(w) ==
  \/ GuardSchedule(w) \/ DeleteWeek(w) \/ CommitWeek(w)
  \/ Lost(w) /\ FailSchedule(w)

ScheduleStep(w) == ScheduleMove(w) \/ FailSchedule(w)
=============================================================================
