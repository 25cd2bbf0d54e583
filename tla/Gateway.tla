------------------------------ MODULE Gateway ------------------------------
(***************************************************************************)
(* The three routes of Scheduling that take a body, from the body on: the  *)
(* ValidationPipe stands before each handler, and only a body it passes    *)
(* becomes a call.  A body that is not taken is answered 4xx (by a guard,  *)
(* the pipe or the handler's own reading of it) and leaves no trace, so it *)
(* is no step.                                                             *)
(***************************************************************************)
EXTENDS Scheduling, Validation

CONSTANTS BookingBodies,    \* [user, business, service, start]
          BlockBodies,      \* [user, business, start, end]
          WeekBodies,       \* [user, business, days], days a sequence
          NoBody

\* The user is the one JwtStrategy found for the token; the rest is what the
\* client sent.
ASSUME BodiesAssumption ==
  /\ \A b \in BookingBodies : b.user \in Users /\ b.start \in RawTimes
  /\ \A b \in BlockBodies : /\ b.user \in Users
                             /\ b.start \in RawTimes /\ b.end \in RawTimes
  /\ \A b \in WeekBodies : /\ b.user \in Users
                            /\ b.days \in Seq(RawEntries) \cup {Junk}

VARIABLE body     \* body[r]: the body of r's call

BodyRequests == BookingRequests \cup BlockRequests \cup ScheduleRequests

GatewayInit == Init /\ body = [r \in BodyRequests |-> NoBody]

Carry(r, b) == body' = [body EXCEPT ![r] = b]

PostBooking(r, b) ==
  /\ TakesBooking(b)
  /\ StartCreate(r, BookingCall(b))
  /\ Carry(r, b)
  /\ UNCHANGED <<blockVars, scheduleVars>>

PostBlock(r, b) ==
  /\ TakesBlock(b)
  /\ StartBlock(r, BlockCall(b))
  /\ Carry(r, b)
  /\ UNCHANGED <<jobVars, requestVars, scheduleVars>>

PutWeek(w, b) ==
  /\ TakesWeek(b)
  /\ StartSchedule(w, WeekCall(b))
  /\ Carry(w, b)
  /\ UNCHANGED <<jobVars, requestVars, blockVars>>

\* The handlers, once they have their call; deletions carry no body.
HandlersStep ==
  \/ \E r \in BookingRequests : pc[r] # "idle" /\ BookingNext(r)
  \/ \E r \in BlockRequests : bpc[r] # "idle" /\ BlockNext(r)
  \/ \E r \in DeleteRequests : DeleteNext(r)
  \/ \E w \in ScheduleRequests : wpc[w] # "idle" /\ ScheduleNext(w)

GatewayNext ==
  \/ \E r \in BookingRequests, b \in BookingBodies : PostBooking(r, b)
  \/ \E r \in BlockRequests, b \in BlockBodies : PostBlock(r, b)
  \/ \E w \in ScheduleRequests, b \in WeekBodies : PutWeek(w, b)
  \/ HandlersStep /\ UNCHANGED body

GatewaySpec == GatewayInit /\ [][GatewayNext]_<<vars, body>>

FairGateway == GatewaySpec /\ Fairness

-----------------------------------------------------------------------------
(***************************************************************************)
(* The engine for every sound call: Scheduling as it is, but for the sets  *)
(* its calls are drawn from.  A request arrives with any call that has what*)
(* Scheduling assumes of one.                                              *)
(***************************************************************************)
EngineNext ==
  \/ \E r \in BookingRequests :
       /\ StartCreate(r, call'[r])
       /\ SoundCall(call'[r])
       /\ UNCHANGED <<blockVars, scheduleVars>>
  \/ \E r \in BlockRequests :
       /\ StartBlock(r, bcall'[r])
       /\ SoundBlockCall(bcall'[r])
       /\ UNCHANGED <<jobVars, requestVars, scheduleVars>>
  \/ \E w \in ScheduleRequests :
       /\ StartSchedule(w, wcall'[w])
       /\ SoundWeekCall(wcall'[w])
       /\ UNCHANGED <<jobVars, requestVars, blockVars>>
  \/ HandlersStep

\* The routes with their pipes implement the engine: whatever bodies are
\* sent, it meets only calls that it is specified for.
EngineSpec == Init /\ [][EngineNext]_vars

-----------------------------------------------------------------------------
(***************************************************************************)
(* What is in the tables is what was sent, though no single validator sees *)
(* to it.                                                                  *)
(***************************************************************************)
\* The hours a business may come to have: its first, or those of a week that
\* its pipe takes.
SentHours ==
  InitialHours \cup
    UNION {RowsOf(w, WeekCall(b)) :
             w \in ScheduleRequests, b \in {x \in WeekBodies : TakesWeek(x)}}

\* A booking starts when its body says, to the minute.
BookingsAsSent ==
  \A x \in bookings : x.start * Resolution = body[x.id].start.minute

\* A block lasts as its body says, and the wall minutes that the two strings
\* show, also those off the ticks, were inside hours of its business.
BlocksAsSent ==
  \A x \in blocks :
    /\ x.start * Resolution = body[x.id].start.minute
    /\ x.end * Resolution = body[x.id].end.minute
    /\ x.start < x.end
    /\ \E h \in SentHours :
         /\ h.business = x.business
         /\ h.open * Resolution <= WallMinute(body[x.id].start)
         /\ WallMinute(body[x.id].end) <= h.close * Resolution

\* If request w left hours, they are the whole week it sent: every entry was
\* one, no two were of one day, each opened before it closed, and none is
\* missing.
WeeksAsSent ==
  \A w \in ScheduleRequests :
    LET rows == {h \in workingHours : h.by = w}
        days == body[w].days
    IN  rows # {} =>
          /\ \A i \in DOMAIN days :
               /\ days[i] # Null
               /\ days[i].open < days[i].close
               /\ \E h \in rows : /\ h.day = days[i].day
                                  /\ h.open * Resolution = days[i].open
                                  /\ h.close * Resolution = days[i].close
          /\ \A i, j \in DOMAIN days :
               i # j => days[i].day # days[j].day

\* Bookings, blocks and hours are those that were sent: on the ticks the
\* engine counts in nothing is lost, and nothing that the validators leave
\* to each other gets through to a table.
StoredAsSent == BookingsAsSent /\ BlocksAsSent /\ WeeksAsSent
=============================================================================
