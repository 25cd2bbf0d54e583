----------------------------- MODULE Validation -----------------------------
(***************************************************************************)
(* The DTOs of the three bodies that reach the engine, and their custom    *)
(* validators.  Each validator passes what it thinks another one rejects:  *)
(* a range with an end that is missing or no time, a week with an entry    *)
(* that has no day.  Of an entry that is null there is no other one.       *)
(*                                                                         *)
(* What JSON.parse returned is abstract: Junk stands for a field, an entry *)
(* or a body that is missing or is not what is meant there.  Null is an    *)
(* entry of a week that is null, or an array of entries that would pass.   *)
(* A time HH:mm is its minute of the day.  A date-time that Date.parse     *)
(* reads is                                                                *)
(*   [minute, offset, iso]                                                 *)
(* minutes since the epoch, the offset it ends with (NoOffset if none), and*)
(* whether Luxon reads it too: Date.parse also takes what is not ISO 8601. *)
(***************************************************************************)
EXTENDS Calendar, Sequences

CONSTANTS Resolution,     \* minutes in a tick: 5
          Junk, Null, NoOffset

ASSUME ResolutionAssumption == Resolution \in Nat \ {0}

RawTimes   == [minute : Int, offset : Int \cup {NoOffset},
               iso : BOOLEAN] \cup {Junk}
RawEntries == [day : Int \cup {Junk}, open : Int \cup {Junk},
               close : Int \cup {Junk}] \cup {Junk, Null}

Aligned(minute) == minute % Resolution = 0
Tick(minute)    == minute \div Resolution

\* IsIsoDateTimeWithResolution: the instant is aligned, not the offset.
IsDateTime(v) == v # Junk /\ v.offset # NoOffset /\ Aligned(v.minute)

\* HH_MM_STRICT_24H, and IsTimeWithResolution.
IsHHmm(v) == v \in 0 .. DayLength * Resolution - 1
IsTime(v) == IsHHmm(v) /\ Aligned(v)

\* IsValidIsoRange and IsValidTimeRange.
IsIsoRange(s, e)  == s # Junk /\ e # Junk => s.minute < e.minute
IsTimeRange(s, e) == IsHHmm(s) /\ IsHHmm(e) => s < e

\* NoDuplicateDayOfWeek: a week with an entry that has no day is left to the
\* validators of its entries.  The mutant leaves them every other week.
HasDay(d) == d \notin {Junk, Null} /\ d.day \in Int

SkipsCompleteWeeks(days) ==
  LET known == {i \in DOMAIN days : HasDay(days[i])}
  IN  known # DOMAIN days
        => \A i, j \in known : days[i].day = days[j].day => i = j

NoDuplicateDay(days) ==
  (\A i \in DOMAIN days : HasDay(days[i]))
    => \A i, j \in DOMAIN days : days[i].day = days[j].day => i = j

SingleDayDto(d) ==
  /\ d # Junk
  /\ d.day \in 0 .. 6
  /\ IsTime(d.open)
  /\ IsTime(d.close)
  /\ IsTimeRange(d.open, d.close)

\* ValidateNested({each: true}) has nothing to say of null, and looks only
\* into an array.
ValidateNested(d) == d # Null => SingleDayDto(d)

WeekScheduleDto(b) ==
  /\ b.days # Junk
  /\ Len(b.days) <= 7
  /\ \A i \in DOMAIN b.days : ValidateNested(b.days[i])
  /\ NoDuplicateDay(b.days)

AvailabilityBlockDto(b) ==
  IsDateTime(b.start) /\ IsDateTime(b.end) /\ IsIsoRange(b.start, b.end)

\* IsValidTimeRange stands on this one too, and finds no endTime in it.
CreateBookingDto(b) ==
  b.business # Junk /\ b.service # Junk /\ IsDateTime(b.start)

-----------------------------------------------------------------------------
(***************************************************************************)
(* What the handlers make of a body that passed.  A date-time that Luxon   *)
(* does not read ends in a 400 in both of them (in the booking engine      *)
(* because Prisma rejects a weekday that is not a number).                 *)
(***************************************************************************)
\* convertStringToDate.
ReadsBlock(b) == b.start.iso /\ b.end.iso /\ b.start.minute < b.end.minute

\* start.hour * 60 + start.minute: what the string itself shows of its day.
WallMinute(v) == (v.minute + v.offset) % (DayLength * Resolution)

\* The instants are on the ticks, the written offsets need not be.  Opening
\* and closing are, so the wall minute of the start rounded down, and that of
\* the end rounded up, compare with them as they would themselves.  The
\* mutant drops the minutes past the tick at both ends.
TickUp(minute) == Tick(minute + Resolution - 1)

BlockCallDown(b) ==
  [user |-> b.user, business |-> b.business,
   start |-> Tick(b.start.minute), end |-> Tick(b.end.minute),
   from |-> Tick(WallMinute(b.start)), to |-> Tick(WallMinute(b.end))]

BlockCall(b) ==
  [user |-> b.user, business |-> b.business,
   start |-> Tick(b.start.minute), end |-> Tick(b.end.minute),
   from |-> Tick(WallMinute(b.start)), to |-> TickUp(WallMinute(b.end))]

\* DateTime.fromISO(startTime) in buildBookingWindow.
ReadsBooking(b) == b.start.iso

BookingCall(b) == [user |-> b.user, business |-> b.business,
                   service |-> b.service, start |-> Tick(b.start.minute)]

\* timeToMinutes of both ends of each day.  An entry that is none makes the
\* map over the days throw, so that such a week has no days.  The mutant
\* leaves such entries out of the week.
DayCall(d) == [day |-> d.day, open |-> Tick(d.open), close |-> Tick(d.close)]

Entries(b) == {i \in DOMAIN b.days : b.days[i] # Null}
Broken(b)  == Entries(b) # DOMAIN b.days

WeekCallCompact(b) ==
  [user |-> b.user, business |-> b.business, broken |-> FALSE,
   days |-> {DayCall(b.days[i]) : i \in Entries(b)}]

WeekCall(b) ==
  [user |-> b.user, business |-> b.business, broken |-> Broken(b),
   days |-> IF Broken(b) THEN {}
            ELSE {DayCall(b.days[i]) : i \in DOMAIN b.days}]

TakesBooking(b) == CreateBookingDto(b) /\ ReadsBooking(b)
TakesBlock(b)   == AvailabilityBlockDto(b) /\ ReadsBlock(b)
TakesWeek(b)    == WeekScheduleDto(b)
=============================================================================
