------------------------------ MODULE Calendar ------------------------------
(***************************************************************************)
(* Time as the booking engine computes with it.                            *)
(*                                                                         *)
(* An instant is a number of 5-minute ticks since a Monday 00:00 UTC.      *)
(* Every time the engine stores or compares is a whole number of ticks:    *)
(* request times are checked to be aligned to 5 minutes, durations to be a *)
(* positive multiple of 5 minutes and working hours to be HH:mm with       *)
(* aligned minutes, so the tick loses nothing.  (What a client writes may  *)
(* show other minutes: see Validation.)                                    *)
(*                                                                         *)
(* Time zones are Luxon's (an external library): UtcOffset(b, t) is the    *)
(* offset, in ticks, of business b's zone at instant t; it may change with *)
(* t (daylight saving).                                                    *)
(***************************************************************************)
EXTENDS Integers

CONSTANTS DayLength,          \* ticks in a day (288; smaller when checked)
          UtcOffset(_, _)     \* zone offset of a business at an instant

ASSUME DayLengthAssumption == DayLength \in Nat \ {0}

\* The wall clock of business b at instant t: DateTime#setZone.
Wall(b, t) == t + UtcOffset(b, t)

\* The calendar day, and the minute of that day, a wall clock shows.
Day(wall)    == wall \div DayLength
Minute(wall) == wall % DayLength

\* startDate.weekday - 1: Monday is 0.
Weekday(b, t) == Day(Wall(b, t)) % 7

(***************************************************************************)
(* Luxon's fixOffset: the instant at which zone b's wall clock shows       *)
(* `wall`, found from a provisional offset o.  A wall time that a forward  *)
(* shift skips is moved by the shift; of a wall time that a backward shift *)
(* repeats, the occurrence with offset o wins if there is one.             *)
(***************************************************************************)
FixOffset(b, wall, o) ==
  LET o2 == UtcOffset(b, wall - o)
      o3 == UtcOffset(b, wall - o2)
  IN  IF o = o2 THEN wall - o
      ELSE IF o2 = o3 THEN wall - o2
      ELSE IF o2 < o3 THEN wall - o2 ELSE wall - o3

(***************************************************************************)
(* DateTime.fromObject({year, month, day, hour, minute}, {zone}): the      *)
(* instant of `minute` on the day that t falls on in b's zone.  Luxon      *)
(* takes the provisional offset from the zone at the moment of the call.   *)
(* The mutant leaves the zone out.                                         *)
(***************************************************************************)
AtUtcMinute(b, t, minute, now) == Day(t) * DayLength + minute

AtMinute(b, t, minute, now) ==
  FixOffset(b, Day(Wall(b, t)) * DayLength + minute, UtcOffset(b, now))

-----------------------------------------------------------------------------
(***************************************************************************)
(* What is expected of a zone (nothing in the code depends on it).         *)
(***************************************************************************)
Offsets == -DayLength .. DayLength

\* The instants at which a clock may show `wall`.
Around(wall) == wall - DayLength .. wall + DayLength

\* b's clock comes to `wall` once: it shows less before and more after, and
\* it shows `wall` itself or goes forward just when it would have.
ComesOnce(b, wall) ==
  \E i \in Around(wall) :
    /\ \A t \in Around(wall) : /\ t < i => Wall(b, t) < wall
                               /\ t > i => Wall(b, t) > wall
    /\ \/ Wall(b, i) = wall
       \/ Wall(b, i) > wall /\ Wall(b, i - 1) = wall - 1

\* Around `wall` b's clock is moved at most once, and the offset o is one of
\* those that it has there.
OneShift(b, wall, o) ==
  \E T \in Around(wall), p, n \in Offsets :
    /\ \A t \in Around(wall) : UtcOffset(b, t) = IF t < T THEN p ELSE n
    /\ o \in {p, n}
=============================================================================
