------------------------------- MODULE Agenda -------------------------------
(***************************************************************************)
(* BusinessesService#getBookings: GET /businesses/:id/bookings?date=..., an *)
(* owner's list of the bookings of a date.  It reads one table once and    *)
(* changes nothing.                                                        *)
(***************************************************************************)
EXTENDS Scheduling

\* DateTime.fromISO(date) names no zone: it is midnight of the server, whose
\* containers run in UTC.  setZone keeps the instant.
DayStart(date) == date * DayLength

\* plus({days: 1}) is the same wall time a day later in the business's zone.
DayEnd(b, date) ==
  LET from == DayStart(date)
  IN  FixOffset(b, Wall(b, from) + DayLength, UtcOffset(b, from))

GetBookings(b, date) ==
  {x \in bookings : /\ x.business = b
                    /\ DayStart(date) <= x.start
                    /\ x.start < DayEnd(b, date)}

\* README, Booking Engine: each business stores its timezone, and all
\* scheduling logic is timezone-aware.  So a booking is on the owner's list
\* of the day it begins on the business's clock, and on no other.
ListedOnItsDay ==
  \A x \in bookings :
    LET day == Day(Wall(x.business, x.start))
    IN  \A date \in (day - 1) .. (day + 1) :
          x \in GetBookings(x.business, date) <=> date = day
=============================================================================
