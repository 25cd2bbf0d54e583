------------------------------ MODULE Database ------------------------------
(***************************************************************************)
(* The PostgreSQL tables the booking engine reads and writes through       *)
(* Prisma, and the queries its services send.                              *)
(*                                                                         *)
(* Users, businesses and services are constants: no endpoint changes or    *)
(* removes one (update and remove are stubs), and creating one touches     *)
(* nothing that exists.  A row's id is the request that inserted it: each  *)
(* handler inserts at most one booking or block.  A booking's status is    *)
(* left out: it defaults to CONFIRMED and nothing ever changes it.         *)
(***************************************************************************)
EXTENDS Calendar

CONSTANTS Users,
          Businesses,        \* the businesses that exist
          Owner,             \* Owner[b]: the user who owns business b
          Role,              \* Role[u]: the role column of user u
          Services,          \* the services that exist
          BusinessOf,        \* BusinessOf[s]: the business that offers s
          Duration,          \* Duration[s]: length of s, in ticks
          InitialHours       \* the working hours the schedule starts from

ASSUME CatalogAssumption ==
  /\ Owner \in [Businesses -> Users]
  /\ Role \in [Users -> {"USER", "BUSINESS_OWNER"}]
  /\ \A b \in Businesses : Role[Owner[b]] = "BUSINESS_OWNER"
  /\ BusinessOf \in [Services -> Businesses]
  /\ Duration \in [Services -> Nat \ {0}]
  /\ \A h \in InitialHours : /\ h.business \in Businesses
                             /\ h.day \in 0 .. 6
                             /\ h.open \in 0 .. DayLength - 1
                             /\ h.close \in 0 .. DayLength - 1

VARIABLES
  bookings,      \* [id, user, business, service, start, end]
  blocks,        \* availability blocks [id, business, start, end]
  workingHours   \* [by, business, day, open, close], minutes of the day

dbVars == <<bookings, blocks, workingHours>>

DatabaseInit ==
  /\ bookings = {}
  /\ blocks = {}
  /\ workingHours = InitialHours

-----------------------------------------------------------------------------
(***************************************************************************)
(* Queries.                                                                *)
(***************************************************************************)

\* where startTime < e and endTime > s: half-open intervals, so a row that
\* ends when the window starts does not overlap it.  The first is a mutant.
StartsDuring(row, s, e) == row.start >= s /\ row.start < e
Overlaps(row, s, e)     == row.start < e /\ row.end > s

\* getOverlaps: every business's rows, none is filtered out.
OverlappingBlocks(s, e)   == {x \in blocks : Overlaps(x, s, e)}
OverlappingBookings(s, e) == {x \in bookings : Overlaps(x, s, e)}

\* workingHours where {businessId, dayOfWeek}, and where {businessId}.
HoursOn(b, d) == {h \in workingHours : h.business = b /\ h.day = d}
HoursOf(b)    == {h \in workingHours : h.business = b}

Ids(rows) == {x.id : x \in rows}

-----------------------------------------------------------------------------
(***************************************************************************)
(* RoleGuard for user u and a resource that exists iff `exists`, and then  *)
(* belongs to `owner`: "pass", or how the request is refused.  Whoever has *)
(* a business has the role BUSINESS_OWNER; so may a user whose creation of *)
(* one failed after the role was given (Catalog).                          *)
(*                                                                         *)
(* Of the three guards the first two are mutants: one does not look for a  *)
(* missing resource, one does not look at the owner.                       *)
(***************************************************************************)
HasOwnerRole(u) == Role[u] = "BUSINESS_OWNER"

OwnOrMissing(u, exists, owner) ==
  IF HasOwnerRole(u) /\ u = owner THEN "pass" ELSE "forbidden"

RoleOnly(u, exists, owner) ==
  IF ~HasOwnerRole(u) THEN "forbidden"
  ELSE IF ~exists THEN "bad_request" ELSE "pass"

RoleGuard(u, exists, owner) ==
  IF ~HasOwnerRole(u) THEN "forbidden"
  ELSE IF ~exists THEN "bad_request"
  ELSE IF u = owner THEN "pass" ELSE "forbidden"
=============================================================================
