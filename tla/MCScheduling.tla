---------------------------- MODULE MCScheduling ----------------------------
(***************************************************************************)
(* Small instances of Scheduling.  Two businesses, each with its owner, two*)
(* customers, and a day of six ticks.  The salon opens from 1 to 5 on day  *)
(* 0 and from 2 to 4 on day 1, and so does the gym.  The creation of bob's *)
(* business failed after he was given the role of an owner.                *)
(***************************************************************************)
EXTENDS Agenda, TLC

CONSTANTS ann, gil, bob, carol,      \* ann owns the salon, gil the gym
          salon, gym, spa,           \* no spa exists
          cut, trim, spin, tan,      \* no tan exists
          seed

MCUsers      == {ann, gil, bob, carol}
MCBusinesses == {salon, gym}
MCOwner      == salon :> ann @@ gym :> gil
MCRole       == [u \in MCUsers |->
                  IF u = carol THEN "USER" ELSE "BUSINESS_OWNER"]
MCServices   == {cut, trim, spin}
MCBusinessOf == cut :> salon @@ trim :> salon @@ spin :> gym
MCDuration   == cut :> 2 @@ trim :> 1 @@ spin :> 2

Hours(b, d, o, c) ==
  [by |-> seed, business |-> b, day |-> d, open |-> o, close |-> c]

MCHours == {Hours(salon, 0, 1, 5), Hours(salon, 1, 2, 4),
            Hours(gym, 0, 1, 5), Hours(gym, 1, 2, 4)}

\* Zones.  With FixedZones the gym is one tick behind UTC, where the salon
\* is.  With MovingZones the salon's clock goes forward on day 1 and skips
\* two minutes, of which it closes at the first (with some weeks, at the
\* second), and the gym's goes back on day 1 and repeats a minute between
\* opening and closing.
Shift(t, before, at, after) ==
  IF t < -10 THEN after ELSE IF t < at THEN before ELSE after

FixedZones(b, t)  == IF b = salon THEN 0 ELSE -1
MovingZones(b, t) ==
  IF b = salon THEN Shift(t, 2, 8, 4) ELSE Shift(t, 3, 7, 2)

\* Zones are what the theorems about working hours expect of them.
ASSUME ZonesAssumption ==
  \A b \in MCBusinesses, wall \in -DayLength .. 4 * DayLength,
     now \in Instants :
    /\ UtcOffset(b, wall) \in Offsets
    /\ OneShift(b, wall, UtcOffset(b, now))

\* Now; and half a year ago, when a clock that moves had its other offset.
Now      == {0}
TwoTimes == {-20, 0}

Book(u, b, s, t) == [user |-> u, business |-> b, service |-> s, start |-> t]

\* Cuts at 1, 2 and 3 take [1,3), [2,4) and [3,5): the first and the last
\* touch, each overlaps the middle one.
RaceCalls == {Book(bob, salon, cut, t) : t \in 1 .. 3}

\* The same instants at the two businesses.
TwoBusinessCalls == {Book(bob, salon, cut, 2), Book(carol, gym, spin, 3)}

\* Every way to be refused; every start of two days and into a third; and a
\* short service around the opening hours of the day on which clocks move.
AnyCalls == {Book(ann, salon, cut, 2), Book(bob, spa, cut, 2),
             Book(bob, salon, spin, 2), Book(bob, salon, tan, 2)}
            \cup {Book(bob, salon, cut, t) : t \in -2 .. 10}
            \cup {Book(bob, salon, trim, t) : t \in 5 .. 9}
            \cup {Book(carol, gym, spin, t) : t \in -2 .. 10}

Block(u, b, s, e) == [user |-> u, business |-> b, start |-> s, end |-> e,
                      from |-> Minute(s), to |-> Minute(e)]

MCBlockCalls == {Block(ann, salon, 2, 3), Block(ann, salon, 1, 4)}

\* The owner's blocks, one inside the other; and those of other owners, of a
\* customer and for a business that does not exist, which only one with the
\* role of an owner is told.
AnyBlockCalls == {Block(gil, salon, 2, 3), Block(bob, spa, 2, 3),
                  Block(carol, salon, 2, 3), Block(gil, gym, 3, 4),
                  Block(ann, salon, 2, 4), Block(ann, salon, 3, 4)}

\* Blocks before, at and after the opening of the salon's second day.
DayCalls == {Block(ann, salon, t, t + 1) : t \in 5 .. 9}

Delete(u, k) == [user |-> u, block |-> k]

\* Two owners delete one of the blocks.
MCDeleteCalls ==
  {Delete(u, CHOOSE k \in BlockRequests : TRUE) : u \in {ann, gil}}
OwnerDeletes  == {Delete(ann, k) : k \in BlockRequests}
NoCalls       == {}

Days(rows) == {[day |-> x[1], open |-> x[2], close |-> x[3]] : x \in rows}
Week(u, b, rows) == [user |-> u, business |-> b, days |-> Days(rows),
                     broken |-> FALSE]

\* Weeks with days in common, with none, and empty ones.
MCScheduleCalls == {Week(ann, salon, {<<0, 1, 3>>}),
                    Week(ann, salon, {<<1, 1, 5>>, <<2, 1, 5>>}),
                    Week(ann, salon, {}),
                    Week(gil, salon, {<<0, 0, 5>>}),
                    Week(ann, spa, {<<0, 0, 5>>})}

\* The day in common changes; one week has two days; and one is sent by the
\* owner of another business.
TwoWeeks == {Week(ann, salon, {<<0, 1, 3>>, <<1, 2, 5>>}),
             Week(ann, salon, {<<1, 1, 4>>}),
             Week(gil, salon, {<<1, 1, 4>>})}

\* A shorter day; and a week for a business that does not exist.
SerialWeeks == {Week(ann, salon, {<<0, 2, 4>>}),
                Week(ann, spa, {<<0, 2, 4>>})}

Symmetry == Permutations(BookingRequests) \cup Permutations(BlockRequests)
              \cup Permutations(ScheduleRequests)
              \cup Permutations(DeleteRequests)
=============================================================================
