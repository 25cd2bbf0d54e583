--------------------------- MODULE MCAvailability ---------------------------
(***************************************************************************)
(* The instances of MCScheduling with requests for slots, on the day on    *)
(* which the clocks move; without a date; and for a business that does not *)
(* exist.  On that day the salon is open in [6, 8) and the gym in [5, 8).  *)
(***************************************************************************)
EXTENDS Availability, MCScheduling

Ask(b, s, t) == [business |-> b, service |-> s, at |-> t]

DaySlots == {Ask(salon, trim, 7), Ask(gym, spin, 4), Ask(salon, trim, BadDate),
             Ask(spa, tan, 0)}

\* The last start at each business; they overlap.
SlotBookings == {Book(bob, salon, trim, 7), Book(bob, gym, spin, 6)}

\* A block that ends when the trim starts and meets the spin.
SlotBlocks == {Block(ann, salon, 2, 7)}

SlotSymmetry == Symmetry \cup Permutations(SlotRequests)
=============================================================================
