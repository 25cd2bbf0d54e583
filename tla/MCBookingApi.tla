---------------------------- MODULE MCBookingApi ----------------------------
(***************************************************************************)
(* Small instances of BookingApi: one salon, open from 1 to 5 of a day of  *)
(* six ticks, and two customers with a key each.  Their cuts overlap, and  *)
(* bob's key also comes with another body, for the time after his first.   *)
(***************************************************************************)
EXTENDS BookingApi, TLC

CONSTANTS ann, bob, carol, salon, cut, seed, key1, key2

MCUsers      == {ann, bob, carol}
MCBusinesses == {salon}
MCOwner      == salon :> ann
MCRole       == [u \in MCUsers |->
                  IF u = ann THEN "BUSINESS_OWNER" ELSE "USER"]
MCServices   == {cut}
MCBusinessOf == cut :> salon
MCDuration   == cut :> 2
MCHours      == {[by |-> seed, business |-> salon, day |-> 0,
                  open |-> 1, close |-> 5]}
MCZone(b, t) == 0

Book(u, t) == [user |-> u, business |-> salon, service |-> cut, start |-> t]
MCCalls == {Book(bob, 1), Book(bob, 3), Book(carol, 2)}

Send(k, c) == [key |-> k, call |-> c]

OneKey  == {Send(key1, Book(bob, 1))}
TwoKeys == OneKey \cup {Send(key1, Book(bob, 3)), Send(key2, Book(carol, 2)),
                        Send(BadKey, Book(bob, 1)), Send(key1, BadBody)}

Symmetry == Permutations(BookingRequests)
=============================================================================
