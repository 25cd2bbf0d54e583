----------------------------- MODULE MCGateway -----------------------------
(***************************************************************************)
(* The instances of MCScheduling with bodies: each of their calls as it is *)
(* sent, and next to it what a client may get wrong.  A tick is 5 minutes, *)
(* so that a day has 30.  Two blocks have offsets: one ends 3 minutes past *)
(* closing as its string shows it, and the strings of one are of two days. *)
(***************************************************************************)
EXTENDS Gateway, MCScheduling

At(t) == [minute |-> Resolution * t, offset |-> 0, iso |-> TRUE]

\* Tick t as a clock shows it that is `off` minutes ahead.
Ahead(t, off) == [At(t) EXCEPT !.offset = off]

\* 12 minutes past midnight; a date-time without its offset; and one that
\* only Date.parse reads.
OffTick == [At(0) EXCEPT !.minute = 12]
Local   == [At(2) EXCEPT !.offset = NoOffset]
NotIso  == [At(2) EXCEPT !.iso = FALSE]

Sent(c) == [c EXCEPT !.start = At(c.start)]

MCBookingBodies ==
  {Sent(c) : c \in Calls}
    \cup {[Sent(Book(bob, salon, cut, 2)) EXCEPT !.start = s] :
            s \in {OffTick, Local, NotIso, Junk}}
    \cup {[Sent(Book(bob, salon, cut, 2)) EXCEPT !.service = Junk]}

SentBlock(u, b, s, e) == [user |-> u, business |-> b, start |-> s, end |-> e]

MCBlockBodies ==
  {SentBlock(c.user, c.business, At(c.start), At(c.end)) : c \in BlockCalls}
    \cup {SentBlock(ann, salon, x[1], x[2]) :
            x \in {<<At(3), At(3)>>, <<At(4), At(2)>>, <<At(2), OffTick>>,
                   <<Local, At(4)>>, <<NotIso, At(4)>>, <<At(2), Junk>>}}
    \cup {SentBlock(ann, salon, x[1], x[2]) :
            x \in {<<At(4), Ahead(5, 3)>>, <<Ahead(1, -10), Ahead(2, 12)>>}}

\* An entry of a week, in ticks; and weeks whose entries are at odds.
Entry(d, o, c) == [day |-> d, open |-> Resolution * o,
                   close |-> IF c = Junk THEN Junk ELSE Resolution * c]

SentWeek(u, days) == [user |-> u, business |-> salon, days |-> days]

MCWeekBodies ==
  {SentWeek(gil, <<Entry(1, 1, 4)>>)} \cup
  {SentWeek(ann, days) :
     days \in {<<Entry(0, 1, 3), Entry(1, 2, 5)>>, <<Entry(1, 1, 4)>>,
               <<Entry(1, 1, 4), Entry(1, 2, 5)>>,
               <<Entry(1, 1, 4), Junk, Entry(1, 2, 5)>>,
               <<Entry(1, 1, 4), Null, Entry(1, 2, 5)>>,
               <<Entry(Junk, 1, 4)>>, <<Entry(7, 1, 4)>>,
               <<Entry(1, 4, 1)>>, <<Entry(1, 1, 6)>>,
               <<Entry(1, 1, Junk)>>,
               <<[Entry(1, 1, 4) EXCEPT !.open = 12]>>,
               [i \in 1 .. 8 |-> Entry(i - 1, 1, 4)], Junk}}
=============================================================================
