------------------------------- MODULE Ledger -------------------------------
(***************************************************************************)
(* What the booking engine promises, without how: a ledger of confirmed    *)
(* appointments that only grows, one appointment at a time, and never      *)
(* holds two appointments of one business at the same time.                *)
(***************************************************************************)
EXTENDS Integers

VARIABLE ledger     \* the set of confirmed appointments

\* Two appointments of one business share an instant.
Clash(a, b) == /\ a.business = b.business
               /\ a.start < b.end
               /\ b.start < a.end

Init == ledger = {}

\* One new appointment is confirmed, in time nobody holds yet.
Confirm(a) == /\ \A b \in ledger : ~Clash(a, b)
              /\ ledger' = ledger \cup {a}

Next == \E a \in ledger' \ ledger : Confirm(a)

Spec == Init /\ [][Next]_ledger
=============================================================================
