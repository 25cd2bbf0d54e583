----------------------------- MODULE MCCatalog -----------------------------
(***************************************************************************)
(* Small instances of Catalog: ann and bob have accounts, carol wants one. *)
(***************************************************************************)
EXTENDS Catalog, TLC

CONSTANTS ann, bob, carol

Session(k, u, g) == [kind |-> k, user |-> u, good |-> g]

\* carol signs up, and in with her password or another.
MCSessionCalls == {Session("sign-up", carol, TRUE),
                   Session("sign-in", carol, TRUE),
                   Session("sign-in", carol, FALSE)}

MCSymmetry == Permutations(Requests) \cup Permutations({ann, bob})
=============================================================================
