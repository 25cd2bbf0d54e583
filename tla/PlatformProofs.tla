--------------------------- MODULE PlatformProofs ---------------------------
(***************************************************************************)
(* Sessions, businesses and services, for any users, any requests and any  *)
(* lifetimes of the tokens.                                                *)
(*                                                                         *)
(* AccountInv is the base: the types, and what a request has got past by   *)
(* the time it is in a phase.  The three facts about sessions then need    *)
(* one about the hash (StoredSince): once a request was told that it set   *)
(* or cleared it, whatever is there later came from a request that was not *)
(* answered before that one arrived.                                       *)
(***************************************************************************)
EXTENDS Catalog, TLAPS

AllCalls == SessionCalls \cup TokenCalls \cup CatalogCalls

\* The kinds of request that pass through a phase.
KindsOf(phase) ==
  CASE phase = "create"            -> {"sign-up"}
    [] phase \in {"verify", "compare"} -> {"sign-in", "refresh"}
    [] phase = "access"  -> {"refresh", "sign-out", "business", "service"}
    [] phase = "store"   -> {"sign-up", "sign-in", "refresh"}
    [] phase = "revoke"  -> {"sign-out"}
    [] phase = "owner"   -> {"service"}
    [] phase = "role"    -> {"business"}
    [] OTHER             -> {"business", "service"}

PhasesOK ==
  \A r \in Requests :
    /\ apc[r] \notin {"idle", "done"} => acall[r].kind \in KindsOf(apc[r])
    /\ \/ apc[r] \in {"compare", "store"}
       \/ apc[r] = "access" /\ acall[r].kind = "refresh"
       => role[acall[r].user] # "none"
    /\ apc[r] = "store" => fresh[r] # NoToken
    /\ fresh[r] # NoToken => /\ fresh[r].user = acall[r].user
                             /\ apc[r] \in {"store", "done"}
    /\ acall[r] \in TokenCalls => acall[r].user = acall[r].token.user

\* Who was answered when a request arrived stays answered.
BeforeIsDone ==
  \A r \in Requests : /\ \A q \in abefore[r] : apc[q] = "done"
                      /\ r \notin abefore[r]

AccountInv == PlatformTypeOK /\ PhasesOK /\ BeforeIsDone

LEMMA TokensAreTokens ==
  ASSUME NEW u \in Users, NEW n \in Nat, NEW o \in {"sign-up", "sign-in"}
  PROVE  /\ Token(u, o, n) \in Tokens
         /\ Token(u, o, n) # NoToken
         /\ Token(u, o, n).user = u
BY SessionAssumption DEF Token, Tokens

LEMMA CallsHaveUsers ==
  ASSUME NEW c \in AllCalls
  PROVE  c.user \in Users /\ c # NoCall
<1>1. CASE c \in SessionCalls
  BY <1>1, SessionAssumption
<1>2. CASE c \in TokenCalls
  BY <1>2, SessionAssumption DEF TokenCalls
<1>3. CASE c \in CatalogCalls
  BY <1>3, CatalogCallsAssumption DEF CatalogCalls
<1>4. QED
  BY <1>1, <1>2, <1>3 DEF AllCalls

\* Cookies carry tokens that were signed.
LEMMA CookiesAreTokens ==
  ASSUME PlatformTypeOK, NEW t \in Cookies
  PROVE  t \in Tokens
<1>1. CASE \E u \in Registered : t = Token(u, "sign-up", 0)
  BY <1>1, TokensAreTokens, SessionAssumption
<1>2. CASE \E q \in Requests : t = fresh[q] /\ fresh[q] # NoToken
  BY <1>2 DEF PlatformTypeOK
<1>3. QED
  BY <1>1, <1>2 DEF Cookies

-----------------------------------------------------------------------------
(***************************************************************************)
(* A step of r, seen from outside: it arrives, or it moves on.             *)
(***************************************************************************)
\* Nothing of another request changes.
OnlyOf(r) ==
  \A q \in Requests \ {r} :
    /\ apc'[q] = apc[q] /\ acall'[q] = acall[q]
    /\ aanswer'[q] = aanswer[q] /\ fresh'[q] = fresh[q]
    /\ abefore'[q] = abefore[q]

Typed ==
  /\ apc \in [Requests -> PlatformPhases]
  /\ aanswer \in [Requests -> PlatformAnswers]
  /\ acall \in [Requests -> AllCalls \cup {NoCall}]
  /\ fresh \in [Requests -> Tokens \cup {NoToken}]
  /\ abefore \in [Requests -> SUBSET Requests]

Arrived(r) ==
  /\ apc[r] = "idle"
  /\ acall'[r] \in AllCalls
  /\ acall'[r] \in TokenCalls => acall'[r].user = acall'[r].token.user
  /\ abefore'[r] = {q \in Requests : apc[q] = "done"}
  /\ UNCHANGED <<clock, userVars, catalogVars, fresh>>
  /\ \/ /\ acall'[r].kind = "sign-up"
        /\ apc'[r] = "create" /\ aanswer'[r] = aanswer[r]
     \/ /\ acall'[r].kind \in {"sign-in", "refresh"}
        /\ apc'[r] = "verify" /\ aanswer'[r] = aanswer[r]
     \/ /\ acall'[r].kind \in {"sign-out", "business", "service"}
        /\ apc'[r] = "access" /\ aanswer'[r] = aanswer[r]
     \/ /\ acall'[r].kind = "refresh"
        /\ apc'[r] = "done" /\ aanswer'[r] = "unauthorized"
     \/ /\ acall'[r].kind \in {"sign-out", "business", "service"}
        /\ apc'[r] = "done" /\ aanswer'[r] = "no_access"

LEMMA ArrivalEffect ==
  ASSUME AccountInv, NEW r \in Requests,
         \/ StartSession(r) /\ UNCHANGED catalogVars
         \/ StartCatalog(r) /\ UNCHANGED catalogVars
  PROVE  Arrived(r) /\ OnlyOf(r) /\ Typed'
<1>1. Typed
  BY DEF AccountInv, PlatformTypeOK, Typed, AllCalls
<1> USE DEF Arrive, GotoPhase, Respond, Authenticate, With
<1>2. ASSUME NEW c \in SessionCalls, Arrive(r, c),
             GotoPhase(r, IF c.kind = "sign-up" THEN "create" ELSE "verify"),
             UNCHANGED catalogVars
      PROVE  Arrived(r) /\ OnlyOf(r) /\ Typed'
  <2>1. c.kind \in {"sign-up", "sign-in"} /\ c \notin TokenCalls
    BY SessionAssumption DEF TokenCalls
  <2>2. QED
    BY <1>1, <1>2, <2>1 DEF Arrived, OnlyOf, Typed, AllCalls, PlatformPhases,
       SessionPhases
<1>3. ASSUME NEW t \in Cookies, Arrive(r, With("refresh", t)),
             IF Alive(t, RefreshLife) THEN GotoPhase(r, "verify")
                                      ELSE Respond(r, "unauthorized"),
             UNCHANGED catalogVars
      PROVE  Arrived(r) /\ OnlyOf(r) /\ Typed'
  <2>1. t \in Tokens
    BY CookiesAreTokens DEF AccountInv
  <2>2. With("refresh", t) \in TokenCalls /\ With("refresh", t).kind = "refresh"
    BY <2>1 DEF TokenCalls, Tokens
  <2>3. QED
    BY <1>1, <1>3, <2>2 DEF Arrived, OnlyOf, Typed, AllCalls, PlatformPhases,
       SessionPhases, PlatformAnswers
<1>4. ASSUME NEW t \in Cookies, Arrive(r, With("sign-out", t)),
             Authenticate(r, t, "access"), UNCHANGED catalogVars
      PROVE  Arrived(r) /\ OnlyOf(r) /\ Typed'
  <2>1. t \in Tokens
    BY CookiesAreTokens DEF AccountInv
  <2>2. With("sign-out", t) \in TokenCalls
          /\ With("sign-out", t).kind = "sign-out"
    BY <2>1 DEF TokenCalls, Tokens
  <2>3. QED
    BY <1>1, <1>4, <2>2 DEF Arrived, OnlyOf, Typed, AllCalls, PlatformPhases,
       SessionPhases, PlatformAnswers
<1>5. ASSUME NEW c \in CatalogCalls, NEW t \in Cookies, Arrive(r, c),
             Authenticate(r, t, "access"), UNCHANGED catalogVars
      PROVE  Arrived(r) /\ OnlyOf(r) /\ Typed'
  <2>1. c.kind \in {"business", "service"} /\ c \notin TokenCalls
    BY DEF CatalogCalls, TokenCalls
  <2>2. QED
    BY <1>1, <1>5, <2>1 DEF Arrived, OnlyOf, Typed, AllCalls, PlatformPhases,
       SessionPhases, PlatformAnswers
<1>6. ASSUME StartCatalog(r)
      PROVE  \E c \in CatalogCalls, t \in Cookies :
               Arrive(r, c) /\ Authenticate(r, t, "access")
  <2>1. PICK t \in Cookies, n \in Names :
          /\ \/ Arrive(r, [kind |-> "business", user |-> t.user, token |-> t,
                           name |-> n])
             \/ \E b \in Requests :
                  Arrive(r, [kind |-> "service", user |-> t.user, token |-> t,
                             name |-> n, business |-> b])
          /\ Authenticate(r, t, "access")
    BY <1>6 DEF StartCatalog
  <2>2. t \in Tokens /\ t.user \in Users
    BY CookiesAreTokens DEF AccountInv, Tokens
  <2>3. [kind |-> "business", user |-> t.user, token |-> t, name |-> n]
          \in CatalogCalls
    BY <2>2 DEF CatalogCalls
  <2>4. \A b \in Requests :
          [kind |-> "service", user |-> t.user, token |-> t, name |-> n,
           business |-> b] \in CatalogCalls
    BY <2>2 DEF CatalogCalls
  <2>5. QED
    BY <2>1, <2>3, <2>4
<1>7. QED
  BY <1>2, <1>3, <1>4, <1>5, <1>6 DEF StartSession

\* A step of a handler that touches no table and signs nothing.
Quiet(r) ==
  /\ UNCHANGED <<userVars, fresh, catalogVars>>
  /\ \/ /\ apc'[r] = "done"
        /\ aanswer'[r] \notin {"none", "ok", "created"}
        /\ aanswer'[r] = "no_access" /\ acall[r].kind = "refresh"
             => apc[r] = "compare"
        /\ apc[r] = "insert" => aanswer'[r] = "error"
     \/ /\ aanswer'[r] = aanswer[r]
        /\ \/ /\ apc[r] = "verify" /\ apc'[r] = "compare"
              /\ role[acall[r].user] # "none"
              /\ acall[r].kind = "refresh" =>
                   Match(acall[r].token, stored[acall[r].user])
           \/ /\ apc[r] = "compare" /\ apc'[r] = "access"
              /\ acall[r].kind = "refresh"
           \/ /\ apc[r] = "access" /\ apc'[r] = "revoke"
              /\ acall[r].kind = "sign-out"
           \/ /\ apc[r] = "access" /\ apc'[r] = "name"
              /\ acall[r].kind = "business"
           \/ /\ apc[r] = "access" /\ apc'[r] = "owner"
              /\ acall[r].kind = "service"
           \/ /\ apc[r] = "owner" /\ apc'[r] = "name"
              /\ \E b \in businesses : /\ b.id = acall[r].business
                                       /\ b.owner = acall[r].user
           \/ /\ apc[r] = "name"
              /\ apc'[r] = IF acall[r].kind = "business" THEN "role"
                                                         ELSE "insert"
              /\ ~NameTaken(r)

\* A user's first row; a signature; a new hash or none; a new owner; a row.
Creates(r) ==
  /\ apc[r] = "create"
  /\ role[acall[r].user] = "none"
  /\ role' = [role EXCEPT ![acall[r].user] = "user"]
  /\ UNCHANGED <<stored, catalogVars>>
  /\ \/ /\ fresh'[r] = Token(acall[r].user, "sign-up", clock)
        /\ apc'[r] = "store" /\ aanswer'[r] = aanswer[r]
     \/ /\ UNCHANGED fresh
        /\ apc'[r] = "done" /\ aanswer'[r] = "error"

Signs(r) ==
  /\ \/ apc[r] = "compare" /\ acall[r].kind = "sign-in"
     \/ apc[r] = "access" /\ acall[r].kind = "refresh"
  /\ fresh'[r] = Token(acall[r].user, "sign-in", clock)
  /\ apc'[r] = "store" /\ aanswer'[r] = aanswer[r]
  /\ UNCHANGED <<userVars, catalogVars>>

Hashes(r) ==
  /\ \/ apc[r] = "store" /\ stored' = [stored EXCEPT ![acall[r].user] = fresh[r]]
     \/ apc[r] = "revoke" /\ stored' = [stored EXCEPT ![acall[r].user] = NoToken]
  /\ apc'[r] = "done"
  /\ aanswer'[r] \in {"ok", "error", "unauthorized"}
  /\ UNCHANGED <<role, fresh, catalogVars>>

Promotes(r) ==
  /\ apc[r] = "role"
  /\ role' = [role EXCEPT ![acall[r].user] = "owner"]
  /\ UNCHANGED <<stored, fresh, catalogVars>>
  /\ \/ apc'[r] = "insert" /\ aanswer'[r] = aanswer[r]
     \/ apc'[r] = "done" /\ aanswer'[r] = "not_found"

Inserts(r) ==
  /\ apc[r] = "insert"
  /\ \/ /\ acall[r].kind = "business"
        /\ businesses' = businesses \cup
             {[id |-> r, owner |-> acall[r].user, name |-> acall[r].name]}
        /\ UNCHANGED services
     \/ /\ acall[r].kind = "service"
        /\ services' = services \cup
             {[id |-> r, business |-> acall[r].business,
               name |-> acall[r].name]}
        /\ UNCHANGED businesses
  /\ apc'[r] = "done" /\ aanswer'[r] \in {"created", "error"}
  /\ UNCHANGED <<userVars, fresh>>

Moved(r) ==
  /\ apc[r] \notin {"idle", "done"}
  /\ UNCHANGED <<clock, acall, abefore>>
  /\ \/ Quiet(r) \/ Creates(r) \/ Signs(r) \/ Hashes(r) \/ Promotes(r)
     \/ Inserts(r)

LEMMA MoveEffect ==
  ASSUME AccountInv, NEW r \in Requests,
         \/ SessionStep(r) /\ UNCHANGED catalogVars
         \/ CatalogStep(r)
  PROVE  Moved(r) /\ OnlyOf(r) /\ Typed'
<1>1. Typed /\ PhasesOK /\ clock \in Nat
  BY SessionAssumption DEF AccountInv, PlatformTypeOK, Typed, AllCalls
<1>2. apc[r] \notin {"idle", "done"} =>
        /\ acall[r] \in AllCalls
        /\ acall[r].user \in Users
        /\ acall[r].kind \in KindsOf(apc[r])
        /\ Token(acall[r].user, "sign-up", clock) \in Tokens
        /\ Token(acall[r].user, "sign-in", clock) \in Tokens
  BY <1>1, CallsHaveUsers, TokensAreTokens
     DEF AccountInv, PlatformTypeOK, AllCalls, PhasesOK
<1> DEFINE Goal == Moved(r) /\ OnlyOf(r) /\ Typed'
<1> USE DEF GotoPhase, Respond, Authenticate, Failure, Moved, OnlyOf, Typed,
            PlatformPhases, SessionPhases, PlatformAnswers, userVars
<1>3. CASE CreateUser(r) /\ UNCHANGED catalogVars
  BY <1>1, <1>2, <1>3 DEF CreateUser, Quiet, Creates
<1>4. CASE VerifyUser(r) /\ UNCHANGED catalogVars
  BY <1>1, <1>2, <1>4 DEF VerifyUser, Quiet
<1>5. CASE VerifyRefreshToken(r) /\ UNCHANGED catalogVars
  <2>1. /\ apc[r] = "verify" /\ acall[r].kind = "refresh"
        /\ stored[acall[r].user] # NoToken => role[acall[r].user] # "none"
    BY <1>2, <1>5 DEF VerifyRefreshToken, AccountInv, PlatformTypeOK
  <2>2. Match(acall[r].token, stored[acall[r].user])
          => stored[acall[r].user] # NoToken
    BY DEF Match
  <2>3. QED
    BY <1>1, <1>2, <1>5, <2>1, <2>2 DEF VerifyRefreshToken, Quiet
<1>6. CASE Compared(r) /\ UNCHANGED catalogVars
  BY <1>1, <1>2, <1>6 DEF Compared, Sign, Quiet, Signs, KindsOf
<1>7. CASE FindCurrentUser(r) /\ UNCHANGED catalogVars
  BY <1>1, <1>2, <1>7 DEF FindCurrentUser, Sign, Quiet, Signs
<1>8. CASE (StoreToken(r) \/ SignOut(r)) /\ UNCHANGED catalogVars
  BY <1>1, <1>2, <1>8 DEF StoreToken, SignOut, Hashes
<1>9. CASE FailSession(r) /\ UNCHANGED catalogVars
  BY <1>1, <1>2, <1>9 DEF FailSession, Quiet
<1>10. CASE FindCreator(r)
  BY <1>1, <1>2, <1>10 DEF FindCreator, Quiet
<1>11. CASE CheckOwner(r)
  BY <1>1, <1>2, <1>11 DEF CheckOwner, Quiet, KindsOf
<1>12. CASE CheckName(r)
  BY <1>1, <1>2, <1>12 DEF CheckName, Quiet
<1>13. CASE UpdateRole(r)
  BY <1>1, <1>2, <1>13 DEF UpdateRole, Promotes
<1>14. CASE InsertRow(r)
  BY <1>1, <1>2, <1>14 DEF InsertRow, Inserts, KindsOf
<1>15. CASE FailCatalog(r)
  BY <1>1, <1>2, <1>15 DEF FailCatalog, Quiet
<1>16. QED
  BY <1>3, <1>4, <1>5, <1>6, <1>7, <1>8, <1>9, <1>10, <1>11, <1>12, <1>13,
     <1>14, <1>15 DEF SessionStep, CatalogStep

-----------------------------------------------------------------------------
(***************************************************************************)
(* AccountInv.                                                             *)
(***************************************************************************)
LEMMA AccountBase == PlatformInit => AccountInv
<1> SUFFICES ASSUME PlatformInit PROVE AccountInv
  OBVIOUS
<1> USE SessionAssumption DEF PlatformInit, SessionsInit
<1>1. stored \in [Users -> Tokens \cup {NoToken}]
  BY TokensAreTokens
<1>2. PlatformTypeOK
  BY <1>1 DEF PlatformTypeOK, PlatformPhases, SessionPhases, PlatformAnswers
<1>3. PhasesOK /\ BeforeIsDone
  BY DEF PhasesOK, BeforeIsDone, TokenCalls
<1>4. QED
  BY <1>2, <1>3 DEF AccountInv

\* The types of the tables, which OnlyOf and Typed leave out.
LEMMA TablesType ==
  ASSUME AccountInv, NEW r \in Requests, Moved(r), Typed'
  PROVE  /\ role' \in [Users -> {"none", "user", "owner"}]
         /\ stored' \in [Users -> Tokens \cup {NoToken}]
         /\ \A u \in Users : role'[u] = "none" => stored'[u] = NoToken
         /\ businesses' \subseteq [id : Requests, owner : Users, name : Names]
         /\ services' \subseteq [id : Requests, business : Requests,
                                 name : Names]
<1>1. PlatformTypeOK /\ PhasesOK /\ acall[r] \in AllCalls
  BY DEF AccountInv, Moved, PlatformTypeOK, AllCalls
<1>2. acall[r].user \in Users
  BY <1>1, CallsHaveUsers
<1>3. CASE Quiet(r) \/ Signs(r)
  BY <1>1, <1>3 DEF Quiet, Signs, PlatformTypeOK, userVars, catalogVars
<1>4. CASE Creates(r) \/ Promotes(r)
  BY <1>1, <1>2, <1>4 DEF Creates, Promotes, PlatformTypeOK, catalogVars
<1>5. CASE Hashes(r)
  BY <1>1, <1>2, <1>5 DEF Hashes, PlatformTypeOK, PhasesOK, catalogVars
<1>6. CASE Inserts(r)
  <2>1. acall[r] \in CatalogCalls
    BY <1>1, <1>6, SessionAssumption DEF Inserts, AllCalls, TokenCalls
  <2>2. QED
    BY <1>1, <1>2, <1>6, <2>1
       DEF Inserts, PlatformTypeOK, CatalogCalls, userVars
<1>7. QED
  BY <1>3, <1>4, <1>5, <1>6 DEF Moved

LEMMA MoveAccount ==
  ASSUME AccountInv, NEW r \in Requests, Moved(r), OnlyOf(r), Typed'
  PROVE  AccountInv'
<1>1. PlatformTypeOK /\ PhasesOK /\ BeforeIsDone /\ Typed
  BY DEF AccountInv, PlatformTypeOK, Typed, AllCalls
<1>2. /\ apc[r] \notin {"idle", "done"} /\ acall[r] \in AllCalls
      /\ acall[r].user \in Users /\ clock \in Nat
      /\ UNCHANGED <<clock, acall, abefore>>
      /\ apc'[r] # "idle"
      /\ apc'[r] = "done" <=> aanswer'[r] # "none"
  BY <1>1, CallsHaveUsers, SessionAssumption
     DEF Moved, Quiet, Creates, Signs, Hashes, Promotes, Inserts,
         PlatformTypeOK, Typed
<1>3. PlatformTypeOK'
  BY <1>1, <1>2, TablesType DEF PlatformTypeOK, Typed, OnlyOf, AllCalls
<1>4. BeforeIsDone'
  BY <1>1, <1>2 DEF BeforeIsDone, OnlyOf, Typed
<1>5. \A u \in Users : role[u] # "none" => role'[u] # "none"
  BY <1>1, <1>2 DEF Moved, Quiet, Creates, Signs, Hashes, Promotes, Inserts,
     PlatformTypeOK, userVars
<1>6. ASSUME NEW q \in Requests \ {r}, acall[q] # NoCall
      PROVE  acall[q].user \in Users
  BY <1>1, <1>6, CallsHaveUsers DEF Typed
<1>7. ASSUME NEW q \in Requests \ {r}
      PROVE  /\ apc'[q] \notin {"idle", "done"} =>
                  acall'[q].kind \in KindsOf(apc'[q])
             /\ \/ apc'[q] \in {"compare", "store"}
                \/ apc'[q] = "access" /\ acall'[q].kind = "refresh"
                => role'[acall'[q].user] # "none"
             /\ apc'[q] = "store" => fresh'[q] # NoToken
             /\ fresh'[q] # NoToken => /\ fresh'[q].user = acall'[q].user
                                       /\ apc'[q] \in {"store", "done"}
             /\ acall'[q] \in TokenCalls =>
                  acall'[q].user = acall'[q].token.user
  BY <1>1, <1>5, <1>6 DEF PhasesOK, OnlyOf, PlatformTypeOK
<1>8. apc'[r] \notin {"idle", "done"} => acall[r].kind \in KindsOf(apc'[r])
  BY <1>1, <1>2 DEF PhasesOK, KindsOf, Moved, Quiet, Creates, Signs, Hashes,
     Promotes, Inserts
<1>9. \/ apc'[r] \in {"compare", "store"}
      \/ apc'[r] = "access" /\ acall[r].kind = "refresh"
      => role'[acall[r].user] # "none"
  BY <1>1, <1>2, <1>5 DEF PhasesOK, PlatformTypeOK, Moved, Quiet, Creates,
     Signs, Hashes, Promotes, Inserts, userVars
<1>10. /\ apc'[r] = "store" => fresh'[r] # NoToken
       /\ fresh'[r] # NoToken => /\ fresh'[r].user = acall[r].user
                                 /\ apc'[r] \in {"store", "done"}
  BY <1>1, <1>2, TokensAreTokens DEF PhasesOK, Moved, Quiet, Creates, Signs,
     Hashes, Promotes, Inserts
<1>11. PhasesOK'
  BY <1>1, <1>2, <1>7, <1>8, <1>9, <1>10 DEF PhasesOK
<1>12. QED
  BY <1>3, <1>4, <1>11 DEF AccountInv

LEMMA ArrivalAccount ==
  ASSUME AccountInv, NEW r \in Requests, Arrived(r), OnlyOf(r), Typed'
  PROVE  AccountInv'
<1>1. PlatformTypeOK /\ PhasesOK /\ BeforeIsDone /\ Typed
  BY DEF AccountInv, PlatformTypeOK, Typed, AllCalls
<1>2. acall'[r] # NoCall /\ apc'[r] # "idle"
        /\ (apc'[r] = "done" <=> aanswer'[r] # "none")
  BY <1>1, CallsHaveUsers DEF Arrived, PlatformTypeOK
<1>3. PlatformTypeOK'
  BY <1>1, <1>2 DEF PlatformTypeOK, Typed, OnlyOf, AllCalls, Arrived,
     userVars, catalogVars
<1>4. BeforeIsDone'
  BY <1>1 DEF BeforeIsDone, OnlyOf, Arrived, Typed
<1>5. PhasesOK'
  BY <1>1 DEF PhasesOK, OnlyOf, Arrived, KindsOf, userVars
<1>6. QED
  BY <1>3, <1>4, <1>5 DEF AccountInv

\* What a step is, for every invariant below: an arrival, a move of one
\* request, or nothing but the clock.
Steps ==
  \/ \E r \in Requests : (Arrived(r) \/ Moved(r)) /\ OnlyOf(r) /\ Typed'
  \/ /\ UNCHANGED <<userVars, apc, acall, aanswer, fresh, abefore,
                    catalogVars>>
     /\ clock' \in 0 .. MaxClock

LEMMA StepEffect ==
  ASSUME AccountInv, [PlatformNext]_platformVars
  PROVE  Steps
<1>1. ASSUME NEW r \in Requests, SessionNext(r) \/ CatalogNext(r)
      PROVE  (Arrived(r) \/ Moved(r)) /\ OnlyOf(r) /\ Typed'
  BY <1>1, ArrivalEffect, MoveEffect DEF SessionNext, CatalogNext
<1>2. CASE Tick /\ UNCHANGED catalogVars
  BY <1>2, SessionAssumption DEF Tick, Steps, AccountInv, PlatformTypeOK
<1>3. CASE UNCHANGED platformVars
  BY <1>3 DEF platformVars, sessionVars, Steps, AccountInv, PlatformTypeOK
<1>4. QED
  BY <1>1, <1>2, <1>3 DEF PlatformNext, Steps

LEMMA AccountStep ==
  AccountInv /\ [PlatformNext]_platformVars => AccountInv'
<1> SUFFICES ASSUME AccountInv, [PlatformNext]_platformVars
             PROVE  AccountInv'
  OBVIOUS
<1>1. CASE \E r \in Requests : (Arrived(r) \/ Moved(r)) /\ OnlyOf(r) /\ Typed'
  BY <1>1, MoveAccount, ArrivalAccount
<1>2. CASE /\ UNCHANGED <<userVars, apc, acall, aanswer, fresh, abefore,
                          catalogVars>>
           /\ clock' \in 0 .. MaxClock
  <2>1. PlatformTypeOK'
    BY <1>2 DEF AccountInv, PlatformTypeOK, userVars, catalogVars
  <2>2. QED
    BY <1>2, <2>1 DEF AccountInv, PhasesOK, BeforeIsDone, userVars
<1>3. QED
  BY <1>1, <1>2, StepEffect DEF Steps

\* Types, what a request in each phase of its guards and handler has found,
\* and that who was answered before another arrived stays answered.
THEOREM AlwaysAccountInv == PlatformSpec => []AccountInv
BY AccountBase, AccountStep, PTL DEF PlatformSpec

\* Every variable keeps its type; only users with a row have a hash, and a
\* request has an answer exactly when it is done.
THEOREM PlatformTypeCorrect == PlatformSpec => []PlatformTypeOK
BY AlwaysAccountInv, PTL DEF AccountInv

-----------------------------------------------------------------------------
(***************************************************************************)
(* Sessions.                                                               *)
(***************************************************************************)
OwnHash == \A u \in Users : stored[u] # NoToken => stored[u].user = u

StoredSince ==
  \A s \in Requests : aanswer[s] = "ok" =>
    \/ stored[acall[s].user] = NoToken
    \/ \E p \in Requests : /\ apc[p] = "done"
                           /\ p \notin abefore[s]
                           /\ fresh[p] # NoToken
                           /\ stored[acall[s].user] = fresh[p]

SessionInv ==
  /\ OwnHash /\ StoredSince
  /\ SignedOutStaysOut /\ TokenRefreshesOnce /\ LastCookiesWork

LEMMA SessionBase == PlatformInit => SessionInv
<1> SUFFICES ASSUME PlatformInit PROVE SessionInv
  OBVIOUS
<1>1. OwnHash
  BY SessionAssumption DEF PlatformInit, SessionsInit, OwnHash, Token
<1>2. /\ StoredSince /\ SignedOutStaysOut /\ TokenRefreshesOnce
      /\ LastCookiesWork
  BY DEF PlatformInit, SessionsInit, StoredSince, SignedOutStaysOut,
     TokenRefreshesOnce, LastCookiesWork
<1>3. QED
  BY <1>1, <1>2 DEF SessionInv

\* What is true of one token of two that match is true of the other.
LEMMA MatchSymmetric ==
  ASSUME NEW t, NEW s, t # NoToken, Match(t, s)
  PROVE  Match(s, t)
BY DEF Match

\* What one step of r can change for the invariant: it accepts a refresh,
\* answers, signs or stores.
LEMMA SessionFrame ==
  ASSUME AccountInv, NEW r \in Requests, Moved(r), OnlyOf(r), Typed'
  PROVE  /\ \A q \in Requests : fresh[q] # NoToken => fresh'[q] = fresh[q]
         /\ \A q \in Requests : Accepted(q)' =>
              \/ Accepted(q)
              \/ /\ q = r /\ apc[r] = "verify"
                 /\ acall[r].kind = "refresh"
                 /\ Match(acall[r].token, stored[acall[r].user])
         /\ \A q \in Requests : aanswer'[q] = "ok" =>
              aanswer[q] = "ok" \/ (q = r /\ Hashes(r))
         /\ stored' = stored \/ Hashes(r)
         /\ \A q \in Requests : r \notin abefore[q]
<1>1. PlatformTypeOK /\ PhasesOK /\ BeforeIsDone
  BY DEF AccountInv
<1>2. \A q \in Requests : r \notin abefore[q]
  BY <1>1 DEF BeforeIsDone, Moved
<1>3. stored' = stored \/ Hashes(r)
  BY DEF Moved, Quiet, Creates, Signs, Promotes, Inserts, userVars
<1>4. \A q \in Requests : aanswer'[q] = "ok" =>
        aanswer[q] = "ok" \/ (q = r /\ Hashes(r))
  BY DEF Moved, Quiet, Creates, Signs, Promotes, Inserts, OnlyOf
<1>5. \A q \in Requests : fresh[q] # NoToken => fresh'[q] = fresh[q]
  BY <1>1 DEF PhasesOK, Moved, Quiet, Creates, Signs, Promotes, Hashes,
     Inserts, OnlyOf
<1>6. ASSUME NEW q \in Requests \ {r}
      PROVE  Accepted(q)' => Accepted(q)
  BY DEF Accepted, OnlyOf
<1>7. Accepted(r)' =>
        \/ Accepted(r)
        \/ /\ apc[r] = "verify" /\ acall[r].kind = "refresh"
           /\ Match(acall[r].token, stored[acall[r].user])
  <2>1. acall[r].kind \in KindsOf(apc[r]) /\ acall' = acall
    BY <1>1 DEF PhasesOK, Moved
  <2>2. QED
    BY <2>1 DEF Accepted, KindsOf, Moved, Quiet, Creates, Signs, Promotes,
       Hashes, Inserts
<1>8. QED
  BY <1>2, <1>3, <1>4, <1>5, <1>6, <1>7

LEMMA MoveSession ==
  ASSUME AccountInv, SessionInv, NEW r \in Requests, Moved(r), OnlyOf(r),
         Typed'
  PROVE  SessionInv'
<1>1. /\ PlatformTypeOK /\ PhasesOK /\ BeforeIsDone
      /\ apc[r] \notin {"idle", "done"}
      /\ UNCHANGED <<acall, abefore>>
  BY DEF AccountInv, Moved
<1>2. /\ \A q \in Requests : fresh[q] # NoToken => fresh'[q] = fresh[q]
      /\ \A q \in Requests : aanswer'[q] = "ok" =>
           aanswer[q] = "ok" \/ (q = r /\ Hashes(r))
      /\ stored' = stored \/ Hashes(r)
      /\ \A q \in Requests : r \notin abefore[q]
  BY SessionFrame
<1>3. ASSUME NEW q \in Requests, acall[q] # NoCall
      PROVE  acall[q] \in AllCalls /\ acall[q].user \in Users
  <2>1. acall[q] \in AllCalls
    BY <1>1, <1>3 DEF PlatformTypeOK, AllCalls
  <2>2. QED
    BY <2>1, CallsHaveUsers
<1>4. acall[r] # NoCall /\ acall[r].user \in Users
  BY <1>1, <1>3 DEF PlatformTypeOK
<1>5. Hashes(r) =>
        /\ apc'[r] = "done" /\ UNCHANGED fresh
        /\ \/ /\ fresh[r] # NoToken /\ fresh[r].user = acall[r].user
              /\ stored' = [stored EXCEPT ![acall[r].user] = fresh[r]]
           \/ stored' = [stored EXCEPT ![acall[r].user] = NoToken]
  BY <1>1 DEF Hashes, PhasesOK
<1>6. OwnHash'
  BY <1>1, <1>2, <1>4, <1>5 DEF SessionInv, OwnHash, PlatformTypeOK
<1>7. StoredSince'
  <2> SUFFICES ASSUME NEW s \in Requests, aanswer'[s] = "ok",
                      stored'[acall[s].user] # NoToken
               PROVE  \E p \in Requests : /\ apc'[p] = "done"
                                          /\ p \notin abefore[s]
                                          /\ fresh'[p] # NoToken
                                          /\ stored'[acall[s].user] = fresh'[p]
    BY <1>1 DEF StoredSince
  <2>1. CASE Hashes(r) /\ acall[s].user = acall[r].user
    BY <1>1, <1>2, <1>4, <1>5, <2>1 DEF PlatformTypeOK
  <2>2. CASE stored'[acall[s].user] = stored[acall[s].user] /\ aanswer[s] = "ok"
    <3>1. PICK p \in Requests : /\ apc[p] = "done"
                                /\ p \notin abefore[s]
                                /\ fresh[p] # NoToken
                                /\ stored[acall[s].user] = fresh[p]
      BY <2>2 DEF SessionInv, StoredSince
    <3>2. apc'[p] = "done" /\ fresh'[p] = fresh[p]
      BY <1>1, <1>2, <3>1 DEF OnlyOf
    <3>3. QED
      BY <2>2, <3>1, <3>2
  <2>3. CASE ~(Hashes(r) /\ acall[s].user = acall[r].user)
    <3>1. aanswer[s] = "ok"
      BY <1>2, <2>3
    <3>2. acall[s] # NoCall
      BY <1>1, <3>1 DEF PlatformTypeOK
    <3>3. stored'[acall[s].user] = stored[acall[s].user]
      BY <1>1, <1>2, <1>3, <1>5, <2>3, <3>2 DEF PlatformTypeOK
    <3>4. QED
      BY <2>2, <3>1, <3>3
  <2>4. QED
    BY <2>1, <2>3
<1>8. ASSUME NEW s \in Requests, aanswer[s] = "ok",
             acall[s].user = acall[r].user,
             Match(acall[r].token, stored[acall[r].user])
      PROVE  \E p \in Requests \ {r} :
               /\ p \notin abefore[s] /\ fresh[p] # NoToken
               /\ fresh[p] = stored[acall[r].user]
  BY <1>1, <1>8 DEF SessionInv, StoredSince, Match
<1>9. SignedOutStaysOut'
  <2> SUFFICES ASSUME NEW s \in Requests, NEW q \in Requests,
                      s \in abefore[q], acall[s].kind = "sign-out",
                      aanswer'[s] = "ok", Accepted(q)',
                      acall[q].user = acall[s].user
               PROVE  \E p \in Requests \ {q} :
                        Signed(p, acall[s].user)' /\ p \notin abefore[s]
    BY <1>1 DEF SignedOutStaysOut
  <2>1. aanswer[s] = "ok"
    BY <1>2
  <2>2. \E p \in Requests \ {q} :
          Signed(p, acall[s].user) /\ p \notin abefore[s]
    <3>1. CASE Accepted(q)
      BY <2>1, <3>1 DEF SessionInv, SignedOutStaysOut
    <3>2. CASE q = r /\ Match(acall[r].token, stored[acall[r].user])
      BY <1>4, <1>8, <2>1, <3>2 DEF SessionInv, OwnHash, Signed
    <3>3. QED
      BY <3>1, <3>2, SessionFrame
  <2>3. QED
    BY <1>1, <1>2, <2>2 DEF Signed
<1>10. TokenRefreshesOnce'
  <2> SUFFICES ASSUME NEW q \in Requests, NEW s \in Requests,
                      q \in abefore[s], Accepted(q)', aanswer'[q] = "ok",
                      Accepted(s)', acall[q].token = acall[s].token
               PROVE  \E p \in Requests : /\ fresh'[p] # NoToken
                                          /\ Match(fresh'[p], acall[s].token)
                                          /\ p \notin abefore[q]
    BY <1>1 DEF TokenRefreshesOnce
  <2>1. aanswer[q] = "ok" /\ q # r
    BY <1>1, <1>2
  <2>2. Accepted(q)
    BY <2>1, SessionFrame
  <2>3. \E p \in Requests : /\ fresh[p] # NoToken
                            /\ Match(fresh[p], acall[s].token)
                            /\ p \notin abefore[q]
    <3>1. CASE Accepted(s)
      BY <2>1, <2>2, <3>1 DEF SessionInv, TokenRefreshesOnce
    <3>2. CASE /\ s = r /\ acall[r].kind = "refresh"
               /\ Match(acall[r].token, stored[acall[r].user])
      <4>1. acall[r] \in TokenCalls /\ acall[q] \in TokenCalls
        BY <1>1, <1>3, <1>4, <2>2, <3>2, SessionAssumption
           DEF Accepted, AllCalls, CatalogCalls
      <4>2. acall[r].token # NoToken
        BY <4>1, SessionAssumption DEF TokenCalls
      <4>3. acall[q].user = acall[r].user
        BY <1>1, <2>2, <3>2, <4>1 DEF PhasesOK
      <4>4. QED
        BY <1>8, <2>1, <3>2, <4>2, <4>3, MatchSymmetric
    <3>3. QED
      BY <3>1, <3>2, SessionFrame
  <2>4. QED
    BY <1>2, <2>3
<1>11. LastCookiesWork'
  <2> SUFFICES ASSUME NEW s \in Requests, aanswer'[s] = "ok",
                      fresh'[s] # NoToken,
                      \A q \in Requests \ {s} :
                        acall[q] # NoCall /\ acall[q].user = acall[s].user
                          => q \in abefore[s]
               PROVE  stored'[acall[s].user] = fresh'[s]
    BY <1>1 DEF LastCookiesWork
  <2>1. CASE s = r /\ Hashes(r)
    BY <1>1, <1>4, <2>1 DEF Hashes, PhasesOK, PlatformTypeOK
  <2>2. CASE s # r \/ ~Hashes(r)
    <3>1. aanswer[s] = "ok" /\ apc[s] = "done" /\ s # r /\ acall[s] # NoCall
      BY <1>1, <1>2, <2>2 DEF PlatformTypeOK
    <3>2. fresh'[s] = fresh[s] /\ acall[r].user # acall[s].user
      BY <1>2, <1>4, <3>1 DEF OnlyOf
    <3>3. stored[acall[s].user] = fresh[s]
      BY <3>1, <3>2 DEF SessionInv, LastCookiesWork
    <3>4. QED
      BY <1>1, <1>2, <1>3, <1>4, <1>5, <3>1, <3>2, <3>3 DEF PlatformTypeOK
  <2>3. QED
    BY <2>1, <2>2
<1>12. QED
  BY <1>6, <1>7, <1>9, <1>10, <1>11 DEF SessionInv

\* A request that arrives has accepted nothing; it can only take the "last
\* cookies" away from others.
LEMMA ArrivalSession ==
  ASSUME AccountInv, SessionInv, NEW r \in Requests, Arrived(r), OnlyOf(r),
         Typed'
  PROVE  SessionInv'
<1>1. /\ PlatformTypeOK /\ PhasesOK /\ BeforeIsDone
      /\ apc[r] = "idle" /\ acall[r] = NoCall /\ aanswer[r] = "none"
      /\ fresh[r] = NoToken
      /\ UNCHANGED <<stored, fresh>>
  BY DEF AccountInv, PlatformTypeOK, PhasesOK, Arrived, userVars
<1>2. aanswer'[r] # "ok" /\ ~Accepted(r)'
  BY <1>1 DEF Arrived, Accepted
<1>3. \A q \in Requests : r \notin abefore[q]
  BY <1>1 DEF BeforeIsDone
<1>4. \A q \in Requests \ {r} : Accepted(q)' => Accepted(q)
  BY DEF Accepted, OnlyOf
<1>5. OwnHash'
  BY <1>1 DEF SessionInv, OwnHash
<1>6. StoredSince'
  BY <1>1, <1>2 DEF SessionInv, StoredSince, OnlyOf
<1>7. SignedOutStaysOut'
  BY <1>1, <1>2, <1>4 DEF SessionInv, SignedOutStaysOut, OnlyOf, Signed
<1>8. TokenRefreshesOnce'
  BY <1>1, <1>2, <1>4 DEF SessionInv, TokenRefreshesOnce, OnlyOf
<1>9. LastCookiesWork'
  BY <1>1, <1>2 DEF SessionInv, LastCookiesWork, OnlyOf
<1>10. QED
  BY <1>5, <1>6, <1>7, <1>8, <1>9 DEF SessionInv

LEMMA SessionInvStep ==
  AccountInv /\ SessionInv /\ [PlatformNext]_platformVars => SessionInv'
<1> SUFFICES ASSUME AccountInv, SessionInv, [PlatformNext]_platformVars
             PROVE  SessionInv'
  OBVIOUS
<1>1. CASE \E r \in Requests : (Arrived(r) \/ Moved(r)) /\ OnlyOf(r) /\ Typed'
  BY <1>1, MoveSession, ArrivalSession
<1>2. CASE UNCHANGED <<userVars, apc, acall, aanswer, fresh, abefore>>
  BY <1>2 DEF SessionInv, OwnHash, StoredSince, SignedOutStaysOut, Signed,
     TokenRefreshesOnce, LastCookiesWork, Accepted, userVars
<1>3. QED
  BY <1>1, <1>2, StepEffect DEF Steps

\* A user's hash is of a token of its own; after a request of a user succeeded
\* there is none, or one stored by a request that was not answered before it.
THEOREM AlwaysSessionInv == PlatformSpec => []SessionInv
BY SessionBase, SessionInvStep, AlwaysAccountInv, PTL DEF PlatformSpec

\* After a sign-out was answered, no refresh is accepted that arrives later,
\* unless a request of the user signed since then, or still running then,
\* has put a hash there.
THEOREM SignOutHolds == PlatformSpec => []SignedOutStaysOut
BY AlwaysSessionInv, PTL DEF SessionInv

\* A refreshed token is accepted again only through a hash that bcrypt takes
\* for its own, of a token signed since.
THEOREM RefreshOnce == PlatformSpec => []TokenRefreshesOnce
BY AlwaysSessionInv, PTL DEF SessionInv

\* The stored hash is that of the cookies given last, unless another request
\* of the user runs beside them.
THEOREM LastCookiesHold == PlatformSpec => []LastCookiesWork
BY AlwaysSessionInv, PTL DEF SessionInv

-----------------------------------------------------------------------------
(***************************************************************************)
(* Businesses and services.                                                *)
(*                                                                         *)
(* RowsAreOf ties a row to the request that inserted it, which is done;    *)
(* OnTheWay says what a request in flight has established: an owner's role *)
(* or the owner of the business, and that no row of a request answered     *)
(* before it arrived has its name.                                         *)
(***************************************************************************)
RowsAreOf ==
  /\ \A x \in businesses : /\ apc[x.id] = "done"
                           /\ acall[x.id].kind = "business"
                           /\ x.owner = acall[x.id].user
                           /\ x.name = acall[x.id].name
  /\ \A x \in services : /\ apc[x.id] = "done"
                         /\ acall[x.id].kind = "service"
                         /\ x.business = acall[x.id].business
                         /\ x.name = acall[x.id].name

OwnsItsBusiness(r) ==
  \E b \in businesses : /\ b.id = acall[r].business
                        /\ b.owner = acall[r].user

OnTheWay ==
  \A r \in Requests :
    /\ apc[r] = "insert" /\ acall[r].kind = "business" =>
         role[acall[r].user] = "owner"
    /\ apc[r] \in {"name", "insert"} /\ acall[r].kind = "service" =>
         OwnsItsBusiness(r)
    /\ apc[r] \in {"role", "insert"} /\ acall[r].kind = "business" =>
         \A x \in businesses :
           x.owner = acall[r].user /\ x.name = acall[r].name
             => x.id \notin abefore[r]
    /\ apc[r] = "insert" /\ acall[r].kind = "service" =>
         \A x \in services :
           x.business = acall[r].business /\ x.name = acall[r].name
             => x.id \notin abefore[r]

CatalogInv == RowsAreOf /\ OnTheWay /\ CatalogIsOwned /\ SameNameNeedsRace

LEMMA CatalogBase == PlatformInit => CatalogInv
BY DEF PlatformInit, SessionsInit, CatalogInv, RowsAreOf, OnTheWay,
       CatalogIsOwned, SameNameNeedsRace

\* A step of r that inserts nothing.
LEMMA MoveCatalog ==
  ASSUME AccountInv, CatalogInv, NEW r \in Requests, Moved(r), OnlyOf(r),
         Typed', ~Inserts(r)
  PROVE  CatalogInv'
<1>1. /\ PlatformTypeOK /\ PhasesOK /\ BeforeIsDone
      /\ apc[r] \notin {"idle", "done"} /\ acall[r].user \in Users
      /\ UNCHANGED <<acall, abefore, businesses, services>>
      /\ acall[r].kind \in KindsOf(apc[r])
  <2>1. acall[r] \in AllCalls
    BY DEF AccountInv, Moved, PlatformTypeOK, AllCalls
  <2>2. QED
    BY <2>1, CallsHaveUsers DEF AccountInv, PhasesOK, Moved, Quiet, Creates,
       Signs, Hashes, Promotes, catalogVars
<1>2. \A u \in Users : /\ role[u] = "owner" => role'[u] = "owner"
                       /\ role'[u] = "owner" =>
                            role[u] = "owner" \/ (Promotes(r) /\ u = acall[r].user)
  BY <1>1 DEF Moved, Quiet, Creates, Signs, Hashes, Promotes, PlatformTypeOK,
     userVars
<1>3. RowsAreOf'
  BY <1>1 DEF CatalogInv, RowsAreOf, OnlyOf, PlatformTypeOK
<1>4. SameNameNeedsRace'
  BY <1>1 DEF CatalogInv, SameNameNeedsRace
<1>5. CatalogIsOwned'
  <2>1. \A b \in businesses : b.owner \in Users
    BY <1>1 DEF PlatformTypeOK
  <2>2. \A b \in businesses : role'[b.owner] = "owner"
    BY <1>2, <2>1 DEF CatalogInv, CatalogIsOwned
  <2>3. ASSUME NEW u \in Users, role'[u] = "owner"
        PROVE  \/ \E b \in businesses : b.owner = u
               \/ \E q \in Requests :
                    /\ acall[q] # NoCall
                    /\ acall[q].kind = "business"
                    /\ acall[q].user = u
                    /\ \/ apc'[q] = "insert"
                       \/ aanswer'[q] \in {"not_found", "error"}
    <3>1. CASE Promotes(r) /\ u = acall[r].user
      BY <1>1, <3>1 DEF Promotes, KindsOf, PlatformTypeOK
    <3>2. CASE \E b \in businesses : b.owner = u
      BY <3>2
    <3>3. ASSUME NEW q \in Requests, acall[q] # NoCall,
                 acall[q].kind = "business", acall[q].user = u,
                 apc[q] = "insert" \/ aanswer[q] \in {"not_found", "error"}
          PROVE  apc'[q] = "insert" \/ aanswer'[q] \in {"not_found", "error"}
      BY <1>1, <3>3 DEF OnlyOf, PlatformTypeOK, Moved, Quiet, Creates, Signs,
         Hashes, Promotes
    <3>4. QED
      BY <1>2, <2>3, <3>1, <3>2, <3>3 DEF CatalogInv, CatalogIsOwned
  <2>4. QED
    BY <1>1, <2>2, <2>3 DEF CatalogInv, CatalogIsOwned
<1>6. OnTheWay'
  <2> DEFINE
    Way(q, phase) ==
      /\ phase = "insert" /\ acall[q].kind = "business" =>
           role'[acall[q].user] = "owner"
      /\ phase \in {"name", "insert"} /\ acall[q].kind = "service" =>
           OwnsItsBusiness(q)
      /\ phase \in {"role", "insert"} /\ acall[q].kind = "business" =>
           \A x \in businesses :
             x.owner = acall[q].user /\ x.name = acall[q].name
               => x.id \notin abefore[q]
      /\ phase = "insert" /\ acall[q].kind = "service" =>
           \A x \in services :
             x.business = acall[q].business /\ x.name = acall[q].name
               => x.id \notin abefore[q]
  <2>1. ASSUME NEW q \in Requests \ {r}
        PROVE  Way(q, apc'[q])
    <3>1. apc'[q] = apc[q]
      BY DEF OnlyOf
    <3>2. apc[q] # "idle" => acall[q].user \in Users
      BY <1>1, CallsHaveUsers DEF PlatformTypeOK, AllCalls
    <3>3. QED
      BY <1>2, <3>1, <3>2 DEF CatalogInv, OnTheWay
  <2>2. Way(r, apc'[r])
    <3>1. CASE apc'[r] \notin {"name", "role", "insert"}
      BY <3>1
    <3>2. CASE apc[r] = "access" /\ apc'[r] = "name"
      BY <1>1, <3>2 DEF Moved, Quiet, Creates, Signs, Hashes, Promotes
    <3>3. CASE apc[r] = "owner" /\ apc'[r] = "name"
      BY <1>1, <3>3 DEF Moved, Quiet, Creates, Signs, Hashes, Promotes,
         OwnsItsBusiness, KindsOf
    <3>4. CASE apc[r] = "name" /\ Quiet(r) /\ ~NameTaken(r)
                 /\ apc'[r] = IF acall[r].kind = "business" THEN "role"
                                                            ELSE "insert"
      BY <1>1, <3>4 DEF CatalogInv, OnTheWay, NameTaken
    <3>5. CASE Promotes(r)
      BY <1>1, <3>5 DEF CatalogInv, OnTheWay, Promotes, PlatformTypeOK,
         KindsOf
    <3>6. QED
      BY <3>1, <3>2, <3>3, <3>4, <3>5
         DEF Moved, Quiet, Creates, Signs, Hashes
  <2>3. QED
    BY <1>1, <2>1, <2>2 DEF OnTheWay, OwnsItsBusiness
<1>7. QED
  BY <1>3, <1>4, <1>5, <1>6 DEF CatalogInv

\* The insert of r: what CheckName found before it still holds of the rows
\* of requests answered before r arrived, and r is in nobody's past.
LEMMA InsertCatalog ==
  ASSUME AccountInv, CatalogInv, NEW r \in Requests, Moved(r), OnlyOf(r),
         Typed', Inserts(r)
  PROVE  CatalogInv'
<1>1. /\ PlatformTypeOK /\ PhasesOK
      /\ apc[r] = "insert" /\ apc'[r] = "done"
      /\ acall[r].user \in Users
      /\ UNCHANGED <<acall, abefore, role>>
      /\ \A q \in Requests : r \notin abefore[q]
  <2>1. acall[r] \in AllCalls
    BY DEF AccountInv, Moved, PlatformTypeOK, AllCalls
  <2>2. QED
    BY <2>1, CallsHaveUsers
       DEF AccountInv, BeforeIsDone, Moved, Inserts, userVars
<1>2. \A x \in businesses \cup services : x.id \in Requests /\ x.id # r
  BY <1>1 DEF PlatformTypeOK, CatalogInv, RowsAreOf
<1>3. \A q \in Requests \ {r} : apc'[q] = apc[q] /\ aanswer'[q] = aanswer[q]
  BY DEF OnlyOf
<1> DEFINE B == [id |-> r, owner |-> acall[r].user, name |-> acall[r].name]
           S == [id |-> r, business |-> acall[r].business,
                 name |-> acall[r].name]
<1>4. CASE /\ acall[r].kind = "business"
           /\ businesses' = businesses \cup {B}
           /\ services' = services
  <2>1. RowsAreOf'
    BY <1>1, <1>2, <1>3, <1>4 DEF CatalogInv, RowsAreOf
  <2>2. OnTheWay'
    BY <1>1, <1>2, <1>3, <1>4 DEF CatalogInv, OnTheWay, OwnsItsBusiness
  <2>3. SameNameNeedsRace'
    <3>1. \A x \in businesses :
            x.owner = B.owner /\ x.name = B.name => x.id \notin abefore[r]
      BY <1>1, <1>4 DEF CatalogInv, OnTheWay
    <3>2. QED
      BY <1>1, <1>2, <1>4, <3>1 DEF CatalogInv, SameNameNeedsRace
  <2>4. CatalogIsOwned'
    <3>1. role[B.owner] = "owner" /\ B.owner = acall[r].user
      BY <1>1, <1>4 DEF CatalogInv, OnTheWay
    <3>2. ASSUME NEW u \in Users, role[u] = "owner"
          PROVE  \/ \E b \in businesses' : b.owner = u
                 \/ \E q \in Requests :
                      /\ acall[q] # NoCall
                      /\ acall[q].kind = "business"
                      /\ acall[q].user = u
                      /\ \/ apc'[q] = "insert"
                         \/ aanswer'[q] \in {"not_found", "error"}
      <4>1. CASE u = acall[r].user
        BY <1>4, <3>1, <4>1
      <4>2. CASE u # acall[r].user
        BY <1>3, <1>4, <3>2, <4>2 DEF CatalogInv, CatalogIsOwned
      <4>3. QED
        BY <4>1, <4>2
    <3>3. \A b \in businesses' : role[b.owner] = "owner"
      BY <1>4, <3>1 DEF CatalogInv, CatalogIsOwned
    <3>4. \A s \in services : \E b \in businesses' :
            b.id = s.business /\ b.owner = acall[s.id].user
      BY <1>4 DEF CatalogInv, CatalogIsOwned
    <3>5. QED
      BY <1>1, <1>4, <3>2, <3>3, <3>4 DEF CatalogIsOwned
  <2>5. QED
    BY <2>1, <2>2, <2>3, <2>4 DEF CatalogInv
<1>5. CASE /\ acall[r].kind = "service"
           /\ services' = services \cup {S}
           /\ businesses' = businesses
  <2>1. RowsAreOf'
    BY <1>1, <1>2, <1>3, <1>5 DEF CatalogInv, RowsAreOf
  <2>2. OnTheWay'
    BY <1>1, <1>2, <1>3, <1>5 DEF CatalogInv, OnTheWay, OwnsItsBusiness
  <2>3. SameNameNeedsRace'
    <3>1. \A x \in services :
            x.business = S.business /\ x.name = S.name
              => x.id \notin abefore[r]
      BY <1>1, <1>5 DEF CatalogInv, OnTheWay
    <3>2. QED
      BY <1>1, <1>2, <1>5, <3>1 DEF CatalogInv, SameNameNeedsRace
  <2>4. CatalogIsOwned'
    <3>1. \E b \in businesses : b.id = S.business /\ b.owner = acall[S.id].user
      BY <1>1, <1>5 DEF CatalogInv, OnTheWay, OwnsItsBusiness
    <3>2. QED
      BY <1>1, <1>2, <1>3, <1>5, <3>1 DEF CatalogInv, CatalogIsOwned
  <2>5. QED
    BY <2>1, <2>2, <2>3, <2>4 DEF CatalogInv
<1>6. QED
  BY <1>4, <1>5 DEF Inserts

LEMMA ArrivalCatalog ==
  ASSUME AccountInv, CatalogInv, NEW r \in Requests, Arrived(r), OnlyOf(r),
         Typed'
  PROVE  CatalogInv'
<1>1. /\ PlatformTypeOK
      /\ apc[r] = "idle" /\ acall[r] = NoCall /\ aanswer[r] = "none"
      /\ apc'[r] \in {"create", "verify", "access", "done"}
      /\ UNCHANGED <<role, businesses, services>>
  BY DEF AccountInv, PlatformTypeOK, Arrived, userVars, catalogVars
<1>2. \A x \in businesses \cup services : x.id \in Requests \ {r}
  BY <1>1 DEF PlatformTypeOK, CatalogInv, RowsAreOf
<1>3. \A q \in Requests \ {r} :
        /\ apc'[q] = apc[q] /\ aanswer'[q] = aanswer[q]
        /\ acall'[q] = acall[q] /\ abefore'[q] = abefore[q]
  BY DEF OnlyOf
<1>4. RowsAreOf'
  BY <1>1, <1>2, <1>3 DEF CatalogInv, RowsAreOf
<1>5. OnTheWay'
  BY <1>1, <1>3 DEF CatalogInv, OnTheWay, OwnsItsBusiness
<1>6. CatalogIsOwned'
  BY <1>1, <1>2, <1>3 DEF CatalogInv, CatalogIsOwned
<1>7. SameNameNeedsRace'
  BY <1>1, <1>2, <1>3 DEF CatalogInv, SameNameNeedsRace
<1>8. QED
  BY <1>4, <1>5, <1>6, <1>7 DEF CatalogInv

LEMMA CatalogInvStep ==
  AccountInv /\ CatalogInv /\ [PlatformNext]_platformVars => CatalogInv'
<1> SUFFICES ASSUME AccountInv, CatalogInv, [PlatformNext]_platformVars
             PROVE  CatalogInv'
  OBVIOUS
<1>1. CASE \E r \in Requests : (Arrived(r) \/ Moved(r)) /\ OnlyOf(r) /\ Typed'
  BY <1>1, MoveCatalog, InsertCatalog, ArrivalCatalog
<1>2. CASE UNCHANGED <<userVars, apc, acall, aanswer, fresh, abefore,
                       catalogVars>>
  BY <1>2 DEF CatalogInv, RowsAreOf, OnTheWay, OwnsItsBusiness,
     CatalogIsOwned, SameNameNeedsRace, userVars, catalogVars
<1>3. QED
  BY <1>1, <1>2, StepEffect DEF Steps

\* Rows are those of requests that are done, and one about to insert has its
\* role and saw no row of its name among those answered before it.
THEOREM AlwaysCatalogInv == PlatformSpec => []CatalogInv
BY CatalogBase, CatalogInvStep, AlwaysAccountInv, PTL DEF PlatformSpec

\* Whoever has a business is an owner, services belong to businesses of
\* whoever created them, and an owner without a business has one on its way
\* or was told of a failure.
THEOREM CatalogOwned == PlatformSpec => []CatalogIsOwned
BY AlwaysCatalogInv, PTL DEF CatalogInv

\* Two rows of one name were made by requests in flight together.
THEOREM NamesNeedRace == PlatformSpec => []SameNameNeedsRace
BY AlwaysCatalogInv, PTL DEF CatalogInv
=============================================================================
