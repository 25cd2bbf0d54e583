------------------------------ MODULE Catalog ------------------------------
(***************************************************************************)
(* BusinessesService#create and ServicesService#create, beside the session *)
(* handlers that give a request its user.  A name is looked for, then the  *)
(* row is inserted in a transaction of its own; a user becomes an owner    *)
(* before the first business is there.                                     *)
(*                                                                         *)
(*   business   idle -> access -> name -> role -> insert -> done           *)
(*   service    idle -> access -> owner -> name -> insert -> done          *)
(*                                                                         *)
(* A row's id is the request that inserted it.                             *)
(***************************************************************************)
EXTENDS Sessions

CONSTANTS Names

CatalogCalls ==
  [kind : {"business"}, user : Users, token : Tokens, name : Names] \cup
  [kind : {"service"}, user : Users, token : Tokens, name : Names,
   business : Requests]

ASSUME CatalogCallsAssumption == NoCall \notin CatalogCalls

VARIABLES businesses,   \* [id, owner, name]
          services      \* [id, business, name]

catalogVars == <<businesses, services>>
platformVars == <<sessionVars, catalogVars>>

PlatformInit ==
  /\ SessionsInit
  /\ businesses = {}
  /\ services = {}

-----------------------------------------------------------------------------
\* A request to create arrives with a cookie.
StartCatalog(r) ==
  \E t \in Cookies, n \in Names :
    /\ \/ Arrive(r, [kind |-> "business", user |-> t.user, token |-> t,
                     name |-> n])
       \/ \E b \in Requests :
            Arrive(r, [kind |-> "service", user |-> t.user, token |-> t,
                       name |-> n, business |-> b])
    /\ Authenticate(r, t, "access")

\* JwtStrategy's user, with the role it has now; RoleGuard looks at that role
\* first.
FindCreator(r) ==
  /\ apc[r] = "access"
  /\ \/ /\ acall[r].kind = "business"
        /\ Authenticate(r, acall[r].token, "name")
     \/ /\ acall[r].kind = "service"
        /\ IF role[acall[r].user] = "owner" THEN GotoPhase(r, "owner")
                                            ELSE Respond(r, "forbidden")
  /\ UNCHANGED <<clock, userVars, acall, fresh, abefore, catalogVars>>

\* RoleGuard: the owner of the business in the path.
CheckOwner(r) ==
  LET owners == {b.owner : b \in {x \in businesses :
                                    x.id = acall[r].business}}
  IN  /\ apc[r] = "owner"
      /\ IF owners = {} THEN Respond(r, "bad_request")
         ELSE IF acall[r].user \in owners
         THEN Authenticate(r, acall[r].token, "name")
         ELSE Respond(r, "forbidden")
      /\ UNCHANGED <<clock, userVars, acall, fresh, abefore, catalogVars>>

\* Names are looked for among the user's businesses and the business's
\* services.
NameTaken(r) ==
  IF acall[r].kind = "business"
  THEN \E b \in businesses : /\ b.name = acall[r].name
                             /\ b.owner = acall[r].user
  ELSE \E s \in services : /\ s.name = acall[r].name
                           /\ s.business = acall[r].business

\* The mutant does not look.
SkipName(r) ==
  /\ apc[r] = "name"
  /\ GotoPhase(r, IF acall[r].kind = "business" THEN "role" ELSE "insert")
  /\ UNCHANGED <<clock, userVars, acall, fresh, abefore, catalogVars>>

CheckName(r) ==
  /\ apc[r] = "name"
  /\ IF NameTaken(r) THEN Respond(r, "exists")
     ELSE GotoPhase(r, IF acall[r].kind = "business" THEN "role"
                                                     ELSE "insert")
  /\ UNCHANGED <<clock, userVars, acall, fresh, abefore, catalogVars>>

\* updateRole.  Whatever goes wrong, also a lost answer, is "User not found".
\* The mutant leaves the role to the insert.
LeaveRole(r) ==
  /\ apc[r] = "role"
  /\ GotoPhase(r, "insert")
  /\ UNCHANGED <<clock, userVars, acall, fresh, abefore, catalogVars>>

UpdateRole(r) ==
  /\ apc[r] = "role"
  /\ role' = [role EXCEPT ![acall[r].user] = "owner"]
  /\ GotoPhase(r, "insert") \/ Respond(r, "not_found")
  /\ UNCHANGED <<clock, stored, acall, fresh, abefore, catalogVars>>

\* The insert, in a serializable transaction that holds nothing else; its
\* answer may be lost.
InsertRow(r) ==
  LET c == acall[r]
  IN  /\ apc[r] = "insert"
      /\ IF c.kind = "business"
         THEN /\ businesses' = businesses \cup
                   {[id |-> r, owner |-> c.user, name |-> c.name]}
              /\ UNCHANGED services
         ELSE /\ services' = services \cup
                   {[id |-> r, business |-> c.business, name |-> c.name]}
              /\ UNCHANGED businesses
      /\ \E result \in {"created", "error"} : Respond(r, result)
      /\ UNCHANGED <<clock, userVars, acall, fresh, abefore>>

FailCatalog(r) ==
  /\ apc[r] \in {"owner", "name", "role", "insert"}
  /\ Respond(r, IF apc[r] = "role" THEN "not_found" ELSE "error")
  /\ UNCHANGED <<clock, userVars, acall, fresh, abefore, catalogVars>>

CatalogStep(r) ==
  \/ FindCreator(r) \/ CheckOwner(r) \/ CheckName(r) \/ UpdateRole(r)
  \/ InsertRow(r) \/ FailCatalog(r)

SessionNext(r) ==
  /\ StartSession(r) \/ SessionStep(r)
  /\ UNCHANGED catalogVars

CatalogNext(r) ==
  (StartCatalog(r) /\ UNCHANGED catalogVars) \/ CatalogStep(r)

PlatformNext ==
  \/ \E r \in Requests : SessionNext(r) \/ CatalogNext(r)
  \/ Tick /\ UNCHANGED catalogVars

PlatformSpec == PlatformInit /\ [][PlatformNext]_platformVars

-----------------------------------------------------------------------------
PlatformPhases == SessionPhases \cup {"owner", "name", "role", "insert"}
PlatformAnswers ==
  {"none", "ok", "registered", "unauthorized", "no_access", "error",
   "created", "forbidden", "bad_request", "exists", "not_found"}

\* Every variable has its values; in particular only users that have a row
\* have a hash, and every answer ends its request.
PlatformTypeOK ==
  /\ clock \in 0 .. MaxClock
  /\ role \in [Users -> {"none", "user", "owner"}]
  /\ stored \in [Users -> Tokens \cup {NoToken}]
  /\ \A u \in Users : role[u] = "none" => stored[u] = NoToken
  /\ apc \in [Requests -> PlatformPhases]
  /\ aanswer \in [Requests -> PlatformAnswers]
  /\ acall \in [Requests -> SessionCalls \cup TokenCalls \cup CatalogCalls
                               \cup {NoCall}]
  /\ fresh \in [Requests -> Tokens \cup {NoToken}]
  /\ abefore \in [Requests -> SUBSET Requests]
  /\ \A r \in Requests : /\ apc[r] = "done" <=> aanswer[r] # "none"
                         /\ apc[r] = "idle" <=> acall[r] = NoCall
  /\ businesses \subseteq [id : Requests, owner : Users, name : Names]
  /\ services \subseteq [id : Requests, business : Requests, name : Names]

\* Whoever has a business is an owner, and a service is created by the owner
\* of its business.  An owner without a business has one on its way, or was
\* told that creating it failed.
CatalogIsOwned ==
  /\ \A b \in businesses : role[b.owner] = "owner"
  /\ \A s \in services : \E b \in businesses :
       b.id = s.business /\ b.owner = acall[s.id].user
  /\ \A u \in Users : role[u] = "owner" =>
       \/ \E b \in businesses : b.owner = u
       \/ \E r \in Requests : /\ acall[r] # NoCall
                              /\ acall[r].kind = "business"
                              /\ acall[r].user = u
                              /\ \/ apc[r] = "insert"
                                 \/ aanswer[r] \in {"not_found", "error"}

\* "A business already exists with the given name": two of one owner's
\* businesses, or two services of one business, have one name only if the
\* requests that made them were in flight together.
SameNameNeedsRace ==
  /\ \A x, y \in businesses :
       x # y /\ x.owner = y.owner /\ x.name = y.name
         => x.id \notin abefore[y.id]
  /\ \A x, y \in services :
       x # y /\ x.business = y.business /\ x.name = y.name
         => x.id \notin abefore[y.id]
=============================================================================
