------------------------------ MODULE Sessions ------------------------------
(***************************************************************************)
(* AuthService: sign-up, sign-in, refresh and sign-out.  A user has one    *)
(* row with one refresh-token hash; whoever signs in last overwrites it    *)
(* and a sign-out clears it.  As in Bookings, an action is one await with  *)
(* the code that follows it.                                               *)
(*                                                                         *)
(*   sign-up    idle -> create -> store -> done                            *)
(*   sign-in    idle -> verify -> compare -> store -> done                 *)
(*   refresh    idle -> verify -> compare -> access -> store -> done       *)
(*   sign-out   idle -> access -> revoke -> done                           *)
(*                                                                         *)
(* An answer with tokens sets both cookies, and they were signed together: *)
(* one token stands for the two.  jsonwebtoken, bcrypt and Passport are    *)
(* external.                                                               *)
(***************************************************************************)
EXTENDS Integers

CONSTANTS Users,           \* by email
          Registered,      \* those who signed up at second 0
          Requests,
          SessionCalls,    \* [kind, user, good] of sign-ups and sign-ins
          NoCall,
          NoToken,
          AccessLife,      \* JWT_ACCESS_TOKEN_EXPIRATION_MS, in seconds
          RefreshLife,
          SharedSeconds,   \* how many seconds bcrypt cannot tell apart
          MaxClock         \* bound of the model, not of the code

Tokens == [user : Users, origin : {"sign-up", "sign-in"}, iat : Nat]

TokenCalls == [kind : {"refresh", "sign-out"}, user : Users, token : Tokens]

ASSUME SessionAssumption ==
  /\ Registered \subseteq Users
  /\ \A c \in SessionCalls : /\ c.kind \in {"sign-up", "sign-in"}
                             /\ c.user \in Users
                             /\ c.good \in BOOLEAN
  /\ NoCall \notin SessionCalls \cup TokenCalls
  /\ NoToken \notin Tokens
  /\ AccessLife \in Nat \ {0} /\ RefreshLife \in Nat \ {0}
  /\ SharedSeconds \in Nat \ {0}
  /\ MaxClock \in Nat

VARIABLES
  clock,       \* seconds
  role,        \* role[u]: "none" when u has no row
  stored,      \* stored[u]: the token whose hash the row has
  apc, acall, aanswer,
  fresh,       \* fresh[r]: the token r signed
  abefore      \* auxiliary: the requests answered when r arrived

userVars == <<role, stored>>
sessionVars == <<clock, userVars, apc, acall, aanswer, fresh, abefore>>

Token(u, origin, second) == [user |-> u, origin |-> origin, iat |-> second]

SessionsInit ==
  /\ clock = 0
  /\ role = [u \in Users |-> IF u \in Registered THEN "user" ELSE "none"]
  /\ stored = [u \in Users |-> IF u \in Registered
                               THEN Token(u, "sign-up", 0) ELSE NoToken]
  /\ apc = [r \in Requests |-> "idle"]
  /\ acall = [r \in Requests |-> NoCall]
  /\ aanswer = [r \in Requests |-> "none"]
  /\ fresh = [r \in Requests |-> NoToken]
  /\ abefore = [r \in Requests |-> {}]

-----------------------------------------------------------------------------
(***************************************************************************)
(* Tokens.                                                                 *)
(***************************************************************************)

\* jsonwebtoken: a token is expired from the second its exp names.
Alive(t, life) == clock < t.iat + life

\* bcrypt.compare sees the first 72 bytes: the header, the user, and the
\* second of issue up to its last digits (all of them for an id of one or
\* two digits).  A sign-up token shows its tokenType instead.
Match(t, s) ==
  /\ s # NoToken
  /\ t.user = s.user
  /\ t.origin = s.origin
  /\ t.origin = "sign-in" =>
       t.iat \div SharedSeconds = s.iat \div SharedSeconds

\* The tokens a browser can have: those of the answers that set cookies.
Cookies == {Token(u, "sign-up", 0) : u \in Registered}
             \cup {fresh[q] : q \in {p \in Requests : aanswer[p] = "ok"
                                                       /\ fresh[p] # NoToken}}

-----------------------------------------------------------------------------
GotoPhase(r, phase) ==
  /\ apc' = [apc EXCEPT ![r] = phase]
  /\ UNCHANGED aanswer

Respond(r, result) ==
  /\ apc' = [apc EXCEPT ![r] = "done"]
  /\ aanswer' = [aanswer EXCEPT ![r] = result]

Arrive(r, c) ==
  /\ apc[r] = "idle"
  /\ acall' = [acall EXCEPT ![r] = c]
  /\ abefore' = [abefore EXCEPT ![r] = {q \in Requests : apc[q] = "done"}]
  /\ UNCHANGED <<clock, userVars, fresh>>

With(kind, t) == [kind |-> kind, user |-> t.user, token |-> t]

\* JwtAuthGuard looks at the token of the Authentication cookie, then reads
\* its user.  Endpoint({auth: true}) puts it behind a route's own guards: on
\* most routes it runs twice, on a refresh once, after JwtRefreshAuthGuard.
\* What the second run reads changes nothing, so its query is part of the
\* phase that follows.
Authenticate(r, t, phase) ==
  IF Alive(t, AccessLife) THEN GotoPhase(r, phase)
                          ELSE Respond(r, "no_access")

\* A request arrives; the tokens it needs first are checked at once.
StartSession(r) ==
  \/ \E c \in SessionCalls :
       /\ Arrive(r, c)
       /\ GotoPhase(r, IF c.kind = "sign-up" THEN "create" ELSE "verify")
  \/ \E t \in Cookies :
       \/ /\ Arrive(r, With("refresh", t))
          /\ IF Alive(t, RefreshLife) THEN GotoPhase(r, "verify")
                                      ELSE Respond(r, "unauthorized")
       \/ /\ Arrive(r, With("sign-out", t))
          /\ Authenticate(r, t, "access")

\* createUser: the email is unique, P2002 is "Email already registered".
\* The tokens are signed when it returns, or its answer is lost.
CreateUser(r) ==
  LET u == acall[r].user
  IN  /\ apc[r] = "create"
      /\ \/ /\ role[u] # "none"
            /\ Respond(r, "registered")
            /\ UNCHANGED <<role, fresh>>
         \/ /\ role[u] = "none"
            /\ role' = [role EXCEPT ![u] = "user"]
            /\ \/ /\ fresh' = [fresh EXCEPT ![r] = Token(u, "sign-up", clock)]
                  /\ GotoPhase(r, "store")
               \/ Respond(r, "error") /\ UNCHANGED fresh
      /\ UNCHANGED <<clock, stored, acall, abefore>>

\* LocalStrategy: verifyUser reads the user; a missing one and a wrong
\* password are the same answer.  The mutant asks for the password only.
VerifyPassword(r) ==
  /\ apc[r] = "verify" /\ acall[r].kind = "sign-in"
  /\ IF acall[r].good THEN GotoPhase(r, "compare")
                      ELSE Respond(r, "unauthorized")
  /\ UNCHANGED <<clock, userVars, acall, fresh, abefore>>

VerifyUser(r) ==
  /\ apc[r] = "verify" /\ acall[r].kind = "sign-in"
  /\ IF role[acall[r].user] # "none" /\ acall[r].good
     THEN GotoPhase(r, "compare") ELSE Respond(r, "unauthorized")
  /\ UNCHANGED <<clock, userVars, acall, fresh, abefore>>

\* JwtRefreshStrategy: verifyUserRefreshToken reads the stored hash.  The
\* mutant is content with any user that is signed in.
VerifySignature(r) ==
  /\ apc[r] = "verify" /\ acall[r].kind = "refresh"
  /\ IF stored[acall[r].user] # NoToken
     THEN GotoPhase(r, "compare") ELSE Respond(r, "unauthorized")
  /\ UNCHANGED <<clock, userVars, acall, fresh, abefore>>

VerifyRefreshToken(r) ==
  /\ apc[r] = "verify" /\ acall[r].kind = "refresh"
  /\ IF Match(acall[r].token, stored[acall[r].user])
     THEN GotoPhase(r, "compare") ELSE Respond(r, "unauthorized")
  /\ UNCHANGED <<clock, userVars, acall, fresh, abefore>>

\* signIn up to its first await: the tokens are signed.
Sign(r) ==
  /\ fresh' = [fresh EXCEPT ![r] = Token(acall[r].user, "sign-in", clock)]
  /\ GotoPhase(r, "store")

\* bcrypt.compare has said yes: a sign-in starts its handler, a refresh has
\* another guard to pass.
Compared(r) ==
  /\ apc[r] = "compare"
  /\ IF acall[r].kind = "sign-in" THEN Sign(r)
     ELSE Authenticate(r, acall[r].token, "access") /\ UNCHANGED fresh
  /\ UNCHANGED <<clock, userVars, acall, abefore>>

\* JwtStrategy has found the user.
FindCurrentUser(r) ==
  /\ apc[r] = "access"
  /\ \/ acall[r].kind = "refresh" /\ Sign(r)
     \/ /\ acall[r].kind = "sign-out"
        /\ Authenticate(r, acall[r].token, "revoke")
        /\ UNCHANGED fresh
  /\ UNCHANGED <<clock, userVars, acall, abefore>>

\* How a failure of the last statement is answered: signUp lets it through,
\* signIn and signOut turn it into a 401.
Failure(r) == IF acall[r].kind = "sign-up" THEN "error" ELSE "unauthorized"

\* updateUser with the new hash, and the cookies; or its answer is lost.
\* The mutant keeps a hash that is there.
StoreFirstToken(r) ==
  /\ apc[r] = "store"
  /\ stored' = [stored EXCEPT
       ![acall[r].user] = IF @ = NoToken THEN fresh[r] ELSE @]
  /\ \E result \in {"ok", Failure(r)} : Respond(r, result)
  /\ UNCHANGED <<clock, role, acall, fresh, abefore>>

StoreToken(r) ==
  /\ apc[r] = "store"
  /\ stored' = [stored EXCEPT ![acall[r].user] = fresh[r]]
  /\ \E result \in {"ok", Failure(r)} : Respond(r, result)
  /\ UNCHANGED <<clock, role, acall, fresh, abefore>>

\* signOut: the hash is cleared.  The mutant clears the cookies only.
ClearCookies(r) ==
  /\ apc[r] = "revoke"
  /\ Respond(r, "ok")
  /\ UNCHANGED <<clock, userVars, acall, fresh, abefore>>

SignOut(r) ==
  /\ apc[r] = "revoke"
  /\ stored' = [stored EXCEPT ![acall[r].user] = NoToken]
  /\ \E result \in {"ok", Failure(r)} : Respond(r, result)
  /\ UNCHANGED <<clock, role, acall, fresh, abefore>>

\* A query is rejected.  createUser and JwtStrategy's findUser, the first
\* query of "revoke" too, let the error through; the rest catch it.
FailSession(r) ==
  /\ \/ /\ apc[r] \in {"create", "access", "revoke"}
        /\ Respond(r, "error")
     \/ /\ apc[r] \in {"verify", "store", "revoke"}
        /\ Respond(r, Failure(r))
  /\ UNCHANGED <<clock, userVars, acall, fresh, abefore>>

Tick == /\ clock < MaxClock
        /\ clock' = clock + 1
        /\ UNCHANGED <<userVars, apc, acall, aanswer, fresh, abefore>>

SessionStep(r) ==
  \/ CreateUser(r) \/ VerifyUser(r) \/ VerifyRefreshToken(r) \/ Compared(r)
  \/ FindCurrentUser(r) \/ StoreToken(r) \/ SignOut(r) \/ FailSession(r)

-----------------------------------------------------------------------------
SessionPhases == {"idle", "create", "verify", "compare", "access", "store",
                  "revoke", "done"}

\* A refresh whose token was found to be the stored one.
Accepted(r) == /\ acall[r] # NoCall
               /\ acall[r].kind = "refresh"
               /\ apc[r] \in {"compare", "access", "store"}
                    \/ aanswer[r] \in {"ok", "no_access"}

Signed(p, u) == fresh[p] # NoToken /\ fresh[p].user = u

\* Sign out "revokes refresh token": after the answer to a sign-out no
\* refresh is accepted, with any token, unless another request of that user
\* that was still running, or came later, has put a new one there.
SignedOutStaysOut ==
  \A s, q \in Requests :
    /\ s \in abefore[q]
    /\ acall[s].kind = "sign-out" /\ aanswer[s] = "ok"
    /\ Accepted(q) /\ acall[q].user = acall[s].user
    => \E p \in Requests \ {q} :
         Signed(p, acall[s].user) /\ p \notin abefore[s]

\* Rotation: a token that was refreshed is accepted again only if the hash
\* came back since, from a token that bcrypt cannot tell from it and that
\* was signed for the refresh itself, beside it or after it.
TokenRefreshesOnce ==
  \A q, r \in Requests :
    /\ q \in abefore[r]
    /\ Accepted(q) /\ aanswer[q] = "ok" /\ Accepted(r)
    /\ acall[q].token = acall[r].token
    => \E p \in Requests : /\ fresh[p] # NoToken
                           /\ Match(fresh[p], acall[r].token)
                           /\ p \notin abefore[q]

\* Who was given cookies last can refresh: the stored hash is that of the
\* answer's token unless another request for the user was still running then
\* or came later.  A request that failed after its update counts as one.
LastCookiesWork ==
  \A r \in Requests :
    /\ aanswer[r] = "ok" /\ fresh[r] # NoToken
    /\ \A q \in Requests \ {r} :
         acall[q] # NoCall /\ acall[q].user = acall[r].user => q \in abefore[r]
    => stored[acall[r].user] = fresh[r]

\* src/auth/auth.controller.ts, POST /auth/refresh "requires Refresh cookie",
\* and its 401 is "Refresh token invalid/expired": a request whose refresh
\* token is neither is not refused for the other cookie.
RefreshNeedsItsTokenOnly ==
  \A r \in Requests :
    /\ acall[r] # NoCall
    /\ acall[r].kind = "refresh"
    /\ Alive(acall[r].token, RefreshLife)
    /\ Match(acall[r].token, stored[acall[r].user])
    => aanswer[r] # "no_access"
=============================================================================
