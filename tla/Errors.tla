------------------------------- MODULE Errors -------------------------------
(***************************************************************************)
(* GlobalExceptionFilter: the status a client is told for whatever a       *)
(* handler threw.                                                          *)
(*                                                                         *)
(* An exception is its class, its code, the fragments of its message the   *)
(* filter looks for, and (an HttpException) its own status.  What the      *)
(* libraries throw is external: Prisma 7 with its pg adapter, ioredis.     *)
(***************************************************************************)
EXTENDS Integers

Exception(class, code, says) ==
  [class |-> class, code |-> code, says |-> says, status |-> 0]

NoException == Exception("none", "", {})

\* What services, guards and pipes throw themselves.
Http(status) ==
  [class |-> "HttpException", code |-> "", says |-> {}, status |-> status]

Prisma(code) == Exception("PrismaClientKnownRequestError", code, {})

\* P1001: nobody answers.  P1017: the connection was closed.  P2028: the
\* transaction got no connection in time.  An error without a code: the
\* driver's "Connection terminated unexpectedly".
Unreachable  == Exception("PrismaClientKnownRequestError", "P1001",
                          {"can't reach database server"})
ConnectionClosed == Prisma("P1017")
NoConnection     == Prisma("P2028")
Terminated       == Exception("Error", "", {})

RedisRefused == Exception("Error", "ECONNREFUSED", {"econnrefused"})
RedisGaveUp  == Exception("MaxRetriesPerRequestError", "", {})

-----------------------------------------------------------------------------
LooksLikeDependencyDown(e) ==
  \/ e.code \in {"ECONNREFUSED", "ETIMEDOUT", "ENOTFOUND"}
  \/ {"econnrefused", "timeout", "can't reach database server"} \cap e.says
       # {}
  \/ {"connect", "refused"} \subseteq e.says

KnownStatus(e) ==
  CASE e.code = "P2002" -> 409      \* Resource already exists
    [] e.code = "P2025" -> 404      \* Resource not found
    [] OTHER            -> 400      \* Invalid request

\* Initialisation, known, validation, and unknown errors or a panic.
PrismaStatus(e) ==
  CASE e.class = "PrismaClientInitializationError" -> 503
    [] e.class = "PrismaClientKnownRequestError"   -> KnownStatus(e)
    [] e.class = "PrismaClientValidationError"     -> 400
    [] e.class \in {"PrismaClientUnknownRequestError",
                    "PrismaClientRustPanicError"}  -> 500

IsPrisma(e) == e.class \in {"PrismaClientInitializationError",
                            "PrismaClientKnownRequestError",
                            "PrismaClientValidationError",
                            "PrismaClientUnknownRequestError",
                            "PrismaClientRustPanicError"}

\* What is none of these.  The mutant blames the request, as the known
\* errors' default does.
BlameRequest(e) == 400

Fallback(e) == 500

\* mapError, in the order of its tests.
MapError(e) ==
  IF e.class = "HttpException" THEN e.status
  ELSE IF LooksLikeDependencyDown(e) THEN 503
  ELSE IF IsPrisma(e) THEN PrismaStatus(e)
  ELSE Fallback(e)
=============================================================================
