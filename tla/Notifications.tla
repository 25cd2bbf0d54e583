---------------------------- MODULE Notifications ----------------------------
(***************************************************************************)
(* The notification pipeline: NotificationQueue adds a booking-created job *)
(* to a BullMQ queue kept in Redis, NotificationWorker takes the jobs one  *)
(* at a time, and NotificationService sends the message (it prints it).    *)
(* BullMQ and ioredis are external.  A job whose worker died, or lost its  *)
(* lock while Redis was out of reach, is found stalled: it is put back up  *)
(* to MaxStalledCount times, and then fails.                               *)
(*                                                                         *)
(* queue.add is given no jobId, so each add that Redis executes makes a job*)
(* of its own, also when the client sends one add again because the answer *)
(* to it was lost.  Job <<r, n>> is the n-th of the booking of request r.  *)
(*                                                                         *)
(* process() never throws and sends in the tick in which it is called, so  *)
(* the attempts and the backoff given with a job come into play only when  *)
(* the sender does more than print; they are not modelled.                 *)
(***************************************************************************)
EXTENDS Integers, FiniteSets

CONSTANTS BookingRequests,    \* the requests that may create a booking
          MaxStalledCount,    \* BullMQ's default is 1
          MaxAdds             \* bound of the model: how often one add is sent

ASSUME MaxStalledAssumption == MaxStalledCount \in Nat
ASSUME MaxAddsAssumption == MaxAdds \in Nat \ {0}

Copies    == 1 .. MaxAdds
Jobs      == BookingRequests \X Copies
JobsOf(r) == {r} \X Copies

VARIABLES
  job,       \* job[j]: where job j is
  stalls,    \* stalls[j]: how often job j was found stalled
  sent       \* sent[r]: how often the notification of r's booking was sent

jobVars == <<job, stalls, sent>>

JobStates == {"none",        \* not in the queue
              "waiting",
              "active",      \* taken by the worker
              "processed",   \* process() returned, not yet moved
              "orphaned",    \* in the active list, its lock is dead
              "completed",
              "failed"}

NotificationsTypeOK ==
  /\ job \in [Jobs -> JobStates]
  /\ stalls \in [Jobs -> Nat]
  /\ sent \in [BookingRequests -> Nat]

NotificationsInit ==
  /\ job = [j \in Jobs |-> "none"]
  /\ stalls = [j \in Jobs |-> 0]
  /\ sent = [r \in BookingRequests |-> 0]

-----------------------------------------------------------------------------
\* Redis executes queue.add('booking-created', {bookingId}) for the n-th
\* time.  A conjunct of the handler's action, not a step of its own.
AddJob(r, n) ==
  /\ \A m \in Copies : m < n <=> job[<<r, m>>] # "none"
  /\ job' = [job EXCEPT ![<<r, n>>] = "waiting"]
  /\ UNCHANGED <<stalls, sent>>

Held == {j \in Jobs : job[j] \in {"active", "processed"}}

\* The worker, concurrency 1, takes a job when it holds none.
Take(j) ==
  /\ job[j] = "waiting"
  /\ Held = {}
  /\ job' = [job EXCEPT ![j] = "active"]
  /\ UNCHANGED <<stalls, sent>>

\* process(): the notification goes out.  The mutant throws after sending,
\* which is an attempt that BullMQ repeats.
ProcessThenThrow(j) ==
  /\ job[j] = "active"
  /\ job' = [job EXCEPT ![j] = "waiting"]
  /\ sent' = [sent EXCEPT ![j[1]] = @ + 1]
  /\ UNCHANGED stalls

Process(j) ==
  /\ job[j] = "active"
  /\ job' = [job EXCEPT ![j] = "processed"]
  /\ sent' = [sent EXCEPT ![j[1]] = @ + 1]
  /\ UNCHANGED stalls

\* BullMQ moves the job it was told is done to the completed set.
Complete(j) ==
  /\ job[j] = "processed"
  /\ job' = [job EXCEPT ![j] = "completed"]
  /\ UNCHANGED <<stalls, sent>>

\* BullMQ's stalled checker finds a job whose lock was not renewed.
Stalled(j) ==
  /\ job[j] = "orphaned"
  /\ stalls' = [stalls EXCEPT ![j] = @ + 1]
  /\ job' = [job EXCEPT ![j] = IF stalls[j] < MaxStalledCount
                               THEN "waiting" ELSE "failed"]
  /\ UNCHANGED sent

WorkerStep(j) == Take(j) \/ Process(j) \/ Complete(j) \/ Stalled(j)

\* What the worker holds stays in Redis with a dead lock: the process dies, or
\* Redis is out of its reach for longer than the lock (so that the answer to
\* the take, or the move to the completed set, is lost as well).
LoseWorker ==
  /\ job' = [j \in Jobs |-> IF j \in Held THEN "orphaned" ELSE job[j]]
  /\ UNCHANGED <<stalls, sent>>

LoseLock(j) ==
  /\ j \in Held
  /\ job' = [job EXCEPT ![j] = "orphaned"]
  /\ UNCHANGED <<stalls, sent>>
=============================================================================
