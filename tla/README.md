# Formal models of Schedulify

Schedulify is a booking back end: a NestJS application (one Node process per
deployment), PostgreSQL through Prisma, Redis for a BullMQ queue. Business
owners publish services and working hours and block out time; customers ask
for free slots and book them. This directory holds TLA+ modules of the parts
that keep state, TLC configurations that check them on small instances, and
TLAPS proofs about them for every value of the constants. Paths below are
relative to the repository's root.

Contents: [inventory](#1-inventory) · [modules](#2-modules-and-the-code-they-model) ·
[runs](#3-runs) · [fairness](#4-fairness) · [findings](#5-findings) ·
[proofs](#6-proofs) · [not modelled](#7-what-is-left-out-and-why) · [plan](#8-plan)

To repeat a check: `tlc -config Races.cfg MCAvailability` (the module of each run
is in the table of section 3), `tlapm SchedulingProofs.tla`.

## 1. Inventory

### 1.1 Components

| component | state it keeps | operations | talks to |
|---|---|---|---|
| Booking engine `src/bookings/` | table `bookings` | `POST /bookings` (`BookingsService#create`); reads | blocks, working hours, services, notification queue |
| Working-hours arithmetic `src/bookings/validators/booking-working-hours.validator.ts` | none | opening and closing instants of a day on a zone's clock (Luxon) | called by the booking engine |
| Availability blocks `src/blocks/` | table `availability_blocks` | `POST /businesses/:id/blocks`, `DELETE /blocks/:id`; reads | role guard, working hours |
| Weekly schedule `src/working-hours/` | table `working_hours` | `PUT /businesses/:id/working-hours`; reads | role guard |
| Availability slots `ServicesService#getAvailability` | none | `GET .../services/:id/availability` | the three tables |
| Role guard `src/auth/guards/role.guard.ts`, `src/resource/` | none | verdict on a user and a resource, before the handler | all tables, read only |
| Idempotency interceptor `src/_core/interceptors/idempotency-key.interceptor.ts` | a cache, key to response | look up, replay, run the handler, store | around `POST /bookings` only |
| Notification pipeline `src/notifications/` | BullMQ jobs in Redis | add a job; a worker takes one, sends, completes; a stalled checker | fed by the booking engine |
| Businesses and services `src/businesses/`, `ServicesService#create` | tables `businesses`, `services`, `users.role` | create; reads; update and remove are stubs | access-token guard, role guard |
| Accounts and sessions `src/auth/` | table `users` with a refresh-token hash; two cookies in the browser | sign up, sign in, refresh, sign out | guards of every route with `auth: true` |
| Exception filter `src/_core/filters/` | none | from whatever was thrown to a status | every handler, guard and pipe |
| Owner's agenda `BusinessesService#getBookings` | none | `GET /businesses/:id/bookings?date=` | bookings, the business's zone |
| Request validation `src/_core/decorators`, `validators`, DTOs | none | what a body must satisfy, and what a handler makes of it | stands before every handler, behind guards and interceptors |
| Response transform, rate limiting, health, bootstrap | none of its own | | |

### 1.2 How they interact

Handlers of concurrent requests share one thread. A handler is a chain of
awaits: it runs alone from one to the next, and anything may happen during one.
Everything a handler decides therefore rests on reads that may be old when it
writes. The database isolates a handler only where two statements share one
transaction, and only `setWeeklySchedule` has such a transaction:
`createBookingRecord` asks for the serializable level, but the insert is the
only statement inside; the checks were made before, in queries of their own.

The other asynchrony is between the process and Redis: `queue.add` comes after
the commit, the worker runs later in the same process, and a crash kills the
handlers, the worker and the interceptor's cache (in the process's memory)
while tables and jobs survive. Redis may be out of reach for a while: an add may have been
done when its answer is lost, and a job may have lost its lock.

A request passes its guards, then its interceptors, then the `ValidationPipe`, then
its handler; whatever any of them throws ends in the exception filter. No handler of
the booking engine checks what the pipe has checked, and no single validator checks it
all: each one passes what it expects another to reject.

### 1.3 What is hard here, and what makes it correct

| component | hard behaviour | correct when | property |
|---|---|---|---|
| booking engine | check, then insert, without a lock | overlaps need a race; none with one request at a time | `OverlapNeedsRace`, `NoDoubleBooking`, `LedgerSpec` |
| | the two overlap queries are of different moments | as above | `OverlapNeedsRace` |
| | hours read long before the insert | inside the hours it read; inside the schedule when serial | `InsideCheckedHours`, `ConfirmedInsideSchedule` |
| | a query fails, a commit's acknowledgement is lost, `queue.add` fails | answers are true | `AnswersAreTrue` |
| | every request is answered | | `RequestsSettle` |
| working-hours arithmetic | days on which the clock moves; a zone's weekday is not UTC's | a booking lies inside its hours tick by tick | `InsideCheckedHours` |
| blocks | check, then insert; the guard's verdict is older than the delete | overlaps need a race; only owners write | `BlockOverlapNeedsRace`, `BlocksDisjoint`, `OwnersOnly` |
| weekly schedule | concurrent replacements of a week | never a mixture | `ScheduleIsOneRequest` |
| slots | two pieces of code must agree on every boundary | an offer can be taken, what can be taken is offered | `OfferedIsBookable`, `BookableIsOffered`, `OffersInsideHours` |
| request validation | validators that pass each other's cases; `Date.parse` reads more than Luxon | what reaches a handler is what the engine is specified for, and what is stored is what was sent | `EngineSpec`, `StoredAsSent` |
| owner's agenda | a date in the server's zone, a day at a change of clock | a booking is on the list of its day and on no other | `ListedOnItsDay` |
| exception filter | a failure after the commit; an error's class and text decide whose fault it was | a client whose booking stands is not told that its request was bad | `BookedIsNotBlamed` |
| interceptor | two requests with a key; expiry; restart | replays are true, kept keys replay, a second booking needs a race | `ReplaysAreTrue`, `ReplayedWhileKept`, `SecondBookingNeedsRace` |
| notifications | a worker dies, or loses its lock, with a job in hand; an add is done twice, or done and rejected | repeated only for a crash or a loss of Redis; nobody told "created" is forgotten | `NotifiedOncePerLoss`, `CreatedIsNotified` |
| businesses, services | name check then insert; role changed before the insert | one name twice needs a race; owners own, and services hang on their owner's business | `SameNameNeedsRace`, `CatalogIsOwned` |
| sessions | one stored hash per user, which sign-ins and refreshes overwrite and a sign-out clears, each some awaits after its checks; answers lost after the update; tokens that expire between two guards | no refresh after a sign-out, a token refreshes once, the last cookies work, each unless requests of that user race | `SignedOutStaysOut`, `TokenRefreshesOnce`, `LastCookiesWork` |

## 2. Modules and the code they model

```
Calendar            instants, zones, working-hours arithmetic
  Database          the three tables, their queries, RoleGuard
    Bookings        POST /bookings           (also extends Notifications)
    AvailabilityBlocks  POST and DELETE of blocks
    WeeklySchedule  PUT of a week
      Scheduling    the three together; Spec, FairSpec, SerialSpec, properties
        Availability    GET of slots beside them
        Agenda          GET of an owner's bookings of a date
        Gateway         the three bodies, from the pipe on (also Validation)
        MCScheduling, MCAvailability, MCGateway        instances
        SchedulingProofs -> RaceProofs -> SerialProofs;  -> OwnerProofs;
                         -> GatewayProofs
        SlotProofs      (extends SerialProofs and Availability)
Validation          DTOs and custom validators (extends Calendar)
Notifications       the queue and its worker
Ledger              the abstract engine (INSTANCEd by Scheduling)
Errors              the exception filter
BookingApi          Bookings + Notifications + Errors + interceptor, restarts
  MCBookingApi      instances
  ApiProofs
Sessions            users, tokens, the four auth routes and their guards
  Catalog           creation of businesses and services; PlatformSpec
    MCCatalog       instances
    PlatformProofs
```

**Shape of a handler.** Each handler has a program counter per request (`pc`
for bookings, `bpc`, `dpc`, `wpc`, `spc` for the others) whose value names the
await the request is in. An action is one await and the code after it up to the
next; conditions and early returns of that code are its `IF`s. `Fail*(r)` is a
rejected query at any await: no service catches, the exception filter answers.
An insert has two outcomes besides failing, acknowledged or with the
acknowledgement lost (`LoseCommit`, or `"error"` in `CreateBlockRecord`,
`DeleteBlock`, `CommitWeek`).

**`Calendar`** (`booking-working-hours.validator.ts`, `bookings.service.ts`
`getWorkingHours`). Time is a number of 5-minute ticks since a Monday 00:00 UTC;
all instants, hours and durations the program accepts are aligned to 5 minutes, so nothing
of them is lost (wall minutes that a client writes may be off the grid, see `Validation`).
`UtcOffset(b, t)` is a business's zone, any function of the instant. `AtMinute`
is `DateTime.fromObject` with a zone: Luxon's `fixOffset` on the provisional
offset of the moment of the call, which decides what a skipped or repeated wall
time means.

**`Database`** (`schema.prisma`; `getOverlaps`; `RoleGuard` with
`ResourceService`). `bookings`, `blocks` and `workingHours` are sets of rows; a
row's id is the request that inserted it. Users with their role, businesses and services are
constants, because no endpoint of the engine changes one that exists; the role is a column of
its own, so that a user may be an owner without a business (`Catalog` shows how). `OverlappingBookings`
and `OverlappingBlocks` have no business in their filter: neither has the code.

**`Bookings`** (`BookingsService#create`). `ValidateBusiness`,
`ValidateService`, `GetWorkingHours` (the row of the weekday of the start on the
business's clock, then the validator), `ReadBlocks` and `ReadBookings` (the two
queries of `Promise.all`, in either order), `CheckReserved`,
`CreateBookingRecord`, `EnqueueBookingCreated`. `LoseReply` is a `queue.add` that Redis
executes and whose answer is lost: the handler waits on, ioredis sends the add again, or
rejects it (`Fail`) with the job in the queue. `sawBlocks` and `sawBookings`
are auxiliary: what was in the tables when the handler read them.

**`AvailabilityBlocks`** (`BlocksService#create`, `#delete`). The hours check
takes any row of the business (`findFirst` without a weekday or an order) and
compares minutes of the day as written in the request's strings (`from`, rounded down to a
tick, and `to`, rounded up: the hours they are compared with are on the ticks). A block is
not compared with bookings.

**`WeeklySchedule`** (`WorkingHoursService#setWeeklySchedule`). `DeleteWeek`
fixes the rows the transaction is about, `CommitWeek` replaces them if they are
still the business's rows; otherwise PostgreSQL aborts the transaction (`Lost`). A week with
an entry that is null (`broken`) gets as far as the deletion: the map over the days throws,
Prisma rolls back, and the answer is 500.
PostgreSQL is external; this is what its serializable level gives to two
transactions that delete and insert the rows of one business.

**`Notifications`** (`notification.queue.ts`, `notification.worker.ts`,
`notification.service.ts`). A job waits, is taken by the one worker, is
processed and completed. `queue.add` is given no `jobId`, so each add that Redis executes
makes a job of its own: job `<<r, n>>` is the `n`-th of request `r`'s booking, and a booking
has several when an add was sent again. A job whose worker died (`LoseWorker`), or lost its
lock because Redis was out of reach for longer than that lasts (`LoseLock`), is orphaned;
BullMQ's stalled checker puts it back `MaxStalledCount` times (its default is 1) and then
fails it. BullMQ and ioredis are external. `process()` sends in the tick in which it is called
and cannot throw: so `attempts` and `backoff` never act, and no message goes out of a worker
that has already lost its job.

**`BookingApi`** (`idempotency-key.interceptor.ts` around `Bookings`). `Handle`
is the look-up that misses and the start of the handler, one action because
nothing yields to another request in between; `HandlerStep` stores the
response with the step that answers. `Expire` is the entry's end of life,
`Restart` the death of the process: handlers end unanswered (`"lost"`), the
cache is empty, the worker's job is orphaned. `Outage` counts the moments at which a loss of
Redis matters: under an add (`AddAgain`), or under a job the worker holds (`Cut`).
`RejectBody` is the pipe, which runs only when the look-up missed. `thrown[r]` is what ended the request: a refusal's own
exception, or one of those the failed await rejects with (`Rejections`, which depends
on whether the row is in the table); `Status(r)` is what the filter makes of it.

**`Errors`** (`global-exception.filter.ts`). `MapError` and its branches, in the order
of their tests. An exception is its class, its code, the fragments of its message that
the filter looks for and its own status. What Prisma, `pg` and ioredis throw is
external.

**`Validation`** (`src/_core/decorators/`, `src/_core/validators/`, the DTOs of bookings,
blocks and weeks). What `JSON.parse` returned is abstract: a field that is missing or no
string is `Junk`, a time is its minute of the day, a date-time is its minute, its offset
and whether Luxon reads it, because `Date.parse`, which the validators use, takes more than
ISO 8601. Each validator is an operator of its own, with the cases it passes on to others.
Of one case there is no other: `ValidateNested({each: true})` has nothing to say of an entry
that is `null` (or an array of entries), and `NoDuplicateDayOfWeek` passes any week with an
entry that has no day, so `[{Monday}, null, {Monday}]` is taken (`Null`, `ValidateNested`,
`NoDuplicateDay`). `BlockCall`, `BookingCall` and `WeekCall` are what the handlers make of a
body, in ticks. The decorator asks that the *instant* of a date-time be aligned; its offset
may be anything, and a block's hours check uses the minutes the string shows (`WallMinute`).
Hours are whole ticks, so rounding the start down and the end up (`TickUp`) compares exactly
as the minutes do: `10:03+00:03` is past 10:00.

**`Gateway`** (`main.ts`, the three routes). `PostBooking`, `PostBlock` and `PutWeek` take a
body that passed, in place of `Scheduling`'s calls; `HandlersStep` is the rest of
`Scheduling`. `body[r]` keeps what was sent.
A body that is not taken is answered 4xx, by a guard, the pipe or the handler's own reading of it, before anything is written: it is no step. A date-time that
passes the pipe and that Luxon does not read is a 400 in both handlers (in the block
handler by `convertStringToDate`, in the booking handler because Prisma rejects a weekday
that is not a number). `EngineSpec` is the refinement: the routes implement `Scheduling` in
which a request arrives with any call that is sound (`SoundCall`, `SoundBlockCall`,
`SoundWeekCall`: what `Scheduling` assumes of its calls), whatever the bodies were.
`StoredAsSent` relates the tables to the bodies.

**`Agenda`** (`BusinessesService#getBookings`). One read, so it has no state: `DayStart` is
midnight of the date in the server's zone (UTC in its containers), `DayEnd` the same wall
time a day later in the business's zone, as Luxon's `plus` computes it.

**`Availability`** (`ServicesService#getAvailability`). The awaits of the
handler and `GenerateCandidates`, whose loop from opening to closing minus the
duration is a set of starts. `offered*`, `early` are auxiliary.

**`Sessions`** (`auth.service.ts`, `auth.controller.ts`, the Passport strategies).
`stored[u]` is the token whose hash the user's row has. An answer's two cookies are
signed together, so one token stands for both; `Alive` asks whether the one or
the other has expired. `Match` is `bcrypt.compare` on two tokens: it sees 72
bytes, which end inside the second of issue, so tokens signed within
`SharedSeconds` of each other are one to it (1 for ids of up to two digits).
`Cookies` are the tokens some answer has set. The order of the guards is that of
the decorators: on a refresh `JwtRefreshAuthGuard`, then the `JwtAuthGuard` that
`auth: true` adds (`VerifyRefreshToken`, `Compared`, `FindCurrentUser`); on the other
routes `JwtAuthGuard` runs twice, and the second run finds the token expired or changes
nothing. `StoreToken` and `SignOut` may lose their answer after the update.

**`Catalog`** (`businesses.service.ts`, `business.validator.ts`,
`services.service.ts#create`). `FindCreator` and `CheckOwner` are the role guard on a
role that changes, `CheckName` the look-up, `UpdateRole` the promotion, `InsertRow`
the transaction that holds only the insert. It extends `Sessions` because its
requests are those of signed-in users. Bookings have a catalogue of constants
(`Database`), which no endpoint changes once it exists, so the two trees of modules
need no common state.

**`Ledger`** is what the engine promises: a set of appointments that grows by
one at a time and never has two of one business at one time. `Scheduling`
instantiates it with `ledger <- bookings`; the status of a booking is left out
of the tables because it defaults to `CONFIRMED` and nothing changes it.

`SerialSpec` is `Spec` with the restriction that no request starts while
another is in flight (`OneAtATime`). It is not a claim about the deployment; it
states what the checks achieve when there is no race, which is what the races
are measured against.

Definitions named "mutant" in the comments (`StartsDuring`, `AtUtcMinute`,
`CheckBlocksOnly`, ...) are plausible wrong versions of the definition they stand
before. No specification uses them; each replaces its neighbour once, to see that
a property notices.

## 3. Runs

`CHECK_DEADLOCK FALSE` in all of them: each request is sent once, so the system
stops when all have been answered. Sizes are distinct states.

| run | module | shows | bounds |
|---|---|---|---|
| `Races` | MCAvailability | `OverlapNeedsRace`, `AnswersAreTrue`, `OfferedIsBookable`, `BookableIsOffered`, `OffersInsideHours` in every interleaving | 2 bookings and 1 block that touch, overlap and nest, 1 slot request, zones that move; 0.54 M |
| `Owners` | MCGateway | `BlockOverlapNeedsRace`, `StoredAsSent`, `OwnersOnly`, and `RequestsSettle` for blocks and deletions | 2 blocks, equal or one inside the other, and 2 deletions of one, by owner, other owner, customer, for a business that is missing; 6 kinds of bad body, offsets off the grid; 0.17 M |
| `Clock` | MCGateway | `InsideCheckedHours`, `ScheduleIsOneRequest`, `StoredAsSent`, `OwnersOnly`, `EngineSpec`, and `RequestsSettle` for bookings and weeks | 1 booking at each of the ticks of three days with every refusal, 2 weeks, perhaps by a foreign owner; bodies with each kind of fault, one that passes with a null entry; an add sent twice; zones that move; 0.20 M |
| `Serial` | MCScheduling | one request at a time: `TypeOK`, `NoDoubleBooking`, `BlocksDisjoint`, `ConfirmedInsideSchedule`, `LedgerSpec` | 2 bookings, 2 blocks, 2 deletions offered, 1 week, perhaps for a business that is missing; 0.48 M |
| `Interceptor` | MCBookingApi | `TypeOK`, `ReplaysAreTrue`, `ReplayedWhileKept`, `SecondBookingNeedsRace`, `BookedIsNotBlamed`, `NotifiedOncePerLoss`, `CreatedIsNotified` | 2 requests, 2 keys and a bad one, two good bodies under one key and a bad one, every exception, expiry, 1 restart, 1 loss of Redis, an add sent twice; 0.44 M |
| `Platform` | MCCatalog | `PlatformTypeOK`, `SignedOutStaysOut`, `TokenRefreshesOnce`, `LastCookiesWork`, `CatalogIsOwned`, `SameNameNeedsRace` | 3 requests, 2 accounts and one to be, 2 seconds, one name; 1.2 M |
| `FindDoubleBooking` | MCScheduling | violates `NoDoubleBooking` | 2 bookings |
| `FindForeignConflict` | MCScheduling | violates `RefusedForOwnBusiness`, serially | 2 bookings |
| `FindBlockHours` | MCScheduling | violates `BlocksInsideHours`, serially | 1 block |
| `FindForgottenKey` | MCBookingApi | violates `RepeatIsReplayed` | 2 requests with one key |
| `FindRefresh` | MCCatalog | violates `RefreshNeedsItsTokenOnly` | 1 request |
| `FindAgenda` | MCScheduling | violates `ListedOnItsDay`, serially | 1 booking |

**Why the bounds are enough.**

- *A day of 6 ticks* instead of 288. What the code compares are orders of
  instants and of minutes; six ticks leave room for closed time on both sides of
  the opening hours, for bookings that touch, overlap and nest, and for a clock
  that skips two of the minutes around the closing one. `InitialHours` opens Monday and
  Tuesday, so other days are closed days. Weekdays are still taken modulo 7.
- *Two bookings and two blocks.* A violation of any overlap property is a pair of
  rows, with what each handler had read. A third handler changes what a pair
  could see only by deletion, which `Owners` has. The proofs of section 6 have no
  such bound. `Races` has one block, because two blocks race in `Owners`.
- *A tick is 5 minutes and a day 30* in `MCGateway`, so that times off the grid, times past
  the end of the day and bodies with one fault each stand beside the good ones. Every
  instance of `Calls`, `BlockCalls` and `ScheduleCalls` is sent as a body there.
- *`MovingZones`.* The salon's clock skips two minutes; it closes at the first of
  them or, with some weeks, at the second. The gym's goes back and repeats a minute
  between opening and closing. `Instants = {-20, 0}` puts the moment of the call
  (Luxon's provisional offset) on either side of the change. `MCScheduling` assumes, so
  TLC checks, that both clocks are what the theorems of `SlotProofs` take a zone to be.
- *`ClearHours` and `ClearOffer`.* The properties about hours speak of days on which the
  clock comes to the opening and to the closing minute once (`Calendar!ComesOnce`). If it
  repeats one of them, the hours begin or end at two instants and Luxon chooses by the
  offset of the moment of the call; if it skips the minute and some minutes before it,
  Luxon may resolve it to an instant whose wall time is well before it or after it. What
  "inside hours" should mean then the documents do not say: a booking can end after the
  first of two closings, or be refused while the shop is open. A clock that skips exactly
  from the closing minute on *is* covered: the salon's, with the hours of `InitialHours`.
- *`MaxRestarts = 1` and `MaxOutages = 1`* in `Interceptor` make one loss more than
  `MaxStalledCount`, the number it takes to fail a job, and let a crash meet a booking that
  has two jobs. `FindForgottenKey` needs no loss of Redis (`MaxOutages = 0`).
- *`MaxAdds`*, how often one add is sent, is 2 in `Clock` and `Interceptor`: a second job is
  the first that can repeat a notification. It is 1 in the runs whose properties do not speak of
  jobs; there a lost answer is a failure. ioredis sends up to 20 times; the theorems have
  no bound.
- *Three requests* in `Platform`: what has to be told apart is a pair of requests and
  one that comes between them (a sign-in between a sign-out and a refresh), or
  a business and two services of it. `AccessLife = 1`, `RefreshLife = 2` and
  `MaxClock = 1` let an access token expire before, between and after the guards of a
  request. A refresh token outlives the run; with `MaxClock = 2` it does not, and with
  `SharedSeconds = 2` tokens of two seconds are one to bcrypt: the properties held there
  too (2.2 M states).

Limits that are worth knowing:

- Two blocks of one business *can* overlap when their requests race, and a booking
  can be inserted after its week was replaced. `README.md:342` says in general that
  "serializable transactions + idempotency keys make mutations safe under concurrency", which
  is as untrue of these as it is of bookings (`FindDoubleBooking`); no document
  states a rule for blocks or replaced weeks that a property could be held against.
  `BlocksDisjoint` and `ConfirmedInsideSchedule` say it of one request at a time, and
  `BlockOverlapNeedsRace` and `InsideCheckedHours` what is left with races.
- The properties of `Serial` say what the checks achieve by themselves, with failures and lost
  commits. They cannot catch an interleaving; the properties of `Races`, `Owners` and
  `Clock` are for those.
- A block may be created over bookings that are there already, and no document says
  whether it should; `OverlapNeedsRace` allows it.
- A business never changes hands, so what `OwnersOnly` says is that each write is that
  of a request whose verdict was right, and that no path goes around the guard.
- `PUT working-hours` takes a week with an entry that is null: the handler deletes the week
  in its transaction, throws a `TypeError`, rolls back and answers 500, where the comment at
  `no-duplicate-dayofweek.decorator.ts:18` leaves such entries to the nested validators.
  Nothing is written, as `StoredAsSent` says.
- `Races` has no deletions and no week changes (with a deletion added the same
  properties held over 2.8 M states, which takes too long to be kept as a run), so the
  disjuncts of `OfferedIsBookable` that excuse a change of hours are not exercised there;
  the theorem of section 6 has them.
- The race that `SameNameNeedsRace` allows is real: nothing but the look-up keeps names
  apart. `README.md:13` counts businesses, services, blocks and working hours among
  what the idempotency layer protects, but only `POST /bookings` has
  `idempotent: true` (`bookings.controller.ts:34`); a repeated request for one of the others
  meets the checks of its handler and no cache.
- The race that `SecondBookingNeedsRace` allows is real too: two requests
  with one key in flight together both miss the cache and both run, and book twice as
  in `FindDoubleBooking` ("no double-writes under concurrency", `docs/mvp.md:42`).
  Without a race a second booking under a key is for another time (the interceptor does
  not compare bodies) and needs the entry to be gone or never stored.
- `SignedOutStaysOut`, `TokenRefreshesOnce` and `LastCookiesWork` allow what a request of the
  same user does that runs beside: a refresh in flight stores its hash after a sign-out has
  cleared the old one, two refreshes read one hash, an answer is lost after the update.
- `SignedOutStaysOut` speaks of refreshes. The access token lives on after a sign-out until it
  expires, because `JwtStrategy` never looks at the stored hash:
  `test/e2e/auth.e2e.spec.ts:160-184` wants 401 of `POST /businesses` then, but does not await
  its last request, so that it passes.
- A booking whose `queue.add` fails, or whose process dies before it, exists and may
  never be notified (when Redis did the add before it was rejected, it is). The client was
  told of an error or nothing.
  `CreatedIsNotified` is about clients that were told "created".
- `BookedIsNotBlamed` has one exception, and the code has it: a connection that PostgreSQL
  closes under the commit (Prisma's P1017) is a known error without a case of its own, so
  the filter answers 400 "Invalid request" for a booking that stands. So is the conflict of
  two serializable weeks (P2034): the loser of a race is told that its request is invalid.
- Other documents and routes disagree where no property of these models can show it:
  `README.md:161` speaks of stricter limits on auth routes, which have the global ones;
  `README.md:121` and `:122` speak of cancellations, and no route cancels; the API
  document of `GET /businesses/:id/blocks` names `startDate` and `endDate`
  (`businesses.controller.ts:193`), its DTO takes `from` and `to`.

## 4. Fairness

`Scheduling!Fairness` is weak fairness of each request's `*Move`: the handler's
steps **without** its failures, so nothing is assumed to fail and no property
holds because an error ended a request. It is justified by the event loop, which
runs every continuation it was given, and by the database, which answers each
query (Prisma's transactions have a timeout of 10 s, `bookings.service.ts`). An add is
answered or rejected in the end: the queue's connection is BullMQ's default one
(`queue.module.ts` gives no more than its address), on which ioredis gives a command up after 20
retries; `LoseReply` is no step of `*Move`, and it is bounded.
`Lost(w) /\ FailSchedule(w)` is part of `ScheduleMove` because the abort of the
losing transaction is PostgreSQL's doing and does happen. Arrival of requests has
no fairness. `RequestsSettle` is therefore the claim that the handlers have
no path that neither answers nor throws.

`FairGateway` is `GatewaySpec` with the same fairness: `Gateway` adds no step that a handler
waits for.

`BookingApi!Fairness` is weak fairness of each handler's step and of each job's
`WorkerStep`: the worker and its stalled checker poll as long as the process
lives, and a restart is immediate. With one worker at a time, weak fairness per
job suffices because a job is added once, put back at most `MaxStalledCount` times, and jobs
are finite in number; no fairness is assumed of expiry, of restarts or of losses of Redis.

## 5. Findings

Six statements of the repository's documents or messages that the code does not
keep. Each is a run of its own with one property.

1. **`FindDoubleBooking`**: "`CONFIRMED` bookings cannot overlap for the same
   business; enforced via serializable transaction" (`README.md:117`). The
   transaction holds only the insert. Two requests that both read before either
   inserts both book.
2. **`FindForeignConflict`**: the same sentence, "for the same business".
   `getOverlaps` has no `businessId`, so any business's booking refuses every
   other's.
3. **`FindBlockHours`**: "block timespan is outside working hours"
   (`blocks-overlap.validator.ts:38`). Any row of the week is taken and minutes of
   the day are compared: a block on a closed day passes. A test relies on it:
   `test/e2e/availability-blocks.e2e.spec.ts:26-38` and `:94-103` expect 201 for a block on
   2026-06-28, a Sunday, at a business that opens on day 0, Monday.
4. **`FindForgottenKey`**: "Subsequent requests with the same key return the
   cached response" from a "(Redis-backed)" cache (`README.md:137`). The entry
   lives 86.4 s (`60 * 60 * 24` milliseconds) in the process's memory. A later
   repeat is refused as a conflict with its own booking.
5. **`FindRefresh`**: "Refresh tokens (requires Refresh cookie)", 401 "Refresh token
   invalid/expired" (`auth.controller.ts:60`, `:62`). `auth: true` adds the
   access-token guard to the route, so a refresh is refused once the access token has
   expired, which is when it is needed.
6. **`FindAgenda`**: "Each business stores its timezone; all scheduling logic is
   timezone-aware via Luxon" (`README.md:123`). An owner's list of a date starts at the
   server's midnight (`DateTime.fromISO(date)` without a zone, then `setZone`, which keeps
   the instant), so away from UTC a booking of that day is missing and one of a neighbouring
   day is listed. `getAvailability` reads the same kind of date in the business's zone
   (`services.service.ts:73`). Even from the right midnight the end would be right only
   because `plus` counts days on the wall clock; from the wrong one, days on which the clock
   moves also leave gaps or overlap.

## 6. Proofs

The theorems are about `Scheduling` and the modules it extends, `Gateway` and `Availability`
on top of it, `BookingApi`, and `Catalog` with `Sessions`: for every catalogue, every set of
requests, users and keys, any bodies, any length of the day and any bound. They use the
named assumptions on constants, which TLC evaluates in each run:

- `DayLengthAssumption`, `MaxStalledAssumption`, `MaxAddsAssumption`,
  `ResolutionAssumption`: bounds are numbers;
- `CatalogAssumption`, `HoursAssumption`: the tables refer to one another (every business
  has an owner, each first row of hours a business), opening and closing are minutes of a
  day, and a row of hours is the first week's or some request's;
- `CallsAssumption`, `BlockCallsAssumption`, `ScheduleCallsAssumption`,
  `SlotCallsAssumption`, `SubmissionsAssumption`, `SessionAssumption`,
  `CatalogCallsAssumption`: what a request carries has passed validation, and the value
  that stands for "none" is none of them;
- `RequestsAssumption`: requests have different names;
- `BodiesAssumption`, for `Gateway`: what `JSON.parse` can return. The theorems about `Gateway`
  use nothing of the three assumptions on calls: `PipesEnsureCalls` derives from the DTOs
  that each call is sound.

The theorems about hours on a clock have one hypothesis more, `ZonesAreOrdinary`: no clock
is more than a day from UTC, and within a day of any moment it is moved at most once,
between two offsets of which one is that of the moment of the call. Zones are like that
(UTC-12 to UTC+14, changes months apart, between standard and summer time); `MovingZones`
satisfies it with both directions of change, where `AtMinute` does meet skipped and
repeated times. Its last part leaves out a zone whose standard offset is
changed by law between the call and the day booked. Nothing in the code depends on the
hypothesis, so it is not an assumption on `UtcOffset`, and the other theorems do without.

| theorem | statement |
|---|---|
| `SchedulingProofs!TypeCorrect` | `Spec => []TypeOK` |
| `SchedulingProofs!AnswersHold` | `Spec => []AnswersAreTrue` |
| `RaceProofs!DoubleBookingNeedsRace` | `Spec => []OverlapNeedsRace` |
| `RaceProofs!BlocksNeedRace` | `Spec => []BlockOverlapNeedsRace` |
| `OwnerProofs!OnlyOwnersWrite` | `Spec => OwnersOnly`, an action property |
| `OwnerProofs!WeeksAreWhole` | `Spec => []ScheduleIsOneRequest` |
| `SerialProofs!SerialNoDoubleBooking` | `SerialSpec => []NoDoubleBooking` |
| `SerialProofs!SerialBlocksDisjoint` | `SerialSpec => []BlocksDisjoint` |
| `SerialProofs!SerialRefinement` | `SerialSpec => LedgerSpec` |
| `SlotProofs!BookedInsideHours` | ordinary zones: `Spec => []InsideCheckedHours` |
| `SlotProofs!SerialInsideSchedule` | ordinary zones: `SerialSpec => ConfirmedInsideSchedule`, an action property |
| `SlotProofs!SlotsOnlyRead` | `AvailabilitySpec => Spec` |
| `SlotProofs!OffersFitHours` | ordinary zones: `AvailabilitySpec => []OffersInsideHours` |
| `SlotProofs!OffersCanBeBooked` | ordinary zones: `AvailabilitySpec => []OfferedIsBookable` |
| `SlotProofs!BookableWasOffered` | ordinary zones: `AvailabilitySpec => []BookableIsOffered` |
| `GatewayProofs!PipesEnsureCalls` | every body taken becomes a sound call: what `Scheduling` assumes of one |
| `GatewayProofs!GatewayImplements` | `GatewaySpec => EngineSpec`, for any bodies |
| `GatewayProofs!StoredAsSentHolds` | `GatewaySpec => []StoredAsSent` |
| `ApiProofs!ApiTypeCorrect` | `Spec => []TypeOK` (of `BookingApi`, as the next five) |
| `ApiProofs!BookedNotBlamed` | `Spec => []BookedIsNotBlamed` |
| `ApiProofs!ReplaysHold` | `Spec => []ReplaysAreTrue` |
| `ApiProofs!KeptKeysReplay` | `Spec => []ReplayedWhileKept` |
| `ApiProofs!SecondBookings` | `Spec => []SecondBookingNeedsRace` |
| `ApiProofs!NotifiedOnce` | `Spec => []NotifiedOncePerLoss` |
| `PlatformProofs!PlatformTypeCorrect` | `PlatformSpec => []PlatformTypeOK` |
| `PlatformProofs!SignOutHolds` | `PlatformSpec => []SignedOutStaysOut` |
| `PlatformProofs!RefreshOnce` | `PlatformSpec => []TokenRefreshesOnce` |
| `PlatformProofs!LastCookiesHold` | `PlatformSpec => []LastCookiesWork` |
| `PlatformProofs!CatalogOwned` | `PlatformSpec => []CatalogIsOwned` |
| `PlatformProofs!NamesNeedRace` | `PlatformSpec => []SameNameNeedsRace` |

The inductive invariants behind them are theorems too (`AlwaysTypeInv`, `AlwaysAnswerInv`,
`AlwaysRaceInv`, `AlwaysOwnerInv`, `AlwaysSightInv`, `AlwaysHoursStand`, `AlwaysSlotInv`,
`AlwaysApiInv`, `AlwaysCacheInv`, `AlwaysAccountInv`, `AlwaysSessionInv`, `AlwaysCatalogInv`).

**The argument.** None of the properties is inductive as it stands.

*The engine.*

- `TypeInv == TypeOK /\ Progress`. That an inserted row names a business
  that exists rests on checks made awaits before; `Progress` says what each handler
  has established in each phase. Everything else is relative to `TypeInv`.
- `AnswerInv` adds to `AnswersAreTrue` from which phase on a request's row and job
  exist.
- `RaceInv` adds three facts to the two race properties: rows in the tables come
  from requests past their insert; a row a handler saw is one of those, so a row
  inserted later was not seen; and a handler about to insert saw nothing that
  overlaps its time. The insert then creates only overlaps with unseen rows, and
  the older row's owner cannot have seen the new one.
- `OwnerInv`: a block keeps its business while it exists and a sent request keeps
  its body, so the guard's verdict is still true at the write. `OnlyOwnersWrite`
  then looks at one step for each handler.
- `WeekInv`: a request that was not sent has no week. The serializable check
  (`HoursOf(..) = snapshot[w]`) makes the commit replace all of the old week.
- `SerialInv`: with at most one request in flight (`AtMostOne`), what it saw is all
  there is (`SawAll`); with `RaceInv` the insert finds the time free. The
  refinement follows: an insert is a `Confirm`, every other step stutters.
  `AtMostOne` needs a lemma per handler that each step is of the request in flight
  or starts one.

*Hours and slots* (`SlotProofs`).

- The clock: if it comes to a wall minute once and is moved at most once around it, the
  instant Luxon computes is the turning point: earlier the clock shows less, from then on
  that minute or more (`ClockTurns`). It does not depend on the moment of the call
  (`ClockAgrees`), so two handlers that ask about one day have one opening and one closing
  (`ClearInstants`), and the instants between lie inside the hours on the clock, on the
  day asked about (`ClearDay`).
- `SightInv`: a request goes on exactly when what it saw leaves room for it and the
  instants of its hours contain it; and its answer says what it saw. `InsideCheckedHours`
  is the first half, read with the clock lemmas.
- `HoursStand`, for `SerialSpec`: the hours a handler holds are in the schedule until it
  inserts: a week that commits in between would be a second request in flight.
- `SlotInv`: an offer is what `GenerateCandidates` makes of the rows that were there when
  it was computed. `SeesLater` relates it to each request that comes after: that request
  sees all bookings of the offer (none is ever deleted), and if it finds no hours, those
  of the offer have gone. The second needs `HoursAreSettled`: a row of
  hours is written once and only by its request, so hours that are gone do not
  return. The two properties then compare the conditions of the
  loop in `getAvailability` with those of `create()`, row by row; `ClearInstants` makes
  the hours comparable, because the two handlers ask at different moments.

*The route with its interceptor* (`ApiProofs`).

- `ApiInv`: a request whose row is in the table waits, was told "created", lost its
  process, or met one of `LateExceptions`, those the insert's acknowledgement and
  `queue.add` can throw. `ErrorStatuses` computes the filter's verdict on each:
  `BookedIsNotBlamed` with its one exception.
- `CacheInv`: whoever was answered before a request arrived is settled, and the key of one
  told "created" has an entry until it is lost (`StoredWhileKept`).
- `JobInv` is an account (`Accounts`): of each booking, the messages that went out, its live
  jobs (waiting, taken or orphaned: each may send once more) and one for an add still to come
  are together no more than one plus the losses there were. The add that is told of turns the
  one to come into a job, processing turns a job into a message, and only a loss adds
  anything: a job to an add that is sent again, or a job that has sent and is to be run again; one
  per loss, because the worker holds at most one (`OneHeld`). `LiveGrows`, `LiveKept` and
  `LiveShrinks` count the live jobs. `JobOK` bounds a job's stalls by the losses.
- `SeenInv`: a request sees every row of those answered before it arrived, so a repeat finds
  its first booking; `EarlierIsClear` is what the insert keeps.

*Accounts and catalogue* (`PlatformProofs`). A step changes one request
(`OnlyOf`), and `StepEffect` reduces the actions to two kinds, an arrival and a move.

- `AccountInv`: what each phase has found, and that who was answered before another
  arrived stays answered.
- `SessionInv`: the hash is of a token of its own user (`OwnHash`); after a request
  succeeded the hash is empty or was stored by one not answered before it
  (`StoredSince`), which relates a sign-out or a refresh to any later state.
- `CatalogInv`: rows are those of finished requests, and a request about to insert has its
  role and saw no row of its name among those answered before it (`OnTheWay`).

*The pipes* (`GatewayProofs`).

- Aligned minutes are whole ticks in the same order, others lie between two of them
  (`TickBounds`, `TickScales`, `TickOrder`, `TickOfDay`), so each DTO with what its handler does
  gives a sound call (`BookingCallIsSound`, `BlockCallIsSound`, `WeekCallIsSound`; for a week,
  one without a null entry has days that are whole and apart, `WholeWeek`, and one with a null
  entry is broken). `GatewayImplements` then maps each route to the start of its handler and
  needs no hypothesis on the bodies.
- `RoutesImplementScheduling`, its corollary: when `Calls`, `BlockCalls` and `ScheduleCalls`
  contain what the taken bodies become (`CallsCoverBodies`), `GatewaySpec => Spec`, so that what
  is proved of `Scheduling` holds behind the routes.
- `GatewayInv` keeps the body beside the call it became (`CarriedOK`), and says of rows which
  call wrote them (`BookingRowsOK`, `BlockRowsOK`, `HoursOK`): a row of hours is an initial one or
  of a week that was not broken, a block passed the hours check of a row that was sent.
  `StoredAsSent` reads those in minutes.

**Only model-checked.** The two liveness properties, `RequestsSettle` and
`CreatedIsNotified`, which the prover does not do under fairness, and the violations of
section 5. `MovingZones` as an instance of `ZonesAreOrdinary` is checked by TLC on the days of
the runs.

## 7. What is left out, and why

- *Statuses outside `POST /bookings`*: in `Scheduling`, `Sessions` and `Catalog` an error is
  one answer. Two services there catch and hide what failed: `verifyUser` and its like turn any
  failure of the database into 401 (`auth.service.ts:155`), `updateRole` into 404
  (`businesses.service.ts:130`).
- *Passwords, hashes, cookie flags, e-mail normalisation*: a password is right or wrong,
  a token is its user, its kind and its second.
- *Other DTOs* (accounts, businesses, services, queries): bounds of single fields. The strings
  themselves: a value is what the validators and the handlers read from it. `reason` of a
  block, which nothing decides on.
- *Other reads* (lists and single rows), *response transformation*, *health checks*: they
  change no state and decide nothing for others.
- *Rate limiting*: the counters are `@nestjs/throttler`'s, whose source is not here, its
  windows are configured, and the guard only names the client's address.
- *Several processes*: one deployment, as the docker files describe. The
  interleavings of bookings and blocks would be the same, and the cache, which is
  per process, would miss more often.
- *The failed-over database and Redis*: they keep what they acknowledged.

## 8. Plan

1. Done: the modules of section 2, the runs of section 3, the theorems of section 6.
   Every safety and action property of a run that is expected to pass is proved.
2. Refinements still worth stating: a queue that promises each job at least once, for
   `Notifications`; a map from users to their one session, for `Sessions`. Their safety is
   what `NotifiedOncePerLoss` and the three session properties say already.
3. Proofs behind the routes: `BookingApi` and `Scheduling` have the same handler
   (`Bookings`) and are proved apart; a refinement that hides the interceptor would carry
   `OverlapNeedsRace` over, with a restart as the failure of all handlers at once.
