# Verification of the bus booking backend

TLA+ models of the bus booking backend (Express, Mongoose, Redis, BullMQ), the TLC runs that
check them on small instances, and TLAPS proofs of the properties that matter most for every
instance. Source paths are relative to the repository's `src/` directory.

1. [The system](#1-the-system)
2. [What is modelled, and how](#2-what-is-modelled-and-how)
3. [The runs](#3-the-runs)
4. [The proofs](#4-the-proofs)
5. [What the work found](#5-what-the-work-found)
6. [Not modelled](#6-not-modelled)
7. [Plan](#7-plan)

## 1. The system

One Node process serves HTTP requests. A request is a chain of asynchronous calls: between two
`await`s other requests run. The business data is in MongoDB (no multi-document transactions are
used), ephemeral data in Redis, deferred work in BullMQ queues.

| Component | State it keeps | Operations that change state | What makes it correct |
|---|---|---|---|
| Booking service `modules/booking` | `Booking` documents: passengers, fare, status `pending`/`confirmed`/`cancelled`, payment | `createBooking`, `confirmBooking`, `cancelBooking` | no seat sold twice; only paid bookings confirmed; a booking's seats and its status agree; a cancelled booking stays cancelled |
| Payment service `modules/payment` | `Payment` documents (unique per booking): status, `refunds[]`, `totalRefunded` | `initiatePayment`, `verifyPayment`, `initiateRefund` | a booking is paid at most once; a payment that was taken settles its booking; refunds stay within the amount |
| Bus service `modules/bus` | `Bus` documents with the embedded array of seats; cached copies | `create`, `update`, `remove`; `search` and `getById` fill the cache | a held or sold seat is not offered; the cache does not outlive what it copies |
| Seat lock and cache `core/redis/redis.service.ts` | `seat_lock:*`, `cache:*`, `otp:*`, `sess:*` keys, all with a time to live | `lockSeats`, `unlockSeats`, `cacheSet`, `cacheDel`, `cacheDelPattern`, `setOtp`, `deleteOtp` | mutual exclusion on seats; invalidation |
| Authentication `modules/auth` | `User` documents: role, hashed refresh tokens, email; OTP keys | `sendOtp`, `verifyOtp`, `completeRegistration`, `adminLogin`, `operatorLogin`, `logout`, `logoutAllDevices`, `createAdminUser`, `refreshAccessToken`; the nightly cleaning | a phone is registered once; roles are granted only by those who may; a valid token stays until its logout |
| Users `modules/user` | the same documents | `updateProfile`, `deactivateUser`, `activateUser` | an email belongs to one account; somebody stays who can administer |
| Administration `modules/admin` | the review of a driver in the same documents | `updateDriverVerificationStatus` | what a driver is shown as agrees with the verdict |
| Job queues and workers `jobs` | BullMQ jobs with attempts and backoff; invoice files, `ticketUrl`; mails; cached daily analytics | add, take, complete, fail, retry, stall; the processors; the midnight job | every queued job is settled; a done one was carried out; repeats do no harm |
| Event bus and socket gateway `core/events`, `socket` | connections and their rooms | connect, disconnect, `join:bus`, `leave:bus`, emit | an update reaches the sockets it is for, and is true |
| Notifications `modules/notification` | `Notification` documents | `create`, `markAsRead`, `delete`, expiry | |
| Grievances, verification, drivers, plans | their documents | not mounted in `routes/index.ts`: no request reaches them | |
| Tenants, middleware, OpenAPI, logging, configuration, start-up | none of interest | | |

How they interact: `createBooking` reads the bus, takes the seat lock, marks the seats in the bus
document and inserts the booking; `verifyPayment` saves the payment and then *calls*
`confirmBooking`, which writes the bus, the booking, Redis and a queue; `cancelBooking` and the
operator's `update`/`remove` write the same bus document without looking at anyone else. Nothing
but the process itself ties the calls of a request together: when it stops, the rest of the
request is lost, and no job or start-up code resumes it. All of these writes leave the cached
copies of the bus alone; only the bus service's own writes invalidate them. The services end by
emitting events, which the socket gateway sends to the sockets of one user, and by adding jobs,
which workers in the same process run later, at least once. Authentication, users and
administration share the `User` documents and nothing else with the rest: a request is
authenticated by reading the account again.

The hard behaviours are therefore: the interleaving of requests at their awaits; checks made on a
copy that is stale when the write happens; one call of several failing; the process stopping
between two calls; a Redis key that expires while the document it protects does not; a cache filled
with what a write has overtaken; a job that is run again while its first run still goes on; events
that overtake each other. The
hazards of `PROJECT.json` list them with their lines.

## 2. What is modelled, and how

| Module | Models | Lines of the code |
|---|---|---|
| `BookingState` | constants, documents, the slots of requests in flight, helpers | the schemas `bus.model.ts`, `booking.model.ts`, `payment.model.ts`, and what Mongoose and BullMQ promise |
| `SeatLock` | `lockSeats`, `unlockSeats`, expiry of the key | `core/redis/redis.service.ts` |
| `BookingService` | `createBooking`, `confirmBooking`, `cancelBooking` | `modules/booking/booking.service.ts` |
| `PaymentService` | `initiatePayment`, `verifyPayment`, `initiateRefund` | `modules/payment/payment.service.ts` |
| `BusService` | `update` and `remove` of a bus on sale | `modules/bus/bus.service.ts` |
| `SeatBooking` | the composition: failures, `Next`, `Spec`, `FairSpec`, all properties, the refinement | the above together |
| `BookingLifecycle` | abstract: what the services promise of one booking | |
| `MCSeatBooking` | the instance for TLC (symmetry) | |
| `SeatBookingProofs`, `SequentialProofs` | theorems and proofs about `SeatBooking`, the second where one request follows the other | |
| `BusCache` | the read side of the bus service: `getById`, `search`, `create`, `update`, `remove` and the cache | `modules/bus/bus.service.ts`, `core/redis/redis.service.ts` |
| `Accounts` | constants, the `User` documents, OTP keys, requests, time as the age of tokens | `user.model.ts`, `jwt.strategy.ts`, `auth.middleware.ts` |
| `AuthService` | OTP, logins, tokens, staff accounts, registration, the nightly cleaning | `modules/auth/auth.service.ts`, `auth.repository.ts`, `jobs/scheduler.ts` |
| `UserService` | profiles, suspension, review of drivers | `modules/user/user.service.ts`, `modules/admin/admin.service.ts` |
| `AccountSystem` | the composition of the three, failures, properties, the refinement | the above together |
| `AccountRegister` | abstract: who is registered with which role, by whom | |
| `BusCacheProofs`, `AccountProofs` | theorems and proofs about `BusCache` and `AccountSystem` | |
| `DeliveryState` | constants and state of jobs, files, mails, sockets, notifications | `jobs/queues/*.ts`, `booking.model.ts`, `notification.model.ts` |
| `JobQueue` | the queues as BullMQ runs them: take, complete, fail, retry, stall | `jobs/queues/*.ts`, the options in `jobs/workers/*.ts`, `server.ts` |
| `Workers` | the processors of email, invoice and analytics; the midnight job | `jobs/workers/*.ts`, `jobs/scheduler.ts` |
| `SocketGateway` | connections, rooms, emission; notifications | `socket/socket.gateway.ts`, `core/events/event.bus.ts`, `modules/notification` |
| `Delivery` | the composition: the tails of booking and payment requests, workers, sockets, failures | `booking.service.ts`, `payment.service.ts` and the above |
| `AtLeastOnce` | abstract: what the queues promise of a job | |
| `DeliveryProofs` | what every step of `Delivery` preserves, and lemmas about its steps that the next three modules cite | |
| `QueueProofs`, `TicketProofs`, `GatewayProofs` | theorems and proofs about mails, reports and the promise of the queues; about the files of tickets; about what sockets hear | |
| `MCBusCache`, `MCAccountSystem`, `MCDelivery` | the instances for TLC | |

### Bookings and payments

**A request is a slot of `handler`.** `pc` names the awaited call it makes next; `user`, `seats`,
`booking`, `payment`, `seen`, `amount` are the locals it carries across the awaits. One action is
one awaited call together with the synchronous code that runs when it answers, so two requests
interleave exactly where the code lets them. A request whose first read fails its checks is
answered and changes nothing: it has no action. `Answer` ends a request, with a result or an error.

| Code | Actions, in order |
|---|---|
| `createBooking` | `CreateRead`, `GetLock`, `SetLock` (or `SetLockUnnoticedError`), `MarkLocked`, `InsertBooking` (or `InsertBookingUnanswered`), `EmailCreated`; on an error of the two writes `UnlockFailed` |
| `initiatePayment` | `InitiateRead`, `FindExisting`, `InsertPayment` |
| `verifyPayment` with `confirmBooking` | `VerifyRead`, `SavePaid`, `ConfirmRead`, `ConfirmBus`, `MarkBooked`, `SetConfirmed`, `UnlockConfirmed`, `EmailTicket`, `QueueInvoice`, `EmailReceipt` |
| `cancelBooking` (owner and administrator) | `CancelRead`, `FreeSeats`, `SetCancelled`, `UnlockCancelled` |
| `initiateRefund` | `RefundRead`, `SaveRefund` |
| `BusService.update`, `remove` | `UpdateBus`, `RemoveBus`, one action each: their first read changes no decision of the second call |
| failures | `CallFails` (an awaited call rejects), `Crash` (the process stops, every request is gone), `Expire` (a lock's time to live passes) |

Abstractions, each on purpose:

- *One bus.* Nothing in these services relates two buses. Its seats are the indices of the `seats`
  array; seat numbers are taken to be distinct. `UpdateBus` replaces the seats' statuses and
  drops `bookedByUserId`, and keeps the number of seats.
- `"delayed"` stands for every bus status but `active`, `"removed"` for a deleted document.
- *Fares.* A booking costs `Fare`; a payment's refund entries are represented by their sum
  `refunds`, beside the stored `totalRefunded`. `paid` stands for `paidAt` being set.
- *Ids* are drawn by the process before the insert, as Mongoose does, and are fresh: no two
  requests draw the same.
- *Who asks.* The ownership checks reduce the requests to those that pass them; the
  administrator's cancellation has the same effect as the owner's.
- `verifyPayment` compares nothing with a gateway: `isSuccess` is the constant `true`, and the
  branch for failed payments cannot be reached. It is not modelled.
- *Failing calls* have no effect. A write that takes effect and loses its answer leaves the
  documents as the write followed by a failure of the next call, so it needs no action, except
  where the code goes on differently: `Booking.create`, whose error makes the catch block delete
  the Redis key of a booking that exists, is `InsertBookingUnanswered`.
- `pipeline.exec()` resolves even when its commands failed and `lockSeats` does not look: this is
  `SetLockUnnoticedError`.
- *Time.* A lock expires at any moment; the ten minutes of its time to live are not counted.
- `jobs` is the set of jobs ever added; the same job added twice counts once.
- Event-bus emissions are synchronous and change nothing stored; they are left out.

**Constants.** `Ops` selects the requests that are made and `Faults` the failures that happen, so
that a run or a theorem can say under which of them a property holds. `BookingIds`, `PaymentIds`
and `Handlers` bound the two collections and the concurrency, `RefundAmounts` the amounts,
`OperatorStatuses` the seat statuses an operator sends. The assumptions on them are named in
`BookingState`.

**Fairness** (`FairSpec`). Weak fairness of every request's `Proceed`: the event loop runs the
continuation of an answered call, and in the runs that use it calls do answer. Weak fairness of
`Expire`: Redis removes expired keys. No fairness of arrivals: nobody must pay, cancel or retry.

**The abstract specification.** `BookingLifecycle` knows of each booking its stage, whether it was
paid and whether a ticket or an invoice was issued. Its actions are `Create`, `Pay` (at most
once), `Confirm` (only when paid), `Cancel`, `Issue` (only when paid, and only once the booking
has left `pending`). `SeatBooking` instantiates it with
`stage <- Stage`, `paid <- Paid`, `issued <- Issued`; `LifecycleSpec` is the instance's
specification. `Confirm` is also allowed from `cancelled`, since the code does that (see
`late_confirm`); a `cancelled` booking never returns to `pending`.

### The bus cache

`BusCache` models the same bus service from the side of its readers. A bus is a status and a
version: every write of the document, the booking service's writes of seats included, makes a new
version. A cache entry is the version it was read at; a page of `search` is what `countDocuments`
and `find` returned, one after the other. A request is again a slot of `handler`.

| Code | Actions, in order |
|---|---|
| `getById` | `GetById` (a miss), `GetRead`, `GetFill` |
| `search` | `Search` (a miss), `SearchCount`, `SearchFind`, `SearchFill` |
| `create` | `CreateBus`, `ListPages`, `DelPages` |
| `update` | `UpdateRead`, `UpdateWrite`, `DelBus`, `ListPages`, `DelPages` |
| `remove` | `RemoveBus`, `DelBus`, `ListPages`, `DelPages` |
| around it | `SeatWrite` (createBooking, confirmBooking, cancelBooking), `ExpireBus`, `ExpirePage`, `CallFails`, `Crash` |

A hit answers at once and changes nothing: no action. The queries are all satisfied by every active
bus, and a result fits on one page. Who may update a bus is left out: a refused update is one whose
call fails.

`BusCovered` and `PageCovered` say when an entry is in order: absent, current, or about to be deleted
by a writer that is under way. `BusStaysCovered` and `PageStaysCovered` are about the step at which
that ends. It ends in three ways only: a reader that was overtaken by a write fills the cache
afterwards, the booking service writes seats, or the invalidation is lost to a failing call or a
crash. `docs/04-infrastructure/redis-design.md:67` knows none of the three; the time to live bounds them all, which
is what the two liveness properties say.

### Accounts

An account is its phone, since the index on `phone` is unique and nothing changes it. A refresh token
is a JWT of the user and the second it was signed, and its hash is stored: two logins in one second
store the same value, so a token is its age. `Tick` lets all tokens grow older; nothing older than
`Retention` (the seven days of `scheduler.ts`) needs to be told apart, so there is no clock to bound.
`RefreshLife` is `REFRESH_EXPIRES_IN`, assumed to be at most those seven days.

| Code | Actions, in order |
|---|---|
| `sendOtp` | `SendOtp`; later `ExpireOtp` |
| `verifyOtp` | `VerifyOtp`, `DeleteOtp`, `FindByPhone`, `CreateUser` (a first login), `AddToken`, `ClearOtp` |
| `adminLogin`, `operatorLogin` | `AdminLogin` or `OperatorLogin`, `ComparePassword`, `AddToken` |
| `logout`, `logoutAllDevices` | `Logout`, `PullToken`; `LogoutAllDevices`, `ClearTokens` |
| `createAdminUser` | `CreateAdmin`, `FindCreator`, `SaveAdmin` |
| `completeRegistration`, `updateProfile` | `CompleteRegistration` or `UpdateProfile`, `CheckEmail`, `WriteProfile` |
| `deactivateUser`, `activateUser` | `DeactivateUser` or `ActivateUser`, `SetActivation` |
| `updateDriverVerificationStatus` | `ReviewDriver`, `FindDriver`, `SaveReview` |
| the nightly job | `CleanExpiredTokens` |
| around them | `Tick`, `CallFails`, `Crash` |

- *`save()` of a loaded document* writes the paths whose value differs from the copy: `SaveReview`
  compares with `seen`. `updateOne` and `findByIdAndUpdate` write what they are given.
- *Passwords* match or not; names, devices and tenants are left out.
- *`refreshAccessToken`* loads the account without `refreshTokens` (`select: false`) and fails on it
  before its first write: it changes nothing and has no action.
- *`Founders`* are the super administrators that are in the database from the start: no operation
  creates the first one.
- *`raced`* is history: another request took the email after this one had found it free.
- *`Workloads`* are the sets of operations that are asked for together, one of which a behaviour
  chooses at its start. They bound the instance and no action looks at more than its own name.
- *One OTP at a time* is stored, for one phone; `MaxTokens` bounds the tokens. Both are bounds of the
  instance.

`AccountRegister` is the abstract specification: of each phone a role and who granted it. `SignUp`
makes a free phone a passenger's; `Grant` lets an account that may create the role register a free
phone. Nothing else ever changes, so two registrations of one phone cannot both succeed, a role is
never raised, and every chain of creations obeys the rules at every link.

### Delivery

`Delivery` starts where `SeatBooking` leaves a request: after its main write. Of each booking it keeps
the tails of the requests about it: of `createBooking`, of the first and a second verification of its
payment (they overlap, or a refund came in between), and of one cancellation at a time.

| Code | Actions, in order |
|---|---|
| `createBooking` | `CreateBooking`, `AddCreated` |
| `verifyPayment` with `confirmBooking` | `ConfirmBooking`, `SetConfirmed`, `AnnounceConfirmed`, `AddTicket`, `AddInvoice`, `AddReceipt` |
| `cancelBooking` | `CancelBooking`, `SetCancelled`, `AnnounceCancelled` |
| BullMQ | `Take`, `Complete`, `Retry`, `LoseLock`, `Stalled` |
| `email.worker.ts` | `FindUser`, `FindBooking`, `SendMail` (or `SendUnanswered`) |
| `invoice.worker.ts` | `Load`, `OpenFile`, `WriteSome` (any number of times), `WriteFile`, `SaveUrl` (or `SaveUrlUnanswered`) |
| `analytics.worker.ts` | `Aggregate`, `CacheReport` (or `CacheReportUnanswered`); jobs come from `Midnight`, bookings from `BookToday` |
| sockets | `Connect`, `Disconnect`, `JoinBus`, `LeaveBus` |
| notifications | `CreateNotice`, `MarkAsRead`, `RemoveNotice` |
| addresses | `GiveAddress`, `DropAddress` (an empty email clears the address) |
| failures | `RunFails`, `Unanswered` (one of the three above), `TailFails`, `MidnightFails`, `LoseLock`, `Crash` |

- *BullMQ* is external; what is assumed of it is in `JobQueue`: a job is taken with a lock by one run;
  a run that throws uses up one attempt and the job is retried after its backoff while attempts are
  left (3, 3 and 2); an active job whose lock is gone waits again once and fails the second time
  (`maxStalledCount` 1, its default); a run that lost its lock can neither complete nor fail the job,
  and goes on to its end, in its worker's place.
- *A held-up processor* (`LoseLock`) is one whose event loop or file system stands still for longer
  than the lock lasts. It is the failure the at-least-once delivery is really about, and named
  separately from the others, since some properties hold only without it.
- *Mails* are counted when they are handed to the mail server. `due` is history: since the job was
  added there was always an address and a server, so the job had something to do.
- *Lost answers.* The last call of each processor writes outside the queue: the mail server takes the
  mail, `findByIdAndUpdate` sets `ticketUrl`, `SETEX` stores the report. Each may take effect and reject
  all the same; the attempt fails then, and the job is run again. The calls before it only read, or
  write the file, which the next attempt truncates.
- *Files.* `createWriteStream` truncates a file, which is torn until a stream has written all of it.
  The worker runs two jobs at once, and a held-up run goes on, so several streams can be open on one
  file, each at its own offset: whatever the others have written, a stream may tear it again
  (`WriteSome`), and when it ends the file is whole or mixed (`WriteFile`), as the offsets happen to
  fall. `shared` says that another stream was open when the file was opened last; if none was, the
  bytes are those of one stream and the file is whole when it ends. `url` holds the verifications
  whose job has set `ticketUrl`; `unanswered` is history: an update that set it was not answered.
- *One process.* `server.ts` starts every worker once, in the process of the API, and the model has
  these workers. `docs/07-deployment/deployment.md:101` allows several instances; then `concurrency` holds
  for each of them, and `ReportsNeverRegress`, which needs one analytics run at a time, is not shown.
- *Days* are UTC days, and `made` counts the bookings of each; the report of a day is its count.
- *Events* are emitted and sent to the sockets of a room in one step, as `EventEmitter` does. A socket
  keeps what it heard last of each booking. `undisturbed` is history: the last change of the status
  overlapped with no other one that was still to be announced.
- *`Owner`* gives each booking's user, `Admins` those who may cancel any booking.

`AtLeastOnce` is the abstract specification of a set of jobs: absent, accepted, done or failed, with
those carried out and those that have nothing to do. `Settle` makes an accepted job done only when it
was carried out or had nothing to do. `Delivery` implements it for all jobs about bookings
(`PromisedState`, `Idle` and `Done` are the refinement mapping): carried out means that the mail was
handed over, or `ticketUrl` was set by this very job.

`DeliveryInv` is the inductive invariant in named parts: `JobSound` (attempts and stalls stay within
their limits, a job not added is blank), `RunSound` (a run works on a job of its own queue, and holds a lock
only while the job is active), `LocksSound` (a lock has one holder) and `TailSound` (the tail of a
request has added no job that comes after the point it is at).

## 3. The runs

The runs of one line of the tables are of `MCSeatBooking` unless they name another module.
`CHECK_DEADLOCK FALSE` everywhere: when every id of the bounded collections is used and no one makes
a request, the system rests.

| Run | Instance | Checks | States |
|---|---|---|---|
| `concurrent` | 2 requests at a time, 2 bookings, 2 payments, 2 seats; create, initiate, verify, cancel, operator's updates | `BookingInv`, `TypeOK`, `ConfirmedIsPaid`, `BookedSeatIsPaid`, `LifecycleSpec`, `WithdrawnIsFinal` | 344 442 |
| `failures` | 2 requests at a time, 1 booking, 1 payment, 1 seat; every operation and every failure | `BookingInv`, `TotalNotOverstated`, `LifecycleSpec`, `OwedIsAttended` | 205 740 |
| `progress` | 2 requests at a time, 2 bookings, 2 seats, under `FairSpec`, no cancellation, no failure | `HeldSeatsNotAvailable`, `PaidLeadsToSettled`, `ConfirmedLeadsToTicket` | 93 621 |
| `sequential` | 1 request at a time, 2 users, 2 bookings, 2 seats, with every failure between its calls; no cancellation, no operator's update | `NoDoubleSale`, `ConfirmedSeatsAreBooked`, `RefundsWithinAmount` | 364 353 |
| `cache` (`MCBusCache`) | 2 requests at a time, 2 buses, 1 query, 2 versions of a bus; every operation and every failure; under `FairSpec` | `CacheInv`, `BusStaysCovered`, `PageStaysCovered`, `BusEventuallyFresh`, `PageEventuallyFresh` | 910 853 |
| `accounts` (`MCAccountSystem`) | 2 requests at a time, 1 founder and 2 free phones, 1 email, 1 code, 2 tokens of an account, tokens of age 0 and 1; 6 workloads; every failure | `AccountInv`, `LastAdministratorStays`, `ValidSessionsStay`, `EmailClashesAreRaces`, `VerdictsDriftByRace`, `RegisterSpec` | 898 917 |
| `delivery` (`MCDelivery`) | 1 booking of an owner, an administrator and a stranger, 2 worker runs at a time, 1 socket, 1 notice, 2 days; 7 workloads, at most 3 failures; under `FairSpec` | `DeliveryInv`, `MailsAreCounted`, `TornTicketIsExplained`, `CompletedTicketIsWhole`, `UpdatesReachTheirAudience`, `LastUpdateIsTrue`, `ReportsNeverRegress`, `EveryJobSettles`, `AtLeastOnceSpec` | 156 205 |

What they show:

- `concurrent`: whatever two requests and an operator interleave, a booking is confirmed only with
  a payment of its own that was saved as paid; a seat marked `booked` is listed by a booking that
  was paid, even if that booking is cancelled meanwhile; two requests never give a booking two
  payments (`PaymentsSound`, a part of `BookingInv`); a booking's life is one that
  `BookingLifecycle` allows; and a cancelled booking is taken back only by a confirmation that had
  passed its check of the status before (`WithdrawnIsFinal`): `late_confirm` shows that this one way
  exists, this run that there is no other. Two bookings and two seats are enough for overlapping and for equal
  seat lists and for a booking confirmed while another is created.
- `failures`: the same when any call fails or the process stops between any two of them, with
  refunds and removals as well. The refunds are here because two of them and a second
  verification are the case that matters: entries are pushed, so `totalRefunded` may lag behind
  them and never exceeds them. `OwedIsAttended` says where a payment can get lost: from the moment it is
  saved, a request is on its way to confirm the booking, and then to queue its ticket, until that
  very request ends with an error (`Abandons`) or the process stops; the requests beside it, a
  cancellation or a second verification among them, cannot interrupt it. The amounts 1 and 2 of a fare of 2 give partial, full and refused
  refunds.
- `progress`: while no one cancels and nothing fails, a held seat is never offered, a recorded
  payment does not leave its booking pending for ever, and a confirmed booking's ticket email is
  queued. With a failing queue or a crash the two liveness properties do not hold: the code has
  no retry.
- `sequential`: what the checks of the code do achieve. When requests do not overlap, failures at
  any call and crashes sell no seat twice, leave no confirmed booking without its seats and refund
  no more than was paid. The counterpart runs below show that each of these fails as soon as two
  requests overlap, or one cancels.
- `cache`: the cache never shows what MongoDB has not held, and an entry goes out of order only in
  the three ways listed in section 2. In particular, the two calls of `cacheDelPattern` are not a
  fourth: a page filled between the `KEYS` and the `DEL` is left behind only if it was read before
  the write. However an entry became stale, it ends absent or current. Two requests are a reader and
  a writer, or two writers, in every order; a bus is born, updated and removed within two versions;
  two buses are what makes a page's count and its list disagree.
- `accounts`: no race of registrations, sign-ins and administrators changes a role, makes an account
  without the right, or registers a phone twice. The three action properties say which
  races *can* do what their names say: the last administrator is suspended only by one who was suspended
  while the request was under way; a valid session ends only by its own logout; two accounts share an
  email only after a race or through `createAdminUser`. Two requests and a founder are enough for all
  of them: each is about one request that was overtaken by another. The workloads split the
  operations into groups that can meet; a group lets both requests be of any operation in it.
- `delivery`: every sending of a mail is paid for by an attempt or a stall, and a job is completed
  only after its mail was handed over, unless it had nothing to do; the file behind a ticket's url is
  torn only after a stall, after an update of the url that was not answered, or by a second
  verification's job, and whole once the jobs are completed if no processor was held up, unless two
  verifications' streams were open on it at once; updates of a booking reach its owner, and the administrator that cancelled
  it, and nobody else; what the owner's socket heard last is the status, unless two changes
  overlapped, an announcement failed or somebody else cancelled; a day's report never goes back;
  every job ends completed or failed; and the queues keep the promise of `AtLeastOnce`. Three failures
  are enough to use up the three attempts of a job, or to stall it twice, and two runs are enough
  for a job that is run again while a run that lost its lock still works on it. The workload of two
  verifications has no failing calls, which would take the run beyond its time: that a call fails or
  loses its answer while two streams are open is covered by the theorems of `TicketProofs` only.

| Run expected to find a violation | Property | Behaviour TLC finds |
|---|---|---|
| `double_sale` | `NoDoubleSale` | two bookings with different, overlapping seat lists: different lock keys, both pass, both are confirmed |
| `cancel_resells` | `NoDoubleSale` | one request at a time: a cancellation frees the first seats of the bus, which belong to someone else, and they are sold again |
| `stuck_locked` | `LockedSeatsAreReleased` | a booking that is never paid: the key expires, the seat stays `locked` for ever (under `FairSpec`) |
| `over_refund` | `RefundsWithinAmount` | two refunds read the same total, both pass the limit, both entries are pushed |
| `late_confirm` | `CancelledIsFinal` | a verification has passed the status check, the booking is cancelled, the verification writes `confirmed` |

Symmetry is used for users, bookings, payments and slots, which no action orders or tells apart,
and in `accounts` for the free phones and the slots, in the runs without liveness properties only.

**Fairness.** That of `SeatBooking` is in section 2. `BusCache`: weak fairness of every request's
`Proceed` (the event loop), of `ExpireBus` and `ExpirePage` (both entries are stored with `SETEX`).
`Delivery`: a worker that is free takes a waiting job, goes on with the one it has, and a failed
attempt is retried after its backoff; BullMQ detects stalled jobs; the processes restart
(`restart: unless-stopped`, docker-compose.yml:30). Nothing obliges a client to ask, a socket to
connect, or a call to fail.

Every property of a passing run is backed by a mutant: a changed definition, kept beside the
original and commented `Mutant:`, with which TLC finds that property violated.

## 4. The proofs

### Bookings and payments

`SeatBookingProofs` proves, for every number of users, seats, bookings, payments and concurrent
requests, every fare and every set of operations and failures:

| Theorem | States |
|---|---|
| `Invariance` | `Spec => []BookingInv` |
| `TypeCorrect` | `Spec => []TypeOK` |
| `ConfirmedBookingsArePaid` | `Spec => []ConfirmedIsPaid` |
| `BookedSeatsArePaid` | `Spec => []BookedSeatIsPaid`, if `"booked"` is not among `OperatorStatuses` |
| `Refinement` | `Spec => LifecycleSpec` |
| `TotalsNotOverstated` | `Spec => []TotalNotOverstated` |
| `HeldSeatsStayHeld` | `Spec => []HeldSeatsNotAvailable`, if `Ops` holds no cancellation, update or removal |
| `WithdrawnStaysWithdrawn` | `Spec => WithdrawnIsFinal` |
| `OwedStaysAttended` | `Spec => OwedIsAttended` |

The assumptions are the named ones of `BookingState` (positive numbers, the null values are no
ids, the inputs are of their kinds) and the two of the statements above, without which the
statements are false: an operator may mark any seat booked or available by hand.

*The argument.* `TypeOK` is not inductive: a step that writes `payments[handler[h].payment]` keeps
the type only if that local names a payment, and `SetConfirmed` keeps `ConfirmedIsPaid` only if the
payment the request carries was saved as paid for that very booking. `BookingInv` says so: it is
`TypeOK`, `RequestsSound` (what each request in flight may rely on at each `pc`, one part per
operation), `PaymentsSound` (a payment that exists belongs to a booking that exists, is its only one,
and is `success` only if paid) and `ConfirmedIsPaid`. What makes it inductive:

- ids of documents about to be inserted are carried by one request only, so no step of another
  request can create the document under it (`CreatingSound`, `InitiatingSound`);
- `payments[p].bookingId` and `paid` are never taken back, so a fact about a payment that a request
  has passed stays true while it waits (`VerifyingSound`, `RefundingSound`);
- a booking that is settled may go to `confirmed` or `cancelled` and never back to `pending`.

The proof has one lemma per action (`MarkLockedInv`, `SavePaidInv`, ...), with one step per conjunct
of the invariant the action can disturb; lemmas about `Goto`, `Answer`, `Accept` and `SetSeats` serve
them all. `NextInv` combines them.
`Refinement` shows that, under `BookingInv`, each step maps to the abstract action it stands for
(`InsertBooking`, answered or not, to `Create`, `SavePaid` to `Pay` or a stutter when it pays a second time,
`SetConfirmed` to `Confirm` or a stutter, `SetCancelled` to `Cancel` or a stutter, the queueing
calls to `Issue` or a stutter) and every other step to a stutter. `PaidLeadsToSettled` and the
other liveness properties are not proved: liveness under fairness is beyond the prover, and TLC
checks it.

`RefundsSound` strengthens `TotalNotOverstated` with what a refund in flight has read.
`HoldingInv` strengthens `HeldSeatsNotAvailable` with the seats of a booking that is about to be
inserted: `MarkLocked` comes before `InsertBooking`, and no step but a cancellation or an operator's
makes a seat available.

The two action properties follow from `BookingInv` step by step. For `WithdrawnIsFinal`
(`WithdrawnStep`): `ConfirmRead` lets only pending bookings past the check, so no request joins
`Confirming` for a cancelled one, and `SetConfirmed` is made by a request in `Confirming`, whose booking is
not withdrawn. For `OwedIsAttended` (`OwedStep`): `AttendedFrame` says that a step which owes no
more than before and leaves the carrying requests on their way keeps a booking attended; `SavePaid`
and `SetConfirmed` owe more, and put their own request on the way to it; `ConfirmRead` ends a
request only if the booking is pending no longer.

### The bus cache

`BusCacheProofs` proves, for every finite set of buses, every set of queries, of concurrent requests and of
failures, and every bound on the versions:

| Theorem | States |
|---|---|
| `CacheShowsThePast` | `Spec => []CacheInv` |
| `BusesStayCovered` | `Spec => BusStaysCovered` |
| `PagesStayCovered` | `Spec => PageStaysCovered` |

*The argument.* `CacheInv` bounds the version in every copy of a bus, the copies in the hands of
requests included, by the version in MongoDB; what a step stores is a copy a request held, and no step
takes a version back. `RequestsSound` says that a request about to write or delete has a bus, which its
writes need to keep the types. The action properties follow request by request: `BusCovered` and
`PageCovered` hold of an entry that is absent, current, or about to be deleted by some writer, so
a writer that moves from its write to its deletion keeps the entry covered (`BusUntouched`,
`PageUntouched`), a deletion leaves it absent, and a fill leaves it current unless a write has
overtaken the reader, which is one of the excuses the property names. The only step that ends a
writer's duty without doing it is a failure, another of the excuses.

### Accounts

`AccountProofs` proves, for every set of phones, founders, emails, codes and concurrent requests, every
mixture of operations and failures, and every `RefreshLife <= Retention`:

| Theorem | States |
|---|---|
| `AccountsStayInOrder` | `Spec => []AccountInv` |
| `AdministratorsStay` | `Spec => LastAdministratorStays` |
| `SessionsStay` | `Spec => ValidSessionsStay` |
| `EmailsClashByRace` | `Spec => EmailClashesAreRaces` |
| `VerdictsDrift` | `Spec => VerdictsDriftByRace` |
| `AccountsImplementRegister` | `Spec => RegisterSpec` |

The assumptions are `AccountConstants` (the null values are no phone, email or code) and
`RetentionAssumption`. Without the second `SessionsStay` is false: the nightly cleaning removes what
is older than seven days, whatever `REFRESH_EXPIRES_IN` says.

*The argument.* A role, once given, is never changed, and an account is never deleted; so what a
request has checked of an account (it is registered, it is a driver, its role may create that role)
stays true across every await. `RequestSound` collects those facts per `pc`, `GrantSound` and
`VerdictSound` those of the documents: an account that is not registered is `Blank`, and whoever
created or reviewed an account has a role that may. Emails are the one fact that does not stay true:
`RequestSound` promises a free email only to a request that is not `raced`, and every write of an
email marks the requests it races (`EmailStepKeeps`). `WhoWritesWhat` and `WhoRegisters` say once which
action can change which part of an account; the action properties and the refinement are read off
them together with `RequestSound`.

### One request at a time

`SequentialProofs` proves what the checks of the code achieve where requests do not overlap, that is
for `OneAtATime` (`Handlers` has at most one member), every number of users, seats, bookings and
payments and every set of failures, a stop of the process between any two calls included:

| Theorem | States, given `OneAtATime` |
|---|---|
| `SeatsSoldOnce` | `Spec => []NoDoubleSale`, if `Ops` holds no cancellation, update or removal |
| `ConfirmedSeatsStayBooked` | `Spec => []ConfirmedSeatsAreBooked`, under the same condition |
| `RefundsStayWithinAmount` | `Spec => []RefundsWithinAmount`, for any operations |

None of the hypotheses can be left out: `double_sale` and `over_refund` are two slots, `cancel_resells` is one
slot with a cancellation. The server does not serialise its requests: the theorems say what overlapping
requests are the cause of, not what the server guarantees.

*The argument.* `SeatsInv` says that no two bookings share a seat, paid for or not (`SeatsApart`), that the
seats of a request between its check and its insert are in no booking (`ReservedApart`), and that the
seats are marked when the status is about to be written (`MarkedSound`). The check in `CreateRead`
establishes the second, by `HoldingInv`: a seat found available is of no booking. `MarkLocked` keeps the
marks of the others by the same fact. For refunds, `RefundsExact` says that the total is the sum of the
entries and that a refund in flight has read the total that is there, so the check of the copy is a
check of the document.

### Delivery

Four modules prove, for every set of bookings, owners, administrators, sockets and notices, every
finite set of runners, every bound on days and failures and every choice of workloads:

| Module | Theorem | States |
|---|---|---|
| `DeliveryProofs` | `DeliveryInvHolds` | `Spec => []DeliveryInv` |
| `QueueProofs` | `MailsCounted` | `Spec => []MailsAreCounted` |
| `QueueProofs` | `ReportsGrow` | `Spec => ReportsNeverRegress` |
| `QueueProofs` | `CarriedOutAtLeastOnce` | `Spec => AtLeastOnceSpec` |
| `TicketProofs` | `TornIsExplained` | `Spec => []TornTicketIsExplained` |
| `TicketProofs` | `CompletedLeavesWhole` | `Spec => []CompletedTicketIsWhole` |
| `GatewayProofs` | `UpdatesReachOnlyTheirAudience` | `Spec => []UpdatesReachTheirAudience` |
| `GatewayProofs` | `LastUpdateHeardIsTrue` | `Spec => []LastUpdateIsTrue` |

The only assumption is `DeliveryConstants`. Its `IsFiniteSet(Runners)` is what the workers' option
`concurrency` gives: BullMQ never has more runs in progress than that. It is needed where runs are
counted.

*The argument.* `TypeOK` and `LocksSound` alone are not inductive: a job could be added while an old run
still works on it, or taken with more attempts counted than there are. `DeliveryInv` excludes both
with `TailSound`, `JobSound` and `RunSound`. `DeliveryProofs` also describes each step once by what it does
to jobs and runs, and which steps leave both alone, so that the other modules need not open every action. Each
of them adds the invariant its property needs:

- *Mails* (`MailsInv`). A run that lost its lock goes on and may still send. The mails that were sent
  and the runs that may still send one (`Sending`, whose size is counted, hence the finite `Runners`)
  together stay within the attempts and stalls that the queue has counted, and one for the run that is
  active or completed (`Credit`). A run enters at `Take`, when the credit grows by one; it spends what it
  had when it sends.
- *Reports* (`ReportInv`). Two runs of the analytics never overlap, even after one lost its lock, because
  a run keeps its worker's place to its end; the count a run holds is between the cached one and the
  bookings there are.
- *The promise* (`PromiseInv`). A run that is about to complete its job has carried it out, or nothing is
  due; and a mail that is due has an address and a server to go to. The refinement goes step by
  step: adding maps to `Accept`, completing and failing for good to `Settle`, sending and saving to
  `CarryOut`, a last attempt whose answer is lost to `CarryOutAndFail`, an address that goes away to
  `Excuse`, everything else to a stutter.
- *Files* (`TornInv`, `WholeInv`). While an invoice job is the only one of its booking, has not stalled
  and had its answers (`Lone`), one run at most is on it, so one stream at most is open, and finds the
  file as it left it, however often attempts fail. The second property follows the lock instead: without
  hold-ups every run owns its job (`RunsOwn`), so only the jobs of two verifications can have streams open
  at once, and a file that was not shared is torn only while its stream is open, or some job of the
  booking opens it again or has failed (`FileSound`).
- *Sockets* (`AudienceInv`, `NewsSound`). Who is in a user's room is that user, and whoever cancels is the
  owner or an administrator, so an `Emit` is heard by the right sockets only. `NewsSound` relates what the
  owner's socket has heard to the status by way of the announcements still under way: an undisturbed
  booking with none under way has been announced as what it is.

### Model-checked only

- *Liveness* under fairness is beyond the prover: `PaidLeadsToSettled`, `ConfirmedLeadsToTicket`,
  `BusEventuallyFresh`, `PageEventuallyFresh`, `EveryJobSettles`. TLC checks them.
- Every safety and action property of the passing runs has a theorem.
- `NoDoubleSale`, `RefundsWithinAmount`, `CancelledIsFinal` and `LockedSeatsAreReleased` without the
  hypotheses above are false, which is what the runs that expect a violation show.

## 5. What the work found

By the runs:

- **The seat lock does not prevent double sales** (`double_sale`). The key is the whole seat list,
  GET and SETEX are two calls, and `MarkLocked` has no condition on what the seats are by then.
  `docs/04-infrastructure/redis-design.md` describes one atomic `SET ... NX`; with the whole list as
  the key that would not refuse an overlapping list either.
- **A cancellation frees the wrong seats** (`cancel_resells`): `seats.${i}` with the index of the
  passenger.
- **Seats do not unlock by themselves** (`stuck_locked`), against redis-design.md:46.
- **Concurrent refunds exceed the payment** (`over_refund`).
- **A cancelled booking can become confirmed** (`late_confirm`).

And what holds in spite of all this is section 3's first table and section 4.

Met while reading, and visible in a module's comments or actions, with no run of their own:

- *Refreshing a session* never succeeds: `auth.service.ts:167` searches `refreshTokens` in a document
  loaded without them (`select: false`). `docs/02-api/api-contracts.md:97-107` promises new tokens.
- *Who creates whom*: `docs/05-security/rbac.md:102` says that `admin` and `super_admin` accounts create admins and
  operators; `createAdminUser` also lets a `manager` create any role but `super_admin`
  (`MayCreate`). `rbac.md:123` says that the OTP flow concerns `user` accounts only; `verifyOtp` logs in the
  account of the phone, whatever its role, and saves it as verified, a driver under review included
  (`VerdictsDriftByRace`).
- *An empty email* in `completeRegistration` clears the address that was there; the mails that wait then have
  nowhere to go and are skipped (`DropAddress`).
- *Mails and SMS*: `queue-design.md:18` lists a mail for cancelled bookings and :33-35 three kinds of SMS;
  no code queues any of them, nor the welcome and failure mails.
- *Daily analytics*: the job of midnight carries the date of the day that begins (in UTC), so it
  counts a day with hardly any bookings (`Midnight`); `queue-design.md:58` calls it a daily aggregate per tenant,
  and it is one over all tenants.
- *Sockets*: `payment:update` goes to rooms `booking:<id>` that no socket joins; nothing emits the events behind `bus:status` and
  `seat:locked`, and `seat:available` has no bridge (`docs/04-infrastructure/socket-events.md:26-29`). A
  cancellation by an administrator is announced to the administrator's room, since
  `booking.service.ts:241` emits the id of whoever asked (`AnnounceCancelled`).
- *Cache*: "invalidated on any write" (`redis-design.md:67`) leaves out the seat writes of the booking service
  (`SeatWrite`) and readers that a write overtakes (`OvertakenBusFill`).
- *Two verifications* of one payment that overlap, or with a refund in between, queue two tickets, two
  invoices and two receipts. The invoice worker runs two jobs at once, and both write the same file
  (`invoice.worker.ts:40`): the two may complete and leave a mixed file behind the `ticketUrl`
  (`WriteSome`, `WriteFile`; the last disjunct of `CompletedTicketIsWhole`, without which the run
  `delivery` is refuted).
- *A lost answer* of the update at `invoice.worker.ts:68` lets the next attempt truncate a file that is linked
  already, and if that attempt fails for good the booking keeps a link to a torn file
  (`SaveUrlUnanswered`; the `unanswered` of `TornTicketIsExplained`).
- *Several instances* of the server are called safe by `docs/07-deployment/deployment.md:101`; the rooms of
  the sockets are those of one process, and so is the order of the analytics' reports: each instance has
  an analytics worker of its own.

## 6. Not modelled

- The reads of bookings, payments, users and notifications (`getBooking`, lists,
  `getAvailableSeats`, counts): no state changes. The cached reads of buses do fill the cache and are
  in `BusCache`.
- Grievances, verification requests, drivers' own routes, plans and tenants: these services are in the source and
  `app.ts` mounts none of their routes, so no request reaches them. The review of a driver through the
  administrator's routes is in `UserService`.
- Code without a caller: session keys, `isSeatLocked`, the analytics counters in Redis; the SMS
  worker, whose queue no code adds to (an OTP is logged, or sent by the request itself).
- HTTP parsing, validation and rate limits: they decide which requests arrive; the models let every
  valid one arrive at any time. Roles matter in `Accounts` and are modelled there; `SeatBooking` takes
  them as given.
- Templates, layout of invoices, logging, OpenAPI documents, configuration.
- A second cancellation of a booking while one is under way (`Delivery`); `SeatBooking` has it.
- Several Node processes: each slot of `handler` could as well be in another process; only `Crash`
  would then stop some slots and not all.
- `SeatBooking` and `Delivery` are two views of one request, cut at the queueing calls: composing
  them state by state would multiply what they already check. `SeatBooking` shows which jobs are
  added when, `Delivery` what becomes of them; `Delivery`'s bookings may do all that
  `BookingLifecycle` allows, confirmation after a cancellation included.

## 7. Plan

Done: bookings, payments, seat locks and the operator's writes; the bus cache; accounts and sign-ins;
jobs, workers, sockets and notifications; theorems for every safety and action property that a passing
run checks, and for the three refinements.

Left, in this order:

1. One property about the OTP and token races of `auth.service.ts` (lines 75, 99, 256), if a document
   comes to promise something of them; today none does.
2. The proofs of `Delivery` say that a run keeps its worker's place to its end. If the workers move to a
   process of their own, `Running` and `Crash` are to be split, and `ReportInv` to be proved anew.
