# Advisory Platform API — formal models

TLA+ models of the Advisory Platform API (NestJS, Drizzle, PostgreSQL), the TLC
runs that check them on small instances, and TLAPS proofs that hold for every
instance: every safety and action property that a passing run checks is a theorem. Paths
are relative to the repository root, which is `src/` here:
`src/src/modules/...` is the application, `src/docs/api-spec.md` its contract.
`PROJECT.json` names, for every definition, the lines it models.

## 1. The system

One stateless Node process (several in production, Cloud Run) serves HTTP and a
Socket.IO gateway; all state is in PostgreSQL, in an S3-like object store, and
in three external services (Omise for money, SMTP, Web Push). Two things make
the code hard to test: every `await` lets any other request run, and a
transaction (READ COMMITTED) sees what others committed between two of its
statements. The components, the state each keeps and what makes it correct:

| Component | State | Operations | What must hold | Module |
| --- | --- | --- | --- | --- |
| `bookings` | `service_appointments` and its `EXCLUDE` constraint; the per-Advisor advisory lock | create, reschedule, cancel (either party), start, complete, no-show, confirm payment | no double booking, daily limits, legal state changes, one live booking per payment, time given back with notice | Booking, Calendar |
| `chat/booking-chat-room` | `chat_rooms`, `chat_members` | opened in the booking's transaction | a booking of `bookings` and its room exist together | Booking |
| `database` | the connection pool | take, wait, give back | the pool never waits for itself | SchedulingPool |
| `payment` | `service_invoices`, the junction table; charges at Omise | create invoice, check out, callback, expire | time sold once, an invoice whole, failed only when overdue | Payment |
| `screening` | questions, requests, answers | replace questions, submit, decide, the gate before the slots | a request answers one list that was asked; one ruling; only the accepted reach the slots | Screening, ScreeningDesk |
| `availability` | profiles, windows, blocked periods; the Advisor's clock | save, delete, search | a schedule is saved whole; the slots are exactly the free time | Slots, Offer |
| `advisor-services`, `service-categories`, `skills`, `advisors`, `common/i18n` | catalogue rows and profiles with their translations | create, edit, delete | an edit loses no field of another's, but to one that overlaps it; a deleted profile reads as the placeholder | Offer |
| `chat` | messages, read marks, mutes, sockets | send, join, leave, mute, mark read, page | nobody present misses a message; a mark never moves back | Chat, ChatFeed |
| `notifications`, `push` | notification rows with translations, subscriptions | notify, read, subscribe, deliver | one unread row per room, both languages, no push to a stranger | Notifications |
| `users`, `admin-accounts`, `identity-verification`, `skill-proofs`, `chat/chat-files`, `common/storage` | `user`, identity record, proofs, files; stored objects | edit, upload, rule, suspend, delete | a record never names a missing object; role and identity agree; nobody is deleted while a booking names them | Accounts |
| `refunds`, `payouts`, `safety`, `reviews` | cases, payouts, reports, flags, reviews | open, rule, settle, write, reply | a matter is ruled on once and every answer stays true | Cases, Docket |
| `auth`, `common/authorization`, the controllers | role, session, cookie | the guard of every route | an answer is that of a role held a moment ago | Access |
| `common/pagination` | none of its own | cursor pages, numbered pages | no row twice and none skipped, as far as the code can promise | ChatFeed, Listings |
| `pdpa`, `health`, `config`, `common/filters` and other plumbing | — | — | — | not modelled (section 7) |

Interactions: `bookings` calls `availability.findSlotAt()` inside its
transaction but on another pool connection, opens the chat room on its own
connection, and notifies through `notifications` after commit. `payment` writes
`service_appointments` directly, without the bookings module: no schedule lock,
no daily limit, no chat room, and no wait for an Advisor who is being deleted.
Booking, Payment and Accounts each have that second writer. `availability`
asks `screening`'s table whether slots may be shown. `users` reads
`service_appointments` to refuse a deletion, takes the identity, the
sessions and the avatar with it, and overwrites the Advisor's profile and texts.
An approved identity changes the role that the
guard reads, from a cookie, up to five minutes later.

## 2. The models

In all of them a request is a session that waits between two statements (`pc`,
`req`), and one action is what happens between two awaits. The tables are the
committed ones; where a transaction has more than one statement that others
could tell apart, what it has not committed is kept in `req`.

### Booking.tla: appointments and the Advisor's schedule

| TLA+ | Code |
| --- | --- |
| `rows`, `rooms` | committed `service_appointments`, `chat_rooms` with `chat_members` |
| `policy` | `advisor_global_availability` |
| `lock` | `pg_advisory_xact_lock` of an Advisor (`lockAdvisorSchedule`) |
| `told` | calls of `notifyConfirmed` per booking |
| `invoiced` | history: the bookings that `createInvoice()` inserted |
| `pc`, `req` | where a request awaits and what it carries: the row it read, the values it will write |
| `Create`, `Reschedule`, `Cancel` (in `Arrive`) | `BookingsService.create / reschedule / cancel` up to the first await that others can slip past |
| `AcquireLock`, `Reselect`, `ReadContext`, `Derive`, `ReadBuffer`, `InsertAndCommit` | the awaits of `createWithSchedulingLock` and `rescheduleWithSchedulingLock`: lock, second read of the original, scheduling context, slot derivation, buffer, insert with room and commit |
| `CancelOriginal` | the update of the original by id alone, not yet committed: kept in `req` |
| `ApplyCancellation`, `Start`, `Complete`, `RecordNoShow`, `ConfirmPayment` | `transition()`: one conditional update |
| `UpsertGlobal` | the Advisor edits notice, buffer or daily limit |
| `CreateInvoice` | the commit of `payment.createInvoice()`, the other writer of the table: one or more appointments that only the exclusion constraint stops, without lock, limit, buffer or room |
| `Fail` | an exception, a lost connection or a crash: rollback |

Reads made through the pool (`availability.repository.ts`) see the committed
tables, reads made through the transaction its own writes too. That difference
is the subject of half of the properties. `Calendar.tla` is the abstract
specification: bookings appear, with a room or by an invoice without one, move, are
cancelled and are replaced in single steps, with no request, lock or transaction;
`ImplementsCalendar` is the
refinement (the identity mapping on `rows` and `rooms`).

Abstracted: time is counted in grid slots, and a Service's windows, time zone and
blocked periods are the constant `OpenStarts` (Slots and Offer derive them); the
clock read of the derivation is merged with the derivation; insert, room and
commit are one step, since nothing reads the tables between them that could tell;
who cancelled is left out; notifications are counted, not delivered; the gate
inside `findSlotAt()` is Screening's. `confirmPayment` is exported by
`bookings.module.ts` for a webhook that is not in `src/src` yet; it is modelled
as callable at any time, which is what an exported seam promises. What else
`createInvoice()` checks only refuses, and its statements are Payment's; here it
may book any time that the constraint leaves, at any moment.

### SchedulingPool.tla: who waits for what

The connections of the `pg` pool and the Advisors' locks, and nothing else: a
booking holds a connection for its transaction and, inside it, needs more
connections for the reads of `schedulingContext` and `scheduledValues`; any
other request needs one for a moment. `use` says who holds a connection and
for what; `due` how many pool reads the transaction still has to make.

### Payment.tla: invoices and charges

| TLA+ | Code |
| --- | --- |
| `rows` | `service_appointments`, shared with modules/bookings |
| `invoices`, `payer` | `service_invoices` and the junction table |
| `charges` | what Omise knows (external) |
| `Expire`, `CountPending`, `CheckOverlap` | the first statements of `createInvoice`'s transaction; the invoices it fails stay row-locked (`RowLocked`) and uncommitted until the end |
| `InsertAppointments`, `InsertInvoice`, `LinkAppointments`, `Commit` | its three inserts, between any two of which it may fail, and its commit. What it has inserted is in `req`; others' conflicting inserts wait for it (`MustWait`) |
| `Checkout`, `ChargeCard`, `SaveCharge`, `SaveDecline` | `checkout`: read, `chargeSpecificCard`, update |
| `Callback`, `AskProvider`, `RecordOutcome` | `paymentCallback`: read, `getChargeStatus`, update by id |
| `Authorise` | the card holder at 3-D Secure (external) |
| `Book`, `Cancel` | what modules/bookings writes to the same table meanwhile |

It composes with Booking at the shared table: Booking checks its own
interleavings under the schedule lock; Payment adds the writer that takes no
lock, with bookings reduced to their committed effect. Amounts, fees, receipt
numbers, saved cards and customers are left out (a customer is an upsert: the
later of two first payments replaces the earlier one's). A call of the provider
may fail before or after it took effect. `Cancel` may take time back as well as
give it, because the update of a reschedule can overwrite a committed
cancellation (`DailyLimitHolds`, section 4).

### Screening.tla and ScreeningDesk.tla: the questions before a booking

`questions`, `requests` and `rung` (the notifications) are the tables;
`Submit`, `ReadLatest`, `ReadQuestions`, `CreateWithAnswers` are the reads of
`ScreeningService.submit()`, each a statement of its own, and its transaction;
`ReplaceQuestions`, `LapseAccepted` and `CommitQuestions` are `replaceQuestions()`:
the old questions go, a second UPDATE finds the accepted requests under a snapshot of
its own, and both become visible at the commit, so that a request accepted in
between stays accepted (`AllAcceptancesLapse`, section 4); `Decide` reads
and `DecidePending` writes on condition; the visit to the slots reads the
Service's switch and then the acceptance. ScreeningDesk is the abstract
specification: at most one request waiting, one ruling, an acceptance that
lapses with the questions, one ring each. `ImplementsDesk` maps a request of the
table to a request on the desk, a replacement that has lapsed its requests to one
that is due (`Due`), and everything else in flight to nothing. On the desk too the
list changes after the look at what has been accepted: that they lapse together
is not what the code promises.

### Chat.tla and ChatFeed.tla: a room, live and in time

Chat is the gateway: a message is stored, broadcast to the sockets, then the
members without a socket are looked up and told, while members mute, join, leave
and are suspended. A gateway call may know its user by a copy five minutes old
(`authenticate`), but `CheckMembership` reads the tables. ChatFeed is the same
room as a history: `now()` is the start of a transaction, so messages become
visible in another order than their stamps; a read marker is moved forward by
`markReadThroughMessage`; a page is cut by a cursor that keeps milliseconds of
a stamp with microseconds.

### Notifications.tla: rows, devices and pushes

`Begin`, `Insert`, `SaveTranslations` are the transaction of `notify()`, with the
two unique indexes it may meet; `Push`, `SendNotification`, `SendFails` the
deliveries, device by device, after the commit; `Subscribe` moves a device from
one person to another; marking one or all as read is a conditional update. A row
is named by the input that inserted it.

### Accounts.tla: a person and what they stored

An upload is put, record, cleanup, with a failure, a lost answer or a crash
anywhere (`MaxFaults`); the person's row and identity row are locked as
the transactions lock them, in opposite orders in `approve()` and
`anonymizeById()`, and the server ends one of two that wait for each other.
Sign-in and the session row are external steps: the guard lets a request pass
once, which may then outlive the account. A deletion leaves ID scans and proofs
in storage and the role where it was, as the code does. `GrantRole` makes an
advisor of whoever is not an admin; `SetRole` is better-auth's `set-role`, which an
admin may call at any time and which writes the role alone; `assigned`, a history, is
the role it gave last unless an approval has changed it since.
An appointment that names the person comes from the person (`InsertAppointment`), from
another who books (`BookService`: the room's members refer to the user row, so both wait
for a deletion) or from another's invoice (`SellService`: `advisor_id` refers to the
profile, which no deletion locks against it). `upcoming` keeps booked and sold apart.

### Cases.tla and Docket.tla: rulings

Refund cases, payouts, reports and flags are queues of the same shape: a read,
then an UPDATE on condition; `Docket` says what each promises (filed once, ruled
on once, for good) and `KeepsDocket` is the refinement for all four. Reviews are
an insert on a primary key with edits and replies. An admin without an
`admin_profiles` row meets a foreign key in refunds and payouts and a clean 403
in safety.

### Slots.tla and Offer.tla: what an Advisor offers

Slots is pure: what `assertWindows` accepts, how windows merge, the slots of
one day, and the conversion of wall-clock times in a zone whose clock may change
that day (`ZonedDateTimeToUtc` is the three-round search of
availability-time.ts; `Resolves` its RangeError). Offer interleaves what uses and
changes it: `LockProfile`, `ReplaceWindows` (the UPDATE locks the row before the
tables are replaced), deletion in three steps, a search that reads the Service
and then each table in a statement of its own, and the read-merge-write of
localized texts. Only the edit of an Advisor's profile reads FOR UPDATE
(`UpdateAdvisorProfile`, `LockAdvisorProfile`); PostgreSQL then takes the row as
it is when the lock is granted, but the translations, a subquery over another
table, as they were when the statement began. `EraseTranslations`, `EraseProfile`,
`CommitErasure` are what `anonymizeById()` does to the same rows: the translations
go, then the profile's own columns are overwritten, once an edit that holds the row is
over; the two may meet in opposite orders (`DetectDeadlock`). Two histories say what a
field should read as: `said`, whatever edit named it last, and `kept`, the same until an
edit of the same language that had read before it writes it back. A refusal to
delete because a booking names the Service, or an Advisor's list a skill, is a
free choice; `Legacy` is a Service from before profiles.

### Listings.tla and Access.tla: reading and being let in

Listings models every list read by page number as its order, its tie-break and
the ways its rows come and go; a visit reads pages while rows are inserted, leave,
enter and move, and the page and its total are two statements. The predicates
that put an Advisor or a Service on a list are compared with those that let one
act on them (`ShownCanBeActedOn`). Access holds the statements of the three roles,
all routes of the 36 controllers with what each asks for, and one person whose
role, session row and cookie change; the library's guard, sign-in, refresh and
set-role are external steps. `AccessAssumption` says that every permission a
route asks for is granted to somebody, and that no role may both file and decide a
matter; it holds of the tables as they are. MCReads runs ChatFeed, Listings and Access
side by side:
`moving` says which one moves, the others wait in their initial state. The theorems
are about each of the three by itself (`FeedSpec`, `ListSpec`, `AccessSpec`).

## 3. The runs

| Run | Instance | Question and answer |
| --- | --- | --- |
| `booking` | 2 requests and any invoices, 3 bookings, 1 Service, 2 starts, a clock of 2 values (417,000 states) | every interleaving of creations, reschedules, cancellations, transitions, invoices and failures: lock exclusive, time given back exactly with notice, each booking that no invoice made has its room and each room a booking, one live booking per chain, told once, other changes legal, refines Calendar. Holds. |
| `booking_live` | 2 requests, 2 bookings, 2 Services, both daily limits, 2 policies, `FairSpec` | creations respect both limits, what invoices book meanwhile left out, what is booked never overlaps while the buffer changes, and every request is answered. Holds. |
| `booking_illegal_change` | 2 and 2 | a reschedule cancels a booking that was started meanwhile. Violated (section 4). |
| `pool` | 2 requests, 3 connections, 2 Advisors, `FairSpec` | a full pool always has a connection that comes back by itself; everyone is answered. Holds. |
| `payment` | 2 requests, 3 appointments, 2 invoices, 1 charge, buffer 1, baskets of one and two sessions (251,000 states) | invoices, bookings, checkouts, callbacks and expiry in any order, with failures between any two statements: time never sold twice, every invoice whole and nothing reserved without one, an invoice fails only when overdue. Holds. |
| `screening` | 2 requests, 2 questions in lists of one, 2 screening requests of one Advisee (667,000 states) | answers fit a list that was asked, only accepted people reach the slots, refines ScreeningDesk. Holds. |
| `chat` | 2 messages at once, 2 members | whoever was there to be told has the message on a socket or as a notification; whoever was muted or suspended throughout is left alone. Holds. |
| `accounts` | 2 requests, 3 objects, 1 fault, `set-role` to admin (1,530,000 states) | records and objects agree, nothing a fault did not leave lingers, role and identity agree but for a `set-role`, rulings stand, nobody is deleted while a booking names them. Holds. |
| `cases` | 3 requests, 2 at a time, 3 refund cases, one payout, report, flag and review; 3 admins, one without a profile | answers stay true, at most as many open cases as requests raced, refines Docket. Holds. |
| `notifications` | 2 messages of one room, a welcome tried twice, 2 users, 1 device, 2 transactions | one unread row per room, both languages of one message, no push to a stranger. Holds. |
| `offer` | 4 requests, 3 at a time, 1 profile, Service, category, skill and Advisor, 2 valid schedules and 1 refused, 6 edits (185,000 states) | schedules are saved whole, slots are exactly the free time of tables that were current, a field of any text reads as it was left by the last edit that named it, up to edits that overlapped and the account's deletion. Holds. |
| `reads` | feed: 3 messages, 2 to a millisecond, pages of 1; lists: 3 rows, 2 stamps, pages of 1, scan limit 2, 2 changes per visit; access: cookie of 2 ticks | pages are new, a walk misses only ties of a millisecond, what is read stays read; a list's pages show once what stayed in place, promised pages have rows; answers are of a recent role. Holds. |

Pure functions are checked by `ASSUME`s that TLC evaluates with the runs. In
MCOffer, `SlotsAgree` compares the slots with a unit-by-unit reference over
every pair of tidy lists of windows of a three-step day, blocked periods and
durations; `ClockAgrees` says that the conversion finds the instant of every time
a clock shows, and refuses only times it skips, in zones ahead of, behind and on
UTC that change by one step or two at any moment of the day;
`SlotsAgreeOnClockChanges` says that on such a day a search whose bounds the
clock shows once is exact and gives slots of that day only; `RepeatedHour`
exhibits what happens otherwise. All but the last are proved for every value by
now (section 5).

Bounds, all constants of the configurations or guards named here: `Sessions`
(requests in flight), ids (`Bookings`, `Appointments`, `Invoices`, `Charges`,
`Requests`, `Questions`, `Messages`, `Keys`, `Rows`, ...), `MaxRequests` (requests
that come at all), `MaxTime` and `MaxClock` (the clock stops), `MaxFaults`,
`MaxList`, `MaxChanges`, `MaxAge`, `Policies`, `Baskets`, `Drafts`, `Edits`. Two sessions
show every pairwise race and three the ones in which a third party acts between
two (in Booking an invoice, the clock, an edit of the policy and a party's
transition need no session); a chain of two reschedules needs three bookings; two starts
one duration
apart touch without a buffer and collide with one; boundary cases (time
exactly at the notice, at the payment limit, at the end of another booking) are
reached with a clock of two values; three rows with pages of one show a page
shifted forwards, backwards and by a tie. One Advisor, room, Service or account
is enough where several share no state; the pool run has two Advisors because
they share connections. Sessions, and the ids and people that are
interchangeable, are symmetric; the liveness runs use no symmetry. `cases`,
`offer` and `notifications` do not check deadlock, because their requests or
inputs run out; in the others a request can always arrive or fail.

Fairness. PostgreSQL queues waiters of an advisory or row lock and the `pg` pool
queues its clients, so a waiter is not overtaken for ever: strong fairness on
`AcquireLock` and `ApplyCancellation`, and on connection waits in the pool model.
A statement that runs comes to its end: weak fairness on the others. Arrivals,
failures, the clock, the Advisor's edits and the provider are never assumed to
happen. The other modules state no liveness: their requests wait only for row
locks, whose holders do not wait or, in Accounts, are ended by the server.

## 4. Where the code and its text differ

`booking_illegal_change` is a run that must be violated, with its quote in
`PROJECT.json`: `rescheduleWithSchedulingLock` cancels by id, so an IN_PROGRESS
booking can become CANCELLED though transitions are documented as conditional.

The configurations below are not runs of the project but reproduce, one property
each, what a comment, a document or a test says and the code does not do.

| Configuration | Property | What happens |
| --- | --- | --- |
| MCBookingPaidState | `ReplacementCarriesPayment` | the replacement's state is the one read before: a confirmation in between leaves a paid Advisee with PENDING_PAYMENT |
| MCPoolExhausted | `EveryRequestAnswered` | bookings hold a connection while they wait for another, with no timeout; as many bookings as connections stop the process |
| MCPaymentLimit | `PendingLimitHolds` | two simultaneous invoices pass the limit of one |
| MCPaymentPending | `NothingRecordedWhilePending` | a charge that waits for 3-D Secure is recorded |
| MCAccountsErased | `ErasedForGood` | an upload or edit let through before a deletion writes personal data back after it |
| MCAccountsSignedIn | `SignedOutForGood` | a sign-in under way leaves a session of a deleted account (users.repository.ts:104-105) |
| MCOfferLost | `EveryTextKept` | two partial edits of a category, skill or Service: one field is lost (service-categories.repository.ts:101-104, skills.repository.ts:91-94, advisor-services.repository.ts:161-164) |
| MCOfferOrphan | `NamedProfilesLive` | a profile found unused is deleted while a Service that names it is created (availability.service.ts:190) |
| MCOfferTorn | `SlotsOfOneSchedule` | a search mixes two schedules (api-spec.md:701, :802) |
| MCReadsTies | `WalkSeesAll` | messages of the millisecond a page ends in are skipped (cursor-pagination.dto.ts:37) |
| MCReadsQueue | `PagingIsStable` | a ruling between two pages of a queue skips a row (identity-verification.repository.ts:51-52) |
| MCReadsDays | `EveryMatchIsShown` | the search by day checks the first 500 Services only (advisor-services.service.ts:115-118) |
| MCReadsFiled | `FiledCanBeReadBack` | an Advisee approved as Advisor cannot read the refund they filed (auth.config.ts:134-149, role-resolver.service.ts:10-12) |

More are stated in the modules, with their source, and fail when put in place of
the properties of a run's configuration: `ReopenedRangeIsVisible` (MCBooking; the
rederivation does not see the range the reschedule reopened), `DailyLimitHolds`
(MCBooking with `Policies <- LimitedPolicy`; the cancellation a reschedule computed
early overwrites a later one and takes back time that was given away),
`AllAcceptancesLapse` (MCScreening; "Accepted requests become EXPIRED, so the Advisee
has to answer the new questions", but not one accepted between the UPDATE and the
commit), `OneOpenCase` (MCCases; two refund requests for one invoice both find none open),
`ShowsLatest` (MCNotifications; of two messages the row shows the one that commits
last), `ClearedStaysCleared` (MCOffer; a field cleared in English shows the
row's own text), and:

- `EveryBookingHasARoom` (MCBooking; booking-chat-room.ts:18-19 "so a booking never
  commits without its room"): an appointment of
  `createInvoice()` has none until it is rescheduled.
- `CreationMeetsLimit` (MCBookingLive with `SPECIFICATION Spec`): an invoice takes no
  schedule lock, so one that commits between a creation's recheck and its insert makes
  that creation exceed the day's limit.
- `PaidIsHeld` (MCPayment; docs/ER.README.md:65 "SERVICE_INVOICES.status runs PENDING ->
  HELD_IN_ESCROW -> RELEASED | REFUNDED | FAILED"): nothing but the seeding script and tests
  writes HELD_IN_ESCROW. `paymentCallback()` dates the charge and leaves the
  status, so a paid invoice stays PENDING, and fails when its time to be paid is over.
- `VerifiedIsAdvisor` (MCAccounts; identity-verification.repository.ts:204-206 "The
  identity is never VERIFIED without user.role = 'advisor', nor the other way round"): an
  admin keeps 'admin' by the lines that follow, and `set-role` writes the role alone.
- `DeletesOnlyUnnamed` (MCAccounts; docs/api-spec.md:332-333 "The API rechecks upcoming
  appointments inside the deletion transaction and returns 409 ... while any remain"): an
  invoice for the Advisor's Service waits for no row of the deletion and commits between
  the recheck and the erasure.
- `ApprovedWhatWasSeen` (MCAccounts; a SUBMITTED document "is not swapped out from under
  the reviewer"): rejected and submitted anew it is, and the approval names the person only.
- `AdvisorsTextKept` (MCOffer; advisors.repository.ts:142 "Locked, so two partial edits at
  once cannot each merge over stale text"): the second edit waits for the first, then
  merges the translation its statement had read before, and the first one's field is lost.
- `DeletedReadsAsPlaceholder` (MCOffer; users.repository.ts:189-190 "The translations go
  too, or a reader in their language would still see the old headline"): an edit under way
  inserts a translation after they are deleted.

Met while modelling, without a property: a reload of the return page may move the
moment recorded first (`RecordOutcome` writes by id what `Callback` read;
payment.service.ts:278-282 says the first moment is kept); an appointment of an
invoice carries no buffer (`Draft`; ER.README.md:53-54); on a day the Advisor's
clock goes forward, one window or period that begins or ends at a skipped time
refuses the whole search (`Converted`), and when it goes back, one that ends at a
repeated time is off by the change (`RepeatedHour`); the losing one of two reviews
meets the primary key and answers 500 where api-spec.md:874-876 says 409.

## 5. The proofs

Every safety property and every action property that a passing run checks is proved of
the specification itself, for any number of sessions, ids, people, Services,
rows and messages and any policies, and so are the three refinements. Each is
a theorem `Spec => ...` that follows from an inductive invariant, of which the
types are a part. Liveness alone is left to TLC (5.4).

### 5.1 The invariants and why they are needed

**BookingProofs.** `NoOverlap` is not inductive by itself: an insert is checked
against the table its statement sees, while its transaction also carries an
uncommitted cancellation of the original. `IInv` adds that a request between
`AcquireLock` and its end holds its Advisor's lock (`HoldsLock`), that the id it
will insert is unused and its own (`IdsAreFresh`), that live rows block
(`LiveRowsBlock`), and that the original, with the cancellation to be written,
still fits the table (`OriginalsFit`): nobody else inserts for this Advisor
meanwhile. From it `TypeCorrect`, `BookedTimeIsDisjoint` and `ScheduleLockExcludes`.

`LedgerInv` adds what each draft will have written: the room of a replacement is
its original's, no other booking of that room is live, rooms are named after
bookings and agree on who is in them (`DraftsOK`, `RoomsAreNamed`, `RoomsAgree`; a
booking without a room is an invoice's and
alone in its chain until a reschedule opens one),
and nobody was told before the payment (`ToldAfterPayment`). From it
`EveryBookingHasItsRoom`, `ChainHasOneLiveBooking`, `NoticeDecidesTheTime`,
`ConfirmationToldOnce`, `OthersAreLegal`, and `Refinement`: one lemma per action
shows a step of Calendar or a stutter.

`LimitInv` adds that the committed rows are finitely many and that from the
derivation to the insert the day still has the room that was derived
(`RoomIsLeft`): the lock keeps the insertions of `bookings` out, and a reschedule of
the same Advisor too; the invoices that commit meanwhile are what the theorem leaves out
(`InView`: everything but those). `DailyLimitsAreRespected` is about a sum over a set of
bookings;
such a sum is proved to be the number of minutes, counted as pairs of a booking
and a minute of it (`MinutesAreSums`), and numbers of pairs can be compared.

**PaymentProofs.** Without a lock the argument is another one: every row a step
writes passed the constraint against the whole new table, and overlap is
symmetric, so pairs of a new and an old row follow from one check
(`ConstraintSuffices`, `TimeSoldOnce`). What a transaction found overdue stays
PENDING and overdue until it commits, because row locks keep any two
transactions apart (`Apart`) and time only grows (`CreatingOK`), hence
`FailsOnlyWhenOverdue`. What a transaction has inserted but not committed stays free
of everybody else's rows, committed or not, up to its commit (`HeldApart`: a
conflicting insert waits or is refused). `NoHalfInvoice` needs that the ids a
transaction reserved are free, its own, and as many as its basket (`WholeInv`,
`WholeBasket`), and that a failure after any of its inserts drops all of them; a
mutant that inserts through the pool instead of the transaction
(`InsertThroughPool`) leaves appointments behind.

**ScreeningProofs.** What a request read may be out of date when it is used; what
is still true is that its answers fit a list that was once asked (`VisitOK`,
`Fits`), that new questions are nobody else's before they are committed, and
that no bell rang early (`BellsOK`). From it `KeptAnswersFit` and `GateHolds`, and
with it `Refinement` (ScreeningDesk): the requests that a replacement lapses are those
accepted when its second UPDATE looked, and none of these is ruled on again.

**AccountsProofs.** `LocksOK` ties each row lock to the step of its holder and to
what that holder read under it; `DocumentsOK` says of every object whether it is
stored, who names it and who still holds it, faults included. From them
`RecordsNameStoredObjects`, `NoOrphans`, `RoleIsEarned`, `DeletionIsFree` and
`RulingsAreFinal`. `DeletionIsFree` is about the appointments that were booked,
whose insert waits for the user row; of those that were sold it says nothing, as the
code promises nothing. `RoleIsEarned` holds of the code as it is, admins and `set-role`
included.

**CasesProofs.** `RequestOK` keeps what an answer claims true until it is given
(`AnswersStand`). `Bounded` counts open cases and requests about to open one
together: the sum never grows past the number of requests (`CasesAreBounded`).
`Refinement` maps the four queues to Docket.

**NotificationsProofs.** What the `INSERT ... ON CONFLICT` of a transaction met
stays so until it commits (`InsertedOK`), as no two transactions write one key
(`OneWriter`): `OneUnread`, `LanguagesAgree`. `DevicesOK` relates subscriptions to
the deliveries under way: `PushesReachTheirOwner`. For the room of Chat, `OnTheWay`
says how far a send has brought its message to each member who is owed it (on a
socket, out of the room, or on the list to be told) and `ListedWereHere` that nobody
on that list was away throughout: `NobodyFallsBetween`, `MuteIsKept`.

**ReadsProofs.** One part for each of the modules that are read.
- Access: a cookie's role was held as many ticks ago as the cookie is old
  (`CookieIsDated`), so `AnswersAreRecent`.
- ChatFeed: the cursor stands behind what was seen and ahead of what is due, but
  for the rest of its millisecond (`WalkOK`): `NoMessageTwice`, `OnlyTiesAreMissed`,
  `MarksOnlyAdvance`.
- Listings: the rows already seen rank before the page that is read next and those
  still owed behind it, but for the ones a change has moved across (`VisitInv`):
  `PagesShowAllOnce`, `NoEmptyPage`, for pages of any size and any number of changes.
- Offer: what a save or a deletion carries still holds of the row it locked
  (`OfferInv`: `SchedulesStayWhole`); a text that an edit carries has the fields it
  names and every other one as `kept` had it when it read (`Carries`), whether it holds
  a lock or not, so what is kept still stands (`KeptStands`, `SourceOK`: `TextsAreKept`,
  for every kind of text and the deletion of an account); what a search read
  of each table was current at some moment since it began (`SearchInv`:
  `SlotsShownAreExact`).
- Slots: windows merged from left to right cover the same times as the windows
  given, for any finite lists (`MergedRanges`, by induction over the ranges
  absorbed); three rounds find an instant of every time a clock shows and refuse
  just the times it skips (`ConversionFindsTheTime`, any offsets, any change);
  and the slots derived are exactly the free time by the wall clock
  (`SlotsExactWhateverTheClock`).

**SchedulingPoolProofs.** Each connection in use is with a request that stands
where it needs it and no request has two transactions (`IInv`). By the pigeonhole
principle two of the connections of a full pool larger than the number of sessions
are with one session, which therefore has its read and waits for nothing.

### 5.2 Assumptions and hypotheses

The theorems rest on the named `ASSUME`s only, each evaluated by TLC in the runs of
its module. Beyond types, and that `None` and its like are none of the values:
- an invoice's basket is finite and not empty (`PaymentAssumption`): with no start
  times drizzle's `values([])` throws before anything is written, so such a call is
  one that fails;
- requests in flight, rows, messages and inputs are finitely many wherever
  something counts them (`CasesAssumption`, `ScreeningAssumption`,
  `NotificationsAssumption`, `FeedAssumption`, `ListingsAssumption`,
  `PoolAssumption`), as in any process and any table. Booking does without: that
  its committed rows are finitely many is proved;
- ids of different tables differ (`CasesAssumption`, `OfferAssumption`): they are
  UUIDs, and nothing relates those of two tables;
- windows lie within the day, midnight is on the grid and a duration is positive
  (`SlotsAssumption`, `OfferAssumption`: `assertWindows` refuses windows off the grid
  or past the day, a `CHECK` of `services` durations that are not positive);
- every permission that a route asks for is granted, and no role may both file
  and decide a matter (`AccessAssumption`): constant facts of the two tables,
  computed from their definitions.

Two theorems have hypotheses of their own. `LargeEnoughPoolKeepsMoving` assumes fewer
sessions than connections, which the code does not enforce (MCPoolExhausted shows
what happens otherwise). `SlotsExactWhateverTheClock` assumes that the clock
changes by whole steps of the grid, which is half an hour and the least that
zones change by today, and that each time the search converts is shown once; `RepeatedHour`
shows on two examples that the slots are wrong without the latter, and
`SlotsShownAreExact` is for days without a change.

### 5.3 Induction

The library's induction theorems take a predicate as a parameter, which the
provers cannot instantiate. `Induct` (BookingProofs and ReadsProofs) states
induction for a *set* of numbers instead and follows from the well-foundedness of
`<` on the naturals by a least counterexample. The folds of the merge
(`StepsExist`) and the sums of the daily limit (`SumIsCount`) are proved with it;
finite maxima likewise.

### 5.4 Only model-checked

- `EveryRequestAnswered`, of Booking and of the pool: liveness under fairness, which
  the prover does not reach. `LargeEnoughPoolKeepsMoving` is the safety half of
  the latter: as long as it holds somebody can move.
- The examples of `RepeatedHour` and the table `ShownCanBeActedOn`, which are finite
  and closed: evaluating them is their proof. `SlotsAgree`, `ClockAgrees` and
  `SlotsAgreeOnClockChanges` are small instances of theorems by now, and guard the
  definitions of both sides against a slip.
- What the code does not keep (section 4) has counterexamples and no theorem.

## 6. Plan

1. What stays true where section 4 shows a promise broken: as many pending invoices
   of an Advisee as the limit and the requests in flight allow, as
   `OpenCasesBounded` has it for refunds; personal data and sessions of a deleted
   account only from requests let through before it.
2. Abstract specifications of Notifications (a mailbox per person) and of the
   schedules of Offer (a register that is written at once), refined by the
   models there are, as Booking, Screening and Cases refine theirs.
3. Payment and Booking write one table: a common abstract calendar that both
   refine.

## 7. Not modelled

- Privacy consents: one upsert on (user, policy version), nothing to interleave.
- Password, OAuth, e-mail and session handling: better-auth's. What the code
  relies on (the session row, the cookie, a sign-in under way) are external steps
  of Accounts and Access.
- Customers and saved cards at Omise: one upsert after a call of the provider.
- HTTP plumbing (filters, interceptors, validation, response DTOs), configuration,
  health checks, mock data and the seeding script: no state that requests race on.
- Texts, prices, names, photographs and amounts, wherever no property is about them.

## 8. Running

In this directory, `tlc -config MCBooking.cfg MCBooking` (likewise for every row
of sections 3 and 4: a configuration runs the `MC` module whose name it begins
with, and MCPool and MCPoolExhausted the module SchedulingPool itself), and
`tlapm BookingProofs.tla`, likewise `PaymentProofs`, `ScreeningProofs`,
`AccountsProofs`, `CasesProofs`, `NotificationsProofs` (with Chat), `ReadsProofs`
(with Access, ChatFeed, Listings, Slots and Offer) and `SchedulingPoolProofs`.
ReadsProofs takes several minutes. Definitions commented "Variant" are plausible
bugs of the operator below them: put in its place, each makes the property named
with it in `PROJECT.json` fail.
