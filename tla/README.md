# TLA+ models of TutorFlow

TutorFlow runs the work of a private teacher: a schedule, homework, a ledger of
what each student owes, notifications, a chat and live updates. It is a gateway
and nine C++ services; each service owns its tables and talks to the others by
gRPC calls and by events: a row of an outbox written with the change, a Kafka
topic, an idempotent consumer.

These modules model the services whose correctness depends on order: which
statement of which request, handler, worker or replica runs when, what was
committed when it looked, and what happens when one dies or repeats. TLC checks
them on small instances; TLAPS proves the safety properties of all of them, the
compositions included, for every instance.

## 1. The system

| Component | State it keeps | Operations | Hard part | What makes it correct | Module |
|---|---|---|---|---|---|
| lesson-service | slots, lessons, outbox | create a slot; create, complete, cancel, reschedule, reactivate a lesson | a read, then one statement of several CTEs that re-checks only part of it | no overlap in the schedule; a slot carries one lesson and is booked while it does; a lesson is charged exactly while completed | `Lesson` |
| events: outbox, publisher, Kafka, consumer (`libs/events`) | rows pending or published, advisory lock, log, offset | record, tick, poll, handle, commit | replicas that tick at once, a tick that dies after sending, a consumer that lost its partition | no loss, repetition only; per aggregate, an event comes after those committed before its transaction began | `EventStream`, `Outbox` |
| finance-service | append-only ledger, receipts, inbox, outbox | consume lesson events; confirm, reject a receipt; manual correction | concurrent statements that do not see each other; a crash between ledger and inbox | each charge, correction, payment once; a decision is final; balances sent are right | `Finance` |
| assignment-service | assignments, submissions, outbox | create, submit, review; the deadline worker | status checked by a read and not by the statement; `SKIP LOCKED` | status backed by a submission; no answer overlooked; deadlines act | `Assignment` |
| notification-service | notifications, inbox, outbox | consume domain events, mark read | two replicas with one event | one notification and one push per event | `Notification` |
| report-service | one row per entity, counters, teacher summary, inbox | consume every domain event | counters recounted from a snapshot; whole-second times; a second statement | the freshest event wins; counters match rows; the dashboard catches up | `Report` |
| chat-service | dialogs, messages, read markers, outbox | create a dialog, send, mark read | upserts answered from a snapshot; time of a message is the start of its transaction | markers move forward; nothing unseen counts as read; no internal errors | `Chat` |
| realtime-service | connections with queue and signal; in Redis leases | open, close, ping; push from Kafka and from Redis | drain and wait against a push; last lease and late "offline"; a call of Redis that throws, an offset committed late | no push sleeps in a queue; peers know who is online; no message skipped on a connection | `Realtime` |
| file-service | objects in a storage (local disk or S3), rows of metadata, uploads in progress | upload, read metadata, download, download link | object stored, row refused, object not removed; a statement that fails though it was committed | no row without an object; an object without a row is explained by a failure | `File` |
| identity-service | accounts, teacher-student links, changes of a password in progress | register, log in, create a student, change a password, look-ups | check, then a write of the password that does not check again | one account per e-mail; a password is replaced by somebody who named it | `Identity` |
| api-gateway, `libs/clients`, tokens of `libs/common` | token of each client, request in progress, calls under way | every route: authenticate, call one service or two, answer | a deadline that passes while the handler still runs; what may be sent again | a command takes effect at most once; what is refused has not happened | `Routes`, `Gateway` |
| `libs/proto`, readiness probes | none | - | - | - | not modelled |
| frontend, deployment, scripts | none here | - | - | - | not modelled |

How they interact:

```
 request -> gateway -> gRPC -> lesson, finance, assignment, chat, ...
                                   | one statement: row + outbox
                                   v
                              outbox tick -> Kafka (key = aggregate)
                                   |
     +-----------------+-----------+-------------+------------------+
     v                 v                         v                  v
 finance: ledger   notification: inbox     report: read model   realtime: push
     | outbox          | outbox
     +---> Kafka <-----+
```

* The gateway keeps no state but calls under way. A handler of a service runs on
  when the gateway has given up waiting for it; reads are sent again, commands
  are not (`libs/clients`, the tables in `Routes`). `gateway_requests` checks what
  follows from that for the client.
* Every producer writes its event in the statement that makes the change. The
  publisher of each replica ticks once a second under one advisory lock.
* Every consumer may see an event again: after a failed tick, a failed handler,
  a lost offset commit or a rebalance. What makes it idempotent differs per
  service, and that is what is checked: a unique index (charges,
  notifications), an inbox written in the statement (corrections, reports), a
  row status (receipts).
* Statements run at READ COMMITTED: they see what was committed when they began.

## 2. How the modules correspond to the code

A common shape runs through the service modules. A database row is an entry of
a function, a statement is one action (autocommit, CTEs included), and where
two statements that overlap can influence each other, the action is split in
two: the statement takes its snapshot and, later, commits. A request or handler
between two statements is a record in `call`, `task` or `handling`: it holds
what the code keeps in local variables. A command that its first read already
answers changes nothing and is not an action. Crashes and kills drop that
record and nothing else. `outbox` is the list of rows of `outbox_events`.

| Module | Code | Notes |
|---|---|---|
| `Lesson` | `lesson-service/src/repositories/lesson_repository.cpp`, `domain/lesson_service.cpp`, `migrations/lesson` | `ReadFor...` is `FindLesson` with the checks after it; `CompleteLesson` ... are the statements. `RescheduleLesson` and `ReactivateLesson` let each CTE act on its own, as PostgreSQL does. `owed` is a history variable: what finance would charge for the events emitted so far. |
| `Outbox` | `libs/events/src/outbox_publisher.cpp`, `event_consumer.cpp` | `StartTick`, `Send`, `FinishTick`, `AbortTick` are one `PublishPending`; `Poll`, `Handle`, `CommitOffset` are one batch of `EventConsumer`. The Kafka broker is external: a log, one owner of the partition, one committed offset. |
| `EventStream` | the promise of the above | the abstract specification. `before` keeps, for each event, the events of its aggregate that were committed when its transaction began: the order the stream owes is after those, and no more. |
| `Finance` | `finance-service/src/repositories/finance_repository.cpp`, `domain/finance_service.cpp`, `consumers/lesson_completed_consumer.cpp` | `BeginStatement` takes the snapshot the balance is summed from; the statement actions test unique indexes and row locks against what is committed by then. |
| `Assignment` | `assignment-service/src/domain/assignment_service.cpp`, `repositories/assignment_repository.cpp`, `workers/deadline_worker.cpp` | a review updates the submission its snapshot shows as latest; the worker may pass over locked rows. |
| `Notification` | `notification-service/src/consumers/domain_event_consumer.cpp`, `repositories/notification_repository.cpp` | who is told of what, and the unique index on user and source event. |
| `Report` | `report-service/src/repositories/report_repository.cpp`, its consumer | `Begin` takes the snapshot the counters are counted from; `RefreshTeacherSummary` is the second statement. |
| `Chat` | `chat-service/src/repositories/chat_repository.cpp`, `domain/chat_service.cpp` | an upsert sees the conflicting row as it is, and everything else as it was; a reader pages back through the dialog while others send. |
| `Routes` | `api-gateway/src/handlers/proxy_handlers.cpp`, `api-gateway/src/clients` | constant tables: for each route the RPCs of its handler in order, for each client what it repeats, for each RPC the roles that may call it. |
| `Gateway` | `proxy_handlers.cpp`, `libs/clients`, `libs/common/src/jwt.cpp` and `auth_context.cpp` | `Begin` authenticates and sends the first call; `Receive` and `Deadline` end one and lead to the next call, a retry or the answer. `Deadline` leaves the handler running: its `tie` to the request is "abandoned". `carried` counts how often the command of a request has taken effect. An RPC of a service other than `Identity` and `File` is one step that is done, refused or failed. Refused means without effect where the service changes everything in one statement or nothing; the four `Untidy` commands of `Routes` may be refused and leave part of it behind, and what their refusal tells a client is "unclear" (`Told`). |
| `Identity` | `identity-service/src/domain/identity_service.cpp`, `repositories`, `grpc` | a change of a password is two statements, `ReadForChange` and `UpdatePasswordHash`. A hash stands for the password it hashes, a token for its account. |
| `File` | `file-service/src/domain/file_service.cpp`, `storages`, `repositories`, `handlers` | an upload is three steps, each of which may fail with or without effect; a failed insert is compensated. |
| `Realtime` | `realtime-service/src/ws`, `redis`, `kafka` | the handler of a connection at each of its suspension points; the two Lua scripts are atomic. `Open` is registration and first script in one step, `Disconnect` removal and last script: no other process sees the difference. `PublishToUser` ends the handler of an event, `HandlerFails` is a call of Redis that throws in it, after which the same replica reads again from the committed offset; `Commit` is the `AsyncCommit`, at any later time or never. There is no inbox. |

Three modules compose others, with `INSTANCE ... WITH` or by extending one:

* `Gateway` = `Routes` + `Identity` + `File`: from the request of a client to its
  answer, with the handlers of the two services running meanwhile.
* `Billing` = `Lesson` + a partition with the guarantees of `EventStream` +
  `Finance`: from completing a lesson to the debt of the student. It extends
  `Lesson`, whose state and actions it adds to, and has an instance of `Finance`.
  Prices are numbers here, rounded as `NUMERIC(12, 2)` rounds them. Lessons are
  created without a slot, each at one range (`Times`).
* `Homework` = `Assignment` + the partition + `Notification`: from a command or
  a deadline to the notification.

`Outbox` states that it implements `EventStream` (`StreamSpec`), with the rows
committed and the events first handled as the abstract state. That is why the
compositions may take the partition as a log that is handled in order, at least
once, with redelivery at any time. That the log has the events of one aggregate
in the order of their commits is more than `EventStream` promises; section 4 says
when it may fail and what that would change.

The `MC...` modules give constants their values. Definitions called `...Fault`
are seeded bugs: forms the code could have had, each of which breaks a property.

## 3. What the runs check

| Run | Instance | What it shows |
|---|---|---|
| `gateway_requests` | a teacher and a student, each with a menu of the nine routes that differ in kind, an untidy command among them, 3 requests, 3 handlers, 2 faults (deadlines, dead handlers, failed storage or statements) | `RefusedUndone`: what is answered with a 4xx has not happened and will not, the refusal of an untidy command apart; `CarriedOutOnce`; `PasswordInTurn`; `RowBackedInTurn`, `OrphansExplained`. Deadlock is checked: every request is answered and every call ends. |
| `lesson_slots` | 2 lessons, 3 slots of two teachers, 2 overlapping ranges, 2 commands at once, reschedules in time but not to another slot | `TypeOK`, `NoOverlap`, `SlotHeldOnce`, `BookedIffHeld`, `SlotOfTeacher`: the schedule and the slots are right whatever the two commands do to each other. `OwedIffCompleted`: the events, each applied once, charge a lesson exactly while it is completed, and never more if a stale reactivation has made it relapse (section 4). `RefusedChangesNothing`: a command answered with an error has no effect. |
| `lesson_refused` (violation) | 1 command at a time, reschedule | `HeldSlotBooked` fails: see section 6. |
| `outbox_stream` | 3 rows of 2 aggregates, whose transactions may overlap, batches of 2, 2 publishers, 2 consumers, 1 failure anywhere | `OffsetHandled`, `KeysInOrder`, `NoStaleSend`, and `StreamSpec`: the implementation of `EventStream` with its liveness. |
| `finance_ledger` | a lesson completed under two event ids and cancelled in between, a receipt, a manual correction, 2 handlers, any redelivery, crash anywhere | `OneCharge`, `OneCorrection`, `PaidIffConfirmed`, `DecisionFinal`, `InboxApplied`; `BalanceExactInTurn`: balances are right as long as no two statements have overlapped. |
| `finance_balance` (violation) | the same with one event | `BalanceExact` fails: see section 6. |
| `billing_books` | 1 lesson, 2 commands on it at once (all but reschedules), up to 6 events, 2 handlers, 1 crash, any redelivery | `DebtBounded`: a student never owes a lesson twice or less than nothing; `SettledWhenQuiet`, `Settles`: the ledger holds exactly the completed lessons once all events are handled, and that happens. Of a lesson that has relapsed the ledger holds at most that. |
| `billing_tiny` (violation) | a lesson at 0.004 | `Settles` fails: see section 6. |
| `homework_deadline` | 1 assignment with a due date, 2 commands at once, 2 submissions, 2 handlers, 1 crash | `ReviewBacked`, `AnswerAwaitedInTurn`, `NotifiedOnce`, `DeadlineActs`: overdue work expires and the student is told. |
| `report_dashboard` | 2 lessons, 1 assignment, a balance, up to 3 events in 2 seconds, 2 replicas, 1 redelivery or kill | `FreshestWins`, `SummaryExactInTurn`, `DashboardCatchesUp`. |
| `chat_dialog` | 2 participants, 3 requests at once, 2 messages, pages of one | `ReadsForward`, `NothingUnseenInTurn`, `AnsweredInTurn`; `NoneSkipped`: a reader that pages back misses nothing that was there when it began. |
| `realtime_push` | 2 replicas, 2 connections of one user; 1 fault: a call of Redis that throws, a lapsed lease, a rebalance, a kill, a lost publication; offsets committed at any time or never. Connections open and close up to 3 times while a message is pushed, or 2 messages and a read marker are pushed to one connection until the order is broken | `TypeOK`, `NoLostWakeup`; `PresenceInTurn`: peers know who is online; `ReceivedInOrder`: between two messages a connection gets it misses none, and only a handler that threw makes one come again. |

Properties named `...InTurn` hold until a race that the code does not exclude
has happened. The race is recorded by a history variable of the module (`overlapped`,
`unsettled`, `late`, `firstRaced`, `missed`, `uncertain`), and the property says
that nothing else can break the statement. `relapsed` tells for each lesson whether
its books are exact or only bounded; `broken` and `failed` tell which faults the events of
realtime-service have met, and `before` what the stream owes of their order.

### Bounds

* Races here are between two statements, handlers or replicas, so two of each
  suffice for a first occurrence; the chat has three requests, because a lost
  race is answered by a second statement. The proofs of section 5 hold for any
  number.
* Two lessons and two ranges give overlapping and disjoint schedules, one slot
  contended and one spare. The books of two lessons have nothing in common but
  the partition, so `billing_books` spends its states on two commands that race
  on one lesson. Two users, two connections on different replicas
  give every combination of first and last lease.
* `MaxEvents`, `MaxPending`, `MaxMessages`, `MaxSubmissions`, `MaxOpens`,
  `MaxSecond` bound what grows without end. Each leaves room for the cycles
  that matter: complete, cancel, restore and cancel again; complete, cancel
  and schedule again by a stale reactivation; submit, review,
  resubmit; a batch and the rest of it; two events of one second.
* `MaxFailures`, `MaxCrashes`, `MaxFaults` bound failures, at any point. The
  liveness properties need failures to stop; the safety properties do not
  depend on their number (`Finance` has no such bound).
* The gateway has three handlers, so that an abandoned call, a call of the next
  request and one of the other client can be under way together. The menus have
  routes of each kind: open, reading, creating, with two calls, for one role.
* All runs but `gateway_requests` have `CHECK_DEADLOCK FALSE`: with all bounds used up, and nothing left
  to do, the models stop. So does the system without requests.

### Fairness

* Publisher and deadline worker tick for ever on every replica
  (`utils::PeriodicTask`): weak fairness of a tick of some replica, since the
  lock excludes the others.
* Consumers poll for ever, and an event whose handler fails is delivered again:
  `Outbox` takes weak fairness of each consumer; `Billing`, `Homework` and
  `Report` take strong fairness of the next delivery, because redeliveries may
  occupy the handlers in between but do not recur without end (each needs a
  failure or a rebalance).
* A handler or statement that has begun ends unless it is killed: weak fairness.
* `Lesson`, `Finance`, `Chat`, `Realtime` and `Gateway` alone have safety
  properties only and assume no fairness.
* Requests of users are never assumed. `Settles` therefore speaks of behaviours
  in which lessons stop changing, as they must under the bound.

## 4. What the code does and does not promise

While modelling, several statements turned out to hold only in part. Those with a
run of their own are in section 6; these are kept out of the properties, or are
the races their history variables record.

* A creation from a slot with an inverted range is refused, but books the slot
  (`lesson_repository.cpp`, `booked_slot`). The frontend sends a start and a
  duration and never asks for one; the runs have proper ranges only, and
  `RefusedChangesNothing` is checked for those.
* Lesson-service's README (line 52) says that a completed lesson is restored as
  completed. The target status is taken from a read, and the statement tests only
  that the lesson is cancelled (`lesson_repository.cpp:525-549`): a reactivation
  that read the lesson before it was restored, completed and cancelled again puts
  it back to scheduled. It can then be completed again, for which finance has a
  charge already and adds none, although the cancellation in between has been
  credited; the next cancellation credits the student once more. Such lessons
  are in `relapsed`. `OwedIffCompleted` and the properties of `Billing` say of
  them that the student is charged at most what is due; `LessonSlots.cfg` and
  `BillingBooks.cfg` reach them.
* Of two concurrent completions the second is answered "lesson not found", where
  lesson-service's README speaks of the state already reached.
* A refused reschedule or reactivation may have opened or booked a slot, a refused
  creation have booked one, a refused review left its comment: the `Untidy`
  commands of the gateway, for which `RefusedUndone` promises nothing.
* Two concurrent rejections of a receipt emit `payment.rejected` twice.
* The publisher sorts by `created_at`, the start of the transaction, which
  precedes the wait for a row lock: of two commands on one lesson, assignment or
  dialog that overlap, the second to commit may be the first to be published,
  where lesson-service's README (line 98) says that the events of a lesson keep
  their order because they share a partition. What the outbox does promise, and `outbox_stream` checks with
  overlapping transactions, is that an event comes after those committed before
  its transaction began. For the books that settles the pair that matters: the
  command that emits a correction has read the completed lesson before its
  statement began, so the charge comes first. `Billing` and `Homework` nevertheless take
  the events of one aggregate in commit order throughout; inversions such as a
  cancellation that waited for the lock of a restoration are not in them. `Report`
  has logs that tell such pairs the other way round (`Follows`), and its dashboard
  agrees with what they tell last, which need not be what happened last.
* A submission accepted by the read is written even if the assignment has
  expired or been accepted meanwhile; a review that overlaps a submission may
  leave the new answer with the status of the old one. A review without a
  submission is refused, but its comment stays.
* The teacher summary of report-service is a second statement, which a
  redelivered event skips: a kill in between leaves it stale until the next
  event, though that README calls the update atomic. A lesson cancelled and
  restored within a second stays cancelled there. Counters recounted by two
  replicas at once miss one row.
* The first read marker of a user set by two requests at once answers one of
  them with an internal error. A message that appears before an older one makes
  the older one count as read unseen.
* A command answered with a 5xx may have been carried out, or may be later, by a
  handler the gateway no longer waits for; nothing tells the client which.
* Of two changes of one password at once, both verify the old one and the later
  write wins, although its author did not name the password it replaces.
* The insert of a file's row that is committed but reported as failed leaves a
  row whose object the compensation removes. An object whose removal fails, or
  whose handler dies before the row, stays for good: nothing looks for it.
* Keyset paging compares `created_at` alone: of two messages of one microsecond
  on the border of two pages the second is skipped. `Chat` gives messages
  distinct moments.
* "Offline" of a closed connection may reach the peers after "online" of the
  next one; a client that falls silent beyond two leases is never announced as
  offline.
* A message may be pushed twice, and the unread badge count it twice: realtime-service
  has no inbox, so after a handler that threw it takes again all it has handled
  since the offset was last committed, and an event that a rolled-back tick sent
  is in the topic twice. A client may also miss one: after a rebalance, a kill or
  a publication that Redis lost. `ReceivedInOrder` promises what is left: as long
  as none of these three happens a connection skips nothing, and it gets things
  again only if a handler has thrown; the log of `Realtime` has each event once.

## 5. What is proved

`tlapm` checks every proof; sets of teachers, lessons, slots, handlers,
replicas, connections and every bound are arbitrary, under the named `ASSUME`s
of the modules only.

Of `Lesson` (in `BillingProofs`) - assumptions: every lesson and slot has an
owner, ranges are pairs of integers, `None` is no id.
* `TypeCorrect`: the type invariant.
* `ScheduleNeverOverlaps`: `NoOverlap`. It is inductive with the type
  invariant, since each statement that schedules tests the exclusion constraint
  at the end. Commands may race without limit.
* `OwedExactly`: `OwedIffCompleted`, with commands that race at will. What a
  command has read may no longer hold when its statement runs, except that a
  reactivation to completed is one of a lesson that has been completed
  (`CallsSound`); and `completed_at` tells whether a lesson has been
  (`CompletionRecorded`). A reactivation to scheduled that comes too late is what
  makes a lesson relapse, and the only thing; its next completion adds at most the
  price, every other event exactly what is due, hence the bound.
* `SlotsExclusive`, if no lesson is rescheduled to another slot: `SlotHeldOnce`
  with `HeldSlotBooked`, which is what makes a statement that finds a slot open
  sure that it is empty, and `CallsKnowSlot`: a delayed reactivation still knows
  the right slot.
* `BookedExactlyWhileHeld`, for proper ranges in addition: `BookedIffHeld`. The
  other direction is `Carried`: a slot that becomes booked gets an active lesson,
  and an active lesson that leaves its slot leaves it open (`KeepsCarried`).
* `RefusalsChangeNothing`, likewise: `RefusedChangesNothing`. A reactivation books
  its slot even if it does not update its lesson; that this never shows is due to
  `HeldSlotBooked` and `CallsKnowSlot` again, since a slot found open is then the
  slot of a cancelled lesson.
* `SlotsStayWithTheirTeacher`: `SlotOfTeacher`, with no hypothesis.

Of `Billing` (in `BillingProofs`) - assumptions: those of `Lesson`, prices asked
for are positive, each lesson is created at one of the ranges.
* `LessonsImplemented`: `Billing` implements `Lesson`, with lesson-service's own
  variables and nothing mapped: what the stream and the consumers do changes
  none of them. With it `BilledExactly` follows from
  `OwedExactly`.
* `DebtStaysBounded`, `SettledBooks`: `DebtBounded` and `SettledWhenQuiet`. The
  argument has two halves.
  The stream (`StreamInv`): events published and events pending are one
  sequence; `Told(l, n)`, what its first n events put into a ledger that applies
  each once, is `owed` after the last of them, at most the price after each and,
  for a lesson that has not relapsed, 0 or 1 times the price after each. Of the
  completions of a lesson only the first has an effect (`Effect`), since a later one finds the charge;
  lesson-service tells the first by its `completed_at` (lemma `StepSays`).
  The books (`BooksInv`): the ledger holds of each lesson, relapsed or not, what the
  events up to
  `Front` have told. `Front` is the offset, or one more as soon as the next
  event has its row in the ledger and not yet its mark in the inbox, the moment
  between the two statements of a handler (`Ahead`). Events behind the offset
  have had their effect, and only those up to the next have, so a handler late
  by any number of events, or alive after its partition has moved on, finds the
  unique index or the inbox in its way. When nothing is pending, `Front` is the
  end of the stream and `Told` is `owed`.
  A correction that takes effect is therefore one of the next event, and the
  front moves on with the row it enters.

**`FinanceProofs`** - assumptions: an event names a lesson, amounts are
integers, ids of manual corrections are not ids of events.
* `ChargedOnce`, `CorrectedOnce`, `PaymentsMatchReceipts`, `MarkedIsApplied`,
  all from `LedgerInvariant`. The strengthening: a handler about to mark an
  event has its charge in the ledger (`TaskSound`), so that a crash at any
  point loses nothing; and an event not in the inbox has corrected nothing
  (`CorrectedIsProcessed`), so that the inbox alone stops a repetition.
* `DecisionsStand`: `DecisionFinal`, from the same invariant: only a statement
  that decides on a receipt announces a decision.
* `BalanceAnnounced`: `BalanceExactInTurn`, for a ledger of any length. While
  statements take turns, the snapshot of the one that runs is the whole ledger
  (`TakeTurns`), and each step enters one row and tells one balance, or neither
  (`Moves`). The sum is a recursive function; that it exists, obeys its
  equations and depends on its summands only (`SumsExist`, `PartialSumStep`,
  `PartialSumSame`) is proved by the least counterexample, since the induction
  theorem of the library takes an operator. `BillingProofs` uses the same lemmas.

**`RealtimeProofs`** - assumptions: connections have a replica and a user,
`FirstOwner` is a replica, `None` is no connection, the log is a sequence.
* `TypeCorrect`, `WakeupsKept` from `PushInvariant`: a push under way only
  lists connections that are open at its own replica (`JobSound`), and whoever
  has appended to a queue has yet to ring or has rung.
* `PresenceTold`: as long as presence is settled, at most one handler of a user
  is between script and message, and the leases already say what its message
  will say (`PresenceSound`).
* `NothingSkipped`: `ReceivedInOrder`. As long as the partition stays where it is, no
  replica dies and no publication is lost, only the owner takes events from Kafka
  (`OwnerInv`), and each connection has one producer that pushes to it. Followed
  back from what a connection has received, through its queue (`Gapless`), the
  push under way (`Ordered`) and the channel of its replica (`ChannelSound`) to
  the position of the owner, each two neighbours are related by `Reaches`: nothing due lies
  between them, or the later has been come to again after a handler threw. That
  relation is composed and weakened by five small lemmas, and offsets committed
  late, or never, do not matter to it.

**`HomeworkProofs`** - assumptions: assignments are finitely many, those with a
due date among them.
* `StatusBacked`: `ReviewBacked`. A review writes its verdict on the submission
  its snapshot found, and that submission must still be there (`FoundStays`);
  there is a latest one to find, or none (`HasLatest`), without which `Latest`
  would have no value. That the submissions of an assignment are finite is not
  needed, nor is the bound on their number.
* `AnswersAwaited`: `AnswerAwaitedInTurn`. As long as no review and submission of
  one assignment have been in their statements at once, what a review has seen as
  the latest submission still is (`SeenSound`).
* `ToldOnce`: `NotifiedOnce` is inductive once every notification is known to go
  to the recipient of its event (`NotifyInv`): the unique index on user and
  event is then one on the event. Nothing is needed about handlers in progress,
  because the statement itself tests the index.
* Each step of `Homework` is a step of one part and leaves the other alone, so
  the invariants of the parts carry over; what is new is that whatever is
  delivered is an event the notifications know (`OutboxTyped`).

**`ReportProofs`** - assumptions: entities of different kinds and students have
different ids (rows of different tables; `KindAssumption`), every entity has a
student.
* `RowsAreFreshest`: `FreshestWins`. The upsert replaces a row only by an event
  not older and, in the same second, not lower in rank; with `RowsFreshest`, which is
  the property itself over the inbox as it grows, that is inductive once the
  events in the logs are known to have a moment and a rank (`TypeInv`).
* `CountersExactInTurn`: `SummaryExactInTurn`. While replicas take turns, what a
  statement has seen of the rows is what is there (`SeenIsNow`), and counting the
  other rows and adding its own counts them all (`RecountExact`).

**`ChatProofs`** - assumption: `MaxMessages` is a natural number. That a dialog
has two participants is not used.
* `NothingUnseen`: a marker stands at a message that is there
  (`MarkersThere`), no two messages have one moment (`FreshMoments`), and as long as
  none has appeared late, a request to move a marker saw all it will mark
  (`SawAll`).
* `Answered`: as long as no reader without a marker has asked twice at once,
  such a request is the only one of its reader (`Alone`), so the upsert finds
  what its snapshot showed.
* `MarkersMoveForward`: `ReadsForward`. The last event of a reader tells of its
  marker, and an upsert writes one only if it moves the marker on.
* `PagingSkipsNothing`: `NoneSkipped`, for pages of any size.

**`OutboxProofs`** - assumptions: an event has an aggregate, batches are not
empty, `None` is no replica.
* `OffsetsNeverSkip`, `NothingStaleSent` from `StreamInv`: only the leader is in
  a tick, and its rows are pending (`TickInv`); behind the position of every
  consumer, and behind the committed offset, all is handled (`ReadInv`).
* `StreamInOrder`: `KeysInOrder`, for transactions that overlap at will. What
  was committed when a transaction began has an older stamp (`RowInv`); so a tick
  that takes a row takes those before it that nobody has marked (`BatchInv`);
  so before any event in the log are those before it (`LogInv`), and what a
  consumer handles for the first time has them behind it (lemma `BeforeIsHandled`).
* `ImplementsStream`: initial states and steps of
  `Outbox` are initial states and steps of `EventStream`, or change nothing it
  shows. The liveness of `EventStream` stays with TLC.

**`GatewayProofs`** - assumptions: clients use routes of the table, what a
request names is typed, tokens are of accounts, `None` is no route and no user.
* `AtMostOnce`, `RefusedIsUndone`. Of the calls of a route only the last may
  change anything (`WellFormed`, from the tables of `Routes`), and no client
  repeats such a call (`ReadsOnly`). So one handler at most may still carry out
  the command of a request, and none may once it is carried out or refused
  (`CallInv`). `RefusedIsUndone` is about every command but the untidy ones, for
  which it would be false; that the others change all or nothing is read off
  their single statements and is part of the model, not of the proof.
* `RowsBacked`, `OrphansAccountedFor` from `PlaceInv` and `FileInv`: keys of
  uploads in progress are distinct and issued, and each upload knows whether its
  object and its row are there.
* `PasswordsInTurn` from `TurnInv`: until two changes of an account have
  overlapped, the password a change has verified is still the one of the row.

Every safety property of a passing run is thus proved, the action properties
`NoStaleSend` and `RefusedChangesNothing` among them, and the safety part of
`StreamSpec`. Only model-checked are `Settles`,
`DeadlineActs`, `DashboardCatchesUp` and the liveness in `StreamSpec`: liveness
under fairness and `ENABLED` are outside the prover. The hypotheses of the
theorems (`"reslot" \notin Ops`, proper ranges) are those of the runs, and without
them the properties fail; section 4 says where the code meets that.

## 6. Disagreements shown by a run

* `lesson_refused`: a reschedule to a slot that is not open is refused, but the
  CTE `reopened` has already opened the slot the lesson keeps. The slot is
  offered again and can be given to a second lesson.
* `finance_balance`: the balance of `balance.changed` is summed from a snapshot.
  Of two overlapping operations of one student the second to commit announces a
  balance without the first. The README of finance-service calls it the balance
  after the operation; the report keeps it until the next one.
* `billing_tiny`: a price of 0.004 passes the check as a double and is stored as
  0.00. Finance refuses the completion of that lesson on every delivery, and no
  later event of the partition is handled.

## 7. What is not modelled

* Data that rides along: texts, prices outside `Billing`, files and comments
  attached, listings, the wording of notifications. Each has one
  writer and decides nothing, except where section 4 says so.
* Translation between JSON and protobuf in the gateway, its settings, CORS,
  headers, request and trace ids: stateless.
* Hashes, tokens and the signature of S3 requests: library code, taken to do
  what it says. Names of storage keys: random UUIDs, taken to be distinct.
* An error that the local storage meets only when its stream is closed
  (`file_storage.cpp:132`, the destructor of the `ofstream`) goes unnoticed there;
  `File` lets a put fail, not succeed without effect.
* Sharding of the chat: which shard a dialog lives on, and the merge of lists of
  several shards; pure functions, planned.
* The unread counters of realtime-service in Redis, incremented with each push of a
  message: a best-effort badge, which a repetition counts twice. Its cache of the
  participants of a dialog: the push of a read marker may be dropped instead.
* The second read of `CreateDialog` (`chat_service.cpp:106-108`), which a replica of
  the database that lags may answer with nothing; with one PostgreSQL host, as
  deployed, it finds the row.
* Receipts in `Report`: part of the module, but the run has none. The rows and
  counters of all entities follow one rule, which lessons and homework exercise.
* Retention, metrics, health checks, migrations as a process, deployment. The
  manifests run most services once and notification-service twice, the
  development setup starts a second realtime-service; the code is written for
  several (advisory lock, `SKIP LOCKED`, fan-out through Redis), and a replaced
  pod overlaps the new one, so the runs have two.

## 8. Plan

Written so far, in this order: `Lesson`, `EventStream`, `Outbox`, `Finance`,
`Billing`, `Assignment`, `Notification`, `Homework`, `Report`, `Chat`,
`Realtime`, `FinanceProofs`, `RealtimeProofs`, `HomeworkProofs`, `ChatProofs`,
`Identity`, `File`, `Routes`, `Gateway`, `GatewayProofs`, `OutboxProofs`,
`ReportProofs`, `BillingProofs`. The theorems about `Lesson` and `Assignment` are
in the modules about `Billing` and `Homework`, whose proofs rest on them.

Left:

1. `Sharding`: the choice of a shard and the merge of pages, as functions
   against a reference definition over small inputs.
2. `Messaging` = `Chat` + the partition + `Realtime`: a message sent is counted
   as unread and pushed in order, a read marker clears the counter.
3. `Report` with receipts and two students.
4. Proofs: that the partition of `Billing` and `Homework` is the `EventStream`
   `Outbox` implements, as a refinement.
5. `Answers`: what the gateway promises a client about the fate of its command
   (done, refused or unknown) as an abstract specification that `Gateway`
   implements, proved from the invariants of `GatewayProofs`.
