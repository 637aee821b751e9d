# Gossip Monger in TLA+

Gossip Monger takes push notifications, emails and user events from RabbitMQ,
sends the first two through OneSignal and Resend, and keeps a local copy of
Verisafe's user directory. This directory models that behaviour, checks it with
TLC on small instances, and proves its safety properties with TLAPS for every
size.

The program is small and mostly sequential. What is hard about it lies between
its processes: the broker redelivers, connections go away under a running
handler, a provider accepts a request whose answer never arrives, a row is
written after the call it protects, and replicas share queues and tables.

## 1. The system

| Component | State | Operations | Interacts with |
|---|---|---|---|
| Consume loop (`internal/broker/consumer.go`, `topology.go`, `publisher.go`, `connection.go`), one goroutine per queue | its channel, the deliveries the AMQP library buffered, the delivery in hand | declare topology, subscribe, receive, call the handler, ack, nack, park | RabbitMQ; calls the handler |
| RabbitMQ (external) | source queue, shared retry queue with a TTL, parked queue, `x-death` headers | deliver, requeue, dead-letter, expire | every replica, publishers |
| Circuit breaker (`internal/resilience/breaker.go`), one per provider and process | closed, open or half-open, with counters | `Execute`, time-out | called by the push and the email service |
| Push handler (`push_notification_consumer.go`, `push_notification_service.go`) | `notifications` row of each `request_id` | decode, check for a duplicate, validate, call, record the outcome | breaker, OneSignal, PostgreSQL |
| Email handler (`email_consumer.go`, `email_service.go`) | `email_requests`, `email_dispatches`, `services` rows, one transaction per attempt | check, upsert twice, convert, call, record, commit | breaker, Resend, PostgreSQL |
| User synchronisation (`user_consumer.go`, `user_service.go`) | `users` table | create, update, delete in one transaction each | Verisafe's events, PostgreSQL |
| Lifecycle (`internal/app/app.go`, `cmd/api/main.go`, `internal/config/config.go`, `docker-compose.yml`) | the configuration loaded, how far start-up is, which consumers run, the one connection they share | load, connect, migrate, declare, subscribe, exit, redeploy | RabbitMQ's durable declarations; all |
| sqlc code (`internal/repository`) | the tables | the queries of the handlers; many more without a caller | handlers |
| Migrations, `/ping` and its middleware | none worth modelling | - | - |

The hard behaviours, with the lines where they bite, are the `hazards` of
`PROJECT.json`. In short: a rejection the retry exchange does not route;
two-step updates (park then ack, call then write) cut by a crash; deliveries
that outlive their channel; the attempt budget read from a header the broker
maintains; row locks held over an HTTP call by a session the database may lose
meanwhile; a commit whose outcome is unknown; events replayed to a handler that
discards what it cannot apply; durable declarations of an earlier deployment
that refuse those of the next one.

What makes each component correct:

- loop: a message is in one place, is never dropped without a success or a
  parked copy, gets the attempts it is entitled to and no more, and is settled
  in the end;
- breaker: it stops calls to a provider that is down, tries again, and closes
  when it answers;
- push and email: what was sent is recorded as sent and is not sent again,
  except for faults that nothing in the design can hide; log and status agree;
- users: the local directory becomes Verisafe's;
- lifecycle: what one deployment declared is not undone by the next, and one
  consumer that cannot start does not stop its neighbours.

## 2. Modules

| Module | Models | Uses |
|---|---|---|
| `AtLeastOnce` | the promise: a message is pending until it succeeds or is put aside | - |
| `Consumer` | one queue, its retry topology and N replicas of the loop; the handler is a nondeterministic outcome | - |
| `ConsumerRefinement` | the mapping of `Consumer` onto `AtLeastOnce` | `Consumer`, `AtLeastOnce` |
| `BreakerOps`, `Breaker` | the breaker as operators on a record; a provider, the clock and concurrent callers around it | - |
| `Handler` | what both senders share: steps of a handler inside the loop, a breaker per replica, crashes | `Consumer`, `BreakerOps` |
| `PushPayload`, `EmailPayload` | which notifications and emails validation refuses, as operators | - |
| `PushDelivery` | the push handler, OneSignal, the `notifications` rows, the clock a `send_after` is compared with | `Handler`, `PushPayload` |
| `EmailDelivery` | the email handler, Resend, the transaction with its locks, the session it may lose and the COMMIT it may leave in doubt | `Handler`, `EmailPayload` |
| `UserSync` | user events handled in order, transactions on `users` | `Consumer` |
| `Lifecycle` | a process and its successors: configuration, start-up, the declarations of `DeclareRetryTopology` and of all consumers, one request at a time, against what RabbitMQ has | - |
| `MC*` | values for the constants | the above |
| `ConsumerProofs`, `ConsumerRefinementProofs` | theorems | `Consumer`, `ConsumerRefinement`, TLAPS |
| `BreakerProofs`, `LifecycleProofs` | theorems | `Breaker`, `Lifecycle`, TLAPS |
| `HandlerProofs` | lemmas both senders need | `Handler`, `ConsumerProofs` |
| `PushProofs`, `EmailProofs` | theorems | `PushDelivery`, `EmailDelivery`, `HandlerProofs` |
| `UserSyncProofs` | theorems | `UserSync`, `ConsumerProofs` |

### Consumer

A message is a model value; its position is given by `ready` (source queue),
`retrying` (retry queue), `inbox[c]` (buffered by the client library of replica
`c`), `cur[c]` (in the loop's hands) and `parked` (how many copies). `xdeath` is
the header of the broker's copy, and a delivery carries the header as it was
when it left. `link[c]` tells whether the broker still counts `c`'s deliveries
as its own: when a channel closes, the broker requeues them at once, while the
loop goes on with what it has, and its acknowledgements have no effect.

`DeclareRetryTopology` may stop after any part; the code logs the error and goes
on (`app.go:195-205`). `SubscribeFails`, `ConsumerStops` end a consumer for good
while its process lives on (`app.go:232`); only `Crash` brings it back, through
`restart: unless-stopped` in `docker-compose.yml`. `Park` uses a channel of its
own, so it works after the consuming channel is lost and fails when the
connection is. `Nack` with a dead-letter exchange counts a rejection and moves
the message to the retry queue only if the retry exchange routes its key.

`ctx.Done()` is left out: `main` passes `context.Background()`. RabbitMQ is
modelled from what the loop relies on: prefetch, requeueing on a lost channel,
direct routing by key, `x-death` counters by reason, durability. Publishers are
assumed to send persistent messages.

### Handler, PushDelivery, EmailDelivery

Between `Receive` and the handler's return these modules interpose its steps,
one for each point where another process can act or a failure can strike: the
duplicate check, the writes, the call, the answer. `HandlerReturns` of
`Consumer` happens in the last step, so `PushDelivery` and `EmailDelivery`
implement `Consumer!Spec` as it is (`ImplementsConsumer`,
`EmailImplementsConsumer`), and what is proved of the loop holds for both.

A push is written to the table outside of a transaction, after the call. Its
row is refused at every attempt where a text is too long for its column
(`PushPayload!Storable`), and may be there although the upsert is reported as
failed (`persistFails`).

An email runs in one transaction: the model keeps what other replicas see of it,
the locked rows from the first write on and the writes at commit. The
transaction does not always end when Send does. `SessionLost` ends it before:
the database rolls back and frees the rows while Send is still waiting for
Resend, say, and Send learns of it at its next statement (`lost`). A COMMIT
that fails may have taken effect, or not, or may take effect later: then the
transaction is among the `doubts`, with its rows locked, until `DoubtEnds`
carries it out or rolls it back. `landed` remembers the requests whose dispatch
was committed that late. A process that dies at its COMMIT leaves a doubt as
well.

A message
carries a notification (`NotificationOf`) or an email (`EmailOf`), a record of
what validation looks at; `None` stands for a message `handleMessage` refuses by
itself. `preparePushPayload` is asked at every attempt, with the clock of that
attempt: `SendAfterPasses` may come between two of them, and a push that was in
time is then refused. An email without `to_addresses` is refused earlier, by
the `NOT NULL` column, than one `emailToResendEmailRequest` refuses. The answers of a
provider: accepted, refused, accepted with the answer lost, and, for OneSignal,
accepted with an answer `parseOnesignalResponse` cannot read, or refused under
a status of success, which the breaker counts as a success. Not every column is
there: the status decides, the others are payload.

The queries Send makes are operators under the names sqlc gives them
(`UpsertNotification`, `CreateEmailDispatch`, ...), reduced to the status: what
they find, write and lock. `UserSync` has those of the user service.

### UserSync

Verisafe's directory, the log of its events and the local table. A user has an
email (required and unique) and a phone (which may be missing, `None`, and which
an empty value does not erase). Verisafe gives an id once and keeps emails
unique, and publishes each change. The queue exists from the first subscription
on; events published before are out of the model. The queue hands events out in
order and puts what it takes back where it was.

Events are handled twice when a channel is lost: the loop works off what it has
buffered, up to a prefetch of events, and the next process gets them again. In
between, the directory is a mixture of old and new rows. `SyncedFromVerisafe`,
that it is Verisafe's when all is handled, does not survive this (run
`Users_replay`, section 5). What does is stated for users that are
`Undisturbed`: nothing was handled twice at all (`NoReplay`), or an email
changes hands only after at least a prefetch of events (`HandedOverApart`), or
nobody else ever had an email of this user (`OwnEmails`), whatever the others
do. The last is what most users are.

### Lifecycle

`Consumer` takes one queue and says that its topology may be declared in part;
`Lifecycle` says why, for all queues at once. `broker` is the set of
declarations RabbitMQ holds, each with its arguments; a queue or exchange that
is declared again must be declared alike, or RabbitMQ refuses and closes the
channel (`Accepts`, `Refused`). Each process goes through `Launch`
(`LoadConfig`), `Connect`, `StartConsumers`, and then runs four routines, each
with a `Program`, the list of its declarations: first `DeclareRetryTopology`
alone, then the consumers side by side (`Becomes`), whatever became of the
first. `Redeploy` ends the process by a signal and may change
`RETRY_DELAY_SECONDS`, which is an argument of the retry queue; `Exit` is every
panic of start-up and every other end. `broker` may at first hold what an
earlier version of the service declared (`Existing`).

A message is followed from place to place with the loop's verdicts for steps;
its route is what the declarations in `broker` make of it, which `Consumer`
has as the set `topology`. Copies, late acknowledgements and headers are left
to `Consumer`.

## 3. Runs

| Run | Instance | Shows |
|---|---|---|
| `Consumer_safety` | 2 replicas, 2 messages, 2 retries, prefetch 2, 2 faults of all 7 kinds | nothing held twice, skipped, parked early or again and again; retry budget |
| `Consumer_reliable` | the same with 1 retry, without half-declared topologies and broker restarts | nothing lost; implements `AtLeastOnce`; every message settled while some replica is served |
| `Consumer_disconnected` | 1 message, a lost connection | **violation** of `FailedSendRetried` |
| `Consumer_parked_lost` | 1 message, a broker restart | **violation** of `ParkedStays` |
| `Breaker` | 3 callers, 2 outages, 3 failures to trip, 2 trials | fails fast, keeps its quota, recovers |
| `Push_safety` | 1 replica, a push, its copy and a push whose `ttl` is too long, 2 faults and 1 fault of the handler | duplicates only by faults, `sent` is final, queue and table agree, trials available, parked pushes on record, implements `Consumer` |
| `Push_settles` | a push with a `send_after`, one with a text too long for its column, a malformed message, a crash, a handler fault | each is sent or parked, also when the date passes between two attempts |
| `Email_safety` | as `Push_safety`, with a transaction, lost sessions and late commits; the third email has a foreign sender | duplicates only by faults, log and status agree, done means dispatched, implements `Consumer` |
| `Email_replicas` | 2 replicas, 2 services with one `request_id`, a malformed email, a crash, a failed statement or lost session | one attempt at a time among those whose sessions live, each email is sent or parked |
| `Users_sync` | 4 events, 2 users, 2 emails, prefetch 3, 2 faults | the rows of undisturbed users converge, only repetitions of their events are discarded |
| `Users_replay` | 7 events, 3 users, 3 emails, prefetch 10, a lost channel and a restart | **violation** of `SyncedFromVerisafe` |
| `Lifecycle` | the push and the user consumer, a message for each, 2 delays, 1 redeployment, 1 exit, lost connection or lost channel, a new broker or one with an old queue | nothing lost after the first complete topology, a declared topology has the configured delay, consumers fail apart |

The three violations are places where a comment or a guide says more than the
code does; `findings` quotes both sides.

### Bounds

`MaxFaults`, `MaxHandlerFaults`, `MaxOutages` and the number of messages bound
the runs; no action is capped otherwise. Two replicas and two messages are the
least that let a message change hands while another one is in flight. One retry
is enough to be repeated and exhausted; `Consumer_safety` has two, the least with
which counting the TTL expiries of `x-death` too would park a message early. Two
faults let the recovery from a fault meet another one, for instance a crash after
a lost channel, which is what a replay of events needs; a prefetch of two lets
the loop find another delivery in its buffer after its channel is gone. The two
liveness runs of the senders lose no channel but by a crash, which takes the
buffer along, and have a prefetch of one. Three messages for the senders are a
message, its republished copy and one that never succeeds, the last to keep the
queue moving through rejection and parking. The breaker trips after two or three
failures: with one it could not tell consecutive failures from any. The four events of `Users_sync` suffice
for a create, a hand-over of an email and a replay of all of it, and for the
conditional properties the theorems cover every other size. They do not suffice
to make a row diverge, and six events do not either (explored over 8 million
states): it was the attempt to prove convergence without a condition that led
to the seven events of `Users_replay`. `BurstSpec` of `MCUserSync` restricts
that run to one schedule: all events are published, all are delivered, then the
channel is lost. Its prefetch is the one of the code.

`Lifecycle` has a consumer with and one without a dead-letter exchange, one
redeployment (an old and a new delay) and one fault, which may cut the first
process's topology at each of its five declarations. An old push queue is the
one kind of leftover that refuses a declaration without the retry queue. The
email consumer differs from the push consumer in names only and is left to the
proofs, which hold for all three and any number of the rest.

Symmetry is used in `Users_sync`, over users and emails, and in `Push_safety`
and `Email_safety`, over a message and its copy: with invariants and action
properties only, and none of them tells the renamed values apart.

### Fairness

`Fairness` of `Consumer` asks for progress of the loop, of start-up, of the
broker's deliveries and of the retry queue's TTL. The loop is a goroutine that
does nothing but receive and handle, the container is restarted by
docker-compose, and RabbitMQ delivers to a consumer with room in its prefetch.
Nothing is assumed of publishers or of faults, nor that a handler succeeds.
`SettledWhileServed` speaks of behaviours in which some replica keeps or regains
its channel, because the code brings none back by itself; in the runs where only
crashes take channels away the conclusion holds without that condition.
`PushFairness` and `EmailFairness` assume besides that each call returns, and
the latter that the database ends every transaction whose connection is gone
(`DoubtEnds`), as PostgreSQL does once it finds the connection dead. The
repository sets no time-out on the OneSignal client (`app.go:85-89`), so this is
an assumption about the providers, and the listed hazard is what happens
otherwise. `Breaker` assumes in `RecoversWithProvider` that messages keep
coming, since a breaker only looks at the clock when called.

`Lifecycle` assumes that start-up and each routine go on, that the container is
restarted, and RabbitMQ's part. `SettledApart` speaks of consumers whose
process, connection and channel last in the end; the lasting has to be a
condition, since nothing in a process opens a second connection or channel.

`Email_replicas` has no fairness between attempts other than that of each
replica's own handler: a replica that waits for a row lock proceeds once the
lock is free for good, and locks are taken by a finite number of attempts.

## 4. Proofs

Each theorem rests on the named assumptions about the constants of its module
and of those it extends, which the runs evaluate: `ConsumerAssumption` for the
loop, `BreakerAssumption` and `CallersAssumption` for the breaker,
`HandlerAssumption` and `PushAssumption` or `EmailAssumption` for the senders,
`UserSyncAssumption` for users (one replica, events numbered from 1, a missing
field is not an email), `LifecycleAssumption` for start-up. Two theorems about
the loop have `Reliable` as a further hypothesis, and those about what a sender
records have `OneReplica`; both are said below.

- `TypeCorrect`. Type correctness of `Consumer`, inductive as it stands.
- `OneCustodianAlways`. `OneCustodian` alone is not inductive: nothing in it
  prevents a replica from holding the same message in hand and in its buffer.
  `Custody` adds `Distinct` (no two deliveries of a message at a replica with an
  open channel) and that only published messages are anywhere. The lemmas
  `QuietSteps`, `LetGo`, `Requeue` and `DeliverEffect` say what a step does to
  the places of messages; each action of `Next` is one of these.
- `NeverParkedEarlyAlways`. Needs `Paid`: every rejection in a header, also in a
  stale one of a lost channel, was paid for by a handler call, and a delivery the
  broker still counts carries the header it has.
- `RetryBudgetAlways`. `Budget` is an account per message: calls made, stale
  deliveries still buffered, and the call still to come, against
  `xdeath.rejected` plus one, plus faults. A fault that requeues a message whose
  delivery is still buffered is what its unit of `faults` pays for.
- `ParkedOnceAlways`. `Spent`: every handler call ends in one copy in the parked
  queue, one rejection, or neither, so that copies, rejections and calls under
  way are together no more than the calls made. `Budget` bounds these by the
  rejections and the faults.
- `NeverSkippedAlways`. A message leaves the queues only where the loop finishes
  one it has in hand, which by `Paid` was given to the handler (`FlightStep`).
- `NoMessageLostAlways`, `Refinement`. Under `Reliable`: a dead-letter exchange,
  every key bound, and neither a half-declared topology nor a broker restart. The
  run `Consumer_parked_lost` shows that the last cannot be dropped; without the
  others `Retried` fails, and a rejection drops the message by definition. `Kept` strengthens the invariant: whoever consumes has the
  topology, and what stands at `parked` has its copy in the parked queue.
- `LifecycleTypeCorrect`, `DelayAsConfiguredAlways`,
  `NothingLostOnceCompleteAlways`. The invariant `IInv` has three parts besides
  the types. `Ordered`: no consumer starts before the topology is through, so
  that what becomes of it touches no message in hand. `InForce`: of each routine,
  what its program has behind it is in `broker`, which only grows; from it
  follow the queue and binding of every consumer that runs, and bindings and
  parked queue of every complete topology. `Routed`: a message is behind the
  binding of its queue, to which the retry queue returns it. A message could
  only be lost where one of these is missing. `BecomesStep`, `KilledStep`,
  `MovesStep` and `InForceKept` say what groups of actions have in common.

- `PushImplementsConsumer`, `EmailImplementsTheLoop`. Each step of a handler
  is a `Receive`, a `HandlerReturns`, a crash, or changes nothing of the loop.
  What is proved of `Consumer` carries over; `PushRetryBudget` and
  `PushNeverParkedEarly` say so of the two properties pushes depend on most.
- `BreakerTypeCorrect`, `FailFastAlways`, `QuotaFreeWhenIdleAlways`. For any
  number of concurrent callers. `Account`
  says what became of the calls since the last success or time-out: those of a
  closed breaker are among its failures or under way, those of a half-open one
  are trials, each succeeded or under way, and an open one has none. `FailFast`
  bounds a streak from it, and an idle half-open breaker has had no more trials
  than successes, which are fewer than the quota.
- `TrialAlwaysAvailable`. The same for the breaker inside a replica, which has
  one caller: `TrialsInv` (`Tried`), also over crashes and provider answers the
  breaker counts differently from the handler.
- `ParkedIsRecordedAlways`. `Recorded`: without database faults and garbled
  answers a handler that fails has left a row, if a row can hold the
  notification. Any number of replicas.
- `DuplicatesAreFaultsAlways`, `DoneMeansSentAlways`, `SentIsFinalAlways`, and
  for emails `EmailDuplicatesAreFaultsAlways`, `LogAgreesWithStatusAlways`,
  `DoneMeansDispatchedAlways`. `Ledger` accounts for what the provider accepted:
  it is in the row, about to be (`Pending`), or paid for by a crash or a fault,
  and an attempt past the duplicate check is one whose row does not say sent.
  For pushes the account is kept only of requests whose notifications a row can
  hold; of the others nothing stops the next attempt. For emails it has to
  follow a transaction beyond its attempt: a doubt (`Doubt`) is a dispatch that
  Resend accepted and that may still appear, and once one has landed a request
  may have a second dispatch or a failed one on top, because the next attempt
  may have checked before. `LogAgreesWithStatus` and `DoneMeansDispatched` say
  what is left then.
  That an attempt's row stays as it was checked holds because nobody else
  writes in between, save a late commit, hence
  `OneReplica`, which is how `docker-compose.yml` runs the process. With two
  replicas these properties are false, as section 5 says.
- `OneAttemptAtATimeAlways`. For any number of replicas and faults, of the
  attempts whose sessions the database has. `LockInv` says that such an attempt,
  past its upsert, holds the lock of its row, and that the row of a doubt has no
  other holder. Nothing else about the lock is needed: it is taken where it is
  free of both, and the end of a transaction releases only what is its own
  (`LockFrame`, `ReleaseOwn`).
- `DirectoryConvergesAlways`, `NothingDiscardedUnappliedAlways`,
  `SyncTypeCorrect`. For any prefetch and any number of users, events and faults.
  `SyncInv` describes where the loop stands by four positions in the log
  (`Line`): what has left the queue, what the loop has come to, the end of its
  buffer, and the furthest event the handler ever returned from. `Chronicle` has
  Verisafe's directory after each event. `Rows`, the heart of it, says that the
  row of an undisturbed user is the one Verisafe had at some event between the
  second position and the fourth: behind the first pass, ahead of the replay.
  When everything is handled the two meet at the end of the log. A replayed event
  moves the row on (`RowsReturn`) or is refused; it is refused only where the row
  is ahead already (`RefusedBehind`), because nobody has its email
  (`Untaken`). This last step is what fails for a user who is not undisturbed.
- `SyncImplementsLoop`. The loop that syncs users is one of `Consumer`, with all
  that is proved of those.

Only model-checked: all liveness (`SettledWhileServed`, `RecoversWithProvider`,
`PushEventuallySettled`, `EmailEventuallySettled`, `SettledApart`), since TLAPS
has neither fairness nor ENABLED. Every invariant and every action property of a
passing run is proved.

## 5. What the models say about the code

- The retry exchange is direct and bound to two keys, the source queues to
  wildcards: another key of the family, which no guide mentions, is lost on its
  first failure.
- `RETRY_DELAY_SECONDS` cannot be changed by a deployment: RabbitMQ has the
  queue with the old delay and refuses the new one at every start. The log then
  says `failed sends will not be retried`, although they are, with the old
  delay, because the old topology is complete (`NothingLostOnceComplete`).
- It is not complete if the very first start was cut between the retry queue and
  what follows it and the second came with another delay: every later start is
  then refused before the bindings and the parked queue, and failed messages
  are lost until someone deletes the queue.
- The same refusal meets the upgrade that introduced dead-lettering (ADR-0006)
  where a queue of an earlier version exists: its consumer never starts. The
  others are not affected (`SettledApart`).
- A lost connection ends the consumers of a process that stays up and, to its
  container, healthy.
- Parked messages do not survive a broker restart.
- `request_id` protects against republication, redelivery and retry, not against
  a failure between the provider's acceptance and the write that records it.
  `DuplicatesAreFaults` says exactly how much.
- A push with a text too long for its column of `notifications` is sent before
  its row is refused: each of its `MaxRetryAttempts + 1` attempts sends it
  again, and none is on record, although the guide says that every attempt is
  persisted (`docs/push_notification_integration.md:320`). `DuplicatesAreFaults`
  and `ParkedIsRecorded` are stated of the others; an email is written before
  the call, so there the column comes first.
- The row lock of an email protects it over the call to Resend only as long as
  the database keeps the idle session. If it is lost, another replica may call
  Resend for the same request at the same time; the first attempt then records
  nothing.
- A COMMIT that takes effect after its failure was reported may find the next
  attempt past its duplicate check. The email is then sent once more, and the
  log has two dispatches, or a failed one after the sent one, with the status to
  match (`LogAgreesWithStatus` excepts these requests).
- With two replicas the senders' duplicate checks are not enough: the email
  check precedes the row lock, the push has none. An attempt that checked
  before another one succeeded sends again, and if it fails, it replaces
  `sent` or `dispatched`. `docker-compose.yml` runs one replica, which is what
  the runs assume; `OneAttemptAtATime` is what the row lock does give to two.
- Validation is weaker than the guide and partly depends on the clock. A push
  may be refused on a retry because its `send_after` passed in the meantime;
  `include_player_ids` alone counts as a target, but is not copied into the
  request; contents need no English entry, although only that entry is sent.
- User events are discarded when their handler fails (`user_consumer.go:25-27`),
  and a lost channel makes the loop handle up to ten of them twice. For a user
  whose emails nobody else had this is harmless. Where an email changes hands
  twice among the events of a replay, it is not: u1 has e1, then e2; u2 is
  created with e1, then has e3; u1 has e1 again; u2 is deleted; u3 is created
  with e3. When these are handled again, u1 goes back to e2 and u2 comes back
  with e1; u2's change to e3 is refused, since u3 has e3 already, so u2 still
  has e1 and u1's change to it is refused as well. u2 is deleted in the end, and
  u1 keeps e2 until Verisafe says something else about it.

## 6. Not modelled

- The fields of the requests to OneSignal and Resend. What reaches the provider
  is a plain function of one message, which unit tests can settle. (One of its
  branches differs from the guide: `preparePushPayload` takes the `app_id` of a
  notification if there is one, `push_notification_service.go:286`, where the
  guide says it is ignored.)
- Queries without a caller (most of `notifications.sql.go`), and
  `Publisher.Publish`, which has none either.
- The migrations, beyond the constraints they leave behind; the HTTP surface,
  which is stateless.
- The shutdown sequence, which is unreachable: the context is never cancelled.
- Pool sizes. A handler uses one database connection at a time and there are
  three handlers, so the pool (10 connections) is no resource they wait for.
- An upsert of a push takes effect when it is called or not at all. That the
  database might carry it out after the next attempt began, as it may a COMMIT
  of an email, is left out: the next attempt comes a retry delay later.
- The generations of gobreaker's counters, beyond what `Breaker` needs: they are
  the library's, and each breaker of the service has one caller.
- No run has an email that only the `NOT NULL` column refuses
  (`EmailPayload!Storable`): a fourth message in `Email_replicas` is out of TLC's
  reach in a run of minutes, and none of the three can be spared.
- A restart of RabbitMQ in `Lifecycle`: its declarations are durable, and what
  happens to messages is in `Consumer`.

## 7. Plan

Done, in this order: `Consumer` and its abstraction, the breaker, pushes,
emails, users, validation, the proofs about `Consumer`; then `Lifecycle`, its
proofs and the queries of the handlers; then the proofs of every safety
property. Next:

1. Two replicas for pushes and users: which of the properties remain, a
   statement of what is lost, and its proof.
2. That the topology `Lifecycle` declares is one `Consumer` allows
   (`DeclaredInOrder`), proved, so that the two can be read as one.
3. Lemmas about the operators of validation.
