# A TLA+ model of pactic

pactic is a NestJS wallet service. Users hold wallets in several currencies and
fund them, withdraw from them and transfer between them. The three money
operations are asynchronous: an HTTP call checks an idempotency key (`txId`) in
Redis and MySQL and publishes a message; a RabbitMQ consumer settles it in a
database transaction, updates Redis and publishes a notification. Creating a
wallet, and everything about users, is done by the HTTP call itself; logins and
notifications are recorded by two more consumers and read page by page.

Paths below are relative to the repository; `jobs/...`, `wallets/...` and so on
are under `src/`.

## Inventory

| component | state it keeps | operations | modelled |
|---|---|---|---|
| wallet operations (`wallets/wallets.service.ts`) | none of its own | `createWallet`, `fundWallet`, `withdrawFromWallet`, `transferFunds`, `getUserWallets` | yes |
| wallet consumers (`jobs/{funding,withdrawal,transfer}.processor.ts`) | none of its own | one handler per queue, with its catch block | yes |
| notification and login consumers (`jobs/{notification,login}.processor.ts`) | none of their own | store a row per message | yes |
| RabbitMQ service (`rabbitmq/rabbitmq.service.ts`) | one connection and channel per module that provides it (`WalletsModule` has its own) | `sendToQueue` (swallows errors), `consume` (acknowledges only failures, republishes, dead-letters) | yes |
| Redis service (`redis/redis.service.ts`) | `wallet_request:*`, `user_wallets:*`, `user:profile:*`, each for 300 s | `get`, `set`, `del` | yes |
| database (`database/schema.prisma`) | `Wallet` (balance, version), `Transaction`, `WalletRequest`, `User`, `Notification`, `LoginLog` | transactions, unique keys, row locks | the columns anything depends on |
| users (`users/users.service.ts`) | none of its own | signup, login, profile, update, soft deletion | yes |
| transactions (`transactions/transactions.service.ts`) | none | a page of transactions, notifications or login logs | yes |
| authentication, bootstrap, filters, configuration, seed | none | | no: stateless, a library's, or wiring |

How they interact: HTTP calls and consumers run in one Node process and share
MySQL, Redis and RabbitMQ. Every `await` is a point at which any other call or
handler runs. The consumers set no prefetch limit, so all messages of a queue
are handled at once. The API and the consumers publish on different channels.

What is hard here, and what makes each part correct:

* *One balance, many handlers.* Handlers read a balance, check it and update it
  in different statements; the update names the version that was read. No
  withdrawal or transfer may overdraw a wallet, and balances must be what the
  `Transaction` rows add up to. A funding may overdraw one: its amount may be
  negative, and nobody checks the funds.
* *At-least-once delivery without acknowledgement.* `consume` never acknowledges
  a message whose handler returns, so every restart delivers all of them again;
  clients repeat calls; failed attempts are published again. A `txId` must
  settle once and be announced once.
* *Three records of one status.* `WalletRequest.status`, the Redis key and the
  existence of `Transaction` rows are written at different moments by handlers,
  duplicates of them and HTTP calls, and the Redis key expires. They must agree.
* *Partial failure.* The catch block of a handler encloses everything from the
  first Redis read to the notification; an exception after the commit, or in a
  duplicate, runs it too.
* *Cached wallet lists.* Filled by readers, deleted by some handlers, and edited
  by `createWallet` in three steps. They must show only what exists and recover.
* *Checks before inserts.* `createWallet` and signup check, and then insert, in
  statements of their own: concurrent calls all pass the checks, and only unique
  keys decide. One of the two inserts of `createWallet` may fail alone.
* *Cached profiles.* Written by readers and by updates, in any order, and not
  deleted by the signup that brings a deleted account back.
* *Records of what happened.* Notifications and logins are messages that are
  acknowledged only when storing them has failed. A login must not be forgotten,
  a notification not shown again without end, and a client that turns pages
  while rows are added must not miss one.
* *Lock order, deadlock, progress.* A transfer locks two rows, the sender's first.

`PROJECT.json` lists the hazards at their lines, with the properties for each.

## Modules

There are three groups, which share no variables: the asynchronous operations,
the creation of wallets, and users with their records.

```
WalletRequests            bodies, fees, what settling does     (no state)
  WalletLedger            abstract specification
  WalletStore             variables, types, row locks, Init
    WalletsService        HTTP calls, readers, expiring keys
    WalletJobs            consume and the three handlers, faults
      WalletSystem        Next, fairness, properties, INSTANCE WalletLedger
        MCWalletSystem    instances for TLC
        WalletInvariant   the inductive invariants
          WalletSystemProofs     theorems that hold whatever fails
            WalletRowsProofs     sums and counts of the Transaction rows
            WalletStatusProofs   statuses, while the stores answer
              WalletConflictProofs   circular waits and lost races

WalletRegistry            abstract specification
WalletCreation            createWallet, properties, INSTANCE WalletRegistry
  MCWalletCreation        instance for TLC
  WalletCreationProofs    inductive invariant and theorems

ActivityLog               queues of logins and notifications, consumers, pages
  UsersService            signup, login, profiles, deletion
    UserSystem            composition, fairness, properties
      MCUserSystem        instances for TLC
  ActivityLogProofs       inductive invariant of the records
    UserSystemProofs      theorems (extends UserSystem too)
```

**WalletRequests** holds the bodies (a record with kind, `txId`, the user and
wallet, and the second user and wallet of a transfer) and, for each, the fee,
the change of each balance and the `Transaction` rows with their types. Amounts
are whole cents: at least one in a withdrawal or a transfer, as their DTOs demand,
and any number in a funding, negative ones included, as `FundWalletDto` allows.
The fee is half a percent rounded to a cent; the code rounds a binary
floating-point product, so on an exact tie (an amount of 1.00, 3.00, 5.00...)
both directions are allowed.

**WalletLedger** is what the operations promise with everything else taken away:
one action, `Settle`, that changes all balances of a request and adds all its
rows at once, on valid wallets that can pay, and never twice for a `txId`.

**WalletStore** declares the state. A *job* is one HTTP call together with the
message it publishes, because the message exists only when the call has sent it;
`Copies` are the messages a consumer publishes again. `pc[j]` is the awaited call
at which job `j` is:

| `pc` | where in the code |
|---|---|
| `getCache`, `findRequest`, `saveCache`, `send` | `fundWallet`, `withdrawFromWallet`, `transferFunds` |
| `answered` | the call has ended and nothing was queued |
| `ready` | the message is in its queue |
| `checkCache`, `dropCache`, `prelog` | idempotency check and prelog of a handler |
| `validate` | funding only: the wallet is read before the transaction |
| `readWallets`, `updateFrom`, `updateTo`, `commit` | inside `$transaction` |
| `cacheSuccess`, `invalidate`, `notify` | after it |
| `markFailed`, `cacheFailed` | the handler's catch block |
| `republish`, `ack` | the catch block of `consume` |
| `held` | the handler has returned and the message is not acknowledged |
| `acked` | the message is acknowledged |

Row locks are derived from `pc`: a transaction holds a wallet's row from its
update of it to its end (`Holds`). Because nothing else can read its uncommitted
writes, they appear in `balance`, `version`, `ledger` and `request` at `Commit`.

**WalletsService** has an action for each awaited call of the HTTP side, the
steps of `getUserWallets` (which stores what it read, however old), and the
expiry of keys. **WalletJobs** has an action for each awaited call of the
handlers, and the faults: an exception at any Redis or MySQL call of the try
block (`HandlerThrows`) or of the catch block (`CatchThrows`), a MySQL write that
is applied without an answer (`ReplyLost`), a channel closed by the broker and
never opened again (`CloseChannel`), and the death and restart of the process
(`Restart`, and `AckThrows`, since `ack` on a closed channel throws in a callback
that nobody awaits). The constant `Faults` says which of them may happen.

**WalletRegistry** is what creating a wallet promises: a wallet is created when
the user has none in the currency, and a call is confirmed when its wallet exists
and no call with its `txId` has been confirmed.

**WalletCreation** has one action per awaited call of `createWallet` (`pc[c]` is
the call it waits for), the steps of `getUserWallets`, and the outside world:
keys that expire or are deleted, and money operations that use the same `txId`s
(`OtherRequest`, `CacheOtherRequest`, which allow whatever `WalletJobs` may do to
a row and a key). A row of `Wallet` is named by the call that inserted it. A
cached list says how often each wallet is in it, because `createWallet` adds its
wallet to whatever list it read. The code never tells a pending request from a
failed one here, so they are one status.

**ActivityLog** has the queues `login_logs` and `notifications`. `stage[m]` is
where message `m` is: `ready` in the queue, `storing` in its handler, `republish`
and `ack` in the catch block of `consume`, `held` when it has been handled and
not acknowledged. `origin` and `attempts` tell the repeated publications of one
message. A row is known by the message it comes from and a number, so that
duplicates count, and carries a time, taken before the insert and so in no order.
The rows of transactions come from `Settle`. The paged reads appear as clients
that ask for page after page (`StartWalk`, `FetchPage`): the query skips and
takes rows by time, and leaves open which of two rows with one time comes first.

**UsersService** has one action per awaited call of its five operations. An
`upsert` on MySQL is a read and then an update by id or an insert. `findFirst`
with no order returns any match. Calls with a token come from users that exist.
An update may set the password and the deletion too, and so bring an account back:
the type of its body is an intersection, which the whitelist of the validation
does not see.

**UserSystem** puts the two together in one process: a restart ends running calls
and makes the broker deliver unacknowledged messages again.

Taken from how the code uses them, and marked external: InnoDB's row locks and
deadlock detection, and the client that reads pages. Assumed of the libraries: a
Prisma `update` whose `where` matches no row throws; the reads of one interactive
transaction see one snapshot (InnoDB's default isolation level); a transaction
that fails leaves nothing behind; an unacknowledged message is delivered again
after a reconnection.

Mutants (`DropCacheToNull`, `AcceptsOverdraft`, ...) stand before the definition
they change. They are plausible mistakes in that code; each makes one property
fail, which shows that the property depends on the code being right.

## Runs

The instances of `WalletSystem` have two users, Ann with wallet `a` and Bob with wallet `b`, both
with 300 cents. That is enough for the conflicts: two debits of one balance, a
debit racing with a credit, opposite transfers. Two `txId`s let calls repeat one
or use another. Calls and Copies are interchangeable model values, and so
symmetric, in the safety runs.

| run | bounds | what it shows |
|---|---|---|
| `settlement` | 3 calls, 1 copy, crashes and closed channels; a withdrawal, a transfer and a funding of -500 cents | types, no debit overdraws a wallet (`DebitsArePaid`), the rows explain balances (`Reconciled`) and versions (`VersionCountsRows`), the three records of a status agree (`FailedMeansUnmoved`, `SuccessMeansMoved`, `CacheTruthful`) and final ones stay (`StatusFinal`), only the handler that logged a request decides it (`OrphansStay`), the rows of a `txId` are those of one request (`SettledWhole`), one announcement per settlement (`NotifiedOnce`), and the refinement of `WalletLedger` |
| `faulty_stores` | 2 calls, 2 copies, Redis and MySQL failing anywhere; the bodies of `settlement`, and a second transfer, one to the sending wallet and one to an unknown wallet, none of them from `b` to `a` | money stays right when statuses do not: refinement, no debit that overdraws, no false success, no double announcement. Transfers in one direction never wait in a circle (`NoCircularWait`). Two copies reach the dead-letter branch |
| `progress` | 2 calls, 1 copy, opposite transfers, a funding and a withdrawal, no faults, fairness | every queued request is decided, every settled one announced, and two conflicting transfers never both fail; deadlock is checked |
| `views` | 1 call, 1 copy, 2 readers, Redis and MySQL failing anywhere, crashes, fairness | a stale list of wallets goes away, by a deleted key or by its expiry, whatever reader or handler fails and wherever the process dies |
| `creation` | 2 calls of one user with any bodies over 2 currencies and 2 `txId`s, 1 reader, every fault | one wallet per user and currency and one confirmation per `txId` (the refinement of `WalletRegistry`), a conflict has a cause (`RefusedForCause`), cached lists show only what exists, at most twice (`ListsHonest`), and recover (`ListsSettle`) |
| `users` | 2 calls, 4 messages, 1 page-reading client, 1 row per page, 2 times, 1 restart, every fault | one account per address (`EmailsUnique`), profiles recover (`ProfilesSettle`), logins are kept and stored (`LoginsKept`, `LoginsLogged`), duplicates of notifications are bounded by restarts (`NotificationsBounded`), pages miss nothing (`NothingMissed`) |
| `failed_after_success` | 1 call | finding: Redis fails after a commit and the settled request is marked failed |
| `retry_skipped` | 2 calls | finding: a published retry is skipped because its first attempt marked the `txId` failed |
| `circular_wait` | 2 calls | finding: opposite transfers wait for each other, since rows are not locked in id order |
| `stuck_pending` | 1 call | finding: after a crash between prelog and commit the request stays pending |
| `stale_view` | 1 call, 1 reader | finding: a funding leaves the cached list stale |
| `signup_overwrites` | 2 calls, no faults | finding: of two signups with one address, the later overwrites the account of the earlier |

Bounds: `Calls` (HTTP calls), `Copies` (messages published again; a handler that
needs one more stops at `republish`, which `Finished` accepts as rest), `Readers`
(calls of `getUserWallets` at once), the set `Requests`. Restarts, expiries and
channel closures are not bounded. Three calls are the smallest number with which
a duplicate pair races with a third request. Deadlock checking is on everywhere;
`Finished` is the state in which all calls are answered and all messages at rest.

In `creation`, `MCInit` fixes the body of one call; currencies and `txId`s are
interchangeable, so nothing is lost. Two calls are enough to collide at every
unique key and to undo each other's cached list, and the money operations stand
for any further use of a `txId`.

In `users`, `MCInit` admits three kinds of behaviours, because their product adds
states and no interaction: wallet operations of user 3 and a client that turns
pages; a login of user 1 with its retries; two calls of any kind on user 1, who
may be deleted, with a conflicting address or name. A call of user 2 waits until
a signup makes that account. Four messages hold a login that is acknowledged,
both its retries and one more after a restart, so that the last delivery and the
dead letter are always reached; an acknowledged repetition gives its place back.
They also hold two notifications (`MaxNews`) and rows of wallet operations.
`MaxRestarts` bounds restarts because every one may add rows. One row per page
makes a page for each row, and two times make ties and rows inserted in the wrong
order; the rows of logins, which the client here does not read, all have one time
(`LoginsAt1`). When no place is left, only a call that would publish a login or a
message that would be published again may stay where it is (`Finished`).

Fairness: each HTTP call and each handler goes on (weak fairness of its steps:
the event loop runs ready callbacks and, without faults, stores answer), the
broker delivers, readers go on, and a cached list or profile does not outlive its
TTL. Nothing makes a client call, and no fault is ever obliged to happen. A
queued request is decided only while the API's channel is open: with
`CloseChannel("api")` the call answers "queued" and publishes nothing.
`UserSystem` states fairness once for all calls, once for all messages and once
for all keys: no call or message can go round for ever, except by a restart or a
retry, which are bounded, so each of them is reached. `LoginsLogged` promises
nothing on a closed channel, which nothing reopens but a restart. The bound on
messages excuses nothing: four leave room for every retry of a login.

## Proofs

`WalletSystemProofs` proves, for any users, wallets, bodies, calls and copies
and for any set of faults:

* `Invariance`: the inductive invariant `IInv` always holds;
* `TypeCorrect`, `SuccessIsTrue`, `AnnouncedOnce`: `TypeOK`, `SuccessMeansMoved`
  and `NotifiedOnce` always hold;
* `DebitsPaid`: `DebitsArePaid` holds, so whatever leaves a wallet poorer and in
  debt is a funding;
* `Implementation`: `WalletSystem` implements `WalletLedger`.

The assumptions are those of `WalletRequests` and `WalletStore`: the tables and
bodies are well typed, withdrawals and transfers are of a cent at least, calls and
copies differ. Fundings may have any amount.

The argument. None of the properties is inductive: that a decrement is safe
depends on a balance read some steps earlier, and that a commit is the first of
its `txId` depends on which handlers got past the prelog. `IInv` says both. One
handler per `txId` is past the prelog (`OneOwner`); it has logged the request and
the request is not settled before its commit and settled after it
(`OwnerLogged`), so a row stops everyone else (`SettledLogged`) and the announcer
is the only one (`Announced`). What a transaction read still holds if the version
is unchanged (`SnapshotsHold`); it takes a lock only on the version it read
(`LocksHoldVersions`) and no two hold one lock (`LocksExclude`), so at the commit
the funds checked at the read are there. Most steps are *quiet*: they make no
handler an owner and touch neither balances nor rows; one lemma (`QuietKeeps`)
deals with all of them. The rest are the prelog, the steps of the transaction,
its commit (`ApplyKeeps`) and the steps after it.

`WalletRowsProofs` proves, as generally:

* `AuditTrail`: `Reconciled` always holds; balances are what the rows add up to;
* `SettlesOnceWhole`: `SettledWhole` always holds;
* `VersionsCount`: `VersionCountsRows` always holds.

The first two are theorems about `WalletLedger` (`LedgerInvariance`) that the
refinement carries over, so that no queue, cache or crash appears in their proof.
They need what the sum of a finite set of rows is. `MapThenSumSet` is defined by
recursion over sets, and induction over finite sets takes a predicate as a
parameter, which the provers cannot instantiate. So the induction is made first
order: a set of subsets of a finite set that holds the empty set, and with a set
some larger one, holds the whole (`SubsetInduction`), because strict inclusion of
finite subsets is well founded. From it follow that the recursion has one solution
(`RecursExists`, `RecursUnique`) and that a new row adds its change (`TotalAdd`).
A settlement gives each wallet it touches one new row, with the change of its
balance. `VersionsCount` needs the whole system: the commit writes the version it
read plus one, and its row lock has kept that version.

`WalletStatusProofs` assumes `StoresAnswer`: Redis and MySQL do not fail, while the
process may die, the broker close channels and clients and keys do anything. The
run `failed_after_success` shows that without it statuses lie. It proves:

* `StatusInvariance`: the inductive invariant `StatusInv` always holds;
* `FailedIsTrue`, `CacheIsTrue`, `FinalIsFinal`: `FailedMeansUnmoved`,
  `CacheTruthful` and `StatusFinal` hold;
* `OrphansNeverDecided`: `OrphansStay` holds, which is the run `stuck_pending` for
  every instance and every number of redeliveries;
* `RetriesNeverTry`: no message published again gets past the prelog
  (`RetriesAreIdle`), which is the run `retry_skipped` for every instance.

While the stores answer, only the owner of a `txId` reaches a catch block, so one
handler at most has the request in hand until it gives it up (`OneDecides`); the row
is pending until the owner decides, and says what the owner decided
(`OwnerDecides`). What a call has seen, and what is cached, may be pending long
after the row is not, but a final status is the row's (`SeenTruthful`). All steps
but the prelog, the commit and `MarkFailed` are *tame*: they decide nothing, and
cache what is cached already, pending, absent or true. A message is published again
only from a catch block, when the row exists (`RetriesInv`).

`WalletConflictProofs` proves:

* `OrderedNeverWait`: whatever fails, `NoCircularWait` holds if some rank of the
  wallets is climbed by every transfer to another wallet (`Ordered`). The code locks the sender
  first, so transfers in both directions have no such rank, as the run
  `circular_wait` shows; the theorem says that the order the README promises is
  the remedy. In a circle every handler holds one row and waits for a second one,
  so all are transfers, and the one whose sender ranks least (`LeastJob`) is waited
  for by a transfer whose sender ranks lower still, since two handlers cannot hold
  one row;
* `ConflictsAreWon`: `SomeConflictWins` holds while nothing fails (`Faults = {}`)
  and each request could be paid alone (`EachCanBePaid`), for any number of requests
  and wallets. As long as there is no row no balance or version has changed
  (`NothingMoved`), so no handler can find a conflict or a lack of funds, and a
  circular wait costs one victim and leaves the others trying (`SomebodyTries`,
  `DeadlockSpares`); what was queued is on its way or has been logged
  (`QueuedIsKept`).

`WalletCreationProofs` proves the same of `WalletCreation`, for any users,
currencies, `txId`s, calls and readers and for any set of faults:

* `CreationInvariance`: the inductive invariant `CreationInv` always holds;
* `CreationTypeCorrect`, `NoEmptyRefusal`, `ListsAreHonest`: `TypeOK`,
  `RefusedForCause` and `ListsHonest` always hold;
* `CreationImplementsRegistry`: `WalletCreation` implements `WalletRegistry`, where
  `created` is the set of rows and `confirmed` the calls answered "created".

That a second call with one `txId` is never confirmed is not seen in the state in
which it is answered, but in the one in which its request was inserted. So
`CreationInv` says of a call where it is (`Control`): past the insert of the
wallet its wallet is there; past the insert of the request the request is logged,
and no other call with that `txId` is past it or confirmed (`LoggedOnce`); a key
that says success stands for a logged request (`CachedIsLogged`). Lists travel
from the database to readers, to the key and to calls and back: `AllHonest` says
of every list, wherever it is, what `ListsHonest` says of the cached ones, and that
only the call itself adds its wallet a second time.

`ActivityLogProofs` and `UserSystemProofs` prove of `UserSystem`, for any users,
bodies, messages, clients, page size, times, bounds and faults:

* `UserInvariance`: the inductive invariant `SystemInv` always holds;
* `UserTypeCorrect`, `AddressesUnique`, `LoginsAreKept`, `NotificationsAreBounded`,
  `NothingIsMissed`: `TypeOK`, `EmailsUnique`, `LoginsKept`,
  `NotificationsBounded` and `NothingMissed` always hold.

They assume that users at the start have different addresses, as the unique index
has it. `SystemInv` joins two invariants that share no variables. That of the
accounts says which operation a call at a step belongs to and that its user
exists (`Control`). That of the records has four parts beside the types. What a
message is a repetition of, and what a row comes from, is never given to another
message (`Origins`), and only logins are repeated. A notification that is about to
be stored has a row for each restart at most (`Deliveries`). A message that is
about to be acknowledged is kept otherwise (`AllKept`): stored, given up, or
repeated with more attempts, so that the step that acknowledges one message
cannot take the last of them away. And a row that a client at page p has not seen
has at least (p - 1) * `Limit` newer rows (`Ahead`): rows are only added, which
makes this no less true; and when a page does not show the row, everything
before and on the page is newer (`UnseenIsLater`, by counting), so the row is on
a later page and this one is not the last.

Every invariant of the passing runs is proved. Only model-checked is liveness,
which needs fairness and `ENABLED`: `QueuedIsDecided`, `SettledIsNotified`,
`ViewsSettle`, `ListsSettle`, `ProfilesSettle` and `LoginsLogged`. So are the
counterexamples of the runs that expect one. TLC checked each inductive
invariant before its proof: `IInv` and `StatusInv` on the instance of
`settlement`, `ConflictInv` on that of `progress`, `RetriesInv` with the bodies of
`faulty_stores`, crashes and closed channels.

## Plan

What is left are theorems that say when the remaining findings cannot happen: a
signup spares an active account when no other call uses its address, and a
cached list is fresh when no funding and no reader interferes.

## Not modelled

* Token checks, request validation, rate limiting, response layout, wiring and
  the seed script: libraries, formatting or development data, with no state the
  properties depend on.
* Amounts that are not whole cents. Columns are `DECIMAL(20,4)`; what the driver
  and MySQL make of more places is their arithmetic.
* An update that changes a user's id, or writes rows of other tables through
  Prisma's nested writes, which the unchecked body of `updateProfile` would let
  through: ids are the identity of the model's users.
* A page parameter that is not a number; what Prisma makes of the `NaN` it becomes
  is Prisma's.
* `user:transactions:*`: the code edits the key only if it exists, and nothing
  creates it. `TransactionRequest`: no code uses the table.
* Passwords beyond being overwritten; hashing and comparing are a library's.
