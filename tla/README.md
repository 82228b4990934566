# Verification of the Nordi remittance backend

TLA+ specifications of `src/Backend-Nordi-remittance`, the TypeScript backend of
a remittance service (Express, MongoDB through mongoose, Redis, Kafka, BullMQ),
with TLC runs on small instances and TLAPS proofs for all instances.

The first question asked of the system is the one a bank is asked: does the
money stay consistent when users, administrators and background requests act at
the same time, when a session aborts, and when a process dies between two
writes?

## 1. Inventory

Paths are relative to `src/Backend-Nordi-remittance` unless they say otherwise.

| Part | State it keeps | Operations | Meets |
|---|---|---|---|
| User transactions, `modules/transactions` | `Transactions` | transfer, deposit, withdraw, cancel | wallets and ledger in one database transaction; Kafka inside it; Redis caches after it |
| Wallets and ledger, `modules/accounts` | `Wallets`, `LedgerEntries`, `AccountLimits` | create, update, close, set status, fund a card, mature a deposit | mostly single saves outside database transactions |
| Secure transfers, `modules/transfer-verification` | `TransferVerifications`, `TransactionTaxes` | initiate, request code, verify code, cancel | the same wallets and transactions |
| Operations of administrators, `modules/admin/ops-*`, `modules/transactions/transactions-admin.service.ts` | `AdminActionLogs` | approve, reject, reverse, set status, credit, debit, transfer, bulk credit | the same wallets and transactions |
| Middleware, `middleware` | idempotency map, rate counters, tokens | authenticate, deduplicate, limit | runs before every handler |
| Ledger engine, `ledger` | `AccountBalances`, `LedgerEntries` | post, fee, reverse, hold, release | called by the AI agent's tools only; posts under the Redis lock |
| Redis service, `services/Redis.service.ts` | locks, caches, counters | lock, release, cache, count | every process of the backend |
| Loans, cards, investments, `modules/loans`, `modules/cards`, `modules/investments` | one collection each | apply, review, disburse, pay; issue, freeze; buy, sell | wallets |
| Authentication, `modules/auth`, `users-security.service.ts` | users, `ConfirmationToken`, counters and codes in Redis | sign in, second factor, verify email, reset password, confirm changes | the middleware; Redis beside the documents |
| KYC, `modules/kyc` | `KycDocuments`, attachments, files, users | upload, delete, submit, review | file storage; the cached status |
| Event bus and queues, `services/kafka.service.ts`, `services/bullmq.service.ts`, `services/workers.ts` | topics, jobs | publish, consume, retry, dead letter | after commits |
| Query cache, `services/query-cache.service.ts` | results in Redis, queries in flight per process | read through, invalidate | dashboard and statistics; invalidated after commits |
| Users, permissions, notifications, audit, statistics, legal, attachments | one collection each | create, read, update, delete | |
| Algorithms, `core/algo` | none or in memory | LRU cache, sliding window, priority queue, fraud and risk scores | imported by no file, but for the scores, which the AI agent's tools use |
| Frontend, machine learning, deployment | | | outside the backend |

`PROJECT.json` lists them one by one with their files and what is modelled.

### What is hard here

* **Absolute balances.** A handler reads `balances.get(currency)`, adds, and
  saves the sum. Two handlers that read the same value lose a movement unless the
  database refuses the second. Inside `session.startTransaction()` it does; a
  plain `save()` is not protected.
* **Two ways of cancelling, three of ending.** One `Transactions` document is
  written by its user, by the secure transfer it belongs to, by approve, reject,
  reverse and set-status, some in database transactions and some not.
* **Reads before an await.** `requestVerificationCode` and `rejectTransaction`
  decide on a document they read earlier and save it later.
* **Writes outside the transaction they belong to.** The audit record, the
  notification, the Kafka event and the Redis caches are written by other
  connections than the session: they can fail alone, or stay when it aborts.
* **Retries.** A client that hears nothing sends again. The protection against
  moving money twice is a map in the memory of one process.
* **State in several stores.** The verification of a user is a status, a document
  per file, a file and a cached copy, written one after the other.
* **Clocks.** A code lives for half an hour, a verification for a day, a lock for
  fifteen seconds.

What makes each part correct is stated below where the part is modelled. `hazards` in `PROJECT.json` names each
place where the code is exposed, with the property that covers it.

## 2. Modules

```
Bank                 the operations, each atomic; the abstract specification
  BankSessions       how they run: concurrent MongoDB transactions
    BankProofs       theorems about BankSessions, and that it implements Bank
    SecureTransfers  three-code transfers beside the users' operations
      SecureTransfersProofs  theorems about them
    AdminOps         operations of administrators beside the users'
      AdminOpsProofs theorems about them
    WalletLifecycle  opening and closing wallets beside the users'
      WalletLifecycleProofs  theorems about them
Requests             idempotency keys: a request from the router to its answer
  RequestsProofs     theorems about it, and that it implements OncePerKey
OncePerKey           what a key, a token or a code promises; the abstract
                     specification of Requests and of OneTimeSecrets
Kyc                  the verification of a user's identity
  KycProofs          theorems about it
SignIn               login and the lockout after failed attempts
OneTimeSecrets       tokens and codes that are redeemed once
QueryCache           the query cache with its single flight
RedisProofs          theorems about SignIn, OneTimeSecrets and QueryCache, and that
                     OneTimeSecrets implements OncePerKey
RedisLock            the distributed lock of the ledger engine
  RedisLockProofs    theorems about it
MC<module>           the instance of a module for TLC
MCRequestsQueries    Requests and QueryCache, a behaviour of one or of the other
MCAccess             RedisLock, SignIn and OneTimeSecrets, likewise
```

`EXTENDS` follows the indentation; the proofs of `SecureTransfers`, `AdminOps` and
`WalletLifecycle` extend `BankProofs` too.

### Bank

`db` maps every document identity to its contents or to `Absent`; `ledger` maps a
wallet to the sequence of its ledger entries. An operation is a record of what it
writes: `writes`, the new rows, and `posts`, the ledger entries. Each operation
of `transactions-transfer.service.ts` has a guard (`CanTransfer`, the checks of
`internalTransfer`) and a row record (`TransferOp`, everything it saves, the
final status included). `Apply` performs one. `BankSpec` lets operations and
status updates happen one at a time. This is the promise of the database
transactions.

### BankSessions

A session reads from the snapshot taken when it starts and buffers its writes.
All it will write is a function of the snapshot, so `op[s]` holds it from `Begin`
on. The actions are:

* `BeginTransfer`, `BeginDeposit`, `BeginWithdraw`, `BeginCancel`: the handler up
  to the commit, with its lookup of wallets (`ActiveWallets`, `ReceivingWallets`)
  and its fresh identities (`Fresh`);
* `Commit`: `commitTransaction()`. It applies the operation and dooms every open
  session that writes one of the same documents;
* `Abort`: the `catch`, or the death of the process;
* `UpdateWalletStatus`: the one write of an administrator outside transactions.

MongoDB raises a write conflict at the write that meets a newer or locked
document. The model marks the session at the conflicting commit instead and
forbids it to commit. The committed states that can be reached are the same,
since a transaction that is going to conflict can only abort. Two inserts never
conflict, and documents that are only read are not protected: both are as in the
database. Here every handler also writes the wallets it reads, except a recipient
wallet that a secure transfer only looks up.

### SecureTransfers

Rows of `TransferVerifications` join the database. `BeginInitiate`,
`BeginVerify` (too many attempts, wrong code, right code, last code) and
`BeginCancelVerification` are sessions. `ReadRequest` and `SaveCode` or
`SaveExpired` are the two halves of `requestVerificationCode`, which uses no
transaction: anything can happen between them, and `RequestLost` is the process
that dies there. `save()` writes only the paths that were assigned (status and
one code), and so does `SaveCode`. A code can be entered correctly only if it was
mailed (`known`). `VerificationAges` and `CodeAges` let the two clocks run out at
any time. The last code writes everything, notifications at the end; when one of
them is refused the session can only abort, which `VerifyLast` says by dooming it at
once. `DeleteUser` is there because it decides whether they are refused, see
`LastCodeProcessed` below. The `TransactionTaxes` document is
folded into the verification's row: every session that writes its status writes
the verification too.

### AdminOps

Each operation of an administrator is again a guard and a record of writes, run
by the same sessions as the users'. `action[s]` remembers which administrator's
action a session performs and whether its record is in; `LogAction` is
`logAdminAction`, which is not part of the session; `Finish` commits after it.
`rejectTransaction` is `RejectRead`, `RejectSave`, `RejectLog`. The tax of
`creditUserWallet` and the transaction types are those of its default arguments;
types exempt from the tax are left out. Bulk credits appear as their single
operations, each of which has a session of its own in the code too.

### WalletLifecycle

`closeWallet` and the applications for accounts, beside the sessions of
`BankSessions`. A closing uses no database transaction: `CloseRead`, `CloseCount`
(the pending transactions), `CloseChoose` or `CloseAlone` (the successor),
`ClosePay`, `CloseSave` are its awaits, and `CloseLost` is the one that fails
or dies there. `mongoose` saves the paths that were assigned: `ClosePay` writes the
balance it computed from its copy, `CloseSave` status and, if money was moved,
a balance of zero. Such a save dooms the sessions that write the same wallet, as
`UpdateWalletStatus` does.

An application is a row of the database. `ApplyForAccount` submits it.
`BeginApproval` is `approveApplication`, a session that opens the account and pays
the initial deposit from a primary wallet, opens it unpaid, or finds one of that
type and only marks the application. `RefuseRead` and `RefuseWrite` are
`cancelApplication` and `rejectApplication`, which read and then save or delete.

A closing keeps the wallet as it read it (`seen`) and, once chosen, the successor with
its balance: what it saves is computed from these. `CloseSave` assigns the status
"closed", which `mongoose` saves only when the copy said something else.

Five histories say what went by unseen: `missed`, copies a call holds of a wallet
that has changed; `stale`, documents saved over such a change; `torn`, wallets
whose closing died between its two saves; `stranded`, wallets closed without a
successor; `reopened`, closed wallets whose status an administrator set again
(`UpdateStatus`). `Notice` keeps `missed` beside every step.

### Requests and OncePerKey

A request passes `idempotencyMiddleware` (`Admit`, or `Replay` when its key has an
answer in the process that serves it), is refused or commits, and is answered.
`Answer` stores and sends, since the middleware overrides `res.json`.
`FailAfterCommit` is the Kafka or Redis call that throws when the money has moved.
`Restart` empties a process, its store and its requests in hand; `Cleanup` is the
interval that forgets old keys. What the handler does inside its transaction is
`BankSessions`; here it is one step.

`exposures` counts, per key, the accidents that take its protection away: a
duplicate that arrives while the key is in use and not found, a failure after the
commit, a restart, the cleanup. `OncePerKey` is the promise: a key executes within
its allowance, one at first, raised by accidents only.

### Kyc

A call is one request; each action takes it over one await. `UploadFile`,
`SaveAttachment`, `NameFile` are an upload of any kind of document: the file, its
attachment, its name in the user document. `CheckDocument`, `RemoveFile`,
`ClearName`, `MarkDeleted` are a deletion; `CheckUser`, `WriteStatus` a submission or
a reverification; `Review`, `VerifyDocuments` and `UpdateUserKyc` what an
administrator does; `Invalidate` the deletion of the cached status that ends most of
them; `Miss`, `ReadUser`, `Fill` a read that fills the cache. `Lost` ends a call
anywhere. The histories are `overtaken` (readings of the user changed since),
`behind` (the cached status may stay wrong until it expires), `crossed` (files whose
deletion met their upload or approval) and `torn` (files whose deletion died).
`updateMany` is one step here, although the database writes document by document.
`UpdateUser` is `updateUser` of `users-admin.service.ts` and of
`customer-management.service.ts`: an administrator writes any field of the user, so the
status and the names of the files too, and neither service deletes the cached status.
`edited` are the files such an edit named.

Left out: what the cached status says besides (rejected steps, personal data, which
`updateProfile` writes), the deletion of the user, and `KycDocuments`, a model no
service reads or writes. The routes of `modules/attachments` on single documents name their parameter
`:attachmentId` or `:documentId` while the controllers read `req.params.id`: they find nothing.

### SignIn

`login` for one email address, await by await. `Admit` reads the counter of
failed attempts (`AdmitBlind` when Redis fails, which the code takes for "not
locked"); `Guess` and `Know` compare the password; `Count` and `SetExpiry` are `INCR`
and `EXPIRE` of `trackLoginAttempt`, each with the error it swallows (`CountError`,
`ExpiryError`); `Push` updates the user with a count it took from the document it
read; `Clear` and `Succeed` end a login with the right password; `LoseLogin` ends one
anywhere. `Forgive` is the list emptied by `verify2FA` and `resetPassword`,
`UpdateUserStatus` an administrator, `RunOut` the time to live. The histories count
the wrong passwords compared while the counter lives (`guesses`) and the attempts it
missed (`unseen`); `orphaned` says that it has no time to live.

### OneTimeSecrets

The tokens of `ConfirmationToken` and the codes in Redis. `DeleteOld` and `CreateNew`
issue a token that replaces the ones before ("renewed": email verification and password
reset), `CreateChange` one that does not, `StoreLoginCode` and `CreateSession` those of
a login with a second factor, `SendCode` the code of `clerkSync`. To redeem is `Find`,
`Use`, `Mark`; the session of a second factor and the code are marked first
(`MarkSession`, `DeleteCode`) and used after (`Grant`). The two updates of
`confirmAccountDeletion` are one effect. `exposures` counts, per secret, the
accidents: a redemption that finds it while another is at work, one that ends between
effect and mark, a mark that fails.

### QueryCache

`cacheQuery` for one key in one process: a call asks Redis (`Ask`), hits, joins the
query in flight or starts one (`Miss`), reads (`Read`), stores and settles the
promise all its followers wait for (`EndQuery`, `FailQuery`). `Degrade` is the `catch`:
it deletes the entry of the map by key, whosever query it is. After a query that failed,
its leader and all its followers query the database themselves ("retrying"). `storing`
holds the SETEX commands nobody awaits. `Write` and `Invalidate` are any process of the
backend. `strays` counts the entries deleted while their query ran; `trouble` says that a
call has met an error, or no client, since the process was last at rest, that is, since no
call was under way.

### RedisLock

`withLock` of `services/Redis.service.ts`, one action per Redis command: `SetNX`,
`SetKeyExpiry`, `Check` (get), `Delete`, each with an action for the command that
throws, executed or not. `pc[c]` is the command call `c` issues next. `Retry` is
the loop around `acquireLock`, `Work` the function under the lock. `KeyRunsOut` is the
key's time to live, `Crash` the death of a process. `lockId`, new at every attempt,
is the pair of call and attempt number. `overruns` is a history variable: it
counts the keys that ran out while a call relied on them.

The function under the lock is `LedgerEngine.executePosting`. It is not modelled:
it creates its `Transactions` document without `category`, which the schema
requires, so validation aborts every posting before it changes anything. What the
lock does is independent of that.

## 3. What the runs check

| Run | Module | Shows |
|---|---|---|
| `sessions` | MCBankSessions | the seven properties of the users' operations |
| `secure` | MCSecureTransfers | the four properties of secure transfers |
| `unbacked_refund` | MCSecureTransfers | violation: a refund of what was never debited |
| `last_code` | MCSecureTransfers | violation: the last code, entered correctly, cannot commit |
| `admin` | MCAdminOps | the four properties of administrators' operations |
| `admin_ledger` | MCAdminOps | violation: balances move without a ledger entry |
| `late_reject` | MCAdminOps | violation: a rejection overwrites a newer status |
| `wallets` | MCWalletLifecycle | the five properties of opening and closing wallets |
| `kyc` | MCKyc | the five properties of identity verification |
| `requests_queries` | MCRequestsQueries | the four properties of idempotency keys, the four of the query cache |
| `stampede` | MCRequestsQueries | violation: a query that fails is repeated by all who waited for it |
| `access` | MCAccess | the three properties of the lock, two of the login, one of tokens and codes |

Properties that hold:

* `BankSpec` (a refinement): whatever sessions do concurrently, the database
  behaves as if whole operations happened one after the other. The refinement
  mapping is the identity on `db` and `ledger`; only `Commit` and
  `UpdateWalletStatus` are visible steps.
* `OpenOpsStillPossible`: the reason for it. A session that can still commit
  holds an operation that is possible in the present state.
* `LedgerChain`: every ledger entry starts from the balance the one before left
  and the last one leaves the balance of the wallet.
* `LedgerTellsStatus`: the status of a transaction and its entries agree; in
  particular concurrent cancellations refund once.
* `OverdraftIsOneFee`: the balance check of a transfer leaves out the fee, so a
  wallet can go negative, but never by more than the fee of one transfer.
* `NoDebitUnlessActive`: no step takes money from a wallet that is not active.
* `StatusesAgree`, `PaidOnce`: a verification and its transaction end together,
  and the money of a secure transfer moves at most once, in spite of late saves.
* `AdminOpsStillPossible`, `OneReversalPerCompletion`, `ReversalsAudited`: the
  same serializability with administrators in play; a transaction is reversed
  once per completion; a committed reversal has its record. The converse, that a
  record means a commit, is false of the code and promised nowhere.
* `ClosingConserves`: closing a wallet neither makes nor loses money. Over all
  wallets, balances and ledgers differ by what the closings under way have paid and
  not yet taken, unless a save went over a movement it had not read or a closing
  died between its two saves.
* `ClosedIsEmpty`: a wallet closed by its user holds no money afterwards either. A
  late refund or deposit would bring some; that every handler doing so writes the
  wallet, and so conflicts with the closing, or looks for an active one, is what
  prevents it. The exceptions are those the code leaves open: a closing that wrote over
  a change it had not read, one without a successor, and a wallet whose status an
  administrator set again, since `updateWalletStatus` looks at neither its status nor
  `isDeleted`.
* `PaidOncePerApplication`, `ApprovalsStillPossible`: however many administrators
  approve an application, and whoever cancels it meanwhile, its deposit is paid
  once, from a wallet that has the money at the commit, and only for an application
  that stays approved, unless a refusal had read it before.
* `OncePerExposure`, `PromiseSpec` (a refinement of `OncePerKey`): a key moves money
  once, and once more at most for each accident. That the accidents exist is said by
  `exposures`; that there are no others is what the run shows.
* `SuccessIsBacked`: a success that a client hears, at first or replayed, is that of
  a request of the same key that moved money.
* `GuessesBounded`: while a counter of failed logins lives, wrong passwords compared
  are at most one less than the limit, one for each login that can run at the same
  time, and those the counter missed. The lockout is a read before an await: what it
  promises is this sum, not the limit.
* `LockoutEnds`: a lockout ends, unless the one `EXPIRE` of its counter was lost.
* `OneTimePromise` (a refinement of `OncePerKey`): a token or a code takes effect once,
  and once more at most for each accident, though nothing holds finding it, using it
  and marking it together.
* `CachedStatusFresh`: the status a user is shown is current, except while a change
  is on its way to the cache, after a read that a change overtook was stored,
  after an invalidation that failed or was never reached, and after an administrator's
  edit of the user, which invalidates other caches and not this one.
* `NamedFilesExist`, `VerifiedDocumentsKept`: the user document names files that are
  there, and what was approved is not deleted, except for deletions that died or met
  an upload or an approval on the way. An administrator's edit can name any file.
* `ApprovalStands`: an approval ends by a decision or an edit of an administrator, or by
  a call of the user that had read an earlier status.
* `QueriesBounded`: of the database queries that calls share through the map one runs
  at a time, and one more for each entry an error deleted while its query ran. A query
  that lost its entry deletes the next one's when it ends; that adds nothing. Of all
  queries, those beside the map too, one runs while no call has met an error since the
  process was last at rest. The property says nothing of the unshared queries after an
  error: the code does not bound them, see `MissesShareOneQuery`.
* `EveryAnswerComes`, `StaleCopyGoes`: every call is answered though it waits for the
  query of another, and an outdated copy does not stay.
* `ExclusionUpToOverruns`: calls inside the lock at one time are at most one more
  than the keys that ran out too early. A process that dies, a command that fails,
  and even the late `del` that removes the key of another call, add nothing. In
  particular the lock excludes as long as postings take less than its time to live.
* `LockComesFree`: the one way to block the lock for ever is a key left between
  `setNX` and `expire`.

Violations, each a disagreement between the code and a sentence of the
repository; `findings` in `PROJECT.json` quotes them:

* `RefundsAreBacked`: `cancelTransaction` takes the pending transaction of a secure
  transfer, which holds no money yet, and credits amount and tax.
* `LastCodeProcessed`: a secure transfer never completes while its sender or recipient
  exists. The notification inside `completeVerifiedTransaction` is created with `userId`,
  the schema requires `user`, and the validation error aborts the session, whose answer
  would have been "Your transfer has been processed". Only for two deleted users does a
  completion commit; `StatusesAgree` and `PaidOnce` are of these, and of transfers that end
  otherwise.
* `MissesShareOneQuery`: a query that fails sends its leader and all its followers to the
  database at the same time. Coalescing, said to protect from stampedes, holds for queries
  that succeed.
* `LedgerChain` in `admin_ledger`: approvals, reversals, status updates, transfers
  and bulk credits of administrators post nothing.
* `RejectsOnlyPending`: a rejection saved over a cancelled transaction.

Other places where the code does not do what it says, visible in the modules but
without a run of their own:

* `transactions-transfer.service.ts:64` compares the balance with the amount, 148 debits
  amount and fee. A test ("should fail transfer with insufficient balance",
  `tests/controllers/transaction.controller.test.ts:71`) and the engineering notes
  ("negative balance possible", as a failure avoided) suggest that a wallet cannot go
  negative; `OverdraftIsOneFee` says by how much it can.
* `auth.controller.ts:668` writes `lockUntil`, which the schema of a user does not have:
  the lock lives in Redis only. "Account has been locked for 30 minutes" is true of the
  counter; the status "locked" written with it is reset by no code but an
  administrator's, and login does not look at it. It overwrites "suspended" and
  "deactivated", which login does refuse.
* `auth.controller.ts` stores a code for the second factor that `verify2FA` never reads,
  over the one `clerkSync` may have sent.
* `transfer-verification.service.ts:600` answers "Please request a new code" for an
  expired code, and the request is refused unless the status is `pending_*`: no
  `ReadRequest` is enabled after `SaveExpired` or an expired entry.
* `transfer-verification.service.ts:516` saves a status computed from an earlier
  read, so the three codes can be asked for out of order. `StatusesAgree` and
  `PaidOnce` hold in spite of it.
* `Redis.service.ts:1157` claims to prevent deadlock if the process dies, but the
  time to live is a second command. `LockComesFree` names this as its one exception.
* `ops-wallet.service.ts:763`: two applications of one user for the same type,
  approved at once, open two accounts, though an existing one is looked for. No
  document is written by both sessions.
* `wallet.service.ts:180`: two wallets made the default at once are both primary.
  `MCWalletLifecycle` starts with none or one, `PayingWallets` allows several.
* `middleware/Transaction.middleware.ts` reads the key from a header, while
  `src/Nordi-System-Design/08-engineering-notes.md:214` speaks of an `idempotencyKey`
  that the ledger engine checks; the frontend never sends the header. Requests
  without a key are the `NoKey` ones: nothing protects them.
* `users-admin.service.ts:184` and `customer-management.service.ts:219` (`updateUser`) write
  `kycStatus` like any other field and do not call `invalidateKycCache`, which every other
  writer of the status does: the user is shown the old status until the copy expires.
* `users-profile.service.ts:398` (`confirmAccountDeletion`) closes all wallets of the user
  with one update, whatever they hold and whatever waits for them. `closeWallet` moves the
  balance and refuses while a transaction is pending. It is not modelled as a closing, so
  `ClosedIsEmpty` and `ClosingConserves` are about `closeWallet` only.
* A deposit publishes its event before its commit (`transactions-transfer.service.ts`
  391, commit 422), a transfer after its commit (192, publish 301).

## 4. Bounds

* Two users. `MCBankSessions` has three wallets, one user owning two, since a
  handler takes any of a user's active wallets; the others have one each.
* Two sessions. A conflict is between two; a third adds only more of the same,
  and the theorems cover any number.
* `MCTxs`: three transactions in `sessions` and `admin`, two in `secure`. Documents
  are never deleted, so this bounds the length of a behaviour: deposit, then two
  operations that race. In `secure` and `admin` the first is done in the initial
  state (`AfterDeposit`), a state the program reaches.
* `MCAmounts`: in `sessions`, half a dollar and a dollar and a half. The larger
  pays for a withdrawal of the smaller with its fee of a dollar, and a transfer of
  the whole is possible while its fee is not covered. `secure` uses ten dollars
  with twelve in the wallet, the exact gross amount.
* `MaxAttempts` is 1 instead of 3: one wrong code, then the failure.
* `MaxBalance` bounds refunds by `updateTransactionStatus`, which can be repeated
  without end.
* `MCStatusUpdates` is active and frozen in `sessions`; suspended and closed act
  like frozen, since the code compares with "active" only. `secure` sets no
  statuses: completion looks at none, and `sessions` covers the rest. `wallets`
  sets only active: the reopening of a wallet is what could matter there.
* `MCNewStatus` is "failed": the statuses that refund act alike, the others only
  relabel.
* Three calls of `withLock`: one whose key runs out, one whose key is deleted in
  turn, one that enters beside it. `Retries` is 2 instead of 3: one attempt that
  fails and one that is the last.
* `wallets`: one user, since closing and approving stay within one; two wallets with
  two dollars each and the transactions that brought them, the first primary, or not;
  two identities for the account to open; a transaction still free; one application;
  two closings, which may be of the same wallet or pay one another; two sessions; one
  refusal. One amount, two dollars, which may be deposited, withdrawn, and refunded by
  cancelling. With one user there is no transfer.
* `Requests`: three requests of one key, an original with two retries, and one without
  a key; two processes; restarts and cleanups without bound.
* `kyc`: two calls and two files of one kind. The kinds meet in the cached status
  only; the histories are what two calls do to one another. While the status is cached, or
  on its way to the cache, only one of the files is in use: two files exercise names and
  deletions, and the cache sees no more of them than whether one is named.
* `QueryCache`: three calls, the leader, a follower and one that comes later; one
  write, since staleness is of one write; `MaxStrays` and `MaxStores` are 2, enough for
  a query that lost its entry to delete the next one's.
* `requests_queries`: `about` says whether a behaviour is of `Requests` or of `QueryCache`.
  They share no state, so the run explores one state space and then the other.
* `access`: a limit of three failed logins instead of five, so that two logins can pass
  the last attempt together and three can pass before; two misses; two logins. Two
  redemptions and two exposures: one of each accident or the same twice. Two tokens that
  replace one another, a session with two codes, which its login replaces, and a token of
  a change. `locking` and `about` say whether a behaviour is about the lock, the password or
  which of these families: they share no state.
* Symmetry over sessions, callers, calls and unused documents, in runs whose temporal
  properties are action properties and a refinement without fairness. The runs that
  check liveness (`requests_queries`, `access`) use none.
* `View` in `secure`, `admin` and `wallets`: two states that differ only in the rows a session
  in a write conflict, or one that has failed, has buffered are explored once. Such a
  session can only abort, and the identities of the documents it creates, which no other session
  may take, are in the view.

Deadlock is checked in every passing run but `wallets` and `access`. In `wallets` nothing
is left to do when every identity is used and every application settled; in `access` when
every call of the lock has ended, or every token and code is spent.

## 5. Data abstracted

Money is an integer number of hundredths of a cent instead of a floating-point
number of dollars, so rounding errors of repeated additions are outside the
model; the explicit `Math.round` of fees and taxes is modelled. One currency:
every operation reads and writes one key of `balances`. The result of a cached query is the
version of the data it read. Names, references, mails,
caches, notices and metadata are left out.

## 6. Fairness

For the money, none is assumed: all properties are safety properties. The code
promises little that must happen. Nothing retries an aborted session, no job
expires a verification, and a pending withdrawal waits for an administrator.

For the lock, `LockFairness` assumes weak fairness of each call's `Step` and of
`KeyRunsOut`: the event loop of a living process goes on, Redis answers each command or
the client throws, the function under the lock returns (its session has the
timeouts of the driver), and Redis expires keys whose time is over. `Call` and
`Crash` need not happen.

`QueryFairness` assumes weak fairness of `Step(c)` and `Expire`: every await settles,
because the drivers of MongoDB and Redis have timeouts, and Redis expires keys. That
`SETEX` and the invalidations arrive is not assumed. `SignInFairness` assumes it of
`LoginStep(l)` and `RunOut` for the same reasons; nobody need try a password, and the
`EXPIRE` of the counter may be lost. The requests of `Requests` and `OneTimeSecrets` are
checked for safety only: a restart may end any of them.

## 7. Proofs

`BankProofs` proves, for all values of the constants that satisfy the assumptions
of `Bank` (`Owner` is a function, amounts are positive whole cents, identities of
collections are disjoint, `Absent` is no document) and of `BankSessions` (it is no
operation either):

| Theorem | States |
|---|---|
| `TypeCorrect` | `Spec => []TypeOK` |
| `NoStaleCommit` | `Spec => []OpenOpsStillPossible` |
| `Serializable` | `Spec => BankSpec` |
| `LedgerRecovers` | `Spec => []LedgerChain` |
| `OverdraftBounded` | `Spec => []OverdraftIsOneFee` |
| `FrozenMoneyStays` | `Spec => NoDebitUnlessActive` |
| `LedgerTellsTruth` | `Spec => []LedgerTellsStatus` |

The inductive invariant is `IInv == TypeOK /\ OpenOpsStillPossible`. Serializability
alone is not inductive: that a commit is a step of `Bank` depends on what the
session read long before. `OpenOpsStillPossible` carries it through the steps of
the others. Its core are two lemmas: `Frame`, an operation that is possible stays
possible, and writes the same, after a step that changes no document it writes;
and `PossibleIsStep`, performing a possible operation is a step of `BankNext`.
`StillPossible` puts them together with the rule of `Commit` that dooms every
session with a document in common.

`LedgerChain`, `OverdraftIsOneFee`, `NoDebitUnlessActive` and `LedgerTellsStatus`
are then proved of `BankSpec`, one atomic operation at a time, and hold of `Spec` by
`Serializable`. This is what the abstract specification is for. `LedgerTellsStatus`
counts entries, but no induction is needed: `EntriesAfter` says which positions of a
ledger name a transaction after one operation, in terms of those before. What it
needs beside itself is `WithdrawalsWait`: only a withdrawal is ever pending, so only
a withdrawal can be cancelled and refunded.

The last sections of `BankProofs` are lemmas for sums over a finite set, which the proofs
of `WalletLifecycle` cite. The library's induction rule takes an operator as a parameter;
`SubsetInduction` states the same for a *set* of subsets, and follows from the
well-foundedness of strict inclusion: a set that is missing would contain a smallest one.
From it follow the existence and the uniqueness of the recursive function of sums
(`SumsExist`, `SumsAgree`), and then that a sum changes by what its one changed term
changes (`TotalChanges`).

`SecureTransfersProofs` proves, under the assumptions of `Bank` and of
`SecureTransfers` (`OtherRows` are the verifications):

| Theorem | States |
|---|---|
| `SecureTypeCorrect` | `SecureSpec => []SecureTypeOK` |
| `NoStaleSecureCommit` | `SecureSpec => []SecureOpsPossible` |
| `SecureLedgerRecovers` | `SecureSpec => []LedgerChain` |
| `SecureStatusesAgree` | `SecureSpec => []StatusesAgree` |
| `SecurePaidOnce` | `SecureSpec => []PaidOnce` |

The invariant is `SInv`. Its first half (`Core`) is the argument of `BankProofs` once
more, `SecureOpsPossible` for the operations of users and of verifications, with what
ties a verification to its transaction (`VerificationsSound`) and a late code request
to its verification (`AskedExist`). `PaidOnce` alone is not inductive: the late save of
a code request sets the status of a paid verification back, and it could be paid
again. The second half says why it cannot (`PaidBy`): once the money has moved, both
users are deleted and no code of the sender can be entered any more, because a code
request of a deleted user mails none. The last code is then out of reach. In the
same way no cancellation of such a transfer is possible, for its status is final.

`AdminOpsProofs` proves, under the assumptions of `Bank` and of `AdminOps`:

| Theorem | States |
|---|---|
| `AdminTypeCorrect` | `AdminSpec => []AdminTypeOK` |
| `NoStaleAdminCommit` | `AdminSpec => []AdminOpsStillPossible` |
| `ReversalsLeaveRecords` | `AdminSpec => []ReversalsAudited` |
| `ReversedOnce` | `AdminSpec => OneReversalPerCompletion` |

`AdminOpsStillPossible` is carried through the steps as in `BankProofs`; the one new
case is the save of a late rejection, which uses no transaction and dooms the sessions
that write its document. For the records, `AInv` adds that a session with a reversal in
hand carries the action that names it (`ReversalsTold`) and that an action marked as
recorded is in the log (`RecordsKept`): with the order of record and commit in `Finish`
they give `ReversalsAudited`. `ReversedOnce` is an action property: a commit is a
possible operation, and the only one that creates a reversal of `t` needs `t` to be
completed and leaves it reversed.

`WalletLifecycleProofs` proves, under the assumptions of `Bank` and of
`WalletLifecycle` (`OtherRows` are the applications, deposits are integers, wallets and
closings are finitely many), for any number of users, wallets, applications, sessions,
closings and refusals:

| Theorem | States |
|---|---|
| `LifeTypeCorrect` | `LifeSpec => []LifeTypeOK` |
| `NoStaleApproval` | `LifeSpec => []ApprovalsStillPossible` |
| `ClosedStaysEmpty` | `LifeSpec => []ClosedIsEmpty` |
| `ApplicationPaidOnce` | `LifeSpec => []PaidOncePerApplication` |
| `ClosingsConserve` | `LifeSpec => []ClosingConserves` |

The invariant is `LInv`. `Core` is again the argument of `BankProofs`, for approvals
beside the operations of the users; `GoodOp` is what all of them have in common: they
write a wallet only when it is active, new, or has a transaction waiting, and a
transaction that waits is a new one of a wallet they debit. `ClosedIsEmpty` is not
inductive, since a withdrawal that waits would be refunded to the closed wallet;
`ShutStays` adds that none does. Why that is true when a closing ends is said by
`ClosersTell`: what a closing has read of its wallet still holds while the wallet is
unchanged, the count of the waiting transactions included, because a transaction that
begins to wait changes the wallet. A successor that was shut after it was read has
changed as well, so a second closing that pays it writes over something it missed
(`Tells`). `Steady` states what every step leaves to the closings of others, and
`StepKeeps` what is then left to show of one. `PaymentsTell` gives `PaidOncePerApplication`:
an approval needs its application pending and leaves it approved, and an application
that is pending has no entries.

`ClosingConserves` compares two sums: by how much all wallets exceed their ledgers
(`Surplus`), and what closings have paid into a successor without having taken it from
the wallet they close. The fold of the community modules is first shown to be the sum
`Total` of `BankProofs` (`GapsAreSurplus`, `SeenArePaid`). A commit writes a balance
and its entries together, so it moves no surplus (`CanIsBalanced`). `ClosePay` adds to
both sums and `CloseSave` takes the same from both; a save over an unread movement makes
its wallet stale and a closing that dies between its saves leaves it torn, and then the
property claims nothing. The equality is inductive only with `SuccessorsRead`: the
balance a closing is about to overwrite is the one it read, unless it missed a write,
and then its save makes the wallet stale. The invariant is `LInv` with
`CInv == SuccessorsRead /\ Conserves`.

`RedisLockProofs` proves, for any finite set of calls and any positive number of
attempts:

| Theorem | States |
|---|---|
| `LockTypeCorrect` | `LockSpec => []LockTypeOK` |
| `ExclusionProved` | `LockSpec => []ExclusionUpToOverruns` |

The bound on the calls inside is not inductive: a call that lost its key goes on to
delete another's. `LockIInv` bounds the calls *astray* instead, those that rely on
a key that is not theirs any more, by `overruns`. A key that runs out adds one to
both; the `del` of a stray call leads another astray and ends its own straying;
all other steps only make `Astray` smaller. Of the calls inside, at most one is
not astray.

`RequestsProofs` proves, for any finite set of requests, any keys and any processes:

| Theorem | States |
|---|---|
| `RequestsTypeCorrect` | `RequestsSpec => []RequestsTypeOK` |
| `SuccessBacked` | `RequestsSpec => []SuccessIsBacked` |
| `OnceProved` | `RequestsSpec => []OncePerExposure` |
| `RequestsKeepPromise` | `RequestsSpec => PromiseSpec` |

That a key has moved money at most `1 + exposures` times says nothing about the
requests that still run and will. The invariant counts those in hand together with
the ones that moved, and spends the first execution only while the key is live.

`KycProofs` proves, for any calls, files and kinds:

| Theorem | States |
|---|---|
| `KycTypeCorrect` | `Spec => []KycTypeOK` |
| `CacheProved` | `Spec => []CachedStatusFresh` |
| `NamesProved` | `Spec => []NamedFilesExist` |
| `DocumentsKept` | `Spec => []VerifiedDocumentsKept` |
| `ApprovalProved` | `Spec => ApprovalStands` |

`IInv` adds three parts to the checked invariants: what a call at each step knows
of its file (`CallsTell`), what the sets of files know of one another (`FilesTell`),
and that a reading not overtaken is still true (`ReadingsHold`), from which both
the fresh cache and the standing approval follow. An edit that changes the user overtakes
the open readings, leaves a cached status `behind`, and makes the files it names `edited`.

`RedisProofs` proves, for any finite set of logins and any limit:

| Theorem | States |
|---|---|
| `SignInTypeCorrect` | `SignInSpec => []SignInTypeOK` |
| `GuessesBoundProved` | `SignInSpec => []GuessesBounded` |

The invariant splits `unseen` in two. A login let in without reading the counter can
raise it past the limit: the counter and the logins still to be counted stay below
limit plus logins plus those (`Room`). An attempt that was not counted separates the
passwords tried from the counter (`Seen`). The sum of the two is the bound.

It proves for any finite set of redemptions, any tokens and codes:

| Theorem | States |
|---|---|
| `SecretsTypeCorrect` | `SecretsSpec => []SecretsTypeOK` |
| `SecretsKeepPromise` | `SecretsSpec => OneTimePromise` |

The invariant counts, beside the effects had, the redemptions in hand that owe one, and
the one a valid secret that nobody holds can still have.

It proves for any finite set of calls of the query cache and all bounds:

| Theorem | States |
|---|---|
| `QueryTypeCorrect` | `QuerySpec => []QueryTypeOK` |
| `QueriesBoundProved` | `QuerySpec => []QueriesBounded` |

As with the lock, the bound is proved of the queries that have lost their entry
(`OrphansBounded`): `strays` raises the bound with each, and of the leading queries
at most one still has its entry. `Calm` says that without trouble no query has lost its
entry and none runs beside the map; it is inductive because at rest no query is left, lost
entries or not.

Only model-checked: the liveness properties `LockComesFree`, `EveryAnswerComes`,
`StaleCopyGoes` and `LockoutEnds`, which are out of the prover's reach, and the five
runs that expect a violation. Every other property of a passing run is stated by a
theorem.

## 8. Not modelled

`components` in `PROJECT.json` gives the reason part by part. In short:

* **Not reachable.** Loans, cards, investments and savings goals look for wallets by
  `userId`. The schema has no such field, and mongoose with `strictQuery` false (its default) sends
  the filter as it is, so no wallet is found and every operation that would move money
  ends there. Postings of the ledger engine omit the required `category` and abort;
  `AccountBalances` therefore has no rows and the balance check that reads it finds
  none. The duplicate detection filters by a field no transaction has. The maturity of
  fixed deposits, the account policies, the savings limits, `subscribe` of Kafka and
  with it retries and dead letters have no caller, and no file imports the data
  structures of `core/algo`. A model of any of these would be of a program nobody runs.
* **One document, one step.** Beneficiaries, profiles, permissions, loan and card
  applications, `createWallet`: a read and a save that no later step relies on.
* **The rest of authentication.** Access and refresh tokens are signed and not stored (no
  row of a refresh token is ever created); the sessions kept in Redis are written and
  deleted and read by nobody. The backup codes `verify2FA` accepts are not among the
  one-time secrets: the handler looks a code up in the user it has read and removes it with a
  later update. The administrators' login with its own counter, the
  webhook of Clerk and the registrations are single inserts or updates.
* **Input and output.** Mail, PDF, file storage, sockets, job queues, language models,
  trained models, reports, the browser client, deployment.

So the operations that change balances in a run of this backend are those of
`UserBegin`, `SecureTransfers`, `AdminOps` and `WalletLifecycle`. They are composed with
the users' operations one module at a time, never all four: each addition shares
only wallets, transactions and the conflict rule of `BankSessions` with the others.

## 9. What is left

1. An instance of `WalletLifecycle` with two users, for a closing that meets the
   transfer of another. The theorems cover it; the run has one user.
2. The six hazards without a property in `PROJECT.json`. Each has a note: no
   document of the repository says what should happen there, so there is no property to
   state until that is decided.
