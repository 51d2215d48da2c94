# Adehun API: TLA+ models, checks and proofs

Adehun is an escrow backend: a depositor and a beneficiary agree on a deal, the
depositor's money is held in escrow, and it is released when the conditions are
approved, or an admin settles a dispute. This directory models the parts of
`src/app` that keep that money and the state of a deal, checks them with TLC and
proves the main facts with TLAPS.

## 1. The system

Layers: `routers` (orchestration), `service` (rules), `repository` (SQL through one
SQLModel `Session` per request), `models`. PostgreSQL at READ COMMITTED is the
only durable store; Redis is an optional read cache; Paystack moves real money.
Handlers are `async def` and call synchronous database code, so within a process
they interleave only at an `await`; authentication dependencies run in a thread
pool before the handler; several worker processes may run
(`rate_limiting.py:19-21`, `docs/websockets.md:25`) and then everything
interleaves between database statements.

| Component | State | Operations | Hard behaviour | What makes it correct |
|---|---|---|---|---|
| Wallet ledger (`wallet_repository.py`) | wallets, ledger rows, row locks | `apply_entry`, `apply_transfer`, `ensure_wallet` | concurrent calls, one reference twice, two locks, rollback with the caller's changes, stale instances | every balance is explained by its rows; a reference moves money once; transfers are whole; callers' changes commit with the money; no lock cycle; calls end |
| Agreement (`agreement_service.py`, `routers/agreement.py`) | status, participants, invitation | create, accept, reject, cancel, fund, release, refund | unlocked check then commit, several commits per request, crash between them | paid out once; the status tells the money's story; dead deals stay dead and hold nothing |
| Conditions (`condition_service.py`) | condition status | add, approve, reject, automatic release | approval and release are two transactions | nobody is paid before it is due |
| Disputes (`dispute_service.py`, `admin_dispute.py`) | dispute status and outcome | raise, review, resolve with payout | two submits, two admins, decision committed before payout | a live dispute freezes the money; one at a time; decisions are final; a failed payout can be re-run |
| Agreement copies (`redis.py`, `agreement_repository.py`) | JSON copies with a TTL | get, set, delete | slow readers, lost invalidation, a handler that answers from a copy | a stale copy has a known cause; a handler answers with what it has written |
| Withdrawals (`wallet_service.py`, `paystack_client.py`) | `paystack_transaction` | request, reverse, reconcile | awaits of the gateway, timeouts, webhook races, an intent committed without its debit | the bank and the ledger end in agreement |
| Wallet funding (`wallet_service.py`, `paystack_webhook_service.py`) | `paystack_transaction` | request, `charge.success` | one charge under two keys, another amount or currency, a success committed before its credit, crash between credit and mark | what was paid is credited, once, and in the end |
| Webhooks (`paystack_webhook_service.py`, `webhook_event_repository.py`) | `webhook_event` | claim, handle, mark | redelivery, crash between claim and mark | an event is handled once, and not lost |
| Idempotency keys (`core/idempotency.py`) | `idempotency_key` | reserve, replay, complete, release, take over, sweep | expiry, takeover, death of the holder | one handler per key at a time; a finished key replays the original; a key never stays blocked |
| Refresh tokens (`auth_service.py`) | `refresh_token`, `user`, the user's copy in Redis | login, rotate, reuse, logout, deactivate | two rotations at once, rotation against revocation | one live token per login; what is ended stays ended |
| Bank accounts (`bank_account_service.py`) | accounts, default flag | add, set default, remove, pay to | awaits inside an addition, removal against withdrawal | payouts and the default refer to active accounts |
| Assets (`asset_service.py`, `asset_repository.py`) | rows, three kinds of copies | upload, approve, reject, list | copies that no write drops | no copy outlives its row |
| Sockets (`realtime/manager.py`), invitations, notifications, users, statistics, e-mail, limits, start-up, migrations | rows, files, sockets | CRUD and I/O | see section 5 | not modelled |

Interactions: routers call one service after another over the same session, so a
flush made by one (`prepare_release`) is committed or rolled back by another
(`apply_transfer`), or committed halfway, when a wallet has to be opened first
(`ensure_wallet`; no wallet is made at registration, but when its owner first looks
at it or first has money moved); funded and released are not stored but read from the ledger
(`transaction_service.py:78-85`); approving a condition and resolving a dispute
call the release and refund functions of the agreement router; a notification's
commit also commits what a replayed transfer left flushed; funding and withdrawal
requests run under an idempotency key; webhooks and status reads write the rows
that those requests have left; a withdrawal pins a bank account.

## 2. The modules

    LedgerEntries            rows, effects, refusals: pure operators
      LedgerBook             the abstract book: one step per movement
      WalletRepository       sessions, locks, rollbacks; implements the book
      Escrow                 one agreement; its money moves by the book; implements Deal
      Withdrawals            one withdrawal; money by the book, events by WebhookInbox
      Deposits               wallet fundings; money by the book, events by WebhookInbox
    Deal                     what an agreement promises: one step per event
    WebhookInbox             webhook_event rows and the provider's redelivery
    IdempotencyKeys          one key, its requests and their money
    AgreementCache           Redis copies of one agreement next to its row
    RefreshTokens            one user's tokens, row and copy
    BankAccounts             one user's accounts and the withdrawals that pin them
    Assets                   the uploads of a condition and their copies

    MC<module>               instances for TLC, one beside each component module
    LedgerEntriesProofs, WalletRepositoryProofs (and the book), EscrowProofs (and the
    copies of the agreement), WithdrawalsProofs, DepositsProofs, IdempotencyKeysProofs,
    RefreshTokensProofs, BankAccountsProofs

`LedgerBook` is instantiated wherever money moves
(`Book == INSTANCE LedgerBook WITH wallet <- wallet, ledger <- ledger`):
WalletRepository is shown to implement it (`ImplementsLedgerBook` as a property of a
run, `Implementation` as a theorem), which is what lets Escrow, Withdrawals and
Deposits move money in one step, `Book!Post`. That these three in turn implement the
book is a theorem of each (`MoneyMovesByTheBook`).

**LedgerEntries.** The effects table, one leg's refusals, row and new balance, and
the same for a whole operation of one or two legs. A reference names a business
event and `LegOf` says whose wallet it moves, how, and by how much; so different
operations have different references (assumed, as the prefixes `esc_lock_`,
`esc_rel_...:out` make them). Amounts are whole kobo. `Numeric(12,2)` overflow
and the two-decimals check are left out.

**LedgerBook.** What the repository promises: `Post(o)` happens at most once per
operation, only if no balance goes below zero, and moves balances and rows
together.

**WalletRepository.** One action per database statement another session can see
or wait for: `Lookup`, `Resolve`, `EnsureWallet` (INSERT ... ON CONFLICT and its
COMMIT), `LockWallet` (FOR UPDATE, ascending id), then `Commit`, `Refuse` or
`Conflict` with `LookupAfterConflict`; `Crash` at any point. `view` holds the ORM
instances, `flushed` says that the caller has flushed a change of its own and
`carried` records the operations whose caller's change is committed. `KeepResult`
is a request that still refers to the wallet of an earlier result: SQLAlchemy
returns that instance, with its old attributes, from the next FOR UPDATE (the
query has no `populate_existing`). The unique index is looked at when the row is
inserted; PostgreSQL makes the second inserter wait for the first, and since both
hold the same wallet's lock by then, no separate wait is modelled.

**Escrow.** Every request that changes one agreement. `Check...` is all a handler
reads and refuses before its first commit (a refused request is no step); each
commit after that is an action. A session holds no lock between its check and its
commit, so another session's commits fall in between. Several reads of one check
are one step: the funded and released facts only ever become true, and reads that
see different moments add nothing to the properties checked under concurrency. An
unconditional read and write in one commit are one step as well. Money moves with
`Book!Post`, justified by the refinement above; the one commit of
WalletRepository that the modules above it must keep apart is `ensure_wallet`'s,
because it commits what the caller has flushed. In Escrow that is the status:
`FindNoWallet` is the look-up that finds no wallet, `EnsureBeneficiaryWallet` the commit,
which comes even if the wallet has been opened in between.
`WriteStatus` is the ORM's UPDATE, which is not sent when the value is the one
the session loaded. Left out: Redis (AgreementCache has it), notifications and
socket pushes, idempotency keys, evidence files, the re-pointing of a condition
at the invitee's participant row, and the row lock between flush and commit,
which only delays.

**Deal.** The same agreement as its two parties see it: its status, where its money is,
whether its conditions are approved, whether a dispute is live, and what has been ruled.
Each event (`Accept`, `CallOff`, `Fund`, `PayOut`, `GiveBack`, `RaiseDispute`, `Resolve`, ...)
is one step with the guard it should have at that very moment, which no handler can see
to: it checks first and commits later. `ImplementsDeal` says that Escrow's commits are
such events; `Promises` is what follows from the events alone. One event is there because the
code has it: `CompleteUnpaid`, the status that the opening of a wallet commits ahead of
its money. Also, `GiveBack` looks at nothing but the money and "completed", since a route
only an admin can call may refund a deal in any other status.

**WebhookInbox.** `inbox` is the `webhook_event` table, one row per dedupe key;
`owed` the events the provider has sent and has no 200 for. `Claim` is the
INSERT ... ON CONFLICT DO UPDATE and its commit, `Claimable` the conflict's WHERE;
`Processed` and `Failed` are `mark` and `mark_failed` with the answer that follows
them. There is one key per event type, since a transfer has one outcome of each.

**Withdrawals.** `transaction` is `paystack_transaction.status`, `entry` the status
of the `wd_` ledger row, `lock` the row lock on `paystack_transaction`. Coroutines
of one worker interleave at their awaits only, so an action reaches from one await
or commit to the next:

| Code | Actions |
|---|---|
| `request_withdrawal`, with a wallet | `RequestWithdrawal` (intent and debit in one commit) |
| the same, without one | `EnsureWallet` (commits the intent), then `DebitNewWallet` or `RefuseDebit` |
| and from there | `InitiateTransfer`, `HearOutcome`, then `RecordTransfer` or `ReverseWithdrawal` or neither |
| `get_withdrawal` | `ReadStatus`, `HearPoll`, `Reconcile`, then `Settle` or `ReverseWithdrawal` |
| webhook, claim | `Deliver` |
| `_handle_transfer_success` | `HandleSuccess` (takes the lock), `HearVerify`, `Verified` or `NotVerified`, `Mark` |
| `_handle_transfer_reversal` | `HandleReversal` and `Mark`, or `HandleReplay` |
| already in its final status | `HandleNothing` |
| a worker's death | `Restart` |

A database statement is synchronous: one that waits for the row's lock stops the
event loop of its worker (`Wait` puts the session in `frozen`, and `Runs` keeps
every other session of that worker from moving). When the credit of a reversal is
there already, `apply_entry` replays and commits nothing: in `_reverse_withdrawal`
the flushed statuses are then rolled back, in the webhook handler the commit of
`mark` makes them durable.

The provider is external, modelled as `src` uses it: a POST is accepted, refused
or lost (`Receive`); the bank succeeds or fails, and a success may be reversed
(`Conclude`), with one event for each; `verify_transfer` returns the current
state, or an error for an unknown reference or in an outage (`Hear`). A failed or
reversed transfer stays so. `BrokenAfter` says what may have become of a POST that
ended in an error that is no timeout (a 5xx, a broken connection, an unreadable body:
`paystack_client.py:166-190`); the run allows anything, before the POST has arrived and
after. The request takes each of them for a refusal, and `doubtful` remembers that
one was none or might have been none.

A user without a wallet has nothing to withdraw, but has the intent committed all the
same: it stays pending, without a debit, for ever, against the comment "nothing persisted"
(`wallet_service.py:310`). If money arrives between that commit and the debit, the
withdrawal goes on in two commits.

Left out: the branches for an unknown reference or a missing ledger row
(unreachable, as only a transfer has events or an answer, and a transfer has its debit:
`DebitedFirst`), the choice of the bank account
(BankAccounts has it), daily limits, the transfer code, Paystack's signature, and the
ledger instance kept across the await (it is `KeepResult` in WalletRepository).

**Deposits.** The other half of `paystack_transaction`: `RequestFund` commits the
intent, `InitializeTransaction` is the one POST (it may be accepted, refused or
lost), `HearPage` and `HearError` what the request makes of the answer. `Pay` is the
customer, who may pay another amount than asked for or in another currency. The
webhook handler is `Deliver`, `LockPayment` (the row lock, held over the await),
`HearVerify`, then one of `VerifyFailed` (an error), `NotVerified` (not settled, or no
amount: acknowledged, and remembered in `denied`), `IgnoreForeign`, or `LookUpWallet`.
For a payer with a wallet, `Credit` is then one commit of status, amount, row and balance,
and `RefuseCredit` rolls all of it back. For a payer without one, `EnsureWallet` comes
first: it commits the success, ends the row lock, and `ahead` remembers it. So for a
first-time funder the comment "apply_entry below commits it atomically with the ledger
row and the balance change" (`paystack_webhook_service.py:241-242`) is not what happens:
a worker's death in between leaves a success without a credit, which every further
event finds already processed, and a refused amount of zero leaves one too. `Mark` is a
commit of its own, and `OpenWallet` the other way to a wallet. `build_dedupe_key` falls back from `data.id` to the
reference, so that one charge may have several events (`PaymentOf`), and two
handlers of one charge meet at the row lock. Each session has a worker of its own;
what a lock does to a shared event loop is in Withdrawals.

**IdempotencyKeys.** One key of one user at one endpoint: `row` is the
`idempotency_key` row with its age (fresh, stale after the in-flight timeout, expired
after the TTL). `Reserve` is the one INSERT ... ON CONFLICT DO UPDATE and its commit,
`Look` what the request does when it got no row back (reused, replay, conflict),
`ProceedUnguarded` the branch for a row that has gone since. The handler is
`MoveMoney` or `Raise`; `Complete` and `Release` act on the row with the record id the
request has kept, whoever holds it by now, which is what makes a takeover hard.
`FreshReferences` says whether the reference is made by the execution (withdrawals) or
derived from the agreement (funding); `OutlastsTimeout` whether a reservation may
become stale under a handler that is alive. `bind_reference` only annotates the row.

**AgreementCache.** `copy` is `agreement:{id}` and the lists `user:{id}:agreements:v2`
of its parties (as one key: both are dropped and filled alike). A read is `Hit`, or
`Miss` and `Set`, in which the value set may be old by then; a write is its commit, then `Context` (for the three operations that look the
parties up once more, and drop nothing if they are not both there), `Delete`, and the
read of the answer. `Fund` reads the status it is judged by twice. Redis may not
answer (`Outage`), and a request may fail after its commit (`Crash`).

**RefreshTokens.** Tokens are numbered as issued; `family` is the login a token
descends from. `Login` (with `CreateUser` and `IssueTokenPair`), `RefreshToken`
(with `RevokeAll` for a revoked token, else `HitUser` or `MissUser` and `SetCopy`, then
`Rotate`), `LookupForLogout` and `Logout`, `Authenticate` (an access token: the row is
looked at, not the copy), `UpdateUser`, `Deactivate`, and time: `ExpireCopy`,
`ExpireToken`, `PurgeExpired`. The UPDATE of a rotation names the row by its key only,
so that it revokes a token another request has revoked meanwhile; `forked` remembers
the logins in which that has happened.

**BankAccounts.** The number of workers is chosen at the start; with one, `Runs` lets a
handler go on undisturbed to its next await, and only `add_bank_account` has any.
`CheckDuplicate`, `CreateRecipient` (or `NotResolved`), then `Add` or `ReadDefault` and
`AddDefault`; `LookupForDefault`, `ReadDefault`, `SetDefault`; `LookupForRemoval`,
`CheckPending`, `Deactivate`; `ResolveBankAccount` and `Withdraw`. `Refused` is what the
three unique indexes refuse, `Conflict` the rollback. The ORM writes a flag only where
the instance it has loaded differs, which `was` records.

**Assets.** Uploads and decisions next to `asset:{id}` and the two lists. `get_by_id`
answers from a copy with an instance of its own, which the commit of a decision then
tries to INSERT: `HitAsset` ends in the error that the primary key makes of that.

## 3. The runs

| Run | Instance | Question |
|---|---|---|
| `wallet_repository` | 2 sessions, 2 users, 9 operations, no wallet opened, a result kept for the reversal | Do sessions implement the book; are balances the sums of the rows; do callers' changes commit only with the money; can sessions wait in a circle; does every call end? |
| `escrow_in_turn` | 1 session, 2 conditions, 2 disputes, beneficiary with and without wallet | What does a deal promise when requests follow each other, crashes included; is every commit an event of Deal? |
| `escrow_concurrent` | 2 sessions, 1 condition, 2 disputes, beneficiary with and without wallet | What still holds when two requests overlap? |
| `withdrawals` | 2 sessions on 2 workers, one withdrawal, with and without a wallet, POSTs that break anywhere, 2 attempts, 2 outages, 1 restart | Is money only given back for a transfer that has not paid; does the bank's outcome arrive? |
| `deposits` | 2 workers, a payer with and without a wallet, one payment asked for 2 and paid with 0, 1, 2 or 3, two events, 2 attempts, 2 outages, 1 restart | Is what was paid credited, once, and in the end? |
| `idempotency` | 4 requests with one key, one with other content | Is there one handler at a time; are replays the original; does the money move once? |
| `agreement_cache` | 2 sessions, 1 outage, 1 failure after a commit | Has every stale copy a known cause; does a handler answer with what it has written? |
| `refresh_tokens` | 2 workers, 3 tokens | Has a login one live token; is what was ended ended; is a deactivated user given nothing more in the end? |
| `bank_accounts` | 2 requests, 3 accounts, 2 numbers, one worker or several | Do payouts and the default refer to active accounts; does every user with accounts just added have a default? |

The others are counterexamples: something the code's comments or docs say and the
code does not do. Each checks one property.

| Run | What happens |
|---|---|
| `escrow_double_payout` | Release and refund both pay; the second spends the escrow of another deal (`agreement_service.py:181`). Needs two overlapping requests. |
| `idempotency_spent_twice` | The holder of a key dies after its debit; the retry takes the key over and debits again, under a reference of its own (`wallet_service.py:54`). Needs one crash. |
| `assets_stale_copy` | A decision leaves the copy `asset:{id}` that it made when it looked the asset up, and the next decision is answered with an error while that copy lives (`asset_service.py:188`). Needs nothing but two requests in turn. |

The type invariant is an invariant of the runs of WalletRepository, Escrow and
BankAccounts (where it says what the unique indexes keep). Every one of these modules
has it as a theorem (section 4); that of AgreementCache is part of `CopiesInv`.
`PayoutIsFinal` contains `PaidOutOnce`: a deal is not both completed and refunded.
`DeadStaysDead` (no step takes a deal out of "cancelled", "completed" or "refunded") is a
theorem and in no run: `ImplementsDeal`, which is in one, breaks wherever it does.

`StatusEarned`, `CreditedAsPaid`, `ReturnedOnlyIfUnpaid`, `SuccessKept` and
`OutcomeArrives` name an exception each, which the instances reach and where the code
does otherwise than its comments say:

- *A wallet not yet opened.* `ensure_wallet` commits what its caller has flushed
  (`wallet_repository.py:239`): a "completed" before the release (`StatusEarned`,
  `RidersWithMoney`, `CompleteUnpaid` in Deal), a payment's success before its credit
  (`CreditedAsPaid`, for the payments in `ahead`).
- *A POST that arrived, or might have, and ended in an error.* The request gives the debit
  back, and the transfer may pay all the same (`wallet_service.py:355-356`): `doubtful` in
  the other three.

What fails in a wider instance, and has no run of its own:

- *Overlapping requests on a wallet one of them keeps.* `BalancesMatchLedger` fails
  when another session moves money on a wallet kept across an await: the stale
  instance is written back and the other movement forgotten
  (`wallet_repository.py:255`). `MCRequires` puts the withdrawal last, so that nobody
  does.
- *A repeat that overlaps.* The second of two calls with one reference is refused for
  lack of money, not replayed, once the first has spent the balance: the balance is
  judged (`wallet_repository.py:309`) before the unique index is.
- *Two sessions in Escrow.* `DisputeFreezes` (a dispute commits between a release's
  check and its money, `agreement_service.py:107`), `ImplementsDeal` and `DeadStaysDead` (an
  acceptance's second commit overwrites a cancellation, `:512`), `CancelledHoldsNothing` (funding
  commits between a cancellation's ledger check and its status,
  `routers/agreement.py:672`), `DecisionIsFinal` (a second admin who checked first
  overwrites a decision, `dispute_service.py:324`), `FrozenWhileDisputed` (a cancellation
  overwrites a dispute raised after its check), `PaidWhenDue` (a rejection that checked
  first overwrites the approval between a release's check and its money,
  `condition_service.py:178`), and `PayoutIsFinal` (`escrow_double_payout`).
- *A failed payout.* `AdminCanSettle` fails after one crash: an admin is not let
  through to `/release` (`routers/agreement.py:608`), though `common/enums.py:136-137`
  says that is how a failed settlement is re-run.
- *One worker for both handlers.* With `Worker <- OneForBoth`, `StatusReadAnswered`
  and `OutcomeArrives` fail: the webhook awaits Paystack with the row locked, a status read's write waits
  for the lock and stops the loop that the webhook needs
  (`paystack_webhook_service.py:315`). With a worker each a status read cannot but be
  answered, so that no run has `StatusReadAnswered`.
- *A POST that was lost.* `LostTransferSettles` fails even if the user goes on looking
  (`LookingSpec`): every status read gets an error from `verify_transfer`
  (`wallet_service.py:472-475`).
- *An event sent again while it is being handled.* `OutcomeArrives` and
  `PaidIsCredited` fail with `RedeliversEarly = TRUE`: the second delivery is
  acknowledged as a duplicate, and if the first handling then fails, nobody sends it
  again. Likewise after a worker dies between claim and mark, which both properties
  except and which `DroppedWasHandled` (Deposits) shows.
- *A late success.* A status read that heard "success" before the bank reversed the
  transfer may write "success" over a webhook's "refunded" (`wallet_service.py:485`):
  the money stays returned, the row says otherwise. `SuccessKept` and
  `FailedMeansReturned` do not forbid that.
- *A handler that outlasts the in-flight timeout.* With `OutlastsTimeout = TRUE`,
  `OneHandler` and what rests on it fail; only `NotBlocked` is left.
- *A stale copy.* While it lives, funding is let into a deal that the row says is
  disputed or cancelled (`agreement_repository.py:189`). A cancellation before the
  invitee has joined always leaves one (`agreement_service.py:191-208`), with nothing
  else going wrong; `StaleExplained` and `AnswersWithItsStatus` except it like a lost
  invalidation (`missed`), so that they say what else may leave a copy: nothing.
- *Several workers in BankAccounts.* `InUseIsActive` fails (a withdrawal commits
  between the check for pending ones and the deactivation,
  `bank_account_service.py:140`; or a default is set on an account removed meanwhile),
  and a user may be left without a default.
- *Two refreshes with one token.* Both are given a successor (`auth_service.py:167`),
  and a rotation may outlive a reuse or a logout (`:179`). `OneLiveToken` and
  `EndedStaysEnded` except exactly these logins (`forked`).
- *Redis down after an asset's decision.* Dropping the list is not best effort: the
  decision is committed and the client is told it has failed (`asset_service.py:188`).

**Bounds.** Two sessions are enough for every race of a check with a commit and
for a lock cycle over two wallets. Two users give both directions of a transfer.
Each operation is called again and again but posts once, so the ledger is finite
with no further bound. Amounts 1 and 2 make a balance that is enough for one of
two debits; the second escrow ("other", "lock2") is the money a second payout
would take. Two conditions separate "some" from "all", two disputes separate the
live one from a decided one. Two attempts (the code allows 5, `MAX_ATTEMPTS`) and
two outages let an event fail once, be redelivered and run out of attempts; one
restart can fall between any two commits; three concurrent handlers add no new pair
of racing writers. A deposit of 0 is one the ledger refuses, 1 and 3 are less and
more than asked for. Of four requests one may hold the key, one take it over, one
replay, and one bring other content. Three tokens are a login, a successor, and
either a second successor or another login. Three accounts with two numbers let a
number be saved, removed and saved again next to another. In AgreementCache no
counter but outages and failures is bounded. Sessions are interchangeable, so
`escrow_concurrent`, `agreement_cache` and `bank_accounts` use symmetry (safety
properties only). All runs but `wallet_repository` allow deadlock, since a deal, a
withdrawal, a payment or a key comes to its end.

**Fairness** (`FairSpec`). Weak fairness of a session's own steps: a handler
that has started runs on. Strong fairness of a lock grant: PostgreSQL queues
waiters, so a session that waits for a row that is released again and again gets
it (`LockWallet`; in Deposits `LockPayment \/ HandleNothing`). The provider sends an
event again until it is answered with 200: strong fairness of `Deliver`, as the
session it needs is busy now and then. In RefreshTokens Redis lets the user's copy
expire (weak fairness of `ExpireCopy`, which the TTL of the SETEX justifies). No
fairness of calling, paying, looking, crashing or keeping results; the bank need not
decide. Only `LookingSpec`, for `LostTransferSettles`, assumes that the user goes on
looking, which makes its failure stronger.

**One session or several.** `Sessions = {s1}` stands for requests that do not
overlap, which is what one worker does when no handler awaits between check and
commit; several sessions stand for several workers. What holds only in turn is
listed under `escrow_in_turn`, and the list above says where it fails otherwise.

## 4. The proofs

| Theorem | For every | Statement |
|---|---|---|
| `WalletRepositoryProofs!TypeCorrect` | set of sessions, users, operations | `Spec => []TypeOK` |
| `WalletRepositoryProofs!FreshImplements` | the same, any `FollowUps` | `Spec /\ []KeptIsFresh => ImplementsLedgerBook` |
| `WalletRepositoryProofs!FreshLedgerIsKept` | the same | `Spec /\ []KeptIsFresh => []LedgerKept` |
| `WalletRepositoryProofs!FreshBalancesMatch` | the same | `Spec /\ []KeptIsFresh => []BalancesMatchLedger` |
| `WalletRepositoryProofs!Implementation`, `!LedgerIsKept`, `!BalancesAlwaysMatch` | the same sets, with `FollowUps = {}` | the three without `KeptIsFresh` |
| `WalletRepositoryProofs!RowsAreKept` | the same sets, any `FollowUps` | `Spec => []RowsKept` |
| `WalletRepositoryProofs!BookSound` | the same sets | `Book!Spec` implies the book's four invariants |
| `WalletRepositoryProofs!NoDeadlock` | the same, with finitely many sessions, any `FollowUps` | `Spec => []NoWaitCycle` |
| `WalletRepositoryProofs!ChangesComeWithMoney` | the same sets, any `FollowUps` | `Spec => RidersWithMoney` |
| `EscrowProofs!TypeCorrect` | set of sessions, conditions, disputes | `Spec => []TypeOK` |
| `EscrowProofs!DisputesAreNeverTwo` | the same | `Spec => []OneLiveDispute` |
| `EscrowProofs!MoneyMovesByTheBook` | the same | `Spec => Book!Spec` |
| `EscrowProofs!LedgerAlwaysKept` | the same | `Spec => [](Sound(ledger, wallet) /\ Whole(ledger) /\ SumsUp(ledger, wallet))` |
| `EscrowProofs!OnlyFundedIsPaidOut` | the same | `Spec => []FundedFirst` |
| `EscrowProofs!StatusAlwaysEarned` | the same, with and without a wallet | `Spec => StatusEarned` |
| `EscrowProofs!PayoutsAreFinal` | set of conditions, disputes, with requests in turn | `Spec => []PayoutIsFinal` |
| `EscrowProofs!DisputedIsFrozen` | the same | `Spec => []FrozenWhileDisputed` |
| `EscrowProofs!CancelledWasNeverFunded` | the same | `Spec => []CancelledHoldsNothing` |
| `EscrowProofs!TheDeadStayDead` | the same | `Spec => DeadStaysDead` |
| `EscrowProofs!DisputesFreeze` | the same | `Spec => DisputeFreezes` |
| `EscrowProofs!PaidOnlyWhenDue` | the same | `Spec => PaidWhenDue` |
| `EscrowProofs!DecisionsAreFinal` | the same | `Spec => DecisionIsFinal` |
| `EscrowProofs!TheDealIsKept` | the same | `Spec => ImplementsDeal` |
| `EscrowProofs!CompletedIsAlwaysDue` | the same | `Spec => []CompletedIsDue` |
| `EscrowProofs!DealKeepsPromises` | | `Deal!Spec => []Deal!Promises` |
| `EscrowProofs!StaleCopiesAreExplained` | set of sessions, outages, failures, with `None \notin Cache!AgreementStatus` | `Cache!Spec => []Cache!StaleExplained` |
| `EscrowProofs!HandlersAnswerWithTheirStatus` | the same | `Cache!Spec => Cache!AnswersWithItsStatus` |
| `WithdrawalsProofs!TypeCorrect` | set of sessions, workers, outages, restarts, whatever `BrokenAfter`, with and without a wallet | `Spec => []TypeOK` |
| `WithdrawalsProofs!FailedMeansReturnedAlways` | the same | `Spec => []FailedMeansReturned` |
| `WithdrawalsProofs!DebitedFirstAlways` | the same | `Spec => []DebitedFirst` |
| `WithdrawalsProofs!ReturnedOnlyIfUnpaidAlways` | the same | `Spec => []ReturnedOnlyIfUnpaid` |
| `WithdrawalsProofs!SuccessAlwaysKept` | the same | `Spec => SuccessKept` |
| `WithdrawalsProofs!MoneyMovesByTheBook`, `!LedgerAlwaysKept` | as `TypeCorrect` | `Spec => Book!Spec`; the ledger is sound and whole and its rows add up |
| `DepositsProofs!TypeCorrect` | set of payments, events, users with and without wallets, sessions, amounts, outages, restarts | `Spec => []TypeOK` |
| `DepositsProofs!AlwaysCreditedAsPaid` | the same | `Spec => []CreditedAsPaid` |
| `DepositsProofs!OpenPageIsAlwaysKnown` | the same | `Spec => []OpenPageIsKnown` |
| `DepositsProofs!MoneyMovesByTheBook`, `!LedgerAlwaysKept` | the same | `Spec => Book!Spec`; the ledger is sound and whole and its rows add up |
| `IdempotencyKeysProofs!TypeCorrect` | set of requests and bodies, whatever `OutlastsTimeout` | `Spec => []TypeOK` |
| `IdempotencyKeysProofs!NeverBlocked` | the same | `Spec => []NotBlocked` |
| `IdempotencyKeysProofs!AlwaysOneHandler` | the same, with `~OutlastsTimeout` | `Spec => []OneHandler` |
| `IdempotencyKeysProofs!ReplayIsAlwaysOriginal` | the same | `Spec => []ReplayIsOriginal` |
| `IdempotencyKeysProofs!ResponseAlwaysKept` | the same | `Spec => ResponseKept` |
| `IdempotencyKeysProofs!AlwaysMovesOnce` | the same, with `FreshReferences = TRUE` as well | `Spec => []MovesOnce` |
| `RefreshTokensProofs!TypeCorrect` | set of sessions, number of tokens | `Spec => []TypeOK` |
| `RefreshTokensProofs!AlwaysOneLiveToken` | the same | `Spec => []OneLiveToken` |
| `RefreshTokensProofs!EndedAlwaysStaysEnded` | the same | `Spec => []EndedStaysEnded` |
| `BankAccountsProofs!TypeCorrect` | set of sessions, numbers, number of accounts, one worker or several | `Spec => []TypeOK` |
| `BankAccountsProofs!AccountsInUseAreActive` | the same (the statement is about one worker) | `Spec => []InUseIsActive` |
| `BankAccountsProofs!ChoosingAlwaysSucceeds` | the same | `Spec => []ChoosingSucceeds` |
| `BankAccountsProofs!AddingAlwaysLeavesDefault` | the same | `Spec => AddingLeavesDefault` |

Assumptions: the `...Assumption` of each module on its constants, evaluated by TLC in
every run that extends the module, and the hypotheses in the table. Each hypothesis is
needed, and is what the code or its deployment gives:

- `KeptIsFresh`: a wallet that a request has kept from its last call is what the database
  holds when the request locks it again, or the request's rows are there already. Nothing
  in the code makes it so (`_lock_wallet` does not refresh what it is given back); with
  another movement of a kept wallet the ledger breaks (section 3). It holds trivially where
  `FollowUps = {}`. As an extra invariant of `wallet_repository`, whose `MCRequires` puts the
  withdrawal last, TLC finds it to hold as well, so that the theorems cover that instance.
- *Requests in turn* (`\A s, t \in Sessions : s = t`): each of those nine is false with
  two requests at once (section 3: `escrow_double_payout` and the list under it), since no
  handler locks the agreement. One request may still be as slow as it likes and die at
  any commit.
- `IsFiniteSet(Sessions)`: infinitely many sessions could wait in a chain without an
  end, which a database with finitely many connections cannot have.
- `~OutlastsTimeout`: otherwise two handlers run with one key.
- `None \notin Cache!AgreementStatus` is AgreementCache's own assumption: "no copy" is
  not a status.
- `FreshReferences = TRUE` (withdrawals): with a reference derived from the agreement a
  request that proceeds unguarded moves "the same" money as the two holders before and
  after it, so that `MovesOnce`, which counts requests, counts two; that such a reference
  moves money once is `Unique` in the ledger.

*The ledger.* `LedgerEntriesProofs` proves what an operation does to balances and
rows: it keeps types (`OperationTyped`), adds exactly its references
(`OperationRows`) and keeps chains, uniqueness and direction (`OperationSound`).
`OperationKeeps` is the sum of it, for whoever posts an allowed operation whose references
are absent; whole transfers need that different operations share no reference. `BookSound`
follows, and with it `LedgerAlwaysKept` of every module that moves money: each of them
is shown to take only steps of the book (`StepOfBook`), one lemma for each way it posts.
In Deposits this needs the invariant, since it is the lock that makes the amount credited
one that was charged.

*The sums.* `SumsUp` says that a balance is the sum of its wallet's rows. The sum is a
recursive function (`SumOf`), and what a recursive function computes is out of reach of
the prover except here: every row carries the balance it left, so the function that gives
the balances before, between and after the rows satisfies the recursion, and no other
does (`SumOfChanges`; if two differ, take the least index at which they do, which
`WFMin` gives). `AccountsSumUp` then reads the sum off the last row. So the reconciliation
query of `wallet_repository.py:15-21` finds nothing wherever the chain of
`balance_after` columns is intact, in each of the four modules that move money.

*The sessions.* The abstract step is `Commit`. The wallets it writes must be the
ones committed, which types do not say, so the invariant `LockInv` adds: a wallet
locked by a session whose rows are not in the ledger has the committed balance in the
session's view, and a session that is about to apply holds the locks of all its wallets.
`LockWallet` establishes it (for a kept wallet, `KeptIsFresh` is what it takes), and only a
session's own commit writes a wallet it has locked.
Then `CommitPosts` and `BookPosts` turn a commit into `Book!Post`, every other
action is a stutter (`StepOfBook`), and `LedgerIsKept` carries `BookSound` over.

Rows need no such care: whatever stale balance a commit starts from, it adds one row for
each of its references (`RowsAreKept`). What a stale instance can spoil is the balances.

*Waiting.* `NoWaitCycle` says nothing about the order of locks. `LocksClimb` does: a
session that holds a wallet holds every lower one of its call. So whoever waits for a session that
itself waits, waits for a lower wallet than that one does; in a circle the wallet awaited
would climb for ever, and of finitely many sessions one awaits the highest.

*The caller's change.* `PendingChange`: what a session has flushed is pending only
before its money is decided on, or after a replay that has found the rows. Every action
that commits is then one that writes rows, ends a replay or opens a wallet.

*The agreement.* `StatusEarned` is about steps, since a "completed" that a wallet's
opening commits ahead may stay unearned: `StatusWriters` names the actions that write a
status; of them the release, the refund and that opening write "completed" or "refunded",
and the first two commit it with their rows or find the rows there (`StepEarned`), so
that no invariant beyond the types is needed. `OneLiveDispute` is kept by the unique index, for any
number of sessions: of all steps only a raise makes a dispute live.

`FundedFirst` (nothing is paid out or back before it was funded) holds with any number of
sessions as well: `SeenFunded` says that a session which has passed the funding check is
right for ever, since rows stay.

*Requests in turn.* None of these is inductive, because a commit acts on what its
handler has read. `InTurn(s)` says, label by label, that what the handler of `s` has
checked still holds when it commits: the status read is the row's, the money is where it
was, the dispute is the one it found. It holds since nobody else runs, and the session's
own first commit leaves it true for the second (a decision and its payout). The three
invariants and `InTurn` are inductive together (`InTurnInv`, checked by TLC first); each
action property is then a matter of the one or two actions that could break it.

*The deal.* `TheDealIsKept` goes commit by commit: `InTurn` gives the guard of the event
of Deal that the commit is (`MoneyOfDeal` for those that move money, `EventOfDeal` for
the others; `StepOfDeal` adds the checks, the crashes and the other business, which are
stutters). A resolution adds a ruling and takes none away only because a dispute not yet
resolved has no outcome (`Undecided`). `Promises` is inductive in Deal as it stands, and
comes back to Escrow through the refinement: `CompletedIsDue` relates a status to
conditions, rulings and rows that Escrow changes in other requests, and would need
another invariant if it were proved there.

*The copies.* `Cache == INSTANCE AgreementCache` gives EscrowProofs the copies' own
specification, with sessions and steps apart from Escrow's; nothing is claimed about the
two together. `StaleExplained` is not inductive, since a session that forgets its status
unseen would leave the copy unexplained: `OnTheWay` says where a session may be while it
has one to invalidate. Whatever ends its errand without dropping the copies sets `missed`.
`AnswersWithItsStatus` then follows: a handler that reads for its answer is no longer
invalidating, so that a stale copy it hits is another's.

*The withdrawal.* `StatusInv` ties the row to the ledger: a transfer exists only with
its debit, at most one request is about to debit or to send the transfer, and a handler
that writes has a row to write. `EvidenceInv` is about what handlers know: an answer
heard ("failed"), an event owed or in hand, a decision to reverse or settle. Each,
but for the decision that `doubtful` remembers, is evidence about the transfer that no later step of the provider invalidates
("failed" and "reversed" are final, "success" can only become "reversed"), so it
is still good when the handler acts on it, however late. `ReturnedOnlyIfUnpaid`
alone is not inductive: the step that gives the money back reads no transfer, only
the evidence. The step that takes a success back must hold evidence of "failed"
or "reversed" while the row's success is evidence of "success" or "reversed", so
the transfer is reversed, or the decision was doubtful (`StepKeepsSuccess`).

*The payment.* That a credit is of what the row says and the customer paid holds only
because nobody else can credit the payment between a handler's look and its commit.
`LockedWhileVerified` says that a handler from its lock to its first commit owns the row's
lock and that the row is not a success yet, so two events of one charge exclude each
other. Where `ensure_wallet`'s commit ends that lock, the success it commits keeps the
others out: `CreditsOnce` says that a session about to credit holds the row
(`Holds`) or has committed its success with the amount paid (`HasSucceeded`), that there
is no credit yet, and that no other session is about to credit the same payment; so a
success without a credit has its one session still to come, or lost it to a refusal or a
death. `PaidOnPage` says that money is only paid on a page that was open. `AskedOnce` (one request
asks for a payment, and its page is not open yet) is what `HearError` needs: it writes
"failed" over the row without looking. `CreditPosted` says that posting one deposit of a
payment that had none leaves it with exactly that one.

*The key.* `KeyInv` holds whatever the timeout: ids are those of requests that have
reserved, a request about to complete has moved its money, and a key in progress has a
holder alive or dead (`NotBlocked`). `HolderInv` needs that a row does not become stale
under a live handler: then the row of a live handler is still its own
(`HolderKeepsRow`: in progress, with its content), so that a takeover only ever meets the
dead, and the response `Complete` stores is that of the content the row is for.
`MovesOnce` needs more, and only while nobody has died and the sweep has taken nothing
(`Undisturbed`): whoever holds the key finds the row by its own id, and a holder that has
moved money is about to complete or has left its response in the row. There is one of
either kind and never one of each, so there is one mover.

*The tokens.* `OneLiveToken` is about tokens only but a rotation acts on a session's
memory, so `IInv` adds what sessions remember (`RequestsTyped`: the token in hand has
been issued) and that a family's name is a token issued no later (`FamiliesTyped`), which
makes a new login's family new. A rotation of a token that is still live
replaces the one live token of its family; of any other it marks the family `forked`.
All else only takes tokens away (`TakingAway`).

*The accounts.* What the unique indexes keep needs only that an insert or an update they
refuse changes nothing (`AtMostOne`, `StepNamed`). With one worker the rest hangs on who
may be in the middle of something: `OneWorker` says that one request at most is outside an
await, and that what this one has read (`Reads`: its account is active, whether it is the
default, that nobody is being paid to it) is still so. An addition that waits for
Paystack has read nothing it will rely on, except that its number was free, which is
why an addition alone may be refused.

Model-checked only:

- liveness, which is outside the prover's reach together with ENABLED: `CallsEnd`,
  `OutcomeArrives`, `PaidIsCredited`, `InactiveGetsNoMore`.

Every other property of a passing run is a theorem, under the hypotheses of the table.

No module that is proved about declares a RECURSIVE operator.

## 5. Not modelled, and what is left

**Not modelled.**

- *Real-time sockets and the connection pool.* They deliver copies of committed
  state, and a client that misses a push reads the same by GET. Two hazards live
  there: `connect` suspends between its cap check and its add
  (`realtime/manager.py:23`), and each open agreement socket keeps a pooled connection
  (`routers/agreement.py:134`).
- *Notifications, invitations' listing, statistics, users' profiles, e-mail.* Rows read
  by their owner and I/O, with no effect on money or on an agreement. A notification's
  commit is modelled where it matters (`EndRequest`).
- *Evidence files, upload signatures, `delete_asset`.* An external store, and a method
  nobody calls.
- *Amount limits, rate limits, the two-decimals check and the width of
  `Numeric(12,2)`.* Refusals before any state changes.
- *Authentication by Firebase, JWT encoding, Paystack's signature.* Library calls.
- *Migrations.* Run off line, one after another; the constraints they create are
  modelled where they bite.

**Left for later**, in this order:

1. Liveness of an acceptance, and its two commits with a crash in between
   (`agreement_service.py:500`).
2. `SocketManager`: cap and registry, with the pool.

## 6. Running

    tlc -config wallet_repository.cfg MCWalletRepository.tla
    tlc -config escrow_in_turn.cfg MCEscrow.tla
    tlc -config deposits.cfg MCDeposits.tla
    tlapm WalletRepositoryProofs.tla

`PROJECT.json` lists every run with its module and properties, the code lines each
definition models, and for each property a mutation of the code that it detects.
