# Specifications of the chat and media backend

TLA+ modules for the backend of the iOS assistant (FastAPI, PostgreSQL, Redis,
one or more gunicorn workers per instance), with TLC configurations and TLAPS
proofs. Every definition is translated from the code under `src/src/app/`;
`PROJECT.json` maps each of them to the lines it stands for, lists the hazards
of the code with the properties that watch them, and for every property a bug
of the code that the property notices.

Check a model with `tlc -config WalletRace.cfg MCWalletLedger`, the proofs with
`tlapm MediaProxyJobsProofs.tla`, and so on.

## The system

Clients (an iOS app, and operators through the CRM) call a REST API. Every API
process also runs the background loops (media reconciler, scheduled chats, asset
store, push). All durable state is in PostgreSQL. A request is a transaction
(`app/db.py`: commit when the handler returns, rollback when it raises), at READ
COMMITTED, with `expire_on_commit=False`; what a session has loaded is a copy that
nobody refreshes unless the code says so. External parties are the model providers,
the vendor gateway for media, fal, APNs, Apple and Adapty, CloudPayments.

| component (`src/src/app/`) | state it keeps | operations | what is hard | status |
|---|---|---|---|---|
| `media_generation` through the gateway | `media_jobs`, its ledger keys, locks | submit with fallback routes, callback, GET, DELETE, reconciler batch, output moderation, refund, push | callbacks late, repeated, lost, of abandoned routes; three kinds of pollers on one row; money and outcome in one commit; deadline against a stored result | `MediaProxyJobs`, proved |
| `media_generation` direct to fal | same tables, `provider = ''` | submit, GET, DELETE, reconciler | rows worked on without a lock; three locks in two orders | `MediaLegacyJobs`, proved |
| `wallet` | `wallets`, `ledger_transactions` | consume, grant, grant_once, get_wallet, admin view | replay of an uncommitted key, concurrent first calls, insufficient balance after the insert | `WalletLedger`, proved |
| `chat` | `chat_sessions`, `chat_steps`, `tool_calls`, `users.trial_used` | run, edit, regenerate, tool_result, generation rounds, payment | no lock on the session; a turn spans many requests; barrier of parallel calls; superseded calls; paying once | `ChatTurn` (credits mode), proved |
| `scheduled_chats` | `scheduled_chat_tasks` | create, patch, delete; recover, claim, execute, announce | request against poller, several replicas, TTL against a live worker, crash after payment | `ScheduledChats`, proved |
| `notifications` | `push_sent_at` claims, device tokens | claim and send, register | claim and send in one transaction | in the announcing modules |
| `policy` | none (pure) | evaluate | stale inputs | credits mode in `ChatTurn` (`Allowed`) |
| `subscription`, `billing_adapty`, `token_purchase`, `billing_common` | `subscriptions`, webhook events, ledger keys | StoreKit sync, Adapty webhook, token packs | two channels report one subscription, repeated, out of order, under old and new keys | `Billing`, proved |
| `billing_cloudpayments` | payment events, links in Redis | checkout link, callback, cancel, reconciliation at registration | callbacks before there is a user; a link kept after it is paid | `Billing` (the credit), `CardCheckout` (everything around it), proved |
| `auth` | devices, identities, refresh tokens | register, Sign in with Apple, refresh | overlapping first sign-ins; reuse while the chain is rotated | `AuthSessions`, proved |
| `admin` (CRM) | audit log over all tables | grants, extensions | check-then-act on the audit log | grants in `Billing` |
| `memory` | `chat_chunks` with vectors | background indexing, deletion | indexings of one step overlap; an edit schedules deletion before it commits | `ChatMemory`, proved |
| voice (`routers/chat_voice.py`, `chat/speech.py`) | one socket, a lock in Redis | turn task in legs, interruption, queue, speech | cancellation at any await, two connections of a chat | `VoiceSession`, proved |
| `media_generation/asset_store.py`, `asset_local.py` | files, `asset_store_status` | loop under an advisory lock, retention, orphans, download | files and rows in two places; the lock lost in the middle of a batch | `AssetStore`, proved |
| `instance_config`, `admin/economics_service.py` | `admin_settings`, `admin_credentials`; a snapshot per process | patch of a setting or a key, reload after it, refresh loop | invariants across rows nobody locks, versions of a second's precision, reloads that overtake each other | `InstanceConfig` (providers and keys), proved |
| BYOK keys, chat tools, provider clients, request logs, history and CRUD, gateway, preferences, pricing, observability, deployment | little or derived | | | not modelled (see below) |

How they interact: chat and media call the wallet inside their own transaction, so
debit, refund and the business row commit together; scheduled chats run an ordinary
chat turn inside the worker's transaction; media and scheduled chats announce through
the push service inside the transaction that finished the job; store channels and
the CRM grant through the same wallet; policy is evaluated on what the request has read.

What makes each component correct:

- media: credits follow the job (debited iff it exists, refunded iff it failed); the
  attempt that owns the job decides; the first outcome is final; a result is not thrown
  away; nothing is bought twice; every job ends; requests do not deadlock.
- wallet: the statements of a transaction act as one step that serves its calls; balance = sum of the ledger; a success is backed by a row of the same type and
  amount; rows are immutable; never negative; single calls do not deadlock.
- chat: the history sent is one a provider accepts; one result per call; subscribers
  pay for answers, once, and only for answers; the turn goes on when all calls are in.
- scheduled chats: answered and paid at most once; outcomes are final for pollers; told
  once; the planned chat only; every claimed task ends; only `scheduled` is cancelled.
- subscriptions and payments: a purchase is credited once, through whichever channels it is
  reported; what is recorded as handled is credited; an old period does not undo a newer
  one; the channels never deadlock; no card payment falls between callback and registration.
- auth: an Apple account is one user on every device; a reused token ends its chain.
- memory: whole steps only, and nothing of what an edit has deleted.
- asset store: what a row says of the stored copy is what is on the disk.
- voice: one leg of a chat at a time; an interrupted turn falls silent; an accepted
  utterance is run.
- instance configuration: the provider an instance serves with has a key; an operator sees the
  patch that was accepted; nobody overwrites unseen what another has set; every process catches up.

## Conventions

Each module has one component. A process is a request handler or a loop; its program
counter stands at the statements between which another process can act: a lock wait,
a flush that others may collide with, a call to an external party, the commit. The code
between two of these is one action, whole. Tables are functions from ids to records.
Uncommitted writes are kept apart from committed ones (`work`/`fresh`, `draft`/`change`,
`born`/`cut`/`next`, `claim`), published by the commit and dropped by the rollback; a
crash, a dropped connection and a failing statement are all a rollback at that point
(`Abort`, `Fault`, `Crash`), and what has left the database by then (runs at the
provider, pushes) stays. Row locks are variables naming their holder. Ids that the code
draws at random are taken from a finite set, each once. Variables marked *history* are
read by properties only, never by a guard.

## Modules

### MediaProxyJobs, MediaJobPromise, MediaProxyJobsProofs

Jobs of the gateway (`media_generation/service.py`, `repository.py`, `reconciler.py`,
ADR-108). `row` is the committed row, `work` the version of the transaction that holds
its lock. `at` is the attempt the job is attributed to (`provider` and
`remaining_routes`), `pending` the attempt whose assets are stored but not yet
moderated, `result` the attempt whose assets were delivered.

- Submit: `BeginSubmit`, `Debit` or `InsufficientCredits`, then `SubmitAccepted` (a route,
  or its fallback, accepted) or `SubmitRefused` (the savepoint drops debit and row).
- Callback: `Callback`/`CallbackUnknown`, `LockRow`, then `IgnoreCallback`,
  `CallbackPending`, `CallbackGood`, `CallbackBad` (resubmission to the next route).
- GET and the loop meet in `AdvanceProxy` (`_advance`): stored result, deadline, polling,
  in the order of the code. `Complete`, `Reject`, `Transient`, `Fail` are the outcomes
  of moderation and the refund.
- The loop: `SelectBatch`, `TakeJob` (`FOR UPDATE SKIP LOCKED`), `SkipJob`, `EndBatch`;
  one transaction for the whole batch, so locks accumulate.
- DELETE: decides on what it read, `DeleteRow`.

`MediaJobPromise` is the abstract specification: per job a phase (absent, open,
completed, failed) and an account (untouched, charged, refunded) that change only
together. `KeepsThePromise` is that specification under the mapping at the end of
`MediaProxyJobs`; TLC checks it and TLAPS proves it for every instance.

### WalletLedger, WalletPromise, WalletLedgerProofs

`wallet/service.py` and its SQL: the idempotency key is a unique index, so
`INSERT ... ON CONFLICT DO NOTHING` waits for an uncommitted row of the same key and then
either finds it or takes its place. `Begin` (with `Refuse` for bad amounts and
sessions), `EnsureWallet`, `InsertEntry`, then `Replay`, `Conflict`, or `UpdateBalance` /
`Insufficient` (the conditional UPDATE of a debit waits for the row only if it is enough as it stands,
`LooksCovered`), `Commit`; `DeadlockVictim` is PostgreSQL's choice in a lock cycle.
`ViewWallet` is the read that creates the row on the way. Batchers are sessions whose
transactions make several calls (the media reconciler).

`WalletPromise` is the abstract specification: balances, the ledger and the calls that
succeeded, and one action, `Transaction(C)`, that serves a set of calls. It has no locks, drafts or
statements. `KeepsTheWalletPromise` says that `WalletLedger` implements it: what is
committed is what one such step would have done, and everything before a commit is invisible.
`ChatTurn` uses the same specification from the other side: `PaidByTheWallet` says that its turns
are calls of that wallet, with the turn as the key and one credit to debit.

### MediaLegacyJobs, MediaLegacyJobsProofs

The older direct path (`provider = ''`). Nothing is locked while fal and moderation are
asked: `seen` is the copy a session loaded, `Updates` the UPDATE of the changed
attributes, which takes the lock and meets whatever is committed by then. `TakeKey`,
`Credit` and `MarkFailed` are the refund with its three locks.

### ChatTurn, ChatTurnProofs

One session in credits mode (`chat/orchestrator.py`, `chat/repository.py`,
`policy/engine.py`). `steps` is `chat_steps`, a function from `seq` to steps, with `born` and `cut`
naming the handler whose uncommitted transaction inserts or deletes a step; `View(h)` is
what handler `h` reads. `History` is the domain history built from the steps (ADR-114), its
messages indexed by their places: `<<j, 0>>` is the message of step `j`, `<<j, c>>` the synthetic result of
a superseded call `c` that step `j` closes, `Before` their order; a result that comes after its call was
closed (`Late`) is left out. Requests: `Run`; `Edit`, `CutHistory`, `EditRun` (edit and regenerate: the
DELETE on `tool_calls`, that on `chat_steps`, the new turn); `ToolResult`, `Apply`, `Barrier`. The two DELETEs
have each a view of its own, so a generation may commit between them; a call it has asked for then
keeps its row without its step (`torn`). A generation is `Policy`, `Build`, and one of
`Final`, `Truncated`, `DeviceTools`, `ServerTools`, `BadTools`; one that fails ends with
`MarkTurnFailed`. `Pay` is the debit with the turn as key, or the trial.

### ScheduledChats, ScheduledChatsProofs

The tasks of one user (`scheduled_chats/service.py`, `repository.py`, `worker.py`).
A request reads a row (`StartPatch`, `StartCancel`, ...) and writes it by id later; a
poller decides in the WHERE clause of its statement. `worker[w].says` is the outcome the
worker's session has in memory, which may differ from the row: SQLAlchemy changes the
loaded object even when the UPDATE matched nothing. `Fault` is an error after which the
loaded task can no longer be read (a rollback inside the turn expires it), and leaves
the task running until recovery. `Crash` is the end of the process.

### Billing, BillingProofs

The subscription and the paid credits of one user, statement by statement, over all channels.
A request is `Begin` with its kind, then the statements of its transaction: `Dedup` (the insert
into the webhook events), `ReadRow` and `WriteRow` (the ORM's read and UPDATE: `Merged` writes
only the attributes that differ from the copy loaded), `Upsert` (card, CRM and admin write
whatever the row says), `CheckKeys` and `InsertKey` (`grant_once` over the ledger's unique
index), `PayIn` (the wallet row), `Commit`. `Lookup` and `ExtendFrom` are the CRM's look at the
audit log and at the row it will extend. Time is counted in periods. `Undated` and `Unnumbered`
are the webhooks without `expires_at` and without `transaction_id`; one initial state has the first
period credited under the key the code used before ADR-106.

### AuthSessions, AuthCheckoutVoiceProofs

`auth/service.py` over devices, identities and refresh tokens. `FindDevice`, `Touch` and
`Provision` are the three branches of finding or creating the device's user; `ResolveApple`,
`ChooseAccount`, `Identify`, `BindDevice` those of Sign in with Apple; `ReadToken`, `UseToken`,
`FindChain`, `RevokeChain`, `RefuseReuse` the refresh and its reuse detection; `IssuePair` the new
pair and the commit of everything the transaction wrote.

### ChatMemory, MemoryStoreConfigProofs

`memory/indexer.py` and `memory/repository.py` for one chat: indexings (`ReadStep`, `UpsertChunks`,
`TrimTail`, `CommitChunks`) against an edit (`Truncate`, `CommitEdit`, `RollbackEdit`) and the deletion
task it starts before it commits (`FindAnchor`, `FindChunks`, `EraseChunks`). Its DELETE removes the chunks
it saw when it started (`found`), once nobody holds them; what an indexing commits while it waits
stays, so a step may be left without its first chunks (`halved`). `Sizes` are the numbers of
chunks a step may be cut into: workers of two releases may cut differently.

### AssetStore, MemoryStoreConfigProofs

`media_generation/asset_store.py` and `asset_local.py`. A worker's tick is `TakeRight`, the batch
(`SelectBatch`, `NextJob`, then per job `StartAsset`, `FinishAsset`, `MarkStored`, `FinishFailed`,
`DeferLowDisk`, `RetryOrExhaust`, or `RemoveFiles`, `MarkExpired`), the hourly cleanup
(`SelectExpired`, `RemoveExpired`, `CloseExpired`, `ScanTree`, `FindOrphans`, `RemoveOrphans`) and
`Unlock`. `LoseConnection` frees the advisory lock while the worker's process goes on (`cut`).
`ReadRow`, `Probe`, `Transition` are the download.

### CardCheckout, AuthCheckoutVoiceProofs

`billing_cloudpayments/checkout.py`, the callback in `service.py` and the reconciliation of
`routers/auth.py`, with the provider between them. `Look`, `Lock`, `Issue`, `Store`, `Hand` are a
checkout; `Callback`, `Verify`, `CreditOne`, `Forget`, `Answer` a callback; `RegisterDevice`,
`AskPayments`, `ReconcileOne` a first registration. `SignIn` makes the user known and asks nothing (`POST /token`,
`POST /apple`, a registration without the provider's token). Of what the provider lists any part may
be selected, for status and age are not modelled, and any payment of it skipped; a payment left out where
it was looked for last is `forgone`. Every credit here is one of `Billing`'s card payments.

### VoiceSession, AuthCheckoutVoiceProofs

`routers/chat_voice.py` and `chat/speech.py`. A connection reads frames (`Utter`, `Interrupt`,
`ToolResult`) while a task runs the turn: `NewTurn`, `AcquireTurnLock` (or `RefuseTurn`),
`KnowBalance`, `TurnStarted`, `OnDelta`, `HaveResult` or `TurnFails`, `CloseTurn`; `Synthesize` and
`SendAudio` are the worker that speaks. A reconnection is a second connection to the same chat.

### InstanceConfig, MemoryStoreConfigProofs

`admin/economics_service.py` over `instance_config/snapshot.py` and `effective.py`: which provider is chosen,
whether the second one is offered, and their keys. `overlay` is the two tables, `snapshot` what a process
serves from. A patch is `BeginPatch`, then one action per SELECT: `ReadSetting` (with the version check),
`ReadSettings`, `ReadKeys` (the last read before the decision, so the invariants are checked there), for a key
`ReadCredential`; then `CommitPatch`, or `Collide` where the flush meets a row that has come or gone. The
accepted patch reloads the snapshot of its process (`RefreshKeys`, `RefreshSettings`, `RefreshFails`), where the
ORM keeps the row the session has just updated (`Kept`). `LoadKeys`, `LoadSettings`, `LoadFails` are the
start of a process and its loop, `Restart` the death of a worker. `promised`, `raced`, `uninformed`, `torn`
and `outrun` are history: who was told what, and which reads were crossed by a commit.

### MCPlatform, MCBackgroundLoops, MCBillingAndOverrides

`AuthSessions`, `ChatMemory`, `AssetStore`, `CardCheckout` and `VoiceSession` share no state, so `MCPlatform`
explores all of them in one run: a behaviour is a behaviour of one part while the others rest. The number of
states is the sum of the five, not the product. `MCBackgroundLoops` does the same for the two loops with
liveness (`ScheduledChats`, `InstanceConfig`), each with its own fairness, and `MCBillingAndOverrides` for the
payments of a user and the patches of an instance.

## Runs

| run | instance | distinct states | shows |
|---|---|---|---|
| MediaProxyOneJob | 1 job, 2 routes, 2 handlers, 1 loop, 3 callbacks, 1 lost transaction, fair | 189,554 | types, money, attempt, first outcome, kept result, no needless purchase, refinement, every job ends |
| MediaProxyBatch | 2 jobs of one user, 1 handler, 2 loops with batch 2, 1 callback | 1.04 million | no request in a lock cycle |
| WalletRace | 3 sessions (one a batch), 2 keys, amounts 1 and 2, 6 calls, 1 lost transaction | 442,626 | balance, answers, lock order, refinement |
| MediaLegacySettles | 2 jobs, 1 handler, 1 loop, 1 GET, 1 lost transaction, fair | 320,889 | flag = ledger, every job ends |
| MediaLegacyRace | 1 job, 2 GETs at once | violation | a refunded job is opened again |
| ChatTurns | 2 handlers, 2 messages, 2 calls, 1 server round, at most 1 credit | 1.74 million | history, results, payment |
| ChatOrphans | 1 handler, 1 message, 2 calls | violation | a turn goes on with an unanswered call |
| BackgroundLoops | 2 tasks, 2 replicas, 2 requests at once, batch 1, limit 1, 2 API calls; 1 patch, 2 processes, 1 failure; fair | 441,154 | answered and told once, final, planned chat, every task ends; every process catches up |
| ScheduledCancel | 1 task, 1 replica, 1 request | violation | a running task is cancelled |
| BillingAndOverrides | 2 requests at once of 3, 2 Apple periods, a pack, 2 card payments, a CRM and an admin grant; 2 patches at once in 2 processes, 1 failure | 1.06 million | one grant per purchase, recorded is credited, no deadlock, no regress; providers with keys, patches seen and informed |
| BillingRace | 2 webhooks of one subscription | violation | a renewal leaves the row expired |
| Platform | 2 sign-ins at once of 3; 2 indexings at once of 3, 3 steps; 2 asset workers, 1 result of 2 files; 2 checkouts, 2 payments, 1 callback, 1 registration; 2 voice connections | 2.11 million | one combined property for each of the five parts, two for auth and checkout |

Why these bounds are enough for what is asked. The hazards of the media rows are between
two transactions on one row, with a third that changed it in between: two handlers
and a loop on one job have all of it, three callbacks give "pending, failed, late result" and
its permutations, two routes give one abandoned attempt (the code's only fallback is
fal, so there are never more). Lock cycles need two rows and the shared wallet: two jobs,
two loops and a request. In the wallet, two sessions race and a third decides who wins;
two keys and two amounts give a replay, a conflict and a refusal. In the chat, the
parallel calls of a step and a call superseded by the next message need two calls and
two messages, all races are of two requests; with one handler the run would be
sequential. Only the order of the steps matters, not their numbers: the view `UpToNumbers` makes
states with the same steps in the same order one, and drops the calls a request has come with once it generates,
which no property of that run reads. For the tasks, two replicas and two requests give every pair of writers
of a row; the second task fills the active limit, the batch and the queue behind a slow turn. In
`Billing` two requests overlap and a third has come before or comes after: an early sync and a late
webhook around a renewal, or a repetition of one of them; two periods are an old one and a new one.
Of the overrides, two patches in two processes are a pair that overlaps or, one after the other, a second that
decides with a stale snapshot beside it; the failure is a lost reload or a restart between them. In
`BillingAndOverrides` two patches are accepted in one second at most, in `BackgroundLoops` the clock runs on.
In `Platform` every hazard is between two actors and what one of them left behind: three sign-ins
are a pair that races and a third that meets the outcome, three steps are two to edit and the
one an edit adds, two files tell a part from the whole, two links the paid one from the next.
`MaxTurns`, `MaxCalls`, `MaxCallbacks`, `MaxAborts`, `MaxPolls`, `MaxRequests`, `MaxCredits`, `MaxSignIns`,
`MaxIndexings`, `MaxLinks`, `MaxPatches`, `MaxSeconds`, `MaxFailures`, `Seqs` and `Horizon` only bound the environment; `Batch`, `BatchSize`, `MaxActive`, `MaxRounds`, `MaxTries` and `Sizes` are settings of the program.
`CHECK_DEADLOCK FALSE` everywhere: when the bounded environment has done its part the
system rests.

### Fairness

Requests, callbacks, GETs and edits are never assumed to come, and no fairness is put on
losing things. Assumed are: an open transaction goes on (`WF Run(p)`, `WF Step(w)`: the
drivers have statement and HTTP timeouts, so a step ends one way or the other), the loops tick
(`WF SelectBatch(p)`: `while not stop` around a `try`; `WF Refresh(p)`: `overrides_refresh_loop` suppresses
every exception and goes on), and time passes (`WF Tick`, `WF Age`).
`MediaLegacyJobs` needs `SF Run(p)`: a lock that is freed and retaken makes a waiter's
step enabled and disabled for ever, but PostgreSQL queues waiters. There the number of GETs is
bounded because endless GETs that collide with the loop, each deadlock making the loop the victim,
are a real livelock of the lock order. The bounded number of lost transactions says that
failures stop for long enough. `EveryJobSettles` starts when the
row is committed; a gateway job is deleted only when it is terminal, and keeps its status.
No liveness is stated for chat turns: nothing in the code continues a turn by itself. `Billing` and the
parts of `Platform` are about what overlapping requests may do, and need no fairness.

## Proofs

TLAPS checks eight modules, each theorem for any values of the constants and under the named
assumptions of its component only: that the processes and ids are told apart from "nobody", that bounds
are natural numbers and, where something is counted (requests in a lock cycle, active tasks, sums of the
ledger), that the sets counted are finite. Components whose proofs share a module
(`AuthCheckoutVoiceProofs`, `MemoryStoreConfigProofs`) share nothing else: each has its section and its
inductive invariant.

### MediaProxyJobsProofs

Any jobs, users, handlers and loops, any owners, one or two routes per job.

| theorem | says |
|---|---|
| `Invariant` | `Spec => []IInv` |
| `TypeCorrect` | `Spec => []TypeOK` |
| `CreditsFollowTheJob` | `Spec => []MoneyFollowsTheJob` |
| `OnlyTheOwnerDecides` | `Spec => []OwningAttemptDecides` |
| `TerminalIsFinal` | `Spec => FirstOutcomeWins` |
| `ImplementsThePromise` | `Spec => KeepsThePromise` |
| `ResultsAreKept` | `Spec => ResultIsKept` |
| `NothingBoughtInVain` | `Spec => NoNeedlessPurchase` |
| `RequestsWaitInOrder` | `Spec => []RequestsNeverDeadlock` |

None of the properties is inductive: they speak of committed rows, and a commit can
break them if the version it publishes was wrong. `IInv` says what holds of the
uncommitted versions:

- `Books`: row and ledger agree, and so do version and `ledger \cup fresh`, except between
  the debit and the INSERT of a submit (`Charging`);
- `Versions`: only the holder of a row lock has a version of its own and uncommitted entries;
- `Lineage`: how a version may differ from the row it will replace: not at all in its
  outcome if the row is terminal, never back to absent, its attempt accepted by the gateway;
- `Positions`: what each label knows of its job (it holds the lock, the job is open, a
  result is pending).

The proof goes by kind of step: steps that only move a process, steps that take a lock, one
write to a version, rollback, commit; each of the actions is shown to be one of these
(`RequestPreserves`, `SubmitPreserves`, `LoopPreserves`, `DecisionPreserves`).
`OnlyCommits` (the committed state changes in `Commit` only) and `Published`
(what a commit publishes was the holder's version) then give the action property and the
refinement.

`ResultsAreKept` and `NothingBoughtInVain` are about what a transaction decides on, so `IInv` is strengthened by `RInv`: until its
first write a version is the row it has locked (`FromTheLock`; the copy loaded before the lock
is refreshed), and a version keeps the pending result of its row unless it ends the job
(`Keeping`). Every step is a write of the holder that keeps the result (`Advances`), one
that writes no row (`Silent`), or the end of a transaction.

`RequestsWaitInOrder` rests on `LockOrder`: a request that waits for a row holds nothing, one that waits for
a wallet holds no wallet, and the loop never waits for a row (`SKIP LOCKED`). In a cycle everybody is
waited for; since each waits for one process and there are finitely many, each is waited for by one
(`EverybodyWaits`, the pigeonhole principle), and a request that is waited for for a row cannot be in
a circle of wallets.

### WalletLedgerProofs

Any users, keys, amounts, sessions, batchers and wanted calls.

| theorem | says |
|---|---|
| `Invariant` | `Spec => []IInv` |
| `TypeCorrect` | `Spec => []TypeOK`, the balance included |
| `SuccessesAreBacked` | `Spec => []AnswersAreBacked` |
| `LedgerIsImmutable` | rows are never changed or removed |
| `SingleCallsAreSafe` | `Spec => []SingleCallsNeverDeadlock` |
| `BalanceFollowsTheLedger` | `Spec => []BalanceIsTheLedger` |
| `WalletKeepsThePromise` | `Spec => KeepsTheWalletPromise` |

`AnswersAreBacked` is about committed answers; `Backed` says the same of the answers of an
open transaction, from a committed row or from a draft of its own, and `Drafts` that a draft
stands in a free slot only, so a commit never replaces a row (which is also
`LedgerIsImmutable`). For deadlocks, `SingleLocks` says what a transaction of one call may
hold at each statement and `HasWallet` that past the first statement the wallet row is
committed or its own; `Blocking` concludes that whoever is waited for is further in its call
than the waiter, or waits for nothing, and `NoCycle` that no set of them is circular. It
does not need the set of sessions to be finite.

`BalanceIsTheLedger` is a sum over the rows of a user. It holds of the committed state because it holds of what
an open transaction will leave (`Balanced`): its drafts are the changes it has made to the balance
(`ChangesAreDrafts`), and the wallet row is its own while there are any. The ledger of a user is finite
(`FiniteBooks`), and what a sum does when a row is added (`SumRemove`, `SumOfBoth`) is proved from a
least counterexample, because the library's induction over finite sets takes an operator as a parameter.

For the refinement a commit is the transaction that serves what the session has answered, and
every other step is a stutter. Three facts are needed of the commit: that it posts rows of
calls it has answered and of no other (`RowsAreAnswered`: an inserted row is of an answered call, or
of the one at its UPDATE), that these have their entries (`AnswersAreBacked` after it), and that a balance moves
by the rows posted for its user (`ChangesAreDrafts`).

### MediaLegacyJobsProofs

Any jobs, handlers and loops.

| theorem | says |
|---|---|
| `LegacyInvariant` | `Spec => []LegacyInv` |
| `LegacyTyped` | `Spec => []TypeOK` |
| `FlagsTellTheLedger` | `Spec => []RefundFlagIsTheLedger` |

Pollers overwrite each other's status, so nothing can be said of it. What can be said is that the ledger key
of a refund serializes the refunds: whoever holds it is about to mark its job failed, or has done so in the
same transaction (`KeysInUse`); nobody marks a job failed without the key or a committed refund
(`RefundFirst`); and the version an open transaction will commit is true of the ledger as it will be then
(`VersionIsTrue`).

### ChatTurnProofs

Any handlers, messages, calls, rounds and credits.

| theorem | says |
|---|---|
| `ChatInvariant` | `Spec => []ChatInv` |
| `ChatTyped` | `Spec => []TypeOK` |
| `AnswersArePaid` | `Spec => []OnlyAnswersArePaid` |
| `OneResult` | `Spec => []OneResultPerCall` |
| `SentFitsTogether` | `Spec => []ResultsFit` |
| `OrderInvariant` | `Spec => [](ChatInv /\ OrderInv)` |
| `SentIsTaken` | `Spec => []SentIsAccepted` |
| `TurnsArePaidByTheWallet` | `Spec => PaidByTheWallet` |

`ChatInv` says of committed and uncommitted work alike how the steps and the rows of `tool_calls` belong
together (`StepsFit`): a step is deleted only once it is committed; a call is asked for in one step, and
whoever sees its row sees that step (`AskedOnce`, `RowHasStep`), unless the step was torn from the row; a result
belongs to the transaction that sets the row to done, comes after its call, and is deleted with it, again
unless that is torn (`ResultFits`); between
transactions a handler holds nothing (`RestsClean`); the results it has yet to write are of its own turn
(`TodoFits`). There is no lock on the session: what keeps a second result out is the row's status, and
`OneResultPerCall` follows. An action does one of a few things, and each has its lemma: it commits with some
steps added (`CommitKeeps`), rolls back (`RollbackKeeps`), inserts (`InsertKeeps`), deletes (`CutKeeps`) or leaves
steps and rows alone (`QuietKeeps`). `CutKeeps` is where the two DELETEs of an edit meet: rows found before,
steps found now, and every call that is in the second set only is `torn`.

`ResultsFit` is about the view of a handler alone: `ViewIsCoherent` says that a view has one asking step for
each call, at most one result, and the result after it, and `HistoryFits` that the history of any such view
fits together. Its core: between a call and a later user message there is either its result, or a first
step that is not a result, and that step closes the call before the user's. First and last of a
finite set of numbers (`MinIs`, `MaxIs`) are proved from a smallest subset, as the library's induction
over finite sets takes an operator as a parameter.

`SentIsAccepted` needs more, for a provider wants every call answered at once. Two things are tidy
(`Tidy`: no call was open when the assistant spoke again): what is stored, and what each transaction sees. A call
of the stored steps that is open at their end is pending in `tool_calls`, so a barrier that finds nothing
pending finds nothing open (`BarrierCloses`); a truncated step has no rows (`TruncatedHasNoRow`), but it is followed
by a user's message, which closes it, before anybody generates. A request that generates sees no open call at all, and
the history of steps that are tidy and closed is accepted (`HistoryAccepted`). That nobody else makes them untidy at
a commit needs to know who may write what: each handler's uncommitted steps (`Writer`), a new turn, which is
of one request and begins with its user step (`TurnsAreNew`), and where that step lies (`NewUserIsLast`).
The actions are again of a few kinds: `UserStepOrder`, `EditOrder`, `CutOrder`, `ApplyOrder`, `SpeakOrder`, `CommitOrder`,
`RollbackOrder`, `QuietOrder`.

All this is said while `orderly` holds: requests generate one at a time, for the latest message, and none
was given up amid its tool calls. An edit counts from its first statement on, although it generates
only later; so while all is orderly nobody commits between its two DELETEs (`EditSees`), and no call is torn
(`NothingTorn`). Counted from the generation alone, the property fails with three requests: a result of the
first turn has arrived, a second message is generating, and a third request edits that message away before
its answer commits. The answer stays, the message that had closed the call is gone, and the result, written
after the answer, no longer follows its call at once. Two handlers are too few for that.

`TurnsArePaidByTheWallet` composes the chat with the wallet: the only step that moves money commits an
answer (`NoNewAnswers`), and that step is a transaction of `WalletPromise` that serves the turn's call,
whether it debits or finds the key taken. No run has it as a property; TLC has checked it on the instance of
ChatTurns.

### ScheduledChatsProofs

Any finite sets of tasks and requests, any workers, batch size and limit.

| theorem | says |
|---|---|
| `ScheduleInvariant` | `Spec => []ScheduleInv` |
| `AnsweredOnlyOnce` | `Spec => []AnsweredOnce` |
| `EveryTaskOnce` | `Spec => []OnceEach` (answered once, told once) |
| `ChatAsPlanned` | `Spec => []PlannedChatOnly` |
| `OutcomesAreKept` | `Spec => PollersKeepOutcomes` |

A task is in the hands of one worker from the claim to the last statement about it (`OneHolder`), although
nothing in the tables says so: a row once claimed never becomes `scheduled` again (`NoPast`), whatever
recovery and requests write. So what a worker has yet to run was not run before (`NotYetRun`), what its
session says of a task is true of the task even where its UPDATE matched nothing (`SaysTrue`), and
an announcement holds the row until it commits (`ClaimsAtWork`).

### BillingProofs

Any periods, packs, payments, grants and requests.

| theorem | says |
|---|---|
| `BillingInvariant` | `Spec => []BillingInv` |
| `BillingTyped` | `Spec => []TypeOK` |
| `PurchasesGrantOnce` | `Spec => []OneGrantPerPurchase` |
| `RecordsAreCredited` | `Spec => []RecordedIsCredited` |
| `NoCircle` | `Spec => []SomebodyMoves` |
| `OldPeriodsRest` | `Spec => OldPeriodChangesNothing` |

`InOrder` says that every transaction takes its locks in one order (delivery, subscription row, ledger key,
wallet) and each for its own request; `NoCircle` follows, because among the transactions that have begun one
is furthest. `Books` says which grants the ledger can have at all, one per key; two channels agree on
the key of a period, except for those `OneGrantPerPurchase` excludes and for the period credited under the old
key, which `HistoryIsFound` covers: whoever comes to the insert has looked under the old key too.
`CreditBeforeRecord` relates the end of a transaction to what it has credited, `NotOverLater` what it has
written to what it had loaded.

### AuthCheckoutVoiceProofs: AuthSessions

Any clients, devices, subjects and number of sign-ins. Users are numbered as they are drawn; the one
assumption beside the usual is that "no one" is not a number.

| theorem | says |
|---|---|
| `AuthInvariant` | `AuthSpec => []AuthInv` |
| `AuthTyped` | `AuthSpec => []AuthTypeOK` |
| `IdentitiesHold` | `AuthSpec => []IdentitiesAgree` |
| `ReuseRevokes` | `AuthSpec => []ReuseEndsTheChain` |

The difficult half of `IdentitiesAgree` is that two subjects do not come to share a user, although the index
is on the subject and a sign-in links the user it has found on the device. Until it is linked a user
lives on one device (`OneHome`), so two requests that could link one user want the row of one device, and the one
that links holds it (`LinksAlone`), unless the device's insert was lost (`overtaken`, see below). `LinksLocked` and
`BindsLocked` say what the commit will write and that it is still free, `RegistersUser` the same of a
registration, `AnswersHold` that an answer given stays true; `Revokes` follows a reuse to its end.

### AuthCheckoutVoiceProofs: CardCheckout

Any shoppers, callbacks and number of links.

| theorem | says |
|---|---|
| `CheckoutIsTyped` | `CheckoutSpec => []CheckoutTypeOK` |
| `PaidLinkStaysForgotten` | `CheckoutSpec => []PaidLinkIsForgotten` |
| `NoPaymentIsLost` | `CheckoutSpec => []NoPaymentFallsBetween` |

`PaidLinkIsForgotten` rests on the order of a checkout: a link is stored before anybody
can pay it, so what is about to be stored is unpaid and in nobody else's hands
(`StoredFirst`). `NoPaymentFallsBetween` rests on the order of the other two: the device is
registered before the provider is asked, so that a callback which found no user precedes the
answer the registration works from. `Safe` says of a payment that nobody has to be told about
it again, `CallbacksAreSafe` that what is being answered is safe already. The theorem excepts what is
`forgone`: payments the selection leaves out or that are skipped, at the last callback or registration that
looked for them, and those that were told when the user came to be known by a sign-in that asks nothing.
What it does say is that none is lost between the three through their order alone.

### AuthCheckoutVoiceProofs: VoiceSession

Any connections of one chat.

| theorem | says |
|---|---|
| `VoiceIsTyped` | `VoiceSpec => []VoiceTypeOK` |
| `LegsRunAlone` | `VoiceSpec => []OneLegAtATime` |
| `InterruptedFallsSilent` | `VoiceSpec => []SilencedIsSilent` |
| `QueueWaitsForATurn` | `VoiceSpec => []QueuedIsServed` |
| `VoiceStaysKept` | `VoiceSpec => []VoiceIsKept`, the three together |

`Kept(c)` is about one connection: a leg in progress holds the lock (`LegOwnsLock`), an
interrupted turn has its stop set wherever its worker is (`Hushed`), a turn that has not begun
is not an interrupted one (`Fresh`), and a queued utterance has a task to wait for (`Waits`).
A step changes one connection, and of the others only what it takes from the lock (`StepOf`).

### MemoryStoreConfigProofs: ChatMemory

Any indexing tasks, steps, and numbers of chunks.

| theorem | says |
|---|---|
| `MemoryIsTyped` | `MemorySpec => []MemoryTypeOK` |
| `IndexStaysWhole` | `MemorySpec => []IndexIsWhole` |
| `EditsAreForgotten` | `MemorySpec => []EditedOutIsForgotten` |
| `MemoryStaysKept` | `MemorySpec => []MemoryIsKept`, the two together |

`Locks` says that an indexing that has begun to write has its step for itself, which is why
the upsert and the removal of the tail leave one indexing; `FoundWhole` that the DELETE of the
deletion task has found all chunks of a step or none, unless an indexing has committed since (`halved`), so that
what it leaves is whole as well; `Forgotten` that of a
deleted step nothing is stored or under way; `EditErases` what the deletion task has found or
erased while its edit is open, from which `Forgotten` follows at the commit.

### MemoryStoreConfigProofs: AssetStore

Any workers, results, assets per result and attempts.

| theorem | says |
|---|---|
| `StoreIsTyped` | `StoreSpec => []StoreTypeOK` |
| `StoredStaysWhole` | `StoreSpec => []StoredIsWhole` |
| `ExpiredStaysGone` | `StoreSpec => []ExpiredIsGone` |
| `StatusStaysTrue` | `StoreSpec => []StatusIsTrue`, the two together |

The files and the row of a result change in different steps, so what a worker knows in between
is part of the invariant: the assets before the one it downloads are there (`Copying`), what it is
about to mark expired has no files (`Tidy`). `Good` (in its term, not damaged) results have whole
copies because nobody removes files of a result whose term is not over; the advisory lock is not needed
for that. It is for `ExpiredIsGone`: `Crowded` says that a second worker is at it, and what
is written or expired then is counted in `doubled`.

### MemoryStoreConfigProofs: InstanceConfig

Any processes, operators, wishes and contents of the tables that serve to begin with.

| theorem | says |
|---|---|
| `ConfigIsTyped` | `ConfigSpec => []ConfigTypeOK` |
| `ChosenKeepsItsKey` | `ConfigSpec => []ProvidersHaveKeys` |
| `AcceptedIsSeen` | `ConfigSpec => []OwnPatchIsSeen` |
| `ConfigStaysKept` | `ConfigSpec => []ConfigIsKept`, these and `PatchesAreInformed` |

`DecidedWell` says of a patch about to be written that it was allowed on the rows it has read;
`AllowedKeepsServable` that the two checks of the code, each of one rule, together keep every
required provider with a key; so a patch whose other rows are still what it read does too
(`CommitPreserves`). `Reloads` and `Promises` say what a reload under way is not older than:
every patch promised before it began, unless it is crossed; patches are numbered by their
commits, so a later read of a row never has a smaller number. `SameVersion` carries the version
check to the write.

### Model-checked only

Liveness under fairness: `EveryJobSettles` of the two media modules, `EveryTaskEnds` and `ProcessesCatchUp`.
It is beyond the prover.

## Findings

Four runs end in a violation, each of a sentence of the repository:

1. **MediaLegacyRace**: `credits_refunded` is documented as true of failed jobs only; a
   slow poller of the direct client writes `running` over a failed and refunded job.
2. **ChatOrphans**: `tool_result` promises to continue only when every call of the step has a
   result; when a later call of a step has bad arguments, the step and the calls before it are
   committed with the failure marker, and a result for one of them continues the turn with the
   bad call unanswered.
3. **ScheduledCancel**: ADR-107 cancels only scheduled tasks; DELETE checks a row it does not
   lock and cancels one that has been claimed since.
4. **BillingRace**: `_upsert_subscription` says a granting event makes the row active; the row is
   read without a lock and the ORM writes only what differs from the copy read, so a renewal that
   read `active` before an expiry committed leaves the row expired, with the new period's date.

What the models also show, stated as the condition of a property rather than a run:

- `SentIsAccepted` has the premise `orderly`. Overlapped turns of one session, a result
  racing an edit, and a crash between a closed barrier and its continuation followed by a
  newer message all send a history with an open call (ADR-114 §4 assumes they do not overlap).
- A generation that commits its call between the two DELETEs of an edit keeps the row in `tool_calls` and
  loses the step. A result for it finds no anchor, is applied as if the call were current, and is sent as a
  result of nothing, though `truncate_from_message_step` deletes the rows itself so that none is orphaned
  (`torn`, excepted in `ResultsFit`).
- Two results that each close the other's barrier may each see the other pending: nobody
  continues until the device asks again. A retry during the model call starts a second
  continuation.
- Two concurrent turns of a trial user are both allowed, so `OnlyAnswersArePaid` is about
  subscribers.
- A worker slower than the TTL may announce "completed" of a task that recovery has failed.
- The limit of active tasks can be exceeded by what is in flight.
- The claim of a push commits after the send: a lost transaction sends it again, though
  `push_service.py` calls double notification impossible (`NotifiedOnce` counts claims).
- A replay in the wallet compares type and amount; its architecture document says `meta` too.
- `OldPeriodChangesNothing` is about requests that have seen the later period: one that read the row
  before it committed overwrites it. Card, CRM and admin upserts overwrite always.
- A CRM grant repeated at once is credited once and extends the subscription twice; two different
  grants at once both extend from the same date, so one extension is lost.
- A webhook without `transaction_id` is credited under the key of the chain's first transaction. Its
  own period's sync cannot know, so that period may be credited twice; a late sync of the first
  period finds the key taken and is not credited (`OneGrantPerPurchase` excludes these).
- Losing the insert of a device locks nothing: two first Apple sign-ins that overlap the device's
  registration link two subjects to one account (`overtaken`). Two refreshes with one token
  that both read it unused both rotate it, and neither is reported as reuse.
- The memory of an edited turn stays when the edit commits before the deletion task has read its
  anchor, or while a step is being indexed (`overlapped`); a rolled-back edit loses the memory of
  steps that live. A step that is indexed anew, in more chunks, while the deletion task's DELETE waits for it
  keeps the chunks that are new and loses the others (`halved`).
- A worker of the asset store that loses its connection goes on with its batch beside the next holder of
  the lock, and an expired row may keep files nothing removes (`doubled`).
- A payment whose callbacks were answered before the user existed is credited by a first registration that asks
  the provider. A device that comes to be known by `POST /token` or `POST /apple`, or registers without the
  provider's token or under a name that is no UUID, asks nothing, and a later registration has to. A payment
  that is too old by then, has no paid status or is skipped is answered with a 200, or signed in over,
  without a credit (`forgone`), though `_reconcile_ru_payments` is there to close that gap.
- Links are forgotten only after a fresh credit by a callback: when the reconciliation credited first,
  the process died in between, or Redis refused, a paid link is handed out until it runs out.
  "The lock outlives the upstream call" does not hold of an upstream that answers slowly: the
  HTTP timeout is per operation.
- An interrupt during the balance query of a continued turn leaves its new worker speaking
  (`unheard`). An utterance queued behind a turn that is refused before its leg waits for the next
  frame (`stranded`), and a turn that has been interrupted and closed accepts one more into the queue. The turn lock lives as
  long as one provider call and is deleted by whoever finishes (`lapsed`).
- Two patches that overlap are each checked against rows the other has not committed, and together can leave
  the chosen provider without a key (`raced`). Versions are compared to the second, not at all where the
  operator's page had no row, and never for keys. A snapshot is read by several SELECTs, so it can mix the
  states before and after a commit until the next tick (`torn`); of two reloads of one process the older may be
  installed last, and an operator does not see an accepted patch until the next tick, though
  `_commit_and_refresh` means them to (`outrun`).

## Not modelled, and why

- Of the chat: BYOK mode (no wallet), the media selection wizard, provider state and failover,
  subscription changes during a turn, session creation and expiry. `_all_already_done_before` is true in
  every reachable state and is left out. A step has its number from its commit on, although the
  identity column numbers it when it is inserted: the properties are about the order of calls and results, in one
  transaction or one after the other, and generations that overlap are excluded from `SentIsAccepted` anyway.
  Of an edit, the SELECT of the anchor and the DELETE of the rows are one step, and the rows' locks are taken
  with those of the steps; a DELETE of steps that waits for another edit sees what is there when the wait ends.
  `torn` keeps a call even where the edit that tore it is rolled back.
- Data: prompts, assets, prices, request bodies, error texts. A job is priced or free, a result
  pending, bad or good, a message its role and its calls.
- Chat tools and provider clients: calls of external services; their outcomes are actions of
  `ChatTurn` and the media modules.
- Of the instance configuration: the other settings, products and tariffs (the same version check, no
  condition on other rows), and rows that cannot be decrypted.
- Around the payments: recognition of an utterance, speech budget, freshness of links, status and age of payments (any selection of them), products and
  amounts, a second registration while one is reconciling, signatures of Apple and Adapty.
- Request logs: written in transactions of their own, read by operators only.
- BYOK keys (cryptography and probes of providers around one row), history, workspaces, documents and the website builder (CRUD and
  rendering), the API gateway (routing and Redis rate limits), profile, preferences, pricing,
  input moderation, observability (single reads and writes), deployment (shell, migrations).

## Plan

In this order:

1. Composition: the debits and refunds of media and the grants of the stores as calls of `WalletPromise`,
   as those of the chat are. Their modules have ledger keys and no balance, which must be added.
2. The other settings of the instance, and the rows of BYOK keys.
