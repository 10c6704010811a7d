# NEXUS-HUB in TLA+

A verification project for NEXUS-HUB, a payments platform for freelance
marketplaces: a Soroban escrow contract, a NestJS API, a BullMQ worker that
calls the contract, webhooks, and a web dashboard. Paths below are relative to the repository
root; line numbers are in `PROJECT.json`, which maps each definition to the
lines it stands for.

    tlc -workers 2 -config MCNexusEscrow_core.cfg MCNexusEscrow.tla    # one run
    tlapm NexusEscrow_proofs.tla                                       # the proofs

## 1. The system

| Part | State it keeps | Operations |
|---|---|---|
| Contract `contracts/nexus-escrow` | admin, fee, pause flag, one record per escrow; tokens in its own account | 15 entrypoints that change state, each one atomic |
| Escrow API `apps/api/src/escrow` | rows of `escrows`, `balances`, `transactions` | create (debits the balance, enqueues), release, refund, approve, complete milestone, claim expired (check the row, enqueue), transfer-admin (rotates webhook secrets) |
| Dispute API `apps/api/src/disputes` | rows of `disputes`; the escrow's status | open, set under review, resolve |
| Escrow queue (BullMQ, external) | ready, delayed and running jobs | exponential back-off, limited attempts, stalled jobs come back |
| Escrow worker `apps/worker/.../escrow.processor.ts` | none of its own between awaits | six handlers: read the row, call the contract, read the contract, commit the database, fire webhooks; a compensation for a failed funding |
| Stellar gateway `apps/worker/src/stellar` | none | simulate, submit, poll 30 times |
| Webhooks `apps/api/src/webhooks`, `webhook.processor.ts` | `webhook_endpoints`, `webhook_deliveries`, the webhook queue | register, update, delete, rotate; create a delivery and its job; post, record, retry |
| Sessions `apps/api/src/auth`, `apps/web/src/lib` | refresh tokens; the browser's pair | register, login, refresh (rotate), logout |
| Storage lifetimes `contracts/nexus-escrow/src/storage.rs` | the last ledger of each entry: instance, settings, escrows | extended by the calls that touch them, archived by time, restored by anybody |
| Dashboard `apps/web/src/app`, `apps/web/src/hooks` | a query cache that all pages of a tab share; forms | navigate, fetch, poll, refetch on focus; create, top up, withdraw, dispute, register, delete, rotate; sign out and in |
| Queries `balances.service.ts` and the list methods of the services | none | reads |

How they interact. The API never calls the contract: it checks a row and
enqueues a job. A worker later reads the row again, calls the contract with a
transaction signed by the operator's and the user's keys, and then writes what
happened into the database. So the *contract* is the truth about the tokens,
the *database* a mirror written after the fact, and the *queue* the only link.
Disputes are the exception: they are written to the database alone.

What is hard: a job may run before the transaction that enqueued it commits; a
handler may stop at any await, and the contract call before it cannot be undone;
a lost answer is retried while the first transaction may still land; two workers
run approvals of one escrow at once; anybody may call `claim_expired` on chain;
handlers check rows outside the transaction that writes them; concurrent
requests of a client share one balance row; storage entries die of disuse; a
browser shows data fetched before a write that has already been confirmed.

What makes each part correct:

* contract: each deposit leaves exactly once, whole, to the right party, with
  the right consent; final states are final; the shared account stays solvent;
  expiry frees undisputed tokens even while the contract is paused;
* platform: a settlement is credited once; the database never runs ahead of the
  contract; what the contract settles is credited eventually; jobs end;
* creating an escrow: each idempotency key is charged once, the balance is never
  overdrawn, no credit is lost, every request is answered;
* webhooks: a delivery's row tells what happened, and once settled stays so; a
  receiver is not posted to without limit; queued deliveries settle, and a
  fault loses no more than what was in hand; jobs that can no longer succeed run out;
* sessions: rotation replaces a token and does not multiply it; a tab is not left
  with a dead token, nor signed out without a cause;
* storage: a call leaves what it used reachable for as long as the code promises,
  and getting an expired deposit back depends on nothing that may be archived;
* dashboard: what a write has made out of date is not shown as fresh, a form is not
  sent twice behind its user's back, a secret shown is the one in force, and a page
  that stays open catches up with the server.

## 2. The modules

| Module | Models | Extends |
|---|---|---|
| `EscrowRecords` | pure parts of the contract: statuses, fee, record of a new escrow, guards on a record | |
| `NexusEscrow` | the contract: one action per entrypoint, token transfers, ledger time | `EscrowRecords`, `Functions` |
| `EscrowPromise` | abstract: what an escrow promises about one deposit | |
| `SumTheorems` | facts about the community modules' sums over finite sets | `Functions`, `FiniteSetTheorems`, `TLAPS` |
| `NexusEscrow_proofs` | theorems about the contract | `NexusEscrow`, `SumTheorems`, `TLAPS` |
| `PlatformState` | state shared by API and worker | `NexusEscrow` |
| `EscrowApi` | the HTTP handlers of escrows and disputes | `PlatformState` |
| `EscrowWorker` | job handlers, Stellar gateway, queue, faults | `PlatformState` |
| `EscrowPlatform` | API, queue, workers and contract composed; the platform's properties | `EscrowApi`, `EscrowWorker` |
| `EscrowPlatform_proofs` | theorems about the platform | `EscrowPlatform`, `NexusEscrow_proofs` |
| `BalanceLock` | `createEscrow` step by step, with the optimistic lock and the idempotency key | `Functions` |
| `WalletPromise` | abstract: what creating escrows promises about a client's money | |
| `BalanceLock_proofs` | theorems about `BalanceLock` | `BalanceLock`, `SumTheorems`, `TLAPS` |
| `WebhookDelivery` | endpoints, deliveries, their jobs and worker | |
| `SessionRefresh` | refresh tokens, the tabs that hold them, the retry after a 401 | |
| `SessionRefresh_proofs` | theorems about `SessionRefresh` | `SessionRefresh`, `FiniteSetTheorems`, `TLAPS` |
| `WebhookDelivery_proofs` | theorems about `WebhookDelivery` | `WebhookDelivery`, `FiniteSetTheorems`, `TLAPS` |
| `StorageTtl` | the contract with the lifetimes of its ledger entries | `NexusEscrow` |
| `StorageTtl_proofs` | theorems about `StorageTtl`, and that it refines `NexusEscrow` | `StorageTtl`, `NexusEscrow_proofs` |
| `Dashboard` | one browser tab: pages, query cache, writes and their answers | |
| `Dashboard_proofs` | theorems about `Dashboard` | `Dashboard`, `SequenceTheorems`, `TLAPS` |
| `MC*` | small instances for TLC | |

Operators named `Mut_...` stand next to the definition they distort. They are
used by nothing: replacing the definition by one of them is how the project
shows that a property can fail.

### The contract (`NexusEscrow`)

Soroban rolls back a call that returns an error or traps, so an action is the
successful call: its guard is the conjunction of the entrypoint's early returns
and `require_auth`, and a rejected call is a stutter. `balance` is the token
contract's ledger (external), `moved` a history of the transfers made for each
escrow, `call` the signer and the events of the last call, `ledger` the ledger
number, advanced by `CloseLedger`. The fee is computed by the code's truncating
quotient; a product above `MaxI128` traps, which `InitEscrow`'s guard states.
`Offers` are the argument tuples of `init_escrow`, among them ones it must
refuse. The status `Active`, which `activate` sets, is kept.

### The platform (`EscrowPlatform`)

`db` holds the columns of an escrow row that anything depends on, with the
status of its `ESCROW_LOCK` transaction; `book` the balances; `keys` the
idempotency keys of settlements (`release-<id>`, `approve-release-<id>`,
`refund-<id>`, `expired-<id>`), unique in the schema; `settled` is a history of
credits. A worker's `pc` names the await it stands at: `read`, the contract call
(`init_escrow`, `fund`, `release`, ...), `observe` (getEscrowRecord), `commit`
(the database transaction), `notify` (fireWebhook), and the two steps of
handleFundFailure, `fail_lock` and `fail_book`. `Throw` is the exception: it
runs the compensation for a funding job, otherwise ends the attempt.

* `Invoke` is simulate, submit and confirm. `Refused` is a failed simulation.
  `LoseAnswer` leaves the transaction in `inflight`, where it may `Land` or
  `Expire`; all transactions use the operator's next sequence number, so one
  that lands voids the others.
* `CreateEscrow` enqueues before `CommitCreate` makes the row visible, as the
  code adds the job inside its transaction. `AbortCreate` leaves the job behind.
* Each dispute handler is split into its checks (`OpenDispute`,
  `SetUnderReview`, `ResolveByAdmin`) and its write (`WriteDispute`).
* `release` is missing from `ChainCall`: `StellarService.releaseEscrow` passes
  three arguments to an entrypoint that takes two.

The worker's reading of users' keys, encryption and transaction assembly are
left out; that the network accepts the signatures of an envelope is assumed.

### Creating an escrow (`BalanceLock`)

One client's requests at PostgreSQL's read committed level: a row updated by an
open transaction stays locked, and an update that waited evaluates its `WHERE`
again. `Lookup` (before the transaction), `ReadBalance`, `DebitBalance` (the
update guarded by the version) and `Create` (insert and commit) are steps;
`Rollback` is any failure after the update, the unique key among them, and `Reject`
any answer before it: a freelancer who is unknown, has another role or no Stellar
address, which the code finds out before it reads the balance, or a 500. Nothing
is promised of `Reject` (it is not in `Handle`, which is fair), so that requests are
answered without its help. `GiveBack` is the worker's credit, an increment that
ignores the version.

### Webhooks (`WebhookDelivery`)

One worker process hosts an EscrowProcessor, which runs `fireWebhook` for one job
at a time, and a WebhookProcessor (worker.module.ts:32): `firing[w]` and `pump[w]`
are the two of process `w`, and `Crash(w)` ends both in one step, whether one of
them or both had something to do.

`Fire`, `InsertDelivery` and `AddJob` are fireWebhook's awaits. A job carries copies
of the endpoint's data. `Post` is the request to the receiver; its 2xx answers are
the history `received`, its requests per delivery the history `posts` (`CountPost`,
which stops at `MaxPosts`, one more than the property allows). `RecordDelivered` and
`RecordFailed` are the two updates of the row. Each commits before the queue hears of
it, and the process may die in between: `done` is the row marked DELIVERED and the
job not completed (`Complete`), `noted` the row marked FAILED or RETRYING and the
error not yet thrown on (`Rethrow`).

Each call to the database or the queue may fail (`InsertFails`, `AddFails`,
`UpdateFails`, `NoteFails`), and a call that fails may have been made, only its
answer lost: each of these actions either leaves the row or the queue alone or changes
it. When that happens to the update after a 2xx answer (webhook.processor.ts:66)
the row says DELIVERED while the handler goes on as after a refusal; the history
`unheard` remembers such rows until their next update. `InsertRefused` is the foreign
key of an endpoint deleted since it was read.

BullMQ returns a failed job until its attempts are used up (`Failed`), and the job of
a process that died up to `MaxStalls` times. A job that BullMQ takes for stalled
because its worker is merely slow, so that two workers run it at once, is not modelled.

### Sessions (`SessionRefresh`)

Token pairs are numbered as they are issued; a refresh token's row is live until
`revoked`. `call` is where the axios interceptor is with a call, `refresh` the
handler it has started on the server, one step per statement (`Find`, `Revoke`,
`Issue`), which goes on when the browser has gone (`Disconnect`, `Unheard`).
`Resend` reads the store again, since the request interceptor overwrites the
header the retry has set. A second 401 is rejected without touching the store
(`DeniedAgain`): the retried call is returned, not awaited, inside the `try`.
Access tokens may be found expired at any time, refresh tokens lapse together
(`MonthPasses`). A tab's memory and localStorage differ until a `Reload`, which
is also the redirect to the login page.

Requests outlive their tab: a `Reload`, or an answer that does not come (`EnterLost`,
`LogoutLost`), leaves in `adrift` what the server will still do for a sign-in or a
logout that nobody waits for, and `IssueAdrift` and `RevokeAdrift` do it at any later
time. `StatementFails` is a statement of `refresh` that throws, made or not.
Four variables are histories: `used` (how often each tab has presented each token),
`cut` (tokens whose answer a reload cut off), `raced` (how often a handler accepted a
token that another had accepted and not yet revoked) and `broken` (the calls whose own
refresh a fault has broken, until that refresh is over).

### Storage lifetimes (`StorageTtl`)

Each action is the contract's own action and, in the same step, what it does to
`until`, the last ledger each entry is live in. A call traps if it touches an
archived entry (`Touch`); it extends the instance and the escrow it loads
(`OnEscrow`), and a setting only when it is set (`OnSettings`). `Extended` is
`extend_ttl`: nothing happens above the threshold, otherwise the entry lives
`Target` ledgers from now. `cancel` and `claim_expired` do not ask whether the
contract is paused, so they do not need that entry. `Restore` stands for
RestoreFootprint, which anybody may submit and nothing in the repository does.
Lifetimes are parameters; the code's are 100 800 and 432 000 ledgers.

### The dashboard (`Dashboard`)

`cache` and `fetch` are TanStack Query's state per query key: the user whose data
it is, how many of the server's changes it includes (`version`), stale and
invalidated flags, and the fetch in flight with what it has read. `db` counts the
changes of the rows a user's queries select, per topic. A page observes the
queries of its hooks (`On`); `Go`, `SignIn` and `Reload` mount them, `Mounting`
being the library's rule to fetch what is missing, stale or invalidated; a failed
attempt (`FetchFails`) is retried or was the last, so the code's two retries are
included. The cache survives `SignOut`, as `router.push` loads no page. A write is
`Submit`, `Commit` or `Refuse` on the server, then `Succeed` (the hook's
`onSuccess`: invalidations by key prefix, the form cleared, the secret shown) or
`Fail`; the last two run even after the page is left. `Writes` has for each form
the rows its request changes and the keys its hook invalidates. Library behaviour
- joining a fetch, cancelling one on invalidation, collection of unused data,
refetching on focus - is marked external.

A form's button is disabled by the pending request only once the page has been drawn
again. `undrawn` is the press after which it has not, `Draw` the drawing; until then
`PressedAgain` lets the same content be sent once more, as part of the same `press`.
Buttons follow the last request of their hook (`Pending`).

A secret belongs to an endpoint: one registered before (`Endpoints`) or by a send of
the run (`Registered`). Registering sets it and shows it, rotating replaces it (`Replaces`,
noted in the `next` of the send whose secret it was) and shows the new one; `told` notes
when an answer was shown, and whether after the answer of the rotation that
had replaced it. Several rotations and registrations may be under way, of one
endpoint or of several. A rotation of an endpoint that is deleted, or that is another
user's and still in the cache, is refused and shows nothing; that a page keeps
showing the secret of an endpoint deleted since is not modelled.

The module describes all queries and forms; its run follows the balance, which
three pages, the timer and four hooks touch, and of the writes one with a form and
an invalidation (withdrawal) and one with neither (rotation). Registrations are in the
theorems only: with them, and the three writes that a registration and two
rotations take, the run would be several times as large. The other queries
are taken through the same actions with fewer of them: no timer, and filters that
may match nothing.

## 3. What TLC checks

| Run | Question | Bounds, and why they are enough |
|---|---|---|
| `nexus_core` | Is one escrow settled exactly, finally, with consent and cause, whatever is called in whatever order? | one escrow, 4 accounts (one the heir of the admin), 11 offers: zero, small, ordinary and trapping amounts, delays 0 to 2, expiry, a milestone, deals of an account with itself and with the admin; fees of 0, 10% and above the cap; 4 ledgers, past every deadline. Calls on different escrows share only the contract's token account and settings |
| `nexus_pool` | Is the shared account solvent for each of two escrows? Does the contract implement `EscrowPromise`? Does expiry free tokens? | two escrows of the same parties, in one token or in two, one expiring at ledger 2 of 2 |
| `platform_faults` | Is a settlement credited once, and never before the contract settled? | one escrow with a milestone and an expiry, two workers (interchangeable), two requests, one failing call or lost answer, one crash, one outsider's claim, two attempts per job |
| `platform_settles` | Do funding, approvals and payments on chain reach the row and the balances in the end? Do jobs end? | two workers, two requests, one fault, one crash, fair scheduling |
| `wallet_race` | Are keys charged once, is nothing overdrawn or lost, is every request answered? | three requests of 100, 200 and 100, two with one key, each sent up to twice; a balance of 250, which covers some of them; two credits |
| `webhook_pump` | Do rows tell the truth and stay settled? How often is a receiver posted to, and what does a fault lose? Do queued deliveries settle, and jobs with an old secret or none run out? | one endpoint, two deliveries, one worker, two attempts, one crash, one failing call, one rotation, one dispute event; there is one job for a delivery at most, so that workers meet only in the queue, where any of them may be next |
| `session_tabs` | Does rotation keep one token per sign-in? Is a tab left with a dead token, or signed out without a cause of that very step? | two tabs, three calls of which two at a time, one sign-in, one logout, one reload, one fault; tabs and calls interchangeable |
| `storage_lease` | Are a used escrow and the instance reachable as long as promised? Can an expired escrow be claimed whatever is archived? | one escrow expiring at ledger 4 of 5, entries that live 2 ledgers when new, 3 when extended with at most 1 left: within the run each entry can lapse, be restored, and lapse again |
| `dash_tab` | Is an invalidation ever forgotten? When can a form be committed twice, or a replaced secret stay on the page? Does a page catch up with the balance, even after another user? | two users of one tab, two writes or changes made elsewhere, one failed fetch or unanswered write: two are the fewest sends of one form, by a double press or after a failure, and the fewest rotations of one endpoint under way at once, and a write and a change race one refetch |

Three calls are the fewest in which a token obtained by one refresh is refreshed
again while an older answer is still under way.

Two requests suffice for the two approvals, and for a settlement that races
another; one fault and one crash put a failure at every await. Two attempts
are the first and the last, the ones the code distinguishes (it uses 3 and 5).

The runs of `WebhookDelivery`, `EscrowPlatform`, `BalanceLock`, `SessionRefresh`, `StorageTtl` and
`Dashboard` that switch off the deadlock check do so because the system may really stop: when the bounded requests
are used up and every job has ended, nothing has to happen.

**Bounds in guards.** `MaxLedger`, `MaxRequests`, `MaxFaults`, `MaxCrashes`,
`MaxClaims`, `MaxAttempts`, `MaxCredits`, `MaxRotations`, `MaxDisputes`, `MaxSends`,
`MaxLogins`, `MaxLogouts`, `MaxReloads` and `MaxWrites` cap counters only for TLC. `Attempts` and `MaxStalls` are parameters of BullMQ.
In the runs `MaxCrashes` does not exceed `MaxStalls`. A job whose worker dies more often
than BullMQ returns it is dropped, and its delivery stays RETRYING; if the process was
about to queue another delivery as well, that death loses two. `LostOnlyByFaults`
allows for it - one more for every `MaxStalls + 1` deaths - and the theorem covers
it; within a run of one crash the property says one loss per fault.

**Fairness.** `FairSpec`: ledgers close, and somebody submits `claim_expired`,
which needs no signature. `FairPlatformSpec`: a worker with something to do does
it (a Node process runs its event loop; a hung call ends by its timeout, which
is a fault), a back-off ends, an open database transaction ends; nothing is
assumed of users, dispute handlers, outsiders or ledgers. `FairLockSpec`: a
handler that was started is run to its end. `FairDeliverySpec`: likewise for
fireWebhook and the webhook workers. `FairDashSpec`: a request is answered
(the client's timeout is a fault) and the interval timer of `useBalance` fires.
No strong fairness is used.

**Refinement.** `NexusEscrow` implements `EscrowPromise` with `stage` from the
record's status, `stake` from its amount and fee and `paid` from the transfers.
`BalanceLock` implements `WalletPromise` with `funds` the committed available
balance and `taken` the committed idempotency keys.

### Disagreements between the code and what is said of it

Each has a run that TLC ends with a counterexample (details in `PROJECT.json`).

* `HeldFundsStayReserved`: with no fault at all, a funding job that reads before
  `createEscrow` commits and compensates after it gives the reservation back;
  the next attempt still funds the contract.
* `RulingsAreFinal`: two rulings, or a review after a ruling, both get through.
* `ExpiryClaimCredits`: after an outsider's `claim_expired` the platform's own call
  is refused, and the client's balance is never credited.

Met while modelling, visible in the actions, without a run of their own. On the
platform:
a call that fails between `approve_release` and the commit leaves the row without
the approval for ever, as the retried call is refused (schema.prisma:199 says
the worker keeps it in sync; `ChainReachesBooks` holds as long as no call fails);
the release job always fails, since `releaseEscrow` passes three arguments to an
entrypoint that takes two (escrow.service.ts:124 promises the transfer);
resolving a dispute pays nobody (disputes.service.ts:96, against README.md:209);
dispute events are enqueued without delivery, url or secret, and the processor
throws before it posts them (disputes.service.ts:65, against README.md:194).
In the contract's storage: an escrow nobody calls for 30 days is archived, though a
dispute delay may be 180 (storage.rs:84 says active escrows never expire); the
settings are extended when they are set and never when they are read, so that
once the pause flag is archived no release, refund or dispute gets through,
however often the contract is used (storage.rs:62).
In the dashboard: `queryKeys.disputes()` is `['disputes', undefined]`, which
matches no query on a page, likewise `escrows()` and `transactions()`, so those
lists are not refetched after a success; the disputes page has only the disputes
the user raised (disputes/page.tsx:112); after a sign-out the next user first
sees the previous user's cached rows, which `BalanceCatchesUp` says are replaced; a
form submitted again after a lost answer carries a new idempotency key
(api-client.ts:52), as does a button pressed twice before the page is drawn (the two
exceptions in `FormSentOnce`); of two rotations answered in the order opposite to the
server's the last answer wins the page, and a rotation whose answer is lost leaves the
replaced secret there (the exceptions in `SecretShownIsLast`).
Elsewhere:
after `transfer_admin` the old admin still rules on the escrows created before
(lib.rs:419, against lib.rs:117);
`cancel` ignores the pause (lib.rs:335, against lib.rs:106); the client may
dispute before `dispute_deadline_ledger` (lib.rs:382, against types.rs:80); a
refund by ruling publishes no `refunded` event (lib.rs:433, against
events.rs:48); the worker's balance updates carry no version (against
docs/AI.md:36) and a lost version race is answered with BadRequestException
(escrow.service.ts:57, against docs/AI.md:37); a delivery is signed with the
secret its job copied (escrow.processor.ts:492, against docs/AI.md:46;
`UselessJobsRunOut` says it ends); transfer-admin announces an
on-chain key rotation that nothing enqueues (escrow.service.ts:343); two handlers
that have both read a refresh token both issue a new one (auth.service.ts:73,
against auth.service.ts:82; `RotationKeepsOne` counts one more for each such race).

## 4. What is proved

`tlapm` checks every leaf; the constants are arbitrary within the named
assumptions of their modules (`DelayAssumption`, `NexusAssumption`,
`PlatformAssumption`, `BalanceLockAssumption`, `TtlAssumption`, `WebhookAssumption`,
`SessionAssumption`, `DashAssumption`), which TLC evaluates on its instances. Every
safety invariant, action property and refinement of a passing run is a theorem,
but for the one that says ENABLED, of which what stands under the ENABLED is one.

### The contract, for any number of escrows, accounts, tokens and offers

| Theorem | Property | In words |
|---|---|---|
| `TypeCorrect` | `TypeOK` | every variable keeps its type; no balance goes negative |
| `EveryEscrowSettlesExactly` | `SettlesExactly` | the transfers of an escrow are the ones its status calls for, to the unit |
| `NoStaleApproval` | `ApprovalsHonoured` | two approvals never stand on an escrow that is not released, and a dispute leaves none standing |
| `ProgressStaysConsistent` | `ProgressConsistent` | milestones and funding ledger agree with the status, and no escrow was funded in the future |
| `SettledForGood` | `FinalIsFinal` | a final record never changes, nor do its transfers |
| `DealsKeepTheirTerms` | `TermsFixed` | no call changes the terms the parties agreed |
| `NobodyIsPaidUnasked` | `PaidByConsent` | the freelancer is paid only by the client, by both, or by the arbiter |
| `NoRefundWithoutCause` | `ReturnedWithCause` | the deposit goes back only by the arbiter's word or by expiry |
| `ContractKeepsPromise` | `ImplementsPromise` | the contract implements `EscrowPromise` |
| `TheContractStaysSolvent` | `Solvent` | in each token the contract holds the sum of the deposits it has not paid out |
| `NoPayoutRefused` | (`Covered`) | the contract's account always covers the whole amount of each escrow that holds funds |

`SettlesExactly` is not inductive by itself. Paying out `amount - platform_fee`
and `platform_fee` gives the deposit only if the fee is below the amount, so
`TypeInv` adds `FeeBelowAmount` to the types, from `FeeFact`: the truncated
quotient under the cap is smaller than the amount (which also shows that the
code's `FeeTooHigh` return for a single escrow is dead). The inductive
invariant `IInv` is `TypeInv`, `ledger >= 1`, `SettlesExactly`,
`ApprovalsHonoured` and `ProgressConsistent`; each of the last three is
preserved given the types, and `ProgressConsistent` also needs that a funding
ledger is never 0, which is how a record says it was not funded.

The argument has two layers. `EscrowStepEffect` shows that each of the calls
on an escrow `e` is one of seven effects (`EffOpen`, `EffFund`, `EffWork`,
`EffDispute`, `EffPay`, `EffReturn`, `EffCancel`) on `escrows[e]` and `moved[e]`
and touches no other escrow (`Others`). Every later lemma splits on those
effects and not on the entrypoints: `SettlesStep`, `ApprovalsStep`,
`ProgressStep` for the invariant, `EffectNotTerminal`, `EffectTerms`,
`EffectEnds` for the action properties, `EffectImplements` for the refinement.
The other steps (`ConfigStep`, `CloseLedger`) are covered by `UntouchedStep`.

`Solvent` relates one balance to all escrows that share it. `CallCash` shows that
a call changes the contract's balance by what it moves for its own escrow (`Cash`),
and `InHandFact`, from `SettlesExactly`, that what is held for an escrow is its
whole amount or nothing. So a funding adds one term to the sum, a settlement takes
that term out, and any other call leaves both sides alone. That only finitely many
escrows are deposited at a time is part of the invariant (`SolventInv`): nothing
bounds `EscrowIds`. `NoPayoutRefused` is what `Solvent` is for: an action that pays
out is guarded by the token's balance, and a state in which that guard
were false for a funded escrow would be a deposit nobody can get back. One term of a sum of
naturals is at most the sum (`SumBound`), so no such state is reachable.

### Sums

`SumTheorems` states how `SumFunctionOnSet` of the community modules changes when an
element is added or removed, when the function changes outside the set, when
one set contains the other, and that a sum of naturals is a natural no smaller than any
of its terms (`SumBound`). The operator is defined by a recursive function over
subsets in an order left to `CHOOSE`; that its value does not depend on that order is an
induction on the set. The library's induction theorem for finite sets has
an operator as parameter, so `SubsetInduction` argues by a smallest counterexample
instead, from the well-foundedness of strict inclusion between finite sets.

### The platform, for any number of escrows, workers, requests, faults and crashes

| Theorem | Property | In words |
|---|---|---|
| `PlatformWellTyped` | `PlatformTypeOK` | rows, balances, jobs and workers keep their types |
| `SettledOnce` | `SettlesOnce` | an escrow is credited once at most, and not to both parties |
| `BooksNeverAhead` | `BooksFollowChain` | what was recorded or credited has happened on chain |
| `PlatformKeepsPromise` | `ImplementsPromise` | the composed system implements `EscrowPromise` |
| `ContractHoldsWhenDriven` | `Solvent`, `SettlesExactly`, `ApprovalsHonoured`, `ProgressConsistent`, (`Covered`) | driven by jobs, late transactions and outsiders, the contract takes only its own steps and keeps its invariants |
| `DealsHoldWhenDriven` | `FinalIsFinal`, `TermsFixed`, `PaidByConsent`, `ReturnedWithCause` | and its action properties |

The inductive invariant is `PlatformInv`. Besides the types and the contract's own
`IInv` it has four parts.

* `PlaceInv`: which job a worker may have at each await, so that the compensation of a
  funding runs for a funding only and a release never gets to its commit.
* `SeenInv`: what a worker has seen of the contract before an await is still so after
  it. This is where interleaving could hurt: another worker, an outsider's
  claim or a late transaction may call the contract in between. It holds because an escrow
  only moves forward (`Climbs`: a started, a final, an approved escrow stays so,
  and milestones only grow), whoever calls (`CallEffect`, `ChainClimbs`).
* `RefundInv`: a refund may be recorded under either of two keys, `refund-<id>` and
  `expired-<id>`, and the database knows nothing that keeps both from being taken. The
  contract does: it refunds once, so at most one worker is between a successful refund
  and its commit, and until then neither key is taken.
* `KeyInv`: every credit has taken its key.

`SettlesOnce` follows from `KeyInv` for two credits of one party, and from
`BooksFollowChain` for the two parties, as a final status is one of the two.
Crashes and lost answers need no case of their own in the argument: they only send a
worker back to rest, or leave a transaction whose landing is one more call.
`PlatformKeepsPromise` is `ContractKeepsPromise` again, since a step of the platform is
a step of the contract or leaves it alone (`ChainMoves`).
The last two theorems carry the contract's own properties over. They do not follow
from `Spec`, since `PlatformInit` is not `Init` (the contract is already set up): the
lemmas on one step (`SolventKept`, `FinalStep`, `TermsStep`, `ConsentStep`,
`CauseStep`) are applied to the platform's steps under `PlatformInv`.

### Creating an escrow, for any number of requests, keys and amounts

`LockHolds` proves `LockInv`, which is inductive as it stands: the row's holder
is the one request at `commit`; a request past its read has seen a balance that
covers its debit; a row with the version it saw still has at least that
balance, though credits of the worker do not change the version. `WalletKept`
then maps each step of the handler: `Create` is `TakeOnce` of the request's key
(`CreateTakes`), `GiveBack` is `Grow`, the rest is a stutter. `CreditsKept` proves
`NoCreditLost`, an equation with the sum of all committed debits (`SumTheorems`): a
commit adds the term of a request that had none, as its key was free, and takes the
same from the balance, whatever credits came since the request read it.

### Storage lifetimes, for any lifetimes and any number of escrows

`LeasesWellTyped` proves `TtlTypeOK` and `EveryCallRenewsTheLease` proves
`LeaseHolds`. The two are inductive together: no step shortens a lease
(`Extended` never lowers the end of a life, and a call traps on an entry already
archived, so it never starts from an older one than it sees), and the call
itself leaves at least `Threshold` ledgers. The proof treats the contract's part
of a step as opaque but for the ledger, which only `CloseLedger` advances.

`LifetimesAddNothing` is the refinement `TtlSpec => Spec`: archival, restoration and
views take nothing from and add nothing to the contract, so every theorem about
`NexusEscrow` holds of the contract whose entries lapse. One of them is needed here:
`ClaimsNeedNoRestore` proves `ClaimServedUnrestored` with `ClaimReady(e)`, the guards
of `claim_expired`, in the place of `ENABLED ClaimCall(e)`. The guards on the two
entries come from `LeaseHolds`, and from every existing escrow having been called
(`CalledInv`); the guard on the token's balance is `Covered`. `ClaimIsReady` shows that
nothing else stands in the way: `ClaimCall(e)` is `ClaimReady(e)` and one
equation for each primed variable. From there to ENABLED is a step the provers
do not have.

### Webhooks, for any number of endpoints, deliveries, workers and faults

`DeliveriesWellTyped`, `OutcomesTrue` and `LossesCounted` come from one inductive
invariant, `DeliveryInv`: the types, and `CarryInv`, which says that at most one
job stands for a delivery - in the queue (`QueueInv`), with one worker
(`PumpInv`) or about to be added (`FiringInv`) - and what the row shows at each
stage of that job (`StageInv`). Without the uniqueness neither property is
inductive: a second job could fail a delivery that the first has delivered.

`LossesCounted` is `(MaxStalls + 1) * Excess <= crashes`, where `Excess` is what is lost
beyond one delivery per fault. A step without a fault loses nothing (`NothingLost`), a
failed call one delivery at most (`CallLosesOne`), a death one, or two if it also drops
a job that had been returned `MaxStalls` times (`CrashLoses`). The last case is paid
for by the deaths that used the job up: `LossInv` adds to the left side `Wear`,
the sum over all deliveries of the stalls of the job that carries each. A death that
returns a job adds one to both sides; one that drops a job takes `MaxStalls` off
the sum, adds one to `crashes`, and so has room for one loss more. The sum over the
deliveries changes in one term at a time (`SumTheorems`), the cardinality argument
uses the library's theorems on finite sets.

`PostsCounted` (`PostsBounded`) and `OutcomesStand` (`OutcomeStands`) need to know where a
job has been, which neither the row nor the queue says. `HistoryInv` reads it
off the job: one that was never returned from a dead worker (`stalls` is 0) is for a
delivery not yet decided, unless it is at `done` or, in its last attempt, at `noted`;
and the posts made for a delivery are at most the attempts its job has counted, the
times it was returned, and the one under way. Since the only job for a delivery is
the one at hand (`CarryInv`), no other can post behind its back, and a step that
is not about a delivery leaves its posts and outcome alone (`Spares`). The exceptions
in `OutcomeStands` are real: after a crash at `done`, or an update to DELIVERED whose
answer was lost, the event is posted again, and a refusal
then turns DELIVERED into RETRYING or FAILED.

### Sessions, for any number of tabs, calls, sign-ins and faults

`SessionsWellTyped` proves `SessionTypeOK` and `OneTokenPerSignIn` proves
`RotationKeepsOne`. The inductive invariant is `SessionInv`. `HeldInv` says that
a handler and a logout present a token that was issued; `IssueInv` counts: the
pairs issued, and those that calls, handlers and sign-ins under way may still
issue, are no more than the sign-ins and the calls sent. `KeepInv` strengthens
`RotationKeepsOne`, which is not inductive. It counts `Shares`: the live tokens that no
handler has accepted (`Free`), the handlers that have accepted one (`Claiming`), and
those that have revoked one and not issued its successor (`Issuing`); and besides them
the sign-ins that have not issued their first token, adrift ones included. Accepting a
free token moves a share from the first to the second, revoking it from the second to
the third, issuing from the third to the first. Only accepting a token that another
handler has accepted adds a share, and that step adds one to `raced`. A token that a
handler has accepted counts even if a logout revokes it first, for its
successor is issued all the same.

`HeldTokensAreLive` (`HeldTokenIsLive`) and `SignOutsHaveCauses` (`SignOutHasCause`) are about
answers that come late and out of order, and share the invariant `TokenInv`, which
adds four parts. `UsedInv`: a token is presented before it is revoked. `NewInv`: a pair
on its way to the browser is held nowhere yet. `HoldInv`: a token that a
tab has presented and still holds is one it is waiting for an answer about, unless a
reload has cut the answer off; so a tab that waits for none holds one it has
not presented, and only another tab can have had it revoked. `CauseInv`: whoever else
works with the token of a refresh, or has revoked it, has presented it besides, and a
refresh that is refused is one that a fault has broken, or has such a cause. Faults are
recorded per refresh (`broken`), so that one of them excuses no other sign-out; and each
of the property's cases names the step that signs the tab out. Each
step is one of a few moves of the tokens (`TokenMove`), and each part is shown
to survive each move.

### The dashboard, for any users, queries, pages and writes

`DashWellTyped`, `NoInvalidationForgotten` (`InvalidationHonoured`), `FormsSentOnce`
(`FormSentOnce`) and `ShownSecretIsLast` (`SecretShownIsLast`) come from one
invariant, `DashInv`.

* `Fresh`: no data and no answer hold a change the server has not made, and an answer
  is no older than the same user's data it is about to replace.
* `Sees`: once a write has succeeded, data from before it are flagged, *and* no
  fetch still under way has read from before it. The second half is what makes the first
  inductive: such a fetch would clear the flag with old rows. It holds because
  the success handler cancels the fetches it finds (those it cannot, `Outrun`, are the
  property's exception).
* `DraftInv`, `UndrawnInv`, `LatestInv` and `OnceInv`: the content now in a form has been
  sent only by requests that wait or have failed; what was sent since the last press not
  yet drawn belongs to that press; and a button looks at the last request of its hook.
  So a second send of a content is of the same press or follows a failure of the first.
* `SecretInv`: what is noted as shown has succeeded, what replaces a secret sets one, and
  the property itself. An answer to a replacement is shown in the place of the secret
  replaced, so the two are on the page together only if they crossed.

A step moves each query in one of four ways (kept, dropped, served, loaded) and the
writes in one of seven (still, parted, added, committed, refused, succeeded, failed);
each part of the invariant is proved against these moves, not the actions.

### Only model-checked

* `ExpiryUnblocks`, `ChainReachesBooks`, `JobsEnd`, `EveryRequestAnswered`,
  `EveryDeliverySettles`, `UselessJobsRunOut`, `BalanceCatchesUp`: liveness under fairness.
* `ClaimServedUnrestored`: it says ENABLED; `ClaimsNeedNoRestore` proves the guard it stands for.

## 5. What is not modelled

* Tokens of several users in one browser (their cached data are in `Dashboard`);
  password hashing, JWT signing.
* In `StorageTtl`, the lifetimes of the token contract's entries and the rent they
  cost. In the other modules entries never lapse.
* In `Dashboard`: the browser's Back button after a sign-out; pages of a list and
  its separate count (two statements on the server); the hooks for releasing,
  resolving and single rows, which no page uses; the panel with an endpoint's
  recent deliveries; rendering.
* The ledger's and the token contract's own rules beyond a transfer that
  succeeds when funds suffice. Authorisation is the signer of the call.
* In `NexusEscrow`, a party that is the contract's own address (`Contract \notin
  Accounts`), and tokens transferred to that address without a call of the contract. With
  them `Solvent` would say "at least": they can only make the contract hold more.
* The status a ruling writes (RELEASED or REFUNDED with nothing on chain) is outside
  `BooksFollowChain`, which speaks of what jobs record and credit.
* Signatures inside an envelope, key encryption, transaction assembly: data.
* Audit logs, time stamps, metadata, the layout of the web pages: nothing the
  properties speak of depends on them.
* Top-ups, withdrawals and the SDK: named by `README.md`, no code. The wallet
  page's two requests are writes of `Dashboard`; elsewhere balances start topped up.
* Two identical rulings by different administrators are one step in
  `WriteDispute`: rows keep the ruling, not who wrote it.
* The request objects `dto` of disputes and webhooks are not in the repository;
  their shape is taken from how the services use them.

## 6. What could follow

In the order of what it would add: two escrows of one client through the
platform, sharing a balance row; the platform over a contract whose entries
lapse (`StorageTtl` in the place of `NexusEscrow`).
