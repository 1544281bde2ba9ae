# Nels: a verification project

TLA+ specifications of Nels, a budgeting service (Rust: `backend/src`, `core/src`, over
PostgreSQL; a Svelte tab in front: `frontend/src`), the TLC configurations that check them on
small instances, and proofs that TLAPS checks. Line numbers below and in `PROJECT.json` refer to
the repository.

The backend's handlers mostly run without database transactions: a handler reads, decides, and
writes in separate statements, each of which commits by itself, while other handlers, webhooks and
background tickers do the same. What keeps the data right is the guards inside single statements
(`WHERE` clauses, unique indexes, `CHECK`s, foreign keys). So the specifications share one form:

- a request, tick or sync in flight is a record, the value of a variable indexed by a small set of
  workers; it holds the next statement and what the request read earlier;
- an action is one SQL statement (or one SQL transaction, or one call to a provider) with
  everything it changes, cascades and constraint refusals included; a query of what never changes in
  that module (an owner, an email, an id) is part of the statement beside it;
- a request can be cut off between any two statements (the client leaves, the process restarts, a
  query fails), and what it committed stays;
- a provider (bank, Stripe, Plaid, the authenticator) is part of the model wherever its answers
  can be late, repeated, reordered or wrong;
- in the browser, a step is what JavaScript runs between two awaits.

Many handlers promise something only to requests that come one at a time, and the code knowingly
accepts what a race does. Those properties end in `Alone` (or `Undisturbed`, `Unshaken`): a history
variable of the MC module records whether requests ever overlapped, and the property speaks of
behaviours in which they did not. Properties without the suffix hold whatever the interleaving.
An `Alone` property does not catch the race of its own hazard: the model has that race, the property
excuses it, and section 5 and the notes of the hazards say what the code then does.

## 1. Inventory

| Component | State | Operations | What is hard | What makes it correct | Modelled by |
|---|---|---|---|---|---|
| Duplicate reconciliation (`duplicate_match.rs`, handlers in `budget.rs`) | `transactions.matched_transaction_id`, `review_status`, `excluded`, the audit log | insert of an import / of a logged row followed by the matcher; approve, edit, delete, merge, dismiss; bank retraction | two inserts of the two copies of a charge at once; settling from a link that has changed since | links run from imports to logged rows; both copies cannot be missed; one audit per settlement | `DuplicateMatch` |
| Limit alerts (`notifications.rs`) | notifications keyed by user, scope and level | reconcile after every change of spending: read, delete what is stale, raise | statements that fail one by one; overlapping reconciliations with different figures; imports that reconcile nothing | an alert is there when the level is reached, with its figure, and only something worse is shown again | `LimitAlerts` |
| Reminders, retention of the feed and of the audit log (`notifications.rs`, `budget.rs`) | reminders with `next_fire_at`; rows with an age | tick each minute; hourly purge in batches; mark, dismiss, reschedule | insert and advance are two statements; ticks of two processes; a batch shrinking under the purge | each day fires once; the next firing is ahead; everything expired goes | `Reminders`, `Retention` |
| Identity (`auth.rs`, `passkeys.rs`, `admin.rs`, `bin/issue_recovery_codes.rs`) | users, credentials, recovery codes, challenges, sessions | register, login, recover, rotate, reset by an administrator, purge, logout, erase | a user row commits before its credential and codes; a ceremony finishing after a reset or an erasure | an account keeps a way in; a reset stands; an erased id stays gone | `Identity` |
| Retirement planning (`backend/retirement.rs`, `core/retirement.rs`, `retirement_projection.rs`, `social_security.rs`) | one profile row | partial saves under an advisory lock; projection | saves merged onto a row that may not exist yet; a clock that passes stored ages; a bisection over a simulation with taxes and forced distributions | nothing acknowledged is lost; a stored profile stays editable; the solve is tight and conserves money | `SocialSecurity`, `RetirementProfile`, `RetirementProjection` |
| Auto-created categories (`budget.rs`, `rag.rs`) | `categories.auto_created`, `transactions.category_id` | find-or-create, log, move, delete, cleanup, category management | lost insert race; cleanup against an insert; the chat's edit writing back what it read before an embedding call | disposable categories go when they empty, and only then; no second spelling | `AutoCategory` |
| Plaid sync (`plaid.rs`) | the cursor and status of a linked account, imported rows | page-wise sync from webhook and refresh; disconnect, relink | overlapping syncs, untrusted `has_more`/`next_cursor`, failure between a page and the cursor | the ledger mirrors the bank; nothing behind the cursor is missing; a sync ends; the user's choices survive | `PlaidSync` |
| Budget lifecycle and rollup (`budget.rs`, `rag.rs`, `core/budget/rules.rs`) | budgets, `is_default`, `active_budget_id`, `rollup_parent_id`, mirror categories | create, retype, close, delete with promotion, switch, link, unlink | checks and writes in different statements; two rows per link | one level of rollup, of one kind; a mirror per link; a default remains | `BudgetLifecycle` |
| Sharing and gates (`budget.rs`, `access.rs`, `goals.rs`, `rag.rs`) | `budget_shares`, `closed_at`, subscriptions | share, revoke, lapse, close; the gates of a REST handler and of a chat turn | a turn acts on a permission read half a minute earlier | every write is one its caller could have made during the request, or was lent by a parent cut off under its check | `SharedBudget` |
| Renewal tick (`budget.rs`, `core/budget/period.rs`) | `auto_renew`, `next_renewal_at`, audit rows | hourly tick; edit, toggle, archive | overlapping ticks, an edit writing back a stale marker | each period renewed once, none skipped, all eventually | `Periods`, `AutoRenew` |
| Fund accrual tick (`budget.rs`) | `is_fund`, `fund_balance`, `fund_advanced_through` | hourly tick walking period by period; enable, disable, retime, archive | overlapping ticks, re-enabling under a tick, backlog above the cap | each period since enabling credited once, none while off, all eventually | `Periods`, `FundAccrual` |
| Billing (`billing.rs`, `core/entitlement.rs`) | the `subscriptions` row; Stripe's subscriptions and events | first budget with a trial, checkout, webhook, account deletion | late, reordered, repeated events; acting on a row the webhook has not written yet | the row converges to Stripe; one trial; no paid subscription outlives its account | `Billing` |
| Bank links (five providers, `bank_linking.rs`) | consent sessions, `linked_accounts`; consents at the bank | start, complete, sync/poll, webhook, disconnect, disconnect-all of account deletion | partial completion, stale poll, shared connections, relinking | no live consent without a row to end it by; siblings spared; disconnect sticks | `BankLink` |
| Linked investments (`plaid_investments.rs`, `assets.rs`) | sessions, linked accounts, assets and holdings | link, classify, refresh, poll, disconnect | holdings and balance in two transactions; a poll working from an old list | an asset counts only while its account is linked; one snapshot | `Holdings` |
| Chat queue, threads and titles (`App.svelte`, `chatQueue.js`, `fetchTimeout.js`, `rag.rs`) | the tab's queue, drain flag and conversation; messages and titles | type, take back, drain, time out, switch, log out and in; the server's turn | a loop that awaits while its session ends; a turn the tab gave up on going on | the queue is an outbox; a thread reads as typed; a title given is kept | `Outbox`, `Chat` |
| Account export and erasure (`account.rs`) | all of a user's rows | challenge, export, `finish_account_deletion` | order of cancel, disconnect, erase; each can fail | nothing live survives outside | the deletion in `Billing`, `BankLink`, `Identity` |
| Goals | goals, contributions | create, contribute | who may, and when | amounts are sums | the gates in `SharedBudget` |
| LLM providers, keys, usage | keys, attempts, token log | validate, call, meter | provider failures | sums of a log | not modelled: wire formats |
| Reports, insights, ignore rules, money, MCP, issue filing, admin lists, start-up, crypto, marketing site | little or none | reads, formatting, forwarding | – | – | not modelled |

How they interact: all handlers share the PostgreSQL database and call each other directly.
An import (any provider) inserts a row and runs the matcher; a change of spending ends in a
reconciliation of alerts; a chat turn dispatches to the same functions as REST; account deletion
calls billing and every bank; the projection reads the assets; one process runs the tickers
(`main.rs` 156-260: hourly jobs, reminders each minute, the GoCardless and investment polls). A
rolling deploy runs two processes for a while, hence overlapping ticks.

## 2. Modules and how they correspond to the code

`PROJECT.json` maps each definition to its lines. Lowercase names with underscores are the code's.
Definitions whose comment starts with "Bug to catch" are variants of the code used to confirm that
a property can fail; no specification reaches them.

**DuplicateMatch** (with **MCDuplicateMatch**, **DuplicateMatchProofs**). `row`, `match`, `live` are
the transactions table; `approvals`, `deletions`, `settlements` count audit rows. `req[w]` is a
handler between two statements. `FindTwin`/`FindImport` are the two candidate queries, and
`LinkImport`/`LinkLogged` the UPDATEs that follow; `MergeExclude` and `MergeReview` are the two
statements of a merge. What the matcher compares is one value, a `Look`, and `Similar` any symmetric
relation on looks. `ORDER BY .. LIMIT 1` is any candidate.

**LimitAlerts** (**MCLimitAlerts**; proofs of this and Identity in **RecordsProofs**). `spent` and `limit` are what the queries sum up, `alert` the
notifications by dedup key. `check[w]` is a reconciliation: its scopes in order, the figure it read,
the statement it is at. Each statement may fail, which is logged and skipped.

**Reminders**, **Retention** (**MCReminders**, **MCRetention**). Time is days. `firing[w]` is the batch
of a tick, fired and then advanced row by row; `purge[w]` the batch of a purge statement. Audit rows are
rows that are read from the start.

**Identity** (**MCIdentity**). The accounts of one email. `flow` is `auth_flows`, the memory of a
ceremony between its two requests; `code` a recovery code, whose and whether used. The six
multi-statement requests are sequences of steps in `req[w]`.

**SocialSecurity** is arithmetic only: ages in months, and factors as whole multiples of 1/7200, in which
the statutory reductions and credits are exact. **RetirementProfile** is
`upsert_profile` as a transaction of four steps, lock, read, write, or roll back, with the merge and
the validation; fields that no rule relates to another are one field `other`. The proofs of it, of the
projection, BankLink and Holdings are in **ConnectionsProofs**.
**RetirementProjection** (**MCRetirementProjection**) advances the runs of every income that may be tried
side by side, a year a step, under any sequence of returns, and then bisects. The deterministic path
and each Monte Carlo path are such sequences.

**AutoCategory** (**MCAutoCategory**). `cat`, `in` are the tables. One statement is two actions: the
cleanup's `DELETE .. WHERE NOT EXISTS` scans (`CleanupScan`) and deletes (`CleanupDelete`), because
under READ COMMITTED the row is not rechecked when it was only locked in between. The proofs of it and of
PlaidSync are in **LedgerProofs**.

**PlaidSync** (**MCPlaidSync**). The bank is a log of changes, a cursor a position in it. A sync
starts from the saved cursor, fetches pages (`Fetch`: any prefix that is a legal page, and any
`has_more` and next cursor the provider may claim), applies entries one by one, and saves the cursor
last. `touched` remembers rows a user edited or deleted, whose content the bank no longer decides.

**BudgetLifecycle** (**MCBudgets**; proofs of this, SharedBudget and Billing in **BudgetsProofs**). A budget is its rank in order of creation. Check and
write steps are separate where the code separates them; `link_rollup`'s transaction is one step
that waits for an `unlink` holding the mirror's index entry (`MirrorHeld`).

**SharedBudget** (**MCSharedBudget**). Every gate is a step: resolution of the budget, permission,
entitlement of the owner, closed, write. A chat turn takes its permission before the model is asked.
A permission is itself read in steps, as `check_permission`'s queries commit one by one: the budget's row
with its owner and parent (`ReadBudget`), the caller's share of it (`ReadDirect`), the share of the parent
that the row named (`ReadInherited`). Other requests share, revoke, link and unlink between them. A turn that
names no budget goes through them for its preference, for the default it falls back on, and again
for whichever it settled on (`Answered`).
The history `could` is the most the caller could do since the request began; `lent` is the most it was given on
a parent whose link was cut while a check that had read the link was under way.

**Periods, AutoRenew, FundAccrual** (**MCTicks**, proofs in **TicksProofs**). Time is counted in months, a
period is one month or a quarter. A tick selects with the instant it started at and writes later, with
the guard its UPDATE repeats. Requests read, compute and write back.

**Billing** (**MCBilling**). `subs` is Stripe, `sent` its events (a set: any may be delivered at any
time and again), `row` the local table. The three requests that act on Stripe are two or more steps
each, with failure at Stripe as an outcome of each call.

**BankLink** (**MCBankLink**). One behaviour concerns one provider, chosen in Init; the providers'
handlers differ in their guards and have an action each (`CheckStripe` .. `CheckAkahu`, `LinkStripe`
.., `RevokeStripe` ..), with what they share factored out (`Upsert`, `Reuse`, `Flip`). A session and
the authorization it yields have one identity; `live` is what the bank would still serve. `stable`
says whether the provider gives an account the same id under a new consent; Basiq and Belvo never do.

**Holdings** (**MCHoldings**). The vendor's figures are numbered snapshots. A sync replaces the holdings in
one transaction and reports the balance in the next; an asset is made by classification and closed with
its Item.

**Outbox**, **Chat** (**MCChat**, proofs in **CatchUpProofs**). `Outbox` is what a composer promises: accepted messages go out in order, each once,
unless taken back while they wait. `Chat` is the tab (queue, drain loops, conversation, session)
and the thread side of the server's turn; it implements `Outbox` (`SentInOrder`) under the mapping that
reads the waiting and the sent messages off the tab. A loop first waits for the headers of its answer, and
there a timeout can come, then reads the body without one (`HeadersArrive`).

### Compositions

Two modules are composed where one acts on the other's state. Beyond that, **MCLedger**, **MCRecords**,
**MCBudgets**, **MCTicks**, **MCConnections** and **MCCatchUp** put several specifications in one run:
their parts write disjoint rows or columns and none reads what another writes, so every interleaving of them
is a shuffle of independent behaviours, and a behaviour shows one part, chosen in Init, while the others rest.
What parts do share is in each of them as a step: AutoCategory has the bank's retraction, FundAccrual
and AutoRenew share the clock, SharedBudget has the lapse of a subscription, Billing, BankLink and
Identity each have the deletion of the account.

## 3. Runs

Six runs pass; six exhibit a disagreement between the code and what it says of itself. Each passing
run takes one to four minutes with two workers.

| Run | Parts and instance | What it shows |
|---|---|---|
| `records` | ledger: 3 rows, 2 requests; alerts: 1 user, 2 categories, 3 checks, 1 failure; credentials: 2 ids, 3 flows, 2 batches of 2 codes | one audit per approval and per deletion, merging a stale link never excludes an import, undisturbed inserts of both copies are linked; alerts follow an undisturbed check and only what got worse is shown; an account keeps a way in unless overlapping recoveries spend its codes on the admin console, a reset stands, erasing is for good |
| `ledger` | sync: 2 bank transactions, 2 looks, 2 syncs, 2 changes, 1 page; categories: 2 categories, 2 transactions, 2 spellings, 2 requests | nothing behind the saved cursor is missing and the user's choices survive, whatever overlaps; alone, the ledger is the bank's at the end of the cursor, disposable categories are gone exactly when empty, and an edit or a cleanup spares the others |
| `budgets` | tree: 3 budgets, 2 requests, 3 multi-step requests; sharing: 2 members, 2 budgets one of which may roll up, 2 turns or requests, 1 change of a link or a subscription; paying: 2 subscriptions, 3 events, 3 seconds | a link never takes a child from another parent; alone, the tree is sound; every write is one its caller could have made during the request, or was lent by a parent cut off under its check, never an owner's; once all events have arrived the row has Stripe's word; no second trial once an event is known; an informed deletion cancels everything |
| `ticks` | 2 ticks, 1 edit, 1 chat request, months 0..3, cap 2 | each period credited exactly once since the fund was last enabled, none while off; one renewal a period unless a request wrote stale columns, no unrelated edit swallows one unless a request wrote over another's columns; what is due is done, a backlog above the cap included |
| `connections` | profile: 2 writers, inputs of up to two fields, 1 year; bank: 2 sessions, 2 accounts, 2 budgets, 2 requests, 2 rows, each provider; investments: 2 accounts, 2 Items, 3 assets, 2 workers; plan: 72 requests, incomes 0..32, returns -50 and 30 percent | nothing acknowledged is lost from a profile, which stays sound and editable; what was linked and is still served has a row in the budget it was asked for; disconnecting spares siblings and sticks; an asset counts only while linked, with one snapshot; the solve finds the largest income that is paid every year, and no year makes or loses money |
| `catch_up` | tab: 2 users, 3 messages, queue of 2, 2 failures; bank: 1 sync, 3 changes, 2 pages; reminders: 2, 3 days, 2 tickers; retention: 3 rows, batches of 2, 2 purgers | queued messages are sent, a sync ends and catches up, reminders fire, expired rows go; the tab implements `Outbox`; a thread reads as typed, a title is kept; a lone tick is thorough |
| `duplicate_settle_twice` | 2 rows | finding 1 |
| `plaid_stale_sync` | as `ledger` | finding 2 |
| `billing_orphan` | 1 request | finding 3 |
| `bank_relink` | 1 account, 1 request | finding 4 |
| `chat_logout` | 2 users, 3 messages | finding 5 |
| `retirement_headline` | 72 requests | finding 6 |

Why the bounds are enough. The hazards are races of two statements over one or two rows, so two
workers and the two rows plus one bystander or rival are what a counterexample needs; two requests and one
cut of a link let a check be torn (two changes are left to the proof); three rows
let a twin be claimed while a rival candidate exists, three budgets allow a chain, two subscriptions
an old and a new one, three events a pair of one and the rival of the other. Three months hold a quarter boundary, and with the
cap at two a backlog longer than the cap. The profile's birth dates lie either side of a change of the
full retirement age, and within its year the default and a chosen target age fall behind. The
plans of the projection have years of saving and not, required distributions and not, Social Security
before and after its first year, a tax of nothing and of half. Every run fires every action of its
next-state relation.
Bounds that cut behaviours: `AuditCap` (settlements begun on a row), `MaxLog`, `MaxPages`, `PageSize`,
`MaxRequests`, `MaxTurns`, `MaxChanges` (requests and changes started), `MaxTroubles` (failures),
`MaxMonth`, `MaxDay`, `LastDay`, `Years` (the clock), `MaxIterations` (24 in the code), `MaxSubs`, `MaxEvents`,
`MaxSecond`, `MaxSessions`, `MaxOwned`, `MaxRow`, `MaxSnapshot`, `MaxTyped`, `QueueCap` (10 in the code),
`BISECTION_ITERATIONS` (40 in the code, over 10 million; here 5, over 32, so that every income is tried);
in MCBankLink at most one of two overlapping requests is a completion, and a behaviour has either an
overlap or a completion cut halfway; in MCPlaidSync a budget is closed only while its account is active, and
the user touches one row, of an account that stays active and open. The proofs about PlaidSync do without
the last two, which are of the run alone.
`CHECK_DEADLOCK FALSE` where ids or the clock run out; those systems stop there.

Symmetry is declared on ids, looks and workers, which no module orders or picks from by CHOOSE, and
never in a run with a liveness property.

Fairness. `ticks`: strong fairness of "some tick selects what is due" and "some tick writes" (the
interval in `main.rs` 190-204 fires for ever, and not every tick fails before its first UPDATE), weak
fairness of ending a walk. `catch_up`: weak fairness of a drain pass and of the timer of a fetch that has no
headers yet, which `fetchTimeout.js` clears when they come; of a sync's next statement or its failure, while
that statement is the server's own; of a reminder tick and of a purge. A statement sent to the database
is taken to answer or to fail.
There is no fairness of what nothing in the code makes happen: the server's answer to the tab, the end of a body
being read (`App.svelte` 403-413), Plaid's answer to a call (its client has no timeout, `plaid.rs`
57-60), and the start of a sync. Nothing polls Plaid's transactions (`main.rs` 156-275), and the webhook answers 200 to a
sync that failed (`plaid.rs` 888-889 and 919), so that Plaid does not resend.
Each liveness property assumes what the code does not guarantee in its own antecedent: that no body and no call
hangs for ever, that webhooks or refreshes go on starting syncs, that failures stop, that the
provider's pages are honest, that nobody logs out or dismisses for ever. So `BacklogsClear` says: the queue is
emptied again and again unless an answer's body hangs; a sync ends unless a call hangs; the ledger catches up with the bank
if, besides, syncs keep being started and from some point on none fails; reminders and expired rows need only their
tick. The hypotheses about bodies, calls and starts are needed: without any
one of them TLC finds the property violated. Nothing
is assumed about users, clocks, edits or which tick succeeds.

### Findings

1. `resolve_match`'s doc says re-resolving a settled row writes no second audit entry
   (`budget.rs` 4080-4084). A merge keeps the link, so a later dismissal finds one to drop and writes a
   second one, while the twin stays excluded (`SettledOnce`).
2. Two syncs of one Plaid account may start from one cursor; the slower applies its older page last,
   and restores a corrected amount or a retracted transaction that the saved cursor has passed
   (`CaughtUp`; `plaid.rs` 379-380 and 474-475 say this must not happen).
3. An account deleted between a completed checkout and its webhook leaves the subscription alive and
   charging (`NoPaidOrphan`; `account.rs` 627-629 says it aborts rather than do that).
4. A GoCardless account disconnected and linked again under the same id keeps the old requisition in
   its row, so the next disconnect ends the wrong consent (`GoCardlessHeld`; `gocardless.rs` 577-578).
5. A drain loop that awaits a reply when its user logs out goes on with the messages of whoever logs in
   next, beside that session's own loop (`DrainKeepsToItsSession`; `App.svelte` 599-605).
6. The projection's headline counts Social Security twice: the solve's income includes it already, and
   `run_projection` adds it again (`HeadlineIsPaid`; `retirement_projection.rs` 731-732, 886-887 and 921).

## 4. Proofs

`DuplicateMatchProofs` proves, for any set of rows, requests and looks and any symmetric `Similar`:
`TypeCorrect`, `LinksWellFormed`, `AtMostOneApproval`, `AtMostOneDeletion`, `AuditTrail` and
`MergesSpareImports`, all from `Invariance`: `Spec => []IInv` with

    IInv == TypeOK /\ LinkShape /\ RequestShape /\ AuditShape

- `LinkShape` alone is not inductive: the UPDATE that writes a link uses what its request read several
  statements before. `RequestShape` says what such a memory is still worth. Ids are never reused and a
  row never changes its source, so a remembered twin is a logged row, alive or not, and the foreign
  key (in `SetLink`) refuses it if it is gone.
- `MergeSparesImports` follows from the part of `RequestShape` about `mergeExclude`: a merge excludes
  what it remembers, and that is never an import.
- `AuditShape` ties the audit counts to the row: an approved row is reviewed (and no statement sets it
  back), a deleted one is gone for good. `ApprovedOnce` and `DeletedOnce` are immediate from it.

There is one preservation lemma per conjunct (`TypeStep`, `LinkStep`, `RequestStep`, `AuditStep`), each
with a case per action. The assumptions are the module's: `Similar` is symmetric, `None` is no id or
look, `AuditCap` is a natural number. TLC checks the same properties in `records`.

With the histories of `MCDuplicateMatch` it goes on to `MatchedSound`, from which `RecordsProofs` concludes
`MatchedRight`:

- `AloneShape`, while requests come one at a time: no two imports share a twin, and of a twin that the request under
  way is about to link nobody has claimed it since it looked (`FreeFor`).
- `Undisturbed`, of inserts that overlap as they please while nobody edits or deletes: each request still
  knows what is so (`Knows`), links join what resembles (`LinksResemble`), and of an unmistakable pair
  not yet linked one half is a request that is still to look (`PairsComing`). Rows are only added and look as they
  did, so who looks last finds the other.

Both hold for any number of requests; no set is assumed finite.

`ConnectionsProofs` proves every property of the run `connections`, one of them (`SolveIsTight`) under a hypothesis, part by part. Each part's
invariant is inductive under the part's own assumption; behaviours that show another part keep it trivially.

*The profile.* `ProfileIsKept`: under `RetirementProfileAssumption`, which says what
inputs and dates are and that `None` and `Fra` are neither ages nor rows, `Spec => [](TypeOK /\ ProfileKept)`
for any inputs, writers and dates, where the run has a hundred inputs and two writers. The invariant is

    IInv == TypeOK /\ (row # None => Sound(row, today)) /\ (\A w : Reads(w)) /\ NothingLost

- `StoredStaysSound` speaks of what is shown and of what an edit would be answered. `Sound` is what makes it
  so: the rules of `validate_profile` without the one that compares a target age with the clock, and that
  an anchor of kind "fra" is the full retirement age of the birth date beside it. It is what a write
  establishes (`MergedIsSound`), what the years cannot undo (`SoundLater`), and what suffices
  (`SoundIsUsable`).
- That the figures can be computed rests on the arithmetic of `SocialSecurity` for every year of birth and
  every legal age: the full retirement age is between 65 and 67 years (`FullRetirementAgeRange`), and the
  factor divided by is never less than seven tenths (`FactorRange`).
- `Reads` is the advisory lock's promise: who has a transaction open holds the lock, and has read the row
  there still is. `NothingLost` is inductive only with it (`StoreKeeps`, `MergeKeeps`).

There is one preservation lemma per action (`LockKeeps` to `YearKeeps`). `ProfileKeptThroughout` is the same of the
composed specification.

*The projection.* `YearsBalance` proves `BooksBalance` for any request, return and bound of the search, where the
run has 72 requests and two returns. Little of it is an invariant (`PlanSafe`: the balances are natural numbers, the bisection
stays in bounds); the work is one lemma about `decumulate`, `YearOfRetirement`, for any accounts: a forced distribution is no more than is there
(`RequiredRange`, by the divisors of the table being at least two) and is split without a remainder
(`SplitWhole`); a gross withdrawal nets what is needed, or takes all there is (`GrossedUp`); so a run ends only in a year that has
emptied every account. `SumsAssumption` says of the request's assets and employer match that their sums are natural
numbers, for the reason given below. `RequestAssumption` keeps to tax rates under which the gross of a whole net amount is
whole, the abstraction the module names.

`SolveFindsTheEdge` is about the search alone: the income it answers lasts, and the next larger one does not, unless it is the
bound of the search (`AtTheEdge`). The invariant is `EdgeBetween`: `lo` lasts and `hi` does not, the interval is a power
of two that each round halves, and no year is simulated once the search has begun. That an income of 0 always lasts,
where the search starts, is what the code's comment says of it (`retirement_projection.rs:752`) and follows from
`YearOfRetirement`. `PowersAssumption` says how 2^n doubles up to the number of rounds, which TLC evaluates and the provers
know nothing of. `SolvedIsTight` adds `LessLastsLonger`, the comment's "the predicate is monotone": under it there is one edge, and
`SolveIsTight` holds. `LessLastsLonger` itself is not proved. It is not inductive as it stands: the two pre-tax accounts are rounded
apart from each other, so a run that spends less can hold a unit less in the two together (own and employer at 1 and 136
beside 0 and 137 become 0 and 129 beside 0 and 130), and an invariant would have to bound that loss over
the years. `SolveIsTight` states the equivalence, so the run checks the monotone predicate at every solve of its instance.

*Bank links.* `HeldHere` and `DisconnectLasts`, for any number of sessions, accounts, budgets, rows and requests, from

    BankSafe == BankTypes /\ Consented /\ (\A w : Knows(req[w])) /\ Undisturbed

- `Consented`: what is served, what was linked and what a row refers to were covered by a consent. `Knows`: so is what a
  completion goes by, however late it writes.
- `Undisturbed`, until a handler is cut or overlaps another: `OwnHeld` is the promise of `HeldAlone` in terms of the rows alone,
  at each step of a disconnection and of a deletion as well as between them; `Steady` says that the request under way still
  stands on what it read (its row, the siblings, the budget); `ExpiredIsOver`, that a row which a completion may take over is past
  its consent; `Freed`, that after the provider's answer nothing is served that the row was needed for.
- That a disconnected row returns only by a completion is a promise about any step (`OnlyLinked`) and needs only
  the types. That siblings are spared (`SiblingsStay`) needs `Steady`: a revocation ends what its own row refers to.

*Investments.* `CountedOnlyWhileLinked` and `OneAssetOneSnapshot`, from `InvestmentSafe`:

- Whatever overlaps, an account that is disconnected is of an Item no longer served (`AccountsSound`), and a request
  holding an account or an asset knows it linked as long as its Item is served (`Remembers`, `Current`); so what it writes late is
  of a linked account, or of a closed asset (`AssetsSound`).
- One by one, an account that is about to be given an asset has none, and a sync's balance is of the snapshot of the
  holdings it has written (`OneByOne`).

`BankLinkAssumption` and `HoldingsAssumption` bound nothing: `None` is none of the values beside it, and the counters are
natural numbers.

`ConnectionsTyped` joins the types of the four parts.

`LedgerProofs` has, for PlaidSync, two invariants, one for what overlapping syncs cannot break and one for syncs that do
not overlap, and for AutoCategory one of requests that run alone.

- `NothingIsSkipped` and `UserChoicesSurvive` rest on `NothingLost`: a cursor that is saved, or that a sync holds,
  is one the ledger has reached (`Reached`), and a sync half way through its pages has each entry it passed
  either in the ledger or still in hand (`Fetched`). `NothingSkipped` alone says nothing of cursors in hand,
  which one failed save later are the saved one. `BankSound` is what the bank's log promises: added, then
  corrected, then removed for good; so the last word on a transaction is well defined (`LatestSpeaks`).
- `CaughtUpIfAlone` rests on `InStep`: while one sync runs the ledger shows every untouched transaction as
  some word of the bank no older than the cursor (`ShowsSince`), and applying an entry moves that word only forward
  (`AppliedShows`). Finding 2 is what remains of it when two syncs overlap.
- `EmptiesAreReclaimed` and `CategoriesSpared` rest on `CategoriesAlone`: of the one request under way, what it
  read is true still (`StandsOn`), and a disposable category that is empty is the one it is about to fill, or to
  remove (`Minds`). Each action carries that on (`GoesOn`), with a lemma of its own. That the cleanup takes nothing away
  also needs that a deleted transaction is in no category (`GoneFromAll`).
- `LedgerTyped` joins the types of both; a behaviour of `ledger` is one of PlaidSync (`LedgerObserves`).

`CatchUpProofs` proves every safety property of the run `catch_up`, of the tab by itself (`MCSpec`) and of the composition
(`CatchUpSpec`, of whose four parts one moves: `TabAmongFour`, `PartsKept`).

For the tab, the refinement `TabImplementsOutbox` (`Promise!Spec`, step by step) and `UserTitleKept`. The invariant `ChatSound` says the queue holds messages typed and not sent, in their order, all of them
fresh; with it a drain pass sends the oldest waiting message (`PassSends`) whichever loop makes it, an append
is a new acceptance (`AppendWaits`), removing a message from the queue is a withdrawal, and every step of a
turn stutters.

`ThreadsReadAsTyped` rests on `AsTyped`, of a tab nothing has upset: one drain loop runs and waits for the one turn there is
(`OneTurn`); what waits was typed after what is in progress, and both after what the threads hold (`InTurnOrder`); and
a thread whose last entry is a question belongs to the turn about to save the answer, one with entries and no title to a turn about
to give it one (`LogSound`). The question saved is therefore the latest of its thread (`QuestionAdded`) and the answer
saved is its own (`AnswerAdded`), for any length of a conversation; no induction over the entries is needed, since a log
is a dialogue entry by entry. That a thread is of one conversation needs `Visited`: the thread that is open, or that a turn is
in, holds only messages sent since the tab last started afresh.

For the ticks, `TicksAreThorough`, over any number of overlapping ticks, rows and days and any batch size:

- Reminders (`RemindersSound`). A tick's batch (`BatchSound`) names each reminder once, with the cadence its row
  still has, and a tick past its `Utc::now()` fires only what was due by then. Unless two ticks have overlapped or an advance
  failed (`ragged`), the next time of a reminder is a cadence past its last firing (`FiringSpaced`), but for the reminder
  the tick has fired and not yet moved.
- Retention (`OwedSound`). What a purge still owes, of what had expired when it began, is gone or expired still; the batch
  it deletes is full, so that another scan follows, or holds all that is left of the debt. The attempt corrected the
  history: nothing makes the window of read rows the shorter one, so that marking a row read can spare it (section 5).
- `CatchUpTyped` joins the types of the four parts. For the bank's log it needs `BankTyped`: what a sync has in hand are
  entries of the log, and only a removal has no content.

`TicksProofs`, over any number of ticks and requests and any horizon:

- `DueIsDoneOnce` from `JobsSound`. For the fund, `InTime`: the marker lies on a boundary of the time frame and
  the balance is that of the enabling plus one for each period the marker has passed; a credit's guard
  (the marker the tick read is still the row's) is what keeps it. For the renewal, `RenewedInOrder`: the marker
  is past every month renewed, in the row and in every update about to be written.
- `NothingSkippedOrForced` from `UpdatesAreKept`: an update about to be written either has a reason to change
  the marker (it names `auto_renew`, or another time frame or type than the row's) or carries one no later
  than the row's, since a tick can only have moved the row's forward in between. It needs no bound on overlapping edits: `crossed` says that one
  wrote the row under another, and until then the promise holds.
- Both rest on the calendar's arithmetic (`PeriodProperties`, `OnePeriodMore`).

`BudgetsProofs` proves every property of the run `budgets`, for any number of workers, users, budgets,
subscriptions and events, from `BudgetsSound`, which is by part:

- `TreeSound` (`TreeKeepsItsShape`, `NoChildIsStolen`). While requests do not overlap, the one under way
  (`OneBusy`) still stands on what it checked (`Checked`); a default that is missing is one somebody is about to
  set (`DefaultComing`), because the code deletes first and repairs afterwards. `NeverStolen` needs none of
  that, only the types: the conditional UPDATE of `link_rollup` takes a child that has no parent. That
  the newest of the budgets left is one of them (`NewestIsOne`) uses the well-foundedness of the naturals.
- `SharingSound` (`WritesWereAllowed`). `Watching` says the histories are up to date: `could` is at least what the
  caller may do now, `lent` at least what the parent gives on which a torn check still relies. `Granted` says
  what a request at each statement of its check and at each gate has already been shown to have
  against them; `Seen` says that while no grant changes, a check that chooses a budget reads one moment, and a budget it
  resolved can still be seen. `MayDoIs` is the lemma that the larger of the direct and the inherited level is the
  reading of the shares that the property has; `LinkRests` that a level read from the link of a check
  is the caller's by those rules, or lent.
- `PayingSound` (`RowsFollowStripe`, `DeletionCancels`, `OneTrialEach`). `RowIsYoungest` says the row is
  what the youngest event answered made of it, `StatusSent` that of each subscription some event, no older
  than any other, says its status of now: together they give the row's meaning whatever the order of delivery.
  `NothingAlive` extends what a deletion leaves back to the moment it has cancelled everything.

`RecordsProofs` proves every property of the run `records`, for any number of users, requests, scopes, ceremonies and
codes:

- `WayIn` from `WayInComing`: a live account without a way in is one some request is about to give one to, or one
  that was cut off. `Whole` says that each code of the batch handed out last is unspent or has enrolled a passkey that
  is there, `Promises` what each stage of a request still owes, `Redeemed` that a code spent is the code of the
  request that spent it. The exception of `WayInAlone` came out of the attempt (section 5).
- `ResetsHold` and `ErasedStaysErased` from `ResetSettled` and `StaysErased`, with `IdsFresh` (an id drawn for a registration is
  no account's) and `FlowsOnce` (a ceremony is consumed by the DELETE of the request that finishes it).
- `AlertsFollow` and `SurfacedWhenWorse` from `AlertsKnown`. An undisturbed check holds the figures of now and has no
  rival past its first read (`CleanKnows`); one about to raise has cleared the other level and remembers an
  improvement (`Cleared`); a scope nobody is raising has the alert of the level it was left at (`Standing`). The property
  compares scopes whose figures have not moved, `Standing` all of them: a message is surfaced against
  what the user was last told, however long ago. `InTurn` adds, for requests one at a time, that each scope is
  right or ahead of the request under way.
- `MatchedRight` and `RecordsTyped` of the composition.

A batch has at least two codes (`RECOVERY_CODE_COUNT`, by default 10, `passkeys.rs` 250-255). That a finite sum of natural numbers is one, and that
of zeros is 0, is assumed by name (`SumsAssumption` of LimitAlerts, and of the projection's buckets and match; evaluated by TLC): it would need induction over the categories.

The proofs use the assumptions the modules name and no others: `None` is none of the values beside
it, bounds are natural numbers, shared budgets have one owner, as in the run (`Owner` in `MCBudgets`). Each invariant was
first checked by TLC on the run's instance.

Only model-checked:

- Liveness (`DueIsDone` and the `catch_up` properties): it would need ENABLED.
- The hypothesis of `SolvedIsTight`, that who spends less does not run out sooner: it would need a bound on what rounding
  takes from an account over the years (see *The projection*).

## 5. Known limits of the code that properties leave out

These were met while modelling; the code promises nothing against them, or accepts them in a comment.

- *Categories.* `UNIQUE (budget_id, name)` is case-sensitive, so two spellings can be created at
  once; the loser of a lost insert race may find no row and fail; a cleanup racing an insert uncategorises
  a new transaction; a chat edit can undo a concurrent move; a bank retraction never cleans up.
- *Rollup.* Opposite links at once make a chain; a retype can slip between a link's check and write; a
  link racing an unlink can leave a mirror; a deletion racing a switch can lose the default;
  `delete_category` accepts a mirror.
- *Sharing.* A chat turn writes with the permission it read at its start, though the share was revoked while
  the model was asked; `SharingHolds` asks that the permission existed at some moment of the request. The
  queries of `check_permission` can be torn: the check reads that a budget is rolled up into a parent, the owner unlinks it and
  then shares the former parent, and the check finds that share: it gives on the child what the caller never had there. The
  property bounds it: at most what was given on the parent between the cut and the end of the check, so at most Edit, never what
  only an owner may do. The same tear can make a turn that names no budget fall back. A closed budget takes goals and contributions: no handler of `goals.rs` asks `ensure_not_closed`,
  whose doc (`budget.rs` 717-720) speaks of every mutation of a budget.
- *Renewal.* `update_budget` writes back the marker it read, so a renewal in between is repeated.
- *Billing.* In one second a `payment_failed` after the authoritative event sticks (`billing.rs` 186); a
  past-due user passes checkout's guard, and a second live subscription is possible, whose predecessor's
  deletion then overwrites the row; while the first webhook is under way a second trial can start; a trial
  whose answer is lost leaves a trial and no budget; a session left open completes after a deletion.
- *Bank links and syncs.* Disconnecting a GoCardless or Belvo account ends the consent of its siblings,
  which stay active until their next sync; two completions can link one account into two budgets; Belvo's
  reuse by last four digits can pick another account's row; a consent granted but never completed
  has no row, and a deletion does not end it; completing another Basiq session revives accounts
  that a sibling kept connected; a row linked between the last query of a deletion and the erasure
  goes unrevoked. Akahu's tokens are never revoked, which the code documents. A sync goes on writing after
  its account was disconnected or its budget closed.
- *Investments.* An account disconnected and linked again keeps its closed asset: classification finds it and
  makes no other, refresh refuses it, so it is not counted.
- *Retention.* The two windows are read from the environment one by one: read rows may be kept longer than unread ones,
  and then marking an expired row read in the middle of a purge keeps it.
- *Identity.* A registration cut between its commits leaves an account without a credential; the sweep and the
  operator's tool are what is left. Recoveries on the admin console that overlap each find it without a passkey
  (`auth.rs` 422) before the other enrolled one, and together can spend a whole batch there: the account is left without
  a passkey or a code for the app.
- *Chat.* A title typed while one is generated is overwritten; the fetch timeout ends at the response's
  headers, so a body that never ends holds the drain loop up.
- *Retirement.* For a user past the target age the simulated ages restart at the target
  (`retirement_projection.rs` 614-616), so distributions and Social Security come at the wrong years. The
  employer tiers of a what-if request are not validated, so unordered ones overstate the match. MCP's profile
  tool asks for no Pro tier, which the REST handler does.
- *Backfill.* `backfill.rs` runs its statements in one transaction and goes on after an error, which
  PostgreSQL refuses; its comment at 6-8 says otherwise.

## 6. Not modelled

- Wire formats, signatures, encryption, embeddings and retrieval, prompts and the parsing of a reply: no
  state between two steps that another actor could disturb.
- Reports, insights and lists: read only.
- Money: amounts are members of small sets; in the projection whole units, rounded down at each quotient,
  where the code has floating point. Rounding of cents is left to its tests.
- Keys of language-model providers, the token log, issue filing: one row or one external call each.
- What a bank sync of the four other providers imports: an insert keyed by the provider's id and the matcher,
  which `DuplicateMatch` has.
- The mapping covers the code that changes state. Much of the source is tests (about three fifths of it),
  prompt text, and the decoding and rendering of requests.

## 7. Plan

Done, in this order: the ledger's matcher and its proofs; categories; Plaid; budgets; the two ticks;
billing; bank links; limit alerts, reminders and retention; identity; the chat's queue and its refinement;
sharing; investments; retirement.

Next modules: **Import** (the four other providers' inserts composed with DuplicateMatch), the dispatch of a
chat turn's actions, provider keys with their attempt counter.

Proofs done: DuplicateMatch, LimitAlerts, Identity, PlaidSync, AutoCategory, the ticks, Chat, Reminders, Retention, the budgets,
the profile and the projection's years, BankLink, Holdings.

What is left for TLC is said in section 4. The modules are written for proofs: no RECURSIVE operator, assumptions on constants named, invariants as
conjunctions of named parts.
