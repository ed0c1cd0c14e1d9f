# The pallet lending system, specified

A pallet factory lends pallets to its customers against a deposit. The program
(`apps/api`, NestJS over PostgreSQL; `apps/web`, React; `packages/shared`, the
rules both use; `deploy/`, the server's scripts) records what went out, what came
back, what was paid, and what the factory owes a customer who returned more than
they had out. This directory specifies its rules in TLA+, checks them with TLC on
small instances and proves the most important ones with TLAPS for every size.

Paths below are relative to the repository. `PROJECT.json` gives, for every
definition, the lines it translates.

## 1. The system

### Components, their state and their operations

| Component | State | Operations | Hard because |
|---|---|---|---|
| Order arithmetic (`packages/shared/src/domain/ledger-math.ts`) | none | every derived figure of an order; the cash part of a return; the credit limit | it throws on a negative figure, and then no handler can touch the order |
| Orders (`modules/orders`) | `orders`, `order_lines`, cached totals | create, edit, cancel | an edit replaces lines, stock, pallets taken of those owed and the automatic payment at once, and is legal only while nothing happened on the order |
| Returns (`modules/returns/returns.service.ts`) | `returns`, `return_lines`, `customer_returns` (visits) | create on an order, create for a customer (several orders at once), correct on the order's form, correct from the list, delete | rows are never changed: a correction reverses and writes anew; refunds, stock and surplus follow |
| Pallet credits (`modules/returns/pallet-credits.service.ts`) | `pallet_credits`, append-only | surplus, order use, order cancel, hand-back and its undo, carry-over | what is left of a surplus is inferred from a ledger that goes out oldest first, through chains of corrections |
| Payments (`modules/ledger`) | `ledger_entries`, append-only | manual payment, reversal; automatic payments and refunds for the others | caps come from rows others reverse |
| Receipts' owed-before (`modules/ledger/owed-before*.ts`) | `owed_before` of a row; or nothing, and the rows replayed | store, replay | times compared across tables, rows of one second, edits in between |
| Stock, items, purchases (`modules/stock`, `items`, `purchases`) | `items.quantity_on_hand`, `stock_movements`, `purchase_batches` | apply a net change, count anew, buy, correct, delete; history with running balances | every handler must send exactly what its rows say; pages and filters of a balance counted backwards |
| Reports and papers (`modules/reports`, `dashboard`, `ledger/ledger.service.ts`, `web/features/receipt`) | none | what stands now; what happened in a period; the receipts of a hand-over, a payment, a return | queries over different rows that must sum to the same; a paper printed long after |
| Reconciliation (`prisma/reconciliation.ts`, run by the operators) | none | compare rows and cached columns | it must find nothing, whatever was done |
| Customers, drivers, items, settings | their rows, each with a version | create, update, archive | archiving is decided on cached order statuses; two people edit one record from screens read at different times |
| Idempotency (`modules/idempotency`) | `idempotency_keys` | look up, work, store, replay, purge | two submissions of one key, expiry between two statements |
| Sessions (`modules/auth/session.service.ts`, `auth.service.ts`) | `session_families`, `refresh_tokens`, access tokens in the hands of clients | log in, refresh (rotation, grace window, reuse), log out, log out everywhere, change the password | a log-out everywhere amid logins and refreshes; two tabs; lost answers |
| Users (`modules/users`, `common/guards/auth.guard.ts`) | `users`: active, role, token version, password | deactivate, activate, demote, promote, reset the password; the operator's `recover-admin` | the guard's answer is old when the transaction starts; the last administrator |
| Login throttle (`modules/auth/login-throttle.service.ts`) | a row per address and one per account | count, lock, forget, purge | windows; a stranger's failures against the owner's own |
| Verification gate (`common/utils/semaphore.ts`) | slots and a queue, in one process | take, queue, hand on, time out | a slot granted as its waiter times out |
| Web sessions (`apps/web/src/lib/auth.ts` and beside) | the cookie jar, two values of localStorage, a Web Lock, each tab's store and timer | load, refresh, sign in, sign out, idle | tabs that share all of it; answers lost or late |
| Forms (`apps/web/src/features/returns`, `orders`, `payments`, `customers`) | what was typed and what was last read | type, place, read again, confirm, save, resend | the record changes under a half-filled form; a lost answer is sent again; a form foretells what the server will refuse |
| Printing (`apps/web/src/features/receipt`) | the job being prepared; a receipt's own page | press, read, draw, print, close | reads shared and late, frames gone, a press replacing a press |
| Lists (`apps/web/src/hooks/use-list-route.ts` and beside) | the address, the box, the rows kept | type, filter, page, Back | typing and the address follow each other at a distance |
| Deployment (`deploy/deploy.sh`) | `.env`, running version, dumps, database | deploy, roll back | any command may fail, the script may be killed |
| Backup (`deploy/backup/restore.sh`) | databases by name, the uploads | restore, and run it again | stops between two renames |
| Audit, uploads, guards, start-up, other screens | records and I/O | | see section 7 |

### How they interact

A request is one controller method, one service method, one database
transaction. A handler of the core locks the customer, then the orders it
changes in id order, then (`StockLedger`) the items, and reads again what it
decides on. Its writes end in `recomputeOrder` for every order it changed, which
rewrites the cached columns; later handlers read those columns of *other*
orders: the credit limit, the one rule of what is owed ("pallets of a type are
owed only while none of it is out"), archiving. There are no callbacks and no
background work in the core; everything hard in it is a long sequence of legal
requests reaching rows that disagree. The reports read the same rows with
queries of their own.

A create passes the idempotency service first, and a form that hears nothing
sends its request again with the key it has, as long as the body is the same:
the two ends of one promise, specified apart (`Idempotency`, `OrderForm`).

Sessions are the opposite of the core: few rows, short handlers, and everything
hard in the interleaving of their statements. `AuthGuard` reads the account
before the handler's transaction starts; a login verifies a password that a
reset is replacing; a refresh holds the family's row while a log-out everywhere,
which holds the account's, waits for it; each writes an audit row whose foreign
key takes a share lock on the account of the caller. At the other end a browser
keeps one cookie for all its tabs and may hear the answers late, or never.

## 2. Modules

```
LedgerMath        arithmetic                                     ledger-math.ts
  LendingState    rows, recomputeOrder, StockLedger              schema, order-state, stock-ledger
    PalletCredits owed pallets; HandBack, UndoHandBack           pallet-credits.service
      Orders      CreateOrder, EditHeader, EditLines, CancelOrder   orders/*
      Returns     CreateReturn, CreateForCustomer, DeleteReturn,
                  ReplaceReturn, ReplaceForCustomer              returns.service, return-rules
    Payments      CreatePayment, ReversePayment                  payments.service
        Lending   the composition, ArchiveCustomer, the properties
          Reports     activity, positions and dashboard figures  reports/*, dashboard.service
            Papers          receipts, timeline, a return reopened    orders.service, receipt.tsx ...
              Reconciliation  the operators' check, CHECKs           reconciliation.ts
                OrderScreens  the two order forms' foresight         edit-order-form.tsx ...
                  MCLending   instances for TLC
          LedgerProofs     types, dates, refunds, cached figures, what is owed; with
                           SumProofs, sums over sets of rows
            PalletProofs   stock, owed beside out, the credit limit
              CreditProofs   the ledger of pallets owed
                ReadingProofs  what every reading of the rows comes to; with Reconciliation
OrderAccount      what the core promises about money (abstract)
Sessions          transactions with row locks, statement by statement
                        session.service, auth.service, users.service, recover-admin
  MCSessions      three questions asked of it
  SessionProofs   Sessions, Semaphore
Browser           tabs, cookie, lock, lost answers               apps/web/src/lib/auth.ts ...
  MCBrowser
  BrowserProofs   Browser, OrderForm
Idempotency       a key's submissions, statement by statement    idempotency.service
Semaphore         the gate of password checks                    semaphore.ts
  MCLive          Idempotency, Semaphore, Browser under fairness
Throttle          wrong passwords                                login-throttle.service
Stock             items, batches, movements, history, reports    items, purchases, stock
OwedBefore        the replay of what was owed                    owed-before-replay.ts
ReturnForm        the customer's return form                     customer-return-form, allocate
OrderForm         the new-order form                             new-order-form, idempotency.ts
Records           a record several people edit                   versioning.ts, edit pages ...
Printing          a receipt in place, and on its own page        print-job, receipt-print-page
OrderPage         payment, give-back, correction, deletions      payment-form, return-form ...
Lists             search, filters and page in the address        use-list-route ...
Deploy            deploy.sh
Restore           restore.sh
  MCParts         these and OrderAccount, each by itself
  PartsProofs     OrderAccount, Restore, Idempotency, Deploy, Printing, OrderPage,
                  Records, Throttle, OwedBefore, Stock, Lists
```

**The core: state and code.** `orders`, `returns`, `refunds`, `payments`,
`handBacks` are the tables, as functions from the ids of a bounded table; an
unused id is in state "none" and the next row takes the smallest. `cache` is the
set of columns `recomputeOrder` writes. `stock` is `quantity_on_hand`.
`pallet_credits` and `stock_movements` are append-only and the core reads only
sums of them, so the model keeps the sums: `owing` by item, `orders[o].used` by
order, `surplus` by return, `credited` for whether a return has any row of an
item at all (its place in line). A row of `ledger_entries` and the one row that
reverses it (`reverses_entry_id` is unique and a trigger makes the pair equal)
are one record with a state; so are a hand-back and its undo.

**Actions and handlers.** One action per service method, including everything
it calls: `EditLines` re-plans what the order takes of the pallets owed, diffs
the lines, checks the limit, moves stock, writes credits, reissues a cash
order's payment, recomputes and checks the one rule, all or nothing. Guards
that read after the writes in the code (the one rule, "extra still out", the
carry-over) read primed state. A correction from the returns list, a deletion
and a recording share `WriteReturns`, a plan of which return is taken back and
which body is written on each order, as the code shares `write`, `reverseRefund`
and `insertReturn`.

**Abstractions.** One customer: no core rule reads across customers except the
stock of an item, which another customer's requests could only lower or raise
as the orders of this one do. Everything a handler does holds the customer's row
lock, so the interleaving of handlers of one customer is the sequence of
actions; two exceptions, payments (which lock only the order) and purchases,
touch rows no other core handler of another order decides on without a lock. Money is integers in
the smallest unit; a figure beyond `MaxSafe` (`assertSafe`, the width of the
columns) is a refusal, a guard of `RecomputeOrders`. The other throws of
`computeOrderTotals`, on figures *below* zero, are **not** guards: that they are
unreachable is a property (`TotalsNeverThrow`). A surplus's first ledger row is
dated by its return, so returns go out in id order. Versions, permissions,
drivers, archived items, the audit rows, the `reopened` stale-screen comparison
and the depth bound of 50 corrections in the chain walks only refuse more or
only display, and are left out of the core.

**Reports, Papers, Reconciliation, OrderScreens** add no state: the sections of
the activity report, the positions report, the dashboard's figures and events,
the papers of a hand-over, a payment and a return, the profile's timeline, the
return reopened for editing, the operators' rules and the order forms' foresight
are operators over the core's rows, each by the query the code runs (by dates and
effective dates, by cached columns). A paper's layout (`Chunks`, `Taken`) is
checked for the shapes two rows to a half sheet and three or four to a page give,
where the program has six and 27: what could be lost is lost at a break. The
return paper's column of extra pallets and the order of transactions of one
moment are left out. `Reconciliation` has the rules R2, R3, R4 (pallets owed), R7,
R9 and R10, the CHECK constraints of the core's tables and the customer's
figures; R1 is `StockMatchesLedgers`, R6 is in `Stock`; R5 and R8 are left out.
`OrderScreens` gives the forms fresh data; entries are any quantities at the
deposits the form starts from, or a typed deposit on the rows it starts from. What
a form lets through is compared with `ENABLED` of the handler. (That the pallets
form does not know its customer was archived, and that EditOrderForm passes no
`owed` to the editor of its lines, edit-order-form.tsx:265, cost a hint and no more.)

**OwedBefore and Stock** keep the ledgers the core sums up row by row, in the
order of their ids, because what they say depends on it: which movement is on a
page, which row has a time before another's. `OwedBefore` stamps rows by the
database's clock and reversals by the API's, which differ by up to `Skew`.

**Sessions.** One action per statement that locks, reads or decides; `txs[t]`
is the transaction a request runs: its place (`pc`), the rows it locked
(`accounts` and `holds`, FOR UPDATE; `shares`, the KEY SHARE of a foreign key),
what it remembers of earlier reads (`todo`, `found`, `tv`, `password`) and its
writes, which nobody sees before `Commit` (READ COMMITTED). `Rollback` is
possible anywhere: the 15 s timeout, a deadlock's victim, a restart. A statement
that waits for a lock is an action whose guard asks for it. Reads and writes
under a lock already held, which no other transaction can tell apart, are one
action (`Rotate`, `RevokeTokens`). `Ask...` is the request as `AuthGuard` lets
it through, before its transaction. `grants` keeps every access token ever
answered, as a client might. Passwords are counted, not spelt: a login knows the
one that was right when it was typed. An update of an account names the `version`
its screen showed; a session remembers the token version it was opened at
(`born`) and what opened it (`by`). `AskToRecover` is the operator's script, which
needs no session. Times are abstracted to what is decided on
them: a rotated token is `fresh` until `GraceOver`, a session lapses by `Lapse`;
both happen between the transactions that hold the row. Refusals of a login also
write throttle rows, which are in `Throttle`.

**Idempotency** works the same way: `sub[s]` is a submission's place between
two statements, `rows` the committed keys, an inserted row nobody else's
transaction sees but must wait for. The work itself is one row drawn from a
`Supply`, under one of the `Locks` (the customer or order its body names), which
is all the service knows of it. `Abort` rolls any of them back anywhere.

**Semaphore** is one process: each synchronous piece (a call of `run`, the
release in its `finally`, a timer) is a step. **Throttle**: an attempt locks its
address's row, then the account's, so an attempt is a step; `failed` is a
history of who failed when, which no definition of the code reads.

**Browser.** What a page does between two awaits is a step; a request is sent,
served and answered in three, and an answer may be lost (at most `MaxLost`) or
arrive after its page went on. The server's rows are those of `Sessions`, taken
as whole transactions. `late` marks a request asked for after a sign-out. The cookie arrives
with the answer: that the browser stores it a moment before the page's script
runs is left out; so are browsers without Web Locks (the code's fallback is to go
without), sign-out everywhere and the server's own idle limit.

**ReturnForm, OrderForm.** The form's fields and the lists it last read beside
the server's rows that others change (`Elsewhere`, `OthersChange`). `ReturnForm`
has the placing of counts (`allocate.ts`), the holds ("look before saving"), the
refusals that mark boxes, and the server's acceptance (`Takes`); its history
`looked` is the split last put before the clerk's eyes. `OrderForm` has the submit flow, the override dialog, the key kept
per payload and the server's answer by key.

**Records.** A record of any kind (customer, driver, item, order header, user card,
settings) has two fields and a version; a screen holds what it read, which version the
form is keyed by and what is typed. A save is sent, judged under the row's lock,
committed or rolled back, and heard or lost; others edit the record, the page reads it
again when its tab is looked at (that the order form also reads again unasked when the
server says its lines are locked, edit-order-form.tsx:165, is left out). **OrderPage**
has the forms opened from an order: each is filled from the tab's copy, confirmed,
sent with its key or the row it reverses, worked by the server on rows others change,
heard, refused or lost. **Printing** has the presses, the reads they share, the frame,
the layout they live in and, apart, a receipt's own page: its reads, what of them is
on the page, the wait of its own paper for logo and then fonts, beside which Print can
be pressed, and the papers of presses. There a paper older than a press made while it
waits does come out, and also after that press's read failed; the press's own paper
follows its read. A refusal takes the paper off the page, and what is printed then is
no paper. **Lists** has typing, the pause, the router (an address taken and not yet
drawn), Back, links, filters, pages past the end, answers kept by address; a list's
count and rows, two statements, are taken together, and OrderPicker's list is left
out.

**Deploy, Restore.** One step per command that changes something; a command
fails into the ERR trap, the script is killed without it. A database or a set of
uploads is a number: what a name stands for is what the scripts change.
Undoing a half-done migration by hand, finished or taken back, is `UndoMigration`.
A version that names no commit of the clone (deploy.sh:108) counts as none, 0.

## 3. Properties

Written from the code and its invariant table (ARCHITECTURE.md 4.9, checked
after the fact by `prisma/reconciliation.ts`); here over every reachable state.

Of the lending core:

* `TypeOK`: rows, running sums and cached figures within their columns.
* `TotalsNeverThrow` (I2, I3): no sequence of requests makes a live order's rows
  add up to a negative amount owed or to more pallets back than out.
* `CacheIsRecomputation` (I4): the stored columns equal the recomputation.
* `RefundStandsWithItsReturn` (I10, I13), `CashPaidAutomatically` (I6).
* `ActivityKeepsToItsOrder` (I7): what stands on an order, or was recorded with it,
  finds it live and dated no later, through every re-dating and correction.
* `StockMatchesLedgers` (I1, I12): on-hand stock is what rows of every kind say.
* `CreditsAddUp`: the ledger of pallets owed sums to the same by item as by
  return, order and hand-back, and never below zero.
* `OwedGoesOutFirst`: a step that lends more of an item leaves none of it owed.
* `CorrectionKeepsPlace`: a step that leaves what is owed and a return's surplus
  alone leaves what remains of that surplus alone; a correction must not push
  what was given back onto a later return. One edit does, and is excepted by name
  (`TakesOldPlace`; section 4).
* `VisitSurplusGoesWithItsReturns`: deleting a return of a visit takes back the
  visit's surplus of what it took back, whichever return carries it.
* `OnlyCancelOwesBesideOut`: the one rule is entered into violation by a
  cancellation and by nothing else.
* `CreditRespected`: with no override, an order that grows leaves the value of
  all pallets out, by rows, within the limit.
* `ArchivedWhenSettled`: archiving happens only when the rows say settled.
* `ReadingsAgree`: over all time, what the activity report says happened sums to
  what the dashboard and the positions report say stands, per item too; the papers
  of money and returns and the timeline come to the same; the reconciliation finds
  nothing and no row breaks a CHECK.
* `HandoverPapersAddUp`: a hand-over paper, whenever printed, adds up and leaves
  nothing out on any sheet.
* `ReopenedSavesUnchanged`: a return read again for editing and saved as it was is
  taken, whatever has moved on since.
* `OrderFormsForetell`: on fresh data the forms let through exactly what the
  server takes and show what it stores.
* `KeepsAccount`: the core implements `OrderAccount`. The abstract account knows
  an order's state, deposit, what was paid and what was credited, and lets each
  move only within what is owed. The mapping (end of `Lending`) takes the deposit
  from the lines, what was paid from the standing payments, and what was credited
  from the standing returns, each for its worth less what it paid out in cash.
  That it never owes less than nothing is what the abstract account is for.

Of `Sessions`:

* `EverySessionIsCurrent`: once a log-out everywhere, a reset, a password change, a
  recovery or a deactivation has committed, every live session was opened after it
  (and of an inactive account only by a change of password: second finding); an
  access token is of its session's version, so a refresh under way cannot carry the
  new one; a revoked session has no token a refresh would take; no session has two
  active ones (the partial unique index is never hit).
* `AdminRemains`: administrators acting on each other at once leave one.
* `NoRingOfWaiters`: requests never wait for each other in a ring. The comment in
  `locks.ts` says so; see the first finding.
* `DeactivatedIsOut`: no session of a deactivated account is live. The runbook says
  so; see the second finding.

Of the parts beside:

* `OncePerLifetime`, `AnswersHold` (`Idempotency`): two works of one key are a
  lifetime apart; an answer is of the same request and was done, and a retry is
  never refused for what its own first submission used up.
* `NoSlotLost` (`Semaphore`): slots taken are callers at work, and nobody waits
  beside a free one, however grants, releases and timeouts meet.
* `OnlyOwnFailuresHoldADevice` (`Throttle`): a device the account knows is held
  back by its own failures only; the account-wide ceiling rises only for failures
  of several addresses in its window.
* `LedgerAddsUp` (`Stock`): stock, batches and the
  reports of both are what the movements say; each page of an item's history,
  filtered or not, shows the balance the ledger had.
* `ReceiptsSayWhatWasOwed` (`OwedBefore`): a balance printed is the one there
  was, or it is left out.
* `NotTakenForThief`, `SignedOutStaysOut` (`Browser`): a session ends as stolen
  only if an answer was lost; nothing but a sign-in signs in again after a
  sign-out, unless a sign-in crossed another call. `RetryKeepsSession` is a comment's claim: third finding.
* `SavesWhatWasSeen` (`ReturnForm`): a count is sent to
  the orders the clerk saw it on, whole; what the form lets through on fresh
  orders the server takes.
* `SecondOnlyByOverride` (`OrderForm`): an unedited draft becomes two orders only
  across a change of the override. `ResendIsSafe` is a comment's claim: fourth
  finding.
* `NothingLostUnseen` (`Records`): no edit overwrites what its form did not show, a
  lost save sent again included; what is typed is not wiped by a page read again.
* `EachPressPrintsOnce` (`Printing`): a press prints at most once, only in the visit
  it was made in and only if none replaced it. On a receipt's own page the paper of a
  press is no older than the press, and none is older than one that came out before,
  the page's own late paper included; that paper alone may be older than a press.
* `WorkedOnceAndShown` (`OrderPage`): what was confirmed once is worked once however
  answers are lost or repeated, never beyond what was owed, and what was saved stays
  shown until it is closed.
* `ListSettlesOnItsAddress` (`Lists`): once nothing is on its way, box, table and
  address agree; Back leads to the entry before.
* `WayBackStays` (`Deploy`): a half-done migration can be undone from a dump
  without loss while its dump is kept; `.env` and `.previous_version` name only
  versions that passed their health check.
* `NothingDestroyed` (`Restore`): no database that was in use, and no uploads,
  are gone, and only a database found usable takes the name.

### Liveness and fairness

* `EverySubmissionEnds`: every submission of a key is answered. Assumed: weak
  fairness of each handler (`IdemFairness`). PostgreSQL grants a free lock and
  ends a wait when its transaction ends, Node goes on with the next statement;
  nobody has to send anything and nothing has to fail. A rollback is possible and
  not assumed.
* `WaiterIsServed`: a caller queued at the gate gets a slot or a refusal.
  Assumed: callers at work release (the slot is released in a `finally`, and a
  password check is bounded work). Nothing is assumed of the timers, so the
  property says that the slots are handed on, not that time runs out.
* `EveryTabFollows`: after a sign-out in one tab no tab stays signed in, unless
  the user signs in again. Assumed: strong fairness of a tab's check of the idle
  limit and of the `storage` event that tells it of the sign-out (both are
  enabled again and again between the page's other steps, and the browser
  delivers one and fires the other every second), and that a user leaves at some
  time: nothing else wakes a tab whose event came while it was loading.

The core itself acts only on requests: nothing in it retries, polls or must
eventually happen, and nothing is claimed. The runs do not check deadlock:
bounded tables fill up, and a business may stop at any time; that nobody waits
for ever where someone waits is `EverySubmissionEnds`, `WaiterIsServed` and
`NoRingOfWaiters`.

## 4. Runs

| Run | Instance | Question | Distinct states |
|---|---|---|---|
| `money` | 1 order, 2 returns, 2 payments, 2 pallets, deposits 0/2, damage refunds | figures, refunds, cash payment, readings of the rows, refinement | 95,377 |
| `credits` | 2 orders, 3 returns, 1 hand-back, surplus | the ledger of pallets owed, a return reopened | 52,544 |
| `use` | 2 items on one order or 1 item on two, 2 returns, 1 hand-back, limit | stock, owed first, who breaks the one rule, credit limit, the order forms | 42,364 |
| `dates` | 2 orders, 2 returns, 1 payment, 2 days, returns recorded with another order | dates, cancellation, hand-over papers, archiving | 130,153 |
| `sessions` | 2 accounts, administrators; 2 requests at once; 2 sessions, 4 tokens, 1 end of all sessions | what ends sessions; the last administrator; the recovery script | 1,378,940 |
| `browser` | 2 tabs of one session, 2 requests under way, 3 tokens, 1 lost answer | the cookie between tabs | 3,246,739 |
| `parts` | see Bounds | each part beside lending | 803,122 |
| `live` | 3 submissions, 5 checks for 2 slots, 2 tabs | what must happen | 164,342 |
| `locks` | 1 account, 1 session, 2 requests | the comment's order of locks: **violated** | - |
| `overtaken` | 2 accounts, 2 requests, 3 sessions | the runbook's deactivation: **violated** | - |
| `retry` | 1 tab | the document's grace window: **violated** | - |
| `resend` | 1 draft sent twice | the document's safe resend: **violated** | - |

**Combined runs.** `parts` and `live` hold several modules that share no state.
A variable chosen at the start says which of them moves; the others rest in one
of their initial states. So each is explored in full by itself, and a property
of a part fails exactly where it would fail alone. In `sessions` the variable is
the question asked: what ends one account's sessions ("endings"), what two
administrators do to each other ("powers"), or what the operator's script does
beside both ("recovery"); sessions lapse in the first. `parts` has no symmetry.

**Bounds.** Two pallets let a return be partial, over-full or split between
accepted and damaged; two returns on one order let one be corrected or be
recorded beside another; three returns let a visit of two be corrected into a
third. Deposit 0 and 2 with damage refund 1 separates a deposit that vanishes,
a refund smaller than a pallet's worth and one that exceeds what is owed. Two
orders are what the credit limit, the one rule, visits and "recorded with" are
about; two days what dates are about. An id used is never free again, so every
run is finite by its tables and not by a constraint; `use` alone has one
(`OneItemOrOneOrder`), which cuts the product of two items with two orders:
either two items on one order or two orders of one item. Each run sets to a
singleton what its properties do not read. Item symmetry is sound: no operator
tells items apart (all extremal choices are over order and return numbers).

Two requests at once are what every hazard of `Sessions` needs, and they are
interchangeable (symmetry); two sessions let one be revoked while the other is
opened; four tokens let a session be renewed twice, once through the grace
window; one end of all sessions (`MaxVersion`) separates before from after. In
`browser` two tabs, two requests under way, three tokens and one lost answer let
each tab refresh while the other signs out; with a grace window of 0 ticks and a
retry of 1 the retry may come too late, with the next sign-in left to the server.
With two sign-ins `SignedOutStaysOut` would fail where one crosses another call: a
refresh of the old session still on its way, answered after the sign-in, puts the old
cookie back, and the sign-out that follows ends that session, not the one signed in
to. The history variable `crossed` tells these behaviours apart; at the instance's
one sign-in nothing crosses, with two and fewer tokens (two million states) it does,
and the theorem has any number.

Three submissions of one key let one replay, one lose and one come after the
expiry; five checks for two slots and two places let the queue be full with a
waiter timing out inside it. The throttle's windows are one and two ticks on a
clock of four, its limits two and three, its wrong passwords four (five by hand),
so locks grow and windows end between failures. Three movements and pages of two make a second page; three ledger rows
with a close call of 3 and a skew of 2 make a replay that is trusted and one that
is not. The return form has one item (each row of it has its own split and hold)
on two orders of two days; others change the orders twice. Two versions, two kept
dumps and three deploys let a dump be rotated out (four by hand); two restores let
one start where another stopped. One screen, one row, two values of a field, one of
them another record's, and one save under way besides what others do let a screen
be overtaken between its read and its save (three versions, and two saves, by
hand). Three presses let one replace another while a third shares its read. Two
requests, one amount retyped and one act of others make a repeat after a lost
answer, and a refusal. Two moves of the user and one row gone put Back or a filter
between typing and its pause (three by hand).

**The findings.** `locks.ts:3-5` says row locks are always taken in one order, so that no two
transactions approach each other from opposite ends. A log-out locks the session
and then, by its audit row, the account; a log-out everywhere locks the account
and then the session. Run `locks` shows the two requests waiting for each other.
The database rolls one back, so no row is wrong (the `sessions` run includes the
rollback); the request fails.

`docs/runbooks/manage-users.md:13` says of deactivating a user "All their sessions
end immediately." A change of password that passed the guard and waits for its
account's lock while an administrator deactivates the account goes on when it gets
it: `changePassword` looks at the password and not at `isActive`
(auth.service.ts:239-242; `updateOwnProfile` does look, 309), ends the sessions and
opens a new one. Run `overtaken` shows it. `EverySessionIsCurrent` says that nothing
else leaves a session of an inactive account; guard and rotation refuse this one
until the account is active again.

ARCHITECTURE.md:2875 counts among the cases of the grace window "a lost response
retried by the client". The client's timer retries 30 s after the failure it saw
(`auth.ts:29, 96`), the window closes 30 s after the rotation
(`session.service.ts:126`), which came first: run `retry` shows the retry ending
the session as stolen.

ARCHITECTURE.md:254 says idempotent creates are safe to resend. Run `resend`
loses the answer to an order made; the customer read again now counts it, the
same draft is over the limit, the administrator confirms, and the confirmation
is part of the body, so the key is new (`idempotency.ts:15`) and a second order
is made. `SecondOnlyByOverride` shows that this is the only way.

Met without a run of their own: the comment on pallets owed
(`pallet-credits.service.ts:153`) says an order cancelled is refused while it would
leave pallets owed beside some out, and `order-changes.service.ts:227` that a
cancellation is never refused for it; the code does the second, and
`OnlyCancelOwesBesideOut` shows that no other step does. `features/receipt/api.ts:13`
says a receipt is read afresh for every print; a press while a read of it is under way
shares that read. An edit from the returns list may move a visit's surplus onto the
correction of a return that carried some of it before; `pallet-credits.service.ts:403`
then sorts it at that older return's place, ahead of a return some of whose surplus
has gone out since, and what went out counts against the edited return from then on,
where Q174 (ARCHITECTURE.md:326) says it "stays where it is". It takes six returns,
which is beyond run `credits`; proving `CorrectionKeepsPlace` showed it, and the
property now excepts that edit. A payment, give-back or correction whose form is left
while its answer is on the way neither tells nor reads the order again. In a list, a
key typed between an address being taken and drawn is lost when the drawing replaces
the box, and a filter changed while an empty page past the end is shown lands on the
old list's last page. The activity report keeps the previous figures, which can be
printed, under the new filters' header while it loads. A tab's last mark of the idle
record may be written after the wait its comment names (idle.ts:67, 75).

Every property has a mutant of the code that breaks it: the alternative
definition stands just before the one it replaces, marked `mutant`.

## 5. Proofs

All constants are arbitrary: any number of orders, returns, payments, items,
users, sessions, requests, submissions, presses, drafts, deploys; any finite set of items, deposits and
days. Assumptions are the named `ASSUME`s of the modules, which say that bounds are
naturals, sets of drafts and versions are numbers above 0, at least one dump is
kept, and the sets of clients and items are finite; TLC evaluates them on every run.

**The lending core.** One lemma per action, over one invariant after another, each
taking those before it as given.

* `LedgerProofs!LendingTyped`: `TypeOK` is inductive by itself, because every
  write of a sum or figure is guarded by the width of its column
  (`RecomputeOrders`, `ApplyStock`, `WriteCredits`).
* `CancelledOrdersHoldNothing`, `NothingBeforeItsOrder`, `RefundsStandWithReturns`
  from one invariant, `LedgerInv`. None of the three is inductive alone: that no
  payment is dated before an order needs standing rows to point at live orders
  (`StandingOnLive`); a new row must not overwrite an old one, so ids beyond the
  largest used one must be unused and distinct (`LargestCount`, an injection of the
  orders written into the new ids); refunds and returns share ids, so they are
  typed together. `ActivityKeepsToOrders` is the first two together.
* `LedgerProofs!FiguresFollowRows`: `CacheIsRecomputation`. The figures of an
  order depend only on its own row, its standing returns, payments and refunds
  (`TotalsFrame`); each handler changes these only on orders it recomputes.
* `LedgerProofs!OwedFirst`: the action property `OwedGoesOutFirst`: only a
  hand-over and an edit raise a quantity, and they lend the rest after taking
  the lesser of what is available and what is asked.
* `LedgerProofs!CashOrdersPaid`: `CashPaidAutomatically`, from `CashInv`: standing
  payments of a live cash order are automatic and of its whole deposit, and
  there are no two. The step that matters is the edit: the old payment is
  reversed in the same update that inserts the new one (`IssuedInFull`).
* `LedgerProofs!TotalsAlwaysStand`: `TotalsNeverThrow`, from `AmountInv`: what an
  order's rows credit and pay is within its deposit, and what came back within what
  went out (`WithinOrder`); a standing return is priced at its order's deposits and
  pays out no more than its worth (`ReturnsPriced`). The argument: a return pays out in cash exactly what it is worth beyond what was
  still owed, so its credit never exceeds what was owed (`PlanFits`); a payment is
  capped by what is owed by the rows; an order nothing happened on is paid in full
  or not at all, so that it may be repriced.
* `LedgerProofs!RowsKeepAccount`: `KeepsAccount`, the refinement of `OrderAccount`.
  Every handler's effect on an order's amounts is one of seven moves (`AmountsMove`:
  open, reprice, cancel, pay, unpay, credit, nothing), and each is a step of the
  abstract account or a stutter. `PartsProofs!AccountSafe` is what the abstract
  account then promises.
* `LedgerProofs!OnlySettledAreArchived`: `ArchivedWhenSettled`; the cached status an
  archive reads is the rows', and a settled status leaves nothing owed and nothing out.
* `PalletProofs!StockFollowsRows`: `StockMatchesLedgers`, item by item, with
  the types: each handler's change of what is lent, accepted and owed, row by row, is
  the one net change it sends to the stock ledger (`AcceptedChange` of a plan of
  returns).
* `PalletProofs!OwedBesideOutByCancelOnly`: `OnlyCancelOwesBesideOut`. What is out
  by the rows of the live orders is what is out by their columns (`OutInv`), which is
  what the one rule reads; an order that lends more sends what is owed out first, and
  a return owes only what the rows have nothing out for.
* `PalletProofs!LimitRespected`: `CreditRespected` where requests never override the
  limit (`TRUE \notin Overrides`; with an override it is not meant to hold). The check
  counts the customer's orders as they will stand after the write, the saved one
  included, though it runs before their rows are written.
* `CreditProofs!CreditsReadTheSame`: `CreditsAddUp`, item by item, with the fact that
  a return not recorded yet has no surplus. What a deletion or a correction takes back
  is what remains of the returns' surplus when the oldest place goes out first, and it
  must not exceed what is owed. That every return has a place, its own or its oldest
  correction's, is an induction over the sets of returns closed below
  (`PlacesExist`); whatever the places are, the surplus gone is what was used and
  handed back, each unit out of one place (`GoneInOrder`), so what remains over all
  returns is what is owed (`RemainingAddsUp`) and what is taken back of some of them
  is within it (`TakenWithinOwed`).
* `CreditProofs!VisitSurplusGoes`: `VisitSurplusGoesWithItsReturns`. The visits behind
  a return are its own and those of what it replaced, found below it, so the same
  induction says they exist (`VisitSetsExist`); of all handlers only a deletion
  takes a return back without writing another row, and it takes the surplus of every
  standing return that has the deleted one's visit behind it.
* `CreditProofs!CorrectionsKeepPlaces`: `CorrectionKeepsPlace`. What remains of a
  return's surplus depends on the surplus placed before it and on how much has gone
  out, and the latter stays when what is owed stays (`SameRemaining`). `ChainInv` says
  that places are apart: two returns that stand never share one, only a corrected
  return is replaced and by one written since, and surplus is of a return with rows of
  its item. So a return a step writes comes last, or takes the place of the one
  standing return it replaced, and the order of the others is as it was (`OrderKept`).
  Recording, editing and deleting are one move of surplus (`MovesSurplus`), a single
  correction another (`CarriedOver`). A move that takes back from a return placed before
  the one asked about finds some left there, so none of the latter has gone, before or
  after (`NothingGoneBehind`); one that does not leaves all placed before it as they
  were, but for the edit that is excepted.
* `ReadingProofs!ReopenedAreTaken`: `ReopenedSavesUnchanged`, from `RecordInv`: every
  row says what was done when it was written. An order, a payment or a return never
  written stands nowhere; a return's figures are those of its own body, a damage
  within what it took; returns of one visit carry its surplus on one of them, of items
  its bodies have. With `OutInv` and `CreditsInv` it follows that each part of a
  reopened body fits what its order has out once the part itself is set aside
  (`PartFits`), and that no more cash is asked back than the parts are worth.
* `ReadingProofs!ReadingsAreOne`: `ReadingsAgree`, from `ReadInv`, the conjunction of
  the invariants above. What a live order has out and owes is what its rows say
  (`LiveFigures`); a closed order adds nothing, so the sums over the open ones are the
  sums over all (`OpenIsAll`); every standing row is of one live order (`ByOrder`), so
  what is summed by order, by item and by row is summed once, in whatever order of
  summation (`SumExchanged`). The rows a return's paper prints share out its lines
  (`RowsShare`), and the timeline sums by kind of entry (`TimelineOwes`).
* These compare sums over sets of rows before and after a step, or two sums of one
  state. `SumProofs` proves what they need of `SumOver` (a term changed, a set split, joined, renamed, an
  order of sums exchanged, a bound) by induction over the finite set: the set of its
  subsets for which the fact holds is shown to be all of them, which needs no
  theorem with an operator parameter.

**Requests and scripts.**

* `SessionProofs!SessionsAreCurrent`: `EverySessionIsCurrent`, for any number of
  accounts, requests and sessions. `SessionInv` says which rows a request at each
  place has locked or has yet to insert; that what it has written and not committed
  is of such rows only; that no two requests write the same row; and that what it
  found under its locks (`found`, `todo`, `tv`) still holds when it commits, because
  the others were kept out. `Commit` then puts true rows in the place of true ones.
* `SessionProofs!AdministratorRemains`: `AdminRemains`, from `PowerInv`: of two
  requests past their listing that would take power from an administrator and name
  the current version of the account, one has the other's account locked or on its
  list (`Meet`). The locks on all active administrators alone would not do: an account
  that gained power after a listing is not on it. But it gained it by an update that
  raised its version, and a request that named the old one is refused. Without the
  version it takes three requests and three accounts to leave no administrator, which
  the proof covers and the run does not.
* `BrowserProofs!LockKeepsSessions`: `NotTakenForThief`, from `BrowserInv`. One
  refresh at a time is under way (the lock), and a session signed in to but not heard
  of is in nobody's cookie yet (`CarryInv`); so while no answer was lost the cookie in
  the jar, the one a refresh was sent with and the one an answer carries are the
  newest of their sessions, or these are over (`LockInv`), and rotating the newest
  never looks like theft. A page that leaves a refresh behind counts as an answer lost.
* `BrowserProofs!LateStaysOut`: `SignedOutStaysOut`, an action property. Unless a
  sign-in crossed, the one session still to be used is the cookie's, and a sign-out on
  its way ends that one (`OutInv`): signed out and the server told, it is over; signed
  out and not told, the lock lets no refresh go. So what is asked for after a sign-out
  is refused, by the page or by the server.
* `PartsProofs!KeyWorksOncePerLifetime`: `OncePerLifetime`, for any number
  of submissions, keys, locks and times. Its invariant `IdemInv` says that the
  row of a key outlives its lifetime (`LiveWorksHaveRows`), that rows are only
  taken away once expired (`OnlyExpiredGo`), and that a submission holding an
  uncommitted row is alone with its key (`StoredAlone`, `StoredApart`). Every
  step but the commit is `Harmless`; the commit meets no live work of its key
  because that work's row would have had to be there.
* `PartsProofs!AnswersAreTheirs`: `AnswersHold`, from `AnswerInv`: of two
  submissions that agree in key, request and lock, one at a time is between its
  lookup under the lock and its end, so a stored answer it missed cannot appear.
* `PartsProofs!OnlyOwnFailuresHold`: `OnlyOwnFailuresHoldADevice`. A row's count, its
  lock and its last failure are of wrong passwords of its own address (`CountsOwn`);
  a purge and a success only take rows away. How long a lock lasts is bounded because
  2 ^ n is a natural number, which the subsets of `1 .. n` show.
* `PartsProofs!ReceiptsAreTrue`: `ReceiptsSayWhatWasOwed`, from `ReplayInv`. What a
  payment found owed is the deposit it was written under less all rows before it
  and the returns that stood then; a return taken back in the payment's second
  could hide on either side, which is what the close-call test rules out
  (`ToldApart`), so whatever is appended or taken back later, and whatever the clocks
  within their allowance, leaves a trusted payment's replay as it was (`ReplayStays`).
* `PartsProofs!StockIsItsLedger`: `LedgerAddsUp`, from `StockInv`. Every handler sends
  the ledger rows of items that exist and changes a batch by what its rows add
  (`Fills`), so one lemma serves them all (`BooksMoved`). That no row leaves less than
  nothing is not kept by the net check alone, which looks at the end: with additions
  first, a row among them leaves no less than there was, and one after them no less
  than the end does (`StaysCovered`). The reports are sums in parts (`SumByParts`).
* `SessionProofs!SlotsAddUp`: `NoSlotLost`. The count of callers at work is
  carried through each piece; a slot handed on leaves it as it is.
* `PartsProofs!RestoresDestroyNothing`: `NothingDestroyed`, strengthened by
  what each step of the script knows of the names and of the copies it made.
* `PartsProofs!AlwaysAWayBack`: `WayBackStays`, from `DeployInv`: while a migration
  is half done, the dump taken before it stands as many places down the list as
  dumps were taken since, and pruning cuts the list below the number kept.

**Screens.** What a lost answer leaves behind is a key or a row; the invariants say
how the screen's memory of it and the server's rows go together.

* `BrowserProofs!SecondOrderNeedsOverride`: `SecondOnlyByOverride`, from
  `OrderFormInv`: the stored key is the last request's, drafts only change by an
  edit, so requests of one draft with the same override all have one key, and one
  key makes one order.
* `PartsProofs!PressesPrintOnce`: `EachPressPrintsOnce`. In place: a job still to
  print is the current one and of the current visit. On the receipt's own page, from
  `PaperInv`: what is drawn when a press's read has succeeded was read at or after the
  press (`NoOlderThanItsPress`); what is shown never grows older, and no paper is newer
  than it (`NoOlderThanPrinted`), so the page's own may come out at any time
  (`PagePrints`).
* `PartsProofs!PageWorksOnce`: `WorkedOnceAndShown`, from `PageInv`: requests asked
  alike have the key the form keeps (`KeysKept`); a return number is new whenever a
  correction makes one and never stands again once taken back (`ReturnsTakenOnce`),
  and so for payments; an order once cancelled cannot be cancelled.
* `PartsProofs!NothingIsLostUnseen`: `NothingLostUnseen`, from `RecordsInv`: whatever
  a form or a request names by a version is what the record held at that version
  (`ScreensNameFields`, `SavesNameFields`), and two requests never have the lock of
  one row at once (`OneHasTheLock`); so the version compared under it is enough.
* `PartsProofs!ListsSettle`: `ListSettlesOnItsAddress`, from `ListInv`. The drawn
  address's answer is in the table, or on its way, or was not to be had
  (`TableFollows`); a term typed is in the address once it has settled, drawn or not,
  and until then the box is what was meant (`BoxFollowed`); an address whose count is
  known is within it, for the table's effect steps back in the same pass (`WithinEnd`).

**Only model-checked.** `HandoverPapersAddUp` (sequences for the papers),
`OrderFormsForetell` (`ENABLED`) and `SavesWhatWasSeen` of `ReturnForm`. Liveness is
out of the prover's reach: `EverySubmissionEnds`, `WaiterIsServed` and
`EveryTabFollows` are checked on their instance only. Two claims of documents that
runs refute are not theorems: `RetryKeepsSession`, `ResendIsSafe`; nor are
`NoRingOfWaiters` and `DeactivatedIsOut`.

## 6. What could follow

1. The invariants of `ReturnForm` and the figures of `Papers` as theorems.
2. The lock chains of every handler of the core (customer, orders, items,
   counter) at statement granularity, with the share locks of foreign keys, as
   `Sessions` has them.
3. The idle record of `idle.ts` with its late write; the single-order return form;
   the activity report's screen; the history page over the audit rows.

## 7. Not modelled, and why

* *Presentation*: components, tables, charts, translations, formatting, the
  generated route tree: they show what the API answers and decide no request. The
  DTO types and schemas of `packages/shared` are shapes; what they let through
  bounds the inputs of the actions.
* *Seed and end-to-end fixtures*, test servers: data, not the program.
* *Reads*: search, mappers from rows to answers, the history page. Lists are
  modelled as the screen keeps them, the item history for its balances.
* *Audit*: an append in every writing transaction; its share lock on the acting
  account is in `Sessions`.
* *Uploads*: files stored under a new name, with no rule shared with the rest.
* *Start-up, probes, logging, rate limits per address, error wording*: single
  steps with nothing to interleave, or wording. Of `recover-admin`, the throttle
  rows it deletes.
* *backup.sh, prune.sh*: they copy to and thin object storage.
* Of modelled components: the return form's limit of 20 orders, the two exits
  that only close it (`reopened`, already reversed), notes, several items at
  once; of `restore.sh`, the wording of its `on_error`.
