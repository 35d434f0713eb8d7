# Verification of ERPGrafico

TLA+ models of the parts of ERPGrafico whose correctness depends on order: who
wrote a row last, which guard ran on which version of it, what a retry finds. The
models are translated from the Python code under `src/backend` and, where the browser
has a protocol of its own, from the TypeScript under `src/frontend`; TLC checks them
on small instances, and the theorems in the `*_proofs` modules hold for every size.

Contents: 1 the system, 2 the modules, 3 the runs, 4 the proofs, 5 where code and
documentation disagree, 6 what is not modelled, 7 the plan.

## 1. The system

A Django monolith (PostgreSQL at READ COMMITTED, no ATOMIC_REQUESTS, Redis for
cache and locks, Celery) with a Next.js frontend.
Every HTTP request is served by one of several workers. A service method usually
runs in one `transaction.atomic`, but the view reads the row (`get_object`) before
it, without a lock, and `instance.save()` writes *every* column of the row that was
read. That is the source of most hazards below: a decision on a stale row, and
stale columns written back.

| Component | State it keeps | Operations | Modelled in |
|---|---|---|---|
| General ledger (`accounting`) | journal entries, their items, `accounting_period`, `period_closed`, `reversal_of` | create, edit, post, destroy, reverse | `PeriodLedger` |
| Accounting period (`tax`) | status per month | get_or_create, close, reopen; a signal marks the month's entries | `PeriodLedger`, `MonthLock` |
| Tax period and F29 (`tax`) | status per month, declaration, payments | declare, register, pay, annul a payment, close, reopen | `PeriodLedger`, `MonthLock` |
| Treasury movements (`treasury`) | status, journal entry, reconciliation | create with entry, annul, edit of the notes | `PeriodLedger`, `BankReconciliation` |
| Idempotent endpoints (`core`) | one record per key and scope | the decorator, the daily purge | `Idempotency`, `OneAnswer` |
| Bank reconciliation (`treasury`) | line status, group, difference, adjustment | match, confirm, unmatch, exclude, restore, edit | `BankReconciliation` |
| Bank statements (`treasury`) | status | close, delete | `BankReconciliation` |
| Stock, sales, dispatch (`inventory`, `sales`) | balances, quantities delivered, order status | confirm, dispatch, cancel, recompute | not modelled |
| Self-saving settings panels (`frontend/hooks/useAutoSaveForm.ts` and the panels) | form values, baseline, status, timer, save and refetch in flight, saves given up on | edit, debounce, save, time-out, retry, flush, unmount, refetch | `AutoSaveForm` |
| Browser session (`frontend/lib/api.ts`, `contexts/AuthContext.tsx`) | tokens in localStorage and in axios, the refresh and its queue, who is signed in | send, 401, refresh, queue, login, logout, restore | `SessionClient` |
| Realtime entity bus (`frontend/features/realtime`, `core/consumers.py`, `core/entity_bus.py`) | socket, retries, listeners by topic, groups of the consumer, query cache | connect, retry, subscribe, unsubscribe, broadcast, refetch | `RealtimeBus` |
| POS checkout and credit approval (`SalesCheckoutWizardView.tsx`, `billing`, `workflow`, `draft_cart_service`) | wizard and its key, checkouts and answers on their way, approval task, draft cart, invoices | open, adjust, request, approve, reject, poll, check out, save, leave; save, delete, clean up and withdraw the draft | `CreditSale` |
| Distributed lock (`core/cache.py`) | a cache key with a TTL | acquire, release | not modelled |
| POS sessions and the lease of draft carts | open session per account, lease of a cart | open, close, acquire, refresh, clean up | not modelled |
| Fiscal year (`accounting`) | status, closing and opening entries | close, reopen, open | not modelled |
| Checks, loans, cards, purchasing, production, payroll, partners | a status each | their own services | listed in `PROJECT.json` |

How they interact: every money movement creates a journal entry in its own
transaction; annulling the movement reverses that entry, or deletes it when it is
not posted. Saving a journal entry asks the accounting period of its month; closing
an accounting period (after the tax period) marks the entries of that month by a
`post_save` signal. Confirming a bank reconciliation drafts an adjustment entry that
the closing of the statement publishes. Endpoints that create documents are wrapped
by the idempotency decorator, and the browser repeats a request with the same key.
A sale on credit needs an approval task, which freezes the draft cart while a
supervisor decides and is spent by the checkout. Every request of the browser goes
through one axios instance, whose interceptor refreshes the session for all of them;
what others change comes over one WebSocket per tab and makes the queries be read
again; settings panels save what is typed and are reset by that same reading.

Hard behaviours: two requests between a read and a write of the same row; guards
evaluated on one version and applied to another; two locks (tax and accounting
period) that must nest; retries of a request that still runs; a worker that dies; a
request of two transactions that stops after the first; a daily purge under the feet
of a retry; in the browser, callbacks that run after the state they were started in
is gone (a refresh after a logout, a poll after a withdrawal, a refetch after an edit,
the close of an abandoned socket). `PROJECT.json` lists each hazard at its line with the properties that
watch it.

What makes each component correct:

- ledger: what is in the balances is balanced, an entry is reversed once, closed
  books do not change, the marks put by the closing signal agree with the period;
- periods: the two locks nest, a closed tax period is declared, a closed month can be
  reopened;
- idempotency: one execution per key, every answer comes from a committed execution
  of the same body, nobody waits for ever;
- panels: no edit is lost without a word; the server has what the panel says it has;
- session: nobody waits for a refresh that is over, the tokens and the screen name
  the same user, every request ends;
- entity bus: the server's groups are the topics that are listened to, an event ends
  in a cache at least as new;
- credit: an approval is spent once, on the cart and for no more than was approved;
  no sale is made that the cashier was not told of; one request at a time is decided;
- reconciliation: marks of lines and movements agree with their group, a confirmed
  reconciliation stands or is undone as a whole, closed statements do not change.

## 2. The modules

| Module | What it is |
|---|---|
| `PeriodLedger` | journal entries, accounting and tax periods, F29, treasury movements |
| `MonthLock` | abstract: the two locks of a month close in order, then its books stay as they are |
| `Idempotency` | the decorator `@idempotent_endpoint`, its record, clock and purge |
| `OneAnswer` | abstract: one execution per key; the others get its answer or are refused |
| `BankReconciliation` | statements, lines, movements, groups, adjustments |
| `AutoSaveForm` | a panel that saves itself: hook, leave warning, save and refetch |
| `SessionClient` | tokens, interceptors, refresh queue, sign-in state |
| `RealtimeBus` | sockets, subscriptions, broadcasts, refetches of one tab |
| `CreditSale` | checkout wizards, approval tasks, the draft, keys, invoices |
| `MC*` | instances of them for TLC: symmetry sets, the lines of each statement |
| `*_proofs` | theorems and proofs |

In every module `txn` (or `caller`) holds the request in flight on each worker. A
transaction that locks the rows it decides on is one step; a request that decides on
rows it merely read is cut there. With `Workers = {w1}` the system is serial: long
sequences of legal calls, no races. Operators whose comment starts with "Variant:"
are the mutations used to test that a property can fail; the specification does not
use them.

### PeriodLedger

| State | Code |
|---|---|
| `acc`, `tax` | `AccountingPeriod.status`, `TaxPeriod.status` of each month ("NONE": no row yet) |
| `f29` | the `F29Declaration` of each month: status and amount due |
| `entry` | `JournalEntry`: status, date (month), `accounting_period`, `period_closed`, source, `reversal_of` |
| `items` | what `check_balance` sees: no items, balanced, unbalanced |
| `mov` | `TreasuryMovement`: status, entry, and the F29 it pays |
| `today`, `txn` | the month of `timezone.now()`; requests in flight |

A request is a Read step (the view's `get_object`), a Check step (the guards, and
the row the service computes in memory) and a Commit step. `CreateEntry` stores a
draft with no period: the API passes the date as a string, `self.date.year` raises
inside `save()` and the exception is swallowed (accounting/models.py:525). It stores
what the form of the screen sends (JournalEntryFormDrawer.tsx:187): a manual draft and
its items, which `create_entry` makes from the body (accounting/services.py:117-131).
The endpoint also takes other columns from the body, `status` and `reversal_of`
included; no screen sends them and the model leaves them out. `NewItems` are what those
items, and the lines of a clearing entry, may amount to: `CheckRegister` posts the entry
of a declaration whatever they are (tax/services.py:545), empty only when nothing is due.
`SavedRow`/`CanSave` are the two steps of `JournalEntry.save`: the period of the
date is resolved once and kept. `MarkEntries` is the signal: by date, not by foreign
key. `Locked` is `lock_document`'s row lock on the movement, which lasts while the
annulment is in flight. The return movement `annul_movement` makes on demand
(treasury/services.py:1070-1110) is left out: it is a movement like those of
`CommitMovement`, in the transaction of the annulment. `RawWrites` switches on the generic PUT/PATCH of periods and
declarations (no screen uses it); deleting those rows, and moving a period to
another month, are left out. A request may roll back at any point.

Abstractions: amounts are units (an F29 owes 0 or more unit payments, each payment
is one); a month has one declaration; `JournalEntry.CANCELLED` and
`TaxPeriod.UNDER_REVIEW` exist but no code sets them; numbers, accounts and texts
are left out. That `annul_movement` refuses reconciled movements is not shown here:
the mark is state of `BankReconciliation`.

### MonthLock

What the two locks promise, as a state machine of its own: a month goes from open to
taxed (tax period closed) to closed (books closed too), back from taxed to open, and
its books are written only before the last step. `Lock` in `PeriodLedger` is the
refinement mapping: `Phase(m)` reads both statuses (books closed over an open tax
period would be "misnested", which no step of `MonthLock` reaches) and `Books(m)` is
what stands in the balances under the *period* of month m, each entry with its items.
The period is the foreign key because that is what `JournalEntry.save` checks; by date
the promise does not hold, since an entry whose date was edited keeps its old period and
may be posted into a closed month (section 5). `ClosedBooksFrozen` is therefore about
the entries already there, by date. The entries of treasury movements are no part of
`Books`: annulling a movement deletes its entry from a closed month (section 5). Closed
has no way back, because each reopening demands that the other lock be open (section 5).
The entries of a fiscal year closing, which bypass the check of `save()`, and the
reopening of a fiscal year, which writes periods directly, are not modelled.

### Idempotency and OneAnswer

`rec[k]` is the record of key `k` with its age ("fresh" under 60 s, "stale", and
"expired" after a day); `caller[c]` is where an attempt is; `applied[k]` are the
executions that committed under the present record. The view's transaction, with
the DONE record, commits in `Respond`; an exception rolls it back (`Raise`) and the
record is marked in another transaction (`MarkError`); a worker may die in between
(`Crash`, bounded by `MaxCrashes`). `SlowViews` lets a view outlive the minute and
`ViewsRaise` lets it raise. `OneAnswer` is what callers are promised; `Promise` in
`Idempotency` is the refinement mapping.

### BankReconciliation

`line`, `mov`, `group`, `adj` and `stmt` are the rows; `ReadConfirm`, `Adjust` and
`CommitConfirm` are the three parts of a confirmation (the read in the view, the
transaction that drafts the adjustment and saves the stale group, the transaction
that confirms). `bulk_exclude`, `bulk_restore`, PATCH, closing and deleting a
statement are a check and a write each. `Abort` ends a request between two
transactions. Lines and movements carry one unit each, so the difference of a group
is the number of its lines minus the number of its movements. The statuses DISPUTED
of a line and CANCELLED of a statement are never set. Left out: terminal batches,
the transfer entries `confirm_match` drafts, and the annulment of a movement that
lies in an open group (`annul_movement` refuses reconciled movements only). The model has more workers as a
parameter, but rows locked in the middle of a transaction are not modelled yet, so
its properties are stated and checked for serial executions.

### AutoSaveForm

The state is that of the hook (`status`, `timer`, `pending`, `save` for
`isSavingRef`), the form and its baseline (`form`, `base`), the query (`data`,
`fetch`) and the row (`server`). `policy` is how a panel takes refetched data: once
(`useInitializeForm`), when it is not dirty (the workflow rows), or always (sales,
billing, company, VAT, DTE, reconciliation intelligence, accounts).
`late` are the PATCHes the client gave up on after its 15 s (`TimeOut`, lib/api.ts:14):
the server may run each of them later (`ApplyLate`), after the retry or after a newer
save, or never. Three history variables name what the code loses (section 5), and the
properties say that it loses nothing else: `behind`, the form changed, by the user or by
a refetch, while a save ran; `overtaken`, the row is that of a late save; `typed`, what
the user typed last, which a refetch may take out of the form. `EditsSettle` is about
`typed`, not about the pending flag, so a flag that a save puts down is no answer to an
edit. `OneWriter` (a scheduled save and one the client waits for exclude each other) is
proved and not run; it says nothing of the order at the server. The fields of a form are
one value; two late saves with the same contents count as one.

### SessionClient

A login is numbered, and an access token is its login and a serial number. `req[r]` is
a request (`_retry`, the token on the wire, the refresh token it uses), `Me` the one of
`fetchUser`. JavaScript runs a callback to its end, so an action is what happens
between two awaits. `crossed` is a history variable: work of one login met another
(a refresh that ends after a logout, a login with requests still in flight).
`OneIdentity` holds up to `crossed`, and without it TLC shows the mixed session. One
tab; the theme, the 403 toast and the POS reason challenge are left out, and so is the
403 branch of `fetchUser` (AuthContext.tsx:80): `/core/auth/me/` only asks for a valid
token (core/views.py:85), whose lack is a 401.

### RealtimeBus

`at`, `groups`, `wire` and `inbox` belong to a socket: its state, the groups its
consumer joined, commands and events on their way. `socketRef`, `retryCount`, `timer`
are the refs of the provider; `strays` counts timers `retryTimeoutRef` no longer names.
`UserChanges` is the effect that depends on the user object: clean-up and a new
`connect()` in one step, which is why `mountedRef` is always true. `write` cuts a
write of the server into save, broadcast and commit: topics in `OnCommit` (comments)
are broadcast after the commit, the lists before it. `MountsQuery` is the fetch of the
first component, `Refetches` the invalidation: TanStack Query cancels a running fetch
only when the query has data (`loaded`), otherwise the event joins the first fetch
(`joined`), whose answer may be older (section 5). The last component that leaves aborts
the fetch, and `Forgets` is gcTime. `owed` is a history variable, the version an event on
its way has promised; `EventsRefresh` excepts the joined event by name. Left out: refusal of a topic for want of
permission, the group of the user himself, the 2 s window in which a tab ignores its
own changes; commands about different topics are not ordered among themselves.

### CreditSale

`wiz` is the React state of each mounted wizard (`ask`: cart and unpaid part; `sees`:
the credit shown when it opened; `task`, `waiting`, `approved`, `required`, `alarm`),
`asked` its `request_credit`, `poll` and `news` the interval and an answer not handled
yet. `key` is `idempotencyKeyRef` and `calls` the checkouts a wizard waits for, each with
the key it was sent under; `late` are those it gave up on and the server has not begun.
`rec[w][k]` is the record and the open transaction of a key. `Begin` claims the key,
locks the task's row (`Held`) and checks the credit; `Commit` makes the sale, removes the
draft and spends the approval; `Refuse` stores the 400.

A sale ends in two steps, as in the code. `Sold`: the answer renews the key
(SalesCheckoutWizardView.tsx:624) and calls `onComplete`, also in a wizard that was left.
`Completes`: `handleCheckoutComplete` gets past its awaits (POSClientView.tsx:385) and
`setCurrentDraftId(null)` unmounts whatever wizard the tab has by then. In between, the
wizard is mounted with a new key and an enabled button, so `Finish` may send a second
checkout. `told` counts the sales a wizard was told of, `ending` the completions under
way.

The draft is a row with its lines, the saved state of the wizard and the freeze. Its
services read and write in two steps, and `slot` is the one between them: `ReadForSave`
and `WriteSave` (every column, has_pending_approval as it was read, into a row made again
when it was deleted; or the state alone when frozen), `CheckDraft` and `WriteChecked`
(`delete_draft`, the two clean-ups). `SendSave` is the autosave of the mounted wizard
(POSClientView.tsx:250, two seconds after a change) and that of `handleSuspendDraft`;
`WithdrawGoods` is `process_withdrawal`, which deletes a frozen draft too. `lost` is a
history variable: the row was deleted once.

`Turn` bounds what gets in the way: changes of mind, presses after the sale, saves, lost
answers, other failures, edits of other sessions.

Abstractions: one customer and one draft, whose lease is held by one wizard at a time
and taken as held; one operation on the draft at a time between its read and its write;
the cart of a mounted wizard does not change; presses that send the same body under the
same key while one is on its way count as one; one outstanding request for approval per
wizard. `ServerAsk` is one step, under the lock of the draft's row: a decision of the
supervisor between its look-up and its cancellation is left out. The order id is always
null, as the wizard sends it, so the bypass of the cart check for an order
(billing/services.py:1034) does not occur. The per-user lock `pos_user_*` is left out.

## 3. The runs

Deadlock is not checked anywhere: identifiers, months and crashes are bounded, so
every instance stops.

| Run | Instance | Shows |
|---|---|---|
| `ledger_serial` | 1 worker, 3 entries, 1 movement, 2 months, nothing due, items balanced or not | `NoDraftFiledInClosedPeriod`, `BooksBalance`, `OneReversal`, `OneClearingEntry` over every sequence of requests, and that the ledger implements `MonthLock` (`KeepsMonthLock`) |
| `ledger_race` | 2 workers, 3 entries, 1 movement, 1 month, dues 0 and 1, items empty, balanced or not | what needs no serialisation: `ServiceReversedOnce`, `CancelledIsReversed`, `TaxClosedIsDeclared`, `ReversalFinal` |
| `ledger_raw` | 1 worker, 2 entries, no movement, 2 months, generic updates on | `ClosedEntryInClosedMonth`, `ClosedBooksFrozen` survive them |
| `idem_any` | 3 callers, 1 key, 2 bodies, 2 crashes, slow and raising views | `AnswersAreCommitted`, `OneBodyPerKey`, and `EveryAttemptEnds` |
| `idem_prompt` | 4 callers, 2 keys, 2 bodies, prompt views | `AtMostOnce`, and that the decorator implements `OneAnswer` (`KeepsPromise`) |
| `bank_serial` | 1 worker, 2 statements of one line, 2 movements, 2 groups, 2 adjustments | `ReconciledIffConfirmed`, `LineFollowsGroup`, `ConfirmedStands` |
| `autosave` | 4 contents of the form, 1 of them invalid, 4 edits, the three policies | `LeavingIsWarned`, `NothingForgotten`, `EditsSettle` |
| `session` | `fetchUser` and 2 requests, 2 logins of 2 access tokens, 1 reload | `QueueServed`, `OneIdentity`, `RequestsSettle` |
| `realtime` | 3 sockets, 1 topic (a comment thread), 2 components, 1 retry, 2 user objects, 1 write | `Resubscribed`, `StillTrying`, `EventsRefresh` |
| `credit` | 2 wizards, 1 of an approver, 2 carts, 2 amounts, limit and fallback 1, the default customer, 2 tasks, 2 keys each, 2 turns | `CreditIsBacked`, `OneSaleUntilTold`, `OneRequestPerDraft`, `WaitEnds` |
| `ledger_v_deleted`, `credit_v_key` | smaller | counterexamples: section 5 |

Further configurations beside the modules reproduce counterexamples of section 5:
`ledger_v_reopen`, `ledger_v_unbalanced`, `idem_v_slow`, `bank_v_locked`,
`bank_v_payment`, `bank_v_published`, `autosave_v_behind`, `autosave_v_late`,
`autosave_v_refetch`, `realtime_v_first`, `credit_v_twice`, `credit_v_frozen`.

Why the bounds are enough to be interesting. Two months are needed for an entry
whose date is moved away from its period; three entries let an entry, its reversal
and a clearing entry coexist. One movement is created, annulled and reversed;
payments of an F29 are exercised in `ledger_race`, where something may be due; two
workers are enough for each race of the code, which is between a read and a write of
one row. Three callers are a first request, its retry and a double submit; four let
a replay follow a mismatch on another key. Two statements, two lines, two movements
and two groups allow a group over two statements, and a line or a movement taken
from one group by another; the second adjustment is what a repeated confirmation
makes. Four contents and four edits let a form leave, return to and overtake what is
being saved, and a save that timed out run after two newer ones. In `session` the requests are those of one page, several of which
meet the same expired token, and two logins are what it takes to mix identities. In
`realtime` more than one socket is needed for an abandoned one beside the live one,
and two components for the last one of a topic to leave before another comes. In
`credit` two wizards race for one approval, the second task is what a changed cart
makes, two keys let a wizard sell again after it was told, and the amounts are one
within the limit and one above it, so that a sale can stand on an approval, on the
permission and on the limit; a sale with nothing unpaid is not exercised. Two turns are
enough for each loss of section 5. Identifiers are never reused, as in the database, so `Entries`, `Groups` and
`Adjustments` bound the number of rows ever created. Symmetry is used over
identifiers only, never in a run that checks liveness.

Fairness. In `Idempotency`: `WF(Attempt(c))` because a request that is being
served is scheduled until it ends, and `WF(Minute(k))` because clocks advance. The
purge, the day, and crashes are not fair: nobody promises them. `EveryAttemptEnds`
needs exactly these: a record orphaned by a crash answers 425 for a minute and is
then taken over. In `AutoSaveForm` the debounce fires and the client waits for no save
longer than 15 s; nothing makes the server run a save, and the user need not do anything. In `SessionClient` each request
makes progress (the refresh has no timeout of its own, so this is the browser's
connection timeout). In `RealtimeBus` handshakes end one way or the other, timers
fire, commands, events and refetches arrive; nothing makes a connection succeed. In
`CreditSale` the interval ticks and its answer is handled; cashiers, supervisors and
the server may do nothing.

## 4. The proofs

tlapm checks every theorem to the last leaf, for any sets of constants that satisfy
the named assumptions (NULL values outside their sets; `LastMonth` positive; finite
lines and movements; booleans).

- `PeriodLedger_proofs`: `TypeCorrect`; for any number of workers `ServiceOnce`,
  `CancelledReversed`, `ReversalsStay`, `TaxDeclared` (no generic updates) and
  `ClosedInClosed`; for serial requests `LocksNest` (no generic updates) and
  `BooksStayBalanced` (every entry in the balances but the clearing entries of
  declarations, which are posted unchecked).
  The invariants of the theorems are about the data *and* the requests in flight:
  what a stale row may still write. `ServiceOnce` needs that an entry of a movement
  is owned by one movement and is unreversed until that movement is cancelled, and
  that an annulment in flight excludes another one on the same movement (the row
  lock). `TaxDeclared` needs that a closing in flight has seen REGISTERED, and that
  nothing takes REGISTERED back.
- `PeriodLedgerSerial_proofs`: what holds when requests do not overlap, for any number
  of entries, movements and months. The hypothesis `Serial` says that there is at most
  one worker; with two (one month, three entries, one movement) TLC refutes each of the
  properties, whence the hypothesis: a guard of theirs reads a row without a lock. Each invariant says
  what the check of the request in flight has seen and that it still holds:
  `ReversedOnce` (`SeenReversible`: the target stands in the books and nothing reverses
  it; it rests on two earlier invariants: what is edited, posted or destroyed is a
  draft, and the entry of a movement is its own);
  `ClosedBooksStay`, a step property of the same invariants; `DeclaredWithOneEntry`
  (`RegisteredOnce`: a clearing entry in the table means that the month is REGISTERED;
  `SeenDeclaration`: a registration has seen a draft). These three hold with the
  generic update switched on as well. `~ RawWrites`, that it is not used, is assumed by
  `DraftsOutsideClosed` (`SeenDrafts`: a draft about to be saved names an open period, a
  closing has counted none under its month) and `ImplementsMonthLock`,
  because a PATCH of the status runs no guard. The refinement needs the nesting of
  the locks and `SeenLocks`: a posting in flight has seen the period of its row open,
  and a reopening of the books never gets past its guard. `ClosedForGood` says the
  consequence of it in the terms of the ledger: a month whose books are closed stays so,
  and they stay as they are.
- `Idempotency_proofs`: `TypeCorrect`, `AnswersCommitted`, `OneBody` without further
  assumption; `ExecutedOnce` and `Implements` (the refinement of `OneAnswer`) under
  `Prompt`: views finish within the minute, do not raise, and no worker dies. The
  invariant says that at most one caller runs per record, and only while it is
  pending and fresh.
- `BankReconciliation_proofs`: `TypeCorrect` for any number of workers; for serial
  requests `MarkMatchesGroup`, `LineMatchesGroup` and `ConfirmedStays`. The two
  invariants are preserved together, and `InFlight` adds that a group, line or
  movement held in memory by a request still has the status the database shows; it
  is what makes the full-row saves of `create_difference_adjustment` and of PATCH
  harmless when requests are serial.

- `AutoSaveForm_proofs`: `TypeCorrect`, `OneWriterAlways`, `PendingIsTrue`,
  `LeavingWarned`, for any contents and number of edits. The invariant relates the
  pending flag, the timer, the status and the value in flight to form and row, up to the
  late saves.
- `SessionClient_proofs`: `TypeCorrect`, `QueueAlwaysServed` (a request waits exactly
  while one other refreshes) and `IdentityKept`, for any number of requests and logins.
- `RealtimeBus_proofs`: `TypeCorrect`, `AlwaysTrying` and `GroupsFollow`, for any
  number of sockets, topics, components, retries and writes. `Resubscribed` only
  speaks of a topic whose commands have all been run; the invariant behind it says that
  the *last* command on its way, or else the group, agrees with the listeners, and that
  a socket that is not open has neither groups nor commands.
- `CreditSale_proofs`: `TypeCorrect`, `CreditStaysBacked`, `NoHiddenSales`
  (`OneSaleUntilTold`) and `OneRequestAtATime` (`OneRequestPerDraft`), for any number of
  wizards, keys, tasks, carts and amounts. `CreditStaysBacked` says what covers a checkout
  from the moment it begins: its approval is COMPLETED, for that cart and amount, is
  consumed exactly when the checkout is sold (the row lock in between), and carries no
  other. `NoHiddenSales` rests on the key: it is one more than the sales the wizard was
  told of, no checkout on its way has a later one, and a key has at most one sale, so the
  sales of a wizard map one to one into `1 .. told + 1`. In
  `OneRequestAtATime` a row that was never deleted is there, so whoever asks finds the
  undecided request of the draft.

Only model-checked: the liveness properties (`EveryAttemptEnds`, `EditsSettle`,
`RequestsSettle`, `EventsRefresh`, `WaitEnds`), which are out of the prover's reach.
Every invariant and every step property of the passing runs has its theorem, and so do
the two refinements. The statements of section 5 that the code violates are checked only
for their counterexamples. `LocksNest` states an invariant no run lists: `KeepsMonthLock`,
which a misnested month violates, contains it.

## 5. Where code and documentation disagree

Each of the first fourteen has a configuration whose counterexample shows it;
`ledger_v_deleted` and `credit_v_key` are among the runs.

- `credit_v_key`: a refused checkout keeps its key, so the same body gets the stored
  refusal again and another one a conflict (SalesCheckoutWizardView.tsx:624), although
  idempotency.md:101 says "Tras una respuesta se genera otra clave".
- `credit_v_twice`: between the answer of a sale, which renews the key, and the unmount
  the same cart can be sold again by the same wizard (SalesCheckoutWizardView.tsx:624,
  POSClientView.tsx:385 and :694), although idempotency.md:94 has one key per intention.
- `credit_v_frozen`: a frozen draft is deleted by `process_withdrawal`
  (draft_cart_service.py:609), and a save or deletion that had read it before undoes the
  freeze (:340/:414, :449-454), although :445 says that deletion is refused.
- `autosave_v_late`: a save the client gave up on may still run beside or after a newer
  one, although autosave-contract.md says that none is scheduled while one is in flight.
- `autosave_v_refetch`: panels that reset their form in an effect take typed text out of
  it without a warning (SalesSettingsView.tsx:114), against
  component-form-patterns.md:212.
- `realtime_v_first`: an event during the first fetch joins it and may be lost
  (useEntitySubscription.ts:46), against rule 5 of realtime-channels.md.
- `ledger_v_unbalanced`: the clearing entry of a declaration with a negative VAT figure is
  posted unbalanced (tax/services.py:545, :361, :372), against domain-glossary.md:29.
- `autosave_v_behind`: an edit made while a save runs is not scheduled
  (useAutoSaveForm.ts:126), although autosave-contract.md says "ediciones durante
  `saving` agendan un nuevo ciclo al concluir"; the flush on unmount misses it, too.
- `ledger_v_reopen`: tax/services.py:1043 refuses to reopen the books while the tax
  period is closed, tax/services.py:705 refuses the converse; a closed month can
  never be reopened, although state-map.md:475 gives CLOSED -> OPEN.
- `ledger_v_deleted`: annulling a movement whose entry was marked CLOSED by the
  closing of its month deletes that entry (treasury/services.py:1053).
- `idem_v_slow`: a view that runs longer than 60 s is executed again by a retry
  (core/idempotency.py:83).
- `bank_v_locked`: a group over two statements, undone through the open one, reopens
  lines of the closed one (treasury/matching_service.py:686).
- `bank_v_payment`: a second match takes the movement of an open group; the first
  group is then confirmed without movement (treasury/matching_service.py:491).
- `bank_v_published`: confirming twice with a difference makes two adjustments; the
  first is orphaned and survives, published or not (treasury/matching_service.py:52).

Stated as properties that TLC refutes, without a configuration: `TransientKeepsSession`
(a network failure of the refresh signs the user out, lib/api.ts:102, against the
comment at contexts/AuthContext.tsx:77) and `OneConnection` (the close of an abandoned
socket opens a second connection, RealtimeProvider.tsx:125, against rule 3 of
realtime-channels.md).

Met while modelling, visible in the actions but without a run of their own:

- a draft created through the API enters a closed month (accounting/models.py:525),
  against domain-glossary.md:27 "Closed periods reject new entries", and a month is
  closed over such drafts (tax/services.py:980), against the docstring at
  tax/services.py:964;
- an entry whose date was edited keeps its old period and may be posted into a
  closed month (accounting/models.py:516);
- annulling an F29 payment after its month was closed cancels the payment and leaves
  its entry unreversed (treasury/services.py:1059);
- closing the tax period does not close the books, as the docstring at
  tax/models.py:93 says;
- a PATCH writes the status of a period past every guard (tax/serializers.py:30);
- two concurrent requests can reverse a manual entry twice (accounting/services.py:71),
  close the books while the tax period is being reopened (tax/services.py:991), or
  post an entry whose items another request replaces (accounting/services.py:50).
  `OneReversal`, `KeepsMonthLock` and `BooksBalance` are therefore stated for
  serial requests: with two workers TLC refutes them;
- two retries of a record in ERROR both run the view (core/idempotency.py:90), and a
  rejection by exception is not stored, against idempotency.md:101. `AtMostOnce`
  therefore assumes views that do not raise.

- a completed approval leaves the draft frozen (workflow/services.py:146), against the
  help text at sales/models.py:957; the nightly clean-up then deletes a day-old draft
  whose approved sale was never made;
- a request for more credit on the same cart is answered with the pending task of the
  smaller amount (billing/services.py:342), and its checkout is refused as an attempt
  to raise the credit;
- the poll of an old task marks the wizard approved for a new one, and withdrawing a
  request leaves its task pending and its draft frozen;
- two sales on credit of one customer each fit the limit and together exceed it: the
  available credit is read without a lock (billing/services.py:1096);
- the events of lists are sent before the commit (core/entity_bus.py:118), so the
  refetch may read the old row and stay with it.

## 6. What is not modelled, and why

`PROJECT.json` names every component with its reason. In short: amounts, taxes and
account selection are data the properties here do not tell apart; reports and
analytics only read; most of the frontend (screens, tables, forms, registries) shows
what the server says and validates input. Row-lock level interleavings of matching
(lock order, statements closed without a lock), duplicate declarations, the
distributed lock, stock, POS sessions, the fiscal year and checks have a state of
their own and are left for later modules. What they are exposed to:

- two first declarations of a month create two rows (tax/services.py:285), and the
  number of an entry is computed from the last one without a lock
  (accounting/models.py:566);
- confirm and unmatch lock their own line and then the others of the group
  (treasury/matching_service.py:562), and a statement is closed without a lock
  (treasury/services.py:1658);
- the distributed lock is released without checking its owner (core/cache.py:193), and
  before the transaction it protects commits (sales/services.py:1341);
- quantities delivered and stock are computed from rows read without a lock
  (sales/services.py:716, inventory/services.py:89), and more than the pending quantity
  can be dispatched (sales/services.py:483);
- the open-session test precedes the lock (treasury/pos_service.py:54), the lease of a
  draft has no row lock (sales/draft_cart_service.py:110), the transition of a check is
  asserted on a stale row (treasury/check_service.py:619);
- reopening a fiscal year bypasses the signal of the periods
  (accounting/fiscal_year_service.py:324).

## 7. The plan

1. `PeriodLedger`, `Idempotency`, `BankReconciliation`, `AutoSaveForm`, `SessionClient`,
   `RealtimeBus` and `CreditSale`, with their proofs: done.
2. Proofs: every safety property of the runs and both refinements are done. Worth
   stating next: what a checkout of `CreditSale` promises, as an abstract specification
   it implements, and the reconciliation likewise.
3. Later modules: the distributed lock and the confirmation of sales over it, dispatch
   and stock, the row locks of matching, the fiscal year over `PeriodLedger`, POS
   sessions and the lease of a draft under `CreditSale`.
