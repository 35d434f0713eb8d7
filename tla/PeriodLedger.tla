---------------------------- MODULE PeriodLedger ----------------------------
(***************************************************************************)
(* The general ledger of ERPGrafico and the two monthly locks over it: the *)
(* accounting period and the tax period (F29), with the treasury movements *)
(* whose annulment reverses or deletes their journal entry.                *)
(*                                                                         *)
(* Sources: backend/accounting (JournalEntry.save, JournalEntryService,    *)
(* JournalEntryViewSet), backend/tax (services.py, signals.py) and         *)
(* backend/treasury/services.py (create_movement, annul_movement).         *)
(*                                                                         *)
(* Requests run as PostgreSQL READ COMMITTED transactions of several web   *)
(* workers.  A request is cut where the code reads a row and decides on it *)
(* before it writes: a Read step (the view's get_object), a Check step     *)
(* (the service's guards and the new row it computes, kept in memory) and  *)
(* a Commit step (the writes, visible all at once).  Instance.save()       *)
(* writes every column of the row that was read, so a Commit puts back     *)
(* stale columns.  With one worker the requests are serial.                *)
(***************************************************************************)
EXTENDS Integers, FiniteSets

CONSTANTS
  Workers,    \* web workers serving requests concurrently
  Entries,    \* identifiers of journal entries (never reused after deletion)
  NoEntry,    \* the NULL of a JournalEntry foreign key
  Movements,  \* identifiers of treasury movements
  LastMonth,  \* months are 1 .. LastMonth
  Dues,       \* total_amount_due a declaration may show, in unit payments
  NewItems,   \* what the items that a request sends or computes may amount to
  RawWrites   \* is the generic update of periods and declarations in use?

ASSUME NoEntryAssumption == NoEntry \notin Entries
ASSUME LastMonthAssumption == LastMonth \in Nat \ {0}
ASSUME DuesAssumption == Dues \subseteq Nat
ItemState == {"empty", "balanced", "unbalanced"}
ASSUME NewItemsAssumption == NewItems \subseteq ItemState
ASSUME RawWritesAssumption == RawWrites \in BOOLEAN

Months  == 1 .. LastMonth
NoMonth == 0

VARIABLES
  today,  \* month of timezone.now()
  acc,    \* AccountingPeriod.status per month, "NONE" before get_or_create
  tax,    \* TaxPeriod.status per month
  f29,    \* F29Declaration per month
  entry,  \* JournalEntry rows
  items,  \* what check_balance sees of the items of each entry
  mov,    \* TreasuryMovement rows
  txn     \* the request in flight on each worker

vars == <<today, acc, tax, f29, entry, items, mov, txn>>

-----------------------------------------------------------------------------
(* Data. *)

PeriodStatus == {"NONE", "OPEN", "CLOSED"}
EntryStatus  == {"UNUSED", "DRAFT", "POSTED", "CLOSED", "REVERSAL", "DELETED"}
Sources      == {"MANUAL", "SERVICE", "F29", "REVERSAL"}

\* Statuses that enter balances (JournalEntry.balance_affecting_statuses).
Affecting == {"POSTED", "CLOSED", "REVERSAL"}

Row == [st  : EntryStatus,
        date: Months,
        fk  : Months \cup {NoMonth},      \* accounting_period
        pc  : BOOLEAN,                    \* period_closed
        src : Sources,
        rev : Entries \cup {NoEntry}]     \* reversal_of

Blank(st) == [st |-> st, date |-> 1, fk |-> NoMonth, pc |-> FALSE,
              src |-> "MANUAL", rev |-> NoEntry]

Declaration == [st: {"NONE", "DRAFT", "REGISTERED"}, due: Nat]

\* owner is the month of the F29 declaration the movement pays, if any.
Movement == [st: {"UNUSED", "POSTED", "CANCELLED"},
             je: Entries \cup {NoEntry},
             owner: Months \cup {NoMonth}]

Idle == [op |-> "idle"]

Request ==
       {Idle}
  \cup [op: {"edit", "post", "destroy"}, e: Entries, row: Row]
  \cup [op: {"editing"}, e: Entries, row: Row, it: ItemState \cup {"keep"}]
  \cup [op: {"posting"}, e: Entries, row: Row]
  \cup [op: {"insert"}, row: Row, it: ItemState]
  \cup [op: {"declare", "updateF29"}, m: Months, due: Nat]
  \cup [op: {"register"}, row: Row, m: Months, due: Nat, it: ItemState]
  \cup [op: {"pay"}, row: Row, owner: Months \cup {NoMonth}]
  \cup [op: {"annul"}, v: Movements, how: {"delete", "cancel"}]
  \cup [op: {"annul"}, v: Movements, how: {"reverse"}, row: Row, it: ItemState]
  \cup [op: {"closeAcc", "reopenAcc", "closeTax", "reopenTax"}, m: Months]

TypeOK ==
  /\ today \in Months
  /\ acc \in [Months -> PeriodStatus]
  /\ tax \in [Months -> PeriodStatus]
  /\ f29 \in [Months -> Declaration]
  /\ entry \in [Entries -> Row]
  /\ items \in [Entries -> ItemState]
  /\ mov \in [Movements -> Movement]
  /\ txn \in [Workers -> Request]

-----------------------------------------------------------------------------
(* Helpers. *)

Start(w, t) == txn[w] = Idle /\ txn' = [txn EXCEPT ![w] = t]
Finish(w)   == txn' = [txn EXCEPT ![w] = Idle]

\* Rows still in the table.
Exists(e)   == entry[e].st \notin {"UNUSED", "DELETED"}
Reversed(e) == \E r \in Entries : Exists(r) /\ entry[r].rev = e

\* JournalEntry.save, steps 1 and 2: a row without period gets the one of its
\* date, a row with one keeps it; the write is refused while it is closed.
PeriodOf(row)    == IF row.fk = NoMonth THEN row.date ELSE row.fk
SavedRow(row)    == [row EXCEPT !.fk = PeriodOf(row), !.pc = FALSE]
CanSave(row)     == acc[PeriodOf(row)] # "CLOSED"
WithPeriod(a, m) == [a EXCEPT ![m] = IF @ = "NONE" THEN "OPEN" ELSE @]

NewRow(st, d, src, rev) ==
  [st |-> st, date |-> d, fk |-> d, pc |-> FALSE, src |-> src, rev |-> rev]

\* INSERT of a row with its items under a fresh identifier.
Insert(e, row, it) ==
  /\ entry[e].st = "UNUSED"
  /\ entry' = [entry EXCEPT ![e] = row]
  /\ items' = [items EXCEPT ![e] = it]

\* DELETE: items go by CASCADE, reversal_of of others by SET_NULL.
Delete(e) ==
  /\ entry' = [x \in Entries |->
                 IF x = e THEN Blank("DELETED")
                 ELSE [entry[x] EXCEPT !.rev = IF @ = e THEN NoEntry ELSE @]]
  /\ items' = [items EXCEPT ![e] = "empty"]

\* Posted payments of the declaration of month m, one unit each.
PaidUnits(m) ==
  Cardinality({v \in Movements : mov[v].st = "POSTED" /\ mov[v].owner = m})

-----------------------------------------------------------------------------
(* Journal entries through the API. *)

\* JournalEntryViewSet.create passes the raw request body on: `date` is a
\* string, `self.date.year` fails inside save() and the exception is swallowed,
\* so the draft is stored with no period and no period check.
CreateEntry(e, d, it) ==
  /\ Insert(e, [Blank("DRAFT") EXCEPT !.date = d], it)
  /\ UNCHANGED <<today, acc, tax, f29, mov, txn>>

\* Variant: the DRAFT guard is missing.
ReadDraftAnyStatus(w, e, op) ==
  /\ Exists(e)
  /\ Start(w, [op |-> op, e |-> e, row |-> entry[e]])
  /\ UNCHANGED <<today, acc, tax, f29, entry, items, mov>>

\* get_object and the DRAFT guard of update, post_entry and destroy.
ReadDraft(w, e, op) ==
  /\ entry[e].st = "DRAFT"
  /\ Start(w, [op |-> op, e |-> e, row |-> entry[e]])
  /\ UNCHANGED <<today, acc, tax, f29, entry, items, mov>>

\* update_entry: new date on the row that was read, save() checks the period.
CheckEdit(w, d, it) ==
  LET row == [txn[w].row EXCEPT !.date = d] IN
  /\ txn[w].op = "edit"
  /\ CanSave(row)
  /\ txn' = [txn EXCEPT ![w] = [op |-> "editing", e |-> txn[w].e,
                                row |-> SavedRow(row), it |-> it]]
  /\ UNCHANGED <<today, acc, tax, f29, entry, items, mov>>

\* Variant: items are replaced although none were sent.
CommitEditNoItems(w) ==
  LET t == txn[w] IN
  /\ t.op = "editing"
  /\ entry' = [entry EXCEPT ![t.e] = t.row]
  /\ items' = [items EXCEPT ![t.e] = t.it]
  /\ acc' = WithPeriod(acc, t.row.fk)
  /\ Finish(w)
  /\ UNCHANGED <<today, tax, f29, mov>>

\* save() of a row somebody deleted meanwhile inserts it again.
CommitEdit(w) ==
  LET t == txn[w] IN
  /\ t.op = "editing"
  /\ entry' = [entry EXCEPT ![t.e] = t.row]
  /\ items' = [items EXCEPT ![t.e] = IF t.it = "keep" THEN @ ELSE t.it]
  /\ acc' = WithPeriod(acc, t.row.fk)
  /\ Finish(w)
  /\ UNCHANGED <<today, tax, f29, mov>>

\* Variant: the balance is not checked.
CheckPostUnbalanced(w) ==
  LET row == [txn[w].row EXCEPT !.st = "POSTED"] IN
  /\ txn[w].op = "post"
  /\ items[txn[w].e] # "empty"
  /\ CanSave(row)
  /\ txn' = [txn EXCEPT ![w] = [op |-> "posting", e |-> txn[w].e,
                                row |-> SavedRow(row)]]
  /\ UNCHANGED <<today, acc, tax, f29, entry, items, mov>>

\* post_entry: items.exists(), check_balance() and the period check of save().
CheckPost(w) ==
  LET row == [txn[w].row EXCEPT !.st = "POSTED"] IN
  /\ txn[w].op = "post"
  /\ items[txn[w].e] = "balanced"
  /\ CanSave(row)
  /\ txn' = [txn EXCEPT ![w] = [op |-> "posting", e |-> txn[w].e,
                                row |-> SavedRow(row)]]
  /\ UNCHANGED <<today, acc, tax, f29, entry, items, mov>>

CommitPost(w) ==
  LET t == txn[w] IN
  /\ t.op = "posting"
  /\ entry' = [entry EXCEPT ![t.e] = t.row]
  /\ acc' = WithPeriod(acc, t.row.fk)
  /\ Finish(w)
  /\ UNCHANGED <<today, tax, f29, items, mov>>

CommitDestroy(w) ==
  /\ txn[w].op = "destroy"
  /\ Delete(txn[w].e)
  /\ Finish(w)
  /\ UNCHANGED <<today, acc, tax, f29, mov>>

\* Variant: a reversed entry can be reversed again.
CanReverseAgain(e) ==
  /\ entry[e].st \in {"POSTED", "CLOSED"}
  /\ acc[today] # "CLOSED"
  /\ items[e] = "balanced"

\* reverse_entry: the exists() test takes no lock and no constraint backs it.
CanReverse(e) ==
  /\ entry[e].st \in {"POSTED", "CLOSED"}
  /\ ~ Reversed(e)
  /\ acc[today] # "CLOSED"
  /\ items[e] = "balanced"

ReversalRow(e) == NewRow("REVERSAL", today, "REVERSAL", e)

CheckReverse(w, e) ==
  /\ entry[e].src = "MANUAL"
  /\ CanReverse(e)
  /\ Start(w, [op |-> "insert", row |-> ReversalRow(e), it |-> items[e]])
  /\ UNCHANGED <<today, acc, tax, f29, entry, items, mov>>

\* The foreign key of the reversal is checked at commit.
CommitInsert(w, e) ==
  LET t == txn[w] IN
  /\ t.op = "insert"
  /\ t.row.rev # NoEntry => Exists(t.row.rev)
  /\ Insert(e, t.row, t.it)
  /\ acc' = WithPeriod(acc, t.row.fk)
  /\ Finish(w)
  /\ UNCHANGED <<today, tax, f29, mov>>

-----------------------------------------------------------------------------
(* Treasury movements and their entries. *)

\* create_movement dated d: the entry is created and posted in the transaction.
CheckMovement(w, d) ==
  /\ acc[d] # "CLOSED"
  /\ Start(w, [op |-> "pay", row |-> NewRow("POSTED", d, "SERVICE", NoEntry),
               owner |-> NoMonth])
  /\ UNCHANGED <<today, acc, tax, f29, entry, items, mov>>

\* F29PaymentService.register_payment, dated by its payload: it does not look at
\* what is already paid.
CheckPayment(w, m, d) ==
  /\ f29[m].st = "REGISTERED"
  /\ f29[m].due > 0
  /\ acc[d] # "CLOSED"
  /\ Start(w, [op |-> "pay", row |-> NewRow("POSTED", d, "SERVICE", NoEntry),
               owner |-> m])
  /\ UNCHANGED <<today, acc, tax, f29, entry, items, mov>>

CommitMovement(w, v, e) ==
  LET t == txn[w] IN
  /\ t.op = "pay"
  /\ mov[v].st = "UNUSED"
  /\ Insert(e, t.row, "balanced")
  /\ mov' = [mov EXCEPT ![v] = [st |-> "POSTED", je |-> e, owner |-> t.owner]]
  /\ acc' = WithPeriod(acc, t.row.fk)
  /\ Finish(w)
  /\ UNCHANGED <<today, tax, f29>>

\* Variant: annul_movement takes no lock.
NeverLocked(v) == FALSE

\* lock_document: the row lock of the movement, held by an annulment in flight.
Locked(v) == \E w \in Workers : txn[w].op = "annul" /\ txn[w].v = v

\* validate_period_open: neither month lock may be closed.
PeriodOpen(m) == tax[m] # "CLOSED" /\ acc[m] # "CLOSED"

\* annul_movement (directly, or from F29PaymentService.annul_payment for a
\* movement with an owner): an entry that is POSTED is reversed; one in any
\* other status, CLOSED included, takes the branch that deletes it.
AnnulReverse(w, v) ==
  LET e == mov[v].je IN
  /\ ~ Locked(v)
  /\ mov[v].st = "POSTED"
  /\ e # NoEntry
  /\ entry[e].st = "POSTED"
  /\ PeriodOpen(today)
  /\ CanReverse(e)
  /\ Start(w, [op |-> "annul", v |-> v, how |-> "reverse",
               row |-> ReversalRow(e), it |-> items[e]])
  /\ UNCHANGED <<today, acc, tax, f29, entry, items, mov>>

AnnulUnposted(w, v) ==
  /\ ~ Locked(v)
  /\ mov[v].st = "POSTED"
  /\ mov[v].je # NoEntry
  /\ entry[mov[v].je].st # "POSTED"
  /\ Start(w, [op |-> "annul", v |-> v,
               how |-> IF mov[v].owner = NoMonth THEN "delete" ELSE "cancel"])
  /\ UNCHANGED <<today, acc, tax, f29, entry, items, mov>>

CommitAnnulReverse(w, r) ==
  LET t == txn[w] IN
  /\ t.op = "annul"
  /\ t.how = "reverse"
  /\ Insert(r, t.row, t.it)
  /\ mov' = [mov EXCEPT ![t.v].st = "CANCELLED"]
  /\ acc' = WithPeriod(acc, t.row.fk)
  /\ Finish(w)
  /\ UNCHANGED <<today, tax, f29>>

\* Variant: the movement keeps pointing at the entry.
CommitAnnulKeepsEntry(w) ==
  LET t == txn[w] IN
  /\ t.op = "annul"
  /\ t.how \in {"delete", "cancel"}
  /\ IF t.how = "delete" THEN Delete(mov[t.v].je)
                         ELSE UNCHANGED <<entry, items>>
  /\ mov' = [mov EXCEPT ![t.v].st = "CANCELLED"]
  /\ Finish(w)
  /\ UNCHANGED <<today, acc, tax, f29>>

\* The movement drops its entry and the entry is deleted; the PROTECT foreign
\* key of an F29 payment keeps the row, and the error is swallowed ("cancel").
CommitAnnulUnposted(w) ==
  LET t == txn[w] IN
  /\ t.op = "annul"
  /\ t.how \in {"delete", "cancel"}
  /\ IF t.how = "delete" THEN Delete(mov[t.v].je)
                         ELSE UNCHANGED <<entry, items>>
  /\ mov' = [mov EXCEPT ![t.v].st = "CANCELLED", ![t.v].je = NoEntry]
  /\ Finish(w)
  /\ UNCHANGED <<today, acc, tax, f29>>

-----------------------------------------------------------------------------
(* The F29 declaration and the tax period. *)

\* create_or_update_declaration: the edit policy locks a registered declaration.
CheckDeclare(w, m, due) ==
  /\ f29[m].st # "REGISTERED"
  /\ Start(w, [op |-> "declare", m |-> m, due |-> due])
  /\ UNCHANGED <<today, acc, tax, f29, entry, items, mov>>

\* Variant: update_or_create writes the whole row.
CommitDeclareWholeRow(w) ==
  LET t == txn[w] IN
  /\ t.op = "declare"
  /\ f29' = [f29 EXCEPT ![t.m] = [st |-> "DRAFT", due |-> t.due]]
  /\ tax' = WithPeriod(tax, t.m)
  /\ Finish(w)
  /\ UNCHANGED <<today, acc, entry, items, mov>>

\* update_or_create writes the amounts only; get_or_create of the tax period.
CommitDeclare(w) ==
  LET t == txn[w] IN
  /\ t.op = "declare"
  /\ f29' = [f29 EXCEPT ![t.m] = [st  |-> IF @.st = "NONE" THEN "DRAFT" ELSE @.st,
                                 due |-> t.due]]
  /\ tax' = WithPeriod(tax, t.m)
  /\ Finish(w)
  /\ UNCHANGED <<today, acc, entry, items, mov>>

\* Variant: a registered declaration can be registered again.
CheckRegisterAgain(w, m, it) ==
  /\ f29[m].st # "NONE"
  /\ acc[m] # "CLOSED"
  /\ it = "empty" => f29[m].due = 0
  /\ Start(w, [op |-> "register", m |-> m, due |-> f29[m].due, it |-> it,
               row |-> NewRow("POSTED", m, "F29", NoEntry)])
  /\ UNCHANGED <<today, acc, tax, f29, entry, items, mov>>

\* register_declaration: the clearing entry is dated in the declared month and posted
\* by a plain save(), whatever its items: none for a month with nothing to clear,
\* unbalanced ones when a VAT figure is negative, whose line is left out.
CheckRegister(w, m, it) ==
  /\ f29[m].st = "DRAFT"
  /\ acc[m] # "CLOSED"
  /\ it = "empty" => f29[m].due = 0
  /\ Start(w, [op |-> "register", m |-> m, due |-> f29[m].due, it |-> it,
               row |-> NewRow("POSTED", m, "F29", NoEntry)])
  /\ UNCHANGED <<today, acc, tax, f29, entry, items, mov>>

\* declaration.save() puts back the amounts that were read.
CommitRegister(w, e) ==
  LET t == txn[w] IN
  /\ t.op = "register"
  /\ Insert(e, t.row, t.it)
  /\ f29' = [f29 EXCEPT ![t.m] = [st |-> "REGISTERED", due |-> t.due]]
  /\ acc' = WithPeriod(acc, t.m)
  /\ Finish(w)
  /\ UNCHANGED <<today, tax, mov>>

CheckCloseTax(w, m) ==
  /\ tax[m] = "OPEN"
  /\ f29[m].st = "REGISTERED"
  /\ PaidUnits(m) >= f29[m].due
  /\ Start(w, [op |-> "closeTax", m |-> m])
  /\ UNCHANGED <<today, acc, tax, f29, entry, items, mov>>

\* Variant: the symmetry guard is missing.
CanReopenTaxAlone(m) == tax[m] = "CLOSED"

\* Symmetry guard: not while the accounting period is closed.
CanReopenTax(m) == tax[m] = "CLOSED" /\ acc[m] # "CLOSED"

CheckReopenTax(w, m) ==
  /\ CanReopenTax(m)
  /\ Start(w, [op |-> "reopenTax", m |-> m])
  /\ UNCHANGED <<today, acc, tax, f29, entry, items, mov>>

CommitTax(w) ==
  LET t == txn[w] IN
  /\ t.op \in {"closeTax", "reopenTax"}
  /\ tax' = [tax EXCEPT ![t.m] = IF t.op = "closeTax" THEN "CLOSED" ELSE "OPEN"]
  /\ Finish(w)
  /\ UNCHANGED <<today, acc, f29, entry, items, mov>>

-----------------------------------------------------------------------------
(* The accounting period. *)

OpenPeriod(m) ==
  /\ acc[m] = "NONE"
  /\ acc' = WithPeriod(acc, m)
  /\ UNCHANGED <<today, tax, f29, entry, items, mov, txn>>

\* Variant: drafts are not counted.
CheckCloseAccWithDrafts(w, m) ==
  /\ acc[m] = "OPEN"
  /\ tax[m] = "CLOSED"
  /\ Start(w, [op |-> "closeAcc", m |-> m])
  /\ UNCHANGED <<today, acc, tax, f29, entry, items, mov>>

\* Drafts are counted by foreign key, not by date.
CheckCloseAcc(w, m) ==
  /\ acc[m] = "OPEN"
  /\ \A e \in Entries : ~ (entry[e].st = "DRAFT" /\ entry[e].fk = m)
  /\ tax[m] = "CLOSED"
  /\ Start(w, [op |-> "closeAcc", m |-> m])
  /\ UNCHANGED <<today, acc, tax, f29, entry, items, mov>>

CanReopenAcc(m) == acc[m] = "CLOSED" /\ tax[m] # "CLOSED"

CheckReopenAcc(w, m) ==
  /\ CanReopenAcc(m)
  /\ Start(w, [op |-> "reopenAcc", m |-> m])
  /\ UNCHANGED <<today, acc, tax, f29, entry, items, mov>>

\* Variant: entries are marked by foreign key.
MarkEntriesByKey(m, from, to, closed) ==
  entry' = [e \in Entries |->
              IF Exists(e) /\ entry[e].fk = m
              THEN [entry[e] EXCEPT !.st = IF @ = from THEN to ELSE @,
                                    !.pc = closed]
              ELSE entry[e]]

\* Variant: reversals are marked too, as the other balance-affecting entries.
MarkReversalsToo(m, from, to, closed) ==
  entry' = [e \in Entries |->
              IF Exists(e) /\ entry[e].date = m
              THEN [entry[e] EXCEPT !.st = IF @ \in {from, "REVERSAL"} THEN to ELSE @,
                                    !.pc = closed]
              ELSE entry[e]]

\* Signal mark_journal_entries_as_closed: entries by date, not by foreign key.
MarkEntries(m, from, to, closed) ==
  entry' = [e \in Entries |->
              IF Exists(e) /\ entry[e].date = m
              THEN [entry[e] EXCEPT !.st = IF @ = from THEN to ELSE @,
                                    !.pc = closed]
              ELSE entry[e]]

\* AccountingPeriod.save with its signals, which do nothing when the stored
\* status already was the new one.
SaveAcc(m, st) ==
  /\ acc' = [acc EXCEPT ![m] = st]
  /\ \/ acc[m] = st /\ UNCHANGED entry
     \/ acc[m] # st /\ st = "CLOSED" /\ MarkEntries(m, "POSTED", "CLOSED", TRUE)
     \/ acc[m] # st /\ st = "OPEN" /\ MarkEntries(m, "CLOSED", "POSTED", FALSE)

CommitCloseAcc(w) ==
  /\ txn[w].op = "closeAcc"
  /\ SaveAcc(txn[w].m, "CLOSED")
  /\ Finish(w)
  /\ UNCHANGED <<today, tax, f29, items, mov>>

CommitReopenAcc(w) ==
  /\ txn[w].op = "reopenAcc"
  /\ SaveAcc(txn[w].m, "OPEN")
  /\ Finish(w)
  /\ UNCHANGED <<today, tax, f29, items, mov>>

-----------------------------------------------------------------------------
(* The generic update of the period and declaration viewsets (PUT and PATCH,  *)
(* POST for a period), which no screen of the frontend calls.                 *)

\* `status` is writable in TaxPeriodSerializer; no service guard runs.
RawTax(m, st) ==
  /\ RawWrites
  /\ tax' = [tax EXCEPT ![m] = st]
  /\ UNCHANGED <<today, acc, f29, entry, items, mov, txn>>

\* Likewise in AccountingPeriodSerializer.
RawAcc(m, st) ==
  /\ RawWrites
  /\ SaveAcc(m, st)
  /\ UNCHANGED <<today, tax, f29, items, mov, txn>>

\* EditPolicyMixin checks the row that was read and saves all its columns.
CheckUpdateF29(w, m, due) ==
  /\ RawWrites
  /\ f29[m].st = "DRAFT"
  /\ Start(w, [op |-> "updateF29", m |-> m, due |-> due])
  /\ UNCHANGED <<today, acc, tax, f29, entry, items, mov>>

CommitUpdateF29(w) ==
  LET t == txn[w] IN
  /\ t.op = "updateF29"
  /\ f29' = [f29 EXCEPT ![t.m] = [st |-> "DRAFT", due |-> t.due]]
  /\ Finish(w)
  /\ UNCHANGED <<today, acc, tax, entry, items, mov>>

-----------------------------------------------------------------------------
(* Environment. *)

\* A request in flight fails (guard, database error, crash): it rolls back.
Rollback(w) ==
  /\ txn[w] # Idle
  /\ Finish(w)
  /\ UNCHANGED <<today, acc, tax, f29, entry, items, mov>>

NextMonth ==
  /\ today < LastMonth
  /\ today' = today + 1
  /\ UNCHANGED <<acc, tax, f29, entry, items, mov, txn>>

-----------------------------------------------------------------------------
Init ==
  /\ today = 1
  /\ acc = [m \in Months |-> "NONE"]
  /\ tax = [m \in Months |-> "NONE"]
  /\ f29 = [m \in Months |-> [st |-> "NONE", due |-> 0]]
  /\ entry = [e \in Entries |-> Blank("UNUSED")]
  /\ items = [e \in Entries |-> "empty"]
  /\ mov = [v \in Movements |-> [st |-> "UNUSED", je |-> NoEntry, owner |-> NoMonth]]
  /\ txn = [w \in Workers |-> Idle]

EntryRequest(w) ==
  \/ \E e \in Entries, op \in {"edit", "post", "destroy"} : ReadDraft(w, e, op)
  \/ \E d \in Months, it \in NewItems \cup {"keep"} : CheckEdit(w, d, it)
  \/ CommitEdit(w)
  \/ CheckPost(w)
  \/ CommitPost(w)
  \/ CommitDestroy(w)
  \/ \E e \in Entries : CheckReverse(w, e)
  \/ \E e \in Entries : CommitInsert(w, e)

MovementRequest(w) ==
  \/ \E d \in Months : CheckMovement(w, d)
  \/ \E m, d \in Months : CheckPayment(w, m, d)
  \/ \E v \in Movements, e \in Entries : CommitMovement(w, v, e)
  \/ \E v \in Movements : AnnulReverse(w, v)
  \/ \E v \in Movements : AnnulUnposted(w, v)
  \/ \E e \in Entries : CommitAnnulReverse(w, e)
  \/ CommitAnnulUnposted(w)

PeriodRequest(w) ==
  \/ \E m \in Months, due \in Dues : CheckDeclare(w, m, due)
  \/ CommitDeclare(w)
  \/ \E m \in Months, it \in NewItems : CheckRegister(w, m, it)
  \/ \E e \in Entries : CommitRegister(w, e)
  \/ \E m \in Months : CheckCloseTax(w, m)
  \/ \E m \in Months : CheckReopenTax(w, m)
  \/ CommitTax(w)
  \/ \E m \in Months : CheckCloseAcc(w, m)
  \/ \E m \in Months : CheckReopenAcc(w, m)
  \/ CommitCloseAcc(w)
  \/ CommitReopenAcc(w)
  \/ \E m \in Months, due \in Dues : CheckUpdateF29(w, m, due)
  \/ CommitUpdateF29(w)

Next ==
  \/ \E e \in Entries, d \in Months, it \in NewItems : CreateEntry(e, d, it)
  \/ \E m \in Months : OpenPeriod(m)
  \/ \E m \in Months, st \in {"OPEN", "CLOSED"} : RawTax(m, st)
  \/ \E m \in Months, st \in {"OPEN", "CLOSED"} : RawAcc(m, st)
  \/ NextMonth
  \/ \E w \in Workers : EntryRequest(w)
  \/ \E w \in Workers : MovementRequest(w)
  \/ \E w \in Workers : PeriodRequest(w)
  \/ \E w \in Workers : Rollback(w)

Spec == Init /\ [][Next]_vars

-----------------------------------------------------------------------------
(* Properties under every interleaving of the workers. *)

\* A REVERSAL is final: no request, however stale the row it read, changes its
\* status, month, items or source, or deletes it (state-map: REVERSAL has no
\* outgoing transition).
ReversalFinal ==
  [][\A e \in Entries : entry[e].st = "REVERSAL" =>
       /\ entry'[e].st = "REVERSAL"
       /\ entry'[e].date = entry[e].date
       /\ entry'[e].src = entry[e].src
       /\ items'[e] = items[e]]_vars

\* The row lock of annul_movement makes the unlocked exists() test of
\* reverse_entry sufficient for movements: their entry is reversed once at most.
ServiceReversedOnce ==
  \A r, s \in Entries :
    /\ Exists(r) /\ Exists(s)
    /\ entry[r].rev = entry[s].rev
    /\ entry[r].rev # NoEntry
    /\ entry[entry[r].rev].src = "SERVICE"
    => r = s

\* A cancelled movement that still points at its entry has reversed it: the
\* reversal and the cancellation commit together.
CancelledIsReversed ==
  \A v \in Movements :
    mov[v].st = "CANCELLED" /\ mov[v].je # NoEntry => Reversed(mov[v].je)

\* A closed tax period has a registered declaration, whatever ran in between,
\* unless the generic update is used: register_declaration is one-way, the edit
\* policy locks the document and a late recalculation writes amounts only.
TaxClosedIsDeclared ==
  \A m \in Months : tax[m] = "CLOSED" => f29[m].st = "REGISTERED"

-----------------------------------------------------------------------------
(* Properties of serial executions (one worker): long legal sequences. *)

\* The two month locks nest: the books of a month are never closed while its
\* tax period is open, through any sequence of closings and reopenings.
AccountingNeedsTax ==
  \A m \in Months : acc[m] = "CLOSED" => tax[m] = "CLOSED"

\* What close_period counted stays true: no draft is filed under a closed period.
NoDraftFiledInClosedPeriod ==
  \A e \in Entries :
    entry[e].st = "DRAFT" /\ entry[e].fk # NoMonth => acc[entry[e].fk] # "CLOSED"

\* A CLOSED entry lies in a closed month: the signal that closes and reopens by
\* date and the period check of save() by foreign key agree on it.
ClosedEntryInClosedMonth ==
  \A e \in Entries :
    entry[e].st = "CLOSED" => acc[entry[e].date] = "CLOSED" /\ entry[e].pc

\* Every entry that enters balances through post_entry or a service that checks it is
\* balanced, edits and repostings included; the clearing entry of a declaration is not
\* checked (PostedBalances).
BooksBalance ==
  \A e \in Entries :
    entry[e].st \in Affecting /\ entry[e].src # "F29" => items[e] = "balanced"

\* An entry is reversed at most once, and only while it stands in the books.
OneReversal ==
  \A r, s \in Entries :
    /\ entry[r].rev # NoEntry => entry[entry[r].rev].st \in {"POSTED", "CLOSED"}
    /\ entry[r].rev # NoEntry /\ entry[r].rev = entry[s].rev => r = s

\* A month is declared with one clearing entry.
OneClearingEntry ==
  \A r, s \in Entries :
    /\ entry[r].src = "F29" /\ entry[s].src = "F29"
    /\ Exists(r) /\ Exists(s)
    /\ entry[r].date = entry[s].date
    => r = s

\* While a month stays closed, no entry in its balances that is not a treasury
\* movement's is changed or deleted.
ClosedBooksFrozen ==
  [][\A e \in Entries :
       LET m == entry[e].date IN
       /\ entry[e].st \in Affecting
       /\ entry[e].src # "SERVICE"
       /\ acc[m] = "CLOSED" /\ acc'[m] = "CLOSED"
       => entry'[e] = entry[e] /\ items'[e] = items[e]]_vars

-----------------------------------------------------------------------------
(* Serial executions implement MonthLock. *)

Closed(m) == acc[m] = "CLOSED"

\* How far month m is closed; books closed over an open tax period are no phase.
Phase(m) ==
  CASE ~ Closed(m) /\ tax[m] # "CLOSED" -> "open"
    [] ~ Closed(m) /\ tax[m] = "CLOSED" -> "taxed"
    [] Closed(m) /\ tax[m] = "CLOSED"   -> "closed"
    [] OTHER                            -> "misnested"

\* What is posted under the period of month m, the entries of treasury movements
\* apart: annul_movement deletes those of a closed month.
Books(m) ==
  {p \in Entries \X ItemState :
     LET e == p[1] IN
     /\ entry[e].st \in Affecting
     /\ entry[e].src # "SERVICE"
     /\ entry[e].fk = m
     /\ items[e] = p[2]}

Lock == INSTANCE MonthLock WITH
  Postings <- Entries \X ItemState,
  phase    <- [m \in Months |-> Phase(m)],
  books    <- [m \in Months |-> Books(m)]

\* The two locks close in order, a month with closed books stays closed, and
\* meanwhile nothing is posted under it, changed in it or removed from it, by any
\* sequence of requests: edits of drafts that lie in other months, reversals,
\* annulments, late declarations included.
KeepsMonthLock == Lock!Spec

-----------------------------------------------------------------------------
(* What the documentation says and the code does not do. *)

\* state-map.md: a CLOSED period can go back to OPEN (reopen).  Here: whenever
\* the books of a month are closed, one of the two reopen guards can pass.
ClosedMonthCanReopen ==
  \A m \in Months :
    acc[m] = "CLOSED" => CanReopenAcc(m) \/ CanReopenTax(m)

\* docs/00-context/domain-glossary.md:29: an entry is a "Double-entry accounting record
\* (debit = credit)".
PostedBalances ==
  \A e \in Entries : entry[e].st \in Affecting => items[e] # "unbalanced"

\* state-map.md: movements in a closed accounting period are blocked; the
\* deletion policy keeps every posted entry.
PostedNeverDeleted ==
  [][\A e \in Entries : entry[e].st \in Affecting => entry'[e].st # "DELETED"]_vars

=============================================================================
