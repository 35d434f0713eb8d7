------------------------- MODULE PeriodLedger_proofs -------------------------
(* Proofs about PeriodLedger, for every set of workers, entries and movements *)
(* and any number of months.                                                  *)
EXTENDS PeriodLedger, TLAPS

-----------------------------------------------------------------------------
(* Type correctness. *)

\* What a request in flight carries, by kind.
LEMMA RequestKinds ==
  ASSUME TypeOK, NEW w \in Workers
  PROVE  /\ txn[w].op \in {"edit", "post", "destroy"} =>
              txn[w].e \in Entries /\ txn[w].row \in Row
         /\ txn[w].op = "editing" =>
              /\ txn[w].e \in Entries /\ txn[w].row \in Row
              /\ txn[w].it \in ItemState \cup {"keep"}
         /\ txn[w].op = "posting" => txn[w].e \in Entries /\ txn[w].row \in Row
         /\ txn[w].op = "insert" => txn[w].row \in Row /\ txn[w].it \in ItemState
         /\ txn[w].op \in {"declare", "updateF29"} =>
              txn[w].m \in Months /\ txn[w].due \in Nat
         /\ txn[w].op = "register" =>
              /\ txn[w].row \in Row /\ txn[w].it \in ItemState
              /\ txn[w].m \in Months /\ txn[w].due \in Nat
         /\ txn[w].op = "pay" =>
              txn[w].row \in Row /\ txn[w].owner \in Months \cup {NoMonth}
         /\ txn[w].op = "annul" =>
              /\ txn[w].v \in Movements
              /\ txn[w].how \in {"delete", "cancel", "reverse"}
              /\ txn[w].how = "reverse" => txn[w].row \in Row /\ txn[w].it \in ItemState
         /\ txn[w].op \in {"closeAcc", "reopenAcc", "closeTax", "reopenTax"} =>
              txn[w].m \in Months
<1>1. txn[w] \in Request
  BY DEF TypeOK
<1> QED BY <1>1 DEF Request, Idle

LEMMA BlankIsRow == ASSUME NEW st \in EntryStatus PROVE Blank(st) \in Row
BY LastMonthAssumption DEF Blank, Row, Months, NoMonth, Sources

LEMMA NewRowIsRow ==
  ASSUME NEW st \in EntryStatus, NEW d \in Months, NEW src \in Sources,
         NEW rev \in Entries \cup {NoEntry}
  PROVE  NewRow(st, d, src, rev) \in Row
BY DEF NewRow, Row

LEMMA SavedIsRow ==
  ASSUME NEW row \in Row
  PROVE  SavedRow(row) \in Row /\ PeriodOf(row) \in Months
BY DEF SavedRow, PeriodOf, Row

LEMMA WithPeriodType ==
  ASSUME NEW a \in [Months -> PeriodStatus], NEW m
  PROVE  WithPeriod(a, m) \in [Months -> PeriodStatus]
BY DEF WithPeriod, PeriodStatus

LEMMA InsertType ==
  ASSUME TypeOK, NEW e \in Entries, NEW row \in Row, NEW it \in ItemState,
         Insert(e, row, it)
  PROVE  entry' \in [Entries -> Row] /\ items' \in [Entries -> ItemState]
BY DEF TypeOK, Insert

LEMMA DeleteType ==
  ASSUME TypeOK, NEW e, Delete(e)
  PROVE  entry' \in [Entries -> Row] /\ items' \in [Entries -> ItemState]
<1>1. \A x \in Entries : [entry[x] EXCEPT !.rev = IF @ = e THEN NoEntry ELSE @] \in Row
  BY DEF TypeOK, Row
<1>2. Blank("DELETED") \in Row
  BY BlankIsRow DEF EntryStatus
<1> QED BY <1>1, <1>2 DEF TypeOK, Delete, ItemState

LEMMA MarkType ==
  ASSUME TypeOK, NEW m, NEW from, NEW to \in EntryStatus, NEW closed \in BOOLEAN,
         MarkEntries(m, from, to, closed)
  PROVE  entry' \in [Entries -> Row]
<1>1. \A e \in Entries :
        [entry[e] EXCEPT !.st = IF @ = from THEN to ELSE @, !.pc = closed] \in Row
  BY DEF TypeOK, Row
<1> QED BY <1>1 DEF TypeOK, MarkEntries

LEMMA SaveAccType ==
  ASSUME TypeOK, NEW m, NEW st \in {"OPEN", "CLOSED"}, SaveAcc(m, st)
  PROVE  entry' \in [Entries -> Row] /\ acc' \in [Months -> PeriodStatus]
<1>1. entry' \in [Entries -> Row]
  BY MarkType DEF SaveAcc, EntryStatus, TypeOK
<1> QED BY <1>1 DEF SaveAcc, TypeOK, PeriodStatus

\* A request that starts or ends keeps the type of txn.
LEMMA StartType ==
  ASSUME TypeOK, NEW w \in Workers, NEW t \in Request, Start(w, t)
  PROVE  txn' \in [Workers -> Request]
BY DEF TypeOK, Start

LEMMA FinishType ==
  ASSUME TypeOK, NEW w \in Workers, Finish(w)
  PROVE  txn' \in [Workers -> Request]
BY DEF TypeOK, Finish, Request

LEMMA InitType == Init => TypeOK
<1>1. Blank("UNUSED") \in Row
  BY BlankIsRow DEF EntryStatus
<1>2. Idle \in Request
  BY DEF Request
<1> QED
  BY <1>1, <1>2, LastMonthAssumption
  DEF Init, TypeOK, Months, PeriodStatus, ItemState, Declaration, Movement

LEMMA EntryRequestType ==
  ASSUME TypeOK, NEW w \in Workers, EntryRequest(w) PROVE TypeOK'
<1> USE DEF TypeOK
<1>1. ASSUME NEW e \in Entries, NEW op \in {"edit", "post", "destroy"},
             ReadDraft(w, e, op)
      PROVE  TypeOK'
  <2>1. [op |-> op, e |-> e, row |-> entry[e]] \in Request
    BY DEF Request
  <2> QED BY <1>1, <2>1, StartType DEF ReadDraft
<1>2. ASSUME NEW d \in Months, NEW it \in NewItems \cup {"keep"},
             CheckEdit(w, d, it)
      PROVE  TypeOK'
  <2> DEFINE row == [txn[w].row EXCEPT !.date = d]
  <2>1. txn[w].e \in Entries /\ row \in Row
    BY <1>2, RequestKinds DEF CheckEdit, Row
  <2>2. SavedRow(row) \in Row
    BY <2>1, SavedIsRow
  <2>3. [op |-> "editing", e |-> txn[w].e, row |-> SavedRow(row), it |-> it] \in Request
    BY <2>1, <2>2, NewItemsAssumption DEF Request
  <2> QED BY <1>2, <2>3 DEF CheckEdit
<1>3. ASSUME CommitEdit(w) PROVE TypeOK'
  <2>1. /\ txn[w].e \in Entries /\ txn[w].row \in Row
        /\ txn[w].it \in ItemState \cup {"keep"}
    BY <1>3, RequestKinds DEF CommitEdit
  <2> QED BY <1>3, <2>1, FinishType, WithPeriodType DEF CommitEdit
<1>4. ASSUME CheckPost(w) PROVE TypeOK'
  <2> DEFINE row == [txn[w].row EXCEPT !.st = "POSTED"]
  <2>1. txn[w].e \in Entries /\ row \in Row
    BY <1>4, RequestKinds DEF CheckPost, Row, EntryStatus
  <2>2. SavedRow(row) \in Row
    BY <2>1, SavedIsRow
  <2>3. [op |-> "posting", e |-> txn[w].e, row |-> SavedRow(row)] \in Request
    BY <2>1, <2>2 DEF Request
  <2> QED BY <1>4, <2>3 DEF CheckPost
<1>5. ASSUME CommitPost(w) PROVE TypeOK'
  <2>1. txn[w].e \in Entries /\ txn[w].row \in Row
    BY <1>5, RequestKinds DEF CommitPost
  <2> QED BY <1>5, <2>1, FinishType, WithPeriodType DEF CommitPost
<1>6. ASSUME CommitDestroy(w) PROVE TypeOK'
  BY <1>6, FinishType, DeleteType DEF CommitDestroy
<1>7. ASSUME NEW e \in Entries, CheckReverse(w, e) PROVE TypeOK'
  <2>1. ReversalRow(e) \in Row
    BY NewRowIsRow DEF ReversalRow, EntryStatus, Sources
  <2>2. [op |-> "insert", row |-> ReversalRow(e), it |-> items[e]] \in Request
    BY <2>1 DEF Request
  <2> QED BY <1>7, <2>2, StartType DEF CheckReverse
<1>8. ASSUME NEW e \in Entries, CommitInsert(w, e) PROVE TypeOK'
  <2>1. txn[w].row \in Row /\ txn[w].it \in ItemState
    BY <1>8, RequestKinds DEF CommitInsert
  <2> QED BY <1>8, <2>1, FinishType, InsertType, WithPeriodType DEF CommitInsert
<1> QED BY <1>1, <1>2, <1>3, <1>4, <1>5, <1>6, <1>7, <1>8 DEF EntryRequest

LEMMA MovementRequestType ==
  ASSUME TypeOK, NEW w \in Workers, MovementRequest(w) PROVE TypeOK'
<1> USE DEF TypeOK
<1>1. ASSUME NEW d \in Months, CheckMovement(w, d) PROVE TypeOK'
  <2>1. NewRow("POSTED", d, "SERVICE", NoEntry) \in Row
    BY NewRowIsRow DEF EntryStatus, Sources
  <2>2. [op |-> "pay", row |-> NewRow("POSTED", d, "SERVICE", NoEntry),
         owner |-> NoMonth] \in Request
    BY <2>1 DEF Request
  <2> QED BY <1>1, <2>2, StartType DEF CheckMovement
<1>2. ASSUME NEW m \in Months, NEW d \in Months, CheckPayment(w, m, d) PROVE TypeOK'
  <2>1. NewRow("POSTED", d, "SERVICE", NoEntry) \in Row
    BY NewRowIsRow DEF EntryStatus, Sources
  <2>2. [op |-> "pay", row |-> NewRow("POSTED", d, "SERVICE", NoEntry),
         owner |-> m] \in Request
    BY <2>1 DEF Request
  <2> QED BY <1>2, <2>2, StartType DEF CheckPayment
<1>3. ASSUME NEW v \in Movements, NEW e \in Entries, CommitMovement(w, v, e)
      PROVE  TypeOK'
  <2>1. txn[w].row \in Row /\ txn[w].owner \in Months \cup {NoMonth}
    BY <1>3, RequestKinds DEF CommitMovement
  <2>2. entry' \in [Entries -> Row] /\ items' \in [Entries -> ItemState]
    BY <1>3, <2>1, InsertType DEF CommitMovement, ItemState
  <2>3. [st |-> "POSTED", je |-> e, owner |-> txn[w].owner] \in Movement
    BY <2>1 DEF Movement
  <2> QED BY <1>3, <2>2, <2>3, FinishType, WithPeriodType DEF CommitMovement
<1>4. ASSUME NEW v \in Movements, AnnulReverse(w, v) PROVE TypeOK'
  <2> DEFINE e == mov[v].je
  <2>1. e \in Entries
    BY <1>4 DEF AnnulReverse, Movement
  <2>2. ReversalRow(e) \in Row
    BY <2>1, NewRowIsRow DEF ReversalRow, EntryStatus, Sources
  <2>3. [op |-> "annul", v |-> v, how |-> "reverse",
         row |-> ReversalRow(e), it |-> items[e]] \in Request
    BY <2>1, <2>2 DEF Request
  <2> QED BY <1>4, <2>3, StartType DEF AnnulReverse
<1>5. ASSUME NEW v \in Movements, AnnulUnposted(w, v) PROVE TypeOK'
  <2>1. [op |-> "annul", v |-> v,
         how |-> IF mov[v].owner = NoMonth THEN "delete" ELSE "cancel"] \in Request
    BY DEF Request
  <2> QED BY <1>5, <2>1, StartType DEF AnnulUnposted
<1>6. ASSUME NEW e \in Entries, CommitAnnulReverse(w, e) PROVE TypeOK'
  <2>1. txn[w].row \in Row /\ txn[w].it \in ItemState /\ txn[w].v \in Movements
    BY <1>6, RequestKinds DEF CommitAnnulReverse
  <2>2. mov' \in [Movements -> Movement]
    BY <1>6, <2>1 DEF CommitAnnulReverse, Movement
  <2> QED BY <1>6, <2>1, <2>2, FinishType, InsertType, WithPeriodType
          DEF CommitAnnulReverse
<1>7. ASSUME CommitAnnulUnposted(w) PROVE TypeOK'
  <2>1. txn[w].v \in Movements
    BY <1>7, RequestKinds DEF CommitAnnulUnposted
  <2>2. mov' \in [Movements -> Movement]
    <3>1. [mov[txn[w].v] EXCEPT !.st = "CANCELLED", !.je = NoEntry] \in Movement
      BY <2>1 DEF Movement
    <3>2. mov' = [mov EXCEPT ![txn[w].v] =
                    [mov[txn[w].v] EXCEPT !.st = "CANCELLED", !.je = NoEntry]]
      BY <1>7, <2>1 DEF CommitAnnulUnposted
    <3> QED BY <3>1, <3>2
  <2>3. entry' \in [Entries -> Row] /\ items' \in [Entries -> ItemState]
    BY <1>7, DeleteType DEF CommitAnnulUnposted
  <2> QED BY <1>7, <2>2, <2>3, FinishType DEF CommitAnnulUnposted
<1> QED BY <1>1, <1>2, <1>3, <1>4, <1>5, <1>6, <1>7 DEF MovementRequest

LEMMA PeriodRequestType ==
  ASSUME TypeOK, NEW w \in Workers, PeriodRequest(w) PROVE TypeOK'
<1> USE DEF TypeOK
<1>1. ASSUME NEW m \in Months, NEW it \in NewItems, CheckRegister(w, m, it) PROVE TypeOK'
  <2>1. NewRow("POSTED", m, "F29", NoEntry) \in Row
    BY NewRowIsRow DEF EntryStatus, Sources
  <2>2. [op |-> "register", m |-> m, due |-> f29[m].due, it |-> it,
         row |-> NewRow("POSTED", m, "F29", NoEntry)] \in Request
    BY <2>1, NewItemsAssumption DEF Request, Declaration
  <2> QED BY <1>1, <2>2, StartType DEF CheckRegister
<1>2. ASSUME NEW e \in Entries, CommitRegister(w, e) PROVE TypeOK'
  <2>1. /\ txn[w].row \in Row /\ txn[w].it \in ItemState
        /\ txn[w].m \in Months /\ txn[w].due \in Nat
    BY <1>2, RequestKinds DEF CommitRegister
  <2>2. entry' \in [Entries -> Row] /\ items' \in [Entries -> ItemState]
    BY <1>2, <2>1, InsertType DEF CommitRegister
  <2>3. f29' \in [Months -> Declaration]
    BY <1>2, <2>1 DEF CommitRegister, Declaration
  <2> QED BY <1>2, <2>2, <2>3, FinishType, WithPeriodType DEF CommitRegister
<1>3. ASSUME NEW m \in Months, NEW op \in {"closeAcc", "reopenAcc", "closeTax", "reopenTax"},
             Start(w, [op |-> op, m |-> m]),
             UNCHANGED <<today, acc, tax, f29, entry, items, mov>>
      PROVE  TypeOK'
  <2>1. [op |-> op, m |-> m] \in Request
    BY DEF Request
  <2> QED BY <1>3, <2>1, StartType
<1>4. ASSUME CommitTax(w) PROVE TypeOK'
  BY <1>4, FinishType DEF CommitTax, PeriodStatus
<1>5. ASSUME CommitCloseAcc(w) PROVE TypeOK'
  BY <1>5, SaveAccType, FinishType DEF CommitCloseAcc
<1>6. ASSUME CommitReopenAcc(w) PROVE TypeOK'
  BY <1>6, SaveAccType, FinishType DEF CommitReopenAcc
<1>7. ASSUME NEW m \in Months, NEW due \in Dues, NEW op \in {"declare", "updateF29"},
             Start(w, [op |-> op, m |-> m, due |-> due]),
             UNCHANGED <<today, acc, tax, f29, entry, items, mov>>
      PROVE  TypeOK'
  <2>1. [op |-> op, m |-> m, due |-> due] \in Request
    BY DuesAssumption DEF Request
  <2> QED BY <1>7, <2>1, StartType
<1>8. ASSUME CommitDeclare(w) \/ CommitUpdateF29(w) PROVE TypeOK'
  <2>1. txn[w].m \in Months /\ txn[w].due \in Nat
    BY <1>8, RequestKinds DEF CommitDeclare, CommitUpdateF29
  <2>2. f29' \in [Months -> Declaration]
    <3>1. \A st \in {"DRAFT", f29[txn[w].m].st} : [st |-> st, due |-> txn[w].due] \in Declaration
      BY <2>1 DEF Declaration
    <3> QED BY <1>8, <2>1, <3>1 DEF CommitDeclare, CommitUpdateF29
  <2> QED BY <1>8, <2>2, FinishType, WithPeriodType DEF CommitDeclare, CommitUpdateF29
<1> QED
  BY <1>1, <1>2, <1>3, <1>4, <1>5, <1>6, <1>7, <1>8
  DEF PeriodRequest, CheckDeclare, CheckUpdateF29, CheckCloseTax, CheckReopenTax, CheckCloseAcc, CheckReopenAcc

LEMMA TypeStep == TypeOK /\ [Next]_vars => TypeOK'
<1> SUFFICES ASSUME TypeOK, [Next]_vars PROVE TypeOK'
  OBVIOUS
<1>1. ASSUME NEW e \in Entries, NEW d \in Months, NEW it \in NewItems,
             CreateEntry(e, d, it)
      PROVE  TypeOK'
  <2>1. [Blank("DRAFT") EXCEPT !.date = d] \in Row
    BY BlankIsRow DEF EntryStatus, Row
  <2>2. it \in ItemState
    BY NewItemsAssumption
  <2> QED BY <1>1, <2>1, <2>2, InsertType DEF TypeOK, CreateEntry
<1>2. ASSUME NEW m \in Months, NEW st \in {"OPEN", "CLOSED"}, RawTax(m, st) \/ RawAcc(m, st)
      PROVE  TypeOK'
  BY <1>2, SaveAccType DEF TypeOK, RawTax, RawAcc, PeriodStatus
<1>3. ASSUME NEW m \in Months, OpenPeriod(m) PROVE TypeOK'
  BY <1>3, WithPeriodType DEF TypeOK, OpenPeriod
<1>4. ASSUME NextMonth PROVE TypeOK'
  BY <1>4, LastMonthAssumption DEF TypeOK, NextMonth, Months
<1>5. ASSUME NEW w \in Workers, Rollback(w) PROVE TypeOK'
  BY <1>5, FinishType DEF TypeOK, Rollback
<1>6. CASE UNCHANGED vars
  BY <1>6 DEF TypeOK, vars
<1> QED
  BY <1>1, <1>2, <1>3, <1>4, <1>5, <1>6,
     EntryRequestType, MovementRequestType, PeriodRequestType
  DEF Next

\* Every behaviour stays in the declared types.
THEOREM TypeCorrect == Spec => []TypeOK
BY InitType, TypeStep, PTL DEF Spec

-----------------------------------------------------------------------------
(* Reversals, under every interleaving.  The requests in flight are part of  *)
(* the invariant: what a stale row may still write, and which rows the       *)
(* annulments hold, is what keeps reversals final and unique.                *)

EntryInv ==
  \A e \in Entries :
    /\ entry[e].st = "DRAFT" => entry[e].src = "MANUAL"
    /\ entry[e].st = "REVERSAL" => entry[e].src = "REVERSAL"
    /\ entry[e].rev # NoEntry =>
         entry[e].st = "REVERSAL" /\ entry[entry[e].rev].st # "UNUSED"

\* Each movement owns its entry; the entry is unreversed until the movement is
\* cancelled, and reversed from then on.
MovInv ==
  \A v \in Movements : mov[v].je # NoEntry =>
    /\ entry[mov[v].je].src = "SERVICE" /\ Exists(mov[v].je)
    /\ mov[v].st = "POSTED" => \A r \in Entries : entry[r].rev # mov[v].je
    /\ mov[v].st = "CANCELLED" => \E r \in Entries : entry[r].rev = mov[v].je
    /\ \A u \in Movements : mov[u].je = mov[v].je => u = v

OnceInv ==
  \A r, s \in Entries :
    /\ entry[r].rev # NoEntry /\ entry[r].rev = entry[s].rev
    /\ entry[entry[r].rev].src = "SERVICE"
    => r = s

DataInv == EntryInv /\ MovInv /\ OnceInv

RowKinds == {"edit", "post", "destroy", "editing", "posting"}

\* What a request in flight still relies on.
Sound(t) ==
  /\ t.op \in RowKinds =>
       /\ entry[t.e].st \notin {"UNUSED", "REVERSAL"} /\ entry[t.e].src = "MANUAL"
       /\ t.row.st \in {"DRAFT", "POSTED"} /\ t.row.src = "MANUAL" /\ t.row.rev = NoEntry
  /\ t.op = "insert" =>
       /\ t.row.st = "REVERSAL" /\ t.row.src = "REVERSAL" /\ t.row.rev \in Entries
       /\ entry[t.row.rev].st # "UNUSED" /\ entry[t.row.rev].src = "MANUAL"
  /\ t.op = "pay" =>
       t.row.st = "POSTED" /\ t.row.src = "SERVICE" /\ t.row.rev = NoEntry
  /\ t.op = "register" =>
       t.row.st = "POSTED" /\ t.row.src = "F29" /\ t.row.rev = NoEntry
  /\ t.op = "annul" =>
       /\ mov[t.v].st = "POSTED" /\ mov[t.v].je # NoEntry
       /\ t.how = "reverse" =>
            t.row.st = "REVERSAL" /\ t.row.src = "REVERSAL" /\ t.row.rev = mov[t.v].je

\* The row lock of lock_document.
Exclusive ==
  \A w, u \in Workers :
    txn[w].op = "annul" /\ txn[u].op = "annul" /\ txn[w].v = txn[u].v => w = u

RInv == TypeOK /\ DataInv /\ Exclusive /\ \A w \in Workers : Sound(txn[w])

\* What no step does to an entry that is in the table or was.
Frame ==
  \A e \in Entries : entry[e].st # "UNUSED" =>
    /\ entry'[e].st # "UNUSED"
    /\ entry[e].src = "MANUAL" => entry'[e].src = "MANUAL"
    /\ entry[e].st # "REVERSAL" => entry'[e].st # "REVERSAL"
    /\ entry[e].st = "REVERSAL" =>
         /\ entry'[e].st = "REVERSAL"
         /\ entry'[e].date = entry[e].date
         /\ entry'[e].src = entry[e].src
         /\ items'[e] = items[e]

LEMMA InitRInv == Init => RInv
<1> SUFFICES ASSUME Init PROVE RInv
  OBVIOUS
<1>1. TypeOK
  BY InitType
<1>2. DataInv
  BY DEF Init, DataInv, EntryInv, MovInv, OnceInv, Blank
<1>3. Exclusive /\ \A w \in Workers : Sound(txn[w])
  BY DEF Init, Exclusive, Sound, RowKinds, Idle
<1> QED BY <1>1, <1>2, <1>3 DEF RInv

\* A request stays sound while others commit, given Frame and its movement.
LEMMA SoundStable ==
  ASSUME TypeOK, Frame, NEW w \in Workers, Sound(txn[w]),
         txn[w].op = "annul" => mov'[txn[w].v] = mov[txn[w].v],
         txn'[w] = txn[w]
  PROVE  Sound(txn[w])'
<1>1. txn[w].op \in RowKinds => txn[w].e \in Entries
  BY RequestKinds DEF RowKinds
<1> QED BY <1>1 DEF Sound, Frame, RowKinds

\* The four ways in which rows of entries change.
LEMMA InsertFrame ==
  ASSUME TypeOK, NEW e \in Entries, NEW row, NEW it, Insert(e, row, it)
  PROVE  Frame
BY DEF TypeOK, Insert, Frame

LEMMA OverwriteFrame ==
  ASSUME TypeOK, NEW e \in Entries, NEW row,
         entry[e].st \notin {"UNUSED", "REVERSAL"},
         row.st \in {"DRAFT", "POSTED"}, row.src = "MANUAL",
         entry' = [entry EXCEPT ![e] = row],
         \A x \in Entries : x # e => items'[x] = items[x]
  PROVE  Frame
BY DEF TypeOK, Frame

LEMMA DeleteFrame ==
  ASSUME TypeOK, NEW e \in Entries, entry[e].st # "REVERSAL", Delete(e)
  PROVE  Frame
<1>1. entry'[e] = Blank("DELETED")
  BY DEF Delete
<1>2. \A x \in Entries : x # e =>
        /\ entry'[x].st = entry[x].st /\ entry'[x].src = entry[x].src
        /\ entry'[x].date = entry[x].date /\ items'[x] = items[x]
  BY DEF Delete, TypeOK, Row
<1> QED BY <1>1, <1>2 DEF Frame, Blank

LEMMA MarkEffect ==
  ASSUME TypeOK, NEW m, NEW from \in {"POSTED", "CLOSED"}, NEW to \in {"POSTED", "CLOSED"},
         NEW closed, MarkEntries(m, from, to, closed), NEW e \in Entries
  PROVE  /\ entry'[e].date = entry[e].date /\ entry'[e].src = entry[e].src
         /\ entry'[e].rev = entry[e].rev
         /\ entry'[e].st = IF Exists(e) /\ entry[e].date = m /\ entry[e].st = from
                           THEN to ELSE entry[e].st
BY DEF MarkEntries, TypeOK, Row

LEMMA MarkFrame ==
  ASSUME TypeOK, NEW m, NEW from \in {"POSTED", "CLOSED"}, NEW to \in {"POSTED", "CLOSED"},
         NEW closed, MarkEntries(m, from, to, closed), items' = items
  PROVE  Frame
BY MarkEffect DEF Frame

LEMMA MarkData ==
  ASSUME TypeOK, DataInv, NEW m, NEW from \in {"POSTED", "CLOSED"},
         NEW to \in {"POSTED", "CLOSED"}, NEW closed,
         MarkEntries(m, from, to, closed), UNCHANGED mov
  PROVE  DataInv'
<1>1. \A e \in Entries :
        /\ entry'[e].src = entry[e].src /\ entry'[e].rev = entry[e].rev
        /\ \A st \in {"UNUSED", "DELETED", "DRAFT", "REVERSAL"} :
             entry'[e].st = st <=> entry[e].st = st
  BY MarkEffect
<1>t. \A e \in Entries : entry[e].rev \in Entries \cup {NoEntry}
  BY DEF TypeOK, Row
<1>u. \A v \in Movements : mov[v].je \in Entries \cup {NoEntry}
  BY DEF TypeOK, Movement
<1>2. EntryInv'
  BY <1>1, <1>t DEF DataInv, EntryInv
<1>3. MovInv'
  BY <1>1, <1>u DEF DataInv, MovInv, Exists
<1>4. OnceInv'
  BY <1>1, <1>t DEF DataInv, OnceInv
<1> QED BY <1>2, <1>3, <1>4 DEF DataInv

LEMMA OverwriteData ==
  ASSUME TypeOK, DataInv, NEW e \in Entries, NEW row,
         entry[e].st \notin {"UNUSED", "REVERSAL"}, entry[e].src = "MANUAL",
         row.st \in {"DRAFT", "POSTED"}, row.src = "MANUAL", row.rev = NoEntry,
         entry' = [entry EXCEPT ![e] = row], UNCHANGED mov
  PROVE  DataInv'
<1>1. entry'[e] = row /\ \A x \in Entries : x # e => entry'[x] = entry[x]
  BY DEF TypeOK
<1>2. entry[e].rev = NoEntry
  BY DEF DataInv, EntryInv
<1>3. \A x \in Entries : entry'[x].rev = entry[x].rev
  BY <1>1, <1>2
<1>t. \A x \in Entries : entry[x].rev \in Entries \cup {NoEntry}
  BY DEF TypeOK, Row
<1>u. \A v \in Movements : mov[v].je \in Entries \cup {NoEntry}
  BY DEF TypeOK, Movement
<1>4. EntryInv'
  BY <1>1, <1>3, <1>t DEF DataInv, EntryInv
<1>5. MovInv'
  BY <1>1, <1>3, <1>u DEF DataInv, MovInv, Exists
<1>6. OnceInv'
  BY <1>1, <1>3, <1>t DEF DataInv, OnceInv
<1> QED BY <1>4, <1>5, <1>6 DEF DataInv

\* Deleting an entry of the API, or that of the movement that drops it.
LEMMA DeleteData ==
  ASSUME TypeOK, DataInv, NEW e \in Entries,
         entry[e].st \notin {"UNUSED", "REVERSAL"}, Delete(e),
         \/ entry[e].src = "MANUAL" /\ UNCHANGED mov
         \/ \E v \in Movements :
              /\ mov[v].je = e
              /\ mov' = [mov EXCEPT ![v].st = "CANCELLED", ![v].je = NoEntry]
  PROVE  DataInv'
<1>1. entry'[e] = Blank("DELETED")
  BY DEF Delete
<1>2. \A x \in Entries : x # e =>
        /\ entry'[x].st = entry[x].st /\ entry'[x].src = entry[x].src
        /\ entry'[x].rev = IF entry[x].rev = e THEN NoEntry ELSE entry[x].rev
  BY DEF Delete, TypeOK, Row
<1>t. \A x \in Entries : entry[x].rev \in Entries \cup {NoEntry}
  BY DEF TypeOK, Row
<1>r. entry[e].rev = NoEntry
  BY DEF DataInv, EntryInv
<1>3. \A x \in Entries :
        entry'[x].rev = IF entry[x].rev = e THEN NoEntry ELSE entry[x].rev
  BY <1>1, <1>2, <1>r DEF Blank
<1>u. \A v \in Movements : mov[v].je \in Entries \cup {NoEntry}
  BY DEF TypeOK, Movement
<1>4. EntryInv'
  BY <1>1, <1>2, <1>3, <1>t DEF DataInv, EntryInv, Blank
<1>5. \A v \in Movements : mov'[v].je # NoEntry =>
        mov'[v] = mov[v] /\ mov[v].je # e
  <2>1. CASE entry[e].src = "MANUAL" /\ UNCHANGED mov
    BY <2>1 DEF DataInv, MovInv
  <2>2. ASSUME NEW v \in Movements, mov[v].je = e,
               mov' = [mov EXCEPT ![v].st = "CANCELLED", ![v].je = NoEntry]
        PROVE  \A u \in Movements : mov'[u].je # NoEntry =>
                 mov'[u] = mov[u] /\ mov[u].je # e
    <3>1. e # NoEntry
      BY NoEntryAssumption
    <3>2. mov'[v] = [mov[v] EXCEPT !.st = "CANCELLED", !.je = NoEntry]
      BY <2>2 DEF TypeOK
    <3>3. mov'[v].je = NoEntry
      BY <3>2 DEF TypeOK, Movement
    <3>4. \A u \in Movements : u # v => mov'[u] = mov[u]
      BY <2>2 DEF TypeOK
    <3> QED BY <2>2, <3>1, <3>3, <3>4 DEF DataInv, MovInv
  <2> QED BY <2>1, <2>2
<1>6. MovInv'
  BY <1>2, <1>3, <1>5, <1>u, <1>t, NoEntryAssumption DEF DataInv, MovInv, Exists
<1>7. OnceInv'
  BY <1>1, <1>2, <1>3, <1>t DEF DataInv, OnceInv, Blank
<1> QED BY <1>4, <1>6, <1>7 DEF DataInv

\* A new row that reverses nothing.
LEMMA InsertData ==
  ASSUME TypeOK, DataInv, NEW e \in Entries, NEW row, NEW it,
         Insert(e, row, it), row.rev = NoEntry,
         row.st \in {"DRAFT", "POSTED"}, row.st = "DRAFT" => row.src = "MANUAL",
         UNCHANGED mov
  PROVE  DataInv'
<1>1. /\ entry[e].st = "UNUSED" /\ entry'[e] = row
      /\ \A x \in Entries : x # e => entry'[x] = entry[x]
  BY DEF Insert, TypeOK
<1>2. \A x \in Entries : entry'[x].rev = entry[x].rev
  BY <1>1 DEF DataInv, EntryInv
<1>t. \A x \in Entries : entry[x].rev \in Entries \cup {NoEntry}
  BY DEF TypeOK, Row
<1>u. \A v \in Movements : mov[v].je \in Entries \cup {NoEntry}
  BY DEF TypeOK, Movement
<1>3. EntryInv'
  BY <1>1, <1>2, <1>t DEF DataInv, EntryInv
<1>4. MovInv'
  BY <1>1, <1>2, <1>u DEF DataInv, MovInv, Exists
<1>5. OnceInv'
  BY <1>1, <1>2, <1>t DEF DataInv, EntryInv, OnceInv
<1> QED BY <1>3, <1>4, <1>5 DEF DataInv

\* The entry and the movement of create_movement.
LEMMA MovementData ==
  ASSUME TypeOK, DataInv, NEW e \in Entries, NEW row, NEW it,
         Insert(e, row, it), row.rev = NoEntry, row.st = "POSTED", row.src = "SERVICE",
         NEW v \in Movements, NEW owner,
         mov' = [mov EXCEPT ![v] = [st |-> "POSTED", je |-> e, owner |-> owner]]
  PROVE  DataInv'
<1>1. /\ entry[e].st = "UNUSED" /\ entry'[e] = row
      /\ \A x \in Entries : x # e => entry'[x] = entry[x]
  BY DEF Insert, TypeOK
<1>2. \A x \in Entries : entry'[x].rev = entry[x].rev
  BY <1>1 DEF DataInv, EntryInv
<1>t. \A x \in Entries : entry[x].rev \in Entries \cup {NoEntry}
  BY DEF TypeOK, Row
<1>u. \A u \in Movements : mov[u].je \in Entries \cup {NoEntry}
  BY DEF TypeOK, Movement
<1>m. /\ mov'[v].st = "POSTED" /\ mov'[v].je = e
      /\ \A u \in Movements : u # v => mov'[u] = mov[u]
  BY DEF TypeOK
<1>3. EntryInv'
  BY <1>1, <1>2, <1>t DEF DataInv, EntryInv
<1>n. \A x \in Entries : entry[x].rev # e
  BY <1>1, NoEntryAssumption DEF DataInv, EntryInv
<1>o. \A u \in Movements : mov[u].je # e
  BY <1>1, NoEntryAssumption DEF DataInv, MovInv, Exists
<1>4. MovInv'
  BY <1>1, <1>2, <1>u, <1>m, <1>n, <1>o DEF DataInv, MovInv, Exists
<1>5. OnceInv'
  BY <1>1, <1>2, <1>t DEF DataInv, EntryInv, OnceInv
<1> QED BY <1>3, <1>4, <1>5 DEF DataInv

\* A reversal, of an entry of the API or of the movement it cancels.
LEMMA ReversalData ==
  ASSUME TypeOK, DataInv, NEW r \in Entries, NEW row, NEW it,
         Insert(r, row, it), row.rev \in Entries,
         row.st = "REVERSAL", row.src = "REVERSAL",
         entry[row.rev].st # "UNUSED",
         \/ entry[row.rev].src = "MANUAL" /\ UNCHANGED mov
         \/ \E v \in Movements :
              /\ mov[v].st = "POSTED" /\ mov[v].je = row.rev
              /\ mov' = [mov EXCEPT ![v].st = "CANCELLED"]
  PROVE  DataInv'
<1>1. /\ entry[r].st = "UNUSED" /\ entry'[r] = row
      /\ \A x \in Entries : x # r => entry'[x] = entry[x]
  BY DEF Insert, TypeOK
<1>2. entry[r].rev = NoEntry /\ row.rev # NoEntry /\ row.rev # r
  BY <1>1, NoEntryAssumption DEF DataInv, EntryInv
<1>t. \A x \in Entries : entry[x].rev \in Entries \cup {NoEntry}
  BY DEF TypeOK, Row
<1>u. \A u \in Movements : mov[u].je \in Entries \cup {NoEntry}
  BY DEF TypeOK, Movement
<1>n. \A x \in Entries : entry[x].rev # r
  BY <1>1, NoEntryAssumption DEF DataInv, EntryInv
<1>3. EntryInv'
  BY <1>1, <1>2, <1>t DEF DataInv, EntryInv
<1>4. MovInv'
  <2>1. CASE entry[row.rev].src = "MANUAL" /\ UNCHANGED mov
    BY <1>1, <1>2, <1>u, <2>1 DEF DataInv, MovInv, Exists
  <2>2. ASSUME NEW v \in Movements, mov[v].st = "POSTED", mov[v].je = row.rev,
               mov' = [mov EXCEPT ![v].st = "CANCELLED"]
        PROVE  MovInv'
    <3>1. mov'[v] = [mov[v] EXCEPT !.st = "CANCELLED"]
      BY <2>2 DEF TypeOK
    <3>2. mov'[v].st = "CANCELLED" /\ mov'[v].je = mov[v].je
      BY <3>1 DEF TypeOK, Movement
    <3>3. \A u \in Movements : u # v => mov'[u] = mov[u]
      BY <2>2 DEF TypeOK
    <3>4. \A u \in Movements : mov'[u].je = mov[u].je
      BY <3>2, <3>3
    <3>5. \A u \in Movements : mov[u].je # NoEntry =>
            entry'[mov[u].je] = entry[mov[u].je]
      BY <1>1, <1>u DEF DataInv, MovInv, Exists
    <3> QED BY <1>1, <1>2, <1>u, <2>2, <3>2, <3>3, <3>4, <3>5
            DEF DataInv, MovInv, Exists
  <2> QED BY <2>1, <2>2
<1>5. \A x \in Entries : entry[row.rev].src = "SERVICE" => entry[x].rev # row.rev
  BY <1>2 DEF DataInv, MovInv
<1>6. OnceInv'
  BY <1>1, <1>2, <1>5, <1>n, <1>t DEF DataInv, OnceInv
<1> QED BY <1>3, <1>4, <1>6 DEF DataInv

-----------------------------------------------------------------------------
(* Steps of a worker.  A step of w leaves the requests of the others alone.  *)

LEMMA OthersSound ==
  ASSUME RInv, Frame, TypeOK', NEW w \in Workers,
         \A u \in Workers : u # w => txn'[u] = txn[u],
         \A u \in Workers : u # w /\ txn[u].op = "annul" =>
           mov'[txn[u].v] = mov[txn[u].v],
         Sound(txn[w])', Exclusive', DataInv'
  PROVE  RInv'
<1>1. ASSUME NEW u \in Workers, u # w PROVE Sound(txn[u])'
  BY <1>1, SoundStable DEF RInv
<1> QED BY <1>1 DEF RInv

\* A request starts: it has checked and writes nothing yet.
LEMMA StartStep ==
  ASSUME RInv, TypeOK', NEW w \in Workers, NEW t,
         txn' = [txn EXCEPT ![w] = t], UNCHANGED <<entry, items, mov>>,
         Sound(t), t.op = "annul" => ~ Locked(t.v)
  PROVE  RInv' /\ Frame
<1>1. Frame
  BY DEF Frame
<1>2. txn'[w] = t /\ \A u \in Workers : u # w => txn'[u] = txn[u]
  BY DEF RInv, TypeOK
<1>3. Sound(txn[w])'
  BY <1>2 DEF Sound, Exists
<1>4. Exclusive'
  BY <1>2 DEF RInv, Exclusive, Locked
<1>5. DataInv'
  BY DEF RInv, DataInv, EntryInv, MovInv, OnceInv, Exists
<1> QED BY <1>1, <1>2, <1>3, <1>4, <1>5, OthersSound

\* A request ends with its writes.
LEMMA FinishStep ==
  ASSUME RInv, TypeOK', NEW w \in Workers, Finish(w), Frame, DataInv',
         \A u \in Workers : u # w /\ txn[u].op = "annul" =>
           mov'[txn[u].v] = mov[txn[u].v]
  PROVE  RInv'
<1>1. txn'[w] = Idle /\ \A u \in Workers : u # w => txn'[u] = txn[u]
  BY DEF RInv, TypeOK, Finish
<1>2. Sound(txn[w])'
  BY <1>1 DEF Sound, Idle, RowKinds
<1>3. Exclusive'
  BY <1>1 DEF RInv, Exclusive, Idle
<1> QED BY <1>1, <1>2, <1>3, OthersSound

LEMMA EntryRequestStep ==
  ASSUME RInv, TypeOK', NEW w \in Workers, EntryRequest(w) PROVE RInv' /\ Frame
<1>t. TypeOK /\ DataInv /\ Sound(txn[w])
  BY DEF RInv
<1>1. ASSUME NEW e \in Entries, NEW op \in {"edit", "post", "destroy"},
             ReadDraft(w, e, op)
      PROVE  RInv' /\ Frame
  <2>1. entry[e].src = "MANUAL" /\ entry[e].rev = NoEntry
    BY <1>1, <1>t DEF ReadDraft, DataInv, EntryInv
  <2>2. Sound([op |-> op, e |-> e, row |-> entry[e]])
    BY <1>1, <2>1 DEF ReadDraft, Sound
  <2> QED BY <1>1, <2>2, StartStep DEF ReadDraft, Start
<1>2. ASSUME NEW d \in Months, NEW it \in NewItems \cup {"keep"},
             CheckEdit(w, d, it)
      PROVE  RInv' /\ Frame
  <2> DEFINE row == [txn[w].row EXCEPT !.date = d]
             t == [op |-> "editing", e |-> txn[w].e, row |-> SavedRow(row), it |-> it]
  <2>1. txn[w].row \in Row
    BY <1>2, <1>t, RequestKinds DEF CheckEdit
  <2>2. /\ SavedRow(row).st = txn[w].row.st /\ SavedRow(row).src = txn[w].row.src
        /\ SavedRow(row).rev = txn[w].row.rev
    BY <2>1 DEF SavedRow, Row
  <2>3. Sound(t)
    BY <1>2, <1>t, <2>2 DEF CheckEdit, Sound, RowKinds
  <2>4. txn' = [txn EXCEPT ![w] = t] /\ UNCHANGED <<entry, items, mov>> /\ t.op # "annul"
    BY <1>2 DEF CheckEdit
  <2> HIDE DEF t
  <2> QED BY <2>3, <2>4, StartStep
<1>3. ASSUME CommitEdit(w) PROVE RInv' /\ Frame
  <2>1. /\ txn[w].e \in Entries
        /\ entry[txn[w].e].st \notin {"UNUSED", "REVERSAL"} /\ entry[txn[w].e].src = "MANUAL"
        /\ txn[w].row.st \in {"DRAFT", "POSTED"} /\ txn[w].row.src = "MANUAL"
        /\ txn[w].row.rev = NoEntry
    BY <1>3, <1>t, RequestKinds DEF CommitEdit, Sound, RowKinds
  <2>2. /\ entry' = [entry EXCEPT ![txn[w].e] = txn[w].row] /\ UNCHANGED mov /\ Finish(w)
        /\ \A x \in Entries : x # txn[w].e => items'[x] = items[x]
    BY <1>3, <1>t DEF CommitEdit, TypeOK
  <2>3. Frame /\ DataInv'
    BY <1>t, <2>1, <2>2, OverwriteFrame, OverwriteData
  <2> QED BY <2>2, <2>3, FinishStep
<1>4. ASSUME CheckPost(w) PROVE RInv' /\ Frame
  <2> DEFINE row == [txn[w].row EXCEPT !.st = "POSTED"]
             t == [op |-> "posting", e |-> txn[w].e, row |-> SavedRow(row)]
  <2>1. txn[w].row \in Row
    BY <1>4, <1>t, RequestKinds DEF CheckPost
  <2>2. /\ SavedRow(row).st = "POSTED" /\ SavedRow(row).src = txn[w].row.src
        /\ SavedRow(row).rev = txn[w].row.rev
    BY <2>1 DEF SavedRow, Row
  <2>3. Sound(t)
    BY <1>4, <1>t, <2>2 DEF CheckPost, Sound, RowKinds
  <2>4. txn' = [txn EXCEPT ![w] = t] /\ UNCHANGED <<entry, items, mov>> /\ t.op # "annul"
    BY <1>4 DEF CheckPost
  <2> HIDE DEF t
  <2> QED BY <2>3, <2>4, StartStep
<1>5. ASSUME CommitPost(w) PROVE RInv' /\ Frame
  <2>1. /\ txn[w].e \in Entries
        /\ entry[txn[w].e].st \notin {"UNUSED", "REVERSAL"} /\ entry[txn[w].e].src = "MANUAL"
        /\ txn[w].row.st \in {"DRAFT", "POSTED"} /\ txn[w].row.src = "MANUAL"
        /\ txn[w].row.rev = NoEntry
    BY <1>5, <1>t, RequestKinds DEF CommitPost, Sound, RowKinds
  <2>2. /\ entry' = [entry EXCEPT ![txn[w].e] = txn[w].row] /\ UNCHANGED mov /\ Finish(w)
        /\ \A x \in Entries : x # txn[w].e => items'[x] = items[x]
    BY <1>5 DEF CommitPost
  <2>3. Frame /\ DataInv'
    BY <1>t, <2>1, <2>2, OverwriteFrame, OverwriteData
  <2> QED BY <2>2, <2>3, FinishStep
<1>6. ASSUME CommitDestroy(w) PROVE RInv' /\ Frame
  <2>1. /\ txn[w].e \in Entries
        /\ entry[txn[w].e].st \notin {"UNUSED", "REVERSAL"} /\ entry[txn[w].e].src = "MANUAL"
    BY <1>6, <1>t, RequestKinds DEF CommitDestroy, Sound, RowKinds
  <2>2. Delete(txn[w].e) /\ UNCHANGED mov /\ Finish(w)
    BY <1>6 DEF CommitDestroy
  <2>3. Frame /\ DataInv'
    BY <1>t, <2>1, <2>2, DeleteFrame, DeleteData
  <2> QED BY <2>2, <2>3, FinishStep
<1>7. ASSUME NEW e \in Entries, CheckReverse(w, e) PROVE RInv' /\ Frame
  <2> DEFINE t == [op |-> "insert", row |-> ReversalRow(e), it |-> items[e]]
  <2>1. Sound(t)
    BY <1>7 DEF CheckReverse, CanReverse, ReversalRow, NewRow, Sound, RowKinds
  <2>2. txn' = [txn EXCEPT ![w] = t] /\ UNCHANGED <<entry, items, mov>> /\ t.op # "annul"
    BY <1>7 DEF CheckReverse, Start
  <2> HIDE DEF t
  <2> QED BY <2>1, <2>2, StartStep
<1>8. ASSUME NEW e \in Entries, CommitInsert(w, e) PROVE RInv' /\ Frame
  <2>1. /\ txn[w].row.st = "REVERSAL" /\ txn[w].row.src = "REVERSAL"
        /\ txn[w].row.rev \in Entries
        /\ entry[txn[w].row.rev].st # "UNUSED" /\ entry[txn[w].row.rev].src = "MANUAL"
    BY <1>8, <1>t DEF CommitInsert, Sound
  <2>2. Insert(e, txn[w].row, txn[w].it) /\ UNCHANGED mov /\ Finish(w)
    BY <1>8 DEF CommitInsert
  <2>3. Frame /\ DataInv'
    BY <1>t, <2>1, <2>2, InsertFrame, ReversalData
  <2> QED BY <2>2, <2>3, FinishStep
<1> QED BY <1>1, <1>2, <1>3, <1>4, <1>5, <1>6, <1>7, <1>8 DEF EntryRequest

LEMMA MovementRequestStep ==
  ASSUME RInv, TypeOK', NEW w \in Workers, MovementRequest(w) PROVE RInv' /\ Frame
<1>t. TypeOK /\ DataInv /\ Sound(txn[w]) /\ Exclusive
  BY DEF RInv
<1>1. ASSUME NEW d \in Months, NEW owner,
             Start(w, [op |-> "pay", row |-> NewRow("POSTED", d, "SERVICE", NoEntry),
                       owner |-> owner]),
             UNCHANGED <<entry, items, mov>>
      PROVE  RInv' /\ Frame
  <2> DEFINE t == [op |-> "pay", row |-> NewRow("POSTED", d, "SERVICE", NoEntry),
                   owner |-> owner]
  <2>1. Sound(t) /\ t.op # "annul"
    BY DEF NewRow, Sound, RowKinds
  <2>2. txn' = [txn EXCEPT ![w] = t]
    BY <1>1 DEF Start
  <2> HIDE DEF t
  <2> QED BY <1>1, <2>1, <2>2, StartStep
<1>2. ASSUME NEW v \in Movements, NEW e \in Entries, CommitMovement(w, v, e)
      PROVE  RInv' /\ Frame
  <2>1. /\ txn[w].row.st = "POSTED" /\ txn[w].row.src = "SERVICE"
        /\ txn[w].row.rev = NoEntry
    BY <1>2, <1>t DEF CommitMovement, Sound
  <2>2. /\ Insert(e, txn[w].row, "balanced") /\ mov[v].st = "UNUSED" /\ Finish(w)
        /\ mov' = [mov EXCEPT ![v] = [st |-> "POSTED", je |-> e, owner |-> txn[w].owner]]
    BY <1>2 DEF CommitMovement
  <2>3. Frame /\ DataInv'
    BY <1>t, <2>1, <2>2, InsertFrame, MovementData
  <2>4. \A u \in Workers : u # w /\ txn[u].op = "annul" =>
          mov'[txn[u].v] = mov[txn[u].v]
    BY <2>2, <1>t, RequestKinds DEF RInv, Sound, TypeOK
  <2> QED BY <2>2, <2>3, <2>4, FinishStep
<1>3. ASSUME NEW v \in Movements, AnnulReverse(w, v) PROVE RInv' /\ Frame
  <2> DEFINE e == mov[v].je
             t == [op |-> "annul", v |-> v, how |-> "reverse",
                   row |-> ReversalRow(e), it |-> items[e]]
  <2>1. Sound(t)
    BY <1>3 DEF AnnulReverse, ReversalRow, NewRow, Sound, RowKinds
  <2>2. txn' = [txn EXCEPT ![w] = t] /\ UNCHANGED <<entry, items, mov>> /\ ~ Locked(t.v)
    BY <1>3 DEF AnnulReverse, Start
  <2> HIDE DEF t
  <2> QED BY <2>1, <2>2, StartStep
<1>4. ASSUME NEW v \in Movements, AnnulUnposted(w, v) PROVE RInv' /\ Frame
  <2> DEFINE t == [op |-> "annul", v |-> v,
                   how |-> IF mov[v].owner = NoMonth THEN "delete" ELSE "cancel"]
  <2>1. Sound(t)
    BY <1>4 DEF AnnulUnposted, Sound, RowKinds
  <2>2. txn' = [txn EXCEPT ![w] = t] /\ UNCHANGED <<entry, items, mov>> /\ ~ Locked(t.v)
    BY <1>4 DEF AnnulUnposted, Start
  <2> HIDE DEF t
  <2> QED BY <2>1, <2>2, StartStep
\* The annulled movement is not that of another annulment.
<1>5. ASSUME txn[w].op = "annul",
             \A v \in Movements : v # txn[w].v => mov'[v] = mov[v]
      PROVE  \A u \in Workers : u # w /\ txn[u].op = "annul" =>
               mov'[txn[u].v] = mov[txn[u].v]
  BY <1>5, <1>t, RequestKinds DEF Exclusive
<1>6. ASSUME NEW e \in Entries, CommitAnnulReverse(w, e) PROVE RInv' /\ Frame
  <2> DEFINE v == txn[w].v
  <2>1. /\ v \in Movements /\ txn[w].op = "annul"
        /\ txn[w].row.st = "REVERSAL" /\ txn[w].row.src = "REVERSAL"
        /\ mov[v].st = "POSTED" /\ mov[v].je # NoEntry /\ txn[w].row.rev = mov[v].je
    BY <1>6, <1>t, RequestKinds DEF CommitAnnulReverse, Sound
  <2>2. /\ Insert(e, txn[w].row, txn[w].it) /\ Finish(w)
        /\ mov' = [mov EXCEPT ![v].st = "CANCELLED"]
    BY <1>6 DEF CommitAnnulReverse
  <2>3. mov[v].je \in Entries /\ entry[mov[v].je].st # "UNUSED"
    BY <1>t, <2>1 DEF TypeOK, Movement, DataInv, MovInv, Exists
  <2> HIDE DEF v
  <2>4. Frame /\ DataInv'
    BY <1>t, <2>1, <2>2, <2>3, InsertFrame, ReversalData
  <2>5. \A u \in Movements : u # v => mov'[u] = mov[u]
    BY <1>t, <2>2 DEF TypeOK
  <2>6. \A u \in Workers : u # w /\ txn[u].op = "annul" =>
          mov'[txn[u].v] = mov[txn[u].v]
    BY <1>5, <2>1, <2>5 DEF v
  <2> QED BY <2>2, <2>4, <2>6, FinishStep
<1>7. ASSUME CommitAnnulUnposted(w) PROVE RInv' /\ Frame
  <2> DEFINE v == txn[w].v
  <2>1. /\ v \in Movements /\ txn[w].op = "annul"
        /\ mov[v].st = "POSTED" /\ mov[v].je # NoEntry
    BY <1>7, <1>t, RequestKinds DEF CommitAnnulUnposted, Sound
  <2>2. /\ Finish(w)
        /\ \/ Delete(mov[v].je)
           \/ UNCHANGED <<entry, items>>
        /\ mov' = [mov EXCEPT ![v].st = "CANCELLED", ![v].je = NoEntry]
    BY <1>7 DEF CommitAnnulUnposted
  <2>3. /\ mov[v].je \in Entries /\ entry[mov[v].je].src = "SERVICE"
        /\ entry[mov[v].je].st \notin {"UNUSED", "REVERSAL"}
    BY <1>t, <2>1 DEF TypeOK, Movement, DataInv, MovInv, EntryInv, Exists
  <2> HIDE DEF v
  <2>4. \A u \in Movements : u # v => mov'[u] = mov[u]
    BY <1>t, <2>2 DEF TypeOK
  <2>5. \A u \in Workers : u # w /\ txn[u].op = "annul" =>
          mov'[txn[u].v] = mov[txn[u].v]
    BY <1>5, <2>1, <2>4 DEF v
  <2>6. CASE Delete(mov[v].je)
    <3>1. Frame /\ DataInv'
      BY <1>t, <2>1, <2>2, <2>3, <2>6, DeleteFrame, DeleteData
    <3> QED BY <2>2, <2>5, <3>1, FinishStep
  <2>7. CASE UNCHANGED <<entry, items>>
    <3>1. Frame
      BY <2>7 DEF Frame
    <3>2. mov'[v] = [mov[v] EXCEPT !.st = "CANCELLED", !.je = NoEntry]
      BY <1>t, <2>1, <2>2 DEF TypeOK
    <3>3. mov'[v].je = NoEntry
      BY <1>t, <2>1, <3>2 DEF TypeOK, Movement
    <3>4. MovInv'
      BY <1>t, <2>4, <2>7, <3>3 DEF DataInv, MovInv, Exists
    <3>5. EntryInv' /\ OnceInv'
      BY <1>t, <2>7 DEF DataInv, EntryInv, OnceInv
    <3>6. DataInv'
      BY <3>4, <3>5 DEF DataInv
    <3> QED BY <2>2, <2>5, <3>1, <3>6, FinishStep
  <2> QED BY <2>2, <2>6, <2>7
<1> QED
  BY <1>t, <1>1, <1>2, <1>3, <1>4, <1>6, <1>7
  DEF MovementRequest, CheckMovement, CheckPayment, TypeOK

LEMMA PeriodRequestStep ==
  ASSUME RInv, TypeOK', NEW w \in Workers, PeriodRequest(w) PROVE RInv' /\ Frame
<1>t. TypeOK /\ DataInv /\ Sound(txn[w])
  BY DEF RInv
<1>1. ASSUME NEW m \in Months, NEW it \in NewItems, CheckRegister(w, m, it) PROVE RInv' /\ Frame
  <2> DEFINE t == [op |-> "register", m |-> m, due |-> f29[m].due, it |-> it,
                   row |-> NewRow("POSTED", m, "F29", NoEntry)]
  <2>1. Sound(t) /\ t.op # "annul"
    BY DEF NewRow, Sound, RowKinds
  <2>2. txn' = [txn EXCEPT ![w] = t] /\ UNCHANGED <<entry, items, mov>>
    BY <1>1 DEF CheckRegister, Start
  <2> HIDE DEF t
  <2> QED BY <2>1, <2>2, StartStep
<1>2. ASSUME NEW e \in Entries, CommitRegister(w, e) PROVE RInv' /\ Frame
  <2>1. /\ txn[w].row.st = "POSTED" /\ txn[w].row.src = "F29"
        /\ txn[w].row.rev = NoEntry
    BY <1>2, <1>t DEF CommitRegister, Sound
  <2>2. Insert(e, txn[w].row, txn[w].it) /\ UNCHANGED mov /\ Finish(w)
    BY <1>2 DEF CommitRegister
  <2>3. Frame /\ DataInv'
    BY <1>t, <2>1, <2>2, InsertFrame, InsertData
  <2> QED BY <2>2, <2>3, FinishStep
<1>3. ASSUME NEW m \in Months, NEW op \in {"closeAcc", "reopenAcc", "closeTax", "reopenTax"},
             Start(w, [op |-> op, m |-> m]),
             UNCHANGED <<today, acc, tax, f29, entry, items, mov>>
      PROVE  RInv' /\ Frame
  <2> DEFINE t == [op |-> op, m |-> m]
  <2>1. Sound(t) /\ t.op # "annul"
    BY DEF Sound, RowKinds
  <2>2. txn' = [txn EXCEPT ![w] = t]
    BY <1>3 DEF Start
  <2> HIDE DEF t
  <2> QED BY <1>3, <2>1, <2>2, StartStep
\* The commits of this group keep or mark the entries.
<1>4. ASSUME Finish(w), UNCHANGED <<entry, items, mov>> PROVE RInv' /\ Frame
  <2>1. Frame /\ DataInv'
    BY <1>4, <1>t DEF Frame, DataInv, EntryInv, MovInv, OnceInv, Exists
  <2> QED BY <1>4, <2>1, FinishStep
<1>5. ASSUME Finish(w), UNCHANGED <<items, mov>>,
             NEW m, NEW from \in {"POSTED", "CLOSED"}, NEW to \in {"POSTED", "CLOSED"},
             NEW closed, MarkEntries(m, from, to, closed)
      PROVE  RInv' /\ Frame
  <2>1. Frame /\ DataInv'
    BY <1>5, <1>t, MarkFrame, MarkData
  <2> QED BY <1>5, <2>1, FinishStep
<1>6. ASSUME CommitTax(w) PROVE RInv' /\ Frame
  BY <1>4, <1>6 DEF CommitTax
<1>7. ASSUME CommitCloseAcc(w) PROVE RInv' /\ Frame
  BY <1>4, <1>5, <1>7 DEF CommitCloseAcc, SaveAcc
<1>8. ASSUME CommitReopenAcc(w) PROVE RInv' /\ Frame
  BY <1>4, <1>5, <1>8 DEF CommitReopenAcc, SaveAcc
<1>9. ASSUME CommitDeclare(w) \/ CommitUpdateF29(w) PROVE RInv' /\ Frame
  BY <1>4, <1>9 DEF CommitDeclare, CommitUpdateF29
<1>10. ASSUME NEW m \in Months, NEW due \in Dues, NEW op \in {"declare", "updateF29"},
              Start(w, [op |-> op, m |-> m, due |-> due]),
              UNCHANGED <<today, acc, tax, f29, entry, items, mov>>
       PROVE  RInv' /\ Frame
  <2> DEFINE t == [op |-> op, m |-> m, due |-> due]
  <2>1. Sound(t) /\ t.op # "annul"
    BY DEF Sound, RowKinds
  <2>2. txn' = [txn EXCEPT ![w] = t]
    BY <1>10 DEF Start
  <2> HIDE DEF t
  <2> QED BY <1>10, <2>1, <2>2, StartStep
<1> QED
  BY <1>1, <1>2, <1>3, <1>6, <1>7, <1>8, <1>9, <1>10
  DEF PeriodRequest, CheckDeclare, CheckUpdateF29, CheckCloseTax, CheckReopenTax, CheckCloseAcc, CheckReopenAcc

LEMMA ReversalStep == RInv /\ [Next]_vars => RInv' /\ Frame
<1> SUFFICES ASSUME RInv, [Next]_vars PROVE RInv' /\ Frame
  OBVIOUS
<1>t. TypeOK /\ TypeOK' /\ DataInv /\ Exclusive /\ \A w \in Workers : Sound(txn[w])
  BY TypeStep DEF RInv
<1>k. ASSUME UNCHANGED <<entry, items, mov, txn>> PROVE RInv' /\ Frame
  <2>1. Frame /\ DataInv' /\ Exclusive'
    BY <1>k, <1>t DEF Frame, DataInv, EntryInv, MovInv, OnceInv, Exclusive, Exists
  <2>2. \A w \in Workers : Sound(txn[w])'
    BY <1>k, <1>t DEF Sound
  <2> QED BY <1>t, <2>1, <2>2 DEF RInv
<1>1. ASSUME NEW e \in Entries, NEW d \in Months, NEW it \in NewItems,
             CreateEntry(e, d, it)
      PROVE  RInv' /\ Frame
  <2> DEFINE row == [Blank("DRAFT") EXCEPT !.date = d]
  <2>1. Insert(e, row, it) /\ UNCHANGED mov /\ txn' = txn
    BY <1>1 DEF CreateEntry
  <2>2. row.st = "DRAFT" /\ row.src = "MANUAL" /\ row.rev = NoEntry
    BY DEF Blank
  <2> HIDE DEF row
  <2>3. Frame /\ DataInv'
    BY <1>t, <2>1, <2>2, InsertFrame, InsertData
  <2>4. Exclusive'
    BY <1>t, <2>1 DEF Exclusive
  <2>5. \A w \in Workers : Sound(txn[w])'
    BY <1>t, <2>1, <2>3, SoundStable
  <2> QED BY <1>t, <2>3, <2>4, <2>5 DEF RInv
<1>2. ASSUME NEW w \in Workers, Rollback(w) PROVE RInv' /\ Frame
  <2>1. Finish(w) /\ UNCHANGED <<entry, items, mov>>
    BY <1>2 DEF Rollback
  <2>2. Frame /\ DataInv'
    BY <1>t, <2>1 DEF Frame, DataInv, EntryInv, MovInv, OnceInv, Exists
  <2> QED BY <1>t, <2>1, <2>2, FinishStep
<1>3. CASE UNCHANGED vars
  BY <1>3, <1>k DEF vars
<1>4. ASSUME NEW m \in Months, NEW st \in {"OPEN", "CLOSED"}, RawAcc(m, st)
      PROVE  RInv' /\ Frame
  <2>1. ASSUME UNCHANGED entry PROVE RInv' /\ Frame
    BY <1>4, <1>k, <2>1 DEF RawAcc
  <2>2. ASSUME NEW from \in {"POSTED", "CLOSED"}, NEW to \in {"POSTED", "CLOSED"},
               NEW closed, MarkEntries(m, from, to, closed)
        PROVE  RInv' /\ Frame
    <3>1. Frame /\ DataInv'
      BY <1>4, <1>t, <2>2, MarkFrame, MarkData DEF RawAcc
    <3>2. Exclusive'
      BY <1>4, <1>t DEF RawAcc, Exclusive
    <3>3. \A w \in Workers : Sound(txn[w])'
      BY <1>4, <1>t, <3>1, SoundStable DEF RawAcc
    <3> QED BY <1>t, <3>1, <3>2, <3>3 DEF RInv
  <2> QED BY <1>4, <2>1, <2>2 DEF RawAcc, SaveAcc
<1> QED
  BY <1>1, <1>2, <1>3, <1>4, <1>k, <1>t,
     EntryRequestStep, MovementRequestStep, PeriodRequestStep
  DEF Next, RawTax, OpenPeriod, NextMonth

LEMMA ReversalInductive == Spec => []RInv
BY InitRInv, ReversalStep, PTL DEF Spec

\* The entry of a treasury movement is reversed once at most, whatever runs
\* concurrently: lock_document makes the unlocked exists() of reverse_entry enough.
THEOREM ServiceOnce == Spec => []ServiceReversedOnce
<1>1. RInv => ServiceReversedOnce
  BY DEF RInv, DataInv, OnceInv, ServiceReversedOnce
<1> QED BY ReversalInductive, <1>1, PTL

\* The cancellation of a movement and the reversal of its entry commit together,
\* and the reversal is not lost afterwards.
THEOREM CancelledReversed == Spec => []CancelledIsReversed
<1>1. RInv => CancelledIsReversed
  <2> SUFFICES ASSUME RInv, NEW v \in Movements,
                      mov[v].st = "CANCELLED", mov[v].je # NoEntry
               PROVE  Reversed(mov[v].je)
    BY DEF CancelledIsReversed
  <2>1. PICK r \in Entries : entry[r].rev = mov[v].je
    BY DEF RInv, DataInv, MovInv
  <2>2. Exists(r)
    BY <2>1 DEF RInv, DataInv, EntryInv, Exists
  <2> QED BY <2>1, <2>2 DEF Reversed
<1> QED BY ReversalInductive, <1>1, PTL

\* No request, however stale the row it saves, alters or deletes a reversal.
THEOREM ReversalsStay == Spec => ReversalFinal
<1>1. RInv /\ [Next]_vars =>
        [\A e \in Entries : entry[e].st = "REVERSAL" =>
           /\ entry'[e].st = "REVERSAL"
           /\ entry'[e].date = entry[e].date
           /\ entry'[e].src = entry[e].src
           /\ items'[e] = items[e]]_vars
  BY ReversalStep DEF Frame
<1> QED BY ReversalInductive, <1>1, PTL DEF Spec, ReversalFinal

-----------------------------------------------------------------------------
(* A closed tax period is declared: a closing in flight has seen REGISTERED, *)
(* and nothing but the generic update takes a declaration back from there.   *)

DInv ==
  /\ TypeOK
  /\ TaxClosedIsDeclared
  /\ \A w \in Workers :
       /\ txn[w].op = "closeTax" => f29[txn[w].m].st = "REGISTERED"
       /\ txn[w].op = "updateF29" => RawWrites

LEMMA WithPeriodEffect ==
  ASSUME NEW a \in [Months -> PeriodStatus], NEW m
  PROVE  \A n \in Months : WithPeriod(a, m)[n] = "CLOSED" <=> a[n] = "CLOSED"
BY DEF WithPeriod

LEMMA TxnStep ==
  ASSUME TypeOK, NEW w \in Workers, NEW t, txn' = [txn EXCEPT ![w] = t]
  PROVE  txn'[w] = t /\ \A u \in Workers : u # w => txn'[u] = txn[u]
BY DEF TypeOK

\* A request starts, or ends without touching tax and f29.
LEMMA DeclaredFrame ==
  ASSUME DInv, TypeOK', NEW w \in Workers, NEW t,
         txn' = [txn EXCEPT ![w] = t],
         t.op = "closeTax" => f29[t.m].st = "REGISTERED",
         t.op = "updateF29" => RawWrites,
         UNCHANGED <<tax, f29>>
  PROVE  DInv'
<1>1. txn'[w] = t /\ \A u \in Workers : u # w => txn'[u] = txn[u]
  BY TxnStep DEF DInv
<1> QED BY <1>1 DEF DInv, TaxClosedIsDeclared

LEMMA DeclaredStep == ASSUME ~ RawWrites PROVE DInv /\ [Next]_vars => DInv'
<1> SUFFICES ASSUME DInv, [Next]_vars PROVE DInv'
  OBVIOUS
<1>t. TypeOK /\ TypeOK'
  BY TypeStep DEF DInv
<1>1. ASSUME NEW w \in Workers, EntryRequest(w) PROVE DInv'
  BY <1>1, <1>t, DeclaredFrame
  DEF EntryRequest, ReadDraft, CheckEdit, CommitEdit, CheckPost, CommitPost,
      CommitDestroy, CheckReverse, CommitInsert, Start, Finish, Idle
<1>2. ASSUME NEW w \in Workers, MovementRequest(w) PROVE DInv'
  BY <1>2, <1>t, DeclaredFrame
  DEF MovementRequest, CheckMovement, CheckPayment, CommitMovement, AnnulReverse,
      AnnulUnposted, CommitAnnulReverse, CommitAnnulUnposted, Start, Finish, Idle
<1>3. ASSUME NEW w \in Workers, PeriodRequest(w) PROVE DInv'
  <2>1. ASSUME NEW e \in Entries, CommitRegister(w, e) PROVE DInv'
    <3>1. txn[w].m \in Months
      BY <2>1, <1>t, RequestKinds DEF CommitRegister
    <3>3. f29'[txn[w].m].st = "REGISTERED"
      BY <2>1, <1>t, <3>1 DEF CommitRegister, TypeOK
    <3>4. \A m \in Months : m # txn[w].m => f29'[m] = f29[m]
      BY <2>1, <1>t DEF CommitRegister, TypeOK
    <3>5. txn'[w] = Idle /\ \A u \in Workers : u # w => txn'[u] = txn[u]
      BY <2>1, <1>t, TxnStep DEF CommitRegister, Finish
    <3> QED BY <2>1, <1>t, <3>3, <3>4, <3>5, RequestKinds
            DEF DInv, TaxClosedIsDeclared, CommitRegister, Idle
  <2>2. ASSUME CommitTax(w) PROVE DInv'
    <3>1. txn[w].m \in Months
      BY <2>2, <1>t, RequestKinds DEF CommitTax
    <3>2. /\ tax'[txn[w].m] = IF txn[w].op = "closeTax" THEN "CLOSED" ELSE "OPEN"
          /\ \A m \in Months : m # txn[w].m => tax'[m] = tax[m]
      BY <2>2, <1>t, <3>1 DEF CommitTax, TypeOK
    <3>3. txn'[w] = Idle /\ \A u \in Workers : u # w => txn'[u] = txn[u]
      BY <2>2, <1>t, TxnStep DEF CommitTax, Finish
    <3> QED BY <2>2, <1>t, <3>1, <3>2, <3>3
            DEF DInv, TaxClosedIsDeclared, CommitTax, Idle
  <2>3. ASSUME CommitDeclare(w) PROVE DInv'
    <3>1. txn[w].m \in Months
      BY <2>3, <1>t, RequestKinds DEF CommitDeclare
    <3>2. \A n \in Months : f29[n].st = "REGISTERED" => f29'[n].st = "REGISTERED"
      BY <2>3, <1>t, <3>1 DEF CommitDeclare, TypeOK
    <3>3. \A n \in Months : tax'[n] = "CLOSED" => tax[n] = "CLOSED"
      BY <2>3, <1>t, WithPeriodEffect DEF CommitDeclare, TypeOK
    <3>4. txn'[w] = Idle /\ \A u \in Workers : u # w => txn'[u] = txn[u]
      BY <2>3, <1>t, TxnStep DEF CommitDeclare, Finish
    <3> QED BY <1>t, <3>2, <3>3, <3>4, RequestKinds DEF DInv, TaxClosedIsDeclared, Idle
  <2>4. ~ CommitUpdateF29(w)
    BY DEF DInv, CommitUpdateF29
  <2> QED
    BY <1>3, <1>t, <2>1, <2>2, <2>3, <2>4, DeclaredFrame
    DEF PeriodRequest, CheckDeclare, CheckUpdateF29, CheckRegister, CheckCloseTax, CheckReopenTax, CheckCloseAcc,
        CheckReopenAcc, CommitCloseAcc, CommitReopenAcc, Start, Finish, Idle
<1>5. ASSUME NEW w \in Workers, Rollback(w) PROVE DInv'
  BY <1>5, <1>t, DeclaredFrame DEF Rollback, Finish, Idle
<1>6. ASSUME UNCHANGED <<tax, f29, txn>> PROVE DInv'
  BY <1>6, <1>t DEF DInv, TaxClosedIsDeclared
<1> QED
  BY <1>1, <1>2, <1>3, <1>5, <1>6
  DEF Next, CreateEntry, RawTax, RawAcc, OpenPeriod, NextMonth, vars

\* Unless the generic update of the viewsets is used, a tax period is closed only
\* over a registered declaration, which no later recalculation takes back, under
\* any interleaving of requests.
THEOREM TaxDeclared == ASSUME ~ RawWrites PROVE Spec => []TaxClosedIsDeclared
<1>1. Init => DInv
  BY InitType DEF Init, DInv, TaxClosedIsDeclared, Idle
<1>2. DInv => TaxClosedIsDeclared
  BY DEF DInv
<1> QED BY <1>1, <1>2, DeclaredStep, PTL DEF Spec

-----------------------------------------------------------------------------
(* CLOSED entries lie in closed months: closing and reopening mark by date,  *)
(* and no row that a request still holds can write CLOSED back.              *)

LEMMA ClosedFrame ==
  ASSUME ClosedEntryInClosedMonth, TypeOK, TypeOK',
         \A e \in Entries : entry'[e].st = "CLOSED" =>
           /\ entry[e].st = "CLOSED" /\ entry'[e].date = entry[e].date
           /\ entry'[e].pc = entry[e].pc,
         \A m \in Months : acc[m] = "CLOSED" => acc'[m] = "CLOSED"
  PROVE  ClosedEntryInClosedMonth'
BY DEF ClosedEntryInClosedMonth, TypeOK, Row

LEMMA DeleteEffect ==
  ASSUME TypeOK, NEW e, Delete(e), NEW x \in Entries, entry'[x].st # "DELETED"
  PROVE  /\ entry'[x].st = entry[x].st /\ entry'[x].date = entry[x].date
         /\ entry'[x].pc = entry[x].pc /\ entry'[x].src = entry[x].src
         /\ items'[x] = items[x]
<1>1. CASE x = e
  <2>1. entry'[x] = Blank("DELETED")
    BY <1>1 DEF Delete
  <2> QED BY <2>1 DEF Blank
<1>2. CASE x # e
  BY <1>2 DEF Delete, TypeOK, Row
<1> QED BY <1>1, <1>2

LEMMA ClosedStep == RInv /\ ClosedEntryInClosedMonth /\ [Next]_vars => ClosedEntryInClosedMonth'
<1> SUFFICES ASSUME RInv, ClosedEntryInClosedMonth, [Next]_vars
             PROVE  ClosedEntryInClosedMonth'
  OBVIOUS
<1>t. TypeOK /\ TypeOK' /\ \A w \in Workers : Sound(txn[w])
  BY TypeStep DEF RInv
<1>a. \A m, n \in Months : acc[n] = "CLOSED" => WithPeriod(acc, m)[n] = "CLOSED"
  BY <1>t, WithPeriodEffect DEF TypeOK
<1>0. ASSUME UNCHANGED entry, \A m \in Months : acc[m] = "CLOSED" => acc'[m] = "CLOSED"
      PROVE  ClosedEntryInClosedMonth'
  BY <1>0, <1>t, ClosedFrame
\* Rows inserted or overwritten are not CLOSED.
<1>i. ASSUME NEW e \in Entries, NEW row, row.st # "CLOSED",
             entry' = [entry EXCEPT ![e] = row],
             NEW m \in Months, acc' = WithPeriod(acc, m)
      PROVE  ClosedEntryInClosedMonth'
  <2>1. entry'[e] = row /\ \A x \in Entries : x # e => entry'[x] = entry[x]
    BY <1>i, <1>t DEF TypeOK
  <2> QED BY <1>i, <1>t, <1>a, <2>1, ClosedFrame
\* Closing marks what lies in the month CLOSED, reopening marks it POSTED.
<1>s. ASSUME NEW m \in Months, NEW st \in {"OPEN", "CLOSED"}, SaveAcc(m, st)
      PROVE  ClosedEntryInClosedMonth'
  <2>1. acc'[m] = st /\ \A n \in Months : n # m => acc'[n] = acc[n]
    BY <1>s, <1>t DEF SaveAcc, TypeOK
  <2>2. CASE acc[m] = st /\ UNCHANGED entry
    BY <1>0, <2>1, <2>2
  <2>3. CASE st = "CLOSED" /\ MarkEntries(m, "POSTED", "CLOSED", TRUE)
    <3>1. \A e \in Entries :
            /\ entry'[e].date = entry[e].date
            /\ entry'[e].st = "CLOSED" =>
                 \/ entry[e].date = m /\ entry'[e].pc
                 \/ entry[e].st = "CLOSED" /\ entry'[e].pc = entry[e].pc
      BY <1>t, <2>3 DEF MarkEntries, Exists, TypeOK, Row
    <3> QED BY <1>t, <2>1, <2>3, <3>1 DEF ClosedEntryInClosedMonth, TypeOK, Row
  <2>4. CASE st = "OPEN" /\ MarkEntries(m, "CLOSED", "POSTED", FALSE)
    <3>1. \A e \in Entries :
            /\ entry'[e].date = entry[e].date
            /\ entry'[e].st = "CLOSED" =>
                 /\ entry[e].date # m
                 /\ entry[e].st = "CLOSED" /\ entry'[e].pc = entry[e].pc
      BY <1>t, <2>4 DEF MarkEntries, Exists, TypeOK, Row
    <3> QED BY <1>t, <2>1, <3>1 DEF ClosedEntryInClosedMonth, TypeOK, Row
  <2> QED BY <1>s, <2>2, <2>3, <2>4 DEF SaveAcc
<1>1. ASSUME NEW w \in Workers, EntryRequest(w) PROVE ClosedEntryInClosedMonth'
  <2>1. ASSUME CommitEdit(w) \/ CommitPost(w) PROVE ClosedEntryInClosedMonth'
    <3>1. txn[w].e \in Entries /\ txn[w].row \in Row /\ txn[w].row.st \in {"DRAFT", "POSTED"}
      BY <2>1, <1>t, RequestKinds DEF CommitEdit, CommitPost, Sound, RowKinds
    <3>2. /\ entry' = [entry EXCEPT ![txn[w].e] = txn[w].row]
          /\ acc' = WithPeriod(acc, txn[w].row.fk)
      BY <2>1 DEF CommitEdit, CommitPost
    <3>3. CASE txn[w].row.fk \in Months
      BY <1>i, <3>1, <3>2, <3>3
    <3>4. CASE txn[w].row.fk \notin Months
      <4>1. acc' = acc
        BY <3>2, <3>4, <1>t DEF WithPeriod, TypeOK
      <4>2. entry'[txn[w].e] = txn[w].row
            /\ \A x \in Entries : x # txn[w].e => entry'[x] = entry[x]
        BY <3>1, <3>2, <1>t DEF TypeOK
      <4> QED BY <1>t, <3>1, <4>1, <4>2, ClosedFrame
    <3> QED BY <3>3, <3>4
  <2>2. ASSUME CommitDestroy(w) PROVE ClosedEntryInClosedMonth'
    <3>1. Delete(txn[w].e) /\ acc' = acc
      BY <2>2 DEF CommitDestroy
    <3> QED BY <1>t, <3>1, DeleteEffect, ClosedFrame
  <2>3. ASSUME NEW e \in Entries, CommitInsert(w, e) PROVE ClosedEntryInClosedMonth'
    <3>1. txn[w].row.st = "REVERSAL"
      BY <2>3, <1>t DEF CommitInsert, Sound
    <3>2. entry' = [entry EXCEPT ![e] = txn[w].row] /\ acc' = WithPeriod(acc, txn[w].row.fk)
      BY <2>3 DEF CommitInsert, Insert
    <3>3. entry'[e] = txn[w].row /\ \A x \in Entries : x # e => entry'[x] = entry[x]
      BY <3>2, <1>t DEF TypeOK
    <3>4. \A n \in Months : acc[n] = "CLOSED" => acc'[n] = "CLOSED"
      BY <3>2, <1>t, WithPeriodEffect DEF TypeOK
    <3> QED BY <1>t, <3>1, <3>3, <3>4, ClosedFrame
  <2> QED
    BY <1>1, <2>1, <2>2, <2>3, <1>0
    DEF EntryRequest, ReadDraft, CheckEdit, CheckPost, CheckReverse
<1>2. ASSUME NEW w \in Workers, MovementRequest(w) PROVE ClosedEntryInClosedMonth'
  <2>1. ASSUME NEW e \in Entries,
               \/ CommitAnnulReverse(w, e)
               \/ \E v \in Movements : CommitMovement(w, v, e)
        PROVE  ClosedEntryInClosedMonth'
    <3>1. txn[w].row.st \in {"REVERSAL", "POSTED"}
      BY <2>1, <1>t DEF CommitAnnulReverse, CommitMovement, Sound
    <3>2. entry' = [entry EXCEPT ![e] = txn[w].row] /\ acc' = WithPeriod(acc, txn[w].row.fk)
      BY <2>1 DEF CommitAnnulReverse, CommitMovement, Insert
    <3>3. entry'[e] = txn[w].row /\ \A x \in Entries : x # e => entry'[x] = entry[x]
      BY <3>2, <1>t DEF TypeOK
    <3>4. \A n \in Months : acc[n] = "CLOSED" => acc'[n] = "CLOSED"
      BY <3>2, <1>t, WithPeriodEffect DEF TypeOK
    <3> QED BY <1>t, <3>1, <3>3, <3>4, ClosedFrame
  <2>2. ASSUME CommitAnnulUnposted(w) PROVE ClosedEntryInClosedMonth'
    <3>1. acc' = acc /\ (Delete(mov[txn[w].v].je) \/ UNCHANGED entry)
      BY <2>2 DEF CommitAnnulUnposted
    <3> QED BY <1>t, <1>0, <3>1, DeleteEffect, ClosedFrame
  <2> QED
    BY <1>2, <2>1, <2>2, <1>0
    DEF MovementRequest, CheckMovement, CheckPayment, AnnulReverse, AnnulUnposted
<1>3. ASSUME NEW w \in Workers, PeriodRequest(w) PROVE ClosedEntryInClosedMonth'
  <2>1. ASSUME NEW e \in Entries, CommitRegister(w, e) PROVE ClosedEntryInClosedMonth'
    <3>1. txn[w].row.st = "POSTED" /\ txn[w].m \in Months
      BY <2>1, <1>t, RequestKinds DEF CommitRegister, Sound
    <3>2. entry' = [entry EXCEPT ![e] = txn[w].row] /\ acc' = WithPeriod(acc, txn[w].m)
      BY <2>1 DEF CommitRegister, Insert
    <3> QED BY <1>i, <3>1, <3>2
  <2>2. ASSUME CommitCloseAcc(w) PROVE ClosedEntryInClosedMonth'
    BY <2>2, <1>t, <1>s, RequestKinds DEF CommitCloseAcc
  <2>3. ASSUME CommitReopenAcc(w) PROVE ClosedEntryInClosedMonth'
    BY <2>3, <1>t, <1>s, RequestKinds DEF CommitReopenAcc
  <2>4. ASSUME CommitDeclare(w) \/ CommitUpdateF29(w) PROVE ClosedEntryInClosedMonth'
    BY <2>4, <1>0 DEF CommitDeclare, CommitUpdateF29
  <2> QED
    BY <1>3, <2>1, <2>2, <2>3, <2>4, <1>0
    DEF PeriodRequest, CheckDeclare, CheckUpdateF29, CheckRegister, CheckCloseTax, CheckReopenTax, CommitTax,
        CheckCloseAcc, CheckReopenAcc
<1>4. ASSUME NEW e \in Entries, NEW d \in Months, NEW it \in NewItems,
             CreateEntry(e, d, it)
      PROVE  ClosedEntryInClosedMonth'
  <2>1. entry'[e].st = "DRAFT" /\ \A x \in Entries : x # e => entry'[x] = entry[x]
    BY <1>4, <1>t DEF CreateEntry, Insert, Blank, TypeOK
  <2> QED BY <1>4, <1>t, <2>1, ClosedFrame DEF CreateEntry
<1>5. ASSUME NEW m \in Months, OpenPeriod(m) PROVE ClosedEntryInClosedMonth'
  BY <1>5, <1>0, <1>a DEF OpenPeriod
<1>6. ASSUME NEW m \in Months, NEW st \in {"OPEN", "CLOSED"}, RawAcc(m, st)
      PROVE  ClosedEntryInClosedMonth'
  BY <1>6, <1>s DEF RawAcc
<1> QED
  BY <1>0, <1>1, <1>2, <1>3, <1>4, <1>5, <1>6
  DEF Next, RawTax, NextMonth, Rollback, vars

\* The signal that marks entries by date and the requests that save whole rows
\* agree: a CLOSED entry lies in a closed month and is flagged so, whatever
\* interleaves with the closing and the reopening.
THEOREM ClosedInClosed == Spec => []ClosedEntryInClosedMonth
<1>1. Init => ClosedEntryInClosedMonth
  BY DEF Init, Blank, ClosedEntryInClosedMonth
<1> QED BY <1>1, ReversalInductive, ClosedStep, PTL DEF Spec

-----------------------------------------------------------------------------
(* Serial executions.  Without row locks in close_period and in the posting  *)
(* of entries, what a check saw stays true only while nothing else commits:  *)
(* with one worker.  The runs of two workers show both theorems failing.  The *)
(* generic update sets the locks past every guard and is left out of the first.*)

Serial == \A w, u \in Workers : w = u

\* What the period requests have seen, of the other period.
SeenPeriods ==
  \A w \in Workers :
    /\ txn[w].op = "closeAcc" => tax[txn[w].m] = "CLOSED"
    /\ txn[w].op = "reopenTax" => acc[txn[w].m] # "CLOSED"

NInv == TypeOK /\ AccountingNeedsTax /\ SeenPeriods

\* Steps that close no books, reopen no tax period and start no period request.
LEMMA NestFrame ==
  ASSUME NInv, TypeOK', NEW w \in Workers,
         txn'[w].op \notin {"closeAcc", "reopenTax"},
         \A u \in Workers : u # w => txn'[u] = txn[u],
         \A n \in Months : tax[n] = "CLOSED" => tax'[n] = "CLOSED",
         \A n \in Months : acc'[n] = "CLOSED" => acc[n] = "CLOSED"
  PROVE  NInv'
<1>1. \A u \in Workers : txn[u].op \in {"closeAcc", "reopenTax"} => txn[u].m \in Months
  BY RequestKinds DEF NInv
<1> QED BY <1>1 DEF NInv, AccountingNeedsTax, SeenPeriods

LEMMA NestStep == ASSUME Serial, ~ RawWrites PROVE NInv /\ [Next]_vars => NInv'
<1> SUFFICES ASSUME NInv, [Next]_vars PROVE NInv'
  OBVIOUS
<1>t. TypeOK /\ TypeOK'
  BY TypeStep DEF NInv
<1>a. \A m, n \in Months : /\ WithPeriod(acc, m)[n] = "CLOSED" <=> acc[n] = "CLOSED"
                           /\ WithPeriod(tax, m)[n] = "CLOSED" <=> tax[n] = "CLOSED"
  BY <1>t, WithPeriodEffect DEF TypeOK
<1>b. \A m : \A n \in Months : WithPeriod(acc, m)[n] = "CLOSED" => acc[n] = "CLOSED"
  BY <1>t, WithPeriodEffect DEF TypeOK
<1>1. ASSUME NEW w \in Workers, EntryRequest(w) PROVE NInv'
  <2>1. tax' = tax /\ (acc' = acc \/ acc' = WithPeriod(acc, txn[w].row.fk))
    BY <1>1
    DEF EntryRequest, ReadDraft, CheckEdit, CommitEdit, CheckPost, CommitPost,
        CommitDestroy, CheckReverse, CommitInsert
  <2>2. /\ txn'[w].op \notin {"closeAcc", "reopenTax"}
        /\ \A u \in Workers : u # w => txn'[u] = txn[u]
    <3> DEFINE Others == \A u \in Workers : u # w => txn'[u] = txn[u]
               Plain == txn'[w].op \notin {"closeAcc", "reopenTax"} /\ Others
    <3>1. ASSUME NEW e \in Entries, NEW op \in {"edit", "post", "destroy"},
                 ReadDraft(w, e, op)
          PROVE  Plain
      BY <3>1, <1>t DEF ReadDraft, Start, TypeOK
    <3>2. ASSUME NEW d \in Months, NEW it \in NewItems \cup {"keep"},
                 CheckEdit(w, d, it)
          PROVE  Plain
      BY <3>2, <1>t DEF CheckEdit, TypeOK
    <3>3. ASSUME CheckPost(w) PROVE Plain
      BY <3>3, <1>t DEF CheckPost, TypeOK
    <3>4. ASSUME NEW e \in Entries, CheckReverse(w, e) PROVE Plain
      BY <3>4, <1>t DEF CheckReverse, Start, TypeOK
    <3>5. ASSUME Finish(w) PROVE Plain
      BY <3>5, <1>t DEF Finish, Idle, TypeOK
    <3> QED
      BY <1>1, <3>1, <3>2, <3>3, <3>4, <3>5
      DEF EntryRequest, CommitEdit, CommitPost, CommitDestroy, CommitInsert
  <2>3. \A n \in Months : (tax[n] = "CLOSED" => tax'[n] = "CLOSED")
                          /\ (acc'[n] = "CLOSED" => acc[n] = "CLOSED")
    BY <1>b, <2>1
  <2> QED BY <1>t, <2>2, <2>3, NestFrame
<1>2. ASSUME NEW w \in Workers, MovementRequest(w) PROVE NInv'
  <2>1. tax' = tax /\ (acc' = acc \/ acc' = WithPeriod(acc, txn[w].row.fk))
    BY <1>2
    DEF MovementRequest, CheckMovement, CheckPayment, CommitMovement, AnnulReverse,
        AnnulUnposted, CommitAnnulReverse, CommitAnnulUnposted
  <2>2. /\ txn'[w].op \notin {"closeAcc", "reopenTax"}
        /\ \A u \in Workers : u # w => txn'[u] = txn[u]
    BY <1>2, <1>t
    DEF MovementRequest, CheckMovement, CheckPayment, CommitMovement, AnnulReverse,
        AnnulUnposted, CommitAnnulReverse, CommitAnnulUnposted, Start, Finish, Idle,
        TypeOK
  <2>3. \A n \in Months : (tax[n] = "CLOSED" => tax'[n] = "CLOSED")
                          /\ (acc'[n] = "CLOSED" => acc[n] = "CLOSED")
    BY <1>b, <2>1
  <2> QED BY <1>t, <2>2, <2>3, NestFrame
<1>3. ASSUME NEW w \in Workers, PeriodRequest(w) PROVE NInv'
  \* A check of the one worker there is.
  <2>1. ASSUME NEW m \in Months, CheckCloseAcc(w, m) \/ CheckReopenTax(w, m) PROVE NInv'
    <3>1. \A u \in Workers : u = w
      BY DEF Serial
    <3>2. \/ txn'[w] = [op |-> "closeAcc", m |-> m] /\ tax[m] = "CLOSED"
          \/ txn'[w] = [op |-> "reopenTax", m |-> m] /\ acc[m] # "CLOSED"
      BY <2>1, <1>t DEF CheckCloseAcc, CheckReopenTax, CanReopenTax, Start, TypeOK
    <3>3. UNCHANGED <<acc, tax>>
      BY <2>1 DEF CheckCloseAcc, CheckReopenTax
    <3> QED BY <1>t, <3>1, <3>2, <3>3 DEF NInv, AccountingNeedsTax, SeenPeriods
  <2>2. ASSUME CommitTax(w) PROVE NInv'
    <3>1. txn[w].m \in Months
      BY <2>2, <1>t, RequestKinds DEF CommitTax
    <3>2. /\ tax'[txn[w].m] = IF txn[w].op = "closeTax" THEN "CLOSED" ELSE "OPEN"
          /\ \A m \in Months : m # txn[w].m => tax'[m] = tax[m]
          /\ acc' = acc
      BY <2>2, <1>t, <3>1 DEF CommitTax, TypeOK
    <3>3. \A u \in Workers : txn'[u] = Idle
      BY <2>2, <1>t, TxnStep DEF Serial, CommitTax, Finish
    <3>4. AccountingNeedsTax'
      BY <2>2, <3>1, <3>2 DEF NInv, SeenPeriods, AccountingNeedsTax, CommitTax
    <3> QED BY <1>t, <3>3, <3>4 DEF NInv, SeenPeriods, Idle
  <2>3. ASSUME CommitCloseAcc(w) PROVE NInv'
    <3>1. txn[w].m \in Months
      BY <2>3, <1>t, RequestKinds DEF CommitCloseAcc
    <3>2. /\ \A m \in Months : m # txn[w].m => acc'[m] = acc[m]
          /\ tax' = tax
      BY <2>3, <1>t, <3>1 DEF CommitCloseAcc, SaveAcc, TypeOK
    <3>3. \A u \in Workers : txn'[u] = Idle
      BY <2>3, <1>t, TxnStep DEF Serial, CommitCloseAcc, Finish
    <3>4. AccountingNeedsTax'
      BY <2>3, <3>1, <3>2 DEF NInv, SeenPeriods, AccountingNeedsTax, CommitCloseAcc
    <3> QED BY <1>t, <3>3, <3>4 DEF NInv, SeenPeriods, Idle
  <2>4. ASSUME CommitReopenAcc(w) PROVE NInv'
    <3>1. \A n \in Months : acc'[n] = "CLOSED" => acc[n] = "CLOSED"
      BY <2>4, <1>t DEF CommitReopenAcc, SaveAcc, TypeOK
    <3> QED BY <2>4, <1>t, <3>1, NestFrame DEF CommitReopenAcc, Finish, Idle, TypeOK
  <2>5. ASSUME NEW e \in Entries, CommitRegister(w, e) PROVE NInv'
    BY <2>5, <1>t, <1>b, NestFrame DEF CommitRegister, Finish, Idle, TypeOK
  <2>6. ASSUME CommitDeclare(w) PROVE NInv'
    <3>1. txn[w].m \in Months
      BY <2>6, <1>t, RequestKinds DEF CommitDeclare
    <3> QED BY <2>6, <1>t, <1>a, <3>1, NestFrame DEF CommitDeclare, Finish, Idle, TypeOK
  <2>7. ASSUME CommitUpdateF29(w) PROVE NInv'
    BY <2>7, <1>t, NestFrame DEF CommitUpdateF29, Finish, Idle, TypeOK
  <2> QED
    BY <1>3, <1>t, <2>1, <2>2, <2>3, <2>4, <2>5, <2>6, <2>7, NestFrame
    DEF PeriodRequest, CheckDeclare, CheckUpdateF29, CheckRegister, CheckCloseTax, CheckReopenAcc, Start, TypeOK
<1>4. ASSUME UNCHANGED txn,
             \A n \in Months : tax[n] = "CLOSED" => tax'[n] = "CLOSED",
             \A n \in Months : acc'[n] = "CLOSED" => acc[n] = "CLOSED"
      PROVE  NInv'
  <2>1. \A u \in Workers : txn[u].op \in {"closeAcc", "reopenTax"} => txn[u].m \in Months
    BY <1>t, RequestKinds
  <2> QED BY <1>4, <1>t, <2>1 DEF NInv, AccountingNeedsTax, SeenPeriods
<1>6. ASSUME NEW m \in Months, OpenPeriod(m) PROVE NInv'
  BY <1>4, <1>6, <1>a DEF OpenPeriod
<1>7. ASSUME NEW w \in Workers, Rollback(w) PROVE NInv'
  BY <1>7, <1>t, NestFrame DEF Rollback, Finish, Idle, TypeOK
<1>8. ASSUME UNCHANGED <<acc, tax, txn>> PROVE NInv'
  BY <1>4, <1>8
<1> QED
  BY <1>1, <1>2, <1>3, <1>6, <1>7, <1>8
  DEF Next, CreateEntry, RawTax, RawAcc, NextMonth, vars

\* The two month locks nest: unless the generic update of the viewsets is used,
\* through any sequence of requests that do not overlap,
\* the books are closed only over a closed tax period (close_period and the
\* symmetry guards of the two reopenings).
THEOREM LocksNest == ASSUME Serial, ~ RawWrites PROVE Spec => []AccountingNeedsTax
<1>1. Init => NInv
  BY InitType DEF Init, NInv, AccountingNeedsTax, SeenPeriods, Idle
<1>2. NInv /\ [Next]_vars => NInv'
  BY NestStep
<1>3. NInv => AccountingNeedsTax
  BY DEF NInv
<1> QED BY <1>1, <1>2, <1>3, PTL DEF Spec

\* What a request of the ledger has seen of the items.
SeenItems(t) ==
  /\ t.op \in RowKinds => entry[t.e].st = "DRAFT"
  /\ t.op \in {"edit", "editing"} => t.row.st = "DRAFT"
  /\ t.op = "posting" => items[t.e] = "balanced"
  /\ t.op = "insert" => t.it = "balanced"
  /\ t.op = "annul" /\ t.how = "reverse" => t.it = "balanced"
  /\ t.op = "register" => t.row.src = "F29"

BInv == TypeOK /\ BooksBalance /\ \A w \in Workers : SeenItems(txn[w])

LEMMA BooksStart ==
  ASSUME Serial, BInv, TypeOK', NEW w \in Workers, NEW t,
         txn' = [txn EXCEPT ![w] = t], UNCHANGED <<entry, items>>, SeenItems(t)
  PROVE  BInv'
<1>1. \A u \in Workers : txn'[u] = t
  BY TxnStep DEF Serial, BInv
<1> QED BY <1>1 DEF BInv, BooksBalance, SeenItems

LEMMA BooksFinish ==
  ASSUME Serial, BInv, TypeOK', NEW w \in Workers, Finish(w), BooksBalance'
  PROVE  BInv'
<1>1. \A u \in Workers : txn'[u] = Idle
  BY TxnStep DEF Serial, BInv, Finish
<1> QED BY <1>1 DEF BInv, SeenItems, RowKinds, Idle

LEMMA BooksInsert ==
  ASSUME BInv, NEW e \in Entries, NEW row, NEW it, Insert(e, row, it),
         row.st \in Affecting /\ row.src # "F29" => it = "balanced"
  PROVE  BooksBalance'
BY DEF BInv, BooksBalance, Insert, TypeOK

LEMMA BooksDelete ==
  ASSUME BInv, NEW e, Delete(e) PROVE BooksBalance'
BY DeleteEffect DEF BInv, BooksBalance, Affecting

LEMMA BooksMark ==
  ASSUME BInv, NEW m, NEW from \in {"POSTED", "CLOSED"}, NEW to \in {"POSTED", "CLOSED"},
         NEW closed, MarkEntries(m, from, to, closed), UNCHANGED items
  PROVE  BooksBalance'
<1>1. \A e \in Entries : entry'[e].st \in Affecting => entry[e].st \in Affecting
  BY MarkEffect DEF BInv, Affecting
<1>2. \A e \in Entries : entry'[e].src = entry[e].src
  BY MarkEffect DEF BInv
<1> QED BY <1>1, <1>2 DEF BInv, BooksBalance

LEMMA BooksStep == ASSUME Serial PROVE BInv /\ [Next]_vars => BInv'
<1> SUFFICES ASSUME BInv, [Next]_vars PROVE BInv'
  OBVIOUS
<1>t. TypeOK /\ TypeOK' /\ BooksBalance /\ \A w \in Workers : SeenItems(txn[w])
  BY TypeStep DEF BInv
<1>k. ASSUME UNCHANGED <<entry, items>> PROVE BooksBalance'
  BY <1>k, <1>t DEF BooksBalance
<1>1. ASSUME NEW w \in Workers, EntryRequest(w) PROVE BInv'
  <2>1. ASSUME NEW e \in Entries, NEW op \in {"edit", "post", "destroy"},
               ReadDraft(w, e, op)
        PROVE  BInv'
    <3>1. SeenItems([op |-> op, e |-> e, row |-> entry[e]])
      BY <2>1 DEF ReadDraft, SeenItems, RowKinds
    <3> QED BY <1>t, <2>1, <3>1, BooksStart DEF ReadDraft, Start
  <2>2. ASSUME NEW d \in Months, NEW it \in NewItems \cup {"keep"},
               CheckEdit(w, d, it)
        PROVE  BInv'
    <3> DEFINE row == [txn[w].row EXCEPT !.date = d]
               t == [op |-> "editing", e |-> txn[w].e, row |-> SavedRow(row), it |-> it]
    <3>1. SavedRow(row).st = "DRAFT"
      BY <2>2, <1>t, RequestKinds DEF CheckEdit, SeenItems, SavedRow, Row
    <3>2. SeenItems(t)
      BY <2>2, <1>t, <3>1 DEF CheckEdit, SeenItems, RowKinds
    <3>3. txn' = [txn EXCEPT ![w] = t] /\ UNCHANGED <<entry, items>>
      BY <2>2 DEF CheckEdit
    <3> HIDE DEF t
    <3> QED BY <1>t, <3>2, <3>3, BooksStart
  <2>3. ASSUME CommitEdit(w) PROVE BInv'
    <3>1. txn[w].e \in Entries /\ txn[w].row.st = "DRAFT"
      BY <2>3, <1>t, RequestKinds DEF CommitEdit, SeenItems
    <3>2. BooksBalance'
      BY <2>3, <1>t, <3>1 DEF CommitEdit, BooksBalance, Affecting, TypeOK
    <3> QED BY <2>3, <1>t, <3>2, BooksFinish DEF CommitEdit
  <2>4. ASSUME CheckPost(w) PROVE BInv'
    <3> DEFINE row == [txn[w].row EXCEPT !.st = "POSTED"]
               t == [op |-> "posting", e |-> txn[w].e, row |-> SavedRow(row)]
    <3>1. SeenItems(t)
      BY <2>4, <1>t DEF CheckPost, SeenItems, RowKinds
    <3>2. txn' = [txn EXCEPT ![w] = t] /\ UNCHANGED <<entry, items>>
      BY <2>4 DEF CheckPost
    <3> HIDE DEF t
    <3> QED BY <1>t, <3>1, <3>2, BooksStart
  <2>5. ASSUME CommitPost(w) PROVE BInv'
    <3>1. items[txn[w].e] = "balanced"
      BY <2>5, <1>t DEF CommitPost, SeenItems
    <3>2. BooksBalance'
      BY <2>5, <1>t, <3>1 DEF CommitPost, BooksBalance, TypeOK
    <3> QED BY <2>5, <1>t, <3>2, BooksFinish DEF CommitPost
  <2>6. ASSUME CommitDestroy(w) PROVE BInv'
    BY <2>6, <1>t, BooksDelete, BooksFinish DEF CommitDestroy
  <2>7. ASSUME NEW e \in Entries, CheckReverse(w, e) PROVE BInv'
    <3> DEFINE t == [op |-> "insert", row |-> ReversalRow(e), it |-> items[e]]
    <3>1. SeenItems(t)
      BY <2>7 DEF CheckReverse, CanReverse, SeenItems, RowKinds
    <3>2. txn' = [txn EXCEPT ![w] = t] /\ UNCHANGED <<entry, items>>
      BY <2>7 DEF CheckReverse, Start
    <3> HIDE DEF t
    <3> QED BY <1>t, <3>1, <3>2, BooksStart
  <2>8. ASSUME NEW e \in Entries, CommitInsert(w, e) PROVE BInv'
    <3>1. txn[w].it = "balanced"
      BY <2>8, <1>t DEF CommitInsert, SeenItems
    <3> QED BY <2>8, <1>t, <3>1, BooksInsert, BooksFinish DEF CommitInsert
  <2> QED BY <1>1, <2>1, <2>2, <2>3, <2>4, <2>5, <2>6, <2>7, <2>8 DEF EntryRequest
<1>2. ASSUME NEW w \in Workers, MovementRequest(w) PROVE BInv'
  <2>1. ASSUME NEW d, NEW owner,
               Start(w, [op |-> "pay", row |-> NewRow("POSTED", d, "SERVICE", NoEntry),
                         owner |-> owner]),
               UNCHANGED <<entry, items>>
        PROVE  BInv'
    <3> DEFINE t == [op |-> "pay", row |-> NewRow("POSTED", d, "SERVICE", NoEntry),
                     owner |-> owner]
    <3>1. SeenItems(t) /\ txn' = [txn EXCEPT ![w] = t]
      BY <2>1 DEF SeenItems, RowKinds, Start
    <3> HIDE DEF t
    <3> QED BY <1>t, <2>1, <3>1, BooksStart
  <2>2. ASSUME NEW v \in Movements, NEW e \in Entries, CommitMovement(w, v, e) PROVE BInv'
    BY <2>2, <1>t, BooksInsert, BooksFinish DEF CommitMovement
  <2>3. ASSUME NEW v \in Movements, AnnulReverse(w, v) PROVE BInv'
    <3> DEFINE t == [op |-> "annul", v |-> v, how |-> "reverse",
                     row |-> ReversalRow(mov[v].je), it |-> items[mov[v].je]]
    <3>1. SeenItems(t)
      BY <2>3 DEF AnnulReverse, CanReverse, SeenItems, RowKinds
    <3>2. txn' = [txn EXCEPT ![w] = t] /\ UNCHANGED <<entry, items>>
      BY <2>3 DEF AnnulReverse, Start
    <3> HIDE DEF t
    <3> QED BY <1>t, <3>1, <3>2, BooksStart
  <2>4. ASSUME NEW v \in Movements, AnnulUnposted(w, v) PROVE BInv'
    <3> DEFINE t == [op |-> "annul", v |-> v,
                     how |-> IF mov[v].owner = NoMonth THEN "delete" ELSE "cancel"]
    <3>1. SeenItems(t)
      BY DEF SeenItems, RowKinds
    <3>2. txn' = [txn EXCEPT ![w] = t] /\ UNCHANGED <<entry, items>>
      BY <2>4 DEF AnnulUnposted, Start
    <3> HIDE DEF t
    <3> QED BY <1>t, <3>1, <3>2, BooksStart
  <2>5. ASSUME NEW e \in Entries, CommitAnnulReverse(w, e) PROVE BInv'
    <3>1. txn[w].it = "balanced"
      BY <2>5, <1>t DEF CommitAnnulReverse, SeenItems
    <3> QED BY <2>5, <1>t, <3>1, BooksInsert, BooksFinish DEF CommitAnnulReverse
  <2>6. ASSUME CommitAnnulUnposted(w) PROVE BInv'
    <3>1. BooksBalance'
      BY <2>6, <1>k, BooksDelete DEF CommitAnnulUnposted
    <3> QED BY <2>6, <1>t, <3>1, BooksFinish DEF CommitAnnulUnposted
  <2> QED BY <1>2, <2>1, <2>2, <2>3, <2>4, <2>5, <2>6
          DEF MovementRequest, CheckMovement, CheckPayment
<1>3. ASSUME NEW w \in Workers, PeriodRequest(w) PROVE BInv'
  <2>1. ASSUME NEW m \in Months, NEW it \in NewItems, CheckRegister(w, m, it) PROVE BInv'
    <3> DEFINE t == [op |-> "register", m |-> m, due |-> f29[m].due, it |-> it,
                     row |-> NewRow("POSTED", m, "F29", NoEntry)]
    <3>1. SeenItems(t)
      BY DEF SeenItems, RowKinds, NewRow
    <3>2. txn' = [txn EXCEPT ![w] = t] /\ UNCHANGED <<entry, items>>
      BY <2>1 DEF CheckRegister, Start
    <3> HIDE DEF t
    <3> QED BY <1>t, <3>1, <3>2, BooksStart
  <2>2. ASSUME NEW e \in Entries, CommitRegister(w, e) PROVE BInv'
    <3>1. txn[w].row.src = "F29"
      BY <2>2, <1>t DEF CommitRegister, SeenItems
    <3> QED BY <2>2, <1>t, <3>1, BooksInsert, BooksFinish DEF CommitRegister
  <2>3. ASSUME NEW m \in Months, NEW op \in {"closeAcc", "reopenAcc", "closeTax", "reopenTax"},
               Start(w, [op |-> op, m |-> m]), UNCHANGED <<entry, items>>
        PROVE  BInv'
    <3> DEFINE t == [op |-> op, m |-> m]
    <3>1. SeenItems(t) /\ txn' = [txn EXCEPT ![w] = t]
      BY <2>3 DEF SeenItems, RowKinds, Start
    <3> HIDE DEF t
    <3> QED BY <1>t, <2>3, <3>1, BooksStart
  <2>4. ASSUME CommitTax(w) PROVE BInv'
    BY <2>4, <1>t, <1>k, BooksFinish DEF CommitTax
  <2>5. ASSUME CommitCloseAcc(w) PROVE BInv'
    <3>1. BooksBalance'
      BY <2>5, <1>k, BooksMark DEF CommitCloseAcc, SaveAcc
    <3> QED BY <2>5, <1>t, <3>1, BooksFinish DEF CommitCloseAcc
  <2>6. ASSUME CommitReopenAcc(w) PROVE BInv'
    <3>1. BooksBalance'
      BY <2>6, <1>k, BooksMark DEF CommitReopenAcc, SaveAcc
    <3> QED BY <2>6, <1>t, <3>1, BooksFinish DEF CommitReopenAcc
  <2>7. ASSUME NEW m \in Months, NEW due \in Dues, NEW op \in {"declare", "updateF29"},
               Start(w, [op |-> op, m |-> m, due |-> due]), UNCHANGED <<entry, items>>
        PROVE  BInv'
    <3> DEFINE t == [op |-> op, m |-> m, due |-> due]
    <3>1. SeenItems(t) /\ txn' = [txn EXCEPT ![w] = t]
      BY <2>7 DEF SeenItems, RowKinds, Start
    <3> HIDE DEF t
    <3> QED BY <1>t, <2>7, <3>1, BooksStart
  <2>8. ASSUME CommitDeclare(w) \/ CommitUpdateF29(w) PROVE BInv'
    BY <2>8, <1>t, <1>k, BooksFinish DEF CommitDeclare, CommitUpdateF29
  <2> QED
    BY <1>3, <2>1, <2>2, <2>3, <2>4, <2>5, <2>6, <2>7, <2>8
    DEF PeriodRequest, CheckDeclare, CheckUpdateF29, CheckCloseTax, CheckReopenTax, CheckCloseAcc, CheckReopenAcc
\* A draft appears beside the request in flight.
<1>4. ASSUME NEW e \in Entries, NEW d \in Months, NEW it \in NewItems,
             CreateEntry(e, d, it)
      PROVE  BInv'
  <2>1. /\ entry[e].st = "UNUSED" /\ entry'[e].st = "DRAFT"
        /\ \A x \in Entries : x # e => entry'[x] = entry[x] /\ items'[x] = items[x]
    BY <1>4, <1>t DEF CreateEntry, Insert, Blank, TypeOK
  <2>2. BooksBalance'
    BY <1>t, <2>1 DEF BooksBalance, Affecting
  <2>3. ASSUME NEW w \in Workers PROVE SeenItems(txn[w])'
    <3>1. txn' = txn
      BY <1>4 DEF CreateEntry
    <3>2. txn[w].op \in RowKinds => txn[w].e \in Entries /\ txn[w].e # e
      BY <1>t, <2>1, RequestKinds DEF SeenItems, RowKinds
    <3> QED BY <1>t, <2>1, <3>1, <3>2 DEF SeenItems, RowKinds
  <2> QED BY <1>t, <2>2, <2>3 DEF BInv
<1>5. ASSUME NEW w \in Workers, Rollback(w) PROVE BInv'
  BY <1>5, <1>t, <1>k, BooksFinish DEF Rollback
\* Marking beside the request in flight: it holds a draft, which marking leaves.
<1>7. ASSUME NEW m \in Months, NEW st \in {"OPEN", "CLOSED"}, RawAcc(m, st) PROVE BInv'
  <2>1. BooksBalance'
    BY <1>7, <1>k, BooksMark DEF RawAcc, SaveAcc
  <2>2. \A e \in Entries : entry[e].st = "DRAFT" => entry'[e].st = "DRAFT"
    BY <1>7, <1>t, MarkEffect DEF RawAcc, SaveAcc
  <2>3. ASSUME NEW w \in Workers PROVE SeenItems(txn[w])'
    <3>1. txn' = txn /\ items' = items
      BY <1>7 DEF RawAcc
    <3>2. txn[w].op \in RowKinds => txn[w].e \in Entries
      BY <1>t, RequestKinds DEF RowKinds
    <3> QED BY <1>t, <2>2, <3>1, <3>2 DEF SeenItems
  <2> QED BY <1>t, <2>1, <2>3 DEF BInv
<1>6. ASSUME UNCHANGED <<entry, items, txn>> PROVE BInv'
  BY <1>6, <1>t DEF BInv, BooksBalance, SeenItems
<1> QED
  BY <1>1, <1>2, <1>3, <1>4, <1>5, <1>6, <1>7
  DEF Next, RawTax, OpenPeriod, NextMonth, vars

\* Double entry: through any sequence of requests that do not overlap, editing,
\* posting, reversing, annulling and closing leave no unbalanced entry in the
\* balances but the clearing entries of declarations, which register_declaration
\* posts unchecked (check_balance at post_entry is enough when nothing races it).
THEOREM BooksStayBalanced == ASSUME Serial PROVE Spec => []BooksBalance
<1>1. Init => BInv
  BY InitType DEF Init, BInv, BooksBalance, SeenItems, RowKinds, Idle, Blank, Affecting
<1>2. BInv /\ [Next]_vars => BInv'
  BY BooksStep
<1>3. BInv => BooksBalance
  BY DEF BInv
<1> QED BY <1>1, <1>2, <1>3, PTL DEF Spec

=============================================================================
