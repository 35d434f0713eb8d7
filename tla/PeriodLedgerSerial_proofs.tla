--------------------- MODULE PeriodLedgerSerial_proofs ---------------------
(* Proofs about PeriodLedger when requests do not overlap (Serial): what a    *)
(* check has seen still holds when its request commits.  The invariants say   *)
(* which facts those are; the other requests are covered by the invariants of *)
(* PeriodLedger_proofs, which hold under every interleaving.                  *)
EXTENDS PeriodLedger_proofs

-----------------------------------------------------------------------------
(* Lemmas about steps. *)

\* The only worker there is takes the step.
LEMMA Alone ==
  ASSUME Serial, TypeOK, NEW w \in Workers, NEW t, txn' = [txn EXCEPT ![w] = t]
  PROVE  \A u \in Workers : txn'[u] = t
BY TxnStep DEF Serial

LEMMA BooksInductive == ASSUME Serial PROVE Spec => []BInv
<1>1. Init => BInv
  BY InitType DEF Init, BInv, BooksBalance, SeenItems, RowKinds, Idle, Blank, Affecting
<1>2. BInv /\ [Next]_vars => BInv'
  BY BooksStep
<1> QED BY <1>1, <1>2, PTL DEF Spec

\* A period is created OPEN and no save of an entry closes one.
LEMMA OpensOnly ==
  ASSUME TypeOK, NEW m, acc' = WithPeriod(acc, m)
  PROVE  \A n \in Months : acc'[n] = "CLOSED" <=> acc[n] = "CLOSED"
BY WithPeriodEffect DEF TypeOK

LEMMA InsertShape ==
  ASSUME TypeOK, NEW e \in Entries, NEW row, NEW it, Insert(e, row, it)
  PROVE  /\ entry[e].st = "UNUSED" /\ entry'[e] = row
         /\ \A x \in Entries : x # e => entry'[x] = entry[x] /\ items'[x] = items[x]
BY DEF Insert, TypeOK

LEMMA OverwriteShape ==
  ASSUME TypeOK, NEW e \in Entries, NEW row, entry' = [entry EXCEPT ![e] = row]
  PROVE  /\ entry'[e] = row
         /\ \A x \in Entries : x # e => entry'[x] = entry[x]
BY DEF TypeOK

\* DELETE blanks the row and unlinks its reversals; the rest keeps its columns.
LEMMA DeleteShape ==
  ASSUME TypeOK, NEW e, Delete(e)
  PROVE  /\ e \in Entries => entry'[e] = Blank("DELETED")
         /\ \A x \in Entries : x # e =>
              /\ entry'[x].st = entry[x].st /\ entry'[x].date = entry[x].date
              /\ entry'[x].fk = entry[x].fk /\ entry'[x].src = entry[x].src
              /\ entry'[x].rev = IF entry[x].rev = e THEN NoEntry ELSE entry[x].rev
              /\ items'[x] = items[x]
BY DEF Delete, TypeOK, Row

\* A row that reverses something else is left as it is.
LEMMA DeleteKeeps ==
  ASSUME TypeOK, NEW e, Delete(e), NEW x \in Entries, x # e, entry[x].rev # e
  PROVE  entry'[x] = entry[x] /\ items'[x] = items[x]
<1>1. entry'[x] = [entry[x] EXCEPT !.rev = entry[x].rev]
  BY DEF Delete
<1>2. entry[x] \in Row
  BY DEF TypeOK
<1>3. [entry[x] EXCEPT !.rev = entry[x].rev] = entry[x]
  BY <1>2 DEF Row
<1> QED BY <1>1, <1>3 DEF Delete, TypeOK

\* Closing and reopening mark POSTED and CLOSED rows of the month, no others.
LEMMA SaveAccShape ==
  ASSUME TypeOK, NEW m \in Months, NEW st \in {"OPEN", "CLOSED"}, SaveAcc(m, st)
  PROVE  /\ acc'[m] = st /\ \A n \in Months : n # m => acc'[n] = acc[n]
         /\ \A x \in Entries :
              /\ entry'[x].date = entry[x].date /\ entry'[x].fk = entry[x].fk
              /\ entry'[x].src = entry[x].src /\ entry'[x].rev = entry[x].rev
              /\ entry[x].st \in {"POSTED", "CLOSED"} => entry'[x].st \in {"POSTED", "CLOSED"}
              /\ entry[x].st \notin {"POSTED", "CLOSED"} => entry'[x].st = entry[x].st
              /\ entry[x].date # m \/ acc[m] = st => entry'[x] = entry[x]
<1>1. acc'[m] = st /\ \A n \in Months : n # m => acc'[n] = acc[n]
  BY DEF SaveAcc, TypeOK
<1>2. ASSUME NEW from \in {"POSTED", "CLOSED"}, NEW to \in {"POSTED", "CLOSED"},
             NEW closed, MarkEntries(m, from, to, closed), NEW x \in Entries
      PROVE  /\ entry'[x].date = entry[x].date /\ entry'[x].fk = entry[x].fk
             /\ entry'[x].src = entry[x].src /\ entry'[x].rev = entry[x].rev
             /\ entry[x].st \in {"POSTED", "CLOSED"} => entry'[x].st \in {"POSTED", "CLOSED"}
             /\ entry[x].st \notin {"POSTED", "CLOSED"} => entry'[x].st = entry[x].st
             /\ entry[x].date # m => entry'[x] = entry[x]
  <2>1. entry'[x].fk = entry[x].fk
    BY <1>2 DEF MarkEntries, TypeOK, Row
  <2>2. entry[x].date # m => entry'[x] = entry[x]
    BY <1>2 DEF MarkEntries
  <2> QED BY <1>2, <2>1, <2>2, MarkEffect
<1>3. CASE acc[m] = st /\ UNCHANGED entry
  BY <1>1, <1>3
<1>4. CASE acc[m] # st /\ MarkEntries(m, "POSTED", "CLOSED", TRUE)
  BY <1>1, <1>2, <1>4
<1>5. CASE acc[m] # st /\ MarkEntries(m, "CLOSED", "POSTED", FALSE)
  BY <1>1, <1>2, <1>5
<1> QED BY <1>3, <1>4, <1>5 DEF SaveAcc

-----------------------------------------------------------------------------
(* One reversal.  A reversal in flight has seen its target in the books and  *)
(* unreversed, and nothing reverses or deletes it before the commit.         *)

SeenReversible(t) ==
  t.op = "insert" \/ (t.op = "annul" /\ t.how = "reverse") =>
    /\ entry[t.row.rev].st \in {"POSTED", "CLOSED"}
    /\ \A x \in Entries : entry[x].rev # t.row.rev

UInv == OneReversal /\ \A w \in Workers : SeenReversible(txn[w])

\* A request that reverses nothing starts, or any request ends.
LEMMA OnceQuiet ==
  ASSUME Serial, TypeOK, NEW w \in Workers, NEW t, txn' = [txn EXCEPT ![w] = t],
         t.op \notin {"insert", "annul"}, OneReversal'
  PROVE  UInv'
<1>1. \A u \in Workers : txn'[u] = t
  BY Alone
<1> QED BY <1>1 DEF UInv, SeenReversible

LEMMA OnceKeep ==
  ASSUME TypeOK, OneReversal, \A x \in Entries : entry'[x].rev = entry[x].rev,
         \A x \in Entries : entry[x].st \in {"POSTED", "CLOSED"} =>
           entry'[x].st \in {"POSTED", "CLOSED"}
  PROVE  OneReversal'
<1>1. \A x \in Entries : entry[x].rev \in Entries \cup {NoEntry}
  BY DEF TypeOK, Row
<1> QED BY <1>1 DEF OneReversal

\* A row that reverses nothing replaces a free identifier or a draft.
LEMMA OncePlain ==
  ASSUME RInv, OneReversal, NEW e \in Entries, NEW row, row.rev = NoEntry,
         entry[e].st \in {"UNUSED", "DRAFT"}, entry' = [entry EXCEPT ![e] = row]
  PROVE  OneReversal'
<1>1. TypeOK /\ EntryInv
  BY DEF RInv, DataInv
<1>2. entry[e].rev = NoEntry
  BY <1>1 DEF EntryInv
<1>3. entry'[e] = row /\ \A x \in Entries : x # e => entry'[x] = entry[x]
  BY <1>1, OverwriteShape
<1>4. /\ \A x \in Entries : entry'[x].rev = entry[x].rev
      /\ \A x \in Entries : entry[x].st \in {"POSTED", "CLOSED"} =>
           entry'[x].st \in {"POSTED", "CLOSED"}
  BY <1>2, <1>3
<1> QED BY <1>1, <1>4, OnceKeep

LEMMA OnceReverse ==
  ASSUME RInv, OneReversal, NEW e \in Entries, NEW row, NEW it, Insert(e, row, it),
         row.rev \in Entries, entry[row.rev].st \in {"POSTED", "CLOSED"},
         \A x \in Entries : entry[x].rev # row.rev
  PROVE  OneReversal'
<1>1. TypeOK
  BY DEF RInv
<1>2. /\ entry[e].st = "UNUSED" /\ entry'[e] = row
      /\ \A x \in Entries : x # e => entry'[x] = entry[x]
  BY <1>1, InsertShape
<1>3. \A x \in Entries : entry[x].rev \in Entries \cup {NoEntry}
  BY <1>1 DEF TypeOK, Row
<1>4. \A x \in Entries : entry[x].rev # e
  BY <1>2, NoEntryAssumption DEF OneReversal
<1> QED BY <1>2, <1>3, <1>4 DEF OneReversal

LEMMA OnceDelete ==
  ASSUME TypeOK, OneReversal, NEW e \in Entries, Delete(e)
  PROVE  OneReversal'
<1>1. \A x \in Entries : entry[x].rev \in Entries \cup {NoEntry}
  BY DEF TypeOK, Row
<1>2. entry'[e].rev = NoEntry
  BY DeleteShape DEF Blank
<1>3. \A x \in Entries : entry'[x].rev # NoEntry =>
        /\ x # e /\ entry'[x].rev = entry[x].rev /\ entry[x].rev # e
        /\ entry[x].rev \in Entries
        /\ entry'[entry[x].rev].st = entry[entry[x].rev].st
  BY <1>1, <1>2, DeleteShape
<1> QED BY <1>3 DEF OneReversal

LEMMA OnceEntryStep ==
  ASSUME Serial, RInv, BInv, UInv, NEW w \in Workers, EntryRequest(w) PROVE UInv'
<1>t. /\ TypeOK /\ OneReversal /\ Sound(txn[w]) /\ SeenItems(txn[w])
      /\ SeenReversible(txn[w])
  BY DEF RInv, BInv, UInv
<1>k. ASSUME entry' = entry PROVE OneReversal'
  BY <1>k, <1>t DEF OneReversal
<1>1. ASSUME NEW e \in Entries, NEW op \in {"edit", "post", "destroy"},
             ReadDraft(w, e, op)
      PROVE  UInv'
  BY <1>1, <1>t, <1>k, OnceQuiet DEF ReadDraft, Start
<1>2. ASSUME NEW d \in Months, NEW it \in NewItems \cup {"keep"},
             CheckEdit(w, d, it)
      PROVE  UInv'
  BY <1>2, <1>t, <1>k, OnceQuiet DEF CheckEdit
<1>3. ASSUME CheckPost(w) PROVE UInv'
  BY <1>3, <1>t, <1>k, OnceQuiet DEF CheckPost
<1>4. ASSUME CommitEdit(w) \/ CommitPost(w) PROVE UInv'
  <2>1. /\ txn[w].e \in Entries /\ entry[txn[w].e].st = "DRAFT"
        /\ txn[w].row.rev = NoEntry
    BY <1>4, <1>t, RequestKinds DEF CommitEdit, CommitPost, Sound, SeenItems, RowKinds
  <2>2. entry' = [entry EXCEPT ![txn[w].e] = txn[w].row] /\ Finish(w)
    BY <1>4 DEF CommitEdit, CommitPost
  <2>3. OneReversal'
    BY <1>t, <2>1, <2>2, OncePlain
  <2> QED BY <1>t, <2>2, <2>3, OnceQuiet DEF Finish, Idle
<1>5. ASSUME CommitDestroy(w) PROVE UInv'
  <2>1. Delete(txn[w].e) /\ Finish(w) /\ txn[w].e \in Entries
    BY <1>5, <1>t, RequestKinds DEF CommitDestroy
  <2> QED BY <1>t, <2>1, OnceDelete, OnceQuiet DEF Finish, Idle
<1>6. ASSUME NEW e \in Entries, CheckReverse(w, e) PROVE UInv'
  <2> DEFINE t == [op |-> "insert", row |-> ReversalRow(e), it |-> items[e]]
  <2>1. txn' = [txn EXCEPT ![w] = t] /\ entry' = entry
    BY <1>6 DEF CheckReverse, Start
  <2>2. t.row.rev = e
    BY DEF ReversalRow, NewRow
  <2>3. entry[e].st \in {"POSTED", "CLOSED"} /\ \A x \in Entries : entry[x].rev # e
    BY <1>6 DEF CheckReverse, CanReverse, Reversed, Exists, RInv, DataInv, EntryInv
  <2> HIDE DEF t
  <2>4. \A u \in Workers : txn'[u] = t
    BY <1>t, <2>1, Alone
  <2> QED BY <1>k, <2>1, <2>2, <2>3, <2>4 DEF UInv, SeenReversible
<1>7. ASSUME NEW e \in Entries, CommitInsert(w, e) PROVE UInv'
  <2>1. /\ txn[w].row.rev \in Entries
        /\ entry[txn[w].row.rev].st \in {"POSTED", "CLOSED"}
        /\ \A x \in Entries : entry[x].rev # txn[w].row.rev
    BY <1>7, <1>t DEF CommitInsert, Sound, SeenReversible
  <2>2. Insert(e, txn[w].row, txn[w].it) /\ Finish(w)
    BY <1>7 DEF CommitInsert
  <2>3. OneReversal'
    BY <1>t, <2>1, <2>2, OnceReverse
  <2> QED BY <1>t, <2>2, <2>3, OnceQuiet DEF Finish, Idle
<1> QED BY <1>1, <1>2, <1>3, <1>4, <1>5, <1>6, <1>7 DEF EntryRequest

LEMMA OnceMovementStep ==
  ASSUME Serial, RInv, UInv, NEW w \in Workers, MovementRequest(w) PROVE UInv'
<1>t. TypeOK /\ OneReversal /\ Sound(txn[w]) /\ SeenReversible(txn[w])
  BY DEF RInv, UInv
<1>k. ASSUME entry' = entry PROVE OneReversal'
  BY <1>k, <1>t DEF OneReversal
<1>1. ASSUME \/ \E d \in Months : CheckMovement(w, d)
             \/ \E m, d \in Months : CheckPayment(w, m, d)
      PROVE  UInv'
  BY <1>1, <1>t, <1>k, OnceQuiet DEF CheckMovement, CheckPayment, Start
<1>2. ASSUME NEW v \in Movements, NEW e \in Entries, CommitMovement(w, v, e)
      PROVE  UInv'
  <2>1. /\ Insert(e, txn[w].row, "balanced") /\ Finish(w) /\ txn[w].row.rev = NoEntry
    BY <1>2, <1>t DEF CommitMovement, Sound
  <2>2. entry[e].st = "UNUSED" /\ entry' = [entry EXCEPT ![e] = txn[w].row]
    BY <2>1 DEF Insert
  <2>3. OneReversal'
    BY <1>t, <2>1, <2>2, OncePlain
  <2> QED BY <1>t, <2>1, <2>3, OnceQuiet DEF Finish, Idle
<1>3. ASSUME NEW v \in Movements, AnnulReverse(w, v) PROVE UInv'
  <2> DEFINE e == mov[v].je
             t == [op |-> "annul", v |-> v, how |-> "reverse",
                   row |-> ReversalRow(e), it |-> items[e]]
  <2>1. txn' = [txn EXCEPT ![w] = t] /\ entry' = entry
    BY <1>3 DEF AnnulReverse, Start
  <2>2. t.row.rev = e
    BY DEF ReversalRow, NewRow
  <2>3. entry[e].st \in {"POSTED", "CLOSED"} /\ \A x \in Entries : entry[x].rev # e
    BY <1>3 DEF AnnulReverse, CanReverse, Reversed, Exists, RInv, DataInv, EntryInv
  <2> HIDE DEF t, e
  <2>4. \A u \in Workers : txn'[u] = t
    BY <1>t, <2>1, Alone
  <2> QED BY <1>k, <2>1, <2>2, <2>3, <2>4 DEF UInv, SeenReversible
<1>4. ASSUME NEW v \in Movements, AnnulUnposted(w, v) PROVE UInv'
  <2> DEFINE t == [op |-> "annul", v |-> v,
                   how |-> IF mov[v].owner = NoMonth THEN "delete" ELSE "cancel"]
  <2>1. txn' = [txn EXCEPT ![w] = t] /\ entry' = entry
    BY <1>4 DEF AnnulUnposted, Start
  <2>2. t.op = "annul" /\ t.how # "reverse"
    OBVIOUS
  <2> HIDE DEF t
  <2>3. \A u \in Workers : txn'[u] = t
    BY <1>t, <2>1, Alone
  <2> QED BY <1>k, <2>1, <2>2, <2>3 DEF UInv, SeenReversible
<1>5. ASSUME NEW e \in Entries, CommitAnnulReverse(w, e) PROVE UInv'
  <2>1. txn[w].row.rev \in Entries
    BY <1>5, <1>t, RequestKinds DEF CommitAnnulReverse, Sound, TypeOK, Movement
  <2>2. /\ entry[txn[w].row.rev].st \in {"POSTED", "CLOSED"}
        /\ \A x \in Entries : entry[x].rev # txn[w].row.rev
    BY <1>5, <1>t DEF CommitAnnulReverse, SeenReversible
  <2>3. Insert(e, txn[w].row, txn[w].it) /\ Finish(w)
    BY <1>5 DEF CommitAnnulReverse
  <2>4. OneReversal'
    BY <1>t, <2>1, <2>2, <2>3, OnceReverse
  <2> QED BY <1>t, <2>3, <2>4, OnceQuiet DEF Finish, Idle
<1>6. ASSUME CommitAnnulUnposted(w) PROVE UInv'
  <2>1. /\ Finish(w) /\ mov[txn[w].v].je \in Entries
        /\ Delete(mov[txn[w].v].je) \/ entry' = entry
    BY <1>6, <1>t, RequestKinds DEF CommitAnnulUnposted, Sound, TypeOK, Movement
  <2>2. OneReversal'
    BY <1>t, <1>k, <2>1, OnceDelete
  <2> QED BY <1>t, <2>1, <2>2, OnceQuiet DEF Finish, Idle
<1> QED BY <1>1, <1>2, <1>3, <1>4, <1>5, <1>6 DEF MovementRequest

LEMMA OncePeriodStep ==
  ASSUME Serial, RInv, UInv, NEW w \in Workers, PeriodRequest(w) PROVE UInv'
<1>t. TypeOK /\ OneReversal /\ Sound(txn[w])
  BY DEF RInv, UInv
<1>1. ASSUME NEW t, txn' = [txn EXCEPT ![w] = t], entry' = entry,
             t.op \notin {"insert", "annul"}
      PROVE  UInv'
  <2>1. OneReversal'
    BY <1>1, <1>t DEF OneReversal
  <2> QED BY <1>1, <1>t, <2>1, OnceQuiet
<1>2. ASSUME NEW e \in Entries, CommitRegister(w, e) PROVE UInv'
  <2>1. Insert(e, txn[w].row, txn[w].it) /\ Finish(w) /\ txn[w].row.rev = NoEntry
    BY <1>2, <1>t DEF CommitRegister, Sound
  <2>2. entry[e].st = "UNUSED" /\ entry' = [entry EXCEPT ![e] = txn[w].row]
    BY <2>1 DEF Insert
  <2>3. OneReversal'
    BY <1>t, <2>1, <2>2, OncePlain
  <2> QED BY <1>t, <2>1, <2>3, OnceQuiet DEF Finish, Idle
<1>3. ASSUME NEW st \in {"OPEN", "CLOSED"}, SaveAcc(txn[w].m, st), txn[w].m \in Months,
             Finish(w)
      PROVE  UInv'
  <2>1. OneReversal'
    BY <1>3, <1>t, SaveAccShape, OnceKeep
  <2> QED BY <1>3, <1>t, <2>1, OnceQuiet DEF Finish, Idle
<1>4. ASSUME CommitCloseAcc(w) \/ CommitReopenAcc(w) PROVE UInv'
  BY <1>3, <1>4, <1>t, RequestKinds DEF CommitCloseAcc, CommitReopenAcc
<1> QED
  BY <1>1, <1>2, <1>4
  DEF PeriodRequest, CheckDeclare, CommitDeclare, CheckRegister, CheckCloseTax,
      CheckReopenTax, CommitTax, CheckCloseAcc, CheckReopenAcc, CheckUpdateF29,
      CommitUpdateF29, Start, Finish, Idle

LEMMA OnceStep == ASSUME Serial PROVE RInv /\ BInv /\ UInv /\ [Next]_vars => UInv'
<1> SUFFICES ASSUME RInv, BInv, UInv, [Next]_vars PROVE UInv'
  OBVIOUS
<1>t. /\ TypeOK /\ OneReversal
      /\ \A w \in Workers : Sound(txn[w]) /\ SeenReversible(txn[w])
  BY DEF RInv, UInv
<1>r. \A w \in Workers :
        txn[w].op = "insert" \/ (txn[w].op = "annul" /\ txn[w].how = "reverse") =>
          txn[w].row.rev \in Entries
  BY <1>t, RequestKinds DEF Sound, TypeOK, Movement
\* Beside a reversal in flight drafts appear and periods are marked.
<1>s. ASSUME UNCHANGED txn, OneReversal',
             \A x \in Entries : entry'[x].rev = entry[x].rev,
             \A x \in Entries : entry[x].st \in {"POSTED", "CLOSED"} =>
               entry'[x].st \in {"POSTED", "CLOSED"}
      PROVE  UInv'
  BY <1>s, <1>t, <1>r DEF UInv, SeenReversible
<1>1. ASSUME NEW e \in Entries, NEW d \in Months, NEW it \in NewItems,
             CreateEntry(e, d, it)
      PROVE  UInv'
  <2> DEFINE row == [Blank("DRAFT") EXCEPT !.date = d]
  <2>1. Insert(e, row, it) /\ txn' = txn /\ row.rev = NoEntry
    BY <1>1 DEF CreateEntry, Blank
  <2> HIDE DEF row
  <2>2. entry[e].st = "UNUSED" /\ entry' = [entry EXCEPT ![e] = row]
    BY <2>1 DEF Insert
  <2>3. OneReversal'
    BY <1>t, <2>1, <2>2, OncePlain
  <2>4. entry[e].rev = NoEntry
    BY <2>2 DEF RInv, DataInv, EntryInv
  <2>5. \A x \in Entries : x # e => entry'[x] = entry[x]
    BY <1>t, <2>1, InsertShape
  <2>6. entry'[e].rev = NoEntry
    BY <1>t, <2>1, InsertShape
  <2> QED BY <1>s, <2>1, <2>2, <2>3, <2>4, <2>5, <2>6
<1>2. ASSUME NEW m \in Months, NEW st \in {"OPEN", "CLOSED"}, RawAcc(m, st) PROVE UInv'
  <2>1. /\ \A x \in Entries : entry'[x].rev = entry[x].rev
        /\ \A x \in Entries : entry[x].st \in {"POSTED", "CLOSED"} =>
             entry'[x].st \in {"POSTED", "CLOSED"}
    BY <1>2, <1>t, SaveAccShape DEF RawAcc
  <2> QED BY <1>2, <1>s, <1>t, <2>1, OnceKeep DEF RawAcc
<1>3. ASSUME NEW w \in Workers, Rollback(w) PROVE UInv'
  <2>1. OneReversal'
    BY <1>3, <1>t DEF Rollback, OneReversal
  <2> QED BY <1>3, <1>t, <2>1, OnceQuiet DEF Rollback, Finish, Idle
<1>4. ASSUME UNCHANGED <<entry, txn>> PROVE UInv'
  BY <1>4, <1>t DEF UInv, OneReversal, SeenReversible
<1> QED
  BY <1>1, <1>2, <1>3, <1>4, OnceEntryStep, OnceMovementStep, OncePeriodStep
  DEF Next, OpenPeriod, RawTax, NextMonth, vars

LEMMA OnceInductive == ASSUME Serial PROVE Spec => [](RInv /\ BInv /\ UInv)
<1>1. Init => UInv
  BY DEF Init, UInv, OneReversal, SeenReversible, Blank, Idle
<1>2. RInv /\ BInv /\ UInv /\ [Next]_vars => UInv'
  BY OnceStep
<1>3. Spec => []BInv
  BY BooksInductive
<1> QED BY <1>1, <1>2, <1>3, ReversalInductive, PTL DEF Spec

\* Through any sequence of requests that do not overlap, those of the generic
\* update included, an entry is reversed at most once and only while it stands in
\* the books: reverse_entry and annul_movement look for a reversal before they
\* insert one, and drafts alone are edited, posted again or destroyed.
THEOREM ReversedOnce == ASSUME Serial PROVE Spec => []OneReversal
<1>1. UInv => OneReversal
  BY DEF UInv
<1> QED BY <1>1, OnceInductive, PTL

-----------------------------------------------------------------------------
(* Closed books.  What a request overwrites or destroys is a draft, drafts    *)
(* are not reversed, and marking touches no month that stays closed.          *)

\* The entries a step leaves alone, those of the movements apart.
Frozen ==
  \A e \in Entries :
    /\ entry[e].st \in Affecting /\ entry[e].src # "SERVICE"
    /\ acc[entry[e].date] = "CLOSED" /\ acc'[entry[e].date] = "CLOSED"
    => entry'[e] = entry[e] /\ items'[e] = items[e]

LEMMA FrozenInsert ==
  ASSUME TypeOK, NEW e \in Entries, NEW row, NEW it, Insert(e, row, it) PROVE Frozen
BY InsertShape DEF Frozen, Affecting

LEMMA FrozenDraft ==
  ASSUME TypeOK, NEW e \in Entries, entry[e].st = "DRAFT", NEW row,
         entry' = [entry EXCEPT ![e] = row],
         \A x \in Entries : x # e => items'[x] = items[x]
  PROVE  Frozen
BY OverwriteShape DEF Frozen, Affecting

\* The deleted row is a draft, or that of a movement, and nothing reverses it.
LEMMA FrozenDelete ==
  ASSUME TypeOK, NEW e \in Entries, Delete(e),
         entry[e].st = "DRAFT" \/ entry[e].src = "SERVICE",
         \A x \in Entries : entry[x].rev # e
  PROVE  Frozen
BY DeleteKeeps DEF Frozen, Affecting

LEMMA FrozenSaveAcc ==
  ASSUME TypeOK, NEW m \in Months, NEW st \in {"OPEN", "CLOSED"}, SaveAcc(m, st),
         UNCHANGED items
  PROVE  Frozen
<1>1. /\ acc'[m] = st
      /\ \A x \in Entries : entry[x].date # m \/ acc[m] = st => entry'[x] = entry[x]
  BY SaveAccShape
<1> QED BY <1>1 DEF Frozen

LEMMA FrozenStep == RInv /\ BInv /\ UInv /\ [Next]_vars => Frozen
<1> SUFFICES ASSUME RInv, BInv, UInv, [Next]_vars PROVE Frozen
  OBVIOUS
<1>t. TypeOK /\ OneReversal /\ \A w \in Workers : Sound(txn[w]) /\ SeenItems(txn[w])
  BY DEF RInv, BInv, UInv
<1>0. ASSUME UNCHANGED <<entry, items>> PROVE Frozen
  BY <1>0 DEF Frozen
<1>1. ASSUME NEW w \in Workers, EntryRequest(w) PROVE Frozen
  <2>1. ASSUME txn[w].op \in RowKinds
        PROVE  txn[w].e \in Entries /\ entry[txn[w].e].st = "DRAFT"
    BY <1>t, <2>1, RequestKinds DEF SeenItems, RowKinds
  <2>2. ASSUME CommitEdit(w) PROVE Frozen
    <3>1. \A x \in Entries : x # txn[w].e => items'[x] = items[x]
      BY <1>t, <2>2 DEF CommitEdit, TypeOK
    <3> QED BY <1>t, <2>1, <2>2, <3>1, FrozenDraft DEF CommitEdit, RowKinds
  <2>3. ASSUME CommitPost(w) PROVE Frozen
    BY <1>t, <2>1, <2>3, FrozenDraft DEF CommitPost, RowKinds
  <2>4. ASSUME CommitDestroy(w) PROVE Frozen
    <3>1. txn[w].e \in Entries /\ entry[txn[w].e].st = "DRAFT" /\ Delete(txn[w].e)
      BY <2>1, <2>4 DEF CommitDestroy, RowKinds
    <3>2. \A x \in Entries : entry[x].rev # txn[w].e
      BY <1>t, <3>1, NoEntryAssumption DEF OneReversal
    <3> QED BY <1>t, <3>1, <3>2, FrozenDelete
  <2>5. ASSUME NEW e \in Entries, CommitInsert(w, e) PROVE Frozen
    BY <1>t, <2>5, FrozenInsert DEF CommitInsert
  <2> QED
    BY <1>0, <1>1, <2>2, <2>3, <2>4, <2>5
    DEF EntryRequest, ReadDraft, CheckEdit, CheckPost, CheckReverse
<1>2. ASSUME NEW w \in Workers, MovementRequest(w) PROVE Frozen
  <2>1. ASSUME NEW v \in Movements, NEW e \in Entries, CommitMovement(w, v, e)
        PROVE  Frozen
    BY <1>t, <2>1, FrozenInsert DEF CommitMovement
  <2>2. ASSUME NEW e \in Entries, CommitAnnulReverse(w, e) PROVE Frozen
    BY <1>t, <2>2, FrozenInsert DEF CommitAnnulReverse
  <2>3. ASSUME CommitAnnulUnposted(w) PROVE Frozen
    <3> DEFINE v == txn[w].v
    <3>1. /\ v \in Movements /\ mov[v].st = "POSTED" /\ mov[v].je # NoEntry
      BY <1>t, <2>3, RequestKinds DEF CommitAnnulUnposted, Sound
    <3>2. Delete(mov[v].je) \/ UNCHANGED <<entry, items>>
      BY <2>3 DEF CommitAnnulUnposted
    <3>3. /\ mov[v].je \in Entries /\ entry[mov[v].je].src = "SERVICE"
          /\ \A x \in Entries : entry[x].rev # mov[v].je
      BY <1>t, <3>1 DEF TypeOK, Movement, RInv, DataInv, MovInv
    <3> HIDE DEF v
    <3> QED BY <1>0, <1>t, <3>2, <3>3, FrozenDelete
  <2> QED
    BY <1>0, <1>2, <2>1, <2>2, <2>3
    DEF MovementRequest, CheckMovement, CheckPayment, AnnulReverse, AnnulUnposted
<1>3. ASSUME NEW w \in Workers, PeriodRequest(w) PROVE Frozen
  <2>1. ASSUME NEW e \in Entries, CommitRegister(w, e) PROVE Frozen
    BY <1>t, <2>1, FrozenInsert DEF CommitRegister
  <2>2. ASSUME CommitCloseAcc(w) \/ CommitReopenAcc(w) PROVE Frozen
    BY <1>t, <2>2, RequestKinds, FrozenSaveAcc DEF CommitCloseAcc, CommitReopenAcc
  <2> QED
    BY <1>0, <1>3, <2>1, <2>2
    DEF PeriodRequest, CheckDeclare, CommitDeclare, CheckRegister, CheckCloseTax,
        CheckReopenTax, CommitTax, CheckCloseAcc, CheckReopenAcc, CheckUpdateF29,
        CommitUpdateF29
<1>4. ASSUME NEW e \in Entries, NEW d \in Months, NEW it \in NewItems,
             CreateEntry(e, d, it)
      PROVE  Frozen
  BY <1>4, <1>t, FrozenInsert DEF CreateEntry
<1>5. ASSUME NEW m \in Months, NEW st \in {"OPEN", "CLOSED"}, RawAcc(m, st) PROVE Frozen
  BY <1>5, <1>t, FrozenSaveAcc DEF RawAcc
<1> QED
  BY <1>0, <1>1, <1>2, <1>3, <1>4, <1>5
  DEF Next, OpenPeriod, RawTax, NextMonth, Rollback, vars

\* Through any sequence of requests that do not overlap, while a month stays closed
\* its posted entries and reversals, those of treasury movements apart, are neither
\* changed nor deleted: whatever period a stale row names, only drafts are saved.
THEOREM ClosedBooksStay == ASSUME Serial PROVE Spec => ClosedBooksFrozen
<1>1. RInv /\ BInv /\ UInv /\ [Next]_vars =>
        [\A e \in Entries :
           LET m == entry[e].date IN
           /\ entry[e].st \in Affecting
           /\ entry[e].src # "SERVICE"
           /\ acc[m] = "CLOSED" /\ acc'[m] = "CLOSED"
           => entry'[e] = entry[e] /\ items'[e] = items[e]]_vars
  BY FrozenStep DEF Frozen
<1> QED BY <1>1, OnceInductive, PTL DEF Spec, ClosedBooksFrozen

-----------------------------------------------------------------------------
(* One clearing entry.  A registered month has its entry, which nobody edits  *)
(* or moves; a registration in flight has seen a declaration still in draft.  *)

RegisteredOnce ==
  \A e \in Entries :
    entry[e].src = "F29" /\ Exists(e) => f29[entry[e].date].st = "REGISTERED"

SeenDeclaration(t) ==
  /\ t.op \in {"register", "updateF29"} => f29[t.m].st = "DRAFT"
  /\ t.op = "register" => t.row.date = t.m

FData == OneClearingEntry /\ RegisteredOnce
FInv  == FData /\ \A w \in Workers : SeenDeclaration(txn[w])

LEMMA ClearingQuiet ==
  ASSUME Serial, TypeOK, NEW w \in Workers, NEW t, txn' = [txn EXCEPT ![w] = t],
         t.op \notin {"register", "updateF29"}, FData'
  PROVE  FInv'
<1>1. \A u \in Workers : txn'[u] = t
  BY Alone
<1> QED BY <1>1 DEF FInv, SeenDeclaration

\* Every F29 entry of the table was there before, in the same month.
LEMMA ClearingKeep ==
  ASSUME TypeOK, FData,
         \A x \in Entries : entry'[x].src = "F29" /\ Exists(x)' =>
           entry[x].src = "F29" /\ Exists(x) /\ entry'[x].date = entry[x].date,
         \A m \in Months : f29[m].st = "REGISTERED" => f29'[m].st = "REGISTERED"
  PROVE  FData'
<1>1. \A x \in Entries : entry[x].date \in Months
  BY DEF TypeOK, Row
<1> QED BY <1>1 DEF FData, OneClearingEntry, RegisteredOnce

\* A row written that is not an F29 entry.
LEMMA ClearingPlain ==
  ASSUME TypeOK, FData, NEW e \in Entries, NEW row, row.src # "F29",
         entry' = [entry EXCEPT ![e] = row], UNCHANGED f29
  PROVE  FData'
<1>1. entry'[e] = row /\ \A x \in Entries : x # e => entry'[x] = entry[x]
  BY OverwriteShape
<1>2. \A x \in Entries : entry'[x].src = "F29" /\ Exists(x)' =>
        entry[x].src = "F29" /\ Exists(x) /\ entry'[x].date = entry[x].date
  BY <1>1 DEF Exists
<1> QED BY <1>2, ClearingKeep

LEMMA ClearingDelete ==
  ASSUME TypeOK, FData, NEW e \in Entries, Delete(e), UNCHANGED f29
  PROVE  FData'
<1>1. \A x \in Entries : entry'[x].src = "F29" /\ Exists(x)' =>
        entry[x].src = "F29" /\ Exists(x) /\ entry'[x].date = entry[x].date
  BY DeleteShape DEF Exists, Blank
<1> QED BY <1>1, ClearingKeep

LEMMA ClearingSaveAcc ==
  ASSUME TypeOK, FData, NEW m \in Months, NEW st \in {"OPEN", "CLOSED"}, SaveAcc(m, st),
         UNCHANGED f29
  PROVE  FData'
<1>1. \A x \in Entries : entry'[x].src = "F29" /\ Exists(x)' =>
        entry[x].src = "F29" /\ Exists(x) /\ entry'[x].date = entry[x].date
  BY SaveAccShape DEF Exists
<1> QED BY <1>1, ClearingKeep

\* The entry of a declaration that is registered with it.
LEMMA ClearingRegister ==
  ASSUME TypeOK, FData, NEW e \in Entries, NEW row, NEW it, Insert(e, row, it),
         NEW m \in Months, NEW due \in Nat, row.date = m, f29[m].st = "DRAFT",
         f29' = [f29 EXCEPT ![m] = [st |-> "REGISTERED", due |-> due]]
  PROVE  FData'
<1>1. /\ entry'[e] = row
      /\ \A x \in Entries : x # e => entry'[x] = entry[x]
  BY InsertShape
<1>2. f29'[m].st = "REGISTERED" /\ \A n \in Months : n # m => f29'[n] = f29[n]
  BY DEF TypeOK
<1>3. \A x \in Entries : entry[x].date \in Months
  BY DEF TypeOK, Row
<1>4. \A x \in Entries : x # e =>
        /\ Exists(x)' <=> Exists(x)
        /\ Exists(x) /\ entry[x].src = "F29" => entry[x].date # m
  BY <1>1 DEF Exists, FData, RegisteredOnce
<1>5. RegisteredOnce'
  BY <1>1, <1>2, <1>3, <1>4 DEF FData, RegisteredOnce
<1>6. OneClearingEntry'
  BY <1>1, <1>4 DEF FData, OneClearingEntry
<1> QED BY <1>5, <1>6 DEF FData

LEMMA ClearingEntryStep ==
  ASSUME Serial, RInv, FInv, NEW w \in Workers, EntryRequest(w) PROVE FInv'
<1>t. TypeOK /\ FData /\ Sound(txn[w])
  BY DEF RInv, FInv
<1>1. ASSUME NEW t, txn' = [txn EXCEPT ![w] = t], UNCHANGED <<entry, f29>>,
             t.op \notin {"register", "updateF29"}
      PROVE  FInv'
  <2>1. FData'
    BY <1>1, <1>t DEF FData, OneClearingEntry, RegisteredOnce, Exists
  <2> QED BY <1>1, <1>t, <2>1, ClearingQuiet
<1>2. ASSUME CommitEdit(w) \/ CommitPost(w) PROVE FInv'
  <2>1. txn[w].e \in Entries /\ txn[w].row.src = "MANUAL"
    BY <1>2, <1>t, RequestKinds DEF CommitEdit, CommitPost, Sound, RowKinds
  <2>2. entry' = [entry EXCEPT ![txn[w].e] = txn[w].row] /\ f29' = f29 /\ Finish(w)
    BY <1>2 DEF CommitEdit, CommitPost
  <2>3. FData'
    BY <1>t, <2>1, <2>2, ClearingPlain
  <2> QED BY <1>t, <2>2, <2>3, ClearingQuiet DEF Finish, Idle
<1>3. ASSUME CommitDestroy(w) PROVE FInv'
  <2>1. Delete(txn[w].e) /\ Finish(w) /\ txn[w].e \in Entries /\ f29' = f29
    BY <1>3, <1>t, RequestKinds DEF CommitDestroy
  <2> QED BY <1>t, <2>1, ClearingDelete, ClearingQuiet DEF Finish, Idle
<1>4. ASSUME NEW e \in Entries, CommitInsert(w, e) PROVE FInv'
  <2>1. txn[w].row.src = "REVERSAL"
    BY <1>4, <1>t DEF CommitInsert, Sound
  <2>2. entry' = [entry EXCEPT ![e] = txn[w].row] /\ f29' = f29 /\ Finish(w)
    BY <1>4 DEF CommitInsert, Insert
  <2>3. FData'
    BY <1>t, <2>1, <2>2, ClearingPlain
  <2> QED BY <1>t, <2>2, <2>3, ClearingQuiet DEF Finish, Idle
<1> QED
  BY <1>1, <1>2, <1>3, <1>4
  DEF EntryRequest, ReadDraft, CheckEdit, CheckPost, CheckReverse, Start

LEMMA ClearingMovementStep ==
  ASSUME Serial, RInv, FInv, NEW w \in Workers, MovementRequest(w) PROVE FInv'
<1>t. TypeOK /\ FData /\ Sound(txn[w])
  BY DEF RInv, FInv
<1>1. ASSUME NEW t, txn' = [txn EXCEPT ![w] = t], UNCHANGED <<entry, f29>>,
             t.op \notin {"register", "updateF29"}
      PROVE  FInv'
  <2>1. FData'
    BY <1>1, <1>t DEF FData, OneClearingEntry, RegisteredOnce, Exists
  <2> QED BY <1>1, <1>t, <2>1, ClearingQuiet
<1>2. ASSUME NEW e \in Entries,
             \/ CommitAnnulReverse(w, e)
             \/ \E v \in Movements : CommitMovement(w, v, e)
      PROVE  FInv'
  <2>1. txn[w].row.src \in {"REVERSAL", "SERVICE"}
    BY <1>2, <1>t DEF CommitAnnulReverse, CommitMovement, Sound
  <2>2. entry' = [entry EXCEPT ![e] = txn[w].row] /\ f29' = f29 /\ Finish(w)
    BY <1>2 DEF CommitAnnulReverse, CommitMovement, Insert
  <2>3. FData'
    BY <1>t, <2>1, <2>2, ClearingPlain
  <2> QED BY <1>t, <2>2, <2>3, ClearingQuiet DEF Finish, Idle
<1>3. ASSUME CommitAnnulUnposted(w) PROVE FInv'
  <2>1. Finish(w) /\ mov[txn[w].v].je \in Entries /\ f29' = f29
    BY <1>3, <1>t, RequestKinds DEF CommitAnnulUnposted, Sound, TypeOK, Movement
  <2>2. Delete(mov[txn[w].v].je) \/ entry' = entry
    BY <1>3 DEF CommitAnnulUnposted
  <2>3. CASE Delete(mov[txn[w].v].je)
    BY <1>t, <2>1, <2>3, ClearingDelete, ClearingQuiet DEF Finish, Idle
  <2>4. CASE entry' = entry
    BY <1>1, <2>1, <2>4 DEF Finish, Idle
  <2> QED BY <2>2, <2>3, <2>4
<1> QED
  BY <1>1, <1>2, <1>3
  DEF MovementRequest, CheckMovement, CheckPayment, AnnulReverse, AnnulUnposted, Start

LEMMA ClearingPeriodStep ==
  ASSUME Serial, RInv, FInv, NEW w \in Workers, PeriodRequest(w) PROVE FInv'
<1>t. TypeOK /\ FData /\ Sound(txn[w]) /\ SeenDeclaration(txn[w])
  BY DEF RInv, FInv
<1>1. ASSUME NEW t, txn' = [txn EXCEPT ![w] = t], UNCHANGED <<entry, f29>>,
             t.op \notin {"register", "updateF29"}
      PROVE  FInv'
  <2>1. FData'
    BY <1>1, <1>t DEF FData, OneClearingEntry, RegisteredOnce, Exists
  <2> QED BY <1>1, <1>t, <2>1, ClearingQuiet
\* The checks that rely on a draft declaration.
<1>2. ASSUME NEW t, txn' = [txn EXCEPT ![w] = t], UNCHANGED <<entry, f29>>,
             SeenDeclaration(t)
      PROVE  FInv'
  <2>1. FData'
    BY <1>2, <1>t DEF FData, OneClearingEntry, RegisteredOnce, Exists
  <2>2. \A u \in Workers : txn'[u] = t
    BY <1>2, <1>t, Alone
  <2> QED BY <1>2, <2>1, <2>2 DEF FInv, SeenDeclaration
<1>3. ASSUME NEW m \in Months, NEW it \in NewItems, CheckRegister(w, m, it) PROVE FInv'
  <2> DEFINE t == [op |-> "register", m |-> m, due |-> f29[m].due, it |-> it,
                   row |-> NewRow("POSTED", m, "F29", NoEntry)]
  <2>1. SeenDeclaration(t)
    BY <1>3 DEF CheckRegister, SeenDeclaration, NewRow
  <2>2. txn' = [txn EXCEPT ![w] = t] /\ UNCHANGED <<entry, f29>>
    BY <1>3 DEF CheckRegister, Start
  <2> HIDE DEF t
  <2> QED BY <1>2, <2>1, <2>2
<1>4. ASSUME NEW m \in Months, NEW due \in Dues, CheckUpdateF29(w, m, due) PROVE FInv'
  <2> DEFINE t == [op |-> "updateF29", m |-> m, due |-> due]
  <2>1. SeenDeclaration(t)
    BY <1>4 DEF CheckUpdateF29, SeenDeclaration
  <2>2. txn' = [txn EXCEPT ![w] = t] /\ UNCHANGED <<entry, f29>>
    BY <1>4 DEF CheckUpdateF29, Start
  <2> HIDE DEF t
  <2> QED BY <1>2, <2>1, <2>2
<1>5. ASSUME NEW e \in Entries, CommitRegister(w, e) PROVE FInv'
  <2>1. /\ txn[w].m \in Months /\ txn[w].due \in Nat
        /\ txn[w].row.date = txn[w].m /\ f29[txn[w].m].st = "DRAFT"
    BY <1>5, <1>t, RequestKinds DEF CommitRegister, SeenDeclaration
  <2>2. /\ Insert(e, txn[w].row, txn[w].it) /\ Finish(w)
        /\ f29' = [f29 EXCEPT ![txn[w].m] = [st |-> "REGISTERED", due |-> txn[w].due]]
    BY <1>5 DEF CommitRegister
  <2>3. FData'
    BY <1>t, <2>1, <2>2, ClearingRegister
  <2> QED BY <1>t, <2>2, <2>3, ClearingQuiet DEF Finish, Idle
\* Neither recalculates nor updates take a registered declaration back.
<1>6. ASSUME CommitDeclare(w) \/ CommitUpdateF29(w) PROVE FInv'
  <2>1. entry' = entry /\ Finish(w)
    BY <1>6 DEF CommitDeclare, CommitUpdateF29
  <2>2. \A m \in Months : f29[m].st = "REGISTERED" => f29'[m].st = "REGISTERED"
    <3>1. CASE CommitDeclare(w)
      BY <3>1, <1>t, RequestKinds DEF CommitDeclare, TypeOK
    <3>2. CASE CommitUpdateF29(w)
      BY <3>2, <1>t, RequestKinds DEF CommitUpdateF29, SeenDeclaration, TypeOK
    <3> QED BY <1>6, <3>1, <3>2
  <2>3. FData'
    BY <1>t, <2>1, <2>2, ClearingKeep DEF Exists
  <2> QED BY <1>t, <2>1, <2>3, ClearingQuiet DEF Finish, Idle
<1>7. ASSUME CommitCloseAcc(w) \/ CommitReopenAcc(w) PROVE FInv'
  <2>1. txn[w].m \in Months /\ f29' = f29 /\ Finish(w)
    BY <1>7, <1>t, RequestKinds DEF CommitCloseAcc, CommitReopenAcc
  <2>2. SaveAcc(txn[w].m, "CLOSED") \/ SaveAcc(txn[w].m, "OPEN")
    BY <1>7 DEF CommitCloseAcc, CommitReopenAcc
  <2>3. FData'
    BY <1>t, <2>1, <2>2, ClearingSaveAcc
  <2> QED BY <1>t, <2>1, <2>3, ClearingQuiet DEF Finish, Idle
<1> QED
  BY <1>1, <1>3, <1>4, <1>5, <1>6, <1>7
  DEF PeriodRequest, CheckDeclare, CheckCloseTax, CheckReopenTax, CommitTax,
      CheckCloseAcc, CheckReopenAcc, Start, Finish, Idle

LEMMA ClearingStep == ASSUME Serial PROVE RInv /\ FInv /\ [Next]_vars => FInv'
<1> SUFFICES ASSUME RInv, FInv, [Next]_vars PROVE FInv'
  OBVIOUS
<1>t. TypeOK /\ FData /\ \A w \in Workers : Sound(txn[w]) /\ SeenDeclaration(txn[w])
  BY DEF RInv, FInv
<1>s. ASSUME UNCHANGED <<f29, txn>>, FData' PROVE FInv'
  BY <1>s, <1>t DEF FInv, SeenDeclaration
<1>1. ASSUME NEW e \in Entries, NEW d \in Months, NEW it \in NewItems,
             CreateEntry(e, d, it)
      PROVE  FInv'
  <2> DEFINE row == [Blank("DRAFT") EXCEPT !.date = d]
  <2>1. entry' = [entry EXCEPT ![e] = row] /\ UNCHANGED <<f29, txn>>
    BY <1>1 DEF CreateEntry, Insert
  <2>2. row.src # "F29"
    BY DEF Blank
  <2> HIDE DEF row
  <2>3. FData'
    BY <1>t, <2>1, <2>2, ClearingPlain
  <2> QED BY <1>s, <2>1, <2>3
<1>2. ASSUME NEW m \in Months, NEW st \in {"OPEN", "CLOSED"}, RawAcc(m, st) PROVE FInv'
  BY <1>2, <1>s, <1>t, ClearingSaveAcc DEF RawAcc
<1>3. ASSUME UNCHANGED <<entry, f29>> PROVE FData'
  BY <1>3, <1>t DEF FData, OneClearingEntry, RegisteredOnce, Exists
<1>4. ASSUME NEW w \in Workers, Rollback(w) PROVE FInv'
  BY <1>3, <1>4, <1>t, ClearingQuiet DEF Rollback, Finish, Idle
<1>5. ASSUME UNCHANGED <<entry, f29, txn>> PROVE FInv'
  BY <1>3, <1>5, <1>s
<1> QED
  BY <1>1, <1>2, <1>4, <1>5, ClearingEntryStep, ClearingMovementStep, ClearingPeriodStep
  DEF Next, OpenPeriod, RawTax, NextMonth, vars

\* Through any sequence of requests that do not overlap, a month is declared with
\* one clearing entry: register_declaration leaves DRAFT, and neither a
\* recalculation nor the update of the viewset brings a registered one back.
THEOREM DeclaredWithOneEntry == ASSUME Serial PROVE Spec => []OneClearingEntry
<1>1. Init => FInv
  BY DEF Init, FInv, FData, OneClearingEntry, RegisteredOnce, SeenDeclaration, Exists,
         Blank, Idle
<1>2. RInv /\ FInv /\ [Next]_vars => FInv'
  BY ClearingStep
<1>3. FInv => OneClearingEntry
  BY DEF FInv, FData
<1> QED BY <1>1, <1>2, <1>3, ReversalInductive, PTL DEF Spec

-----------------------------------------------------------------------------
(* Drafts and closed periods.  The saves that file a draft under a period    *)
(* have seen it open, and a closing has seen no draft; drafts created beside *)
(* it are filed under none.                                                  *)

SeenDrafts(t) ==
  /\ t.op = "editing" => t.row.fk \in Months /\ acc[t.row.fk] # "CLOSED"
  /\ t.op = "posting" => t.row.st = "POSTED"
  /\ t.op = "closeAcc" => \A e \in Entries : ~ (entry[e].st = "DRAFT" /\ entry[e].fk = t.m)

GInv == NoDraftFiledInClosedPeriod /\ \A w \in Workers : SeenDrafts(txn[w])

LEMMA FiledQuiet ==
  ASSUME Serial, TypeOK, NEW w \in Workers, NEW t, txn' = [txn EXCEPT ![w] = t],
         t.op \notin {"editing", "posting", "closeAcc"}, NoDraftFiledInClosedPeriod'
  PROVE  GInv'
<1>1. \A u \in Workers : txn'[u] = t
  BY Alone
<1> QED BY <1>1 DEF GInv, SeenDrafts

\* Every draft filed after the step was filed before, in a period not closed since.
LEMMA FiledKeep ==
  ASSUME TypeOK, NoDraftFiledInClosedPeriod,
         \A x \in Entries : entry'[x].st = "DRAFT" /\ entry'[x].fk # NoMonth =>
           entry[x].st = "DRAFT" /\ entry[x].fk = entry'[x].fk,
         \A m \in Months : acc'[m] = "CLOSED" => acc[m] = "CLOSED"
  PROVE  NoDraftFiledInClosedPeriod'
<1>1. \A x \in Entries : entry[x].fk \in Months \cup {NoMonth}
  BY DEF TypeOK, Row
<1> QED BY <1>1 DEF NoDraftFiledInClosedPeriod

\* A row written that is no draft, or one whose period is open or none.
LEMMA FiledWrite ==
  ASSUME TypeOK, NoDraftFiledInClosedPeriod, NEW e \in Entries, NEW row,
         entry' = [entry EXCEPT ![e] = row],
         row.st = "DRAFT" /\ row.fk # NoMonth => row.fk \in Months /\ acc[row.fk] # "CLOSED",
         \A m \in Months : acc'[m] = "CLOSED" <=> acc[m] = "CLOSED"
  PROVE  NoDraftFiledInClosedPeriod'
<1>1. entry'[e] = row /\ \A x \in Entries : x # e => entry'[x] = entry[x]
  BY OverwriteShape
<1>2. \A x \in Entries : entry[x].fk \in Months \cup {NoMonth}
  BY DEF TypeOK, Row
<1> QED BY <1>1, <1>2 DEF NoDraftFiledInClosedPeriod

LEMMA FiledEntryStep ==
  ASSUME Serial, RInv, GInv, NEW w \in Workers, EntryRequest(w) PROVE GInv'
<1>t. TypeOK /\ NoDraftFiledInClosedPeriod /\ Sound(txn[w]) /\ SeenDrafts(txn[w])
  BY DEF RInv, GInv
<1>0. ASSUME UNCHANGED <<entry, acc>> PROVE NoDraftFiledInClosedPeriod'
  BY <1>0, <1>t DEF NoDraftFiledInClosedPeriod
<1>1. ASSUME NEW t, txn' = [txn EXCEPT ![w] = t], UNCHANGED <<entry, acc>>,
             t.op \notin {"editing", "posting", "closeAcc"}
      PROVE  GInv'
  BY <1>0, <1>1, <1>t, FiledQuiet
<1>2. ASSUME NEW t, txn' = [txn EXCEPT ![w] = t], UNCHANGED <<entry, acc>>,
             t.op # "closeAcc", SeenDrafts(t)
      PROVE  GInv'
  <2>1. \A u \in Workers : txn'[u] = t
    BY <1>2, <1>t, Alone
  <2> QED BY <1>0, <1>2, <2>1 DEF GInv, SeenDrafts
<1>3. ASSUME NEW d \in Months, NEW it \in NewItems \cup {"keep"},
             CheckEdit(w, d, it)
      PROVE  GInv'
  <2> DEFINE row == [txn[w].row EXCEPT !.date = d]
             t == [op |-> "editing", e |-> txn[w].e, row |-> SavedRow(row), it |-> it]
  <2>1. row \in Row /\ CanSave(row)
    BY <1>3, <1>t, RequestKinds DEF CheckEdit, Row
  <2>2. SavedRow(row).fk = PeriodOf(row) /\ PeriodOf(row) \in Months
    BY <2>1, SavedIsRow DEF SavedRow, Row
  <2>3. SeenDrafts(t)
    BY <2>1, <2>2 DEF SeenDrafts, CanSave
  <2>4. txn' = [txn EXCEPT ![w] = t] /\ UNCHANGED <<entry, acc>> /\ t.op # "closeAcc"
    BY <1>3 DEF CheckEdit
  <2> HIDE DEF t
  <2> QED BY <1>2, <2>3, <2>4
<1>4. ASSUME CheckPost(w) PROVE GInv'
  <2> DEFINE row == [txn[w].row EXCEPT !.st = "POSTED"]
             t == [op |-> "posting", e |-> txn[w].e, row |-> SavedRow(row)]
  <2>1. SavedRow(row).st = "POSTED"
    BY <1>4, <1>t, RequestKinds DEF CheckPost, SavedRow, Row
  <2>2. SeenDrafts(t)
    BY <2>1 DEF SeenDrafts
  <2>3. txn' = [txn EXCEPT ![w] = t] /\ UNCHANGED <<entry, acc>> /\ t.op # "closeAcc"
    BY <1>4 DEF CheckPost
  <2> HIDE DEF t
  <2> QED BY <1>2, <2>2, <2>3
<1>5. ASSUME CommitEdit(w) \/ CommitPost(w) PROVE GInv'
  <2>1. /\ txn[w].e \in Entries
        /\ txn[w].row.st = "DRAFT" =>
             txn[w].row.fk \in Months /\ acc[txn[w].row.fk] # "CLOSED"
    BY <1>5, <1>t, RequestKinds DEF CommitEdit, CommitPost, SeenDrafts
  <2>2. /\ entry' = [entry EXCEPT ![txn[w].e] = txn[w].row] /\ Finish(w)
        /\ acc' = WithPeriod(acc, txn[w].row.fk)
    BY <1>5 DEF CommitEdit, CommitPost
  <2>3. NoDraftFiledInClosedPeriod'
    BY <1>t, <2>1, <2>2, OpensOnly, FiledWrite
  <2> QED BY <1>t, <2>2, <2>3, FiledQuiet DEF Finish, Idle
<1>6. ASSUME CommitDestroy(w) PROVE GInv'
  <2>1. Delete(txn[w].e) /\ Finish(w) /\ txn[w].e \in Entries /\ acc' = acc
    BY <1>6, <1>t, RequestKinds DEF CommitDestroy
  <2>2. NoDraftFiledInClosedPeriod'
    BY <1>t, <2>1, DeleteShape, FiledKeep DEF Blank
  <2> QED BY <1>t, <2>1, <2>2, FiledQuiet DEF Finish, Idle
<1>7. ASSUME NEW e \in Entries, CommitInsert(w, e) PROVE GInv'
  <2>1. txn[w].row.st = "REVERSAL"
    BY <1>7, <1>t DEF CommitInsert, Sound
  <2>2. /\ entry' = [entry EXCEPT ![e] = txn[w].row] /\ Finish(w)
        /\ acc' = WithPeriod(acc, txn[w].row.fk)
    BY <1>7 DEF CommitInsert, Insert
  <2>3. NoDraftFiledInClosedPeriod'
    BY <1>t, <2>1, <2>2, OpensOnly, FiledWrite
  <2> QED BY <1>t, <2>2, <2>3, FiledQuiet DEF Finish, Idle
<1> QED
  BY <1>1, <1>3, <1>4, <1>5, <1>6, <1>7 DEF EntryRequest, ReadDraft, CheckReverse, Start

LEMMA FiledMovementStep ==
  ASSUME Serial, RInv, GInv, NEW w \in Workers, MovementRequest(w) PROVE GInv'
<1>t. TypeOK /\ NoDraftFiledInClosedPeriod /\ Sound(txn[w])
  BY DEF RInv, GInv
<1>1. ASSUME NEW t, txn' = [txn EXCEPT ![w] = t], UNCHANGED <<entry, acc>>,
             t.op \notin {"editing", "posting", "closeAcc"}
      PROVE  GInv'
  <2>1. NoDraftFiledInClosedPeriod'
    BY <1>1, <1>t DEF NoDraftFiledInClosedPeriod
  <2> QED BY <1>1, <1>t, <2>1, FiledQuiet
<1>2. ASSUME NEW e \in Entries,
             \/ CommitAnnulReverse(w, e)
             \/ \E v \in Movements : CommitMovement(w, v, e)
      PROVE  GInv'
  <2>1. txn[w].row.st \in {"REVERSAL", "POSTED"}
    BY <1>2, <1>t DEF CommitAnnulReverse, CommitMovement, Sound
  <2>2. /\ entry' = [entry EXCEPT ![e] = txn[w].row] /\ Finish(w)
        /\ acc' = WithPeriod(acc, txn[w].row.fk)
    BY <1>2 DEF CommitAnnulReverse, CommitMovement, Insert
  <2>3. NoDraftFiledInClosedPeriod'
    BY <1>t, <2>1, <2>2, OpensOnly, FiledWrite
  <2> QED BY <1>t, <2>2, <2>3, FiledQuiet DEF Finish, Idle
<1>3. ASSUME CommitAnnulUnposted(w) PROVE GInv'
  <2>1. Finish(w) /\ mov[txn[w].v].je \in Entries /\ acc' = acc
    BY <1>3, <1>t, RequestKinds DEF CommitAnnulUnposted, Sound, TypeOK, Movement
  <2>2. Delete(mov[txn[w].v].je) \/ entry' = entry
    BY <1>3 DEF CommitAnnulUnposted
  <2>3. CASE Delete(mov[txn[w].v].je)
    <3>1. NoDraftFiledInClosedPeriod'
      BY <1>t, <2>1, <2>3, DeleteShape, FiledKeep DEF Blank
    <3> QED BY <1>t, <2>1, <3>1, FiledQuiet DEF Finish, Idle
  <2>4. CASE entry' = entry
    BY <1>1, <2>1, <2>4 DEF Finish, Idle
  <2> QED BY <2>2, <2>3, <2>4
<1> QED
  BY <1>1, <1>2, <1>3
  DEF MovementRequest, CheckMovement, CheckPayment, AnnulReverse, AnnulUnposted, Start

LEMMA FiledPeriodStep ==
  ASSUME Serial, RInv, GInv, NEW w \in Workers, PeriodRequest(w) PROVE GInv'
<1>t. TypeOK /\ NoDraftFiledInClosedPeriod /\ Sound(txn[w]) /\ SeenDrafts(txn[w])
  BY DEF RInv, GInv
<1>0. ASSUME UNCHANGED <<entry, acc>> PROVE NoDraftFiledInClosedPeriod'
  BY <1>0, <1>t DEF NoDraftFiledInClosedPeriod
<1>1. ASSUME NEW t, txn' = [txn EXCEPT ![w] = t], UNCHANGED <<entry, acc>>,
             t.op \notin {"editing", "posting", "closeAcc"}
      PROVE  GInv'
  BY <1>0, <1>1, <1>t, FiledQuiet
<1>2. ASSUME NEW m \in Months, CheckCloseAcc(w, m) PROVE GInv'
  <2> DEFINE t == [op |-> "closeAcc", m |-> m]
  <2>1. \A e \in Entries : ~ (entry[e].st = "DRAFT" /\ entry[e].fk = m)
    BY <1>2 DEF CheckCloseAcc
  <2>2. txn' = [txn EXCEPT ![w] = t] /\ UNCHANGED <<entry, acc>>
    BY <1>2 DEF CheckCloseAcc, Start
  <2>3. \A u \in Workers : txn'[u] = t
    BY <1>t, <2>2, Alone
  <2> QED BY <1>0, <2>1, <2>2, <2>3 DEF GInv, SeenDrafts
<1>3. ASSUME NEW e \in Entries, CommitRegister(w, e) PROVE GInv'
  <2>1. txn[w].row.st = "POSTED"
    BY <1>3, <1>t DEF CommitRegister, Sound
  <2>2. /\ entry' = [entry EXCEPT ![e] = txn[w].row] /\ Finish(w)
        /\ acc' = WithPeriod(acc, txn[w].m)
    BY <1>3 DEF CommitRegister, Insert
  <2>3. NoDraftFiledInClosedPeriod'
    BY <1>t, <2>1, <2>2, OpensOnly, FiledWrite
  <2> QED BY <1>t, <2>2, <2>3, FiledQuiet DEF Finish, Idle
\* What the closing has counted is what it closes over.
<1>4. ASSUME CommitCloseAcc(w) PROVE GInv'
  <2> DEFINE m == txn[w].m
  <2>1. /\ m \in Months /\ SaveAcc(m, "CLOSED") /\ Finish(w)
        /\ \A e \in Entries : ~ (entry[e].st = "DRAFT" /\ entry[e].fk = m)
    BY <1>4, <1>t, RequestKinds DEF CommitCloseAcc, SeenDrafts
  <2> HIDE DEF m
  <2>2. /\ \A n \in Months : n # m => acc'[n] = acc[n]
        /\ \A x \in Entries : entry'[x].fk = entry[x].fk
        /\ \A x \in Entries : entry'[x].st = "DRAFT" => entry[x].st = "DRAFT"
    BY <1>t, <2>1, SaveAccShape
  <2>3. \A x \in Entries : entry[x].fk \in Months \cup {NoMonth}
    BY <1>t DEF TypeOK, Row
  <2>4. NoDraftFiledInClosedPeriod'
    BY <1>t, <2>1, <2>2, <2>3 DEF NoDraftFiledInClosedPeriod
  <2> QED BY <1>t, <2>1, <2>4, FiledQuiet DEF Finish, Idle
<1>5. ASSUME CommitReopenAcc(w) PROVE GInv'
  <2> DEFINE m == txn[w].m
  <2>1. m \in Months /\ SaveAcc(m, "OPEN") /\ Finish(w)
    BY <1>5, <1>t, RequestKinds DEF CommitReopenAcc
  <2> HIDE DEF m
  <2>2. /\ \A n \in Months : acc'[n] = "CLOSED" => acc[n] = "CLOSED"
        /\ \A x \in Entries : entry'[x].fk = entry[x].fk
        /\ \A x \in Entries : entry'[x].st = "DRAFT" => entry[x].st = "DRAFT"
    BY <1>t, <2>1, SaveAccShape
  <2>3. NoDraftFiledInClosedPeriod'
    BY <1>t, <2>2, FiledKeep
  <2> QED BY <1>t, <2>1, <2>3, FiledQuiet DEF Finish, Idle
<1> QED
  BY <1>1, <1>2, <1>3, <1>4, <1>5
  DEF PeriodRequest, CheckDeclare, CommitDeclare, CheckRegister, CheckCloseTax,
      CheckReopenTax, CommitTax, CheckReopenAcc, CheckUpdateF29, CommitUpdateF29,
      Start, Finish, Idle

LEMMA FiledStep == ASSUME Serial, ~ RawWrites PROVE RInv /\ GInv /\ [Next]_vars => GInv'
<1> SUFFICES ASSUME RInv, GInv, [Next]_vars PROVE GInv'
  OBVIOUS
<1>t. /\ TypeOK /\ NoDraftFiledInClosedPeriod
      /\ \A w \in Workers : Sound(txn[w]) /\ SeenDrafts(txn[w])
  BY DEF RInv, GInv
\* A draft created beside a closing is filed under no period.
<1>1. ASSUME NEW e \in Entries, NEW d \in Months, NEW it \in NewItems,
             CreateEntry(e, d, it)
      PROVE  GInv'
  <2>1. /\ entry'[e].fk = NoMonth /\ \A x \in Entries : x # e => entry'[x] = entry[x]
        /\ UNCHANGED <<acc, txn>>
    BY <1>1, <1>t, InsertShape DEF CreateEntry, Blank
  <2>2. NoDraftFiledInClosedPeriod'
    BY <1>t, <2>1, FiledKeep
  <2>3. \A w \in Workers : txn[w].op = "closeAcc" => txn[w].m # NoMonth
    BY <1>t, RequestKinds DEF Months, NoMonth
  <2> QED BY <1>t, <2>1, <2>2, <2>3 DEF GInv, SeenDrafts
<1>2. ASSUME NEW m \in Months, OpenPeriod(m) PROVE GInv'
  <2>1. /\ UNCHANGED <<entry, txn>>
        /\ \A n \in Months : acc'[n] = "CLOSED" <=> acc[n] = "CLOSED"
    BY <1>2, <1>t, OpensOnly DEF OpenPeriod
  <2>2. NoDraftFiledInClosedPeriod'
    BY <1>t, <2>1, FiledKeep
  <2> QED BY <1>t, <2>1, <2>2 DEF GInv, SeenDrafts
<1>3. ASSUME NEW w \in Workers, Rollback(w) PROVE GInv'
  <2>1. NoDraftFiledInClosedPeriod'
    BY <1>3, <1>t DEF Rollback, NoDraftFiledInClosedPeriod
  <2> QED BY <1>3, <1>t, <2>1, FiledQuiet DEF Rollback, Finish, Idle
<1>4. ASSUME UNCHANGED <<entry, acc, txn>> PROVE GInv'
  BY <1>4, <1>t DEF GInv, NoDraftFiledInClosedPeriod, SeenDrafts
<1> QED
  BY <1>1, <1>2, <1>3, <1>4, FiledEntryStep, FiledMovementStep, FiledPeriodStep
  DEF Next, RawAcc, RawTax, NextMonth, vars

\* What close_period counted stays true: through any sequence of requests that do
\* not overlap, unless the generic update writes the status of a period, no draft is
\* filed under a closed one, by an edit that moves it or by a save that files it.
THEOREM DraftsOutsideClosed ==
  ASSUME Serial, ~ RawWrites PROVE Spec => []NoDraftFiledInClosedPeriod
<1>1. Init => GInv
  BY DEF Init, GInv, NoDraftFiledInClosedPeriod, SeenDrafts, Blank, Idle
<1>2. RInv /\ GInv /\ [Next]_vars => GInv'
  BY FiledStep
<1>3. GInv => NoDraftFiledInClosedPeriod
  BY DEF GInv
<1> QED BY <1>1, <1>2, <1>3, ReversalInductive, PTL DEF Spec

-----------------------------------------------------------------------------
(* The two locks implement MonthLock.  The reopening of the books never gets  *)
(* past its guard, because the locks nest; a posting in flight has seen the   *)
(* period of its row open, and nothing closes it before the commit.           *)

SeenLocks(t) ==
  /\ t.op # "reopenAcc"
  /\ \/ t.op \in {"posting", "insert", "register"}
     \/ t.op = "annul" /\ t.how = "reverse"
     => t.row.fk \in Months /\ acc[t.row.fk] # "CLOSED"

LInv == \A w \in Workers : SeenLocks(txn[w])

\* A request that has seen the period of its row starts.
LEMMA LockStart ==
  ASSUME Serial, TypeOK, NEW w \in Workers, NEW t, txn' = [txn EXCEPT ![w] = t],
         SeenLocks(t), UNCHANGED acc
  PROVE  LInv'
<1>1. \A u \in Workers : txn'[u] = t
  BY Alone
<1> QED BY <1>1 DEF LInv, SeenLocks

\* A request that posts nothing starts, or any request ends.
LEMMA LockQuiet ==
  ASSUME Serial, TypeOK, NEW w \in Workers, NEW t, txn' = [txn EXCEPT ![w] = t],
         t.op \notin {"reopenAcc", "posting", "insert", "register", "annul"}
  PROVE  LInv'
<1>1. \A u \in Workers : txn'[u] = t
  BY Alone
<1> QED BY <1>1 DEF LInv, SeenLocks

LEMMA LockFinish ==
  ASSUME Serial, TypeOK, NEW w \in Workers, Finish(w) PROVE LInv'
BY LockQuiet DEF Finish, Idle

LEMMA LockEntryStep ==
  ASSUME Serial, TypeOK, NEW w \in Workers, EntryRequest(w) PROVE LInv'
<1>1. ASSUME NEW e \in Entries, NEW op \in {"edit", "post", "destroy"},
             ReadDraft(w, e, op)
      PROVE  LInv'
  BY <1>1, LockQuiet DEF ReadDraft, Start
<1>2. ASSUME NEW d \in Months, NEW it \in NewItems \cup {"keep"},
             CheckEdit(w, d, it)
      PROVE  LInv'
  BY <1>2, LockQuiet DEF CheckEdit
<1>3. ASSUME CheckPost(w) PROVE LInv'
  <2> DEFINE row == [txn[w].row EXCEPT !.st = "POSTED"]
             t == [op |-> "posting", e |-> txn[w].e, row |-> SavedRow(row)]
  <2>1. row \in Row /\ CanSave(row)
    BY <1>3, RequestKinds DEF CheckPost, Row, EntryStatus
  <2>2. SavedRow(row).fk = PeriodOf(row) /\ PeriodOf(row) \in Months
    BY <2>1, SavedIsRow DEF SavedRow, Row
  <2>3. SeenLocks(t)
    BY <2>1, <2>2 DEF SeenLocks, CanSave
  <2>4. txn' = [txn EXCEPT ![w] = t] /\ acc' = acc
    BY <1>3 DEF CheckPost
  <2> HIDE DEF t
  <2> QED BY <2>3, <2>4, LockStart
<1>4. ASSUME NEW e \in Entries, CheckReverse(w, e) PROVE LInv'
  <2> DEFINE t == [op |-> "insert", row |-> ReversalRow(e), it |-> items[e]]
  <2>1. SeenLocks(t)
    BY <1>4 DEF CheckReverse, CanReverse, SeenLocks, ReversalRow, NewRow, TypeOK
  <2>2. txn' = [txn EXCEPT ![w] = t] /\ acc' = acc
    BY <1>4 DEF CheckReverse, Start
  <2> HIDE DEF t
  <2> QED BY <2>1, <2>2, LockStart
<1> QED
  BY <1>1, <1>2, <1>3, <1>4, LockFinish
  DEF EntryRequest, CommitEdit, CommitPost, CommitDestroy, CommitInsert

LEMMA LockMovementStep ==
  ASSUME Serial, TypeOK, NEW w \in Workers, MovementRequest(w) PROVE LInv'
<1>1. ASSUME \/ \E d \in Months : CheckMovement(w, d)
             \/ \E m, d \in Months : CheckPayment(w, m, d)
      PROVE  LInv'
  BY <1>1, LockQuiet DEF CheckMovement, CheckPayment, Start
<1>2. ASSUME NEW v \in Movements, AnnulReverse(w, v) PROVE LInv'
  <2> DEFINE e == mov[v].je
             t == [op |-> "annul", v |-> v, how |-> "reverse",
                   row |-> ReversalRow(e), it |-> items[e]]
  <2>1. SeenLocks(t)
    BY <1>2 DEF AnnulReverse, CanReverse, SeenLocks, ReversalRow, NewRow, TypeOK
  <2>2. txn' = [txn EXCEPT ![w] = t] /\ acc' = acc
    BY <1>2 DEF AnnulReverse, Start
  <2> HIDE DEF t
  <2> QED BY <2>1, <2>2, LockStart
<1>3. ASSUME NEW v \in Movements, AnnulUnposted(w, v) PROVE LInv'
  <2> DEFINE t == [op |-> "annul", v |-> v,
                   how |-> IF mov[v].owner = NoMonth THEN "delete" ELSE "cancel"]
  <2>1. SeenLocks(t)
    BY DEF SeenLocks
  <2>2. txn' = [txn EXCEPT ![w] = t] /\ acc' = acc
    BY <1>3 DEF AnnulUnposted, Start
  <2> HIDE DEF t
  <2> QED BY <2>1, <2>2, LockStart
<1> QED
  BY <1>1, <1>2, <1>3, LockFinish
  DEF MovementRequest, CommitMovement, CommitAnnulReverse, CommitAnnulUnposted

LEMMA LockPeriodStep ==
  ASSUME Serial, NInv, NEW w \in Workers, PeriodRequest(w) PROVE LInv'
<1>t. TypeOK /\ AccountingNeedsTax
  BY DEF NInv
<1>1. ASSUME NEW m \in Months, NEW it \in NewItems, CheckRegister(w, m, it) PROVE LInv'
  <2> DEFINE t == [op |-> "register", m |-> m, due |-> f29[m].due, it |-> it,
                   row |-> NewRow("POSTED", m, "F29", NoEntry)]
  <2>1. SeenLocks(t)
    BY <1>1 DEF CheckRegister, SeenLocks, NewRow
  <2>2. txn' = [txn EXCEPT ![w] = t] /\ acc' = acc
    BY <1>1 DEF CheckRegister, Start
  <2> HIDE DEF t
  <2> QED BY <1>t, <2>1, <2>2, LockStart
<1>2. ASSUME NEW m \in Months, CheckReopenAcc(w, m) PROVE LInv'
  BY <1>2, <1>t DEF CheckReopenAcc, CanReopenAcc, AccountingNeedsTax
<1> QED
  BY <1>t, <1>1, <1>2, LockQuiet, LockFinish
  DEF PeriodRequest, CheckDeclare, CommitDeclare, CommitRegister, CheckCloseTax,
      CheckReopenTax, CommitTax, CheckCloseAcc, CommitCloseAcc, CommitReopenAcc,
      CheckUpdateF29, CommitUpdateF29, Start

LEMMA LockStep == ASSUME Serial, ~ RawWrites PROVE NInv /\ LInv /\ [Next]_vars => LInv'
<1> SUFFICES ASSUME NInv, LInv, [Next]_vars PROVE LInv'
  OBVIOUS
<1>t. TypeOK
  BY DEF NInv
<1>1. ASSUME NEW m \in Months, OpenPeriod(m) PROVE LInv'
  <2>1. txn' = txn /\ \A n \in Months : acc'[n] = "CLOSED" <=> acc[n] = "CLOSED"
    BY <1>1, <1>t, OpensOnly DEF OpenPeriod
  <2> QED BY <2>1 DEF LInv, SeenLocks
<1>2. ASSUME NEW w \in Workers, Rollback(w) PROVE LInv'
  BY <1>2, <1>t, LockFinish DEF Rollback
<1>3. ASSUME UNCHANGED <<acc, txn>> PROVE LInv'
  BY <1>3 DEF LInv, SeenLocks
<1> QED
  BY <1>t, <1>1, <1>2, <1>3, LockEntryStep, LockMovementStep, LockPeriodStep
  DEF Next, CreateEntry, RawAcc, RawTax, NextMonth, vars

\* The refinement mapping.
locks  == [m \in Months |-> Phase(m)]
posted == [m \in Months |-> Books(m)]

\* Membership of an entry in the books of month m.
Booked(e, m) ==
  entry[e].st \in Affecting /\ entry[e].src # "SERVICE" /\ entry[e].fk = m

LEMMA BooksSame ==
  ASSUME NEW m,
         \A x \in Entries : Booked(x, m)' <=> Booked(x, m),
         \A x \in Entries : Booked(x, m) => items'[x] = items[x]
  PROVE  Books(m)' = Books(m)
BY DEF Books, Booked

\* Both locks of each month as closed, or as open, as before.
SameLocks ==
  \A m \in Months : /\ acc'[m] = "CLOSED" <=> acc[m] = "CLOSED"
                    /\ tax'[m] = "CLOSED" <=> tax[m] = "CLOSED"

LEMMA LocksSame == ASSUME SameLocks PROVE locks' = locks
<1>1. \A m \in Months : Phase(m)' = Phase(m)
  BY DEF SameLocks, Phase, Closed
<1> QED BY <1>1 DEF locks

LEMMA LocksMove ==
  ASSUME NEW m \in Months,
         \A n \in Months \ {m} : /\ acc'[n] = "CLOSED" <=> acc[n] = "CLOSED"
                                 /\ tax'[n] = "CLOSED" <=> tax[n] = "CLOSED"
  PROVE  locks' = [locks EXCEPT ![m] = Phase(m)']
<1>1. \A n \in Months \ {m} : Phase(n)' = Phase(n)
  BY DEF Phase, Closed
<1> QED BY <1>1 DEF locks

\* Rows written outside the books of every month, or free of them.
LEMMA BooksKeep ==
  ASSUME \A x \in Entries : \A m \in Months : Booked(x, m)' <=> Booked(x, m),
         \A x \in Entries : \A m \in Months : Booked(x, m) => items'[x] = items[x]
  PROVE  posted' = posted
<1>1. \A m \in Months : Books(m)' = Books(m)
  BY BooksSame
<1> QED BY <1>1 DEF posted

\* A row that is outside the books before the step, and the rest as it was.
LEMMA BooksWrite ==
  ASSUME TypeOK, NEW e \in Entries, NEW row, entry' = [entry EXCEPT ![e] = row],
         \A x \in Entries : x # e => items'[x] = items[x],
         entry[e].st \notin Affecting, NEW m, row.fk # m
  PROVE  Books(m)' = Books(m)
<1>1. entry'[e] = row /\ \A x \in Entries : x # e => entry'[x] = entry[x]
  BY OverwriteShape
<1> QED BY <1>1, BooksSame DEF Booked

\* The row written is not one of the books either.
LEMMA BooksBeside ==
  ASSUME TypeOK, NEW e \in Entries, NEW row, entry' = [entry EXCEPT ![e] = row],
         \A x \in Entries : x # e => items'[x] = items[x],
         entry[e].st \notin Affecting, row.st \notin Affecting \/ row.src = "SERVICE"
  PROVE  posted' = posted
<1>1. entry'[e] = row /\ \A x \in Entries : x # e => entry'[x] = entry[x]
  BY OverwriteShape
<1> QED BY <1>1, BooksKeep DEF Booked

LEMMA BooksDeleted ==
  ASSUME TypeOK, NEW e \in Entries, Delete(e),
         entry[e].st = "DRAFT" \/ entry[e].src = "SERVICE"
  PROVE  posted' = posted
<1>1. \A m : ~ Booked(e, m)' /\ ~ Booked(e, m)
  BY DeleteShape DEF Booked, Affecting, Blank
<1>2. \A x \in Entries : x # e =>
        items'[x] = items[x] /\ \A m : Booked(x, m)' <=> Booked(x, m)
  BY DeleteShape DEF Booked
<1> QED BY <1>1, <1>2, BooksKeep

\* Marking moves rows between POSTED and CLOSED, both of them in the books.
LEMMA BooksMarked ==
  ASSUME TypeOK, NEW m \in Months, NEW st \in {"OPEN", "CLOSED"}, SaveAcc(m, st),
         UNCHANGED items
  PROVE  posted' = posted
<1>1. \A x \in Entries : \A n \in Months : Booked(x, n)' <=> Booked(x, n)
  BY SaveAccShape DEF Booked, Affecting
<1> QED BY <1>1, BooksKeep

LEMMA BooksQuiet == ASSUME UNCHANGED <<entry, items>> PROVE posted' = posted
BY BooksKeep DEF Booked

-----------------------------------------------------------------------------
(* The steps of MonthLock that the requests are. *)

MonthLockStep == [Lock!Next]_<<locks, posted>>

\* A posting whose period has been seen open.
LEMMA LockPosts ==
  ASSUME TypeOK, SameLocks, NEW e \in Entries, NEW row \in Row,
         entry' = [entry EXCEPT ![e] = row], entry[e].st \notin Affecting,
         \A x \in Entries : x # e => items'[x] = items[x], items' \in [Entries -> ItemState],
         row.fk \in Months, acc[row.fk] # "CLOSED"
  PROVE  MonthLockStep
<1> DEFINE m == row.fk
<1>1. locks' = locks
  BY LocksSame
<1>2. locks[m] # "closed"
  BY DEF locks, Phase, Closed
<1>3. posted' \in [Months -> SUBSET (Entries \X ItemState)]
  BY DEF posted, Books
<1>4. \A n \in Months \ {m} : posted'[n] = posted[n]
  <2>1. \A n \in Months \ {m} : Books(n)' = Books(n)
    BY BooksWrite
  <2> QED BY <2>1 DEF posted
<1> HIDE DEF m
<1>5. m \in Months
  BY DEF m
<1>6. Lock!Write(m)
  BY <1>1, <1>2, <1>3, <1>4 DEF Lock!Write, locks, posted
<1> QED BY <1>5, <1>6 DEF MonthLockStep, Lock!Next

\* Steps that leave both locks of every month and its books alone.
LEMMA LockStutters == ASSUME SameLocks, posted' = posted PROVE MonthLockStep
BY LocksSame DEF MonthLockStep

LEMMA LockEntry ==
  ASSUME RInv, BInv, LInv, NEW w \in Workers, EntryRequest(w) PROVE MonthLockStep
<1>t. /\ TypeOK /\ TypeOK' /\ Sound(txn[w]) /\ SeenItems(txn[w]) /\ SeenLocks(txn[w])
  BY ReversalStep DEF RInv, BInv, LInv, Next
<1>q. ASSUME UNCHANGED <<acc, tax, entry, items>> PROVE MonthLockStep
  BY <1>q, BooksQuiet, LockStutters DEF SameLocks
<1>o. ASSUME NEW m, acc' = WithPeriod(acc, m), tax' = tax PROVE SameLocks
  BY <1>o, <1>t, OpensOnly DEF SameLocks
<1>1. ASSUME CommitEdit(w) PROVE MonthLockStep
  <2>1. /\ txn[w].e \in Entries /\ entry[txn[w].e].st = "DRAFT" /\ txn[w].row.st = "DRAFT"
        /\ entry' = [entry EXCEPT ![txn[w].e] = txn[w].row]
        /\ \A x \in Entries : x # txn[w].e => items'[x] = items[x]
    BY <1>1, <1>t, RequestKinds DEF CommitEdit, SeenItems, RowKinds, TypeOK
  <2>2. posted' = posted
    BY <1>t, <2>1, BooksBeside DEF Affecting
  <2>3. SameLocks
    BY <1>1, <1>o DEF CommitEdit
  <2> QED BY <2>2, <2>3, LockStutters
<1>2. ASSUME CommitPost(w) PROVE MonthLockStep
  <2>1. /\ txn[w].e \in Entries /\ entry[txn[w].e].st = "DRAFT" /\ txn[w].row \in Row
        /\ entry' = [entry EXCEPT ![txn[w].e] = txn[w].row] /\ items' = items
        /\ txn[w].row.fk \in Months /\ acc[txn[w].row.fk] # "CLOSED"
    BY <1>2, <1>t, RequestKinds DEF CommitPost, SeenItems, SeenLocks, RowKinds
  <2>2. SameLocks
    BY <1>2, <1>o DEF CommitPost
  <2>3. items' \in [Entries -> ItemState] /\ entry[txn[w].e].st \notin Affecting
    BY <1>t, <2>1 DEF TypeOK, Affecting
  <2> QED BY <1>t, <2>1, <2>2, <2>3, LockPosts
<1>3. ASSUME CommitDestroy(w) PROVE MonthLockStep
  <2>1. /\ txn[w].e \in Entries /\ entry[txn[w].e].st = "DRAFT" /\ Delete(txn[w].e)
        /\ SameLocks
    BY <1>3, <1>t, RequestKinds DEF CommitDestroy, SeenItems, RowKinds, SameLocks
  <2> QED BY <1>t, <2>1, BooksDeleted, LockStutters
<1>4. ASSUME NEW e \in Entries, CommitInsert(w, e) PROVE MonthLockStep
  <2>1. /\ txn[w].row \in Row /\ txn[w].row.fk \in Months /\ acc[txn[w].row.fk] # "CLOSED"
        /\ Insert(e, txn[w].row, txn[w].it)
    BY <1>4, <1>t, RequestKinds DEF CommitInsert, SeenLocks
  <2>2. /\ entry' = [entry EXCEPT ![e] = txn[w].row] /\ entry[e].st \notin Affecting
        /\ \A x \in Entries : x # e => items'[x] = items[x]
        /\ items' \in [Entries -> ItemState]
    BY <1>t, <2>1, InsertShape DEF Insert, TypeOK, Affecting
  <2>3. SameLocks
    BY <1>4, <1>o DEF CommitInsert
  <2> QED BY <1>t, <2>1, <2>2, <2>3, LockPosts
<1> QED
  BY <1>q, <1>1, <1>2, <1>3, <1>4
  DEF EntryRequest, ReadDraft, CheckEdit, CheckPost, CheckReverse

LEMMA LockMovement ==
  ASSUME RInv, LInv, NEW w \in Workers, MovementRequest(w) PROVE MonthLockStep
<1>t. TypeOK /\ TypeOK' /\ Sound(txn[w]) /\ SeenLocks(txn[w])
  BY ReversalStep DEF RInv, LInv, Next
<1>q. ASSUME UNCHANGED <<acc, tax, entry, items>> PROVE MonthLockStep
  BY <1>q, BooksQuiet, LockStutters DEF SameLocks
<1>o. ASSUME NEW m, acc' = WithPeriod(acc, m), tax' = tax PROVE SameLocks
  BY <1>o, <1>t, OpensOnly DEF SameLocks
\* The entry of a movement is not one of these books.
<1>1. ASSUME NEW v \in Movements, NEW e \in Entries, CommitMovement(w, v, e)
      PROVE  MonthLockStep
  <2>1. Insert(e, txn[w].row, "balanced") /\ txn[w].row.src = "SERVICE"
    BY <1>1, <1>t DEF CommitMovement, Sound
  <2>2. /\ entry' = [entry EXCEPT ![e] = txn[w].row] /\ entry[e].st \notin Affecting
        /\ \A x \in Entries : x # e => items'[x] = items[x]
    BY <1>t, <2>1, InsertShape DEF Insert, Affecting
  <2>3. posted' = posted
    BY <1>t, <2>1, <2>2, BooksBeside
  <2>4. SameLocks
    BY <1>1, <1>o DEF CommitMovement
  <2> QED BY <2>3, <2>4, LockStutters
\* Its reversal is.
<1>2. ASSUME NEW e \in Entries, CommitAnnulReverse(w, e) PROVE MonthLockStep
  <2>1. /\ txn[w].row \in Row /\ txn[w].row.fk \in Months /\ acc[txn[w].row.fk] # "CLOSED"
        /\ Insert(e, txn[w].row, txn[w].it)
    BY <1>2, <1>t, RequestKinds DEF CommitAnnulReverse, SeenLocks
  <2>2. /\ entry' = [entry EXCEPT ![e] = txn[w].row] /\ entry[e].st \notin Affecting
        /\ \A x \in Entries : x # e => items'[x] = items[x]
        /\ items' \in [Entries -> ItemState]
    BY <1>t, <2>1, InsertShape DEF Insert, TypeOK, Affecting
  <2>3. SameLocks
    BY <1>2, <1>o DEF CommitAnnulReverse
  <2> QED BY <1>t, <2>1, <2>2, <2>3, LockPosts
<1>3. ASSUME CommitAnnulUnposted(w) PROVE MonthLockStep
  <2> DEFINE v == txn[w].v
  <2>1. /\ v \in Movements /\ mov[v].je # NoEntry /\ UNCHANGED <<acc, tax>>
        /\ Delete(mov[v].je) \/ UNCHANGED <<entry, items>>
    BY <1>3, <1>t, RequestKinds DEF CommitAnnulUnposted, Sound
  <2>2. mov[v].je \in Entries /\ entry[mov[v].je].src = "SERVICE"
    BY <1>t, <2>1 DEF TypeOK, Movement, RInv, DataInv, MovInv
  <2> HIDE DEF v
  <2>3. CASE Delete(mov[v].je)
    <3>1. SameLocks
      BY <2>1 DEF SameLocks
    <3> QED BY <1>t, <2>2, <2>3, <3>1, BooksDeleted, LockStutters
  <2> QED BY <1>q, <2>1, <2>3
<1> QED
  BY <1>q, <1>1, <1>2, <1>3
  DEF MovementRequest, CheckMovement, CheckPayment, AnnulReverse, AnnulUnposted

\* A lock of month m opens or closes; its books stay.
LEMMA LockMoves ==
  ASSUME NEW m \in Months, posted' = posted, locks' = [locks EXCEPT ![m] = Phase(m)'],
         \/ Phase(m) = "open" /\ Phase(m)' = "taxed"
         \/ Phase(m) = "taxed" /\ Phase(m)' \in {"open", "closed"}
  PROVE  MonthLockStep
<1>1. locks[m] = Phase(m)
  BY DEF locks
<1>2. Lock!CloseTax(m) \/ Lock!ReopenTax(m) \/ Lock!CloseBooks(m)
  BY <1>1 DEF Lock!CloseTax, Lock!ReopenTax, Lock!CloseBooks, Lock!Move, locks, posted
<1> QED BY <1>2 DEF MonthLockStep, Lock!Next

LEMMA LockPeriod ==
  ASSUME RInv, NInv, LInv, NEW w \in Workers, PeriodRequest(w) PROVE MonthLockStep
<1>t. /\ TypeOK /\ TypeOK' /\ AccountingNeedsTax /\ SeenPeriods /\ SeenLocks(txn[w])
      /\ acc \in [Months -> PeriodStatus] /\ tax \in [Months -> PeriodStatus]
  BY ReversalStep DEF RInv, NInv, LInv, Next, TypeOK
<1>q. ASSUME UNCHANGED <<acc, tax, entry, items>> PROVE MonthLockStep
  BY <1>q, BooksQuiet, LockStutters DEF SameLocks
<1>1. ASSUME CommitDeclare(w) PROVE MonthLockStep
  <2>1. SameLocks
    BY <1>1, <1>t, WithPeriodEffect DEF CommitDeclare, SameLocks
  <2> QED BY <1>1, <2>1, BooksQuiet, LockStutters DEF CommitDeclare
<1>2. ASSUME NEW e \in Entries, CommitRegister(w, e) PROVE MonthLockStep
  <2>1. /\ txn[w].row \in Row /\ txn[w].row.fk \in Months /\ acc[txn[w].row.fk] # "CLOSED"
        /\ Insert(e, txn[w].row, txn[w].it)
    BY <1>2, <1>t, RequestKinds DEF CommitRegister, SeenLocks
  <2>2. /\ entry' = [entry EXCEPT ![e] = txn[w].row] /\ entry[e].st \notin Affecting
        /\ \A x \in Entries : x # e => items'[x] = items[x]
        /\ items' \in [Entries -> ItemState]
    BY <1>t, <2>1, InsertShape DEF Insert, TypeOK, Affecting
  <2>3. SameLocks
    BY <1>2, <1>t, OpensOnly DEF CommitRegister, SameLocks
  <2> QED BY <1>t, <2>1, <2>2, <2>3, LockPosts
\* Closing or reopening the tax period finds the books of the month open.
<1>3. ASSUME CommitTax(w) PROVE MonthLockStep
  <2>0. PICK m \in Months : m = txn[w].m
    BY <1>3, <1>t, RequestKinds DEF CommitTax
  <2>1. /\ acc' = acc /\ posted' = posted
        /\ \A n \in Months \ {m} : tax'[n] = tax[n]
        /\ tax'[m] = IF txn[w].op = "closeTax" THEN "CLOSED" ELSE "OPEN"
    BY <1>3, <1>t, <2>0, BooksQuiet DEF CommitTax
  <2>2. acc[m] = "CLOSED" => tax[m] = "CLOSED" /\ tax'[m] = "CLOSED"
    BY <1>3, <1>t, <2>0, <2>1 DEF CommitTax, AccountingNeedsTax, SeenPeriods
  <2>3. CASE tax[m] = "CLOSED" <=> tax'[m] = "CLOSED"
    <3>1. SameLocks
      BY <2>1, <2>3 DEF SameLocks
    <3> QED BY <2>1, <3>1, LockStutters
  <2>4. CASE ~ (tax[m] = "CLOSED" <=> tax'[m] = "CLOSED")
    <3>1. \/ Phase(m) = "open" /\ Phase(m)' = "taxed"
          \/ Phase(m) = "taxed" /\ Phase(m)' = "open"
      BY <2>1, <2>2, <2>4 DEF Phase, Closed
    <3>2. locks' = [locks EXCEPT ![m] = Phase(m)']
      BY <2>1, LocksMove
    <3> QED BY <2>1, <3>1, <3>2, LockMoves
  <2> QED BY <2>3, <2>4
\* Closing the books finds the tax period closed.
<1>4. ASSUME CommitCloseAcc(w) PROVE MonthLockStep
  <2>0. PICK m \in Months : m = txn[w].m
    BY <1>4, <1>t, RequestKinds DEF CommitCloseAcc
  <2>1. /\ SaveAcc(m, "CLOSED") /\ tax[m] = "CLOSED"
        /\ tax' = tax /\ items' = items
    BY <1>4, <1>t, <2>0 DEF CommitCloseAcc, SeenPeriods
  <2>2. posted' = posted
    BY <1>t, <2>1, BooksMarked
  <2>3. acc'[m] = "CLOSED" /\ \A n \in Months : n # m => acc'[n] = acc[n]
    BY <1>t, <2>1, SaveAccShape
  <2>4. CASE acc[m] = "CLOSED"
    <3>1. SameLocks
      BY <2>1, <2>3, <2>4 DEF SameLocks
    <3> QED BY <2>2, <3>1, LockStutters
  <2>5. CASE acc[m] # "CLOSED"
    <3>1. Phase(m) = "taxed" /\ Phase(m)' = "closed"
      BY <2>1, <2>3, <2>5 DEF Phase, Closed
    <3>2. locks' = [locks EXCEPT ![m] = Phase(m)']
      BY <2>1, <2>3, LocksMove
    <3> QED BY <2>1, <2>2, <3>1, <3>2, LockMoves
  <2> QED BY <2>4, <2>5
<1>5. ASSUME CommitReopenAcc(w) PROVE MonthLockStep
  BY <1>5, <1>t DEF CommitReopenAcc, SeenLocks
<1> QED
  BY <1>q, <1>1, <1>2, <1>3, <1>4, <1>5
  DEF PeriodRequest, CheckDeclare, CheckRegister, CheckCloseTax, CheckReopenTax,
      CheckCloseAcc, CheckReopenAcc, CheckUpdateF29, CommitUpdateF29

LEMMA LockImplemented ==
  ASSUME ~ RawWrites
  PROVE  RInv /\ BInv /\ NInv /\ LInv /\ [Next]_vars => MonthLockStep
<1> SUFFICES ASSUME RInv, BInv, NInv, LInv, [Next]_vars PROVE MonthLockStep
  OBVIOUS
<1>t. TypeOK
  BY DEF RInv
<1>q. ASSUME UNCHANGED <<acc, tax, entry, items>> PROVE MonthLockStep
  BY <1>q, BooksQuiet, LockStutters DEF SameLocks
<1>1. ASSUME NEW e \in Entries, NEW d \in Months, NEW it \in NewItems,
             CreateEntry(e, d, it)
      PROVE  MonthLockStep
  <2> DEFINE row == [Blank("DRAFT") EXCEPT !.date = d]
  <2>1. Insert(e, row, it) /\ UNCHANGED <<acc, tax>> /\ row.st = "DRAFT"
    BY <1>1 DEF CreateEntry, Blank
  <2> HIDE DEF row
  <2>2. /\ entry' = [entry EXCEPT ![e] = row] /\ entry[e].st \notin Affecting
        /\ \A x \in Entries : x # e => items'[x] = items[x]
    BY <1>t, <2>1, InsertShape DEF Insert, Affecting
  <2>3. posted' = posted
    BY <1>t, <2>1, <2>2, BooksBeside DEF Affecting
  <2>4. SameLocks
    BY <2>1 DEF SameLocks
  <2> QED BY <2>3, <2>4, LockStutters
<1>2. ASSUME NEW m \in Months, OpenPeriod(m) PROVE MonthLockStep
  <2>1. SameLocks
    BY <1>2, <1>t, OpensOnly DEF OpenPeriod, SameLocks
  <2> QED BY <1>2, <2>1, BooksQuiet, LockStutters DEF OpenPeriod
<1> QED
  BY <1>q, <1>1, <1>2, LockEntry, LockMovement, LockPeriod
  DEF Next, RawTax, RawAcc, NextMonth, Rollback, vars

LEMMA LockInit == Init => Lock!Init
<1> SUFFICES ASSUME Init PROVE Lock!Init
  OBVIOUS
<1>1. \A m \in Months : Phase(m) = "open"
  BY DEF Init, Phase, Closed
<1>2. \A m \in Months : Books(m) = {}
  BY DEF Init, Books, Blank, Affecting
<1> QED BY <1>1, <1>2 DEF Lock!Init

LEMMA LocksInductive ==
  ASSUME Serial, ~ RawWrites PROVE Spec => [](RInv /\ BInv /\ NInv /\ LInv)
<1>1. Init => NInv /\ LInv
  BY InitType
  DEF Init, NInv, AccountingNeedsTax, SeenPeriods, LInv, SeenLocks, Idle
<1>2. NInv /\ [Next]_vars => NInv'
  BY NestStep
<1>3. NInv /\ LInv /\ [Next]_vars => LInv'
  BY LockStep
<1> QED BY <1>1, <1>2, <1>3, OnceInductive, PTL DEF Spec

\* Through any sequence of requests that do not overlap, and without the generic
\* update, the two locks of a month and its books behave as MonthLock: they close
\* in order, a month with closed books stays closed, and nothing is posted under it,
\* changed in it or removed from it, the entries of treasury movements apart.
THEOREM ImplementsMonthLock == ASSUME Serial, ~ RawWrites PROVE Spec => KeepsMonthLock
<1>1. RInv /\ BInv /\ NInv /\ LInv /\ [Next]_vars =>
        [Lock!Next]_<<[m \in Months |-> Phase(m)], [m \in Months |-> Books(m)]>>
  BY LockImplemented DEF MonthLockStep, locks, posted
<1> QED BY LockInit, <1>1, LocksInductive, PTL DEF Spec, KeepsMonthLock, Lock!Spec

\* What MonthLock makes of a month with closed books, said of the ledger: it stays
\* closed, and its books stay as they are, by whatever request comes after.
THEOREM ClosedForGood ==
  ASSUME Serial, ~ RawWrites
  PROVE  Spec => [][\A m \in Months : Closed(m) => Closed(m)' /\ Books(m)' = Books(m)]_vars
<1>1. ASSUME NInv, MonthLockStep, NEW m \in Months, Closed(m)
      PROVE  Closed(m)' /\ Books(m)' = Books(m)
  <2>1. locks[m] = "closed"
    BY <1>1 DEF NInv, AccountingNeedsTax, locks, Phase, Closed
  <2>2. locks'[m] = locks[m] /\ posted'[m] = posted[m]
    BY <1>1, <2>1
    DEF MonthLockStep, Lock!Next, Lock!CloseTax, Lock!ReopenTax, Lock!CloseBooks,
        Lock!Move, Lock!Write, locks, posted
  <2>3. Phase(m)' = "closed" /\ Books(m)' = Books(m)
    BY <2>1, <2>2 DEF locks, posted
  <2> QED BY <2>3 DEF Phase, Closed
<1>2. RInv /\ BInv /\ NInv /\ LInv /\ [Next]_vars =>
        [\A m \in Months : Closed(m) => Closed(m)' /\ Books(m)' = Books(m)]_vars
  BY <1>1, LockImplemented
<1> QED BY <1>2, LocksInductive, PTL DEF Spec
=============================================================================
