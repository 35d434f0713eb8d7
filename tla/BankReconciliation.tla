------------------------- MODULE BankReconciliation -------------------------
(***************************************************************************)
(* Bank reconciliation of ERPGrafico: the lines of imported statements are *)
(* matched N:M with treasury movements in groups, the groups are confirmed *)
(* (with a journal entry for the difference) or undone, and the statement  *)
(* is closed when nothing is left to reconcile.                            *)
(*                                                                         *)
(* Sources: backend/treasury/matching_service.py, difference_service.py,   *)
(* services.py (BankStatementService) and views.py.                        *)
(*                                                                         *)
(* A database transaction that locks the rows it decides on is one step.   *)
(* A request that decides on rows it read without a lock is cut there, and *)
(* a request of two transactions is cut between them.  Workers are web     *)
(* workers and the Celery worker of auto_match; with one worker everything *)
(* is serial.  Lines and movements have one sign (all credits, inbound) and*)
(* one unit of money each.  Left out: terminal batches, the transfer       *)
(* entries confirm_match drafts, which nothing reads back, and the         *)
(* annulment of movements, which reads the mark (PeriodLedger).            *)
(***************************************************************************)
EXTENDS Integers, FiniteSets

CONSTANTS
  Workers,       \* web and Celery workers
  Statements,    \* bank statements (cartolas)
  Lines,         \* lines of the statements
  StatementOf,   \* the statement of each line
  Movements,     \* treasury movements
  Groups,        \* identifiers of ReconciliationMatch rows, never reused
  NoGroup,       \* NULL
  Adjustments,   \* identifiers of difference journal entries
  NoAdjustment   \* NULL

ASSUME StatementOfAssumption == StatementOf \in [Lines -> Statements]
ASSUME NoGroupAssumption == NoGroup \notin Groups
ASSUME NoAdjustmentAssumption == NoAdjustment \notin Adjustments
ASSUME FiniteAssumption == IsFiniteSet(Lines) /\ IsFiniteSet(Movements)

VARIABLES
  stmt,   \* BankStatement.status
  line,   \* BankStatementLine: status and group
  mov,    \* TreasuryMovement: is_reconciled and group
  group,  \* ReconciliationMatch rows
  adj,    \* difference journal entries
  txn     \* the request in flight on each worker

vars == <<stmt, line, mov, group, adj, txn>>

-----------------------------------------------------------------------------
(* Data. *)

StatementStatus == {"DRAFT", "CONFIRMED", "DELETED"}
LineStatus == {"UNRECONCILED", "MATCHED", "RECONCILED", "EXCLUDED", "DELETED"}

LineRow == [st: LineStatus, grp: Groups \cup {NoGroup}]

MovementRow == [rec: BOOLEAN, grp: Groups \cup {NoGroup}]

\* of is the group an adjustment was made for, kept in its reference.
AdjustmentRow == [st: {"NONE", "DRAFT", "POSTED", "DELETED"}, of: Groups \cup {NoGroup}]

\* OPEN and CONFIRMED stand for is_confirmed.
GroupRow == [st: {"NONE", "OPEN", "CONFIRMED", "DELETED"}, diff: Int,
             adj: Adjustments \cup {NoAdjustment}]

NoRow == [st |-> "NONE", diff |-> 0, adj |-> NoAdjustment]

Idle == [op |-> "idle"]

Request ==
       {Idle}
  \cup [op: {"confirm"}, l: Lines, g: Groups \cup {NoGroup}, row: GroupRow, adjust: BOOLEAN]
  \cup [op: {"exclude", "restore"}, ls: SUBSET Lines]
  \cup [op: {"patch"}, l: Lines, row: LineRow]
  \cup [op: {"note"}, p: Movements, row: MovementRow]
  \cup [op: {"close", "delete"}, s: Statements]

TypeOK ==
  /\ stmt \in [Statements -> StatementStatus]
  /\ line \in [Lines -> LineRow]
  /\ mov \in [Movements -> MovementRow]
  /\ group \in [Groups -> GroupRow]
  /\ adj \in [Adjustments -> AdjustmentRow]
  /\ txn \in [Workers -> Request]

-----------------------------------------------------------------------------
(* Helpers. *)

Free(w)     == txn[w] = Idle
Start(w, t) == Free(w) /\ txn' = [txn EXCEPT ![w] = t]
Finish(w)   == txn' = [txn EXCEPT ![w] = Idle]

LinesOf(s)   == {l \in Lines : StatementOf[l] = s /\ line[l].st # "DELETED"}
Closed(l)    == stmt[StatementOf[l]] = "CONFIRMED"
InGroup(g)   == {l \in Lines : line[l].grp = g}

-----------------------------------------------------------------------------
(* Matching. *)

\* Variant: lines of a confirmed group and reconciled movements can be matched
\* again.
MatchReconciled(w, g, ls, ps) ==
  /\ Free(w)
  /\ group[g].st = "NONE"
  /\ \A l \in ls : line[l].st # "DELETED" /\ ~ Closed(l)
  /\ group' = [group EXCEPT ![g] = [st |-> "OPEN", adj |-> NoAdjustment,
                                    diff |-> Cardinality(ls) - Cardinality(ps)]]
  /\ line' = [l \in Lines |->
                IF l \in ls THEN [st |-> "MATCHED", grp |-> g] ELSE line[l]]
  /\ mov' = [p \in Movements |->
               IF p \in ps THEN [mov[p] EXCEPT !.grp = g] ELSE mov[p]]
  /\ UNCHANGED <<stmt, adj, txn>>

\* create_match_group (match_group; match and every pair auto_match finds, with
\* one line and one movement).  Nothing asks whether a line or a movement is in
\* another group already: it moves to the new one.
Match(w, g, ls, ps) ==
  /\ Free(w)
  /\ group[g].st = "NONE"
  /\ \A l \in ls : line[l].st \notin {"RECONCILED", "DELETED"} /\ ~ Closed(l)
  /\ \A p \in ps : ~ mov[p].rec
  /\ group' = [group EXCEPT ![g] = [st |-> "OPEN", adj |-> NoAdjustment,
                                    diff |-> Cardinality(ls) - Cardinality(ps)]]
  /\ line' = [l \in Lines |->
                IF l \in ls THEN [st |-> "MATCHED", grp |-> g] ELSE line[l]]
  /\ mov' = [p \in Movements |->
               IF p \in ps THEN [mov[p] EXCEPT !.grp = g] ELSE mov[p]]
  /\ UNCHANGED <<stmt, adj, txn>>

\* confirm_match_from_request: get_object reads the line and its group.
ReadConfirm(w, l, withType) ==
  /\ line[l].st # "DELETED"
  /\ LET g == line[l].grp
         row == IF g = NoGroup THEN NoRow ELSE group[g]
     IN Start(w, [op |-> "confirm", l |-> l, g |-> g, row |-> row,
                  adjust |-> withType /\ g # NoGroup /\ row.diff # 0])
  /\ UNCHANGED <<stmt, line, mov, group, adj>>

\* First transaction, create_difference_adjustment: a new DRAFT entry, linked by
\* saving all columns of the group that was read.  It fails without lines.
Adjust(w, a) ==
  LET t == txn[w] IN
  /\ t.op = "confirm"
  /\ t.adjust
  /\ InGroup(t.g) # {}
  /\ adj[a].st = "NONE"
  /\ adj' = [adj EXCEPT ![a] = [st |-> "DRAFT", of |-> t.g]]
  /\ group' = [group EXCEPT ![t.g] = [t.row EXCEPT !.adj = a]]
  /\ txn' = [txn EXCEPT ![w].adjust = FALSE]
  /\ UNCHANGED <<stmt, line, mov>>

Marked(p) == [mov[p] EXCEPT !.rec = TRUE]

\* Variant: only the line of the request is reconciled.
ConfirmGroupOneLine(g, l) ==
  /\ group' = [group EXCEPT ![g].st = "CONFIRMED"]
  /\ line' = [line EXCEPT ![l].st = "RECONCILED"]
  /\ mov' = [p \in Movements |-> IF mov[p].grp = g THEN Marked(p) ELSE mov[p]]

\* All lines of the group of line l, whatever their status, and all movements.
ConfirmGroup(g, l) ==
  /\ group' = [group EXCEPT ![g].st = "CONFIRMED"]
  /\ line' = [x \in Lines |->
                IF line[x].grp = g THEN [line[x] EXCEPT !.st = "RECONCILED"] ELSE line[x]]
  /\ mov' = [p \in Movements |-> IF mov[p].grp = g THEN Marked(p) ELSE mov[p]]

\* Second transaction, confirm_match: reads the line again.  A confirmed group
\* is left alone; whether the statement is CONFIRMED is not asked.
CommitConfirm(w) ==
  LET t == txn[w]
      g == line[t.l].grp
  IN
  /\ t.op = "confirm"
  /\ ~ t.adjust
  /\ line[t.l].st # "DELETED"
  /\ g # NoGroup
  /\ \/ group[g].st # "CONFIRMED" /\ ConfirmGroup(g, t.l)
     \/ group[g].st = "CONFIRMED" /\ UNCHANGED <<line, mov, group>>
  /\ Finish(w)
  /\ UNCHANGED <<stmt, adj>>

-----------------------------------------------------------------------------
(* Undoing, excluding and restoring. *)

\* unmatch of a line that was excluded and never matched.
RestoreOne(w, l) ==
  /\ Free(w)
  /\ ~ Closed(l)
  /\ line[l] = [st |-> "EXCLUDED", grp |-> NoGroup]
  /\ line' = [line EXCEPT ![l].st = "UNRECONCILED"]
  /\ UNCHANGED <<stmt, mov, group, adj, txn>>

\* Only the statement of the requested line is looked at, and a published
\* adjustment blocks.
CanUnmatch(l) ==
  /\ line[l].st # "DELETED"
  /\ ~ Closed(l)
  /\ line[l].grp # NoGroup
  /\ LET a == group[line[l].grp].adj IN a # NoAdjustment => adj[a].st = "DRAFT"

\* Variant: the movements keep their mark.
ReleaseMovementsMarked(g) ==
  mov' = [p \in Movements |->
            IF mov[p].grp = g THEN [mov[p] EXCEPT !.grp = NoGroup] ELSE mov[p]]

ReleaseMovements(g) ==
  mov' = [p \in Movements |->
            IF mov[p].grp = g THEN [mov[p] EXCEPT !.grp = NoGroup, !.rec = FALSE]
                              ELSE mov[p]]

\* unmatch disbands the whole group: movements, draft adjustment, lines, row.
\* The transfer entries stay.
Unmatch(w, l) ==
  LET g == line[l].grp IN
  /\ Free(w)
  /\ CanUnmatch(l)
  /\ ReleaseMovements(g)
  /\ adj' = [a \in Adjustments |->
               IF a = group[g].adj THEN [adj[a] EXCEPT !.st = "DELETED"] ELSE adj[a]]
  /\ line' = [x \in Lines |->
                IF line[x].grp = g THEN [st |-> "UNRECONCILED", grp |-> NoGroup]
                                   ELSE line[x]]
  /\ group' = [group EXCEPT ![g] = [NoRow EXCEPT !.st = "DELETED"]]
  /\ UNCHANGED <<stmt, txn>>

\* bulk_exclude and bulk_restore: two statements without a transaction.  A line
\* keeps its group when it is excluded, matched and reconciled lines included.
CheckExclude(w, ls) ==
  /\ ls # {}
  /\ \A l \in ls : line[l].st # "DELETED" /\ ~ Closed(l)
  /\ Start(w, [op |-> "exclude", ls |-> ls])
  /\ UNCHANGED <<stmt, line, mov, group, adj>>

CheckRestore(w, ls) ==
  /\ \E l \in ls : line[l].st = "EXCLUDED"
  /\ \A l \in ls : line[l].st = "EXCLUDED" => ~ Closed(l)
  /\ Start(w, [op |-> "restore", ls |-> ls])
  /\ UNCHANGED <<stmt, line, mov, group, adj>>

CommitExclude(w) ==
  /\ txn[w].op = "exclude"
  /\ line' = [l \in Lines |->
                IF l \in txn[w].ls /\ line[l].st # "DELETED"
                THEN [line[l] EXCEPT !.st = "EXCLUDED"] ELSE line[l]]
  /\ Finish(w)
  /\ UNCHANGED <<stmt, mov, group, adj>>

CommitRestore(w) ==
  /\ txn[w].op = "restore"
  /\ line' = [l \in Lines |->
                IF l \in txn[w].ls /\ line[l].st = "EXCLUDED"
                THEN [line[l] EXCEPT !.st = "UNRECONCILED"] ELSE line[l]]
  /\ Finish(w)
  /\ UNCHANGED <<stmt, mov, group, adj>>

\* Statuses a PATCH may set (BankStatementLineSerializer).
Patchable == {"UNRECONCILED", "EXCLUDED"}

\* PATCH of a line: the edit policy leaves only the notes of matched and
\* reconciled lines open and does not look at the statement; save() writes all
\* columns that were read.
ReadPatch(w, l, st) ==
  /\ line[l].st # "DELETED"
  /\ \/ st = line[l].st
     \/ st \in Patchable /\ line[l].st \in {"UNRECONCILED", "EXCLUDED"}
  /\ Start(w, [op |-> "patch", l |-> l, row |-> [line[l] EXCEPT !.st = st]])
  /\ UNCHANGED <<stmt, line, mov, group, adj>>

\* The foreign key to a group deleted meanwhile makes it fail.
CommitPatch(w) ==
  LET t == txn[w] IN
  /\ t.op = "patch"
  /\ line[t.l].st # "DELETED"
  /\ t.row.grp # NoGroup => group[t.row.grp].st # "DELETED"
  /\ line' = [line EXCEPT ![t.l] = t.row]
  /\ Finish(w)
  /\ UNCHANGED <<stmt, mov, group, adj>>

-----------------------------------------------------------------------------
(* Statements. *)

\* BankStatementService.confirm counts UNRECONCILED lines only, on a statement
\* read without a lock.
CheckClose(w, s) ==
  /\ stmt[s] = "DRAFT"
  /\ \A l \in LinesOf(s) : line[l].st # "UNRECONCILED"
  /\ Start(w, [op |-> "close", s |-> s])
  /\ UNCHANGED <<stmt, line, mov, group, adj>>

\* Variant: the status of another document is written.
CommitCloseAsClosed(w) ==
  /\ txn[w].op = "close"
  /\ stmt[txn[w].s] # "DELETED"
  /\ stmt' = [stmt EXCEPT ![txn[w].s] = "CLOSED"]
  /\ Finish(w)
  /\ UNCHANGED <<line, mov, group, adj>>

\* The draft adjustments of the groups with a line in the statement are
\* published.
CommitClose(w) ==
  LET s == txn[w].s
      published == {group[line[l].grp].adj : l \in {x \in LinesOf(s) : line[x].grp # NoGroup}}
  IN
  /\ txn[w].op = "close"
  /\ stmt[s] # "DELETED"
  /\ stmt' = [stmt EXCEPT ![s] = "CONFIRMED"]
  /\ adj' = [a \in Adjustments |->
               IF a \in published /\ adj[a].st = "DRAFT"
               THEN [adj[a] EXCEPT !.st = "POSTED"] ELSE adj[a]]
  /\ Finish(w)
  /\ UNCHANGED <<line, mov, group>>

\* delete_draft: no line may show any work; the lines go by CASCADE.
CheckDelete(w, s) ==
  /\ stmt[s] = "DRAFT"
  /\ \A l \in LinesOf(s) : line[l].st = "UNRECONCILED"
  /\ Start(w, [op |-> "delete", s |-> s])
  /\ UNCHANGED <<stmt, line, mov, group, adj>>

CommitDelete(w) ==
  /\ txn[w].op = "delete"
  /\ stmt' = [stmt EXCEPT ![txn[w].s] = "DELETED"]
  /\ line' = [l \in Lines |->
                IF StatementOf[l] = txn[w].s THEN [st |-> "DELETED", grp |-> NoGroup]
                                             ELSE line[l]]
  /\ Finish(w)
  /\ UNCHANGED <<mov, group, adj>>

-----------------------------------------------------------------------------
(* Neighbours. *)

\* PATCH of the notes of a movement: all columns that were read are saved.
ReadNote(w, p) ==
  /\ Start(w, [op |-> "note", p |-> p, row |-> mov[p]])
  /\ UNCHANGED <<stmt, line, mov, group, adj>>

CommitNote(w) ==
  LET t == txn[w] IN
  /\ t.op = "note"
  /\ t.row.grp # NoGroup => group[t.row.grp].st # "DELETED"
  /\ mov' = [mov EXCEPT ![t.p] = t.row]
  /\ Finish(w)
  /\ UNCHANGED <<stmt, line, group, adj>>

\* The journal screen posts a draft adjustment (it is balanced; the lock of its
\* month is in PeriodLedger), or deletes it (SET_NULL).
PostAdjustment(w, a) ==
  /\ Free(w)
  /\ adj[a].st = "DRAFT"
  /\ adj' = [adj EXCEPT ![a].st = "POSTED"]
  /\ UNCHANGED <<stmt, line, mov, group, txn>>

DestroyAdjustment(w, a) ==
  /\ Free(w)
  /\ adj[a].st = "DRAFT"
  /\ adj' = [adj EXCEPT ![a].st = "DELETED"]
  /\ group' = [g \in Groups |->
                 [group[g] EXCEPT !.adj = IF @ = a THEN NoAdjustment ELSE @]]
  /\ UNCHANGED <<stmt, line, mov, txn>>

\* A request in flight fails or its worker dies; what it committed stays.
Abort(w) ==
  /\ ~ Free(w)
  /\ Finish(w)
  /\ UNCHANGED <<stmt, line, mov, group, adj>>

-----------------------------------------------------------------------------
Init ==
  /\ stmt = [s \in Statements |-> "DRAFT"]
  /\ line = [l \in Lines |-> [st |-> "UNRECONCILED", grp |-> NoGroup]]
  /\ mov = [p \in Movements |-> [rec |-> FALSE, grp |-> NoGroup]]
  /\ group = [g \in Groups |-> NoRow]
  /\ adj = [a \in Adjustments |-> [st |-> "NONE", of |-> NoGroup]]
  /\ txn = [w \in Workers |-> Idle]

LineRequest(w) ==
  \/ \E g \in Groups, ls \in SUBSET Lines, ps \in SUBSET Movements :
       ls # {} /\ ps # {} /\ Match(w, g, ls, ps)
  \/ \E l \in Lines, withType \in BOOLEAN : ReadConfirm(w, l, withType)
  \/ \E a \in Adjustments : Adjust(w, a)
  \/ CommitConfirm(w)
  \/ \E l \in Lines : RestoreOne(w, l)
  \/ \E l \in Lines : Unmatch(w, l)
  \/ \E ls \in SUBSET Lines : CheckExclude(w, ls)
  \/ \E ls \in SUBSET Lines : CheckRestore(w, ls)
  \/ CommitExclude(w)
  \/ CommitRestore(w)
  \/ \E l \in Lines, st \in LineStatus : ReadPatch(w, l, st)
  \/ CommitPatch(w)

StatementRequest(w) ==
  \/ \E s \in Statements : CheckClose(w, s)
  \/ CommitClose(w)
  \/ \E s \in Statements : CheckDelete(w, s)
  \/ CommitDelete(w)

NeighbourRequest(w) ==
  \/ \E p \in Movements : ReadNote(w, p)
  \/ CommitNote(w)
  \/ \E a \in Adjustments : PostAdjustment(w, a)
  \/ \E a \in Adjustments : DestroyAdjustment(w, a)

Next ==
  \/ \E w \in Workers : LineRequest(w)
  \/ \E w \in Workers : StatementRequest(w)
  \/ \E w \in Workers : NeighbourRequest(w)
  \/ \E w \in Workers : Abort(w)

Spec == Init /\ [][Next]_vars

-----------------------------------------------------------------------------
(* Properties of serial executions (one worker): whatever is matched, stolen by
another match, excluded, restored, patched or undone, and wherever a request
aborts. *)

\* A movement is marked reconciled exactly while its group is confirmed: no path
\* leaves a movement that can never be annulled or matched again because its
\* group was reopened, nor one that can be although its group is confirmed.
ReconciledIffConfirmed ==
  \A p \in Movements :
    mov[p].rec <=> mov[p].grp # NoGroup /\ group[mov[p].grp].st = "CONFIRMED"

\* The status of a line follows its group: a reconciled line lies in a confirmed
\* group, a matched one in an open group, so that confirm and unmatch reach it.
LineFollowsGroup ==
  \A l \in Lines :
    /\ line[l].st = "RECONCILED" => /\ line[l].grp # NoGroup
                                   /\ group[line[l].grp].st = "CONFIRMED"
    /\ line[l].st = "MATCHED"    => /\ line[l].grp # NoGroup
                                   /\ group[line[l].grp].st = "OPEN"

\* A confirmed reconciliation is final unless it is undone as a whole: its group
\* is never open again, and while it stands no movement joins or leaves it.
ConfirmedStands ==
  [][\A g \in Groups : group[g].st = "CONFIRMED" =>
       \/ group'[g].st = "DELETED" /\ \A p \in Movements : mov'[p].grp # g
       \/ /\ group'[g].st = "CONFIRMED"
          /\ \A p \in Movements : mov'[p].grp = g <=> mov[p].grp = g]_vars

-----------------------------------------------------------------------------
(* What the documentation says and the code does not do. *)

\* state-map.md: lines are locked when the statement is CONFIRMED.
ConfirmedLinesLocked ==
  [][\A l \in Lines : Closed(l) => line'[l].st = line[l].st]_vars

\* domain-glossary.md: reconciliation matches bank statement lines with internal
\* transactions, so a reconciled line has a movement in its group.
ReconciledLineHasMovement ==
  \A l \in Lines : line[l].st = "RECONCILED" =>
    \E p \in Movements : mov[p].grp = line[l].grp

\* The guard of unmatch: a reconciliation whose adjustment is in the books is not
\* undone.
PublishedStands ==
  \A a \in Adjustments : adj[a].st = "POSTED" => group[adj[a].of].st # "DELETED"
=============================================================================
