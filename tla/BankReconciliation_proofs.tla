---------------------- MODULE BankReconciliation_proofs ----------------------
(* Proofs about BankReconciliation, for every set of workers, statements,    *)
(* groups and adjustments and every finite set of lines and movements.       *)
EXTENDS BankReconciliation, FiniteSetTheorems, TLAPS

-----------------------------------------------------------------------------
(* Type correctness. *)

\* What a request in flight carries, by kind.
LEMMA RequestKinds ==
  ASSUME TypeOK, NEW w \in Workers
  PROVE  /\ txn[w].op = "confirm" =>
              /\ txn[w].l \in Lines /\ txn[w].g \in Groups \cup {NoGroup}
              /\ txn[w].row \in GroupRow /\ txn[w].adjust \in BOOLEAN
         /\ txn[w].op \in {"exclude", "restore"} => txn[w].ls \in SUBSET Lines
         /\ txn[w].op = "patch" => txn[w].l \in Lines /\ txn[w].row \in LineRow
         /\ txn[w].op = "note" => txn[w].p \in Movements /\ txn[w].row \in MovementRow
         /\ txn[w].op \in {"close", "delete"} => txn[w].s \in Statements
<1>1. txn[w] \in Request
  BY DEF TypeOK
<1> QED BY <1>1 DEF Request, Idle

\* A request that starts or ends keeps the type of txn.
LEMMA StartType ==
  ASSUME TypeOK, NEW w \in Workers, NEW t \in Request, Start(w, t)
  PROVE  txn' \in [Workers -> Request]
BY DEF TypeOK, Start

LEMMA FinishType ==
  ASSUME TypeOK, NEW w \in Workers, Finish(w)
  PROVE  txn' \in [Workers -> Request]
BY DEF TypeOK, Finish, Request

\* The difference of a group is a number: lines and movements are finite.
LEMMA DifferenceType ==
  ASSUME NEW ls \in SUBSET Lines, NEW ps \in SUBSET Movements
  PROVE  Cardinality(ls) - Cardinality(ps) \in Int
<1>1. IsFiniteSet(ls) /\ IsFiniteSet(ps)
  BY FiniteAssumption, FS_Subset
<1>2. Cardinality(ls) \in Nat /\ Cardinality(ps) \in Nat
  BY <1>1, FS_CardinalityType
<1> QED BY <1>2

LEMMA NoRowType == NoRow \in GroupRow /\ [NoRow EXCEPT !.st = "DELETED"] \in GroupRow
BY DEF NoRow, GroupRow

LEMMA InitType == Init => TypeOK
BY NoRowType
DEF Init, TypeOK, StatementStatus, LineStatus, LineRow, MovementRow, AdjustmentRow, Request

LEMMA MatchType ==
  ASSUME TypeOK, NEW w \in Workers, NEW g \in Groups, NEW ls \in SUBSET Lines,
         NEW ps \in SUBSET Movements, Match(w, g, ls, ps)
  PROVE  TypeOK'
<1>1. [st |-> "OPEN", adj |-> NoAdjustment,
       diff |-> Cardinality(ls) - Cardinality(ps)] \in GroupRow
  BY DifferenceType DEF GroupRow
<1>2. group' \in [Groups -> GroupRow]
  BY <1>1 DEF Match, TypeOK
<1>3. line' \in [Lines -> LineRow]
  BY DEF Match, TypeOK, LineRow, LineStatus
<1>4. mov' \in [Movements -> MovementRow]
  BY DEF Match, TypeOK, MovementRow
<1> QED BY <1>2, <1>3, <1>4 DEF Match, TypeOK

LEMMA ConfirmGroupType ==
  ASSUME TypeOK, NEW g \in Groups, NEW l \in Lines, ConfirmGroup(g, l)
  PROVE  /\ group' \in [Groups -> GroupRow]
         /\ line' \in [Lines -> LineRow]
         /\ mov' \in [Movements -> MovementRow]
<1>1. [group[g] EXCEPT !.st = "CONFIRMED"] \in GroupRow
  BY DEF TypeOK, GroupRow
<1>2. \A x \in Lines : [line[x] EXCEPT !.st = "RECONCILED"] \in LineRow
  BY DEF TypeOK, LineRow, LineStatus
<1>3. \A p \in Movements : Marked(p) \in MovementRow
  BY DEF TypeOK, MovementRow, Marked
<1> QED BY <1>1, <1>2, <1>3 DEF TypeOK, ConfirmGroup

LEMMA ConfirmType ==
  ASSUME TypeOK, NEW w \in Workers,
         \/ \E l \in Lines, withType \in BOOLEAN : ReadConfirm(w, l, withType)
         \/ \E a \in Adjustments : Adjust(w, a)
         \/ CommitConfirm(w)
  PROVE  TypeOK'
<1>1. ASSUME NEW l \in Lines, NEW withType \in BOOLEAN, ReadConfirm(w, l, withType)
      PROVE  TypeOK'
  <2> DEFINE g == line[l].grp
             row == IF g = NoGroup THEN NoRow ELSE group[g]
             adjust == withType /\ g # NoGroup /\ row.diff # 0
  <2>1. g \in Groups \cup {NoGroup}
    BY DEF TypeOK, LineRow
  <2>2. row \in GroupRow
    BY <2>1, NoRowType DEF TypeOK
  <2>3. adjust \in BOOLEAN
    OBVIOUS
  <2>4. Start(w, [op |-> "confirm", l |-> l, g |-> g, row |-> row, adjust |-> adjust])
    BY <1>1 DEF ReadConfirm
  <2> HIDE DEF g, row, adjust
  <2>5. [op |-> "confirm", l |-> l, g |-> g, row |-> row, adjust |-> adjust] \in Request
    BY <2>1, <2>2, <2>3 DEF Request
  <2> QED BY <1>1, <2>4, <2>5, StartType DEF ReadConfirm, TypeOK
<1>2. ASSUME NEW a \in Adjustments, Adjust(w, a) PROVE TypeOK'
  <2>1. /\ txn[w] \in Request /\ txn[w].op = "confirm"
        /\ txn[w].g \in Groups \cup {NoGroup} /\ txn[w].row \in GroupRow
    BY <1>2, RequestKinds DEF Adjust, TypeOK
  <2>2. [txn[w] EXCEPT !.adjust = FALSE] \in Request
    BY <2>1 DEF Request, Idle
  <2>3. [txn[w].row EXCEPT !.adj = a] \in GroupRow
    BY <2>1 DEF GroupRow
  <2>4. [st |-> "DRAFT", of |-> txn[w].g] \in AdjustmentRow
    BY <2>1 DEF AdjustmentRow
  <2>5. txn' \in [Workers -> Request]
    BY <1>2, <2>2 DEF Adjust, TypeOK
  <2> QED BY <1>2, <2>3, <2>4, <2>5 DEF Adjust, TypeOK
<1>3. ASSUME CommitConfirm(w) PROVE TypeOK'
  <2>1. txn[w].l \in Lines /\ line[txn[w].l].grp \in Groups
    BY <1>3, RequestKinds DEF CommitConfirm, TypeOK, LineRow
  <2> QED BY <1>3, <2>1, ConfirmGroupType, FinishType DEF CommitConfirm, TypeOK
<1> QED BY <1>1, <1>2, <1>3

LEMMA UndoType ==
  ASSUME TypeOK, NEW w \in Workers, NEW l \in Lines, RestoreOne(w, l) \/ Unmatch(w, l)
  PROVE  TypeOK'
<1>1. CASE RestoreOne(w, l)
  <2>1. [line[l] EXCEPT !.st = "UNRECONCILED"] \in LineRow
    BY DEF TypeOK, LineRow, LineStatus
  <2> QED BY <1>1, <2>1 DEF RestoreOne, TypeOK
<1>2. CASE Unmatch(w, l)
  <2> DEFINE g == line[l].grp
  <2>1. g \in Groups
    BY <1>2 DEF Unmatch, CanUnmatch, TypeOK, LineRow
  <2>2. mov' \in [Movements -> MovementRow]
    BY <1>2 DEF Unmatch, ReleaseMovements, TypeOK, MovementRow
  <2>3. adj' \in [Adjustments -> AdjustmentRow]
    <3>1. \A a \in Adjustments : [adj[a] EXCEPT !.st = "DELETED"] \in AdjustmentRow
      BY DEF TypeOK, AdjustmentRow
    <3> QED BY <1>2, <3>1 DEF Unmatch, TypeOK
  <2>4. line' \in [Lines -> LineRow]
    BY <1>2 DEF Unmatch, TypeOK, LineRow, LineStatus
  <2>5. group' \in [Groups -> GroupRow]
    BY <1>2, NoRowType DEF Unmatch, TypeOK
  <2> QED BY <1>2, <2>2, <2>3, <2>4, <2>5 DEF Unmatch, TypeOK
<1> QED BY <1>1, <1>2

LEMMA LineRequestType ==
  ASSUME TypeOK, NEW w \in Workers, LineRequest(w) PROVE TypeOK'
<1>1. ASSUME NEW ls \in SUBSET Lines, NEW op \in {"exclude", "restore"},
             Start(w, [op |-> op, ls |-> ls]),
             UNCHANGED <<stmt, line, mov, group, adj>>
      PROVE  TypeOK'
  <2>1. [op |-> op, ls |-> ls] \in Request
    BY DEF Request
  <2> QED BY <1>1, <2>1, StartType DEF TypeOK
<1>2. ASSUME CommitExclude(w) \/ CommitRestore(w) PROVE TypeOK'
  <2>1. \A l \in Lines : \A st \in {"EXCLUDED", "UNRECONCILED"} :
          [line[l] EXCEPT !.st = st] \in LineRow
    BY DEF TypeOK, LineRow, LineStatus
  <2>2. line' \in [Lines -> LineRow]
    BY <1>2, <2>1 DEF CommitExclude, CommitRestore, TypeOK
  <2> QED BY <1>2, <2>2, FinishType DEF CommitExclude, CommitRestore, TypeOK
<1>3. ASSUME NEW l \in Lines, NEW st \in LineStatus, ReadPatch(w, l, st) PROVE TypeOK'
  <2>1. [line[l] EXCEPT !.st = st] \in LineRow
    BY DEF TypeOK, LineRow
  <2>2. [op |-> "patch", l |-> l, row |-> [line[l] EXCEPT !.st = st]] \in Request
    BY <2>1 DEF Request
  <2> QED BY <1>3, <2>2, StartType DEF ReadPatch, TypeOK
<1>4. ASSUME CommitPatch(w) PROVE TypeOK'
  <2>1. txn[w].l \in Lines /\ txn[w].row \in LineRow
    BY <1>4, RequestKinds DEF CommitPatch
  <2> QED BY <1>4, <2>1, FinishType DEF CommitPatch, TypeOK
<1> QED BY <1>1, <1>2, <1>3, <1>4, MatchType, ConfirmType, UndoType
        DEF LineRequest, CheckExclude, CheckRestore

LEMMA StatementRequestType ==
  ASSUME TypeOK, NEW w \in Workers, StatementRequest(w) PROVE TypeOK'
<1>1. ASSUME NEW s \in Statements, NEW op \in {"close", "delete"},
             Start(w, [op |-> op, s |-> s]),
             UNCHANGED <<stmt, line, mov, group, adj>>
      PROVE  TypeOK'
  <2>1. [op |-> op, s |-> s] \in Request
    BY DEF Request
  <2> QED BY <1>1, <2>1, StartType DEF TypeOK
<1>2. ASSUME CommitClose(w) PROVE TypeOK'
  <2>1. \A a \in Adjustments : [adj[a] EXCEPT !.st = "POSTED"] \in AdjustmentRow
    BY DEF TypeOK, AdjustmentRow
  <2>2. adj' \in [Adjustments -> AdjustmentRow]
    BY <1>2, <2>1 DEF CommitClose, TypeOK
  <2>3. stmt' \in [Statements -> StatementStatus]
    BY <1>2 DEF CommitClose, TypeOK, StatementStatus
  <2> QED BY <1>2, <2>2, <2>3, FinishType DEF CommitClose, TypeOK
<1>3. ASSUME CommitDelete(w) PROVE TypeOK'
  <2>1. [st |-> "DELETED", grp |-> NoGroup] \in LineRow
    BY DEF LineRow, LineStatus
  <2> QED BY <1>3, <2>1, FinishType DEF CommitDelete, TypeOK, StatementStatus
<1> QED BY <1>1, <1>2, <1>3 DEF StatementRequest, CheckClose, CheckDelete

LEMMA NeighbourRequestType ==
  ASSUME TypeOK, NEW w \in Workers, NeighbourRequest(w) PROVE TypeOK'
<1>1. ASSUME NEW p \in Movements, ReadNote(w, p) PROVE TypeOK'
  <2>1. [op |-> "note", p |-> p, row |-> mov[p]] \in Request
    BY DEF Request, TypeOK
  <2> QED BY <1>1, <2>1, StartType DEF ReadNote, TypeOK
<1>2. ASSUME CommitNote(w) PROVE TypeOK'
  <2>1. txn[w].p \in Movements /\ txn[w].row \in MovementRow
    BY <1>2, RequestKinds DEF CommitNote
  <2> QED BY <1>2, <2>1, FinishType DEF CommitNote, TypeOK
<1>3. ASSUME NEW a \in Adjustments, PostAdjustment(w, a) \/ DestroyAdjustment(w, a)
      PROVE  TypeOK'
  <2>1. \A st \in {"POSTED", "DELETED"} : [adj[a] EXCEPT !.st = st] \in AdjustmentRow
    BY DEF TypeOK, AdjustmentRow
  <2>2. \A g \in Groups :
          [group[g] EXCEPT !.adj = IF @ = a THEN NoAdjustment ELSE @] \in GroupRow
    BY DEF TypeOK, GroupRow
  <2>3. adj' \in [Adjustments -> AdjustmentRow]
    BY <1>3, <2>1 DEF PostAdjustment, DestroyAdjustment, TypeOK
  <2>4. group' \in [Groups -> GroupRow]
    BY <1>3, <2>2 DEF PostAdjustment, DestroyAdjustment, TypeOK
  <2> QED BY <1>3, <2>3, <2>4 DEF PostAdjustment, DestroyAdjustment, TypeOK
<1> QED BY <1>1, <1>2, <1>3 DEF NeighbourRequest

LEMMA TypeStep == TypeOK /\ [Next]_vars => TypeOK'
<1> SUFFICES ASSUME TypeOK, [Next]_vars PROVE TypeOK'
  OBVIOUS
<1>1. ASSUME NEW w \in Workers, Abort(w) PROVE TypeOK'
  BY <1>1, FinishType DEF Abort, TypeOK
<1>2. CASE UNCHANGED vars
  BY <1>2 DEF TypeOK, vars
<1> QED BY <1>1, <1>2, LineRequestType, StatementRequestType, NeighbourRequestType DEF Next

\* Every behaviour stays in the declared types, under any number of workers.
THEOREM TypeCorrect == Spec => []TypeOK
BY InitType, TypeStep, PTL DEF Spec

-----------------------------------------------------------------------------
(* Serial executions.  ReconciledIffConfirmed and LineFollowsGroup survive    *)
(* every action that reads and writes in one transaction; for the requests    *)
(* cut in two the invariant also says that what they hold in memory is still  *)
(* what the database shows.                                                   *)

Serial == \A v, w \in Workers : v = w

InFlight ==
  \A w \in Workers :
    /\ txn[w].op = "confirm" /\ txn[w].g \in Groups => txn[w].row.st = group[txn[w].g].st
    /\ txn[w].op = "patch" /\ txn[w].row.st \in {"RECONCILED", "MATCHED"} =>
         txn[w].row = line[txn[w].l]
    /\ txn[w].op = "note" => txn[w].row = mov[txn[w].p]

Books == ReconciledIffConfirmed /\ LineFollowsGroup

IInv == TypeOK /\ Books /\ InFlight

\* The step of a request that ends, or that runs in one transaction, leaves
\* nothing in flight.
LEMMA NothingInFlight ==
  ASSUME Serial, TypeOK, NEW w \in Workers,
         Finish(w) \/ (Free(w) /\ UNCHANGED txn)
  PROVE  InFlight'
<1>1. txn'[w].op = "idle"
  BY DEF Finish, Free, TypeOK, Idle
<1>2. \A v \in Workers : txn'[v].op = "idle"
  BY <1>1 DEF Serial
<1> QED BY <1>2 DEF InFlight

\* Books only looks at the statuses and groups of lines and movements.
LEMMA SameBooks ==
  ASSUME Books, TypeOK,
         \A g \in Groups : group'[g].st = group[g].st,
         UNCHANGED <<line, mov>>
  PROVE  Books'
BY DEF Books, ReconciledIffConfirmed, LineFollowsGroup, TypeOK, LineRow, MovementRow

\* Lines that become neither reconciled nor matched do no harm.
LEMMA LinesLeave ==
  ASSUME Books, TypeOK,
         \A l \in Lines : line'[l] = line[l] \/ line'[l].st \notin {"RECONCILED", "MATCHED"},
         UNCHANGED <<mov, group>>
  PROVE  Books'
BY DEF Books, ReconciledIffConfirmed, LineFollowsGroup

LEMMA InitIInv == Init => IInv
<1> SUFFICES ASSUME Init PROVE IInv
  OBVIOUS
<1>1. TypeOK
  BY InitType
<1>2. Books
  BY NoGroupAssumption DEF Init, Books, ReconciledIffConfirmed, LineFollowsGroup
<1>3. InFlight
  BY DEF Init, InFlight, Idle
<1> QED BY <1>1, <1>2, <1>3 DEF IInv

\* A new group takes lines and movements from open groups only.
LEMMA MatchBooks ==
  ASSUME TypeOK, Books, NEW w \in Workers, NEW g \in Groups, NEW ls \in SUBSET Lines,
         NEW ps \in SUBSET Movements, Match(w, g, ls, ps)
  PROVE  Books'
<1>1. /\ group'[g].st = "OPEN" /\ group[g].st = "NONE"
      /\ \A h \in Groups : h # g => group'[h] = group[h]
  BY DEF Match, TypeOK
<1>2. ReconciledIffConfirmed'
  <2> SUFFICES ASSUME NEW p \in Movements
               PROVE  mov'[p].rec <=>
                        mov'[p].grp # NoGroup /\ group'[mov'[p].grp].st = "CONFIRMED"
    BY DEF ReconciledIffConfirmed
  <2>1. CASE p \in ps
    <3>1. mov'[p] = [mov[p] EXCEPT !.grp = g] /\ ~ mov[p].rec
      BY <2>1 DEF Match
    <3>2. mov'[p].grp = g /\ ~ mov'[p].rec
      BY <3>1 DEF TypeOK, MovementRow
    <3> QED BY <1>1, <3>2
  <2>2. CASE p \notin ps
    <3>1. mov'[p] = mov[p] /\ mov[p].grp \in Groups \cup {NoGroup}
      BY <2>2 DEF Match, TypeOK, MovementRow
    <3> QED BY <1>1, <3>1 DEF Books, ReconciledIffConfirmed
  <2> QED BY <2>1, <2>2
<1>3. LineFollowsGroup'
  <2> SUFFICES ASSUME NEW l \in Lines
               PROVE  /\ line'[l].st = "RECONCILED" =>
                           line'[l].grp # NoGroup /\ group'[line'[l].grp].st = "CONFIRMED"
                      /\ line'[l].st = "MATCHED" =>
                           line'[l].grp # NoGroup /\ group'[line'[l].grp].st = "OPEN"
    BY DEF LineFollowsGroup
  <2>1. CASE l \in ls
    BY <1>1, <2>1, NoGroupAssumption DEF Match
  <2>2. CASE l \notin ls
    <3>1. line'[l] = line[l] /\ line[l].grp \in Groups \cup {NoGroup}
      BY <2>2 DEF Match, TypeOK, LineRow
    <3> QED BY <1>1, <3>1 DEF Books, LineFollowsGroup
  <2> QED BY <2>1, <2>2
<1> QED BY <1>2, <1>3 DEF Books

\* Confirmation marks the whole group, lines and movements.
LEMMA ConfirmBooks ==
  ASSUME TypeOK, Books, NEW g \in Groups, NEW k \in Lines, ConfirmGroup(g, k)
  PROVE  Books'
<1>1. /\ group'[g].st = "CONFIRMED"
      /\ \A h \in Groups : h # g => group'[h] = group[h]
  <2>1. [group[g] EXCEPT !.st = "CONFIRMED"].st = "CONFIRMED"
    BY DEF TypeOK, GroupRow
  <2> QED BY <2>1 DEF ConfirmGroup, TypeOK
<1>2. ReconciledIffConfirmed'
  <2> SUFFICES ASSUME NEW p \in Movements
               PROVE  mov'[p].rec <=>
                        mov'[p].grp # NoGroup /\ group'[mov'[p].grp].st = "CONFIRMED"
    BY DEF ReconciledIffConfirmed
  <2>1. CASE mov[p].grp = g
    <3>1. mov'[p] = [mov[p] EXCEPT !.rec = TRUE]
      BY <2>1 DEF ConfirmGroup, Marked
    <3>2. mov'[p].rec /\ mov'[p].grp = g
      BY <2>1, <3>1 DEF TypeOK, MovementRow
    <3> QED BY <1>1, <3>2, NoGroupAssumption
  <2>2. CASE mov[p].grp # g
    <3>1. mov'[p] = mov[p] /\ mov[p].grp \in Groups \cup {NoGroup}
      BY <2>2 DEF ConfirmGroup, TypeOK, MovementRow
    <3> QED BY <1>1, <2>2, <3>1 DEF Books, ReconciledIffConfirmed
  <2> QED BY <2>1, <2>2
<1>3. LineFollowsGroup'
  <2> SUFFICES ASSUME NEW l \in Lines
               PROVE  /\ line'[l].st = "RECONCILED" =>
                           line'[l].grp # NoGroup /\ group'[line'[l].grp].st = "CONFIRMED"
                      /\ line'[l].st = "MATCHED" =>
                           line'[l].grp # NoGroup /\ group'[line'[l].grp].st = "OPEN"
    BY DEF LineFollowsGroup
  <2>1. CASE line[l].grp = g
    <3>1. line'[l] = [line[l] EXCEPT !.st = "RECONCILED"]
      BY <2>1 DEF ConfirmGroup
    <3>2. line'[l].st = "RECONCILED" /\ line'[l].grp = g
      BY <2>1, <3>1 DEF TypeOK, LineRow
    <3> QED BY <1>1, <3>2, NoGroupAssumption
  <2>2. CASE line[l].grp # g
    <3>1. line'[l] = line[l] /\ line[l].grp \in Groups \cup {NoGroup}
      BY <2>2 DEF ConfirmGroup, TypeOK, LineRow
    <3> QED BY <1>1, <2>2, <3>1 DEF Books, LineFollowsGroup
  <2> QED BY <2>1, <2>2
<1> QED BY <1>2, <1>3 DEF Books

\* Undoing disbands the whole group.
LEMMA UnmatchBooks ==
  ASSUME TypeOK, Books, NEW w \in Workers, NEW k \in Lines, Unmatch(w, k)
  PROVE  Books'
<1> DEFINE g == line[k].grp
<1>1. /\ g \in Groups
      /\ \A h \in Groups : h # g => group'[h] = group[h]
  BY DEF Unmatch, CanUnmatch, TypeOK, LineRow
<1>2. ReconciledIffConfirmed'
  <2> SUFFICES ASSUME NEW p \in Movements
               PROVE  mov'[p].rec <=>
                        mov'[p].grp # NoGroup /\ group'[mov'[p].grp].st = "CONFIRMED"
    BY DEF ReconciledIffConfirmed
  <2>1. CASE mov[p].grp = g
    <3>1. mov'[p] = [mov[p] EXCEPT !.grp = NoGroup, !.rec = FALSE]
      BY <2>1 DEF Unmatch, ReleaseMovements
    <3>2. mov'[p].grp = NoGroup /\ ~ mov'[p].rec
      BY <3>1 DEF TypeOK, MovementRow
    <3> QED BY <3>2
  <2>2. CASE mov[p].grp # g
    <3>1. mov'[p] = mov[p] /\ mov[p].grp \in Groups \cup {NoGroup}
      BY <2>2 DEF Unmatch, ReleaseMovements, TypeOK, MovementRow
    <3> QED BY <1>1, <2>2, <3>1 DEF Books, ReconciledIffConfirmed
  <2> QED BY <2>1, <2>2
<1>3. LineFollowsGroup'
  <2> SUFFICES ASSUME NEW l \in Lines
               PROVE  /\ line'[l].st = "RECONCILED" =>
                           line'[l].grp # NoGroup /\ group'[line'[l].grp].st = "CONFIRMED"
                      /\ line'[l].st = "MATCHED" =>
                           line'[l].grp # NoGroup /\ group'[line'[l].grp].st = "OPEN"
    BY DEF LineFollowsGroup
  <2>1. CASE line[l].grp = g
    BY <2>1 DEF Unmatch
  <2>2. CASE line[l].grp # g
    <3>1. line'[l] = line[l] /\ line[l].grp \in Groups \cup {NoGroup}
      BY <2>2 DEF Unmatch, TypeOK, LineRow
    <3> QED BY <1>1, <2>2, <3>1 DEF Books, LineFollowsGroup
  <2> QED BY <2>1, <2>2
<1> QED BY <1>2, <1>3 DEF Books

\* A note saved on a row nobody changed meanwhile changes nothing.
LEMMA NoteWritesBack ==
  ASSUME TypeOK, InFlight, NEW w \in Workers, CommitNote(w)
  PROVE  mov' = mov
<1>1. txn[w].op = "note" /\ txn[w].p \in Movements /\ txn[w].row = mov[txn[w].p]
  BY RequestKinds DEF CommitNote, InFlight
<1> QED BY <1>1 DEF CommitNote, TypeOK

LEMMA LineRequestStep ==
  ASSUME Serial, IInv, NEW w \in Workers, LineRequest(w)
  PROVE  Books' /\ InFlight'
<1> USE DEF IInv
<1>1. ASSUME NEW g \in Groups, NEW ls \in SUBSET Lines, NEW ps \in SUBSET Movements,
             Match(w, g, ls, ps)
      PROVE  Books' /\ InFlight'
  BY <1>1, MatchBooks, NothingInFlight DEF Match
<1>2. ASSUME NEW l \in Lines, NEW withType \in BOOLEAN, ReadConfirm(w, l, withType)
      PROVE  Books' /\ InFlight'
  <2>1. /\ txn'[w].op = "confirm" /\ txn'[w].g = line[l].grp
        /\ txn'[w].g \in Groups => txn'[w].row = group[txn'[w].g]
    BY <1>2, NoGroupAssumption DEF ReadConfirm, Start, TypeOK
  <2>2. group' = group
    BY <1>2 DEF ReadConfirm
  <2>3. InFlight'
    BY <2>1, <2>2 DEF InFlight, Serial
  <2> QED BY <1>2, <2>3, SameBooks DEF ReadConfirm
<1>3. ASSUME NEW a \in Adjustments, Adjust(w, a) PROVE Books' /\ InFlight'
  <2> DEFINE g == txn[w].g
  <2>1. txn[w].op = "confirm" /\ txn[w].row \in GroupRow /\ txn[w] \in Request
    BY <1>3, RequestKinds DEF Adjust, TypeOK
  <2>2. ASSUME NEW h \in Groups PROVE group'[h].st = group[h].st
    <3>1. CASE h = g
      <4>1. group'[h] = [txn[w].row EXCEPT !.adj = a]
        BY <1>3, <3>1 DEF Adjust, TypeOK
      <4>2. group'[h].st = txn[w].row.st
        BY <2>1, <4>1 DEF GroupRow
      <4> QED BY <2>1, <3>1, <4>2 DEF InFlight
    <3>2. CASE h # g
      BY <1>3, <3>2 DEF Adjust, TypeOK
    <3> QED BY <3>1, <3>2
  <2>3. txn'[w] = [txn[w] EXCEPT !.adjust = FALSE]
    BY <1>3 DEF Adjust, TypeOK
  <2>4. txn'[w].op = "confirm" /\ txn'[w].g = g /\ txn'[w].row = txn[w].row
    BY <2>1, <2>3 DEF Request, Idle
  <2>5. InFlight'
    BY <2>1, <2>2, <2>4 DEF InFlight, Serial
  <2> QED BY <1>3, <2>2, <2>5, SameBooks DEF Adjust
<1>4. ASSUME CommitConfirm(w) PROVE Books' /\ InFlight'
  <2>1. txn[w].l \in Lines /\ line[txn[w].l].grp \in Groups
    BY <1>4, RequestKinds DEF CommitConfirm, TypeOK, LineRow
  <2>2. InFlight'
    BY <1>4, NothingInFlight DEF CommitConfirm
  <2>3. CASE ConfirmGroup(line[txn[w].l].grp, txn[w].l)
    BY <2>1, <2>2, <2>3, ConfirmBooks
  <2>4. CASE UNCHANGED <<line, mov, group>>
    BY <2>2, <2>4, SameBooks
  <2> QED BY <1>4, <2>3, <2>4 DEF CommitConfirm
<1>5. ASSUME NEW l \in Lines, RestoreOne(w, l) PROVE Books' /\ InFlight'
  <2>1. \A k \in Lines : line'[k] = line[k] \/ line'[k].st = "UNRECONCILED"
    <3>1. [line[l] EXCEPT !.st = "UNRECONCILED"].st = "UNRECONCILED"
      BY DEF TypeOK, LineRow
    <3> QED BY <1>5, <3>1 DEF RestoreOne, TypeOK
  <2> QED BY <1>5, <2>1, LinesLeave, NothingInFlight DEF RestoreOne
<1>6. ASSUME NEW l \in Lines, Unmatch(w, l) PROVE Books' /\ InFlight'
  BY <1>6, UnmatchBooks, NothingInFlight DEF Unmatch
<1>7. ASSUME NEW ls \in SUBSET Lines, CheckExclude(w, ls) \/ CheckRestore(w, ls)
      PROVE  Books' /\ InFlight'
  <2>1. txn'[w].op \in {"exclude", "restore"}
    BY <1>7 DEF CheckExclude, CheckRestore, Start, TypeOK
  <2>2. InFlight'
    BY <2>1 DEF InFlight, Serial
  <2> QED BY <1>7, <2>2, SameBooks DEF CheckExclude, CheckRestore
<1>8. ASSUME CommitExclude(w) \/ CommitRestore(w) PROVE Books' /\ InFlight'
  <2>1. \A k \in Lines : line'[k] = line[k] \/ line'[k].st \in {"EXCLUDED", "UNRECONCILED"}
    <3>1. \A k \in Lines : \A st \in {"EXCLUDED", "UNRECONCILED"} :
            [line[k] EXCEPT !.st = st].st = st
      BY DEF TypeOK, LineRow
    <3> QED BY <1>8, <3>1 DEF CommitExclude, CommitRestore
  <2> QED BY <1>8, <2>1, LinesLeave, NothingInFlight DEF CommitExclude, CommitRestore
<1>9. ASSUME NEW l \in Lines, NEW st \in LineStatus, ReadPatch(w, l, st)
      PROVE  Books' /\ InFlight'
  <2>1. /\ txn'[w].op = "patch" /\ txn'[w].l = l
        /\ txn'[w].row = [line[l] EXCEPT !.st = st]
    BY <1>9 DEF ReadPatch, Start, TypeOK
  <2>2. txn'[w].row.st = st /\ (st = line[l].st => txn'[w].row = line[l])
    BY <2>1 DEF TypeOK, LineRow
  <2>3. st \in {"RECONCILED", "MATCHED"} => txn'[w].row = line[l]
    BY <1>9, <2>2 DEF ReadPatch, Patchable
  <2>4. InFlight'
    BY <1>9, <2>1, <2>2, <2>3 DEF InFlight, Serial, ReadPatch
  <2> QED BY <1>9, <2>4, SameBooks DEF ReadPatch
<1>10. ASSUME CommitPatch(w) PROVE Books' /\ InFlight'
  <2>1. txn[w].op = "patch" /\ txn[w].l \in Lines
    BY <1>10, RequestKinds DEF CommitPatch
  <2>2. \A k \in Lines : line'[k] = line[k]
                         \/ line'[k].st \notin {"RECONCILED", "MATCHED"}
    BY <1>10, <2>1 DEF CommitPatch, TypeOK, InFlight
  <2> QED BY <1>10, <2>2, LinesLeave, NothingInFlight DEF CommitPatch
<1> QED BY <1>1, <1>2, <1>3, <1>4, <1>5, <1>6, <1>7, <1>8, <1>9, <1>10 DEF LineRequest

LEMMA StatementRequestStep ==
  ASSUME Serial, IInv, NEW w \in Workers, StatementRequest(w)
  PROVE  Books' /\ InFlight'
<1> USE DEF IInv
<1>1. ASSUME NEW s \in Statements, CheckClose(w, s) \/ CheckDelete(w, s)
      PROVE  Books' /\ InFlight'
  <2>1. txn'[w].op \in {"close", "delete"}
    BY <1>1 DEF CheckClose, CheckDelete, Start, TypeOK
  <2>2. InFlight'
    BY <2>1 DEF InFlight, Serial
  <2> QED BY <1>1, <2>2, SameBooks DEF CheckClose, CheckDelete
<1>2. ASSUME CommitClose(w) PROVE Books' /\ InFlight'
  BY <1>2, SameBooks, NothingInFlight DEF CommitClose
<1>3. ASSUME CommitDelete(w) PROVE Books' /\ InFlight'
  <2>1. \A k \in Lines : line'[k] = line[k] \/ line'[k].st = "DELETED"
    BY <1>3 DEF CommitDelete
  <2> QED BY <1>3, <2>1, LinesLeave, NothingInFlight DEF CommitDelete
<1> QED BY <1>1, <1>2, <1>3 DEF StatementRequest

LEMMA NeighbourRequestStep ==
  ASSUME Serial, IInv, NEW w \in Workers, NeighbourRequest(w)
  PROVE  Books' /\ InFlight'
<1> USE DEF IInv
<1>1. ASSUME NEW p \in Movements, ReadNote(w, p) PROVE Books' /\ InFlight'
  <2>1. txn'[w].op = "note" /\ txn'[w].row = mov[txn'[w].p]
    BY <1>1 DEF ReadNote, Start, TypeOK
  <2>2. InFlight'
    BY <1>1, <2>1 DEF InFlight, Serial, ReadNote
  <2> QED BY <1>1, <2>2, SameBooks DEF ReadNote
<1>2. ASSUME CommitNote(w) PROVE Books' /\ InFlight'
  <2>1. mov' = mov
    BY <1>2, NoteWritesBack
  <2> QED BY <1>2, <2>1, SameBooks, NothingInFlight DEF CommitNote
<1>3. ASSUME NEW a \in Adjustments, PostAdjustment(w, a) PROVE Books' /\ InFlight'
  BY <1>3, SameBooks, NothingInFlight DEF PostAdjustment
<1>4. ASSUME NEW a \in Adjustments, DestroyAdjustment(w, a) PROVE Books' /\ InFlight'
  <2>1. ASSUME NEW g \in Groups PROVE group'[g].st = group[g].st
    <3>1. group'[g] = [group[g] EXCEPT !.adj = IF @ = a THEN NoAdjustment ELSE @]
      BY <1>4 DEF DestroyAdjustment
    <3> QED BY <3>1 DEF TypeOK, GroupRow
  <2> QED BY <1>4, <2>1, SameBooks, NothingInFlight DEF DestroyAdjustment
<1> QED BY <1>1, <1>2, <1>3, <1>4 DEF NeighbourRequest

LEMMA IInvStep == ASSUME Serial PROVE IInv /\ [Next]_vars => IInv'
<1> SUFFICES ASSUME IInv, [Next]_vars PROVE IInv'
  OBVIOUS
<1>1. TypeOK'
  BY TypeStep DEF IInv
<1>2. ASSUME NEW w \in Workers, Abort(w) PROVE Books' /\ InFlight'
  BY <1>2, SameBooks, NothingInFlight DEF IInv, Abort
<1>3. CASE UNCHANGED vars
  <2>1. Books'
    BY <1>3, SameBooks DEF IInv, vars
  <2>2. InFlight'
    BY <1>3 DEF IInv, InFlight, vars
  <2> QED BY <1>1, <2>1, <2>2 DEF IInv
<1>4. CASE Next
  <2>1. Books' /\ InFlight'
    BY <1>2, <1>4, LineRequestStep, StatementRequestStep, NeighbourRequestStep DEF Next
  <2> QED BY <1>1, <2>1 DEF IInv
<1> QED BY <1>3, <1>4

\* When requests are serial, a movement is marked reconciled exactly while its
\* group is confirmed, for any statements, lines, movements and groups.
THEOREM MarkMatchesGroup == ASSUME Serial PROVE Spec => []ReconciledIffConfirmed
<1>1. IInv => ReconciledIffConfirmed
  BY DEF IInv, Books
<1> QED BY InitIInv, IInvStep, <1>1, PTL DEF Spec

\* When requests are serial, the status of a line follows its group.
THEOREM LineMatchesGroup == ASSUME Serial PROVE Spec => []LineFollowsGroup
<1>1. IInv => LineFollowsGroup
  BY DEF IInv, Books
<1> QED BY InitIInv, IInvStep, <1>1, PTL DEF Spec

-----------------------------------------------------------------------------
(* What a step may do to a confirmed group. *)

Stands(g) ==
  \/ group'[g].st = "DELETED" /\ \A p \in Movements : mov'[p].grp # g
  \/ /\ group'[g].st = "CONFIRMED"
     /\ \A p \in Movements : mov'[p].grp = g <=> mov[p].grp = g

\* Most requests leave the status of the groups and the movements alone.
LEMMA UntouchedStands ==
  ASSUME NEW g \in Groups, group[g].st = "CONFIRMED", group'[g].st = group[g].st,
         UNCHANGED mov
  PROVE  Stands(g)
BY DEF Stands

LEMMA StandsStep ==
  ASSUME Serial, IInv, [Next]_vars, NEW g \in Groups, group[g].st = "CONFIRMED"
  PROVE  Stands(g)
<1> USE DEF IInv
<1>1. ASSUME NEW w \in Workers, NEW h \in Groups, NEW ls \in SUBSET Lines,
             NEW ps \in SUBSET Movements, Match(w, h, ls, ps)
      PROVE  Stands(g)
  <2>1. g # h /\ group'[g].st = "CONFIRMED"
    BY <1>1 DEF Match, TypeOK
  <2>2. ASSUME NEW p \in ps PROVE mov[p].grp # g /\ mov'[p].grp = h
    <3>1. mov'[p] = [mov[p] EXCEPT !.grp = h] /\ ~ mov[p].rec
      BY <1>1 DEF Match
    <3>2. mov[p].grp # g
      BY <3>1, NoGroupAssumption DEF Books, ReconciledIffConfirmed
    <3> QED BY <3>1, <3>2 DEF TypeOK, MovementRow
  <2>3. ASSUME NEW p \in Movements, p \notin ps PROVE mov'[p] = mov[p]
    BY <1>1, <2>3 DEF Match
  <2> QED BY <2>1, <2>2, <2>3 DEF Stands
<1>2. ASSUME NEW w \in Workers, NEW a \in Adjustments, Adjust(w, a) PROVE Stands(g)
  <2>1. group'[g].st = group[g].st
    <3>1. CASE g = txn[w].g
      <4>1. txn[w].op = "confirm" /\ txn[w].row \in GroupRow
        BY <1>2, RequestKinds DEF Adjust
      <4>2. group'[g] = [txn[w].row EXCEPT !.adj = a]
        BY <1>2, <3>1 DEF Adjust, TypeOK
      <4>3. group'[g].st = txn[w].row.st
        BY <4>1, <4>2 DEF GroupRow
      <4> QED BY <3>1, <4>1, <4>3 DEF InFlight
    <3>2. CASE g # txn[w].g
      BY <1>2, <3>2 DEF Adjust, TypeOK
    <3> QED BY <3>1, <3>2
  <2> QED BY <1>2, <2>1, UntouchedStands DEF Adjust
<1>3. ASSUME NEW w \in Workers, CommitConfirm(w) PROVE Stands(g)
  <2> DEFINE h == line[txn[w].l].grp
  <2>1. CASE ConfirmGroup(h, txn[w].l)
    <3>1. group'[g].st = "CONFIRMED"
      <4>1. [group[g] EXCEPT !.st = "CONFIRMED"].st = "CONFIRMED"
        BY DEF TypeOK, GroupRow
      <4> QED BY <2>1, <4>1 DEF ConfirmGroup, TypeOK
    <3>2. \A p \in Movements : mov'[p].grp = mov[p].grp
      <4>1. \A p \in Movements : mov'[p] = mov[p] \/ mov'[p] = [mov[p] EXCEPT !.rec = TRUE]
        BY <2>1 DEF ConfirmGroup, Marked
      <4> QED BY <4>1 DEF TypeOK, MovementRow
    <3> QED BY <3>1, <3>2 DEF Stands
  <2>2. CASE UNCHANGED <<line, mov, group>>
    BY <2>2, UntouchedStands
  <2> QED BY <1>3, <2>1, <2>2 DEF CommitConfirm
<1>4. ASSUME NEW w \in Workers, NEW k \in Lines, Unmatch(w, k) PROVE Stands(g)
  <2>1. CASE line[k].grp = g
    <3>1. group'[g].st = "DELETED"
      BY <1>4, <2>1 DEF Unmatch, TypeOK, NoRow
    <3>2. ASSUME NEW p \in Movements PROVE mov'[p].grp # g
      <4>1. CASE mov[p].grp = g
        <5>1. mov'[p] = [mov[p] EXCEPT !.grp = NoGroup, !.rec = FALSE]
          BY <1>4, <2>1, <4>1 DEF Unmatch, ReleaseMovements
        <5> QED BY <5>1, NoGroupAssumption DEF TypeOK, MovementRow
      <4>2. CASE mov[p].grp # g
        BY <1>4, <2>1, <4>2 DEF Unmatch, ReleaseMovements
      <4> QED BY <4>1, <4>2
    <3> QED BY <3>1, <3>2 DEF Stands
  <2>2. CASE line[k].grp # g
    <3>1. group'[g] = group[g]
      BY <1>4, <2>2 DEF Unmatch, TypeOK
    <3>2. ASSUME NEW p \in Movements PROVE mov'[p].grp = g <=> mov[p].grp = g
      <4>1. CASE mov[p].grp = line[k].grp
        <5>1. mov'[p] = [mov[p] EXCEPT !.grp = NoGroup, !.rec = FALSE]
          BY <1>4, <4>1 DEF Unmatch, ReleaseMovements
        <5> QED BY <2>2, <4>1, <5>1, NoGroupAssumption DEF TypeOK, MovementRow
      <4>2. CASE mov[p].grp # line[k].grp
        BY <1>4, <4>2 DEF Unmatch, ReleaseMovements
      <4> QED BY <4>1, <4>2
    <3> QED BY <3>1, <3>2 DEF Stands
  <2> QED BY <2>1, <2>2
<1>5. ASSUME NEW w \in Workers, NEW a \in Adjustments, DestroyAdjustment(w, a)
      PROVE  Stands(g)
  <2>1. group'[g] = [group[g] EXCEPT !.adj = IF @ = a THEN NoAdjustment ELSE @]
    BY <1>5 DEF DestroyAdjustment
  <2>2. group'[g].st = group[g].st
    BY <2>1 DEF TypeOK, GroupRow
  <2> QED BY <1>5, <2>2, UntouchedStands DEF DestroyAdjustment
<1>6. ASSUME NEW w \in Workers, CommitNote(w) PROVE Stands(g)
  <2>1. mov' = mov
    BY <1>6, NoteWritesBack
  <2> QED BY <1>6, <2>1, UntouchedStands DEF CommitNote
<1>7. ASSUME UNCHANGED <<mov, group>> PROVE Stands(g)
  BY <1>7, UntouchedStands
<1>8. CASE UNCHANGED vars
  BY <1>7, <1>8 DEF vars
<1>9. ASSUME NEW w \in Workers, LineRequest(w) PROVE Stands(g)
  BY <1>1, <1>2, <1>3, <1>4, <1>7, <1>9
  DEF LineRequest, ReadConfirm, RestoreOne, CheckExclude, CheckRestore, CommitExclude,
      CommitRestore, ReadPatch, CommitPatch
<1>10. ASSUME NEW w \in Workers, StatementRequest(w) PROVE Stands(g)
  BY <1>7, <1>10 DEF StatementRequest, CheckClose, CommitClose, CheckDelete, CommitDelete
<1>11. ASSUME NEW w \in Workers, NeighbourRequest(w) PROVE Stands(g)
  BY <1>5, <1>6, <1>7, <1>11 DEF NeighbourRequest, ReadNote, PostAdjustment
<1> QED BY <1>7, <1>8, <1>9, <1>10, <1>11 DEF Next, Abort

\* When requests are serial, a confirmed reconciliation is undone as a whole or
\* not at all: its group never opens again and no movement joins or leaves it.
THEOREM ConfirmedStays == ASSUME Serial PROVE Spec => ConfirmedStands
<1>1. IInv /\ [Next]_vars =>
        [\A g \in Groups : group[g].st = "CONFIRMED" =>
           \/ group'[g].st = "DELETED" /\ \A p \in Movements : mov'[p].grp # g
           \/ /\ group'[g].st = "CONFIRMED"
              /\ \A p \in Movements : mov'[p].grp = g <=> mov[p].grp = g]_vars
  BY StandsStep DEF Stands
<1> QED BY InitIInv, IInvStep, <1>1, PTL DEF Spec, ConfirmedStands
=============================================================================
