-------------------------- MODULE CreditSale_proofs --------------------------
(***************************************************************************)
(* Theorems about CreditSale, for any number of wizards, tasks, carts and  *)
(* amounts.                                                                *)
(***************************************************************************)
EXTENDS CreditSale, FiniteSetTheorems, TLAPS

-----------------------------------------------------------------------------
(* Types.                                                                    *)

\* Invoices are numbered by their count, so the type needs that it is one.
Typed == TypeOK /\ IsFiniteSet(sales)

LEMMA AnyAskIsAsk == AnyAsk \in Ask
<1>1. PICK c \in Carts, m \in Credits : TRUE
  BY AskAssumption
<1>2. [cart |-> c, credit |-> m] \in Ask
  BY DEF Ask
<1> QED
  BY <1>2 DEF AnyAsk

LEMMA BlankTyped == ASSUME NEW at \in {"idle", "open", "left"} PROVE Blank(at) \in Wizard
BY AnyAskIsAsk DEF Blank, Wizard, Maybe

\* Setting a field of a wizard keeps its type.
Forms == [Wizards -> Wizard]

LEMMA FlagSet ==
  ASSUME NEW f \in Forms, NEW w \in Wizards, NEW x \in BOOLEAN
  PROVE  /\ [f EXCEPT ![w].waiting = x] \in Forms
         /\ [f EXCEPT ![w].approved = x] \in Forms
         /\ [f EXCEPT ![w].required = x] \in Forms
         /\ [f EXCEPT ![w].alarm = x] \in Forms
<1>1. f[w] \in Wizard
  BY DEF Forms
<1>2. [f[w] EXCEPT !.waiting = x] \in Wizard
  BY <1>1 DEF Wizard
<1>3. [f[w] EXCEPT !.approved = x] \in Wizard
  BY <1>1 DEF Wizard
<1>4. [f[w] EXCEPT !.required = x] \in Wizard
  BY <1>1 DEF Wizard
<1>5. [f[w] EXCEPT !.alarm = x] \in Wizard
  BY <1>1 DEF Wizard
<1> QED
  BY <1>2, <1>3, <1>4, <1>5 DEF Forms

LEMMA TaskSet ==
  ASSUME NEW f \in Forms, NEW w \in Wizards, NEW t \in Maybe
  PROVE  [f EXCEPT ![w].task = t] \in Forms
<1>1. [f[w] EXCEPT !.task = t] \in Wizard
  BY DEF Forms, Wizard
<1> QED
  BY <1>1 DEF Forms

LEMMA CreditSet ==
  ASSUME NEW f \in Forms, NEW w \in Wizards, NEW m \in Credits
  PROVE  [f EXCEPT ![w].ask.credit = m] \in Forms
<1>1. f[w] \in Wizard
  BY DEF Forms
<1>2. [f[w] EXCEPT !.ask.credit = m] \in Wizard
  BY <1>1 DEF Wizard, Ask
<1> QED
  BY <1>2 DEF Forms

\* No task, and no waiting for one.
LEMMA Dropped ==
  ASSUME NEW f \in Forms, NEW w \in Wizards
  PROVE  /\ [f EXCEPT ![w].waiting = FALSE, ![w].task = None] \in Forms
         /\ [f EXCEPT ![w].task = None, ![w].waiting = FALSE] \in Forms
<1> DEFINE g == [f EXCEPT ![w].waiting = FALSE]
<1>1. g \in Forms
  BY FlagSet
<1>2. None \in Maybe
  BY DEF Maybe
<1>3. [g EXCEPT ![w].task = None] \in Forms
  BY <1>1, <1>2, TaskSet
<1>4. [f EXCEPT ![w].waiting = FALSE, ![w].task = None] = [g EXCEPT ![w].task = None]
  OBVIOUS
<1> DEFINE h == [f EXCEPT ![w].task = None]
<1>5. [h EXCEPT ![w].waiting = FALSE] \in Forms
  BY <1>2, TaskSet, FlagSet
<1>6. [f EXCEPT ![w].task = None, ![w].waiting = FALSE] = [h EXCEPT ![w].waiting = FALSE]
  OBVIOUS
<1> QED
  BY <1>3, <1>4, <1>5, <1>6

LEMMA BodyTyped == ASSUME Typed, NEW w \in Wizards PROVE BodyOf(w) \in Body
BY DEF Typed, TypeOK, BodyOf, Body, Wizard

LEMMA TurnTyped == ASSUME Typed, Turn PROVE turns' \in 0 .. MaxTurns
BY BoundAssumption DEF Typed, TypeOK, Turn

LEMMA AvailableTyped == ASSUME Typed PROVE Available \in Nat /\ Available <= Limit
BY CreditAssumption DEF Typed, TypeOK, Available

LEMMA NewDraftTyped == NewDraft \in Draft /\ Removed \in Draft
<1>1. NewDraft \in Draft
  BY AnyAskIsAsk DEF NewDraft, Draft, Saved, Maybe, Ask
<1> QED
  BY <1>1 DEF Removed, Draft

Polls == [Wizards -> Maybe]
News  == [Wizards -> {"no", "COMPLETED", "REFUSED"}]
Sends == [Wizards -> SUBSET Call]
Recs  == [Wizards -> [Keys -> Rec]]
Sales == [no: Nat, by: Wizards, key: Keys, body: Body, basis: Basis]

LEMMA RecSet ==
  ASSUME NEW f \in Recs, NEW w \in Wizards, NEW k \in Keys, NEW r \in Rec
  PROVE  [f EXCEPT ![w][k] = r] \in Recs
<1>1. f[w] \in [Keys -> Rec]
  BY DEF Recs
<1>2. [f[w] EXCEPT ![k] = r] \in [Keys -> Rec]
  BY <1>1
<1> QED
  BY <1>2 DEF Recs

LEMMA UnmountTyped ==
  ASSUME Typed, NEW w \in Wizards, Unmount(w)
  PROVE  wiz' \in Forms /\ poll' \in Polls /\ news' \in News
<1>1. Blank("left") \in Wizard
  BY BlankTyped
<1> QED
  BY <1>1 DEF Typed, TypeOK, Unmount, Maybe, Forms, Polls, News

LEMMA FailsTyped ==
  ASSUME Typed, NEW w \in Wizards, NEW c, NEW alarm \in BOOLEAN, Fails(w, c, alarm),
         turns' \in 0 .. MaxTurns, late' \in Sends
  PROVE  Typed'
<1>1. calls' \in Sends
  BY DEF Typed, TypeOK, Fails, Answered, Sends
<1>2. wiz' \in Forms
  <2>1. wiz \in Forms
    BY DEF Typed, TypeOK, Forms
  <2>2. \/ wiz' = wiz \/ wiz' = [wiz EXCEPT ![w].alarm = TRUE]
        \/ wiz' = [wiz EXCEPT ![w].task = None, ![w].waiting = FALSE]
    BY DEF Fails
  <2>3. [wiz EXCEPT ![w].alarm = TRUE] \in Forms
    BY <2>1, FlagSet
  <2>4. [wiz EXCEPT ![w].task = None, ![w].waiting = FALSE] \in Forms
    BY <2>1, Dropped
  <2> QED
    BY <2>1, <2>2, <2>3, <2>4
<1> QED
  BY <1>1, <1>2 DEF Typed, TypeOK, Fails, Forms, Sends, stored

LEMMA RefusedTyped == ASSUME Typed, NEW w \in Wizards, Refused(w) PROVE Typed'
<1>1. PICK c \in calls[w] : /\ rec[w][c.key].st = "refused" /\ Fails(w, c, rec[w][c.key].alarm)
                            /\ UNCHANGED <<turns, late>>
  BY DEF Refused
<1>2. c.key \in Keys /\ rec[w][c.key] \in Rec
  BY DEF Typed, TypeOK, Call
<1>3. rec[w][c.key].alarm \in BOOLEAN
  BY <1>1, <1>2 DEF Rec, NoRec
<1>4. turns' \in 0 .. MaxTurns /\ late' \in Sends
  BY <1>1 DEF Typed, TypeOK, Sends
<1> QED
  BY <1>1, <1>3, <1>4, FailsTyped

LEMMA MismatchTyped == ASSUME Typed, NEW w \in Wizards, Mismatch(w) PROVE Typed'
<1>1. PICK c \in calls[w] : Fails(w, c, FALSE) /\ UNCHANGED <<turns, late>>
  BY DEF Mismatch
<1>2. turns' \in 0 .. MaxTurns /\ late' \in Sends
  BY <1>1 DEF Typed, TypeOK, Sends
<1> QED
  BY <1>1, <1>2, FailsTyped

LEMMA TimesOutTyped == ASSUME Typed, NEW w \in Wizards, TimesOut(w) PROVE Typed'
<1>1. PICK c \in calls[w] :
        /\ Turn /\ Fails(w, c, FALSE)
        /\ late' = [late EXCEPT ![w] = IF rec[w][c.key] = NoRec THEN @ \cup {c} ELSE @]
  BY DEF TimesOut
<1>2. late' \in Sends
  BY <1>1 DEF Typed, TypeOK, Sends
<1> QED
  BY <1>1, <1>2, TurnTyped, FailsTyped

LEMMA SoldTyped == ASSUME Typed, NEW w \in Wizards, Sold(w) PROVE Typed'
<1>1. calls' \in Sends
  BY DEF Typed, TypeOK, Sold, Answered, Sends
<1>2. key' \in [Wizards -> Keys]
  BY BoundAssumption DEF Typed, TypeOK, Sold, Keys
<1>3. told' \in [Wizards -> Nat] /\ ending' \in [Wizards -> Nat]
  BY DEF Typed, TypeOK, Sold
<1> QED
  BY <1>1, <1>2, <1>3 DEF Typed, TypeOK, Sold, Sends, stored

LEMMA CompletesTyped == ASSUME Typed, NEW w \in Wizards, Completes(w) PROVE Typed'
<1>1. ending' \in [Wizards -> Nat]
  BY DEF Typed, TypeOK, Completes
<1>2. wiz' \in Forms /\ poll' \in Polls /\ news' \in News
  BY UnmountTyped DEF Completes, Typed, TypeOK, Forms, Polls, News
<1> QED
  BY <1>1, <1>2 DEF Typed, TypeOK, Completes, Forms, Polls, News, stored

LEMMA LeaveTyped == ASSUME Typed, NEW w \in Wizards, Leave(w) PROVE Typed'
<1>1. wiz' \in Forms /\ poll' \in Polls /\ news' \in News
  BY UnmountTyped DEF Leave
<1>2. turns' \in 0 .. MaxTurns
  BY TurnTyped DEF Leave, Typed, TypeOK
<1> QED
  BY <1>1, <1>2 DEF Typed, TypeOK, Leave, Forms, Polls, News, till, stored

LEMMA AskFailsTyped == ASSUME Typed, NEW w \in Wizards, AskFails(w) PROVE Typed'
<1>1. asked' \in [Wizards -> Asked]
  <2>1. asked[w] \in [st: {"sent", "late"}, ask: Ask]
    BY DEF Typed, TypeOK, AskFails, Asked, NoAsk
  <2>2. [asked[w] EXCEPT !.st = "late"] \in Asked
    BY <2>1 DEF Asked
  <2> QED
    BY <2>2 DEF Typed, TypeOK, AskFails
<1>2. wiz' \in Forms
  BY FlagSet DEF Typed, TypeOK, AskFails, Forms
<1> QED
  BY <1>1, <1>2, TurnTyped DEF Typed, TypeOK, AskFails, Forms, till, stored

LEMMA SendSaveTyped == ASSUME Typed, NEW w \in Wizards, SendSave(w) PROVE Typed'
<1>1. wiz[w] \in Wizard
  BY DEF Typed, TypeOK
<1>2. slot' \in Slot
  BY <1>1 DEF SendSave, Slot, Saved, Wizard, Ask
<1> QED
  BY <1>2, TurnTyped DEF Typed, TypeOK, SendSave, client, till

LEMMA AskEndsTyped ==
  ASSUME Typed, NEW w \in Wizards, NEW t \in Tasks, AskEnds(w, t)
  PROVE  asked' \in [Wizards -> Asked] /\ wiz' \in Forms /\ poll' \in Polls
<1>1. asked' \in [Wizards -> Asked]
  BY DEF Typed, TypeOK, AskEnds, Asked
<1>2. wiz' \in Forms
  BY TaskSet DEF Typed, TypeOK, Forms, Maybe, AskEnds
<1>3. poll' \in Polls
  BY DEF Typed, TypeOK, AskEnds, Maybe, Polls
<1> QED
  BY <1>1, <1>2, <1>3

\* What a request for approval does, apart from answering the wizard.
Repeated == UNCHANGED <<task, draft>>
Created(t, ask, replaced) ==
  /\ task[t].st = "none"
  /\ task' = [u \in Tasks |->
       IF u = t THEN [st |-> "PENDING", ask |-> ask, spent |-> FALSE]
       ELSE IF u \in replaced THEN [task[u] EXCEPT !.st = "CANCELLED"] ELSE task[u]]
  /\ draft' = IF Here THEN [draft EXCEPT !.st = "frozen"] ELSE draft
Pending  == {t \in Tasks : Here /\ Active(t)}
Replaced == {{t} : t \in Pending} \cup (IF Pending = {} THEN {{}} ELSE {})

LEMMA ServerAskCases ==
  ASSUME Typed, NEW w \in Wizards, ServerAsk(w)
  PROVE  /\ asked[w].ask \in Ask
         /\ \E t \in Tasks : AskEnds(w, t)
         /\ \/ Repeated
            \/ \E t \in Tasks, x \in Replaced : Created(t, asked[w].ask, x)
         /\ UNCHANGED <<calls, news, till, slot, rec, turns, sales, debt>>
<1>1. asked[w].ask \in Ask
  BY DEF Typed, TypeOK, ServerAsk, Asked
<1>2. ASSUME NEW x \in Replaced, NewTask(w, x)
      PROVE  \E t \in Tasks : AskEnds(w, t) /\ Created(t, asked[w].ask, x)
  BY <1>2 DEF NewTask, Created
<1>3. \/ \E t \in Pending : AskEnds(w, t) /\ Repeated
      \/ \E x \in Replaced : NewTask(w, x)
  BY DEF ServerAsk, Pending, Replaced, Repeated
<1>4. Pending \subseteq Tasks
  BY DEF Pending
<1> QED
  BY <1>1, <1>2, <1>3, <1>4 DEF ServerAsk

LEMMA CreatedTyped ==
  ASSUME Typed, NEW t \in Tasks, NEW ask \in Ask, NEW x, Created(t, ask, x)
  PROVE  task' \in [Tasks -> Task] /\ draft' \in Draft
<1>1. [st |-> "PENDING", ask |-> ask, spent |-> FALSE] \in Task
  BY DEF Task
<1>2. \A u \in Tasks : task[u] \in Task /\ [task[u] EXCEPT !.st = "CANCELLED"] \in Task
  BY DEF Typed, TypeOK, Task
<1>3. task' \in [Tasks -> Task]
  BY <1>1, <1>2 DEF Created
<1>4. draft' \in Draft
  BY DEF Created, Typed, TypeOK, Draft
<1> QED
  BY <1>3, <1>4

LEMMA ServerAskTyped == ASSUME Typed, NEW w \in Wizards, ServerAsk(w) PROVE Typed'
<1>1. asked' \in [Wizards -> Asked] /\ wiz' \in Forms /\ poll' \in Polls
  BY ServerAskCases, AskEndsTyped
<1>2. task' \in [Tasks -> Task] /\ draft' \in Draft
  BY ServerAskCases, CreatedTyped DEF Repeated, Typed, TypeOK
<1> QED
  BY <1>1, <1>2, ServerAskCases DEF Typed, TypeOK, Forms, Polls, till

LEMMA SentTyped ==
  ASSUME Typed, NEW w \in Wizards, NEW c \in calls[w] \cup late[w]
  PROVE  c \in Call /\ c.key \in Keys /\ c.body \in Body
BY DEF Typed, TypeOK, Call

LEMMA BeginTyped ==
  ASSUME Typed, NEW w \in Wizards, NEW c \in calls[w] \cup late[w], Begin(w, c) PROVE Typed'
<1>1. PICK basis \in Basis :
        rec' = [rec EXCEPT ![w][c.key] = [st |-> "running", body |-> c.body, basis |-> basis]]
  BY DEF Begin
<1>2. [st |-> "running", body |-> c.body, basis |-> basis] \in Rec
  BY SentTyped DEF Rec
<1>3. rec' \in Recs
  BY <1>1, <1>2, SentTyped, RecSet DEF Typed, TypeOK, Recs
<1> QED
  BY <1>3 DEF Typed, TypeOK, Begin, Recs, client, till, stored

LEMMA RefuseTyped ==
  ASSUME Typed, NEW w \in Wizards, NEW c \in calls[w] \cup late[w], Refuse(w, c) PROVE Typed'
<1>1. turns' \in 0 .. MaxTurns
  BY TurnTyped DEF Refuse, Typed, TypeOK
<1>2. [st |-> "refused", body |-> c.body, alarm |-> Alarming(c.body)] \in Rec
  <2>1. Alarming(c.body) \in BOOLEAN
    BY DEF Alarming
  <2> QED
    BY <2>1, SentTyped DEF Rec
<1>3. rec' \in Recs
  BY <1>2, SentTyped, RecSet DEF Refuse, Typed, TypeOK, Recs
<1> QED
  BY <1>1, <1>3 DEF Typed, TypeOK, Refuse, Recs, client, till, stored

LEMMA CommitTyped ==
  ASSUME Typed, NEW w \in Wizards, NEW k \in Keys, Commit(w, k) PROVE Typed'
<1> DEFINE r == rec[w][k]
           s == [no |-> Cardinality(sales) + 1, by |-> w, key |-> k,
                 body |-> r.body, basis |-> r.basis]
<1>1. r \in [st: {"running", "sold"}, body: Body, basis: Basis]
  BY DEF Commit, Typed, TypeOK, Rec, NoRec
<1>2. Cardinality(sales) \in Nat
  BY FS_CardinalityType DEF Typed
<1>3. s \in Sales
  BY <1>1, <1>2 DEF Sales
<1>4. sales' \subseteq Sales
  BY <1>3 DEF Commit, Typed, TypeOK, Sales
<1>5. IsFiniteSet(sales')
  BY FS_AddElement DEF Commit, Typed
<1>6. rec' \in Recs
  <2>1. [r EXCEPT !.st = "sold"] \in Rec
    BY <1>1 DEF Rec
  <2>2. rec' = [rec EXCEPT ![w][k] = [r EXCEPT !.st = "sold"]]
    BY DEF Commit, Typed, TypeOK
  <2> QED
    BY <2>1, <2>2, RecSet DEF Typed, TypeOK, Recs
<1>7. debt' \in Nat
  BY <1>1, CreditAssumption DEF Commit, Typed, TypeOK, Body, Ask
<1>8. draft' \in Draft
  BY NewDraftTyped DEF Commit
<1>9. task' \in [Tasks -> Task]
  BY DEF Commit, Typed, TypeOK, Task
<1> QED
  BY <1>4, <1>5, <1>6, <1>7, <1>8, <1>9 DEF Commit, Typed, TypeOK, Recs, Sales, client, till

LEMMA OpenTyped == ASSUME Typed, NEW w \in Wizards, Open(w) PROVE Typed'
<1>1. wiz' \in Forms
  BY AvailableTyped DEF Typed, TypeOK, Open, Wizard, Draft, Saved, Ask, Forms
<1>2. poll' \in Polls
  BY DEF Typed, TypeOK, Open, Draft, Saved, Maybe, Polls
<1> QED
  BY <1>1, <1>2 DEF Typed, TypeOK, Open, Forms, Polls, till, stored

LEMMA AdjustTyped ==
  ASSUME Typed, NEW w \in Wizards, NEW credit \in Credits, Adjust(w, credit) PROVE Typed'
<1>1. turns' \in 0 .. MaxTurns
  BY TurnTyped DEF Adjust
<1>2. wiz' \in Forms
  BY CreditSet DEF Typed, TypeOK, Adjust, Forms
<1> QED
  BY <1>1, <1>2 DEF Typed, TypeOK, Adjust, Forms, till, stored

LEMMA FinishTyped == ASSUME Typed, NEW w \in Wizards, Finish(w) PROVE Typed'
<1>1. wiz' \in Forms
  <2>1. wiz \in Forms
    BY DEF Typed, TypeOK, Forms
  <2>2. [wiz EXCEPT ![w].required = TRUE] \in Forms
    BY <2>1, FlagSet
  <2>3. wiz' = wiz \/ wiz' = [wiz EXCEPT ![w].required = TRUE]
    BY DEF Finish
  <2> QED
    BY <2>1, <2>2, <2>3
<1>2. calls' \in Sends
  <2>1. [key |-> key[w], body |-> BodyOf(w)] \in Call
    BY BodyTyped DEF Typed, TypeOK, Call
  <2> QED
    BY <2>1 DEF Typed, TypeOK, Finish, Sends
<1>3. turns' \in 0 .. MaxTurns
  BY TurnTyped DEF Finish, Typed, TypeOK
<1> QED
  BY <1>1, <1>2, <1>3 DEF Typed, TypeOK, Finish, Forms, Sends, till, stored

LEMMA AcknowledgeTyped == ASSUME Typed, NEW w \in Wizards, Acknowledge(w) PROVE Typed'
<1> DEFINE a == [wiz EXCEPT ![w].alarm = FALSE]
           b == [a EXCEPT ![w].task = None]
           c == [b EXCEPT ![w].approved = FALSE]
           d == [c EXCEPT ![w].waiting = FALSE]
           e == [d EXCEPT ![w].required = FALSE]
<1>1. wiz' \in Forms
  <2>1. wiz \in Forms /\ None \in Maybe
    BY DEF Typed, TypeOK, Forms, Maybe
  <2>2. a \in Forms
    BY <2>1, FlagSet
  <2>3. b \in Forms
    BY <2>1, <2>2, TaskSet
  <2>4. c \in Forms
    BY <2>3, FlagSet
  <2>5. d \in Forms
    BY <2>4, FlagSet
  <2>6. e \in Forms
    BY <2>5, FlagSet
  <2>7. wiz' = e
    BY DEF Acknowledge
  <2> QED
    BY <2>6, <2>7
<1> QED
  BY <1>1 DEF Typed, TypeOK, Acknowledge, Forms, till, stored

LEMMA WithdrawTyped == ASSUME Typed, NEW w \in Wizards, Withdraw(w) PROVE Typed'
<1>1. turns' \in 0 .. MaxTurns
  BY TurnTyped DEF Withdraw
<1> DEFINE a == [wiz EXCEPT ![w].waiting = FALSE, ![w].task = None]
<1>2. wiz' \in Forms
  <2>1. a \in Forms
    BY Dropped DEF Typed, TypeOK, Forms
  <2>2. [a EXCEPT ![w].required = FALSE] \in Forms
    BY <2>1, FlagSet
  <2>3. wiz' = [a EXCEPT ![w].required = FALSE]
    BY DEF Withdraw
  <2> QED
    BY <2>2, <2>3
<1>3. poll' \in Polls
  BY DEF Typed, TypeOK, Withdraw, Maybe, Polls
<1> QED
  BY <1>1, <1>2, <1>3 DEF Typed, TypeOK, Withdraw, Forms, Polls, till, stored

LEMMA ApproveDirectlyTyped == ASSUME Typed, NEW w \in Wizards, ApproveDirectly(w) PROVE Typed'
<1>1. wiz' \in [Wizards -> Wizard]
  BY DEF Typed, TypeOK, ApproveDirectly, Wizard
<1> QED
  BY <1>1 DEF Typed, TypeOK, ApproveDirectly, till, stored

LEMMA RequestApprovalTyped == ASSUME Typed, NEW w \in Wizards, RequestApproval(w) PROVE Typed'
<1>1. wiz' \in [Wizards -> Wizard]
  BY FlagSet DEF Typed, TypeOK, RequestApproval, Forms
<1>2. asked' \in [Wizards -> Asked]
  BY DEF Typed, TypeOK, RequestApproval, Asked, Wizard
<1> QED
  BY <1>1, <1>2 DEF Typed, TypeOK, RequestApproval, till, stored

LEMMA PollTyped == ASSUME Typed, NEW w \in Wizards, Poll(w) PROVE Typed'
<1>1. news' \in [Wizards -> {"no", "COMPLETED", "REFUSED"}]
  BY DEF Typed, TypeOK, Poll
<1> QED
  BY <1>1 DEF Typed, TypeOK, Poll, till, stored

LEMMA HandleTyped == ASSUME Typed, NEW w \in Wizards, Handle(w) PROVE Typed'
<1> DEFINE a == [wiz EXCEPT ![w].waiting = FALSE]
<1>1. wiz' \in [Wizards -> Wizard]
  <2>1. wiz \in Forms
    BY DEF Typed, TypeOK, Forms
  <2>2. a \in Forms
    BY <2>1, FlagSet
  <2>3. [a EXCEPT ![w].approved = TRUE] \in Forms
    BY <2>2, FlagSet
  <2>4. [wiz EXCEPT ![w].waiting = FALSE, ![w].task = None] \in Forms
    BY <2>1, Dropped
  <2>5. \/ wiz' = [a EXCEPT ![w].approved = TRUE]
        \/ wiz' = [wiz EXCEPT ![w].waiting = FALSE, ![w].task = None]
    BY DEF Handle
  <2> QED
    BY <2>3, <2>4, <2>5 DEF Forms
<1>2. poll' \in [Wizards -> Maybe]
  BY DEF Typed, TypeOK, Handle, Maybe
<1>3. news' \in [Wizards -> {"no", "COMPLETED", "REFUSED"}]
  BY DEF Typed, TypeOK, Handle
<1> QED
  BY <1>1, <1>2, <1>3 DEF Typed, TypeOK, Handle, till, stored

LEMMA CompleteTyped == ASSUME Typed, NEW t \in Tasks, Complete(t) PROVE Typed'
<1>1. task' \in [Tasks -> Task]
  BY DEF Typed, TypeOK, Complete, Task
<1> QED
  BY <1>1 DEF Typed, TypeOK, Complete, client, till, stored

LEMMA RejectTyped == ASSUME Typed, NEW t \in Tasks, Reject(t) PROVE Typed'
<1>1. task' \in [Tasks -> Task]
  BY DEF Typed, TypeOK, Reject, Task
<1>2. draft' \in Draft
  BY DEF Typed, TypeOK, Reject, Draft
<1> QED
  BY <1>1, <1>2 DEF Typed, TypeOK, Reject, client, till

LEMMA SlotTyped ==
  ASSUME Typed, slot.op \in {"sent", "row", "state"}
  PROVE  slot.cart \in Carts /\ slot.saved \in Saved
BY DEF Typed, TypeOK, Slot, NoOp

LEMMA ReadsTyped ==
  ASSUME Typed, NEW c \in Carts, NEW saved \in Saved PROVE Reads(c, saved) \in Slot
BY DEF Typed, TypeOK, Reads, Slot, Draft

LEMMA WriteSaveTyped == ASSUME Typed, WriteSave PROVE draft' \in Draft
<1>1. slot.cart \in Carts /\ slot.saved \in Saved
  BY SlotTyped DEF WriteSave
<1>2. draft \in Draft
  BY DEF Typed, TypeOK
<1>3. CASE slot.op = "row"
  <2>1. draft' = [draft EXCEPT !.st = "open", !.cart = slot.cart, !.saved = slot.saved]
    BY <1>3 DEF WriteSave
  <2> QED
    BY <1>1, <1>2, <2>1 DEF Draft
<1>4. CASE slot.op = "state"
  <2>1. draft' = [draft EXCEPT !.saved = slot.saved] \/ draft' = draft
    BY <1>4 DEF WriteSave
  <2> QED
    BY <1>1, <1>2, <2>1 DEF Draft
<1> QED
  BY <1>3, <1>4 DEF WriteSave

LEMMA EditDraftTyped == ASSUME Typed, EditDraft PROVE Typed'
<1>1. CASE ReadForOther
  <2>1. slot' \in Slot
    BY <1>1, ReadsTyped DEF ReadForOther, Typed, TypeOK, Draft
  <2> QED
    BY <1>1, <2>1, TurnTyped DEF ReadForOther, Typed, TypeOK, client, till
<1>2. CASE ReadForSave
  <2>1. slot' \in Slot
    BY <1>2, ReadsTyped, SlotTyped DEF ReadForSave
  <2> QED
    BY <1>2, <2>1 DEF ReadForSave, Typed, TypeOK, client, till
<1>3. CASE WriteSave
  <2>1. slot' \in Slot
    BY <1>3 DEF WriteSave, Slot
  <2> QED
    BY <1>3, <2>1, WriteSaveTyped DEF WriteSave, Typed, TypeOK, client, till
<1>4. CASE CheckDraft
  <2>1. slot' \in Slot
    BY <1>4 DEF CheckDraft, Slot
  <2> QED
    BY <1>4, <2>1, TurnTyped DEF CheckDraft, Typed, TypeOK, client, till
<1>5. CASE WriteChecked
  <2>1. slot' \in Slot
    BY <1>5 DEF WriteChecked, Slot
  <2>2. draft' \in Draft
    BY <1>5, NewDraftTyped DEF WriteChecked, Typed, TypeOK, Draft
  <2> QED
    BY <1>5, <2>1, <2>2 DEF WriteChecked, Typed, TypeOK, client, till
<1>6. CASE WithdrawGoods
  BY <1>6, NewDraftTyped, TurnTyped DEF WithdrawGoods, Typed, TypeOK, client, till
<1> QED
  BY <1>1, <1>2, <1>3, <1>4, <1>5, <1>6 DEF EditDraft

LEMMA InitTyped == Init => Typed
<1> SUFFICES ASSUME Init PROVE Typed
  OBVIOUS
<1>1. wiz \in [Wizards -> Wizard]
  BY BlankTyped DEF Init
<1>2. draft \in Draft
  BY NewDraftTyped DEF Init, Draft, Saved
<1>3. task \in [Tasks -> Task]
  BY AnyAskIsAsk DEF Init, Task
<1>4. asked \in [Wizards -> Asked] /\ slot \in Slot
  BY DEF Init, Asked, Slot
<1>5. rec \in [Wizards -> [Keys -> Rec]]
  BY DEF Init, Rec
<1>6. turns \in 0 .. MaxTurns /\ debt \in Nat
  BY BoundAssumption DEF Init
<1>7. /\ calls \in [Wizards -> SUBSET Call] /\ late \in [Wizards -> SUBSET Call]
      /\ poll \in [Wizards -> Maybe] /\ news \in [Wizards -> {"no", "COMPLETED", "REFUSED"}]
  BY DEF Init, Maybe
<1>8. /\ key \in [Wizards -> Keys]
      /\ told \in [Wizards -> Nat] /\ ending \in [Wizards -> Nat]
  BY BoundAssumption DEF Init, Keys
<1>9. sales \subseteq Sales /\ IsFiniteSet(sales)
  BY FS_EmptySet DEF Init
<1> QED
  BY <1>1, <1>2, <1>3, <1>4, <1>5, <1>6, <1>7, <1>8, <1>9 DEF Typed, TypeOK, Sales

LEMMA StepTyped == ASSUME Typed, [Next]_vars PROVE Typed'
<1>1. ASSUME NEW w \in Wizards, Cashier(w) PROVE Typed'
  BY <1>1, OpenTyped, FinishTyped, AcknowledgeTyped, WithdrawTyped, ApproveDirectlyTyped,
     RequestApprovalTyped, LeaveTyped, SendSaveTyped, AdjustTyped DEF Cashier
<1>2. ASSUME NEW w \in Wizards, Browser(w) PROVE Typed'
  BY <1>2, SoldTyped, CompletesTyped, RefusedTyped, MismatchTyped, TimesOutTyped,
     AskFailsTyped, PollTyped, HandleTyped DEF Browser
<1>3. ASSUME NEW w \in Wizards, Server(w) PROVE Typed'
  BY <1>3, ServerAskTyped, CommitTyped, BeginTyped, RefuseTyped DEF Server
<1>4. CASE UNCHANGED vars
  BY <1>4 DEF vars, client, till, stored, Typed, TypeOK
<1> QED
  BY <1>1, <1>2, <1>3, <1>4, CompleteTyped, RejectTyped, EditDraftTyped DEF Next

\* CreditSale keeps its type invariant.
THEOREM TypeCorrect == Spec => []TypeOK
<1>1. Spec => []Typed
  BY InitTyped, StepTyped, PTL DEF Spec
<1>2. Typed => TypeOK
  BY DEF Typed
<1> QED
  BY <1>1, <1>2, PTL

-----------------------------------------------------------------------------
(* What a sale stands on.                                                    *)

Covered(w, k) == rec[w][k].st \in {"running", "sold"}
OnTask(w, k)  == Covered(w, k) /\ rec[w][k].basis = "task"
TaskOf(w, k)  == task[rec[w][k].body.task]

\* What the checkout of a key was covered by when it began covers it still.
Backed(w, k) ==
  LET r == rec[w][k] IN
  /\ OnTask(w, k) => /\ r.body.task \in Tasks
                     /\ TaskOf(w, k).st = "COMPLETED"
                     /\ TaskOf(w, k).ask.cart = r.body.ask.cart
                     /\ r.body.ask.credit <= TaskOf(w, k).ask.credit
  /\ Covered(w, k) /\ r.basis = "direct" => w \in Approvers
  /\ Covered(w, k) /\ r.basis = "limit" =>
       ~Blocked /\ (r.body.ask.credit <= Limit \/ r.body.ask.credit <= Fallback)
  /\ Covered(w, k) /\ r.basis = "paid" => r.body.ask.credit = 0

AllBacked == \A w \in Wizards, k \in Keys : Backed(w, k)

\* An approval is consumed by the commit of the one checkout that stands on it.
Consumed  == \A w \in Wizards, k \in Keys :
               OnTask(w, k) => (TaskOf(w, k).spent <=> rec[w][k].st = "sold")
OneTaker  == \A v, w \in Wizards, j, k \in Keys :
               /\ OnTask(v, j) /\ OnTask(w, k)
               /\ rec[v][j].body.task = rec[w][k].body.task
               => v = w /\ j = k

\* A sale is the outcome of its key.
Outcome(s)    == LET r == rec[s.by][s.key] IN
                 r.st = "sold" /\ r.body = s.body /\ r.basis = s.basis
Outcomes      == \A s \in sales : Outcome(s)
OneSalePerKey == \A s1, s2 \in sales : s1.by = s2.by /\ s1.key = s2.key => s1 = s2

Money == AllBacked /\ Consumed /\ OneTaker /\ Outcomes /\ OneSalePerKey

\* Nothing but the commit of a checkout touches an approval that was given.
Kept  == \A t \in Tasks : task[t].st = "COMPLETED" => task'[t] = task[t]
Quiet == UNCHANGED <<rec, sales>> /\ Kept

\* Of the other keys, nothing changes.
Others(w, k) == \A v \in Wizards, j \in Keys : v # w \/ j # k => rec'[v][j] = rec[v][j]

LEMMA RecChange ==
  ASSUME Typed, NEW w \in Wizards, NEW k \in Keys, NEW r, rec' = [rec EXCEPT ![w][k] = r]
  PROVE  rec'[w][k] = r /\ Others(w, k)
<1>1. rec'[w] = [rec[w] EXCEPT ![k] = r] /\ \A v \in Wizards : v # w => rec'[v] = rec[v]
  BY DEF Typed, TypeOK
<1>2. rec[w] \in [Keys -> Rec]
  BY DEF Typed, TypeOK
<1> QED
  BY <1>1, <1>2 DEF Others

LEMMA CreatedKeeps ==
  ASSUME Typed, NEW t \in Tasks, NEW ask, NEW x \in Replaced, Created(t, ask, x) PROVE Kept
<1> SUFFICES ASSUME NEW u \in Tasks, task[u].st = "COMPLETED" PROVE task'[u] = task[u]
  BY DEF Kept
<1>1. u # t
  BY DEF Created
<1>2. u \notin x
  BY DEF Replaced, Pending, Active
<1> QED
  BY <1>1, <1>2 DEF Created

LEMMA ServerAskQuiet == ASSUME Typed, NEW w \in Wizards, ServerAsk(w) PROVE Quiet
<1>1. UNCHANGED <<rec, sales>>
  BY ServerAskCases
<1>2. CASE Repeated
  BY <1>1, <1>2 DEF Repeated, Kept, Quiet
<1> QED
  BY <1>1, <1>2, ServerAskCases, CreatedKeeps DEF Quiet

LEMMA DecisionQuiet ==
  ASSUME Typed, NEW t \in Tasks, Complete(t) \/ Reject(t) PROVE Quiet
<1>1. UNCHANGED <<rec, sales>>
  BY DEF Complete, Reject
<1>2. \A u \in Tasks : u # t => task'[u] = task[u]
  BY DEF Complete, Reject, Typed, TypeOK
<1>3. task[t].st # "COMPLETED"
  BY DEF Complete, Reject, Active
<1> QED
  BY <1>1, <1>2, <1>3 DEF Quiet, Kept

LEMMA CashierFrame ==
  ASSUME NEW w \in Wizards, Cashier(w)
  PROVE  UNCHANGED <<rec, task, sales, draft, late, key, told>>
BY DEF Cashier, Open, Finish, Acknowledge, Withdraw, ApproveDirectly, RequestApproval,
   Leave, SendSave, Adjust, till, stored, client

LEMMA BrowserFrame ==
  ASSUME NEW w \in Wizards, Browser(w) PROVE UNCHANGED <<rec, task, sales, draft>>
BY DEF Browser, Sold, Completes, Refused, Mismatch, TimesOut, AskFails, Fails, Poll, Handle,
   stored

LEMMA EditFrame ==
  ASSUME EditDraft PROVE UNCHANGED <<rec, task, sales, calls, late, key, told>>
BY DEF EditDraft, ReadForOther, ReadForSave, WriteSave, CheckDraft, WriteChecked,
   WithdrawGoods, client, till

LEMMA StepCases ==
  ASSUME Typed, [Next]_vars
  PROVE  \/ Quiet
         \/ \E w \in Wizards : \/ \E k \in Keys : Commit(w, k)
                               \/ \E c \in calls[w] \cup late[w] : Begin(w, c) \/ Refuse(w, c)
<1>1. ASSUME UNCHANGED <<rec, task, sales>> PROVE Quiet
  BY <1>1 DEF Quiet, Kept
<1>2. UNCHANGED vars => UNCHANGED <<rec, task, sales>>
  BY DEF vars
<1>3. ASSUME NEW w \in Wizards, Server(w)
      PROVE  \/ Quiet \/ \E k \in Keys : Commit(w, k)
             \/ \E c \in calls[w] \cup late[w] : Begin(w, c) \/ Refuse(w, c)
  BY <1>3, ServerAskQuiet DEF Server
<1> QED
  BY <1>1, <1>2, <1>3, CashierFrame, BrowserFrame, EditFrame, DecisionQuiet DEF Next

LEMMA QuietMoney == ASSUME Typed, Money, Quiet PROVE Money'
<1>1. \A w \in Wizards, k \in Keys : OnTask(w, k) => TaskOf(w, k)' = TaskOf(w, k)
  BY DEF Money, AllBacked, Backed, OnTask, TaskOf, Quiet, Kept
<1>2. AllBacked'
  BY <1>1 DEF Money, AllBacked, Backed, OnTask, Covered, Quiet
<1>3. Consumed'
  BY <1>1 DEF Money, Consumed, OnTask, Covered, Quiet
<1>4. OneTaker'
  BY DEF Money, OneTaker, OnTask, Covered, Quiet
<1>5. Outcomes' /\ OneSalePerKey'
  BY DEF Money, Outcomes, Outcome, OneSalePerKey, Quiet
<1> QED
  BY <1>2, <1>3, <1>4, <1>5 DEF Money

LEMMA SalesTyped ==
  ASSUME Typed, NEW s \in sales
  PROVE  s.by \in Wizards /\ s.key \in Keys /\ s.body \in Body /\ s.basis \in Basis
BY DEF Typed, TypeOK

\* A key that is claimed sells nothing yet, and the others are as they were.
LEMMA ClaimKeeps ==
  ASSUME Typed, Money, NEW w \in Wizards, NEW k \in Keys, rec[w][k] = NoRec,
         UNCHANGED <<task, sales>>, Others(w, k)
  PROVE  Outcomes' /\ OneSalePerKey'
<1>1. \A s \in sales : s.by # w \/ s.key # k
  BY DEF Money, Outcomes, Outcome, NoRec
<1>2. \A s \in sales : rec'[s.by][s.key] = rec[s.by][s.key]
  BY <1>1, SalesTyped DEF Others
<1> QED
  BY <1>2 DEF Money, Outcomes, Outcome, OneSalePerKey

LEMMA RefuseMoney ==
  ASSUME Typed, Money, NEW w \in Wizards, NEW c \in calls[w] \cup late[w], Refuse(w, c)
  PROVE  Money'
<1> DEFINE k == c.key
           r == [st |-> "refused", body |-> c.body, alarm |-> Alarming(c.body)]
<1>1. k \in Keys /\ rec[w][k] = NoRec /\ UNCHANGED <<task, sales>>
  BY SentTyped DEF Refuse
<1>2. rec' = [rec EXCEPT ![w][k] = r]
  BY DEF Refuse
<1>3. rec'[w][k] = r /\ Others(w, k)
  BY <1>1, <1>2, RecChange
<1>4. ~Covered(w, k)'
  BY <1>3 DEF Covered
<1> HIDE DEF k, r
<1>5. \A v \in Wizards, j \in Keys : Covered(v, j)' => Covered(v, j) /\ rec'[v][j] = rec[v][j]
  BY <1>3, <1>4 DEF Covered, Others
<1>6. AllBacked'
  BY <1>1, <1>5 DEF Money, AllBacked, Backed, OnTask, TaskOf
<1>7. Consumed'
  BY <1>1, <1>5 DEF Money, Consumed, OnTask, TaskOf
<1>8. OneTaker'
  BY <1>1, <1>5 DEF Money, OneTaker, OnTask
<1> QED
  BY <1>1, <1>3, <1>6, <1>7, <1>8, ClaimKeeps DEF Money

\* What covers a body when it begins.
LEMMA CoversBacks ==
  ASSUME Typed, NEW w \in Wizards, NEW b \in Body, NEW basis \in Basis, Covers(w, b, basis)
  PROVE  /\ basis = "task" => /\ b.task \in Tasks /\ task[b.task].st = "COMPLETED"
                              /\ ~task[b.task].spent
                              /\ task[b.task].ask.cart = b.ask.cart
                              /\ b.ask.credit <= task[b.task].ask.credit
         /\ basis = "direct" => w \in Approvers
         /\ basis = "limit" => ~Blocked /\ (b.ask.credit <= Limit \/ b.ask.credit <= Fallback)
         /\ basis = "paid" => b.ask.credit = 0
<1>1. ASSUME basis = "task"
      PROVE  /\ b.task \in Tasks /\ task[b.task].st = "COMPLETED"
             /\ ~task[b.task].spent
             /\ task[b.task].ask.cart = b.ask.cart
             /\ b.ask.credit <= task[b.task].ask.credit
  BY <1>1 DEF Covers, Body, Maybe
<1>2. basis = "direct" => w \in Approvers
  BY DEF Covers
<1>3. ASSUME basis = "limit"
      PROVE  ~Blocked /\ (b.ask.credit <= Limit \/ b.ask.credit <= Fallback)
  <2>1. b.ask.credit \in Nat /\ Available \in Nat /\ Available <= Limit /\ Limit \in Nat
    BY CreditAssumption, AvailableTyped DEF Body, Ask
  <2>2. ~Blocked /\ (b.ask.credit <= Available \/ b.ask.credit <= Fallback)
    BY <1>3 DEF Covers
  <2> QED
    BY <2>1, <2>2
<1>4. basis = "paid" => b.ask.credit = 0
  BY DEF Covers
<1> QED
  BY <1>1, <1>2, <1>3, <1>4

LEMMA BeginMoney ==
  ASSUME Typed, Money, NEW w \in Wizards, NEW c \in calls[w] \cup late[w], Begin(w, c)
  PROVE  Money'
<1>1. PICK basis \in Basis :
        /\ Covers(w, c.body, basis)
        /\ rec' = [rec EXCEPT ![w][c.key] =
                     [st |-> "running", body |-> c.body, basis |-> basis]]
  BY DEF Begin
<1> DEFINE b == c.body
           k == c.key
           r == [st |-> "running", body |-> b, basis |-> basis]
<1>2. k \in Keys /\ b \in Body /\ rec[w][k] = NoRec /\ UNCHANGED <<task, sales>>
  BY SentTyped DEF Begin
<1>3. rec'[w][k] = r /\ Others(w, k)
  BY <1>1, <1>2, RecChange
<1>4. /\ basis = "task" => /\ b.task \in Tasks /\ task[b.task].st = "COMPLETED"
                           /\ ~task[b.task].spent
                           /\ task[b.task].ask.cart = b.ask.cart
                           /\ b.ask.credit <= task[b.task].ask.credit
      /\ basis = "direct" => w \in Approvers
      /\ basis = "limit" => ~Blocked /\ (b.ask.credit <= Limit \/ b.ask.credit <= Fallback)
      /\ basis = "paid" => b.ask.credit = 0
  BY <1>1, <1>2, CoversBacks
<1>5. basis = "task" => b.task # None /\ ~Held(b.task)
  BY <1>1 DEF Begin, Covers
<1>6. rec'[w][k].st = "running" /\ rec'[w][k].body = b /\ rec'[w][k].basis = basis
  BY <1>3
<1> HIDE DEF b, k, r
<1>7. Backed(w, k)'
  BY <1>2, <1>4, <1>6 DEF Backed, OnTask, TaskOf, Covered
<1>8. \A v \in Wizards, j \in Keys : v # w \/ j # k => (Backed(v, j) => Backed(v, j)')
  BY <1>2, <1>3 DEF Backed, OnTask, TaskOf, Covered, Others
<1>9. AllBacked'
  BY <1>7, <1>8 DEF Money, AllBacked
<1>10. \A v \in Wizards, j \in Keys : v # w \/ j # k =>
         (OnTask(v, j)' <=> OnTask(v, j)) /\ TaskOf(v, j)' = TaskOf(v, j)
  BY <1>2, <1>3 DEF OnTask, Covered, TaskOf, Others
<1>11. Consumed'
  <2>1. OnTask(w, k)' => ~TaskOf(w, k)'.spent /\ rec'[w][k].st # "sold"
    BY <1>2, <1>4, <1>6 DEF OnTask, TaskOf
  <2> QED
    BY <1>3, <1>10, <2>1 DEF Money, Consumed, Others
<1>12. OneTaker'
  <2>1. ASSUME NEW v \in Wizards, NEW j \in Keys, OnTask(v, j), basis = "task"
        PROVE  rec[v][j].body.task # b.task
    <3>1. SUFFICES ASSUME rec[v][j].body.task = b.task PROVE FALSE
      OBVIOUS
    <3>2. ~TaskOf(v, j).spent
      BY <2>1, <3>1, <1>4 DEF TaskOf
    <3>3. rec[v][j].st = "running" /\ rec[v][j].basis = "task"
      BY <2>1, <3>2 DEF Money, Consumed, OnTask, Covered
    <3>4. Held(b.task)
      BY <3>1, <3>3 DEF Held
    <3> QED
      BY <2>1, <3>4, <1>5
  <2>2. OnTask(w, k)' => basis = "task" /\ rec'[w][k].body.task = b.task
    BY <1>6 DEF OnTask
  <2> QED
    BY <1>3, <1>10, <2>1, <2>2 DEF Money, OneTaker, Others
<1> QED
  BY <1>2, <1>3, <1>9, <1>11, <1>12, ClaimKeeps DEF Money

LEMMA CommitMoney ==
  ASSUME Typed, Money, NEW w \in Wizards, NEW k \in Keys, Commit(w, k) PROVE Money'
<1> DEFINE r == rec[w][k]
           b == r.body
           s == [no |-> Cardinality(sales) + 1, by |-> w, key |-> k,
                 body |-> b, basis |-> r.basis]
<1>1. /\ r.st = "running" /\ rec' = [rec EXCEPT ![w][k].st = "sold"]
      /\ sales' = sales \cup {s}
      /\ task' = IF r.basis = "task" THEN [task EXCEPT ![b.task].spent = TRUE] ELSE task
  BY DEF Commit
<1>2. /\ rec'[w][k].st = "sold" /\ rec'[w][k].body = b /\ rec'[w][k].basis = r.basis
      /\ Others(w, k)
  <2>1. r \in [st: {"running", "sold"}, body: Body, basis: Basis]
    BY <1>1 DEF Typed, TypeOK, Rec, NoRec
  <2>2. rec' = [rec EXCEPT ![w][k] = [r EXCEPT !.st = "sold"]]
    BY <1>1 DEF Typed, TypeOK
  <2>3. rec'[w][k] = [r EXCEPT !.st = "sold"] /\ Others(w, k)
    BY <2>2, RecChange
  <2> QED
    BY <2>1, <2>3
<1>3. s.by = w /\ s.key = k /\ s.body = b /\ s.basis = r.basis
  OBVIOUS
<1>4. OnTask(w, k) <=> r.basis = "task"
  BY <1>1 DEF OnTask, Covered
<1> HIDE DEF b, s, r
<1>5. \A v \in Wizards, j \in Keys :
        /\ (OnTask(v, j)' <=> OnTask(v, j)) /\ (Covered(v, j)' <=> Covered(v, j))
        /\ rec'[v][j].body = rec[v][j].body /\ rec'[v][j].basis = rec[v][j].basis
  BY <1>1, <1>2 DEF OnTask, Covered, Others, r, b
<1>6. \A t \in Tasks : task'[t].st = task[t].st /\ task'[t].ask = task[t].ask
  BY <1>1 DEF Typed, TypeOK, Task
<1>7. AllBacked'
  <2>1. SUFFICES ASSUME NEW v \in Wizards, NEW j \in Keys PROVE Backed(v, j)'
    BY DEF AllBacked
  <2>2. Backed(v, j)
    BY DEF Money, AllBacked
  <2>3. OnTask(v, j) => /\ TaskOf(v, j)'.st = TaskOf(v, j).st
                        /\ TaskOf(v, j)'.ask = TaskOf(v, j).ask
    <3>1. OnTask(v, j) => rec[v][j].body.task \in Tasks
      BY <2>2 DEF Backed
    <3>2. rec'[v][j].body.task = rec[v][j].body.task
      BY <1>5
    <3> QED
      BY <1>6, <3>1, <3>2 DEF TaskOf
  <2>4. OnTask(v, j)' => /\ rec'[v][j].body.task \in Tasks
                         /\ TaskOf(v, j)'.st = "COMPLETED"
                         /\ TaskOf(v, j)'.ask.cart = rec'[v][j].body.ask.cart
                         /\ rec'[v][j].body.ask.credit <= TaskOf(v, j)'.ask.credit
    BY <1>5, <2>2, <2>3 DEF Backed
  <2>5. /\ Covered(v, j)' /\ rec'[v][j].basis = "direct" => v \in Approvers
        /\ Covered(v, j)' /\ rec'[v][j].basis = "limit" =>
             ~Blocked /\ \/ rec'[v][j].body.ask.credit <= Limit
                         \/ rec'[v][j].body.ask.credit <= Fallback
        /\ Covered(v, j)' /\ rec'[v][j].basis = "paid" => rec'[v][j].body.ask.credit = 0
    BY <1>5, <2>2 DEF Backed
  <2> QED
    BY <2>4, <2>5 DEF Backed
<1>8. OneTaker'
  <2>1. SUFFICES ASSUME NEW v \in Wizards, NEW x \in Wizards, NEW j \in Keys, NEW l \in Keys,
                        OnTask(v, j)', OnTask(x, l)',
                        rec'[v][j].body.task = rec'[x][l].body.task
                 PROVE  v = x /\ j = l
    BY DEF OneTaker
  <2>2. OnTask(v, j) /\ rec'[v][j].body = rec[v][j].body
    BY <1>5, <2>1
  <2>3. OnTask(x, l) /\ rec'[x][l].body = rec[x][l].body
    BY <1>5, <2>1
  <2>4. rec[v][j].body.task = rec[x][l].body.task
    BY <2>1, <2>2, <2>3
  <2> QED
    BY <2>2, <2>3, <2>4 DEF Money, OneTaker
<1>9. Consumed'
  <2>1. ASSUME OnTask(w, k) PROVE TaskOf(w, k)'.spent
    <3>1. b.task \in Tasks
      BY <2>1 DEF Money, AllBacked, Backed, b, r
    <3>2. task'[b.task].spent
      BY <1>1, <1>4, <2>1, <3>1 DEF Typed, TypeOK, Task
    <3> QED
      BY <1>2, <3>2 DEF TaskOf
  <2>2. ASSUME NEW v \in Wizards, NEW j \in Keys, v # w \/ j # k, OnTask(v, j)
        PROVE  TaskOf(v, j)' = TaskOf(v, j)
    <3>1. rec[v][j].body.task \in Tasks
      BY <2>2 DEF Money, AllBacked, Backed
    <3>2. r.basis = "task" => rec[v][j].body.task # b.task
      BY <1>4, <2>2 DEF Money, OneTaker, r, b
    <3>3. task'[rec[v][j].body.task] = task[rec[v][j].body.task]
      BY <1>1, <3>1, <3>2 DEF Typed, TypeOK
    <3> QED
      BY <1>5, <3>3 DEF TaskOf
  <2> QED
    BY <1>2, <1>5, <2>1, <2>2 DEF Money, Consumed, Others
<1>10. \A x \in sales : x.by # w \/ x.key # k
  BY <1>1 DEF Money, Outcomes, Outcome, r
<1>11. Outcomes'
  <2>1. \A x \in sales : rec'[x.by][x.key] = rec[x.by][x.key]
    BY <1>2, <1>10, SalesTyped DEF Others
  <2>2. \A x \in sales : /\ rec'[x.by][x.key].st = "sold"
                         /\ rec'[x.by][x.key].body = x.body
                         /\ rec'[x.by][x.key].basis = x.basis
    BY <2>1 DEF Money, Outcomes, Outcome
  <2>3. /\ rec'[s.by][s.key].st = "sold"
        /\ rec'[s.by][s.key].body = s.body /\ rec'[s.by][s.key].basis = s.basis
    BY <1>2, <1>3
  <2> QED
    BY <1>1, <2>2, <2>3 DEF Outcomes, Outcome
<1>12. OneSalePerKey'
  BY <1>1, <1>3, <1>10 DEF Money, OneSalePerKey
<1> QED
  BY <1>7, <1>8, <1>9, <1>11, <1>12 DEF Money

LEMMA InitMoney == Init => Money
<1> SUFFICES ASSUME Init PROVE Money
  OBVIOUS
<1>1. \A w \in Wizards, k \in Keys : ~Covered(w, k)
  BY DEF Init, Covered, NoRec
<1>2. AllBacked /\ Consumed /\ OneTaker
  BY <1>1 DEF AllBacked, Backed, Consumed, OneTaker, OnTask
<1>3. Outcomes /\ OneSalePerKey
  BY DEF Init, Outcomes, OneSalePerKey
<1> QED
  BY <1>2, <1>3 DEF Money

LEMMA MoneyAlways == Spec => [](Typed /\ Money)
<1>1. Init => Typed /\ Money
  BY InitTyped, InitMoney
<1>2. Typed /\ Money /\ [Next]_vars => (Typed /\ Money)'
  BY StepTyped, StepCases, QuietMoney, BeginMoney, RefuseMoney, CommitMoney
<1> QED
  BY <1>1, <1>2, PTL DEF Spec

LEMMA MoneyBacks == Typed /\ Money => CreditIsBacked
<1> SUFFICES ASSUME Typed, Money PROVE CreditIsBacked
  OBVIOUS
<1>1. ASSUME NEW s \in sales
      PROVE  /\ s.by \in Wizards /\ s.key \in Keys /\ s.basis \in Basis
             /\ Covered(s.by, s.key) /\ Backed(s.by, s.key)
             /\ rec[s.by][s.key].body = s.body /\ rec[s.by][s.key].basis = s.basis
  BY SalesTyped DEF Money, AllBacked, Outcomes, Outcome, Covered
<1>2. ASSUME NEW s \in sales
      PROVE  CASE s.basis = "task"   -> /\ task[s.body.task].st = "COMPLETED"
                                        /\ task[s.body.task].ask.cart = s.body.ask.cart
                                        /\ s.body.ask.credit <= task[s.body.task].ask.credit
               [] s.basis = "direct" -> s.by \in Approvers
               [] s.basis = "limit"  -> ~Blocked /\ \/ s.body.ask.credit <= Limit
                                                    \/ s.body.ask.credit <= Fallback
               [] s.basis = "paid"   -> s.body.ask.credit = 0
  BY <1>1 DEF Backed, OnTask, TaskOf, Basis
<1>3. ASSUME NEW s1 \in sales, NEW s2 \in sales, s1.basis = "task", s2.basis = "task",
             s1.body.task = s2.body.task
      PROVE  s1 = s2
  <2>1. s1.by = s2.by /\ s1.key = s2.key
    BY <1>1, <1>3 DEF Money, OneTaker, OnTask
  <2> QED
    BY <2>1 DEF Money, OneSalePerKey
<1> QED
  BY <1>2, <1>3 DEF CreditIsBacked

\* Every sale on credit keeps what covers it, and no approval is used twice
\* (_pos_checkout_internal under the lock of the task's row).
THEOREM CreditStaysBacked == Spec => []CreditIsBacked
BY MoneyAlways, MoneyBacks, PTL

-----------------------------------------------------------------------------
(* The keys of a wizard.                                                     *)

\* A wizard makes a new key when it is told of a sale, and at no other time; what it
\* sends, and so what the server knows, carries one of the keys it made.
KeyIs(w)  == key[w] = told[w] + 1
Sent(w)   == \A c \in calls[w] \cup late[w] : c.key <= key[w]
Known(w)  == \A k \in Keys : rec[w][k].st # "absent" => k <= key[w]
Order     == \A w \in Wizards : KeyIs(w) /\ Sent(w) /\ Known(w)

\* A step that makes no key, sends nothing and claims nothing.
Same(w)   == /\ key'[w] = key[w] /\ told'[w] = told[w]
             /\ calls'[w] \cup late'[w] \subseteq calls[w] \cup late[w]
             /\ \A k \in Keys : rec'[w][k].st # "absent" => rec[w][k].st # "absent"

LEMMA SameOrder ==
  ASSUME NEW w \in Wizards, KeyIs(w), Sent(w), Known(w), Same(w)
  PROVE  KeyIs(w)' /\ Sent(w)' /\ Known(w)'
BY DEF KeyIs, Sent, Known, Same

LEMMA AllSame ==
  ASSUME Order, UNCHANGED <<calls, late, key, told, rec>> PROVE Order'
BY DEF Order, KeyIs, Sent, Known

LEMMA FailsSame ==
  ASSUME Typed, NEW w \in Wizards, NEW c \in calls[w], NEW alarm, Fails(w, c, alarm),
         \/ UNCHANGED late
         \/ late' = [late EXCEPT ![w] = IF rec[w][c.key] = NoRec THEN @ \cup {c} ELSE @]
  PROVE  \A v \in Wizards : Same(v)
<1>1. calls' = [calls EXCEPT ![w] = @ \ {c}] /\ UNCHANGED <<key, told, rec>>
  BY DEF Fails, Answered
<1>2. ASSUME NEW v \in Wizards PROVE late'[v] \subseteq calls[v] \cup late[v]
  <2>1. late'[v] = late[v] \/ (v = w /\ late'[v] = late[v] \cup {c})
    BY DEF Typed, TypeOK
  <2> QED
    BY <2>1
<1> QED
  BY <1>1, <1>2 DEF Same, Typed, TypeOK

LEMMA FinishOrder == ASSUME Typed, Order, NEW w \in Wizards, Finish(w) PROVE Order'
<1> DEFINE c == [key |-> key[w], body |-> BodyOf(w)]
<1>1. UNCHANGED <<late, key, told, rec>>
  BY DEF Finish, till
<1>2. calls' = calls \/ calls' = [calls EXCEPT ![w] = @ \cup {c}]
  BY DEF Finish
<1>3. c.key <= key[w]
  BY DEF Typed, TypeOK, Keys
<1> HIDE DEF c
<1>4. ASSUME NEW v \in Wizards PROVE Sent(v)'
  <2>1. calls'[v] = calls[v] \/ (v = w /\ calls'[v] = calls[v] \cup {c})
    BY <1>2 DEF Typed, TypeOK
  <2>2. \A x \in calls'[v] \cup late[v] : x.key <= key[v]
    BY <1>3, <2>1 DEF Order, Sent
  <2> QED
    BY <1>1, <2>2 DEF Sent
<1> QED
  BY <1>1, <1>4 DEF Order, KeyIs, Known

LEMMA SoldOrder == ASSUME Typed, Order, NEW w \in Wizards, Sold(w) PROVE Order'
<1>1. /\ UNCHANGED <<late, rec>> /\ key' = [key EXCEPT ![w] = @ + 1]
      /\ told' = [told EXCEPT ![w] = @ + 1]
      /\ \A v \in Wizards : calls'[v] \subseteq calls[v]
  BY DEF Sold, Answered, Typed, TypeOK
<1>2. \A v \in Wizards : key[v] \in Int /\ told[v] \in Int /\ key[v] <= key'[v]
  BY <1>1 DEF Typed, TypeOK, Keys
<1>3. \A v \in Wizards : KeyIs(v)'
  BY <1>1, <1>2 DEF Order, KeyIs, Typed, TypeOK
<1>4. \A v \in Wizards : Sent(v)'
  <2>1. ASSUME NEW v \in Wizards, NEW c \in calls[v] \cup late[v] PROVE c.key <= key'[v]
    <3>1. c.key \in Keys
      BY <2>1, SentTyped
    <3>2. c.key \in Int
      BY <3>1 DEF Keys
    <3>3. c.key <= key[v] /\ key[v] \in Int /\ key[v] <= key'[v] /\ key'[v] \in Int
      BY <1>1, <1>2, <2>1 DEF Order, Sent, Typed, TypeOK
    <3> QED
      BY <3>2, <3>3
  <2> QED
    BY <1>1, <2>1 DEF Sent
<1>5. \A v \in Wizards : Known(v)'
  BY <1>1, <1>2 DEF Order, Known, Keys, Typed, TypeOK
<1> QED
  BY <1>3, <1>4, <1>5 DEF Order

LEMMA CashierOrder == ASSUME Typed, Order, NEW w \in Wizards, Cashier(w) PROVE Order'
<1>1. CASE Finish(w)
  BY <1>1, FinishOrder
<1>2. CASE ~Finish(w)
  <2>1. UNCHANGED calls
    BY <1>2 DEF Cashier, Open, Acknowledge, Withdraw, ApproveDirectly, RequestApproval,
       Leave, SendSave, Adjust, client
  <2> QED
    BY <2>1, CashierFrame, AllSame
<1> QED
  BY <1>1, <1>2

LEMMA BrowserOrder == ASSUME Typed, Order, NEW w \in Wizards, Browser(w) PROVE Order'
<1>1. CASE Refused(w) \/ Mismatch(w) \/ TimesOut(w)
  <2>1. \A v \in Wizards : Same(v)
    BY <1>1, FailsSame DEF Refused, Mismatch, TimesOut
  <2> QED
    BY <2>1, SameOrder DEF Order
<1>2. CASE Completes(w) \/ AskFails(w) \/ Poll(w) \/ Handle(w)
  BY <1>2, AllSame DEF Completes, AskFails, Poll, Handle, till
<1> QED
  BY <1>1, <1>2, SoldOrder DEF Browser

\* The server claims keys that were sent.
LEMMA ClaimOrder ==
  ASSUME Typed, Order, NEW w \in Wizards, NEW k \in Keys, k <= key[w],
         Others(w, k), UNCHANGED <<calls, late, key, told>>
  PROVE  Order'
<1>1. \A v \in Wizards : KeyIs(v)' /\ Sent(v)'
  BY DEF Order, KeyIs, Sent
<1>2. \A v \in Wizards : Known(v)'
  BY DEF Order, Known, Others
<1> QED
  BY <1>1, <1>2 DEF Order

LEMMA ServerOrder == ASSUME Typed, Order, NEW w \in Wizards, Server(w) PROVE Order'
<1>1. CASE ServerAsk(w)
  BY <1>1, AllSame DEF ServerAsk, NewTask, AskEnds, till
<1>2. ASSUME NEW k \in Keys, Commit(w, k) PROVE Order'
  <2>1. k <= key[w]
    BY <1>2 DEF Commit, Order, Known
  <2>2. \E r : rec' = [rec EXCEPT ![w][k] = r]
    BY <1>2 DEF Commit, Typed, TypeOK
  <2>3. Others(w, k)
    BY <2>2, RecChange
  <2> QED
    BY <1>2, <2>1, <2>3, ClaimOrder DEF Commit, client, till
<1>3. ASSUME NEW c \in calls[w] \cup late[w], Begin(w, c) \/ Refuse(w, c) PROVE Order'
  <2>1. c.key \in Keys /\ c.key <= key[w]
    BY SentTyped DEF Order, Sent
  <2>2. \E r : rec' = [rec EXCEPT ![w][c.key] = r]
    BY <1>3 DEF Begin, Refuse
  <2>3. Others(w, c.key)
    BY <2>1, <2>2, RecChange
  <2>4. UNCHANGED <<calls, late, key, told>>
    BY <1>3 DEF Begin, Refuse, client, till
  <2> QED
    BY <2>1, <2>3, <2>4, ClaimOrder
<1> QED
  BY <1>1, <1>2, <1>3 DEF Server

LEMMA InitOrder == Init => Order
BY DEF Init, Order, KeyIs, Sent, Known, NoRec

LEMMA StepOrder == ASSUME Typed, Order, [Next]_vars PROVE Order'
<1>1. ASSUME NEW t \in Tasks, Complete(t) \/ Reject(t) PROVE Order'
  BY <1>1, AllSame DEF Complete, Reject, client, till
<1>2. CASE EditDraft
  BY <1>2, AllSame DEF EditDraft, ReadForOther, ReadForSave, WriteSave, CheckDraft,
     WriteChecked, WithdrawGoods, client, till
<1>3. CASE UNCHANGED vars
  BY <1>3, AllSame DEF vars, client, till
<1> QED
  BY <1>1, <1>2, <1>3, CashierOrder, BrowserOrder, ServerOrder DEF Next

\* One sale a key, and one key more than the sales the wizard was told of.
LEMMA FewSales == Typed /\ Money /\ Order => OneSaleUntilTold
<1> SUFFICES ASSUME Typed, Money, Order, NEW w \in Wizards
             PROVE  Cardinality({s \in sales : s.by = w}) <= told[w] + 1
  BY DEF OneSaleUntilTold
<1> DEFINE S == {s \in sales : s.by = w}
           n == key[w]
           f == [s \in S |-> s.key]
<1>1. n \in Nat /\ n > 0 /\ n = told[w] + 1
  BY DEF Order, KeyIs, Typed, TypeOK, Keys
<1>2. ASSUME NEW s \in S PROVE s.key \in 1 .. n
  <2>1. s.key \in Keys /\ rec[w][s.key].st # "absent"
    BY SalesTyped DEF Money, Outcomes, Outcome
  <2> QED
    BY <1>1, <2>1 DEF Order, Known, Keys
<1>3. f \in Injection(S, 1 .. n)
  BY <1>2 DEF Injection, IsInjective, Money, OneSalePerKey
<1>4. IsFiniteSet(1 .. n) /\ Cardinality(1 .. n) = n
  BY <1>1, FS_Interval
<1>5. Cardinality(S) <= Cardinality(1 .. n)
  BY <1>3, <1>4, FS_Injection
<1> QED
  BY <1>1, <1>4, <1>5

\* A wizard has made at most one sale its cashier was not told of, whatever is repeated,
\* lost, late or changed (idempotent_endpoint around pos_checkout; executeCheckout).
THEOREM NoHiddenSales == Spec => []OneSaleUntilTold
<1>1. Init => Typed /\ Order
  BY InitTyped, InitOrder
<1>2. Typed /\ Order /\ [Next]_vars => (Typed /\ Order)'
  BY StepTyped, StepOrder
<1>3. Spec => [](Typed /\ Order)
  BY <1>1, <1>2, PTL DEF Spec
<1> QED
  BY <1>3, MoneyAlways, FewSales, PTL

-----------------------------------------------------------------------------
(* The requests about one draft.                                             *)

\* The row is there until it is deleted, and one request of it is undecided at most.
OneAsked == ~draft.lost => /\ draft.st # "gone"
                           /\ \A t, u \in Tasks : Active(t) /\ Active(u) => t = u

\* A step that creates no task, and after which a row that is not there was deleted.
NoneAsked == /\ \A t \in Tasks : Active(t)' => Active(t)
             /\ ~draft'.lost => ~draft.lost /\ (draft.st # "gone" => draft'.st # "gone")

LEMMA NoneAskedKeeps == ASSUME OneAsked, NoneAsked PROVE OneAsked'
BY DEF OneAsked, NoneAsked

LEMMA RowStays == ASSUME UNCHANGED <<task, draft>> PROVE NoneAsked
BY DEF NoneAsked, Active

LEMMA CreatedAsks ==
  ASSUME Typed, OneAsked, NEW t \in Tasks, NEW ask, NEW x \in Replaced, Created(t, ask, x)
  PROVE  OneAsked'
<1> SUFFICES ASSUME ~draft'.lost
             PROVE  draft'.st # "gone" /\ \A u \in Tasks : Active(u)' => u = t
  BY DEF OneAsked
<1>1. draft \in Draft
  BY DEF Typed, TypeOK
<1>2. ~draft.lost /\ Here /\ draft'.st # "gone"
  BY <1>1 DEF Created, Here, OneAsked, Draft
<1>3. \A u \in Tasks : Active(u) => u \in x
  BY <1>2 DEF Replaced, Pending, OneAsked
<1>4. ASSUME NEW u \in Tasks, u # t PROVE ~Active(u)'
  <2>1. task[u] \in Task
    BY DEF Typed, TypeOK
  <2>2. CASE u \in x
    BY <1>4, <2>1, <2>2 DEF Created, Active, Task
  <2>3. CASE u \notin x
    BY <1>3, <1>4, <2>3 DEF Created, Active
  <2> QED
    BY <2>2, <2>3
<1> QED
  BY <1>2, <1>4

LEMMA RemovedIsLost == Removed.lost /\ Removed.st = "gone"
BY DEF Removed, NewDraft

LEMMA DecisionAsks ==
  ASSUME Typed, NEW t \in Tasks, Complete(t) \/ Reject(t) PROVE NoneAsked
<1>1. \A u \in Tasks : Active(u)' => Active(u)
  BY DEF Complete, Reject, Active, Typed, TypeOK, Task
<1>2. draft'.lost = draft.lost /\ (draft.st # "gone" => draft'.st # "gone")
  BY DEF Complete, Reject, stored, Typed, TypeOK, Draft
<1> QED
  BY <1>1, <1>2 DEF NoneAsked

LEMMA CommitAsks ==
  ASSUME Typed, NEW w \in Wizards, NEW k \in Keys, Commit(w, k) PROVE NoneAsked
<1>1. \A u \in Tasks : Active(u)' => Active(u)
  BY DEF Commit, Active, Typed, TypeOK, Task
<1>2. draft'.lost
  BY RemovedIsLost DEF Commit
<1> QED
  BY <1>1, <1>2 DEF NoneAsked

LEMMA EditAsks == ASSUME Typed, EditDraft PROVE NoneAsked
<1>1. UNCHANGED task
  BY EditFrame
<1>2. draft \in Draft
  BY DEF Typed, TypeOK
<1>3. \/ draft' = draft \/ draft'.lost
      \/ draft'.lost = draft.lost /\ (draft.st # "gone" => draft'.st # "gone")
  <2>1. CASE ReadForOther \/ ReadForSave \/ CheckDraft
    BY <2>1 DEF ReadForOther, ReadForSave, CheckDraft
  <2>2. CASE WriteSave
    <3>1. \/ draft' = draft \/ draft' = [draft EXCEPT !.saved = slot.saved]
          \/ draft' = [draft EXCEPT !.st = "open", !.cart = slot.cart, !.saved = slot.saved]
      BY <2>2 DEF WriteSave
    <3> QED
      BY <1>2, <3>1 DEF Draft
  <2>3. CASE WriteChecked
    <3>1. draft' = draft \/ draft' = Removed \/ draft' = [draft EXCEPT !.st = "open"]
      BY <2>3 DEF WriteChecked
    <3> QED
      BY <1>2, <3>1, RemovedIsLost DEF Draft
  <2>4. CASE WithdrawGoods
    BY <2>4, RemovedIsLost DEF WithdrawGoods
  <2> QED
    BY <2>1, <2>2, <2>3, <2>4 DEF EditDraft
<1> QED
  BY <1>1, <1>3, RowStays DEF NoneAsked, Active

LEMMA InitAsks == Init => OneAsked
BY DEF Init, OneAsked, Active, NewDraft

LEMMA StepAsks == ASSUME Typed, OneAsked, [Next]_vars PROVE OneAsked'
<1>1. ASSUME UNCHANGED <<task, draft>> PROVE OneAsked'
  BY <1>1, RowStays, NoneAskedKeeps
<1>2. ASSUME NEW w \in Wizards, Server(w) PROVE OneAsked'
  <2>1. CASE ServerAsk(w)
    BY <1>1, <2>1, ServerAskCases, CreatedAsks DEF Repeated
  <2>2. ASSUME NEW c \in calls[w] \cup late[w], Begin(w, c) \/ Refuse(w, c) PROVE OneAsked'
    BY <1>1, <2>2 DEF Begin, Refuse, stored
  <2> QED
    BY <1>2, <2>1, <2>2, CommitAsks, NoneAskedKeeps DEF Server
<1>3. CASE UNCHANGED vars
  BY <1>1, <1>3 DEF vars, stored
<1> QED
  BY <1>1, <1>2, <1>3, CashierFrame, BrowserFrame, DecisionAsks, EditAsks, NoneAskedKeeps
     DEF Next

\* Until its row is deleted, a draft has at most one undecided request
\* (request_credit_approval, which cancels the one it replaces).
THEOREM OneRequestAtATime == Spec => []OneRequestPerDraft
<1>1. Init => Typed /\ OneAsked
  BY InitTyped, InitAsks
<1>2. Typed /\ OneAsked /\ [Next]_vars => (Typed /\ OneAsked)'
  BY StepTyped, StepAsks
<1>3. OneAsked => OneRequestPerDraft
  BY DEF OneAsked, OneRequestPerDraft
<1> QED
  BY <1>1, <1>2, <1>3, PTL DEF Spec

=============================================================================
