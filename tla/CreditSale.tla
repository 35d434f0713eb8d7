------------------------------ MODULE CreditSale ------------------------------
(***************************************************************************)
(* A sale on credit at the point of sale: the checkout wizard              *)
(* (frontend SalesCheckoutWizardView), the approval task it asks for and   *)
(* polls, the endpoints pos_checkout and request_credit, and the draft     *)
(* cart the approval freezes.                                              *)
(*                                                                         *)
(* One customer and one draft, that one wizard after the other is mounted  *)
(* on.  A wizard sends its checkouts under an Idempotency-Key, which it    *)
(* renews when it is told of a sale; how a key is claimed, repeated and    *)
(* purged is module Idempotency, here it answers each body once.  An ask   *)
(* is a cart and the part of its total left unpaid.  The services of the   *)
(* draft read its row and write it in two steps, without a lock.           *)
(***************************************************************************)
EXTENDS Integers, FiniteSets

CONSTANTS
  Wizards,      \* checkout wizards, numbered as they are mounted
  Approvers,    \* those whose user has sales.approve_credit
  Carts,        \* contents of a cart, by snapshot hash
  Credits,      \* amounts a sale may leave unpaid
  Limit,        \* credit_limit of the customer
  Fallback,     \* largest credit given beyond the limit to who owes nothing
  Default,      \* the customer is the default one
  Blocked,      \* credit_blocked, or credit_auto_blocked and not the default one
  None,         \* null
  MaxTasks,     \* bound: approval tasks that may be created
  MaxKeys,      \* bound: keys a wizard makes
  MaxInFlight,  \* bound: different checkouts a wizard waits for
  MaxTurns      \* bound: how often something gets in the way (Turn)

ASSUME WizardAssumption == Wizards \subseteq Nat /\ Approvers \subseteq Wizards /\ None \notin Nat
ASSUME CreditAssumption == Credits \subseteq Nat /\ Limit \in Nat /\ Fallback \in Nat
ASSUME CustomerAssumption == Default \in BOOLEAN /\ Blocked \in BOOLEAN
ASSUME AskAssumption    == Carts # {} /\ Credits # {}
ASSUME BoundAssumption  == {MaxTasks, MaxInFlight, MaxTurns} \subseteq Nat /\ MaxKeys \in Nat \ {0}

VARIABLES
  wiz,     \* React state of each wizard
  key,     \* idempotencyKeyRef of each wizard
  calls,   \* checkouts each wizard waits an answer for
  late,    \* checkouts it gave up waiting for, that the server may still run
  told,    \* how often each wizard was answered with a sale
  ending,  \* answers whose handleCheckoutComplete has not come to its end
  asked,   \* the request_credit call of each wizard
  poll,    \* the task each wizard's interval asks about
  news,    \* a status that was read and has not been handled
  rec,     \* IdempotencyRecord and transaction of each key
  task,    \* the approval tasks
  draft,   \* the draft cart
  slot,    \* an operation on the draft that has not written yet
  turns,
  sales,   \* invoices
  debt     \* credit_balance_used of the customer

till   == <<key, late, told, ending>>
client == <<wiz, calls, asked, poll, news, till>>
stored == <<draft, slot>>
vars   == <<client, rec, task, stored, turns, sales, debt>>

Tasks == 1 .. MaxTasks  \* CREDIT_POS_REQUEST tasks, by id
Maybe == Tasks \cup {None}
Ask   == [cart: Carts, credit: Credits]
Keys  == 1 .. MaxKeys
Body  == [ask: Ask, task: Maybe, direct: BOOLEAN]
Call  == [key: Keys, body: Body]
Basis == {"task", "direct", "limit", "paid"}

Wizard == [at: {"idle", "open", "left"}, ask: Ask, sees: Nat, task: Maybe,
           waiting: BOOLEAN, approved: BOOLEAN, required: BOOLEAN, alarm: BOOLEAN]
Task   == [st: {"none", "PENDING", "COMPLETED", "REJECTED", "CANCELLED"},
           ask: Ask, spent: BOOLEAN]
NoRec  == [st |-> "absent"]
Rec    == {NoRec} \cup [st: {"running", "sold"}, body: Body, basis: Basis]
                  \cup [st: {"refused"}, body: Body, alarm: BOOLEAN]
NoAsk  == [st |-> "no"]
Asked  == {NoAsk} \cup [st: {"sent", "late"}, ask: Ask]
\* wizard_state of the draft: what a wizard opened on it starts from
Saved  == [credit: Credits, task: Maybe, waiting: BOOLEAN, approved: BOOLEAN]
\* lost: the row was deleted, perhaps to be written again by a save that had read it
Draft  == [st: {"open", "frozen", "gone"}, cart: Carts, saved: Saved, lost: BOOLEAN]
NoOp   == [op |-> "no"]
Slot   == {NoOp} \cup [op: {"delete", "thaw"}]
                 \cup [op: {"sent", "row", "state"}, cart: Carts, saved: Saved]

TypeOK ==
  /\ wiz   \in [Wizards -> Wizard]
  /\ key   \in [Wizards -> Keys]
  /\ calls \in [Wizards -> SUBSET Call] /\ late \in [Wizards -> SUBSET Call]
  /\ told  \in [Wizards -> Nat] /\ ending \in [Wizards -> Nat]
  /\ asked \in [Wizards -> Asked]
  /\ poll  \in [Wizards -> Maybe]
  /\ news  \in [Wizards -> {"no", "COMPLETED", "REFUSED"}]
  /\ rec   \in [Wizards -> [Keys -> Rec]]
  /\ task  \in [Tasks -> Task]
  /\ draft \in Draft /\ slot \in Slot
  /\ turns \in 0 .. MaxTurns
  /\ sales \subseteq [no: Nat, by: Wizards, key: Keys, body: Body, basis: Basis]
  /\ debt  \in Nat

-----------------------------------------------------------------------------
(* The wizard. *)

\* The cashier changes his mind, leaves while something is on its way, presses again
\* after the sale or saves; an answer is lost or late; a checkout fails for another
\* reason; another session works on the draft.
Turn == turns < MaxTurns /\ turns' = turns + 1

Is(w, at) == wiz[w].at = at

\* The next wizard may be mounted; the lease of the draft keeps it to one at a time.
Free(w) == Is(w, "idle") /\ \A v \in Wizards : ~Is(v, "open") /\ (Is(v, "idle") => w <= v)

\* The row of the draft.
Here == draft.st # "gone"

\* Variant: what is owed beyond the limit counts.
AvailableBelowZero == Limit - debt

\* credit_available
Available == IF debt < Limit THEN Limit - debt ELSE 0

\* No React state: before the wizard is mounted and after.
AnyAsk == CHOOSE a \in Ask : TRUE
Blank(at) == [at |-> at, ask |-> AnyAsk, sees |-> 0, task |-> None, waiting |-> FALSE,
              approved |-> FALSE, required |-> FALSE, alarm |-> FALSE]

\* The columns of the draft before a wizard was opened on it, or of none.
NewDraft == [st |-> "open", cart |-> AnyAsk.cart, lost |-> FALSE, saved |->
  [credit |-> AnyAsk.credit, task |-> None, waiting |-> FALSE, approved |-> FALSE]]

\* Variant: the poll of a restored wizard is never started.
OpenWithoutPoll(w) ==
  /\ Free(w) /\ Here
  /\ LET s == draft.saved IN
     /\ wiz' = [wiz EXCEPT ![w] =
                  [at |-> "open", ask |-> [cart |-> draft.cart, credit |-> s.credit],
                   sees |-> Available, task |-> s.task, waiting |-> s.waiting,
                   approved |-> s.approved, required |-> s.waiting \/ s.approved,
                   alarm |-> FALSE]]
     /\ poll' = [poll EXCEPT ![w] = None]
  /\ UNCHANGED <<calls, asked, news, till, rec, task, stored, turns, sales, debt>>

\* POSClientView mounts the wizard on the draft, with the state saved in it.
Open(w) ==
  /\ Free(w) /\ Here
  /\ LET s == draft.saved IN
     /\ wiz' = [wiz EXCEPT ![w] =
                  [at |-> "open", ask |-> [cart |-> draft.cart, credit |-> s.credit],
                   sees |-> Available, task |-> s.task, waiting |-> s.waiting,
                   approved |-> s.approved, required |-> s.waiting \/ s.approved,
                   alarm |-> FALSE]]
     /\ poll' = [poll EXCEPT ![w] = IF s.waiting THEN s.task ELSE None]
  /\ UNCHANGED <<calls, asked, news, till, rec, task, stored, turns, sales, debt>>

\* The payment step takes another amount; the panel is off while an approval is due.
Adjust(w, credit) ==
  /\ Turn
  /\ Is(w, "open")
  /\ (wiz[w].required \/ wiz[w].waiting) => wiz[w].approved
  /\ ~wiz[w].alarm
  /\ wiz' = [wiz EXCEPT ![w].ask.credit = credit]
  /\ UNCHANGED <<calls, asked, poll, news, till, rec, task, stored, sales, debt>>

BodyOf(w) == [ask |-> wiz[w].ask, task |-> wiz[w].task,
              direct |-> wiz[w].approved /\ wiz[w].task = None]

\* validateCurrentStep of the payment, on the credit the wizard saw when it opened.
NeedsApproval(w) ==
  wiz[w].task = None /\ ~wiz[w].approved /\ wiz[w].ask.credit > wiz[w].sees

\* handleFinish and executeCheckout, with the key of the moment.  The button stays
\* enabled while waiting, while loading and after the sale until the wizard unmounts.
Finish(w) ==
  LET c == [key |-> key[w], body |-> BodyOf(w)] IN
  /\ Is(w, "open")
  /\ \/ /\ NeedsApproval(w)
        /\ wiz' = [wiz EXCEPT ![w].required = TRUE]
        /\ UNCHANGED <<calls, turns>>
     \/ /\ ~NeedsApproval(w)
        /\ Cardinality(calls[w] \cup {c}) <= MaxInFlight
        /\ calls' = [calls EXCEPT ![w] = @ \cup {c}]
        /\ IF told[w] = 0 THEN UNCHANGED turns ELSE Turn
        /\ UNCHANGED wiz
  /\ UNCHANGED <<asked, poll, news, till, rec, task, stored, sales, debt>>

\* The wizard unmounts.  What it sent goes on, and is answered to nobody.
Unmount(w) ==
  /\ wiz'  = [wiz EXCEPT ![w] = Blank("left")]
  /\ poll' = [poll EXCEPT ![w] = None]
  /\ news' = [news EXCEPT ![w] = "no"]

\* A call is over.  Clicks that send the same meanwhile are one call.
Answered(w, c) == calls' = [calls EXCEPT ![w] = @ \ {c}]

\* executeCheckout got its sale: the key is renewed and onComplete called, also by a
\* wizard that was left.
Sold(w) ==
  /\ \E c \in calls[w] : /\ rec[w][c.key].st = "sold" /\ rec[w][c.key].body = c.body
                         /\ Answered(w, c)
  /\ key[w] < MaxKeys /\ key' = [key EXCEPT ![w] = @ + 1]
  /\ told'   = [told EXCEPT ![w] = @ + 1]
  /\ ending' = [ending EXCEPT ![w] = @ + 1]
  /\ UNCHANGED <<wiz, late, asked, poll, news, rec, task, stored, turns, sales, debt>>

\* handleCheckoutComplete comes to setCurrentDraftId(null), after its awaits: whatever
\* wizard its tab has by then is unmounted.
Completes(w) ==
  /\ ending[w] > 0 /\ ending' = [ending EXCEPT ![w] = @ - 1]
  /\ \/ \E v \in Wizards : Is(v, "open") /\ Unmount(v)
     \/ ~Is(w, "open") /\ UNCHANGED <<wiz, poll, news>>
  /\ UNCHANGED <<calls, asked, key, late, told, rec, task, stored, turns, sales, debt>>

\* Variant: the key is renewed after a failure as after a sale.
FailsWithFreshKey(w, c, alarm) ==
  /\ key[w] < MaxKeys /\ key' = [key EXCEPT ![w] = @ + 1]
  /\ Answered(w, c)
  /\ wiz' = IF ~Is(w, "open") THEN wiz
            ELSE IF alarm THEN [wiz EXCEPT ![w].alarm = TRUE]
            ELSE IF c.body.task # None
              THEN [wiz EXCEPT ![w].task = None, ![w].waiting = FALSE]
            ELSE wiz
  /\ UNCHANGED <<asked, poll, news, told, ending, rec, task, stored, sales, debt>>

\* The catch of executeCheckout: a security message blocks the wizard, any
\* other error drops the approval the body carried.  The key stays.
Fails(w, c, alarm) ==
  /\ Answered(w, c)
  /\ wiz' = IF ~Is(w, "open") THEN wiz
            ELSE IF alarm THEN [wiz EXCEPT ![w].alarm = TRUE]
            ELSE IF c.body.task # None
              THEN [wiz EXCEPT ![w].task = None, ![w].waiting = FALSE]
            ELSE wiz
  /\ UNCHANGED <<asked, poll, news, key, told, ending, rec, task, stored, sales, debt>>

Refused(w)  == \E c \in calls[w] : LET r == rec[w][c.key] IN
                 r.st = "refused" /\ r.body = c.body /\ Fails(w, c, r.alarm)
                 /\ UNCHANGED <<turns, late>>
\* 409: the key was used with another body.
Mismatch(w) == \E c \in calls[w] : LET r == rec[w][c.key] IN
                 r # NoRec /\ r.body # c.body /\ Fails(w, c, FALSE)
                 /\ UNCHANGED <<turns, late>>
\* No answer in 15 s, or 425 five times.  A request that was not served yet may be later.
TimesOut(w) == \E c \in calls[w] :
  /\ Turn
  /\ Fails(w, c, FALSE)
  /\ late' = [late EXCEPT ![w] = IF rec[w][c.key] = NoRec THEN @ \cup {c} ELSE @]

Acknowledge(w) ==
  /\ Is(w, "open") /\ wiz[w].alarm
  /\ wiz' = [wiz EXCEPT ![w].alarm = FALSE, ![w].task = None, ![w].approved = FALSE,
                        ![w].waiting = FALSE, ![w].required = FALSE]
  /\ UNCHANGED <<calls, asked, poll, news, till, rec, task, stored, turns, sales, debt>>

\* cancelApprovalRequest and handleBack: the server is not told.
Withdraw(w) ==
  /\ Turn
  /\ Is(w, "open")
  /\ wiz' = [wiz EXCEPT ![w].waiting = FALSE, ![w].task = None, ![w].required = FALSE]
  /\ poll' = [poll EXCEPT ![w] = None]
  /\ UNCHANGED <<calls, asked, news, till, rec, task, stored, sales, debt>>

\* handleDirectApproval: the card offers it to who has the permission.
ApproveDirectly(w) ==
  /\ Is(w, "open") /\ w \in Approvers
  /\ wiz[w].required /\ ~wiz[w].waiting /\ ~wiz[w].approved
  /\ wiz' = [wiz EXCEPT ![w].approved = TRUE, ![w].required = FALSE]
  /\ UNCHANGED <<calls, asked, poll, news, till, rec, task, stored, turns, sales, debt>>

\* handleRequestApproval, from the card that says an approval is required.
RequestApproval(w) ==
  /\ Is(w, "open")
  /\ wiz[w].required /\ ~wiz[w].waiting /\ ~wiz[w].approved
  /\ asked[w].st # "sent"
  /\ wiz' = [wiz EXCEPT ![w].waiting = TRUE]
  /\ asked' = [asked EXCEPT ![w] = [st |-> "sent", ask |-> wiz[w].ask]]
  /\ UNCHANGED <<calls, poll, news, till, rec, task, stored, turns, sales, debt>>

\* request_credit was not answered in time; the server may still run it, and is not
\* asked what it did.
AskFails(w) ==
  /\ Turn
  /\ asked[w].st = "sent" /\ asked' = [asked EXCEPT ![w].st = "late"]
  /\ wiz' = IF Is(w, "open") THEN [wiz EXCEPT ![w].waiting = FALSE] ELSE wiz
  /\ UNCHANGED <<calls, poll, news, till, rec, task, stored, sales, debt>>

\* request_credit answers who still waits for it, also after the cashier withdrew.
AskEnds(w, t) ==
  LET heard == asked[w].st = "sent" /\ Is(w, "open") IN
  /\ asked' = [asked EXCEPT ![w] = NoAsk]
  /\ wiz'  = IF heard THEN [wiz EXCEPT ![w].task = t] ELSE wiz
  /\ poll' = IF heard THEN [poll EXCEPT ![w] = t] ELSE poll

\* checkApprovalStatus reads the task; PENDING changes nothing.
Poll(w) ==
  /\ poll[w] # None /\ news[w] = "no"
  /\ task[poll[w]].st # "PENDING"
  /\ news' = [news EXCEPT ![w] =
                IF task[poll[w]].st = "COMPLETED" THEN "COMPLETED" ELSE "REFUSED"]
  /\ UNCHANGED <<wiz, calls, asked, poll, till, rec, task, stored, turns, sales, debt>>

\* ... and its answer is handled, whatever the wizard waits for by then.
Handle(w) ==
  /\ news[w] # "no"
  /\ news' = [news EXCEPT ![w] = "no"]
  /\ poll' = [poll EXCEPT ![w] = None]
  /\ wiz' = IF news[w] = "COMPLETED"
              THEN [wiz EXCEPT ![w].waiting = FALSE, ![w].approved = TRUE]
              ELSE [wiz EXCEPT ![w].waiting = FALSE, ![w].task = None]
  /\ UNCHANGED <<calls, asked, till, rec, task, stored, turns, sales, debt>>

\* "Volver al carrito", also while a checkout is on its way; and the end of
\* handleSuspendDraft, which saves the draft before.
Leave(w) ==
  /\ Is(w, "open")
  /\ IF calls[w] = {} /\ asked[w].st # "sent" THEN UNCHANGED turns ELSE Turn
  /\ Unmount(w)
  /\ UNCHANGED <<calls, asked, till, rec, task, stored, sales, debt>>

\* saveDraft sends the lines and the state of the wizard: two seconds after they
\* changed, or when the draft is suspended.
SendSave(w) ==
  /\ Turn
  /\ Is(w, "open") /\ slot = NoOp
  /\ slot' = [op |-> "sent", cart |-> wiz[w].ask.cart, saved |->
        [credit |-> wiz[w].ask.credit, task |-> wiz[w].task,
         waiting |-> wiz[w].waiting, approved |-> wiz[w].approved]]
  /\ UNCHANGED <<client, rec, task, draft, sales, debt>>

-----------------------------------------------------------------------------
(* The server. *)

Active(t) == task[t].st = "PENDING"

\* A task for what w asked, with the draft frozen for it; what it replaces is cancelled.
NewTask(w, replaced) ==
  /\ \E t \in Tasks :
       /\ task[t].st = "none" /\ \A u \in 1 .. t - 1 : task[u].st # "none"
       /\ task' = [u \in Tasks |->
            IF u = t THEN [st |-> "PENDING", ask |-> asked[w].ask, spent |-> FALSE]
            ELSE IF u \in replaced THEN [task[u] EXCEPT !.st = "CANCELLED"] ELSE task[u]]
       /\ AskEnds(w, t)
  /\ draft' = IF Here THEN [draft EXCEPT !.st = "frozen"] ELSE draft

\* Variant: a task of another cart is not cancelled.
ServerAskKeepsOld(w) ==
  LET pending == {t \in Tasks : Here /\ Active(t)}
      same(t) == task[t].ask.cart = asked[w].ask.cart IN
  /\ asked[w] # NoAsk
  /\ \/ \E t \in pending : same(t) /\ AskEnds(w, t) /\ UNCHANGED <<task, draft>>
     \/ \E t \in pending : ~same(t) /\ NewTask(w, {})
     \/ pending = {} /\ NewTask(w, {})
  /\ UNCHANGED <<calls, news, till, slot, rec, turns, sales, debt>>

\* request_credit_approval, under the lock of the draft's row.  One active task of the
\* draft is looked up: of the same cart it is the answer, of another it is cancelled.
\* Without a row, nothing is looked up.
ServerAsk(w) ==
  LET pending == {t \in Tasks : Here /\ Active(t)}
      same(t) == task[t].ask.cart = asked[w].ask.cart IN
  /\ asked[w] # NoAsk
  /\ \/ \E t \in pending : same(t) /\ AskEnds(w, t) /\ UNCHANGED <<task, draft>>
     \/ \E t \in pending : ~same(t) /\ NewTask(w, {t})
     \/ pending = {} /\ NewTask(w, {})
  /\ UNCHANGED <<calls, news, till, slot, rec, turns, sales, debt>>

\* complete_task: handle_task_update only notifies.
Complete(t) ==
  /\ Active(t)
  /\ task' = [task EXCEPT ![t].st = "COMPLETED"]
  /\ UNCHANGED <<client, rec, stored, turns, sales, debt>>

\* reject_task: handle_task_update clears has_pending_approval.
Reject(t) ==
  /\ Active(t)
  /\ task' = [task EXCEPT ![t].st = "REJECTED"]
  /\ draft' = IF draft.st = "frozen" THEN [draft EXCEPT !.st = "open"] ELSE draft
  /\ UNCHANGED <<client, rec, slot, turns, sales, debt>>

\* Variant: the task is read without select_for_update.
NeverHeld(t) == FALSE

\* The checkout of another wizard that holds the row of this task until it commits.
Held(t) == \E v \in Wizards, k \in Keys : /\ rec[v][k].st = "running"
                                          /\ rec[v][k].basis = "task"
                                          /\ rec[v][k].body.task = t

\* _pos_checkout_internal, lines 999-1116: what covers the unpaid part.
Covers(w, b, basis) ==
  LET t == b.task
      direct == b.direct /\ w \in Approvers IN
  CASE basis = "task"   -> /\ t # None
                           /\ task[t].st = "COMPLETED" /\ ~task[t].spent
                           /\ b.ask.credit <= task[t].ask.credit
                           /\ b.ask.cart = task[t].ask.cart
    [] basis = "direct" -> t = None /\ direct
    [] basis = "limit"  -> /\ t = None /\ ~direct /\ b.ask.credit > 0 /\ ~Blocked
                           /\ \/ b.ask.credit <= Available
                              \/ (debt = 0 \/ Default) /\ b.ask.credit <= Fallback
    [] basis = "paid"   -> t = None /\ ~direct /\ b.ask.credit = 0

\* "Seguridad:" and "Intento de aumento de credito".
Alarming(b) == LET t == b.task IN
  /\ t # None
  /\ task[t].st = "COMPLETED"
  /\ task[t].spent \/ b.ask.credit > task[t].ask.credit

\* The request takes the key; the transaction holds the lock of the task's row and
\* has checked the credit, on what was committed by then.
Begin(w, c) ==
  /\ c \in calls[w] \cup late[w] /\ rec[w][c.key] = NoRec
  /\ c.body.task # None => ~Held(c.body.task)
  /\ \E basis \in Basis :
       /\ Covers(w, c.body, basis)
       /\ rec' = [rec EXCEPT ![w][c.key] = [st |-> "running", body |-> c.body, basis |-> basis]]
  /\ UNCHANGED <<client, task, stored, turns, sales, debt>>

\* A ValidationError: the 400 is the stored answer of the key.  Stock, folio, PIN and
\* the rest of the checkout may refuse what the credit covers.
Refuse(w, c) ==
  /\ c \in calls[w] \cup late[w] /\ rec[w][c.key] = NoRec
  /\ c.body.task # None => ~Held(c.body.task)
  /\ IF \E basis \in Basis : Covers(w, c.body, basis)
       THEN Turn
       ELSE UNCHANGED turns
  /\ rec' = [rec EXCEPT ![w][c.key] =
               [st |-> "refused", body |-> c.body, alarm |-> Alarming(c.body)]]
  /\ UNCHANGED <<client, task, stored, sales, debt>>

\* The row is deleted.
Removed == [NewDraft EXCEPT !.st = "gone", !.lost = TRUE]

\* Sale, invoice, draft removed, approval marked as consumed, answer stored.
Commit(w, k) ==
  LET r == rec[w][k] IN
  /\ r.st = "running"
  /\ rec' = [rec EXCEPT ![w][k].st = "sold"]
  /\ sales' = sales \cup {[no |-> Cardinality(sales) + 1, by |-> w, key |-> k,
                           body |-> r.body, basis |-> r.basis]}
  /\ debt' = debt + r.body.ask.credit
  /\ draft' = Removed
  /\ task' = IF r.basis = "task" THEN [task EXCEPT ![r.body.task].spent = TRUE] ELSE task
  /\ UNCHANGED <<client, slot, turns>>

-----------------------------------------------------------------------------
(* The draft and its services, for the wizard and for the other sessions   *)
(* that list it.  One of these operations at a time.                       *)

\* What save_draft found the row to be: a frozen one takes the state alone, and no
\* other lines.
Reads(c, saved) ==
  CASE draft.st = "open"                          -> [op |-> "row", cart |-> c, saved |-> saved]
    [] draft.st = "frozen" /\ draft.cart = c     -> [op |-> "state", cart |-> c, saved |-> saved]
    [] draft.st = "frozen" /\ draft.cart # c     -> NoOp
    [] draft.st = "gone"                          -> NoOp

\* save_draft reads the row for the wizard, or for another session, with other lines.
ReadForSave ==
  /\ slot.op = "sent" /\ slot' = Reads(slot.cart, slot.saved)
  /\ UNCHANGED <<client, rec, task, draft, turns, sales, debt>>

ReadForOther ==
  /\ Turn /\ slot = NoOp
  /\ \E c \in Carts : slot' = Reads(c, draft.saved)
  /\ UNCHANGED <<client, rec, task, draft, sales, debt>>

\* ... and writes: every column, has_pending_approval as it was read, into a row that
\* is made again when it was deleted; or wizard_state alone.
WriteSave ==
  /\ slot.op \in {"row", "state"} /\ slot' = NoOp
  /\ draft' = CASE slot.op = "row" ->
                     [draft EXCEPT !.st = "open", !.cart = slot.cart, !.saved = slot.saved]
                [] slot.op = "state" /\ Here  -> [draft EXCEPT !.saved = slot.saved]
                [] slot.op = "state" /\ ~Here -> draft
  /\ UNCHANGED <<client, rec, task, turns, sales, debt>>

\* delete_draft, and the clean-up when the session closes or the draft is a day
\* old; cleanup_stale_pending_approvals.
CheckDraft ==
  /\ Turn /\ slot = NoOp
  /\ \/ draft.st = "open" /\ slot' = [op |-> "delete"]
     \/ /\ draft.st = "frozen" /\ \A t \in Tasks : ~Active(t)
        /\ slot' = [op |-> "thaw"]
  /\ UNCHANGED <<client, rec, task, draft, sales, debt>>

\* ... which do what they found allowed, on the row as it is by then.
WriteChecked ==
  /\ slot.op \in {"delete", "thaw"} /\ slot' = NoOp
  /\ draft' = CASE ~Here                     -> draft
                [] Here /\ slot.op = "delete" -> Removed
                [] Here /\ slot.op = "thaw"   -> [draft EXCEPT !.st = "open"]
  /\ UNCHANGED <<client, rec, task, turns, sales, debt>>

\* process_withdrawal: the goods go to a partner, and the draft is deleted, frozen or not.
WithdrawGoods ==
  /\ Turn /\ Here
  /\ draft' = Removed
  /\ UNCHANGED <<client, slot, rec, task, sales, debt>>

EditDraft ==
  ReadForOther \/ ReadForSave \/ WriteSave \/ CheckDraft \/ WriteChecked \/ WithdrawGoods

-----------------------------------------------------------------------------
Init ==
  /\ wiz   = [w \in Wizards |-> Blank("idle")]
  /\ \E m \in Credits : draft = [NewDraft EXCEPT !.saved.credit = m]
  /\ task  = [t \in Tasks |-> [st |-> "none", ask |-> AnyAsk, spent |-> FALSE]]
  /\ slot  = NoOp
  /\ key = [w \in Wizards |-> 1]
  /\ told = [w \in Wizards |-> 0] /\ ending = [w \in Wizards |-> 0]
  /\ calls = [w \in Wizards |-> {}] /\ late = [w \in Wizards |-> {}]
  /\ asked = [w \in Wizards |-> NoAsk]
  /\ poll  = [w \in Wizards |-> None]
  /\ news  = [w \in Wizards |-> "no"]
  /\ rec   = [w \in Wizards |-> [k \in Keys |-> NoRec]]
  /\ turns = 0
  /\ sales = {} /\ debt = 0

Cashier(w) ==
  \/ Open(w) \/ Finish(w) \/ Acknowledge(w) \/ Withdraw(w) \/ ApproveDirectly(w)
  \/ RequestApproval(w) \/ Leave(w) \/ SendSave(w)
  \/ \E m \in Credits : Adjust(w, m)

Browser(w) ==
  \/ Sold(w) \/ Completes(w) \/ Refused(w) \/ Mismatch(w) \/ TimesOut(w) \/ AskFails(w)
  \/ Poll(w) \/ Handle(w)

Server(w) ==
  \/ ServerAsk(w)
  \/ \E k \in Keys : Commit(w, k)
  \/ \E c \in calls[w] \cup late[w] : Begin(w, c) \/ Refuse(w, c)

Next ==
  \/ \E w \in Wizards : Cashier(w) \/ Browser(w) \/ Server(w)
  \/ \E t \in Tasks : Complete(t) \/ Reject(t)
  \/ EditDraft

\* The interval ticks every 5 s while it is set, and a read that was made is handled.
\* Requests are answered or time out; cashiers and supervisors may do nothing.
Fairness == \A w \in Wizards : WF_<<poll, news>>(Poll(w) \/ Handle(w))

Spec == Init /\ [][Next]_vars /\ Fairness

-----------------------------------------------------------------------------
(* Properties. *)

\* A sale on credit stands on something that covers it: an approval the supervisor gave
\* for this cart and no less than this amount, that no other sale used; a user
\* with the permission; or the customer's own credit.  An approval that two
\* checkouts race for, or that is replayed on another cart, is money lent by nobody.
CreditIsBacked ==
  /\ \A s \in sales :
       LET b == s.body IN
       CASE s.basis = "task"   -> /\ task[b.task].st = "COMPLETED"
                                  /\ task[b.task].ask.cart = b.ask.cart
                                  /\ b.ask.credit <= task[b.task].ask.credit
         [] s.basis = "direct" -> s.by \in Approvers
         [] s.basis = "limit"  -> ~Blocked /\ (b.ask.credit <= Limit \/ b.ask.credit <= Fallback)
         [] s.basis = "paid"   -> b.ask.credit = 0
  /\ \A s1, s2 \in sales :
       s1.basis = "task" /\ s2.basis = "task" /\ s1.body.task = s2.body.task => s1 = s2

\* However often a wizard sends its checkout, after answers lost, refused or late, and
\* with whatever it sends the next time, it has made at most one sale more than its
\* cashier was told of: who presses again because he saw no sale makes no second one.
OneSaleUntilTold ==
  \A w \in Wizards : Cardinality({s \in sales : s.by = w}) <= told[w] + 1

\* As long as the row of the draft was never deleted, the supervisor has at most one
\* request of it to decide, whatever carts were asked for and whoever asked.
OneRequestPerDraft ==
  ~draft.lost => \A t, u \in Tasks : Active(t) /\ Active(u) => t = u

\* A wizard does not wait forever for a task the supervisor has decided.
WaitsInVain(w) == /\ Is(w, "open") /\ wiz[w].waiting
                  /\ wiz[w].task # None
                  /\ ~Active(wiz[w].task)

WaitEnds == \A w \in Wizards : []<>~WaitsInVain(w)

\* docs/20-contracts/idempotency.md:101: "Tras una respuesta se genera otra clave": a
\* refusal is the last answer of its key, and the next checkout may be accepted.
AnswerEndsKey == [][\A w \in Wizards : Refused(w) => key'[w] # key[w]]_vars

\* docs/20-contracts/idempotency.md:94: "El componente genera el key UNA vez por
\* intención (ref) y lo reusa en retries": a wizard on a draft sells it once.
OneSalePerWizard == \A s1, s2 \in sales : s1.by = s2.by => s1 = s2

\* draft_cart_service.py:445: "Si tiene una aprobación de crédito pendiente, rechaza la
\* eliminación": while the supervisor decides, the draft is there and frozen, or sold.
PendingKeepsDraft ==
  (\E t \in Tasks : Active(t)) => draft.st = "frozen" \/ sales # {}

=============================================================================
