------------------------- MODULE Idempotency_proofs -------------------------
(* Proofs about Idempotency, for every set of callers, keys and bodies. *)
EXTENDS Idempotency, TLAPS

-----------------------------------------------------------------------------
(* The inductive invariant.  TypeOK alone is not inductive: that the record a *)
(* request writes its answer to still exists is OneBodyPerKey.               *)

\* What a DONE record stores is the answer of the caller that committed it.
DoneIsCommitted ==
  \A k \in Keys : rec[k].st = "done" =>
    LET d == rec[k].resp IN
    /\ d \in Callers
    /\ caller[d].at = "answered" /\ caller[d].resp = d
    /\ caller[d].key = k /\ caller[d].body = rec[k].body

IInv == TypeOK /\ OneBodyPerKey /\ DoneIsCommitted /\ AnswersAreCommitted

\* A row that is in the table has the columns of IdempotencyRecord.
LEMMA PresentIsRecord ==
  ASSUME TypeOK, NEW k \in Keys, rec[k].st # "absent"
  PROVE  rec[k] \in Record
BY DEF TypeOK, Absent

\* No request writes to a record that is not there.
LEMMA WorkingIsPresent ==
  ASSUME TypeOK, OneBodyPerKey,
         NEW c \in Callers, caller[c].at \in {"exec", "failed"}
  PROVE  /\ rec[caller[c].key] \in Record
         /\ rec[caller[c].key].st # "absent"
         /\ rec[caller[c].key].body = caller[c].body
<1>1. caller[c].key \in Keys
  BY DEF TypeOK, Caller
<1>2. rec[caller[c].key].st # "absent" /\ rec[caller[c].key].body = caller[c].body
  BY DEF OneBodyPerKey
<1> QED BY <1>1, <1>2, PresentIsRecord

\* What moving on and answering change of the callers.
LEMMA GotoEffect ==
  ASSUME TypeOK, NEW c \in Callers, NEW stage, Goto(c, stage)
  PROVE  /\ caller'[c].at = stage
         /\ caller'[c].key = caller[c].key
         /\ caller'[c].body = caller[c].body
         /\ caller'[c].resp = caller[c].resp
         /\ \A d \in Callers : d # c => caller'[d] = caller[d]
<1>1. caller \in [Callers -> Caller]
  BY DEF TypeOK
<1>2. caller'[c] = [caller[c] EXCEPT !.at = stage]
  BY <1>1 DEF Goto
<1>3. \A d \in Callers : d # c => caller'[d] = caller[d]
  BY <1>1 DEF Goto
<1>4. caller[c] \in [at: Stage, key: Keys, body: Bodies, resp: Callers \cup {None}]
  BY <1>1 DEF Caller
<1> QED BY <1>2, <1>3, <1>4

LEMMA AnswerEffect ==
  ASSUME TypeOK, NEW c \in Callers, NEW resp, Answer(c, resp)
  PROVE  /\ caller'[c].at = "answered"
         /\ caller'[c].key = caller[c].key
         /\ caller'[c].body = caller[c].body
         /\ caller'[c].resp = resp
         /\ \A d \in Callers : d # c => caller'[d] = caller[d]
<1>1. caller \in [Callers -> Caller]
  BY DEF TypeOK
<1>2. caller'[c] = [caller[c] EXCEPT !.at = "answered", !.resp = resp]
  BY <1>1 DEF Answer
<1>3. \A d \in Callers : d # c => caller'[d] = caller[d]
  BY <1>1 DEF Answer
<1>4. caller[c] \in [at: Stage, key: Keys, body: Bodies, resp: Callers \cup {None}]
  BY <1>1 DEF Caller
<1> QED BY <1>2, <1>3, <1>4

LEMMA PurgeEffect ==
  ASSUME TypeOK, NEW k \in Keys, Purge(k), NEW c \in Callers
  PROVE  /\ caller'[c].key = caller[c].key
         /\ caller'[c].body = caller[c].body
         /\ \/ caller'[c] = caller[c]
               /\ ~ (caller[c].key = k /\ caller[c].at \in {"exec", "failed"})
            \/ /\ caller'[c].at = "lost"
               /\ caller[c].key = k /\ caller[c].at \in {"exec", "failed"}
<1>1. caller[c] \in [at: Stage, key: Keys, body: Bodies, resp: Callers \cup {None}]
  BY DEF TypeOK, Caller
<1>2. caller'[c] = IF caller[c].key = k /\ caller[c].at \in {"exec", "failed"}
                   THEN [caller[c] EXCEPT !.at = "lost"] ELSE caller[c]
  BY DEF Purge
<1> QED BY <1>1, <1>2

LEMMA InitIInv == Init => IInv
BY CrashAssumption, NoneAssumption
DEF Init, IInv, TypeOK, OneBodyPerKey, DoneIsCommitted, AnswersAreCommitted,
    Caller, Stage, Absent

\* A step keeps the types, given the invariant before it.
LEMMA TypeStep == IInv /\ [Next]_vars => TypeOK'
<1> SUFFICES ASSUME IInv, [Next]_vars PROVE TypeOK'
  OBVIOUS
<1> USE DEF IInv, TypeOK, Caller, Stage, Goto, Answer
<1>1. ASSUME NEW c \in Callers, Insert(c) PROVE TypeOK'
  BY <1>1 DEF Insert, Record
<1>2. ASSUME NEW c \in Callers, Conflict(c) PROVE TypeOK'
  BY <1>2 DEF Conflict
<1>3. ASSUME NEW c \in Callers, Lookup(c) PROVE TypeOK'
  <2>1. rec[caller[c].key].st = "done" => rec[caller[c].key].resp \in Callers
    BY DEF DoneIsCommitted
  <2> QED BY <1>3, <2>1 DEF Lookup
<1>4. ASSUME NEW c \in Callers, Respond(c) PROVE TypeOK'
  <2>1. rec[caller[c].key] \in Record
    BY <1>4, WorkingIsPresent DEF Respond
  <2>2. [rec[caller[c].key] EXCEPT !.st = "done", !.resp = c] \in Record
    BY <2>1 DEF Record
  <2>3. rec' \in [Keys -> Record \cup {Absent}]
    BY <1>4, <2>2 DEF Respond
  <2>4. caller' \in [Callers -> Caller]
    BY <1>4 DEF Respond
  <2>5. applied' \in [Keys -> SUBSET Callers] /\ crashes' \in 0 .. MaxCrashes
    BY <1>4 DEF Respond
  <2> QED BY <2>3, <2>4, <2>5
<1>5. ASSUME NEW c \in Callers, Raise(c) PROVE TypeOK'
  BY <1>5 DEF Raise
<1>6. ASSUME NEW c \in Callers, MarkError(c) PROVE TypeOK'
  <2>1. rec[caller[c].key] \in Record
    BY <1>6, WorkingIsPresent DEF MarkError
  <2>2. [rec[caller[c].key] EXCEPT !.st = "error"] \in Record
    BY <2>1 DEF Record
  <2>3. rec' \in [Keys -> Record \cup {Absent}]
    BY <1>6, <2>2 DEF MarkError
  <2> QED BY <1>6, <2>3 DEF MarkError
<1>7. ASSUME NEW c \in Callers, Crash(c) PROVE TypeOK'
  BY <1>7, CrashAssumption DEF Crash
<1>8. ASSUME NEW k \in Keys, Minute(k) PROVE TypeOK'
  <2>1. [rec[k] EXCEPT !.age = "stale"] \in Record
    BY <1>8, PresentIsRecord DEF Minute, Record
  <2> QED BY <1>8, <2>1 DEF Minute
<1>9. ASSUME NEW k \in Keys, Day(k) PROVE TypeOK'
  <2>1. [rec[k] EXCEPT !.age = "expired"] \in Record
    BY <1>9, PresentIsRecord DEF Day, Record
  <2> QED BY <1>9, <2>1 DEF Day
<1>10. ASSUME NEW k \in Keys, Purge(k) PROVE TypeOK'
  <2>1. \A c \in Callers : [caller[c] EXCEPT !.at = "lost"] \in Caller
    OBVIOUS
  <2> QED BY <1>10, <2>1 DEF Purge
<1>11. ASSUME NEW c \in Callers, Vanished(c) PROVE TypeOK'
  BY <1>11 DEF Vanished
<1>12. CASE UNCHANGED vars
  BY <1>12 DEF vars
<1> QED
  BY <1>1, <1>2, <1>3, <1>4, <1>5, <1>6, <1>7, <1>8, <1>9, <1>10, <1>11, <1>12
  DEF Next, Attempt

\* A record covers executions of one body only: a key is matched with the body
\* before the view runs, and a purge waits for whoever works on the record.
LEMMA BodyStep == IInv /\ [Next]_vars => OneBodyPerKey'
<1> SUFFICES ASSUME IInv, [Next]_vars PROVE OneBodyPerKey'
  OBVIOUS
<1> USE DEF IInv, OneBodyPerKey, Goto, Answer
<1>t. /\ \A c \in Callers : caller[c] \in Caller
      /\ \A c \in Callers : caller[c].key \in Keys
      /\ DOMAIN caller = Callers /\ DOMAIN rec = Keys /\ DOMAIN applied = Keys
      /\ caller = [c \in Callers |-> caller[c]]
      /\ rec = [k \in Keys |-> rec[k]]
  BY DEF TypeOK, Caller
<1>1. ASSUME NEW c \in Callers, Insert(c) PROVE OneBodyPerKey'
  BY <1>1, <1>t DEF Insert, Caller
<1>2. ASSUME NEW c \in Callers, Conflict(c) PROVE OneBodyPerKey'
  BY <1>2, <1>t DEF Conflict, Caller
<1>3. ASSUME NEW c \in Callers, Lookup(c) PROVE OneBodyPerKey'
  BY <1>3, <1>t DEF Lookup, Caller
<1>4. ASSUME NEW c \in Callers, Respond(c) PROVE OneBodyPerKey'
  <2>1. rec[caller[c].key] \in Record
    BY <1>4, WorkingIsPresent DEF Respond
  <2>2. \A k \in Keys : rec[k].st # "absent" =>
          rec'[k].st # "absent" /\ rec'[k].body = rec[k].body
    BY <1>4, <1>t, <2>1 DEF Respond, Record
  <2>3. \A d \in Callers : caller'[d].key = caller[d].key
                           /\ caller'[d].body = caller[d].body
                           /\ (d # c => caller'[d].at = caller[d].at)
    BY <1>4, <1>t DEF Respond, Caller
  <2>4. \A d \in Callers : d # c =>
          (d \in applied'[caller[d].key] <=> d \in applied[caller[d].key])
    BY <1>4, <1>t DEF Respond
  <2>5. ASSUME NEW d \in Callers, d \in applied'[caller'[d].key]
               \/ caller'[d].at \in {"exec", "failed"}
        PROVE  d \in applied[caller[d].key] \/ caller[d].at \in {"exec", "failed"}
    BY <1>4, <2>3, <2>4, <2>5 DEF Respond
  <2> QED BY <1>t, <2>2, <2>3, <2>5
<1>5. ASSUME NEW c \in Callers, Raise(c) PROVE OneBodyPerKey'
  BY <1>5, <1>t DEF Raise, Caller
<1>6. ASSUME NEW c \in Callers, MarkError(c) PROVE OneBodyPerKey'
  <2>1. rec[caller[c].key] \in Record
    BY <1>6, WorkingIsPresent DEF MarkError
  <2>2. \A k \in Keys : rec[k].st # "absent" =>
          rec'[k].st # "absent" /\ rec'[k].body = rec[k].body
    BY <1>6, <1>t, <2>1 DEF MarkError, Record
  <2> QED BY <1>6, <1>t, <2>2 DEF MarkError, Caller
<1>7. ASSUME NEW c \in Callers, Crash(c) PROVE OneBodyPerKey'
  BY <1>7, <1>t DEF Crash, Caller
<1>8. ASSUME NEW k \in Keys, Minute(k) PROVE OneBodyPerKey'
  BY <1>8, <1>t, PresentIsRecord DEF Minute, Record
<1>9. ASSUME NEW k \in Keys, Day(k) PROVE OneBodyPerKey'
  BY <1>9, <1>t, PresentIsRecord DEF Day, Record
<1>10. ASSUME NEW k \in Keys, Purge(k) PROVE OneBodyPerKey'
  <2>1. /\ \A c \in Callers : /\ caller'[c].key = caller[c].key
                              /\ caller'[c].body = caller[c].body
        /\ \A c \in Callers : caller'[c].at \in {"exec", "failed"} =>
             caller[c].key # k /\ caller[c].at \in {"exec", "failed"}
    BY <1>10, <1>t, PurgeEffect
  <2>2. applied'[k] = {}
        /\ \A j \in Keys : j # k => rec'[j] = rec[j] /\ applied'[j] = applied[j]
    BY <1>10, <1>t DEF Purge
  <2> QED BY <1>t, <2>1, <2>2
<1>11. ASSUME NEW c \in Callers, Vanished(c) PROVE OneBodyPerKey'
  BY <1>11, <1>t DEF Vanished, Caller
<1>12. CASE UNCHANGED vars
  BY <1>12 DEF vars
<1> QED
  BY <1>1, <1>2, <1>3, <1>4, <1>5, <1>6, <1>7, <1>8, <1>9, <1>10, <1>11, <1>12
  DEF Next, Attempt

\* DONE is written once: a stored answer stays a committed answer.
LEMMA DoneStep == IInv /\ [Next]_vars => DoneIsCommitted' /\ AnswersAreCommitted'
<1> SUFFICES ASSUME IInv, [Next]_vars PROVE DoneIsCommitted' /\ AnswersAreCommitted'
  OBVIOUS
<1> DEFINE Goal == DoneIsCommitted' /\ AnswersAreCommitted'
<1>t. /\ TypeOK
      /\ rec \in [Keys -> Record \cup {Absent}]
      /\ \A c \in Callers : caller[c].key \in Keys
      /\ OneBodyPerKey /\ DoneIsCommitted /\ AnswersAreCommitted
  BY DEF IInv, TypeOK, Caller
\* A caller without an answer moves and gets none; no record turns DONE.
<1>g. ASSUME NEW c \in Callers, NEW stage, stage # "answered",
             caller[c].at # "answered", Goto(c, stage),
             \A k \in Keys : rec'[k].st = "done" => rec'[k] = rec[k]
      PROVE  Goal
  <2>1. DoneIsCommitted'
    BY <1>t, <1>g, GotoEffect DEF DoneIsCommitted
  <2>2. AnswersAreCommitted'
    BY <1>t, <1>g, GotoEffect DEF AnswersAreCommitted
  <2> QED BY <2>1, <2>2
\* Time passes over the records.
<1>m. ASSUME UNCHANGED caller,
             \A k \in Keys : rec'[k].st = "done" =>
               /\ rec[k].st = "done"
               /\ rec'[k].resp = rec[k].resp
               /\ rec'[k].body = rec[k].body
      PROVE  Goal
  BY <1>t, <1>m DEF DoneIsCommitted, AnswersAreCommitted
<1>1. ASSUME NEW c \in Callers, Insert(c) PROVE Goal
  BY <1>1, <1>t, <1>g DEF Insert
<1>2. ASSUME NEW c \in Callers, Conflict(c) PROVE Goal
  BY <1>2, <1>t, <1>g DEF Conflict
<1>3. ASSUME NEW c \in Callers, Lookup(c) PROVE Goal
  <2>0. caller[c].at = "conflict" /\ rec' = rec
    BY <1>3 DEF Lookup
  <2>1. CASE \E stage \in {"start", "exec", "mismatch", "error"} : Goto(c, stage)
    BY <1>g, <2>0, <2>1
  <2>2. CASE /\ rec[caller[c].key].st = "done"
             /\ rec[caller[c].key].body = caller[c].body
             /\ Answer(c, rec[caller[c].key].resp)
    <3>1. DoneIsCommitted'
      BY <1>t, <2>0, <2>2, AnswerEffect DEF DoneIsCommitted
    <3>2. AnswersAreCommitted'
      BY <1>t, <2>0, <2>2, AnswerEffect DEF DoneIsCommitted, AnswersAreCommitted
    <3> QED BY <3>1, <3>2
  <2> QED BY <1>3, <2>1, <2>2 DEF Lookup
<1>4. ASSUME NEW c \in Callers, Respond(c) PROVE Goal
  <2>1. /\ caller[c].at = "exec"
        /\ Answer(c, c)
        /\ rec' = [rec EXCEPT ![caller[c].key].st = "done", ![caller[c].key].resp = c]
    BY <1>4 DEF Respond
  <2>2. rec[caller[c].key] \in Record /\ rec[caller[c].key].body = caller[c].body
    BY <2>1, <1>t, WorkingIsPresent
  <2>3. rec'[caller[c].key] = [rec[caller[c].key] EXCEPT !.st = "done", !.resp = c]
    BY <1>t, <2>1
  <2>4. rec'[caller[c].key].resp = c /\ rec'[caller[c].key].body = caller[c].body
    BY <2>2, <2>3 DEF Record
  <2>5. \A k \in Keys : k # caller[c].key => rec'[k] = rec[k]
    BY <1>t, <2>1
  <2>6. DoneIsCommitted'
    BY <1>t, <2>1, <2>4, <2>5, AnswerEffect DEF DoneIsCommitted
  <2>7. AnswersAreCommitted'
    BY <1>t, <2>1, AnswerEffect DEF AnswersAreCommitted
  <2> QED BY <2>6, <2>7
<1>5. ASSUME NEW c \in Callers, Raise(c) PROVE Goal
  BY <1>5, <1>g DEF Raise
<1>6. ASSUME NEW c \in Callers, MarkError(c) PROVE Goal
  <2>1. /\ caller[c].at = "failed"
        /\ Goto(c, "error")
        /\ rec' = [rec EXCEPT ![caller[c].key].st = "error"]
    BY <1>6 DEF MarkError
  <2>2. rec[caller[c].key] \in Record
    BY <2>1, <1>t, WorkingIsPresent
  <2>3. rec'[caller[c].key] = [rec[caller[c].key] EXCEPT !.st = "error"]
    BY <1>t, <2>1
  <2>4. rec'[caller[c].key].st # "done"
    BY <2>2, <2>3 DEF Record
  <2>5. \A k \in Keys : k # caller[c].key => rec'[k] = rec[k]
    BY <1>t, <2>1
  <2> QED BY <1>g, <2>1, <2>4, <2>5
<1>7. ASSUME NEW c \in Callers, Crash(c) PROVE Goal
  BY <1>7, <1>g DEF Crash
<1>8. ASSUME NEW k \in Keys, Minute(k) PROVE Goal
  <2>1. rec[k] \in Record /\ rec'[k] = [rec[k] EXCEPT !.age = "stale"]
    BY <1>8, <1>t, PresentIsRecord DEF Minute
  <2>2. \A j \in Keys : j # k => rec'[j] = rec[j]
    BY <1>8, <1>t DEF Minute
  <2> QED BY <1>8, <1>m, <2>1, <2>2 DEF Minute, Record
<1>9. ASSUME NEW k \in Keys, Day(k) PROVE Goal
  <2>1. rec[k] \in Record /\ rec'[k] = [rec[k] EXCEPT !.age = "expired"]
    BY <1>9, <1>t, PresentIsRecord DEF Day
  <2>2. \A j \in Keys : j # k => rec'[j] = rec[j]
    BY <1>9, <1>t DEF Day
  <2> QED BY <1>9, <1>m, <2>1, <2>2 DEF Day, Record
<1>10. ASSUME NEW k \in Keys, Purge(k) PROVE Goal
  <2>1. \A j \in Keys : rec'[j].st = "done" => rec'[j] = rec[j]
    BY <1>10, <1>t DEF Purge, Absent
  <2>2. \A c \in Callers : /\ caller[c].at = "answered" => caller'[c] = caller[c]
                           /\ caller'[c].at = "answered" => caller'[c] = caller[c]
    BY <1>10, <1>t, PurgeEffect
  <2>3. DoneIsCommitted'
    BY <1>t, <2>1, <2>2 DEF DoneIsCommitted
  <2>4. AnswersAreCommitted'
    BY <1>t, <2>2 DEF AnswersAreCommitted
  <2> QED BY <2>3, <2>4
<1>11. ASSUME NEW c \in Callers, Vanished(c) PROVE Goal
  BY <1>11, <1>g DEF Vanished
<1>12. CASE UNCHANGED vars
  BY <1>12, <1>m DEF vars
<1> QED
  BY <1>1, <1>2, <1>3, <1>4, <1>5, <1>6, <1>7, <1>8, <1>9, <1>10, <1>11, <1>12
  DEF Next, Attempt

LEMMA Inductive == Safety => []IInv
<1>1. IInv /\ [Next]_vars => IInv'
  BY TypeStep, BodyStep, DoneStep DEF IInv
<1> QED BY InitIInv, <1>1, PTL DEF Safety

\* Every behaviour stays in the declared types.
THEOREM TypeCorrect == Safety => []TypeOK
<1>1. IInv => TypeOK
  BY DEF IInv
<1> QED BY Inductive, <1>1, PTL

\* Replays included, an answer is that of a committed execution of the same key
\* and body, whatever views last, raise or crash (decorator and its except).
THEOREM AnswersCommitted == Safety => []AnswersAreCommitted
<1>1. IInv => AnswersAreCommitted
  BY DEF IInv
<1> QED BY Inductive, <1>1, PTL

\* A key never covers the execution of two bodies (request_hash check).
THEOREM OneBody == Safety => []OneBodyPerKey
<1>1. IInv => OneBodyPerKey
  BY DEF IInv
<1> QED BY Inductive, <1>1, PTL

-----------------------------------------------------------------------------
(* At most once.  The decorator keeps its promise when no view outlives the  *)
(* 60 s window, none raises and no worker dies: a pending record is then     *)
(* always fresh and always has its one execution under way.                  *)

Prompt == ~ SlowViews /\ ~ ViewsRaise /\ MaxCrashes = 0

\* Requests inside the view with key k.
Running(c, k) == caller[c].at = "exec" /\ caller[c].key = k

OneExecution ==
  /\ \A c \in Callers : caller[c].at # "failed"
  /\ \A c, d \in Callers : \A k \in Keys : Running(c, k) /\ Running(d, k) => c = d
  /\ \A k \in Keys :
       /\ rec[k].st # "error"
       /\ rec[k].st = "pending" => /\ rec[k].age = "fresh"
                                   /\ \E c \in Callers : Running(c, k)
       /\ \A c \in Callers : Running(c, k) => rec[k].st = "pending"
       /\ rec[k].st # "done" => applied[k] = {}

PInv == IInv /\ OneExecution /\ AtMostOnce

LEMMA InitPInv == Init => PInv
BY InitIInv DEF Init, PInv, OneExecution, AtMostOnce, Running, Absent

LEMMA PromptStep ==
  ASSUME Prompt PROVE PInv /\ [Next]_vars => OneExecution' /\ AtMostOnce'
<1> SUFFICES ASSUME PInv, [Next]_vars PROVE OneExecution' /\ AtMostOnce'
  OBVIOUS
<1> DEFINE Goal == OneExecution' /\ AtMostOnce'
<1>t. /\ TypeOK /\ OneBodyPerKey /\ OneExecution /\ AtMostOnce
      /\ rec \in [Keys -> Record \cup {Absent}]
      /\ applied \in [Keys -> SUBSET Callers]
      /\ \A c \in Callers : caller[c].key \in Keys
  BY DEF PInv, IInv, TypeOK, Caller
\* Moving between stages outside the view.
<1>g. ASSUME NEW c \in Callers, NEW stage \in {"start", "conflict", "mismatch", "error"},
             caller[c].at # "exec", Goto(c, stage), UNCHANGED <<rec, applied>>
      PROVE  Goal
  <2>1. \A d \in Callers : \A k \in Keys : Running(d, k)' <=> Running(d, k)
    BY <1>t, <1>g, GotoEffect DEF Running
  <2>2. \A d \in Callers : caller'[d].at # "failed"
    BY <1>t, <1>g, GotoEffect DEF OneExecution
  <2>3. OneExecution'
    BY <1>t, <1>g, <2>1, <2>2 DEF OneExecution
  <2> QED BY <1>t, <1>g, <2>3 DEF AtMostOnce
<1>1. ASSUME NEW c \in Callers, Insert(c) PROVE Goal
  <2> DEFINE k == caller[c].key
  <2>1. /\ rec[k].st = "absent" /\ Goto(c, "exec") /\ k \in Keys
        /\ rec'[k].st = "pending" /\ rec'[k].age = "fresh"
        /\ \A j \in Keys : j # k => rec'[j] = rec[j]
        /\ applied' = applied
    BY <1>1, <1>t DEF Insert
  <2>2. \A d \in Callers : ~ Running(d, k)
    BY <1>t, <2>1 DEF OneExecution
  <2>3. \A d \in Callers : \A j \in Keys :
          Running(d, j)' <=> Running(d, j) \/ (d = c /\ j = k)
    BY <1>1, <1>t, <2>1, GotoEffect DEF Running, Insert
  <2>4. \A d \in Callers : caller'[d].at # "failed"
    BY <1>t, <2>1, GotoEffect DEF OneExecution
  <2> HIDE DEF k
  <2>5. OneExecution'
    BY <1>t, <2>1, <2>2, <2>3, <2>4 DEF OneExecution
  <2> QED BY <1>t, <2>1, <2>5 DEF AtMostOnce
<1>2. ASSUME NEW c \in Callers, Conflict(c) PROVE Goal
  BY <1>2, <1>g DEF Conflict
<1>3. ASSUME NEW c \in Callers, Lookup(c) PROVE Goal
  <2>1. caller[c].at = "conflict" /\ UNCHANGED <<rec, applied>>
    BY <1>3 DEF Lookup
  <2>2. rec[caller[c].key].st # "error" /\
        (rec[caller[c].key].st = "pending" => IsConcurrent(rec[caller[c].key]))
    BY <1>t DEF OneExecution, IsConcurrent
  <2>3. CASE \E stage \in {"start", "mismatch", "error"} : Goto(c, stage)
    BY <1>g, <2>1, <2>3
  <2>4. CASE Answer(c, rec[caller[c].key].resp)
    <3>1. \A d \in Callers : \A k \in Keys : Running(d, k)' <=> Running(d, k)
      BY <1>t, <2>1, <2>4, AnswerEffect DEF Running
    <3>2. \A d \in Callers : caller'[d].at # "failed"
      BY <1>t, <2>4, AnswerEffect DEF OneExecution
    <3>3. OneExecution'
      BY <1>t, <2>1, <3>1, <3>2 DEF OneExecution
    <3> QED BY <1>t, <2>1, <3>3 DEF AtMostOnce
  <2> QED BY <1>3, <2>2, <2>3, <2>4 DEF Lookup
<1>4. ASSUME NEW c \in Callers, Respond(c) PROVE Goal
  <2> DEFINE k == caller[c].key
  <2>1. /\ Running(c, k) /\ Answer(c, c) /\ k \in Keys
        /\ rec' = [rec EXCEPT ![k].st = "done", ![k].resp = c]
        /\ applied' = [applied EXCEPT ![k] = @ \cup {c}]
    BY <1>4, <1>t DEF Respond, Running
  <2>2. rec[k] \in Record /\ rec'[k] = [rec[k] EXCEPT !.st = "done", !.resp = c]
    BY <1>t, <2>1, WorkingIsPresent DEF Running
  <2>3. rec'[k].st = "done" /\ \A j \in Keys : j # k => rec'[j] = rec[j]
    BY <1>t, <2>1, <2>2 DEF Record
  <2>4. applied[k] = {}
    BY <1>t, <2>1 DEF OneExecution
  <2>5. applied'[k] = {c} /\ \A j \in Keys : j # k => applied'[j] = applied[j]
    BY <1>t, <2>1, <2>4
  <2>6. \A d \in Callers : \A j \in Keys :
          Running(d, j)' <=> Running(d, j) /\ j # k
    <3>1. ASSUME NEW d \in Callers, d # c, NEW j \in Keys
          PROVE  Running(d, j)' <=> Running(d, j) /\ j # k
      BY <1>t, <2>1, <3>1, AnswerEffect DEF Running, OneExecution
    <3>2. ASSUME NEW j \in Keys PROVE Running(c, j)' <=> Running(c, j) /\ j # k
      BY <1>t, <2>1, <3>2, AnswerEffect DEF Running
    <3> QED BY <3>1, <3>2
  <2>7. \A d \in Callers : caller'[d].at # "failed"
    BY <1>t, <2>1, AnswerEffect DEF OneExecution
  <2> HIDE DEF k
  <2>8. OneExecution'
    BY <1>t, <2>1, <2>3, <2>5, <2>6, <2>7 DEF OneExecution
  <2>9. AtMostOnce'
    BY <1>t, <2>1, <2>5 DEF AtMostOnce
  <2> QED BY <2>8, <2>9
<1>5. ASSUME NEW c \in Callers, Raise(c) PROVE Goal
  BY <1>5 DEF Raise, Prompt
<1>6. ASSUME NEW c \in Callers, MarkError(c) PROVE Goal
  BY <1>6, <1>t DEF MarkError, OneExecution
<1>7. ASSUME NEW c \in Callers, Crash(c) PROVE Goal
  BY <1>7, <1>t DEF Crash, Prompt, TypeOK
<1>8. ASSUME NEW k \in Keys, Minute(k) PROVE Goal
  <2>1. /\ rec[k] \in Record /\ rec'[k] = [rec[k] EXCEPT !.age = "stale"]
        /\ caller' = caller /\ applied' = applied
        /\ \A j \in Keys : j # k => rec'[j] = rec[j]
    BY <1>8, <1>t, PresentIsRecord DEF Minute
  <2>2. \A c \in Callers : ~ Running(c, k)
    BY <1>8 DEF Minute, Working, Prompt, Running
  <2>3. rec'[k].st = rec[k].st /\ rec[k].st # "pending"
    BY <1>t, <2>1, <2>2 DEF Record, OneExecution
  <2>4. OneExecution'
    <3>1. \A d \in Callers : caller'[d].at = caller[d].at
                             /\ \A j \in Keys : Running(d, j)' <=> Running(d, j)
      BY <2>1 DEF Running
    <3>2. \A j \in Keys : rec'[j].st = rec[j].st
                          /\ (rec[j].st = "pending" => rec'[j].age = rec[j].age)
      BY <2>1, <2>3
    <3> QED BY <1>t, <2>1, <3>1, <3>2 DEF OneExecution
  <2> QED BY <1>t, <2>1, <2>4 DEF AtMostOnce
<1>9. ASSUME NEW k \in Keys, Day(k) PROVE Goal
  <2>1. /\ rec[k] \in Record /\ rec'[k] = [rec[k] EXCEPT !.age = "expired"]
        /\ rec[k].age = "stale"
        /\ caller' = caller /\ applied' = applied
        /\ \A j \in Keys : j # k => rec'[j] = rec[j]
    BY <1>9, <1>t, PresentIsRecord DEF Day
  <2>2. rec'[k].st = rec[k].st /\ rec[k].st # "pending"
    BY <1>t, <2>1 DEF Record, OneExecution
  <2>3. OneExecution'
    <3>1. \A d \in Callers : caller'[d].at = caller[d].at
                             /\ \A j \in Keys : Running(d, j)' <=> Running(d, j)
      BY <2>1 DEF Running
    <3>2. \A j \in Keys : rec'[j].st = rec[j].st
                          /\ (rec[j].st = "pending" => rec'[j].age = rec[j].age)
      BY <2>1, <2>2
    <3> QED BY <1>t, <2>1, <3>1, <3>2 DEF OneExecution
  <2> QED BY <1>t, <2>1, <2>3 DEF AtMostOnce
<1>10. ASSUME NEW k \in Keys, Purge(k) PROVE Goal
  <2>1. /\ rec'[k].st = "absent" /\ applied'[k] = {}
        /\ \A j \in Keys : j # k => rec'[j] = rec[j] /\ applied'[j] = applied[j]
    BY <1>10, <1>t DEF Purge, Absent
  <2>2. \A c \in Callers : ~ Running(c, k)
    BY <1>10, <1>t DEF Purge, OneExecution
  <2>3. \A c \in Callers : /\ caller'[c].at # "failed"
                           /\ \A j \in Keys : Running(c, j)' <=> Running(c, j)
    BY <1>10, <1>t, <2>2, PurgeEffect DEF Running, OneExecution
  <2>4. OneExecution'
    BY <1>t, <2>1, <2>2, <2>3 DEF OneExecution
  <2> QED BY <1>t, <2>1, <2>4 DEF AtMostOnce
<1>11. ASSUME NEW c \in Callers, Vanished(c) PROVE Goal
  BY <1>11, <1>g DEF Vanished
<1>12. CASE UNCHANGED vars
  BY <1>12, <1>t DEF vars, OneExecution, AtMostOnce, Running
<1> QED
  BY <1>1, <1>2, <1>3, <1>4, <1>5, <1>6, <1>7, <1>8, <1>9, <1>10, <1>11, <1>12
  DEF Next, Attempt

\* The promise of the decorator's docstring, under the three conditions that the
\* code itself does not enforce: one committed execution per key and lifetime of
\* its record, for any number of concurrent callers and retries.
THEOREM ExecutedOnce == ASSUME Prompt PROVE Safety => []AtMostOnce
<1>1. PInv /\ [Next]_vars => PInv'
  BY PromptStep, TypeStep, BodyStep, DoneStep DEF PInv, IInv
<1>2. PInv => AtMostOnce
  BY DEF PInv
<1> QED BY InitPInv, <1>1, <1>2, PTL DEF Safety

-----------------------------------------------------------------------------
(* The same result as a refinement: under Prompt, Idempotency implements     *)
(* OneAnswer.                                                                *)

\* What a caller got, as OneAnswer sees it.
Reply(c) == [st |-> IF caller[c].at = "answered" THEN "answered"
                    ELSE IF caller[c].at \in {"mismatch", "error"} THEN "refused"
                    ELSE "waiting",
             of |-> caller[c].resp]

Outcome(k) == IF rec[k].st = "done" THEN rec[k].resp ELSE None
Ask(c)     == [key |-> caller[c].key, body |-> caller[c].body]

asked    == [c \in Callers |-> Ask(c)]
outcomes == [k \in Keys |-> Outcome(k)]
replies  == [c \in Callers |-> Reply(c)]

\* A caller without an answer has no response yet.
Unanswered ==
  \A c \in Callers : caller[c].at # "answered" => caller[c].resp = None

LEMMA UnansweredStep == TypeOK /\ Unanswered /\ [Next]_vars => Unanswered'
<1> SUFFICES ASSUME TypeOK, Unanswered, [Next]_vars PROVE Unanswered'
  OBVIOUS
<1>g. ASSUME NEW c \in Callers, caller[c].at # "answered",
             NEW stage, Goto(c, stage)
      PROVE  Unanswered'
  BY <1>g, GotoEffect DEF Unanswered
<1>a. ASSUME NEW c \in Callers, NEW resp, Answer(c, resp) PROVE Unanswered'
  BY <1>a, AnswerEffect DEF Unanswered
<1>1. ASSUME NEW c \in Callers, Attempt(c) \/ Crash(c) PROVE Unanswered'
  BY <1>1, <1>g, <1>a
  DEF Attempt, Insert, Conflict, Lookup, Respond, Raise, MarkError, Vanished, Crash
<1>2. ASSUME NEW k \in Keys, Purge(k) PROVE Unanswered'
  <2>1. ASSUME NEW c \in Callers PROVE caller'[c].resp = caller[c].resp
    <3>1. caller[c] \in Caller
      BY DEF TypeOK
    <3> QED BY <1>2, <3>1 DEF Purge, Caller
  <2>2. \A c \in Callers : caller'[c].at # "answered" => caller[c].at # "answered"
    BY <1>2, PurgeEffect
  <2> QED BY <2>1, <2>2 DEF Unanswered
<1>3. ASSUME UNCHANGED caller PROVE Unanswered'
  BY <1>3 DEF Unanswered
<1> QED BY <1>1, <1>2, <1>3 DEF Next, Minute, Day, vars

AInv == PInv /\ Unanswered

\* What the mapping makes of a step that moves one caller.
LEMMA MoveMapped ==
  ASSUME TypeOK, NEW c \in Callers, NEW stage, Goto(c, stage)
  PROVE  /\ asked' = asked
         /\ \A d \in Callers : d # c => Reply(d)' = Reply(d)
         /\ caller'[c].at = stage /\ caller'[c].resp = caller[c].resp
BY GotoEffect DEF asked, Ask, Reply

LEMMA AnswerMapped ==
  ASSUME TypeOK, NEW c \in Callers, NEW resp, Answer(c, resp)
  PROVE  /\ asked' = asked
         /\ replies' = [replies EXCEPT ![c] = [st |-> "answered", of |-> resp]]
<1>1. asked' = asked
  BY AnswerEffect DEF asked, Ask
<1>2. Reply(c)' = [st |-> "answered", of |-> resp]
      /\ \A d \in Callers : d # c => Reply(d)' = Reply(d)
  BY AnswerEffect DEF Reply
<1> QED BY <1>1, <1>2 DEF replies

LEMMA PromiseInit == Init => Promise!Init
BY DEF Init, Promise!Init, Promise!Waiting, Absent

LEMMA PromiseStep ==
  ASSUME Prompt
  PROVE  AInv /\ [Next]_vars => [Promise!Next]_<<asked, outcomes, replies>>
<1> SUFFICES ASSUME AInv, [Next]_vars
             PROVE  [Promise!Next]_<<asked, outcomes, replies>>
  OBVIOUS
<1> DEFINE Stutter == UNCHANGED <<asked, outcomes, replies>>
           Goal == [Promise!Next]_<<asked, outcomes, replies>>
<1>t. /\ TypeOK /\ OneBodyPerKey /\ DoneIsCommitted /\ OneExecution /\ Unanswered
      /\ rec \in [Keys -> Record \cup {Absent}]
      /\ \A c \in Callers : caller[c].key \in Keys
  BY DEF AInv, PInv, IInv, TypeOK, Caller
\* Moving on before the answer is invisible.
<1>s. ASSUME NEW c \in Callers, NEW stage, Goto(c, stage),
             caller[c].at \in {"start", "conflict", "exec", "failed", "lost"},
             stage \in {"start", "conflict", "exec", "failed", "lost"},
             outcomes' = outcomes
      PROVE  Goal
  <2>1. Reply(c)' = Reply(c)
    BY <1>s, <1>t, MoveMapped DEF Reply
  <2>2. replies' = replies
    BY <1>s, <1>t, <2>1, MoveMapped DEF replies
  <2> QED BY <1>s, <1>t, <2>2, MoveMapped
\* Moving to a refusal is one.
<1>r. ASSUME NEW c \in Callers, NEW stage \in {"mismatch", "error"}, Goto(c, stage),
             caller[c].at \in {"conflict", "failed", "lost"}, outcomes' = outcomes
      PROVE  Goal
  <2>1. /\ Reply(c) = [st |-> "waiting", of |-> None]
        /\ Reply(c)' = [st |-> "refused", of |-> None]
    BY <1>r, <1>t, MoveMapped DEF Reply, Unanswered
  <2>2. replies' = [replies EXCEPT ![c] = [st |-> "refused", of |-> None]]
    BY <1>r, <1>t, <2>1, MoveMapped DEF replies
  <2>3. replies[c] = [st |-> "waiting", of |-> None]
    BY <2>1 DEF replies
  <2>4. Promise!Refuse(c)
    BY <1>r, <1>t, <2>2, <2>3, MoveMapped
    DEF Promise!Refuse, Promise!Waiting, Promise!Refused, asked, outcomes, replies,
        Ask, Outcome, Reply
  <2> QED BY <2>4 DEF Promise!Next
<1>1. ASSUME NEW c \in Callers, Insert(c) PROVE Goal
  <2>1. \A k \in Keys : Outcome(k)' = Outcome(k)
    BY <1>1, <1>t DEF Insert, Outcome
  <2> QED BY <1>1, <1>s, <2>1 DEF Insert, outcomes
<1>2. ASSUME NEW c \in Callers, Conflict(c) PROVE Goal
  BY <1>2, <1>s DEF Conflict, outcomes, Outcome
<1>3. ASSUME NEW c \in Callers, Lookup(c) PROVE Goal
  <2>1. caller[c].at = "conflict" /\ outcomes' = outcomes
    BY <1>3 DEF Lookup, outcomes, Outcome
  <2>2. CASE Goto(c, "error") \/ Goto(c, "mismatch")
    BY <1>r, <2>1, <2>2
  <2>3. CASE Goto(c, "start") \/ Goto(c, "exec")
    BY <1>s, <2>1, <2>3
  <2>4. CASE /\ rec[caller[c].key].st = "done"
             /\ rec[caller[c].key].body = caller[c].body
             /\ Answer(c, rec[caller[c].key].resp)
    <3> DEFINE d == rec[caller[c].key].resp
    <3>1. /\ d \in Callers /\ caller[d].key = caller[c].key
          /\ caller[d].body = caller[c].body
      BY <1>t, <2>4 DEF DoneIsCommitted
    <3>2. outcomes[asked[c].key] = d /\ asked[d] = asked[c] /\ d # None
      BY <1>t, <2>4, <3>1, NoneAssumption DEF outcomes, Outcome, asked, Ask
    <3>3. replies[c] = [st |-> "waiting", of |-> None]
      BY <1>t, <2>1 DEF replies, Reply, Unanswered
    <3>4. asked' = asked /\ replies' = [replies EXCEPT ![c] = [st |-> "answered", of |-> d]]
      BY <1>t, <2>4, AnswerMapped
    <3> HIDE DEF d
    <3>5. Promise!Replay(c)
      BY <2>1, <3>2, <3>3, <3>4
      DEF Promise!Replay, Promise!Waiting, Promise!Answered, asked, outcomes, replies,
          Ask, Outcome, Reply
    <3> QED BY <3>5 DEF Promise!Next
  <2> QED BY <1>3, <2>2, <2>3, <2>4 DEF Lookup
<1>4. ASSUME NEW c \in Callers, Respond(c) PROVE Goal
  <2> DEFINE k == caller[c].key
  <2>1. /\ caller[c].at = "exec" /\ Answer(c, c) /\ k \in Keys
        /\ rec' = [rec EXCEPT ![k].st = "done", ![k].resp = c]
    BY <1>4, <1>t DEF Respond
  <2>2. rec[k] \in Record /\ rec[k].st = "pending"
    BY <1>t, <2>1, WorkingIsPresent DEF OneExecution, Running
  <2>3. rec'[k] = [rec[k] EXCEPT !.st = "done", !.resp = c]
    BY <1>t, <2>1
  <2>4. rec'[k].st = "done" /\ rec'[k].resp = c
    BY <2>2, <2>3 DEF Record
  <2>5. /\ outcomes' = [outcomes EXCEPT ![asked[c].key] = c]
        /\ outcomes[asked[c].key] = None
    <3>1. asked[c].key = k
      BY DEF asked, Ask
    <3>2. \A j \in Keys : j # k => rec'[j] = rec[j]
      BY <1>t, <2>1
    <3>3. \A j \in Keys : Outcome(j)' = IF j = k THEN c ELSE Outcome(j)
      BY <2>4, <3>2 DEF Outcome
    <3>4. Outcome(k) = None
      BY <2>2 DEF Outcome
    <3> HIDE DEF k
    <3> QED BY <2>1, <3>1, <3>3, <3>4 DEF outcomes
  <2>6. replies[c] = [st |-> "waiting", of |-> None]
    BY <1>t, <2>1 DEF replies, Reply, Unanswered
  <2>7. asked' = asked /\ replies' = [replies EXCEPT ![c] = [st |-> "answered", of |-> c]]
    BY <1>t, <2>1, AnswerMapped
  <2>8. Promise!Execute(c)
    BY <2>5, <2>6, <2>7
    DEF Promise!Execute, Promise!Waiting, Promise!Answered, asked, outcomes, replies,
        Ask, Outcome, Reply
  <2> QED BY <2>8 DEF Promise!Next
<1>5. ASSUME NEW c \in Callers, Raise(c) PROVE Goal
  BY <1>5 DEF Raise, Prompt
<1>6. ASSUME NEW c \in Callers, MarkError(c) PROVE Goal
  BY <1>6, <1>t DEF MarkError, OneExecution
<1>7. ASSUME NEW c \in Callers, Vanished(c) PROVE Goal
  BY <1>7, <1>r DEF Vanished, outcomes, Outcome
<1>8. ASSUME NEW c \in Callers, Crash(c) PROVE Goal
  BY <1>8, <1>t DEF Crash, Prompt, TypeOK
\* The passing of time is invisible.
<1>9. ASSUME NEW k \in Keys, Minute(k) \/ Day(k) PROVE Goal
  <2>1. rec[k] \in Record /\ \E age : rec'[k] = [rec[k] EXCEPT !.age = age]
    BY <1>9, <1>t, PresentIsRecord DEF Minute, Day
  <2>2. rec'[k].st = rec[k].st /\ rec'[k].resp = rec[k].resp
    BY <2>1 DEF Record
  <2>3. \A j \in Keys : j # k => rec'[j] = rec[j]
    BY <1>9, <1>t DEF Minute, Day
  <2>4. outcomes' = outcomes
    BY <2>2, <2>3 DEF outcomes, Outcome
  <2>5. asked' = asked /\ replies' = replies
    BY <1>9 DEF Minute, Day, asked, Ask, replies, Reply
  <2> QED BY <2>4, <2>5
<1>10. ASSUME NEW k \in Keys, Purge(k) PROVE Goal
  <2>1. rec[k].st = "done"
    <3>1. rec[k] \in Record /\ rec[k].age = "expired"
      BY <1>10, <1>t, PresentIsRecord DEF Purge
    <3>2. rec[k].st # "pending" /\ rec[k].st # "error"
      BY <1>t, <3>1 DEF OneExecution
    <3> QED BY <3>1, <3>2 DEF Record
  <2>2. ASSUME NEW c \in Callers
        PROVE  ~ (caller[c].key = k /\ caller[c].at \in {"exec", "failed"})
    <3>1. ~ Running(c, k) /\ caller[c].at # "failed"
      BY <1>t, <2>1 DEF OneExecution
    <3> QED BY <3>1 DEF Running
  <2>3. ASSUME NEW c \in Callers PROVE caller'[c] = caller[c]
    BY <1>10, <1>t, <2>2, PurgeEffect
  <2>4. asked' = asked /\ replies' = replies
    BY <2>3 DEF asked, Ask, replies, Reply
  <2>5. outcomes' = [outcomes EXCEPT ![k] = None]
    BY <1>10, <1>t DEF Purge, outcomes, Outcome, Absent
  <2>6. outcomes[k] # None
    BY <1>t, <2>1, NoneAssumption DEF outcomes, Outcome, DoneIsCommitted
  <2>7. Promise!Forget(k)
    BY <2>4, <2>5, <2>6
    DEF Promise!Forget, asked, outcomes, replies, Ask, Outcome, Reply
  <2> QED BY <2>7 DEF Promise!Next
<1>11. CASE UNCHANGED vars
  BY <1>11 DEF vars, asked, Ask, outcomes, Outcome, replies, Reply
<1> QED
  BY <1>1, <1>2, <1>3, <1>4, <1>5, <1>6, <1>7, <1>8, <1>9, <1>10, <1>11
  DEF Next, Attempt

\* Under the three conditions, every behaviour of the decorator, its retries and
\* its purge is a behaviour of OneAnswer, answers included.
THEOREM Implements == ASSUME Prompt PROVE Safety => KeepsPromise
<1>1. Init => AInv
  BY InitPInv DEF Init, AInv, Unanswered
<1>2. AInv /\ [Next]_vars => AInv'
  BY PromptStep, TypeStep, BodyStep, DoneStep, UnansweredStep
  DEF AInv, PInv, IInv
<1>3. [Promise!Next]_<<asked, outcomes, replies>> <=>
      [Promise!Next]_<<[c \in Callers |-> [key |-> caller[c].key, body |-> caller[c].body]],
        [k \in Keys |-> IF rec[k].st = "done" THEN rec[k].resp ELSE None],
        [c \in Callers |->
              [st |-> IF caller[c].at = "answered" THEN "answered"
                      ELSE IF caller[c].at \in {"mismatch", "error"} THEN "refused"
                      ELSE "waiting",
               of |-> caller[c].resp]]>>
  BY DEF asked, Ask, outcomes, Outcome, replies, Reply
<1> QED BY PromiseInit, <1>1, <1>2, <1>3, PromiseStep, PTL
        DEF Safety, KeepsPromise, Promise!Spec

=============================================================================
