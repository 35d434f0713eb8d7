----------------------------- MODULE Idempotency -----------------------------
(***************************************************************************)
(* The decorator @idempotent_endpoint (backend/core/idempotency.py), its   *)
(* IdempotencyRecord and the daily purge.                                  *)
(*                                                                         *)
(* A caller is one stream of HTTP attempts with one key and one body: the  *)
(* browser repeats them while it has no answer (worker crash) or gets 425. *)
(* Two callers with the same key are a double submit, or the retry of a    *)
(* caller whose answer was lost on the way.  Time is the age of a record:  *)
(* "fresh" under 60 s, "stale" above, "expired" above 24 h.                *)
(***************************************************************************)
EXTENDS Integers

CONSTANTS
  Callers,      \* callers of one endpoint (one scope)
  Keys,         \* Idempotency-Key values
  Bodies,       \* request bodies, by hash
  None,         \* the NULL of a response
  SlowViews,    \* may a view run longer than 60 s?
  ViewsRaise,   \* may a view raise instead of returning a Response?
  MaxCrashes    \* bound on worker crashes

ASSUME NoneAssumption == None \notin Callers
ASSUME SwitchAssumption == SlowViews \in BOOLEAN /\ ViewsRaise \in BOOLEAN
ASSUME CrashAssumption == MaxCrashes \in Nat

VARIABLES
  rec,      \* IdempotencyRecord of each key
  caller,   \* the attempt in flight of each caller
  applied,  \* callers whose execution committed under the present record
  crashes

vars == <<rec, caller, applied, crashes>>

\* A response is named by the caller whose execution produced it.
Record == [st  : {"pending", "done", "error"},
           body: Bodies,
           age : {"fresh", "stale", "expired"},
           resp: Callers \cup {None}]

Absent == [st |-> "absent"]

\* "start": about to send; "conflict": the INSERT hit the unique constraint;
\* "exec": inside the view's transaction; "failed": the view raised and rolled
\* back, the record is not yet marked; "lost": in either of the two, and the
\* record was purged meanwhile; the rest are answers.
Stage  == {"start", "conflict", "exec", "failed", "lost", "answered", "mismatch", "error"}

Caller == [at: Stage, key: Keys, body: Bodies, resp: Callers \cup {None}]

TypeOK ==
  /\ rec \in [Keys -> Record \cup {Absent}]
  /\ caller \in [Callers -> Caller]
  /\ applied \in [Keys -> SUBSET Callers]
  /\ crashes \in 0 .. MaxCrashes

-----------------------------------------------------------------------------
Goto(c, stage) == caller' = [caller EXCEPT ![c].at = stage]

Answer(c, resp) ==
  caller' = [caller EXCEPT ![c].at = "answered", ![c].resp = resp]

\* Requests working on a record: in the view, or about to mark it ERROR.
Working(k) == \E c \in Callers :
                caller[c].key = k /\ caller[c].at \in {"exec", "failed"}

-----------------------------------------------------------------------------
(* One attempt. *)

\* _get_or_create_record: INSERT under unique (key, scope).
Insert(c) ==
  LET k == caller[c].key IN
  /\ caller[c].at = "start"
  /\ rec[k].st = "absent"
  /\ rec' = [rec EXCEPT ![k] = [st |-> "pending", body |-> caller[c].body,
                                age |-> "fresh", resp |-> None]]
  /\ Goto(c, "exec")
  /\ UNCHANGED <<applied, crashes>>

Conflict(c) ==
  /\ caller[c].at = "start"
  /\ rec[caller[c].key].st # "absent"
  /\ Goto(c, "conflict")
  /\ UNCHANGED <<rec, applied, crashes>>

\* Variant: a pending record always counts as in flight.
IsConcurrentForever(r) == r.st = "pending"

\* Variant: the comparison with 60 s is reversed.
IsConcurrentReversed(r) == r.st = "pending" /\ r.age # "fresh"

\* _is_concurrent: a pending record under 60 s old counts as in flight.
IsConcurrent(r) == r.st = "pending" /\ r.age = "fresh"

\* Variant: the body is not compared before a replay.
LookupReplaysAnyBody(c) ==
  LET r == rec[caller[c].key] IN
  /\ caller[c].at = "conflict"
  /\ \/ r.st = "absent" /\ Goto(c, "error")
     \/ r.st \notin {"absent", "done"} /\ r.body # caller[c].body /\ Goto(c, "mismatch")
     \/ r.st = "done" /\ Answer(c, r.resp)
     \/ /\ IsConcurrent(r) /\ r.body = caller[c].body
        /\ Goto(c, "start")
     \/ /\ r.st \in {"pending", "error"} /\ r.body = caller[c].body
        /\ ~ IsConcurrent(r)
        /\ Goto(c, "exec")
  /\ UNCHANGED <<rec, applied, crashes>>

\* Variant: the body is not compared before a retry.
LookupRetriesAnyBody(c) ==
  LET r == rec[caller[c].key] IN
  /\ caller[c].at = "conflict"
  /\ \/ r.st = "absent" /\ Goto(c, "error")
     \/ r.st = "done" /\ r.body # caller[c].body /\ Goto(c, "mismatch")
     \/ r.st = "done" /\ r.body = caller[c].body /\ Answer(c, r.resp)
     \/ IsConcurrent(r) /\ Goto(c, "start")
     \/ /\ r.st \in {"pending", "error"}
        /\ ~ IsConcurrent(r)
        /\ Goto(c, "exec")
  /\ UNCHANGED <<rec, applied, crashes>>

\* The second statement of _get_or_create_record and the decisions on the row
\* it read.  The purge may have removed the row: the get() raises, 500.
Lookup(c) ==
  LET r == rec[caller[c].key] IN
  /\ caller[c].at = "conflict"
  /\ \/ r.st = "absent" /\ Goto(c, "error")
     \/ r.st # "absent" /\ r.body # caller[c].body /\ Goto(c, "mismatch")
     \/ r.st = "done" /\ r.body = caller[c].body /\ Answer(c, r.resp)
     \/ /\ IsConcurrent(r) /\ r.body = caller[c].body
        /\ Goto(c, "start")                              \* 425, the browser retries
     \/ /\ r.st \in {"pending", "error"} /\ r.body = caller[c].body
        /\ ~ IsConcurrent(r)
        /\ Goto(c, "exec")                               \* the status is not claimed
  /\ UNCHANGED <<rec, applied, crashes>>

\* Variant: the answer is given before the record is DONE.
RespondUnrecorded(c) ==
  LET k == caller[c].key IN
  /\ caller[c].at = "exec"
  /\ applied' = [applied EXCEPT ![k] = @ \cup {c}]
  /\ Answer(c, c)
  /\ UNCHANGED <<rec, crashes>>

\* The view returned a Response, of success or of rejection: its effects and
\* the DONE record commit in one transaction.
Respond(c) ==
  LET k == caller[c].key IN
  /\ caller[c].at = "exec"
  /\ rec' = [rec EXCEPT ![k].st = "done", ![k].resp = c]
  /\ applied' = [applied EXCEPT ![k] = @ \cup {c}]
  /\ Answer(c, c)
  /\ UNCHANGED crashes

\* The view raised: its transaction rolls back ...
Raise(c) ==
  /\ ViewsRaise
  /\ caller[c].at = "exec"
  /\ Goto(c, "failed")
  /\ UNCHANGED <<rec, applied, crashes>>

\* ... and the except clause then marks the record, whoever holds it by now.
MarkError(c) ==
  /\ caller[c].at = "failed"
  /\ rec' = [rec EXCEPT ![caller[c].key].st = "error"]
  /\ Goto(c, "error")
  /\ UNCHANGED <<applied, crashes>>

\* save(update_fields) of a purged row updates nothing and raises: the view's
\* transaction rolls back, the except clause fails the same way, 500.
Vanished(c) ==
  /\ caller[c].at = "lost"
  /\ Goto(c, "error")
  /\ UNCHANGED <<rec, applied, crashes>>

\* The worker dies: nothing is committed, nothing is marked, the caller retries.
Crash(c) ==
  /\ caller[c].at \in {"exec", "failed", "lost"}
  /\ crashes < MaxCrashes
  /\ crashes' = crashes + 1
  /\ Goto(c, "start")
  /\ UNCHANGED <<rec, applied>>

-----------------------------------------------------------------------------
(* Time. *)

Minute(k) ==
  /\ rec[k].st # "absent"
  /\ rec[k].age = "fresh"
  /\ Working(k) => SlowViews
  /\ rec' = [rec EXCEPT ![k].age = "stale"]
  /\ UNCHANGED <<caller, applied, crashes>>

Day(k) ==
  /\ rec[k].st # "absent"
  /\ rec[k].age = "stale"
  /\ rec' = [rec EXCEPT ![k].age = "expired"]
  /\ UNCHANGED <<caller, applied, crashes>>

\* Variant: a request in flight marks the purged row as if it were there.
PurgeUnnoticed(k) ==
  /\ rec[k].st # "absent"
  /\ rec[k].age = "expired"
  /\ rec' = [rec EXCEPT ![k] = Absent]
  /\ applied' = [applied EXCEPT ![k] = {}]
  /\ UNCHANGED <<caller, crashes>>

\* purge_idempotency_records deletes by created_at alone, under the feet of a
\* retry that is executing: the key starts over, the retry is lost.
Purge(k) ==
  /\ rec[k].st # "absent"
  /\ rec[k].age = "expired"
  /\ rec' = [rec EXCEPT ![k] = Absent]
  /\ applied' = [applied EXCEPT ![k] = {}]
  /\ caller' = [c \in Callers |->
                  IF caller[c].key = k /\ caller[c].at \in {"exec", "failed"}
                  THEN [caller[c] EXCEPT !.at = "lost"] ELSE caller[c]]
  /\ UNCHANGED crashes

-----------------------------------------------------------------------------
Init ==
  /\ rec = [k \in Keys |-> Absent]
  /\ caller \in [Callers -> [at: {"start"}, key: Keys, body: Bodies, resp: {None}]]
  /\ applied = [k \in Keys |-> {}]
  /\ crashes = 0

Attempt(c) ==
  \/ Insert(c)
  \/ Conflict(c)
  \/ Lookup(c)
  \/ Respond(c)
  \/ Raise(c)
  \/ MarkError(c)
  \/ Vanished(c)

Next ==
  \/ \E c \in Callers : Attempt(c)
  \/ \E c \in Callers : Crash(c)
  \/ \E k \in Keys : Minute(k)
  \/ \E k \in Keys : Day(k)
  \/ \E k \in Keys : Purge(k)

\* Requests are scheduled and clocks advance; nobody has to crash or purge.
Fairness ==
  /\ \A c \in Callers : WF_vars(Attempt(c))
  /\ \A k \in Keys : WF_vars(Minute(k))

Safety == Init /\ [][Next]_vars
Spec   == Safety /\ Fairness

-----------------------------------------------------------------------------
(* Properties of every execution. *)

\* Whatever a caller is answered with, first execution or replay, comes from a
\* committed execution of the same body under the same key: no replay of work
\* that rolled back, none of somebody else's request.
AnswersAreCommitted ==
  \A c \in Callers : caller[c].at = "answered" =>
    LET d == caller[c].resp IN
    /\ d \in Callers
    /\ caller[d].at = "answered" /\ caller[d].resp = d
    /\ caller[d].key = caller[c].key /\ caller[d].body = caller[c].body

\* All executions a record covers, running or committed, have the body whose
\* hash it stores: a key reused with another body never reaches the view.
OneBodyPerKey ==
  \A c \in Callers :
    LET k == caller[c].key IN
    c \in applied[k] \/ caller[c].at \in {"exec", "failed"}
    => rec[k].st # "absent" /\ rec[k].body = caller[c].body

\* Every attempt ends in an answer: a record orphaned by a crash answers 425 for
\* a minute, not for ever.
EveryAttemptEnds ==
  \A c \in Callers :
    <>(caller[c].at \in {"answered", "mismatch", "error"})

-----------------------------------------------------------------------------
(* The promise of the decorator. *)

\* The decorator's docstring: calls with one key give the result of the first
\* execution, without executing the view again.
AtMostOnce ==
  \A k \in Keys : \A c, d \in applied[k] : c = d

\* The same promise as a specification, answers included.
Promise == INSTANCE OneAnswer WITH
  asks  <- [c \in Callers |-> [key |-> caller[c].key, body |-> caller[c].body]],
  done  <- [k \in Keys |-> IF rec[k].st = "done" THEN rec[k].resp ELSE None],
  reply <- [c \in Callers |->
              [st |-> IF caller[c].at = "answered" THEN "answered"
                      ELSE IF caller[c].at \in {"mismatch", "error"} THEN "refused"
                      ELSE "waiting",
               of |-> caller[c].resp]]

\* The decorator implements its promise: each step of a request is an execution,
\* a replay or a refusal of the promise, or invisible to it.
KeepsPromise == Promise!Spec

=============================================================================
