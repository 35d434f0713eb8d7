------------------------------ MODULE OneAnswer ------------------------------
(***************************************************************************)
(* What @idempotent_endpoint promises its callers: of all the requests     *)
(* with one key, one executes; the others with its body get its answer,    *)
(* or are refused.  When the record is purged the key starts over.         *)
(***************************************************************************)

CONSTANTS Callers, Keys, Bodies, None

VARIABLES
  asks,   \* key and body of each caller
  done,   \* the caller whose execution stands for each key, or None
  reply   \* what each caller got

Waiting     == [st |-> "waiting", of |-> None]
Refused     == [st |-> "refused", of |-> None]
Answered(d) == [st |-> "answered", of |-> d]

Execute(c) ==
  /\ reply[c] = Waiting
  /\ done[asks[c].key] = None
  /\ done' = [done EXCEPT ![asks[c].key] = c]
  /\ reply' = [reply EXCEPT ![c] = Answered(c)]
  /\ UNCHANGED asks

Replay(c) ==
  LET d == done[asks[c].key] IN
  /\ reply[c] = Waiting
  /\ d # None
  /\ asks[d] = asks[c]
  /\ reply' = [reply EXCEPT ![c] = Answered(d)]
  /\ UNCHANGED <<asks, done>>

Refuse(c) ==
  /\ reply[c] = Waiting
  /\ reply' = [reply EXCEPT ![c] = Refused]
  /\ UNCHANGED <<asks, done>>

Forget(k) ==
  /\ done[k] # None
  /\ done' = [done EXCEPT ![k] = None]
  /\ UNCHANGED <<asks, reply>>

Init ==
  /\ asks \in [Callers -> [key: Keys, body: Bodies]]
  /\ done = [k \in Keys |-> None]
  /\ reply = [c \in Callers |-> Waiting]

Next ==
  \/ \E c \in Callers : Execute(c) \/ Replay(c) \/ Refuse(c)
  \/ \E k \in Keys : Forget(k)

Spec == Init /\ [][Next]_<<asks, done, reply>>
=============================================================================
