---------------------------- MODULE AutoSaveForm ----------------------------
(***************************************************************************)
(* A settings panel that saves itself: the hook useAutoSaveForm            *)
(* (frontend/hooks/useAutoSaveForm.ts), the browser's leave warning, and   *)
(* the query that loads the panel and is refetched after each save.        *)
(*                                                                         *)
(* The model starts when the panel is loaded.  A value stands for all the  *)
(* fields of the form.  Timers are armed or not; the debounce ends some    *)
(* time after the last edit.                                               *)
(***************************************************************************)
EXTENDS Naturals

CONSTANTS
  Values,     \* contents of the form
  Invalid,    \* the contents the panel's validate refuses
  None,       \* no save, no fetch in flight
  Policies,   \* how a panel takes refetched data, see Takes
  MaxEdits    \* bound on the edits of the user

ASSUME ValuesAssumption   == Invalid \subseteq Values /\ None \notin Values
ASSUME PoliciesAssumption == Policies \subseteq {"once", "pristine", "always"}
ASSUME EditsAssumption    == MaxEdits \in Nat

VARIABLES
  policy,   \* the policy of this panel
  form,     \* form.getValues()
  base,     \* the default values: what RHF compares with to say isDirty
  data,     \* the query's data
  server,   \* the row on the server
  status,   \* the status of the hook
  timer,    \* debounceTimerRef: is a save scheduled?
  pending,  \* hasPendingChangesRef
  save,     \* the onSave in flight (isSavingRef), and whether the server ran it
  late,     \* saves the client gave up on that the server may still run
  fetch,    \* the refetch in flight
  mounted,
  typed,    \* history: what the user typed last
  behind,   \* history: the form changed during the save in flight or the last one
  overtaken,\* history: the server's last write is a save the client gave up on
  edits

panel == <<policy, edits, typed>>
gaveUp == <<late, overtaken>>
vars  == <<panel, form, base, data, server, status, timer, pending, save, fetch,
           mounted, behind, gaveUp>>

NoSave == [at |-> "none", val |-> None]
Saves  == {NoSave} \cup [at: {"sent", "applied"}, val: Values]

NoFetch == [at |-> "none", val |-> None]
Asked   == [at |-> "asked", val |-> None]
Fetches == {NoFetch, Asked} \cup [at: {"read"}, val: Values]

Status == {"idle", "dirty", "invalid", "saving", "synced", "error"}

TypeOK ==
  /\ policy \in Policies
  /\ form \in Values /\ base \in Values /\ data \in Values /\ server \in Values
  /\ status \in Status
  /\ timer \in BOOLEAN /\ pending \in BOOLEAN
  /\ save \in Saves
  /\ fetch \in Fetches
  /\ late \subseteq Values
  /\ typed \in Values
  /\ mounted \in BOOLEAN /\ behind \in BOOLEAN /\ overtaken \in BOOLEAN
  /\ edits \in 0 .. MaxEdits

Saving == save # NoSave

Valid(v) == v \notin Invalid

-----------------------------------------------------------------------------
(* The hook. *)

\* performSave: one save at a time, and only of a valid form.
PerformSave ==
  \/ Saving /\ UNCHANGED <<save, status, behind>>
  \/ /\ ~ Saving /\ ~ Valid(form)
     /\ status' = "invalid"
     /\ UNCHANGED <<save, behind>>
  \/ /\ ~ Saving /\ Valid(form)
     /\ save' = [at |-> "sent", val |-> form]
     /\ status' = "saving"
     /\ behind' = FALSE

\* Variant: an edit during a save schedules another one.
ScheduleSaveAlways(v) ==
  \/ ~ Valid(v) /\ timer' = FALSE /\ status' = "invalid"
  \/ Valid(v) /\ timer' = TRUE /\ status' = "dirty"

\* Variant: an invalid form leaves the pending debounce and the status alone.
ScheduleSaveSilent(v) ==
  \/ (Saving \/ ~ Valid(v)) /\ UNCHANGED <<timer, status>>
  \/ ~ Saving /\ Valid(v) /\ timer' = TRUE /\ status' = "dirty"

\* scheduleSave: an edit during a save schedules nothing.
ScheduleSave(v) ==
  \/ Saving /\ UNCHANGED <<timer, status>>
  \/ ~ Saving /\ ~ Valid(v) /\ timer' = FALSE /\ status' = "invalid"
  \/ ~ Saving /\ Valid(v) /\ timer' = TRUE /\ status' = "dirty"

\* The watch subscription: the user changes a field.
Edit(v) ==
  /\ mounted
  /\ edits < MaxEdits
  /\ v # form
  /\ edits' = edits + 1
  /\ form' = v /\ typed' = v
  /\ pending' = TRUE
  /\ behind' = (behind \/ Saving)
  /\ ScheduleSave(v)
  /\ UNCHANGED <<policy, base, data, server, save, fetch, mounted, gaveUp>>

Debounced ==
  /\ timer
  /\ timer' = FALSE
  /\ PerformSave
  /\ UNCHANGED <<panel, gaveUp, form, base, data, server, pending, fetch, mounted>>

\* retry(), offered by the badge in error.
Retry ==
  /\ mounted /\ status = "error"
  /\ timer' = FALSE
  /\ PerformSave
  /\ UNCHANGED <<panel, gaveUp, form, base, data, server, pending, fetch, mounted>>

\* flush(), called by the drawers that close: only what is pending.
Flush ==
  /\ mounted /\ pending
  /\ timer' = FALSE
  /\ PerformSave
  /\ UNCHANGED <<panel, gaveUp, form, base, data, server, pending, fetch, mounted>>

\* Variant: leaving the page drops the scheduled save.
UnmountDrops ==
  /\ mounted
  /\ mounted' = FALSE
  /\ timer' = FALSE
  /\ pending' = FALSE
  /\ UNCHANGED <<panel, gaveUp, form, base, data, server, status, save, fetch, behind>>

\* The cleanup of the effect: what is pending is saved, unless a save is running.
Unmount ==
  /\ mounted
  /\ mounted' = FALSE
  /\ timer' = FALSE
  /\ \/ pending /\ PerformSave
     \/ ~ pending /\ UNCHANGED <<save, status, behind>>
  /\ UNCHANGED <<panel, gaveUp, form, base, data, server, pending, fetch>>

-----------------------------------------------------------------------------
(* The save and the refetch. *)

\* The server runs the PATCH.
Apply ==
  /\ save.at = "sent"
  /\ save' = [save EXCEPT !.at = "applied"]
  /\ server' = save.val
  /\ overtaken' = FALSE
  /\ UNCHANGED <<panel, form, base, data, status, timer, pending, fetch, mounted,
                 behind, late>>

\* The server runs a PATCH the client no longer waits for, whatever was saved
\* since; two with the same contents count as one.
ApplyLate(v) ==
  /\ v \in late
  /\ late' = late \ {v}
  /\ server' = v
  /\ overtaken' = TRUE
  /\ UNCHANGED <<panel, form, base, data, status, timer, pending, save, fetch,
                 mounted, behind>>

\* The mutation's onSuccess invalidates the query (a fetch in flight starts
\* over), then performSave takes what it saved as the baseline.
Succeed ==
  /\ save.at = "applied"
  /\ save' = NoSave
  /\ base' = save.val
  /\ pending' = FALSE
  /\ fetch' = Asked
  /\ status' = IF mounted THEN "synced" ELSE status
  /\ UNCHANGED <<panel, gaveUp, form, data, server, timer, mounted, behind>>

\* Variant: the catch clause does not touch the status.
CatchSilent ==
  /\ save' = NoSave
  /\ UNCHANGED <<panel, form, base, data, server, status, timer, pending, fetch,
                 mounted, behind, overtaken>>

\* The catch clause of performSave.
Catch ==
  /\ save' = NoSave
  /\ status' = IF mounted THEN "error" ELSE status
  /\ UNCHANGED <<panel, form, base, data, server, timer, pending, fetch, mounted,
                 behind, overtaken>>

\* The server refuses the request, or its answer is lost.
Fail ==
  /\ Saving
  /\ Catch
  /\ UNCHANGED late

\* The client stops waiting for a PATCH that is still on its way.
TimeOut ==
  /\ save.at = "sent"
  /\ Catch
  /\ late' = late \cup {save.val}

SyncedExpires ==
  /\ mounted /\ status = "synced"
  /\ status' = "idle"
  /\ UNCHANGED <<panel, gaveUp, form, base, data, server, timer, pending, save, fetch, mounted, behind>>

Read ==
  /\ fetch = Asked
  /\ fetch' = [at |-> "read", val |-> server]
  /\ UNCHANGED <<panel, gaveUp, form, base, data, server, status, timer, pending, save, mounted, behind>>

\* useInitializeForm, used by the account panels: only the first payload.
TakesOnce == FALSE

\* The rows of the workflow settings: only while the form is not dirty.
TakesPristine == form = base

\* The other panels (sales, billing, company, VAT, ...): whatever the user typed.
TakesAlways == TRUE

Takes ==
  \/ policy = "once" /\ TakesOnce
  \/ policy = "pristine" /\ TakesPristine
  \/ policy = "always" /\ TakesAlways

\* Variant: the form is reset while the payload is still on its way.
ArriveEarly ==
  /\ fetch # NoFetch
  /\ fetch' = NoFetch
  /\ data' = fetch.val
  /\ IF mounted /\ fetch.val # data /\ Takes
     THEN /\ form' = fetch.val /\ base' = fetch.val
          /\ behind' = (behind \/ Saving)
     ELSE UNCHANGED <<form, base, behind>>
  /\ UNCHANGED <<panel, gaveUp, server, status, timer, pending, save, mounted>>

\* The payload arrives.  Equal data keeps its identity in the cache, so the
\* effect that resets the form runs only on a change.  The hook ignores the
\* reset: status, timer and pending stay.
Arrive ==
  /\ fetch.at = "read"
  /\ fetch' = NoFetch
  /\ data' = fetch.val
  /\ IF mounted /\ fetch.val # data /\ Takes
     THEN /\ form' = fetch.val /\ base' = fetch.val
          /\ behind' = (behind \/ Saving)
     ELSE UNCHANGED <<form, base, behind>>
  /\ UNCHANGED <<panel, gaveUp, server, status, timer, pending, save, mounted>>

-----------------------------------------------------------------------------
Init ==
  /\ policy \in Policies
  /\ form \in Values \ Invalid
  /\ base = form /\ data = form /\ server = form
  /\ status = "idle"
  /\ timer = FALSE /\ pending = FALSE
  /\ save = NoSave /\ fetch = NoFetch
  /\ mounted = TRUE /\ behind = FALSE
  /\ late = {} /\ overtaken = FALSE
  /\ typed = form /\ edits = 0

Next ==
  \/ \E v \in Values : Edit(v)
  \/ Debounced
  \/ Retry
  \/ Flush
  \/ Unmount
  \/ Apply
  \/ Succeed
  \/ Fail
  \/ TimeOut
  \/ \E v \in Values : ApplyLate(v)
  \/ SyncedExpires
  \/ Read
  \/ Arrive

\* Timers fire once the user pauses (edits are bounded) and the client waits for
\* no save for ever: 15 s is its timeout.  Nothing makes the server run a PATCH.
Fairness ==
  /\ WF_vars(Debounced)
  /\ WF_vars(Succeed \/ Fail \/ TimeOut)

Spec == Init /\ [][Next]_vars /\ Fairness

-----------------------------------------------------------------------------
(* Properties. *)

\* useUnsavedChangesGuard: the browser asks before the tab closes.
Warns == status \in {"dirty", "saving", "invalid"}

\* The tab is never left without a warning while the form differs from what the
\* server has, unless the badge shows the error, the form changed behind a save,
\* or a save that was given up on ran after the last one.  Text that a refetch
\* took out of the form is not the form's any more: EditsSettle names that case.
LeavingIsWarned ==
  mounted /\ server # form /\ ~ behind /\ ~ overtaken => Warns \/ status = "error"

\* hasPendingChangesRef tells the truth, mounted or not: when it is down, the
\* server has the form, up to a change behind a save and to a save that was given
\* up on and ran later.
NothingForgotten ==
  ~ pending /\ ~ behind /\ ~ overtaken => server = form

\* The client never has two saves out that it waits for, nor one scheduled beside
\* one running.  A save it gave up on is not counted: the server may run it later.
OneWriter == timer => ~ Saving /\ mounted /\ pending

\* What the user typed while no save ran reaches the server, or is refused by the
\* validation or reported as an error, unless the user types something else or
\* leaves, a refetch takes it out of the form, or an older save that was given up
\* on overwrites the row.  An edit typed during a save has no such guarantee
\* (behind): EditsDuringSaveScheduled below.
EditsSettle ==
  \A v \in Values :
    (typed = v /\ server # v /\ ~ behind /\ ~ overtaken) ~>
      \/ server = v
      \/ status \in {"invalid", "error"}
      \/ typed # v \/ ~ mounted \/ behind
      \/ form # v \/ overtaken

\* docs/20-contracts/autosave-contract.md: "ediciones durante `saving` agendan un
\* nuevo ciclo al concluir".  An edit may therefore never end in a quiet panel.
EditsDuringSaveScheduled ==
  mounted /\ ~ Saving /\ ~ timer /\ status \in {"idle", "synced"} => server = form

\* The same contract: "si un save está en vuelo, no se programa otro hasta que
\* termina".  For the server a save that the client gave up on has not ended.
NoConcurrency == Saving => late = {}

\* docs/20-contracts/component-form-patterns.md keeps form.reset() out of effects;
\* useInitializeForm resets once.  What the user typed would then stay in the form.
TypedStays == form = typed

=============================================================================
