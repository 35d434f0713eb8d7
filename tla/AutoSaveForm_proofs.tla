------------------------- MODULE AutoSaveForm_proofs -------------------------
(***************************************************************************)
(* Theorems about AutoSaveForm, for any contents, validation and policy.   *)
(***************************************************************************)
EXTENDS AutoSaveForm, TLAPS

\* What the hook's refs and status say about the data.
\* A save runs under status "saving", with the pending mark up, and carries the
\* form unless the form changed behind it; what the server ran is the save, unless
\* one that was given up on came after it.
SaveInFlight ==
  Saving => /\ pending /\ status = "saving" /\ ~ timer
            /\ ~ behind => save.val = form
            /\ save.at = "applied" /\ ~ overtaken => server = save.val

\* Quiet statuses mean that nothing is pending.
QuietIsClean == mounted /\ status \in {"idle", "synced"} => ~ pending

\* An error is pending, and "saving" is shown only while a save runs.
ErrorIsPending == mounted /\ status = "error" => pending
SavingShown    == mounted /\ status = "saving" => Saving

\* A payload read from the server is current unless something is pending or a
\* save that was given up on ran.
FetchIsCurrent == fetch.at = "read" /\ ~ pending /\ ~ overtaken => fetch.val = server

\* The refs of the hook that are flags, apart from the data they speak about.
Flags == timer \in BOOLEAN /\ pending \in BOOLEAN /\ mounted \in BOOLEAN
         /\ behind \in BOOLEAN /\ overtaken \in BOOLEAN

Data ==
  /\ policy \in Policies
  /\ form \in Values /\ base \in Values /\ data \in Values /\ server \in Values
  /\ typed \in Values /\ late \subseteq Values
  /\ status \in Status /\ save \in Saves /\ fetch \in Fetches
  /\ edits \in 0 .. MaxEdits

Meaning ==
  /\ SaveInFlight /\ QuietIsClean /\ ErrorIsPending /\ SavingShown
  /\ FetchIsCurrent /\ OneWriter /\ NothingForgotten

IInv == Flags /\ Data /\ Meaning

LEMMA InitIInv == Init => IInv
<1> SUFFICES ASSUME Init PROVE Flags /\ Data /\ Meaning
  BY DEF IInv
<1> USE ValuesAssumption, EditsAssumption DEF Flags, Data, Meaning, SaveInFlight, QuietIsClean, ErrorIsPending,
        SavingShown, FetchIsCurrent, OneWriter, NothingForgotten, Saving, NoSave, NoFetch,
        Asked, Saves, Fetches, Status, panel, gaveUp, Valid
<1>1. Flags
  BY DEF Init
<1>2. Data
  BY DEF Init
<1>3. Meaning
  BY DEF Init
<1> QED
  BY <1>1, <1>2, <1>3

LEMMA StepIInv == IInv /\ [Next]_vars => IInv'
<1> SUFFICES ASSUME Flags, Data, Meaning, [Next]_vars PROVE (Flags /\ Data /\ Meaning)'
  BY DEF IInv
<1> USE ValuesAssumption, EditsAssumption
    DEF Flags, Data, Meaning, SaveInFlight, QuietIsClean, ErrorIsPending,
        SavingShown, FetchIsCurrent, OneWriter, NothingForgotten, Saving, NoSave, NoFetch,
        Asked, Saves, Fetches, Status, panel, gaveUp, Valid
<1>1. ASSUME NEW v \in Values, Edit(v) PROVE (Flags /\ Data /\ Meaning)'
  <2>1. Flags'
    BY <1>1 DEF Edit, ScheduleSave
  <2>2. Data'
    BY <1>1 DEF Edit, ScheduleSave
  <2>3. Meaning'
    BY <1>1 DEF Edit, ScheduleSave
  <2> QED
    BY <2>1, <2>2, <2>3
<1>2. CASE Debounced
  <2>1. Flags'
    BY <1>2 DEF Debounced, PerformSave
  <2>2. Data'
    BY <1>2 DEF Debounced, PerformSave
  <2>3. Meaning'
    BY <1>2 DEF Debounced, PerformSave
  <2> QED
    BY <2>1, <2>2, <2>3
<1>3. CASE Retry
  <2>1. Flags'
    BY <1>3 DEF Retry, PerformSave
  <2>2. Data'
    BY <1>3 DEF Retry, PerformSave
  <2>3. Meaning'
    BY <1>3 DEF Retry, PerformSave
  <2> QED
    BY <2>1, <2>2, <2>3
<1>4. CASE Flush
  <2>1. Flags'
    BY <1>4 DEF Flush, PerformSave
  <2>2. Data'
    BY <1>4 DEF Flush, PerformSave
  <2>3. Meaning'
    BY <1>4 DEF Flush, PerformSave
  <2> QED
    BY <2>1, <2>2, <2>3
<1>5. CASE Unmount
  <2>1. Flags'
    BY <1>5 DEF Unmount, PerformSave
  <2>2. Data'
    BY <1>5 DEF Unmount, PerformSave
  <2>3. Meaning'
    BY <1>5 DEF Unmount, PerformSave
  <2> QED
    BY <2>1, <2>2, <2>3
<1>6. CASE Apply
  <2>1. Flags'
    BY <1>6 DEF Apply
  <2>2. Data'
    BY <1>6 DEF Apply
  <2>3. Meaning'
    BY <1>6 DEF Apply
  <2> QED
    BY <2>1, <2>2, <2>3
<1>7. CASE Succeed
  <2>1. Flags'
    BY <1>7 DEF Succeed
  <2>2. Data'
    BY <1>7 DEF Succeed
  <2>3. Meaning'
    BY <1>7 DEF Succeed
  <2> QED
    BY <2>1, <2>2, <2>3
<1>8. CASE Fail
  <2>1. Flags'
    BY <1>8 DEF Fail, Catch
  <2>2. Data'
    BY <1>8 DEF Fail, Catch
  <2>3. Meaning'
    BY <1>8 DEF Fail, Catch
  <2> QED
    BY <2>1, <2>2, <2>3
<1>9. CASE SyncedExpires
  <2>1. Flags'
    BY <1>9 DEF SyncedExpires
  <2>2. Data'
    BY <1>9 DEF SyncedExpires
  <2>3. Meaning'
    BY <1>9 DEF SyncedExpires
  <2> QED
    BY <2>1, <2>2, <2>3
<1>10. CASE Read
  <2>1. Flags'
    BY <1>10 DEF Read
  <2>2. Data'
    BY <1>10 DEF Read
  <2>3. Meaning'
    BY <1>10 DEF Read
  <2> QED
    BY <2>1, <2>2, <2>3
<1>11. CASE Arrive
  <2>1. Flags'
    BY <1>11 DEF Arrive
  <2>2. Data'
    BY <1>11 DEF Arrive
  <2>3. Meaning'
    BY <1>11 DEF Arrive
  <2> QED
    BY <2>1, <2>2, <2>3
<1>12. CASE TimeOut
  <2>1. Flags'
    BY <1>12 DEF TimeOut, Catch
  <2>2. Data'
    BY <1>12 DEF TimeOut, Catch
  <2>3. Meaning'
    BY <1>12 DEF TimeOut, Catch
  <2> QED
    BY <2>1, <2>2, <2>3
<1>13. ASSUME NEW v \in Values, ApplyLate(v) PROVE (Flags /\ Data /\ Meaning)'
  <2>1. Flags'
    BY <1>13 DEF ApplyLate
  <2>2. Data'
    BY <1>13 DEF ApplyLate
  <2>3. Meaning'
    BY <1>13 DEF ApplyLate
  <2> QED
    BY <2>1, <2>2, <2>3
<1>14. CASE UNCHANGED vars
  <2>1. Flags'
    BY <1>14 DEF vars
  <2>2. Data'
    BY <1>14 DEF vars
  <2>3. Meaning'
    BY <1>14 DEF vars
  <2> QED
    BY <2>1, <2>2, <2>3
<1> QED
  BY <1>1, <1>2, <1>3, <1>4, <1>5, <1>6, <1>7, <1>8, <1>9, <1>10, <1>11, <1>12, <1>13, <1>14
  DEF Next

LEMMA AlwaysIInv == Spec => []IInv
  BY InitIInv, StepIInv, PTL DEF Spec

\* The state of the hook has its type.
THEOREM TypeCorrect == Spec => []TypeOK
<1>1. IInv => TypeOK
  BY DEF IInv, Flags, Data, TypeOK
<1> QED
  BY <1>1, AlwaysIInv, PTL

\* A scheduled save and one the client waits for exclude each other.  It says
\* nothing of the order at the server, where a save given up on may still run.
THEOREM OneWriterAlways == Spec => []OneWriter
<1>1. IInv => OneWriter
  BY DEF IInv, Meaning
<1> QED
  BY <1>1, AlwaysIInv, PTL

\* When nothing is marked pending, the server has the form, up to a change
\* behind a save and to a save that was given up on and ran later.
THEOREM PendingIsTrue == Spec => []NothingForgotten
<1>1. IInv => NothingForgotten
  BY DEF IInv, Meaning
<1> QED
  BY <1>1, AlwaysIInv, PTL

\* An unsaved form is never left without a warning, up to the same two cases.
THEOREM LeavingWarned == Spec => []LeavingIsWarned
<1>1. IInv => LeavingIsWarned
  BY DEF IInv, Data, Meaning, Status, QuietIsClean, NothingForgotten, LeavingIsWarned, Warns
<1> QED
  BY <1>1, AlwaysIInv, PTL
=============================================================================
