------------------------------ MODULE MonthLock ------------------------------
(***************************************************************************)
(* What the two locks of a month promise its books: they close one after   *)
(* the other, the tax period first, and once both are closed nothing is    *)
(* written to the books of the month any more.  A month whose books are    *)
(* closed does not open again, because each of the two reopenings demands  *)
(* that the other lock be open.                                            *)
(***************************************************************************)

CONSTANTS Months, Postings

VARIABLES
  phase,  \* how far each month is closed
  books   \* what is posted in each month

Move(m, from, to) ==
  /\ phase[m] = from
  /\ phase' = [phase EXCEPT ![m] = to]
  /\ UNCHANGED books

CloseTax(m)   == Move(m, "open", "taxed")
ReopenTax(m)  == Move(m, "taxed", "open")
CloseBooks(m) == Move(m, "taxed", "closed")

Write(m) ==
  /\ phase[m] # "closed"
  /\ books' \in [Months -> SUBSET Postings]
  /\ \A n \in Months \ {m} : books'[n] = books[n]
  /\ UNCHANGED phase

Init ==
  /\ phase = [m \in Months |-> "open"]
  /\ books = [m \in Months |-> {}]

Next == \E m \in Months : CloseTax(m) \/ ReopenTax(m) \/ CloseBooks(m) \/ Write(m)

Spec == Init /\ [][Next]_<<phase, books>>
=============================================================================
