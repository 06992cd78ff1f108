---------------------------- MODULE InvoiceLedger ----------------------------
(***************************************************************************)
(* What the annual-invoice module promises, with nothing said about        *)
(* requests, queries or commits: a book of issued invoices.  Closing a run *)
(* enters its invoices in the book, all of them at once, numbered one      *)
(* after the other with numbers the book has never held; a closed run is   *)
(* never closed again and an entry is never struck out or changed          *)
(* (app/models.py, InvoiceRun: "permanent invoice numbers ... numbering    *)
(* only happens once, at finalization").                                   *)
(***************************************************************************)
EXTENDS Integers, FiniteSets

CONSTANTS
    Runs,      \* invoice runs
    Parcels,   \* parcels, identified with their rank in plot-number order
    Year,      \* Year[r] is the year run r bills
    Numbers    \* the displayed invoice numbers

VARIABLES
    book,      \* the entries: [run, parcel, number, seq, lines] records
    closed     \* the runs that have been finalized

vars == <<book, closed>>

Init == book = {} /\ closed = {}

\* The parcels of a batch are numbered in plot order, without gaps, from some
\* first sequence number on.
Consecutive(batch) ==
    \A i, j \in batch :
        LET between == {k \in batch : i.parcel < k.parcel /\ k.parcel <= j.parcel}
        IN  i.parcel < j.parcel => j.seq - i.seq = Cardinality(between)

OneEntryPerParcel(batch) ==
    \A i, j \in batch : i.parcel = j.parcel => i = j

Close(r, batch) ==
    /\ r \notin closed
    /\ \A e \in batch : e.run = r /\ e.parcel \in Parcels /\ e.number \in Numbers
    /\ OneEntryPerParcel(batch)
    /\ Consecutive(batch)
    /\ \A e \in batch : \A old \in book :
           /\ e.number # old.number
           /\ Year[old.run] = Year[r] => e.seq # old.seq
    /\ book' = book \cup batch
    /\ closed' = closed \cup {r}

Next == \E r \in Runs : Close(r, book' \ book)

Spec == Init /\ [][Next]_vars
=============================================================================
