------------------------------ MODULE Metering ------------------------------
(***************************************************************************)
(* Metering points, their meters and the yearly readings of one medium     *)
(* (app/routers/metering.py, app/routers/api_metering.py,                  *)
(* app/meter_utils.py), and what the annual invoices charge by them        *)
(* (app/invoice_generation.py).                                            *)
(*                                                                         *)
(* Recording a reading and exchanging a meter decide on rows read earlier: *)
(* they are a load and a commit, with other requests in between.  A meter  *)
(* is identified by its number, which is unique over all points.           *)
(***************************************************************************)
EXTENDS Integers, FiniteSetsExt

CONSTANTS
    Points,    \* identities of metering points
    Meters,    \* numbers of meters
    Years,     \* years readings are recorded for
    Values,    \* values typed in for readings
    Initials,  \* values typed in for initial readings
    Fitters,   \* requests in flight at the same time
    None       \* null

VARIABLES
    point,    \* points that exist
    meter,    \* the rows of meters
    reading,  \* meter_readings.reading of each meter and year, or Blank
    fitter,   \* what each exchange or recording in flight has read and decided
    tangled,  \* meters and points written by a request that had read older rows
    billed    \* HISTORY: usage on invoices, its readings unchanged since

vars == <<point, meter, reading, fitter, tangled, billed>>

Blank == None   \* no row
NoMeter == [point |-> None, active |-> FALSE, initial |-> 0]
Idle == [at |-> "idle"]

Init ==
    /\ point = {}
    /\ meter = [m \in Meters |-> NoMeter]
    /\ reading = [m \in Meters |-> [y \in Years |-> Blank]]
    /\ fitter = [f \in Fitters |-> Idle]
    /\ tangled = {}
    /\ billed = {}
-----------------------------------------------------------------------------
MetersOf(p) == {m \in Meters : meter[m].point = p}

ActiveMeters(p) == {m \in MetersOf(p) : meter[m].active}

\* current_meter takes the first active meter; the rows come in no order.
CurrentMeters(p) == IF ActiveMeters(p) = {} THEN {None} ELSE ActiveMeters(p)

Recorded(m) == {y \in Years : reading[m][y] # Blank}

YearBeforeOnly(m, y) ==   \* MUTANT of ReadingBefore
    IF y - 1 \in Recorded(m) THEN reading[m][y - 1] ELSE meter[m].initial

\* The last reading before the year, however long ago, or the initial one.
ReadingBefore(m, y) ==
    LET earlier == {x \in Recorded(m) : x < y} IN
    IF earlier = {} THEN meter[m].initial ELSE reading[m][Max(earlier)]

\* The value is not above the next recorded one.
BelowReadingAfter(m, y, value) ==
    LET later == {x \in Recorded(m) : x > y} IN
    later # {} => value <= reading[m][Min(later)]

NeverBelowPrevious(m, y, value) ==   \* MUTANT of Plausible
    ReadingBefore(m, y) <= value

Plausible(m, y, value) == ReadingBefore(m, y) <= value /\ BelowReadingAfter(m, y, value)

\* calculate_consumption charges the reading of the year less the one before.
Bill(m, y) == [meter |-> m, year |-> y, from |-> ReadingBefore(m, y), to |-> reading[m][y]]

\* The bills none of whose readings, of their year or before, is changed now.
Unchanged(bills) ==
    {b \in bills : \A y \in Years :
        y <= b.year => reading'[b.meter][y] = reading[b.meter][y]}
-----------------------------------------------------------------------------
Start(f, q) == fitter[f] = Idle /\ fitter' = [fitter EXCEPT ![f] = q]

\* Requests in flight that hold rows of meter m have an old picture of it.
Finish(f, m, p) ==
    fitter' = [g \in Fitters |->
                 IF g = f THEN Idle
                 ELSE IF fitter[g].at = "recording" /\ fitter[g].meter = m
                 THEN [fitter[g] EXCEPT !.stale = TRUE]
                 ELSE IF fitter[g].at = "exchange" /\ fitter[g].point = p
                 THEN [fitter[g] EXCEPT !.stale = TRUE]
                 ELSE fitter[g]]

Rollback(f) ==
    /\ fitter' = [fitter EXCEPT ![f] = Idle]
    /\ UNCHANGED <<point, meter, reading, tangled, billed>>

\* The point and its first meter are one commit; a number in use undoes both.
MeteringPointCreate(p, m, initial) ==
    /\ p \notin point /\ meter[m] = NoMeter
    /\ point' = point \cup {p}
    /\ meter' = [meter EXCEPT ![m] = [point |-> p, active |-> TRUE, initial |-> initial]]
    /\ UNCHANGED <<reading, fitter, tangled, billed>>

\* Its meters and their readings go with it.
MeteringPointDelete(p) ==
    /\ p \in point
    /\ point' = point \ {p}
    /\ meter' = [m \in Meters |-> IF m \in MetersOf(p) THEN NoMeter ELSE meter[m]]
    /\ reading' = [m \in Meters |->
                     IF m \in MetersOf(p) THEN [y \in Years |-> Blank] ELSE reading[m]]
    /\ fitter' = [f \in Fitters |->
                    IF fitter[f] # Idle /\ fitter[f].point = p
                    THEN [fitter[f] EXCEPT !.lost = TRUE] ELSE fitter[f]]
    /\ tangled' = tangled \ ({p} \cup MetersOf(p))
    /\ billed' = Unchanged(billed)

\* An exchange has no final reading of the old meter.
ExchangeLoad(f, p, old, new, initial) ==
    /\ p \in point /\ old \in CurrentMeters(p)
    /\ Start(f, [at |-> "exchange", point |-> p, old |-> old, new |-> new,
                 initial |-> initial, stale |-> FALSE, lost |-> FALSE])
    /\ UNCHANGED <<point, meter, reading, tangled, billed>>

ExchangeKeepingOld(f) ==   \* MUTANT of ExchangeCommit
    LET q == fitter[f] IN
    /\ q.at = "exchange" /\ ~q.lost /\ meter[q.new] = NoMeter
    /\ meter' = [meter EXCEPT ![q.new] = [point |-> q.point, active |-> TRUE,
                                          initial |-> q.initial]]
    /\ fitter' = [fitter EXCEPT ![f] = Idle]
    /\ UNCHANGED <<point, reading, tangled, billed>>

\* Deactivates the meter that was current when the point was read.
ExchangeCommit(f) ==
    LET q == fitter[f] IN
    /\ q.at = "exchange"
    /\ IF ~q.lost /\ meter[q.new] = NoMeter
       THEN /\ meter' = [m \in Meters |->
                 IF m = q.new THEN [point |-> q.point, active |-> TRUE, initial |-> q.initial]
                 ELSE IF m = q.old THEN [meter[m] EXCEPT !.active = FALSE]
                 ELSE meter[m]]
            /\ tangled' = IF q.stale THEN tangled \cup {q.point} ELSE tangled
            /\ Finish(f, None, q.point)
            /\ UNCHANGED <<point, reading, billed>>
       ELSE Rollback(f)

\* Compared with the readings before and after; an existing one is changed.
ReadingLoad(f, p, m, y, value) ==
    /\ p \in point /\ m \in ActiveMeters(p)
    /\ Plausible(m, y, value)
    /\ Start(f, [at |-> "recording", point |-> p, meter |-> m, year |-> y, value |-> value,
                 seen |-> reading[m][y], stale |-> FALSE, lost |-> FALSE])
    /\ UNCHANGED <<point, meter, reading, tangled, billed>>

\* An insert fails on a row of that year, an update on a row that is gone; an
\* unchanged value is not written.
ReadingCommit(f) ==
    LET q == fitter[f]
        m == q.meter
        y == q.year
    IN
    /\ q.at = "recording"
    /\ IF ~q.lost /\ (q.seen = Blank <=> reading[m][y] = Blank)
       THEN /\ reading' = [reading EXCEPT ![m][y] = IF q.value # q.seen THEN q.value ELSE @]
            /\ tangled' = IF q.stale THEN tangled \cup {m} ELSE tangled
            /\ Finish(f, m, None)
            /\ billed' = Unchanged(billed)
            /\ UNCHANGED <<point, meter>>
       ELSE Rollback(f)

\* A row deleted here can only leave a gap.
ReadingDelete(m, y) ==
    /\ reading[m][y] # Blank
    /\ reading' = [reading EXCEPT ![m][y] = Blank]
    /\ fitter' = [f \in Fitters |->
                    IF fitter[f].at = "recording" /\ fitter[f].meter = m
                    THEN [fitter[f] EXCEPT !.stale = TRUE] ELSE fitter[f]]
    /\ billed' = Unchanged(billed)
    /\ UNCHANGED <<point, meter, tangled>>

\* Finalizing a run charges the current meter of each point it covers, if it was
\* read that year.  Nothing here reads what it writes, so that it may be one
\* step, at the moment it has read the readings.
RunFinalize(y, chosen) ==
    /\ chosen # {} /\ \A m \in chosen : meter[m].active /\ reading[m][y] # Blank
    /\ \A m, n \in chosen : meter[m].point = meter[n].point => m = n
    /\ billed' = billed \cup {Bill(m, y) : m \in chosen}
    /\ UNCHANGED <<point, meter, reading, fitter, tangled>>
-----------------------------------------------------------------------------
Next ==
    \/ \E p \in Points, m \in Meters, initial \in Initials : MeteringPointCreate(p, m, initial)
    \/ \E p \in Points : MeteringPointDelete(p)
    \/ \E f \in Fitters, p \in Points, new \in Meters, initial \in Initials :
          \E old \in CurrentMeters(p) : ExchangeLoad(f, p, old, new, initial)
    \/ \E f \in Fitters, p \in Points, m \in Meters, y \in Years, value \in Values :
          ReadingLoad(f, p, m, y, value)
    \/ \E f \in Fitters : ExchangeCommit(f) \/ ReadingCommit(f)
    \/ \E m \in Meters, y \in Years : ReadingDelete(m, y)
    \/ \E y \in Years, chosen \in SUBSET Meters : RunFinalize(y, chosen)

Spec == Init /\ [][Next]_vars
-----------------------------------------------------------------------------
\* The readings of a meter do not decrease from year to year and never fall
\* below its initial one, unless a recording committed after another change of
\* the meter's readings had overtaken it: corrections and late entries of
\* earlier years, deletions and exchanges in any order included.
ReadingsGrow ==
    \A m \in Meters \ tangled : \A y \in Recorded(m) :
        /\ meter[m].initial <= reading[m][y]
        /\ \A x \in Recorded(m) : x < y => reading[m][x] <= reading[m][y]

\* A point has one active meter, unless two of its exchanges overlapped:
\* evaluation, list and recording all use the first one they come across.
OneActiveMeter ==
    \A p \in point \ tangled : Cardinality(ActiveMeters(p)) = 1

\* The invoices of a meter fit together as long as nobody changes, enters or
\* deletes a reading they were made from: in whichever order the years are
\* finalized, however often, and whatever years were not read, no invoice takes
\* money back, no unit is on the invoices of two years, and between the invoices
\* of years with no recorded one in between no unit is left out.  (An exchanged
\* meter is billed no more: what it had counted by then may be on no invoice.)
BillsFitTogether ==
    \A a, b \in billed : a.meter = b.meter /\ a.meter \notin tangled =>
        /\ a.from <= a.to
        /\ a.year = b.year => a.from = b.from /\ a.to = b.to
        /\ a.year < b.year =>
              /\ a.to <= b.from
              /\ (\A y \in Recorded(a.meter) : ~(a.year < y /\ y < b.year)) => a.to = b.from
=============================================================================
