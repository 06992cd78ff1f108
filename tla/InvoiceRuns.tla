----------------------------- MODULE InvoiceRuns -----------------------------
(***************************************************************************)
(* Annual invoices (app/routers/finances.py, app/invoice_generation.py):   *)
(* runs and their item definitions while DRAFT, and the finalization that  *)
(* numbers and stores one invoice per billable parcel.                     *)
(*                                                                         *)
(* A request is one coroutine with one database session (app/database.py). *)
(* The transactions are READ COMMITTED and no row is locked between a read *)
(* and the commit, so a handler is a sequence of steps: what it has read   *)
(* so far is kept in req[w], what it writes becomes visible in its last    *)
(* step.  A handler that only answers with a page or an error leaves every *)
(* variable unchanged and has no action.                                   *)
(***************************************************************************)
EXTENDS Integers, FiniteSets

CONSTANTS
    Runs,          \* identities (uuids) of invoice runs
    Year,          \* Year[r]: the year run r is created for
    Parcels,       \* parcels, numbered in plot-number order
    Movable,       \* parcels whose tenants change meanwhile
    Purgeable,     \* parcels somebody may delete permanently
    MaxItems,      \* BOUND: item definitions ever created
    Forms,         \* what is entered in the item form
    Edits,         \* what is entered in the edit form of an item
    Overrides,     \* values typed as starting number of a run
    Starts,        \* values of the setting invoice_number_start
    Formats,       \* values of the setting invoice_number_format
    YearFormats,   \* the formats that contain {year}
    DefaultFormat, \* DEFAULT_INVOICE_NUMBER_FORMAT, "{year}/{number}"
    Workers,       \* requests that may be in flight at the same time
    NoRun,         \* null for a run
    AnyYear        \* the year part of a number whose format has no {year}

ASSUME YearAssumption == Year \in [Runs -> Nat]
ASSUME ParcelAssumption ==
    Parcels \subseteq Nat /\ IsFiniteSet(Parcels) /\ Purgeable \subseteq Parcels /\ Movable \subseteq Parcels
\* A definition holds which parcels it is for and whether its pricing mode
\* yields a quantity and a price at all; its scope cannot be edited.
ASSUME ItemAssumption ==
    /\ MaxItems \in Nat
    /\ Forms \subseteq [all : BOOLEAN, scope : SUBSET Parcels, priced : BOOLEAN]
    /\ Edits \subseteq [all : BOOLEAN, priced : BOOLEAN]
ASSUME NumberAssumption == Overrides \subseteq Nat /\ Starts \subseteq Int
ASSUME FormatAssumption == YearFormats \subseteq Formats /\ DefaultFormat \in YearFormats
ASSUME NullAssumption == NoRun \notin Runs /\ AnyYear \notin Nat

VARIABLES
    status,    \* invoice_runs.status, and whether the row exists
    override,  \* invoice_runs.starting_sequence_override
    items,     \* invoice_item_definitions with their parcel scopes
    invoices,  \* invoices with their line items
    billable,  \* ACTIVE parcels with a current invoice-address resident
    parcels,   \* the rows of the table parcels
    format,    \* club_settings invoice_number_format (valid, or the default)
    firstSeq,  \* club_settings invoice_number_start (a number, or 1)
    req,       \* what each request in flight has read
    issued,    \* HISTORY: every invoice ever stored
    edited,    \* HISTORY: definitions changed since request w has read them
    moved      \* HISTORY: parcels whose tenants changed since w has read them

vars == <<status, override, items, invoices, billable, parcels, format,
          firstSeq, req, issued, edited, moved>>

ItemIds == 1..MaxItems
NoOverride == -1
RunStatus == {"unborn", "DRAFT", "FINALIZED", "deleted"}

ItemFields == [state : {"unborn", "live", "gone"}, run : Runs \cup {NoRun},
               all : BOOLEAN, scope : SUBSET Parcels, priced : BOOLEAN]

\* A row that exists or existed belongs to a run.
ItemRow == {i \in ItemFields : i.state # "unborn" => i.run \in Runs}

Blank == [state |-> "unborn", run |-> NoRun, all |-> FALSE, scope |-> {}, priced |-> FALSE]

\* The displayed number, str.format(year=..., number=...): {number} always
\* occurs in a valid format, {year} may be missing.
InvoiceNumber(f, y, n) == <<f, IF f \in YearFormats THEN y ELSE AnyYear, n>>

Numbers == Formats \X (Nat \cup {AnyYear}) \X Int

Invoice == [run : Runs, parcel : Parcels, number : Numbers, seq : Int,
            lines : SUBSET ItemIds]

Stages == {"idle", "delete", "sequence", "item_create", "copy", "item_edit",
           "fin_loaded", "fin_computed", "fin_numbered"}

RequestFields == [at : Stages, run : Runs \cup {NoRun}, item : ItemIds \cup {0},
                  rows : [ItemIds -> ItemRow], form : ItemRow,
                  old : Overrides \cup {NoOverride}, over : Overrides \cup {NoOverride},
                  lines : [Parcels -> SUBSET ItemIds], format : Formats, start : Int]

\* A request in flight is about a run.
Request == {q \in RequestFields : q.at # "idle" => q.run \in Runs}

Idle == [at |-> "idle", run |-> NoRun, item |-> 0,
         rows |-> [i \in ItemIds |-> Blank], form |-> Blank,
         old |-> NoOverride, over |-> NoOverride,
         lines |-> [p \in Parcels |-> {}], format |-> DefaultFormat, start |-> 0]

TypeOK ==
    /\ status \in [Runs -> RunStatus]
    /\ override \in [Runs -> Overrides \cup {NoOverride}]
    /\ items \in [ItemIds -> ItemRow]
    /\ invoices \subseteq Invoice
    /\ billable \subseteq Parcels
    /\ parcels \subseteq Parcels
    /\ format \in Formats
    /\ firstSeq \in Starts \cup {1}
    /\ req \in [Workers -> Request]
    /\ issued \subseteq Invoice
    /\ edited \in [Workers -> SUBSET ItemIds]
    /\ moved \in [Workers -> SUBSET Parcels]

Init ==
    /\ status = [r \in Runs |-> "unborn"]
    /\ override = [r \in Runs |-> NoOverride]
    /\ items = [i \in ItemIds |-> Blank]
    /\ invoices = {}
    /\ billable \in SUBSET Parcels
    /\ parcels = Parcels
    /\ format = DefaultFormat
    /\ firstSeq = 1
    /\ req = [w \in Workers |-> Idle]
    /\ issued = {}
    /\ edited = [w \in Workers |-> {}]
    /\ moved = [w \in Workers |-> {}]
-----------------------------------------------------------------------------
(***************************************************************************)
(* Reading and ending a request.                                           *)
(***************************************************************************)
Exists(r) == status[r] \in {"DRAFT", "FINALIZED"}

Definitions(r) == {i \in ItemIds : items[i].state = "live" /\ items[i].run = r}

\* The definitions of r as selectinload returns them, blank elsewhere.
RowsOf(r) == [i \in ItemIds |-> IF i \in Definitions(r) THEN items[i] ELSE Blank]

Loaded(rows) == {i \in ItemIds : rows[i].state = "live"}

Unborn == {i \in ItemIds : items[i].state = "unborn"}

First(S, i) == i \in S /\ \A j \in S : i <= j

RankReversed(S, i) == Cardinality({j \in S : j >= i})   \* MUTANT of Rank

\* The position of i in S, counted from 1.
Rank(S, i) == Cardinality({j \in S : j <= i})

Begin(w, r) == req[w] = Idle /\ req' = [req EXCEPT ![w] = r]

\* A request that takes effect in one step: it reads nothing that it uses after
\* another request could have come in between.
OneStep == (\E w \in Workers : req[w] = Idle) /\ UNCHANGED req

End(w) == req' = [req EXCEPT ![w] = Idle]

\* A database error (unique or foreign-key violation, stale row) is not caught:
\* the session is rolled back and the request answers 500.
Rollback(w) ==
    /\ End(w)
    /\ UNCHANGED <<status, override, items, invoices, billable, parcels,
                   format, firstSeq, issued>>
-----------------------------------------------------------------------------
(***************************************************************************)
(* Runs.                                                                   *)
(***************************************************************************)
RunCreate(r, o) ==
    /\ status[r] = "unborn"
    /\ status' = [status EXCEPT ![r] = "DRAFT"]
    /\ override' = [override EXCEPT ![r] = o]
    /\ OneStep
    /\ UNCHANGED <<items, invoices, billable, parcels, format, firstSeq, issued>>

RunDeleteLoadAnyStatus(w, r) ==   \* MUTANT of RunDeleteLoad
    /\ Exists(r)
    /\ Begin(w, [Idle EXCEPT !.at = "delete", !.run = r])
    /\ UNCHANGED <<status, override, items, invoices, billable, parcels,
                   format, firstSeq, issued>>

RunDeleteLoad(w, r) ==
    /\ status[r] = "DRAFT"
    /\ Begin(w, [Idle EXCEPT !.at = "delete", !.run = r])
    /\ UNCHANGED <<status, override, items, invoices, billable, parcels,
                   format, firstSeq, issued>>

InvoicesStayWithRow(r) == invoices   \* MUTANT of InvoicesWithout

InvoicesWithout(r) == {e \in invoices : e.run # r}

\* ON DELETE CASCADE takes whatever hangs on the run by then.
RunDeleteCommit(w) ==
    LET r == req[w].run IN
    /\ req[w].at = "delete"
    /\ status' = [status EXCEPT ![r] = "deleted"]
    /\ items' = [i \in ItemIds |-> IF i \in Definitions(r)
                                   THEN [items[i] EXCEPT !.state = "gone"]
                                   ELSE items[i]]
    /\ invoices' = InvoicesWithout(r)
    /\ End(w)
    /\ UNCHANGED <<override, billable, parcels, format, firstSeq, issued>>

StartingSequenceLoad(w, r, o) ==
    /\ status[r] = "DRAFT"
    /\ Begin(w, [Idle EXCEPT !.at = "sequence", !.run = r,
                             !.old = override[r], !.over = o])
    /\ UNCHANGED <<status, override, items, invoices, billable, parcels,
                   format, firstSeq, issued>>

\* The UPDATE is only sent when the value differs from the one loaded.
StartingSequenceCommit(w) ==
    LET r == req[w].run IN
    /\ req[w].at = "sequence"
    /\ override' = IF Exists(r) /\ req[w].over # req[w].old
                   THEN [override EXCEPT ![r] = req[w].over] ELSE override
    /\ End(w)
    /\ UNCHANGED <<status, items, invoices, billable, parcels, format, firstSeq, issued>>
-----------------------------------------------------------------------------
(***************************************************************************)
(* Item definitions.                                                       *)
(***************************************************************************)
ItemCreateLoad(w, r, f) ==
    /\ status[r] = "DRAFT" /\ Unborn # {}
    /\ Begin(w, [Idle EXCEPT !.at = "item_create", !.run = r,
                 !.form = [state |-> "live", run |-> r, all |-> f.all,
                           scope |-> IF f.all THEN {} ELSE f.scope,
                           priced |-> f.priced]])
    /\ UNCHANGED <<status, override, items, invoices, billable, parcels,
                   format, firstSeq, issued>>

ItemCreateCommit(w) ==
    /\ req[w].at = "item_create"
    /\ IF Exists(req[w].run)
       THEN /\ \E i \in Unborn : First(Unborn, i) /\ items' = [items EXCEPT ![i] = req[w].form]
            /\ End(w)
            /\ UNCHANGED <<status, override, invoices, billable, parcels,
                           format, firstSeq, issued>>
       ELSE Rollback(w)

ItemsCopyLoad(w, r, source) ==
    /\ status[r] = "DRAFT" /\ Exists(source)
    /\ Cardinality(Unborn) >= Cardinality(Definitions(source))
    /\ Begin(w, [Idle EXCEPT !.at = "copy", !.run = r, !.rows = RowsOf(source)])
    /\ UNCHANGED <<status, override, items, invoices, billable, parcels,
                   format, firstSeq, issued>>

\* Where the copies go: every copied row gets a new identity.
Placements(rows) ==
    {f \in [Loaded(rows) -> Unborn] : \A s, t \in Loaded(rows) : s < t => f[s] < f[t]}

\* Parcel scopes are copied only for a definition that is not for all parcels.
Copied(row, r) == [row EXCEPT !.run = r, !.scope = IF row.all THEN {} ELSE @]

\* The definitions with row s stored as f[s] for run r, nothing being replaced.
Stored(rows, r, f) ==
    [i \in ItemIds |-> IF \E s \in Loaded(rows) : f[s] = i
                       THEN Copied(rows[CHOOSE s \in Loaded(rows) : f[s] = i], r)
                       ELSE items[i]]

ItemsCopyCommit(w) ==
    LET rows == req[w].rows IN
    /\ req[w].at = "copy"
    /\ IF Exists(req[w].run) \/ Loaded(rows) = {}
       THEN /\ \E f \in Placements(rows) : items' = Stored(rows, req[w].run, f)
            /\ End(w)
            /\ UNCHANGED <<status, override, invoices, billable, parcels,
                           format, firstSeq, issued>>
       ELSE Rollback(w)

\* The row and then its run are read; the two reads are one step here.
ItemEditLoad(w, i, f) ==
    /\ items[i].state = "live" /\ status[items[i].run] = "DRAFT"
    /\ Begin(w, [Idle EXCEPT !.at = "item_edit", !.run = items[i].run, !.item = i,
                 !.rows = [j \in ItemIds |-> IF j = i THEN items[i] ELSE Blank],
                 !.form = [items[i] EXCEPT !.all = f.all, !.priced = f.priced]])
    /\ UNCHANGED <<status, override, items, invoices, billable, parcels,
                   format, firstSeq, issued>>

\* The UPDATE names only the columns in which new differs from the loaded row.
Merge(row, was, new) ==
    [row EXCEPT !.all = IF new.all # was.all THEN new.all ELSE @,
                !.priced = IF new.priced # was.priced THEN new.priced ELSE @]

\* A row deleted in the meantime is a StaleDataError.
ItemEditCommit(w) ==
    LET i == req[w].item IN
    /\ req[w].at = "item_edit"
    /\ items' = IF items[i].state = "live"
                THEN [items EXCEPT ![i] = Merge(@, req[w].rows[i], req[w].form)]
                ELSE items
    /\ End(w)
    /\ UNCHANGED <<status, override, invoices, billable, parcels, format, firstSeq, issued>>

\* The status of the run is not looked at.
ItemDelete(i) ==
    /\ items[i].state = "live"
    /\ items' = [items EXCEPT ![i].state = "gone"]
    /\ OneStep
    /\ UNCHANGED <<status, override, invoices, billable, parcels, format,
                   firstSeq, issued>>
-----------------------------------------------------------------------------
(***************************************************************************)
(* Finalization.                                                           *)
(***************************************************************************)
FinalizeLoadAnyStatus(w, r) ==   \* MUTANT of FinalizeLoad
    /\ Exists(r) /\ Definitions(r) # {}
    /\ Begin(w, [Idle EXCEPT !.at = "fin_loaded", !.run = r,
                             !.rows = RowsOf(r), !.over = override[r]])
    /\ UNCHANGED <<status, override, items, invoices, billable, parcels,
                   format, firstSeq, issued>>

FinalizeLoad(w, r) ==
    /\ status[r] = "DRAFT" /\ Definitions(r) # {}
    /\ Begin(w, [Idle EXCEPT !.at = "fin_loaded", !.run = r,
                             !.rows = RowsOf(r), !.over = override[r]])
    /\ UNCHANGED <<status, override, items, invoices, billable, parcels,
                   format, firstSeq, issued>>

LinesForUnscoped(rows, p) ==   \* MUTANT of LinesFor
    IF p \in billable THEN {i \in Loaded(rows) : rows[i].priced} ELSE {}

\* The lines of parcel p: the loaded definitions that apply to it and have both
\* a quantity and a price.  A parcel without an invoice address has none.
LinesFor(rows, p) ==
    IF p \in billable
    THEN {i \in Loaded(rows) : rows[i].priced /\ (rows[i].all \/ p \in rows[i].scope)}
    ELSE {}

FinalizeCompute(w) ==
    /\ req[w].at = "fin_loaded"
    /\ req' = [req EXCEPT ![w].at = "fin_computed",
                          ![w].lines = [p \in Parcels |-> LinesFor(req[w].rows, p)]]
    /\ UNCHANGED <<status, override, items, invoices, billable, parcels,
                   format, firstSeq, issued>>

\* The parcels that get an invoice.
Billed(w) == {p \in Parcels : req[w].lines[p] # {}}

UsedSequences(y) == {e.seq : e \in {x \in invoices : Year[x.run] = y}}

Wanted(w) == req[w].over .. (req[w].over + Cardinality(Billed(w)) - 1)

FirstSequenceUnchecked(w) ==   \* MUTANT of FirstSequence
    LET used == UsedSequences(Year[req[w].run]) IN
    IF req[w].over # NoOverride THEN {req[w].over}
    ELSE IF used = {} THEN {firstSeq}
    ELSE {n + 1 : n \in {m \in used : \A k \in used : k <= m}}

\* The number to start with, or none: an override wins but must not meet a used
\* sequence number; otherwise one past the year's highest, or the configured
\* first number in a year without invoices.
FirstSequence(w) ==
    LET used == UsedSequences(Year[req[w].run]) IN
    IF req[w].over # NoOverride
    THEN IF Wanted(w) \cap used = {} THEN {req[w].over} ELSE {}
    ELSE IF used = {} THEN {firstSeq}
    ELSE {n + 1 : n \in {m \in used : \A k \in used : k <= m}}

\* _invoice_number_format and _first_invoice_sequence; without a number to start
\* with the session is rolled back (SequenceCollisionError).
FinalizeNumber(w) ==
    /\ req[w].at = "fin_computed"
    /\ \/ FirstSequence(w) = {} /\ End(w)
       \/ \E n \in FirstSequence(w) :
             req' = [req EXCEPT ![w].at = "fin_numbered",
                                ![w].format = format, ![w].start = n]
    /\ UNCHANGED <<status, override, items, invoices, billable, parcels,
                   format, firstSeq, issued>>

\* The invoices request w is about to insert, numbered in plot order.
Batch(w) ==
    LET r == req[w].run
        Seq(p) == req[w].start + Rank(Billed(w), p) - 1
    IN  {[run |-> r, parcel |-> p, seq |-> Seq(p), lines |-> req[w].lines[p],
          number |-> InvoiceNumber(req[w].format, Year[r], Seq(p))] : p \in Billed(w)}

TakenNumbers == {e.number : e \in invoices}

NumbersOf(batch) == {e.number : e \in batch}

InsertableUnindexed(w) ==   \* MUTANT of Insertable
    Exists(req[w].run) /\ Billed(w) \subseteq parcels

\* The INSERTs meet the unique index on invoice_number and the foreign keys to
\* the run and the parcels; the UPDATE of the status meets the run's row.
Insertable(w) ==
    /\ Exists(req[w].run)
    /\ Billed(w) \subseteq parcels
    /\ NumbersOf(Batch(w)) \cap TakenNumbers = {}

FinalizeCommit(w) ==
    /\ req[w].at = "fin_numbered"
    /\ IF Insertable(w)
       THEN /\ invoices' = invoices \cup Batch(w)
            /\ issued' = issued \cup Batch(w)
            /\ status' = [status EXCEPT ![req[w].run] = "FINALIZED"]
            /\ End(w)
            /\ UNCHANGED <<override, items, billable, parcels, format, firstSeq>>
       ELSE Rollback(w)
-----------------------------------------------------------------------------
(***************************************************************************)
(* What other parts of the application change underneath: settings,        *)
(* tenancies and the permanent deletion of a parcel, which takes its       *)
(* invoices along (invoices.parcel_id is ON DELETE CASCADE).               *)
(***************************************************************************)
SettingsSave(f, n) ==
    /\ format' = f
    /\ firstSeq' = n
    /\ OneStep
    /\ UNCHANGED <<status, override, items, invoices, billable, parcels, issued>>

TenancyChange(p) ==
    /\ p \in parcels \cap Movable
    /\ billable' = IF p \in billable THEN billable \ {p} ELSE billable \cup {p}
    /\ OneStep
    /\ UNCHANGED <<status, override, items, invoices, parcels, format,
                   firstSeq, issued>>

ParcelPurge(p) ==
    /\ p \in (parcels \cap Purgeable) \ billable
    /\ parcels' = parcels \ {p}
    /\ invoices' = {e \in invoices : e.parcel # p}
    /\ OneStep
    /\ UNCHANGED <<status, override, items, billable, format, firstSeq, issued>>
-----------------------------------------------------------------------------
RequestStep(w) ==
    \/ \E r \in Runs :
          \/ RunDeleteLoad(w, r)
          \/ FinalizeLoad(w, r)
          \/ \E o \in Overrides \cup {NoOverride} : StartingSequenceLoad(w, r, o)
          \/ \E f \in Forms : ItemCreateLoad(w, r, f)
          \/ \E source \in Runs : ItemsCopyLoad(w, r, source)
    \/ \E i \in ItemIds, f \in Edits : ItemEditLoad(w, i, f)
    \/ RunDeleteCommit(w)
    \/ StartingSequenceCommit(w)
    \/ ItemCreateCommit(w)
    \/ ItemsCopyCommit(w)
    \/ ItemEditCommit(w)
    \/ FinalizeCompute(w)
    \/ FinalizeNumber(w)
    \/ FinalizeCommit(w)

Step ==
    \/ \E w \in Workers : RequestStep(w)
    \/ \E r \in Runs, o \in Overrides \cup {NoOverride} : RunCreate(r, o)
    \/ \E i \in ItemIds : ItemDelete(i)
    \/ \E f \in Formats, n \in Starts : SettingsSave(f, n)
    \/ \E p \in Parcels : TenancyChange(p)
    \/ \E p \in Parcels : ParcelPurge(p)

\* Notes for each finalization what it has read and others have changed since:
\* definitions from its load on, tenancies from its computation on.
Watch ==
    /\ edited' = [w \in Workers |->
                    IF req'[w].at \in {"fin_loaded", "fin_computed", "fin_numbered"}
                    THEN edited[w] \cup {i \in ItemIds : items'[i] # items[i]} ELSE {}]
    /\ moved' = [w \in Workers |->
                    IF req'[w].at \in {"fin_computed", "fin_numbered"}
                    THEN moved[w] \cup (billable \ billable') \cup (billable' \ billable)
                    ELSE {}]

Next == Step /\ Watch

Spec == Init /\ [][Next]_vars
-----------------------------------------------------------------------------
(***************************************************************************)
(* Safety.                                                                 *)
(***************************************************************************)

\* No two invoices of one year carry the same sequence number: runs of the same
\* year continue each other's numbering (_first_invoice_sequence), whatever
\* requests overlap, as long as the format setting keeps numbers of one year
\* apart, because the loser of a race meets the unique index on the number.
SequencesUniquePerYear ==
    \A e, g \in invoices :
        Year[e.run] = Year[g.run] /\ e.seq = g.seq => e = g

\* Invoices exist only for runs that are FINALIZED: numbering and the change of
\* status commit together (finalize_run), and no request on a run that was
\* deleted meanwhile leaves invoices behind.
InvoicesOnlyInFinalizedRuns ==
    \A e \in invoices : status[e.run] = "FINALIZED"

\* An invoice bills definitions of its own run that apply to its parcel, even
\* when definitions were copied, edited or deleted while it was computed.
InvoicesBillOwnRun ==
    \A e \in invoices : e.lines # {} /\ \A i \in e.lines : items[i].run = e.run

\* A run bills each parcel once.
OneInvoicePerParcel ==
    \A e, g \in invoices : e.run = g.run /\ e.parcel = g.parcel => e = g

\* A finalized run "can no longer be deleted" (run_delete's guard), so its
\* invoices stay what they are.
FinalizedRunsStay ==
    [][\A r \in Runs : status[r] = "FINALIZED" =>
          /\ status'[r] = "FINALIZED"
          /\ {e \in invoices : e.run = r} \subseteq invoices']_vars

\* The item definitions of a finalized run can no longer be changed
\* (finances.errors.run_not_draft): none is added, edited or removed.
DefinitionsFrozen ==
    [][\A r \in Runs : status[r] = "FINALIZED" /\ status'[r] = "FINALIZED" =>
          RowsOf(r)' = RowsOf(r)]_vars

\* The invoice or its run's row is gone: its parcel was deleted for good, or its
\* run was deleted while it was being finalized.
Gone(e) == e.parcel \notin parcels \/ status[e.run] = "deleted"

\* However requests overlap, a stored invoice keeps its number and its lines for
\* as long as its parcel and its run exist, and until then nobody else is given
\* the number: a request that has computed the same number meets the unique
\* index, and one that edits or deletes definitions leaves issued invoices alone.
IssuedNumbersStay ==
    \A e \in issued :
        /\ e \in invoices \/ Gone(e)
        /\ \A g \in issued : e.number = g.number /\ e # g => Gone(e) \/ Gone(g)

\* The numbers about to be inserted are free: "{number} is required (guarantees
\* every generated number is unique)" (is_valid_invoice_number_format).
GeneratedNumbersAreFree ==
    \A w \in Workers :
        req[w].at = "fin_numbered" => NumbersOf(Batch(w)) \cap TakenNumbers = {}

\* What the definitions of run r bill for parcel p at this moment.
Configured(r, p) ==
    {i \in Definitions(r) : items[i].priced /\ (items[i].all \/ p \in items[i].scope)}

\* Definitions and tenancies are read at different times and may change until
\* the invoices are stored.  What has changed decides about nothing else: every
\* parcel whose tenants have stayed is billed for all definitions that apply to
\* it now and for no others, except for definitions that were changed, and a
\* parcel that has stayed vacant gets no invoice.
BilledAsConfigured ==
    [][\A w \in Workers : FinalizeCommit(w) /\ Insertable(w) =>
          \A p \in Parcels \ moved[w] :
              LET bill == {e \in invoices' \ invoices : e.parcel = p}
                  due  == IF p \in billable THEN Configured(req[w].run, p) ELSE {}
              IN  /\ (UNION {e.lines : e \in bill}) \ edited[w] = due \ edited[w]
                  /\ p \notin billable => bill = {}]_vars

\* Without overlapping requests the module is the book of invoices it promises.
Ledger == INSTANCE InvoiceLedger WITH
              book <- invoices,
              closed <- {r \in Runs : status[r] = "FINALIZED"}

ImplementsLedger == Ledger!Spec
=============================================================================
