-------------------------- MODULE InvoiceRunsProofs --------------------------
(***************************************************************************)
(* Theorems about InvoiceRuns, for any number of runs, parcels, item       *)
(* definitions and overlapping requests.                                   *)
(***************************************************************************)
EXTENDS InvoiceRuns, TLAPS, FiniteSetTheorems

(***************************************************************************)
(* The operators the module is built from.                                 *)
(***************************************************************************)

\* A rank is a natural number, and a later parcel has a greater one: the
\* enumeration in finalize_run (next_seq += 1) never hands a number out twice.
LEMMA RankType ==
    ASSUME NEW S, IsFiniteSet(S), NEW i PROVE Rank(S, i) \in Nat
<1> {j \in S : j <= i} \in SUBSET S
  OBVIOUS
<1> QED
  BY FS_Subset, FS_CardinalityType, IsFiniteSet({j \in S : j <= i}) DEF Rank

LEMMA RankMonotone ==
    ASSUME NEW S \in SUBSET Nat, IsFiniteSet(S), NEW i \in S, NEW k \in S, i < k
    PROVE  Rank(S, i) < Rank(S, k)
<1> DEFINE low == {j \in S : j <= i}
           high == {j \in S : j <= k}
<1>0. i \in Nat /\ k \in Nat /\ \A j \in S : j \in Nat
  OBVIOUS
<1>1. low \in SUBSET high /\ high \in SUBSET S
  <2>1. \A j \in S : j <= i => j <= k
    BY <1>0
  <2> QED
    BY <2>1
<1>2. IsFiniteSet(high) /\ IsFiniteSet(low)
  BY <1>1, FS_Subset
<1>3. k \in high /\ k \notin low
  BY <1>0
<1>4. Cardinality(low) <= Cardinality(high) /\ Cardinality(low) # Cardinality(high)
  BY <1>1, <1>2, <1>3, FS_Subset
<1>5. Cardinality(low) \in Nat /\ Cardinality(high) \in Nat
  BY <1>2, FS_CardinalityType
<1> QED
  BY <1>4, <1>5 DEF Rank

LEMMA RankInjective ==
    ASSUME NEW S \in SUBSET Nat, IsFiniteSet(S), NEW i \in S, NEW k \in S,
           Rank(S, i) = Rank(S, k)
    PROVE  i = k
<1>1. Rank(S, i) \in Nat /\ Rank(S, k) \in Nat
  BY RankType
<1>2. ~(i < k) /\ ~(k < i)
  BY <1>1, RankMonotone
<1> QED
  BY <1>2, S \subseteq Nat
-----------------------------------------------------------------------------
(***************************************************************************)
(* Types.                                                                  *)
(***************************************************************************)
LEMMA BlankType == Blank \in ItemRow
BY DEF Blank, ItemRow, ItemFields

LEMMA IdleType == Idle \in Request
BY BlankType, FormatAssumption DEF Idle, Request, RequestFields, Stages

\* A request that is loaded, computed or numbered stays well formed.
LEMMA RequestType ==
    ASSUME NEW q \in RequestFields, q.run \in Runs PROVE q \in Request
BY DEF Request

LEMMA RowType ==
    ASSUME NEW i \in ItemFields, i.run \in Runs PROVE i \in ItemRow
BY DEF ItemRow

LEMMA FieldsOf ==
    /\ \A q \in Request : q \in RequestFields /\ (q.at # "idle" => q.run \in Runs)
    /\ \A i \in ItemRow : i \in ItemFields /\ (i.state # "unborn" => i.run \in Runs)
BY DEF Request, ItemRow

LEMMA BeginType ==
    ASSUME TypeOK, NEW w \in Workers, NEW q \in Request, Begin(w, q)
    PROVE  req' \in [Workers -> Request]
BY DEF TypeOK, Begin

LEMMA EndType ==
    ASSUME TypeOK, NEW w \in Workers, End(w)
    PROVE  req' \in [Workers -> Request]
BY IdleType DEF TypeOK, End

LEMMA RowsType ==
    ASSUME TypeOK, NEW r \in Runs
    PROVE  RowsOf(r) \in [ItemIds -> ItemRow]
BY BlankType DEF TypeOK, RowsOf

LEMMA InitType == Init => TypeOK
<1> SUFFICES ASSUME Init PROVE TypeOK
  OBVIOUS
<1>1. status \in [Runs -> RunStatus] /\ override \in [Runs -> Overrides \cup {NoOverride}]
  BY DEF Init, RunStatus
<1>2. items \in [ItemIds -> ItemRow] /\ req \in [Workers -> Request]
  BY BlankType, IdleType DEF Init
<1> QED
  BY <1>1, <1>2, FormatAssumption DEF Init, TypeOK

\* TypeOK without the two histories, which Watch keeps.
RowsOK ==
    /\ status \in [Runs -> RunStatus]
    /\ override \in [Runs -> Overrides \cup {NoOverride}]
    /\ items \in [ItemIds -> ItemRow]
    /\ invoices \subseteq Invoice
    /\ billable \subseteq Parcels
    /\ parcels \subseteq Parcels
    /\ format \in Formats
    /\ firstSeq \in Starts \cup {1}
    /\ req \in [Workers -> Request]
    /\ issued \subseteq Invoice

LEMMA LoadTypes ==
    ASSUME TypeOK, NEW w \in Workers,
           \/ \E r \in Runs :
                 \/ RunDeleteLoad(w, r)
                 \/ FinalizeLoad(w, r)
                 \/ \E o \in Overrides \cup {NoOverride} : StartingSequenceLoad(w, r, o)
                 \/ \E f \in Forms : ItemCreateLoad(w, r, f)
                 \/ \E source \in Runs : ItemsCopyLoad(w, r, source)
           \/ \E i \in ItemIds, f \in Edits : ItemEditLoad(w, i, f)
    PROVE  RowsOK'
<1>1. SUFFICES req' \in [Workers -> Request]
  BY DEF TypeOK, RowsOK, RunDeleteLoad, FinalizeLoad, StartingSequenceLoad, ItemCreateLoad,
         ItemsCopyLoad, ItemEditLoad
<1>2. \A r \in Runs : RunDeleteLoad(w, r) => req' \in [Workers -> Request]
  <2> SUFFICES ASSUME NEW r \in Runs, RunDeleteLoad(w, r) PROVE req' \in [Workers -> Request]
    OBVIOUS
  <2>1. [Idle EXCEPT !.at = "delete", !.run = r] \in Request
    BY IdleType DEF Request, RequestFields, Stages
  <2> QED
    BY <2>1, BeginType DEF RunDeleteLoad
<1>3. \A r \in Runs : FinalizeLoad(w, r) => req' \in [Workers -> Request]
  <2> SUFFICES ASSUME NEW r \in Runs, FinalizeLoad(w, r) PROVE req' \in [Workers -> Request]
    OBVIOUS
  <2>1. [Idle EXCEPT !.at = "fin_loaded", !.run = r, !.rows = RowsOf(r), !.over = override[r]]
           \in Request
    BY IdleType, RowsType DEF Request, RequestFields, Stages, TypeOK, RowsOK
  <2> QED
    BY <2>1, BeginType DEF FinalizeLoad
<1>4. \A r \in Runs, o \in Overrides \cup {NoOverride} :
         StartingSequenceLoad(w, r, o) => req' \in [Workers -> Request]
  <2> SUFFICES ASSUME NEW r \in Runs, NEW o \in Overrides \cup {NoOverride},
                      StartingSequenceLoad(w, r, o)
               PROVE  req' \in [Workers -> Request]
    OBVIOUS
  <2>1. [Idle EXCEPT !.at = "sequence", !.run = r, !.old = override[r], !.over = o] \in Request
    BY IdleType DEF Request, RequestFields, Stages, TypeOK, RowsOK
  <2> QED
    BY <2>1, BeginType DEF StartingSequenceLoad
<1>5. \A r \in Runs, f \in Forms : ItemCreateLoad(w, r, f) => req' \in [Workers -> Request]
  <2> SUFFICES ASSUME NEW r \in Runs, NEW f \in Forms, ItemCreateLoad(w, r, f)
               PROVE  req' \in [Workers -> Request]
    OBVIOUS
  <2> DEFINE row == [state |-> "live", run |-> r, all |-> f.all,
                     scope |-> IF f.all THEN {} ELSE f.scope, priced |-> f.priced]
  <2>1. row \in ItemRow
    BY ItemAssumption DEF ItemRow, ItemFields
  <2>2. [Idle EXCEPT !.at = "item_create", !.run = r, !.form = row] \in Request
    BY <2>1, IdleType DEF Request, RequestFields, Stages
  <2> QED
    BY <2>2, BeginType DEF ItemCreateLoad
<1>6. \A r, source \in Runs : ItemsCopyLoad(w, r, source) => req' \in [Workers -> Request]
  <2> SUFFICES ASSUME NEW r \in Runs, NEW source \in Runs, ItemsCopyLoad(w, r, source)
               PROVE  req' \in [Workers -> Request]
    OBVIOUS
  <2>1. [Idle EXCEPT !.at = "copy", !.run = r, !.rows = RowsOf(source)] \in Request
    BY IdleType, RowsType DEF Request, RequestFields, Stages
  <2> QED
    BY <2>1, BeginType DEF ItemsCopyLoad
<1>7. \A i \in ItemIds, f \in Edits : ItemEditLoad(w, i, f) => req' \in [Workers -> Request]
  <2> SUFFICES ASSUME NEW i \in ItemIds, NEW f \in Edits, ItemEditLoad(w, i, f)
               PROVE  req' \in [Workers -> Request]
    OBVIOUS
  <2> DEFINE new == [items[i] EXCEPT !.all = f.all, !.priced = f.priced]
             loaded == [j \in ItemIds |-> IF j = i THEN items[i] ELSE Blank]
  <2>1. items[i] \in ItemRow /\ items[i].run \in Runs
    BY FieldsOf DEF ItemEditLoad, TypeOK, RowsOK
  <2>2. new \in ItemRow
    BY <2>1, ItemAssumption DEF ItemRow, ItemFields
  <2>3. loaded \in [ItemIds -> ItemRow]
    BY <2>1, BlankType
  <2>4. [Idle EXCEPT !.at = "item_edit", !.run = items[i].run, !.item = i,
                     !.rows = loaded, !.form = new] \in Request
    <3> HIDE DEF new, loaded
    <3>1. Idle \in RequestFields
      BY IdleType, FieldsOf
    <3> QED
      BY <2>1, <2>2, <2>3, <3>1, RequestType DEF RequestFields, Stages
  <2> QED
    BY <2>4, BeginType DEF ItemEditLoad
<1> QED
  BY <1>2, <1>3, <1>4, <1>5, <1>6, <1>7

LEMMA BatchType ==
    ASSUME TypeOK, NEW w \in Workers, req[w].run \in Runs
    PROVE  /\ Batch(w) \subseteq Invoice
           /\ NumbersOf(Batch(w)) \subseteq Numbers
<1> DEFINE r == req[w].run
           Seq(p) == req[w].start + Rank(Billed(w), p) - 1
           Entry(p) == [run |-> r, parcel |-> p, seq |-> Seq(p), lines |-> req[w].lines[p],
                        number |-> InvoiceNumber(req[w].format, Year[r], Seq(p))]
<1>1. req[w] \in Request
  BY DEF TypeOK, RowsOK
<1>2. IsFiniteSet(Billed(w)) /\ Billed(w) \subseteq Parcels
  BY ParcelAssumption, FS_Subset, Billed(w) \in SUBSET Parcels DEF Billed
<1>3. ASSUME NEW p \in Billed(w) PROVE Entry(p) \in Invoice /\ Entry(p).number \in Numbers
  <2>1. Seq(p) \in Int
    BY <1>1, <1>2, RankType DEF Request, RequestFields
  <2>2. Year[r] \in Nat
    BY YearAssumption
  <2>3. InvoiceNumber(req[w].format, Year[r], Seq(p)) \in Numbers
    BY <1>1, <2>1, <2>2 DEF InvoiceNumber, Numbers, Request, RequestFields
  <2>4. p \in Parcels /\ req[w].lines[p] \in SUBSET ItemIds
    BY <1>1, <1>2 DEF Request, RequestFields
  <2> HIDE DEF Seq
  <2> QED
    BY <2>1, <2>3, <2>4 DEF Invoice
<1> QED
  BY <1>3 DEF Batch, NumbersOf

LEMMA CommitTypes ==
    ASSUME TypeOK, NEW w \in Workers,
           \/ RunDeleteCommit(w) \/ StartingSequenceCommit(w) \/ ItemCreateCommit(w)
           \/ ItemsCopyCommit(w) \/ ItemEditCommit(w)
    PROVE  RowsOK'
<1> DEFINE q == req[w]
<1>1. q \in Request /\ IsFiniteSet(Parcels)
  BY ParcelAssumption DEF TypeOK, RowsOK
<1>2. ASSUME Rollback(w) PROVE RowsOK'
  BY <1>2, EndType DEF Rollback, TypeOK, RowsOK
<1>3. CASE RunDeleteCommit(w)
  <2>1. req' \in [Workers -> Request]
    BY <1>3, EndType DEF RunDeleteCommit
  <2>2. status' \in [Runs -> RunStatus]
    BY <1>3 DEF RunDeleteCommit, TypeOK, RowsOK, RunStatus
  <2>3. items' \in [ItemIds -> ItemRow]
    <3>1. \A i \in ItemIds : items[i] \in ItemRow
      BY DEF TypeOK, RowsOK
    <3>2. \A i \in Definitions(q.run) : [items[i] EXCEPT !.state = "gone"] \in ItemRow
      BY <3>1, FieldsOf, RowType DEF Definitions, ItemFields
    <3> QED
      BY <1>3, <3>1, <3>2 DEF RunDeleteCommit
  <2> QED
    BY <1>3, <2>1, <2>2, <2>3 DEF RunDeleteCommit, InvoicesWithout, TypeOK, RowsOK
<1>4. CASE StartingSequenceCommit(w)
  <2>1. req' \in [Workers -> Request]
    BY <1>4, EndType DEF StartingSequenceCommit
  <2>2. override' \in [Runs -> Overrides \cup {NoOverride}]
    BY <1>1, <1>4 DEF StartingSequenceCommit, TypeOK, RowsOK, Request, RequestFields
  <2> QED
    BY <1>4, <2>1, <2>2 DEF StartingSequenceCommit, TypeOK, RowsOK
<1>5. CASE ItemCreateCommit(w) /\ Exists(q.run)
  <2>1. req' \in [Workers -> Request]
    BY <1>5, EndType DEF ItemCreateCommit
  <2>2. items' \in [ItemIds -> ItemRow]
    BY <1>1, <1>5 DEF ItemCreateCommit, TypeOK, RowsOK, Request, RequestFields
  <2> QED
    BY <1>5, <2>1, <2>2 DEF ItemCreateCommit, TypeOK, RowsOK
<1>6. CASE ItemsCopyCommit(w) /\ (Exists(q.run) \/ Loaded(q.rows) = {})
  <2>1. req' \in [Workers -> Request]
    BY <1>6, EndType DEF ItemsCopyCommit
  <2>2. items' \in [ItemIds -> ItemRow]
    <3>1. PICK f : items' = Stored(q.rows, q.run, f)
      BY <1>6 DEF ItemsCopyCommit
    <3>2. \A s \in Loaded(q.rows) : Copied(q.rows[s], q.run) \in ItemRow
      <4> SUFFICES ASSUME NEW s \in Loaded(q.rows) PROVE Copied(q.rows[s], q.run) \in ItemRow
        OBVIOUS
      <4>1. q.rows[s] \in ItemFields /\ q.run \in Runs
        BY <1>1, <1>6, FieldsOf DEF Loaded, RequestFields, ItemsCopyCommit
      <4>2. Copied(q.rows[s], q.run) \in ItemFields /\ Copied(q.rows[s], q.run).run = q.run
        BY <4>1 DEF Copied, ItemFields
      <4> QED
        BY <4>1, <4>2, RowType
    <3>3. ASSUME NEW i \in ItemIds, \E s \in Loaded(q.rows) : f[s] = i
          PROVE  (CHOOSE s \in Loaded(q.rows) : f[s] = i) \in Loaded(q.rows)
      BY <3>3
    <3> QED
      BY <3>1, <3>2, <3>3 DEF TypeOK, RowsOK, Stored
  <2> QED
    BY <1>6, <2>1, <2>2 DEF ItemsCopyCommit, TypeOK, RowsOK
<1>7. CASE ItemEditCommit(w)
  <2>1. req' \in [Workers -> Request]
    BY <1>7, EndType DEF ItemEditCommit
  <2>2. items' \in [ItemIds -> ItemRow]
    <3>1. q.form \in ItemRow
      BY <1>1 DEF Request, RequestFields
    <3>2. ASSUME NEW row \in ItemRow, NEW was PROVE Merge(row, was, q.form) \in ItemRow
      BY <3>1 DEF Merge, ItemRow, ItemFields
    <3> QED
      BY <1>7, <3>2 DEF ItemEditCommit, TypeOK, RowsOK
  <2> QED
    BY <1>7, <2>1, <2>2 DEF ItemEditCommit, TypeOK, RowsOK
<1> QED
  BY <1>2, <1>3, <1>4, <1>5, <1>6, <1>7 DEF ItemCreateCommit, ItemsCopyCommit

LEMMA FinalizeTypes ==
    ASSUME TypeOK, NEW w \in Workers,
           FinalizeCompute(w) \/ FinalizeNumber(w) \/ FinalizeCommit(w)
    PROVE  RowsOK'
<1> DEFINE q == req[w]
<1>1. q \in Request
  BY DEF TypeOK, RowsOK
<1>2. CASE FinalizeCompute(w)
  <2> DEFINE lines == [p \in Parcels |-> LinesFor(q.rows, p)]
  <2>1. lines \in [Parcels -> SUBSET ItemIds]
    BY DEF LinesFor, Loaded
  <2>2. [q EXCEPT !.at = "fin_computed", !.lines = lines] \in Request
    <3> HIDE DEF lines
    <3>1. q \in RequestFields /\ q.run \in Runs
      BY <1>1, <1>2, FieldsOf DEF FinalizeCompute
    <3> QED
      BY <2>1, <3>1, RequestType DEF RequestFields, Stages
  <2>3. req' = [req EXCEPT ![w] = [q EXCEPT !.at = "fin_computed", !.lines = lines]]
    BY <1>2 DEF FinalizeCompute
  <2> HIDE DEF lines
  <2> QED
    BY <1>2, <2>2, <2>3 DEF FinalizeCompute, TypeOK, RowsOK
<1>3. CASE FinalizeNumber(w)
  <2> DEFINE Take(n) == req' = [req EXCEPT ![w].at = "fin_numbered",
                                           ![w].format = format, ![w].start = n]
  <2>1. \A y : UsedSequences(y) \subseteq Int
    BY DEF UsedSequences, TypeOK, RowsOK, Invoice
  <2>2. ASSUME NEW n \in Int, Take(n) PROVE req' \in [Workers -> Request]
    <3>1. [q EXCEPT !.at = "fin_numbered", !.format = format, !.start = n] \in Request
      <4>1. q \in RequestFields /\ q.run \in Runs
        BY <1>1, <1>3, FieldsOf DEF FinalizeNumber
      <4>2. format \in Formats
        BY DEF TypeOK, RowsOK
      <4> QED
        BY <4>1, <4>2, RequestType DEF RequestFields, Stages
    <3> QED
      BY <2>2, <3>1 DEF TypeOK, RowsOK
  <2>3. q.over \in Int /\ firstSeq \in Int
    <3>1. q.over \in Overrides \cup {NoOverride} /\ firstSeq \in Starts \cup {1}
      BY <1>1 DEF Request, RequestFields, TypeOK, RowsOK
    <3>2. /\ \A o \in Overrides \cup {NoOverride} : o \in Int
          /\ \A n \in Starts \cup {1} : n \in Int
      BY NumberAssumption DEF NoOverride
    <3> HIDE DEF q
    <3> QED
      BY <3>1, <3>2
  <2>4. \A n \in FirstSequence(w) : n \in Int
    <3>1. \A y : \A n \in UsedSequences(y) : n + 1 \in Int
      BY <2>1
    <3> QED
      BY <2>3, <3>1 DEF FirstSequence
  <2>5. End(w) \/ \E n \in Int : Take(n)
    BY <1>3, <2>4 DEF FinalizeNumber
  <2> HIDE DEF Take
  <2>6. req' \in [Workers -> Request]
    BY <2>2, <2>5, EndType
  <2> QED
    BY <1>3, <2>6 DEF FinalizeNumber, TypeOK, RowsOK
<1>4. CASE FinalizeCommit(w) /\ Insertable(w)
  <2>1. req' \in [Workers -> Request]
    BY <1>4, EndType DEF FinalizeCommit
  <2>2. q.run \in Runs
    BY <1>1, <1>4 DEF FinalizeCommit, Request, RequestFields
  <2>3. Batch(w) \subseteq Invoice /\ NumbersOf(Batch(w)) \subseteq Numbers
    BY <2>2, BatchType
  <2>4. status' \in [Runs -> RunStatus]
    BY <1>4 DEF FinalizeCommit, TypeOK, RowsOK, RunStatus
  <2> QED
    BY <1>4, <2>1, <2>3, <2>4 DEF FinalizeCommit, TypeOK, RowsOK
<1>5. CASE FinalizeCommit(w) /\ ~Insertable(w)
  BY <1>5, EndType DEF FinalizeCommit, Rollback, TypeOK, RowsOK
<1> QED
  BY <1>2, <1>3, <1>4, <1>5

\* TypeOK holds in every reachable state, whatever the number of runs, parcels,
\* definitions and overlapping requests: in particular every stored invoice
\* names a run, a parcel and definitions, and has an integer sequence number.
THEOREM TypeCorrect == Spec => []TypeOK
<1>1. Init => TypeOK
  BY InitType
<1>2. TypeOK /\ [Next]_vars => TypeOK'
  <2> SUFFICES ASSUME TypeOK, [Next]_vars PROVE TypeOK'
    OBVIOUS
  <2>1. ASSUME NEW w \in Workers, RequestStep(w) PROVE RowsOK'
    BY <2>1, LoadTypes, CommitTypes, FinalizeTypes DEF RequestStep
  <2>2. ASSUME NEW r \in Runs, NEW o \in Overrides \cup {NoOverride}, RunCreate(r, o)
        PROVE  RowsOK'
    BY <2>2 DEF RunCreate, OneStep, TypeOK, RowsOK, RunStatus
  <2>3. ASSUME NEW i \in ItemIds, ItemDelete(i) PROVE RowsOK'
    <3>1. items[i] \in ItemFields /\ items[i].run \in Runs
      BY <2>3, FieldsOf DEF ItemDelete, TypeOK
    <3>2. [items[i] EXCEPT !.state = "gone"] \in ItemRow
      BY <3>1, RowType DEF ItemFields
    <3> QED
      BY <2>3, <3>2 DEF ItemDelete, OneStep, TypeOK, RowsOK
  <2>4. ASSUME NEW f \in Formats, NEW n \in Starts, SettingsSave(f, n) PROVE RowsOK'
    BY <2>4 DEF SettingsSave, OneStep, TypeOK, RowsOK
  <2>5. ASSUME NEW p \in Parcels, TenancyChange(p) \/ ParcelPurge(p) PROVE RowsOK'
    BY <2>5 DEF TenancyChange, ParcelPurge, OneStep, TypeOK, RowsOK
  <2>6. ASSUME UNCHANGED vars PROVE TypeOK'
    BY <2>6 DEF vars, TypeOK
  <2>7. ASSUME RowsOK', Watch PROVE TypeOK'
    <3>1. edited' \in [Workers -> SUBSET ItemIds]
      BY <2>7 DEF TypeOK, Watch
    <3>2. moved' \in [Workers -> SUBSET Parcels]
      BY <2>7 DEF TypeOK, RowsOK, Watch
    <3> QED
      BY <2>7, <3>1, <3>2 DEF TypeOK, RowsOK
  <2> QED
    BY <2>1, <2>2, <2>3, <2>4, <2>5, <2>6, <2>7 DEF Next, Step
<1> QED
  BY <1>1, <1>2, PTL DEF Spec
-----------------------------------------------------------------------------
(***************************************************************************)
(* Invoices and the status of their runs.                                  *)
(***************************************************************************)

\* A finalized run's invoices appear with its status and go with its row: an
\* invoice of a DRAFT or deleted run never exists, even though a deletion and a
\* finalization of the same run may overlap.
THEOREM OnlyInFinalizedRuns == Spec => []InvoicesOnlyInFinalizedRuns
<1>1. Init => InvoicesOnlyInFinalizedRuns
  BY DEF Init, InvoicesOnlyInFinalizedRuns
<1>2. TypeOK /\ InvoicesOnlyInFinalizedRuns /\ [Next]_vars => InvoicesOnlyInFinalizedRuns'
  <2> SUFFICES ASSUME TypeOK, InvoicesOnlyInFinalizedRuns, [Next]_vars
               PROVE  InvoicesOnlyInFinalizedRuns'
    OBVIOUS
  <2> DEFINE Goal == InvoicesOnlyInFinalizedRuns'
  <2>0. ASSUME UNCHANGED <<invoices, status>> PROVE Goal
    BY <2>0 DEF InvoicesOnlyInFinalizedRuns
  <2>1. ASSUME NEW w \in Workers, RunDeleteCommit(w) PROVE Goal
    BY <2>1 DEF RunDeleteCommit, InvoicesWithout, InvoicesOnlyInFinalizedRuns, TypeOK, Invoice
  <2>2. ASSUME NEW w \in Workers, FinalizeCommit(w) PROVE Goal
    <3>1. CASE Insertable(w)
      <4>1. \A e \in Batch(w) : e.run = req[w].run
        BY DEF Batch
      <4>2. req[w].run \in Runs
        BY <2>2, FieldsOf DEF FinalizeCommit, TypeOK
      <4>3. \A e \in invoices : e.run \in Runs
        BY DEF TypeOK, Invoice
      <4> QED
        BY <2>2, <3>1, <4>1, <4>2, <4>3 DEF FinalizeCommit, InvoicesOnlyInFinalizedRuns, TypeOK
    <3>2. CASE ~Insertable(w)
      BY <2>0, <2>2, <3>2 DEF FinalizeCommit, Rollback
    <3> QED
      BY <3>1, <3>2
  <2>3. ASSUME NEW w \in Workers, RequestStep(w), ~RunDeleteCommit(w), ~FinalizeCommit(w)
        PROVE  UNCHANGED <<invoices, status>>
    BY <2>3 DEF RequestStep, RunDeleteLoad, FinalizeLoad, StartingSequenceLoad,
         ItemCreateLoad, ItemsCopyLoad, ItemEditLoad, StartingSequenceCommit,
         ItemCreateCommit, ItemsCopyCommit, ItemEditCommit, FinalizeCompute,
         FinalizeNumber, Rollback
  <2>4. ASSUME NEW r \in Runs, NEW o \in Overrides \cup {NoOverride}, RunCreate(r, o) PROVE Goal
    <3>1. \A e \in invoices : e.run \in Runs /\ e.run # r
      BY <2>4 DEF RunCreate, InvoicesOnlyInFinalizedRuns, TypeOK, Invoice
    <3> QED
      BY <2>4, <3>1 DEF RunCreate, InvoicesOnlyInFinalizedRuns, TypeOK
  <2>5. ASSUME NEW p \in Parcels, ParcelPurge(p) PROVE Goal
    BY <2>5 DEF ParcelPurge, InvoicesOnlyInFinalizedRuns
  <2>6. ASSUME \/ \E i \in ItemIds : ItemDelete(i)
               \/ \E f \in Formats, n \in Starts : SettingsSave(f, n)
               \/ \E p \in Parcels : TenancyChange(p)
               \/ UNCHANGED vars
        PROVE  Goal
    BY <2>0, <2>6 DEF ItemDelete, SettingsSave, TenancyChange, vars
  <2> QED
    BY <2>0, <2>1, <2>2, <2>3, <2>4, <2>5, <2>6 DEF Next, Step
<1> QED
  BY <1>1, <1>2, TypeCorrect, PTL DEF Spec
-----------------------------------------------------------------------------
(***************************************************************************)
(* Numbers.                                                                *)
(***************************************************************************)
NumbersUnique == \A e, g \in invoices : e.number = g.number => e = g

NumberedBySequence ==
    \A e \in invoices : e.number = InvoiceNumber(DefaultFormat, Year[e.run], e.seq)

LEMMA BatchNumbersUnique ==
    ASSUME TypeOK, NEW w \in Workers, NEW e \in Batch(w), NEW g \in Batch(w),
           e.number = g.number
    PROVE  e = g
<1> DEFINE q == req[w]
           Seq(p) == q.start + Rank(Billed(w), p) - 1
           Entry(p) == [run |-> q.run, parcel |-> p, seq |-> Seq(p), lines |-> q.lines[p],
                        number |-> InvoiceNumber(q.format, Year[q.run], Seq(p))]
<1>1. PICK p \in Billed(w), o \in Billed(w) : e = Entry(p) /\ g = Entry(o)
  BY DEF Batch
<1>2. IsFiniteSet(Billed(w)) /\ Billed(w) \in SUBSET Nat
  BY ParcelAssumption, FS_Subset, Billed(w) \in SUBSET Parcels DEF Billed
<1>3. q.start \in Int
  BY FieldsOf DEF TypeOK, RequestFields
<1>4. Rank(Billed(w), p) \in Nat /\ Rank(Billed(w), o) \in Nat
  BY <1>2, RankType
<1>5. Seq(p) = Seq(o)
  <2> HIDE DEF Seq
  <2> QED
    BY <1>1 DEF InvoiceNumber
<1>6. Rank(Billed(w), p) = Rank(Billed(w), o)
  BY <1>3, <1>4, <1>5
<1> QED
  BY <1>1, <1>2, <1>6, RankInjective

LEMMA OneFormatInvoices ==
    ASSUME Formats = {DefaultFormat}, TypeOK, NEW w \in Workers, NEW e \in Batch(w)
    PROVE  e.number = InvoiceNumber(DefaultFormat, Year[e.run], e.seq)
<1>1. req[w].format = DefaultFormat
  BY FieldsOf DEF TypeOK, RequestFields
<1> QED
  BY <1>1 DEF Batch

LEMMA BatchFromCommit ==
    ASSUME [Next]_vars, NEW e \in invoices', e \notin invoices
    PROVE  \E w \in Workers : FinalizeCommit(w) /\ Insertable(w) /\ e \in Batch(w)
<1>1. ASSUME NEW w \in Workers, RequestStep(w), ~FinalizeCommit(w)
      PROVE  invoices' \subseteq invoices
  BY <1>1 DEF RequestStep, RunDeleteLoad, FinalizeLoad, StartingSequenceLoad,
     ItemCreateLoad, ItemsCopyLoad, ItemEditLoad, RunDeleteCommit, InvoicesWithout, StartingSequenceCommit,
     ItemCreateCommit, ItemsCopyCommit, ItemEditCommit, FinalizeCompute,
     FinalizeNumber, Rollback
<1>2. ASSUME NEW w \in Workers, FinalizeCommit(w)
      PROVE  Insertable(w) /\ invoices' = invoices \cup Batch(w)
  BY <1>2 DEF FinalizeCommit, Rollback
<1> QED
  BY <1>1, <1>2 DEF Next, Step, vars, RunCreate, ItemDelete, SettingsSave, TenancyChange, ParcelPurge

\* The unique index on invoice_number: whatever commits, its numbers are free.
LEMMA NumbersUniqueStep ==
    ASSUME TypeOK, NumbersUnique, [Next]_vars PROVE NumbersUnique'
<1> SUFFICES ASSUME NEW e \in invoices', NEW g \in invoices', e.number = g.number
             PROVE  e = g
  BY DEF NumbersUnique
<1>1. ASSUME NEW w \in Workers, Insertable(w), NEW x \in invoices, NEW y \in Batch(w)
      PROVE  x.number # y.number
  BY <1>1 DEF Insertable, TakenNumbers, NumbersOf
<1>2. ASSUME NEW w \in Workers, FinalizeCommit(w), Insertable(w) PROVE e = g
  <2>1. invoices' = invoices \cup Batch(w)
    BY <1>2 DEF FinalizeCommit
  <2> QED
    BY <1>1, <1>2, <2>1, BatchNumbersUnique DEF NumbersUnique
<1>3. CASE e \in invoices /\ g \in invoices
  BY <1>3 DEF NumbersUnique
<1> QED
  BY <1>2, <1>3, BatchFromCommit

\* As long as the club keeps one number format, sequence numbers are unique per
\* year in every reachable state, whatever finalizations overlap: the unique
\* index on the displayed number stands in for the missing check of
\* _first_invoice_sequence against runs that commit after its query.
THEOREM SequencesUnique ==
    ASSUME Formats = {DefaultFormat}
    PROVE  Spec => []SequencesUniquePerYear
<1> DEFINE IInv == NumbersUnique /\ NumberedBySequence
<1>1. Init => IInv
  BY DEF Init, NumbersUnique, NumberedBySequence
<1>2. TypeOK /\ IInv /\ [Next]_vars => IInv'
  <2> SUFFICES ASSUME TypeOK, IInv, [Next]_vars PROVE IInv'
    OBVIOUS
  <2>1. NumbersUnique'
    BY NumbersUniqueStep
  <2>2. \A e \in invoices' : e.number = InvoiceNumber(DefaultFormat, Year[e.run], e.seq)
    BY BatchFromCommit, OneFormatInvoices DEF NumberedBySequence
  <2> QED
    BY <2>1, <2>2 DEF NumberedBySequence
<1>3. IInv => SequencesUniquePerYear
  BY DEF NumbersUnique, NumberedBySequence, SequencesUniquePerYear
<1> QED
  BY <1>1, <1>2, <1>3, TypeCorrect, PTL DEF Spec
-----------------------------------------------------------------------------
(***************************************************************************)
(* What invoices bill.                                                     *)
(***************************************************************************)

\* Definition i was created for run r; it may have been removed since.
Owns(r, i) == items[i].state # "unborn" /\ items[i].run = r

\* A definition never moves to another run.
LEMMA OwnerStays ==
    ASSUME TypeOK, [Next]_vars, NEW i \in ItemIds, NEW r, Owns(r, i)
    PROVE  Owns(r, i)'
<1>1. ASSUME NEW w \in Workers, RunDeleteCommit(w) PROVE Owns(r, i)'
  BY <1>1 DEF RunDeleteCommit, Owns, TypeOK, ItemRow, ItemFields
<1>2. ASSUME NEW w \in Workers, ItemCreateCommit(w) PROVE Owns(r, i)'
  BY <1>2 DEF ItemCreateCommit, Rollback, Owns, First, Unborn, TypeOK
<1>3. ASSUME NEW w \in Workers, ItemsCopyCommit(w) PROVE Owns(r, i)'
  <2>1. ASSUME NEW f \in Placements(req[w].rows),
               items' = Stored(req[w].rows, req[w].run, f)
        PROVE  items'[i] = items[i]
    BY <2>1 DEF Placements, Stored, Unborn, Owns
  <2> QED
    BY <1>3, <2>1 DEF ItemsCopyCommit, Rollback, Owns
<1>4. ASSUME NEW w \in Workers, ItemEditCommit(w) PROVE Owns(r, i)'
  <2>1. \A was, new : /\ Merge(items[i], was, new).state = items[i].state
                      /\ Merge(items[i], was, new).run = items[i].run
    BY DEF Merge, TypeOK, ItemRow, ItemFields
  <2> QED
    BY <1>4, <2>1 DEF ItemEditCommit, Owns, TypeOK
<1>5. ASSUME NEW w \in Workers, RequestStep(w), ~RunDeleteCommit(w), ~ItemCreateCommit(w),
             ~ItemsCopyCommit(w), ~ItemEditCommit(w)
      PROVE  items' = items
  BY <1>5 DEF RequestStep, RunDeleteLoad, FinalizeLoad, StartingSequenceLoad,
     ItemCreateLoad, ItemsCopyLoad, ItemEditLoad, StartingSequenceCommit,
     FinalizeCompute, FinalizeNumber, FinalizeCommit, Rollback
<1>6. ASSUME NEW j \in ItemIds, ItemDelete(j) PROVE Owns(r, i)'
  BY <1>6 DEF ItemDelete, Owns, TypeOK, ItemRow, ItemFields
<1> QED
  BY <1>1, <1>2, <1>3, <1>4, <1>5, <1>6
     DEF Next, Step, vars, RunCreate, SettingsSave, TenancyChange, ParcelPurge, Owns

\* What a finalization in progress has loaded and computed is its own run's.
LoadedOwn(q) ==
    q.at = "fin_loaded" =>
        \A i \in Loaded(q.rows) : q.rows[i].run = q.run /\ Owns(q.run, i)

ComputedOwn(q) ==
    q.at \in {"fin_computed", "fin_numbered"} =>
        \A p \in Parcels : \A i \in q.lines[p] : Owns(q.run, i)

OwnInv ==
    /\ \A w \in Workers : LoadedOwn(req[w]) /\ ComputedOwn(req[w])
    /\ \A e \in invoices : e.lines # {} /\ \A i \in e.lines : Owns(e.run, i)

\* The record of a request changes only by one of these steps.
LEMMA RequestsStep ==
    ASSUME TypeOK, [Next]_vars, NEW w \in Workers, req'[w] # req[w]
    PROVE  \/ req'[w].at \notin {"fin_loaded", "fin_computed", "fin_numbered"}
           \/ \E r \in Runs : FinalizeLoad(w, r)
           \/ FinalizeCompute(w)
           \/ FinalizeNumber(w)
<1> DEFINE Other == req'[w].at \notin {"fin_loaded", "fin_computed", "fin_numbered"}
<1>1. ASSUME NEW v \in Workers, RequestStep(v), v # w PROVE FALSE
  BY <1>1 DEF RequestStep, Begin, End, RunDeleteLoad, FinalizeLoad, StartingSequenceLoad,
     ItemCreateLoad, ItemsCopyLoad, ItemEditLoad, RunDeleteCommit, InvoicesWithout, StartingSequenceCommit,
     ItemCreateCommit, ItemsCopyCommit, ItemEditCommit, FinalizeCompute,
     FinalizeNumber, FinalizeCommit, Rollback, TypeOK
<1>2. ASSUME End(w) PROVE Other
  BY <1>2 DEF End, Idle, TypeOK
<1>3. ASSUME NEW q, Begin(w, q), q.at \notin {"fin_loaded", "fin_computed", "fin_numbered"}
      PROVE  Other
  BY <1>3 DEF Begin, TypeOK
<1>4. ASSUME \/ RunDeleteCommit(w) \/ StartingSequenceCommit(w) \/ ItemCreateCommit(w)
             \/ ItemsCopyCommit(w) \/ ItemEditCommit(w) \/ FinalizeCommit(w)
      PROVE  Other
  BY <1>2, <1>4 DEF RunDeleteCommit, StartingSequenceCommit, ItemCreateCommit,
     ItemsCopyCommit, ItemEditCommit, FinalizeCommit, Rollback
<1>5. ASSUME \/ \E r \in Runs :
                   \/ RunDeleteLoad(w, r)
                   \/ \E o \in Overrides \cup {NoOverride} : StartingSequenceLoad(w, r, o)
                   \/ \E f \in Forms : ItemCreateLoad(w, r, f)
                   \/ \E source \in Runs : ItemsCopyLoad(w, r, source)
             \/ \E i \in ItemIds, f \in Edits : ItemEditLoad(w, i, f)
      PROVE  Other
  BY <1>3, <1>5, ZenonT(60) DEF RunDeleteLoad, StartingSequenceLoad, ItemCreateLoad, ItemsCopyLoad,
     ItemEditLoad, Idle
<1>6. ASSUME RequestStep(w)
      PROVE  \/ Other \/ (\E r \in Runs : FinalizeLoad(w, r))
             \/ FinalizeCompute(w) \/ FinalizeNumber(w)
  BY <1>4, <1>5, <1>6 DEF RequestStep
<1> HIDE DEF Other
<1> QED
  BY <1>1, <1>6 DEF Next, Step, vars, RunCreate, ItemDelete, OneStep, SettingsSave,
     TenancyChange, ParcelPurge, Other

\* An invoice bills only definitions of its own run, and at least one: neither
\* copying from another run nor editing or deleting definitions while the
\* invoices are computed mixes the definitions of two runs.
THEOREM BillOwnRun == Spec => []InvoicesBillOwnRun
<1>1. Init => OwnInv
  BY DEF Init, OwnInv, LoadedOwn, ComputedOwn, Idle
<1>2. TypeOK /\ OwnInv /\ [Next]_vars => OwnInv'
  <2> SUFFICES ASSUME TypeOK, OwnInv, [Next]_vars PROVE OwnInv'
    OBVIOUS
  <2>1. ASSUME NEW w \in Workers PROVE (LoadedOwn(req[w]) /\ ComputedOwn(req[w]))'
    <3> DEFINE q == req[w]
    <3>1. q \in RequestFields /\ (q.at # "idle" => q.run \in Runs)
      BY FieldsOf DEF TypeOK
    <3>2. \A i \in ItemIds, r \in Runs : Owns(r, i) => Owns(r, i)'
      BY OwnerStays
    <3>3. CASE q' = q
      <4>1. Loaded(q.rows) \subseteq ItemIds /\ \A p \in Parcels : q.lines[p] \subseteq ItemIds
        BY <3>1 DEF Loaded, RequestFields
      <4> HIDE DEF q
      <4>2. LoadedOwn(q) /\ ComputedOwn(q)
        BY DEF OwnInv, q
      <4>3. LoadedOwn(q)'
        BY <3>1, <3>2, <3>3, <4>1, <4>2 DEF LoadedOwn, Loaded
      <4>4. ComputedOwn(q)'
        BY <3>1, <3>2, <3>3, <4>1, <4>2 DEF ComputedOwn
      <4> QED
        BY <4>3, <4>4 DEF q
    <3>4. CASE q'.at \notin {"fin_loaded", "fin_computed", "fin_numbered"}
      BY <3>4 DEF LoadedOwn, ComputedOwn
    <3>5. ASSUME NEW r \in Runs, FinalizeLoad(w, r) PROVE (LoadedOwn(req[w]) /\ ComputedOwn(req[w]))'
      <4>1. /\ q'.at = "fin_loaded" /\ q'.run = r /\ q'.rows = RowsOf(r)
            /\ items' = items
        BY <3>5 DEF FinalizeLoad, Begin, Idle, TypeOK
      <4>2. \A i \in ItemIds : RowsOf(r)[i].state = "live" =>
                RowsOf(r)[i].run = r /\ Owns(r, i)
        BY DEF RowsOf, Definitions, Blank, Owns
      <4> QED
        BY <4>1, <4>2 DEF LoadedOwn, ComputedOwn, Loaded, Owns
    <3>6. CASE FinalizeCompute(w)
      <4>1. /\ q'.at = "fin_computed" /\ q'.run = q.run /\ items' = items
            /\ q'.lines = [p \in Parcels |-> LinesFor(q.rows, p)]
        BY <3>1, <3>6 DEF FinalizeCompute, TypeOK, RequestFields
      <4>2. \A p \in Parcels : \A i \in LinesFor(q.rows, p) : Owns(q.run, i)
        BY <3>6 DEF OwnInv, LoadedOwn, FinalizeCompute, LinesFor
      <4> QED
        BY <4>1, <4>2 DEF LoadedOwn, ComputedOwn, Owns
    <3>7. CASE FinalizeNumber(w)
      <4>1. \/ q'.at = "idle"
            \/ /\ q'.at = "fin_numbered" /\ q'.run = q.run
               /\ q'.lines = q.lines
        BY <3>1, <3>7 DEF FinalizeNumber, End, Idle, TypeOK, RequestFields
      <4>2. \A p \in Parcels : \A i \in q.lines[p] : Owns(q.run, i)
        BY <3>7 DEF OwnInv, ComputedOwn, FinalizeNumber
      <4>3. items' = items
        BY <3>7 DEF FinalizeNumber
      <4> QED
        BY <4>1, <4>2, <4>3 DEF LoadedOwn, ComputedOwn, Owns
    <3> QED
      BY <3>3, <3>4, <3>5, <3>6, <3>7, RequestsStep
  <2>2. ASSUME NEW e \in invoices' PROVE e.lines # {} /\ \A i \in e.lines : Owns(e.run, i)'
    <3>1. CASE e \in invoices
      <4>1. e.run \in Runs /\ e.lines \subseteq ItemIds
        BY <3>1 DEF TypeOK, Invoice
      <4> QED
        BY <3>1, <4>1, OwnerStays DEF OwnInv
    <3>2. CASE e \notin invoices
      <4>1. PICK w \in Workers : FinalizeCommit(w) /\ Insertable(w) /\ e \in Batch(w)
        BY <3>2, BatchFromCommit
      <4>2. PICK p \in Billed(w) : e.run = req[w].run /\ e.lines = req[w].lines[p]
        BY <4>1 DEF Batch
      <4>3. p \in Parcels /\ e.lines # {}
        BY <4>2 DEF Billed
      <4>4. \A i \in e.lines : Owns(e.run, i)
        BY <4>1, <4>2, <4>3 DEF OwnInv, ComputedOwn, FinalizeCommit
      <4>5. items' = items
        BY <4>1 DEF FinalizeCommit
      <4> QED
        BY <4>3, <4>4, <4>5 DEF Owns
    <3> QED
      BY <3>1, <3>2
  <2> QED
    BY <2>1, <2>2 DEF OwnInv
<1>3. OwnInv => InvoicesBillOwnRun
  BY DEF OwnInv, Owns, InvoicesBillOwnRun
<1> QED
  BY <1>1, <1>2, <1>3, TypeCorrect, PTL DEF Spec
-----------------------------------------------------------------------------
\* The sequence number of parcel p in the batch of request w.
SeqOf(w, p) == req[w].start + Rank(Billed(w), p) - 1


\* The invoices and the number a finalization is about to store.
LEMMA BatchEntries ==
    ASSUME TypeOK, NEW w \in Workers, req[w].run \in Runs
    PROVE  /\ IsFiniteSet(Billed(w)) /\ Billed(w) \in SUBSET Nat /\ Billed(w) \subseteq Parcels
           /\ \A e \in Batch(w) :
                 /\ e.run = req[w].run /\ e.parcel \in Billed(w)
                 /\ e.seq = SeqOf(w, e.parcel) /\ e.lines = req[w].lines[e.parcel]
                 /\ e.number = InvoiceNumber(req[w].format, Year[req[w].run], e.seq)
           /\ \A e, g \in Batch(w) : e.parcel = g.parcel => e = g
           /\ \A p \in Billed(w) : \E e \in Batch(w) : e.parcel = p
<1>1. IsFiniteSet(Billed(w)) /\ Billed(w) \in SUBSET Nat /\ Billed(w) \subseteq Parcels
  BY ParcelAssumption, FS_Subset, Billed(w) \in SUBSET Parcels DEF Billed
<1> DEFINE Entry(p) == [run |-> req[w].run, parcel |-> p, seq |-> SeqOf(w, p),
                        lines |-> req[w].lines[p],
                        number |-> InvoiceNumber(req[w].format, Year[req[w].run], SeqOf(w, p))]
<1>2. Batch(w) = {Entry(p) : p \in Billed(w)}
  BY DEF Batch, SeqOf
<1>3. \A p \in Billed(w) :
         /\ Entry(p).run = req[w].run /\ Entry(p).parcel = p
         /\ Entry(p).seq = SeqOf(w, p) /\ Entry(p).lines = req[w].lines[p]
         /\ Entry(p).number = InvoiceNumber(req[w].format, Year[req[w].run], Entry(p).seq)
  OBVIOUS
<1> HIDE DEF Entry
<1> QED
  BY <1>1, <1>2, <1>3

\* Invoices, and the history of them, come from a commit only.
LEMMA BookStep ==
    ASSUME [Next]_vars
    PROVE  \/ invoices' \subseteq invoices /\ issued' = issued
           \/ \E w \in Workers : /\ FinalizeCommit(w) /\ Insertable(w)
                                 /\ invoices' = invoices \cup Batch(w)
                                 /\ issued' = issued \cup Batch(w)
<1>1. ASSUME NEW w \in Workers, RequestStep(w), ~FinalizeCommit(w)
      PROVE  invoices' \subseteq invoices /\ issued' = issued
  BY <1>1 DEF RequestStep, RunDeleteLoad, FinalizeLoad, StartingSequenceLoad,
     ItemCreateLoad, ItemsCopyLoad, ItemEditLoad, RunDeleteCommit, InvoicesWithout,
     StartingSequenceCommit, ItemCreateCommit, ItemsCopyCommit, ItemEditCommit,
     FinalizeCompute, FinalizeNumber, Rollback
<1>2. ASSUME NEW w \in Workers, FinalizeCommit(w)
      PROVE  \/ invoices' \subseteq invoices /\ issued' = issued
             \/ /\ Insertable(w) /\ invoices' = invoices \cup Batch(w)
                /\ issued' = issued \cup Batch(w)
  BY <1>2 DEF FinalizeCommit, Rollback
<1> QED
  BY <1>1, <1>2 DEF Next, Step, vars, RunCreate, ItemDelete, SettingsSave, TenancyChange, ParcelPurge

\* The rows of definitions that stay the same bill the same.
LEMMA SameRowBillsSame ==
    ASSUME NEW i \in ItemIds, items'[i] = items[i]
    PROVE  /\ \A r : RowsOf(r)'[i] = RowsOf(r)[i]
           /\ \A r, p : i \in Configured(r, p)' <=> i \in Configured(r, p)
BY DEF RowsOf, Definitions, Configured

\* What Watch notes about a finalization.
LEMMA Watched ==
    ASSUME TypeOK, [Next]_vars, NEW w \in Workers
    PROVE  /\ req'[w].at \in {"fin_loaded", "fin_computed", "fin_numbered"} =>
                /\ edited[w] \subseteq edited'[w]
                /\ \A i \in ItemIds \ edited'[w] : items'[i] = items[i]
           /\ req'[w].at \in {"fin_computed", "fin_numbered"} =>
                /\ moved[w] \subseteq moved'[w]
                /\ \A p \in Parcels \ moved'[w] : p \in billable' <=> p \in billable
<1>1. CASE UNCHANGED vars
  BY <1>1 DEF vars
<1>2. CASE Watch
  BY <1>2 DEF Watch
<1> QED
  BY <1>1, <1>2 DEF Next

\* What a finalization has loaded and computed is right for every definition
\* and every parcel that nobody has changed since.
LoadedRight(w) ==
    \A r \in Runs : req[w].at = "fin_loaded" /\ req[w].run = r =>
        \A i \in ItemIds \ edited[w] : req[w].rows[i] = RowsOf(r)[i]

ComputedRight(w) ==
    \A r \in Runs : req[w].at \in {"fin_computed", "fin_numbered"} /\ req[w].run = r =>
        \A p \in Parcels \ moved[w] :
            /\ p \notin billable => req[w].lines[p] = {}
            /\ p \in billable =>
                 \A i \in ItemIds \ edited[w] :
                     i \in req[w].lines[p] <=> i \in Configured(r, p)

ReadInv == \A w \in Workers : LoadedRight(w) /\ ComputedRight(w)

LEMMA ReadStep ==
    ASSUME TypeOK, ReadInv, [Next]_vars PROVE ReadInv'
<1> SUFFICES ASSUME NEW w \in Workers PROVE LoadedRight(w)' /\ ComputedRight(w)'
  BY DEF ReadInv
<1>1. req[w] \in RequestFields /\ LoadedRight(w) /\ ComputedRight(w)
  BY FieldsOf DEF TypeOK, ReadInv
<1>2. CASE req'[w] = req[w]
  <2>1. LoadedRight(w)'
    <3> SUFFICES ASSUME NEW r \in Runs, req[w].at = "fin_loaded", req[w].run = r,
                        NEW i \in ItemIds, i \notin edited'[w]
                 PROVE  req[w].rows[i] = RowsOf(r)'[i]
      BY <1>2 DEF LoadedRight
    <3>1. i \notin edited[w] /\ items'[i] = items[i]
      BY <1>2, Watched
    <3> QED
      BY <1>1, <3>1, SameRowBillsSame DEF LoadedRight
  <2>2. ComputedRight(w)'
    <3> SUFFICES ASSUME NEW r \in Runs, req[w].run = r,
                        req[w].at \in {"fin_computed", "fin_numbered"},
                        NEW p \in Parcels, p \notin moved'[w]
                 PROVE  /\ p \notin billable' => req[w].lines[p] = {}
                        /\ p \in billable' =>
                             \A i \in ItemIds \ edited'[w] :
                                 i \in req[w].lines[p] <=> i \in Configured(r, p)'
      BY <1>2 DEF ComputedRight
    <3>1. p \notin moved[w] /\ (p \in billable' <=> p \in billable)
      BY <1>2, Watched
    <3>2. \A i \in ItemIds \ edited'[w] : i \notin edited[w] /\ items'[i] = items[i]
      BY <1>2, Watched
    <3> QED
      BY <1>1, <3>1, <3>2, SameRowBillsSame DEF ComputedRight
  <2> QED
    BY <2>1, <2>2
<1>3. CASE req'[w].at \notin {"fin_loaded", "fin_computed", "fin_numbered"}
  BY <1>3 DEF LoadedRight, ComputedRight
<1>4. ASSUME NEW r \in Runs, FinalizeLoad(w, r) PROVE LoadedRight(w)' /\ ComputedRight(w)'
  <2>1. /\ req'[w].at = "fin_loaded" /\ req'[w].run = r /\ req'[w].rows = RowsOf(r)
        /\ items' = items
    BY <1>4 DEF FinalizeLoad, Begin, Idle, TypeOK
  <2>2. \A i \in ItemIds : RowsOf(r)'[i] = RowsOf(r)[i]
    BY <2>1, SameRowBillsSame
  <2>3. ComputedRight(w)'
    BY <2>1 DEF ComputedRight
  <2>4. LoadedRight(w)'
    BY <2>1, <2>2 DEF LoadedRight
  <2> QED
    BY <2>3, <2>4
<1>5. CASE FinalizeCompute(w)
  <2> PICK r \in Runs : req[w].run = r
    BY <1>1, <1>5, FieldsOf DEF FinalizeCompute, TypeOK
  <2>1. /\ req[w].at = "fin_loaded"
        /\ req'[w].at = "fin_computed" /\ req'[w].run = req[w].run
        /\ req'[w].lines = [p \in Parcels |-> LinesFor(req[w].rows, p)]
        /\ items' = items /\ billable' = billable
    BY <1>1, <1>5 DEF FinalizeCompute, TypeOK, RequestFields
  <2>2. LoadedRight(w)'
    BY <2>1 DEF LoadedRight
  <2>3. ASSUME NEW p \in Parcels, p \in billable, NEW i \in ItemIds, i \notin edited'[w]
        PROVE  i \in LinesFor(req[w].rows, p) <=> i \in Configured(r, p)'
    <3>1. i \notin edited[w] /\ items'[i] = items[i]
      BY <2>1, <2>3, Watched
    <3>2. req[w].rows[i] = RowsOf(r)[i]
      BY <1>1, <2>1, <3>1 DEF LoadedRight
    <3>3. i \in LinesFor(req[w].rows, p) <=> i \in Configured(r, p)
      <4>1. CASE i \in Definitions(r)
        <5>1. req[w].rows[i] = items[i] /\ items[i].state = "live"
          BY <3>2, <4>1 DEF RowsOf, Definitions
        <5> QED
          BY <2>3, <4>1, <5>1 DEF LinesFor, Loaded, Configured
      <4>2. CASE i \notin Definitions(r)
        <5>1. req[w].rows[i].state = "unborn"
          BY <3>2, <4>2 DEF RowsOf, Blank
        <5> QED
          BY <4>2, <5>1 DEF LinesFor, Loaded, Configured
      <4> QED
        BY <4>1, <4>2
    <3> QED
      BY <3>1, <3>3, SameRowBillsSame
  <2>4. \A p \in Parcels : p \notin billable => LinesFor(req[w].rows, p) = {}
    BY DEF LinesFor
  <2>5. ComputedRight(w)'
    <3> SUFFICES ASSUME NEW p \in Parcels
                 PROVE  /\ p \notin billable => LinesFor(req[w].rows, p) = {}
                        /\ p \in billable =>
                             \A i \in ItemIds \ edited'[w] :
                                 i \in LinesFor(req[w].rows, p)
                                   <=> i \in Configured(r, p)'
      BY <2>1 DEF ComputedRight
    <3> QED
      BY <2>3, <2>4
  <2> QED
    BY <2>2, <2>5
<1>6. CASE FinalizeNumber(w) /\ ~End(w)
  <2>1. /\ req[w].at = "fin_computed" /\ req'[w].at = "fin_numbered"
        /\ req'[w].run = req[w].run /\ req'[w].lines = req[w].lines
        /\ items' = items /\ billable' = billable
    <3>1. PICK n : req' = [req EXCEPT ![w].at = "fin_numbered",
                                      ![w].format = format, ![w].start = n]
      BY <1>6 DEF FinalizeNumber
    <3> QED
      BY <1>1, <1>6, <3>1 DEF FinalizeNumber, TypeOK, RequestFields
  <2>2. LoadedRight(w)'
    BY <2>1 DEF LoadedRight
  <2>3. ComputedRight(w)'
    <3> SUFFICES ASSUME NEW r \in Runs, req[w].run = r,
                        NEW p \in Parcels, p \notin moved'[w]
                 PROVE  /\ p \notin billable => req[w].lines[p] = {}
                        /\ p \in billable =>
                             \A i \in ItemIds \ edited'[w] :
                                 i \in req[w].lines[p] <=> i \in Configured(r, p)'
      BY <2>1 DEF ComputedRight
    <3>1. p \notin moved[w]
      BY <2>1, Watched
    <3>2. \A i \in ItemIds \ edited'[w] : i \notin edited[w] /\ items'[i] = items[i]
      BY <2>1, Watched
    <3> QED
      BY <1>1, <2>1, <3>1, <3>2, SameRowBillsSame DEF ComputedRight
  <2> QED
    BY <2>2, <2>3
<1>7. CASE End(w)
  BY <1>3, <1>7 DEF End, Idle, TypeOK
<1> QED
  BY <1>2, <1>3, <1>4, <1>5, <1>6, <1>7, RequestsStep

\* A commit adds its batch and nothing else, all of it new.
LEMMA CommitAdds ==
    ASSUME NEW w \in Workers, FinalizeCommit(w), Insertable(w)
    PROVE  invoices' \ invoices = Batch(w)
<1>1. invoices' = invoices \cup Batch(w)
  BY DEF FinalizeCommit
<1>2. \A e \in Batch(w), old \in invoices : e.number # old.number
  BY DEF Insertable, NumbersOf, TakenNumbers
<1> QED
  BY <1>1, <1>2

\* However many requests change definitions and tenancies while a finalization
\* is under way, its invoices are as configured when they are stored, except for
\* the definitions and the parcels that were changed; and nobody is left out.
THEOREM BilledRight == Spec => BilledAsConfigured
<1>1. Init => ReadInv
  BY DEF Init, ReadInv, LoadedRight, ComputedRight, Idle
<1>2. TypeOK /\ ReadInv /\ [Next]_vars => ReadInv'
  BY ReadStep
<1>3. TypeOK /\ ReadInv /\ [Next]_vars =>
        [\A w \in Workers : FinalizeCommit(w) /\ Insertable(w) =>
          \A p \in Parcels \ moved[w] :
              LET bill == {e \in invoices' \ invoices : e.parcel = p}
                  due  == IF p \in billable THEN Configured(req[w].run, p) ELSE {}
              IN  /\ (UNION {e.lines : e \in bill}) \ edited[w] = due \ edited[w]
                  /\ p \notin billable => bill = {}]_vars
  <2> SUFFICES ASSUME TypeOK, ReadInv, NEW w \in Workers, FinalizeCommit(w), Insertable(w),
                      NEW p \in Parcels, p \notin moved[w]
               PROVE  LET bill == {e \in invoices' \ invoices : e.parcel = p}
                          due  == IF p \in billable THEN Configured(req[w].run, p) ELSE {}
                      IN  /\ (UNION {e.lines : e \in bill}) \ edited[w] = due \ edited[w]
                          /\ p \notin billable => bill = {}
    OBVIOUS
  <2> DEFINE bill == {e \in invoices' \ invoices : e.parcel = p}
             due  == IF p \in billable THEN Configured(req[w].run, p) ELSE {}
             lines == req[w].lines[p]
  <2>1. req[w].run \in Runs /\ req[w].at = "fin_numbered" /\ lines \subseteq ItemIds
    BY FieldsOf DEF FinalizeCommit, TypeOK, RequestFields
  <2>2. bill = {e \in Batch(w) : e.parcel = p}
    BY CommitAdds
  <2>3. UNION {e.lines : e \in bill} = lines /\ (lines = {} => bill = {})
    <3>1. CASE lines = {}
      <4>1. \A e \in Batch(w) : e.parcel \in Billed(w)
        BY <2>1, BatchEntries
      <4>2. p \notin Billed(w)
        BY <3>1 DEF Billed
      <4>3. bill = {}
        BY <2>2, <4>1, <4>2
      <4> QED
        BY <3>1, <4>3
    <3>2. CASE lines # {}
      <4>1. PICK e \in Batch(w) : e.parcel = p
        BY <2>1, <3>2, BatchEntries DEF Billed
      <4>2. bill = {e} /\ e.lines = lines
        BY <2>1, <2>2, <4>1, BatchEntries
      <4> QED
        BY <3>2, <4>2
    <3> QED
      BY <3>1, <3>2
  <2>4. /\ p \notin billable => lines = {}
        /\ p \in billable => \A i \in ItemIds \ edited[w] : i \in lines <=> i \in due
    BY <2>1 DEF ReadInv, ComputedRight
  <2>5. due \subseteq ItemIds
    BY DEF Configured, Definitions
  <2> HIDE DEF due, lines, bill
  <2>6. p \notin billable => due = {}
    BY DEF due
  <2>7. (UNION {e.lines : e \in bill}) \ edited[w] = due \ edited[w]
    BY <2>1, <2>3, <2>4, <2>5, <2>6
  <2>8. p \notin billable => bill = {}
    BY <2>3, <2>4
  <2> QED
    BY <2>7, <2>8 DEF bill, due
<1> QED
  BY <1>1, <1>2, <1>3, TypeCorrect, PTL DEF Spec, BilledAsConfigured
-----------------------------------------------------------------------------
(***************************************************************************)
(* What becomes of numbers that were given out.                            *)
(***************************************************************************)

\* Every issued invoice is there or gone for a reason.
Accounted == \A e \in issued : e \in invoices \/ Gone(e)

\* What is gone stays gone.
LEMMA GoneForGood ==
    ASSUME TypeOK, [Next]_vars, NEW e, Gone(e), e.run \in Runs PROVE Gone(e)'
<1>1. parcels' \subseteq parcels /\ (status[e.run] = "deleted" => status'[e.run] = "deleted")
  <2>1. ASSUME NEW w \in Workers, RequestStep(w)
        PROVE  parcels' = parcels /\ (status[e.run] = "deleted" => status'[e.run] = "deleted")
    BY <2>1 DEF RequestStep, RunDeleteLoad, FinalizeLoad, StartingSequenceLoad,
       ItemCreateLoad, ItemsCopyLoad, ItemEditLoad, RunDeleteCommit, StartingSequenceCommit,
       ItemCreateCommit, ItemsCopyCommit, ItemEditCommit, FinalizeCompute,
       FinalizeNumber, FinalizeCommit, Rollback, Insertable, Exists, TypeOK
  <2> QED
    BY <2>1 DEF Next, Step, vars, RunCreate, ItemDelete, SettingsSave, TenancyChange, ParcelPurge,
       TypeOK
<1> QED
  BY <1>1 DEF Gone

\* Invoices go only with their parcel or with their run.
LEMMA LeavesWhenGone ==
    ASSUME TypeOK, [Next]_vars, NEW e \in invoices, e \notin invoices' PROVE Gone(e)'
<1>1. ASSUME NEW w \in Workers, RunDeleteCommit(w) PROVE Gone(e)'
  <2>1. e.run = req[w].run /\ e.run \in Runs
    BY <1>1 DEF RunDeleteCommit, InvoicesWithout, TypeOK, Invoice
  <2> QED
    BY <1>1, <2>1 DEF RunDeleteCommit, Gone, TypeOK
<1>2. ASSUME NEW w \in Workers, RequestStep(w), ~RunDeleteCommit(w)
      PROVE  invoices \subseteq invoices'
  BY <1>2 DEF RequestStep, RunDeleteLoad, FinalizeLoad, StartingSequenceLoad,
     ItemCreateLoad, ItemsCopyLoad, ItemEditLoad, StartingSequenceCommit,
     ItemCreateCommit, ItemsCopyCommit, ItemEditCommit, FinalizeCompute,
     FinalizeNumber, FinalizeCommit, Rollback
<1>3. ASSUME NEW p \in Parcels, ParcelPurge(p) PROVE Gone(e)'
  BY <1>3 DEF ParcelPurge, Gone
<1> QED
  BY <1>1, <1>2, <1>3 DEF Next, Step, vars, RunCreate, ItemDelete, SettingsSave, TenancyChange

\* Whatever overlaps, an issued invoice stays until its parcel is deleted for
\* good or its run is deleted, and its number is given to no other before that.
THEOREM NumbersStay == Spec => []IssuedNumbersStay
<1> DEFINE IInv == Accounted /\ NumbersUnique
<1>1. Init => IInv
  BY DEF Init, Accounted, NumbersUnique
<1>2. TypeOK /\ Accounted /\ [Next]_vars => Accounted'
  <2> SUFFICES ASSUME TypeOK, Accounted, [Next]_vars, NEW e \in issued', e \notin invoices'
               PROVE  Gone(e)'
    BY DEF Accounted
  <2>1. e \in issued
    <3>1. CASE issued' = issued
      BY <3>1
    <3>2. CASE \E w \in Workers : /\ invoices' = invoices \cup Batch(w)
                                  /\ issued' = issued \cup Batch(w)
      BY <3>2
    <3> QED
      BY <3>1, <3>2, BookStep
  <2>2. e.run \in Runs
    BY <2>1 DEF TypeOK, Invoice
  <2> QED
    BY <2>1, <2>2, GoneForGood, LeavesWhenGone DEF Accounted
<1>3. TypeOK /\ NumbersUnique /\ [Next]_vars => NumbersUnique'
  BY NumbersUniqueStep
<1>4. IInv => IssuedNumbersStay
  BY DEF Accounted, NumbersUnique, IssuedNumbersStay
<1> QED
  BY <1>1, <1>2, <1>3, <1>4, TypeCorrect, PTL DEF Spec
-----------------------------------------------------------------------------
(***************************************************************************)
(* One request at a time: the module is the book of invoices it promises.  *)
(***************************************************************************)

\* Handlers run one after the other.
OneAtATime == \A v, w \in Workers : v = w

\* A request in flight is about a run that is still DRAFT.
DraftInv == \A w \in Workers : req[w].at # "idle" => status[req[w].run] = "DRAFT"

\* The numbers a finalization has fixed are not in use in its year.
FreeInv ==
    \A w \in Workers : req[w].at = "fin_numbered" =>
        \A p \in Billed(w), e \in invoices :
            Year[e.run] = Year[req[w].run] => e.seq # SeqOf(w, p)

SerialInv == OneInvoicePerParcel /\ DraftInv /\ FreeInv

\* A rank lies between one and the number of those that are ranked.
LEMMA RankBounds ==
    ASSUME NEW S \in SUBSET Nat, IsFiniteSet(S), NEW i \in S
    PROVE  /\ Rank(S, i) \in Nat /\ Cardinality(S) \in Nat
           /\ 1 <= Rank(S, i) /\ Rank(S, i) <= Cardinality(S)
<1> DEFINE low == {j \in S : j <= i}
<1>1. low \in SUBSET S /\ i \in low
  BY i \in Nat
<1>2. IsFiniteSet(low) /\ Cardinality(low) <= Cardinality(S)
  BY <1>1, FS_Subset
<1>3. Cardinality(low) \in Nat /\ Cardinality(S) \in Nat
  BY <1>2, FS_CardinalityType
<1>4. Cardinality(low) # 0
  BY <1>1, <1>2, FS_EmptySet
<1> QED
  BY <1>2, <1>3, <1>4 DEF Rank

\* How a request comes to be where it is after a step: nothing happened, it
\* has just read its run, or it is a finalization that goes on.
LEMMA RequestFate ==
    ASSUME OneAtATime, TypeOK, [Next]_vars, NEW w \in Workers, req'[w].at # "idle"
    PROVE  /\ UNCHANGED <<status, items, invoices, issued>>
           /\ \/ req'[w] = req[w]
              \/ /\ status[req'[w].run] = "DRAFT"
                 /\ req'[w].at \notin {"fin_loaded", "fin_computed", "fin_numbered"}
              \/ \E r \in Runs : FinalizeLoad(w, r)
              \/ FinalizeCompute(w)
              \/ FinalizeNumber(w)
<1> DEFINE Same == UNCHANGED <<status, items, invoices, issued>>
           Read == /\ status[req'[w].run] = "DRAFT"
                   /\ req'[w].at \notin {"fin_loaded", "fin_computed", "fin_numbered"}
<1>1. ASSUME OneStep PROVE FALSE
  BY <1>1 DEF OneStep, OneAtATime, Idle
<1>2. ASSUME End(w) PROVE FALSE
  BY <1>2 DEF End, Idle, TypeOK
<1>3. ASSUME NEW r \in Runs, RunDeleteLoad(w, r) PROVE Same /\ Read
  BY <1>3 DEF RunDeleteLoad, Begin, Idle, TypeOK
<1>4. ASSUME NEW r \in Runs, NEW o \in Overrides \cup {NoOverride}, StartingSequenceLoad(w, r, o)
      PROVE  Same /\ Read
  BY <1>4 DEF StartingSequenceLoad, Begin, Idle, TypeOK
<1>5. ASSUME NEW r \in Runs, NEW f \in Forms, ItemCreateLoad(w, r, f) PROVE Same /\ Read
  <2>1. PICK row : /\ req' = [req EXCEPT ![w] = [Idle EXCEPT !.at = "item_create", !.run = r,
                                                             !.form = row]]
                   /\ status[r] = "DRAFT" /\ Same
    BY <1>5 DEF ItemCreateLoad, Begin
  <2> QED
    BY <2>1 DEF Idle, TypeOK
<1>6. ASSUME NEW r \in Runs, NEW source \in Runs, ItemsCopyLoad(w, r, source) PROVE Same /\ Read
  BY <1>6 DEF ItemsCopyLoad, Begin, Idle, TypeOK
<1>7. ASSUME NEW i \in ItemIds, NEW f \in Edits, ItemEditLoad(w, i, f) PROVE Same /\ Read
  <2>1. PICK rows, form : /\ req' = [req EXCEPT ![w] =
                                 [Idle EXCEPT !.at = "item_edit", !.run = items[i].run, !.item = i,
                                              !.rows = rows, !.form = form]]
                          /\ status[items[i].run] = "DRAFT" /\ Same
    BY <1>7 DEF ItemEditLoad, Begin
  <2> QED
    BY <2>1 DEF Idle, TypeOK
<1>8. ASSUME \/ RunDeleteCommit(w) \/ StartingSequenceCommit(w) \/ ItemCreateCommit(w)
             \/ ItemsCopyCommit(w) \/ ItemEditCommit(w) \/ FinalizeCommit(w)
      PROVE  FALSE
  BY <1>2, <1>8 DEF RunDeleteCommit, StartingSequenceCommit, ItemCreateCommit,
     ItemsCopyCommit, ItemEditCommit, FinalizeCommit, Rollback
<1>9. ASSUME (\E r \in Runs : FinalizeLoad(w, r)) \/ FinalizeCompute(w) \/ FinalizeNumber(w)
      PROVE  Same
  BY <1>9 DEF FinalizeLoad, FinalizeCompute, FinalizeNumber
<1>10. ASSUME NEW v \in Workers, RequestStep(v)
       PROVE  /\ Same
              /\ Read \/ (\E r \in Runs : FinalizeLoad(w, r)) \/ FinalizeCompute(w) \/ FinalizeNumber(w)
  <2>1. v = w
    BY DEF OneAtATime
  <2> HIDE DEF Same, Read
  <2> QED
    BY <1>3, <1>4, <1>5, <1>6, <1>7, <1>8, <1>9, <1>10, <2>1 DEF RequestStep
<1> HIDE DEF Read
<1>11. ASSUME ~UNCHANGED vars PROVE \E v \in Workers : RequestStep(v)
  BY <1>1, <1>11 DEF Next, Step, RunCreate, ItemDelete, SettingsSave, TenancyChange, ParcelPurge
<1> QED
  BY <1>10, <1>11 DEF Read, vars

\* The number fixed by _first_invoice_sequence, and those counted up from it,
\* are not in use in the year of the run.
LEMMA FirstSequenceIsFree ==
    ASSUME TypeOK, NEW w \in Workers, req[w].run \in Runs, NEW n \in FirstSequence(w),
           NEW p \in Billed(w), NEW e \in invoices, Year[e.run] = Year[req[w].run]
    PROVE  e.seq # n + Rank(Billed(w), p) - 1
<1> DEFINE used == UsedSequences(Year[req[w].run])
           k == Rank(Billed(w), p)
           size == Cardinality(Billed(w))
<1>1. e.seq \in used /\ used \subseteq Int
  BY DEF UsedSequences, TypeOK, Invoice
<1>2. k \in Nat /\ size \in Nat /\ 1 <= k /\ k <= size
  BY BatchEntries, RankBounds
<1>3. CASE req[w].over # NoOverride
  <2>1. n = req[w].over /\ Wanted(w) \cap used = {}
    BY <1>3 DEF FirstSequence
  <2>2. n \in Int
    <3>1. req[w].over \in Overrides
      BY <1>3, FieldsOf DEF TypeOK, RequestFields
    <3>2. \A o \in Overrides : o \in Int
      BY NumberAssumption
    <3> QED
      BY <2>1, <3>1, <3>2
  <2>3. n + k - 1 \in Wanted(w)
    BY <1>2, <2>1, <2>2 DEF Wanted
  <2> QED
    BY <1>1, <2>1, <2>3
<1>4. CASE req[w].over = NoOverride
  <2>1. PICK m \in used : n = m + 1 /\ \A j \in used : j <= m
    BY <1>1, <1>4 DEF FirstSequence
  <2>2. e.seq <= m /\ m \in Int /\ e.seq \in Int
    BY <1>1, <2>1
  <2> HIDE DEF k
  <2>3. e.seq # n + k - 1
    BY <1>2, <2>1, <2>2
  <2> QED
    BY <2>3 DEF k
<1> QED
  BY <1>3, <1>4

\* A run that is being deleted is DRAFT, so that it has no invoices yet, and
\* nothing else removes invoices as long as parcels are not deleted for good.
LEMMA InvoicesKept ==
    ASSUME TypeOK, DraftInv, InvoicesOnlyInFinalizedRuns, [Next]_vars, Purgeable = {}
    PROVE  invoices \subseteq invoices'
<1>1. ASSUME NEW w \in Workers, RunDeleteCommit(w) PROVE invoices' = invoices
  <2>1. \A e \in invoices : e.run # req[w].run
    BY <1>1 DEF RunDeleteCommit, DraftInv, InvoicesOnlyInFinalizedRuns
  <2> QED
    BY <1>1, <2>1 DEF RunDeleteCommit, InvoicesWithout
<1>2. ASSUME NEW w \in Workers, RequestStep(w), ~RunDeleteCommit(w)
      PROVE  invoices \subseteq invoices'
  BY <1>2 DEF RequestStep, RunDeleteLoad, FinalizeLoad, StartingSequenceLoad,
     ItemCreateLoad, ItemsCopyLoad, ItemEditLoad, StartingSequenceCommit,
     ItemCreateCommit, ItemsCopyCommit, ItemEditCommit, FinalizeCompute,
     FinalizeNumber, FinalizeCommit, Rollback
<1> QED
  BY <1>1, <1>2 DEF Next, Step, vars, RunCreate, ItemDelete, SettingsSave, TenancyChange, ParcelPurge

\* Only the commit of a finalization finalizes a run, and nothing takes the
\* status back.
LEMMA StatusStep ==
    ASSUME TypeOK, DraftInv, [Next]_vars, NEW r \in Runs
    PROVE  /\ status[r] = "FINALIZED" => status'[r] = "FINALIZED"
           /\ status[r] # "FINALIZED" /\ status'[r] = "FINALIZED" =>
                \E w \in Workers : FinalizeCommit(w) /\ Insertable(w) /\ req[w].run = r
<1> DEFINE Goal == /\ status[r] = "FINALIZED" => status'[r] = "FINALIZED"
                   /\ status[r] # "FINALIZED" /\ status'[r] = "FINALIZED" =>
                        \E w \in Workers : FinalizeCommit(w) /\ Insertable(w) /\ req[w].run = r
<1>1. ASSUME NEW w \in Workers, RunDeleteCommit(w) PROVE Goal
  BY <1>1 DEF RunDeleteCommit, DraftInv, TypeOK
<1>2. ASSUME NEW w \in Workers, FinalizeCommit(w) PROVE Goal
  BY <1>2 DEF FinalizeCommit, Rollback, TypeOK
<1>3. ASSUME NEW w \in Workers, RequestStep(w), ~RunDeleteCommit(w), ~FinalizeCommit(w)
      PROVE  status' = status
  BY <1>3 DEF RequestStep, RunDeleteLoad, FinalizeLoad, StartingSequenceLoad,
     ItemCreateLoad, ItemsCopyLoad, ItemEditLoad, StartingSequenceCommit,
     ItemCreateCommit, ItemsCopyCommit, ItemEditCommit, FinalizeCompute,
     FinalizeNumber, Rollback
<1>4. ASSUME NEW q \in Runs, NEW o \in Overrides \cup {NoOverride}, RunCreate(q, o) PROVE Goal
  BY <1>4 DEF RunCreate, TypeOK
<1>5. ASSUME status' = status PROVE Goal
  BY <1>5
<1> HIDE DEF Goal
<1>6. Goal
  BY <1>1, <1>2, <1>3, <1>4, <1>5
     DEF Next, Step, vars, ItemDelete, SettingsSave, TenancyChange, ParcelPurge
<1> QED
  BY <1>6 DEF Goal

LEMMA DraftStep ==
    ASSUME OneAtATime, TypeOK, DraftInv, [Next]_vars
    PROVE  DraftInv'
<1> SUFFICES ASSUME NEW w \in Workers, req'[w].at # "idle"
             PROVE  status'[req'[w].run] = "DRAFT"
  BY DEF DraftInv
<1>1. status' = status
  BY RequestFate
<1>2. CASE req'[w] = req[w]
  BY <1>1, <1>2 DEF DraftInv
<1>3. ASSUME NEW r \in Runs, FinalizeLoad(w, r) PROVE status[req'[w].run] = "DRAFT"
  <2>1. req'[w].run = r /\ status[r] = "DRAFT"
    BY <1>3 DEF FinalizeLoad, Begin, Idle, TypeOK
  <2> QED
    BY <2>1
<1>4. CASE FinalizeCompute(w) \/ FinalizeNumber(w)
  <2>1. req'[w].run = req[w].run /\ req[w].at # "idle"
    <3>1. req[w] \in RequestFields
      BY FieldsOf DEF TypeOK
    <3> QED
      BY <1>4, <3>1 DEF FinalizeCompute, FinalizeNumber, End, Idle, TypeOK, RequestFields
  <2> QED
    BY <1>1, <2>1 DEF DraftInv
<1> QED
  BY <1>1, <1>2, <1>3, <1>4, RequestFate

LEMMA FreeStep ==
    ASSUME OneAtATime, TypeOK, FreeInv, [Next]_vars
    PROVE  FreeInv'
<1> SUFFICES ASSUME NEW w \in Workers, req'[w].at = "fin_numbered",
                    NEW p \in Billed(w)', NEW e \in invoices', Year[e.run] = Year[req'[w].run]
             PROVE  e.seq # SeqOf(w, p)'
  BY DEF FreeInv
<1>0. req[w] \in RequestFields /\ invoices' = invoices
  BY FieldsOf, RequestFate DEF TypeOK
<1>1. CASE req'[w] = req[w]
  <2>1. Billed(w)' = Billed(w)
    BY <1>1 DEF Billed
  <2>2. SeqOf(w, p)' = SeqOf(w, p)
    BY <1>1, <2>1 DEF SeqOf
  <2> QED
    BY <1>0, <1>1, <2>1, <2>2 DEF FreeInv
<1>2. CASE FinalizeNumber(w)
  <2>1. PICK n \in FirstSequence(w) :
           req' = [req EXCEPT ![w].at = "fin_numbered", ![w].format = format, ![w].start = n]
    BY <1>2 DEF FinalizeNumber, End, Idle, TypeOK
  <2>2. req'[w].lines = req[w].lines /\ req'[w].run = req[w].run /\ req'[w].start = n
    BY <1>0, <2>1 DEF TypeOK, RequestFields
  <2>3. Billed(w)' = Billed(w)
    BY <2>2 DEF Billed
  <2>4. SeqOf(w, p)' = n + Rank(Billed(w), p) - 1
    BY <2>2, <2>3 DEF SeqOf
  <2>5. req[w].run \in Runs
    BY <1>2, FieldsOf DEF FinalizeNumber, TypeOK
  <2> QED
    BY <1>0, <2>2, <2>3, <2>4, <2>5, FirstSequenceIsFree
<1>3. ASSUME NEW r \in Runs, FinalizeLoad(w, r) PROVE FALSE
  BY <1>3 DEF FinalizeLoad, Begin, Idle, TypeOK
<1>4. ASSUME FinalizeCompute(w) PROVE FALSE
  <2>1. req'[w].at = "fin_computed"
    BY <1>0, <1>4 DEF FinalizeCompute, TypeOK, RequestFields
  <2> QED
    BY <2>1
<1> QED
  BY <1>1, <1>2, <1>3, <1>4, RequestFate

LEMMA OneInvoiceStep ==
    ASSUME TypeOK, InvoicesOnlyInFinalizedRuns, DraftInv, OneInvoicePerParcel, [Next]_vars
    PROVE  OneInvoicePerParcel'
<1>1. CASE invoices' \subseteq invoices
  BY <1>1 DEF OneInvoicePerParcel
<1>2. ASSUME NEW w \in Workers, FinalizeCommit(w), invoices' = invoices \cup Batch(w)
      PROVE  OneInvoicePerParcel'
  <2>1. req[w].run \in Runs /\ status[req[w].run] = "DRAFT"
    BY <1>2, FieldsOf DEF FinalizeCommit, DraftInv, TypeOK
  <2>2. \A e \in invoices : e.run # req[w].run
    BY <2>1 DEF InvoicesOnlyInFinalizedRuns
  <2>3. /\ \A e \in Batch(w) : e.run = req[w].run
        /\ \A e, g \in Batch(w) : e.parcel = g.parcel => e = g
    BY <2>1, BatchEntries
  <2> QED
    BY <1>2, <2>2, <2>3 DEF OneInvoicePerParcel
<1> QED
  BY <1>1, <1>2, BookStep

\* What one request at a time guarantees in every reachable state.
LEMMA Serial == ASSUME OneAtATime PROVE Spec => []SerialInv
<1>1. Init => SerialInv
  BY DEF Init, SerialInv, OneInvoicePerParcel, DraftInv, FreeInv, Idle
<1>2. TypeOK /\ InvoicesOnlyInFinalizedRuns /\ SerialInv /\ [Next]_vars => SerialInv'
  BY DraftStep, FreeStep, OneInvoiceStep DEF SerialInv
<1> QED
  BY <1>1, <1>2, TypeCorrect, OnlyInFinalizedRuns, PTL DEF Spec
-----------------------------------------------------------------------------
\* With one request at a time a run bills each parcel once: a finalization
\* that commits has found its run DRAFT, and DRAFT runs have no invoices.
THEOREM BilledOnce == ASSUME OneAtATime PROVE Spec => []OneInvoicePerParcel
<1>1. SerialInv => OneInvoicePerParcel
  BY DEF SerialInv
<1> QED
  BY <1>1, Serial, PTL

\* With one request at a time and one number format, the numbers a
\* finalization is about to insert are free: the unique index never refuses
\* what _first_invoice_sequence has chosen.
THEOREM NumbersAreFree ==
    ASSUME OneAtATime, Formats = {DefaultFormat} PROVE Spec => []GeneratedNumbersAreFree
<1>1. Init => NumberedBySequence
  BY DEF Init, NumberedBySequence
<1>2. TypeOK /\ NumberedBySequence /\ [Next]_vars => NumberedBySequence'
  <2> SUFFICES ASSUME TypeOK, NumberedBySequence, [Next]_vars,
                      NEW e \in invoices'
               PROVE  e.number = InvoiceNumber(DefaultFormat, Year[e.run], e.seq)
    BY DEF NumberedBySequence
  <2> QED
    BY BatchFromCommit, OneFormatInvoices DEF NumberedBySequence
<1>3. TypeOK /\ SerialInv /\ NumberedBySequence => GeneratedNumbersAreFree
  <2> SUFFICES ASSUME TypeOK, SerialInv, NumberedBySequence,
                      NEW w \in Workers, req[w].at = "fin_numbered",
                      NEW e \in invoices, NEW g \in Batch(w), e.number = g.number
               PROVE  FALSE
    BY DEF GeneratedNumbersAreFree, NumbersOf, TakenNumbers
  <2>1. req[w].run \in Runs /\ Year[e.run] \in Nat
    BY FieldsOf, YearAssumption DEF TypeOK, Invoice
  <2>2. /\ g.run = req[w].run /\ g.parcel \in Billed(w) /\ g.seq = SeqOf(w, g.parcel)
    BY <2>1, BatchEntries
  <2>3. g.number = InvoiceNumber(DefaultFormat, Year[g.run], g.seq)
    BY OneFormatInvoices
  <2>4. Year[e.run] = Year[g.run] /\ e.seq = g.seq
    BY <2>3, FormatAssumption DEF NumberedBySequence, InvoiceNumber
  <2> QED
    BY <2>2, <2>4 DEF SerialInv, FreeInv
<1> QED
  BY <1>1, <1>2, <1>3, TypeCorrect, Serial, PTL DEF Spec

\* With one request at a time, and no parcel deleted for good, a finalized run
\* stays finalized and keeps its invoices.
THEOREM RunsStay ==
    ASSUME OneAtATime, Purgeable = {} PROVE Spec => FinalizedRunsStay
<1>1. TypeOK /\ SerialInv /\ InvoicesOnlyInFinalizedRuns /\ [Next]_vars =>
        [\A r \in Runs : status[r] = "FINALIZED" =>
            /\ status'[r] = "FINALIZED"
            /\ {e \in invoices : e.run = r} \subseteq invoices']_vars
  BY InvoicesKept, StatusStep DEF SerialInv
<1> QED
  BY <1>1, TypeCorrect, Serial, OnlyInFinalizedRuns, PTL DEF Spec, FinalizedRunsStay

-----------------------------------------------------------------------------
(***************************************************************************)
(* The refinement.                                                         *)
(***************************************************************************)

\* The parcels of S after i up to k.
Between(S, i, k) == {j \in S : i < j /\ j <= k}

\* Between two parcels lie as many ranks as parcels.
LEMMA RankDifference ==
    ASSUME NEW S \in SUBSET Nat, IsFiniteSet(S), NEW i \in S, NEW k \in S, i < k
    PROVE  Rank(S, k) - Rank(S, i) = Cardinality(Between(S, i, k))
<1> DEFINE low == {j \in S : j <= i}
           between == Between(S, i, k)
           high == {j \in S : j <= k}
<1>0. i \in Nat /\ k \in Nat /\ \A j \in S : j \in Nat
  OBVIOUS
<1>1. high = low \cup between /\ low \cap between = {}
  <2>1. \A j \in S : (j <= k <=> j <= i \/ (i < j /\ j <= k)) /\ ~(j <= i /\ i < j)
    BY <1>0
  <2> QED
    BY <2>1 DEF Between
<1>2. IsFiniteSet(low) /\ IsFiniteSet(between)
  <2>1. low \in SUBSET S /\ between \in SUBSET S
    BY DEF Between
  <2> QED
    BY <2>1, FS_Subset
<1>3. /\ Cardinality(low) \in Nat /\ Cardinality(between) \in Nat
      /\ Cardinality({}) = 0
  BY <1>2, FS_CardinalityType, FS_EmptySet
<1> HIDE DEF low, between, high
<1>4. Cardinality(high) = Cardinality(low) + Cardinality(between) - Cardinality({})
  BY <1>1, <1>2, FS_Union
<1>5. Cardinality(high) - Cardinality(low) = Cardinality(between)
  BY <1>3, <1>4
<1> QED
  BY <1>5 DEF Rank, low, between, high

\* The book counts as the module does.
LEMMA SameCardinality == \A S : Ledger!Cardinality(S) = Cardinality(S)
BY DEF Ledger!Cardinality, Cardinality

\* The invoices of a batch are numbered in plot order without gaps.
LEMMA BatchIsConsecutive ==
    ASSUME TypeOK, NEW w \in Workers, req[w].run \in Runs
    PROVE  Ledger!Consecutive(Batch(w))
<1> SUFFICES ASSUME NEW e \in Batch(w), NEW g \in Batch(w), e.parcel < g.parcel
             PROVE  g.seq - e.seq =
                      Cardinality({k \in Batch(w) : e.parcel < k.parcel /\ k.parcel <= g.parcel})
  BY SameCardinality DEF Ledger!Consecutive
<1> DEFINE B == Billed(w)
           parcelsBetween == Between(B, e.parcel, g.parcel)
           between == {k \in Batch(w) : e.parcel < k.parcel /\ k.parcel <= g.parcel}
           entry == [p \in parcelsBetween |-> CHOOSE x \in Batch(w) : x.parcel = p]
<1>1. /\ IsFiniteSet(B) /\ B \in SUBSET Nat
      /\ \A x \in Batch(w) : x.parcel \in B /\ x.seq = SeqOf(w, x.parcel)
      /\ \A x, y \in Batch(w) : x.parcel = y.parcel => x = y
      /\ \A p \in B : \E x \in Batch(w) : x.parcel = p
  BY BatchEntries
<1> HIDE DEF B
<1>2. IsFiniteSet(parcelsBetween)
  <2>1. parcelsBetween \in SUBSET B
    BY DEF Between
  <2> QED
    BY <1>1, <2>1, FS_Subset
<1>3. \A p \in parcelsBetween : entry[p] \in between /\ entry[p].parcel = p
  BY <1>1 DEF Between
<1>4. entry \in Bijection(parcelsBetween, between)
  <2>1. entry \in [parcelsBetween -> between]
    BY <1>3
  <2>2. \A p, q \in parcelsBetween : entry[p] = entry[q] => p = q
    BY <1>3
  <2>3. \A x \in between : \E p \in parcelsBetween : entry[p] = x
    <3> SUFFICES ASSUME NEW x \in between PROVE \E p \in parcelsBetween : entry[p] = x
      OBVIOUS
    <3>1. x.parcel \in parcelsBetween
      BY <1>1 DEF Between
    <3>2. entry[x.parcel] = x
      BY <1>1, <1>3, <3>1
    <3> QED
      BY <3>1, <3>2
  <2> HIDE DEF entry, parcelsBetween, between
  <2> QED
    BY <2>1, <2>2, <2>3 DEF Bijection, Injection, Surjection, IsInjective
<1>5. Cardinality(between) = Cardinality(parcelsBetween)
  <2> HIDE DEF entry, parcelsBetween, between
  <2> QED
    BY <1>2, <1>4, FS_Bijection DEF ExistsBijection
<1>6. Rank(B, g.parcel) - Rank(B, e.parcel) = Cardinality(parcelsBetween)
  BY <1>1, RankDifference
<1>7. /\ e.seq = req[w].start + Rank(B, e.parcel) - 1
      /\ g.seq = req[w].start + Rank(B, g.parcel) - 1
  BY <1>1 DEF SeqOf, B
<1>8. /\ Rank(B, e.parcel) \in Nat /\ Rank(B, g.parcel) \in Nat
      /\ req[w].start \in Int
  BY <1>1, RankType, FieldsOf DEF TypeOK, RequestFields
<1> HIDE DEF parcelsBetween, between
<1>9. g.seq - e.seq = Cardinality(between)
  BY <1>5, <1>6, <1>7, <1>8
<1> QED
  BY <1>9 DEF between

\* The commit of a finalization closes its run in the book.
LEMMA CommitCloses ==
    ASSUME TypeOK, SerialInv, InvoicesOnlyInFinalizedRuns,
           NEW w \in Workers, FinalizeCommit(w), Insertable(w)
    PROVE  Ledger!Close(req[w].run, invoices' \ invoices)
<1> DEFINE r == req[w].run
<1>1. r \in Runs /\ status[r] = "DRAFT" /\ req[w].at = "fin_numbered"
  BY FieldsOf DEF FinalizeCommit, SerialInv, DraftInv, TypeOK
<1>2. /\ invoices' = invoices \cup Batch(w)
      /\ status' = [status EXCEPT ![r] = "FINALIZED"]
  BY DEF FinalizeCommit
<1>3. \A e \in Batch(w), old \in invoices : e.number # old.number
  BY DEF Insertable, NumbersOf, TakenNumbers
<1>4. invoices' \ invoices = Batch(w)
  BY <1>2, <1>3
<1>5. /\ Batch(w) \subseteq Invoice
      /\ \A e \in Batch(w) : e.run = r /\ e.parcel \in Billed(w) /\ e.seq = SeqOf(w, e.parcel)
      /\ \A e, g \in Batch(w) : e.parcel = g.parcel => e = g
  BY <1>1, BatchType, BatchEntries
<1>6. \A e \in Batch(w), old \in invoices : Year[old.run] = Year[r] => e.seq # old.seq
  BY <1>1, <1>5 DEF SerialInv, FreeInv
<1>7. \A e \in Batch(w) : e.parcel \in Parcels /\ e.number \in Numbers
  BY <1>5 DEF Invoice
<1>8. {q \in Runs : status'[q] = "FINALIZED"} = {q \in Runs : status[q] = "FINALIZED"} \cup {r}
  BY <1>1, <1>2 DEF TypeOK
<1> QED
  BY <1>1, <1>2, <1>3, <1>4, <1>5, <1>6, <1>7, <1>8, BatchIsConsecutive
     DEF Ledger!Close, Ledger!OneEntryPerParcel

\* With one request at a time, and no parcel deleted for good, the module
\* implements the book of invoices: a finalization enters its invoices at once,
\* in plot order, under numbers the book has never held, and nothing else ever
\* touches the book.
THEOREM KeepsTheBook ==
    ASSUME OneAtATime, Purgeable = {} PROVE Spec => ImplementsLedger
<1> DEFINE closed == {r \in Runs : status[r] = "FINALIZED"}
<1>1. Init => Ledger!Init
  BY DEF Init, Ledger!Init
<1>2. TypeOK /\ SerialInv /\ InvoicesOnlyInFinalizedRuns /\ [Next]_vars =>
        [Ledger!Next]_(Ledger!vars)
  <2> SUFFICES ASSUME TypeOK, SerialInv, InvoicesOnlyInFinalizedRuns, [Next]_vars
               PROVE  Ledger!Next \/ (invoices' = invoices /\ closed' = closed)
    BY DEF Ledger!vars
  <2>1. CASE \E w \in Workers : FinalizeCommit(w) /\ Insertable(w)
    <3>1. PICK w \in Workers : FinalizeCommit(w) /\ Insertable(w)
      BY <2>1
    <3>2. req[w].run \in Runs
      BY <3>1, FieldsOf DEF FinalizeCommit, TypeOK
    <3> QED
      BY <3>1, <3>2, CommitCloses DEF Ledger!Next
  <2>2. CASE ~\E w \in Workers : FinalizeCommit(w) /\ Insertable(w)
    <3>1. invoices' = invoices
      BY <2>2, BookStep, InvoicesKept DEF SerialInv
    <3>2. \A r \in Runs : status[r] = "FINALIZED" <=> status'[r] = "FINALIZED"
      BY <2>2, StatusStep DEF SerialInv
    <3> QED
      BY <3>1, <3>2
  <2> QED
    BY <2>1, <2>2
<1> QED
  BY <1>1, <1>2, TypeCorrect, Serial, OnlyInFinalizedRuns, PTL
     DEF Spec, ImplementsLedger, Ledger!Spec
=============================================================================
