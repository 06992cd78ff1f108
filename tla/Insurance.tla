------------------------------ MODULE Insurance ------------------------------
(***************************************************************************)
(* Property packages, accident amounts and the parcels' insurances of one  *)
(* year (app/routers/insurance.py, app/routers/api_insurance.py,           *)
(* app/insurance_utils.py).                                                *)
(*                                                                         *)
(* Opening a parcel's page creates its row.  Saving it reads the row and   *)
(* its additional persons, deletes those persons and inserts the chosen    *)
(* ones; it is a load and a commit, with other requests in between.        *)
(***************************************************************************)
EXTENDS Integers, FiniteSets

CONSTANTS
    Parcels,    \* parcels
    Packages,   \* identities of property packages
    Amounts,    \* sums of money typed in
    Persons,    \* members that can be chosen as additional persons
    Agents,     \* saves in flight at the same time
    None        \* null

VARIABLES
    price,          \* amount_eur of each property package, or None without a row
    configuration,  \* base and additional amount of the accident insurance, or None
    row,            \* the rows of parcel_insurance with their additional persons
    agent,          \* what each save in flight has read and wants
    mixed           \* parcels saved by a request another save had overtaken

vars == <<price, configuration, row, agent, mixed>>

NoRow == [here |-> FALSE, property |-> FALSE, package |-> None, accident |-> FALSE,
          persons |-> {}]
NewRow == [NoRow EXCEPT !.here = TRUE]
Form == [here : {TRUE}, property : BOOLEAN, package : Packages \cup {None},
         accident : BOOLEAN, persons : SUBSET Persons]
Idle == [at |-> "idle"]

Init ==
    /\ price = [k \in Packages |-> None]
    /\ configuration = None
    /\ row = [p \in Parcels |-> NoRow]
    /\ agent = [a \in Agents |-> Idle]
    /\ mixed = {}
-----------------------------------------------------------------------------
\* A package that is gone costs nothing, an accident insurance without a
\* configuration neither.
Cost(p) ==
    LET r == row[p] IN
    (IF r.property /\ r.package # None THEN price[r.package] ELSE 0)
    + (IF r.accident /\ configuration # None
       THEN configuration.base + configuration.additional * Cardinality(r.persons) ELSE 0)

\* Only insured parcels are on the evaluation.
Evaluated == {p \in Parcels : row[p].property \/ row[p].accident}

ConfigurationSave(base, additional) ==
    /\ configuration' = [base |-> base, additional |-> additional]
    /\ UNCHANGED <<price, row, agent, mixed>>

PackageCreate(k, amount) ==
    /\ price[k] = None
    /\ price' = [price EXCEPT ![k] = amount]
    /\ UNCHANGED <<configuration, row, agent, mixed>>

\* On the web an amount of 0 counts as none typed in and the old one stays.
PackageUpdate(k, amount) ==
    /\ price[k] # None
    /\ \E web \in BOOLEAN :
          price' = [price EXCEPT ![k] = IF web /\ amount = 0 THEN @ ELSE amount]
    /\ UNCHANGED <<configuration, row, agent, mixed>>

\* The insured parcels keep their insurance and lose its package.
PackageDelete(k) ==
    /\ price[k] # None
    /\ price' = [price EXCEPT ![k] = None]
    /\ row' = [p \in Parcels |-> [row[p] EXCEPT !.package = IF @ = k THEN None ELSE @]]
    /\ agent' = [a \in Agents |->
                   IF agent[a].at = "save" /\ agent[a].form.package = k
                   THEN [agent[a] EXCEPT !.lost = TRUE] ELSE agent[a]]
    /\ UNCHANGED <<configuration, mixed>>
-----------------------------------------------------------------------------
\* GET creates the row.
DetailOpen(p) ==
    /\ ~row[p].here
    /\ row' = [row EXCEPT ![p] = NewRow]
    /\ UNCHANGED <<price, configuration, agent, mixed>>

WantedKeepingPersons(form) ==   \* MUTANT of Wanted
    [form EXCEPT !.package = IF form.property THEN @ ELSE None]

\* Without the insurance its package or its persons are dropped.
Wanted(form) ==
    [form EXCEPT !.package = IF form.property THEN @ ELSE None,
                 !.persons = IF form.accident THEN @ ELSE {}]

\* Creates the row in a commit of its own if there is none.
SaveLoad(a, p, form) ==
    LET seen == IF row[p].here THEN row[p] ELSE NewRow IN
    /\ agent[a] = Idle
    /\ form.package # None => price[form.package] # None
    /\ row' = [row EXCEPT ![p] = seen]
    /\ agent' = [agent EXCEPT ![a] = [at |-> "save", parcel |-> p, seen |-> seen,
                                      form |-> Wanted(form), stale |-> FALSE, lost |-> FALSE]]
    /\ UNCHANGED <<price, configuration, mixed>>

\* Only changed columns are written, only the persons that were read are
\* deleted; a person inserted twice or a package that is gone undoes the save.
SaveCommit(a) ==
    LET q == agent[a]
        p == q.parcel
        remaining == row[p].persons \ q.seen.persons
        possible ==
            /\ remaining \cap q.form.persons = {}
            /\ q.form.package \notin {q.seen.package, None} => ~q.lost
    IN
    /\ q.at = "save"
    /\ IF possible
       THEN /\ row' = [row EXCEPT
                 ![p].property = IF q.form.property # q.seen.property THEN q.form.property ELSE @,
                 ![p].package = IF q.form.package # q.seen.package THEN q.form.package ELSE @,
                 ![p].accident = IF q.form.accident # q.seen.accident THEN q.form.accident ELSE @,
                 ![p].persons = remaining \cup q.form.persons]
            /\ mixed' = IF q.stale THEN mixed \cup {p} ELSE mixed \ {p}
            /\ agent' = [b \in Agents |->
                 IF b = a THEN Idle
                 ELSE IF agent[b].at = "save" /\ agent[b].parcel = p
                 THEN [agent[b] EXCEPT !.stale = TRUE] ELSE agent[b]]
       ELSE /\ agent' = [agent EXCEPT ![a] = Idle]
            /\ UNCHANGED <<row, mixed>>
    /\ UNCHANGED <<price, configuration>>
-----------------------------------------------------------------------------
Next ==
    \/ \E base, additional \in Amounts : ConfigurationSave(base, additional)
    \/ \E k \in Packages, amount \in Amounts : PackageCreate(k, amount) \/ PackageUpdate(k, amount)
    \/ \E k \in Packages : PackageDelete(k)
    \/ \E p \in Parcels : DetailOpen(p)
    \/ \E a \in Agents, p \in Parcels, form \in Form : SaveLoad(a, p, form)
    \/ \E a \in Agents : SaveCommit(a)

Spec == Init /\ [][Next]_vars
-----------------------------------------------------------------------------
\* A row has persons only with accident insurance and a package only with
\* property insurance, unless overlapping saves have mixed two forms: columns
\* are written one by one, persons are deleted and inserted.  A parcel the
\* evaluation leaves out never costs anything.
RowsAreWhole ==
    \A p \in Parcels :
        /\ p \notin Evaluated => Cost(p) = 0
        /\ p \notin mixed => /\ row[p].persons # {} => row[p].accident
                             /\ row[p].package # None => row[p].property
=============================================================================
