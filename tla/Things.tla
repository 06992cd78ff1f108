------------------------------- MODULE Things -------------------------------
(***************************************************************************)
(* What the board buys and keeps: purchase requests, meters, the inventory *)
(* and the insurances (the routers that app/main.py includes for them).    *)
(*                                                                         *)
(* The four have no table in common, so that a step is a step of one of    *)
(* them.                                                                   *)
(***************************************************************************)
EXTENDS PurchaseRequests

CONSTANTS
    Points,      \* identities of metering points
    Meters,      \* numbers of meters
    Years,       \* years readings are recorded for
    Values,      \* values typed in for readings
    Initials,    \* values typed in for initial readings
    Fitters,     \* exchanges and recordings in flight at the same time
    Items,       \* identities of items
    Categories,  \* identities of categories of items
    Loans,       \* identities of loans
    Totals,      \* values typed in for quantities
    Clerks,      \* checkouts and edits in flight at the same time
    Parcels,     \* parcels
    Packages,    \* identities of insurance packages
    Amounts,     \* sums of money typed in
    Persons,     \* members that can be chosen as additional persons
    Agents       \* saves of insurances in flight at the same time

\* Numbers and identities are columns of bounded width, so that there are
\* finitely many; null is none of them.
ASSUME ThingsAssumption ==
    /\ IsFiniteSet(Meters) /\ IsFiniteSet(Years) /\ IsFiniteSet(Loans)
    /\ Years \subseteq Int /\ Values \subseteq Int /\ Initials \subseteq Int /\ Totals \subseteq Int
    /\ Points \cap Meters = {}
    /\ None \notin Int \cup Points \cup Meters \cup Items \cup Categories \cup Packages

VARIABLES
    point, meter, reading, fitter, tangled, billed,  \* Metering
    category, item, loan, clerk, strained,           \* InventoryLoans
    price, configuration, row, agent, mixed          \* Insurance

meterVars == <<point, meter, reading, fitter, tangled, billed>>
inventoryVars == <<category, item, loan, clerk, strained>>
premiumVars == <<price, configuration, row, agent, mixed>>
thingVars == <<vars, meterVars, inventoryVars, premiumVars>>

Metered == INSTANCE Metering
Inventory == INSTANCE InventoryLoans
Premiums == INSTANCE Insurance

ThingsInit == Init /\ Metered!Init /\ Inventory!Init /\ Premiums!Init
-----------------------------------------------------------------------------
PurchaseStep == Next /\ UNCHANGED <<meterVars, inventoryVars, premiumVars>>
MeteringStep == Metered!Next /\ UNCHANGED <<vars, inventoryVars, premiumVars>>
InventoryStep == Inventory!Next /\ UNCHANGED <<vars, meterVars, premiumVars>>
InsuranceStep == Premiums!Next /\ UNCHANGED <<vars, meterVars, inventoryVars>>

ThingsNext == PurchaseStep \/ MeteringStep \/ InventoryStep \/ InsuranceStep

ThingsSpec == ThingsInit /\ [][ThingsNext]_thingVars
-----------------------------------------------------------------------------
(* The promises of the instances, under names of their own.                *)

\* The readings of a meter do not decrease.
ReadingsGrow == Metered!ReadingsGrow

\* A point has one active meter.
OneActiveMeter == Metered!OneActiveMeter

\* The usage on the invoices of a meter neither overlaps nor has holes.
BillsFitTogether == Metered!BillsFitTogether

\* No more of an item is out on loan than there is.
LentWithinStock == Inventory!LentWithinStock

\* A row of the insurances has persons and a package only with an insurance.
RowsAreWhole == Premiums!RowsAreWhole
=============================================================================
