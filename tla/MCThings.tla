------------------------------ MODULE MCThings ------------------------------
(***************************************************************************)
(* Instances of Things for TLC.  In each behaviour the requests go to one  *)
(* of the components, the desk, and the others stay as they are.           *)
(***************************************************************************)
EXTENDS Things, TLC

CONSTANTS q1, q2, ann, bob, eve, w1, p1, m1, m2, f1, f2

VARIABLE desk

ThingSymmetry == Permutations(Fitters)

MCInit ==
    /\ desk \in {"purchases", "metering", "billing", "inventory", "insurance"}
    /\ ThingsInit

(* Two edits of one item in flight only overwrite each other's columns.    *)
OneEdit == Cardinality({c \in Clerks : clerk'[c].at = "edit"}) <= 1

(* Overlapping requests are run without invoices, on two years that are    *)
(* not consecutive, and readings up to 2; invoices without overlaps, on    *)
(* three years.  The second meter is read in the last year only.           *)
LastYearOnly == reading'[m2][2024] = None /\ reading'[m2][2025] = None
Unbilled ==
    /\ LastYearOnly
    /\ billed' = {}
    /\ \A m \in Meters, y \in Years : reading'[m][y] # 3 /\ reading'[m][2025] = None
    /\ \A f \in Fitters : fitter'[f].at = "recording" => fitter'[f].value # 3
OneFitter ==
    /\ LastYearOnly
    /\ Cardinality({f \in Fitters : fitter'[f] # Metered!Idle}) <= 1

OneAmount == configuration' # None => configuration' = [base |-> 1, additional |-> 1]

MCNext ==
    /\ UNCHANGED desk
    /\ \/ desk = "purchases" /\ PurchaseStep
       \/ desk = "metering" /\ MeteringStep /\ Unbilled
       \/ desk = "billing" /\ MeteringStep /\ OneFitter
       \/ desk = "inventory" /\ InventoryStep /\ OneEdit
       \/ desk = "insurance" /\ InsuranceStep /\ OneAmount

MCSpec == MCInit /\ [][MCNext]_<<desk, thingVars>>
=============================================================================
