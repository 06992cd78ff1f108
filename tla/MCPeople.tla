------------------------------ MODULE MCPeople ------------------------------
(***************************************************************************)
(* Instances of People for TLC.  In each behaviour the requests go to one  *)
(* of the components, the desk, and the others stay as they are.           *)
(***************************************************************************)
EXTENDS People, TLC

CONSTANTS p1, ann, bob, f1, f2, o1, o2

VARIABLE desk

PeopleSymmetry == Permutations(Officers)

MCInit ==
    /\ desk \in {"tenancies", "delivery", "signups", "tasks", "hours"}
    /\ PeopleInit

(* One of the two parcels that are billed has a cloud folder.              *)
OneFolder == \A c \in Clerks : clerk'[c].stored \subseteq {ann}

(* Sign-ups and tasks meet in the participations only: sign-ups are run    *)
(* without tasks, tasks without sign-ups in flight, with unlimited sessions*)
(* and two participations.                                                 *)
TasksOnly ==
    /\ \A d \in Desks : signup'[d].at # "signup"
    /\ \A s \in Sessions : limit'[s] \in {None, Absent}
    /\ \A s \in Sessions, m \in Members : part'[s][m] # "NO_SHOW"
    /\ Cardinality({q \in Sessions \X Members : part'[q[1]][q[2]] # "none"}) <= 2

(* Evaluation per parcel; one of the two members at a time may have left   *)
(* the club, and one of them may be signed up without having attended. One *)
(* hour is worked or credited at a time, one or two are required.          *)
PerParcel ==
    /\ config' # None => config'.mode = "PER_PARCEL"
    /\ \A m \in Members : attendance'[m].hours # 2
    /\ \A x \in Sponsorships : sponsorship'[x].hours # 2
    /\ Cardinality({m \in Members : attendance'[m].status = "REGISTERED"}) <= 1
    /\ \E m \in Members : standing'[m] = "active"

MCNext ==
    /\ UNCHANGED desk
    /\ \/ desk = "tenancies" /\ TenancyStep
       \/ desk = "delivery" /\ DeliveryStep /\ OneFolder
       \/ desk = "signups" /\ SessionStep /\ task' = task
       \/ desk = "tasks" /\ SessionStep /\ TasksOnly
       \/ desk = "hours" /\ HoursStep /\ PerParcel

MCSpec == MCInit /\ [][MCNext]_<<desk, peopleVars>>
=============================================================================
