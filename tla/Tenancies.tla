------------------------------ MODULE Tenancies ------------------------------
(***************************************************************************)
(* Tenancies of parcels and the cloud folders that go with them            *)
(* (app/routers/parcels.py, app/routers/api_parcels.py,                    *)
(* app/parcel_cloud_folders.py).                                           *)
(*                                                                         *)
(* Ending a tenancy commits, then looks whether the parcel is vacant, then *)
(* finds its folder and deactivates it in a second commit.  Setting a      *)
(* folder reads the active one before it writes.  Other requests, and a    *)
(* restart, come in between.  A full turnover is a step after which a parcel that had       *)
(* tenants has none; the ghosts count them and remember which turnover a   *)
(* folder was meant for.                                                   *)
(***************************************************************************)
EXTENDS Integers, FiniteSets

CONSTANTS
    Parcels,       \* parcels
    Members,       \* members of the club
    Folders,       \* identities of rows of parcel_cloud_folders
    Officers,      \* requests in flight at the same time
    MaxTurnovers,  \* bound: full turnovers of a parcel
    None           \* null

ASSUME TenanciesAssumption == MaxTurnovers \in Nat /\ None \notin Parcels \cup Folders

VARIABLES
    lease,     \* each member's row in member_parcels of each parcel
    folder,    \* the rows of parcel_cloud_folders
    officer,   \* where each request in flight is
    turnover,  \* ghost: full turnovers so far
    missed     \* ghost: parcels whose folder outlives its tenants for a known reason

vars == <<lease, folder, officer, turnover, missed>>

NoFolder == [parcel |-> None, active |-> FALSE, turnover |-> 0]
Idle == [at |-> "idle"]

Folder == [parcel : Parcels \cup {None}, active : BOOLEAN, turnover : 0..MaxTurnovers]
Check == [at : {"check"}, parcel : Parcels]
Vacant == [at : {"vacant"}, parcel : Parcels, stale : BOOLEAN]
Deactivate == [at : {"deactivate"}, parcel : Parcels, folder : Folders, stale : BOOLEAN]
SetFolder == [at : {"set"}, parcel : Parcels, folder : Folders \cup {None},
              turnover : 0..MaxTurnovers]

\* All variables have their types, and an active folder belongs to a parcel.
TypeOK ==
    /\ lease \in [Parcels -> [Members -> {"none", "current", "ended"}]]
    /\ folder \in [Folders -> Folder]
    /\ officer \in [Officers -> {Idle} \cup Check \cup Vacant \cup Deactivate \cup SetFolder]
    /\ turnover \in [Parcels -> 0..MaxTurnovers]
    /\ missed \subseteq Parcels
    /\ \A f \in Folders : folder[f].active => folder[f].parcel # None

Init ==
    /\ lease = [p \in Parcels |-> [m \in Members |-> "none"]]
    /\ folder = [f \in Folders |-> NoFolder]
    /\ officer = [o \in Officers |-> Idle]
    /\ turnover = [p \in Parcels |-> 0]
    /\ missed = {}
-----------------------------------------------------------------------------
\* Members that were deleted keep their row and count as residents.
Residents(p) == {m \in Members : lease[p][m] = "current"}

ActiveFolders(p) == {f \in Folders : folder[f].parcel = p /\ folder[f].active}

\* The folder the parcel would hand on to whoever moves in next.
Outlived(f) == folder[f].active /\ folder[f].turnover < turnover[folder[f].parcel]

\* Requests that have still to look at parcel p, or to deactivate its folder.
Pending(p) ==
    {o \in Officers : officer[o].at \in {"check", "vacant", "deactivate"} /\ officer[o].parcel = p}

\* Requests that have found parcel p vacant.
FoundVacant(p) ==
    {o \in Officers : officer[o].at \in {"vacant", "deactivate"} /\ officer[o].parcel = p}

AnyOfficerIdle == \E o \in Officers : officer[o] = Idle

\* The step gives the rows of parcel p for members m the status s.
Lease(p, m, s) ==
    /\ lease' = [lease EXCEPT ![p][m] = s]
    /\ LET vacated == Residents(p) = {m} /\ s # "current" IN
       /\ vacated => turnover[p] < MaxTurnovers
       /\ turnover' = [turnover EXCEPT ![p] = IF vacated THEN @ + 1 ELSE @]
-----------------------------------------------------------------------------
\* Whoever moves in while an end of tenancy is on its way hides that the parcel
\* had been vacant, or lives there when its folder is deactivated.
MovesIn(p) ==
    /\ missed' = IF Pending(p) # {} THEN missed \cup {p} ELSE missed
    /\ officer' = [o \in Officers |->
                     IF o \in FoundVacant(p)
                     THEN [officer[o] EXCEPT !.stale = TRUE] ELSE officer[o]]

\* The web form revives an ended row, the REST call refuses one that exists;
\* it may also record a tenancy that has ended already.
MemberAssign(p, m) ==
    /\ lease[p][m] # "current"
    /\ AnyOfficerIdle
    /\ Lease(p, m, "current")
    /\ MovesIn(p)
    /\ UNCHANGED folder

AssignmentImport(p, m) ==
    /\ lease[p][m] = "none"
    /\ AnyOfficerIdle
    /\ Lease(p, m, "ended")
    /\ UNCHANGED <<folder, officer, missed>>

RemoveOnly(o, p, m) ==   \* MUTANT of MemberRemove
    /\ officer[o] = Idle
    /\ lease[p][m] = "current"
    /\ Lease(p, m, "ended")
    /\ UNCHANGED <<folder, officer, missed>>

\* First commit of member_remove.
MemberRemove(o, p, m) ==
    /\ officer[o] = Idle
    /\ lease[p][m] = "current"
    /\ Lease(p, m, "ended")
    /\ officer' = [officer EXCEPT ![o] = [at |-> "check", parcel |-> p]]
    /\ UNCHANGED <<folder, missed>>

\* An edit sets or clears assigned_until, or leaves it as it is, and looks for a
\* vacancy in any case.
AssignmentUpdate(o, p, m, s) ==
    LET movesIn == lease[p][m] = "ended" /\ s = "current" IN
    /\ officer[o] = Idle
    /\ lease[p][m] # "none"
    /\ Lease(p, m, s)
    /\ missed' = IF movesIn /\ Pending(p) # {} THEN missed \cup {p} ELSE missed
    /\ officer' = [e \in Officers |->
                     IF e = o THEN [at |-> "check", parcel |-> p]
                     ELSE IF movesIn /\ e \in FoundVacant(p)
                     THEN [officer[e] EXCEPT !.stale = TRUE] ELSE officer[e]]
    /\ UNCHANGED folder

FormerAssignmentDelete(p, m) ==
    /\ lease[p][m] = "ended"
    /\ AnyOfficerIdle
    /\ Lease(p, m, "none")
    /\ UNCHANGED <<folder, officer, missed>>

\* The REST call deletes the row of a current tenant too, and does not look
\* for a vacancy.
AssignmentRemove(p, m) ==
    /\ lease[p][m] # "none"
    /\ AnyOfficerIdle
    /\ Lease(p, m, "none")
    /\ missed' = IF turnover' # turnover THEN missed \cup {p} ELSE missed
    /\ UNCHANGED <<folder, officer>>
-----------------------------------------------------------------------------
DeactivateWithoutLooking(o) ==   \* MUTANT of DeactivateIfVacant
    /\ officer[o].at = "check"
    /\ officer' = [officer EXCEPT ![o] = [at |-> "vacant", parcel |-> officer[o].parcel,
                                          stale |-> FALSE]]
    /\ UNCHANGED <<lease, folder, turnover, missed>>

\* First query of deactivate_if_vacant: is a resident left?
DeactivateIfVacant(o) ==
    LET p == officer[o].parcel IN
    /\ officer[o].at = "check"
    /\ officer' = [officer EXCEPT ![o] =
                     IF Residents(p) = {} THEN [at |-> "vacant", parcel |-> p, stale |-> FALSE]
                     ELSE Idle]
    /\ UNCHANGED <<lease, folder, turnover, missed>>

\* Its second query: the folder that is active by now, which may be one that was
\* set after the first.
GetActiveFolder(o) ==
    LET p == officer[o].parcel IN
    /\ officer[o].at = "vacant"
    /\ IF ActiveFolders(p) # {}
       THEN \E f \in ActiveFolders(p) :
              officer' = [officer EXCEPT ![o] = [at |-> "deactivate", parcel |-> p, folder |-> f,
                                                 stale |-> officer[o].stale]]
       ELSE officer' = [officer EXCEPT ![o] = Idle]
    /\ UNCHANGED <<lease, folder, turnover, missed>>

DeactivateCommit(o) ==
    LET f == officer[o].folder IN
    /\ officer[o].at = "deactivate"
    /\ folder' = [folder EXCEPT ![f].active = FALSE]
    /\ missed' = IF ActiveFolders(officer[o].parcel) \subseteq {f}
                 THEN missed \ {officer[o].parcel} ELSE missed
    /\ officer' = [officer EXCEPT ![o] = Idle]
    /\ UNCHANGED <<lease, turnover>>

\* The path is meant for the tenants, or the vacancy, of the moment it is typed in.
SetFolderLoad(o, p) ==
    /\ officer[o] = Idle
    /\ \E f \in IF ActiveFolders(p) = {} THEN {None} ELSE ActiveFolders(p) :
          officer' = [officer EXCEPT ![o] = [at |-> "set", parcel |-> p, folder |-> f,
                                             turnover |-> turnover[p]]]
    /\ UNCHANGED <<lease, folder, turnover, missed>>

\* Changes the path of the row it has read, active or not by now; a new row is
\* refused by the unique index if there is an active one.
SetFolderCommit(o) ==
    LET q == officer[o]
        late == q.turnover < turnover[q.parcel]
        Write(f, row) ==
            /\ folder' = [folder EXCEPT ![f] = row]
            /\ missed' = IF late /\ row.active THEN missed \cup {q.parcel} ELSE missed
    IN
    /\ q.at = "set"
    /\ officer' = [officer EXCEPT ![o] = Idle]
    /\ IF q.folder # None
       THEN Write(q.folder, [folder[q.folder] EXCEPT !.turnover = q.turnover])
       ELSE IF ActiveFolders(q.parcel) = {}
       THEN \E f \in Folders :
              /\ folder[f] = NoFolder
              /\ Write(f, [parcel |-> q.parcel, active |-> TRUE, turnover |-> q.turnover])
       ELSE UNCHANGED <<folder, missed>>
    /\ UNCHANGED <<lease, turnover>>

\* A restart ends the requests in flight; what they had still to do is not
\* taken up again.
Restart ==
    /\ \E o \in Officers : officer[o] # Idle
    /\ officer' = [o \in Officers |-> Idle]
    /\ missed' = missed \cup {p \in Parcels : Pending(p) # {}}
    /\ UNCHANGED <<lease, folder, turnover>>
-----------------------------------------------------------------------------
Next ==
    \/ \E p \in Parcels, m \in Members :
          \/ MemberAssign(p, m) \/ AssignmentImport(p, m)
          \/ FormerAssignmentDelete(p, m) \/ AssignmentRemove(p, m)
    \/ \E o \in Officers, p \in Parcels, m \in Members :
          \/ MemberRemove(o, p, m)
          \/ \E s \in {"current", "ended"} : AssignmentUpdate(o, p, m, s)
    \/ \E o \in Officers :
          \/ DeactivateIfVacant(o) \/ GetActiveFolder(o) \/ DeactivateCommit(o)
          \/ SetFolderCommit(o)
    \/ \E o \in Officers, p \in Parcels : SetFolderLoad(o, p)
    \/ Restart

Spec == Init /\ [][Next]_vars
-----------------------------------------------------------------------------
\* docs/module-cloud-storage.md: once the last tenant has gone the folder is
\* deactivated, so that nobody who moves in later inherits it.  An active
\* folder outlives its tenants only while a request has still to look, or if
\* one was cut off between its commits, was overtaken by somebody moving in or
\* by a change of the path, or ended the tenancy by the REST call.
FolderEndsWithTenancy ==
    \A f \in Folders : Outlived(f) =>
        folder[f].parcel \in missed \/ Pending(folder[f].parcel) # {}

\* Tenants keep the folder that was set for them: it is deactivated while they
\* live there only by a request that had found the parcel vacant before they
\* moved in.
TenantsKeepTheirFolder ==
    [][\A f \in Folders : folder[f].active /\ ~folder'[f].active =>
         \/ Residents(folder[f].parcel) = {}
         \/ \E o \in Officers : officer[o].at = "deactivate" /\ officer[o].folder = f
                                /\ officer[o].stale]_vars
=============================================================================
