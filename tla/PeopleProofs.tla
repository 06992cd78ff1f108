---------------------------- MODULE PeopleProofs ----------------------------
(***************************************************************************)
(* Theorems about the components that People composes: tenancies with      *)
(* their cloud folders, delivery of invoices, work sessions with public    *)
(* sign-up, and the evaluation of work hours.  They hold for any parcels,  *)
(* members, folders, invoices, sessions and tasks and any number of        *)
(* overlapping requests, failures and restarts.                            *)
(***************************************************************************)
EXTENDS People, FiniteInduction

(***************************************************************************)
(* Tenancies and cloud folders                                             *)
(***************************************************************************)
\* Why a folder that outlives its tenants is going to be deactivated: a request
\* has still to look at the parcel, or has this folder in hand.
Attends(o, f) ==
    \/ officer[o].at \in {"check", "vacant"} /\ officer[o].parcel = folder[f].parcel
    \/ officer[o].at = "deactivate" /\ officer[o].folder = f

Accounted ==
    \A f \in Folders : Outlived(f) =>
        folder[f].parcel \in missed \/ \E o \in Officers : Attends(o, f)

\* Nobody lives with a folder of earlier tenants unless it was missed: a
\* request that finds residents goes away.
Inhabited ==
    \A f \in Folders : Outlived(f) /\ Residents(folder[f].parcel) # {} =>
        folder[f].parcel \in missed

\* The unique index on the active folder of a parcel.
OneActive ==
    \A f, g \in Folders :
        folder[f].active /\ folder[g].active /\ folder[f].parcel = folder[g].parcel => f = g

\* A request holds a folder of the parcel it is about.
Linked ==
    \A o \in Officers :
        /\ officer[o].at = "deactivate" => folder[officer[o].folder].parcel = officer[o].parcel
        /\ officer[o].at = "set" /\ officer[o].folder # None =>
             folder[officer[o].folder].parcel = officer[o].parcel

\* A deactivation nobody has overtaken by moving in is of a vacant parcel.
Fresh ==
    \A o \in Officers : officer[o].at \in {"vacant", "deactivate"} /\ ~officer[o].stale =>
        Residents(officer[o].parcel) = {}

TenanciesInv == TypeOK /\ Accounted /\ Inhabited /\ OneActive /\ Linked /\ Fresh
-----------------------------------------------------------------------------
\* The kinds of requests, told apart by where they are.
LEMMA Kinds ==
    ASSUME TypeOK, NEW o \in Officers
    PROVE  /\ officer[o].at = "check" => officer[o] \in Check
           /\ officer[o].at = "vacant" => officer[o] \in Vacant
           /\ officer[o].at = "deactivate" => officer[o] \in Deactivate
           /\ officer[o].at = "set" => officer[o] \in SetFolder
           /\ officer[o].at = "idle" => officer[o] = Idle
BY DEF TypeOK, Check, Vacant, Deactivate, SetFolder, Idle

\* What a change of one row of member_parcels does to residents and turnovers.
LEMMA LeaseEffect ==
    ASSUME TypeOK, NEW p \in Parcels, NEW m \in Members,
           NEW s \in {"none", "current", "ended"}, Lease(p, m, s)
    PROVE  /\ lease' \in [Parcels -> [Members -> {"none", "current", "ended"}]]
           /\ turnover' \in [Parcels -> 0..MaxTurnovers]
           /\ \A r \in Parcels \ {p} : turnover'[r] = turnover[r] /\ Residents(r)' = Residents(r)
           /\ turnover'[p] # turnover[p] => Residents(p)' = {}
           /\ Residents(p)' # {} => turnover'[p] = turnover[p]
           /\ s # "current" => Residents(p)' = Residents(p) \ {m}
           /\ lease[p][m] = "current" => Residents(p)' \subseteq Residents(p)
           /\ turnover' # turnover <=> turnover'[p] # turnover[p]
           /\ turnover' # turnover => lease[p][m] = "current"
<1>1. lease' = [lease EXCEPT ![p][m] = s]
  BY DEF Lease
<1>2. lease' \in [Parcels -> [Members -> {"none", "current", "ended"}]]
  BY <1>1 DEF TypeOK
<1>3. \A r \in Parcels \ {p} : Residents(r)' = Residents(r)
  BY <1>1, <1>2 DEF TypeOK, Residents
<1>4. s # "current" => Residents(p)' = Residents(p) \ {m}
  BY <1>1, <1>2 DEF TypeOK, Residents
<1>5. lease[p][m] = "current" => Residents(p)' \subseteq Residents(p)
  BY <1>1, <1>2 DEF TypeOK, Residents
<1>6. /\ turnover' \in [Parcels -> 0..MaxTurnovers]
      /\ \A r \in Parcels \ {p} : turnover'[r] = turnover[r]
      /\ turnover'[p] # turnover[p] => Residents(p) = {m} /\ s # "current"
      /\ turnover' # turnover <=> turnover'[p] # turnover[p]
  <2>1. CASE Residents(p) = {m} /\ s # "current"
    <3>1. turnover' = [turnover EXCEPT ![p] = @ + 1] /\ turnover[p] < MaxTurnovers
      BY <2>1 DEF Lease
    <3> QED
      BY <2>1, <3>1, TenanciesAssumption DEF TypeOK
  <2>2. CASE ~(Residents(p) = {m} /\ s # "current")
    <3>1. turnover' = [turnover EXCEPT ![p] = @]
      BY <2>2 DEF Lease
    <3>2. turnover' = turnover
      BY <3>1 DEF TypeOK
    <3> QED
      BY <3>2 DEF TypeOK
  <2> QED
    BY <2>1, <2>2
<1>7. /\ turnover'[p] # turnover[p] => Residents(p)' = {}
      /\ turnover' # turnover => lease[p][m] = "current"
  BY <1>4, <1>6 DEF Residents
<1> QED
  BY <1>2, <1>3, <1>4, <1>5, <1>6, <1>7

\* Those that have found parcel p vacant are overtaken by somebody moving in.
Overtaken(p) == \A o \in FoundVacant(p) : officer'[o] = [officer[o] EXCEPT !.stale = TRUE]

\* A step that changes tenants keeps the invariant if a turnover is noticed by
\* a new request or recorded as missed, and moving in is noticed by those that
\* are on their way.
LEMMA TenantsChange ==
    ASSUME TenanciesInv, NEW p \in Parcels, NEW m \in Members,
           NEW s \in {"none", "current", "ended"}, Lease(p, m, s), folder' = folder,
           officer' \in [Officers -> {Idle} \cup Check \cup Vacant \cup Deactivate \cup SetFolder],
           missed \subseteq missed', missed' \subseteq Parcels,
           \A o \in Officers :
              \/ officer'[o] = officer[o]
              \/ officer[o] = Idle /\ officer'[o] = [at |-> "check", parcel |-> p]
              \/ /\ o \in FoundVacant(p)
                 /\ officer'[o] = [officer[o] EXCEPT !.stale = TRUE],
           turnover' # turnover =>
              p \in missed' \/ \E o \in Officers : officer'[o] = [at |-> "check", parcel |-> p],
           Residents(p)' \subseteq Residents(p)
              \/ /\ Pending(p) # {} => p \in missed'
                 /\ Overtaken(p)
    PROVE  TenanciesInv'
<1> USE DEF TenanciesInv
<1>1. /\ lease' \in [Parcels -> [Members -> {"none", "current", "ended"}]]
      /\ turnover' \in [Parcels -> 0..MaxTurnovers]
      /\ \A r \in Parcels \ {p} : turnover'[r] = turnover[r] /\ Residents(r)' = Residents(r)
      /\ turnover'[p] # turnover[p] => Residents(p)' = {}
      /\ Residents(p)' # {} => turnover'[p] = turnover[p]
      /\ turnover' # turnover <=> turnover'[p] # turnover[p]
  BY LeaseEffect
<1>2. TypeOK'
  BY <1>1 DEF TypeOK
<1>3. \A o \in Officers :
         /\ officer[o] # Idle => officer'[o].at = officer[o].at
         /\ officer[o].at \in {"check", "vacant", "deactivate"} =>
              officer'[o].parcel = officer[o].parcel
         /\ officer[o].at = "deactivate" => officer'[o].folder = officer[o].folder
         /\ officer[o].at \in {"vacant", "deactivate"} /\ officer[o].stale => officer'[o].stale
         /\ officer'[o].at \in {"vacant", "deactivate"} => officer'[o].at = officer[o].at
         /\ officer'[o].at = "set" => officer'[o] = officer[o]
  BY Kinds DEF Idle, Check, Vacant, Deactivate, SetFolder, FoundVacant
<1>4. \A f \in Folders, o \in Officers : Attends(o, f) => Attends(o, f)'
  BY <1>3 DEF Attends, Idle
<1>5. \A f \in Folders, o \in Officers : folder[f].active /\ Attends(o, f) => o \in Pending(folder[f].parcel)
  BY DEF Attends, Pending, Linked
<1>6. \A f \in Folders : folder[f].active => folder[f].parcel \in Parcels
  BY DEF TypeOK, Folder
<1>7. ASSUME NEW f \in Folders, Outlived(f)', ~Outlived(f)
      PROVE  folder[f].parcel = p /\ turnover' # turnover
  BY <1>1, <1>6, <1>7 DEF Outlived
<1>8. Accounted'
  <2> SUFFICES ASSUME NEW f \in Folders, Outlived(f)', folder[f].parcel \notin missed'
               PROVE  \E o \in Officers : Attends(o, f)'
    BY DEF Accounted
  <2>1. CASE Outlived(f)
    BY <2>1, <1>4 DEF Accounted
  <2>2. CASE ~Outlived(f)
    <3>1. PICK o \in Officers : officer'[o] = [at |-> "check", parcel |-> p]
      BY <2>2, <1>7
    <3> QED
      BY <2>2, <1>7, <3>1 DEF Attends
  <2> QED
    BY <2>1, <2>2
<1>9. Inhabited'
  <2> SUFFICES ASSUME NEW f \in Folders, Outlived(f)', Residents(folder[f].parcel)' # {}
               PROVE  folder[f].parcel \in missed'
    BY DEF Inhabited
  <2>1. Outlived(f)
    BY <1>1, <1>7
  <2>2. folder[f].parcel \in Parcels
    BY <2>1, <1>6 DEF Outlived
  <2>3. CASE Residents(folder[f].parcel) # {}
    BY <2>1, <2>3 DEF Inhabited
  <2>4. CASE Residents(folder[f].parcel) = {}
    <3>1. folder[f].parcel = p /\ (Pending(p) # {} => p \in missed')
      BY <2>2, <2>4, <1>1
    <3>2. folder[f].parcel \in missed \/ \E o \in Officers : Attends(o, f)
      BY <2>1 DEF Accounted
    <3> QED
      BY <3>1, <3>2, <2>1, <1>5 DEF Outlived
  <2> QED
    BY <2>3, <2>4
<1>10. OneActive'
  BY DEF OneActive
<1>11. Linked'
  BY <1>3, Kinds DEF Linked, Deactivate
<1>12. Fresh'
  <2> SUFFICES ASSUME NEW o \in Officers, officer'[o].at \in {"vacant", "deactivate"},
                      ~officer'[o].stale
               PROVE  Residents(officer[o].parcel)' = {}
    BY DEF Fresh
  <2>1. /\ officer[o].at \in {"vacant", "deactivate"} /\ ~officer[o].stale
        /\ officer'[o].parcel = officer[o].parcel
    BY <1>3
  <2>2. officer[o] \in Vacant \cup Deactivate
    BY <2>1, Kinds
  <2>3. Residents(officer[o].parcel) = {} /\ officer[o].parcel \in Parcels
    BY <2>1, <2>2 DEF Fresh, Vacant, Deactivate
  <2>4. CASE officer[o].parcel # p
    BY <2>1, <2>3, <2>4, <1>1
  <2>5. CASE officer[o].parcel = p
    <3>1. ~(officer'[o] = [officer[o] EXCEPT !.stale = TRUE])
      BY <2>2 DEF Vacant, Deactivate
    <3>2. Residents(p)' \subseteq Residents(p)
      BY <2>1, <2>5, <3>1 DEF FoundVacant, Overtaken
    <3> QED
      BY <2>1, <2>3, <2>5, <3>2
  <2> QED
    BY <2>4, <2>5
<1> QED
  BY <1>2, <1>8, <1>9, <1>10, <1>11, <1>12
-----------------------------------------------------------------------------
\* The actions that change tenants are such steps.
LEMMA MoveStep ==
    ASSUME TenanciesInv, NEW p \in Parcels, NEW m \in Members,
           MemberAssign(p, m) \/ AssignmentImport(p, m)
             \/ FormerAssignmentDelete(p, m) \/ AssignmentRemove(p, m)
    PROVE  TenanciesInv'
<1> USE DEF TenanciesInv
<1>1. CASE MemberAssign(p, m)
  <2>1. /\ Lease(p, m, "current") /\ folder' = folder
        /\ missed' = IF Pending(p) # {} THEN missed \cup {p} ELSE missed
        /\ turnover' # turnover => lease[p][m] = "current"
    BY <1>1, LeaseEffect DEF MemberAssign, MovesIn
  <2>2. turnover' = turnover
    BY <1>1, <2>1 DEF MemberAssign
  <2>3. officer' = [o \in Officers |->
                      IF o \in FoundVacant(p)
                      THEN [officer[o] EXCEPT !.stale = TRUE] ELSE officer[o]]
    BY <1>1 DEF MemberAssign, MovesIn
  <2>4. officer' \in [Officers -> {Idle} \cup Check \cup Vacant \cup Deactivate \cup SetFolder]
    <3>1. \A o \in FoundVacant(p) : [officer[o] EXCEPT !.stale = TRUE] \in Vacant \cup Deactivate
      BY Kinds DEF Vacant, Deactivate, FoundVacant
    <3> QED
      BY <2>3, <3>1 DEF TypeOK
  <2>5. missed \subseteq missed' /\ missed' \subseteq Parcels
    BY <2>1 DEF TypeOK
  <2>6. \A o \in Officers :
           \/ officer'[o] = officer[o]
           \/ /\ o \in FoundVacant(p)
              /\ officer'[o] = [officer[o] EXCEPT !.stale = TRUE]
    BY <2>3
  <2>7. Overtaken(p)
    BY <2>3 DEF FoundVacant, Overtaken
  <2>8. Pending(p) # {} => p \in missed'
    BY <2>1
  <2> QED
    BY <2>1, <2>2, <2>4, <2>5, <2>6, <2>7, <2>8, TenantsChange
<1>2. CASE AssignmentImport(p, m) \/ FormerAssignmentDelete(p, m)
  <2>1. PICK s \in {"none", "ended"} : Lease(p, m, s)
    BY <1>2 DEF AssignmentImport, FormerAssignmentDelete
  <2>2. folder' = folder /\ officer' = officer /\ missed' = missed /\ lease[p][m] # "current"
    BY <1>2 DEF AssignmentImport, FormerAssignmentDelete
  <2>3. turnover' = turnover /\ Residents(p)' \subseteq Residents(p)
    BY <2>1, <2>2, LeaseEffect
  <2> QED
    BY <2>1, <2>2, <2>3, TenantsChange DEF TypeOK
<1>3. CASE AssignmentRemove(p, m)
  <2>1. /\ Lease(p, m, "none") /\ folder' = folder /\ officer' = officer
        /\ missed' = IF turnover' # turnover THEN missed \cup {p} ELSE missed
    BY <1>3 DEF AssignmentRemove
  <2>2. Residents(p)' \subseteq Residents(p)
    BY <2>1, LeaseEffect
  <2>3. missed \subseteq missed' /\ missed' \subseteq Parcels /\ (turnover' # turnover => p \in missed')
    BY <2>1 DEF TypeOK
  <2> QED
    BY <2>1, <2>2, <2>3, TenantsChange DEF TypeOK
<1> QED
  BY <1>1, <1>2, <1>3

LEMMA RemoveStep ==
    ASSUME TenanciesInv, NEW o \in Officers, NEW p \in Parcels, NEW m \in Members, MemberRemove(o, p, m)
    PROVE  TenanciesInv'
<1> USE DEF TenanciesInv
<1>1. /\ Lease(p, m, "ended") /\ folder' = folder /\ missed' = missed /\ officer[o] = Idle
      /\ officer' = [officer EXCEPT ![o] = [at |-> "check", parcel |-> p]]
  BY DEF MemberRemove
<1>2. officer' \in [Officers -> {Idle} \cup Check \cup Vacant \cup Deactivate \cup SetFolder]
  BY <1>1 DEF TypeOK, Check
<1>3. \A e \in Officers : officer'[e] = officer[e]
                         \/ (officer[e] = Idle /\ officer'[e] = [at |-> "check", parcel |-> p])
  BY <1>1 DEF TypeOK
<1>4. officer'[o] = [at |-> "check", parcel |-> p]
  BY <1>1 DEF TypeOK
<1>5. Residents(p)' \subseteq Residents(p)
  BY <1>1, LeaseEffect
<1> QED
  BY <1>1, <1>2, <1>3, <1>4, <1>5, TenantsChange DEF TypeOK

LEMMA UpdateStep ==
    ASSUME TenanciesInv, NEW o \in Officers, NEW p \in Parcels, NEW m \in Members,
           NEW s \in {"current", "ended"}, AssignmentUpdate(o, p, m, s)
    PROVE  TenanciesInv'
<1> USE DEF TenanciesInv
<1> DEFINE movesIn == lease[p][m] = "ended" /\ s = "current"
<1>1. /\ Lease(p, m, s) /\ folder' = folder /\ officer[o] = Idle /\ lease[p][m] # "none"
      /\ missed' = IF movesIn /\ Pending(p) # {} THEN missed \cup {p} ELSE missed
      /\ officer' = [e \in Officers |->
                       IF e = o THEN [at |-> "check", parcel |-> p]
                       ELSE IF movesIn /\ e \in FoundVacant(p)
                       THEN [officer[e] EXCEPT !.stale = TRUE] ELSE officer[e]]
  BY DEF AssignmentUpdate
<1>2. officer' \in [Officers -> {Idle} \cup Check \cup Vacant \cup Deactivate \cup SetFolder]
  <2>1. [at |-> "check", parcel |-> p] \in Check
    BY DEF Check
  <2>2. \A e \in FoundVacant(p) : [officer[e] EXCEPT !.stale = TRUE] \in Vacant \cup Deactivate
    BY Kinds DEF Vacant, Deactivate, FoundVacant
  <2>3. \A e \in Officers : officer[e] \in {Idle} \cup Check \cup Vacant \cup Deactivate \cup SetFolder
    BY DEF TypeOK
  <2> QED
    BY <1>1, <2>1, <2>2, <2>3
<1>3. missed \subseteq missed' /\ missed' \subseteq Parcels
  BY <1>1 DEF TypeOK
<1>4. \A e \in Officers :
         \/ officer'[e] = officer[e]
         \/ officer[e] = Idle /\ officer'[e] = [at |-> "check", parcel |-> p]
         \/ /\ e \in FoundVacant(p)
            /\ officer'[e] = [officer[e] EXCEPT !.stale = TRUE]
  BY <1>1
<1>5. officer'[o] = [at |-> "check", parcel |-> p]
  BY <1>1
<1>6. Lease(p, m, s) /\ folder' = folder /\ s \in {"none", "current", "ended"}
  BY <1>1
<1>7. CASE movesIn
  <2>1. Overtaken(p)
    BY <1>1, <1>7 DEF Idle, FoundVacant, Overtaken
  <2>2. Pending(p) # {} => p \in missed'
    BY <1>1, <1>7
  <2> QED
    BY <1>6, <1>2, <1>3, <1>4, <1>5, <2>1, <2>2, TenantsChange
<1>8. CASE ~movesIn
  <2>1. s # "current" \/ lease[p][m] = "current"
    BY <1>1, <1>8 DEF TypeOK
  <2>2. Residents(p)' \subseteq Residents(p)
    BY <1>1, <2>1, LeaseEffect
  <2> QED
    BY <1>6, <1>2, <1>3, <1>4, <1>5, <2>2, TenantsChange
<1> QED
  BY <1>7, <1>8
-----------------------------------------------------------------------------
\* A request that finds residents leaves nothing behind that was not missed.
LEMMA LookStep ==
    ASSUME TenanciesInv, NEW o \in Officers, DeactivateIfVacant(o)
    PROVE  TenanciesInv'
<1> USE DEF TenanciesInv
<1> DEFINE p == officer[o].parcel
<1>1. /\ officer[o] \in Check
      /\ UNCHANGED <<lease, folder, turnover, missed>>
  BY Kinds DEF DeactivateIfVacant
<1>2. p \in Parcels
  BY <1>1 DEF Check
<1>3. /\ \A q \in Parcels : Residents(q)' = Residents(q)
      /\ \A f \in Folders : Outlived(f)' = Outlived(f)
  BY <1>1 DEF Residents, Outlived
<1>4. \A f \in Folders : folder[f].active => folder[f].parcel \in Parcels
  BY DEF TypeOK, Folder
<1>5. Inhabited' /\ OneActive'
  BY <1>1, <1>3, <1>4 DEF Inhabited, OneActive, Outlived
<1>6. CASE Residents(p) = {}
  <2>1. officer' = [officer EXCEPT ![o] = [at |-> "vacant", parcel |-> p, stale |-> FALSE]]
    BY <1>6 DEF DeactivateIfVacant
  <2>2. TypeOK'
    BY <1>1, <1>2, <2>1 DEF TypeOK, Vacant
  <2>3. /\ officer'[o].at = "vacant" /\ officer'[o].parcel = p
        /\ \A e \in Officers \ {o} : officer'[e] = officer[e]
    BY <2>1 DEF TypeOK
  <2>4. \A g \in Folders, e \in Officers : Attends(e, g) => Attends(e, g)'
    BY <1>1, <2>3 DEF Attends, Check
  <2>5. Accounted'
    BY <1>1, <1>3, <2>4 DEF Accounted, Outlived
  <2>6. Linked'
    BY <1>1, <2>3 DEF Linked
  <2>7. Fresh'
    BY <1>2, <1>3, <1>6, <2>3, Kinds DEF Fresh, Vacant, Deactivate
  <2> QED
    BY <1>5, <2>2, <2>5, <2>6, <2>7
<1>7. CASE Residents(p) # {}
  <2>1. officer' = [officer EXCEPT ![o] = Idle]
    BY <1>7 DEF DeactivateIfVacant
  <2>2. TypeOK'
    BY <1>1, <2>1 DEF TypeOK
  <2>3. /\ officer'[o] = Idle
        /\ \A e \in Officers \ {o} : officer'[e] = officer[e]
    BY <2>1 DEF TypeOK
  <2>4. Accounted'
    <3> SUFFICES ASSUME NEW f \in Folders, Outlived(f), folder[f].parcel \notin missed
                 PROVE  \E e \in Officers : Attends(e, f)'
      BY <1>1, <1>3 DEF Accounted
    <3>1. PICK e \in Officers : Attends(e, f)
      BY DEF Accounted
    <3>2. CASE e = o
      <4>1. folder[f].parcel = p
        BY <1>1, <3>1, <3>2 DEF Attends, Check
      <4> QED
        BY <4>1, <1>7 DEF Inhabited
    <3>3. CASE e # o
      BY <1>1, <3>1, <3>3, <2>3 DEF Attends
    <3> QED
      BY <3>2, <3>3
  <2>5. Linked'
    BY <1>1, <2>3 DEF Linked, Idle
  <2>6. Fresh'
    BY <1>3, <2>3, Kinds DEF Fresh, Idle, Vacant, Deactivate
  <2> QED
    BY <1>5, <2>2, <2>4, <2>5, <2>6
<1> QED
  BY <1>6, <1>7

\* A request that finds the parcel vacant takes the only folder it has, or
\* leaves none behind.
LEMMA FindStep ==
    ASSUME TenanciesInv, NEW o \in Officers, GetActiveFolder(o)
    PROVE  TenanciesInv'
<1> USE DEF TenanciesInv
<1> DEFINE p == officer[o].parcel
<1>1. /\ officer[o] \in Vacant
      /\ UNCHANGED <<lease, folder, turnover, missed>>
  BY Kinds DEF GetActiveFolder
<1>2. p \in Parcels
  BY <1>1 DEF Vacant
<1>3. /\ \A q \in Parcels : Residents(q)' = Residents(q)
      /\ \A f \in Folders : Outlived(f)' = Outlived(f)
  BY <1>1 DEF Residents, Outlived
<1>4. \A f \in Folders : folder[f].active => folder[f].parcel \in Parcels
  BY DEF TypeOK, Folder
<1>5. Inhabited' /\ OneActive'
  BY <1>1, <1>3, <1>4 DEF Inhabited, OneActive, Outlived
<1>6. CASE ActiveFolders(p) # {}
  <2>1. PICK f \in ActiveFolders(p) :
          officer' = [officer EXCEPT ![o] = [at |-> "deactivate", parcel |-> p, folder |-> f,
                                             stale |-> officer[o].stale]]
    BY <1>6 DEF GetActiveFolder
  <2>2. f \in Folders /\ folder[f].parcel = p /\ folder[f].active
    BY DEF ActiveFolders
  <2>3. TypeOK'
    <3> DEFINE r == [at |-> "deactivate", parcel |-> p, folder |-> f, stale |-> officer[o].stale]
    <3>1. officer[o].stale \in BOOLEAN
      BY <1>1 DEF Vacant
    <3>2. r \in Deactivate
      BY <3>1, <1>2, <2>2, Zenon DEF Deactivate
    <3>3. officer' = [officer EXCEPT ![o] = r]
      BY <2>1
    <3> HIDE DEF r
    <3> QED
      BY <1>1, <3>2, <3>3 DEF TypeOK
  <2>4. /\ officer'[o].at = "deactivate" /\ officer'[o].folder = f
        /\ officer'[o].parcel = p /\ officer'[o].stale = officer[o].stale
        /\ \A e \in Officers \ {o} : officer'[e] = officer[e]
    BY <2>1 DEF TypeOK
  <2>5. \A g \in Folders, e \in Officers : folder[g].active /\ Attends(e, g) => Attends(e, g)'
    <3> SUFFICES ASSUME NEW g \in Folders, NEW e \in Officers, folder[g].active, Attends(e, g)
                 PROVE  Attends(e, g)'
      OBVIOUS
    <3>1. CASE e # o
      BY <1>1, <2>4, <3>1 DEF Attends
    <3>2. CASE e = o
      <4>1. folder[g].parcel = p
        BY <1>1, <3>2 DEF Attends, Vacant
      <4>2. g = f
        BY <4>1, <2>2 DEF OneActive
      <4> QED
        BY <4>2, <3>2, <2>4 DEF Attends
    <3> QED
      BY <3>1, <3>2
  <2>6. Accounted'
    BY <1>1, <1>3, <2>5 DEF Accounted, Outlived
  <2>7. Linked'
    BY <1>1, <2>2, <2>4 DEF Linked
  <2>8. Fresh'
    <3> SUFFICES ASSUME NEW e \in Officers, officer'[e].at \in {"vacant", "deactivate"},
                        ~officer'[e].stale
                 PROVE  Residents(officer[e].parcel)' = {}
      BY DEF Fresh
    <3>1. CASE e = o
      <4>1. officer[o].at = "vacant" /\ ~officer[o].stale
        BY <1>1, <2>4, <3>1 DEF Vacant
      <4>2. Residents(p) = {}
        BY <4>1 DEF Fresh
      <4> QED
        BY <3>1, <4>2, <2>4, <1>2, <1>3
    <3>2. CASE e # o
      BY <3>2, <2>4, <1>3, Kinds DEF Fresh, Vacant, Deactivate
    <3> QED
      BY <3>1, <3>2
  <2> QED
    BY <1>5, <2>3, <2>6, <2>7, <2>8
<1>7. CASE ActiveFolders(p) = {}
  <2>1. officer' = [officer EXCEPT ![o] = Idle]
    BY <1>7 DEF GetActiveFolder
  <2>2. TypeOK'
    BY <1>1, <2>1 DEF TypeOK
  <2>3. /\ officer'[o] = Idle
        /\ \A e \in Officers \ {o} : officer'[e] = officer[e]
    BY <2>1 DEF TypeOK
  <2>4. Accounted'
    <3> SUFFICES ASSUME NEW f \in Folders, Outlived(f), folder[f].parcel \notin missed
                 PROVE  \E e \in Officers : Attends(e, f)'
      BY <1>1, <1>3 DEF Accounted
    <3>1. PICK e \in Officers : Attends(e, f)
      BY DEF Accounted
    <3>2. CASE e = o
      <4>1. folder[f].parcel = p /\ folder[f].active
        BY <1>1, <3>1, <3>2 DEF Attends, Vacant, Outlived
      <4>2. f \in ActiveFolders(p)
        BY <4>1 DEF ActiveFolders
      <4> QED
        BY <4>2, <1>7
    <3>3. CASE e # o
      BY <1>1, <3>1, <3>3, <2>3 DEF Attends
    <3> QED
      BY <3>2, <3>3
  <2>5. Linked'
    BY <1>1, <2>3 DEF Linked, Idle
  <2>6. Fresh'
    BY <1>3, <2>3, Kinds DEF Fresh, Idle, Vacant, Deactivate
  <2> QED
    BY <1>5, <2>2, <2>4, <2>5, <2>6
<1> QED
  BY <1>6, <1>7

\* The second commit takes the folder it has in hand away from its parcel.
LEMMA DeactivateStep ==
    ASSUME TenanciesInv, NEW o \in Officers, DeactivateCommit(o)
    PROVE  TenanciesInv'
<1> USE DEF TenanciesInv
<1> DEFINE f == officer[o].folder  p == officer[o].parcel
<1>1. /\ officer[o] \in Deactivate /\ f \in Folders /\ p \in Parcels /\ folder[f].parcel = p
  BY Kinds DEF DeactivateCommit, Deactivate, Linked
<1>2. /\ folder' = [folder EXCEPT ![f].active = FALSE]
      /\ missed' = IF ActiveFolders(p) \subseteq {f} THEN missed \ {p} ELSE missed
      /\ officer' = [officer EXCEPT ![o] = Idle]
      /\ UNCHANGED <<lease, turnover>>
  BY DEF DeactivateCommit
<1>3. /\ folder'[f] = [folder[f] EXCEPT !.active = FALSE]
      /\ \A g \in Folders \ {f} : folder'[g] = folder[g]
      /\ \A g \in Folders : folder[g] \in Folder
      /\ officer'[o] = Idle
      /\ \A e \in Officers \ {o} : officer'[e] = officer[e]
  BY <1>1, <1>2 DEF TypeOK
<1>4. folder'[f].active = FALSE /\ folder'[f].parcel = p /\ folder'[f] \in Folder
  BY <1>1, <1>3 DEF Folder
<1>5. TypeOK'
  BY <1>1, <1>2, <1>3, <1>4 DEF TypeOK
<1>6. \A g \in Folders : Outlived(g)' => /\ g # f /\ Outlived(g) /\ folder'[g] = folder[g]
                                       /\ (folder[g].parcel \in missed => folder[g].parcel \in missed')
  <2> SUFFICES ASSUME NEW g \in Folders, Outlived(g)'
               PROVE  /\ g # f /\ Outlived(g) /\ folder'[g] = folder[g]
                      /\ (folder[g].parcel \in missed => folder[g].parcel \in missed')
    OBVIOUS
  <2>1. g # f /\ folder'[g] = folder[g]
    BY <1>3, <1>4 DEF Outlived
  <2>2. Outlived(g) /\ folder[g].active
    BY <1>2, <2>1 DEF Outlived
  <2>3. folder[g].parcel = p => ~(ActiveFolders(p) \subseteq {f})
    BY <2>1, <2>2 DEF ActiveFolders
  <2> QED
    BY <1>2, <2>1, <2>2, <2>3
<1>7. \A q \in Parcels : Residents(q)' = Residents(q)
  BY <1>2 DEF Residents
<1>8. Accounted'
  <2> SUFFICES ASSUME NEW g \in Folders, Outlived(g)', folder'[g].parcel \notin missed'
               PROVE  \E e \in Officers : Attends(e, g)'
    BY DEF Accounted
  <2>1. g # f /\ Outlived(g) /\ folder'[g] = folder[g] /\ folder[g].parcel \notin missed
    BY <1>6
  <2>2. PICK e \in Officers : Attends(e, g)
    BY <2>1 DEF Accounted
  <2>3. e # o
    BY <2>1, <2>2, <1>1 DEF Attends, Deactivate
  <2> QED
    BY <2>1, <2>2, <2>3, <1>3 DEF Attends
<1>9. Inhabited'
  <2> SUFFICES ASSUME NEW g \in Folders, Outlived(g)', Residents(folder[g].parcel)' # {}
               PROVE  folder'[g].parcel \in missed'
    BY DEF Inhabited
  <2>1. Outlived(g) /\ folder'[g] = folder[g] /\ folder[g].parcel \in Parcels
    BY <1>6 DEF Outlived, TypeOK, Folder
  <2> QED
    BY <2>1, <1>6, <1>7 DEF Inhabited
<1>10. OneActive'
  BY <1>3, <1>4 DEF OneActive
<1>11. Linked'
  <2>1. \A g \in Folders : folder'[g].parcel = folder[g].parcel
    BY <1>1, <1>3, <1>4
  <2>2. \A e \in Officers \ {o} :
           officer[e].at = "deactivate" \/ (officer[e].at = "set" /\ officer[e].folder # None) =>
              officer[e].folder \in Folders
    BY Kinds DEF Deactivate, SetFolder
  <2> QED
    BY <1>3, <2>1, <2>2 DEF Linked, Idle
<1>12. Fresh'
  BY <1>3, <1>7, Kinds DEF Fresh, Idle, Vacant, Deactivate
<1> QED
  BY <1>5, <1>8, <1>9, <1>10, <1>11, <1>12

LEMMA SetLoadStep ==
    ASSUME TenanciesInv, NEW o \in Officers, NEW p \in Parcels, SetFolderLoad(o, p)
    PROVE  TenanciesInv'
<1> USE DEF TenanciesInv
<1>1. PICK f \in Folders \cup {None} :
        /\ f # None => folder[f].parcel = p
        /\ officer' = [officer EXCEPT ![o] = [at |-> "set", parcel |-> p, folder |-> f,
                                              turnover |-> turnover[p]]]
  BY DEF SetFolderLoad, ActiveFolders
<1>2. officer[o] = Idle /\ UNCHANGED <<lease, folder, turnover, missed>>
  BY DEF SetFolderLoad
<1>3. TypeOK'
  BY <1>1, <1>2 DEF TypeOK, SetFolder
<1>4. /\ officer'[o].at = "set" /\ officer'[o].parcel = p /\ officer'[o].folder = f
      /\ \A e \in Officers \ {o} : officer'[e] = officer[e]
  BY <1>1 DEF TypeOK
<1>5. /\ \A q \in Parcels : Residents(q)' = Residents(q)
      /\ \A g \in Folders : Outlived(g)' = Outlived(g)
      /\ \A g \in Folders : folder[g].active => folder[g].parcel \in Parcels
  BY <1>2 DEF Residents, Outlived, TypeOK, Folder
<1>6. \A g \in Folders, e \in Officers : Attends(e, g) => Attends(e, g)'
  BY <1>2, <1>4 DEF Attends, Idle
<1>7. Accounted' /\ Inhabited' /\ OneActive'
  BY <1>2, <1>5, <1>6 DEF Accounted, Inhabited, OneActive, Outlived
<1>8. Linked'
  BY <1>1, <1>2, <1>4 DEF Linked
<1>9. Fresh'
  BY <1>4, <1>5, Kinds DEF Fresh, Vacant, Deactivate
<1> QED
  BY <1>3, <1>7, <1>8, <1>9

\* Writing a path keeps the invariant if rows keep their parcel and a folder
\* that outlives its tenants by it is recorded as missed.
LEMMA PathWritten ==
    ASSUME TenanciesInv, NEW o \in Officers, officer[o].at = "set",
           officer' = [officer EXCEPT ![o] = Idle], UNCHANGED <<lease, turnover>>,
           missed \subseteq missed', missed' \subseteq Parcels,
           folder' \in [Folders -> Folder],
           \A f \in Folders : folder'[f].parcel = folder[f].parcel \/ folder[f] = NoFolder,
           \A f \in Folders : Outlived(f)' =>
              \/ Outlived(f) /\ folder'[f].parcel = folder[f].parcel
              \/ folder'[f].parcel \in missed',
           \A f \in Folders : folder'[f].active => folder'[f].parcel # None,
           OneActive'
    PROVE  TenanciesInv'
<1> USE DEF TenanciesInv
<1>1. TypeOK'
  BY DEF TypeOK
<1>2. officer'[o] = Idle /\ \A e \in Officers \ {o} : officer'[e] = officer[e]
  BY DEF TypeOK
<1>3. \A q \in Parcels : Residents(q)' = Residents(q)
  BY DEF Residents
<1>4. Accounted'
  <2> SUFFICES ASSUME NEW f \in Folders, Outlived(f)', folder'[f].parcel \notin missed'
               PROVE  \E e \in Officers : Attends(e, f)'
    BY DEF Accounted
  <2>1. Outlived(f) /\ folder'[f].parcel = folder[f].parcel /\ folder[f].parcel \notin missed
    OBVIOUS
  <2>2. PICK e \in Officers : Attends(e, f)
    BY <2>1 DEF Accounted
  <2> QED
    BY <1>2, <2>1, <2>2 DEF Attends
<1>5. Inhabited'
  <2> SUFFICES ASSUME NEW f \in Folders, Outlived(f)', Residents(folder[f].parcel)' # {}
               PROVE  folder'[f].parcel \in missed'
    BY DEF Inhabited
  <2>1. folder'[f].parcel \in Parcels
    BY DEF Outlived, Folder
  <2> QED
    BY <2>1, <1>3 DEF Inhabited
<1>6. Linked'
  <2> SUFFICES ASSUME NEW e \in Officers, e # o,
                      officer[e].at = "deactivate" \/ (officer[e].at = "set" /\ officer[e].folder # None)
               PROVE  folder'[officer[e].folder].parcel = officer[e].parcel
    BY <1>2 DEF Linked, Idle
  <2>1. /\ officer[e].folder \in Folders /\ officer[e].parcel \in Parcels
        /\ folder[officer[e].folder].parcel = officer[e].parcel
    BY Kinds DEF Linked, Deactivate, SetFolder
  <2>2. folder[officer[e].folder] # NoFolder
    BY <2>1, TenanciesAssumption DEF NoFolder
  <2> QED
    BY <2>1, <2>2
<1>7. Fresh'
  <2> SUFFICES ASSUME NEW e \in Officers, officer'[e].at \in {"vacant", "deactivate"},
                      ~officer'[e].stale
               PROVE  Residents(officer[e].parcel)' = {}
    BY DEF Fresh
  <2>1. e # o /\ officer'[e] = officer[e]
    BY <1>2 DEF Idle
  <2>2. Residents(officer[e].parcel) = {} /\ officer[e].parcel \in Parcels
    BY <2>1, Kinds DEF Fresh, Vacant, Deactivate
  <2> QED
    BY <2>1, <2>2, <1>3
<1> QED
  BY <1>1, <1>4, <1>5, <1>6, <1>7

LEMMA SetCommitStep ==
    ASSUME TenanciesInv, NEW o \in Officers, SetFolderCommit(o)
    PROVE  TenanciesInv'
<1> USE DEF TenanciesInv
<1> DEFINE q == officer[o]
           late == q.turnover < turnover[q.parcel]
<1>1. /\ q \in SetFolder /\ q.at = "set"
      /\ q.parcel \in Parcels /\ q.turnover \in 0..MaxTurnovers
      /\ officer' = [officer EXCEPT ![o] = Idle] /\ UNCHANGED <<lease, turnover>>
  BY Kinds DEF SetFolderCommit, SetFolder
<1>2. CASE q.folder # None
  <2> DEFINE g == q.folder
  <2>1. /\ g \in Folders /\ folder[g].parcel = q.parcel
        /\ folder' = [folder EXCEPT ![g] = [folder[g] EXCEPT !.turnover = q.turnover]]
        /\ missed' = IF late /\ folder[g].active THEN missed \cup {q.parcel} ELSE missed
    <3>1. g \in Folders /\ folder[g].parcel = q.parcel
      BY <1>1, <1>2 DEF Linked, SetFolder
    <3>2. [folder[g] EXCEPT !.turnover = q.turnover].active = folder[g].active
      BY <3>1 DEF TypeOK, Folder
    <3> QED
      BY <3>1, <3>2, <1>2 DEF SetFolderCommit
  <2>2. /\ folder'[g] = [folder[g] EXCEPT !.turnover = q.turnover] /\ folder[g] \in Folder
        /\ \A f \in Folders \ {g} : folder'[f] = folder[f]
    BY <2>1 DEF TypeOK
  <2>3. /\ folder'[g] \in Folder /\ folder'[g].turnover = q.turnover
        /\ folder'[g].parcel = folder[g].parcel /\ folder'[g].active = folder[g].active
    BY <1>1, <2>2 DEF Folder
  <2>4. folder' \in [Folders -> Folder]
    BY <2>1, <2>3 DEF TypeOK
  <2>5. \A f \in Folders : folder'[f].parcel = folder[f].parcel /\ folder'[f].active = folder[f].active
    BY <2>2, <2>3
  <2>6. missed \subseteq missed' /\ missed' \subseteq Parcels
    BY <1>1, <2>1 DEF TypeOK
  <2>7. OneActive'
    BY <2>5 DEF OneActive
  <2>8. \A f \in Folders : Outlived(f)' => Outlived(f) \/ folder'[f].parcel \in missed'
    <3> SUFFICES ASSUME NEW f \in Folders, Outlived(f)'
                 PROVE  Outlived(f) \/ folder'[f].parcel \in missed'
      OBVIOUS
    <3>1. CASE f # g
      BY <3>1, <1>1, <2>2 DEF Outlived
    <3>2. CASE f = g
      BY <3>2, <1>1, <2>1, <2>3 DEF Outlived
    <3> QED
      BY <3>1, <3>2
  <2>9. \A f \in Folders : folder'[f].active => folder'[f].parcel # None
    BY <2>5 DEF TypeOK
  <2> QED
    BY <1>1, <2>4, <2>5, <2>6, <2>7, <2>8, <2>9, PathWritten
<1>3. CASE q.folder = None /\ ActiveFolders(q.parcel) = {}
  <2> DEFINE new == [parcel |-> q.parcel, active |-> TRUE, turnover |-> q.turnover]
  <2>1. PICK g \in Folders :
          /\ folder[g] = NoFolder /\ folder' = [folder EXCEPT ![g] = new]
          /\ missed' = IF late /\ new.active THEN missed \cup {q.parcel} ELSE missed
    BY <1>3 DEF SetFolderCommit
  <2>2. /\ folder'[g] = new /\ new \in Folder
        /\ \A f \in Folders \ {g} : folder'[f] = folder[f]
    BY <1>1, <2>1 DEF TypeOK, Folder
  <2>3. folder' \in [Folders -> Folder]
    BY <2>1, <2>2 DEF TypeOK
  <2>4. missed \subseteq missed' /\ missed' \subseteq Parcels
    BY <1>1, <2>1 DEF TypeOK
  <2>5. \A f \in Folders : folder'[f].parcel = folder[f].parcel \/ folder[f] = NoFolder
    BY <2>1, <2>2
  <2>6. OneActive'
    BY <1>3, <2>2 DEF OneActive, ActiveFolders
  <2>7. \A f \in Folders : Outlived(f)' =>
           \/ Outlived(f) /\ folder'[f].parcel = folder[f].parcel
           \/ folder'[f].parcel \in missed'
    <3> SUFFICES ASSUME NEW f \in Folders, Outlived(f)'
                 PROVE  \/ Outlived(f) /\ folder'[f].parcel = folder[f].parcel
                        \/ folder'[f].parcel \in missed'
      OBVIOUS
    <3>1. CASE f # g
      BY <3>1, <1>1, <2>2 DEF Outlived
    <3>2. CASE f = g
      BY <3>2, <1>1, <2>1, <2>2 DEF Outlived
    <3> QED
      BY <3>1, <3>2
  <2>8. \A f \in Folders : folder'[f].active => folder'[f].parcel # None
    BY <1>1, <2>2, TenanciesAssumption DEF TypeOK
  <2> QED
    BY <1>1, <2>3, <2>4, <2>5, <2>6, <2>7, <2>8, PathWritten
<1>4. CASE q.folder = None /\ ActiveFolders(q.parcel) # {}
  <2>1. UNCHANGED <<folder, missed>>
    BY <1>4 DEF SetFolderCommit
  <2>2. \A f \in Folders : Outlived(f)' = Outlived(f)
    BY <1>1, <2>1 DEF Outlived
  <2>3. OneActive'
    BY <2>1 DEF OneActive
  <2> QED
    BY <1>1, <2>1, <2>2, <2>3, PathWritten DEF TypeOK
<1> QED
  BY <1>2, <1>3, <1>4

\* A restart records what is left undone.
LEMMA RestartStep ==
    ASSUME TenanciesInv, Restart
    PROVE  TenanciesInv'
<1> USE DEF TenanciesInv
<1>1. /\ officer' = [o \in Officers |-> Idle]
      /\ missed' = missed \cup {p \in Parcels : Pending(p) # {}}
      /\ UNCHANGED <<lease, folder, turnover>>
  BY DEF Restart
<1>2. TypeOK'
  BY <1>1 DEF TypeOK
<1>3. /\ \A q \in Parcels : Residents(q)' = Residents(q)
      /\ \A f \in Folders : Outlived(f)' = Outlived(f)
      /\ \A f \in Folders : folder[f].active => folder[f].parcel \in Parcels
  BY <1>1 DEF Residents, Outlived, TypeOK, Folder
<1>4. Accounted'
  <2> SUFFICES ASSUME NEW f \in Folders, Outlived(f), folder[f].parcel \notin missed
               PROVE  folder[f].parcel \in missed'
    BY <1>1, <1>3 DEF Accounted
  <2>1. PICK o \in Officers : Attends(o, f)
    BY DEF Accounted
  <2>2. o \in Pending(folder[f].parcel)
    BY <2>1 DEF Attends, Pending, Linked
  <2> QED
    BY <1>1, <1>3, <2>2 DEF Outlived
<1>5. Inhabited' /\ OneActive'
  BY <1>1, <1>3 DEF Inhabited, OneActive, Outlived
<1>6. Linked' /\ Fresh'
  BY <1>1 DEF Linked, Fresh, Idle
<1> QED
  BY <1>2, <1>4, <1>5, <1>6
-----------------------------------------------------------------------------
\* The inductive invariant: every folder that outlives its tenants is accounted for.
THEOREM TenanciesInvariant == Spec => []TenanciesInv
<1>1. Init => TenanciesInv
  <2> SUFFICES ASSUME Init PROVE TenanciesInv
    OBVIOUS
  <2>1. TypeOK
    BY TenanciesAssumption DEF Init, TypeOK, NoFolder, Folder, Idle
  <2>2. Accounted /\ Inhabited /\ OneActive
    BY DEF Init, NoFolder, Accounted, Inhabited, OneActive, Outlived
  <2>3. Linked /\ Fresh
    BY DEF Init, Idle, Linked, Fresh
  <2> QED
    BY <2>1, <2>2, <2>3 DEF TenanciesInv
<1>2. TenanciesInv /\ [Next]_vars => TenanciesInv'
  <2> SUFFICES ASSUME TenanciesInv, [Next]_vars PROVE TenanciesInv'
    OBVIOUS
  <2>1. CASE UNCHANGED vars
    BY <2>1 DEF vars, TenanciesInv, TypeOK, Accounted, Inhabited, OneActive, Linked, Fresh,
                Attends, Outlived, Residents
  <2>2. CASE Next
    BY <2>2, MoveStep, RemoveStep, UpdateStep, LookStep, FindStep, DeactivateStep, SetLoadStep,
       SetCommitStep, RestartStep DEF Next
  <2> QED
    BY <2>1, <2>2
<1> QED
  BY <1>1, <1>2, PTL DEF Spec

\* All variables keep their types, and an active folder belongs to a parcel.
THEOREM TenanciesTypes == Spec => []TypeOK
<1>1. TenanciesInv => TypeOK
  BY DEF TenanciesInv
<1> QED
  BY <1>1, TenanciesInvariant, PTL

\* The two commits of an end of tenancy (member_remove, deactivate_if_vacant)
\* leave a folder active beyond its tenants only for the reasons listed.
THEOREM FolderIsEnded == Spec => []FolderEndsWithTenancy
<1>1. TenanciesInv => FolderEndsWithTenancy
  <2> SUFFICES ASSUME TenanciesInv, NEW f \in Folders, Outlived(f), folder[f].parcel \notin missed
               PROVE  Pending(folder[f].parcel) # {}
    BY DEF FolderEndsWithTenancy
  <2>1. PICK o \in Officers : Attends(o, f)
    BY DEF TenanciesInv, Accounted
  <2>2. o \in Pending(folder[f].parcel)
    BY <2>1 DEF TenanciesInv, Attends, Pending, Linked
  <2> QED
    BY <2>2
<1> QED
  BY <1>1, TenanciesInvariant, PTL

\* Nobody who lives on a parcel loses its folder to a request that looked for a
\* vacancy after they had moved in (deactivate_if_vacant).
THEOREM FolderIsKept == Spec => TenantsKeepTheirFolder
<1> DEFINE Kept ==
      \A f \in Folders : folder[f].active /\ ~folder'[f].active =>
         \/ Residents(folder[f].parcel) = {}
         \/ \E o \in Officers : officer[o].at = "deactivate" /\ officer[o].folder = f
                                /\ officer[o].stale
<1>1. TenanciesInv /\ [Next]_vars => [Kept]_vars
  <2> SUFFICES ASSUME TenanciesInv, Next, NEW f \in Folders, folder[f].active, ~folder'[f].active
               PROVE  \/ Residents(folder[f].parcel) = {}
                      \/ \E o \in Officers : officer[o].at = "deactivate" /\ officer[o].folder = f
                                             /\ officer[o].stale
    OBVIOUS
  <2>1. folder' # folder
    OBVIOUS
  <2>2. PICK o \in Officers : DeactivateCommit(o) \/ SetFolderCommit(o)
    BY <2>1 DEF Next, MemberAssign, AssignmentImport, FormerAssignmentDelete, AssignmentRemove,
         MemberRemove, AssignmentUpdate, DeactivateIfVacant, GetActiveFolder, SetFolderLoad,
         Restart
  <2>3. CASE DeactivateCommit(o)
    <3>1. officer[o].at = "deactivate" /\ officer[o].folder = f
      BY <2>3 DEF DeactivateCommit, TenanciesInv, TypeOK
    <3>2. folder[f].parcel = officer[o].parcel
      BY <3>1 DEF TenanciesInv, Linked
    <3> QED
      BY <3>1, <3>2 DEF TenanciesInv, Fresh
  <2>4. CASE SetFolderCommit(o)
    <3>1. officer[o] \in SetFolder
      BY <2>4, Kinds DEF SetFolderCommit, TenanciesInv
    <3>2. CASE officer[o].folder # None
      <4>1. folder' = [folder EXCEPT ![officer[o].folder] =
                         [folder[officer[o].folder] EXCEPT !.turnover = officer[o].turnover]]
        BY <2>4, <3>2 DEF SetFolderCommit
      <4>2. folder[f] \in Folder /\ folder \in [Folders -> Folder]
        BY DEF TenanciesInv, TypeOK
      <4>3. folder'[f].active = folder[f].active
        BY <4>1, <4>2 DEF Folder
      <4> QED
        BY <4>3
    <3>3. CASE officer[o].folder = None
      <4>1. PICK g \in Folders : /\ folder[g] = NoFolder
                                 /\ folder' = [folder EXCEPT ![g] =
                                      [parcel |-> officer[o].parcel, active |-> TRUE,
                                       turnover |-> officer[o].turnover]]
        BY <2>1, <2>4, <3>3 DEF SetFolderCommit
      <4>2. f # g
        BY <4>1 DEF NoFolder
      <4> QED
        BY <4>1, <4>2 DEF TenanciesInv, TypeOK
    <3> QED
      BY <3>2, <3>3
  <2> QED
    BY <2>2, <2>3, <2>4
<1> QED
  BY <1>1, TenanciesInvariant, PTL DEF Spec, TenantsKeepTheirFolder
-----------------------------------------------------------------------------
(***************************************************************************)
(* Delivery of invoices                                                    *)
(***************************************************************************)
\* Only those who mail have something sent, and they have sent it.
SentInv ==
    \A c \in Clerks :
        /\ ~Delivery!Mailing(c) => clerk[c].sent = {}
        /\ \A i \in clerk[c].sent : mailed[i] > 0

\* Nobody mails alone beside somebody else.
AloneInv ==
    \A c, d \in Clerks : c # d /\ Delivery!Mailing(c) /\ Delivery!Mailing(d) => ~clerk[c].alone

\* Whatever a delivery that mails alone has still to send was mailed before by
\* failed requests only.
OnceInv ==
    \A c \in Clerks : clerk[c].at = "deliver" /\ clerk[c].alone =>
        \A i \in clerk[c].todo \cap clerk[c].unmailed : mailed[i] > 0 => i \in lost

DeliveryInv == Delivery!TypeOK /\ RecordIsTrue /\ SentInv /\ AloneInv /\ OnceInv
-----------------------------------------------------------------------------
\* A new request leaves what the others have done as it is.
LEMMA DeliveryStarts ==
    ASSUME DeliveryInv, NEW c \in Clerks, NEW q \in Delivery!Request,
           q.at # "idle", q.sent = {}, Delivery!Start(c, q),
           q.at = "deliver" => q.unmailed = Invoices \ emailed
    PROVE  DeliveryInv'
<1> USE DEF DeliveryInv
<1> DEFINE solo == \A e \in Clerks : ~Delivery!Mailing(e)
<1>1. /\ clerk[c] = Delivery!Idle
      /\ clerk' = [d \in Clerks |->
                     IF d = c THEN [q EXCEPT !.alone = solo]
                     ELSE IF Delivery!Mailing(d) /\ q.at # "print" THEN [clerk[d] EXCEPT !.alone = FALSE]
                     ELSE clerk[d]]
      /\ UNCHANGED <<emailed, uploaded, printed, mailed, lost>>
  BY DEF Delivery!Start
<1>2. solo \in BOOLEAN
  OBVIOUS
<1> HIDE DEF solo
<1>3. /\ clerk'[c] \in Delivery!Request /\ clerk'[c].at = q.at /\ clerk'[c].sent = {}
      /\ clerk'[c].todo = q.todo /\ clerk'[c].unmailed = q.unmailed /\ clerk'[c].alone = solo
  BY <1>1, <1>2 DEF Delivery!Request
<1>4. \A d \in Clerks \ {c} :
         /\ clerk'[d] \in Delivery!Request /\ clerk'[d].at = clerk[d].at /\ clerk'[d].sent = clerk[d].sent
         /\ clerk'[d].todo = clerk[d].todo /\ clerk'[d].unmailed = clerk[d].unmailed
         /\ clerk'[d].alone => clerk[d].alone
         /\ Delivery!Mailing(d) /\ q.at # "print" => ~clerk'[d].alone
  BY <1>1 DEF Delivery!TypeOK, Delivery!Request
<1>5. Delivery!TypeOK'
  <2>1. \A d \in Clerks : clerk'[d] \in Delivery!Request
    BY <1>3, <1>4
  <2>2. clerk' \in [Clerks -> Delivery!Request]
    BY <1>1, <2>1
  <2> QED
    BY <1>1, <2>2 DEF Delivery!TypeOK
<1>6. clerk[c].sent = {} /\ ~Delivery!Mailing(c)
  BY <1>1 DEF Delivery!Idle, Delivery!Mailing
<1>7. RecordIsTrue'
  <2>1. \A i \in Invoices : (\E d \in Clerks : i \in clerk[d].sent) => \E d \in Clerks : i \in clerk'[d].sent
    BY <1>4, <1>6
  <2> QED
    BY <1>1, <2>1 DEF RecordIsTrue, Delivery!RecordIsTrue
<1>8. SentInv'
  BY <1>1, <1>3, <1>4 DEF SentInv, Delivery!Mailing
<1>9. AloneInv'
  <2> SUFFICES ASSUME NEW a \in Clerks, NEW d \in Clerks, a # d, Delivery!Mailing(a)', Delivery!Mailing(d)'
               PROVE  ~clerk'[a].alone
    BY DEF AloneInv
  <2>1. CASE a = c
    BY <2>1, <1>3, <1>4 DEF solo, Delivery!Mailing
  <2>2. CASE a # c /\ d = c
    BY <2>2, <1>3, <1>4 DEF Delivery!Mailing
  <2>3. CASE a # c /\ d # c
    BY <2>3, <1>4 DEF AloneInv, Delivery!Mailing
  <2> QED
    BY <2>1, <2>2, <2>3
<1>10. OnceInv'
  <2> SUFFICES ASSUME NEW d \in Clerks, clerk'[d].at = "deliver", clerk'[d].alone,
                      NEW i \in clerk'[d].todo \cap clerk'[d].unmailed, mailed[i] > 0
               PROVE  i \in lost
    BY <1>1 DEF OnceInv
  <2>1. CASE d # c
    BY <2>1, <1>4 DEF OnceInv
  <2>2. CASE d = c
    <3>1. i \in Invoices \ emailed
      BY <2>2, <1>3
    <3>2. \A e \in Clerks : clerk[e].sent = {}
      BY <2>2, <1>3 DEF solo, SentInv
    <3> QED
      BY <3>1, <3>2 DEF RecordIsTrue, Delivery!RecordIsTrue
  <2> QED
    BY <2>1, <2>2
<1> QED
  BY <1>5, <1>7, <1>8, <1>9, <1>10

\* What sending one invoice may come to.
SendOutcome(c, i, accepted, sent, stored) ==
    /\ sent => accepted
    /\ mailed' = [mailed EXCEPT ![i] = IF accepted THEN @ + 1 ELSE @]
    /\ lost' = IF accepted /\ ~sent THEN lost \cup {i} ELSE lost
    /\ Delivery!Mark(c, i, sent, stored)
    /\ UNCHANGED <<emailed, uploaded, printed>>

\* A mail that has gone out is noted by the request that sent it, or is one that
\* it could not record.
LEMMA DeliverySends ==
    ASSUME DeliveryInv, NEW c \in Clerks, NEW i \in Invoices, NEW accepted \in BOOLEAN,
           NEW sent \in BOOLEAN, NEW stored \in BOOLEAN, Delivery!Mailing(c),
           SendOutcome(c, i, accepted, sent, stored)
    PROVE  DeliveryInv'
<1> USE DEF DeliveryInv
<1> DEFINE newSent == IF sent THEN clerk[c].sent \cup {i} ELSE clerk[c].sent
           newStored == IF stored THEN clerk[c].stored \cup {i} ELSE clerk[c].stored
<1>1. /\ mailed' = [mailed EXCEPT ![i] = IF accepted THEN @ + 1 ELSE @]
      /\ clerk' = [clerk EXCEPT ![c].todo = @ \ {i}, ![c].sent = newSent, ![c].stored = newStored]
  <2>1. clerk' = [clerk EXCEPT ![c].todo = @ \ {i},
                               ![c].sent = IF sent THEN @ \cup {i} ELSE @,
                               ![c].stored = IF stored THEN @ \cup {i} ELSE @]
    BY DEF SendOutcome, Delivery!Mark
  <2>2. clerk[c] \in Delivery!Request /\ clerk \in [Clerks -> Delivery!Request]
    BY DEF Delivery!TypeOK
  <2>3. CASE sent /\ stored
    BY <2>1, <2>2, <2>3 DEF SendOutcome, Delivery!Request
  <2>4. CASE sent /\ ~stored
    BY <2>1, <2>2, <2>4 DEF SendOutcome, Delivery!Request
  <2>5. CASE ~sent /\ stored
    BY <2>1, <2>2, <2>5 DEF SendOutcome, Delivery!Request
  <2>6. CASE ~sent /\ ~stored
    BY <2>1, <2>2, <2>6 DEF SendOutcome, Delivery!Request
  <2> QED
    BY <2>3, <2>4, <2>5, <2>6
<1>2. /\ UNCHANGED <<emailed, uploaded, printed>> /\ (sent => accepted)
      /\ lost \subseteq lost' /\ lost' \subseteq Invoices /\ (accepted => sent \/ i \in lost')
  BY DEF SendOutcome, Delivery!TypeOK
<1>typed. newSent \in SUBSET Invoices /\ newStored \in SUBSET Invoices /\ clerk[c] \in Delivery!Request
  BY DEF Delivery!TypeOK, Delivery!Request
<1>noted. /\ clerk[c].sent \subseteq newSent /\ newSent \subseteq clerk[c].sent \cup {i}
          /\ sent => i \in newSent
          /\ i \in newSent => sent \/ i \in clerk[c].sent
  OBVIOUS
<1> HIDE DEF newSent, newStored
<1>3. /\ clerk'[c] = [clerk[c] EXCEPT !.todo = @ \ {i}, !.sent = newSent, !.stored = newStored]
      /\ \A d \in Clerks \ {c} : clerk'[d] = clerk[d]
  BY <1>1 DEF Delivery!TypeOK
<1>4. /\ clerk'[c] \in Delivery!Request /\ clerk'[c].at = clerk[c].at
      /\ clerk'[c].alone = clerk[c].alone /\ clerk'[c].todo = clerk[c].todo \ {i}
      /\ clerk'[c].sent = newSent /\ clerk'[c].unmailed = clerk[c].unmailed
  <2> DEFINE todo == clerk[c].todo \ {i}
             q == [clerk[c] EXCEPT !.todo = todo, !.sent = newSent, !.stored = newStored]
  <2>1. todo \in SUBSET Invoices
    BY <1>typed DEF Delivery!Request
  <2>2. clerk'[c] = q
    BY <1>3
  <2> HIDE DEF todo
  <2>3. /\ q \in Delivery!Request /\ q.at = clerk[c].at /\ q.alone = clerk[c].alone
        /\ q.unmailed = clerk[c].unmailed /\ q.todo = todo /\ q.sent = newSent
    BY <1>typed, <2>1 DEF Delivery!Request
  <2> HIDE DEF q
  <2> QED
    BY <2>2, <2>3 DEF todo
<1>5. /\ mailed' \in [Invoices -> Nat]
      /\ mailed'[i] = IF accepted THEN mailed[i] + 1 ELSE mailed[i]
      /\ \A j \in Invoices \ {i} : mailed'[j] = mailed[j]
  BY <1>1 DEF Delivery!TypeOK
<1>6. Delivery!TypeOK'
  BY <1>1, <1>2, <1>4, <1>5 DEF Delivery!TypeOK
<1>7. \A j \in Invoices : mailed[j] > 0 => mailed'[j] > 0
  BY <1>5 DEF Delivery!TypeOK
<1>8. RecordIsTrue'
  <2> SUFFICES ASSUME NEW j \in Invoices
               PROVE  /\ j \in emailed => mailed'[j] > 0
                      /\ mailed'[j] > 0 => j \in emailed \cup lost' \/ \E d \in Clerks : j \in clerk'[d].sent
    BY <1>2 DEF RecordIsTrue, Delivery!RecordIsTrue
  <2>1. \A d \in Clerks : j \in clerk[d].sent => j \in clerk'[d].sent
    BY <1>noted, <1>3, <1>4
  <2>2. mailed'[j] > 0 => mailed[j] > 0 \/ j \in clerk'[c].sent \/ j \in lost'
    BY <1>noted, <1>2, <1>4, <1>5
  <2> QED
    BY <1>2, <1>7, <2>1, <2>2 DEF RecordIsTrue, Delivery!RecordIsTrue
<1>9. SentInv'
  <2>1. \A d \in Clerks : clerk[d].sent \subseteq Invoices
    BY DEF Delivery!TypeOK, Delivery!Request
  <2>2. i \in newSent => mailed'[i] > 0
    BY <1>noted, <1>2, <1>5, <1>7 DEF Delivery!TypeOK, SentInv
  <2>3. \A j \in newSent : mailed'[j] > 0
    BY <1>noted, <1>7, <2>1, <2>2 DEF SentInv
  <2>4. \A d \in Clerks : /\ ~Delivery!Mailing(d)' => clerk'[d].sent = {}
                          /\ \A j \in clerk'[d].sent : mailed'[j] > 0
    BY <1>3, <1>4, <1>7, <2>1, <2>3 DEF SentInv, Delivery!Mailing
  <2> QED
    BY <2>4 DEF SentInv
<1>10. AloneInv'
  BY <1>3, <1>4 DEF AloneInv, Delivery!Mailing
<1>11. OnceInv'
  <2> SUFFICES ASSUME NEW d \in Clerks, clerk'[d].at = "deliver", clerk'[d].alone,
                      NEW j \in clerk'[d].todo \cap clerk'[d].unmailed, mailed'[j] > 0
               PROVE  j \in lost'
    BY DEF OnceInv
  <2>1. CASE d = c
    <3>1. j # i /\ j \in clerk[c].todo \cap clerk[c].unmailed /\ j \in Invoices
      BY <2>1, <1>3, <1>4 DEF Delivery!Request
    <3> QED
      BY <2>1, <3>1, <1>2, <1>4, <1>5 DEF OnceInv
  <2>2. CASE d # c
    <3>1. Delivery!Mailing(d) /\ clerk[d].alone
      BY <2>2, <1>3 DEF Delivery!Mailing
    <3> QED
      BY <2>2, <3>1 DEF AloneInv
  <2> QED
    BY <2>1, <2>2
<1> QED
  BY <1>6, <1>8, <1>9, <1>10, <1>11

\* A delivery mails what it has found without a mail, and both only mail.
LEMMA SendOutcomes ==
    ASSUME NEW c \in Clerks, NEW i \in Invoices, Delivery!DeliverOne(c, i) \/ Delivery!ResendOne(c, i)
    PROVE  \E accepted, sent, stored \in BOOLEAN :
             /\ Delivery!Mailing(c) /\ SendOutcome(c, i, accepted, sent, stored)
             /\ Delivery!DeliverOne(c, i) /\ accepted => i \in clerk[c].todo \cap clerk[c].unmailed
<1>1. CASE Delivery!DeliverOne(c, i)
  BY <1>1 DEF Delivery!DeliverOne, Delivery!SendAndUpload, SendOutcome, Delivery!Mailing
<1>2. CASE Delivery!ResendOne(c, i) /\ ~Delivery!DeliverOne(c, i)
  BY <1>2 DEF Delivery!ResendOne, Delivery!SendAndUpload, SendOutcome, Delivery!Mailing
<1> QED
  BY <1>1, <1>2

\* The end of a request, with or without its commit.
LEMMA DeliveryEnds ==
    ASSUME DeliveryInv, NEW c \in Clerks, Delivery!MailingCommit(c) \/ Delivery!PrintCommit(c) \/ Delivery!Fail(c)
    PROVE  DeliveryInv'
<1> USE DEF DeliveryInv
<1>1. /\ clerk' = [clerk EXCEPT ![c] = Delivery!Idle] /\ mailed' = mailed
      /\ emailed \subseteq emailed' /\ emailed' \subseteq emailed \cup clerk[c].sent
      /\ emailed' \cup lost' = emailed \cup lost \cup clerk[c].sent
    BY DEF Delivery!MailingCommit, Delivery!PrintCommit, Delivery!Fail, SentInv, Delivery!Mailing
<1>2. /\ clerk'[c] = Delivery!Idle /\ clerk[c] \in Delivery!Request
      /\ \A d \in Clerks \ {c} : clerk'[d] = clerk[d]
  BY <1>1 DEF Delivery!TypeOK
<1>3. Delivery!TypeOK'
  <2>1. clerk' \in [Clerks -> Delivery!Request]
    BY <1>1 DEF Delivery!TypeOK, Delivery!Request, Delivery!Idle
  <2>2. /\ emailed' \subseteq Invoices /\ uploaded' \subseteq Invoices
        /\ printed' \subseteq Invoices /\ lost' \subseteq Invoices
    BY <1>2 DEF Delivery!MailingCommit, Delivery!PrintCommit, Delivery!Fail, Delivery!TypeOK, Delivery!Request
  <2> QED
    BY <1>1, <2>1, <2>2 DEF Delivery!TypeOK
<1>4. RecordIsTrue'
  <2> SUFFICES ASSUME NEW i \in Invoices
               PROVE  /\ i \in emailed' => mailed[i] > 0
                      /\ mailed[i] > 0 => i \in emailed' \cup lost' \/ \E d \in Clerks : i \in clerk'[d].sent
    BY <1>1 DEF RecordIsTrue, Delivery!RecordIsTrue
  <2>1. i \in emailed' => mailed[i] > 0
    BY <1>1 DEF RecordIsTrue, Delivery!RecordIsTrue, SentInv
  <2>2. \A d \in Clerks : i \in clerk[d].sent => i \in clerk[c].sent \/ i \in clerk'[d].sent
    BY <1>2
  <2> QED
    BY <1>1, <2>1, <2>2 DEF RecordIsTrue, Delivery!RecordIsTrue
<1>5. SentInv'
  BY <1>1, <1>2 DEF SentInv, Delivery!Mailing, Delivery!Idle
<1>6. AloneInv'
  BY <1>2 DEF AloneInv, Delivery!Mailing, Delivery!Idle
<1>7. OnceInv'
  <2> SUFFICES ASSUME NEW d \in Clerks, clerk'[d].at = "deliver", clerk'[d].alone,
                      NEW i \in clerk'[d].todo \cap clerk'[d].unmailed, mailed[i] > 0
               PROVE  i \in lost'
    BY <1>1 DEF OnceInv
  <2>1. d # c /\ clerk'[d] = clerk[d] /\ i \in lost /\ Delivery!Mailing(d)
    BY <1>2 DEF Delivery!Idle, OnceInv, Delivery!Mailing
  <2>2. ~Delivery!MailingCommit(c)
    BY <2>1, <1>2 DEF Delivery!MailingCommit, AloneInv
  <2> QED
    BY <2>1, <2>2 DEF Delivery!PrintCommit, Delivery!Fail
<1> QED
  BY <1>3, <1>4, <1>5, <1>6, <1>7
-----------------------------------------------------------------------------
\* The inductive invariant: mails and marks agree, and who mails alone is alone.
THEOREM DeliveryInvariant == Delivery!Spec => []DeliveryInv
<1>1. Delivery!Init => DeliveryInv
  BY DEF Delivery!Init, DeliveryInv, Delivery!TypeOK, Delivery!Request, Delivery!Idle, RecordIsTrue, Delivery!RecordIsTrue, SentInv, AloneInv, OnceInv, Delivery!Mailing
<1>2. DeliveryInv /\ [Delivery!Next]_Delivery!vars => DeliveryInv'
  <2> SUFFICES ASSUME DeliveryInv, [Delivery!Next]_Delivery!vars PROVE DeliveryInv'
    OBVIOUS
  <2>1. CASE UNCHANGED Delivery!vars
    BY <2>1 DEF Delivery!vars, DeliveryInv, Delivery!TypeOK, RecordIsTrue, Delivery!RecordIsTrue, SentInv, AloneInv, OnceInv, Delivery!Mailing
  <2>2. ASSUME NEW c \in Clerks, Delivery!DeliverLoad(c) PROVE DeliveryInv'
    <3> DEFINE q == [Delivery!Idle EXCEPT !.at = "deliver", !.todo = Invoices,
                                 !.unmailed = Invoices \ emailed, !.unstored = Invoices \ uploaded]
    <3>1. q \in Delivery!Request /\ q.at = "deliver" /\ q.sent = {} /\ q.unmailed = Invoices \ emailed
      BY DEF Delivery!Idle, Delivery!Request
    <3>2. Delivery!Start(c, q)
      BY <2>2 DEF Delivery!DeliverLoad
    <3> HIDE DEF q
    <3> QED
      BY <2>2, <3>1, <3>2, DeliveryStarts
  <2>3. ASSUME NEW c \in Clerks, Delivery!PrintLoad(c) PROVE DeliveryInv'
    <3> DEFINE q == [Delivery!Idle EXCEPT !.at = "print", !.todo = Invoices \ emailed]
    <3>1. q \in Delivery!Request /\ q.at = "print" /\ q.sent = {}
      BY DEF Delivery!Idle, Delivery!Request
    <3>2. Delivery!Start(c, q)
      BY <2>3 DEF Delivery!PrintLoad
    <3> HIDE DEF q
    <3> QED
      BY <2>3, <3>1, <3>2, DeliveryStarts
  <2>4. ASSUME NEW c \in Clerks, NEW i \in Invoices, Delivery!ResendLoad(c, i) PROVE DeliveryInv'
    <3> DEFINE q == [Delivery!Idle EXCEPT !.at = "resend", !.todo = {i}, !.unmailed = {i}]
    <3>1. q \in Delivery!Request /\ q.at = "resend" /\ q.sent = {}
      BY DEF Delivery!Idle, Delivery!Request
    <3>2. Delivery!Start(c, q)
      BY <2>4 DEF Delivery!ResendLoad
    <3> HIDE DEF q
    <3> QED
      BY <2>4, <3>1, <3>2, DeliveryStarts
  <2>5. ASSUME NEW c \in Clerks, NEW i \in Invoices, Delivery!DeliverOne(c, i) \/ Delivery!ResendOne(c, i)
        PROVE  DeliveryInv'
    BY <2>5, SendOutcomes, DeliverySends
  <2> QED
    BY <2>1, <2>2, <2>3, <2>4, <2>5, DeliveryEnds DEF Delivery!Next
<1> QED
  BY <1>1, <1>2, PTL DEF Delivery!Spec

\* All variables keep their types.
THEOREM DeliveryTypes == Delivery!Spec => []Delivery!TypeOK
<1>1. DeliveryInv => Delivery!TypeOK
  BY DEF DeliveryInv
<1> QED
  BY <1>1, DeliveryInvariant, PTL

\* emailed_at says what has happened: run_deliver and invoice_resend_email mark
\* nothing they have not mailed and forget nothing unless they fail.
THEOREM RecordHolds == Delivery!Spec => []RecordIsTrue
<1>1. DeliveryInv => RecordIsTrue
  BY DEF DeliveryInv
<1> QED
  BY <1>1, DeliveryInvariant, PTL

\* run_deliver mails nobody a second time what is on record, nor what is not
\* except after a failure or beside another request.
THEOREM DeliveredOnce == Delivery!Spec => MailedOnce
<1> DEFINE Once ==
      \A i \in Invoices :
         mailed[i] > 0 /\ mailed'[i] > mailed[i] =>
           \/ i \in lost
           \/ \E c \in Clerks :
                /\ Delivery!Mailing(c) /\ i \in clerk[c].todo \ clerk'[c].todo
                /\ clerk[c].at = "resend" \/ ~clerk[c].alone
<1>1. DeliveryInv /\ [Delivery!Next]_Delivery!vars => [Once]_Delivery!vars
  <2> SUFFICES ASSUME DeliveryInv, Delivery!Next, NEW i \in Invoices,
                      mailed[i] > 0, mailed'[i] > mailed[i]
               PROVE  \/ i \in lost
                      \/ \E c \in Clerks :
                           /\ Delivery!Mailing(c) /\ i \in clerk[c].todo \ clerk'[c].todo
                           /\ clerk[c].at = "resend" \/ ~clerk[c].alone
    OBVIOUS
  <2>1. mailed' # mailed /\ mailed[i] \in Nat
    BY DEF DeliveryInv, Delivery!TypeOK
  <2>2. PICK c \in Clerks, j \in Invoices : Delivery!DeliverOne(c, j) \/ Delivery!ResendOne(c, j)
    BY <2>1 DEF Delivery!Next, Delivery!DeliverLoad, Delivery!PrintLoad, Delivery!ResendLoad,
         Delivery!Start, Delivery!MailingCommit, Delivery!PrintCommit, Delivery!Fail
  <2>3. PICK accepted, sent, stored \in BOOLEAN :
          /\ Delivery!Mailing(c) /\ SendOutcome(c, j, accepted, sent, stored)
          /\ Delivery!DeliverOne(c, j) /\ accepted => j \in clerk[c].todo \cap clerk[c].unmailed
    BY <2>2, SendOutcomes
  <2>4. i = j /\ accepted
    BY <2>1, <2>3 DEF SendOutcome, DeliveryInv, Delivery!TypeOK
  <2>5. /\ i \in clerk[c].todo
        /\ clerk[c].at = "deliver" => i \in clerk[c].unmailed
        /\ clerk[c].at \in {"deliver", "resend"}
    BY <2>2, <2>3, <2>4 DEF Delivery!DeliverOne, Delivery!ResendOne
  <2>6. clerk'[c].todo = clerk[c].todo \ {i}
    BY <2>3, <2>4 DEF SendOutcome, Delivery!Mark, DeliveryInv, Delivery!TypeOK, Delivery!Request
  <2>7. clerk[c].at = "deliver" /\ clerk[c].alone => i \in lost
    BY <2>5 DEF DeliveryInv, OnceInv
  <2> QED
    BY <2>3, <2>5, <2>6, <2>7
<1> QED
  BY <1>1, DeliveryInvariant, PTL DEF Delivery!Spec, MailedOnce, Delivery!MailedOnce
-----------------------------------------------------------------------------
(***************************************************************************)
(* Work sessions and public sign-up                                        *)
(***************************************************************************)
SignupRequest == {SignUp!Idle} \cup SignUp!Signup \cup SignUp!TaskChange

\* The foreign key of work_tasks: an assignee is a participation there is.
AssigneesExist ==
    \A t \in Tasks : task[t].who # None => part[task[t].who[1]][task[t].who[2]] # "none"

\* A sign-up adds nobody where it does not answer "accepted"; where it does, and
\* nobody has touched the session since, it adds those who are missing, and they fit.
SignupHolds(d) ==
    signup[d].at = "signup" =>
        /\ \A s \in Sessions : s \notin signup[d].accepted => signup[d].adds[s] = {}
        /\ ~signup[d].stale =>
             \A s \in signup[d].accepted :
                /\ limit[s] # Absent
                /\ signup[d].adds[s] = signup[d].people \ SignUp!Registered(s)
                /\ \/ limit[s] = None
                   \/ SignUp!AvailableSpots(s) >= Cardinality(signup[d].adds[s])

\* A change of a task assigns somebody of the session it moves the task to, or
\* leaves both alone; and that participation exists unless it was removed.
TaskChangeHolds(d) ==
    signup[d].at = "task" /\ signup[d].who # None =>
        /\ \/ signup[d].who \in {signup[d].session} \X Members
           \/ /\ signup[d].session = signup[d].seen.session
              /\ signup[d].who = signup[d].seen.who
        /\ ~signup[d].lost => part[signup[d].who[1]][signup[d].who[2]] # "none"

SessionsInv ==
    /\ SignUp!TypeOK
    /\ AssigneesExist
    /\ TaskOnOwnSession
    /\ \A d \in Desks : SignupHolds(d) /\ TaskChangeHolds(d)

LEMMA SignupFlag ==
    \A q \in SignUp!Signup, b \in BOOLEAN :
        /\ [q EXCEPT !.stale = b] \in SignUp!Signup
        /\ [q EXCEPT !.stale = b].at = q.at
        /\ [q EXCEPT !.stale = b].people = q.people
        /\ [q EXCEPT !.stale = b].accepted = q.accepted
        /\ [q EXCEPT !.stale = b].adds = q.adds
        /\ [q EXCEPT !.stale = b].stale = b
  BY DEF SignUp!Signup

LEMMA ChangeFlag ==
    \A q \in SignUp!TaskChange, b \in BOOLEAN :
        /\ [q EXCEPT !.lost = b] \in SignUp!TaskChange
        /\ [q EXCEPT !.lost = b].at = q.at
        /\ [q EXCEPT !.lost = b].task = q.task
        /\ [q EXCEPT !.lost = b].seen = q.seen
        /\ [q EXCEPT !.lost = b].session = q.session
        /\ [q EXCEPT !.lost = b].who = q.who
        /\ [q EXCEPT !.lost = b].lost = b
  BY DEF SignUp!TaskChange

\* The kind of a request tells which fields it has.
LEMMA SignupKinds ==
    \A q \in SignupRequest :
        /\ q.at = "signup" => q \in SignUp!Signup
        /\ q.at = "task" => q \in SignUp!TaskChange
        /\ q.at \notin {"signup", "task"} => q = SignUp!Idle
        /\ SignUp!Idle.at = "idle"
  BY DEF SignupRequest, SignUp!Idle, SignUp!Signup, SignUp!TaskChange

\* SignupRequest d is as it was but for its flag, which tells of `mine`: a session
\* touched, or participations removed.
Noticed(d, touched, removed) ==
    /\ signup'[d] \in SignupRequest
    /\ signup'[d].at = signup[d].at
    /\ signup[d].at = "signup" =>
         /\ signup'[d].people = signup[d].people
         /\ signup'[d].accepted = signup[d].accepted
         /\ signup'[d].adds = signup[d].adds
         /\ ~signup'[d].stale => ~signup[d].stale /\ touched \cap signup[d].accepted = {}
    /\ signup[d].at = "task" =>
         /\ signup'[d].task = signup[d].task
         /\ signup'[d].seen = signup[d].seen
         /\ signup'[d].session = signup[d].session
         /\ signup'[d].who = signup[d].who
         /\ ~signup'[d].lost => ~signup[d].lost /\ signup[d].who \notin removed

LEMMA TouchNotices ==
    ASSUME SignUp!TypeOK, NEW s \in Sessions, NEW removed, SignUp!Touch(s, removed)
    PROVE  /\ signup' \in [Desks -> SignupRequest]
           /\ \A d \in Desks : Noticed(d, {s}, removed)
PROOF
<1>0. signup \in [Desks -> SignupRequest]
  BY DEF SignUp!TypeOK, SignupRequest
<1>1. ASSUME NEW d \in Desks PROVE Noticed(d, {s}, removed)
  <2>0. signup[d] \in SignupRequest
    BY <1>0
  <2>1. CASE signup[d].at = "signup"
    <3>0. signup[d] \in SignUp!Signup
      BY <2>0, <2>1, SignupKinds
    <3> DEFINE b == signup[d].stale \/ s \in signup[d].accepted
    <3>1. b \in BOOLEAN
      BY <3>0 DEF SignUp!Signup
    <3>2. signup'[d] = [signup[d] EXCEPT !.stale = b]
      BY <2>1 DEF SignUp!Touch
    <3>3. /\ signup'[d] \in SignUp!Signup
          /\ signup'[d].at = signup[d].at
          /\ signup'[d].people = signup[d].people
          /\ signup'[d].accepted = signup[d].accepted
          /\ signup'[d].adds = signup[d].adds
          /\ signup'[d].stale = b
      BY <3>0, <3>1, <3>2, SignupFlag
    <3> QED
      BY <2>1, <3>3 DEF Noticed, SignupRequest
  <2>2. CASE signup[d].at = "task"
    <3>0. signup[d] \in SignUp!TaskChange
      BY <2>0, <2>2, SignupKinds
    <3> DEFINE b == signup[d].lost \/ signup[d].who \in removed
    <3>1. b \in BOOLEAN
      BY <3>0 DEF SignUp!TaskChange
    <3>2. signup'[d] = [signup[d] EXCEPT !.lost = b]
      BY <2>2 DEF SignUp!Touch
    <3> HIDE DEF b
    <3>3. /\ signup'[d] \in SignUp!TaskChange
          /\ signup'[d].at = signup[d].at
          /\ signup'[d].task = signup[d].task
          /\ signup'[d].seen = signup[d].seen
          /\ signup'[d].session = signup[d].session
          /\ signup'[d].who = signup[d].who
          /\ signup'[d].lost = b
      BY <3>0, <3>1, <3>2, ChangeFlag
    <3> USE DEF b
    <3> QED
      BY <2>2, <3>3 DEF Noticed, SignupRequest
  <2>3. CASE signup[d].at \notin {"signup", "task"}
    <3>1. signup'[d] = signup[d]
      BY <2>3 DEF SignUp!Touch
    <3> QED
      BY <2>0, <2>3, <3>1 DEF Noticed
  <2> QED
    BY <2>1, <2>2, <2>3
<1>2. signup' = [d \in Desks |-> signup'[d]]
  BY DEF SignUp!Touch
<1>3. \A d \in Desks : signup'[d] \in SignupRequest
  BY <1>1 DEF Noticed
<1>4. [d \in Desks |-> signup'[d]] \in [Desks -> SignupRequest]
  BY <1>3
<1> QED
  BY <1>1, <1>2, <1>4

LEMMA UnchangedNotices ==
    ASSUME SignUp!TypeOK, NEW d \in Desks, NEW removed, signup'[d] = signup[d],
           removed = {}
    PROVE  Noticed(d, {}, removed)
PROOF
<1>1. signup[d] \in SignupRequest
  BY DEF SignUp!TypeOK, SignupRequest
<1> QED
  BY <1>1 DEF Noticed

\* A sign-up in flight still holds what it held if the sessions it accepted
\* have not been touched since it noticed the last time.
LEMMA SignupKept ==
    ASSUME SessionsInv, NEW d \in Desks, NEW touched, NEW removed,
           Noticed(d, touched, removed),
           \A s \in Sessions \ touched : limit'[s] = limit[s] /\ part'[s] = part[s]
    PROVE  SignupHolds(d)'
PROOF
<1> SUFFICES ASSUME signup'[d].at = "signup"
             PROVE  SignupHolds(d)'
  BY DEF SignupHolds
<1>0. signup[d].at = "signup" /\ SignupHolds(d)
  BY DEF Noticed, SessionsInv
<1>1. signup[d] \in SignUp!Signup
  BY <1>0, SignupKinds DEF SessionsInv, SignUp!TypeOK, SignupRequest
<1>2. \A s \in Sessions : s \notin signup'[d].accepted => signup'[d].adds[s] = {}
  BY <1>0 DEF Noticed, SignupHolds
<1>3. ASSUME ~signup'[d].stale, NEW s \in signup'[d].accepted
      PROVE  /\ limit'[s] # Absent
             /\ signup'[d].adds[s] = signup'[d].people \ SignUp!Registered(s)'
             /\ \/ limit'[s] = None
                \/ SignUp!AvailableSpots(s)' >= Cardinality(signup'[d].adds[s])
  <2>1. s \in Sessions \ touched /\ s \in signup[d].accepted /\ ~signup[d].stale
    BY <1>0, <1>1, <1>3 DEF Noticed, SignUp!Signup
  <2>2. limit'[s] = limit[s] /\ part'[s] = part[s]
    BY <2>1
  <2>3. /\ limit[s] # Absent
        /\ signup[d].adds[s] = signup[d].people \ SignUp!Registered(s)
        /\ limit[s] = None \/ SignUp!AvailableSpots(s) >= Cardinality(signup[d].adds[s])
    BY <1>0, <2>1 DEF SignupHolds
  <2>4. SignUp!Registered(s)' = SignUp!Registered(s)
    BY <2>2 DEF SignUp!Registered
  <2>5. SignUp!Occupied(s)' = SignUp!Occupied(s)
    BY <2>2 DEF SignUp!Occupied
  <2> QED
    BY <1>0, <2>2, <2>3, <2>4, <2>5 DEF Noticed, SignUp!AvailableSpots
<1> QED
  BY <1>2, <1>3 DEF SignupHolds

\* A change of a task in flight still holds what it held if the participations
\* it has not noticed the end of are still there.
LEMMA TaskChangeKept ==
    ASSUME PeopleAssumption, SessionsInv, NEW d \in Desks, NEW touched, NEW removed,
           Noticed(d, touched, removed),
           \A s \in Sessions, m \in Members :
               part[s][m] # "none" /\ <<s, m>> \notin removed => part'[s][m] # "none"
    PROVE  TaskChangeHolds(d)'
PROOF
<1> SUFFICES ASSUME signup'[d].at = "task", signup'[d].who # None
             PROVE  TaskChangeHolds(d)'
  BY DEF TaskChangeHolds
<1>0. signup[d].at = "task" /\ TaskChangeHolds(d)
  BY DEF Noticed, SessionsInv
<1>1. signup[d] \in SignUp!TaskChange
  BY <1>0, SignupKinds DEF SessionsInv, SignUp!TypeOK, SignupRequest
<1>2. /\ signup'[d].session = signup[d].session
      /\ signup'[d].seen = signup[d].seen
      /\ signup'[d].who = signup[d].who
      /\ ~signup'[d].lost => ~signup[d].lost /\ signup[d].who \notin removed
  BY <1>0 DEF Noticed
<1>3. PICK s \in Sessions, m \in Members : signup[d].who = <<s, m>>
  BY <1>1, <1>2 DEF SignUp!TaskChange, SignUp!Participation
<1>4. ~signup'[d].lost => part'[s][m] # "none"
  BY <1>0, <1>2, <1>3 DEF TaskChangeHolds
<1>5. ~signup'[d].lost => part'[signup'[d].who[1]][signup'[d].who[2]] # "none"
  BY <1>2, <1>3, <1>4
<1>6. \/ signup'[d].who \in {signup'[d].session} \X Members
      \/ /\ signup'[d].session = signup'[d].seen.session
         /\ signup'[d].who = signup'[d].seen.who
  BY <1>0, <1>2 DEF TaskChangeHolds
<1> QED
  BY <1>5, <1>6 DEF TaskChangeHolds

LEMMA IdleHolds ==
    ASSUME NEW d \in Desks, signup'[d] = SignUp!Idle
    PROVE  SignupHolds(d)' /\ TaskChangeHolds(d)'
  BY SignupKinds DEF SignupHolds, TaskChangeHolds, SignUp!Idle

\* The assignees stay where their sessions are, and participate, when tasks
\* lose them with their participation or their session only.
LEMMA TasksKept ==
    ASSUME PeopleAssumption, SessionsInv, NEW removed, torn' = torn,
           \A t \in Tasks : \/ task'[t].who = None
                          \/ /\ task'[t].who = task[t].who
                             /\ t \notin torn => task'[t].session = task[t].session
                             /\ task[t].who \notin removed,
           \A s \in Sessions, m \in Members :
               part[s][m] # "none" /\ <<s, m>> \notin removed => part'[s][m] # "none"
    PROVE  AssigneesExist' /\ TaskOnOwnSession'
PROOF
<1>1. ASSUME NEW t \in Tasks, task'[t].who # None
      PROVE  /\ task'[t].who = task[t].who
             /\ t \notin torn => task'[t].session = task[t].session
             /\ part'[task'[t].who[1]][task'[t].who[2]] # "none"
  <2>1. /\ task'[t].who = task[t].who
        /\ t \notin torn => task'[t].session = task[t].session
        /\ task[t].who \notin removed
    BY <1>1
  <2>2. PICK s \in Sessions, m \in Members : task[t].who = <<s, m>>
    BY <1>1, <2>1 DEF SessionsInv, SignUp!TypeOK, SignUp!Task, SignUp!Participation
  <2>3. part[s][m] # "none"
    BY <1>1, <2>1, <2>2 DEF SessionsInv, AssigneesExist
  <2> QED
    BY <2>1, <2>2, <2>3
<1>2. AssigneesExist'
  BY <1>1 DEF AssigneesExist
<1>3. TaskOnOwnSession'
  BY <1>1 DEF TaskOnOwnSession, SignUp!TaskOnOwnSession, SessionsInv
<1> QED
  BY <1>2, <1>3
-----------------------------------------------------------------------------
LEMMA SessionsInit ==
    ASSUME SignUp!Init
    PROVE  SessionsInv
PROOF
<1>1. SignUp!NoTask \in SignUp!Task
  BY DEF SignUp!NoTask, SignUp!Task
<1>2. SignUp!TypeOK
  BY <1>1 DEF SignUp!Init, SignUp!TypeOK, SignUp!Status
<1>3. AssigneesExist /\ TaskOnOwnSession
  BY DEF SignUp!Init, AssigneesExist, TaskOnOwnSession, SignUp!TaskOnOwnSession, SignUp!NoTask
<1>4. \A d \in Desks : SignupHolds(d) /\ TaskChangeHolds(d)
  BY DEF SignUp!Init, SignupHolds, TaskChangeHolds, SignUp!Idle
<1> QED
  BY <1>2, <1>3, <1>4 DEF SessionsInv

\* A step of the board that touches one session and removes participations of it.
Touches(s, removed) ==
    /\ signup' \in [Desks -> SignupRequest]
    /\ \A d \in Desks : Noticed(d, {s}, removed)
    /\ \A x \in Sessions \ {s} : limit'[x] = limit[x] /\ part'[x] = part[x]
    /\ \A m \in Members :
          part[s][m] # "none" /\ <<s, m>> \notin removed => part'[s][m] # "none"
    /\ \A t \in Tasks : \/ task'[t].who = None
                       \/ /\ task'[t].who = task[t].who
                          /\ t \notin torn => task'[t].session = task[t].session
                          /\ task[t].who \notin removed
    /\ torn' = torn

\* The types of the rows, which a step of the board keeps.
RowsTyped ==
    /\ limit \in [Sessions -> Limits \cup {None, Absent}]
    /\ part \in [Sessions -> [Members -> SignUp!Status \cup {"none"}]]
    /\ task \in [Tasks -> SignUp!Task]
    /\ \A s \in Sessions : limit[s] = Absent => part[s] = [m \in Members |-> "none"]

LEMMA TouchingKeeps ==
    ASSUME PeopleAssumption, SessionsInv, NEW s \in Sessions, NEW removed,
           Touches(s, removed), RowsTyped'
    PROVE  SessionsInv'
PROOF
<1>1. \A x \in Sessions, m \in Members :
         part[x][m] # "none" /\ <<x, m>> \notin removed => part'[x][m] # "none"
  BY DEF Touches
<1>2. SignUp!TypeOK'
  BY DEF SessionsInv, Touches, RowsTyped, SignUp!TypeOK, SignupRequest
<1>3. \A d \in Desks : SignupHolds(d)' /\ TaskChangeHolds(d)'
  BY <1>1, SignupKept, TaskChangeKept DEF Touches
<1>4. AssigneesExist' /\ TaskOnOwnSession'
  BY <1>1, TasksKept DEF Touches
<1> QED
  BY <1>2, <1>3, <1>4 DEF SessionsInv

LEMMA SessionRows ==
    ASSUME PeopleAssumption, SessionsInv
    PROVE  RowsTyped
  BY DEF SessionsInv, SignUp!TypeOK, RowsTyped

LEMMA SessionCreateKeeps ==
    ASSUME PeopleAssumption, SessionsInv, NEW s \in Sessions, NEW max \in Limits \cup {None},
           SignUp!SessionCreate(s, max)
    PROVE  SessionsInv'
PROOF
<1>1. limit'[s] # Absent /\ limit[s] = Absent
  BY DEF SignUp!SessionCreate, PeopleAssumption, SessionsInv, SignUp!TypeOK
<1>2. RowsTyped'
  BY <1>1, SessionRows DEF SignUp!SessionCreate, RowsTyped
<1>3. ASSUME NEW d \in Desks PROVE Noticed(d, {s}, {})
  <2>1. signup'[d] = signup[d] /\ signup[d] \in SignupRequest
    BY DEF SignUp!SessionCreate, SessionsInv, SignUp!TypeOK, SignupRequest
  <2>2. signup[d].at = "signup" /\ ~signup[d].stale => s \notin signup[d].accepted
    BY <1>1 DEF SessionsInv, SignupHolds
  <2> QED
    BY <2>1, <2>2 DEF Noticed
<1>4. Touches(s, {})
  BY <1>3 DEF SignUp!SessionCreate, Touches, SessionsInv, SignUp!TypeOK, SignupRequest
<1> QED
  BY <1>2, <1>4, TouchingKeeps

LEMMA SessionUpdateKeeps ==
    ASSUME PeopleAssumption, SessionsInv, NEW s \in Sessions, NEW max \in Limits \cup {None},
           SignUp!SessionUpdate(s, max)
    PROVE  SessionsInv'
PROOF
<1>1. RowsTyped'
  BY SessionRows DEF SignUp!SessionUpdate, RowsTyped, PeopleAssumption
<1>2. signup' \in [Desks -> SignupRequest] /\ \A d \in Desks : Noticed(d, {s}, {})
  BY TouchNotices DEF SignUp!SessionUpdate, SessionsInv
<1>3. Touches(s, {})
  BY <1>2 DEF SignUp!SessionUpdate, Touches, SessionsInv, SignUp!TypeOK
<1> QED
  BY <1>1, <1>3, TouchingKeeps

LEMMA ParticipationSetKeeps ==
    ASSUME PeopleAssumption, SessionsInv, NEW s \in Sessions, NEW m \in Members,
           NEW status \in Marks,
           SignUp!ParticipantAdd(s, m, status) \/ SignUp!ParticipationStatusChange(s, m, status)
    PROVE  SessionsInv'
PROOF
<1>0. /\ SignUp!Touch(s, {})
      /\ part' = [part EXCEPT ![s][m] = status]
      /\ limit' = limit /\ task' = task /\ torn' = torn
  BY DEF SignUp!ParticipantAdd, SignUp!ParticipationStatusChange
<1>1. limit[s] # Absent
  BY SessionRows DEF SignUp!ParticipantAdd, SignUp!ParticipationStatusChange, RowsTyped
<1>2. status \in SignUp!Status /\ status # "none"
  BY DEF PeopleAssumption, SignUp!Status
<1>3. RowsTyped'
  BY <1>0, <1>1, <1>2, SessionRows DEF RowsTyped
<1>4. signup' \in [Desks -> SignupRequest] /\ \A d \in Desks : Noticed(d, {s}, {})
  BY <1>0, TouchNotices DEF SessionsInv
<1>5. Touches(s, {})
  BY <1>0, <1>2, <1>4, SessionRows DEF Touches, RowsTyped
<1> QED
  BY <1>3, <1>5, TouchingKeeps

LEMMA ParticipationRemoveKeeps ==
    ASSUME PeopleAssumption, SessionsInv, NEW s \in Sessions, NEW m \in Members,
           SignUp!ParticipationRemove(s, m)
    PROVE  SessionsInv'
PROOF
<1>1. RowsTyped /\ limit[s] # Absent
  BY SessionRows DEF SignUp!ParticipationRemove, RowsTyped
<1>2. ASSUME NEW t \in Tasks
      PROVE  /\ task'[t] \in SignUp!Task
             /\ task'[t].session = task[t].session
             /\ task'[t].who = IF task[t].who = <<s, m>> THEN None ELSE task[t].who
  BY <1>1 DEF SignUp!ParticipationRemove, RowsTyped, SignUp!Task
<1>3. task' \in [Tasks -> SignUp!Task]
  BY <1>2 DEF SignUp!ParticipationRemove
<1>4. RowsTyped'
  BY <1>1, <1>3 DEF SignUp!ParticipationRemove, RowsTyped
<1>5. signup' \in [Desks -> SignupRequest] /\ \A d \in Desks : Noticed(d, {s}, {<<s, m>>})
  BY TouchNotices DEF SignUp!ParticipationRemove, SessionsInv
<1>6. Touches(s, {<<s, m>>})
  <2>1. \A x \in Sessions \ {s} : limit'[x] = limit[x] /\ part'[x] = part[x]
    BY <1>1 DEF SignUp!ParticipationRemove, RowsTyped
  <2>2. \A n \in Members : part[s][n] # "none" /\ <<s, n>> # <<s, m>> => part'[s][n] # "none"
    BY <1>1 DEF SignUp!ParticipationRemove, RowsTyped
  <2>3. \A t \in Tasks : \/ task'[t].who = None
                       \/ /\ task'[t].who = task[t].who
                          /\ t \notin torn => task'[t].session = task[t].session
                          /\ task[t].who \notin {<<s, m>>}
    BY <1>2
  <2>4. torn' = torn
    BY DEF SignUp!ParticipationRemove
  <2> QED
    BY <1>5, <2>1, <2>2, <2>3, <2>4 DEF Touches
<1> QED
  BY <1>4, <1>6, TouchingKeeps

LEMMA SessionDeleteKeeps ==
    ASSUME PeopleAssumption, SessionsInv, NEW s \in Sessions, SignUp!SessionDelete(s)
    PROVE  SessionsInv'
PROOF
<1>1. RowsTyped
  BY SessionRows
<1>2. ASSUME NEW t \in Tasks
      PROVE  /\ task'[t] \in SignUp!Task
             /\ task'[t].session = IF task[t].session = s THEN None ELSE task[t].session
             /\ task'[t].who = IF task[t].who \in {s} \X Members THEN None ELSE task[t].who
  <2> DEFINE a == IF task[t].session = s THEN None ELSE task[t].session
             b == IF task[t].who \in {s} \X Members THEN None ELSE task[t].who
  <2>1. task[t] \in SignUp!Task
    BY <1>1 DEF RowsTyped
  <2>2. task'[t] = [task[t] EXCEPT !.session = a, !.who = b]
    BY DEF SignUp!SessionDelete
  <2>3. a \in Sessions \cup {None} /\ b \in SignUp!Participation \cup {None}
    BY <2>1 DEF SignUp!Task
  <2> HIDE DEF a, b
  <2> DEFINE r == [task[t] EXCEPT !.session = a, !.who = b]
  <2>4. r \in SignUp!Task /\ r.session = a /\ r.who = b
    BY ONLY <2>1, <2>3 DEF SignUp!Task
  <2>5. task'[t] = r
    BY <2>2
  <2> HIDE DEF r
  <2> QED
    BY <2>4, <2>5 DEF a, b
<1>3. task' \in [Tasks -> SignUp!Task]
  BY <1>2 DEF SignUp!SessionDelete
<1>4. RowsTyped'
  BY <1>1, <1>3 DEF SignUp!SessionDelete, RowsTyped
<1>5. signup' \in [Desks -> SignupRequest] /\ \A d \in Desks : Noticed(d, {s}, {s} \X Members)
  BY TouchNotices DEF SignUp!SessionDelete, SessionsInv
<1>6. Touches(s, {s} \X Members)
  <2>1. \A x \in Sessions \ {s} : limit'[x] = limit[x] /\ part'[x] = part[x]
    BY <1>1 DEF SignUp!SessionDelete, RowsTyped
  <2>2. ASSUME NEW t \in Tasks
        PROVE  \/ task'[t].who = None
               \/ /\ task'[t].who = task[t].who
                  /\ t \notin torn => task'[t].session = task[t].session
                  /\ task[t].who \notin {s} \X Members
    BY <1>2 DEF SessionsInv, TaskOnOwnSession, SignUp!TaskOnOwnSession
  <2>3. torn' = torn /\ \A n \in Members : <<s, n>> \in {s} \X Members
    BY DEF SignUp!SessionDelete
  <2> QED
    BY <1>5, <2>1, <2>2, <2>3 DEF Touches
<1> QED
  BY <1>4, <1>6, TouchingKeeps

\* A new row has nobody assigned; a removed one neither.
LEMMA TaskRowKeeps ==
    ASSUME PeopleAssumption, SessionsInv, NEW t \in Tasks, NEW row \in SignUp!Task,
           row.who = None, task' = [task EXCEPT ![t] = row],
           torn' \subseteq torn, torn \ {t} \subseteq torn',
           limit' = limit, part' = part, signup' = signup
    PROVE  SessionsInv'
PROOF
<1>1. SignUp!TypeOK'
  BY DEF SessionsInv, SignUp!TypeOK
<1>2. \A u \in Tasks : task'[u] = IF u = t THEN row ELSE task[u]
  BY DEF SessionsInv, SignUp!TypeOK
<1>3. AssigneesExist'
  BY <1>2 DEF SessionsInv, AssigneesExist
<1>4. TaskOnOwnSession'
  BY <1>2 DEF SessionsInv, TaskOnOwnSession, SignUp!TaskOnOwnSession
<1>5. \A d \in Desks : Noticed(d, {}, {})
  BY UnchangedNotices DEF SessionsInv
<1>6. \A d \in Desks : SignupHolds(d)' /\ TaskChangeHolds(d)'
  BY <1>5, SignupKept, TaskChangeKept
<1> QED
  BY <1>1, <1>3, <1>4, <1>6 DEF SessionsInv

LEMMA TaskCreateKeeps ==
    ASSUME PeopleAssumption, SessionsInv, NEW t \in Tasks, NEW s \in Sessions \cup {None},
           SignUp!TaskCreate(t, s)
    PROVE  SessionsInv'
PROOF
<1> DEFINE row == [SignUp!NoTask EXCEPT !.here = TRUE, !.session = s]
<1>1. row \in SignUp!Task /\ row.who = None
  BY DEF SignUp!NoTask, SignUp!Task
<1>2. task' = [task EXCEPT ![t] = row] /\ torn' = torn \ {t}
  BY DEF SignUp!TaskCreate
<1>3. limit' = limit /\ part' = part /\ signup' = signup
  BY DEF SignUp!TaskCreate
<1> HIDE DEF row
<1> QED
  BY <1>1, <1>2, <1>3, TaskRowKeeps

LEMMA TaskDeleteKeeps ==
    ASSUME PeopleAssumption, SessionsInv, NEW t \in Tasks, SignUp!TaskDelete(t)
    PROVE  SessionsInv'
PROOF
<1>1. SignUp!NoTask \in SignUp!Task /\ SignUp!NoTask.who = None
  BY DEF SignUp!NoTask, SignUp!Task
<1> QED
  BY <1>1, TaskRowKeeps DEF SignUp!TaskDelete

\* A request that starts, or ends without a trace.
LEMMA DeskKeeps ==
    ASSUME PeopleAssumption, SessionsInv, NEW d \in Desks, NEW q \in SignupRequest,
           signup' = [signup EXCEPT ![d] = q],
           limit' = limit, part' = part, task' = task, torn' = torn,
           SignupHolds(d)', TaskChangeHolds(d)'
    PROVE  SessionsInv'
PROOF
<1>1. SignUp!TypeOK'
  BY DEF SessionsInv, SignUp!TypeOK, SignupRequest
<1>2. AssigneesExist' /\ TaskOnOwnSession'
  BY DEF SessionsInv, AssigneesExist, TaskOnOwnSession, SignUp!TaskOnOwnSession
<1>3. ASSUME NEW e \in Desks PROVE SignupHolds(e)' /\ TaskChangeHolds(e)'
  <2>1. CASE e = d
    BY <2>1
  <2>2. CASE e # d
    <3>1. signup'[e] = signup[e]
      BY <2>2 DEF SessionsInv, SignUp!TypeOK
    <3>2. Noticed(e, {}, {})
      BY <3>1, UnchangedNotices DEF SessionsInv
    <3> QED
      BY <3>2, SignupKept, TaskChangeKept
  <2> QED
    BY <2>1, <2>2
<1> QED
  BY <1>1, <1>2, <1>3 DEF SessionsInv

LEMMA RollbackKeeps ==
    ASSUME PeopleAssumption, SessionsInv, NEW d \in Desks, SignUp!Rollback(d)
    PROVE  SessionsInv'
PROOF
<1>1. signup' = [signup EXCEPT ![d] = SignUp!Idle] /\ SignUp!Idle \in SignupRequest
  BY DEF SignUp!Rollback, SignupRequest
<1>2. signup'[d] = SignUp!Idle
  BY <1>1 DEF SessionsInv, SignUp!TypeOK
<1>3. SignupHolds(d)' /\ TaskChangeHolds(d)'
  BY <1>2, IdleHolds
<1> QED
  BY <1>1, <1>3, DeskKeeps DEF SignUp!Rollback

\* A change of a task assigns nobody, somebody of the session it asks for, or
\* leaves session and assignee as it read them; whoever it assigns is there.
LEMMA StartTaskChangeKeeps ==
    ASSUME PeopleAssumption, SessionsInv, NEW d \in Desks, NEW t \in Tasks,
           NEW s \in Sessions \cup {None}, NEW who \in SignUp!Participation \cup {None},
           SignUp!StartTaskChange(d, t, s, who),
           who # None => /\ \/ who \in {s} \X Members
                            \/ s = task[t].session /\ who = task[t].who
                         /\ part[who[1]][who[2]] # "none"
    PROVE  SessionsInv'
PROOF
<1> DEFINE q == [at |-> "task", task |-> t, seen |-> task[t], session |-> s,
                 who |-> who, lost |-> FALSE]
<1>1. q \in SignUp!TaskChange
  BY DEF SessionsInv, SignUp!TypeOK, SignUp!TaskChange
<1>2. signup' = [signup EXCEPT ![d] = q] /\ q \in SignupRequest
  BY <1>1 DEF SignUp!StartTaskChange, SignUp!Start, SignupRequest
<1>3. signup'[d] = q
  BY <1>2 DEF SessionsInv, SignUp!TypeOK
<1>4. limit' = limit /\ part' = part /\ task' = task /\ torn' = torn
  BY DEF SignUp!StartTaskChange
<1>5. SignupHolds(d)'
  BY <1>3 DEF SignupHolds
<1>6. TaskChangeHolds(d)'
  BY <1>3, <1>4 DEF TaskChangeHolds
<1> HIDE DEF q
<1> QED
  BY <1>2, <1>4, <1>5, <1>6, DeskKeeps

LEMMA TaskAssignToSessionKeeps ==
    ASSUME PeopleAssumption, SessionsInv, NEW d \in Desks, NEW t \in Tasks,
           NEW s \in Sessions \cup {None}, SignUp!TaskAssignToSession(d, t, s)
    PROVE  SessionsInv'
PROOF
<1> DEFINE who == IF s # task[t].session THEN None ELSE task[t].who
<1>1. who \in SignUp!Participation \cup {None}
  BY DEF SessionsInv, SignUp!TypeOK, SignUp!Task
<1>2. who # None => /\ s = task[t].session /\ who = task[t].who
                    /\ part[who[1]][who[2]] # "none"
  BY DEF SessionsInv, AssigneesExist
<1>3. SignUp!StartTaskChange(d, t, s, who)
  BY DEF SignUp!TaskAssignToSession
<1> HIDE DEF who
<1> QED
  BY <1>1, <1>2, <1>3, StartTaskChangeKeeps

LEMMA AssignKeeps ==
    ASSUME PeopleAssumption, SessionsInv, NEW d \in Desks, NEW t \in Tasks,
           NEW s \in Sessions, NEW m \in Members, part[s][m] # "none",
           SignUp!StartTaskChange(d, t, s, <<s, m>>)
    PROVE  SessionsInv'
PROOF
<1> DEFINE who == <<s, m>>
<1>1. /\ who \in SignUp!Participation \cup {None}
      /\ who \in {s} \X Members
      /\ part[who[1]][who[2]] # "none"
  BY DEF SignUp!Participation
<1>2. SignUp!StartTaskChange(d, t, s, who)
  OBVIOUS
<1> HIDE DEF who
<1> QED
  BY <1>1, <1>2, StartTaskChangeKeeps

LEMMA TaskParticipantAssignKeeps ==
    ASSUME PeopleAssumption, SessionsInv, NEW d \in Desks, NEW t \in Tasks,
           NEW m \in Members \cup {None}, SignUp!TaskParticipantAssign(d, t, m)
    PROVE  SessionsInv'
PROOF
<1>1. task[t].session \in Sessions
  BY DEF SignUp!TaskParticipantAssign, SessionsInv, SignUp!TypeOK, SignUp!Task
<1>2. PICK s \in Sessions : s = task[t].session
  BY <1>1
<1>3. CASE m = None
  <2>1. SignUp!StartTaskChange(d, t, s, None)
    BY <1>2, <1>3 DEF SignUp!TaskParticipantAssign
  <2> QED
    BY <2>1, StartTaskChangeKeeps
<1>4. CASE m # None
  <2>1. SignUp!StartTaskChange(d, t, s, <<s, m>>) /\ part[s][m] # "none"
    BY <1>2, <1>4 DEF SignUp!TaskParticipantAssign
  <2> QED
    BY <1>4, <2>1, AssignKeeps
<1> QED
  BY <1>3, <1>4

LEMMA UpdateTaskKeeps ==
    ASSUME PeopleAssumption, SessionsInv, NEW d \in Desks, NEW t \in Tasks,
           NEW s \in Sessions, NEW m \in Members, SignUp!UpdateTask(d, t, s, m)
    PROVE  SessionsInv'
  BY AssignKeeps DEF SignUp!UpdateTask

\* The commit of a change: its columns that differ from the row it read.
LEMMA TaskCommitKeeps ==
    ASSUME PeopleAssumption, SessionsInv, NEW d \in Desks, SignUp!TaskCommit(d)
    PROVE  SessionsInv'
PROOF
<1>0. PICK q \in SignUp!TaskChange : q = signup[d]
  BY SignupKinds DEF SignUp!TaskCommit, SessionsInv, SignUp!TypeOK, SignupRequest
<1>1. PICK t \in Tasks : t = q.task
  BY DEF SignUp!TaskChange
<1>2. CASE SignUp!Rollback(d)
  BY <1>2, RollbackKeeps
<1>3. CASE ~SignUp!Rollback(d)
  <2> DEFINE a == IF q.session # q.seen.session THEN q.session ELSE task[t].session
             b == IF q.who # q.seen.who THEN q.who ELSE task[t].who
  <2>1. /\ q.who # q.seen.who /\ q.who # None => ~q.lost
        /\ task' = [task EXCEPT ![t].session = a, ![t].who = b]
        /\ torn' = IF task[t].session = q.seen.session /\ task[t].who = q.seen.who
                   THEN torn ELSE torn \cup {t}
        /\ signup' = [signup EXCEPT ![d] = SignUp!Idle]
        /\ limit' = limit /\ part' = part
    BY <1>0, <1>1, <1>3 DEF SignUp!TaskCommit
  <2>2. task[t] \in SignUp!Task /\ task \in [Tasks -> SignUp!Task]
    BY DEF SessionsInv, SignUp!TypeOK
  <2>3. a \in Sessions \cup {None} /\ b \in SignUp!Participation \cup {None}
    BY <2>2 DEF SignUp!Task, SignUp!TaskChange
  <2>4. TaskChangeHolds(d) /\ signup[d].at = "task"
    BY DEF SessionsInv, SignUp!TaskCommit
  <2>5. b # None => part[b[1]][b[2]] # "none"
    BY <1>0, <2>1, <2>4 DEF SessionsInv, AssigneesExist, TaskChangeHolds
  <2>6. b # None /\ t \notin torn' => b \in {a} \X Members
    <3> SUFFICES ASSUME b # None, t \notin torn'
                 PROVE  b \in {a} \X Members
      OBVIOUS
    <3>1. t \notin torn /\ task[t].session = q.seen.session /\ task[t].who = q.seen.who
      BY <2>1
    <3>2. a = q.session /\ b = q.who
      BY <3>1
    <3>3. CASE q.who \in {q.session} \X Members
      BY <3>2, <3>3
    <3>4. CASE q.session = q.seen.session /\ q.who = q.seen.who
      <4>1. task[t].who # None
        BY <3>1, <3>2, <3>4
      <4>2. task[t].who \in {task[t].session} \X Members
        BY <3>1, <4>1 DEF SessionsInv, TaskOnOwnSession, SignUp!TaskOnOwnSession
      <4> QED
        BY <3>1, <3>2, <3>4, <4>2
    <3> QED
      BY <1>0, <2>4, <3>2, <3>3, <3>4 DEF TaskChangeHolds
  <2> HIDE DEF a, b
  <2>7. /\ task' \in [Tasks -> SignUp!Task]
        /\ task'[t].session = a /\ task'[t].who = b
        /\ \A u \in Tasks \ {t} : task'[u] = task[u]
    <3>1. task' = [task EXCEPT ![t] = [task[t] EXCEPT !.session = a, !.who = b]]
      BY <2>1, <2>2
    <3> DEFINE r == [task[t] EXCEPT !.session = a, !.who = b]
    <3>2. r \in SignUp!Task /\ r.session = a /\ r.who = b
      BY ONLY <2>2, <2>3 DEF SignUp!Task
    <3>3. task' = [task EXCEPT ![t] = r]
      BY <3>1
    <3> HIDE DEF r
    <3> QED
      BY <2>2, <3>2, <3>3
  <2>8. SignUp!TypeOK'
    <3>1. torn' \subseteq Tasks
      BY <2>1 DEF SessionsInv, SignUp!TypeOK
    <3> QED
      BY <2>1, <2>7, <3>1 DEF SessionsInv, SignUp!TypeOK
  <2>9. AssigneesExist'
    BY <2>1, <2>5, <2>7 DEF SessionsInv, AssigneesExist
  <2>10. TaskOnOwnSession'
    <3>1. ASSUME NEW u \in Tasks \ {t}, task'[u].who # None, u \notin torn'
          PROVE  task'[u].who \in {task'[u].session} \X Members
      BY <2>1, <2>7, <3>1 DEF SessionsInv, TaskOnOwnSession, SignUp!TaskOnOwnSession
    <3>2. \A u \in Tasks : task'[u].who # None => part'[task'[u].who[1]][task'[u].who[2]] # "none"
      BY <2>9 DEF AssigneesExist
    <3> QED
      BY <2>6, <2>7, <3>1, <3>2 DEF TaskOnOwnSession, SignUp!TaskOnOwnSession
  <2>11. ASSUME NEW e \in Desks PROVE SignupHolds(e)' /\ TaskChangeHolds(e)'
    <3>1. CASE e = d
      <4>1. signup'[e] = SignUp!Idle
        BY <2>1, <3>1 DEF SessionsInv, SignUp!TypeOK
      <4> QED
        BY <4>1, IdleHolds
    <3>2. CASE e # d
      <4>1. signup'[e] = signup[e]
        BY <2>1, <3>2 DEF SessionsInv, SignUp!TypeOK
      <4>2. Noticed(e, {}, {})
        BY <4>1, UnchangedNotices DEF SessionsInv
      <4> QED
        BY <2>1, <4>2, SignupKept, TaskChangeKept
    <3> QED
      BY <3>1, <3>2
  <2> QED
    BY <2>8, <2>9, <2>10, <2>11 DEF SessionsInv
<1> QED
  BY <1>2, <1>3
-----------------------------------------------------------------------------
LEMMA SignupLoadKeeps ==
    ASSUME PeopleAssumption, SessionsInv, NEW d \in Desks, NEW tenants \in Households,
           NEW named \in SUBSET tenants, NEW chosen \in SUBSET Sessions, NEW repeated \in BOOLEAN,
           SignUp!SignupLoad(d, tenants, named, chosen, repeated)
    PROVE  SessionsInv'
PROOF
<1> DEFINE people == SignUp!MembersToRegister(tenants, named)
           new(s) == people \ SignUp!Registered(s)
           accepted == {s \in chosen : limit[s] # Absent /\ SignUp!Fits(s, new(s))}
           adds == [s \in Sessions |-> IF s \in accepted THEN new(s) ELSE {}]
           q == [at |-> "signup", people |-> people, accepted |-> accepted,
                 adds |-> adds, repeated |-> repeated, stale |-> FALSE]
<1>1. people \in SUBSET Members
  BY DEF SignUp!MembersToRegister, PeopleAssumption
<1>2. adds \in [Sessions -> SUBSET Members] /\ accepted \subseteq Sessions
  BY <1>1
<1>3. signup' = [signup EXCEPT ![d] = q]
  BY DEF SignUp!SignupLoad, SignUp!Start
<1>4. limit' = limit /\ part' = part /\ task' = task /\ torn' = torn
  BY DEF SignUp!SignupLoad
<1>5. \A s \in accepted : /\ limit[s] # Absent
                          /\ adds[s] = people \ SignUp!Registered(s)
                          /\ \/ limit[s] = None
                             \/ SignUp!AvailableSpots(s) >= Cardinality(adds[s])
  <2>1. ASSUME NEW s \in accepted PROVE adds[s] = new(s) /\ SignUp!Fits(s, new(s)) /\ limit[s] # Absent
    BY <1>2
  <2>2. ASSUME NEW s \in accepted
        PROVE limit[s] = None \/ SignUp!AvailableSpots(s) >= Cardinality(new(s))
    BY <2>1 DEF SignUp!Fits, SignUp!Cardinality, Cardinality
  <2> QED
    BY <2>1, <2>2
<1>6. \A s \in Sessions : s \notin accepted => adds[s] = {}
  OBVIOUS
<1>7. \A s \in Sessions : /\ SignUp!Registered(s)' = SignUp!Registered(s)
                          /\ SignUp!AvailableSpots(s)' = SignUp!AvailableSpots(s)
  BY <1>4 DEF SignUp!Registered, SignUp!AvailableSpots, SignUp!Occupied
<1> HIDE DEF people, accepted, adds
<1>8. q \in SignUp!Signup
  BY <1>1, <1>2 DEF SignUp!Signup
<1>9. signup'[d] = q /\ q \in SignupRequest
  BY <1>3, <1>8 DEF SessionsInv, SignUp!TypeOK, SignupRequest
<1>10. SignupHolds(d)'
  BY <1>2, <1>4, <1>5, <1>6, <1>7, <1>9 DEF SignupHolds
<1>11. TaskChangeHolds(d)'
  BY <1>9 DEF TaskChangeHolds
<1> HIDE DEF q
<1> QED
  BY <1>3, <1>4, <1>9, <1>10, <1>11, DeskKeeps

\* The other sign-ups notice the sessions to which somebody is added.
LEMMA SignupCommitKeeps ==
    ASSUME PeopleAssumption, SessionsInv, NEW d \in Desks, SignUp!SignupCommit(d)
    PROVE  SessionsInv'
PROOF
<1>1. CASE SignUp!Rollback(d)
  BY <1>1, RollbackKeeps
<1>2. CASE ~SignUp!Rollback(d)
  <2>0. PICK q \in SignUp!Signup : q = signup[d]
    BY SignupKinds DEF SignUp!SignupCommit, SessionsInv, SignUp!TypeOK, SignupRequest
  <2> DEFINE touched == {s \in Sessions : q.adds[s] # {}}
  <2>1. /\ \A s \in Sessions : q.adds[s] # {} => limit[s] # Absent
        /\ part' = [s \in Sessions |-> [m \in Members |->
                       IF m \in q.adds[s] THEN "REGISTERED" ELSE part[s][m]]]
        /\ signup' = [e \in Desks |->
                        IF e = d THEN SignUp!Idle
                        ELSE IF signup[e].at = "signup"
                        THEN [signup[e] EXCEPT !.stale =
                                @ \/ \E s \in signup[e].accepted : q.adds[s] # {}]
                        ELSE signup[e]]
        /\ limit' = limit /\ task' = task /\ torn' = torn
    BY <1>2, <2>0 DEF SignUp!SignupCommit
  <2>2. RowsTyped
    BY SessionRows
  <2>3. \A s \in Sessions \ touched : limit'[s] = limit[s] /\ part'[s] = part[s]
    BY <2>1, <2>2 DEF RowsTyped
  <2>4. \A s \in Sessions, m \in Members : part[s][m] # "none" => part'[s][m] # "none"
    BY <2>1
  <2>5. RowsTyped'
    <3>1. part' \in [Sessions -> [Members -> SignUp!Status \cup {"none"}]]
      BY <2>1, <2>2 DEF RowsTyped, SignUp!Status
    <3>2. ASSUME NEW s \in Sessions, limit'[s] = Absent
          PROVE  part'[s] = [m \in Members |-> "none"]
      BY <2>1, <2>2, <2>3, <3>2 DEF RowsTyped
    <3> QED
      BY <2>1, <2>2, <3>1, <3>2 DEF RowsTyped
  <2>6. ASSUME NEW e \in Desks, e # d PROVE Noticed(e, touched, {})
    <3>0. signup[e] \in SignupRequest
      BY DEF SessionsInv, SignUp!TypeOK, SignupRequest
    <3>1. CASE signup[e].at = "signup"
      <4> DEFINE b == signup[e].stale \/ \E s \in signup[e].accepted : q.adds[s] # {}
      <4>0. signup[e] \in SignUp!Signup
        BY <3>0, <3>1, SignupKinds
      <4>1. b \in BOOLEAN
        BY <4>0 DEF SignUp!Signup
      <4>2. signup'[e] = [signup[e] EXCEPT !.stale = b]
        BY <2>1, <2>6, <3>1
      <4>3. ~b => ~signup[e].stale /\ touched \cap signup[e].accepted = {}
        OBVIOUS
      <4> HIDE DEF b, touched
      <4>4. /\ signup'[e] \in SignUp!Signup
            /\ signup'[e].at = signup[e].at
            /\ signup'[e].people = signup[e].people
            /\ signup'[e].accepted = signup[e].accepted
            /\ signup'[e].adds = signup[e].adds
            /\ signup'[e].stale = b
        BY <4>0, <4>1, <4>2, SignupFlag
      <4> QED
        BY <3>1, <4>3, <4>4 DEF Noticed, SignupRequest
    <3>2. CASE signup[e].at # "signup"
      <4>1. signup'[e] = signup[e]
        BY <2>1, <2>6, <3>2
      <4> QED
        BY <3>0, <3>2, <4>1 DEF Noticed
    <3> QED
      BY <3>1, <3>2
  <2>7. signup'[d] = SignUp!Idle
    BY <2>1
  <2> HIDE DEF touched
  <2>8. ASSUME NEW e \in Desks
        PROVE  signup'[e] \in SignupRequest /\ SignupHolds(e)' /\ TaskChangeHolds(e)'
    <3>1. CASE e = d
      BY <2>7, <3>1, IdleHolds DEF SignupRequest
    <3>2. CASE e # d
      <4>1. Noticed(e, touched, {})
        BY <2>6, <3>2
      <4>2. SignupHolds(e)'
        BY <2>3, <4>1, SignupKept
      <4>3. TaskChangeHolds(e)'
        BY <2>4, <4>1, TaskChangeKept
      <4> QED
        BY <4>1, <4>2, <4>3 DEF Noticed
    <3> QED
      BY <3>1, <3>2
  <2>9. signup' \in [Desks -> SignupRequest]
    <3>1. signup' = [e \in Desks |-> signup'[e]]
      BY <2>1
    <3>2. [e \in Desks |-> signup'[e]] \in [Desks -> SignupRequest]
      BY <2>8
    <3> QED
      BY <3>1, <3>2
  <2>10. SignUp!TypeOK'
    BY <2>1, <2>5, <2>9 DEF RowsTyped, SignUp!TypeOK, SignupRequest, SessionsInv
  <2>11. AssigneesExist' /\ TaskOnOwnSession'
    <3>1. \A t \in Tasks : \/ task'[t].who = None
                         \/ /\ task'[t].who = task[t].who
                            /\ t \notin torn => task'[t].session = task[t].session
                            /\ task[t].who \notin {}
      BY <2>1
    <3> QED
      BY <2>1, <2>4, <3>1, TasksKept
  <2> QED
    BY <2>8, <2>10, <2>11 DEF SessionsInv
<1> QED
  BY <1>1, <1>2

LEMMA SessionsStutter ==
    ASSUME PeopleAssumption, SessionsInv, UNCHANGED SignUp!vars
    PROVE  SessionsInv'
PROOF
<1>1. /\ limit' = limit /\ part' = part /\ task' = task /\ signup' = signup /\ torn' = torn
  BY DEF SignUp!vars
<1>2. SignUp!TypeOK' /\ AssigneesExist' /\ TaskOnOwnSession'
  BY <1>1 DEF SessionsInv, SignUp!TypeOK, AssigneesExist, TaskOnOwnSession, SignUp!TaskOnOwnSession
<1>3. \A d \in Desks : Noticed(d, {}, {})
  BY <1>1, UnchangedNotices DEF SessionsInv
<1>4. \A d \in Desks : SignupHolds(d)' /\ TaskChangeHolds(d)'
  BY <1>1, <1>3, SignupKept, TaskChangeKept
<1> QED
  BY <1>2, <1>4 DEF SessionsInv

LEMMA SessionsStep ==
    ASSUME PeopleAssumption, SessionsInv, [SignUp!Next]_SignUp!vars
    PROVE  SessionsInv'
PROOF
<1>1. CASE SignUp!BoardStep
  BY <1>1, SessionCreateKeeps, SessionUpdateKeeps, SessionDeleteKeeps, ParticipationSetKeeps,
     ParticipationRemoveKeeps, TaskCreateKeeps, TaskDeleteKeeps DEF SignUp!BoardStep
<1>2. ASSUME NEW d \in Desks, SignUp!SignupStep(d) PROVE SessionsInv'
  BY <1>2, SignupLoadKeeps, SignupCommitKeeps DEF SignUp!SignupStep
<1>3. ASSUME NEW d \in Desks, SignUp!TaskStep(d) PROVE SessionsInv'
  BY <1>3, TaskAssignToSessionKeeps, TaskParticipantAssignKeeps, UpdateTaskKeeps,
     TaskCommitKeeps DEF SignUp!TaskStep
<1>4. CASE UNCHANGED SignUp!vars
  BY <1>4, SessionsStutter
<1> QED
  BY <1>1, <1>2, <1>3, <1>4 DEF SignUp!Next

\* The inductive invariant: assignees are participations there are, and what a
\* request in flight has read still holds unless its flag says otherwise.
THEOREM SessionsInvariant == SignUp!Spec => []SessionsInv
PROOF
<1>1. SignUp!Init => SessionsInv
  BY SessionsInit
<1>2. SessionsInv /\ [SignUp!Next]_SignUp!vars => SessionsInv'
  BY SessionsStep, PeopleAssumption
<1> QED
  BY <1>1, <1>2, PTL DEF SignUp!Spec

\* A task with an assignee is at the session that person is signed up for,
\* unless two changes of the task overlapped, for any number of tasks,
\* sessions and requests in flight.
THEOREM TasksStayOnTheirSessions == SignUp!Spec => []TaskOnOwnSession
PROOF
<1>1. SessionsInv => TaskOnOwnSession
  BY DEF SessionsInv
<1> QED
  BY <1>1, SessionsInvariant, PTL

\* Adding a set of members to those who occupy places takes no more places
\* than it has members.
LEMMA PlacesTaken ==
    ASSUME PeopleAssumption, SessionsInv, NEW s \in Sessions, NEW new \in SUBSET Members,
           \A m \in Members : part'[s][m] = IF m \in new THEN "REGISTERED" ELSE part[s][m]
    PROVE  /\ SignUp!Occupied(s) \in Nat /\ SignUp!Occupied(s)' \in Nat
           /\ Cardinality(new) \in Nat
           /\ SignUp!Occupied(s)' <= SignUp!Occupied(s) + Cardinality(new)
PROOF
<1> DEFINE old == {m \in Members : part[s][m] \in {"REGISTERED", "ATTENDED"}}
           all == {m \in Members : part'[s][m] \in {"REGISTERED", "ATTENDED"}}
<1>1. all = old \cup new
  OBVIOUS
<1>2. IsFiniteSet(old) /\ IsFiniteSet(new)
  BY FS_Subset DEF PeopleAssumption
<1>3. SignUp!Occupied(s) = Cardinality(old) /\ SignUp!Occupied(s)' = Cardinality(all)
  BY DEF SignUp!Occupied, SignUp!Cardinality, Cardinality
<1> HIDE DEF old, all
<1>4. /\ IsFiniteSet(old \cup new)
      /\ Cardinality(old \cup new) = Cardinality(old) + Cardinality(new)
                                       - Cardinality(old \cap new)
  BY <1>2, FS_Union
<1>5. IsFiniteSet(old \cap new)
  BY <1>2, FS_Subset
<1>6. /\ Cardinality(old) \in Nat /\ Cardinality(new) \in Nat
      /\ Cardinality(old \cap new) \in Nat /\ Cardinality(old \cup new) \in Nat
  BY <1>2, <1>4, <1>5, FS_CardinalityType
<1> QED
  BY <1>1, <1>3, <1>4, <1>6

\* Only a commit ends a sign-up.
LEMMA OnlyCommitsEnd ==
    ASSUME PeopleAssumption, SessionsInv, [SignUp!Next]_SignUp!vars, NEW d \in Desks,
           signup[d].at = "signup", signup'[d] = SignUp!Idle
    PROVE  SignUp!SignupCommit(d)
PROOF
<1>0. signup'[d].at # signup[d].at /\ signup[d] # SignUp!Idle
  BY DEF SignUp!Idle
<1>1. CASE SignUp!BoardStep
  <2>1. ASSUME NEW s \in Sessions, NEW removed, SignUp!Touch(s, removed)
        PROVE  signup'[d].at = signup[d].at
    BY <2>1, TouchNotices DEF Noticed, SessionsInv
  <2>2. signup' # signup
    BY <1>0
  <2>3. /\ \A s \in Sessions, max \in Limits \cup {None} :
             ~SignUp!SessionCreate(s, max) /\ ~SignUp!SessionUpdate(s, max)
        /\ \A s \in Sessions : ~SignUp!SessionDelete(s)
    BY <1>0, <2>1, <2>2 DEF SignUp!SessionCreate, SignUp!SessionUpdate, SignUp!SessionDelete
  <2>4. /\ \A s \in Sessions, m \in Members, status \in Marks :
             /\ ~SignUp!ParticipantAdd(s, m, status)
             /\ ~SignUp!ParticipationStatusChange(s, m, status)
        /\ \A s \in Sessions, m \in Members : ~SignUp!ParticipationRemove(s, m)
    BY <1>0, <2>1 DEF SignUp!ParticipantAdd, SignUp!ParticipationStatusChange,
       SignUp!ParticipationRemove
  <2>5. /\ \A t \in Tasks : ~SignUp!TaskDelete(t)
        /\ \A t \in Tasks, s \in Sessions \cup {None} : ~SignUp!TaskCreate(t, s)
    BY <2>2 DEF SignUp!TaskDelete, SignUp!TaskCreate
  <2> QED
    BY <1>1, <2>3, <2>4, <2>5 DEF SignUp!BoardStep
<1>2. signup \in [Desks -> SignupRequest]
  BY DEF SessionsInv, SignUp!TypeOK, SignupRequest
<1>3. ASSUME NEW e \in Desks, SignUp!TaskStep(e) PROVE FALSE
  <2>1. signup[e].at # "signup" /\ \A x \in Desks \ {e} : signup'[x] = signup[x]
    BY <1>2, <1>3 DEF SignUp!TaskStep, SignUp!TaskAssignToSession, SignUp!TaskParticipantAssign,
       SignUp!UpdateTask, SignUp!StartTaskChange, SignUp!Start, SignUp!TaskCommit,
       SignUp!Rollback, SignUp!Idle
  <2> QED
    BY <1>0, <2>1
<1>4. ASSUME NEW e \in Desks, SignUp!SignupStep(e), e # d PROVE FALSE
  <2>1. CASE SignUp!SignupCommit(e)
    <3>1. CASE SignUp!Rollback(e)
      BY <1>0, <1>2, <1>4, <3>1 DEF SignUp!Rollback
    <3>2. CASE ~SignUp!Rollback(e)
      <4>0. signup[d] \in SignUp!Signup
        BY <1>2, SignupKinds
      <4> DEFINE b == signup[d].stale \/ \E s \in signup[d].accepted : signup[e].adds[s] # {}
      <4>1. signup'[d] = [signup[d] EXCEPT !.stale = b]
        BY <1>4, <2>1, <3>2 DEF SignUp!SignupCommit
      <4>2. b \in BOOLEAN
        BY <4>0 DEF SignUp!Signup
      <4> HIDE DEF b
      <4> QED
        BY <1>0, <4>0, <4>1, <4>2, SignupFlag
    <3> QED
      BY <3>1, <3>2
  <2>2. CASE ~SignUp!SignupCommit(e)
    <3>1. signup'[d] = signup[d]
      BY <1>2, <1>4, <2>2 DEF SignUp!SignupStep, SignUp!SignupLoad, SignUp!Start
    <3> QED
      BY <1>0, <3>1
  <2> QED
    BY <2>1, <2>2
<1>5. SignUp!SignupStep(d) => SignUp!SignupCommit(d)
  BY <1>0 DEF SignUp!SignupStep, SignUp!SignupLoad, SignUp!Start
<1>6. ~UNCHANGED SignUp!vars
  BY <1>0 DEF SignUp!vars
<1> QED
  BY <1>1, <1>3, <1>4, <1>5, <1>6 DEF SignUp!Next

\* What a sign-up answers comes true: its sessions hold what it read.
LEMMA SignupKeepsIts ==
    ASSUME PeopleAssumption, SessionsInv, NEW d \in Desks, SignUp!SignupCommit(d),
           ~signup[d].stale, ~signup[d].repeated, NEW s \in signup[d].accepted
    PROVE  /\ signup[d].people \subseteq {m \in Members : part'[s][m] # "none"}
           /\ signup[d].adds[s] # {} /\ limit[s] # None => SignUp!Occupied(s)' <= limit[s]
PROOF
<1>0. PICK q \in SignUp!Signup : q = signup[d]
  BY SignupKinds DEF SignUp!SignupCommit, SessionsInv, SignUp!TypeOK, SignupRequest
<1>1. /\ \A x \in Sessions : x \notin q.accepted => q.adds[x] = {}
      /\ \A x \in q.accepted :
            /\ limit[x] # Absent
            /\ q.adds[x] = q.people \ SignUp!Registered(x)
            /\ \/ limit[x] = None
               \/ SignUp!AvailableSpots(x) >= Cardinality(q.adds[x])
  BY <1>0 DEF SessionsInv, SignupHolds, SignUp!SignupCommit
<1>2. part' = [x \in Sessions |-> [m \in Members |->
                 IF m \in q.adds[x] THEN "REGISTERED" ELSE part[x][m]]]
  <2>1. \A x \in Sessions : q.adds[x] # {} =>
           limit[x] # Absent /\ q.adds[x] \cap SignUp!Registered(x) = {}
    BY <1>1
  <2> QED
    BY <1>0, <2>1 DEF SignUp!SignupCommit
<1>3. s \in Sessions /\ q.people \subseteq Members /\ q.adds[s] \in SUBSET Members
  BY <1>0 DEF SignUp!Signup
<1>4. q.people \subseteq {m \in Members : part'[s][m] # "none"}
  BY <1>0, <1>1, <1>2, <1>3 DEF SignUp!Registered
<1>5. ASSUME q.adds[s] # {}, limit[s] # None PROVE SignUp!Occupied(s)' <= limit[s]
  <2>1. limit[s] \in Int
    BY <1>0, <1>1, <1>3, <1>5 DEF SessionsInv, SignUp!TypeOK, PeopleAssumption
  <2>2. /\ SignUp!Occupied(s) \in Nat /\ SignUp!Occupied(s)' \in Nat
        /\ Cardinality(q.adds[s]) \in Nat
        /\ SignUp!Occupied(s)' <= SignUp!Occupied(s) + Cardinality(q.adds[s])
    BY <1>2, <1>3, PlacesTaken
  <2>3. Cardinality(q.adds[s]) # 0
    <3>1. IsFiniteSet(q.adds[s])
      BY <1>3, FS_Subset DEF PeopleAssumption
    <3> QED
      BY <1>5, <3>1, FS_EmptySet
  <2>4. SignUp!AvailableSpots(s) >= Cardinality(q.adds[s])
    BY <1>0, <1>1, <1>5
  <2> QED
    BY <2>1, <2>2, <2>3, <2>4 DEF SignUp!AvailableSpots
<1> QED
  BY <1>0, <1>4, <1>5

\* A sign-up that names each session once and whose sessions nobody has touched
\* since it read them registers everybody it stands for wherever it answers "accepted", and fills no session
\* beyond its limit, for any number of sessions, members and requests.
THEOREM SignupsKeepTheirWord == SignUp!Spec => SignupKeepsItsWord
PROOF
<1> DEFINE Word ==
      \A d \in Desks :
         signup[d].at = "signup" /\ signup'[d] = SignUp!Idle /\ ~signup[d].stale
            /\ ~signup[d].repeated =>
         \A s \in signup[d].accepted :
            /\ signup[d].people \subseteq {m \in Members : part'[s][m] # "none"}
            /\ signup[d].adds[s] # {} /\ limit[s] # None => SignUp!Occupied(s)' <= limit[s]
<1>1. SessionsInv /\ [SignUp!Next]_SignUp!vars => [Word]_SignUp!vars
  BY OnlyCommitsEnd, SignupKeepsIts, PeopleAssumption
<1>2. SignUp!Spec => [][Word]_SignUp!vars
  BY <1>1, SessionsInvariant, PTL DEF SignUp!Spec
<1> QED
  BY <1>2 DEF SignupKeepsItsWord, SignUp!SignupKeepsItsWord, SignUp!vars, SignUp!Idle
-----------------------------------------------------------------------------
(***************************************************************************)
(* Evaluation of the work hours                                            *)
(***************************************************************************)
HoursTypeOK ==
    /\ config \in {None} \cup Evaluation!Config
    /\ sponsorship \in [Sponsorships -> [here : BOOLEAN, member : Members \cup {None},
                                        hours : Hours \cup {0}, valid : BOOLEAN]]
    /\ attendance \in [Members -> [status : {"none", "REGISTERED", "ATTENDED"},
                                   hours : Hours \cup {None}]]

\* The tables the standing is computed from keep their types.
THEOREM WorkHoursTypes == Evaluation!Spec => []HoursTypeOK
PROOF
<1>1. Evaluation!Init => HoursTypeOK
  BY DEF Evaluation!Init, HoursTypeOK, Evaluation!NoSponsorship, Evaluation!NotSignedUp
<1>2. HoursTypeOK /\ [Evaluation!Next]_Evaluation!vars => HoursTypeOK'
  <2> SUFFICES ASSUME HoursTypeOK, [Evaluation!Next]_Evaluation!vars
               PROVE  HoursTypeOK'
    OBVIOUS
  <2>1. CASE UNCHANGED <<config, sponsorship, attendance>>
    BY <2>1 DEF HoursTypeOK
  <2>2. CASE \E c \in Evaluation!Config :
                Evaluation!ConfigurationCreate(c) \/ Evaluation!ConfigurationUpdate(c)
    BY <2>2 DEF HoursTypeOK, Evaluation!ConfigurationCreate, Evaluation!ConfigurationUpdate
  <2>3. CASE Evaluation!ConfigurationDelete
    BY <2>3 DEF HoursTypeOK, Evaluation!ConfigurationDelete
  <2>4. CASE \E x \in Sponsorships, m \in Members \cup {None}, hours \in Hours, valid \in BOOLEAN :
                Evaluation!SponsorshipCreate(x, m, hours, valid)
    BY <2>4 DEF HoursTypeOK, Evaluation!SponsorshipCreate
  <2>5. CASE \E x \in Sponsorships, m \in Members \cup {None}, hours \in Hours, valid \in BOOLEAN :
                Evaluation!SponsorshipUpdate(x, m, hours, valid)
    BY <2>5 DEF HoursTypeOK, Evaluation!SponsorshipUpdate
  <2>6. CASE \E x \in Sponsorships : Evaluation!SponsorshipDelete(x)
    BY <2>6 DEF HoursTypeOK, Evaluation!SponsorshipDelete, Evaluation!NoSponsorship
  <2>7. CASE \E m \in Members, hours \in Hours \cup {None}, status \in {"REGISTERED", "ATTENDED"} :
                Evaluation!Attend(m, status, hours)
    BY <2>7 DEF HoursTypeOK, Evaluation!Attend
  <2> QED
    BY <2>1, <2>2, <2>3, <2>4, <2>5, <2>6, <2>7
       DEF Evaluation!Next, Evaluation!vars, Evaluation!ClubRoleCreate, Evaluation!ClubRoleUpdate,
           Evaluation!ClubRoleDelete, Evaluation!ClubRoleAssign,
           Evaluation!ClubRoleReassign, Evaluation!ClubRoleRemove,
           Evaluation!MemberAssign, Evaluation!MemberRemove, Evaluation!MemberStanding
<1> QED
  BY <1>1, <1>2, PTL DEF Evaluation!Spec

LEMMA HoursSumIs == \A f, S : Evaluation!SumFunctionOnSet(f, S) = SumFunctionOnSet(f, S)
BY DEF SumFunctionOnSet, FoldFunctionOnSet, MapThenFoldSet,
       Evaluation!SumFunctionOnSet, Evaluation!FoldFunctionOnSet, Evaluation!MapThenFoldSet

\* Hours are numbers, those of a member and those of any members together.
LEMMA HoursAreNumbers ==
    ASSUME HoursTypeOK, NEW m \in Members
    PROVE  /\ Evaluation!SessionHours(m) \in Int
           /\ Evaluation!SponsorshipHours(m) \in Int
           /\ Evaluation!HoursOf(m) = Evaluation!SessionHours(m) + Evaluation!SponsorshipHours(m)
PROOF
<1>1. Evaluation!SessionHours(m) \in Int
  BY PeopleAssumption DEF HoursTypeOK, Evaluation!SessionHours
<1>2. Evaluation!SponsorshipHours(m) \in Int
  <2> DEFINE f == [x \in Sponsorships |-> sponsorship[x].hours]
             S == {x \in Sponsorships : sponsorship[x].member = m /\ sponsorship[x].valid}
  <2>1. IsFiniteSet(S)
    BY FS_Subset, PeopleAssumption
  <2>2. \A x \in S : f[x] \in Int
    BY PeopleAssumption DEF HoursTypeOK
  <2>3. Evaluation!SponsorshipHours(m) = SumFunctionOnSet(f, S)
    BY HoursSumIs DEF Evaluation!SponsorshipHours
  <2> HIDE DEF f, S
  <2> QED
    BY <2>1, <2>2, <2>3, SumType
<1> QED
  BY <1>1, <1>2 DEF Evaluation!HoursOf

\* What the API adds to the total of the page is what those left out have done.
LEMMA TotalsDiffer ==
    ASSUME HoursTypeOK, NEW T \in SUBSET Members, NEW L \in SUBSET Members, T \subseteq L
    PROVE  /\ Evaluation!TotalOf(T) \in Int
           /\ Evaluation!TotalOf(L \ T) \in Int
           /\ Evaluation!TotalOf(L) = Evaluation!TotalOf(T) + Evaluation!TotalOf(L \ T)
           /\ (\A m \in L \ T : Evaluation!HoursOf(m) >= 0) => Evaluation!TotalOf(L \ T) >= 0
           /\ (\A m \in L \ T : Evaluation!HoursOf(m) = 0) => Evaluation!TotalOf(L \ T) = 0
PROOF
<1> DEFINE f == [m \in Members |-> Evaluation!HoursOf(m)]
<1>1. \A m \in Members : f[m] \in Int /\ f[m] = Evaluation!HoursOf(m)
  BY HoursAreNumbers
<1>2. \A S : Evaluation!TotalOf(S) = SumFunctionOnSet(f, S)
  BY HoursSumIs DEF Evaluation!TotalOf
<1> HIDE DEF f
<1>3. IsFiniteSet(T) /\ IsFiniteSet(L \ T) /\ T \cap (L \ T) = {} /\ T \cup (L \ T) = L
  BY FS_Subset, PeopleAssumption
<1>4. SumFunctionOnSet(f, T) \in Int /\ SumFunctionOnSet(f, L \ T) \in Int
  BY <1>1, <1>3, SumType
<1>5. SumFunctionOnSet(f, T \cup (L \ T)) = SumFunctionOnSet(f, T) + SumFunctionOnSet(f, L \ T)
  BY <1>1, <1>3, SumApart
<1>6. ASSUME \A m \in L \ T : Evaluation!HoursOf(m) >= 0
      PROVE  SumFunctionOnSet(f, L \ T) >= 0
  <2>1. \A m \in L \ T : f[m] \in Nat
    BY <1>1, <1>6
  <2>2. SumFunctionOnSet(f, L \ T) \in Nat
    BY <1>3, <2>1, SumNatural
  <2> QED
    BY <2>2
<1>7. ASSUME \A m \in L \ T : Evaluation!HoursOf(m) = 0
      PROVE  SumFunctionOnSet(f, L \ T) = 0
  <2>1. \A m \in L \ T : f[m] = 0
    BY <1>1, <1>7
  <2> QED
    BY <1>3, <2>1, SumZero
<1> QED
  BY <1>2, <1>3, <1>4, <1>5, <1>6, <1>7

\* The columns of the CSV add up to its total.
LEMMA ColumnsAddUp ==
    ASSUME HoursTypeOK, NEW p \in Parcels
    PROVE  Evaluation!CsvRow(p).session + Evaluation!CsvRow(p).sponsorship
             = Evaluation!TotalOf(Evaluation!Tenants(p))
PROOF
<1> DEFINE f == [m \in Members |-> Evaluation!SessionHours(m)]
           g == [m \in Members |-> Evaluation!SponsorshipHours(m)]
           h == [m \in Members |-> Evaluation!HoursOf(m)]
           T == Evaluation!Tenants(p)
<1>1. T \subseteq Members
  BY DEF Evaluation!Tenants, Evaluation!Leaseholders
<1>2. IsFiniteSet(T)
  BY <1>1, FS_Subset, PeopleAssumption
<1>3. \A m \in T : f[m] \in Int /\ g[m] \in Int /\ h[m] = f[m] + g[m]
  BY <1>1, HoursAreNumbers
<1>4. /\ Evaluation!CsvRow(p).session = SumFunctionOnSet(f, T)
      /\ Evaluation!CsvRow(p).sponsorship = SumFunctionOnSet(g, T)
      /\ Evaluation!TotalOf(T) = SumFunctionOnSet(h, T)
  BY HoursSumIs DEF Evaluation!CsvRow, Evaluation!TotalOf
<1> HIDE DEF f, g, h, T
<1>5. SumFunctionOnSet(h, T) = SumFunctionOnSet(f, T) + SumFunctionOnSet(g, T)
  BY <1>2, <1>3, SumPlus
<1> QED
  BY <1>4, <1>5 DEF T

\* Whoever owes no hours has fulfilled, and owes the fewer the more were worked.
LEMMA DebtIsWhatIsMissing ==
    ASSUME HoursTypeOK, config # None, NEW total \in Int, NEW more \in Int
    PROVE  /\ total >= config.required <=> Evaluation!Outstanding(total) = 0
           /\ Evaluation!Outstanding(total) >= 0
           /\ total <= more => Evaluation!Outstanding(more) <= Evaluation!Outstanding(total)
           /\ total <= more /\ total >= config.required => more >= config.required
PROOF
<1>1. config.required \in Int
  BY PeopleAssumption DEF HoursTypeOK, Evaluation!Config
<1> QED
  BY <1>1 DEF Evaluation!Outstanding

\* The standing of one parcel in the three copies.
LEMMA StandingsOfParcel ==
    ASSUME HoursTypeOK, config # None, NEW p \in Parcels
    PROVE  LET page == Evaluation!PageRow(p)
               csv == Evaluation!CsvRow(p)
               api == Evaluation!ApiRow(p)
               left == Evaluation!Leaseholders(p) \ Evaluation!Tenants(p)
           IN
           /\ \A column \in DOMAIN page : csv[column] = page[column]
           /\ csv.session + csv.sponsorship = csv.total
           /\ page.fulfilled <=> page.open = 0
           /\ api.fulfilled <=> api.open = 0
           /\ (\A m \in left : Evaluation!HoursOf(m) >= 0) =>
                 /\ api.open <= page.open
                 /\ page.fulfilled => api.fulfilled
           /\ (\A m \in left : Evaluation!HoursOf(m) = 0 /\ ~Evaluation!IsExempt(m)) =>
                 /\ api.completed = page.total
                 /\ api.open = page.open
                 /\ api.fulfilled = page.fulfilled
PROOF
<1> DEFINE T == Evaluation!Tenants(p)
           L == Evaluation!Leaseholders(p)
           left == L \ T
           page == Evaluation!PageRow(p)
           csv == Evaluation!CsvRow(p)
           api == Evaluation!ApiRow(p)
           some == \E m \in T : Evaluation!IsExempt(m)
           any == \E m \in L : Evaluation!IsExempt(m)
           own == Evaluation!TotalOf(T)
           all == Evaluation!TotalOf(L)
           rest == Evaluation!TotalOf(left)
<1>1. T \in SUBSET Members /\ L \in SUBSET Members /\ T \subseteq L
  BY DEF Evaluation!Tenants, Evaluation!Leaseholders
<1>2. /\ page.total = own /\ page.exempt = some /\ DOMAIN page = {"total", "exempt", "open", "fulfilled"}
      /\ page.open = (IF some THEN 0 ELSE Evaluation!Outstanding(own))
      /\ page.fulfilled = (some \/ own >= config.required)
  BY DEF Evaluation!PageRow
<1>3. /\ csv.total = own /\ csv.exempt = some
      /\ csv.open = (IF some THEN 0 ELSE Evaluation!Outstanding(own))
      /\ csv.fulfilled = (some \/ own >= config.required)
  <2>1. (T \cap {m \in Members : Evaluation!IsExempt(m)} # {}) = some
    BY <1>1
  <2> QED
    BY <2>1 DEF Evaluation!CsvRow
<1>4. /\ api.completed = all
      /\ api.open = (IF any THEN 0 ELSE Evaluation!Outstanding(all))
      /\ api.fulfilled = (any \/ all >= config.required)
  BY DEF Evaluation!ApiRow
<1>5. /\ own \in Int /\ rest \in Int /\ all = own + rest
      /\ (\A m \in left : Evaluation!HoursOf(m) >= 0) => rest >= 0
      /\ (\A m \in left : Evaluation!HoursOf(m) = 0) => rest = 0
  BY <1>1, TotalsDiffer
<1>6. csv.session + csv.sponsorship = own
  BY ColumnsAddUp
<1>7. (some => any) /\ ((\A m \in left : ~Evaluation!IsExempt(m)) => (any => some))
  BY <1>1
<1> DEFINE Spare == \A m \in left : Evaluation!HoursOf(m) >= 0
           Idle0 == \A m \in left : Evaluation!HoursOf(m) = 0 /\ ~Evaluation!IsExempt(m)
<1>8. Idle0 => rest = 0 /\ (any <=> some)
  BY <1>5, <1>7
<1>9. Spare => rest >= 0
  BY <1>5
<1>10. \A column \in DOMAIN page : csv[column] = page[column]
  BY <1>2, <1>3
<1> SUFFICES /\ csv.session + csv.sponsorship = csv.total
             /\ page.fulfilled <=> page.open = 0
             /\ api.fulfilled <=> api.open = 0
             /\ Spare => api.open <= page.open /\ (page.fulfilled => api.fulfilled)
             /\ Idle0 => /\ api.completed = page.total
                        /\ api.open = page.open
                        /\ api.fulfilled = page.fulfilled
  BY <1>10
<1> HIDE DEF T, L, left, page, csv, api, some, any, own, all, rest, Spare, Idle0
<1>11. all \in Int /\ (rest >= 0 => own <= all) /\ (rest = 0 => own = all)
  BY <1>5
<1>12. /\ own >= config.required <=> Evaluation!Outstanding(own) = 0
       /\ all >= config.required <=> Evaluation!Outstanding(all) = 0
       /\ Evaluation!Outstanding(own) >= 0
       /\ own <= all => Evaluation!Outstanding(all) <= Evaluation!Outstanding(own)
       /\ own <= all /\ own >= config.required => all >= config.required
  BY <1>5, <1>11, DebtIsWhatIsMissing
<1>13. page.fulfilled <=> page.open = 0
  BY <1>2, <1>12
<1>14. api.fulfilled <=> api.open = 0
  BY <1>4, <1>12
<1>15. Spare => api.open <= page.open /\ (page.fulfilled => api.fulfilled)
  <2> SUFFICES ASSUME Spare PROVE api.open <= page.open /\ (page.fulfilled => api.fulfilled)
    OBVIOUS
  <2>1. own <= all
    BY <1>9, <1>11
  <2>2. CASE any
    <3>1. api.open = 0 /\ api.fulfilled = TRUE
      BY <1>4, <2>2
    <3>2. 0 <= page.open
      <4>1. CASE some
        BY <1>2, <4>1
      <4>2. CASE ~some
        <5>1. page.open = Evaluation!Outstanding(own)
          BY <1>2, <4>2
        <5> QED
          BY <1>12, <5>1
      <4> QED
        BY <4>1, <4>2
    <3> QED
      BY <3>1, <3>2
  <2>3. CASE ~any
    BY <1>2, <1>4, <1>7, <1>12, <2>1, <2>3
  <2> QED
    BY <2>2, <2>3
<1>16. Idle0 => api.completed = page.total /\ api.open = page.open /\ api.fulfilled = page.fulfilled
  BY <1>2, <1>4, <1>8, <1>11
<1> QED
  BY <1>3, <1>6, <1>13, <1>14, <1>15, <1>16

\* For any members, club roles, sponsorships and hours: the CSV charges a parcel
\* what the page charges and its columns add up, debt and fulfilment go together,
\* and the leaseholders only the API counts change its debt only downwards, and
\* not at all if they have neither hours nor a role.
THEOREM StandingsCompare == Evaluation!Spec => []StandingsComparable
PROOF
<1>1. HoursTypeOK => StandingsComparable
  BY StandingsOfParcel DEF StandingsComparable, Evaluation!StandingsComparable
<1> QED
  BY <1>1, WorkHoursTypes, PTL
-----------------------------------------------------------------------------
(***************************************************************************)
(* The composition                                                         *)
(***************************************************************************)
\* The components share no table: what the composition does is for each of
\* them something it does itself, or nothing.
THEOREM PeopleImplementsComponents ==
    PeopleSpec => Spec /\ Delivery!Spec /\ SignUp!Spec /\ Evaluation!Spec
PROOF
<1>1. PeopleInit => Init /\ Delivery!Init /\ SignUp!Init /\ Evaluation!Init
  BY DEF PeopleInit
<1>2. [PeopleNext]_peopleVars => [Next]_vars
  BY DEF PeopleNext, peopleVars, TenancyStep, DeliveryStep, SessionStep, HoursStep
<1>3. [PeopleNext]_peopleVars => [Delivery!Next]_Delivery!vars
  BY DEF PeopleNext, peopleVars, TenancyStep, DeliveryStep, SessionStep, HoursStep,
     deliveryVars, Delivery!vars
<1>4. [PeopleNext]_peopleVars => [SignUp!Next]_SignUp!vars
  BY DEF PeopleNext, peopleVars, TenancyStep, DeliveryStep, SessionStep, HoursStep,
     sessionVars, SignUp!vars
<1>5. [PeopleNext]_peopleVars => [Evaluation!Next]_Evaluation!vars
  BY DEF PeopleNext, peopleVars, TenancyStep, DeliveryStep, SessionStep, HoursStep,
     hoursVars, Evaluation!vars
<1> QED
  BY <1>1, <1>2, <1>3, <1>4, <1>5, PTL
     DEF PeopleSpec, Spec, Delivery!Spec, SignUp!Spec, Evaluation!Spec

\* All promises hold together in the system composed of the four.
THEOREM PeoplePromises ==
    PeopleSpec =>
        /\ [](FolderEndsWithTenancy /\ RecordIsTrue /\ TaskOnOwnSession /\ StandingsComparable)
        /\ TenantsKeepTheirFolder /\ MailedOnce /\ SignupKeepsItsWord
  BY PeopleImplementsComponents, FolderIsEnded, FolderIsKept, RecordHolds, DeliveredOnce,
     TasksStayOnTheirSessions, SignupsKeepTheirWord, StandingsCompare, PTL
=============================================================================
