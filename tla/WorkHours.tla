------------------------------ MODULE WorkHours ------------------------------
(***************************************************************************)
(* The yearly work-hours standing: configuration, club roles with          *)
(* exemption, sponsorships, attendance, and the three evaluations computed *)
(* from them (app/routers/work_hours.py, app/routers/api_work_hours.py).   *)
(*                                                                         *)
(* One year is modelled; every member takes part in at most one session of *)
(* it.  The handlers write single rows and are one step each.              *)
(***************************************************************************)
EXTENDS Integers, FiniteSetsExt

CONSTANTS
    Members,       \* members of the club
    Parcels,       \* active parcels
    Roles,         \* identities of club roles
    Sponsorships,  \* identities of sponsorships
    Hours,         \* numbers of hours typed in
    None           \* null

VARIABLES
    config,       \* mode and hours_required of the year, or None
    role,         \* "exempt" or "plain" for each club role there is, else "gone"
    held,         \* the rows of member_club_roles for the year
    sponsorship,  \* the rows of sponsorships
    attendance,   \* status and hours of each member's participation
    lease,        \* each member's row in member_parcel of each parcel
    standing      \* "active", "expired" (member_until is past) or "deleted"

vars == <<config, role, held, sponsorship, attendance, lease, standing>>

Config == [mode : {"PER_PARCEL", "PER_MEMBER"}, required : Hours]
NoSponsorship == [here |-> FALSE, member |-> None, hours |-> 0, valid |-> FALSE]
NotSignedUp == [status |-> "none", hours |-> None]

Init ==
    /\ config = None
    /\ role = [r \in Roles |-> "gone"]
    /\ held = {}
    /\ sponsorship = [x \in Sponsorships |-> NoSponsorship]
    /\ attendance = [m \in Members |-> NotSignedUp]
    /\ lease = [p \in Parcels |-> [m \in Members |-> "none"]]
    /\ standing = [m \in Members |-> "active"]
-----------------------------------------------------------------------------
\* _calculate_hours_for_member: hours of attended sessions, a missing number
\* counting nothing, and of sponsorships valid in the year.
SessionHours(m) ==
    IF attendance[m].status = "ATTENDED" /\ attendance[m].hours # None
    THEN attendance[m].hours ELSE 0

SponsorshipHours(m) ==
    SumFunctionOnSet([x \in Sponsorships |-> sponsorship[x].hours],
                     {x \in Sponsorships : sponsorship[x].member = m /\ sponsorship[x].valid})

HoursOf(m) == SessionHours(m) + SponsorshipHours(m)

ExemptRoles(m) == {r \in Roles : <<m, r>> \in held /\ role[r] = "exempt"}

\* _is_exempt expects at most one row and raises on a second.
IsExempt(m) == ExemptRoles(m) # {}
Raises(m) == Cardinality(ExemptRoles(m)) > 1

Outstanding(total) == IF total < config.required THEN config.required - total ELSE 0

\* Everybody with a row in member_parcel, ended or not.
Leaseholders(p) == {m \in Members : lease[p][m] # "none"}

\* The page and the CSV leave out deleted and expired members, the API does not.
Tenants(p) == {m \in Leaseholders(p) : standing[m] = "active"}

TotalOf(S) == SumFunctionOnSet([m \in Members |-> HoursOf(m)], S)

\* any() over the details of the tenants; the debt is computed before it is waived.
PageRow(p) ==
    LET total == TotalOf(Tenants(p))
        exempt == \E m \in Tenants(p) : IsExempt(m)
    IN [total |-> total, exempt |-> exempt,
        open |-> IF exempt THEN 0 ELSE Outstanding(total),
        fulfilled |-> exempt \/ total >= config.required]

\* Sessions, sponsorships and both are columns, each added up on its own.
CsvRow(p) ==
    LET total == TotalOf(Tenants(p))
        exempt == Tenants(p) \cap {m \in Members : IsExempt(m)} # {}
    IN [session |-> SumFunctionOnSet([m \in Members |-> SessionHours(m)], Tenants(p)),
        sponsorship |-> SumFunctionOnSet([m \in Members |-> SponsorshipHours(m)], Tenants(p)),
        total |-> total, exempt |-> exempt,
        open |-> IF exempt THEN 0 ELSE Outstanding(total),
        fulfilled |-> exempt \/ total >= config.required]

ApiRowAllExempt(p) ==   \* MUTANT of ApiRow
    LET completed == TotalOf(Leaseholders(p))
        exempt == \A m \in Leaseholders(p) : IsExempt(m)
    IN [completed |-> completed, exempt |-> exempt,
        open |-> IF exempt THEN 0 ELSE Outstanding(completed),
        fulfilled |-> exempt \/ completed >= config.required]

\* Leaseholders who are deleted or have left the club are counted here.
ApiRow(p) ==
    LET completed == TotalOf(Leaseholders(p))
        exempt == \E m \in Leaseholders(p) : IsExempt(m)
    IN [completed |-> completed, exempt |-> exempt,
        open |-> IF exempt THEN 0 ELSE Outstanding(completed),
        fulfilled |-> exempt \/ completed >= config.required]

\* Those whose exemption the page asks for: the tenants of all parcels, or
\* everybody with a row in member_parcel who is not deleted.
Evaluated ==
    IF config.mode = "PER_PARCEL" THEN UNION {Tenants(p) : p \in Parcels}
    ELSE {m \in Members : standing[m] # "deleted" /\ \E p \in Parcels : m \in Leaseholders(p)}
-----------------------------------------------------------------------------
\* Creating a year that exists overwrites it.
ConfigurationCreate(c) ==
    /\ config' = c
    /\ UNCHANGED <<role, held, sponsorship, attendance, lease, standing>>

\* An edit may also move the row to a year that has none.
ConfigurationUpdate(c) ==
    /\ config # None /\ config' \in {c, None}
    /\ UNCHANGED <<role, held, sponsorship, attendance, lease, standing>>

ConfigurationDelete ==
    /\ config # None
    /\ config' = None
    /\ UNCHANGED <<role, held, sponsorship, attendance, lease, standing>>

ClubRoleCreate(r, exempt) ==
    /\ role[r] = "gone"
    /\ role' = [role EXCEPT ![r] = IF exempt THEN "exempt" ELSE "plain"]
    /\ UNCHANGED <<config, held, sponsorship, attendance, lease, standing>>

\* Its holders of the year are exempt from now on, or no longer.
ClubRoleUpdate(r, exempt) ==
    /\ role[r] # "gone"
    /\ role' = [role EXCEPT ![r] = IF exempt THEN "exempt" ELSE "plain"]
    /\ UNCHANGED <<config, held, sponsorship, attendance, lease, standing>>

\* The relationship has no cascade: deleting a role somebody holds sets a
\* column NULL that must not be NULL, and fails.
ClubRoleDelete(r) ==
    /\ role[r] # "gone" /\ \A m \in Members : <<m, r>> \notin held
    /\ role' = [role EXCEPT ![r] = "gone"]
    /\ UNCHANGED <<config, held, sponsorship, attendance, lease, standing>>

\* A second row for the same member, role and year is skipped or refused.
ClubRoleAssign(m, r) ==
    /\ role[r] # "gone" /\ <<m, r>> \notin held
    /\ held' = held \cup {<<m, r>>}
    /\ UNCHANGED <<config, role, sponsorship, attendance, lease, standing>>

\* Also moves an assignment to another member or role; the unique constraint
\* refuses one that exists.
ClubRoleReassign(old, m, r) ==
    /\ old \in held /\ role[r] # "gone" /\ <<m, r>> \notin held
    /\ held' = (held \ {old}) \cup {<<m, r>>}
    /\ UNCHANGED <<config, role, sponsorship, attendance, lease, standing>>

ClubRoleRemove(old) ==
    /\ old \in held
    /\ held' = held \ {old}
    /\ UNCHANGED <<config, role, sponsorship, attendance, lease, standing>>

\* A sponsorship may be advertised without a member.
SponsorshipCreate(x, m, hours, valid) ==
    /\ ~sponsorship[x].here
    /\ sponsorship' = [sponsorship EXCEPT ![x] =
                         [here |-> TRUE, member |-> m, hours |-> hours, valid |-> valid]]
    /\ UNCHANGED <<config, role, held, attendance, lease, standing>>

SponsorshipUpdate(x, m, hours, valid) ==
    /\ sponsorship[x].here
    /\ sponsorship' = [sponsorship EXCEPT ![x] =
                         [here |-> TRUE, member |-> m, hours |-> hours, valid |-> valid]]
    /\ UNCHANGED <<config, role, held, attendance, lease, standing>>

SponsorshipDelete(x) ==
    /\ sponsorship[x].here
    /\ sponsorship' = [sponsorship EXCEPT ![x] = NoSponsorship]
    /\ UNCHANGED <<config, role, held, attendance, lease, standing>>

\* Status and hours of a participation are set together and independently.
Attend(m, status, hours) ==
    /\ attendance' = [attendance EXCEPT ![m] = [status |-> status, hours |-> hours]]
    /\ UNCHANGED <<config, role, held, sponsorship, lease, standing>>

\* Assigning a former tenant again revives the ended row.
MemberAssign(p, m) ==
    /\ lease[p][m] # "current"
    /\ lease' = [lease EXCEPT ![p][m] = "current"]
    /\ UNCHANGED <<config, role, held, sponsorship, attendance, standing>>

MemberRemove(p, m) ==
    /\ lease[p][m] = "current"
    /\ lease' = [lease EXCEPT ![p][m] = "ended"]
    /\ UNCHANGED <<config, role, held, sponsorship, attendance, standing>>

MemberStanding(m, s) ==
    /\ standing[m] # "deleted" /\ s # standing[m]
    /\ standing' = [standing EXCEPT ![m] = s]
    /\ UNCHANGED <<config, role, held, sponsorship, attendance, lease>>
-----------------------------------------------------------------------------
Next ==
    \/ \E c \in Config : ConfigurationCreate(c) \/ ConfigurationUpdate(c)
    \/ ConfigurationDelete
    \/ \E r \in Roles, exempt \in BOOLEAN : ClubRoleCreate(r, exempt) \/ ClubRoleUpdate(r, exempt)
    \/ \E r \in Roles : ClubRoleDelete(r)
    \/ \E m \in Members, r \in Roles : ClubRoleAssign(m, r)
    \/ \E m \in Members, r \in Roles, old \in held : ClubRoleReassign(old, m, r)
    \/ \E old \in held : ClubRoleRemove(old)
    \/ \E x \in Sponsorships, m \in Members \cup {None}, hours \in Hours, valid \in BOOLEAN :
          \/ SponsorshipCreate(x, m, hours, valid)
          \/ SponsorshipUpdate(x, m, hours, valid)
    \/ \E x \in Sponsorships : SponsorshipDelete(x)
    \/ \E m \in Members, hours \in Hours \cup {None}, status \in {"REGISTERED", "ATTENDED"} :
          Attend(m, status, hours)
    \/ \E p \in Parcels, m \in Members : MemberAssign(p, m) \/ MemberRemove(p, m)
    \/ \E m \in Members, s \in {"active", "expired", "deleted"} : MemberStanding(m, s)

Spec == Init /\ [][Next]_vars
-----------------------------------------------------------------------------
\* Page, CSV and REST API compute the standing of a parcel in three copies of
\* the code, and the API counts leaseholders the others leave out.  On a parcel
\* the page lists, however members leave and are deleted: the CSV charges what
\* the page charges and its columns add up; whoever owes hours has not fulfilled,
\* and the other way round; those left out can only lower what the API charges,
\* and if they had neither hours nor a role, it charges what the page charges.
StandingsComparable ==
    config # None /\ config.mode = "PER_PARCEL" =>
        \A p \in Parcels : Tenants(p) # {} =>
            LET page == PageRow(p)
                csv == CsvRow(p)
                api == ApiRow(p)
                left == Leaseholders(p) \ Tenants(p)
            IN
            /\ \A column \in DOMAIN page : csv[column] = page[column]
            /\ csv.session + csv.sponsorship = csv.total
            /\ page.fulfilled <=> page.open = 0
            /\ api.fulfilled <=> api.open = 0
            /\ (\A m \in left : HoursOf(m) >= 0) =>
                  /\ api.open <= page.open
                  /\ page.fulfilled => api.fulfilled
            /\ (\A m \in left : HoursOf(m) = 0 /\ ~IsExempt(m)) =>
                  /\ api.completed = page.total
                  /\ api.open = page.open
                  /\ api.fulfilled = page.fulfilled

\* docs/module-work-hours.md:56: "at least one tenant exempt -> whole parcel
\* exempt", however many exempting roles the tenant holds: the evaluation of a
\* configured year can always be computed.
ExemptionIsEvaluated ==
    config # None => \A m \in Evaluated : ~Raises(m)
=============================================================================
