----------------------------- MODULE AdminAccess -----------------------------
(***************************************************************************)
(* Who can reach the administration panel (app/permissions.py,             *)
(* app/routers/admin.py, admin_groups.py, auth.py): accounts with the      *)
(* legacy ADMIN role or in a group that grants_system_admin, the requests  *)
(* that change either, and the invitations that new accounts come from.    *)
(*                                                                         *)
(* An account stands for its address: a change of address is left out. The *)
(* date on which an invitation expires is either past (overdue) or not.    *)
(*                                                                         *)
(* A request checks who asks and whether an administrator would be left    *)
(* (Load), waits, and commits what it decided (Commit).                    *)
(***************************************************************************)
EXTENDS FiniteSets

CONSTANTS
    Users,        \* addresses, each with at most one account
    Groups,       \* ids of groups
    Invitations,  \* ids of invitations
    Workers,      \* requests alive at once
    None

Role == {"ADMIN", "READONLY"}   \* READONLY stands for BOARD and TREASURER too
Kind == {"none", "plain", "admin"}

ASSUME AccessAssumption == None \notin Users \cup Groups \cup Role \cup Kind

VARIABLES
    user,        \* rows of users and of group_memberships
    group,       \* groups.grants_system_admin, or "none" without a row
    invitation,  \* rows of invitations and of invitation_group_targets
    worker

vars == <<user, group, invitation, worker>>

User == [exists : BOOLEAN, role : Role, active : BOOLEAN, groups : SUBSET Groups]
Nobody == [exists |-> FALSE, role |-> "READONLY", active |-> FALSE, groups |-> {}]

\* "closed" is EXPIRED or ACCEPTED: of such a row nothing is read any more.
Invitation == [status : {"none", "PENDING", "closed"}, email : Users \cup {None},
               groups : SUBSET Groups, overdue : BOOLEAN]
NoInvitation == [status |-> "none", email |-> None, groups |-> {}, overdue |-> FALSE]
Closed == [NoInvitation EXCEPT !.status = "closed"]

\* set, active: the column a request is going to write, None for no change;
\* groups, seen: the groups of an invitation, the invitations it loaded.
Worker == [at : {"idle", "deactivate", "edit", "delete", "invite", "accept",
                 "group_update", "group_delete", "member_add", "member_remove"},
           user : Users \cup {None}, group : Groups \cup {None},
           set : Role \cup Kind \cup {None}, active : BOOLEAN,
           groups : SUBSET Groups, seen : SUBSET Invitations]
Idle == [at |-> "idle", user |-> None, group |-> None, set |-> None,
         active |-> FALSE, groups |-> {}, seen |-> {}]

\* Memberships and targets refer to groups that exist.
RowsOK ==
    /\ user \in [Users -> User]
    /\ \A u \in Users : ~user[u].exists => user[u] = Nobody
    /\ group \in [Groups -> Kind]
    /\ invitation \in [Invitations -> Invitation]
    /\ \A i \in Invitations : invitation[i].status = "PENDING" <=> invitation[i].email # None
    /\ \A u \in Users : \A g \in user[u].groups : group[g] # "none"
    /\ \A i \in Invitations : \A g \in invitation[i].groups : group[g] # "none"

RequestOK(q) ==
    /\ q.at \in {"deactivate", "edit", "delete", "invite", "accept",
                "member_add", "member_remove"} => q.user \in Users
    /\ q.at \in {"group_update", "group_delete", "member_add", "member_remove"}
          => q.group \in Groups
    /\ q.at = "edit" => q.set \in Role \cup {None}
    /\ q.at = "group_update" => q.set \in {"plain", "admin", None}

TypeOK ==
    /\ RowsOK
    /\ worker \in [Workers -> Worker]
    /\ \A w \in Workers : RequestOK(worker[w])

\* After the migration that introduced groups: one of them grants the panel,
\* and the ADMINs of that day are in it, if there were any; else the first
\* start-up creates one ADMIN.
Init ==
    /\ \E admins \in Groups :
          /\ group = [g \in Groups |-> IF g = admins THEN "admin" ELSE "none"]
          /\ \E legacy \in (SUBSET Users) \ {{}}, into \in {{}, {admins}} :
                /\ into = {} => \E first \in Users : legacy = {first}
                /\ user = [u \in Users |-> IF u \in legacy
                             THEN [exists |-> TRUE, role |-> "ADMIN", active |-> TRUE,
                                   groups |-> into]
                             ELSE Nobody]
    /\ invitation = [i \in Invitations |-> NoInvitation]
    /\ worker = [w \in Workers |-> Idle]
-----------------------------------------------------------------------------
\* Accounts that require_system_admin lets through.
Granted(u, G) == user[u].role = "ADMIN" \/ \E g \in user[u].groups \cap G : group[g] = "admin"
Reaches(u, G) == user[u].exists /\ user[u].active /\ Granted(u, G)
Admin(u) == Reaches(u, Groups)

IsLastAdmin(u) == ~\E v \in Users \ {u} : Admin(v)
OtherSystemAdminExists(g) == \E v \in Users : Reaches(v, Groups \ {g})

Exists(g) == group[g] # "none"
Begin(w, q) == worker[w] = Idle /\ worker' = [worker EXCEPT ![w] = q]
OneStep == (\E w \in Workers : worker[w] = Idle) /\ UNCHANGED worker
End(w) == worker' = [worker EXCEPT ![w] = Idle]

\* Any request may fail before its commit. It does if a row it updates is gone,
\* or an insert lacks its parent row or meets a unique value.
Rollback(w) ==
    /\ worker[w].at # "idle"
    /\ End(w)
    /\ UNCHANGED <<user, group, invitation>>

UserDeactivateLoadSelf(w, a, u) ==   \* MUTANT of UserDeactivateLoad
    /\ Admin(a) /\ user[u].exists
    /\ ~(user[u].active /\ user[u].role = "ADMIN" /\ IsLastAdmin(u))
    /\ Begin(w, [Idle EXCEPT !.at = "deactivate", !.user = u, !.active = ~user[u].active])
    /\ UNCHANGED <<user, group, invitation>>

\* Switches an account off, or on again; only for ADMINs it asks who is left.
UserDeactivateLoad(w, a, u) ==
    /\ Admin(a) /\ u # a /\ user[u].exists
    /\ ~(user[u].active /\ user[u].role = "ADMIN" /\ IsLastAdmin(u))
    /\ Begin(w, [Idle EXCEPT !.at = "deactivate", !.user = u, !.active = ~user[u].active])
    /\ UNCHANGED <<user, group, invitation>>

UserDeactivateCommit(w) ==
    LET u == worker[w].user IN
    /\ worker[w].at = "deactivate"
    /\ user[u].exists
    /\ user' = [user EXCEPT ![u].active = worker[w].active]
    /\ End(w)
    /\ UNCHANGED <<group, invitation>>

\* The form may carry a role; name and address are left out.
UserEditLoad(w, a, u, role) ==
    /\ Admin(a) /\ user[u].exists
    /\ ~(user[u].role = "ADMIN" /\ role # "ADMIN" /\ user[u].active /\ IsLastAdmin(u))
    /\ Begin(w, [Idle EXCEPT !.at = "edit", !.user = u,
                             !.set = IF role = user[u].role THEN None ELSE role])
    /\ UNCHANGED <<user, group, invitation>>

UserEditCommit(w) ==
    LET u == worker[w].user IN
    /\ worker[w].at = "edit"
    /\ user[u].exists
    /\ user' = [user EXCEPT ![u].role =
                   IF worker[w].set = None THEN @ ELSE worker[w].set]
    /\ End(w)
    /\ UNCHANGED <<group, invitation>>

HasHistoryElsewhere(u) == FALSE   \* MUTANT of HasHistory

\* _user_has_history, of which only GroupMembership is read here: rows of the
\* other tables may keep an account too, as nobody has to delete it.
HasHistory(u) == user[u].groups # {}

UserDeleteLoad(w, a, u) ==
    /\ Admin(a) /\ u # a /\ user[u].exists
    /\ ~(user[u].role = "ADMIN" /\ user[u].active /\ IsLastAdmin(u))
    /\ ~HasHistory(u)
    /\ Begin(w, [Idle EXCEPT !.at = "delete", !.user = u])
    /\ UNCHANGED <<user, group, invitation>>

\* Memberships go with the account (ON DELETE CASCADE).
UserDeleteCommit(w) ==
    /\ worker[w].at = "delete"
    /\ user' = [user EXCEPT ![worker[w].user] = Nobody]
    /\ End(w)
    /\ UNCHANGED <<group, invitation>>

Pending(e) == {i \in Invitations : invitation[i].status = "PENDING" /\ invitation[i].email = e}

\* For an address without an account; the invitations still pending for it
\* are going to expire.
UserInviteLoad(w, a, e, targets) ==
    /\ Admin(a) /\ ~user[e].exists
    /\ \A g \in targets : Exists(g)
    /\ Begin(w, [Idle EXCEPT !.at = "invite", !.user = e, !.groups = targets,
                             !.seen = Pending(e)])
    /\ UNCHANGED <<user, group, invitation>>

UserInviteCommitBeside(w, i) ==   \* MUTANT of UserInviteCommit
    /\ worker[w].at = "invite"
    /\ \A j \in worker[w].seen : invitation[j].status # "none"
    /\ \A g \in worker[w].groups : Exists(g)
    /\ invitation[i].status = "none"
    /\ invitation' = [invitation EXCEPT ![i] =
          [status |-> "PENDING", email |-> worker[w].user, groups |-> worker[w].groups,
           overdue |-> FALSE]]
    /\ End(w)
    /\ UNCHANGED <<user, group>>

UserInviteCommit(w, i) ==
    /\ worker[w].at = "invite"
    /\ \A j \in worker[w].seen : invitation[j].status # "none"
    /\ \A g \in worker[w].groups : Exists(g)
    /\ invitation[i].status = "none"
    /\ invitation' = [j \in Invitations |->
          CASE j = i -> [status |-> "PENDING", email |-> worker[w].user,
                         groups |-> worker[w].groups, overdue |-> FALSE]
            [] j \in worker[w].seen -> Closed
            [] OTHER -> invitation[j]]
    /\ End(w)
    /\ UNCHANGED <<user, group>>

\* invitation_resend: the old link is good again for as long as a new one.
InvitationResend(a, i) ==
    /\ Admin(a) /\ invitation[i].status = "PENDING"
    /\ invitation' = [invitation EXCEPT ![i].overdue = FALSE]
    /\ OneStep
    /\ UNCHANGED <<user, group>>

\* Only the date passes: the row stays PENDING.
InvitationExpires(i) ==
    /\ invitation[i].status = "PENDING"
    /\ invitation' = [invitation EXCEPT ![i].overdue = TRUE]
    /\ UNCHANGED <<user, group, worker>>

InvitationDelete(a, i) ==
    /\ Admin(a) /\ invitation[i].status # "none"
    /\ invitation' = [invitation EXCEPT ![i] = NoInvitation]
    /\ OneStep
    /\ UNCHANGED <<user, group>>

InvitationAcceptLoad(w, i) ==
    /\ invitation[i].status = "PENDING" /\ ~invitation[i].overdue
    /\ Begin(w, [Idle EXCEPT !.at = "accept", !.user = invitation[i].email,
                             !.groups = invitation[i].groups, !.seen = {i}])
    /\ UNCHANGED <<user, group, invitation>>

Joined(groups) == [exists |-> TRUE, role |-> "READONLY", active |-> TRUE, groups |-> groups]

InvitationAcceptCommitOpen(w) ==   \* MUTANT of InvitationAcceptCommit
    /\ worker[w].at = "accept"
    /\ ~user[worker[w].user].exists
    /\ \A g \in worker[w].groups : Exists(g)
    /\ user' = [user EXCEPT ![worker[w].user] = Joined(worker[w].groups)]
    /\ End(w)
    /\ UNCHANGED <<group, invitation>>

\* The address of an account is unique, the groups and the invitation have to
\* be there still; else the insert or the update fails.
InvitationAcceptCommit(w) ==
    /\ worker[w].at = "accept"
    /\ ~user[worker[w].user].exists
    /\ \A g \in worker[w].groups : Exists(g)
    /\ \A i \in worker[w].seen : invitation[i].status # "none"
    /\ user' = [user EXCEPT ![worker[w].user] = Joined(worker[w].groups)]
    /\ invitation' = [i \in Invitations |->
          IF i \in worker[w].seen THEN Closed ELSE invitation[i]]
    /\ End(w)
    /\ UNCHANGED group

GroupCreate(a, g, kind) ==
    /\ Admin(a) /\ ~Exists(g)
    /\ group' = [group EXCEPT ![g] = kind]
    /\ OneStep
    /\ UNCHANGED <<user, invitation>>

GroupUpdateLoad(w, a, g, kind) ==
    /\ Admin(a) /\ Exists(g)
    /\ ~(group[g] = "admin" /\ kind = "plain" /\ ~OtherSystemAdminExists(g))
    /\ Begin(w, [Idle EXCEPT !.at = "group_update", !.group = g,
                             !.set = IF kind = group[g] THEN None ELSE kind])
    /\ UNCHANGED <<user, group, invitation>>

GroupUpdateCommit(w) ==
    LET g == worker[w].group IN
    /\ worker[w].at = "group_update"
    /\ Exists(g)
    /\ group' = [group EXCEPT ![g] =
                    IF worker[w].set = None THEN @ ELSE worker[w].set]
    /\ End(w)
    /\ UNCHANGED <<user, invitation>>

GroupDeleteLoad(w, a, g) ==
    /\ Admin(a) /\ Exists(g)
    /\ ~(group[g] = "admin" /\ ~OtherSystemAdminExists(g))
    /\ Begin(w, [Idle EXCEPT !.at = "group_delete", !.group = g])
    /\ UNCHANGED <<user, group, invitation>>

\* Memberships and targets of invitations go with the group.
Without(g, rows) == [x \in DOMAIN rows |-> [rows[x] EXCEPT !.groups = @ \ {g}]]

GroupDeleteCommit(w) ==
    LET g == worker[w].group IN
    /\ worker[w].at = "group_delete"
    /\ group' = [group EXCEPT ![g] = "none"]
    /\ user' = Without(g, user)
    /\ invitation' = Without(g, invitation)
    /\ End(w)

MemberAddLoad(w, a, u, g) ==
    /\ Admin(a) /\ Exists(g) /\ user[u].exists
    /\ g \notin user[u].groups
    /\ Begin(w, [Idle EXCEPT !.at = "member_add", !.user = u, !.group = g])
    /\ UNCHANGED <<user, group, invitation>>

\* Rolls back on a membership that has come into being meanwhile.
MemberAddCommit(w) ==
    LET u == worker[w].user
        g == worker[w].group
    IN
    /\ worker[w].at = "member_add"
    /\ user[u].exists /\ Exists(g) /\ g \notin user[u].groups
    /\ user' = [user EXCEPT ![u].groups = @ \cup {g}]
    /\ End(w)
    /\ UNCHANGED <<group, invitation>>

\* Another way in counts even for an account that is switched off.
MemberRemoveLoad(w, a, u, g) ==
    /\ Admin(a) /\ g \in user[u].groups
    /\ ~(group[g] = "admin" /\ ~Granted(u, Groups \ {g}) /\ IsLastAdmin(u))
    /\ Begin(w, [Idle EXCEPT !.at = "member_remove", !.user = u, !.group = g])
    /\ UNCHANGED <<user, group, invitation>>

MemberRemoveCommit(w) ==
    /\ worker[w].at = "member_remove"
    /\ user' = [user EXCEPT ![worker[w].user].groups = @ \ {worker[w].group}]
    /\ End(w)
    /\ UNCHANGED <<group, invitation>>

Next ==
    \/ \E a \in Users :
          \/ \E g \in Groups, kind \in {"plain", "admin"} : GroupCreate(a, g, kind)
          \/ \E i \in Invitations : InvitationDelete(a, i) \/ InvitationResend(a, i)
    \/ \E i \in Invitations : InvitationExpires(i)
    \/ \E w \in Workers :
          \/ \E a, u \in Users :
                \/ UserDeactivateLoad(w, a, u)
                \/ \E role \in Role : UserEditLoad(w, a, u, role)
                \/ UserDeleteLoad(w, a, u)
                \/ \E targets \in SUBSET Groups : UserInviteLoad(w, a, u, targets)
                \/ \E g \in Groups : MemberAddLoad(w, a, u, g) \/ MemberRemoveLoad(w, a, u, g)
          \/ \E a \in Users, g \in Groups :
                \/ \E kind \in {"plain", "admin"} : GroupUpdateLoad(w, a, g, kind)
                \/ GroupDeleteLoad(w, a, g)
          \/ \E i \in Invitations : UserInviteCommit(w, i) \/ InvitationAcceptLoad(w, i)
          \/ UserDeactivateCommit(w) \/ UserEditCommit(w) \/ UserDeleteCommit(w)
          \/ InvitationAcceptCommit(w) \/ GroupUpdateCommit(w) \/ GroupDeleteCommit(w)
          \/ MemberAddCommit(w) \/ MemberRemoveCommit(w) \/ Rollback(w)

Spec == Init /\ [][Next]_vars
-----------------------------------------------------------------------------
\* No sequence of deactivations, demotions, deletions and changes of groups
\* locks everybody out of the panel ("with at least one such account left, they
\* can always fix any other access problem", permissions.py).
AdminRemains == \E u \in Users : Admin(u)

\* A second invitation replaces the first ("invalidate the old one instead of
\* letting a second one exist in parallel", user_invite), one that is overdue
\* too: sending it again would bring it back beside the new one.
OnePendingPerAddress ==
    \A i, j \in Invitations :
        /\ invitation[i].status = "PENDING" /\ invitation[j].status = "PENDING"
        /\ invitation[i].email = invitation[j].email
        => i = j

\* Whoever joins leaves no invitation behind that could be accepted again.
JoiningUsesUpInvitations ==
    [][\A u \in Users : ~user[u].exists /\ user'[u].exists =>
          \A i \in Invitations : ~(invitation'[i].status = "PENDING"
                                    /\ invitation'[i].email = u)]_vars

\* An account is deleted only with zero footprint (ADR 0040): no membership is
\* lost with it.
DeletionLosesNoMembership ==
    [][\A u \in Users : user[u].exists /\ ~user'[u].exists => user[u].groups = {}]_vars
=============================================================================
