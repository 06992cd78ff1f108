-------------------------- MODULE AdminAccessProofs --------------------------
(***************************************************************************)
(* Theorems about AdminAccess, for any sets of accounts, groups and        *)
(* invitations: types with any number of overlapping requests, and the     *)
(* lock-out guard for requests that do not overlap.                        *)
(***************************************************************************)
EXTENDS AdminAccess, TLAPS

WorkersOK == worker \in [Workers -> Worker] /\ \A w \in Workers : RequestOK(worker[w])

\* The steps that touch invitation i and no request.
InvitationAlone(i) ==
    \/ \E a \in Users : InvitationDelete(a, i) \/ InvitationResend(a, i)
    \/ InvitationExpires(i)

LEMMA BeginType ==
    ASSUME TypeOK, NEW w \in Workers, NEW q \in Worker, RequestOK(q), Begin(w, q)
    PROVE  WorkersOK'
BY DEF TypeOK, Begin, RequestOK, WorkersOK

LEMMA EndType ==
    ASSUME TypeOK, NEW w \in Workers, End(w)
    PROVE  WorkersOK'
BY DEF TypeOK, End, Idle, Worker, RequestOK, WorkersOK

\* What a request writes down between its check and its commit has its type.
LEMMA RequestsTyped == TypeOK /\ [Next]_vars => WorkersOK'
<1> SUFFICES ASSUME TypeOK, [Next]_vars PROVE WorkersOK'
  OBVIOUS
<1> USE AccessAssumption DEF Worker, RequestOK, Idle, Role, Kind
<1>1. ASSUME OneStep \/ UNCHANGED vars PROVE WorkersOK'
  BY <1>1 DEF OneStep, vars, TypeOK, WorkersOK
<1>2. ASSUME NEW w \in Workers, NEW a \in Users, NEW u \in Users,
             \/ UserDeactivateLoad(w, a, u)
             \/ UserDeleteLoad(w, a, u)
             \/ \E g \in Groups : MemberAddLoad(w, a, u, g) \/ MemberRemoveLoad(w, a, u, g)
      PROVE  WorkersOK'
  <2>1. user[u].active \in BOOLEAN
    BY DEF TypeOK, RowsOK, User
  <2>2. CASE UserDeactivateLoad(w, a, u)
    BY <2>1, <2>2, BeginType DEF UserDeactivateLoad
  <2>3. CASE UserDeleteLoad(w, a, u)
    BY <2>3, BeginType DEF UserDeleteLoad
  <2>4. CASE \E g \in Groups : MemberAddLoad(w, a, u, g) \/ MemberRemoveLoad(w, a, u, g)
    BY <2>4, BeginType DEF MemberAddLoad, MemberRemoveLoad
  <2> QED
    BY <1>2, <2>2, <2>3, <2>4
<1>3. ASSUME NEW w \in Workers, NEW a \in Users, NEW u \in Users, NEW role \in Role,
             UserEditLoad(w, a, u, role)
      PROVE  WorkersOK'
  BY <1>3, BeginType DEF UserEditLoad
<1>4. ASSUME NEW w \in Workers, NEW a \in Users, NEW u \in Users, NEW targets \in SUBSET Groups,
             UserInviteLoad(w, a, u, targets)
      PROVE  WorkersOK'
  <2>1. Pending(u) \in SUBSET Invitations
    BY DEF Pending
  <2> QED
    BY <1>4, <2>1, BeginType DEF UserInviteLoad
<1>5. ASSUME NEW w \in Workers, NEW a \in Users, NEW g \in Groups,
             \/ \E kind \in {"plain", "admin"} : GroupUpdateLoad(w, a, g, kind)
             \/ GroupDeleteLoad(w, a, g)
      PROVE  WorkersOK'
  BY <1>5, BeginType DEF GroupUpdateLoad, GroupDeleteLoad
<1>6. ASSUME NEW w \in Workers, NEW i \in Invitations, InvitationAcceptLoad(w, i)
      PROVE  WorkersOK'
  <2>1. invitation[i].email \in Users /\ invitation[i].groups \in SUBSET Groups
    BY <1>6 DEF InvitationAcceptLoad, TypeOK, RowsOK, Invitation
  <2> QED
    BY <1>6, <2>1, BeginType DEF InvitationAcceptLoad
<1>7. ASSUME NEW w \in Workers,
             \/ \E i \in Invitations : UserInviteCommit(w, i)
             \/ UserDeactivateCommit(w) \/ UserEditCommit(w) \/ UserDeleteCommit(w)
             \/ InvitationAcceptCommit(w) \/ GroupUpdateCommit(w) \/ GroupDeleteCommit(w)
             \/ MemberAddCommit(w) \/ MemberRemoveCommit(w) \/ Rollback(w)
      PROVE  WorkersOK'
  <2>1. End(w)
    BY <1>7 DEF UserInviteCommit, UserDeactivateCommit, UserEditCommit, UserDeleteCommit,
                InvitationAcceptCommit, GroupUpdateCommit, GroupDeleteCommit,
                MemberAddCommit, MemberRemoveCommit, Rollback
  <2> QED
    BY <2>1, EndType
<1>8. ASSUME NEW a \in Users,
             \/ \E g \in Groups, kind \in {"plain", "admin"} : GroupCreate(a, g, kind)
             \/ \E i \in Invitations : InvitationDelete(a, i) \/ InvitationResend(a, i)
      PROVE  WorkersOK'
  BY <1>1, <1>8 DEF GroupCreate, InvitationDelete, InvitationResend
<1>9. ASSUME NEW i \in Invitations, InvitationExpires(i) PROVE WorkersOK'
  BY <1>9 DEF InvitationExpires, TypeOK, WorkersOK
<1> HIDE DEF Worker, RequestOK, Idle, Role, Kind
<1> QED
  BY <1>1, <1>2, <1>3, <1>4, <1>5, <1>6, <1>7, <1>8, <1>9 DEF Next

LEMMA UsersTyped ==
    ASSUME TypeOK, NEW u \in Users
    PROVE  user[u] \in User /\ user[u].groups \in SUBSET Groups
BY DEF TypeOK, RowsOK, User

\* An account, once written, stays well formed and in existing groups.
LEMMA UserWritten ==
    ASSUME TypeOK, NEW u \in Users, NEW row \in User, user' = [user EXCEPT ![u] = row],
           row.exists \/ row = Nobody,
           \A g \in row.groups : group[g] # "none",
           UNCHANGED <<group, invitation>>
    PROVE  RowsOK'
BY DEF TypeOK, RowsOK

LEMMA AccountsTyped ==
    ASSUME TypeOK, NEW w \in Workers,
           \/ UserDeactivateCommit(w) \/ UserEditCommit(w) \/ UserDeleteCommit(w)
           \/ MemberAddCommit(w) \/ MemberRemoveCommit(w)
    PROVE  RowsOK'
<1> DEFINE u == worker[w].user
           g == worker[w].group
<1>1. worker[w] \in Worker /\ RequestOK(worker[w])
  BY DEF TypeOK
<1>2. u \in Users
  BY <1>1 DEF RequestOK, UserDeactivateCommit, UserEditCommit, UserDeleteCommit,
              MemberAddCommit, MemberRemoveCommit
<1>3. /\ user[u] \in User
      /\ \A h \in user[u].groups : group[h] # "none"
      /\ ~user[u].exists => user[u] = Nobody
  BY <1>2 DEF TypeOK, RowsOK
<1>4. CASE UserDeactivateCommit(w)
  <2> DEFINE row == [user[u] EXCEPT !.active = worker[w].active]
  <2>1. row \in User /\ row.exists /\ row.groups = user[u].groups
    BY <1>1, <1>3, <1>4 DEF User, Worker, UserDeactivateCommit
  <2>2. user' = [user EXCEPT ![u] = row]
    BY <1>4, <1>2 DEF UserDeactivateCommit, TypeOK, RowsOK
  <2>9. UNCHANGED <<group, invitation>>
    BY <1>4 DEF UserDeactivateCommit
  <2> HIDE DEF row, u, g
  <2> QED
    BY <1>2, <1>3, <2>1, <2>2, <2>9, UserWritten
<1>5. CASE UserEditCommit(w)
  <2> DEFINE new == IF worker[w].set = None THEN user[u].role ELSE worker[w].set
             row == [user[u] EXCEPT !.role = new]
  <2>1. new \in Role
    BY <1>1, <1>3, <1>5 DEF User, RequestOK, UserEditCommit
  <2>2. row \in User /\ row.exists /\ row.groups = user[u].groups
    BY <2>1, <1>3, <1>5 DEF User, UserEditCommit
  <2>3. user' = [user EXCEPT ![u] = row]
    BY <1>5, <1>2 DEF UserEditCommit, TypeOK, RowsOK
  <2>9. UNCHANGED <<group, invitation>>
    BY <1>5 DEF UserEditCommit
  <2> HIDE DEF row, u, g
  <2> QED
    BY <1>2, <1>3, <2>2, <2>3, <2>9, UserWritten
<1>6. CASE UserDeleteCommit(w)
  <2>1. Nobody \in User /\ Nobody.groups = {}
    BY DEF User, Nobody, Role
  <2> QED
    BY <1>2, <1>6, <2>1, UserWritten DEF UserDeleteCommit
<1>7. CASE MemberAddCommit(w)
  <2> DEFINE row == [user[u] EXCEPT !.groups = @ \cup {g}]
  <2>1. g \in Groups /\ group[g] # "none"
    BY <1>1, <1>7 DEF RequestOK, MemberAddCommit, Exists
  <2>2. row \in User /\ row.exists /\ row.groups = user[u].groups \cup {g}
    BY <2>1, <1>3, <1>7 DEF User, MemberAddCommit
  <2>3. user' = [user EXCEPT ![u] = row]
    BY <1>7, <1>2 DEF MemberAddCommit, TypeOK, RowsOK
  <2>9. UNCHANGED <<group, invitation>>
    BY <1>7 DEF MemberAddCommit
  <2> HIDE DEF row, u, g
  <2> QED
    BY <1>2, <1>3, <2>1, <2>2, <2>3, <2>9, UserWritten
<1>8. CASE MemberRemoveCommit(w)
  <2> DEFINE row == [user[u] EXCEPT !.groups = @ \ {g}]
  <2>1. row \in User /\ row.groups = user[u].groups \ {g} /\ row.exists = user[u].exists
    BY <1>3 DEF User
  <2>2. row.exists \/ row = Nobody
    <3>1. CASE user[u] = Nobody
      BY <3>1 DEF Nobody
    <3> QED
      BY <1>3, <2>1, <3>1
  <2>3. user' = [user EXCEPT ![u] = row]
    BY <1>8, <1>2 DEF MemberRemoveCommit, TypeOK, RowsOK
  <2>9. UNCHANGED <<group, invitation>>
    BY <1>8 DEF MemberRemoveCommit
  <2> HIDE DEF row, u, g
  <2> QED
    BY <1>2, <1>3, <2>1, <2>2, <2>3, <2>9, UserWritten
<1> QED
  BY <1>4, <1>5, <1>6, <1>7, <1>8

LEMMA InvitationsTyped ==
    ASSUME TypeOK,
           \/ \E w \in Workers, i \in Invitations : UserInviteCommit(w, i)
           \/ \E w \in Workers : InvitationAcceptCommit(w)
           \/ \E i \in Invitations : InvitationAlone(i)
    PROVE  RowsOK'
<1> USE AccessAssumption
<1>1. NoInvitation \in Invitation /\ Closed \in Invitation /\ Closed.groups = {}
      /\ NoInvitation.groups = {} /\ Closed.status = "closed" /\ NoInvitation.status = "none"
      /\ Closed.email = None /\ NoInvitation.email = None
  BY DEF NoInvitation, Closed, Invitation
<1>2. ASSUME NEW w \in Workers, NEW i \in Invitations, UserInviteCommit(w, i) PROVE RowsOK'
  <2> DEFINE row == [status |-> "PENDING", email |-> worker[w].user,
                     groups |-> worker[w].groups, overdue |-> FALSE]
  <2>1. worker[w].user \in Users /\ worker[w].groups \in SUBSET Groups
    BY <1>2 DEF TypeOK, RequestOK, Worker, UserInviteCommit
  <2>2. row \in Invitation /\ row.email # None /\ row.status = "PENDING"
        /\ \A g \in row.groups : group[g] # "none"
    BY <1>2, <2>1 DEF Invitation, UserInviteCommit, Exists
  <2>3. invitation' = [j \in Invitations |-> CASE j = i -> row
                                               [] j \in worker[w].seen -> Closed
                                               [] OTHER -> invitation[j]]
    BY <1>2 DEF UserInviteCommit
  <2>4. \A j \in Invitations : invitation'[j] \in {row, Closed, invitation[j]}
    BY <2>3
  <2> HIDE DEF row
  <2>5. invitation' \in [Invitations -> Invitation]
    BY <1>1, <2>2, <2>3, <2>4 DEF TypeOK, RowsOK
  <2>6. UNCHANGED <<user, group>>
    BY <1>2 DEF UserInviteCommit
  <2>7. \A j \in Invitations : /\ invitation'[j].status = "PENDING" <=> invitation'[j].email # None
                               /\ \A g \in invitation'[j].groups : group[g] # "none"
    BY <1>1, <2>2, <2>4 DEF TypeOK, RowsOK
  <2> QED
    BY <2>5, <2>6, <2>7 DEF TypeOK, RowsOK
<1>3. ASSUME NEW w \in Workers, InvitationAcceptCommit(w) PROVE RowsOK'
  <2>1. worker[w].user \in Users /\ worker[w].groups \in SUBSET Groups
    BY <1>3 DEF TypeOK, RequestOK, Worker, InvitationAcceptCommit
  <2>2. Joined(worker[w].groups) \in User /\ Joined(worker[w].groups).exists
        /\ Joined(worker[w].groups).groups = worker[w].groups
    BY <2>1 DEF Joined, User, Role
  <2>3. \A j \in Invitations : invitation'[j] \in {Closed, invitation[j]}
    BY <1>3 DEF InvitationAcceptCommit
  <2>4. invitation' \in [Invitations -> Invitation]
    BY <1>1, <1>3, <2>3 DEF InvitationAcceptCommit, TypeOK, RowsOK
  <2>5. user' \in [Users -> User] /\ \A u \in Users : ~user'[u].exists => user'[u] = Nobody
    BY <1>3, <2>1, <2>2 DEF InvitationAcceptCommit, TypeOK, RowsOK
  <2>6. \A u \in Users : \A g \in user'[u].groups : group'[g] # "none"
    BY <1>3, <2>1, <2>2 DEF InvitationAcceptCommit, TypeOK, RowsOK, Exists
  <2> QED
    BY <1>1, <1>3, <2>3, <2>4, <2>5, <2>6 DEF InvitationAcceptCommit, TypeOK, RowsOK
<1>4. ASSUME NEW i \in Invitations, InvitationAlone(i) PROVE RowsOK'
  <2>1. ASSUME NEW a \in Users, InvitationDelete(a, i) PROVE RowsOK'
    BY <1>1, <2>1 DEF InvitationDelete, TypeOK, RowsOK
  <2>2. ASSUME NEW late \in BOOLEAN, UNCHANGED <<user, group>>,
               invitation' = [invitation EXCEPT ![i].overdue = late]
        PROVE  RowsOK'
    <3>1. \A j \in Invitations : /\ invitation'[j] \in Invitation
                                 /\ invitation'[j].groups = invitation[j].groups
                                 /\ invitation'[j].status = invitation[j].status
                                 /\ invitation'[j].email = invitation[j].email
      BY <2>2 DEF TypeOK, RowsOK, Invitation
    <3>2. invitation' \in [Invitations -> Invitation]
      BY <2>2, <3>1 DEF TypeOK, RowsOK
    <3> QED
      BY <2>2, <3>1, <3>2 DEF TypeOK, RowsOK
  <2> QED
    BY <1>4, <2>1, <2>2 DEF InvitationAlone, InvitationResend, InvitationExpires
<1> QED
  BY <1>2, <1>3, <1>4

LEMMA GroupsTyped ==
    ASSUME TypeOK,
           \/ \E a \in Users, g \in Groups, kind \in {"plain", "admin"} : GroupCreate(a, g, kind)
           \/ \E w \in Workers : GroupUpdateCommit(w) \/ GroupDeleteCommit(w)
    PROVE  RowsOK'
<1> USE AccessAssumption DEF Kind
<1>1. ASSUME NEW a \in Users, NEW g \in Groups, NEW kind \in {"plain", "admin"},
             GroupCreate(a, g, kind)
      PROVE  RowsOK'
  <2>1. \A h \in Groups : group[h] # "none" => group'[h] # "none"
    BY <1>1 DEF GroupCreate, TypeOK, RowsOK
  <2>2. group' \in [Groups -> Kind]
    BY <1>1 DEF GroupCreate, TypeOK, RowsOK
  <2> QED
    BY <1>1, <2>1, <2>2, UsersTyped DEF GroupCreate, TypeOK, RowsOK, Invitation
<1>2. ASSUME NEW w \in Workers, GroupUpdateCommit(w) PROVE RowsOK'
  <2>1. worker[w].set \in {"plain", "admin", None} /\ worker[w].group \in Groups
    BY <1>2 DEF GroupUpdateCommit, TypeOK, RequestOK
  <2>2. \A h \in Groups : group[h] # "none" => group'[h] # "none"
    BY <1>2, <2>1 DEF GroupUpdateCommit, TypeOK, RowsOK
  <2>3. group' \in [Groups -> Kind]
    BY <1>2, <2>1 DEF GroupUpdateCommit, TypeOK, RowsOK
  <2> QED
    BY <1>2, <2>2, <2>3, UsersTyped DEF GroupUpdateCommit, TypeOK, RowsOK, Invitation
<1>3. ASSUME NEW w \in Workers, GroupDeleteCommit(w) PROVE RowsOK'
  <2> DEFINE g == worker[w].group
  <2>1. group' = [group EXCEPT ![g] = "none"]
    BY <1>3 DEF GroupDeleteCommit
  <2>2. user' = [u \in Users |-> [user[u] EXCEPT !.groups = @ \ {g}]]
    BY <1>3 DEF GroupDeleteCommit, Without, TypeOK, RowsOK
  <2>3. invitation' = [i \in Invitations |-> [invitation[i] EXCEPT !.groups = @ \ {g}]]
    BY <1>3 DEF GroupDeleteCommit, Without, TypeOK, RowsOK
  <2>4. group' \in [Groups -> Kind] /\ \A h \in Groups : h # g => group'[h] = group[h]
    BY <2>1 DEF TypeOK, RowsOK
  <2>5. \A u \in Users : /\ user'[u] \in User
                         /\ user'[u].groups = user[u].groups \ {g}
                         /\ user'[u].exists = user[u].exists
                         /\ user[u] = Nobody => user'[u] = Nobody
    <3> TAKE u \in Users
    <3>1. user[u] \in User /\ user'[u] = [user[u] EXCEPT !.groups = @ \ {g}]
      BY <2>2 DEF TypeOK, RowsOK
    <3>2. ASSUME user[u] = Nobody PROVE user'[u] = Nobody
      BY <3>1, <3>2 DEF Nobody
    <3> QED
      BY <3>1, <3>2 DEF User
  <2>6. \A i \in Invitations : /\ invitation'[i] \in Invitation
                               /\ invitation'[i].groups = invitation[i].groups \ {g}
                               /\ invitation'[i].status = invitation[i].status
                               /\ invitation'[i].email = invitation[i].email
    BY <2>3 DEF TypeOK, RowsOK, Invitation
  <2>7. user' \in [Users -> User] /\ invitation' \in [Invitations -> Invitation]
    BY <2>2, <2>3, <2>5, <2>6
  <2>8. \A u \in Users : \A h \in user'[u].groups : h \in Groups /\ h # g /\ group[h] # "none"
    BY <2>5 DEF TypeOK, RowsOK, User
  <2>9. \A i \in Invitations : \A h \in invitation'[i].groups :
            h \in Groups /\ h # g /\ group[h] # "none"
    BY <2>6 DEF TypeOK, RowsOK, Invitation
  <2> QED
    BY <2>4, <2>5, <2>6, <2>7, <2>8, <2>9 DEF TypeOK, RowsOK
<1> QED
  BY <1>1, <1>2, <1>3

\* The steps of request w that read and decide, and those that write and end it.
Loads(w) ==
    \/ \E a, u \in Users :
          \/ UserDeactivateLoad(w, a, u)
          \/ \E role \in Role : UserEditLoad(w, a, u, role)
          \/ UserDeleteLoad(w, a, u)
          \/ \E targets \in SUBSET Groups : UserInviteLoad(w, a, u, targets)
          \/ \E g \in Groups : MemberAddLoad(w, a, u, g) \/ MemberRemoveLoad(w, a, u, g)
    \/ \E a \in Users, g \in Groups :
          \/ \E kind \in {"plain", "admin"} : GroupUpdateLoad(w, a, g, kind)
          \/ GroupDeleteLoad(w, a, g)
    \/ \E i \in Invitations : InvitationAcceptLoad(w, i)

Commits(w) ==
    \/ UserDeactivateCommit(w) \/ UserEditCommit(w) \/ UserDeleteCommit(w)
    \/ InvitationAcceptCommit(w) \/ GroupUpdateCommit(w) \/ GroupDeleteCommit(w)
    \/ MemberAddCommit(w) \/ MemberRemoveCommit(w)

LEMMA LoadsOnlyRead ==
    ASSUME NEW w \in Workers, Loads(w)
    PROVE  UNCHANGED <<user, group, invitation>>
<1>1. ASSUME NEW a \in Users, NEW u \in Users,
             \/ UserDeactivateLoad(w, a, u)
             \/ \E role \in Role : UserEditLoad(w, a, u, role)
             \/ UserDeleteLoad(w, a, u)
      PROVE  UNCHANGED <<user, group, invitation>>
  BY <1>1 DEF UserDeactivateLoad, UserEditLoad, UserDeleteLoad
<1>2. ASSUME NEW a \in Users, NEW u \in Users,
             \/ \E targets \in SUBSET Groups : UserInviteLoad(w, a, u, targets)
             \/ \E g \in Groups : MemberAddLoad(w, a, u, g) \/ MemberRemoveLoad(w, a, u, g)
      PROVE  UNCHANGED <<user, group, invitation>>
  BY <1>2 DEF UserInviteLoad, MemberAddLoad, MemberRemoveLoad
<1>3. ASSUME NEW a \in Users, NEW g \in Groups,
             \/ \E kind \in {"plain", "admin"} : GroupUpdateLoad(w, a, g, kind)
             \/ GroupDeleteLoad(w, a, g)
      PROVE  UNCHANGED <<user, group, invitation>>
  BY <1>3 DEF GroupUpdateLoad, GroupDeleteLoad
<1>4. ASSUME NEW i \in Invitations, InvitationAcceptLoad(w, i)
      PROVE  UNCHANGED <<user, group, invitation>>
  BY <1>4 DEF InvitationAcceptLoad
<1> QED
  BY <1>1, <1>2, <1>3, <1>4 DEF Loads

\* Every step, by what it does to the rows.
LEMMA NextSteps ==
    ASSUME Next
    PROVE  \/ \E i \in Invitations : InvitationAlone(i)
           \/ \E a \in Users, g \in Groups, kind \in {"plain", "admin"} : GroupCreate(a, g, kind)
           \/ \E w \in Workers, i \in Invitations : UserInviteCommit(w, i)
           \/ \E w \in Workers : Loads(w) \/ Commits(w) \/ Rollback(w)
<1>1. CASE \E a \in Users :
              \/ \E g \in Groups, kind \in {"plain", "admin"} : GroupCreate(a, g, kind)
              \/ \E i \in Invitations : InvitationDelete(a, i) \/ InvitationResend(a, i)
  BY <1>1 DEF InvitationAlone
<1>2. ASSUME NEW w \in Workers,
             \E a, u \in Users :
                \/ UserDeactivateLoad(w, a, u)
                \/ \E role \in Role : UserEditLoad(w, a, u, role)
                \/ UserDeleteLoad(w, a, u)
                \/ \E targets \in SUBSET Groups : UserInviteLoad(w, a, u, targets)
                \/ \E g \in Groups : MemberAddLoad(w, a, u, g) \/ MemberRemoveLoad(w, a, u, g)
      PROVE  Loads(w)
  BY <1>2 DEF Loads
<1>3. ASSUME NEW w \in Workers,
             \E a \in Users, g \in Groups :
                \/ \E kind \in {"plain", "admin"} : GroupUpdateLoad(w, a, g, kind)
                \/ GroupDeleteLoad(w, a, g)
      PROVE  Loads(w)
  BY <1>3 DEF Loads
<1>4. ASSUME NEW w \in Workers, NEW i \in Invitations, InvitationAcceptLoad(w, i)
      PROVE  Loads(w)
  BY <1>4 DEF Loads
<1>5. ASSUME NEW w \in Workers,
             \/ UserDeactivateCommit(w) \/ UserEditCommit(w) \/ UserDeleteCommit(w)
             \/ InvitationAcceptCommit(w) \/ GroupUpdateCommit(w) \/ GroupDeleteCommit(w)
             \/ MemberAddCommit(w) \/ MemberRemoveCommit(w)
      PROVE  Commits(w)
  BY <1>5 DEF Commits
<1>6. CASE \E i \in Invitations : InvitationExpires(i)
  BY <1>6 DEF InvitationAlone
<1> QED
  BY <1>1, <1>2, <1>3, <1>4, <1>5, <1>6 DEF Next

\* Only these actions change rows; all others only begin or end a request.
LEMMA Steps ==
    ASSUME [Next]_vars
    PROVE  \/ UNCHANGED <<user, group, invitation>>
           \/ \E i \in Invitations : InvitationAlone(i)
           \/ \E w \in Workers, i \in Invitations : UserInviteCommit(w, i)
           \/ \E a \in Users, g \in Groups, kind \in {"plain", "admin"} : GroupCreate(a, g, kind)
           \/ \E w \in Workers : Commits(w)
<1>1. CASE UNCHANGED vars
  BY <1>1 DEF vars
<1>2. CASE Next
  <2>1. ASSUME NEW w \in Workers, Loads(w) \/ Rollback(w)
        PROVE  UNCHANGED <<user, group, invitation>>
    BY <2>1, LoadsOnlyRead DEF Rollback
  <2> QED
    BY <1>2, <2>1, NextSteps
<1> QED
  BY <1>1, <1>2

LEMMA TypeInitial == Init => TypeOK
<1> SUFFICES ASSUME Init PROVE TypeOK
  OBVIOUS
<1> USE DEF Init
<1> DEFINE Rows(legacy, into) ==
             /\ into = {} => \E first \in Users : legacy = {first}
             /\ user = [u \in Users |-> IF u \in legacy
                          THEN [exists |-> TRUE, role |-> "ADMIN", active |-> TRUE,
                                groups |-> into]
                          ELSE Nobody]
<1>1. PICK admins \in Groups :
          /\ group = [g \in Groups |-> IF g = admins THEN "admin" ELSE "none"]
          /\ \E legacy \in (SUBSET Users) \ {{}}, into \in {{}, {admins}} : Rows(legacy, into)
  OBVIOUS
<1>2. PICK legacy \in (SUBSET Users) \ {{}}, into \in {{}, {admins}} : Rows(legacy, into)
  BY <1>1
<1>3. user \in [Users -> User]
  BY <1>2 DEF User, Nobody, Role
<1>4. \A u \in Users : user[u].groups \subseteq {admins} /\ (~user[u].exists => user[u] = Nobody)
  BY <1>2 DEF Nobody
<1>5. group \in [Groups -> Kind] /\ group[admins] # "none"
  BY <1>1 DEF Kind
<1>6. invitation \in [Invitations -> Invitation]
      /\ \A i \in Invitations : invitation[i] = NoInvitation
  BY DEF Invitation, NoInvitation
<1>7. RowsOK
  BY <1>3, <1>4, <1>5, <1>6 DEF RowsOK, NoInvitation
<1> QED
  BY <1>7, AccessAssumption DEF TypeOK, RequestOK, Worker, Idle

LEMMA TypeInductive == TypeOK /\ [Next]_vars => TypeOK'
<1> SUFFICES ASSUME TypeOK, [Next]_vars PROVE RowsOK'
  BY RequestsTyped DEF TypeOK, WorkersOK
<1>1. CASE UNCHANGED <<user, group, invitation>>
  BY <1>1 DEF TypeOK, RowsOK
<1> QED
  BY <1>1, Steps, AccountsTyped, InvitationsTyped, GroupsTyped DEF Commits

\* Every reachable state is well typed: memberships and targets refer to groups
\* that exist, and a PENDING invitation has an address.
THEOREM TypeCorrect == Spec => []TypeOK
BY TypeInitial, TypeInductive, PTL DEF Spec
-----------------------------------------------------------------------------
\* Requests that do not overlap.
OneAtATime == \A v, w \in Workers : v = w

\* What the check of a request still guarantees when it commits.
Safe(q) ==
    /\ q.at \in {"deactivate", "delete"} => \E v \in Users \ {q.user} : Admin(v)
    /\ q.at = "edit" /\ q.set = "READONLY" => \E v \in Users \ {q.user} : Admin(v)
    /\ q.at = "group_update" /\ q.set = "plain" => OtherSystemAdminExists(q.group)
    /\ q.at = "group_delete" => OtherSystemAdminExists(q.group)
    /\ q.at = "member_remove" => \/ \E v \in Users \ {q.user} : Admin(v)
                                 \/ Reaches(q.user, Groups \ {q.group})
    /\ q.at = "delete" => user[q.user].groups = {}
    /\ q.at = "invite" => Pending(q.user) \subseteq q.seen
    /\ q.at = "accept" => Pending(q.user) \subseteq q.seen

AllSafe == \A w \in Workers : Safe(worker[w])

IInv == TypeOK /\ AdminRemains /\ OnePendingPerAddress /\ AllSafe

\* An account that nothing has touched, in groups that kept their kind, still
\* reaches the panel.
LEMMA StillAdmin ==
    ASSUME NEW v \in Users, NEW G \in SUBSET Groups, Reaches(v, G),
           user'[v].exists, user'[v].active, user'[v].role = user[v].role,
           \A g \in user[v].groups \cap G : g \in user'[v].groups /\ group'[g] = group[g]
    PROVE  AdminRemains'
<1>1. Granted(v, G)
  BY DEF Reaches
<1>2. CASE user[v].role = "ADMIN"
  BY <1>2 DEF AdminRemains, Admin, Reaches, Granted
<1>3. CASE \E g \in user[v].groups \cap G : group[g] = "admin"
  BY <1>3 DEF AdminRemains, Admin, Reaches, Granted
<1> QED
  BY <1>1, <1>2, <1>3 DEF Granted

\* A request that begins has made sure of what its commit relies on.
LEMMA LoadsAreSafe ==
    ASSUME IInv, NEW w \in Workers, Loads(w)
    PROVE  Safe(worker'[w])
<1> USE AccessAssumption DEF Role, Kind
<1>0. worker \in [Workers -> Worker]
  BY DEF IInv, TypeOK
<1>1. ASSUME NEW a \in Users, NEW u \in Users, UserDeactivateLoad(w, a, u) PROVE Safe(worker'[w])
  BY <1>0, <1>1 DEF UserDeactivateLoad, Begin, Idle, Safe
<1>2. ASSUME NEW a \in Users, NEW u \in Users, NEW role \in Role, UserEditLoad(w, a, u, role)
      PROVE  Safe(worker'[w])
  <2> DEFINE q == [Idle EXCEPT !.at = "edit", !.user = u,
                               !.set = IF role = user[u].role THEN None ELSE role]
  <2>1. worker'[w] = q /\ q.at = "edit" /\ q.user = u
        /\ q.set = (IF role = user[u].role THEN None ELSE role)
    BY <1>0, <1>2 DEF UserEditLoad, Begin, Idle
  <2> HIDE DEF q
  <2>2. ASSUME q.set = "READONLY" PROVE \E v \in Users \ {u} : Admin(v)
    <3>1. role = "READONLY" /\ user[u].role = "ADMIN"
      BY <2>1, <2>2, UsersTyped DEF User, IInv
    <3>2. CASE user[u].active
      BY <1>2, <3>1, <3>2 DEF UserEditLoad, IsLastAdmin
    <3>3. CASE ~user[u].active
      BY <1>2, <3>3 DEF UserEditLoad, Admin, Reaches
    <3> QED
      BY <3>2, <3>3
  <2> QED
    BY <2>1, <2>2 DEF Safe
<1>3. ASSUME NEW a \in Users, NEW u \in Users, UserDeleteLoad(w, a, u) PROVE Safe(worker'[w])
  <2>1. worker'[w] = [Idle EXCEPT !.at = "delete", !.user = u]
    BY <1>0, <1>3 DEF UserDeleteLoad, Begin
  <2>2. a # u /\ Admin(a) /\ user[u].groups = {}
    BY <1>3 DEF UserDeleteLoad, HasHistory
  <2> QED
    BY <2>1, <2>2 DEF Idle, Safe
<1>4. ASSUME NEW a \in Users, NEW u \in Users, NEW targets \in SUBSET Groups,
             UserInviteLoad(w, a, u, targets)
      PROVE  Safe(worker'[w])
  BY <1>0, <1>4 DEF UserInviteLoad, Begin, Idle, Safe
<1>5. ASSUME NEW a \in Users, NEW u \in Users, NEW g \in Groups, MemberAddLoad(w, a, u, g)
      PROVE  Safe(worker'[w])
  BY <1>0, <1>5 DEF MemberAddLoad, Begin, Idle, Safe
<1>6. ASSUME NEW a \in Users, NEW u \in Users, NEW g \in Groups, MemberRemoveLoad(w, a, u, g)
      PROVE  Safe(worker'[w])
  <2>1. worker'[w] = [Idle EXCEPT !.at = "member_remove", !.user = u, !.group = g]
    BY <1>0, <1>6 DEF MemberRemoveLoad, Begin
  <2>2. Admin(a) /\ g \in user[u].groups
    BY <1>6 DEF MemberRemoveLoad
  <2>3. user[u].exists
    BY <2>2 DEF IInv, TypeOK, RowsOK, Nobody
  <2>4. (\E v \in Users \ {u} : Admin(v)) \/ Reaches(u, Groups \ {g})
    <3>1. CASE a # u
      BY <2>2, <3>1
    <3>2. CASE a = u /\ group[g] # "admin"
      BY <2>2, <3>2 DEF Admin, Reaches, Granted
    <3>3. CASE a = u /\ group[g] = "admin"
      BY <1>6, <2>2, <3>3 DEF MemberRemoveLoad, IsLastAdmin, Admin, Reaches
    <3> QED
      BY <3>1, <3>2, <3>3
  <2> QED
    BY <2>1, <2>4 DEF Idle, Safe
<1>7. ASSUME NEW a \in Users, NEW g \in Groups, NEW kind \in {"plain", "admin"},
             GroupUpdateLoad(w, a, g, kind)
      PROVE  Safe(worker'[w])
  <2> DEFINE q == [Idle EXCEPT !.at = "group_update", !.group = g,
                               !.set = IF kind = group[g] THEN None ELSE kind]
  <2>1. worker'[w] = q /\ q.at = "group_update" /\ q.group = g
        /\ q.set = (IF kind = group[g] THEN None ELSE kind)
    BY <1>0, <1>7 DEF GroupUpdateLoad, Begin, Idle
  <2> HIDE DEF q
  <2>2. group[g] \in {"plain", "admin"}
    BY <1>7 DEF GroupUpdateLoad, Exists, IInv, TypeOK, RowsOK
  <2>3. ASSUME q.set = "plain" PROVE OtherSystemAdminExists(g)
    BY <1>7, <2>1, <2>2, <2>3 DEF GroupUpdateLoad
  <2> QED
    BY <2>1, <2>3 DEF Safe
<1>8. ASSUME NEW a \in Users, NEW g \in Groups, GroupDeleteLoad(w, a, g) PROVE Safe(worker'[w])
  <2>1. worker'[w] = [Idle EXCEPT !.at = "group_delete", !.group = g]
    BY <1>0, <1>8 DEF GroupDeleteLoad, Begin
  <2>2. OtherSystemAdminExists(g)
    <3>1. CASE group[g] = "admin"
      BY <1>8, <3>1 DEF GroupDeleteLoad
    <3>2. CASE group[g] # "admin"
      <4>1. Admin(a)
        BY <1>8 DEF GroupDeleteLoad
      <4> QED
        BY <3>2, <4>1 DEF OtherSystemAdminExists, Admin, Reaches, Granted
    <3> QED
      BY <3>1, <3>2
  <2> QED
    BY <2>1, <2>2 DEF Idle, Safe
<1>9. ASSUME NEW i \in Invitations, InvitationAcceptLoad(w, i) PROVE Safe(worker'[w])
  <2>1. worker'[w] = [Idle EXCEPT !.at = "accept", !.user = invitation[i].email,
                                  !.groups = invitation[i].groups, !.seen = {i}]
    BY <1>0, <1>9 DEF InvitationAcceptLoad, Begin
  <2>2. Pending(invitation[i].email) \subseteq {i}
    BY <1>9 DEF IInv, OnePendingPerAddress, Pending, InvitationAcceptLoad
  <2>3. UNCHANGED invitation
    BY <1>9 DEF InvitationAcceptLoad
  <2> QED
    BY <2>1, <2>2 DEF Idle, Safe
<1> QED
  BY <1>1, <1>2, <1>3, <1>4, <1>5, <1>6, <1>7, <1>8, <1>9 DEF Loads

\* The commit of a request that its check covers leaves an administrator.
LEMMA CommitsKeepAdmins ==
    ASSUME IInv,
           \/ \E a \in Users, g \in Groups, kind \in {"plain", "admin"} : GroupCreate(a, g, kind)
           \/ \E w \in Workers : Commits(w)
    PROVE  AdminRemains'
<1> USE AccessAssumption DEF Role, Kind
<1>1. /\ user \in [Users -> User] /\ group \in [Groups -> Kind]
      /\ \A u \in Users : user[u].groups \in SUBSET Groups
      /\ \A w \in Workers : RequestOK(worker[w]) /\ Safe(worker[w])
  BY UsersTyped DEF IInv, TypeOK, RowsOK, AllSafe
<1>2. PICK z \in Users : Reaches(z, Groups)
  BY DEF IInv, AdminRemains, Admin
<1>3. ASSUME NEW v \in Users, Reaches(v, Groups), user'[v] = user[v], UNCHANGED group
      PROVE  AdminRemains'
  BY <1>3, StillAdmin DEF Reaches
<1>4. ASSUME NEW w \in Workers, UserDeactivateCommit(w) \/ UserDeleteCommit(w) PROVE AdminRemains'
  <2>1. PICK v \in Users \ {worker[w].user} : Admin(v)
    BY <1>1, <1>4 DEF Safe, UserDeactivateCommit, UserDeleteCommit
  <2>2. user'[v] = user[v] /\ UNCHANGED group
    BY <1>1, <1>4, <2>1 DEF UserDeactivateCommit, UserDeleteCommit
  <2> QED
    BY <1>3, <2>1, <2>2 DEF Admin
<1>5. ASSUME NEW w \in Workers, UserEditCommit(w) PROVE AdminRemains'
  <2> DEFINE u == worker[w].user
             new == IF worker[w].set = None THEN user[u].role ELSE worker[w].set
  <2>1. u \in Users /\ worker[w].set \in Role \cup {None}
    BY <1>1, <1>5 DEF RequestOK, UserEditCommit
  <2>2. user' = [user EXCEPT ![u] = [user[u] EXCEPT !.role = new]] /\ UNCHANGED group
    BY <1>1, <1>5, <2>1 DEF UserEditCommit
  <2>3. CASE worker[w].set = "READONLY"
    <3>1. PICK v \in Users \ {u} : Admin(v)
      BY <1>1, <1>5, <2>3 DEF Safe, UserEditCommit
    <3> QED
      BY <1>1, <1>3, <2>2, <3>1 DEF Admin
  <2>4. CASE worker[w].set # "READONLY" /\ z = u
    <3>1. user'[u] = [user[u] EXCEPT !.role = new] /\ user[u] \in User
      BY <1>1, <2>1, <2>2
    <3>2. /\ user'[u].exists = user[u].exists /\ user'[u].active = user[u].active
          /\ user'[u].groups = user[u].groups
          /\ user'[u].role = user[u].role \/ user'[u].role = "ADMIN"
      BY <2>1, <2>4, <3>1 DEF User
    <3> HIDE DEF u, new
    <3> QED
      BY <1>2, <2>1, <2>2, <2>4, <3>2 DEF AdminRemains, Admin, Reaches, Granted
  <2>5. CASE z # u
    BY <1>1, <1>2, <1>3, <2>2, <2>5
  <2> QED
    BY <2>3, <2>4, <2>5
<1>6. ASSUME NEW w \in Workers, InvitationAcceptCommit(w) PROVE AdminRemains'
  <2>1. z # worker[w].user
    BY <1>2, <1>6 DEF InvitationAcceptCommit, Reaches
  <2>2. user'[z] = user[z] /\ UNCHANGED group
    BY <1>1, <1>6, <2>1 DEF InvitationAcceptCommit
  <2> QED
    BY <1>2, <1>3, <2>2
<1>7. ASSUME NEW a \in Users, NEW g \in Groups, NEW kind \in {"plain", "admin"},
             GroupCreate(a, g, kind)
      PROVE  AdminRemains'
  <2>1. \A h \in user[z].groups : group'[h] = group[h]
    BY <1>1, <1>7 DEF GroupCreate, Exists, IInv, TypeOK, RowsOK
  <2> QED
    BY <1>1, <1>2, <1>7, <2>1, StillAdmin DEF GroupCreate, Reaches
<1>8. ASSUME NEW w \in Workers, GroupUpdateCommit(w) PROVE AdminRemains'
  <2> DEFINE g == worker[w].group
  <2>1. /\ worker[w].at = "group_update" /\ UNCHANGED user
        /\ worker[w].set \in {"plain", "admin", None} /\ g \in Groups
    BY <1>1, <1>8 DEF GroupUpdateCommit, RequestOK
  <2>2. group' = [group EXCEPT ![g] = IF worker[w].set = None THEN group[g] ELSE worker[w].set]
    BY <1>1, <1>8, <2>1 DEF GroupUpdateCommit
  <2>3. CASE worker[w].set = "plain"
    <3>1. PICK v \in Users : Reaches(v, Groups \ {g})
      BY <1>1, <2>1, <2>3 DEF Safe, OtherSystemAdminExists
    <3>2. \A h \in user[v].groups \cap (Groups \ {g}) : group'[h] = group[h]
      BY <1>1, <2>2
    <3> HIDE DEF g
    <3> QED
      BY <2>1, <3>1, <3>2, StillAdmin DEF Reaches
  <2>4. CASE worker[w].set # "plain"
    <3>1. \A h \in Groups : group[h] = "admin" => group'[h] = "admin"
      BY <1>1, <2>1, <2>2, <2>4
    <3> HIDE DEF g
    <3> QED
      BY <1>2, <2>1, <3>1 DEF AdminRemains, Admin, Reaches, Granted
  <2> QED
    BY <2>3, <2>4
<1>9. ASSUME NEW w \in Workers, GroupDeleteCommit(w) PROVE AdminRemains'
  <2> DEFINE g == worker[w].group
  <2>1. PICK v \in Users : Reaches(v, Groups \ {g})
    BY <1>1, <1>9 DEF Safe, OtherSystemAdminExists, GroupDeleteCommit
  <2>2. user'[v] = [user[v] EXCEPT !.groups = @ \ {g}] /\ user[v] \in User
    BY <1>1, <1>9 DEF GroupDeleteCommit, Without
  <2>3. /\ user'[v].exists = user[v].exists /\ user'[v].active = user[v].active
        /\ user'[v].role = user[v].role /\ user'[v].groups = user[v].groups \ {g}
    BY <2>2 DEF User
  <2>4. \A h \in Groups \ {g} : group'[h] = group[h]
    BY <1>1, <1>9 DEF GroupDeleteCommit
  <2> HIDE DEF g
  <2> QED
    BY <2>1, <2>3, <2>4, StillAdmin DEF Reaches
<1>10. ASSUME NEW w \in Workers, MemberAddCommit(w) PROVE AdminRemains'
  <2> DEFINE u == worker[w].user
             g == worker[w].group
  <2>1. user' = [user EXCEPT ![u] = [user[u] EXCEPT !.groups = user[u].groups \cup {g}]]
        /\ UNCHANGED group /\ u \in Users
    BY <1>1, <1>10 DEF MemberAddCommit, RequestOK
  <2>2. user'[z].exists = user[z].exists /\ user'[z].active = user[z].active
        /\ user'[z].role = user[z].role /\ user[z].groups \subseteq user'[z].groups
    BY <1>1, <2>1 DEF User
  <2> HIDE DEF u, g
  <2> QED
    BY <1>2, <2>1, <2>2, StillAdmin DEF Reaches
<1>11. ASSUME NEW w \in Workers, MemberRemoveCommit(w) PROVE AdminRemains'
  <2> DEFINE u == worker[w].user
             g == worker[w].group
  <2>1. user' = [user EXCEPT ![u] = [user[u] EXCEPT !.groups = user[u].groups \ {g}]]
        /\ UNCHANGED group /\ u \in Users
    BY <1>1, <1>11 DEF MemberRemoveCommit, RequestOK
  <2>2. CASE \E v \in Users \ {u} : Admin(v)
    BY <1>1, <1>3, <2>1, <2>2 DEF Admin
  <2>3. CASE Reaches(u, Groups \ {g})
    <3>1. user'[u].exists = user[u].exists /\ user'[u].active = user[u].active
          /\ user'[u].role = user[u].role /\ user'[u].groups = user[u].groups \ {g}
      BY <1>1, <2>1 DEF User
    <3> HIDE DEF u, g
    <3> QED
      BY <2>1, <2>3, <3>1, StillAdmin DEF Reaches
  <2> QED
    BY <1>1, <1>11, <2>2, <2>3 DEF Safe, MemberRemoveCommit
<1> QED
  BY <1>4, <1>5, <1>6, <1>7, <1>8, <1>9, <1>10, <1>11 DEF Commits

\* A new invitation takes the place of those that were pending for its address.
LEMMA InviteReplaces ==
    ASSUME IInv, [Next]_vars
    PROVE  OnePendingPerAddress'
<1>1. CASE UNCHANGED invitation
  BY <1>1 DEF IInv, OnePendingPerAddress
<1>2. ASSUME NEW w \in Workers, NEW i \in Invitations, UserInviteCommit(w, i)
      PROVE  OnePendingPerAddress'
  <2>1. Pending(worker[w].user) \subseteq worker[w].seen
    BY <1>2 DEF IInv, AllSafe, Safe, UserInviteCommit
  <2>2. \A j \in Invitations : j # i /\ invitation'[j].status = "PENDING"
            => j \notin worker[w].seen /\ invitation'[j] = invitation[j]
    BY <1>2 DEF UserInviteCommit, Closed
  <2>3. invitation'[i].email = worker[w].user
    BY <1>2 DEF UserInviteCommit
  <2>4. \A j \in Invitations : j # i /\ invitation'[j].status = "PENDING"
            => invitation'[j].email # worker[w].user
    BY <2>1, <2>2 DEF Pending
  <2> QED
    BY <2>2, <2>3, <2>4 DEF IInv, OnePendingPerAddress
<1>3. ASSUME \A j \in Invitations : invitation'[j].status = "PENDING" =>
                /\ invitation[j].status = "PENDING" /\ invitation'[j].email = invitation[j].email
      PROVE  OnePendingPerAddress'
  BY <1>3 DEF IInv, OnePendingPerAddress
<1>4. ASSUME \/ \E i \in Invitations : InvitationAlone(i)
             \/ \E w \in Workers : InvitationAcceptCommit(w) \/ GroupDeleteCommit(w)
      PROVE  OnePendingPerAddress'
  <2>1. invitation \in [Invitations -> Invitation]
    BY DEF IInv, TypeOK, RowsOK
  <2>2. ASSUME NEW i \in Invitations, InvitationAlone(i)
        PROVE  OnePendingPerAddress'
    <3>1. CASE \E a \in Users : InvitationDelete(a, i)
      BY <1>3, <2>1, <3>1 DEF InvitationDelete, NoInvitation
    <3>2. CASE (\E a \in Users : InvitationResend(a, i)) \/ InvitationExpires(i)
      BY <1>3, <2>1, <3>2 DEF InvitationResend, InvitationExpires, Invitation
    <3> QED
      BY <2>2, <3>1, <3>2 DEF InvitationAlone
  <2>3. ASSUME NEW w \in Workers, InvitationAcceptCommit(w) PROVE OnePendingPerAddress'
    BY <1>3, <2>1, <2>3 DEF InvitationAcceptCommit, Closed
  <2>4. ASSUME NEW w \in Workers, GroupDeleteCommit(w) PROVE OnePendingPerAddress'
    BY <1>3, <2>1, <2>4 DEF GroupDeleteCommit, Without, Invitation
  <2> QED
    BY <1>4, <2>2, <2>3, <2>4
<1>5. ASSUME \/ \E a \in Users, g \in Groups, kind \in {"plain", "admin"} : GroupCreate(a, g, kind)
             \/ \E w \in Workers :
                   \/ UserDeactivateCommit(w) \/ UserEditCommit(w) \/ UserDeleteCommit(w)
                   \/ GroupUpdateCommit(w) \/ MemberAddCommit(w) \/ MemberRemoveCommit(w)
      PROVE  UNCHANGED invitation
  BY <1>5 DEF GroupCreate, UserDeactivateCommit, UserEditCommit, UserDeleteCommit,
              GroupUpdateCommit, MemberAddCommit, MemberRemoveCommit
<1> QED
  BY <1>1, <1>2, <1>4, <1>5, Steps DEF Commits

\* While requests do not overlap, the request that is alive is still right
\* about what it checked: nothing but its own steps has happened since.
LEMMA RequestsStaySafe ==
    ASSUME OneAtATime, IInv, [Next]_vars
    PROVE  AllSafe'
<1>0. worker \in [Workers -> Worker] /\ TypeOK'
  BY TypeInductive DEF IInv, TypeOK
<1>1. CASE UNCHANGED vars
  BY <1>1 DEF vars, IInv, AllSafe, Safe, Admin, Reaches, Granted, OtherSystemAdminExists, Pending
<1>2. ASSUME NEW w \in Workers, worker'[w].at = "idle" PROVE AllSafe'
  BY <1>2 DEF OneAtATime, AllSafe, Safe
<1>3. ASSUME OneStep PROVE AllSafe'
  BY <1>2, <1>3 DEF OneStep, Idle
<1>4. ASSUME NEW w \in Workers, End(w) PROVE AllSafe'
  BY <1>0, <1>2, <1>4 DEF End, Idle
<1>5. ASSUME NEW w \in Workers, UNCHANGED <<user, group, invitation>>, Safe(worker'[w])
      PROVE  AllSafe'
  <2>1. Safe(worker[w])'
    BY <1>5 DEF Safe, Admin, Reaches, Granted, OtherSystemAdminExists, Pending
  <2> QED
    BY <2>1 DEF OneAtATime, AllSafe
<1>6. ASSUME NEW w \in Workers, Loads(w) PROVE AllSafe'
  BY <1>5, <1>6, LoadsAreSafe, LoadsOnlyRead
<1>7. ASSUME NEW w \in Workers, Commits(w) \/ Rollback(w) PROVE AllSafe'
  <2>1. End(w)
    BY <1>7 DEF Commits, UserDeactivateCommit, UserEditCommit, UserDeleteCommit,
                InvitationAcceptCommit, GroupUpdateCommit, GroupDeleteCommit,
                MemberAddCommit, MemberRemoveCommit, Rollback
  <2> QED
    BY <1>4, <2>1
<1>8. ASSUME NEW w \in Workers, NEW i \in Invitations, UserInviteCommit(w, i) PROVE AllSafe'
  BY <1>4, <1>8 DEF UserInviteCommit
<1>9. ASSUME NEW a \in Users,
             \/ \E i \in Invitations : InvitationDelete(a, i) \/ InvitationResend(a, i)
             \/ \E g \in Groups, kind \in {"plain", "admin"} : GroupCreate(a, g, kind)
      PROVE  AllSafe'
  BY <1>3, <1>9 DEF InvitationDelete, InvitationResend, GroupCreate
<1>10. ASSUME NEW i \in Invitations, InvitationExpires(i) PROVE AllSafe'
  <2>1. \A j \in Invitations : /\ invitation'[j].status = invitation[j].status
                               /\ invitation'[j].email = invitation[j].email
    BY <1>10 DEF InvitationExpires, IInv, TypeOK, RowsOK, Invitation
  <2>2. \A e : Pending(e)' = Pending(e)
    BY <2>1 DEF Pending
  <2>3. ASSUME NEW w \in Workers PROVE Safe(worker[w])'
    <3>1. Safe(worker[w]) /\ UNCHANGED <<user, group, worker>>
      BY <1>10 DEF IInv, AllSafe, InvitationExpires
    <3> QED
      BY <2>2, <3>1 DEF Safe, Admin, Reaches, Granted, OtherSystemAdminExists
  <2> QED
    BY <2>3 DEF AllSafe
<1> QED
  BY <1>1, <1>6, <1>7, <1>8, <1>9, <1>10, NextSteps DEF InvitationAlone

LEMMA Invariance == ASSUME OneAtATime PROVE Spec => []IInv
<1>1. Init => IInv
  <2> SUFFICES ASSUME Init PROVE IInv
    OBVIOUS
  <2>1. TypeOK
    BY TypeInitial
  <2>2. AdminRemains
    <3> DEFINE row(into) == [exists |-> TRUE, role |-> "ADMIN", active |-> TRUE, groups |-> into]
    <3>1. PICK legacy \in (SUBSET Users) \ {{}} :
             \E into : user = [u \in Users |-> IF u \in legacy THEN row(into) ELSE Nobody]
      BY DEF Init
    <3>2. PICK u \in Users : u \in legacy
      OBVIOUS
    <3>3. user[u].exists /\ user[u].active /\ user[u].role = "ADMIN"
      BY <3>1, <3>2
    <3> QED
      BY <3>2, <3>3 DEF AdminRemains, Admin, Reaches, Granted
  <2>3. OnePendingPerAddress
    <3>1. \A i \in Invitations : invitation[i].status = "none"
      BY DEF Init, NoInvitation
    <3> QED
      BY <3>1 DEF OnePendingPerAddress
  <2>4. AllSafe
    <3>1. \A w \in Workers : worker[w].at = "idle"
      BY DEF Init, Idle
    <3> QED
      BY <3>1 DEF AllSafe, Safe
  <2> QED
    BY <2>1, <2>2, <2>3, <2>4 DEF IInv
<1>2. IInv /\ [Next]_vars => IInv'
  <2> SUFFICES ASSUME IInv, [Next]_vars PROVE IInv'
    OBVIOUS
  <2>1. TypeOK'
    BY TypeInductive DEF IInv
  <2>2. ASSUME UNCHANGED <<user, group>> PROVE AdminRemains'
    BY <2>2 DEF IInv, AdminRemains, Admin, Reaches, Granted
  <2>3. ASSUME \/ \E i \in Invitations : InvitationAlone(i)
               \/ \E w \in Workers, i \in Invitations : UserInviteCommit(w, i)
        PROVE  UNCHANGED <<user, group>>
    BY <2>3 DEF InvitationAlone, InvitationDelete, InvitationResend, InvitationExpires,
                UserInviteCommit
  <2>4. AdminRemains'
    BY <2>2, <2>3, Steps, CommitsKeepAdmins
  <2> QED
    BY <2>1, <2>4, InviteReplaces, RequestsStaySafe DEF IInv
<1> QED
  BY <1>1, <1>2, PTL DEF Spec

\* Nobody locks everybody out, whatever the sequence of requests, as long as
\* none starts before the one before it has committed.
THEOREM SomebodyIsAdmin == ASSUME OneAtATime PROVE Spec => []AdminRemains
<1>1. IInv => AdminRemains
  BY DEF IInv
<1> QED
  BY <1>1, Invariance, PTL

\* Under the same condition an address has one pending invitation at most.
THEOREM OneInvitation == ASSUME OneAtATime PROVE Spec => []OnePendingPerAddress
<1>1. IInv => OnePendingPerAddress
  BY DEF IInv
<1> QED
  BY <1>1, Invariance, PTL

\* An account that disappears was in no group.
THEOREM ZeroFootprint == ASSUME OneAtATime PROVE Spec => DeletionLosesNoMembership
<1>1. IInv /\ [Next]_vars =>
         [\A u \in Users : user[u].exists /\ ~user'[u].exists => user[u].groups = {}]_vars
  <2> SUFFICES ASSUME IInv, [Next]_vars, NEW u \in Users, user[u].exists, ~user'[u].exists
               PROVE  user[u].groups = {}
    OBVIOUS
  <2>1. user \in [Users -> User]
    BY DEF IInv, TypeOK, RowsOK
  <2>2. PICK w \in Workers : UserDeleteCommit(w) /\ worker[w].user = u
    <3>1. \A w \in Workers : UserDeleteCommit(w) => worker[w].user = u
      BY <2>1 DEF UserDeleteCommit
    <3>2. ~UNCHANGED user
      OBVIOUS
    <3>3. \A w \in Workers :
             ~UserDeactivateCommit(w) /\ ~UserEditCommit(w) /\ ~MemberAddCommit(w)
             /\ ~MemberRemoveCommit(w)
      BY <2>1 DEF UserDeactivateCommit, UserEditCommit, MemberAddCommit, MemberRemoveCommit, User
    <3>4. \A w \in Workers : ~InvitationAcceptCommit(w)
      BY <2>1 DEF InvitationAcceptCommit, Joined
    <3>5. \A w \in Workers : ~GroupDeleteCommit(w)
      BY <2>1 DEF GroupDeleteCommit, Without, User
    <3>6. /\ \A a \in Users, g \in Groups, kind \in {"plain", "admin"} : ~GroupCreate(a, g, kind)
          /\ \A i \in Invitations : ~InvitationAlone(i)
          /\ \A w \in Workers : ~GroupUpdateCommit(w)
          /\ \A w \in Workers, i \in Invitations : ~UserInviteCommit(w, i)
      BY <3>2 DEF GroupCreate, InvitationAlone, InvitationDelete, InvitationResend,
                  InvitationExpires, GroupUpdateCommit, UserInviteCommit
    <3> QED
      BY <3>1, <3>2, <3>3, <3>4, <3>5, <3>6, Steps DEF Commits
  <2> QED
    BY <2>2 DEF IInv, AllSafe, Safe, UserDeleteCommit
<1> QED
  BY <1>1, Invariance, PTL DEF Spec, DeletionLosesNoMembership

\* Whoever joins has no invitation left: the one that was accepted is the only
\* one that was pending for the address.
THEOREM InvitationsUsedUp == ASSUME OneAtATime PROVE Spec => JoiningUsesUpInvitations
<1>1. IInv /\ [Next]_vars =>
         [\A u \in Users : ~user[u].exists /\ user'[u].exists =>
             \A i \in Invitations : ~(invitation'[i].status = "PENDING"
                                       /\ invitation'[i].email = u)]_vars
  <2> SUFFICES ASSUME IInv, [Next]_vars, NEW u \in Users, ~user[u].exists, user'[u].exists,
                      NEW i \in Invitations
               PROVE  ~(invitation'[i].status = "PENDING" /\ invitation'[i].email = u)
    OBVIOUS
  <2>1. user \in [Users -> User]
    BY DEF IInv, TypeOK, RowsOK
  <2>2. PICK w \in Workers : InvitationAcceptCommit(w) /\ worker[w].user = u
    <3>1. \A w \in Workers : InvitationAcceptCommit(w) => worker[w].user = u
      BY <2>1 DEF InvitationAcceptCommit
    <3>2. ~UNCHANGED user
      OBVIOUS
    <3>3. \A w \in Workers :
             ~UserDeactivateCommit(w) /\ ~UserEditCommit(w) /\ ~MemberAddCommit(w)
             /\ ~MemberRemoveCommit(w)
      BY <2>1 DEF UserDeactivateCommit, UserEditCommit, MemberAddCommit, MemberRemoveCommit, User
    <3>4. \A w \in Workers : ~UserDeleteCommit(w)
      BY <2>1 DEF UserDeleteCommit, Nobody
    <3>5. \A w \in Workers : ~GroupDeleteCommit(w)
      BY <2>1 DEF GroupDeleteCommit, Without, User
    <3>6. /\ \A a \in Users, g \in Groups, kind \in {"plain", "admin"} : ~GroupCreate(a, g, kind)
          /\ \A j \in Invitations : ~InvitationAlone(j)
          /\ \A w \in Workers : ~GroupUpdateCommit(w)
          /\ \A w \in Workers, j \in Invitations : ~UserInviteCommit(w, j)
      BY <3>2 DEF GroupCreate, InvitationAlone, InvitationDelete, InvitationResend,
                  InvitationExpires, GroupUpdateCommit, UserInviteCommit
    <3> QED
      BY <3>1, <3>2, <3>3, <3>4, <3>5, <3>6, Steps DEF Commits
  <2>3. Pending(u) \subseteq worker[w].seen
    BY <2>2 DEF IInv, AllSafe, Safe, InvitationAcceptCommit
  <2>4. CASE i \in worker[w].seen
    BY <2>2, <2>4 DEF InvitationAcceptCommit, Closed, NoInvitation
  <2>5. CASE i \notin worker[w].seen
    BY <2>2, <2>3, <2>5 DEF InvitationAcceptCommit, Pending
  <2> QED
    BY <2>4, <2>5
<1> QED
  BY <1>1, Invariance, PTL DEF Spec, JoiningUsesUpInvitations
=============================================================================
