-------------------------- MODULE PurchaseRequests --------------------------
(***************************************************************************)
(* Purchase requests and their two approvals (app/routers/                 *)
(* purchase_requests.py and, with the same rules, api_purchase_requests.py)*)
(* together with the hard deletion of a user account (app/routers/         *)
(* admin.py), whose cascades reach the approvals.                          *)
(*                                                                         *)
(* As in InvoiceRuns a handler reads, decides on what it has read and      *)
(* writes in its last step, with other requests coming in between.         *)
(***************************************************************************)
EXTENDS Integers, FiniteSets

CONSTANTS
    Requests,   \* identities of purchase requests
    Users,      \* user accounts, each standing for the person behind it
    Board,      \* those who pass require_admin / require_vorstand_api
    Outsider,   \* somebody without an account
    Deletable,  \* accounts an administrator may try to delete
    Workers,    \* requests in flight at the same time
    None        \* null

ASSUME UserAssumption ==
    /\ IsFiniteSet(Users) /\ Board \subseteq Users /\ Deletable \subseteq Users
    /\ Outsider \notin Users /\ None \notin Users \cup {Outsider} \cup Requests

VARIABLES
    status,     \* purchase_requests.status, or "unborn"
    filed,      \* requested_by_id, created_by_id and rejected_by_id
    wantedBy,   \* the person whose e-mail address was entered, None if filed for oneself
    confirmed,  \* confirmed_by_requester
    approvals,  \* the rows of purchase_request_approvals
    accounts,   \* the rows of users
    req         \* what each request in flight has read

vars == <<status, filed, wantedBy, confirmed, approvals, accounts, req>>

RequiredApprovals == 2
Status == {"unborn", "OPEN", "APPROVED", "REJECTED"}
UserRef == Users \cup {None}
Filing == [requestedBy : UserRef, createdBy : UserRef, rejectedBy : UserRef]
Nobody == [requestedBy |-> None, createdBy |-> None, rejectedBy |-> None]

Request == [at : {"idle", "approve", "reject", "delete"}, pr : Requests \cup {None},
            user : UserRef, seen : Nat]
Idle == [at |-> "idle", pr |-> None, user |-> None, seen |-> 0]

TypeOK ==
    /\ status \in [Requests -> Status]
    /\ filed \in [Requests -> Filing]
    /\ wantedBy \in [Requests -> Users \cup {Outsider, None}]
    /\ confirmed \subseteq Requests
    /\ approvals \subseteq Requests \X Users
    /\ accounts \subseteq Users
    /\ req \in [Workers -> Request]
    /\ \A w \in Workers : req[w].at \in {"approve", "reject"} =>
          req[w].pr \in Requests /\ req[w].user \in Users

Init ==
    /\ status = [p \in Requests |-> "unborn"]
    /\ filed = [p \in Requests |-> Nobody]
    /\ wantedBy = [p \in Requests |-> None]
    /\ confirmed = {}
    /\ approvals = {}
    /\ accounts = Users
    /\ req = [w \in Workers |-> Idle]
-----------------------------------------------------------------------------
ApproversOf(p) == {u \in Users : <<p, u>> \in approvals}

Filers(p) == {filed[p].requestedBy, filed[p].createdBy}

Begin(w, q) == req[w] = Idle /\ req' = [req EXCEPT ![w] = q]

OneStep == (\E w \in Workers : req[w] = Idle) /\ UNCHANGED req

End(w) == req' = [req EXCEPT ![w] = Idle]

\* A unique or foreign-key violation is not caught: the session rolls back.
Rollback(w) ==
    /\ End(w)
    /\ UNCHANGED <<status, filed, wantedBy, confirmed, approvals, accounts>>

\* Filed by u for u itself, or by u for the person `other`, who is only known
\* by the address typed in and gets a confirmation link there.
CreateRequest(p, u, other) ==
    /\ status[p] = "unborn" /\ u \in accounts
    /\ status' = [status EXCEPT ![p] = "OPEN"]
    /\ filed' = [filed EXCEPT ![p].createdBy = u,
                              ![p].requestedBy = IF other = None THEN u ELSE None]
    /\ wantedBy' = [wantedBy EXCEPT ![p] = other]
    /\ OneStep
    /\ UNCHANGED <<confirmed, approvals, accounts>>

\* The public confirmation page looks at nothing but the token.
Confirm(p) ==
    /\ wantedBy[p] # None
    /\ confirmed' = confirmed \cup {p}
    /\ OneStep
    /\ UNCHANGED <<status, filed, wantedBy, approvals, accounts>>

ApproveLoadByFiler(w, p, u) ==   \* MUTANT of ApproveLoad
    /\ u \in Board \cap accounts
    /\ status[p] = "OPEN"
    /\ u \notin ApproversOf(p)
    /\ Begin(w, [at |-> "approve", pr |-> p, user |-> u,
                 seen |-> Cardinality(ApproversOf(p))])
    /\ UNCHANGED <<status, filed, wantedBy, confirmed, approvals, accounts>>

ApproveLoad(w, p, u) ==
    /\ u \in Board \cap accounts
    /\ status[p] = "OPEN"
    /\ u \notin Filers(p)
    /\ u \notin ApproversOf(p)
    /\ Begin(w, [at |-> "approve", pr |-> p, user |-> u,
                 seen |-> Cardinality(ApproversOf(p))])
    /\ UNCHANGED <<status, filed, wantedBy, confirmed, approvals, accounts>>

EnoughWithoutOwn(seen) == seen >= RequiredApprovals   \* MUTANT of Enough

Enough(seen) == seen + 1 >= RequiredApprovals

\* The approvals are counted as they were loaded, plus the one just inserted.
ApproveCommit(w) ==
    LET p == req[w].pr
        u == req[w].user
    IN
    /\ req[w].at = "approve"
    /\ IF u \in accounts /\ u \notin ApproversOf(p)
       THEN /\ approvals' = approvals \cup {<<p, u>>}
            /\ status' = IF Enough(req[w].seen)
                         THEN [status EXCEPT ![p] = "APPROVED"] ELSE status
            /\ End(w)
            /\ UNCHANGED <<filed, wantedBy, confirmed, accounts>>
       ELSE Rollback(w)

RejectLoadDecided(w, p, u) ==   \* MUTANT of RejectLoad
    /\ u \in Board \cap accounts
    /\ status[p] # "unborn"
    /\ Begin(w, [Idle EXCEPT !.at = "reject", !.pr = p, !.user = u])
    /\ UNCHANGED <<status, filed, wantedBy, confirmed, approvals, accounts>>

RejectLoad(w, p, u) ==
    /\ u \in Board \cap accounts
    /\ status[p] = "OPEN"
    /\ Begin(w, [Idle EXCEPT !.at = "reject", !.pr = p, !.user = u])
    /\ UNCHANGED <<status, filed, wantedBy, confirmed, approvals, accounts>>

RejectCommit(w) ==
    LET p == req[w].pr IN
    /\ req[w].at = "reject"
    /\ IF req[w].user \in accounts
       THEN /\ status' = [status EXCEPT ![p] = "REJECTED"]
            /\ filed' = [filed EXCEPT ![p].rejectedBy = req[w].user]
            /\ End(w)
            /\ UNCHANGED <<wantedBy, confirmed, approvals, accounts>>
       ELSE Rollback(w)

HasHistoryNullable(u) ==   \* MUTANT of HasHistory
    \E p \in Requests : u \in {filed[p].requestedBy, filed[p].createdBy, filed[p].rejectedBy}

\* _user_has_history, restricted to the tables of this module; its queries are
\* one step here.
HasHistory(u) ==
    \E p \in Requests : u \in {filed[p].requestedBy, filed[p].createdBy, filed[p].rejectedBy}
                        \/ <<p, u>> \in approvals

UserDeleteLoad(w, u) ==
    /\ u \in Deletable \cap accounts
    /\ ~HasHistory(u)
    /\ Begin(w, [Idle EXCEPT !.at = "delete", !.user = u])
    /\ UNCHANGED <<status, filed, wantedBy, confirmed, approvals, accounts>>

\* The foreign keys of the requests are ON DELETE SET NULL, those of the
\* approvals ON DELETE CASCADE.
UserDeleteCommit(w) ==
    LET u == req[w].user
        Forget(v) == IF v = u THEN None ELSE v
    IN
    /\ req[w].at = "delete"
    /\ accounts' = accounts \ {u}
    /\ approvals' = {a \in approvals : a[2] # u}
    /\ filed' = [p \in Requests |->
                    [requestedBy |-> Forget(filed[p].requestedBy),
                     createdBy |-> Forget(filed[p].createdBy),
                     rejectedBy |-> Forget(filed[p].rejectedBy)]]
    /\ End(w)
    /\ UNCHANGED <<status, wantedBy, confirmed>>

Next ==
    \/ \E p \in Requests :
          \/ \E u \in Users, other \in Users \cup {Outsider, None} :
                CreateRequest(p, u, other)
          \/ Confirm(p)
          \/ \E w \in Workers, u \in Users : ApproveLoad(w, p, u) \/ RejectLoad(w, p, u)
    \/ \E w \in Workers :
          \/ ApproveCommit(w)
          \/ RejectCommit(w)
          \/ \E u \in Users : UserDeleteLoad(w, u)
          \/ UserDeleteCommit(w)

Spec == Init /\ [][Next]_vars
-----------------------------------------------------------------------------
\* Four eyes: an APPROVED request has two approvals, none by who asked for it
\* or entered it, although each handler counts what it loaded before.
FourEyes ==
    \A p \in Requests :
        /\ status[p] = "APPROVED" => Cardinality(ApproversOf(p)) >= RequiredApprovals
        /\ ApproversOf(p) \cap Filers(p) = {}

\* "Once 2 distinct approvals are reached, the status switches to APPROVED"
\* (api_purchase_requests.py): nothing with two approvals is left OPEN.
TwoApprovalsDecide ==
    \A p \in Requests :
        Cardinality(ApproversOf(p)) >= RequiredApprovals => status[p] # "OPEN"

\* A decision is final: approve and reject refuse a request that is not OPEN
\* ("Purchase request is already APPROVED").
DecisionsStay ==
    [][\A p \in Requests : status[p] \in {"APPROVED", "REJECTED"} => status'[p] = status[p]]_vars

\* "The requester themselves doesn't count as an approver" (models.py), also
\* when somebody else entered the request for them.
RequesterNeverApproves ==
    \A a \in approvals : a[2] # wantedBy[a[1]]

\* An account is only deleted when it has zero footprint (ADR 0040), so no
\* approval is ever lost.
ApprovalsStay == [][approvals \subseteq approvals']_vars
=============================================================================
