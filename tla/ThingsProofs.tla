---------------------------- MODULE ThingsProofs ----------------------------
(***************************************************************************)
(* Theorems about the components that Things composes: purchase requests,  *)
(* inventory and loans, metering, and insurance.  They hold for any        *)
(* requests, users, items, loans, meters, years, parcels and amounts and   *)
(* any number of overlapping requests.                                     *)
(***************************************************************************)
EXTENDS Things, FiniteInduction

(***************************************************************************)
(* Purchase requests                                                       *)
(***************************************************************************)
LEMMA ApproversFinite ==
    ASSUME NEW p \in Requests
    PROVE  /\ IsFiniteSet(ApproversOf(p))
           /\ Cardinality(ApproversOf(p)) \in Nat
<1>1. ApproversOf(p) \in SUBSET Users
  BY DEF ApproversOf
<1> QED
  BY <1>1, UserAssumption, FS_Subset, FS_CardinalityType

InFlightOK(q) == q.at \in {"approve", "reject"} => q.pr \in Requests /\ q.user \in Users

ReqOK == req \in [Workers -> Request] /\ \A w \in Workers : InFlightOK(req[w])

LEMMA BeginType ==
    ASSUME TypeOK, NEW w \in Workers, NEW q \in Request, InFlightOK(q), Begin(w, q)
    PROVE  ReqOK'
BY DEF TypeOK, Begin, InFlightOK, ReqOK

LEMMA EndType ==
    ASSUME TypeOK, NEW w \in Workers, End(w)
    PROVE  ReqOK'
BY DEF TypeOK, End, Idle, Request, UserRef, InFlightOK, ReqOK

\* Every reachable state is well typed.
THEOREM PurchaseTypes == Spec => []TypeOK
<1>1. Init => TypeOK
  BY DEF Init, TypeOK, Status, Filing, Nobody, UserRef, Idle, Request, InFlightOK
<1>2. TypeOK /\ [Next]_vars => TypeOK'
  <2> SUFFICES ASSUME TypeOK, [Next]_vars PROVE TypeOK'
    OBVIOUS
  <2> USE DEF TypeOK, ReqOK, InFlightOK
  <2>1. ASSUME NEW p \in Requests, NEW u \in Users, NEW other \in Users \cup {Outsider, None},
               CreateRequest(p, u, other)
        PROVE  TypeOK'
    <3> DEFINE new == [filed[p] EXCEPT !.createdBy = u,
                                       !.requestedBy = IF other = None THEN u ELSE None]
    <3>0. filed[p] \in Filing /\ new \in Filing
      BY DEF Filing, UserRef
    <3>9. filed' = [filed EXCEPT ![p] = new]
      BY <2>1 DEF CreateRequest
    <3>1. filed' \in [Requests -> Filing]
      <4> HIDE DEF new
      <4> QED
        BY <3>0, <3>9
    <3> QED
      BY <2>1, <3>1 DEF CreateRequest, OneStep, Status
  <2>2. ASSUME NEW p \in Requests, Confirm(p) PROVE TypeOK'
    BY <2>2 DEF Confirm, OneStep
  <2>3. ASSUME NEW w \in Workers, NEW p \in Requests, NEW u \in Users, ApproveLoad(w, p, u)
        PROVE  TypeOK'
    <3> DEFINE q == [at |-> "approve", pr |-> p, user |-> u, seen |-> Cardinality(ApproversOf(p))]
    <3>1. q \in Request /\ InFlightOK(q)
      BY ApproversFinite DEF Request, UserRef
    <3>2. ReqOK'
      BY <2>3, <3>1, BeginType DEF ApproveLoad
    <3> QED
      BY <2>3, <3>2 DEF ApproveLoad
  <2>4. ASSUME NEW w \in Workers, NEW p \in Requests, NEW u \in Users, RejectLoad(w, p, u)
        PROVE  TypeOK'
    <3> DEFINE q == [Idle EXCEPT !.at = "reject", !.pr = p, !.user = u]
    <3>1. q \in Request /\ InFlightOK(q)
      BY DEF Request, UserRef, Idle
    <3>2. ReqOK'
      BY <2>4, <3>1, BeginType DEF RejectLoad
    <3> QED
      BY <2>4, <3>2 DEF RejectLoad
  <2>5. ASSUME NEW w \in Workers, NEW u \in Users, UserDeleteLoad(w, u) PROVE TypeOK'
    <3> DEFINE q == [Idle EXCEPT !.at = "delete", !.user = u]
    <3>1. q \in Request /\ InFlightOK(q)
      BY DEF Request, UserRef, Idle
    <3>2. ReqOK'
      BY <2>5, <3>1, BeginType DEF UserDeleteLoad
    <3> QED
      BY <2>5, <3>2 DEF UserDeleteLoad
  <2>6. ASSUME NEW w \in Workers, ApproveCommit(w) PROVE TypeOK'
    <3>1. ReqOK'
      BY <2>6, EndType DEF ApproveCommit, Rollback
    <3>2. status' \in [Requests -> Status] /\ approvals' \subseteq Requests \X Users
      BY <2>6 DEF ApproveCommit, Rollback, Status
    <3> QED
      BY <2>6, <3>1, <3>2 DEF ApproveCommit, Rollback
  <2>7. ASSUME NEW w \in Workers, RejectCommit(w) PROVE TypeOK'
    <3>1. ReqOK'
      BY <2>7, EndType DEF RejectCommit, Rollback
    <3>2. req[w].user \in UserRef
      BY DEF Request
    <3>3. filed' \in [Requests -> Filing]
      BY <2>7, <3>2 DEF RejectCommit, Rollback, Filing
    <3> QED
      BY <2>7, <3>1, <3>3 DEF RejectCommit, Rollback, Status
  <2>8. ASSUME NEW w \in Workers, UserDeleteCommit(w) PROVE TypeOK'
    <3>1. ReqOK'
      BY <2>8, EndType DEF UserDeleteCommit
    <3>2. filed' \in [Requests -> Filing]
      BY <2>8 DEF UserDeleteCommit, Filing, UserRef
    <3> QED
      BY <2>8, <3>1, <3>2 DEF UserDeleteCommit
  <2>9. ASSUME UNCHANGED vars PROVE TypeOK'
    BY <2>9 DEF vars
  <2> QED
    BY <2>1, <2>2, <2>3, <2>4, <2>5, <2>6, <2>7, <2>8, <2>9 DEF Next
<1> QED
  BY <1>1, <1>2, PTL DEF Spec
-----------------------------------------------------------------------------
(***************************************************************************)
(* Four eyes.  The handler of an approval counts the approvals it loaded   *)
(* and its own; other approvals may have been committed in between, so the *)
(* count is only a lower bound, which suffices for the status APPROVED.    *)
(***************************************************************************)

\* What a handler has loaded: no more approvals than there are now, and an
\* approver that neither asked for nor entered the request.
SeenInv ==
    \A w \in Workers : req[w].at = "approve" =>
        /\ req[w].seen <= Cardinality(ApproversOf(req[w].pr))
        /\ req[w].user \notin Filers(req[w].pr)
        /\ status[req[w].pr] # "unborn"

\* Only a request that was filed has approvals.
FiledInv ==
    \A p \in Requests : status[p] = "unborn" => ApproversOf(p) = {}

PurchaseInv == SeenInv /\ FiledInv /\ FourEyes

LEMMA ApprovalAdded ==
    ASSUME NEW p \in Requests, NEW u \in Users, u \notin ApproversOf(p),
           approvals' = approvals \cup {<<p, u>>}
    PROVE  \A o \in Requests :
              /\ ApproversOf(o)' = IF o = p THEN ApproversOf(o) \cup {u} ELSE ApproversOf(o)
              /\ Cardinality(ApproversOf(o)') =
                    IF o = p THEN Cardinality(ApproversOf(o)) + 1 ELSE Cardinality(ApproversOf(o))
<1> SUFFICES ASSUME NEW o \in Requests
             PROVE  /\ ApproversOf(o)' = IF o = p THEN ApproversOf(o) \cup {u} ELSE ApproversOf(o)
                    /\ Cardinality(ApproversOf(o)') =
                          IF o = p THEN Cardinality(ApproversOf(o)) + 1
                          ELSE Cardinality(ApproversOf(o))
  OBVIOUS
<1>1. ApproversOf(o)' = IF o = p THEN ApproversOf(o) \cup {u} ELSE ApproversOf(o)
  BY DEF ApproversOf
<1>2. Cardinality(ApproversOf(p) \cup {u}) = Cardinality(ApproversOf(p)) + 1
  BY ApproversFinite, FS_AddElement
<1> QED
  BY <1>1, <1>2

\* Everything but the deletion of an account keeps four eyes, however many
\* handlers overlap.
LEMMA FourEyesStep ==
    ASSUME TypeOK, PurchaseInv, [Next]_vars, \A w \in Workers : ~UserDeleteCommit(w)
    PROVE  PurchaseInv'
<1> USE DEF PurchaseInv
<1>1. ASSUME NEW p \in Requests, NEW u \in Users, NEW other \in Users \cup {Outsider, None},
             CreateRequest(p, u, other)
      PROVE  PurchaseInv'
  <2>1. \A o \in Requests : ApproversOf(o)' = ApproversOf(o)
    BY <1>1 DEF CreateRequest, ApproversOf
  <2>2. \A o \in Requests : o # p => Filers(o)' = Filers(o) /\ status'[o] = status[o]
    BY <1>1 DEF CreateRequest, Filers, TypeOK
  <2>3. ApproversOf(p) = {} /\ status'[p] = "OPEN"
    BY <1>1 DEF CreateRequest, FiledInv, TypeOK
  <2>4. \A w \in Workers : req'[w] = req[w] /\ (req[w].at = "approve" => req[w].pr # p)
    BY <1>1 DEF CreateRequest, OneStep, SeenInv
  <2>5. SeenInv'
    BY <2>1, <2>2, <2>4 DEF SeenInv, TypeOK
  <2>6. FiledInv' /\ FourEyes'
    BY <2>1, <2>2, <2>3 DEF FiledInv, FourEyes
  <2> QED
    BY <2>5, <2>6
<1>2. ASSUME UNCHANGED <<status, filed, approvals>>,
             \A w \in Workers : req'[w] = req[w] \/ req'[w].at # "approve"
      PROVE  PurchaseInv'
  BY <1>2 DEF SeenInv, FiledInv, FourEyes, ApproversOf, Filers
<1>3. ASSUME NEW w \in Workers, NEW p \in Requests, NEW u \in Users, ApproveLoad(w, p, u)
      PROVE  PurchaseInv'
  <2>1. /\ req'[w].seen = Cardinality(ApproversOf(p)) /\ req'[w].pr = p
        /\ req'[w].user = u /\ u \notin Filers(p) /\ status[p] = "OPEN"
    BY <1>3 DEF ApproveLoad, Begin, TypeOK
  <2>2. \A v \in Workers : v # w => req'[v] = req[v]
    BY <1>3 DEF ApproveLoad, Begin, TypeOK
  <2>3. UNCHANGED <<status, filed, approvals>>
    BY <1>3 DEF ApproveLoad
  <2>4. Cardinality(ApproversOf(p)) \in Nat
    BY ApproversFinite
  <2>5. \A o \in Requests : ApproversOf(o)' = ApproversOf(o) /\ Filers(o)' = Filers(o)
    BY <2>3 DEF ApproversOf, Filers
  <2>6. SeenInv'
    <3> SUFFICES ASSUME NEW v \in Workers, NEW o \in Requests, o = req'[v].pr,
                        req'[v].at = "approve"
                 PROVE  /\ req'[v].seen <= Cardinality(ApproversOf(o)')
                        /\ req'[v].user \notin Filers(o)'
                        /\ status'[o] # "unborn"
      BY <2>1, <2>2 DEF SeenInv, TypeOK
    <3>1. CASE v = w
      BY <2>1, <2>3, <2>4, <2>5, <3>1
    <3>2. CASE v # w
      BY <2>2, <2>3, <2>5, <3>2 DEF SeenInv
    <3> QED
      BY <3>1, <3>2
  <2>7. FiledInv' /\ FourEyes'
    BY <2>3, <2>5 DEF FiledInv, FourEyes
  <2> QED
    BY <2>6, <2>7
<1>4. ASSUME NEW w \in Workers, ApproveCommit(w), req[w].user \in accounts,
             req[w].user \notin ApproversOf(req[w].pr)
      PROVE  PurchaseInv'
  <2>0. PICK p \in Requests, u \in Users : p = req[w].pr /\ u = req[w].user
    BY <1>4 DEF ApproveCommit, TypeOK
  <2>1. req[w].seen \in Nat
    BY DEF TypeOK, Request
  <2>2. approvals' = approvals \cup {<<p, u>>} /\ filed' = filed
    BY <1>4, <2>0 DEF ApproveCommit
  <2>3. \A o \in Requests :
            /\ ApproversOf(o)' = IF o = p THEN ApproversOf(o) \cup {u} ELSE ApproversOf(o)
            /\ Cardinality(ApproversOf(o)') =
                  IF o = p THEN Cardinality(ApproversOf(o)) + 1 ELSE Cardinality(ApproversOf(o))
    BY <1>4, <2>0, <2>2, ApprovalAdded
  <2>4. \A o \in Requests : /\ Cardinality(ApproversOf(o)) \in Nat
                            /\ Cardinality(ApproversOf(o)') \in Nat
                            /\ Cardinality(ApproversOf(o)') >= Cardinality(ApproversOf(o))
    <3> SUFFICES ASSUME NEW o \in Requests
                 PROVE  /\ Cardinality(ApproversOf(o)) \in Nat
                        /\ Cardinality(ApproversOf(o)') \in Nat
                        /\ Cardinality(ApproversOf(o)') >= Cardinality(ApproversOf(o))
      OBVIOUS
    <3>1. Cardinality(ApproversOf(o)) \in Nat
      BY ApproversFinite
    <3>2. CASE o = p
      BY <2>3, <3>1, <3>2
    <3>3. CASE o # p
      BY <2>3, <3>1, <3>3
    <3> QED
      BY <3>2, <3>3
  <2>5. /\ req[w].seen <= Cardinality(ApproversOf(p)) /\ u \notin Filers(p)
        /\ status[p] # "unborn"
    BY <1>4, <2>0 DEF ApproveCommit, SeenInv
  <2>6. /\ \A o \in Requests : o # p => status'[o] = status[o]
        /\ status'[p] # "unborn"
        /\ status'[p] = "APPROVED" => status[p] = "APPROVED" \/ req[w].seen + 1 >= 2
    BY <1>4, <2>0, <2>5 DEF ApproveCommit, Enough, RequiredApprovals, TypeOK
  <2>7. \A v \in Workers : req'[v].at = "approve" => req'[v] = req[v] /\ req[v].pr \in Requests
                                                     /\ req[v].seen \in Nat
    BY <1>4 DEF ApproveCommit, End, Idle, TypeOK, Request
  <2>8. \A o \in Requests : Filers(o)' = Filers(o)
    BY <2>2 DEF Filers
  <2>9. SeenInv'
    <3> SUFFICES ASSUME NEW v \in Workers, req'[v].at = "approve",
                        NEW o \in Requests, o = req[v].pr
                 PROVE  /\ req[v].seen <= Cardinality(ApproversOf(o)')
                        /\ req[v].user \notin Filers(o)'
                        /\ status'[o] # "unborn"
      BY <2>7 DEF SeenInv
    <3>1. /\ req[v].seen <= Cardinality(ApproversOf(o))
          /\ req[v].user \notin Filers(o) /\ status[o] # "unborn"
      BY <2>7 DEF SeenInv
    <3>2. req[v].seen \in Nat
      BY <2>7
    <3>3. req[v].seen <= Cardinality(ApproversOf(o)')
      BY <2>4, <3>1, <3>2
    <3> QED
      BY <2>6, <2>8, <3>1, <3>3
  <2>10. FiledInv'
    BY <2>3, <2>6 DEF FiledInv
  <2>11. FourEyes'
    <3> SUFFICES ASSUME NEW o \in Requests
                 PROVE  /\ status'[o] = "APPROVED" => Cardinality(ApproversOf(o)') >= 2
                        /\ ApproversOf(o)' \cap Filers(o)' = {}
      BY DEF FourEyes, RequiredApprovals
    <3>1. /\ status[o] = "APPROVED" => Cardinality(ApproversOf(o)) >= 2
          /\ ApproversOf(o) \cap Filers(o) = {}
      BY DEF FourEyes, RequiredApprovals
    <3>2. CASE o = p
      <4>1. ApproversOf(o)' \cap Filers(o)' = {}
        BY <2>3, <2>5, <2>8, <3>1, <3>2 DEF Filers
      <4>2. ASSUME status'[o] = "APPROVED" PROVE Cardinality(ApproversOf(o)') >= 2
        <5>1. CASE status[o] = "APPROVED"
          BY <2>4, <3>1, <5>1
        <5>2. CASE req[w].seen + 1 >= 2
          BY <2>1, <2>3, <2>4, <2>5, <3>2, <5>2
        <5> QED
          BY <2>6, <3>2, <4>2, <5>1, <5>2
      <4> QED
        BY <4>1, <4>2
    <3>3. CASE o # p
      BY <2>3, <2>6, <2>8, <3>1, <3>3
    <3> QED
      BY <3>2, <3>3
  <2> QED
    BY <2>9, <2>10, <2>11
<1>5. ASSUME NEW w \in Workers, RejectCommit(w), req[w].user \in accounts PROVE PurchaseInv'
  <2>1. req[w].pr \in Requests /\ approvals' = approvals
    BY <1>5 DEF RejectCommit, TypeOK
  <2>2. \A o \in Requests : ApproversOf(o)' = ApproversOf(o) /\ Filers(o)' = Filers(o)
    BY <1>5, <2>1 DEF RejectCommit, ApproversOf, Filers, TypeOK, Filing
  <2>3. /\ \A o \in Requests : o # req[w].pr => status'[o] = status[o]
        /\ status'[req[w].pr] = "REJECTED"
    BY <1>5, <2>1 DEF RejectCommit, TypeOK
  <2>4. \A v \in Workers : req'[v].at = "approve" => req'[v] = req[v] /\ req[v].pr \in Requests
    BY <1>5 DEF RejectCommit, End, Idle, TypeOK
  <2>5. SeenInv'
    BY <2>2, <2>3, <2>4 DEF SeenInv
  <2>6. FiledInv' /\ FourEyes'
    BY <2>2, <2>3 DEF FiledInv, FourEyes
  <2> QED
    BY <2>5, <2>6
<1>6. ASSUME NEW w \in Workers, Rollback(w) PROVE PurchaseInv'
  BY <1>2, <1>6 DEF Rollback, End, Idle, TypeOK
<1>7. ASSUME \/ \E p \in Requests : Confirm(p)
             \/ \E w \in Workers, p \in Requests, u \in Users : RejectLoad(w, p, u)
             \/ UNCHANGED vars
      PROVE  PurchaseInv'
  <2>1. ASSUME NEW w \in Workers, NEW p \in Requests, NEW u \in Users, RejectLoad(w, p, u)
        PROVE  PurchaseInv'
    BY <1>2, <2>1 DEF RejectLoad, Begin, Idle, TypeOK
  <2>2. ASSUME NEW p \in Requests, Confirm(p) PROVE PurchaseInv'
    BY <1>2, <2>2 DEF Confirm, OneStep
  <2>3. CASE UNCHANGED vars
    BY <1>2, <2>3 DEF vars
  <2> QED
    BY <1>7, <2>1, <2>2, <2>3
<1>8. ASSUME NEW w \in Workers, NEW u \in Users, UserDeleteLoad(w, u) PROVE PurchaseInv'
  BY <1>2, <1>8 DEF UserDeleteLoad, Begin, Idle, TypeOK
<1>9. ASSUME NEW w \in Workers, ApproveCommit(w) \/ RejectCommit(w) PROVE PurchaseInv'
  BY <1>4, <1>5, <1>6, <1>9 DEF ApproveCommit, RejectCommit
<1> QED
  BY <1>1, <1>3, <1>7, <1>8, <1>9 DEF Next

\* Unless an account is deleted meanwhile, an APPROVED request has two approvals
\* of board members who neither asked for it nor entered it, however many
\* handlers overlap.
THEOREM FourEyesHolds ==
    ASSUME Deletable = {}
    PROVE  Spec => []FourEyes
<1> DEFINE NoDelete == \A w \in Workers : req[w].at # "delete"
<1>1. Init => PurchaseInv /\ NoDelete
  BY FS_EmptySet DEF Init, PurchaseInv, SeenInv, FiledInv, FourEyes, Idle, ApproversOf
<1>2. TypeOK /\ NoDelete /\ [Next]_vars => NoDelete'
  <2> SUFFICES ASSUME TypeOK, NoDelete, [Next]_vars PROVE NoDelete'
    OBVIOUS
  <2>1. ASSUME NEW w \in Workers, NEW q, Begin(w, q), q.at # "delete" PROVE NoDelete'
    BY <2>1 DEF Begin, TypeOK
  <2>2. ASSUME NEW w \in Workers, End(w) PROVE NoDelete'
    BY <2>2 DEF End, Idle, TypeOK
  <2>3. ASSUME NEW w \in Workers, NEW p \in Requests, NEW u \in Users,
               ApproveLoad(w, p, u) \/ RejectLoad(w, p, u)
        PROVE  NoDelete'
    BY <2>1, <2>3 DEF ApproveLoad, RejectLoad, Idle
  <2>4. ASSUME NEW w \in Workers, ApproveCommit(w) \/ RejectCommit(w) \/ UserDeleteCommit(w)
        PROVE  NoDelete'
    BY <2>2, <2>4 DEF ApproveCommit, RejectCommit, Rollback, UserDeleteCommit
  <2>5. ~(\E w \in Workers, u \in Users : UserDeleteLoad(w, u))
    BY DEF UserDeleteLoad
  <2> QED
    BY <2>3, <2>4, <2>5 DEF Next, vars, CreateRequest, Confirm, OneStep
<1>3. TypeOK /\ NoDelete /\ PurchaseInv /\ [Next]_vars => PurchaseInv'
  BY FourEyesStep DEF UserDeleteCommit
<1>4. PurchaseInv => FourEyes
  BY DEF PurchaseInv
<1> QED
  BY <1>1, <1>2, <1>3, <1>4, PurchaseTypes, PTL DEF Spec
-----------------------------------------------------------------------------
(***************************************************************************)
(* Handlers one after the other.  What a handler has read then still holds *)
(* when it commits, accounts that are deleted included.                    *)
(***************************************************************************)
OneAtATime == \A v, w \in Workers : v = w

\* The request in flight, if there is one, knows the rows as they are.
CurrentInv ==
    \A w \in Workers :
        /\ req[w].at \in {"approve", "reject"} => status[req[w].pr] = "OPEN"
        /\ req[w].at = "approve" => req[w].seen = Cardinality(ApproversOf(req[w].pr))
        /\ req[w].at = "delete" => ~HasHistory(req[w].user)

SerialInv == TypeOK /\ CurrentInv /\ FiledInv /\ TwoApprovalsDecide

\* Approvals only ever grow, and a decision is taken once: what each step does
\* to both.
Serially ==
    /\ approvals \subseteq approvals'
    /\ \A p \in Requests : status[p] \in {"APPROVED", "REJECTED"} => status'[p] = status[p]

LEMMA SerialIdle ==
    ASSUME OneAtATime, OneStep
    PROVE  \A w \in Workers : req[w] = Idle /\ req'[w] = Idle
BY DEF OneAtATime, OneStep

LEMMA SerialEnd ==
    ASSUME OneAtATime, TypeOK, NEW w \in Workers, End(w)
    PROVE  \A v \in Workers : req'[v] = Idle
BY DEF OneAtATime, End, TypeOK

LEMMA SerialBegin ==
    ASSUME OneAtATime, TypeOK, NEW w \in Workers, NEW q, Begin(w, q)
    PROVE  \A v \in Workers : req'[v] = q
BY DEF OneAtATime, Begin, TypeOK

\* Steps that leave status and approvals alone.
LEMMA SerialQuiet ==
    ASSUME SerialInv, UNCHANGED <<status, approvals>>
    PROVE  Serially /\ FiledInv' /\ TwoApprovalsDecide'
BY DEF SerialInv, Serially, FiledInv, TwoApprovalsDecide, ApproversOf

LEMMA SerialStep ==
    ASSUME OneAtATime, SerialInv, TypeOK', Next
    PROVE  SerialInv' /\ Serially
<1> USE DEF SerialInv
<1>1. ASSUME \A w \in Workers : req'[w] = Idle
      PROVE  CurrentInv'
  BY <1>1 DEF CurrentInv, Idle
<1>2. ASSUME NEW p \in Requests, NEW u \in Users, NEW other \in Users \cup {Outsider, None},
             CreateRequest(p, u, other)
      PROVE  SerialInv' /\ Serially
  <2>1. CurrentInv'
    BY <1>1, <1>2, SerialIdle DEF CreateRequest
  <2>2. \A o \in Requests : ApproversOf(o)' = ApproversOf(o)
    BY <1>2 DEF CreateRequest, ApproversOf
  <2>3. /\ \A o \in Requests \ {p} : status'[o] = status[o]
        /\ status[p] = "unborn" /\ status'[p] = "OPEN" /\ ApproversOf(p) = {}
    BY <1>2 DEF CreateRequest, TypeOK, FiledInv
  <2>4. ~(Cardinality(ApproversOf(p)) >= RequiredApprovals)
    BY <2>3, FS_EmptySet DEF RequiredApprovals
  <2>5. TwoApprovalsDecide' /\ FiledInv'
    BY <2>2, <2>3, <2>4 DEF TwoApprovalsDecide, FiledInv
  <2>6. Serially
    BY <1>2, <2>3 DEF Serially, CreateRequest
  <2> QED
    BY <2>1, <2>5, <2>6
<1>3. ASSUME NEW p \in Requests, Confirm(p) PROVE SerialInv' /\ Serially
  BY <1>1, <1>3, SerialIdle, SerialQuiet DEF Confirm
<1>4. ASSUME NEW w \in Workers, NEW p \in Requests, NEW u \in Users, ApproveLoad(w, p, u)
      PROVE  SerialInv' /\ Serially
  <2> DEFINE q == [at |-> "approve", pr |-> p, user |-> u, seen |-> Cardinality(ApproversOf(p))]
  <2>1. \A v \in Workers : req'[v] = q
    BY <1>4, SerialBegin DEF ApproveLoad
  <2>2. status[p] = "OPEN" /\ UNCHANGED <<status, approvals>>
    BY <1>4 DEF ApproveLoad
  <2>3. ApproversOf(p)' = ApproversOf(p)
    BY <2>2 DEF ApproversOf
  <2>4. CurrentInv'
    BY <2>1, <2>2, <2>3 DEF CurrentInv
  <2> QED
    BY <2>2, <2>4, SerialQuiet
<1>5. ASSUME NEW w \in Workers, NEW p \in Requests, NEW u \in Users, RejectLoad(w, p, u)
      PROVE  SerialInv' /\ Serially
  <2> DEFINE q == [Idle EXCEPT !.at = "reject", !.pr = p, !.user = u]
  <2>0. \A v \in Workers : req'[v] = q
    BY <1>5, SerialBegin DEF RejectLoad
  <2>1. \A v \in Workers : req'[v].at = "reject" /\ req'[v].pr = p
    BY <2>0 DEF Idle
  <2>2. status[p] = "OPEN" /\ UNCHANGED <<status, approvals>>
    BY <1>5 DEF RejectLoad
  <2>3. CurrentInv'
    BY <2>1, <2>2 DEF CurrentInv
  <2> QED
    BY <2>2, <2>3, SerialQuiet
<1>6. ASSUME NEW w \in Workers, NEW u \in Users, UserDeleteLoad(w, u)
      PROVE  SerialInv' /\ Serially
  <2> DEFINE q == [Idle EXCEPT !.at = "delete", !.user = u]
  <2>0. \A v \in Workers : req'[v] = q
    BY <1>6, SerialBegin DEF UserDeleteLoad
  <2>1. \A v \in Workers : req'[v].at = "delete" /\ req'[v].user = u
    BY <2>0 DEF Idle
  <2>2. ~HasHistory(u) /\ UNCHANGED <<status, filed, approvals>>
    BY <1>6 DEF UserDeleteLoad
  <2>3. CurrentInv'
    BY <2>1, <2>2 DEF CurrentInv, HasHistory
  <2> QED
    BY <2>2, <2>3, SerialQuiet
<1>7. ASSUME NEW w \in Workers, ApproveCommit(w) PROVE SerialInv' /\ Serially
  <2>1. CurrentInv'
    BY <1>1, <1>7, SerialEnd DEF ApproveCommit, Rollback
  <2>2. CASE ~(req[w].user \in accounts /\ req[w].user \notin ApproversOf(req[w].pr))
    BY <1>7, <2>1, <2>2, SerialQuiet DEF ApproveCommit, Rollback
  <2>3. CASE req[w].user \in accounts /\ req[w].user \notin ApproversOf(req[w].pr)
    <3>1. PICK p \in Requests, u \in Users : p = req[w].pr /\ u = req[w].user
      BY <1>7 DEF ApproveCommit, TypeOK
    <3>2. /\ approvals' = approvals \cup {<<p, u>>} /\ u \notin ApproversOf(p)
          /\ status' = IF req[w].seen + 1 >= 2 THEN [status EXCEPT ![p] = "APPROVED"] ELSE status
          /\ status[p] = "OPEN" /\ req[w].seen = Cardinality(ApproversOf(p))
      BY <1>7, <2>3, <3>1 DEF ApproveCommit, Enough, RequiredApprovals, CurrentInv
    <3>3. \A o \in Requests :
              /\ ApproversOf(o)' = IF o = p THEN ApproversOf(o) \cup {u} ELSE ApproversOf(o)
              /\ Cardinality(ApproversOf(o)') =
                    IF o = p THEN Cardinality(ApproversOf(o)) + 1 ELSE Cardinality(ApproversOf(o))
      BY <3>2, ApprovalAdded
    <3>4. /\ \A o \in Requests \ {p} : status'[o] = status[o]
          /\ status'[p] = IF req[w].seen + 1 >= 2 THEN "APPROVED" ELSE "OPEN"
      BY <3>2 DEF TypeOK
    <3>5. TwoApprovalsDecide'
      <4> SUFFICES ASSUME NEW o \in Requests, status'[o] = "OPEN"
                   PROVE  ~(Cardinality(ApproversOf(o)') >= 2)
        BY DEF TwoApprovalsDecide, RequiredApprovals
      <4>1. CASE o = p
        BY <3>2, <3>3, <3>4, <4>1
      <4>2. CASE o # p
        BY <3>3, <3>4, <4>2 DEF TwoApprovalsDecide, RequiredApprovals
      <4> QED
        BY <4>1, <4>2
    <3>6. FiledInv'
      BY <3>3, <3>4 DEF FiledInv
    <3>7. Serially
      BY <3>2, <3>4 DEF Serially
    <3> QED
      BY <2>1, <3>5, <3>6, <3>7
  <2> QED
    BY <2>2, <2>3
<1>8. ASSUME NEW w \in Workers, RejectCommit(w) PROVE SerialInv' /\ Serially
  <2>1. CurrentInv'
    BY <1>1, <1>8, SerialEnd DEF RejectCommit, Rollback
  <2>2. CASE req[w].user \notin accounts
    BY <1>8, <2>1, <2>2, SerialQuiet DEF RejectCommit, Rollback
  <2>3. CASE req[w].user \in accounts
    <3>1. /\ approvals' = approvals /\ status' = [status EXCEPT ![req[w].pr] = "REJECTED"]
          /\ status[req[w].pr] = "OPEN" /\ req[w].pr \in Requests
      BY <1>8, <2>3 DEF RejectCommit, CurrentInv, TypeOK
    <3>2. \A o \in Requests : ApproversOf(o)' = ApproversOf(o)
      BY <3>1 DEF ApproversOf
    <3>3. \A o \in Requests : status'[o] = IF o = req[w].pr THEN "REJECTED" ELSE status[o]
      BY <3>1 DEF TypeOK
    <3>4. TwoApprovalsDecide' /\ FiledInv'
      BY <3>2, <3>3 DEF TwoApprovalsDecide, FiledInv
    <3>5. Serially
      BY <3>1, <3>3 DEF Serially
    <3> QED
      BY <2>1, <3>4, <3>5
  <2> QED
    BY <2>2, <2>3
<1>9. ASSUME NEW w \in Workers, UserDeleteCommit(w) PROVE SerialInv' /\ Serially
  <2>1. CurrentInv'
    BY <1>1, <1>9, SerialEnd DEF UserDeleteCommit
  <2>2. ~HasHistory(req[w].user)
    BY <1>9 DEF UserDeleteCommit, CurrentInv
  <2>3. \A a \in approvals : a[2] # req[w].user
    <3> SUFFICES ASSUME NEW a \in approvals, a[2] = req[w].user PROVE FALSE
      OBVIOUS
    <3>1. a[1] \in Requests /\ a = <<a[1], req[w].user>>
      BY DEF TypeOK
    <3> QED
      BY <2>2, <3>1 DEF HasHistory
  <2>4. UNCHANGED <<status, approvals>>
    BY <1>9, <2>3 DEF UserDeleteCommit
  <2> QED
    BY <2>1, <2>4, SerialQuiet
<1> QED
  BY <1>2, <1>3, <1>4, <1>5, <1>6, <1>7, <1>8, <1>9 DEF Next

LEMMA SerialInvariant ==
    ASSUME OneAtATime
    PROVE  Spec => []SerialInv
<1>1. Init => CurrentInv /\ FiledInv /\ TwoApprovalsDecide
  <2> SUFFICES ASSUME Init PROVE CurrentInv /\ FiledInv /\ TwoApprovalsDecide
    OBVIOUS
  <2>1. \A p \in Requests : ApproversOf(p) = {} /\ status[p] = "unborn"
    BY DEF Init, ApproversOf
  <2> QED
    BY <2>1 DEF Init, CurrentInv, FiledInv, TwoApprovalsDecide, Idle
<1>2. TypeOK /\ TypeOK' /\ SerialInv /\ [Next]_vars => SerialInv'
  <2>1. ASSUME TypeOK, TypeOK', SerialInv, UNCHANGED vars PROVE SerialInv'
    BY <2>1 DEF vars, SerialInv, CurrentInv, FiledInv, TwoApprovalsDecide, ApproversOf, HasHistory
  <2> QED
    BY <2>1, SerialStep
<1>3. TypeOK /\ CurrentInv /\ FiledInv /\ TwoApprovalsDecide => SerialInv
  BY DEF SerialInv
<1> QED
  BY <1>1, <1>2, <1>3, PurchaseTypes, PTL DEF Spec

\* With handlers one after the other (approve) the second approval decides.
THEOREM SecondApprovalDecides ==
    ASSUME OneAtATime
    PROVE  Spec => []TwoApprovalsDecide
<1>1. SerialInv => TwoApprovalsDecide
  BY DEF SerialInv
<1> QED
  BY <1>1, SerialInvariant, PTL

\* With handlers one after the other nothing that was decided (approve, reject)
\* is decided again.
THEOREM DecisionsAreFinal ==
    ASSUME OneAtATime
    PROVE  Spec => DecisionsStay
<1> DEFINE Final ==
      \A p \in Requests : status[p] \in {"APPROVED", "REJECTED"} => status'[p] = status[p]
<1>1. SerialInv /\ TypeOK' /\ [Next]_vars => [Final]_vars
  BY SerialStep DEF Serially
<1> QED
  BY <1>1, SerialInvariant, PurchaseTypes, PTL DEF Spec, DecisionsStay

\* With handlers one after the other no approval goes with a deleted account
\* (_user_has_history).
THEOREM ApprovalsAreKept ==
    ASSUME OneAtATime
    PROVE  Spec => ApprovalsStay
<1>1. SerialInv /\ TypeOK' /\ [Next]_vars => [approvals \subseteq approvals']_vars
  BY SerialStep DEF Serially
<1> QED
  BY <1>1, SerialInvariant, PurchaseTypes, PTL DEF Spec, ApprovalsStay

\* With handlers one after the other an APPROVED request has two approvals of
\* board members who neither asked for it nor entered it (approve), accounts
\* that are deleted meanwhile included (_user_has_history).
THEOREM FourEyesSerially ==
    ASSUME OneAtATime
    PROVE  Spec => []FourEyes
<1>1. Init => PurchaseInv
  BY FS_EmptySet DEF Init, PurchaseInv, SeenInv, FiledInv, FourEyes, Idle, ApproversOf
<1>2. TypeOK /\ SerialInv /\ PurchaseInv /\ [Next]_vars => PurchaseInv'
  <2> SUFFICES ASSUME TypeOK, SerialInv, PurchaseInv, NEW w \in Workers, UserDeleteCommit(w)
               PROVE  PurchaseInv'
    BY FourEyesStep
  <2>1. ~HasHistory(req[w].user) /\ \A v \in Workers : req'[v] = Idle
    BY SerialEnd DEF UserDeleteCommit, SerialInv, CurrentInv
  <2>2. \A p \in Requests : /\ ApproversOf(p)' = ApproversOf(p)
                           /\ Filers(p)' = Filers(p)
                           /\ status'[p] = status[p]
    <3>1. \A p \in Requests : ApproversOf(p)' = ApproversOf(p)
      BY <2>1 DEF UserDeleteCommit, ApproversOf, HasHistory
    <3>2. \A p \in Requests : Filers(p)' = Filers(p)
      BY <2>1 DEF UserDeleteCommit, Filers, HasHistory
    <3> QED
      BY <3>1, <3>2 DEF UserDeleteCommit
  <2>3. SeenInv'
    BY <2>1 DEF SeenInv, Idle
  <2> QED
    BY <2>2, <2>3 DEF PurchaseInv, FiledInv, FourEyes
<1>3. PurchaseInv => FourEyes
  BY DEF PurchaseInv
<1> QED
  BY <1>1, <1>2, <1>3, SerialInvariant, PurchaseTypes, PTL DEF Spec
-----------------------------------------------------------------------------
(***************************************************************************)
(* InventoryLoans                                                          *)
(***************************************************************************)
LoanRow == [item : Items \cup {None}, quantity : Nat, out : BOOLEAN]
Editing == [at : {"edit"}, item : Items, seen : Inventory!Item, form : Inventory!Item,
            lost : BOOLEAN]
Checkout == [at : {"checkout"}, item : Items, quantity : Nat \ {0}, stale : BOOLEAN,
             lost : BOOLEAN]

\* All variables of InventoryLoans have their types; loans out are of an item
\* there is, and so is a request that is not lost.
InventoryTypeOK ==
    /\ category \subseteq Categories
    /\ item \in [Items -> Inventory!Item]
    /\ loan \in [Loans -> LoanRow]
    /\ clerk \in [Clerks -> {Inventory!Idle} \cup Editing \cup Checkout]
    /\ strained \subseteq Items
    /\ \A l \in Loans : loan[l].out => loan[l].item \in Items /\ item[loan[l].item].here
    /\ \A c \in Clerks : clerk[c] # Inventory!Idle /\ ~clerk[c].lost => item[clerk[c].item].here

\* A checkout that nothing has overtaken still finds room.
RoomInv ==
    \A i \in Items, c \in Clerks :
        /\ clerk[c].at = "checkout" /\ clerk[c].item = i
        /\ ~clerk[c].stale /\ ~clerk[c].lost
        => Inventory!QuantityOnLoan(i) + clerk[c].quantity <= item[i].total

InventoryInv == InventoryTypeOK /\ RoomInv /\ LentWithinStock

LEMMA SumIs == \A f, S : Inventory!SumFunctionOnSet(f, S) = SumFunctionOnSet(f, S)
BY DEF SumFunctionOnSet, FoldFunctionOnSet, MapThenFoldSet,
       Inventory!SumFunctionOnSet, Inventory!FoldFunctionOnSet, Inventory!MapThenFoldSet

\* The quantity of every loan, the function that is summed.
Quantities == [l \in Loans |-> loan[l].quantity]

\* What is on loan of an item is a number.
LEMMA OnLoanType ==
    ASSUME InventoryTypeOK, NEW i
    PROVE  /\ Inventory!QuantityOnLoan(i) = SumFunctionOnSet(Quantities, Inventory!OutstandingOf(i))
           /\ IsFiniteSet(Inventory!OutstandingOf(i))
           /\ \A l \in Loans : Quantities[l] \in Nat
           /\ Inventory!QuantityOnLoan(i) \in Nat
<1>1. Inventory!QuantityOnLoan(i) = SumFunctionOnSet(Quantities, Inventory!OutstandingOf(i))
    BY SumIs DEF Inventory!QuantityOnLoan, Quantities
<1>2. Inventory!OutstandingOf(i) \subseteq Loans
    BY DEF Inventory!OutstandingOf
<1>3. IsFiniteSet(Inventory!OutstandingOf(i))
    BY <1>2, ThingsAssumption, FS_Subset
<1>4. \A l \in Loans : Quantities[l] \in Nat
    BY DEF InventoryTypeOK, LoanRow, Quantities
<1>5. SumFunctionOnSet(Quantities, Inventory!OutstandingOf(i)) \in Nat
    BY <1>2, <1>3, <1>4, SumNatural
<1>6. QED BY <1>1, <1>3, <1>4, <1>5

OnLoanIsNat == \A i \in Items : Inventory!QuantityOnLoan(i) \in Nat

LEMMA OnLoanNat == InventoryTypeOK => OnLoanIsNat
<1> SUFFICES ASSUME InventoryTypeOK, NEW i \in Items
             PROVE  Inventory!QuantityOnLoan(i) \in Nat
    BY DEF OnLoanIsNat
<1> QED BY OnLoanType

LEMMA OnLoanNatNext == InventoryTypeOK' => OnLoanIsNat'
BY OnLoanNat, PTL

LEMMA TotalsAreNumbers == \A r \in Inventory!Item : r.total \in Int
<1>1. Totals \cup {0} \subseteq Int
    BY ThingsAssumption
<1>2. QED BY <1>1 DEF Inventory!Item

\* An item whose loans are left alone has as much on loan as before.
LEMMA OnLoanSame ==
    ASSUME InventoryTypeOK, NEW i,
           Inventory!OutstandingOf(i)' = Inventory!OutstandingOf(i),
           \A l \in Inventory!OutstandingOf(i) : loan'[l].quantity = loan[l].quantity
    PROVE  Inventory!QuantityOnLoan(i)' = Inventory!QuantityOnLoan(i)
<1> DEFINE S == Inventory!OutstandingOf(i)
<1>1. S \subseteq Loans /\ IsFiniteSet(S)
    BY OnLoanType DEF Inventory!OutstandingOf
<1>2. \A l \in S : Quantities'[l] = Quantities[l]
    BY <1>1 DEF Quantities
<1>3. SumFunctionOnSet(Quantities', S) = SumFunctionOnSet(Quantities, S)
    <2> HIDE DEF S
    <2> QED BY <1>1, <1>2, SumEqual
<1>4. Inventory!QuantityOnLoan(i)' = SumFunctionOnSet(Quantities', S)
    BY SumIs DEF Inventory!QuantityOnLoan, Quantities
<1>5. QED BY <1>3, <1>4, OnLoanType

\* A loan handed out adds its quantity.
LEMMA OnLoanMore ==
    ASSUME InventoryTypeOK, InventoryTypeOK', NEW i, NEW l \in Loans,
           l \notin Inventory!OutstandingOf(i),
           Inventory!OutstandingOf(i)' = Inventory!OutstandingOf(i) \cup {l},
           \A k \in Loans \ {l} : loan'[k] = loan[k]
    PROVE  Inventory!QuantityOnLoan(i)' = Inventory!QuantityOnLoan(i) + loan'[l].quantity
<1> DEFINE S == Inventory!OutstandingOf(i)
<1>1. S \subseteq Loans /\ IsFiniteSet(S) /\ l \notin S
    BY OnLoanType DEF Inventory!OutstandingOf
<1>2. \A k \in S : Quantities'[k] = Quantities[k]
    BY <1>1 DEF Quantities
<1>3. \A k \in Loans : Quantities'[k] \in Int
    BY DEF InventoryTypeOK, LoanRow, Quantities
<1>4. Inventory!QuantityOnLoan(i)' = SumFunctionOnSet(Quantities', S \cup {l})
    BY SumIs DEF Inventory!QuantityOnLoan, Quantities
<1>5. SumFunctionOnSet(Quantities', S \cup {l}) = Quantities'[l] + SumFunctionOnSet(Quantities', S)
    <2>1. \A k \in S \cup {l} : Quantities'[k] \in Int
        BY <1>1, <1>3
    <2> HIDE DEF S
    <2> QED BY <1>1, <2>1, SumAdd
<1>6. SumFunctionOnSet(Quantities', S) = SumFunctionOnSet(Quantities, S)
    <2> HIDE DEF S
    <2> QED BY <1>1, <1>2, SumEqual
<1>7. Inventory!QuantityOnLoan(i) = SumFunctionOnSet(Quantities, S) /\ Inventory!QuantityOnLoan(i) \in Nat
    BY OnLoanType
<1>8. Quantities'[l] = loan'[l].quantity /\ loan'[l].quantity \in Nat
    BY DEF Quantities, InventoryTypeOK, LoanRow
<1> HIDE DEF S
<1>9. QED BY <1>4, <1>5, <1>6, <1>7, <1>8

\* A loan returned takes its quantity away.
LEMMA OnLoanLess ==
    ASSUME InventoryTypeOK, NEW i, NEW l \in Inventory!OutstandingOf(i),
           Inventory!OutstandingOf(i)' = Inventory!OutstandingOf(i) \ {l},
           \A k \in Loans : loan'[k].quantity = loan[k].quantity
    PROVE  /\ Inventory!QuantityOnLoan(i)' = Inventory!QuantityOnLoan(i) - loan[l].quantity
           /\ Inventory!QuantityOnLoan(i)' \in Nat
<1> DEFINE S == Inventory!OutstandingOf(i)
<1>1. S \subseteq Loans /\ IsFiniteSet(S) /\ IsFiniteSet(S \ {l}) /\ l \in Loans
    BY OnLoanType, FS_RemoveElement DEF Inventory!OutstandingOf
<1>2. Quantities' = Quantities
    BY DEF Quantities
<1>3. \A k \in Loans : Quantities[k] \in Nat
    BY OnLoanType
<1>4. Inventory!QuantityOnLoan(i)' = SumFunctionOnSet(Quantities, S \ {l})
    BY <1>2, SumIs DEF Inventory!QuantityOnLoan, Quantities
<1>5. SumFunctionOnSet(Quantities, S) = Quantities[l] + SumFunctionOnSet(Quantities, S \ {l})
    <2>1. \A k \in S : Quantities[k] \in Int
        BY <1>1, <1>3
    <2>2. l \in S
        OBVIOUS
    <2> HIDE DEF S
    <2> QED BY <1>1, <2>1, <2>2, SumRemove
<1>6. SumFunctionOnSet(Quantities, S \ {l}) \in Nat
    <2>1. \A k \in S \ {l} : Quantities[k] \in Nat
        BY <1>1, <1>3
    <2> HIDE DEF S
    <2> QED BY <1>1, <2>1, SumNatural
<1>7. Inventory!QuantityOnLoan(i) = SumFunctionOnSet(Quantities, S)
    BY OnLoanType
<1>8. Quantities[l] = loan[l].quantity /\ loan[l].quantity \in Nat
    BY <1>1, <1>3 DEF Quantities
<1> HIDE DEF S
<1>9. QED BY <1>4, <1>5, <1>6, <1>7, <1>8

\* Setting a flag of a request in flight leaves the rest of it as it was.
LEMMA Flags ==
    /\ \A q \in Editing \cup Checkout :
         /\ [q EXCEPT !.lost = TRUE] \in Editing \cup Checkout
         /\ [q EXCEPT !.lost = TRUE].lost
         /\ q.item \in Items
         /\ q # Inventory!Idle
    /\ \A q \in Checkout :
         /\ [q EXCEPT !.stale = TRUE] \in Checkout
         /\ [q EXCEPT !.stale = TRUE].stale
         /\ [q EXCEPT !.stale = TRUE].item = q.item
         /\ [q EXCEPT !.stale = TRUE].lost = q.lost
    /\ \A q \in {Inventory!Idle} \cup Editing \cup Checkout :
         /\ q.at = "checkout" => q \in Checkout
         /\ q.at = "edit" => q \in Editing
         /\ q # Inventory!Idle => q.at \in {"edit", "checkout"}
<1>1. \A q \in Editing : [q EXCEPT !.lost = TRUE] \in Editing /\ [q EXCEPT !.lost = TRUE].lost
                         /\ q.item \in Items
    BY DEF Editing
<1>2. \A q \in Checkout : [q EXCEPT !.lost = TRUE] \in Checkout /\ [q EXCEPT !.lost = TRUE].lost
                         /\ q.item \in Items
    BY DEF Checkout
<1>3. \A q \in Checkout :
         /\ [q EXCEPT !.stale = TRUE] \in Checkout
         /\ [q EXCEPT !.stale = TRUE].stale
         /\ [q EXCEPT !.stale = TRUE].item = q.item
         /\ [q EXCEPT !.stale = TRUE].lost = q.lost
    BY DEF Checkout
<1>4. \A q \in Editing : q.at = "edit"
    BY DEF Editing
<1>5. \A q \in Checkout : q.at = "checkout"
    BY DEF Checkout
<1>6. Inventory!Idle.at = "idle"
    BY DEF Inventory!Idle
<1>7. QED BY <1>1, <1>2, <1>3, <1>4, <1>5, <1>6

LEMMA InventoryTypeStep == InventoryTypeOK /\ [Inventory!Next]_(Inventory!vars) => InventoryTypeOK'
<1> SUFFICES ASSUME InventoryTypeOK, [Inventory!Next]_(Inventory!vars)
             PROVE  InventoryTypeOK'
    OBVIOUS
<1> USE DEF InventoryTypeOK
<1>1. ASSUME NEW k \in Categories, Inventory!CategoryCreate(k) \/ Inventory!CategoryDelete(k)
      PROVE  InventoryTypeOK'
    <2>1. CASE Inventory!CategoryCreate(k)
        BY <2>1 DEF Inventory!CategoryCreate
    <2>2. CASE Inventory!CategoryDelete(k)
        <3>1. item' \in [Items -> Inventory!Item] /\ \A i \in Items : item'[i].here = item[i].here
            BY <2>2 DEF Inventory!CategoryDelete, Inventory!Item
        <3>2. \A c \in Clerks : clerk[c] # Inventory!Idle => clerk[c].item \in Items
            BY DEF Editing, Checkout
        <3>3. QED BY <2>2, <3>1, <3>2 DEF Inventory!CategoryDelete
    <2>3. QED BY <1>1, <2>1, <2>2
<1>2. ASSUME NEW i \in Items, Inventory!ItemDelete(i)
      PROVE  InventoryTypeOK'
    <2>1. item' \in [Items -> Inventory!Item] /\ \A j \in Items \ {i} : item'[j] = item[j]
        BY <1>2 DEF Inventory!ItemDelete, Inventory!Item, Inventory!NoItem
    <2>2. loan' \in [Loans -> LoanRow] /\ \A l \in Loans : loan'[l].out => loan'[l] = loan[l] /\ loan[l].item # i
        BY <1>2, ThingsAssumption DEF Inventory!ItemDelete, LoanRow, Inventory!NoLoan
    <2>3. \A c \in Clerks : clerk'[c] \in {Inventory!Idle} \cup Editing \cup Checkout
        BY <1>2, Flags DEF Inventory!ItemDelete
    <2>4. clerk' \in [Clerks -> {Inventory!Idle} \cup Editing \cup Checkout]
        BY <1>2, <2>3 DEF Inventory!ItemDelete
    <2>5. \A c \in Clerks : clerk'[c] # Inventory!Idle /\ ~clerk'[c].lost =>
             clerk'[c] = clerk[c] /\ clerk[c].item \in Items \ {i}
        BY <1>2, Flags DEF Inventory!ItemDelete
    <2>6. QED BY <1>2, <2>1, <2>2, <2>4, <2>5 DEF Inventory!ItemDelete
<1>3. ASSUME NEW i \in Items, Inventory!Retire(i)
      PROVE  InventoryTypeOK'
    <2>1. item' \in [Items -> Inventory!Item] /\ \A j \in Items : item'[j].here = item[j].here
        BY <1>3 DEF Inventory!Retire, Inventory!Item
    <2>2. \A c \in Clerks : clerk[c] # Inventory!Idle => clerk[c].item \in Items
        BY DEF Editing, Checkout
    <2>3. QED BY <1>3, <2>1, <2>2 DEF Inventory!Retire
<1>4. ASSUME NEW i \in Items, NEW total \in Totals, NEW borrowable \in BOOLEAN,
             NEW k \in category \cup {None}, Inventory!ItemCreate(i, total, borrowable, k)
      PROVE  InventoryTypeOK'
    <2>1. item' \in [Items -> Inventory!Item] /\ \A j \in Items : item[j].here => item'[j].here
        BY <1>4 DEF Inventory!ItemCreate, Inventory!Item
    <2>2. \A c \in Clerks : clerk[c] # Inventory!Idle => clerk[c].item \in Items
        BY DEF Editing, Checkout
    <2>3. QED BY <1>4, <2>1, <2>2 DEF Inventory!ItemCreate
<1>5. ASSUME NEW i \in Items, NEW total \in Totals, NEW borrowable \in BOOLEAN,
             NEW k \in category \cup {None}, NEW c \in Clerks,
             Inventory!ItemUpdateLoad(c, i, total, borrowable, k)
      PROVE  InventoryTypeOK'
    <2> DEFINE q == [at |-> "edit", item |-> i, seen |-> item[i],
                     form |-> [item[i] EXCEPT !.total = total, !.borrowable = borrowable,
                                              !.category = k],
                     lost |-> FALSE]
    <2>1. item[i] \in Inventory!Item /\ item[i].here /\ k \in Categories \cup {None}
        BY <1>5 DEF Inventory!ItemUpdateLoad
    <2>2. [item[i] EXCEPT !.total = total, !.borrowable = borrowable, !.category = k] \in Inventory!Item
        BY <2>1 DEF Inventory!Item
    <2>3. q \in Editing
        BY <2>1, <2>2 DEF Editing
    <2>4. clerk' = [clerk EXCEPT ![c] = q] /\ UNCHANGED <<category, item, loan, strained>>
        BY <1>5 DEF Inventory!ItemUpdateLoad, Inventory!Start
    <2>5. q.item = i
        OBVIOUS
    <2> HIDE DEF q
    <2>6. clerk' \in [Clerks -> {Inventory!Idle} \cup Editing \cup Checkout]
        BY <2>3, <2>4
    <2>7. \A e \in Clerks : clerk'[e] = IF e = c THEN q ELSE clerk[e]
        BY <2>4
    <2>8. QED BY <2>1, <2>4, <2>5, <2>6, <2>7
<1>6. ASSUME NEW c \in Clerks, NEW i \in Items, NEW quantity \in Totals,
             Inventory!LoanCheckoutLoad(c, i, quantity)
      PROVE  InventoryTypeOK'
    <2> DEFINE q == [at |-> "checkout", item |-> i, quantity |-> quantity,
                     stale |-> FALSE, lost |-> FALSE]
    <2>1. quantity \in Nat \ {0} /\ item[i].here
        BY <1>6, ThingsAssumption DEF Inventory!LoanCheckoutLoad
    <2>2. q \in Checkout
        BY <2>1 DEF Checkout
    <2>3. clerk' = [clerk EXCEPT ![c] = q] /\ UNCHANGED <<category, item, loan, strained>>
        BY <1>6 DEF Inventory!LoanCheckoutLoad, Inventory!Start
    <2>4. q.item = i
        OBVIOUS
    <2> HIDE DEF q
    <2>5. clerk' \in [Clerks -> {Inventory!Idle} \cup Editing \cup Checkout]
        BY <2>2, <2>3
    <2>6. \A e \in Clerks : clerk'[e] = IF e = c THEN q ELSE clerk[e]
        BY <2>3
    <2>7. QED BY <2>1, <2>3, <2>4, <2>5, <2>6
<1>7. ASSUME NEW c \in Clerks, Inventory!Rollback(c)
      PROVE  InventoryTypeOK'
    BY <1>7 DEF Inventory!Rollback
<1>8. ASSUME NEW c \in Clerks, Inventory!ItemUpdateCommit(c)
      PROVE  InventoryTypeOK'
    <2> DEFINE q == clerk[c]
               i == clerk[c].item
    <2>1. q \in Editing
        BY <1>8, Flags DEF Inventory!ItemUpdateCommit
    <2>2. i \in Items /\ q.form \in Inventory!Item /\ item[i] \in Inventory!Item
        BY <2>1 DEF Editing
    <2>3. CASE Inventory!Rollback(c)
        BY <1>7, <2>3
    <2>4. CASE ~Inventory!Rollback(c)
        <3> DEFINE total == IF q.form.total # q.seen.total THEN q.form.total ELSE item[i].total
                   borrowable == IF q.form.borrowable # q.seen.borrowable
                                 THEN q.form.borrowable ELSE item[i].borrowable
                   k == IF q.form.category # q.seen.category
                        THEN q.form.category ELSE item[i].category
        <3>1. /\ \A j \in Items \ {i} : item'[j] = item[j]
              /\ item'[i] = [item[i] EXCEPT !.total = total, !.borrowable = borrowable,
                                           !.category = k]
              /\ item' = [j \in Items |-> item'[j]]
            BY <1>8, <2>2, <2>4 DEF Inventory!ItemUpdateCommit, Inventory!Item
        <3>2. total \in Totals \cup {0} /\ borrowable \in BOOLEAN /\ k \in Categories \cup {None}
            BY <2>2 DEF Inventory!Item
        <3> HIDE DEF total, borrowable, k
        <3>3. item' \in [Items -> Inventory!Item] /\ \A j \in Items : item'[j].here = item[j].here
            <4>1. item'[i] \in Inventory!Item /\ item'[i].here = item[i].here
                BY <2>2, <3>1, <3>2 DEF Inventory!Item
            <4>2. QED BY <3>1, <4>1
        <3>4. strained' \subseteq Items /\ UNCHANGED <<category, loan>>
            BY <1>8, <2>2, <2>4 DEF Inventory!ItemUpdateCommit
        <3>5. /\ clerk' \in [Clerks -> {Inventory!Idle} \cup Editing \cup Checkout]
              /\ \A e \in Clerks : clerk'[e] # Inventory!Idle =>
                   clerk[e] # Inventory!Idle /\ clerk'[e].item = clerk[e].item /\ clerk'[e].lost = clerk[e].lost
            <4>1. PICK changed \in BOOLEAN : clerk' = [e \in Clerks |->
                     IF e = c THEN Inventory!Idle
                     ELSE IF clerk[e].at = "checkout" /\ clerk[e].item = i /\ changed
                     THEN [clerk[e] EXCEPT !.stale = TRUE] ELSE clerk[e]]
                BY <1>8, <2>4 DEF Inventory!ItemUpdateCommit
            <4>2. \A e \in Clerks : clerk'[e] \in {Inventory!Idle} \cup Editing \cup Checkout
                BY <4>1, Flags
            <4>3. \A e \in Clerks : clerk'[e] # Inventory!Idle =>
                   clerk[e] # Inventory!Idle /\ clerk'[e].item = clerk[e].item /\ clerk'[e].lost = clerk[e].lost
                BY <4>1, Flags
            <4>4. QED BY <4>1, <4>2, <4>3
        <3>6. \A e \in Clerks : clerk[e] # Inventory!Idle => clerk[e].item \in Items
            BY DEF Editing, Checkout
        <3>7. QED BY <3>3, <3>4, <3>5, <3>6
    <2>5. QED BY <2>3, <2>4
<1>9. ASSUME NEW c \in Clerks, NEW l \in Loans, Inventory!LoanCheckoutCommit(c, l)
      PROVE  InventoryTypeOK'
    <2> DEFINE q == clerk[c]
               i == clerk[c].item
    <2>1. q \in Checkout
        BY <1>9, Flags DEF Inventory!LoanCheckoutCommit
    <2>2. i \in Items /\ q.quantity \in Nat
        BY <2>1 DEF Checkout
    <2>3. CASE Inventory!Rollback(c)
        BY <1>7, <2>3
    <2>4. CASE ~Inventory!Rollback(c)
        <3>1. /\ loan' = [loan EXCEPT ![l] = [item |-> i, quantity |-> q.quantity, out |-> TRUE]]
              /\ ~q.lost /\ UNCHANGED <<category, item>> /\ strained' \subseteq Items
            BY <1>9, <2>2, <2>4 DEF Inventory!LoanCheckoutCommit
        <3>2. item[i].here
            BY <2>1, <3>1 DEF Checkout, Inventory!Idle
        <3>3. loan' \in [Loans -> LoanRow]
            BY <2>2, <3>1 DEF LoanRow
        <3>4. \A k \in Loans : loan'[k].out => loan'[k].item \in Items /\ item[loan'[k].item].here
            BY <2>2, <3>1, <3>2
        <3>5. /\ clerk' \in [Clerks -> {Inventory!Idle} \cup Editing \cup Checkout]
              /\ \A e \in Clerks : clerk'[e] # Inventory!Idle =>
                   clerk[e] # Inventory!Idle /\ clerk'[e].item = clerk[e].item /\ clerk'[e].lost = clerk[e].lost
            <4>1. clerk' = [e \in Clerks |->
                     IF e = c THEN Inventory!Idle
                     ELSE IF clerk[e].at = "checkout" /\ clerk[e].item = i
                     THEN [clerk[e] EXCEPT !.stale = TRUE] ELSE clerk[e]]
                BY <1>9, <2>4 DEF Inventory!LoanCheckoutCommit
            <4>2. \A e \in Clerks : clerk'[e] \in {Inventory!Idle} \cup Editing \cup Checkout
                BY <4>1, Flags
            <4>3. \A e \in Clerks : clerk'[e] # Inventory!Idle =>
                   clerk[e] # Inventory!Idle /\ clerk'[e].item = clerk[e].item /\ clerk'[e].lost = clerk[e].lost
                BY <4>1, Flags
            <4>4. QED BY <4>1, <4>2, <4>3
        <3>6. QED BY <3>1, <3>3, <3>4, <3>5
    <2>5. QED BY <2>3, <2>4
<1>10. ASSUME NEW l \in Loans, Inventory!LoanReturn(l)
      PROVE  InventoryTypeOK'
    <2>1. loan' = [loan EXCEPT ![l].out = FALSE] /\ UNCHANGED <<category, item, clerk>> /\ strained' \subseteq Items
        BY <1>10 DEF Inventory!LoanReturn
    <2>2. loan' \in [Loans -> LoanRow] /\ \A k \in Loans : loan'[k].item = loan[k].item /\ (loan'[k].out => loan[k].out)
        BY <2>1 DEF LoanRow
    <2>3. QED BY <2>1, <2>2
<1>11. CASE UNCHANGED Inventory!vars
    BY <1>11 DEF Inventory!vars
<1>12. QED BY <1>1, <1>2, <1>3, <1>4, <1>5, <1>6, <1>8, <1>9, <1>10, <1>11 DEF Inventory!Next

\* A step that leaves the loans and totals alone and reads none of them.
LEMMA Quiet ==
    ASSUME InventoryInv, InventoryTypeOK', UNCHANGED <<loan, strained>>,
           \A i \in Items : item'[i].here => item[i].here /\ item'[i].total = item[i].total,
           \A c \in Clerks : clerk'[c].at = "checkout" => clerk'[c] = clerk[c]
    PROVE  RoomInv' /\ LentWithinStock'
<1> USE DEF InventoryInv
<1>1. \A i : Inventory!QuantityOnLoan(i)' = Inventory!QuantityOnLoan(i)
    BY DEF Inventory!QuantityOnLoan, Inventory!OutstandingOf
<1>2. RoomInv'
    <2> SUFFICES ASSUME NEW i \in Items, NEW c \in Clerks, clerk'[c].at = "checkout",
                        clerk'[c].item = i, ~clerk'[c].stale, ~clerk'[c].lost
                 PROVE  Inventory!QuantityOnLoan(i)' + clerk'[c].quantity <= item'[i].total
        BY DEF RoomInv
    <2>1. clerk'[c] # Inventory!Idle
        BY DEF Inventory!Idle
    <2>2. item'[i].here
        BY <2>1 DEF InventoryTypeOK
    <2>3. QED BY <1>1, <2>2 DEF RoomInv
<1>3. LentWithinStock'
    <2> SUFFICES ASSUME NEW i \in Items, item'[i].here, i \notin strained'
                 PROVE  \/ Inventory!QuantityOnLoan(i)' = 0
                        \/ Inventory!QuantityOnLoan(i)' <= item'[i].total
        BY DEF LentWithinStock, Inventory!LentWithinStock
    <2> QED BY <1>1 DEF LentWithinStock, Inventory!LentWithinStock
<1>4. QED BY <1>2, <1>3

LEMMA LendingStep ==
    ASSUME InventoryInv, InventoryTypeOK', [Inventory!Next]_(Inventory!vars)
    PROVE  RoomInv' /\ LentWithinStock'
<1> USE DEF InventoryInv
<1>0. \A i \in Items : Inventory!QuantityOnLoan(i) \in Nat /\ Inventory!QuantityOnLoan(i)' \in Nat
    <2>1. \A i \in Items : Inventory!QuantityOnLoan(i) \in Nat
        BY OnLoanType
    <2>2. \A i \in Items : Inventory!QuantityOnLoan(i)' \in Nat
        BY OnLoanNatNext DEF OnLoanIsNat
    <2>3. QED BY <2>1, <2>2
<1>1. ASSUME NEW k \in Categories, Inventory!CategoryCreate(k) \/ Inventory!CategoryDelete(k)
      PROVE  RoomInv' /\ LentWithinStock'
    <2>1. UNCHANGED <<loan, strained, clerk>>
        BY <1>1 DEF Inventory!CategoryCreate, Inventory!CategoryDelete
    <2>2. \A i \in Items : item'[i].here = item[i].here /\ item'[i].total = item[i].total
        BY <1>1 DEF Inventory!CategoryCreate, Inventory!CategoryDelete, InventoryTypeOK, Inventory!Item
    <2>3. QED BY <2>1, <2>2, Quiet
<1>2. ASSUME NEW i \in Items, Inventory!ItemDelete(i)
      PROVE  RoomInv' /\ LentWithinStock'
    <2>1. \A j \in Items \ {i} : Inventory!QuantityOnLoan(j)' = Inventory!QuantityOnLoan(j)
        <3> SUFFICES ASSUME NEW j \in Items \ {i}
                     PROVE  Inventory!QuantityOnLoan(j)' = Inventory!QuantityOnLoan(j)
            OBVIOUS
        <3>1. \A l \in Loans : loan'[l] = IF loan[l].item = i THEN Inventory!NoLoan ELSE loan[l]
            BY <1>2 DEF Inventory!ItemDelete
        <3>2. Inventory!OutstandingOf(j)' = Inventory!OutstandingOf(j)
            BY <3>1 DEF Inventory!OutstandingOf, Inventory!NoLoan
        <3>3. \A l \in Inventory!OutstandingOf(j) : loan'[l].quantity = loan[l].quantity
            BY <3>1 DEF Inventory!OutstandingOf
        <3>4. QED BY <3>2, <3>3, OnLoanSame
    <2>2. /\ ~item'[i].here
          /\ \A j \in Items \ {i} : item'[j] = item[j] /\ (j \notin strained' => j \notin strained)
        BY <1>2 DEF Inventory!ItemDelete, Inventory!NoItem, InventoryTypeOK
    <2>3. \A c \in Clerks : clerk'[c].at = "checkout" /\ ~clerk'[c].lost =>
             clerk'[c] = clerk[c] /\ clerk[c].item # i
        BY <1>2, Flags DEF Inventory!ItemDelete, InventoryTypeOK, Inventory!Idle
    <2>4. RoomInv'
        BY <2>1, <2>2, <2>3 DEF RoomInv
    <2>5. LentWithinStock'
        BY <2>1, <2>2 DEF LentWithinStock, Inventory!LentWithinStock
    <2>6. QED BY <2>4, <2>5
<1>3. ASSUME NEW i \in Items, Inventory!Retire(i)
      PROVE  RoomInv' /\ LentWithinStock'
    <2>1. UNCHANGED <<loan, strained, clerk>>
        BY <1>3 DEF Inventory!Retire
    <2>2. \A j \in Items : item'[j].here = item[j].here /\ item'[j].total = item[j].total
        BY <1>3 DEF Inventory!Retire, InventoryTypeOK, Inventory!Item
    <2>3. QED BY <2>1, <2>2, Quiet
<1>4. ASSUME NEW i \in Items, NEW total \in Totals, NEW borrowable \in BOOLEAN,
             NEW k \in category \cup {None}, Inventory!ItemCreate(i, total, borrowable, k)
      PROVE  RoomInv' /\ LentWithinStock'
    <2>1. ~item[i].here /\ UNCHANGED <<loan, strained, clerk>>
        BY <1>4 DEF Inventory!ItemCreate
    <2>2. \A j \in Items \ {i} : item'[j] = item[j]
        BY <1>4 DEF Inventory!ItemCreate, InventoryTypeOK
    <2>3. \A j \in Items : Inventory!QuantityOnLoan(j)' = Inventory!QuantityOnLoan(j)
        BY <2>1 DEF Inventory!QuantityOnLoan, Inventory!OutstandingOf
    <2>4. Inventory!QuantityOnLoan(i) = 0
        <3>1. Inventory!OutstandingOf(i) = {}
            BY <2>1 DEF Inventory!OutstandingOf, InventoryTypeOK
        <3>2. QED BY <3>1, OnLoanType, SumEmpty
    <2>5. \A c \in Clerks : clerk[c].at = "checkout" /\ ~clerk[c].lost => clerk[c].item # i
        BY <2>1 DEF InventoryTypeOK, Inventory!Idle
    <2>6. RoomInv'
        BY <2>1, <2>2, <2>3, <2>5 DEF RoomInv
    <2>7. LentWithinStock'
        BY <2>1, <2>2, <2>3, <2>4 DEF LentWithinStock, Inventory!LentWithinStock
    <2>8. QED BY <2>6, <2>7
<1>5. ASSUME NEW i \in Items, NEW total \in Totals, NEW borrowable \in BOOLEAN,
             NEW k \in category \cup {None}, NEW c \in Clerks,
             Inventory!ItemUpdateLoad(c, i, total, borrowable, k)
      PROVE  RoomInv' /\ LentWithinStock'
    <2>1. UNCHANGED <<loan, strained, item>>
        BY <1>5 DEF Inventory!ItemUpdateLoad
    <2>2. clerk'[c].at = "edit" /\ \A e \in Clerks \ {c} : clerk'[e] = clerk[e]
        BY <1>5 DEF Inventory!ItemUpdateLoad, Inventory!Start, InventoryTypeOK
    <2>3. QED BY <2>1, <2>2, Quiet
<1>6. ASSUME NEW c \in Clerks, NEW i \in Items, NEW quantity \in Totals,
             Inventory!LoanCheckoutLoad(c, i, quantity)
      PROVE  RoomInv' /\ LentWithinStock'
    <2>1. UNCHANGED <<loan, strained, item>>
        BY <1>6 DEF Inventory!LoanCheckoutLoad
    <2>2. /\ clerk'[c].item = i /\ clerk'[c].quantity = quantity
          /\ \A e \in Clerks \ {c} : clerk'[e] = clerk[e]
        BY <1>6 DEF Inventory!LoanCheckoutLoad, Inventory!Start, InventoryTypeOK
    <2>3. \A j \in Items : Inventory!QuantityOnLoan(j)' = Inventory!QuantityOnLoan(j)
        BY <2>1 DEF Inventory!QuantityOnLoan, Inventory!OutstandingOf
    <2>4. Inventory!QuantityOnLoan(i) + quantity <= item[i].total
        <3>1. quantity \in Int /\ item[i].total \in Int
            <4>1. item[i] \in Inventory!Item
                BY DEF InventoryTypeOK
            <4>2. QED BY <4>1, ThingsAssumption, TotalsAreNumbers
        <3>2. quantity >= 1 /\ quantity <= Inventory!AvailableQuantity(i)
            BY <1>6 DEF Inventory!LoanCheckoutLoad
        <3>3. QED BY <1>0, <3>1, <3>2 DEF Inventory!AvailableQuantity
    <2>5. RoomInv'
        BY <2>1, <2>2, <2>3, <2>4 DEF RoomInv
    <2>6. LentWithinStock'
        BY <2>1, <2>3 DEF LentWithinStock, Inventory!LentWithinStock
    <2>7. QED BY <2>5, <2>6
<1>7. ASSUME NEW c \in Clerks, Inventory!Rollback(c)
      PROVE  RoomInv' /\ LentWithinStock'
    <2>1. UNCHANGED <<loan, strained, item>>
        BY <1>7 DEF Inventory!Rollback
    <2>2. clerk'[c].at = "idle" /\ \A e \in Clerks \ {c} : clerk'[e] = clerk[e]
        BY <1>7 DEF Inventory!Rollback, Inventory!Idle, InventoryTypeOK
    <2>3. QED BY <2>1, <2>2, Quiet
<1>8. ASSUME NEW c \in Clerks, Inventory!ItemUpdateCommit(c)
      PROVE  RoomInv' /\ LentWithinStock'
    <2> DEFINE q == clerk[c]
               i == clerk[c].item
               total == IF q.form.total # q.seen.total THEN q.form.total ELSE item[i].total
    <2>1. CASE Inventory!Rollback(c)
        BY <1>7, <2>1
    <2>2. CASE ~Inventory!Rollback(c)
        <3>1. i \in Items
            BY <1>8, Flags DEF Inventory!ItemUpdateCommit, InventoryTypeOK
        <3>2. /\ item'[i].total = total
              /\ \A j \in Items \ {i} : item'[j] = item[j]
              /\ item'[i].here = item[i].here
            BY <1>8, <2>2, <3>1 DEF Inventory!ItemUpdateCommit, InventoryTypeOK, Inventory!Item
        <3>3. strained' = IF total < item[i].total /\ total < Inventory!QuantityOnLoan(i)
                          THEN strained \cup {i} ELSE strained
            BY <1>8, <2>2 DEF Inventory!ItemUpdateCommit
        <3>4. clerk' = [e \in Clerks |->
                 IF e = c THEN Inventory!Idle
                 ELSE IF clerk[e].at = "checkout" /\ clerk[e].item = i /\ total # item[i].total
                 THEN [clerk[e] EXCEPT !.stale = TRUE] ELSE clerk[e]]
            BY <1>8, <2>2 DEF Inventory!ItemUpdateCommit
        <3>5. UNCHANGED loan
            BY <1>8, <2>2 DEF Inventory!ItemUpdateCommit
        <3>6. \A j \in Items : Inventory!QuantityOnLoan(j)' = Inventory!QuantityOnLoan(j)
            BY <3>5 DEF Inventory!QuantityOnLoan, Inventory!OutstandingOf
        <3>7. \A e \in Clerks : clerk'[e].at = "checkout" /\ ~clerk'[e].stale =>
                 clerk'[e] = clerk[e] /\ (clerk[e].item = i => total = item[i].total)
            BY <3>4, Flags DEF Inventory!Idle, InventoryTypeOK
        <3>8. item[i].total \in Int /\ item'[i].total \in Int
            <4>1. item[i] \in Inventory!Item /\ item'[i] \in Inventory!Item
                BY <3>1 DEF InventoryTypeOK
            <4>2. QED BY <4>1, ThingsAssumption, TotalsAreNumbers
        <3> HIDE DEF total
        <3>9. RoomInv'
            BY <3>1, <3>2, <3>6, <3>7 DEF RoomInv
        <3>10. LentWithinStock'
            BY <1>0, <3>1, <3>2, <3>3, <3>6, <3>8 DEF LentWithinStock, Inventory!LentWithinStock
        <3>11. QED BY <3>9, <3>10
    <2>3. QED BY <2>1, <2>2
<1>9. ASSUME NEW c \in Clerks, NEW l \in Loans, Inventory!LoanCheckoutCommit(c, l)
      PROVE  RoomInv' /\ LentWithinStock'
    <2> DEFINE q == clerk[c]
    <2>1. CASE Inventory!Rollback(c)
        BY <1>7, <2>1
    <2>2. CASE ~Inventory!Rollback(c)
        <3>1. PICK i \in Items : i = q.item /\ q \in Checkout
            BY <1>9, Flags DEF Inventory!LoanCheckoutCommit, InventoryTypeOK
        <3>2. /\ loan[l] = Inventory!NoLoan /\ ~q.lost
              /\ loan' = [loan EXCEPT ![l] = [item |-> i, quantity |-> q.quantity, out |-> TRUE]]
              /\ strained' = IF q.stale THEN strained \cup {i} ELSE strained
              /\ clerk' = [e \in Clerks |->
                     IF e = c THEN Inventory!Idle
                     ELSE IF clerk[e].at = "checkout" /\ clerk[e].item = i
                     THEN [clerk[e] EXCEPT !.stale = TRUE] ELSE clerk[e]]
              /\ UNCHANGED item
            BY <1>9, <2>2, <3>1 DEF Inventory!LoanCheckoutCommit
        <3>3. /\ loan'[l] = [item |-> i, quantity |-> q.quantity, out |-> TRUE]
              /\ \A k \in Loans \ {l} : loan'[k] = loan[k]
              /\ ~loan[l].out
            BY <3>2 DEF InventoryTypeOK, Inventory!NoLoan
        <3>4. Inventory!QuantityOnLoan(i)' = Inventory!QuantityOnLoan(i) + q.quantity
            <4>1. l \notin Inventory!OutstandingOf(i)
                BY <3>3 DEF Inventory!OutstandingOf
            <4>2. Inventory!OutstandingOf(i)' = Inventory!OutstandingOf(i) \cup {l}
                BY <3>3 DEF Inventory!OutstandingOf
            <4>3. loan'[l].quantity = q.quantity
                BY <3>3
            <4>4. Inventory!QuantityOnLoan(i)' = Inventory!QuantityOnLoan(i) + loan'[l].quantity
                BY <3>3, <4>1, <4>2, OnLoanMore
            <4>5. QED BY <4>3, <4>4
        <3>5. \A j \in Items \ {i} : Inventory!QuantityOnLoan(j)' = Inventory!QuantityOnLoan(j)
            <4> SUFFICES ASSUME NEW j \in Items \ {i}
                         PROVE  Inventory!QuantityOnLoan(j)' = Inventory!QuantityOnLoan(j)
                OBVIOUS
            <4>1. Inventory!OutstandingOf(j)' = Inventory!OutstandingOf(j)
                BY <3>3 DEF Inventory!OutstandingOf
            <4>2. \A k \in Inventory!OutstandingOf(j) : loan'[k].quantity = loan[k].quantity
                BY <3>3 DEF Inventory!OutstandingOf
            <4>3. QED BY <4>1, <4>2, OnLoanSame
        <3>6. ~q.stale => Inventory!QuantityOnLoan(i) + q.quantity <= item[i].total
            BY <3>1, <3>2 DEF RoomInv, Checkout
        <3>7. \A e \in Clerks : clerk'[e].at = "checkout" /\ ~clerk'[e].stale =>
                 clerk'[e] = clerk[e] /\ clerk[e].item # i
            BY <3>2, Flags DEF Inventory!Idle, InventoryTypeOK
        <3>8. RoomInv'
            BY <3>2, <3>5, <3>7 DEF RoomInv
        <3>9. LentWithinStock'
            BY <3>1, <3>2, <3>4, <3>5, <3>6 DEF LentWithinStock, Inventory!LentWithinStock
        <3>10. QED BY <3>8, <3>9
    <2>3. QED BY <2>1, <2>2
<1>10. ASSUME NEW l \in Loans, Inventory!LoanReturn(l)
      PROVE  RoomInv' /\ LentWithinStock'
    <2>0. PICK i \in Items : i = loan[l].item
        BY <1>10 DEF Inventory!LoanReturn, InventoryTypeOK
    <2>1. /\ loan[l].out /\ loan[l] \in LoanRow
          /\ loan' = [loan EXCEPT ![l].out = FALSE]
          /\ strained' = IF Inventory!QuantityOnLoan(i) - loan[l].quantity <= item[i].total
                         THEN strained \ {i} ELSE strained
          /\ UNCHANGED <<item, clerk>>
        BY <1>10, <2>0 DEF Inventory!LoanReturn, InventoryTypeOK
    <2>2. /\ \A k \in Loans : loan'[k].item = loan[k].item /\ loan'[k].quantity = loan[k].quantity
                              /\ loan'[k].out = (loan[k].out /\ k # l)
        BY <2>1 DEF InventoryTypeOK, LoanRow
    <2>3. Inventory!QuantityOnLoan(i)' = Inventory!QuantityOnLoan(i) - loan[l].quantity
        <3>1. l \in Inventory!OutstandingOf(i)
            BY <2>0, <2>1 DEF Inventory!OutstandingOf
        <3>2. Inventory!OutstandingOf(i)' = Inventory!OutstandingOf(i) \ {l}
            BY <2>2 DEF Inventory!OutstandingOf
        <3>3. QED BY <2>2, <3>1, <3>2, OnLoanLess
    <2>4. \A j \in Items \ {i} : Inventory!QuantityOnLoan(j)' = Inventory!QuantityOnLoan(j)
        <3> SUFFICES ASSUME NEW j \in Items \ {i}
                     PROVE  Inventory!QuantityOnLoan(j)' = Inventory!QuantityOnLoan(j)
            OBVIOUS
        <3>1. Inventory!OutstandingOf(j)' = Inventory!OutstandingOf(j)
            BY <2>0, <2>2 DEF Inventory!OutstandingOf
        <3>2. \A k \in Inventory!OutstandingOf(j) : loan'[k].quantity = loan[k].quantity
            BY <2>2 DEF Inventory!OutstandingOf
        <3>3. QED BY <3>1, <3>2, OnLoanSame
    <2>5. loan[l].quantity \in Nat /\ \A j \in Items : item[j].total \in Int
        BY <2>1, ThingsAssumption DEF LoanRow, InventoryTypeOK, Inventory!Item
    <2>6. RoomInv'
        <3> SUFFICES ASSUME NEW j \in Items, NEW c \in Clerks, clerk'[c].at = "checkout",
                            clerk'[c].item = j, ~clerk'[c].stale, ~clerk'[c].lost
                     PROVE  Inventory!QuantityOnLoan(j)' + clerk'[c].quantity <= item'[j].total
            BY DEF RoomInv
        <3>1. clerk[c] \in Checkout
            BY <2>1, Flags DEF InventoryTypeOK
        <3>2. Inventory!QuantityOnLoan(j) + clerk[c].quantity <= item[j].total
            BY <2>1 DEF RoomInv
        <3>3. clerk[c].quantity \in Nat
            BY <3>1 DEF Checkout
        <3>4. QED BY <1>0, <2>1, <2>3, <2>4, <2>5, <3>2, <3>3
    <2>7. LentWithinStock'
        BY <1>0, <2>1, <2>3, <2>4, <2>5 DEF LentWithinStock, Inventory!LentWithinStock
    <2>8. QED BY <2>6, <2>7
<1>11. CASE UNCHANGED Inventory!vars
    BY <1>11, Quiet DEF Inventory!vars
<1>12. QED BY <1>1, <1>2, <1>3, <1>4, <1>5, <1>6, <1>8, <1>9, <1>10, <1>11 DEF Inventory!Next

\* The inductive invariant: what a checkout in flight has counted is still so,
\* unless another commit has overtaken it.
THEOREM InventoryInvariant == Inventory!Spec => []InventoryInv
<1>1. Inventory!Init => InventoryInv
    <2> SUFFICES ASSUME Inventory!Init PROVE InventoryInv
        OBVIOUS
    <2> USE DEF Inventory!Init
    <2>1. InventoryTypeOK
        BY DEF InventoryTypeOK, LoanRow, Inventory!Item, Inventory!NoItem, Inventory!NoLoan
    <2>2. RoomInv
        BY DEF RoomInv, Inventory!Idle
    <2>3. LentWithinStock
        BY DEF LentWithinStock, Inventory!LentWithinStock, Inventory!NoItem
    <2>4. QED BY <2>1, <2>2, <2>3 DEF InventoryInv
<1>2. InventoryInv /\ [Inventory!Next]_(Inventory!vars) => InventoryInv'
    BY InventoryTypeStep, LendingStep DEF InventoryInv
<1>3. QED BY <1>1, <1>2, PTL DEF Inventory!Spec

\* No more of an item is out on loan than there is, for any items, quantities and
\* number of loans: checkout_loan and update_item compare with the sum over all
\* open loans of the item, and only an edit below what is out, or a checkout
\* that another loan or edit has overtaken, makes an exception.
THEOREM LoansStayWithinStock == Inventory!Spec => []LentWithinStock
BY InventoryInvariant, PTL DEF InventoryInv
-----------------------------------------------------------------------------
(***************************************************************************)
(* Metering                                                                *)
(***************************************************************************)
MeterRow == [point : Points \cup {None}, active : BOOLEAN, initial : Initials \cup {0}]
Exchange == [at : {"exchange"}, point : Points, old : Meters, new : Meters,
             initial : Initials, stale : BOOLEAN, lost : BOOLEAN]
Recording == [at : {"recording"}, point : Points, meter : Meters, year : Years,
              value : Values, seen : Values \cup {None}, stale : BOOLEAN, lost : BOOLEAN]
FitterState == {Metered!Idle} \cup Exchange \cup Recording

\* All variables of Metering have their types; a meter is of a point there is,
\* every point has an active one, and a number not in use has no readings.
MeteringTypeOK ==
    /\ point \subseteq Points
    /\ meter \in [Meters -> MeterRow]
    /\ reading \in [Meters -> [Years -> Values \cup {None}]]
    /\ fitter \in [Fitters -> FitterState]
    /\ tangled \subseteq Points \cup Meters
    /\ \A m \in Meters :
         \/ meter[m].point \in point
         \/ meter[m] = Metered!NoMeter /\ \A y \in Years : reading[m][y] = None
    /\ \A p \in point : \E m \in Meters : meter[m].point = p /\ meter[m].active

\* An exchange that is not lost holds a meter of its point, and the only active
\* one unless it or the point has been overtaken.
ExchangeOK(f) ==
    fitter[f].at = "exchange" /\ ~fitter[f].lost =>
        /\ fitter[f].point \in point
        /\ meter[fitter[f].old].point = fitter[f].point
        /\ ~fitter[f].stale /\ fitter[f].point \notin tangled =>
             \A m \in Meters : meter[m].point = fitter[f].point /\ meter[m].active <=> m = fitter[f].old

\* A recording that is not lost holds a meter of its point, and its value still
\* fits between the readings unless it has been overtaken.
RecordingOK(f) ==
    \A m \in Meters, y \in Years, value \in Values :
        /\ fitter[f].at = "recording" /\ ~fitter[f].lost
        /\ fitter[f].meter = m /\ fitter[f].year = y /\ fitter[f].value = value
        => /\ meter[m].point = fitter[f].point /\ fitter[f].point \in point
           /\ ~fitter[f].stale => /\ Metered!Plausible(m, y, value)
                                  /\ reading[m][y] = fitter[f].seen

RequestsOK == \A f \in Fitters : ExchangeOK(f) /\ RecordingOK(f)

SingleMeter ==
    \A p \in point \ tangled : \A m, n \in Meters :
        /\ meter[m].point = p /\ meter[m].active
        /\ meter[n].point = p /\ meter[n].active
        => m = n

LEMMA CardinalityIs == \A S : Metered!Cardinality(S) = Cardinality(S)
BY DEF Metered!Cardinality, Cardinality

Grows(m) ==
    \A y \in Metered!Recorded(m) :
        /\ meter[m].initial <= reading[m][y]
        /\ \A x \in Metered!Recorded(m) : x < y => reading[m][x] <= reading[m][y]

GrowOK == \A m \in Meters \ tangled : Grows(m)

MeteringInv == MeteringTypeOK /\ RequestsOK /\ SingleMeter /\ GrowOK

Flagged(q) == [q EXCEPT !.stale = TRUE]
Lost(q) == [q EXCEPT !.lost = TRUE]

LEMMA FitterFlags ==
    /\ \A q \in Exchange : /\ Lost(q) \in Exchange /\ Lost(q).lost
                           /\ Flagged(q) \in Exchange /\ Flagged(q).stale /\ Flagged(q).lost = q.lost
                           /\ Flagged(q).point = q.point /\ Flagged(q).old = q.old
    /\ \A q \in Recording : /\ Lost(q) \in Recording /\ Lost(q).lost
                            /\ Flagged(q) \in Recording /\ Flagged(q).stale /\ Flagged(q).lost = q.lost
                            /\ Flagged(q).point = q.point /\ Flagged(q).meter = q.meter
                            /\ Flagged(q).year = q.year
    /\ \A q \in FitterState : /\ q.at = "exchange" => q \in Exchange
                              /\ q.at = "recording" => q \in Recording
                              /\ q # Metered!Idle => q \in Exchange \cup Recording
    /\ \A q \in Exchange : q.at = "exchange"
    /\ \A q \in Recording : q.at = "recording"
    /\ Metered!Idle.at = "idle"
<1>1. \A q \in Exchange : Lost(q) \in Exchange /\ Lost(q).lost
    BY DEF Exchange, Lost
<1>2. \A q \in Exchange :
         /\ Flagged(q) \in Exchange /\ Flagged(q).stale /\ Flagged(q).lost = q.lost
         /\ Flagged(q).point = q.point /\ Flagged(q).old = q.old
    BY DEF Exchange, Flagged
<1>3. \A q \in Recording : Lost(q) \in Recording /\ Lost(q).lost
    BY DEF Recording, Lost
<1>4. \A q \in Recording :
         /\ Flagged(q) \in Recording /\ Flagged(q).stale /\ Flagged(q).lost = q.lost
         /\ Flagged(q).point = q.point /\ Flagged(q).meter = q.meter /\ Flagged(q).year = q.year
    BY DEF Recording, Flagged
<1>5. /\ \A q \in Exchange : q.at = "exchange"
      /\ \A q \in Recording : q.at = "recording"
      /\ Metered!Idle.at = "idle"
    BY DEF Exchange, Recording, Metered!Idle
<1>6. QED BY <1>1, <1>2, <1>3, <1>4, <1>5 DEF FitterState

\* What another request makes of one in flight.
Passed(before, after) == after = Metered!Idle \/ after = before \/ after = Flagged(before)

LEMMA PassedMeans ==
    ASSUME NEW before \in FitterState, NEW after, Passed(before, after)
    PROVE  /\ before # Metered!Idle => after \in FitterState
           /\ before = Metered!Idle /\ after \in {before, Metered!Idle} => after \in FitterState
           /\ before # Metered!Idle /\ after.at = "exchange" =>
                /\ before.at = "exchange" /\ after.lost = before.lost
                /\ after.point = before.point /\ after.old = before.old
                /\ ~after.stale => after = before
           /\ before # Metered!Idle /\ after.at = "recording" =>
                /\ before.at = "recording" /\ after.lost = before.lost
                /\ after.point = before.point /\ after.meter = before.meter
                /\ after.year = before.year
                /\ ~after.stale => after = before
BY FitterFlags DEF Passed, FitterState

LEMMA FinishMeans ==
    ASSUME MeteringTypeOK, NEW f \in Fitters, NEW m, NEW p, Metered!Finish(f, m, p)
    PROVE  /\ fitter' \in [Fitters -> FitterState]
           /\ \A g \in Fitters : fitter'[g].at # "idle" =>
                /\ fitter[g] # Metered!Idle /\ Passed(fitter[g], fitter'[g])
                /\ ~fitter'[g].stale => /\ fitter'[g].at = "recording" => fitter[g].meter # m
                                        /\ fitter'[g].at = "exchange" => fitter[g].point # p
<1>1. \A g \in Fitters :
         fitter'[g] = IF g = f THEN Metered!Idle
                      ELSE IF fitter[g].at = "recording" /\ fitter[g].meter = m
                      THEN Flagged(fitter[g])
                      ELSE IF fitter[g].at = "exchange" /\ fitter[g].point = p
                      THEN Flagged(fitter[g])
                      ELSE fitter[g]
    BY DEF Metered!Finish, Flagged
<1>2. \A g \in Fitters : fitter[g] \in FitterState
    BY DEF MeteringTypeOK
<1>3. \A g \in Fitters : fitter'[g] \in FitterState
    BY <1>1, <1>2, FitterFlags DEF FitterState
<1>4. fitter' \in [Fitters -> FitterState]
    BY <1>3 DEF Metered!Finish
<1>5. ASSUME NEW g \in Fitters, fitter'[g].at # "idle"
      PROVE  /\ fitter[g] # Metered!Idle /\ Passed(fitter[g], fitter'[g])
             /\ ~fitter'[g].stale => /\ fitter'[g].at = "recording" => fitter[g].meter # m
                                     /\ fitter'[g].at = "exchange" => fitter[g].point # p
    BY <1>1, <1>2, <1>5, FitterFlags DEF Passed
<1>6. QED BY <1>4, <1>5

\* Values, initial readings and years are numbers, null is none.
LEMMA ReadingTypes ==
    ASSUME MeteringTypeOK, NEW m \in Meters
    PROVE  /\ meter[m].initial \in Int
           /\ \A y \in Years : reading[m][y] = None \/ reading[m][y] \in Int
           /\ Metered!Recorded(m) = {y \in Years : reading[m][y] # None}
           /\ Metered!Recorded(m) \subseteq Int
           /\ \A y \in Metered!Recorded(m) : y \in Years /\ reading[m][y] \in Int
           /\ \A S \in SUBSET Metered!Recorded(m) : S # {} =>
                /\ Max(S) \in S /\ \A x \in S : x <= Max(S)
                /\ Min(S) \in S /\ \A x \in S : Min(S) <= x
<1>1. meter[m].initial \in Int
    <2>1. Initials \cup {0} \subseteq Int
        BY ThingsAssumption
    <2>2. meter[m] \in MeterRow
        BY DEF MeteringTypeOK
    <2>3. QED BY <2>1, <2>2 DEF MeterRow
<1>2. \A y \in Years : reading[m][y] \in Values \cup {None}
    BY DEF MeteringTypeOK
<1>3. Values \subseteq Int /\ Years \subseteq Int /\ IsFiniteSet(Years)
    BY ThingsAssumption
<1>4. Metered!Recorded(m) = {y \in Years : reading[m][y] # None}
    BY DEF Metered!Recorded, Metered!Blank
<1>5. \A S \in SUBSET Metered!Recorded(m) : S # {} =>
         /\ Max(S) \in S /\ \A x \in S : x <= Max(S)
         /\ Min(S) \in S /\ \A x \in S : Min(S) <= x
    <2> SUFFICES ASSUME NEW S \in SUBSET Metered!Recorded(m), S # {}
                 PROVE  /\ Max(S) \in S /\ \A x \in S : x <= Max(S)
                        /\ Min(S) \in S /\ \A x \in S : Min(S) <= x
        OBVIOUS
    <2>1. S \subseteq Years
        BY <1>4
    <2>2. S \subseteq Int /\ IsFiniteSet(S)
        BY <1>3, <2>1, FS_Subset
    <2>3. QED BY <2>2, Extrema
<1>6. QED BY <1>1, <1>2, <1>3, <1>4, <1>5

\* The instance's Max and Min are those of the community module.
LEMMA ExtremaAre == \A S : Metered!Max(S) = Max(S) /\ Metered!Min(S) = Min(S)
BY DEF Metered!Max, Metered!Min, Max, Min

\* A value that is plausible beside growing readings fits between all of them.
LEMMA PlausibleFits ==
    ASSUME MeteringTypeOK, NEW m \in Meters, NEW y \in Years, NEW value \in Values, Grows(m),
           Metered!Plausible(m, y, value)
    PROVE  /\ meter[m].initial <= value
           /\ \A x \in Metered!Recorded(m) : x < y => reading[m][x] <= value
           /\ \A x \in Metered!Recorded(m) : y < x => value <= reading[m][x]
<1> DEFINE earlier == {x \in Metered!Recorded(m) : x < y}
           later == {x \in Metered!Recorded(m) : x > y}
<1>1. value \in Int /\ y \in Int
    BY ThingsAssumption
<1>2. /\ IF earlier = {} THEN meter[m].initial <= value ELSE reading[m][Max(earlier)] <= value
      /\ later # {} => value <= reading[m][Min(later)]
    BY ExtremaAre DEF Metered!Plausible, Metered!ReadingBefore, Metered!BelowReadingAfter
<1>3. earlier \in SUBSET Metered!Recorded(m) /\ later \in SUBSET Metered!Recorded(m)
    OBVIOUS
<1>4. /\ earlier # {} => Max(earlier) \in earlier /\ \A x \in earlier : x <= Max(earlier)
      /\ later # {} => Min(later) \in later /\ \A x \in later : Min(later) <= x
    BY <1>3, ReadingTypes
<1>5. /\ Metered!Recorded(m) \subseteq Int /\ meter[m].initial \in Int
      /\ \A x \in Metered!Recorded(m) : reading[m][x] \in Int
    BY ReadingTypes
<1>6. \A a, b \in Metered!Recorded(m) : a <= b => reading[m][a] <= reading[m][b]
    BY <1>5 DEF Grows
<1>7. \A a \in Metered!Recorded(m) : meter[m].initial <= reading[m][a]
    BY DEF Grows
<1>8. meter[m].initial <= value
    <2>1. CASE earlier = {}
        BY <1>2, <2>1
    <2>2. CASE earlier # {}
        <3> DEFINE e == Max(earlier)
        <3>1. e \in Metered!Recorded(m) /\ reading[m][e] <= value
            BY <1>2, <1>4, <2>2
        <3> HIDE DEF e
        <3>2. QED BY <1>1, <1>5, <1>7, <3>1
    <2>3. QED BY <2>1, <2>2
<1>9. ASSUME NEW x \in Metered!Recorded(m), x < y
      PROVE  reading[m][x] <= value
    <2> DEFINE e == Max(earlier)
    <2>1. x \in earlier
        BY <1>9
    <2>2. e \in Metered!Recorded(m) /\ x <= e /\ reading[m][e] <= value
        BY <1>2, <1>4, <2>1
    <2> HIDE DEF e
    <2>3. reading[m][x] <= reading[m][e]
        BY <1>6, <2>2
    <2>4. QED BY <1>1, <1>5, <2>2, <2>3
<1>10. ASSUME NEW x \in Metered!Recorded(m), y < x
       PROVE  value <= reading[m][x]
    <2> DEFINE e == Min(later)
    <2>1. x \in later
        BY <1>1, <1>5, <1>10
    <2>2. e \in Metered!Recorded(m) /\ e <= x /\ value <= reading[m][e]
        BY <1>2, <1>4, <2>1
    <2> HIDE DEF e
    <2>3. reading[m][e] <= reading[m][x]
        BY <1>6, <2>2
    <2>4. QED BY <1>1, <1>5, <2>2, <2>3
<1>11. QED BY <1>8, <1>9, <1>10

\* Both depend on the readings and the initial reading of the meter only.
LEMMA PlausibleSame ==
    ASSUME NEW m, NEW y, NEW value, reading'[m] = reading[m], meter'[m].initial = meter[m].initial
    PROVE  /\ Metered!Plausible(m, y, value)' <=> Metered!Plausible(m, y, value)
           /\ Grows(m)' <=> Grows(m)
<1>1. Metered!Recorded(m)' = Metered!Recorded(m)
    BY DEF Metered!Recorded, Metered!Blank
<1>2. Grows(m)' <=> Grows(m)
    BY <1>1 DEF Grows
<1>3. Metered!ReadingBefore(m, y)' = Metered!ReadingBefore(m, y)
    BY <1>1 DEF Metered!ReadingBefore
<1>4. Metered!BelowReadingAfter(m, y, value)' <=> Metered!BelowReadingAfter(m, y, value)
    BY <1>1 DEF Metered!BelowReadingAfter
<1>5. QED BY <1>2, <1>3, <1>4 DEF Metered!Plausible

LEMMA GrowMeans == ReadingsGrow <=> GrowOK
BY DEF GrowOK, ReadingsGrow, Metered!ReadingsGrow, Grows

\* A request in flight stays right if its point and meters are still there and,
\* unless it is overtaken, what it has read.
LEMMA KeptRequest ==
    ASSUME MeteringInv, NEW g \in Fitters, fitter[g] # Metered!Idle,
           Passed(fitter[g], fitter'[g]),
           ASSUME fitter[g].point \in point, ~fitter[g].lost
           PROVE  /\ fitter[g].point \in point'
                  /\ \A m \in Meters : meter[m].point = fitter[g].point =>
                                         meter'[m].point = fitter[g].point,
           ASSUME fitter'[g] = fitter[g], ~fitter[g].stale, fitter[g].at = "exchange",
                  fitter[g].point \in point
           PROVE  /\ \A m \in Meters : meter'[m].point = fitter[g].point /\ meter'[m].active
                                        <=> meter[m].point = fitter[g].point /\ meter[m].active
                  /\ fitter[g].point \in tangled => fitter[g].point \in tangled',
           ASSUME NEW m \in Meters, fitter'[g] = fitter[g], ~fitter[g].stale,
                  fitter[g].at = "recording", fitter[g].meter = m, meter[m].point \in point
           PROVE  reading'[m] = reading[m] /\ meter'[m].initial = meter[m].initial
    PROVE  ExchangeOK(g)' /\ RecordingOK(g)'
<1> USE DEF MeteringInv
<1>1. fitter[g] \in FitterState /\ ExchangeOK(g) /\ RecordingOK(g)
    BY DEF MeteringTypeOK, RequestsOK
<1>2. ExchangeOK(g)'
    <2> SUFFICES ASSUME fitter'[g].at = "exchange", ~fitter'[g].lost
                 PROVE  /\ fitter'[g].point \in point'
                        /\ meter'[fitter'[g].old].point = fitter'[g].point
                        /\ ~fitter'[g].stale /\ fitter'[g].point \notin tangled' =>
                             \A m \in Meters :
                               meter'[m].point = fitter'[g].point /\ meter'[m].active
                                 <=> m = fitter'[g].old
        BY DEF ExchangeOK
    <2>1. /\ fitter[g].at = "exchange" /\ ~fitter[g].lost /\ fitter[g] \in Exchange
          /\ fitter'[g].point = fitter[g].point /\ fitter'[g].old = fitter[g].old
          /\ ~fitter'[g].stale => fitter'[g] = fitter[g]
        BY <1>1, PassedMeans, FitterFlags
    <2>2. fitter[g].point \in point /\ meter[fitter[g].old].point = fitter[g].point
        BY <1>1, <2>1 DEF ExchangeOK
    <2>3. fitter[g].old \in Meters
        BY <2>1 DEF Exchange
    <2>4. fitter'[g].point \in point' /\ meter'[fitter'[g].old].point = fitter'[g].point
        BY <2>1, <2>2, <2>3
    <2>5. ASSUME ~fitter'[g].stale, fitter'[g].point \notin tangled'
          PROVE  \A m \in Meters : meter'[m].point = fitter'[g].point /\ meter'[m].active
                                     <=> m = fitter'[g].old
        BY <1>1, <2>1, <2>2, <2>5 DEF ExchangeOK
    <2>6. QED BY <2>4, <2>5
<1>3. RecordingOK(g)'
    <2> SUFFICES ASSUME NEW m \in Meters, NEW y \in Years, NEW value \in Values,
                        fitter'[g].at = "recording", ~fitter'[g].lost, fitter'[g].meter = m,
                        fitter'[g].year = y, fitter'[g].value = value
                 PROVE  /\ meter'[m].point = fitter'[g].point /\ fitter'[g].point \in point'
                        /\ ~fitter'[g].stale => /\ Metered!Plausible(m, y, value)'
                                                /\ reading'[m][y] = fitter'[g].seen
        BY DEF RecordingOK
    <2>1. /\ fitter[g].at = "recording" /\ ~fitter[g].lost /\ fitter[g] \in Recording
          /\ fitter'[g].point = fitter[g].point /\ fitter[g].meter = m /\ fitter[g].year = y
          /\ ~fitter'[g].stale => fitter'[g] = fitter[g]
        BY <1>1, PassedMeans, FitterFlags
    <2>2. fitter[g].value \in Values
        BY <2>1 DEF Recording
    <2>3. meter[m].point = fitter[g].point /\ fitter[g].point \in point
        BY <1>1, <2>1, <2>2 DEF RecordingOK
    <2>4. meter'[m].point = fitter'[g].point /\ fitter'[g].point \in point'
        BY <2>1, <2>3
    <2>5. ASSUME ~fitter'[g].stale
          PROVE  Metered!Plausible(m, y, value)' /\ reading'[m][y] = fitter'[g].seen
        <3>1. fitter'[g] = fitter[g] /\ reading'[m] = reading[m] /\ meter'[m].initial = meter[m].initial
            BY <2>1, <2>3, <2>5
        <3>2. Metered!Plausible(m, y, value) /\ reading[m][y] = fitter[g].seen
            BY <1>1, <2>1, <2>5, <3>1 DEF RecordingOK
        <3>3. QED BY <3>1, <3>2, PlausibleSame
    <2>6. QED BY <2>4, <2>5
<1>4. QED BY <1>2, <1>3

LEMMA IdleRequest ==
    ASSUME NEW g \in Fitters, \/ fitter'[g].at \notin {"exchange", "recording"}
                              \/ fitter'[g].lost
    PROVE  ExchangeOK(g)' /\ RecordingOK(g)'
BY DEF ExchangeOK, RecordingOK

LEMMA PointCreateStep ==
    ASSUME MeteringInv, NEW p \in Points, NEW m \in Meters, NEW initial \in Initials,
           Metered!MeteringPointCreate(p, m, initial)
    PROVE  MeteringInv'
<1> USE DEF MeteringInv
<1>1. /\ p \notin point /\ meter[m] = Metered!NoMeter
      /\ point' = point \cup {p}
      /\ meter' = [meter EXCEPT ![m] = [point |-> p, active |-> TRUE, initial |-> initial]]
      /\ UNCHANGED <<reading, fitter, tangled>>
    BY DEF Metered!MeteringPointCreate
<1>2. /\ meter'[m] = [point |-> p, active |-> TRUE, initial |-> initial]
      /\ \A n \in Meters \ {m} : meter'[n] = meter[n]
      /\ meter' \in [Meters -> MeterRow]
    BY <1>1 DEF MeteringTypeOK, MeterRow
<1>3. None \notin Points /\ meter[m].point = None
    BY <1>1, ThingsAssumption DEF Metered!NoMeter
<1>4. \A n \in Meters : meter[n].point # p
    BY <1>1, <1>3 DEF MeteringTypeOK, Metered!NoMeter
<1>5. \A y \in Years : reading[m][y] = None
    BY <1>3 DEF MeteringTypeOK
<1>6. MeteringTypeOK'
    BY <1>1, <1>2, <1>3 DEF MeteringTypeOK
<1>7. RequestsOK'
    <2> SUFFICES ASSUME NEW g \in Fitters PROVE ExchangeOK(g)' /\ RecordingOK(g)'
        BY DEF RequestsOK
    <2>1. CASE fitter[g] = Metered!Idle
        BY <1>1, <2>1, IdleRequest, FitterFlags
    <2>2. CASE fitter[g] # Metered!Idle
        <3>1. Passed(fitter[g], fitter'[g])
            BY <1>1 DEF Passed
        <3>2. \A n \in Meters : meter[n].point \in point => n # m
            BY <1>3 DEF MeteringTypeOK
        <3>3. QED BY <1>1, <1>2, <2>2, <3>1, <3>2, KeptRequest
    <2>3. QED BY <2>1, <2>2
<1>8. SingleMeter'
    BY <1>1, <1>2, <1>4 DEF SingleMeter
<1>9. GrowOK'
    <2> SUFFICES ASSUME NEW n \in Meters \ tangled' PROVE Grows(n)'
        BY DEF GrowOK
    <2>1. CASE n = m
        BY <1>1, <1>5, <2>1 DEF Grows, Metered!Recorded, Metered!Blank
    <2>2. CASE n # m
        <3>1. reading'[n] = reading[n] /\ meter'[n].initial = meter[n].initial
            BY <1>1, <1>2, <2>2
        <3>2. QED BY <1>1, <3>1, PlausibleSame DEF GrowOK
    <2>3. QED BY <2>1, <2>2
<1>10. QED BY <1>6, <1>7, <1>8, <1>9

LEMMA PointDeleteStep ==
    ASSUME MeteringInv, NEW p \in Points, Metered!MeteringPointDelete(p)
    PROVE  MeteringInv'
<1> USE DEF MeteringInv
<1>1. /\ p \in point /\ point' = point \ {p}
      /\ meter' = [m \in Meters |-> IF meter[m].point = p THEN Metered!NoMeter ELSE meter[m]]
      /\ reading' = [m \in Meters |-> IF meter[m].point = p THEN [y \in Years |-> None] ELSE reading[m]]
      /\ fitter' = [f \in Fitters |-> IF fitter[f] # Metered!Idle /\ fitter[f].point = p
                                      THEN Lost(fitter[f]) ELSE fitter[f]]
      /\ tangled' = tangled \ ({p} \cup Metered!MetersOf(p))
    BY DEF Metered!MeteringPointDelete, Metered!MetersOf, Metered!Blank, Lost
<1>2. /\ \A m \in Meters : meter[m].point = p => meter'[m] = Metered!NoMeter /\ \A y \in Years : reading'[m][y] = None
      /\ \A m \in Meters : meter[m].point # p => meter'[m] = meter[m] /\ reading'[m] = reading[m]
    BY <1>1
<1>3. Metered!NoMeter \in MeterRow /\ Metered!NoMeter.point = None /\ None \notin Points
    BY ThingsAssumption DEF Metered!NoMeter, MeterRow
<1>4. meter' \in [Meters -> MeterRow] /\ reading' \in [Meters -> [Years -> Values \cup {None}]]
    BY <1>1, <1>3 DEF MeteringTypeOK
<1>5. fitter' \in [Fitters -> FitterState]
    BY <1>1, FitterFlags DEF MeteringTypeOK, FitterState
<1>6. MeteringTypeOK'
    <2>1. \A m \in Meters :
            \/ meter'[m].point \in point'
            \/ meter'[m] = Metered!NoMeter /\ \A y \in Years : reading'[m][y] = None
        <3> SUFFICES ASSUME NEW m \in Meters
                     PROVE  \/ meter'[m].point \in point'
                            \/ meter'[m] = Metered!NoMeter /\ \A y \in Years : reading'[m][y] = None
            OBVIOUS
        <3>1. CASE meter[m].point = p
            BY <1>2, <3>1
        <3>2. CASE meter[m].point # p
            BY <1>1, <1>2, <3>2 DEF MeteringTypeOK
        <3>3. QED BY <3>1, <3>2
    <2>2. \A o \in point' : \E m \in Meters : meter'[m].point = o /\ meter'[m].active
        BY <1>1, <1>2 DEF MeteringTypeOK
    <2>3. point' \subseteq Points /\ tangled' \subseteq Points \cup Meters
        BY <1>1 DEF MeteringTypeOK
    <2>4. QED BY <1>4, <1>5, <2>1, <2>2, <2>3 DEF MeteringTypeOK
<1>7. RequestsOK'
    <2> SUFFICES ASSUME NEW g \in Fitters PROVE ExchangeOK(g)' /\ RecordingOK(g)'
        BY DEF RequestsOK
    <2>0. fitter[g] \in FitterState
        BY DEF MeteringTypeOK
    <2>1. CASE fitter[g] = Metered!Idle
        BY <1>1, <2>1, IdleRequest, FitterFlags
    <2>2. CASE fitter[g] # Metered!Idle /\ fitter[g].point = p
        <3>1. fitter'[g] = Lost(fitter[g])
            BY <1>1, <2>2
        <3>2. QED BY <2>0, <2>2, <3>1, IdleRequest, FitterFlags
    <2>3. CASE fitter[g] # Metered!Idle /\ fitter[g].point # p
        <3>1. fitter'[g] = fitter[g] /\ Passed(fitter[g], fitter'[g])
            BY <1>1, <2>3 DEF Passed
        <3>2. ASSUME fitter[g].point \in point
              PROVE  /\ fitter[g].point \in point'
                     /\ \A m \in Meters : meter[m].point = fitter[g].point => meter'[m] = meter[m]
                     /\ \A m \in Meters : meter'[m].point = fitter[g].point => meter'[m] = meter[m]
                     /\ fitter[g].point \in tangled => fitter[g].point \in tangled'
            <4>1. fitter[g].point \in point'
                BY <1>1, <2>3, <3>2
            <4>2. \A m \in Meters : meter[m].point = fitter[g].point => meter'[m] = meter[m]
                BY <1>2, <2>3
            <4>3. \A m \in Meters : meter'[m].point = fitter[g].point => meter'[m] = meter[m]
                BY <1>2, <1>3, <3>2 DEF MeteringTypeOK
            <4>4. fitter[g].point \notin Meters
                BY <3>2, ThingsAssumption DEF MeteringTypeOK
            <4>5. fitter[g].point \in tangled => fitter[g].point \in tangled'
                BY <1>1, <2>3, <4>4 DEF Metered!MetersOf
            <4>6. QED BY <4>1, <4>2, <4>3, <4>5
        <3>3. ASSUME NEW m \in Meters, fitter[g].at = "recording", ~fitter[g].lost, fitter[g].meter = m
              PROVE  meter'[m] = meter[m] /\ reading'[m] = reading[m]
            <4>1. fitter[g] \in Recording
                BY <2>0, <3>3, FitterFlags
            <4>2. meter[m].point = fitter[g].point
                BY <3>3, <4>1 DEF RequestsOK, RecordingOK, Recording
            <4>3. QED BY <1>2, <2>3, <4>2
        <3>4. CASE fitter[g].lost
            BY <3>1, <3>4, IdleRequest
        <3>5. CASE ~fitter[g].lost
            <4>1. ASSUME NEW m \in Meters, fitter[g].at = "recording", fitter[g].meter = m
                  PROVE  reading'[m] = reading[m] /\ meter'[m].initial = meter[m].initial
                BY <3>3, <3>5, <4>1
            <4>2. ASSUME fitter[g].point \in point
                  PROVE  /\ \A m \in Meters : meter[m].point = fitter[g].point =>
                                                meter'[m].point = fitter[g].point
                         /\ \A m \in Meters : meter'[m].point = fitter[g].point /\ meter'[m].active
                                        <=> meter[m].point = fitter[g].point /\ meter[m].active
                BY <3>2, <4>2
            <4>3. QED BY <2>3, <3>1, <3>2, <4>1, <4>2, KeptRequest
        <3>6. QED BY <3>4, <3>5
    <2>4. QED BY <2>1, <2>2, <2>3
<1>8. SingleMeter'
    <2> SUFFICES ASSUME NEW o \in point' \ tangled', NEW m \in Meters, NEW n \in Meters,
                        meter'[m].point = o /\ meter'[m].active,
                        meter'[n].point = o /\ meter'[n].active
                 PROVE  m = n
        BY DEF SingleMeter
    <2>1. o \in Points /\ o \in point /\ o # p /\ o \notin Meters
        BY <1>1, ThingsAssumption DEF MeteringTypeOK
    <2>2. o \notin tangled
        BY <1>1, <2>1 DEF Metered!MetersOf
    <2>3. meter'[m] = meter[m] /\ meter'[n] = meter[n]
        BY <1>2, <1>3, <2>1
    <2>4. QED BY <2>1, <2>2, <2>3 DEF SingleMeter
<1>9. GrowOK'
    <2> SUFFICES ASSUME NEW n \in Meters \ tangled' PROVE Grows(n)'
        BY DEF GrowOK
    <2>1. CASE meter[n].point = p
        BY <1>2, <2>1 DEF Grows, Metered!Recorded, Metered!Blank
    <2>2. CASE meter[n].point # p
        <3>1. reading'[n] = reading[n] /\ meter'[n].initial = meter[n].initial
            BY <1>2, <2>2
        <3>2. n # p
            BY <1>1, ThingsAssumption DEF MeteringTypeOK
        <3>3. n \notin tangled
            BY <1>1, <2>2, <3>2 DEF Metered!MetersOf
        <3>4. QED BY <3>1, <3>3, PlausibleSame DEF GrowOK
    <2>3. QED BY <2>1, <2>2
<1>10. QED BY <1>6, <1>7, <1>8, <1>9

\* A step that changes requests only.
LEMMA RequestsOnlyStep ==
    ASSUME MeteringInv, UNCHANGED <<point, meter, reading, tangled>>,
           fitter' \in [Fitters -> FitterState],
           \A g \in Fitters : \/ fitter'[g] \in {fitter[g], Metered!Idle}
                              \/ ExchangeOK(g)' /\ RecordingOK(g)'
    PROVE  MeteringInv'
<1> USE DEF MeteringInv
<1>1. MeteringTypeOK'
    BY DEF MeteringTypeOK
<1>2. RequestsOK'
    <2> SUFFICES ASSUME NEW g \in Fitters, fitter'[g] \in {fitter[g], Metered!Idle}
                 PROVE  ExchangeOK(g)' /\ RecordingOK(g)'
        BY DEF RequestsOK
    <2>1. CASE fitter[g] = Metered!Idle \/ fitter'[g] = Metered!Idle
        <3>1. fitter'[g] = Metered!Idle
            BY <2>1
        <3>2. QED BY <3>1, IdleRequest, FitterFlags
    <2>2. CASE fitter[g] # Metered!Idle /\ fitter'[g] = fitter[g]
        <3>1. Passed(fitter[g], fitter'[g])
            BY <2>2 DEF Passed
        <3>2. QED BY <2>2, <3>1, KeptRequest
    <2>3. QED BY <2>1, <2>2
<1>3. SingleMeter'
    BY DEF SingleMeter
<1>4. GrowOK'
    BY PlausibleSame DEF GrowOK
<1>5. QED BY <1>1, <1>2, <1>3, <1>4

LEMMA ExchangeLoadStep ==
    ASSUME MeteringInv, NEW f \in Fitters, NEW p \in Points, NEW new \in Meters,
           NEW initial \in Initials, NEW old \in Metered!CurrentMeters(p),
           Metered!ExchangeLoad(f, p, old, new, initial)
    PROVE  MeteringInv'
<1> USE DEF MeteringInv
<1> DEFINE q == [at |-> "exchange", point |-> p, old |-> old, new |-> new,
                 initial |-> initial, stale |-> FALSE, lost |-> FALSE]
<1>1. p \in point /\ fitter' = [fitter EXCEPT ![f] = q]
      /\ UNCHANGED <<point, meter, reading, tangled>>
    BY DEF Metered!ExchangeLoad, Metered!Start
<1>2. old \in Meters /\ meter[old].point = p /\ meter[old].active
    <2>1. Metered!ActiveMeters(p) # {}
        BY <1>1 DEF MeteringTypeOK, Metered!ActiveMeters, Metered!MetersOf
    <2>2. QED BY <2>1 DEF Metered!CurrentMeters, Metered!ActiveMeters, Metered!MetersOf
<1>3. q \in Exchange
    BY <1>2 DEF Exchange
<1>4. q.at = "exchange" /\ q.point = p /\ q.old = old
    OBVIOUS
<1> HIDE DEF q
<1>5. /\ fitter' \in [Fitters -> FitterState] /\ fitter'[f] = q
      /\ \A g \in Fitters \ {f} : fitter'[g] = fitter[g]
    BY <1>1, <1>3 DEF MeteringTypeOK, FitterState
<1>6. ExchangeOK(f)'
    BY <1>1, <1>2, <1>4, <1>5 DEF ExchangeOK, SingleMeter
<1>7. RecordingOK(f)'
    BY <1>4, <1>5 DEF RecordingOK
<1>8. QED BY <1>1, <1>5, <1>6, <1>7, RequestsOnlyStep

LEMMA ReadingLoadStep ==
    ASSUME MeteringInv, NEW f \in Fitters, NEW p \in Points, NEW m \in Meters, NEW y \in Years,
           NEW value \in Values, Metered!ReadingLoad(f, p, m, y, value)
    PROVE  MeteringInv'
<1> USE DEF MeteringInv
<1> DEFINE q == [at |-> "recording", point |-> p, meter |-> m, year |-> y, value |-> value,
                 seen |-> reading[m][y], stale |-> FALSE, lost |-> FALSE]
<1>1. /\ p \in point /\ fitter' = [fitter EXCEPT ![f] = q]
      /\ UNCHANGED <<point, meter, reading, tangled>>
      /\ Metered!Plausible(m, y, value)
    BY DEF Metered!ReadingLoad, Metered!Start
<1>2. meter[m].point = p
    BY DEF Metered!ReadingLoad, Metered!ActiveMeters, Metered!MetersOf
<1>3. q \in Recording
    BY DEF Recording, MeteringTypeOK
<1>4. /\ q.at = "recording" /\ q.point = p /\ q.meter = m /\ q.year = y
      /\ q.value = value /\ q.seen = reading[m][y]
    OBVIOUS
<1> HIDE DEF q
<1>5. /\ fitter' \in [Fitters -> FitterState] /\ fitter'[f] = q
      /\ \A g \in Fitters \ {f} : fitter'[g] = fitter[g]
    BY <1>1, <1>3 DEF MeteringTypeOK, FitterState
<1>6. ExchangeOK(f)'
    BY <1>4, <1>5 DEF ExchangeOK
<1>7. RecordingOK(f)'
    <2>1. Metered!Plausible(m, y, value)'
        BY <1>1, PlausibleSame
    <2>2. QED BY <1>1, <1>2, <1>4, <1>5, <2>1 DEF RecordingOK
<1>8. QED BY <1>1, <1>5, <1>6, <1>7, RequestsOnlyStep

LEMMA MeterRollbackStep ==
    ASSUME MeteringInv, NEW f \in Fitters, Metered!Rollback(f)
    PROVE  MeteringInv'
<1>1. fitter' = [fitter EXCEPT ![f] = Metered!Idle] /\ UNCHANGED <<point, meter, reading, tangled>>
    BY DEF Metered!Rollback
<1>2. fitter' \in [Fitters -> FitterState] /\ \A g \in Fitters : fitter'[g] \in {fitter[g], Metered!Idle}
    BY <1>1 DEF MeteringInv, MeteringTypeOK, FitterState
<1>3. QED BY <1>1, <1>2, RequestsOnlyStep

LEMMA ExchangeCommitStep ==
    ASSUME MeteringInv, NEW f \in Fitters, Metered!ExchangeCommit(f)
    PROVE  MeteringInv'
<1> USE DEF MeteringInv
<1>1. fitter[f] \in Exchange /\ fitter[f].at = "exchange"
    BY FitterFlags DEF Metered!ExchangeCommit, MeteringTypeOK
<1>2. PICK p \in Points, old \in Meters, new \in Meters, initial \in Initials :
         p = fitter[f].point /\ old = fitter[f].old /\ new = fitter[f].new /\ initial = fitter[f].initial
    BY <1>1 DEF Exchange
<1>3. CASE Metered!Rollback(f)
    BY <1>3, MeterRollbackStep
<1>4. CASE ~Metered!Rollback(f)
    <2>1. /\ ~fitter[f].lost /\ meter[new] = Metered!NoMeter
          /\ meter' = [m \in Meters |->
                 IF m = new THEN [point |-> p, active |-> TRUE, initial |-> initial]
                 ELSE IF m = old THEN [meter[m] EXCEPT !.active = FALSE]
                 ELSE meter[m]]
          /\ tangled' = IF fitter[f].stale THEN tangled \cup {p} ELSE tangled
          /\ Metered!Finish(f, None, p)
          /\ UNCHANGED <<point, reading>>
        BY <1>2, <1>4 DEF Metered!ExchangeCommit
    <2>2. /\ p \in point /\ meter[old].point = p
          /\ ~fitter[f].stale /\ p \notin tangled =>
               \A m \in Meters : meter[m].point = p /\ meter[m].active <=> m = old
        BY <1>1, <1>2, <2>1 DEF RequestsOK, ExchangeOK
    <2>3. None \notin Points /\ None \notin point /\ meter[new].point = None /\ old # new
        BY <2>1, <2>2, ThingsAssumption DEF Metered!NoMeter, MeteringTypeOK
    <2>4. /\ meter'[new] = [point |-> p, active |-> TRUE, initial |-> initial]
          /\ meter'[old].point = p /\ ~meter'[old].active /\ meter'[old].initial = meter[old].initial
          /\ \A m \in Meters \ {new, old} : meter'[m] = meter[m]
          /\ meter' \in [Meters -> MeterRow]
        <3>1. meter[old] \in MeterRow
            BY DEF MeteringTypeOK
        <3>2. /\ meter'[old] = [meter[old] EXCEPT !.active = FALSE]
              /\ meter'[new] = [point |-> p, active |-> TRUE, initial |-> initial]
              /\ \A m \in Meters \ {new, old} : meter'[m] = meter[m]
            BY <2>1, <2>3
        <3>3. /\ meter'[old].point = p /\ ~meter'[old].active
              /\ meter'[old].initial = meter[old].initial /\ meter'[old] \in MeterRow
            BY <2>2, <3>1, <3>2 DEF MeterRow
        <3>4. meter'[new] \in MeterRow
            BY <3>2 DEF MeterRow
        <3>5. \A m \in Meters : meter'[m] \in MeterRow
            BY <3>2, <3>3, <3>4 DEF MeteringTypeOK
        <3>6. QED BY <2>1, <3>2, <3>3, <3>5
    <2>5. \A m \in Meters : meter[m].point # None =>
             /\ m # new /\ meter'[m].point = meter[m].point /\ meter'[m].initial = meter[m].initial
        BY <2>2, <2>3, <2>4
    <2>6. \A o \in Points \ {p} : \A m \in Meters :
             meter'[m].point = o /\ meter'[m].active <=> meter[m].point = o /\ meter[m].active
        BY <2>2, <2>3, <2>4
    <2>7. \A m \in Meters : m \in tangled' <=> m \in tangled
        BY <2>1, ThingsAssumption
    <2>8. MeteringTypeOK'
        <3>1. \A m \in Meters :
                 \/ meter'[m].point \in point'
                 \/ meter'[m] = Metered!NoMeter /\ \A y \in Years : reading'[m][y] = None
            BY <2>1, <2>2, <2>4 DEF MeteringTypeOK
        <3>2. \A o \in point' : \E m \in Meters : meter'[m].point = o /\ meter'[m].active
            <4> SUFFICES ASSUME NEW o \in point'
                         PROVE  \E m \in Meters : meter'[m].point = o /\ meter'[m].active
                OBVIOUS
            <4>1. CASE o = p
                BY <2>4, <4>1
            <4>2. CASE o # p
                BY <2>1, <2>6, <4>2 DEF MeteringTypeOK
            <4>3. QED BY <4>1, <4>2
        <3>3. fitter' \in [Fitters -> FitterState]
            BY <2>1, FinishMeans
        <3>4. tangled' \subseteq Points \cup Meters /\ point' \subseteq Points
            BY <2>1 DEF MeteringTypeOK
        <3>5. reading' \in [Meters -> [Years -> Values \cup {None}]]
            BY <2>1 DEF MeteringTypeOK
        <3>6. QED BY <2>4, <3>1, <3>2, <3>3, <3>4, <3>5 DEF MeteringTypeOK
    <2>9. RequestsOK'
        <3> SUFFICES ASSUME NEW g \in Fitters PROVE ExchangeOK(g)' /\ RecordingOK(g)'
            BY DEF RequestsOK
        <3>1. CASE fitter'[g].at = "idle"
            BY <3>1, IdleRequest
        <3>2. CASE fitter'[g].at # "idle"
            <4>1. /\ fitter[g] # Metered!Idle /\ Passed(fitter[g], fitter'[g])
                  /\ ~fitter'[g].stale /\ fitter'[g].at = "exchange" => fitter[g].point # p
                BY <2>1, <3>2, FinishMeans
            <4>2. point \subseteq Points /\ tangled \subseteq tangled' /\ point' = point /\ reading' = reading
                BY <2>1 DEF MeteringTypeOK
            <4>3. ASSUME NEW m \in Meters, meter[m].point \in point
                  PROVE  meter'[m].point = meter[m].point /\ meter'[m].initial = meter[m].initial
                BY <2>3, <2>5, <4>3
            <4>4. ASSUME fitter'[g] = fitter[g], ~fitter[g].stale, fitter[g].at = "exchange",
                         fitter[g].point \in point
                  PROVE  \A m \in Meters : meter'[m].point = fitter[g].point /\ meter'[m].active
                                             <=> meter[m].point = fitter[g].point /\ meter[m].active
                <5>1. fitter[g].point \in Points \ {p}
                    BY <4>1, <4>2, <4>4
                <5>2. QED BY <2>6, <5>1
            <4>5. ASSUME fitter[g].point \in point, ~fitter[g].lost
                  PROVE  /\ fitter[g].point \in point'
                         /\ \A m \in Meters : meter[m].point = fitter[g].point =>
                                               meter'[m].point = fitter[g].point
                BY <4>2, <4>3, <4>5
            <4>6. ASSUME NEW m \in Meters, meter[m].point \in point
                  PROVE  reading'[m] = reading[m] /\ meter'[m].initial = meter[m].initial
                BY <4>2, <4>3, <4>6
            <4>7. QED BY <4>1, <4>2, <4>4, <4>5, <4>6, KeptRequest
        <3>3. QED BY <3>1, <3>2
    <2>10. SingleMeter'
        <3> SUFFICES ASSUME NEW o \in point' \ tangled', NEW m \in Meters, NEW n \in Meters,
                            meter'[m].point = o /\ meter'[m].active,
                            meter'[n].point = o /\ meter'[n].active
                     PROVE  m = n
            BY DEF SingleMeter
        <3>1. o \in point /\ o \notin tangled /\ o \in Points /\ (o = p => ~fitter[f].stale)
            BY <2>1 DEF MeteringTypeOK
        <3>2. CASE o = p
            BY <2>2, <2>4, <3>1, <3>2
        <3>3. CASE o # p
            BY <2>6, <3>1, <3>3 DEF SingleMeter
        <3>4. QED BY <3>2, <3>3
    <2>11. GrowOK'
        <3> SUFFICES ASSUME NEW n \in Meters \ tangled' PROVE Grows(n)'
            BY DEF GrowOK
        <3>1. CASE n = new
            <4>1. \A y \in Years : reading'[n][y] = None
                BY <2>1, <2>3, <3>1 DEF MeteringTypeOK
            <4>2. QED BY <4>1 DEF Grows, Metered!Recorded, Metered!Blank
        <3>2. CASE n # new
            <4>1. reading'[n] = reading[n] /\ meter'[n].initial = meter[n].initial
                BY <2>1, <2>4, <3>2
            <4>2. Grows(n)
                BY <2>7 DEF GrowOK
            <4>3. QED BY <4>1, <4>2, PlausibleSame
        <3>3. QED BY <3>1, <3>2
    <2>12. QED BY <2>8, <2>9, <2>10, <2>11
<1>5. QED BY <1>3, <1>4

LEMMA ReadingCommitStep ==
    ASSUME MeteringInv, NEW f \in Fitters, Metered!ReadingCommit(f)
    PROVE  MeteringInv'
<1> USE DEF MeteringInv
<1>1. fitter[f] \in Recording /\ fitter[f].at = "recording"
    BY FitterFlags DEF Metered!ReadingCommit, MeteringTypeOK
<1>2. PICK m \in Meters, y \in Years, value \in Values :
         m = fitter[f].meter /\ y = fitter[f].year /\ value = fitter[f].value
    BY <1>1 DEF Recording
<1>3. CASE Metered!Rollback(f)
    BY <1>3, MeterRollbackStep
<1>4. CASE ~Metered!Rollback(f)
    <2> DEFINE v == IF value # fitter[f].seen THEN value ELSE reading[m][y]
    <2>1. /\ ~fitter[f].lost
          /\ reading' = [reading EXCEPT ![m][y] = v]
          /\ tangled' = IF fitter[f].stale THEN tangled \cup {m} ELSE tangled
          /\ Metered!Finish(f, m, None)
          /\ UNCHANGED <<point, meter>>
        BY <1>2, <1>4 DEF Metered!ReadingCommit, MeteringTypeOK
    <2>2. /\ meter[m].point \in point
          /\ ~fitter[f].stale => Metered!Plausible(m, y, value) /\ reading[m][y] = fitter[f].seen
        BY <1>1, <1>2, <2>1 DEF RequestsOK, RecordingOK
    <2>3. v \in Values \cup {None} /\ (~fitter[f].stale => v = value)
        BY <2>2 DEF MeteringTypeOK
    <2> HIDE DEF v
    <2>4. /\ reading' \in [Meters -> [Years -> Values \cup {None}]]
          /\ \A n \in Meters \ {m} : reading'[n] = reading[n]
          /\ reading'[m][y] = v
          /\ \A x \in Years \ {y} : reading'[m][x] = reading[m][x]
        BY <2>1, <2>3 DEF MeteringTypeOK
    <2>5. \A n \in Meters \ tangled' : n \notin tangled /\ (n = m => ~fitter[f].stale)
        BY <2>1
    <2>6. \A p \in point : p \in tangled <=> p \in tangled'
        BY <2>1, ThingsAssumption DEF MeteringTypeOK
    <2>7. MeteringTypeOK'
        <3>1. \A n \in Meters :
                 \/ meter'[n].point \in point'
                 \/ meter'[n] = Metered!NoMeter /\ \A x \in Years : reading'[n][x] = None
            BY <2>1, <2>2, <2>4 DEF MeteringTypeOK
        <3>2. fitter' \in [Fitters -> FitterState]
            BY <2>1, FinishMeans
        <3>3. QED BY <2>1, <2>4, <3>1, <3>2 DEF MeteringTypeOK
    <2>8. RequestsOK'
        <3> SUFFICES ASSUME NEW g \in Fitters PROVE ExchangeOK(g)' /\ RecordingOK(g)'
            BY DEF RequestsOK
        <3>1. CASE fitter'[g].at = "idle"
            BY <3>1, IdleRequest
        <3>2. CASE fitter'[g].at # "idle"
            <4>1. /\ fitter[g] # Metered!Idle /\ Passed(fitter[g], fitter'[g])
                  /\ ~fitter'[g].stale /\ fitter'[g].at = "recording" => fitter[g].meter # m
                BY <2>1, <3>2, FinishMeans
            <4>2. ASSUME NEW n \in Meters, fitter'[g] = fitter[g], ~fitter[g].stale,
                         fitter[g].at = "recording", fitter[g].meter = n
                  PROVE  reading'[n] = reading[n] /\ meter'[n].initial = meter[n].initial
                BY <2>1, <2>4, <4>1, <4>2
            <4>3. QED BY <2>1, <2>6, <4>1, <4>2, KeptRequest
        <3>3. QED BY <3>1, <3>2
    <2>9. SingleMeter'
        BY <2>1, <2>6 DEF SingleMeter
    <2>10. GrowOK'
        <3> SUFFICES ASSUME NEW n \in Meters \ tangled' PROVE Grows(n)'
            BY DEF GrowOK
        <3>1. CASE n # m
            <4>1. reading'[n] = reading[n] /\ meter'[n].initial = meter[n].initial
                BY <2>1, <2>4, <3>1
            <4>2. Grows(n)
                BY <2>5 DEF GrowOK
            <4>3. QED BY <4>1, <4>2, PlausibleSame
        <3>2. CASE n = m
            <4>1. ~fitter[f].stale /\ Grows(m)
                BY <2>5, <3>2 DEF GrowOK
            <4>2. /\ meter[m].initial <= value
                  /\ \A x \in Metered!Recorded(m) : x < y => reading[m][x] <= value
                  /\ \A x \in Metered!Recorded(m) : y < x => value <= reading[m][x]
                BY <2>2, <4>1, PlausibleFits
            <4>3. value \in Int /\ reading'[m][y] = value /\ None \notin Int
                BY <2>3, <2>4, <4>1, ThingsAssumption
            <4>4. Metered!Recorded(m)' = Metered!Recorded(m) \cup {y}
                BY <2>4, <4>3 DEF Metered!Recorded, Metered!Blank
            <4>5. \A x \in Metered!Recorded(m) : x # y => reading'[m][x] = reading[m][x]
                BY <2>4 DEF Metered!Recorded
            <4>6. meter'[m] = meter[m] /\ y \in Int
                BY <2>1, ThingsAssumption
            <4>7. Grows(m)'
                <5> SUFFICES ASSUME NEW b \in Metered!Recorded(m) \cup {y}
                             PROVE  /\ meter[m].initial <= reading'[m][b]
                                    /\ \A a \in Metered!Recorded(m) \cup {y} :
                                         a < b => reading'[m][a] <= reading'[m][b]
                    BY <4>4, <4>6 DEF Grows
                <5>1. CASE b = y
                    BY <4>2, <4>3, <4>5, <4>6, <5>1
                <5>2. CASE b # y
                    <6>1. b \in Metered!Recorded(m) /\ reading'[m][b] = reading[m][b]
                        BY <4>5, <5>2
                    <6>2. meter[m].initial <= reading'[m][b]
                        BY <4>1, <6>1 DEF Grows
                    <6>3. ASSUME NEW a \in Metered!Recorded(m) \cup {y}, a < b
                          PROVE  reading'[m][a] <= reading'[m][b]
                        <7>1. CASE a = y
                            BY <4>2, <4>3, <6>1, <6>3, <7>1
                        <7>2. CASE a # y
                            BY <4>1, <4>5, <6>1, <6>3, <7>2 DEF Grows
                        <7>3. QED BY <7>1, <7>2
                    <6>4. QED BY <6>2, <6>3
                <5>3. QED BY <5>1, <5>2
            <4>8. QED BY <3>2, <4>7
        <3>3. QED BY <3>1, <3>2
    <2>11. QED BY <2>7, <2>8, <2>9, <2>10
<1>5. QED BY <1>3, <1>4

LEMMA ReadingDeleteStep ==
    ASSUME MeteringInv, NEW m \in Meters, NEW y \in Years, Metered!ReadingDelete(m, y)
    PROVE  MeteringInv'
<1> USE DEF MeteringInv
<1>1. /\ reading' = [reading EXCEPT ![m][y] = None]
      /\ fitter' = [f \in Fitters |->
                      IF fitter[f].at = "recording" /\ fitter[f].meter = m
                      THEN Flagged(fitter[f]) ELSE fitter[f]]
      /\ UNCHANGED <<point, meter, tangled>>
    BY DEF Metered!ReadingDelete, Metered!Blank, Flagged
<1>2. /\ reading' \in [Meters -> [Years -> Values \cup {None}]]
      /\ \A n \in Meters \ {m} : reading'[n] = reading[n]
      /\ \A n \in Meters, x \in Years : reading'[n][x] \in {reading[n][x], None}
    BY <1>1 DEF MeteringTypeOK
<1>3. \A g \in Fitters : fitter[g] \in FitterState
    BY DEF MeteringTypeOK
<1>4. fitter' \in [Fitters -> FitterState]
    <2>1. \A g \in Fitters : fitter'[g] \in FitterState
        BY <1>1, <1>3, FitterFlags DEF FitterState
    <2>2. QED BY <1>1, <2>1
<1>5. MeteringTypeOK'
    <2>1. \A n \in Meters :
             \/ meter'[n].point \in point'
             \/ meter'[n] = Metered!NoMeter /\ \A x \in Years : reading'[n][x] = None
        BY <1>1, <1>2 DEF MeteringTypeOK
    <2>2. QED BY <1>1, <1>2, <1>4, <2>1 DEF MeteringTypeOK
<1>6. RequestsOK'
    <2> SUFFICES ASSUME NEW g \in Fitters PROVE ExchangeOK(g)' /\ RecordingOK(g)'
        BY DEF RequestsOK
    <2>1. CASE fitter[g] = Metered!Idle
        <3>1. fitter'[g] = Metered!Idle
            BY <1>1, <2>1, FitterFlags
        <3>2. QED BY <3>1, IdleRequest, FitterFlags
    <2>2. CASE fitter[g] # Metered!Idle
        <3>1. Passed(fitter[g], fitter'[g])
            BY <1>1 DEF Passed
        <3>2. ASSUME NEW n \in Meters, fitter'[g] = fitter[g], ~fitter[g].stale,
                     fitter[g].at = "recording", fitter[g].meter = n
              PROVE  reading'[n] = reading[n]
            <4>1. n # m
                BY <1>1, <1>3, <3>2, FitterFlags
            <4>2. QED BY <1>2, <4>1
        <3>3. QED BY <1>1, <2>2, <3>1, <3>2, KeptRequest
    <2>3. QED BY <2>1, <2>2
<1>7. SingleMeter'
    BY <1>1 DEF SingleMeter
<1>8. GrowOK'
    <2> SUFFICES ASSUME NEW n \in Meters \ tangled PROVE Grows(n)'
        BY <1>1 DEF GrowOK
    <2>1. Grows(n)
        BY DEF GrowOK
    <2>2. \A x \in Metered!Recorded(n)' : x \in Metered!Recorded(n) /\ reading'[n][x] = reading[n][x]
        BY <1>2 DEF Metered!Recorded, Metered!Blank
    <2>3. QED BY <1>1, <2>1, <2>2 DEF Grows
<1>9. QED BY <1>5, <1>6, <1>7, <1>8

\* The inductive invariant: readings grow, exchanges and recordings in flight know
\* the neighbours they read unless they were overtaken.
THEOREM MeteringInvariant == Metered!Spec => []MeteringInv
<1>1. Metered!Init => MeteringInv
    <2> SUFFICES ASSUME Metered!Init PROVE MeteringInv
        OBVIOUS
    <2> USE DEF Metered!Init
    <2>1. MeteringTypeOK
        <3>1. Metered!NoMeter \in MeterRow /\ Metered!Idle \in FitterState
            BY DEF MeterRow, FitterState, Metered!NoMeter
        <3>2. QED BY <3>1 DEF MeteringTypeOK, Metered!Blank
    <2>2. RequestsOK
        BY FitterFlags DEF RequestsOK, ExchangeOK, RecordingOK
    <2>3. SingleMeter
        BY DEF SingleMeter
    <2>4. GrowOK
        BY DEF GrowOK, Grows, Metered!Recorded, Metered!Blank
    <2>5. QED BY <2>1, <2>2, <2>3, <2>4 DEF MeteringInv
<1>2. MeteringInv /\ [Metered!Next]_(Metered!vars) => MeteringInv'
    <2> SUFFICES ASSUME MeteringInv, [Metered!Next]_(Metered!vars) PROVE MeteringInv'
        OBVIOUS
    <2>1. CASE UNCHANGED Metered!vars
        BY <2>1, RequestsOnlyStep DEF Metered!vars, MeteringInv, MeteringTypeOK
    <2>2. CASE \E y \in Years, chosen \in SUBSET Meters : Metered!RunFinalize(y, chosen)
        <3>1. UNCHANGED <<point, meter, reading, fitter, tangled>>
            BY <2>2 DEF Metered!RunFinalize
        <3>2. QED BY <3>1, RequestsOnlyStep DEF MeteringInv, MeteringTypeOK
    <2>3. QED BY <2>1, <2>2, PointCreateStep, PointDeleteStep, ExchangeLoadStep, ReadingLoadStep,
                 ExchangeCommitStep, ReadingCommitStep, ReadingDeleteStep DEF Metered!Next
<1>3. QED BY <1>1, <1>2, PTL DEF Metered!Spec

\* The readings of a meter do not decrease from year to year and never fall below
\* its initial one, for any number of meters and years: recording and exchange
\* compare with the neighbouring years they have read, and a meter overtaken
\* between the two is the exception.
THEOREM ReadingsNeverFall == Metered!Spec => []ReadingsGrow
<1>1. MeteringInv => ReadingsGrow
    BY GrowMeans DEF MeteringInv
<1>2. QED BY <1>1, MeteringInvariant, PTL

\* A metering point has at most one active meter, through all exchanges and
\* deletions of meters, unless two exchanges of it overlapped.
THEOREM PointsHaveOneMeter == Metered!Spec => []OneActiveMeter
<1>1. MeteringInv => OneActiveMeter
    <2> SUFFICES ASSUME MeteringInv, NEW p \in point \ tangled
                 PROVE  Cardinality(Metered!ActiveMeters(p)) = 1
        BY CardinalityIs DEF OneActiveMeter, Metered!OneActiveMeter
    <2>1. PICK m \in Meters : meter[m].point = p /\ meter[m].active
        BY DEF MeteringInv, MeteringTypeOK
    <2>2. Metered!ActiveMeters(p) = {m}
        BY <2>1 DEF MeteringInv, SingleMeter, Metered!ActiveMeters, Metered!MetersOf
    <2>3. QED BY <2>2, FS_Singleton
<1>2. QED BY <1>1, MeteringInvariant, PTL

-----------------------------------------------------------------------------
\* Every bill on record says what its meter shows now, and the reading before.
BillsTrue ==
    \A b \in billed :
        /\ b.meter \in Meters /\ b.year \in Years
        /\ b.to = reading[b.meter][b.year] /\ b.to # None
        /\ b.from = Metered!ReadingBefore(b.meter, b.year)

\* The reading before a year depends on the years before and the initial one.
LEMMA BeforeIsSame ==
    ASSUME MeteringTypeOK, NEW m \in Meters, NEW y \in Years,
           \A x \in Years : x <= y => reading'[m][x] = reading[m][x],
           meter'[m].initial = meter[m].initial
    PROVE  Metered!ReadingBefore(m, y)' = Metered!ReadingBefore(m, y)
<1> DEFINE S == {x \in Metered!Recorded(m) : x < y}
           T == {x \in Metered!Recorded(m)' : x < y}
<1>1. Years \subseteq Int
    BY ThingsAssumption
<1>2. S = {x \in Years : x < y /\ reading[m][x] # None}
    BY DEF Metered!Recorded, Metered!Blank
<1>3. T = {x \in Years : x < y /\ reading'[m][x] # None}
    BY DEF Metered!Recorded, Metered!Blank
<1>4. \A x \in Years : x < y => reading'[m][x] = reading[m][x]
    BY <1>1
<1>5. S = T
    BY <1>2, <1>3, <1>4
<1>6. S # {} => Max(S) \in S
    <2>1. S \in SUBSET Metered!Recorded(m)
        OBVIOUS
    <2>2. QED BY <2>1, ReadingTypes
<1>7. S # {} => reading'[m][Max(S)] = reading[m][Max(S)]
    <2>1. \A x \in S : reading'[m][x] = reading[m][x]
        BY <1>2, <1>4
    <2>2. QED BY <1>6, <2>1
<1>8. /\ Metered!ReadingBefore(m, y) = IF S = {} THEN meter[m].initial ELSE reading[m][Max(S)]
      /\ Metered!ReadingBefore(m, y)' = IF T = {} THEN meter'[m].initial ELSE reading'[m][Max(T)]
    BY ExtremaAre DEF Metered!ReadingBefore
<1>9. QED BY <1>5, <1>7, <1>8

\* A bill whose readings stay as they are remains true.
LEMMA BillStays ==
    ASSUME MeteringTypeOK, BillsTrue, NEW b \in billed,
           \A y \in Years : y <= b.year => reading'[b.meter][y] = reading[b.meter][y],
           meter'[b.meter].initial = meter[b.meter].initial
    PROVE  /\ b.meter \in Meters /\ b.year \in Years
           /\ b.to = reading'[b.meter][b.year] /\ b.to # None
           /\ b.from = Metered!ReadingBefore(b.meter, b.year)'
<1>1. PICK m \in Meters, y \in Years : b.meter = m /\ b.year = y
    BY DEF BillsTrue
<1>2. b.to = reading[m][y] /\ b.to # None /\ b.from = Metered!ReadingBefore(m, y)
    BY <1>1 DEF BillsTrue
<1>3. y <= y
    BY ThingsAssumption
<1>4. reading'[m][y] = reading[m][y]
    BY <1>1, <1>3
<1>5. Metered!ReadingBefore(m, y)' = Metered!ReadingBefore(m, y)
    BY <1>1, BeforeIsSame
<1>6. Metered!ReadingBefore(b.meter, b.year)' = Metered!ReadingBefore(m, y)'
    BY <1>1 DEF Metered!ReadingBefore, Metered!Recorded
<1>7. QED BY <1>1, <1>2, <1>4, <1>5, <1>6

\* The meter of a bill is installed: its number is used once.
LEMMA BilledIsUsed ==
    ASSUME MeteringTypeOK, BillsTrue, NEW b \in billed
    PROVE  b.meter \in Meters /\ meter[b.meter] # Metered!NoMeter
<1>1. reading[b.meter][b.year] # None /\ b.meter \in Meters /\ b.year \in Years
    BY DEF BillsTrue
<1>2. meter[b.meter].point \in point
    BY <1>1 DEF MeteringTypeOK
<1>3. QED BY <1>1, <1>2, ThingsAssumption DEF MeteringTypeOK, Metered!NoMeter

LEMMA BillsStep ==
    ASSUME MeteringTypeOK, BillsTrue, [Metered!Next]_(Metered!vars)
    PROVE  BillsTrue'
<1>1. ASSUME billed' \subseteq Metered!Unchanged(billed),
             \A b \in billed' : meter'[b.meter].initial = meter[b.meter].initial
      PROVE  BillsTrue'
    <2> SUFFICES ASSUME NEW b \in billed'
                 PROVE  /\ b.meter \in Meters /\ b.year \in Years
                        /\ b.to = reading'[b.meter][b.year] /\ b.to # None
                        /\ b.from = Metered!ReadingBefore(b.meter, b.year)'
        BY DEF BillsTrue
    <2>1. b \in billed /\ \A y \in Years : y <= b.year => reading'[b.meter][y] = reading[b.meter][y]
        BY <1>1 DEF Metered!Unchanged
    <2>2. meter'[b.meter].initial = meter[b.meter].initial
        BY <1>1
    <2>3. QED BY <2>1, <2>2, BillStays
<1>2. ASSUME UNCHANGED <<reading, billed>>,
             \A b \in billed : meter'[b.meter].initial = meter[b.meter].initial
      PROVE  BillsTrue'
    BY <1>1, <1>2 DEF Metered!Unchanged
<1>3. CASE UNCHANGED <<meter, reading, billed>>
    BY <1>2, <1>3
<1>4. ASSUME NEW p \in Points, NEW m \in Meters, NEW initial \in Initials,
             Metered!MeteringPointCreate(p, m, initial)
      PROVE  BillsTrue'
    <2>1. /\ meter[m] = Metered!NoMeter /\ UNCHANGED <<reading, billed>>
          /\ \A n \in Meters \ {m} : meter'[n] = meter[n]
        BY <1>4 DEF Metered!MeteringPointCreate, MeteringTypeOK
    <2>2. \A b \in billed : b.meter \in Meters \ {m}
        BY <2>1, BilledIsUsed
    <2>3. QED BY <1>2, <2>1, <2>2
<1>5. ASSUME NEW p \in Points, Metered!MeteringPointDelete(p)
      PROVE  BillsTrue'
    <2>1. /\ billed' = Metered!Unchanged(billed)
          /\ \A m \in Meters : m \notin Metered!MetersOf(p) => meter'[m] = meter[m]
          /\ \A m \in Metered!MetersOf(p), y \in Years : reading'[m][y] = None
        BY <1>5 DEF Metered!MeteringPointDelete, Metered!MetersOf, Metered!Blank
    <2>2. ASSUME NEW b \in billed'
          PROVE  b.meter \in Meters /\ b.meter \notin Metered!MetersOf(p)
        <3>1. /\ b \in billed /\ b.meter \in Meters /\ b.year \in Years
              /\ \A y \in Years : y <= b.year => reading'[b.meter][y] = reading[b.meter][y]
              /\ reading[b.meter][b.year] # None
            BY <2>1, <2>2 DEF Metered!Unchanged, BillsTrue
        <3>2. b.year <= b.year
            BY <3>1, ThingsAssumption
        <3>3. QED BY <2>1, <3>1, <3>2
    <2>4. QED BY <1>1, <2>1, <2>2
<1>6. ASSUME NEW f \in Fitters, Metered!ExchangeCommit(f)
      PROVE  BillsTrue'
    <2>1. CASE UNCHANGED <<meter, reading, billed>>
        BY <1>2, <2>1
    <2>2. CASE ~UNCHANGED <<meter, reading, billed>>
        <3>1. /\ meter[fitter[f].new] = Metered!NoMeter /\ UNCHANGED <<reading, billed>>
              /\ \A n \in Meters : n # fitter[f].new => meter'[n] \in {meter[n], [meter[n] EXCEPT !.active = FALSE]}
            BY <1>6, <2>2 DEF Metered!ExchangeCommit, Metered!Rollback
        <3>2. \A n \in Meters : n # fitter[f].new => meter'[n].initial = meter[n].initial
            BY <3>1 DEF MeteringTypeOK, MeterRow
        <3>3. \A b \in billed : b.meter \in Meters /\ b.meter # fitter[f].new
            BY <3>1, BilledIsUsed
        <3>4. QED BY <1>2, <3>1, <3>2, <3>3
    <2>3. QED BY <2>1, <2>2
<1>7. ASSUME NEW f \in Fitters, Metered!ReadingCommit(f)
      PROVE  BillsTrue'
    <2>1. CASE UNCHANGED <<meter, reading, billed>>
        BY <1>2, <2>1
    <2>2. CASE ~UNCHANGED <<meter, reading, billed>>
        <3>1. billed' = Metered!Unchanged(billed) /\ meter' = meter
            BY <1>7, <2>2 DEF Metered!ReadingCommit, Metered!Rollback
        <3>2. QED BY <1>1, <3>1
    <2>3. QED BY <2>1, <2>2
<1>8. ASSUME NEW m \in Meters, NEW y \in Years, Metered!ReadingDelete(m, y)
      PROVE  BillsTrue'
    BY <1>1, <1>8 DEF Metered!ReadingDelete
<1>9. ASSUME NEW y \in Years, NEW chosen \in SUBSET Meters, Metered!RunFinalize(y, chosen)
      PROVE  BillsTrue'
    <2>1. /\ meter' = meter /\ reading' = reading
          /\ billed' = billed \cup {Metered!Bill(m, y) : m \in chosen}
          /\ \A m \in chosen : reading[m][y] # None
        BY <1>9 DEF Metered!RunFinalize, Metered!Blank
    <2> SUFFICES ASSUME NEW b \in billed'
                 PROVE  /\ b.meter \in Meters /\ b.year \in Years
                        /\ b.to = reading'[b.meter][b.year] /\ b.to # None
                        /\ b.from = Metered!ReadingBefore(b.meter, b.year)'
        BY DEF BillsTrue
    <2>2. CASE b \in billed
        BY <2>1, <2>2, BillStays
    <2>3. CASE b \notin billed
        <3>1. PICK m \in chosen : b = Metered!Bill(m, y)
            BY <2>1, <2>3
        <3>2. /\ b.meter = m /\ b.year = y /\ b.to = reading[m][y]
              /\ b.from = Metered!ReadingBefore(m, y)
            BY <3>1 DEF Metered!Bill
        <3>3. Metered!ReadingBefore(b.meter, b.year)' = Metered!ReadingBefore(m, y)
            BY <2>1, <3>2 DEF Metered!ReadingBefore, Metered!Recorded
        <3>4. QED BY <2>1, <3>2, <3>3
    <2>4. QED BY <2>2, <2>3
<1>10. QED
    BY <1>3, <1>4, <1>5, <1>6, <1>7, <1>8, <1>9
       DEF Metered!Next, Metered!vars, Metered!ExchangeLoad, Metered!ReadingLoad

\* What growing readings make of two bills of a meter.
LEMMA TwoBills ==
    ASSUME MeteringTypeOK, NEW m \in Meters, Grows(m), NEW y \in Metered!Recorded(m)
    PROVE  /\ Metered!ReadingBefore(m, y) <= reading[m][y]
           /\ \A x \in Metered!Recorded(m) : x < y =>
                /\ reading[m][x] <= Metered!ReadingBefore(m, y)
                /\ (\A z \in Metered!Recorded(m) : ~(x < z /\ z < y)) =>
                      reading[m][x] = Metered!ReadingBefore(m, y)
<1> DEFINE S == {x \in Metered!Recorded(m) : x < y}
           before == Metered!ReadingBefore(m, y)
<1>1. before = IF S = {} THEN meter[m].initial ELSE reading[m][Max(S)]
    BY ExtremaAre DEF Metered!ReadingBefore
<1>2. S # {} => Max(S) \in S /\ \A x \in S : x <= Max(S)
    <2>1. S \in SUBSET Metered!Recorded(m)
        OBVIOUS
    <2>2. QED BY <2>1, ReadingTypes
<1>3. /\ Metered!Recorded(m) \subseteq Int
      /\ \A x \in Metered!Recorded(m) : reading[m][x] \in Int
    BY ReadingTypes
<1>4. CASE S = {}
    BY <1>1, <1>4 DEF Grows
<1>5. CASE S # {}
    <2> DEFINE e == Max(S)
    <2>1. e \in S /\ (\A x \in S : x <= e) /\ before = reading[m][e]
        BY <1>1, <1>2, <1>5
    <2> HIDE DEF e, before
    <2>2. e \in Metered!Recorded(m) /\ e < y
        BY <2>1
    <2>3. reading[m][e] <= reading[m][y]
        BY <2>2 DEF Grows
    <2>4. ASSUME NEW x \in Metered!Recorded(m), x < y
          PROVE  /\ reading[m][x] <= reading[m][e]
                 /\ (\A z \in Metered!Recorded(m) : ~(x < z /\ z < y)) => x = e
        <3>1. x \in S /\ x <= e
            BY <2>1, <2>4
        <3>2. x = e \/ x < e
            BY <1>3, <2>2, <3>1
        <3>3. reading[m][x] <= reading[m][e]
            BY <1>3, <2>2, <3>2 DEF Grows
        <3>4. QED BY <2>2, <3>2, <3>3
    <2>5. QED BY <2>1, <2>3, <2>4 DEF before
<1>6. QED BY <1>4, <1>5

\* For any meters, points and years, whatever is recorded late, corrected, deleted
\* or exchanged and whenever runs are finalized: the usage on the invoices of a
\* meter whose readings stand does not overlap and has holes only where a
\* recorded year was not billed.
THEOREM BillsFit == Metered!Spec => []BillsFitTogether
<1> DEFINE Inv == MeteringInv /\ BillsTrue
<1>1. Metered!Init => BillsTrue
    BY DEF Metered!Init, BillsTrue
<1>2. MeteringInv /\ BillsTrue /\ [Metered!Next]_(Metered!vars) => BillsTrue'
    BY BillsStep DEF MeteringInv
<1>3. Metered!Spec => []BillsTrue
    BY <1>1, <1>2, MeteringInvariant, PTL DEF Metered!Spec
<1>4. MeteringInv /\ BillsTrue => BillsFitTogether
    <2> SUFFICES ASSUME MeteringInv, BillsTrue, NEW a \in billed, NEW b \in billed,
                        a.meter = b.meter, a.meter \notin tangled
                 PROVE  /\ a.from <= a.to
                        /\ a.year = b.year => a.from = b.from /\ a.to = b.to
                        /\ a.year < b.year =>
                              /\ a.to <= b.from
                              /\ (\A y \in Metered!Recorded(a.meter) :
                                     ~(a.year < y /\ y < b.year)) => a.to = b.from
        BY DEF BillsFitTogether, Metered!BillsFitTogether
    <2>1. PICK m \in Meters : a.meter = m /\ b.meter = m
        BY DEF BillsTrue
    <2>2. PICK x \in Years, y \in Years : a.year = x /\ b.year = y
        BY DEF BillsTrue
    <2>3. /\ a.to = reading[m][x] /\ a.from = Metered!ReadingBefore(m, x)
          /\ b.to = reading[m][y] /\ b.from = Metered!ReadingBefore(m, y)
          /\ x \in Metered!Recorded(m) /\ y \in Metered!Recorded(m)
        BY <2>1, <2>2 DEF BillsTrue, Metered!Recorded, Metered!Blank
    <2>4. MeteringTypeOK /\ Grows(m)
        BY <2>1 DEF MeteringInv, GrowOK
    <2>5. a.from <= a.to /\ (x < y => a.to <= b.from /\
             ((\A z \in Metered!Recorded(m) : ~(x < z /\ z < y)) => a.to = b.from))
        BY <2>3, <2>4, TwoBills
    <2>6. QED BY <2>1, <2>2, <2>3, <2>5
<1>5. QED BY <1>3, <1>4, MeteringInvariant, PTL
-----------------------------------------------------------------------------
(***************************************************************************)
(* Insurance                                                               *)
(***************************************************************************)
InsuranceRow == [here : BOOLEAN, property : BOOLEAN, package : Packages \cup {None},
                 accident : BOOLEAN, persons : SUBSET Persons]
Saving == [at : {"save"}, parcel : Parcels, seen : InsuranceRow, form : Premiums!Form,
           stale : BOOLEAN, lost : BOOLEAN]

InsuranceTypeOK ==
    /\ price \in [Packages -> Amounts \cup {None}]
    /\ configuration \in {None} \cup [base : Amounts, additional : Amounts]
    /\ row \in [Parcels -> InsuranceRow]
    /\ agent \in [Agents -> {Premiums!Idle} \cup Saving]
    /\ mixed \subseteq Parcels

Whole(r) == /\ r.persons # {} => r.accident
            /\ r.package # None => r.property

\* The row is what a save has read; only its package may have been deleted.
StillRead(seen, r) ==
    /\ r.property = seen.property
    /\ r.accident = seen.accident
    /\ r.persons = seen.persons
    /\ r.package \in {seen.package, None}

\* A save wants a whole row; one that nothing has overtaken finds the row as
\* it has read it.
SaveInv ==
    \A a \in Agents, p \in Parcels : agent[a].at = "save" /\ agent[a].parcel = p =>
        /\ row[p].here
        /\ Whole(agent[a].form)
        /\ ~agent[a].stale => StillRead(agent[a].seen, row[p])

InsuranceInv == InsuranceTypeOK /\ SaveInv /\ RowsAreWhole

LEMMA SavingFlags ==
    /\ \A q \in Saving : /\ [q EXCEPT !.lost = TRUE] \in Saving
                         /\ [q EXCEPT !.lost = TRUE].parcel = q.parcel
                         /\ [q EXCEPT !.lost = TRUE].form = q.form
                         /\ [q EXCEPT !.lost = TRUE].seen = q.seen
                         /\ [q EXCEPT !.lost = TRUE].stale = q.stale
    /\ \A q \in Saving : /\ [q EXCEPT !.stale = TRUE] \in Saving
                         /\ [q EXCEPT !.stale = TRUE].parcel = q.parcel
                         /\ [q EXCEPT !.stale = TRUE].form = q.form
                         /\ [q EXCEPT !.stale = TRUE].stale
    /\ \A q \in {Premiums!Idle} \cup Saving : q.at = "save" => q \in Saving
    /\ \A q \in Saving : q.at = "save"
    /\ Premiums!Idle.at = "idle"
<1>1. \A q \in Saving : /\ [q EXCEPT !.lost = TRUE] \in Saving
                       /\ [q EXCEPT !.lost = TRUE].parcel = q.parcel
                       /\ [q EXCEPT !.lost = TRUE].form = q.form
                       /\ [q EXCEPT !.lost = TRUE].seen = q.seen
                       /\ [q EXCEPT !.lost = TRUE].stale = q.stale
    BY DEF Saving
<1>2. \A q \in Saving : /\ [q EXCEPT !.stale = TRUE] \in Saving
                       /\ [q EXCEPT !.stale = TRUE].parcel = q.parcel
                       /\ [q EXCEPT !.stale = TRUE].form = q.form
                       /\ [q EXCEPT !.stale = TRUE].stale
    BY DEF Saving
<1>3. Premiums!Idle.at = "idle" /\ \A q \in Saving : q.at = "save"
    BY DEF Saving, Premiums!Idle
<1>4. QED BY <1>1, <1>2, <1>3

LEMMA WantedIsWhole ==
    ASSUME NEW form \in Premiums!Form
    PROVE  Premiums!Wanted(form) \in Premiums!Form /\ Whole(Premiums!Wanted(form))
BY DEF Premiums!Form, Premiums!Wanted, Whole

\* Uninsured parcels cost nothing, whatever else is in the row.
LEMMA UninsuredIsFree ==
    ASSUME NEW p \in Parcels, p \notin Premiums!Evaluated
    PROVE  Premiums!Cost(p) = 0
<1>1. ~row[p].property /\ ~row[p].accident
    BY DEF Premiums!Evaluated
<1>2. QED BY <1>1 DEF Premiums!Cost

UninsuredAreFree == \A p \in Parcels : p \notin Premiums!Evaluated => Premiums!Cost(p) = 0

LEMMA FreeNow == UninsuredAreFree
BY UninsuredIsFree DEF UninsuredAreFree

LEMMA FreeNext == UninsuredAreFree'
BY FreeNow, PTL

RowsOK == \A p \in Parcels : p \notin mixed => Whole(row[p])

LEMMA WholeMeans == RowsAreWhole <=> RowsOK
BY FreeNow DEF RowsOK, UninsuredAreFree, RowsAreWhole, Premiums!RowsAreWhole, Whole

LEMMA WholeMeansNext == RowsAreWhole' <=> RowsOK'
BY WholeMeans, PTL

LEMMA InsuranceStepKeeps ==
    InsuranceTypeOK /\ SaveInv /\ RowsOK /\ [Premiums!Next]_(Premiums!vars)
        => InsuranceTypeOK' /\ SaveInv' /\ RowsOK'
<1> SUFFICES ASSUME InsuranceTypeOK, SaveInv, RowsOK, [Premiums!Next]_(Premiums!vars)
             PROVE  InsuranceTypeOK' /\ SaveInv' /\ RowsOK'
    OBVIOUS
<1>0. ASSUME InsuranceTypeOK', UNCHANGED <<row, agent, mixed>>
      PROVE  SaveInv' /\ RowsOK'
    BY <1>0 DEF SaveInv, RowsOK
<1>1. ASSUME NEW base \in Amounts, NEW additional \in Amounts,
             Premiums!ConfigurationSave(base, additional)
      PROVE  InsuranceTypeOK' /\ SaveInv' /\ RowsOK'
    <2>1. InsuranceTypeOK'
        BY <1>1 DEF InsuranceTypeOK, Premiums!ConfigurationSave
    <2>2. QED BY <1>0, <1>1, <2>1 DEF Premiums!ConfigurationSave
<1>2. ASSUME NEW k \in Packages, NEW amount \in Amounts,
             Premiums!PackageCreate(k, amount) \/ Premiums!PackageUpdate(k, amount)
      PROVE  InsuranceTypeOK' /\ SaveInv' /\ RowsOK'
    <2>1. UNCHANGED <<configuration, row, agent, mixed>>
        BY <1>2 DEF Premiums!PackageCreate, Premiums!PackageUpdate
    <2>2. price' \in [Packages -> Amounts \cup {None}]
        BY <1>2 DEF InsuranceTypeOK, Premiums!PackageCreate, Premiums!PackageUpdate
    <2>3. InsuranceTypeOK'
        BY <2>1, <2>2 DEF InsuranceTypeOK
    <2>4. QED BY <1>0, <2>1, <2>3
<1>3. ASSUME NEW k \in Packages, Premiums!PackageDelete(k)
      PROVE  InsuranceTypeOK' /\ SaveInv' /\ RowsOK'
    <2>1. /\ row' \in [Parcels -> InsuranceRow]
          /\ \A p \in Parcels : /\ row'[p].here = row[p].here
                                /\ row'[p].property = row[p].property
                                /\ row'[p].accident = row[p].accident
                                /\ row'[p].persons = row[p].persons
                                /\ row'[p].package \in {row[p].package, None}
        BY <1>3 DEF InsuranceTypeOK, Premiums!PackageDelete, InsuranceRow
    <2>2. \A a \in Agents : /\ agent'[a] \in {Premiums!Idle} \cup Saving
                            /\ agent'[a].at = "save" =>
                                 /\ agent[a].at = "save"
                                 /\ agent'[a].parcel = agent[a].parcel
                                 /\ agent'[a].form = agent[a].form
                                 /\ agent'[a].seen = agent[a].seen
                                 /\ agent'[a].stale = agent[a].stale
        BY <1>3, SavingFlags DEF InsuranceTypeOK, Premiums!PackageDelete
    <2>3. /\ agent' \in [Agents -> {Premiums!Idle} \cup Saving]
          /\ price' \in [Packages -> Amounts \cup {None}]
          /\ UNCHANGED <<configuration, mixed>>
        BY <1>3, <2>2 DEF InsuranceTypeOK, Premiums!PackageDelete
    <2>4. InsuranceTypeOK'
        BY <2>1, <2>3 DEF InsuranceTypeOK
    <2>5. SaveInv'
        BY <2>1, <2>2 DEF SaveInv, StillRead
    <2>6. RowsOK'
        BY <2>1, <2>3 DEF RowsOK, Whole
    <2>7. QED BY <2>4, <2>5, <2>6
<1>4. ASSUME NEW p \in Parcels, Premiums!DetailOpen(p)
      PROVE  InsuranceTypeOK' /\ SaveInv' /\ RowsOK'
    <2>1. /\ row' \in [Parcels -> InsuranceRow]
          /\ Whole(row'[p]) /\ ~row[p].here
          /\ \A o \in Parcels \ {p} : row'[o] = row[o]
          /\ UNCHANGED <<price, configuration, agent, mixed>>
        BY <1>4 DEF Premiums!DetailOpen, InsuranceTypeOK, InsuranceRow, Premiums!NewRow,
                    Premiums!NoRow, Whole
    <2>2. InsuranceTypeOK'
        BY <2>1 DEF InsuranceTypeOK
    <2>3. SaveInv'
        BY <2>1 DEF SaveInv
    <2>4. RowsOK'
        BY <2>1 DEF RowsOK
    <2>5. QED BY <2>2, <2>3, <2>4
<1>5. ASSUME NEW a \in Agents, NEW p \in Parcels, NEW form \in Premiums!Form,
             Premiums!SaveLoad(a, p, form)
      PROVE  InsuranceTypeOK' /\ SaveInv' /\ RowsOK'
    <2> DEFINE seen == IF row[p].here THEN row[p] ELSE Premiums!NewRow
               q == [at |-> "save", parcel |-> p, seen |-> seen,
                     form |-> Premiums!Wanted(form), stale |-> FALSE, lost |-> FALSE]
    <2>1. seen \in InsuranceRow /\ seen.here /\ (~row[p].here => Whole(seen))
        BY DEF InsuranceTypeOK, InsuranceRow, Premiums!NewRow, Premiums!NoRow, Whole
    <2>2. row' = [row EXCEPT ![p] = seen] /\ agent' = [agent EXCEPT ![a] = q]
          /\ UNCHANGED <<price, configuration, mixed>>
        BY <1>5 DEF Premiums!SaveLoad
    <2> HIDE DEF seen
    <2>3. q \in Saving /\ q.parcel = p /\ Whole(q.form) /\ q.seen = seen
        BY <2>1, WantedIsWhole DEF Saving
    <2> HIDE DEF q
    <2>4. /\ row' \in [Parcels -> InsuranceRow]
          /\ row'[p] = seen /\ \A o \in Parcels \ {p} : row'[o] = row[o]
        BY <2>1, <2>2 DEF InsuranceTypeOK
    <2>5. /\ agent' \in [Agents -> {Premiums!Idle} \cup Saving]
          /\ agent'[a] = q /\ \A b \in Agents \ {a} : agent'[b] = agent[b]
        BY <2>2, <2>3 DEF InsuranceTypeOK
    <2>6. row[p].here => row'[p] = row[p]
        BY <2>4 DEF seen
    <2>7. StillRead(seen, seen)
        BY DEF StillRead
    <2>8. InsuranceTypeOK'
        BY <2>2, <2>4, <2>5 DEF InsuranceTypeOK
    <2>9. SaveInv'
        <3> SUFFICES ASSUME NEW b \in Agents, NEW o \in Parcels, agent'[b].at = "save",
                            agent'[b].parcel = o
                     PROVE  /\ row'[o].here
                            /\ Whole(agent'[b].form)
                            /\ ~agent'[b].stale => StillRead(agent'[b].seen, row'[o])
            BY DEF SaveInv
        <3>1. CASE b = a
            BY <2>1, <2>3, <2>4, <2>5, <2>7, <3>1
        <3>2. CASE b # a
            BY <2>4, <2>5, <2>6, <3>2 DEF SaveInv
        <3>3. QED BY <3>1, <3>2
    <2>10. RowsOK'
        BY <2>1, <2>2, <2>4, <2>6 DEF RowsOK
    <2>11. QED BY <2>8, <2>9, <2>10
<1>6. ASSUME NEW a \in Agents, Premiums!SaveCommit(a)
      PROVE  InsuranceTypeOK' /\ SaveInv' /\ RowsOK'
    <2> DEFINE q == agent[a]
    <2>1. q \in Saving
        BY <1>6, SavingFlags DEF Premiums!SaveCommit, InsuranceTypeOK
    <2>2. PICK p \in Parcels : p = q.parcel
        BY <2>1 DEF Saving
    <2>3. UNCHANGED <<price, configuration>> /\ q.at = "save"
        BY <1>6 DEF Premiums!SaveCommit
    <2> DEFINE remaining == row[p].persons \ q.seen.persons
               property == IF q.form.property # q.seen.property THEN q.form.property ELSE row[p].property
               package == IF q.form.package # q.seen.package THEN q.form.package ELSE row[p].package
               accident == IF q.form.accident # q.seen.accident THEN q.form.accident ELSE row[p].accident
    <2>4. CASE agent' = [agent EXCEPT ![a] = Premiums!Idle] /\ UNCHANGED <<row, mixed>>
        <3>1. InsuranceTypeOK'
            BY <2>3, <2>4 DEF InsuranceTypeOK
        <3>2. \A b \in Agents : agent'[b].at = "save" => agent'[b] = agent[b]
            BY <2>4, SavingFlags DEF InsuranceTypeOK
        <3>3. SaveInv' /\ RowsOK'
            BY <2>4, <3>2 DEF SaveInv, RowsOK
        <3>4. QED BY <3>1, <3>3
    <2>5. CASE ~(agent' = [agent EXCEPT ![a] = Premiums!Idle] /\ UNCHANGED <<row, mixed>>)
        <3>1. /\ row'[p] = [row[p] EXCEPT !.property = property, !.package = package,
                             !.accident = accident, !.persons = remaining \cup q.form.persons]
              /\ \A o \in Parcels \ {p} : row'[o] = row[o]
              /\ row' = [o \in Parcels |-> row'[o]]
              /\ mixed' = IF q.stale THEN mixed \cup {p} ELSE mixed \ {p}
              /\ agent' = [b \in Agents |->
                   IF b = a THEN Premiums!Idle
                   ELSE IF agent[b].at = "save" /\ agent[b].parcel = p
                   THEN [agent[b] EXCEPT !.stale = TRUE] ELSE agent[b]]
            <4>1. row[p] \in InsuranceRow /\ row \in [Parcels -> InsuranceRow]
                BY DEF InsuranceTypeOK
            <4>2. /\ row' = [row EXCEPT
                       ![p].property = IF q.form.property # q.seen.property THEN q.form.property ELSE @,
                       ![p].package = IF q.form.package # q.seen.package THEN q.form.package ELSE @,
                       ![p].accident = IF q.form.accident # q.seen.accident THEN q.form.accident ELSE @,
                       ![p].persons = remaining \cup q.form.persons]
                  /\ mixed' = IF q.stale THEN mixed \cup {p} ELSE mixed \ {p}
                  /\ agent' = [b \in Agents |->
                       IF b = a THEN Premiums!Idle
                       ELSE IF agent[b].at = "save" /\ agent[b].parcel = p
                       THEN [agent[b] EXCEPT !.stale = TRUE] ELSE agent[b]]
                BY <1>6, <2>2, <2>5 DEF Premiums!SaveCommit
            <4>3. row'[p] = [row[p] EXCEPT !.property = property, !.package = package,
                             !.accident = accident, !.persons = remaining \cup q.form.persons]
                <5>1. row'[p] = [row[p] EXCEPT
                       !.property = IF q.form.property # q.seen.property THEN q.form.property ELSE @,
                       !.package = IF q.form.package # q.seen.package THEN q.form.package ELSE @,
                       !.accident = IF q.form.accident # q.seen.accident THEN q.form.accident ELSE @,
                       !.persons = remaining \cup q.form.persons]
                    BY <4>1, <4>2 DEF InsuranceRow
                <5>2. QED BY <4>1, <5>1 DEF InsuranceRow
            <4>4. /\ \A o \in Parcels \ {p} : row'[o] = row[o]
                  /\ row' = [o \in Parcels |-> row'[o]]
                BY <4>1, <4>2
            <4>5. QED BY <4>2, <4>3, <4>4
        <3>2. /\ property \in BOOLEAN /\ package \in Packages \cup {None}
              /\ accident \in BOOLEAN /\ remaining \cup q.form.persons \subseteq Persons
            BY <2>1 DEF Saving, InsuranceTypeOK, InsuranceRow, Premiums!Form
        <3>3. ~q.stale => /\ property = q.form.property /\ accident = q.form.accident
                          /\ remaining = {} /\ package \in {q.form.package, None}
            <4> SUFFICES ASSUME ~q.stale
                         PROVE  /\ property = q.form.property /\ accident = q.form.accident
                                /\ remaining = {} /\ package \in {q.form.package, None}
                OBVIOUS
            <4>1. StillRead(q.seen, row[p])
                BY <2>2, <2>3 DEF SaveInv
            <4>2. QED BY <4>1 DEF StillRead
        <3> HIDE DEF property, package, accident, remaining
        <3>4. /\ row'[p].here = row[p].here /\ row'[p].property = property
              /\ row'[p].package = package /\ row'[p].accident = accident
              /\ row'[p].persons = remaining \cup q.form.persons
              /\ row'[p] \in InsuranceRow
              /\ \A o \in Parcels \ {p} : row'[o] = row[o]
              /\ row' \in [Parcels -> InsuranceRow]
            <4>1. row[p] \in InsuranceRow
                BY DEF InsuranceTypeOK
            <4>3. /\ row'[p].here = row[p].here /\ row'[p].property = property
                  /\ row'[p].package = package /\ row'[p].accident = accident
                  /\ row'[p].persons = remaining \cup q.form.persons
                  /\ row'[p] \in InsuranceRow
                BY <3>1, <3>2, <4>1 DEF InsuranceRow
            <4>4. QED BY <3>1, <4>3 DEF InsuranceTypeOK
        <3>5. \A b \in Agents : /\ agent'[b] \in {Premiums!Idle} \cup Saving
                                /\ agent'[b].at = "save" =>
                                     /\ agent[b].at = "save"
                                     /\ agent'[b].parcel = agent[b].parcel
                                     /\ agent'[b].form = agent[b].form
                                     /\ ~agent'[b].stale => agent'[b] = agent[b] /\ agent[b].parcel # p
            BY <3>1, SavingFlags DEF InsuranceTypeOK
        <3>6. InsuranceTypeOK'
            BY <2>3, <3>1, <3>4, <3>5 DEF InsuranceTypeOK
        <3>7. SaveInv'
            BY <3>4, <3>5 DEF SaveInv
        <3>8. RowsOK'
            <4>1. Whole(q.form)
                BY <2>2, <2>3 DEF SaveInv
            <4>2. ~q.stale => Whole(row'[p])
                BY <3>3, <3>4, <4>1 DEF Whole
            <4>3. QED BY <3>1, <3>4, <4>2 DEF RowsOK
        <3>9. QED BY <3>6, <3>7, <3>8
    <2>6. QED BY <2>4, <2>5
<1>7. CASE UNCHANGED Premiums!vars
    <2>1. InsuranceTypeOK'
        BY <1>7 DEF InsuranceTypeOK, Premiums!vars
    <2>2. QED BY <1>0, <1>7, <2>1 DEF Premiums!vars
<1>8. QED BY <1>1, <1>2, <1>3, <1>4, <1>5, <1>6, <1>7 DEF Premiums!Next

\* The inductive invariant: a save in flight has read the row as it is, unless it
\* is marked as overtaken.
THEOREM InsuranceInvariant == Premiums!Spec => []InsuranceInv
<1>1. Premiums!Init => InsuranceTypeOK /\ SaveInv /\ RowsOK
    BY SavingFlags DEF Premiums!Init, InsuranceTypeOK, SaveInv, RowsOK, Whole, InsuranceRow,
                       Premiums!NoRow
<1>2. Premiums!Spec => [](InsuranceTypeOK /\ SaveInv /\ RowsOK)
    BY <1>1, InsuranceStepKeeps, PTL DEF Premiums!Spec
<1>3. InsuranceTypeOK /\ SaveInv /\ RowsOK => InsuranceInv
    BY WholeMeans DEF InsuranceInv
<1>4. QED BY <1>2, <1>3, PTL

\* A row has persons only with accident insurance and a package only with property
\* insurance, unless overlapping saves have mixed two forms, and a parcel the
\* evaluation leaves out never costs anything: for any parcels, packages, sums
\* and saves in flight, although columns are written one by one.
THEOREM InsuredRowsAreWhole == Premiums!Spec => []RowsAreWhole
BY InsuranceInvariant, PTL DEF InsuranceInv
-----------------------------------------------------------------------------
(***************************************************************************)
(* The composition                                                         *)
(***************************************************************************)
\* The components share no table: what the composition does is for each of
\* them something it does itself, or nothing.
THEOREM ThingsImplementsComponents ==
    ThingsSpec => Spec /\ Metered!Spec /\ Inventory!Spec /\ Premiums!Spec
PROOF
<1>1. ThingsInit => Init /\ Metered!Init /\ Inventory!Init /\ Premiums!Init
  BY DEF ThingsInit
<1>2. [ThingsNext]_thingVars => [Next]_vars
  BY DEF ThingsNext, thingVars, PurchaseStep, MeteringStep, InventoryStep, InsuranceStep
<1>3. [ThingsNext]_thingVars => [Metered!Next]_Metered!vars
  BY DEF ThingsNext, thingVars, PurchaseStep, MeteringStep, InventoryStep, InsuranceStep,
     meterVars, Metered!vars
<1>4. [ThingsNext]_thingVars => [Inventory!Next]_Inventory!vars
  BY DEF ThingsNext, thingVars, PurchaseStep, MeteringStep, InventoryStep, InsuranceStep,
     inventoryVars, Inventory!vars
<1>5. [ThingsNext]_thingVars => [Premiums!Next]_Premiums!vars
  BY DEF ThingsNext, thingVars, PurchaseStep, MeteringStep, InventoryStep, InsuranceStep,
     premiumVars, Premiums!vars
<1> QED
  BY <1>1, <1>2, <1>3, <1>4, <1>5, PTL
     DEF ThingsSpec, Spec, Metered!Spec, Inventory!Spec, Premiums!Spec

\* All promises hold together in the system composed of the four.
THEOREM ThingsPromises ==
    ThingsSpec =>
        /\ [](ReadingsGrow /\ OneActiveMeter /\ BillsFitTogether)
        /\ [](LentWithinStock /\ RowsAreWhole)
  BY ThingsImplementsComponents, ReadingsNeverFall, PointsHaveOneMeter, BillsFit,
     LoansStayWithinStock, InsuredRowsAreWhole, PTL

\* So do those of the purchase requests, with handlers one after the other.
THEOREM PurchasePromises ==
    ASSUME OneAtATime
    PROVE  ThingsSpec => [](FourEyes /\ TwoApprovalsDecide) /\ DecisionsStay /\ ApprovalsStay
<1>0. Spec => []FourEyes
  BY FourEyesSerially
<1>1. Spec => []TwoApprovalsDecide
  BY SecondApprovalDecides
<1>2. Spec => DecisionsStay
  BY DecisionsAreFinal
<1>3. Spec => ApprovalsStay
  BY ApprovalsAreKept
<1> QED
  BY <1>0, <1>1, <1>2, <1>3, ThingsImplementsComponents, PTL
=============================================================================
