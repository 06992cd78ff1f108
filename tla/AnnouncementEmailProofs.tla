----------------------- MODULE AnnouncementEmailProofs -----------------------
(***************************************************************************)
(* Theorems about AnnouncementEmail, for any number of recipients and of   *)
(* send requests, and any batch size.                                      *)
(***************************************************************************)
EXTENDS AnnouncementEmail, TLAPS, FiniteSetTheorems

LEMMA BatchOfLeft ==
    ASSUME NEW left \in SUBSET People, NEW batch \in Batches(left)
    PROVE  batch \subseteq left /\ Cardinality(batch) \in Nat
<1>1. batch \subseteq left
  BY DEF Batches
<1>2. IsFiniteSet(batch)
  BY <1>1, MailAssumption, FS_Subset
<1> QED
  BY <1>1, <1>2, FS_CardinalityType

SendOK == send \in [Sends -> Send]

LEMMA GotoType ==
    ASSUME TypeOK, NEW w \in Sends, NEW at \in {"scheduled", "mailing", "broken"}, Goto(w, at)
    PROVE  SendOK'
BY DEF TypeOK, SendOK, Goto, Send

LEMMA EndType ==
    ASSUME TypeOK, NEW w \in Sends, End(w)
    PROVE  SendOK'
<1>1. Idle \in Send
  BY DEF Idle, Send, Delivery
<1> QED
  BY <1>1 DEF TypeOK, SendOK, End

LEMMA BatchSendType ==
    ASSUME TypeOK, NEW w \in Sends, TaskBatch(w)
    PROVE  SendOK'
<1>1. PICK batch \in Batches(send[w].left) : \E accepted \in SUBSET batch :
         send' = [send EXCEPT ![w].at = IF Exists THEN "mailing" ELSE "broken",
                              ![w].left = @ \ batch,
                              ![w].success = @ \/ accepted # {}]
  BY DEF TaskBatch
<1>2. PICK accepted \in SUBSET batch :
         send' = [send EXCEPT ![w].at = IF Exists THEN "mailing" ELSE "broken",
                              ![w].left = @ \ batch,
                              ![w].success = @ \/ accepted # {}]
  BY <1>1
<1> DEFINE r == [send[w] EXCEPT !.at = IF Exists THEN "mailing" ELSE "broken",
                                !.left = @ \ batch,
                                !.success = @ \/ accepted # {}]
<1>3. send[w] \in Send
  BY DEF TypeOK
<1>4. (send[w].success \/ accepted # {}) \in BOOLEAN
  OBVIOUS
<1>5. r \in Send
  BY <1>3, <1>4, Zenon DEF Send
<1>6. send' = [send EXCEPT ![w] = r]
  BY <1>2, Zenon
<1> QED
  BY <1>5, <1>6 DEF SendOK, TypeOK

\* Every reachable state is well typed.
THEOREM TypeCorrect == Spec => []TypeOK
<1>1. Init => TypeOK
  <2> SUFFICES ASSUME Init PROVE TypeOK
    OBVIOUS
  <2>1. cutOff \in BOOLEAN
    BY Zenon DEF Init
  <2>2. FALSE \in BOOLEAN /\ Idle \in Send
    BY DEF Idle, Send, Delivery
  <2>3. send \in [Sends -> Send] /\ got \in [People -> Nat]
    BY <2>2 DEF Init
  <2> QED
    BY <2>1, <2>3 DEF Init, TypeOK, Delivery
<1>2. TypeOK /\ [Next]_vars => TypeOK'
  <2> SUFFICES ASSUME TypeOK, [Next]_vars PROVE TypeOK'
    OBVIOUS
  <2> USE DEF TypeOK, SendOK, Delivery
  <2>1. ASSUME NEW w \in Sends, SendLoad(w) PROVE TypeOK'
    <3>1. [Idle EXCEPT !.at = "handler", !.seen = delivery] \in Send
      BY DEF Idle, Send
    <3> QED
      BY <2>1, <3>1 DEF SendLoad
  <2>2. ASSUME NEW w \in Sends, SendCommit(w) PROVE TypeOK'
    <3>1. SendOK'
      BY <2>2, GotoType, EndType DEF SendCommit
    <3>2. got' \in [People -> Nat]
      BY <2>2 DEF SendCommit
    <3> QED
      BY <2>2, <3>1, <3>2 DEF SendCommit, Committable, Written, Exists
  <2>3. ASSUME NEW w \in Sends, SendRollback(w) \/ TaskRaise(w) \/ TaskRecordFails(w)
        PROVE  TypeOK'
    <3>1. SendOK'
      BY <2>3, GotoType, EndType DEF SendRollback, TaskRaise, TaskRecordFails
    <3> QED
      BY <2>3, <3>1 DEF SendRollback, TaskRaise, TaskRecordFails
  <2>4. ASSUME NEW w \in Sends, TaskStart(w) PROVE TypeOK'
    <3>1. SendOK'
      <4>1. CASE delivery = "none"
        BY <2>4, <4>1, EndType DEF TaskStart
      <4>2. CASE delivery # "none"
        BY <2>4, <4>2 DEF TaskStart, Send
      <4> QED
        BY <4>1, <4>2
    <3> QED
      BY <2>4, <3>1 DEF TaskStart
  <2>5. ASSUME NEW w \in Sends, TaskBatch(w) PROVE TypeOK'
    <3>1. SendOK'
      BY <2>5, BatchSendType
    <3>2. PICK batch \in Batches(send[w].left) : \E accepted \in SUBSET batch :
             /\ got' = [p \in People |-> IF p \in accepted THEN got[p] + 1 ELSE got[p]]
             /\ late' = IF Exists THEN late ELSE late + Cardinality(batch)
      BY <2>5 DEF TaskBatch
    <3>3. Cardinality(batch) \in Nat
      BY BatchOfLeft DEF Send
    <3>4. got' \in [People -> Nat] /\ late' \in Nat
      BY <3>2, <3>3
    <3> QED
      BY <2>5, <3>1, <3>4 DEF TaskBatch
  <2>6. ASSUME NEW w \in Sends, TaskFinish(w) \/ TaskRecord(w) PROVE TypeOK'
    <3>1. SendOK'
      BY <2>6, GotoType, EndType DEF TaskFinish, TaskRecord
    <3> QED
      BY <2>6, <3>1 DEF TaskFinish, TaskRecord, Written, Exists
  <2>7. ASSUME Archive \/ Delete \/ ResidentsChange \/ Restart PROVE TypeOK'
    <3>1. Idle \in Send
      BY DEF Idle, Send
    <3> QED
      BY <2>7, <3>1 DEF Archive, Delete, ResidentsChange, Restart, Exists
  <2>8. ASSUME UNCHANGED vars PROVE TypeOK'
    BY <2>8 DEF vars
  <2> QED
    BY <2>1, <2>2, <2>3, <2>4, <2>5, <2>6, <2>7, <2>8 DEF Next, Task
<1> QED
  BY <1>1, <1>2, PTL DEF Spec
-----------------------------------------------------------------------------
(***************************************************************************)
(* A row saying SENDING has a task that will take it out of SENDING: one   *)
(* that has yet to load it, one that loaded it as SENDING (and will hence  *)
(* write another status), or one recording its failure.                    *)
(***************************************************************************)
WillEnd(w) ==
    \/ send[w].at \in {"scheduled", "broken"}
    \/ send[w].at = "mailing" /\ send[w].seen = "SENDING"

InProgress == delivery = "SENDING" /\ ~cutOff => \E w \in Sends : WillEnd(w)

\* A step of one task leaves the others as they are.
LEMMA OthersWillEnd ==
    ASSUME TypeOK, NEW w \in Sends, NEW v \in Sends, v # w, WillEnd(v),
           \A u \in Sends : u # w => send'[u] = send[u]
    PROVE  WillEnd(v)'
BY DEF WillEnd

\* A second Send now is only refused while a send is in progress or after a task
\* was lost, with any number of overlapping requests.
THEOREM StuckOnlyIfCutOff == Spec => []StuckOnlyWhenCutOff
<1>1. Init => InProgress
  BY DEF Init, InProgress
<1>2. TypeOK /\ InProgress /\ [Next]_vars => InProgress'
  <2> SUFFICES ASSUME TypeOK, InProgress, [Next]_vars, delivery' = "SENDING", ~cutOff'
               PROVE  \E v \in Sends : WillEnd(v)'
    BY DEF InProgress
  <2>1. ASSUME NEW w \in Sends, SendCommit(w) PROVE \E v \in Sends : WillEnd(v)'
    <3>1. CASE residents = {}
      <4>1. delivery = "SENDING" /\ ~cutOff
        BY <2>1, <3>1 DEF SendCommit, Written
      <4>2. PICK v \in Sends : WillEnd(v)
        BY <4>1 DEF InProgress
      <4>3. v # w
        BY <2>1, <4>2 DEF SendCommit, WillEnd
      <4>4. WillEnd(v)'
        BY <2>1, <3>1, <4>2, <4>3, OthersWillEnd DEF SendCommit, End, TypeOK
      <4> QED
        BY <4>4
    <3>2. CASE residents # {}
      <4>1. send'[w].at = "scheduled"
        BY <2>1, <3>2 DEF SendCommit, Goto, TypeOK, Send
      <4> QED
        BY <4>1 DEF WillEnd
    <3> QED
      BY <3>1, <3>2
  <2>2. ASSUME NEW w \in Sends, SendLoad(w) \/ SendRollback(w) PROVE \E v \in Sends : WillEnd(v)'
    <3>1. delivery = "SENDING" /\ ~cutOff
      BY <2>2 DEF SendLoad, SendRollback
    <3>2. PICK v \in Sends : WillEnd(v)
      BY <3>1 DEF InProgress
    <3>3. v # w
      BY <2>2, <3>2 DEF SendLoad, SendRollback, WillEnd
    <3>4. WillEnd(v)'
      BY <2>2, <3>2, <3>3, OthersWillEnd DEF SendLoad, SendRollback, End, TypeOK
    <3> QED
      BY <3>4
  <2>3. ASSUME NEW w \in Sends, TaskStart(w) PROVE \E v \in Sends : WillEnd(v)'
    <3>1. send'[w].at = "mailing" /\ send'[w].seen = "SENDING"
      BY <2>3 DEF TaskStart, TypeOK, Send
    <3> QED
      BY <3>1 DEF WillEnd
  <2>4. ASSUME NEW w \in Sends, TaskBatch(w) PROVE \E v \in Sends : WillEnd(v)'
    <3>1. delivery = "SENDING" /\ ~cutOff
      BY <2>4 DEF TaskBatch
    <3>2. PICK v \in Sends : WillEnd(v)
      BY <3>1 DEF InProgress
    <3>3. CASE v = w
      <4>1. /\ send'[w].seen = send[w].seen
            /\ send'[w].at \in {"mailing", "broken"}
        BY <2>4 DEF TaskBatch, TypeOK, Send
      <4> QED
        BY <2>4, <3>2, <3>3, <4>1 DEF WillEnd, TaskBatch
    <3>4. CASE v # w
      <4>1. \A u \in Sends : u # w => send'[u] = send[u]
        BY <2>4 DEF TaskBatch, TypeOK
      <4> QED
        BY <3>2, <3>4, <4>1, OthersWillEnd
    <3> QED
      BY <3>3, <3>4
  <2>5. ASSUME NEW w \in Sends, TaskFinish(w) PROVE \E v \in Sends : WillEnd(v)'
    <3>1. CASE Exists
      <4>1. delivery = "SENDING" /\ send[w].seen # "SENDING" /\ ~cutOff
        BY <2>5, <3>1 DEF TaskFinish, Written
      <4>2. PICK v \in Sends : WillEnd(v)
        BY <4>1 DEF InProgress
      <4>3. v # w
        BY <2>5, <4>1, <4>2 DEF TaskFinish, WillEnd
      <4>4. \A u \in Sends : u # w => send'[u] = send[u]
        BY <2>5, <3>1 DEF TaskFinish, End, TypeOK
      <4> QED
        BY <4>2, <4>3, <4>4, OthersWillEnd
    <3>2. CASE ~Exists
      BY <2>5, <3>2 DEF TaskFinish, Goto, Exists, TypeOK
    <3> QED
      BY <3>1, <3>2
  <2>6. ASSUME NEW w \in Sends, TaskRaise(w) PROVE \E v \in Sends : WillEnd(v)'
    <3>1. send'[w].at = "broken"
      BY <2>6 DEF TaskRaise, Goto, TypeOK, Send
    <3> QED
      BY <3>1 DEF WillEnd
  <2>7. ASSUME NEW w \in Sends, TaskRecord(w) PROVE \E v \in Sends : WillEnd(v)'
    BY <2>7 DEF TaskRecord
  <2>8. ASSUME Archive \/ Delete \/ ResidentsChange PROVE \E v \in Sends : WillEnd(v)'
    BY <2>8 DEF Archive, Delete, ResidentsChange, InProgress, WillEnd
  <2>9. ASSUME Restart PROVE \E v \in Sends : WillEnd(v)'
    <3>1. delivery = "SENDING" /\ ~cutOff /\ \A v \in Sends : ~InTask(v)
      BY <2>9 DEF Restart
    <3> QED
      BY <3>1 DEF InProgress, WillEnd, InTask
  <2>10. ASSUME UNCHANGED vars PROVE \E v \in Sends : WillEnd(v)'
    BY <2>10 DEF vars, InProgress, WillEnd
  <2> QED
    BY <2>1, <2>2, <2>3, <2>4, <2>5, <2>6, <2>7, <2>8, <2>9, <2>10
       DEF Next, Task, TaskRecordFails
<1>3. InProgress => StuckOnlyWhenCutOff
  BY DEF InProgress, StuckOnlyWhenCutOff, WillEnd, InTask
<1> QED
  BY <1>1, <1>2, <1>3, TypeCorrect, PTL DEF Spec
-----------------------------------------------------------------------------
(***************************************************************************)
(* When send handlers do not overlap, one task at most works on the        *)
(* announcement, and the row says so until it is through; it mails only    *)
(* those it has not mailed before.                                         *)
(***************************************************************************)
OneHandler ==
    \A v, w \in Sends : send[v].at = "handler" /\ send[w].at = "handler" => v = w

OneTask == \A v, w \in Sends : InTask(v) /\ InTask(w) => v = w

TaskShown == Exists => \A w \in Sends : InTask(w) => delivery = "SENDING"

HandlerLate == \A w \in Sends : send[w].at = "handler" => delivery # "SENDING"

Unmailed ==
    \A w \in Sends :
        /\ send[w].at = "scheduled" => \A p \in People : got[p] = 0
        /\ send[w].at = "mailing" => \A p \in send[w].left : got[p] = 0

OnceInv == OneHandler /\ OneTask /\ TaskShown /\ HandlerLate /\ Unmailed /\ RosterMailedOnce

\* A step of w that makes it no handler, and no task unless it was one,
\* leaves at most one of each.
LEMMA StillOne ==
    ASSUME OneHandler, OneTask, NEW w \in Sends,
           \A u \in Sends : u # w => send'[u] = send[u],
           send'[w].at # "handler",
           InTask(w)' => InTask(w)
    PROVE  OneHandler' /\ OneTask'
BY DEF OneHandler, OneTask, InTask

LEMMA OnceInvariant ==
    ASSUME Overlapping = FALSE
    PROVE  Spec => []OnceInv
<1>1. Init => OnceInv
  BY DEF Init, OnceInv, OneHandler, OneTask, TaskShown, HandlerLate, Unmailed,
         RosterMailedOnce, InTask, Idle
<1>2. TypeOK /\ OnceInv /\ [Next]_vars => OnceInv'
  <2> SUFFICES ASSUME TypeOK, OnceInv, [Next]_vars PROVE OnceInv'
    OBVIOUS
  <2>1. ASSUME NEW w \in Sends, SendLoad(w) PROVE OnceInv'
    <3>1. /\ \A u \in Sends : u # w => send'[u] = send[u]
          /\ send'[w].at = "handler"
          /\ \A u \in Sends : send[u].at # "handler"
      BY <2>1 DEF SendLoad, TypeOK, Idle, Send
    <3>2. OneHandler' /\ OneTask' /\ HandlerLate' /\ TaskShown'
      BY <2>1, <3>1 DEF OnceInv, OneHandler, OneTask, HandlerLate, TaskShown, InTask,
                        SendLoad, Exists
    <3> QED
      BY <2>1, <3>1, <3>2 DEF OnceInv, Unmailed, RosterMailedOnce, SendLoad
  <2>2. ASSUME NEW w \in Sends, SendCommit(w) PROVE OnceInv'
    <3>1. /\ \A u \in Sends : u # w => send'[u] = send[u]
          /\ \A u \in Sends : ~InTask(u)
          /\ \A u \in Sends : u # w => send[u].at # "handler"
      BY <2>2 DEF SendCommit, Committable, OnceInv, OneHandler, TaskShown, HandlerLate,
                  Goto, End, TypeOK
    <3>2. CASE residents = {}
      <4>1. send'[w] = Idle /\ got' = got /\ announcement' = announcement
        BY <2>2, <3>2 DEF SendCommit, End, TypeOK
      <4> QED
        BY <3>1, <4>1 DEF OnceInv, OneHandler, OneTask, TaskShown, HandlerLate, Unmailed,
                          RosterMailedOnce, InTask, Idle
    <3>3. CASE residents # {}
      <4>1. /\ send'[w].at = "scheduled" /\ delivery' = "SENDING"
            /\ got' = [p \in People |-> 0]
        BY <2>2, <3>3 DEF SendCommit, Goto, TypeOK, Send
      <4> QED
        BY <3>1, <4>1 DEF OnceInv, OneHandler, OneTask, TaskShown, HandlerLate, Unmailed,
                          RosterMailedOnce, InTask
    <3> QED
      BY <3>2, <3>3
  <2>3. ASSUME NEW w \in Sends, SendRollback(w) \/ TaskRecordFails(w) PROVE OnceInv'
    <3>1. /\ \A u \in Sends : u # w => send'[u] = send[u]
          /\ send'[w] = Idle
          /\ UNCHANGED <<announcement, delivery, got>>
      BY <2>3 DEF SendRollback, TaskRecordFails, End, TypeOK
    <3> QED
      BY <3>1 DEF OnceInv, OneHandler, OneTask, TaskShown, HandlerLate, Unmailed,
                  RosterMailedOnce, InTask, Idle, Exists
  <2>4. ASSUME NEW w \in Sends, TaskStart(w) PROVE OnceInv'
    <3>1. /\ \A u \in Sends : u # w => send'[u] = send[u]
          /\ send'[w].at \in {"idle", "mailing"}
          /\ InTask(w)
          /\ UNCHANGED <<announcement, delivery, got>>
      BY <2>4 DEF TaskStart, End, Idle, InTask, TypeOK, Send
    <3>2. send'[w].at = "mailing" => \A p \in send'[w].left : got[p] = 0
      BY <2>4 DEF TaskStart, End, Idle, OnceInv, Unmailed, TypeOK, Send
    <3>3. OneHandler' /\ OneTask'
      BY <3>1, StillOne DEF OnceInv
    <3>4. TaskShown' /\ HandlerLate' /\ Unmailed' /\ RosterMailedOnce'
      BY <3>1, <3>2 DEF OnceInv, TaskShown, HandlerLate, Unmailed, RosterMailedOnce,
                        InTask, Exists
    <3> QED
      BY <3>3, <3>4 DEF OnceInv
  <2>5. ASSUME NEW w \in Sends, TaskBatch(w) PROVE OnceInv'
    <3>1. PICK batch \in Batches(send[w].left) : \E accepted \in SUBSET batch :
             /\ got' = [p \in People |-> IF p \in accepted THEN got[p] + 1 ELSE got[p]]
             /\ send' = [send EXCEPT ![w].at = IF Exists THEN "mailing" ELSE "broken",
                                     ![w].left = @ \ batch,
                                     ![w].success = @ \/ accepted # {}]
      BY <2>5 DEF TaskBatch
    <3>2. send[w].left \in SUBSET People
      BY DEF TypeOK, Send
    <3>3. batch \subseteq send[w].left
      BY <3>2, BatchOfLeft
    <3>4. /\ \A u \in Sends : u # w => send'[u] = send[u]
          /\ send'[w].at \in {"mailing", "broken"}
          /\ send'[w].left = send[w].left \ batch
          /\ InTask(w) /\ send[w].at = "mailing"
          /\ UNCHANGED <<announcement, delivery>>
      BY <2>5, <3>1 DEF TaskBatch, InTask, TypeOK, Send
    <3>5. /\ \A p \in People : p \notin batch => got'[p] = got[p]
          /\ \A p \in batch : got'[p] \in {0, 1}
      BY <3>1, <3>2, <3>3, <3>4 DEF OnceInv, Unmailed, TypeOK
    <3>6. RosterMailedOnce'
      BY <3>2, <3>3, <3>5 DEF OnceInv, RosterMailedOnce, TypeOK
    <3>7. Unmailed'
      <4>1. \A u \in Sends : u # w => send[u].at \notin {"scheduled", "mailing"}
        BY <3>4 DEF OnceInv, OneTask, InTask
      <4>2. \A p \in send'[w].left : got'[p] = 0
        BY <3>2, <3>4, <3>5 DEF OnceInv, Unmailed
      <4> QED
        BY <3>4, <4>1, <4>2 DEF Unmailed
    <3>8. OneHandler' /\ OneTask'
      BY <3>4, StillOne DEF OnceInv
    <3>9. TaskShown' /\ HandlerLate'
      BY <3>4 DEF OnceInv, TaskShown, HandlerLate, InTask, Exists
    <3> QED
      BY <3>6, <3>7, <3>8, <3>9 DEF OnceInv
  <2>6. ASSUME NEW w \in Sends, TaskRaise(w) PROVE OnceInv'
    <3>1. /\ \A u \in Sends : u # w => send'[u] = send[u]
          /\ send'[w].at = "broken" /\ InTask(w)
          /\ UNCHANGED <<announcement, delivery, got>>
      BY <2>6 DEF TaskRaise, Goto, InTask, TypeOK, Send
    <3>2. OneHandler' /\ OneTask'
      BY <3>1, StillOne DEF OnceInv
    <3> QED
      BY <3>1, <3>2 DEF OnceInv, TaskShown, HandlerLate, Unmailed, RosterMailedOnce,
                        InTask, Exists
  <2>7. ASSUME NEW w \in Sends, TaskFinish(w) \/ TaskRecord(w) PROVE OnceInv'
    <3>1. /\ \A u \in Sends : u # w => send'[u] = send[u]
          /\ send'[w].at \in {"idle", "broken"} /\ InTask(w)
          /\ UNCHANGED <<announcement, got>>
      BY <2>7 DEF TaskFinish, TaskRecord, Goto, End, Idle, InTask, TypeOK, Send
    <3>2. OneHandler' /\ OneTask'
      BY <3>1, StillOne DEF OnceInv
    <3>3. \A u \in Sends : u # w => ~InTask(u)
      BY <3>1 DEF OnceInv, OneTask
    <3>4. TaskShown'
      <4>1. Exists => send'[w] = Idle
        BY <2>7 DEF TaskFinish, TaskRecord, End, TypeOK
      <4> QED
        BY <3>1, <3>3, <4>1 DEF TaskShown, InTask, Exists, Idle
    <3>5. delivery' \in {delivery, "none", "SENT", "FAILED"}
      BY <2>7 DEF TaskFinish, TaskRecord, Written
    <3> QED
      BY <3>1, <3>2, <3>4, <3>5 DEF OnceInv, HandlerLate, Unmailed, RosterMailedOnce
  <2>8. ASSUME Archive \/ Delete \/ ResidentsChange PROVE OnceInv'
    BY <2>8 DEF Archive, Delete, ResidentsChange, OnceInv, OneHandler, OneTask, TaskShown,
                HandlerLate, Unmailed, RosterMailedOnce, InTask, Exists
  <2>9. ASSUME Restart PROVE OnceInv'
    BY <2>9 DEF Restart, OnceInv, OneHandler, OneTask, TaskShown, HandlerLate, Unmailed,
                RosterMailedOnce, InTask, Idle
  <2>10. ASSUME UNCHANGED vars PROVE OnceInv'
    BY <2>10 DEF vars, OnceInv, OneHandler, OneTask, TaskShown, HandlerLate, Unmailed,
                 RosterMailedOnce, InTask, Exists
  <2> QED
    BY <2>1, <2>2, <2>3, <2>4, <2>5, <2>6, <2>7, <2>8, <2>9, <2>10 DEF Next, Task
<1> QED
  BY <1>1, <1>2, TypeCorrect, PTL DEF Spec

\* Without overlapping send handlers nobody is mailed twice for one send,
\* whatever fails, restarts or is deleted in between.
THEOREM MailedOnce ==
    ASSUME Overlapping = FALSE
    PROVE  Spec => []RosterMailedOnce
<1>1. OnceInv => RosterMailedOnce
  BY DEF OnceInv
<1> QED
  BY <1>1, OnceInvariant, PTL
-----------------------------------------------------------------------------
(***************************************************************************)
(* What a finished send says, and what a deletion stops, under the same    *)
(* condition.                                                              *)
(***************************************************************************)
Reached == \E p \in People : got[p] > 0

\* A task that counts a success has reached somebody; it began with none and is
\* to end a delivery that says SENDING; a handler knows the delivery as it is.
SentInv ==
    /\ SentReachedSomeone
    /\ \A w \in Sends :
          /\ send[w].at = "mailing" => send[w].seen = "SENDING"
          /\ send[w].at = "mailing" /\ send[w].success => Reached
          /\ send[w].at \in {"handler", "scheduled"} => ~send[w].success
          /\ send[w].at = "handler" /\ Exists => delivery = send[w].seen

\* Steps that count nothing and say nothing new.
LEMMA SentQuiet ==
    ASSUME SentInv, UNCHANGED got, delivery' # "SENT" \/ delivery' = delivery,
           Exists' => Exists,
           \A w \in Sends :
              \/ send'[w] = send[w] /\ (send[w].at = "handler" /\ Exists' => delivery' = delivery)
              \/ send'[w].at \in {"idle", "broken"}
    PROVE  SentInv'
BY DEF SentInv, SentReachedSomeone, Reached

LEMMA SentStep == TypeOK /\ OnceInv /\ SentInv /\ [Next]_vars => SentInv'
<1> SUFFICES ASSUME TypeOK, OnceInv, SentInv, [Next]_vars PROVE SentInv'
  OBVIOUS
<1>1. ASSUME NEW w \in Sends, SendLoad(w) PROVE SentInv'
  <2>1. /\ \A u \in Sends : u # w => send'[u] = send[u]
        /\ send'[w].at = "handler" /\ send'[w].seen = delivery /\ send'[w].success = FALSE
        /\ UNCHANGED <<announcement, delivery, got>>
    BY <1>1 DEF SendLoad, TypeOK, Idle, Send
  <2> QED
    BY <2>1 DEF SentInv, SentReachedSomeone, Reached, Exists
<1>2. ASSUME NEW w \in Sends, SendCommit(w) PROVE SentInv'
  <2>1. /\ \A u \in Sends : u # w => send'[u] = send[u]
        /\ \A u \in Sends : ~InTask(u)
        /\ \A u \in Sends : u # w => send[u].at # "handler"
        /\ send[w].at = "handler" /\ Exists /\ UNCHANGED announcement
    BY <1>2 DEF SendCommit, Committable, OnceInv, OneHandler, TaskShown, HandlerLate,
                Goto, End, TypeOK
  <2>2. CASE residents = {}
    <3>1. send'[w] = Idle /\ got' = got /\ delivery' = "FAILED"
      BY <1>2, <2>1, <2>2 DEF SendCommit, End, TypeOK, SentInv, Written
    <3> QED
      BY <2>1, <3>1, SentQuiet DEF Idle, Exists
  <2>3. CASE residents # {}
    <3>1. /\ send'[w].at = "scheduled" /\ send'[w].success = send[w].success
          /\ delivery' = "SENDING"
      BY <1>2, <2>3 DEF SendCommit, Goto, TypeOK, Send
    <3> QED
      BY <2>1, <3>1 DEF SentInv, SentReachedSomeone, InTask
  <2> QED
    BY <2>2, <2>3
<1>3. ASSUME NEW w \in Sends, SendRollback(w) \/ TaskRecordFails(w) \/ TaskRaise(w) PROVE SentInv'
  <2>1. /\ \A u \in Sends : u # w => send'[u] = send[u]
        /\ send'[w].at \in {"idle", "broken"}
        /\ UNCHANGED <<announcement, delivery, got>>
    BY <1>3 DEF SendRollback, TaskRecordFails, TaskRaise, Goto, End, Idle, TypeOK, Send
  <2> QED
    BY <2>1, SentQuiet DEF Exists
<1>4. ASSUME NEW w \in Sends, TaskStart(w) PROVE SentInv'
  <2>1. /\ \A u \in Sends : u # w => send'[u] = send[u]
        /\ send[w].at = "scheduled"
        /\ UNCHANGED <<announcement, delivery, got>>
    BY <1>4 DEF TaskStart, End, TypeOK
  <2>2. CASE delivery = "none"
    <3>1. send'[w] = Idle
      BY <1>4, <2>2 DEF TaskStart, End, TypeOK
    <3> QED
      BY <2>1, <3>1, SentQuiet DEF Idle, Exists
  <2>3. CASE delivery # "none"
    <3>1. delivery = "SENDING"
      BY <2>1, <2>3 DEF TypeOK, Exists, OnceInv, TaskShown, InTask
    <3>2. send'[w].at = "mailing" /\ send'[w].seen = delivery /\ send'[w].success = send[w].success
      BY <1>4, <2>3 DEF TaskStart, TypeOK, Send
    <3> QED
      BY <2>1, <3>1, <3>2 DEF SentInv, SentReachedSomeone, Reached, Exists
  <2> QED
    BY <2>2, <2>3
<1>5. ASSUME NEW w \in Sends, TaskBatch(w) PROVE SentInv'
  <2>0. PICK batch \in Batches(send[w].left) : \E accepted \in SUBSET batch :
           /\ got' = [p \in People |-> IF p \in accepted THEN got[p] + 1 ELSE got[p]]
           /\ send' = [send EXCEPT ![w].at = IF Exists THEN "mailing" ELSE "broken",
                                   ![w].left = @ \ batch,
                                   ![w].success = @ \/ accepted # {}]
    BY <1>5 DEF TaskBatch
  <2>1. PICK accepted \in SUBSET batch :
           /\ got' = [p \in People |-> IF p \in accepted THEN got[p] + 1 ELSE got[p]]
           /\ send' = [send EXCEPT ![w].at = IF Exists THEN "mailing" ELSE "broken",
                                   ![w].left = @ \ batch,
                                   ![w].success = @ \/ accepted # {}]
    BY <2>0
  <2>2. send[w].left \in SUBSET People /\ got \in [People -> Nat]
    BY DEF TypeOK, Send
  <2>3. accepted \subseteq People
    BY <2>2, BatchOfLeft
  <2>4. /\ \A u \in Sends : u # w => send'[u] = send[u]
        /\ send'[w].at \in {"mailing", "broken"} /\ send'[w].seen = send[w].seen
        /\ send'[w].success => send[w].success \/ accepted # {}
        /\ send[w].at = "mailing"
        /\ UNCHANGED <<announcement, delivery>>
    BY <1>5, <2>1 DEF TaskBatch, TypeOK, Send
  <2>5. /\ Reached => Reached'
        /\ accepted # {} => Reached'
    BY <2>1, <2>2, <2>3 DEF Reached
  <2> QED
    BY <2>4, <2>5 DEF SentInv, SentReachedSomeone, Reached, Exists
<1>6. ASSUME NEW w \in Sends, TaskFinish(w) \/ TaskRecord(w) PROVE SentInv'
  <2>1. /\ \A u \in Sends : u # w => send'[u] = send[u]
        /\ send'[w].at \in {"idle", "broken"} /\ InTask(w)
        /\ UNCHANGED <<announcement, got>>
    BY <1>6 DEF TaskFinish, TaskRecord, Goto, End, Idle, InTask, TypeOK, Send
  <2>2. \A u \in Sends : send[u].at = "handler" => ~Exists
    BY <2>1 DEF OnceInv, TaskShown, HandlerLate
  <2>3. delivery' = "SENT" /\ delivery' # delivery => Reached
    BY <1>6 DEF TaskFinish, TaskRecord, Written, SentInv
  <2>4. SentReachedSomeone'
    BY <2>1, <2>3 DEF SentInv, SentReachedSomeone, Reached
  <2> QED
    BY <2>1, <2>2, <2>4 DEF SentInv, Reached, Exists
<1>7. ASSUME Archive \/ Delete \/ ResidentsChange \/ Restart \/ UNCHANGED vars PROVE SentInv'
  BY <1>7, SentQuiet DEF Archive, Delete, ResidentsChange, Restart, vars, Exists, Idle
<1> QED
  BY <1>1, <1>2, <1>3, <1>4, <1>5, <1>6, <1>7 DEF Next, Task

\* A send that is shown as SENT has reached somebody since it was last accepted.
THEOREM SentReached ==
    ASSUME Overlapping = FALSE
    PROVE  Spec => []SentReachedSomeone
<1>1. Init => SentInv
  BY DEF Init, SentInv, SentReachedSomeone, Idle
<1>2. SentInv => SentReachedSomeone
  BY DEF SentInv
<1> QED
  BY <1>1, <1>2, SentStep, OnceInvariant, TypeCorrect, PTL DEF Spec

\* What leaves after the deletion is one batch of the one task, whose progress
\* note then fails.
LateInv ==
    /\ late <= BatchSize
    /\ Exists => late = 0
    /\ late > 0 => \A w \in Sends : send[w].at # "mailing"

LEMMA BatchesAreSmall ==
    ASSUME NEW left \in SUBSET People, NEW batch \in Batches(left)
    PROVE  Cardinality(batch) <= BatchSize
<1>1. BatchSize \in Nat
  BY MailAssumption
<1>2. CASE Cardinality(left) <= BatchSize
  BY <1>2 DEF Batches
<1>3. CASE ~(Cardinality(left) <= BatchSize)
  <2>1. Cardinality(batch) = BatchSize
    BY <1>3 DEF Batches
  <2> QED
    BY <1>1, <2>1
<1> QED
  BY <1>2, <1>3

LEMMA LateStep == TypeOK /\ OnceInv /\ LateInv /\ [Next]_vars => LateInv'
<1> SUFFICES ASSUME TypeOK, OnceInv, LateInv, [Next]_vars PROVE LateInv'
  OBVIOUS
<1>1. ASSUME late' = late, Exists' => Exists,
             \A w \in Sends : send'[w].at = "mailing" => send[w].at = "mailing" \/ late = 0
      PROVE  LateInv'
  BY <1>1 DEF LateInv, TypeOK
<1>2. ASSUME NEW w \in Sends,
             \/ SendLoad(w) \/ SendCommit(w) \/ SendRollback(w) \/ TaskFinish(w) \/ TaskRecord(w)
             \/ TaskRaise(w) \/ TaskRecordFails(w)
      PROVE  LateInv'
  <2>1. /\ \A u \in Sends : u # w => send'[u] = send[u]
        /\ send'[w].at # "mailing" /\ UNCHANGED <<announcement, late>>
    <3>1. send \in [Sends -> Send] /\ Idle.at = "idle"
      BY DEF TypeOK, Idle
    <3>2. ASSUME End(w) \/ Goto(w, "broken") \/ Goto(w, "scheduled")
          PROVE  /\ \A u \in Sends : u # w => send'[u] = send[u]
                 /\ send'[w].at # "mailing"
      BY <3>1, <3>2 DEF End, Goto, Send
    <3>3. CASE SendLoad(w)
      BY <3>1, <3>3 DEF SendLoad, Idle
    <3>4. CASE SendCommit(w) \/ SendRollback(w)
      BY <3>2, <3>4 DEF SendCommit, SendRollback
    <3>5. CASE TaskFinish(w) \/ TaskRecord(w) \/ TaskRaise(w) \/ TaskRecordFails(w)
      BY <3>2, <3>5 DEF TaskFinish, TaskRecord, TaskRaise, TaskRecordFails
    <3> QED
      BY <1>2, <3>3, <3>4, <3>5
  <2> QED
    BY <1>1, <2>1 DEF Exists
<1>3. ASSUME NEW w \in Sends, TaskStart(w) PROVE LateInv'
  <2>1. /\ \A u \in Sends : u # w => send'[u] = send[u]
        /\ send'[w].at = "mailing" => delivery # "none"
        /\ UNCHANGED <<announcement, late>>
    BY <1>3 DEF TaskStart, End, Idle, TypeOK
  <2>2. delivery # "none" => late = 0
    BY DEF TypeOK, LateInv, Exists
  <2> QED
    BY <1>1, <2>1, <2>2 DEF Exists
<1>4. ASSUME NEW w \in Sends, TaskBatch(w) PROVE LateInv'
  <2>1. PICK batch \in Batches(send[w].left) : \E accepted :
           /\ late' = IF Exists THEN late ELSE late + Cardinality(batch)
           /\ send' = [send EXCEPT ![w].at = IF Exists THEN "mailing" ELSE "broken",
                                   ![w].left = @ \ batch,
                                   ![w].success = @ \/ accepted # {}]
    BY <1>4 DEF TaskBatch
  <2>2. send[w].left \in SUBSET People
    BY DEF TypeOK, Send
  <2>3. Cardinality(batch) <= BatchSize /\ Cardinality(batch) \in Nat
    BY <2>2, BatchOfLeft, BatchesAreSmall
  <2>4. /\ \A u \in Sends : u # w => send'[u] = send[u]
        /\ ~Exists => send'[w].at = "broken"
        /\ send[w].at = "mailing" /\ UNCHANGED announcement
    BY <1>4, <2>1 DEF TaskBatch, TypeOK, Send
  <2>5. late = 0 /\ \A u \in Sends : u # w => send[u].at # "mailing"
    BY <2>4 DEF LateInv, TypeOK, OnceInv, OneTask, InTask
  <2>6. CASE Exists
    BY <1>1, <2>1, <2>5, <2>6
  <2>7. CASE ~Exists
    <3>1. late' = Cardinality(batch) /\ ~Exists'
      BY <2>1, <2>3, <2>4, <2>5, <2>7 DEF Exists
    <3>2. \A u \in Sends : send'[u].at # "mailing"
      BY <2>4, <2>5, <2>7
    <3> QED
      BY <2>3, <3>1, <3>2 DEF LateInv
  <2> QED
    BY <2>6, <2>7
<1>5. ASSUME Archive \/ Delete \/ ResidentsChange \/ Restart \/ UNCHANGED vars PROVE LateInv'
  BY <1>1, <1>5 DEF Archive, Delete, ResidentsChange, Restart, vars, Exists, Idle
<1> QED
  BY <1>2, <1>3, <1>4, <1>5 DEF Next, Task

\* Deleting the announcement stops its send after the batch under way.
THEOREM DeletionStops ==
    ASSUME Overlapping = FALSE
    PROVE  Spec => []DeletionStopsTheSend
<1>1. Init => LateInv
  BY MailAssumption DEF Init, LateInv, Idle
<1>2. LateInv => DeletionStopsTheSend
  BY DEF LateInv, DeletionStopsTheSend
<1> QED
  BY <1>1, <1>2, LateStep, OnceInvariant, TypeCorrect, PTL DEF Spec
=============================================================================
