---------------------------- MODULE TicketsProofs ----------------------------
(***************************************************************************)
(* Theorems about Tickets, for any number of mails, tickets and users: the *)
(* types with any overlap, the others for requests and polls that run one  *)
(* after the other.                                                        *)
(***************************************************************************)
EXTENDS Tickets, TLAPS

LEMMA IdleType == Idle \in Worker
BY TicketAssumption DEF Idle, Worker, Ticket, Unborn, Uids, Absent, Null

LEMMA EndType ==
    ASSUME TypeOK, NEW w \in Workers, End(w)
    PROVE  worker' \in [Workers -> Worker]
BY IdleType DEF TypeOK, End

LEMMA LoadType ==
    ASSUME TypeOK, NEW w \in Workers, NEW at \in {"hands", "due", "reply"}, NEW T, Load(w, at, T)
    PROVE  worker' \in [Workers -> Worker]
<1> DEFINE rows == [t \in Tickets |-> IF t \in T THEN ticket[t] ELSE Unborn]
<1>1. rows \in [Tickets -> Ticket]
  BY DEF TypeOK, Ticket, Unborn
<1>2. [Idle EXCEPT !.at = at, !.rows = rows] \in Worker
  BY <1>1, IdleType DEF Worker
<1> QED
  BY <1>2 DEF TypeOK, Load

LEMMA MergeType ==
    ASSUME NEW now \in Ticket, NEW seen, NEW new \in Ticket
    PROVE  Merge(now, seen, new) \in Ticket
BY DEF Merge, Ticket

LEMMA OpenType == \A row : Open(row) \in {"ASSIGNED", "ACTIVE"}
BY DEF Open

LEMMA ReopenedType ==
    ASSUME NEW row \in Ticket
    PROVE  Reopened(row) \in Ticket
BY OpenType DEF Reopened, Ticket, Status

LEMMA RowsType ==
    ASSUME TypeOK, NEW w \in Workers
    PROVE  worker[w] \in Worker /\ worker[w].rows \in [Tickets -> Ticket]
BY DEF TypeOK, Worker

LEMMA PollTypes ==
    ASSUME TypeOK, NEW w \in Workers,
           PollStart(w) \/ Sync(w) \/ SyncCommit(w) \/ ImapFails(w) \/ Rollback(w)
    PROVE  TypeOK'
<1>0. Idle \in Worker /\ Idle.base = Absent /\ Idle.top = 0 /\ Idle.todo = {} /\ Idle.at = "idle"
  BY IdleType DEF Idle
<1>00. Len(mails) \in Nat /\ MaxUid \in Nat /\ Len(mails) <= MaxUid
  BY TicketAssumption DEF TypeOK
<1>1. CASE PollStart(w)
  <2> DEFINE r == [Idle EXCEPT !.at = IF lastUid < 0 THEN "sync" ELSE "fetch", !.base = lastUid]
  <2>1. lastUid \in {Absent, Null} \cup 0..Len(mails) /\ Len(mails) \in Nat
    BY DEF TypeOK
  <2>2. r \in Worker
    <3>1. lastUid \in {Absent, Null} \cup Nat
      BY <2>1 DEF Absent, Null
    <3>2. (IF lastUid < 0 THEN "sync" ELSE "fetch") \in {"sync", "fetch"}
      OBVIOUS
    <3> QED
      BY <3>1, <3>2, <1>0 DEF Worker
  <2>3. r.base <= Len(mails) /\ r.top <= Len(mails) /\ r.todo = {} /\ (r.at = "fetch" => r.base >= 0)
    BY <2>1, <1>0 DEF Idle, Absent, Null
  <2>4. worker' = [worker EXCEPT ![w] = r]
    BY <1>1 DEF PollStart
  <2> HIDE DEF r
  <2> QED
    BY <1>1, <2>2, <2>3, <2>4 DEF PollStart, TypeOK
<1>2. CASE Sync(w)
  <2>1. PICK highest \in mailbox \cup {0} :
           worker' = [worker EXCEPT ![w].at = "synced", ![w].top = highest]
    BY <1>2 DEF Sync
  <2>2. highest \in Nat /\ highest <= Len(mails)
    BY <2>1, <1>00 DEF TypeOK
  <2>3. [worker[w] EXCEPT !.at = "synced", !.top = highest] \in Worker
    BY <2>2, RowsType DEF Worker
  <2>4. worker' = [worker EXCEPT ![w] = [worker[w] EXCEPT !.at = "synced", !.top = highest]]
    BY <2>1, Zenon
  <2> QED
    BY <1>2, <2>2, <2>3, <2>4, RowsType DEF Sync, TypeOK, Worker
<1>3. CASE SyncCommit(w)
  <2>1. worker[w].top \in 0..Len(mails)
    BY <1>00, RowsType DEF TypeOK, Worker
  <2>2. past' \in Past
    <3>1. past \in Past /\ worker[w].top \in Nat
      BY <2>1, <1>00 DEF TypeOK
    <3> QED
      BY <1>3, <3>1 DEF SyncCommit, Past
  <2>3. worker' \in [Workers -> Worker] /\ worker' = [worker EXCEPT ![w] = Idle]
    BY <1>3, EndType DEF SyncCommit, End
  <2>4. lastUid' \in {Absent, Null} \cup 0..Len(mails)
    BY <1>3, <2>1 DEF SyncCommit
  <2>5. UNCHANGED <<mails, mailbox, ticket, ids, sent, today>>
    BY <1>3 DEF SyncCommit
  <2>6. \A v \in Workers : worker'[v] = worker[v] \/ worker'[v] = Idle
    BY <2>3 DEF TypeOK
  <2>7. \A v \in Workers :
          /\ worker'[v].base <= Len(mails) /\ worker'[v].top <= Len(mails)
          /\ worker'[v].todo \subseteq 1..Len(mails)
          /\ worker'[v].at = "fetch" => worker'[v].base >= 0
    BY <1>0, <1>00, <2>6 DEF TypeOK, Absent
  <2> QED
    BY <2>2, <2>3, <2>4, <2>5, <2>7 DEF TypeOK
<1>4. CASE ImapFails(w) \/ Rollback(w)
  <2>1. End(w) /\ UNCHANGED <<mails, mailbox, lastUid, ticket, ids, sent, today, past>>
    BY <1>4 DEF ImapFails, Rollback
  <2>2. worker' \in [Workers -> Worker] /\ worker' = [worker EXCEPT ![w] = Idle]
    BY <2>1, EndType DEF End
  <2> QED
    BY <1>0, <1>00, <2>1, <2>2 DEF TypeOK, Absent
<1> QED
  BY <1>1, <1>2, <1>3, <1>4

LEMMA FetchTypes ==
    ASSUME TypeOK, NEW w \in Workers, Fetch(w)
    PROVE  TypeOK'
<1>1. PICK lost \in SUBSET {u \in mailbox : u > worker[w].base} :
         LET got == {u \in mailbox : u > worker[w].base} \ lost
         IN /\ worker' = [worker EXCEPT ![w].at = "mails", ![w].todo = got,
                                        ![w].top = worker[w].base]
            /\ past' = [past EXCEPT !.skipped =
                          @ \cup {u \in lost : \E v \in got : v > u}]
  BY DEF Fetch
<1> DEFINE got == {u \in mailbox : u > worker[w].base} \ lost
<1>0. Len(mails) \in Nat /\ MaxUid \in Nat /\ Len(mails) <= MaxUid /\ mailbox \subseteq 1..Len(mails)
  BY TicketAssumption DEF TypeOK
<1>2. got \subseteq 1..Len(mails) /\ lost \subseteq Uids /\ got \subseteq Uids
  <2>1. mailbox \subseteq Uids
    BY <1>0 DEF Uids
  <2> QED
    BY <1>0, <2>1
<1>3. worker[w].base \in Nat /\ worker[w].base <= Len(mails)
  <2>1. worker[w].at = "fetch" /\ worker[w].base >= 0 /\ worker[w].base <= Len(mails)
    BY DEF TypeOK, Fetch
  <2>2. worker[w].base \in {Absent, Null} \cup Nat
    BY RowsType DEF Worker
  <2> QED
    BY <2>1, <2>2 DEF Absent, Null
<1>4. worker' = [worker EXCEPT ![w] = [worker[w] EXCEPT !.at = "mails", !.todo = got,
                                                       !.top = worker[w].base]]
  BY <1>1, Zenon
<1> HIDE DEF got
<1>5. [worker[w] EXCEPT !.at = "mails", !.todo = got, !.top = worker[w].base] \in Worker
  BY <1>2, <1>3, RowsType DEF Worker
<1>6. past' \in Past
  <2>1. past' = [past EXCEPT !.skipped = @ \cup {u \in lost : \E v \in got : v > u}]
    BY <1>1 DEF got
  <2>2. past \in Past
    BY DEF TypeOK
  <2> QED
    BY <1>2, <2>1, <2>2 DEF Past
<1> QED
  BY <1>0, <1>2, <1>3, <1>4, <1>5, <1>6, RowsType DEF Fetch, TypeOK, Worker

LEMMA RowOfType ==
    ASSUME TypeOK, NEW t \in Tickets
    PROVE  ticket[t] \in Ticket
BY DEF TypeOK

LEMMA FileMailTypes ==
    ASSUME TypeOK, NEW w \in Workers, FileMail(w)
    PROVE  TypeOK'
<1>0. Len(mails) \in Nat /\ MaxUid \in Nat /\ Len(mails) <= MaxUid
      /\ worker[w].todo \subseteq 1..Len(mails)
  BY TicketAssumption DEF TypeOK
<1>1. PICK u \in worker[w].todo :
         LET next == [worker[w] EXCEPT !.todo = @ \ {u}, !.top = u]
         IN IF mails[u].topic = None
            THEN worker' = [worker EXCEPT ![w] = next]
            ELSE \E t \in IF Matching(w, u) # {} THEN Matching(w, u)
                          ELSE {n \in Tickets : Free(n)} :
                   worker' = [worker EXCEPT ![w] = [next EXCEPT !.filed[u] = t,
                      !.rows[t] = IF @.status # "unborn" THEN @
                                  ELSE IF Exists(t) THEN ticket[t]
                                  ELSE NewTicket(mails[u].topic)]]
  BY DEF FileMail
<1>2. u \in 1..Len(mails) /\ u \in Nat /\ u \in Uids /\ u <= Len(mails)
  BY <1>0 DEF Uids
<1> DEFINE next == [worker[w] EXCEPT !.todo = @ \ {u}, !.top = u]
<1>3. next \in Worker /\ next.top = u /\ next.todo \subseteq 1..Len(mails)
      /\ next.base = worker[w].base /\ next.at = "mails"
  BY <1>0, <1>2, RowsType, ZenonT(60) DEF Worker, FileMail
<1>4. mails[u] \in Mail
  BY <1>2 DEF TypeOK
<1> HIDE DEF next
<1>5. PICK r : /\ worker' = [worker EXCEPT ![w] = r]
               /\ r \in Worker /\ r.top = u /\ r.todo \subseteq 1..Len(mails)
               /\ r.base = worker[w].base /\ r.at = "mails"
  <2>1. CASE mails[u].topic = None
    BY <1>1, <1>3, <2>1 DEF next
  <2>2. CASE mails[u].topic # None
    <3>1. PICK t \in IF Matching(w, u) # {} THEN Matching(w, u)
                     ELSE {n \in Tickets : Free(n)} :
              worker' = [worker EXCEPT ![w] = [next EXCEPT !.filed[u] = t,
                 !.rows[t] = IF @.status # "unborn" THEN @
                             ELSE IF Exists(t) THEN ticket[t]
                             ELSE NewTicket(mails[u].topic)]]
      BY <1>1, <2>2 DEF next
    <3>2. t \in Tickets
      BY <3>1 DEF Matching, Threaded, SameTopic
    <3> DEFINE row == IF next.rows[t].status # "unborn" THEN next.rows[t]
                      ELSE IF Exists(t) THEN ticket[t]
                      ELSE NewTicket(mails[u].topic)
    <3> DEFINE r == [next EXCEPT !.filed = [@ EXCEPT ![u] = t], !.rows = [@ EXCEPT ![t] = row]]
    <3>3. row \in Ticket
      <4>1. NewTicket(mails[u].topic) \in Ticket
        BY <1>4 DEF NewTicket, Unborn, Ticket, Mail, Status
      <4>2. next.rows[t] \in Ticket
        BY <1>3, <3>2 DEF Worker
      <4> QED
        BY <4>1, <4>2, <3>2, RowOfType
    <3>4. worker' = [worker EXCEPT ![w] = r]
      BY <3>1
    <3> HIDE DEF row
    <3>5. r \in Worker
      BY <1>2, <1>3, <3>2, <3>3 DEF Worker
    <3>6. r.top = u /\ r.todo = next.todo /\ r.base = next.base /\ r.at = next.at
      BY <1>3 DEF Worker
    <3> QED
      BY <1>3, <3>4, <3>5, <3>6
  <2> QED
    BY <2>1, <2>2
<1> QED
  BY <1>0, <1>2, <1>5 DEF FileMail, TypeOK

LEMMA PollCommitTypes ==
    ASSUME TypeOK, NEW w \in Workers, PollCommit(w)
    PROVE  TypeOK'
<1>0. Idle \in Worker /\ Idle.base = Absent /\ Idle.top = 0 /\ Idle.todo = {} /\ Idle.at = "idle"
  BY IdleType DEF Idle
<1>00. Len(mails) \in Nat /\ MaxUid \in Nat /\ Len(mails) <= MaxUid
  BY TicketAssumption DEF TypeOK
<1>1. ticket' \in [Tickets -> Ticket]
  <2>1. \A t \in Tickets : Merge(ticket[t], worker[w].rows[t], Reopened(worker[w].rows[t])) \in Ticket
    BY RowOfType, RowsType, MergeType, ReopenedType
  <2>2. \A t \in Tickets : worker[w].rows[t] \in Ticket /\ ticket[t] \in Ticket
    BY RowOfType, RowsType
  <2> QED
    BY <2>1, <2>2 DEF PollCommit
<1>2. ids' \in [Tickets -> SUBSET (Uids \cup Tickets)]
  BY DEF PollCommit, TypeOK, FiledIn
<1>3. lastUid' \in {Absent, Null} \cup 0..Len(mails)
  <2>1. worker[w].top \in 0..Len(mails)
    BY <1>00, RowsType DEF TypeOK, Worker
  <2> QED
    BY <2>1 DEF PollCommit, Written, TypeOK
<1>4. past' \in Past
  <2> DEFINE copies == [u \in Uids |-> IF worker[w].filed[u] # None THEN past.copies[u] + 1
                                       ELSE past.copies[u]]
  <2>1. past \in Past
    BY DEF TypeOK
  <2>2. copies \in [Uids -> Nat]
    BY <2>1 DEF Past
  <2>3. Loaded(w) \subseteq Tickets
    BY DEF Loaded
  <2>4. past' = [past EXCEPT !.copies = copies, !.fresh = @ \cup Loaded(w),
                             !.forgot = @ \/ lastUid' = Null]
    BY DEF PollCommit
  <2> DEFINE forgot == past.forgot \/ lastUid' = Null
  <2>5. forgot \in BOOLEAN
    BY <2>1, Zenon DEF Past
  <2>6. past' = [past EXCEPT !.copies = copies, !.fresh = @ \cup Loaded(w), !.forgot = forgot]
    BY <2>4, Zenon
  <2> HIDE DEF copies, forgot
  <2> QED
    BY <2>1, <2>2, <2>3, <2>5, <2>6 DEF Past
<1>5. worker' \in [Workers -> Worker] /\ worker' = [worker EXCEPT ![w] = Idle]
  BY EndType DEF PollCommit, End
<1> QED
  BY <1>0, <1>00, <1>1, <1>2, <1>3, <1>4, <1>5 DEF PollCommit, TypeOK, Absent
LEMMA MergedType ==
    ASSUME TypeOK, NEW w \in Workers, NEW new \in [Tickets -> Ticket]
    PROVE  [t \in Tickets |-> IF t \in Loaded(w)
              THEN Merge(ticket[t], worker[w].rows[t], new[t]) ELSE ticket[t]]
           \in [Tickets -> Ticket]
BY RowOfType, MergeType

LEMMA HandsCommitTypes ==
    ASSUME TypeOK, NEW w \in Workers, NEW new \in [Tickets -> Ticket], HandsCommit(w, new)
    PROVE  TypeOK'
<1>0. Idle \in Worker /\ Idle.base = Absent /\ Idle.top = 0 /\ Idle.todo = {} /\ Idle.at = "idle"
  BY IdleType DEF Idle
<1>00. Len(mails) \in Nat
  BY DEF TypeOK
<1>1. ticket' \in [Tickets -> Ticket]
  <2>1. \A t \in Tickets :
          [Merge(ticket[t], worker[w].rows[t], new[t])
             EXCEPT !.closed = @ \/ new[t].status = "CLOSED"] \in Ticket
    <3> SUFFICES ASSUME NEW t \in Tickets
                 PROVE  [Merge(ticket[t], worker[w].rows[t], new[t])
                           EXCEPT !.closed = @ \/ new[t].status = "CLOSED"] \in Ticket
      OBVIOUS
    <3> DEFINE m == Merge(ticket[t], worker[w].rows[t], new[t])
               b == m.closed \/ new[t].status = "CLOSED"
    <3>1. m \in Ticket
      BY RowOfType, MergeType
    <3>2. b \in BOOLEAN
      BY <3>1, Zenon DEF Ticket
    <3>3. [m EXCEPT !.closed = b] \in Ticket
      <4> HIDE DEF m, b
      <4> QED
        BY <3>1, <3>2 DEF Ticket
    <3> QED
      BY <3>3, Zenon
  <2>2. \A t \in Tickets : ticket[t] \in Ticket
    BY RowOfType
  <2>3. ticket' = [t \in Tickets |-> IF t \in Loaded(w)
         THEN [Merge(ticket[t], worker[w].rows[t], new[t])
                 EXCEPT !.closed = @ \/ new[t].status = "CLOSED"]
         ELSE ticket[t]]
    BY DEF HandsCommit
  <2> QED
    BY <2>1, <2>2, <2>3, Zenon
<1>2. past' \in Past
  BY DEF HandsCommit, TypeOK, Past
<1>3. worker' \in [Workers -> Worker] /\ worker' = [worker EXCEPT ![w] = Idle]
  BY EndType DEF HandsCommit, End
<1>4. UNCHANGED <<mails, mailbox, lastUid, ids, sent, today>>
  BY DEF HandsCommit
<1> QED
  BY <1>0, <1>00, <1>1, <1>2, <1>3, <1>4 DEF TypeOK, Absent

LEMMA HandsTypes ==
    ASSUME TypeOK, NEW w \in Workers, StatusUpdate(w) \/ Assign(w)
    PROVE  TypeOK'
<1>1. CASE StatusUpdate(w)
  <2>1. PICK status \in Status, until \in 1..LastDay :
          HandsCommit(w, [t \in Tickets |-> WithStatus(worker[w].rows[t], status, until)])
    BY <1>1 DEF StatusUpdate
  <2>2. \A t \in Tickets : WithStatus(worker[w].rows[t], status, until) \in Ticket
    <3> SUFFICES ASSUME NEW t \in Tickets
                 PROVE  WithStatus(worker[w].rows[t], status, until) \in Ticket
      OBVIOUS
    <3> DEFINE row == worker[w].rows[t]
               closed == (status = "CLOSED")
               day == IF status = "POSTPONED" THEN until ELSE None
               user == IF status = "ACTIVE" THEN None ELSE row.assignee
    <3>1. row \in Ticket
      BY RowsType
    <3>2. closed \in BOOLEAN /\ day \in (1..LastDay) \cup {None} /\ user \in Users \cup {None}
      BY <3>1 DEF Ticket
    <3>3. WithStatus(row, status, until) =
            [row EXCEPT !.status = status, !.until = day, !.closed = closed, !.assignee = user]
      BY Zenon DEF WithStatus
    <3> HIDE DEF row, closed, day, user
    <3>4. [row EXCEPT !.status = status, !.until = day, !.closed = closed, !.assignee = user]
             \in Ticket
      BY <3>1, <3>2 DEF Ticket
    <3> QED
      BY <3>3, <3>4 DEF row
  <2> QED
    BY <2>1, <2>2, HandsCommitTypes
<1>2. CASE Assign(w)
  <2>1. PICK user \in Users \cup {None} :
          HandsCommit(w, [t \in Tickets |-> WithAssignee(worker[w].rows[t], user)])
    BY <1>2 DEF Assign
  <2>2. \A t \in Tickets : WithAssignee(worker[w].rows[t], user) \in Ticket
    <3> SUFFICES ASSUME NEW t \in Tickets
                 PROVE  WithAssignee(worker[w].rows[t], user) \in Ticket
      OBVIOUS
    <3>1. worker[w].rows[t] \in Ticket
      BY RowsType
    <3> QED
      BY <3>1 DEF WithAssignee, Ticket, Status
  <2> QED
    BY <2>1, <2>2, HandsCommitTypes
<1> QED
  BY <1>1, <1>2

LEMMA DueCommitTypes ==
    ASSUME TypeOK, NEW w \in Workers, DueCommit(w)
    PROVE  TypeOK'
<1>0. Idle \in Worker /\ Idle.base = Absent /\ Idle.top = 0 /\ Idle.todo = {} /\ Idle.at = "idle"
  BY IdleType DEF Idle
<1>00. Len(mails) \in Nat
  BY DEF TypeOK
<1> DEFINE new == [t \in Tickets |-> [worker[w].rows[t] EXCEPT
                     !.status = Open(worker[w].rows[t]), !.until = None]]
<1>1. new \in [Tickets -> Ticket]
  BY RowsType, OpenType, ZenonT(60) DEF Ticket, Status
<1>2. ticket' \in [Tickets -> Ticket]
  <2>1. ticket' = [t \in Tickets |-> IF t \in Loaded(w)
              THEN Merge(ticket[t], worker[w].rows[t], new[t]) ELSE ticket[t]]
    BY DEF DueCommit
  <2> QED
    BY <1>1, <2>1, MergedType
<1>3. worker' \in [Workers -> Worker] /\ worker' = [worker EXCEPT ![w] = Idle]
  BY EndType DEF DueCommit, End
<1>4. UNCHANGED <<mails, mailbox, lastUid, ids, sent, today, past>>
  BY DEF DueCommit
<1> QED
  BY <1>0, <1>00, <1>2, <1>3, <1>4 DEF TypeOK, Absent

LEMMA LoadTypes ==
    ASSUME TypeOK, NEW w \in Workers, NEW at \in {"hands", "due", "reply"}, NEW T, Load(w, at, T),
           UNCHANGED <<mails, mailbox, lastUid, ticket, ids, today, past>>,
           sent' \subseteq Tickets
    PROVE  TypeOK'
<1>1. worker' \in [Workers -> Worker]
  BY LoadType
<1>2. PICK r : worker' = [worker EXCEPT ![w] = r] /\ r.base = Absent /\ r.top = 0
                /\ r.todo = {} /\ r.at = at
  <2> DEFINE r == [Idle EXCEPT !.at = at,
                    !.rows = [t \in Tickets |-> IF t \in T THEN ticket[t] ELSE Unborn]]
  <2>1. worker' = [worker EXCEPT ![w] = r]
    BY DEF Load
  <2>2. r.base = Absent /\ r.top = 0 /\ r.todo = {} /\ r.at = at
    BY DEF Idle
  <2> QED
    BY <2>1, <2>2
<1>3. Len(mails) \in Nat
  BY DEF TypeOK
<1> QED
  BY <1>1, <1>2, <1>3 DEF TypeOK, Absent

LEMMA OtherTypes ==
    ASSUME TypeOK, NEW w \in Workers,
           HandsLoad(w) \/ DueLoad(w) \/ ReplySend(w) \/ ReplyCommit(w)
    PROVE  TypeOK'
<1>0. Idle \in Worker /\ Idle.base = Absent /\ Idle.top = 0 /\ Idle.todo = {} /\ Idle.at = "idle"
  BY IdleType DEF Idle
<1>00. Len(mails) \in Nat
  BY DEF TypeOK
<1>1. CASE HandsLoad(w)
  BY <1>1, LoadTypes DEF HandsLoad, TypeOK
<1>2. CASE DueLoad(w)
  BY <1>2, LoadTypes DEF DueLoad, TypeOK
<1>3. CASE ReplySend(w)
  <2>1. PICK t \in Tickets : sent' = {t} /\ Load(w, "reply", {t})
    BY <1>3 DEF ReplySend
  <2> QED
    BY <1>3, <2>1, LoadTypes DEF ReplySend
<1>4. CASE ReplyCommit(w)
  <2>1. ids' \in [Tickets -> SUBSET (Uids \cup Tickets)]
    BY <1>4 DEF ReplyCommit, TypeOK
  <2>2. worker' \in [Workers -> Worker] /\ worker' = [worker EXCEPT ![w] = Idle]
    BY <1>4, EndType DEF ReplyCommit, End
  <2> QED
    BY <1>0, <1>00, <1>4, <2>1, <2>2 DEF ReplyCommit, TypeOK, Absent
<1> QED
  BY <1>1, <1>2, <1>3, <1>4

LEMMA EnvironmentTypes ==
    ASSUME TypeOK, TicketCreate \/ MailArrives \/ MailRemoved \/ NextDay \/ Restart
    PROVE  TypeOK'
<1>0. Idle \in Worker /\ Idle.base = Absent /\ Idle.top = 0 /\ Idle.todo = {} /\ Idle.at = "idle"
  BY IdleType DEF Idle
<1>00. Len(mails) \in Nat /\ MaxUid \in Nat /\ LastDay \in Nat
  BY TicketAssumption DEF TypeOK
<1>1. CASE TicketCreate
  <2>1. \A topic \in Topics : NewTicket(topic) \in Ticket
    BY DEF NewTicket, Unborn, Ticket, Status
  <2> QED
    BY <1>1, <2>1 DEF TicketCreate, TypeOK
<1>2. CASE MailArrives
  <2>1. PICK m : m \in Mail /\ mails' = Append(mails, m)
    <3>1. PICK topic \in Topics \cup {None},
               refs \in {{}} \cup {{id} : id \in 1..Len(mails) \cup sent} :
             mails' = Append(mails, [topic |-> topic, refs |-> refs])
      BY <1>2 DEF MailArrives
    <3>2. refs \subseteq Uids \cup Tickets
      BY <3>1, <1>00 DEF TypeOK, Uids
    <3> QED
      BY <3>1, <3>2 DEF Mail
  <2>2. mails' \in Seq(Mail) /\ Len(mails') = Len(mails) + 1
    BY <2>1 DEF TypeOK
  <2>3. Len(mails') <= MaxUid /\ mailbox' \subseteq 1..Len(mails')
    <3>1. mailbox' = mailbox \cup {Len(mails')} /\ Len(mails) < MaxUid
      BY <1>2 DEF MailArrives
    <3>2. mailbox \subseteq 1..Len(mails)
      BY DEF TypeOK
    <3>3. Len(mails') \in Nat /\ Len(mails') = Len(mails) + 1 /\ Len(mails') <= MaxUid
      BY <1>00, <2>2, <3>1
    <3>4. \A u \in mailbox : u \in Int /\ 1 <= u /\ u <= Len(mails')
      BY <1>00, <3>2, <3>3
    <3>5. \A u \in mailbox' : u \in Int /\ 1 <= u /\ u <= Len(mails')
      BY <1>00, <3>1, <3>3, <3>4
    <3> QED
      BY <3>3, <3>5
  <2>4. UNCHANGED <<lastUid, ticket, ids, sent, today, worker, past>>
    BY <1>2 DEF MailArrives
  <2>5. lastUid' \in {Absent, Null} \cup 0..Len(mails')
    BY <2>2, <2>4, <1>00 DEF TypeOK
  <2>6. \A w \in Workers :
          /\ worker[w].base <= Len(mails') /\ worker[w].top <= Len(mails')
          /\ worker[w].todo \subseteq 1..Len(mails')
    <3> SUFFICES ASSUME NEW w \in Workers
                 PROVE /\ worker[w].base <= Len(mails') /\ worker[w].top <= Len(mails')
                       /\ worker[w].todo \subseteq 1..Len(mails')
      OBVIOUS
    <3>1. worker[w].base \in Int /\ worker[w].top \in Int
      BY RowsType DEF Worker, Absent, Null
    <3> QED
      BY <3>1, <2>2, <1>00 DEF TypeOK
  <2> QED
    BY <2>2, <2>3, <2>4, <2>5, <2>6 DEF TypeOK
<1>3. CASE MailRemoved
  BY <1>3 DEF MailRemoved, TypeOK
<1>4. CASE NextDay
  BY <1>4, <1>00 DEF NextDay, TypeOK
<1>5. CASE Restart
  BY <1>5, <1>0, <1>00 DEF Restart, TypeOK, Absent
<1> QED
  BY <1>1, <1>2, <1>3, <1>4, <1>5

LEMMA InitTypes == Init => TypeOK
<1> SUFFICES ASSUME Init PROVE TypeOK
  OBVIOUS
<1>0. Idle \in Worker /\ Idle.base = Absent /\ Idle.top = 0 /\ Idle.todo = {} /\ Idle.at = "idle"
  BY IdleType DEF Idle
<1>1. mails \in Seq(Mail) /\ Len(mails) \in {0, 1}
  <2>1. [topic |-> None, refs |-> {}] \in Mail
    BY DEF Mail
  <2>2. CASE mails = <<>>
    BY <2>2
  <2>3. CASE mails = <<[topic |-> None, refs |-> {}]>>
    BY <2>1, <2>3
  <2> QED
    BY <2>2, <2>3 DEF Init
<1>2. past \in Past
  BY DEF Init, Past
<1>3. Unborn \in Ticket
  BY DEF Unborn, Ticket
<1>4. Len(mails) <= MaxUid /\ 0 \in 0..LastDay
  <2>1. MaxUid \in Nat /\ MaxUid >= 1 /\ LastDay \in Nat
    BY TicketAssumption
  <2> QED
    BY <1>1, <2>1
<1> QED
  BY <1>0, <1>1, <1>2, <1>3, <1>4 DEF Init, TypeOK, Absent

LEMMA NextTypes == TypeOK /\ [Next]_vars => TypeOK'
<1> SUFFICES ASSUME TypeOK, [Next]_vars PROVE TypeOK'
  OBVIOUS
<1>1. CASE UNCHANGED vars
  BY <1>1 DEF vars, TypeOK
<1>2. CASE Next
  BY <1>2, PollTypes, FetchTypes, FileMailTypes, PollCommitTypes, HandsTypes,
     DueCommitTypes, OtherTypes, EnvironmentTypes DEF Next
<1> QED
  BY <1>1, <1>2

\* Every reachable state is well typed, and no UID is known that has not arrived.
THEOREM TypeCorrect == Spec => []TypeOK
BY InitTypes, NextTypes, PTL DEF Spec

-----------------------------------------------------------------------------
\* Everything below is about requests and polls that do not overlap.
Serial == \A v, w \in Workers : v = w

\* A filed mail is never above the stored UID, and NULL only replaces a 0.
Counted ==
    /\ \A u \in Uids : past.copies[u] <= 1
    /\ \A u \in Uids : past.copies[u] > 0 => u <= lastUid

\* What a poll has in hand lies above the UID it read, which still is stored.
PollAbove ==
    \A w \in Workers :
        /\ worker[w].at = "synced" => lastUid < 0
        /\ worker[w].at = "sync" => lastUid < 0
        /\ worker[w].at = "fetch" =>
              /\ worker[w].base = lastUid
              /\ \A u \in Uids : worker[w].filed[u] = None
        /\ worker[w].at = "mails" =>
              /\ worker[w].base = lastUid /\ lastUid >= 0
              /\ worker[w].base <= worker[w].top
              /\ \A u \in worker[w].todo : worker[w].top < u
              /\ \A u \in Uids : worker[w].filed[u] # None =>
                     worker[w].base < u /\ u <= worker[w].top

\* Of the mails above base a poll overlooks only those it may fetch again and
\* those that count as skipped.
PollComplete ==
    \A w \in Workers : worker[w].at = "mails" =>
        \A u \in mailbox : worker[w].base < u =>
            IF u <= worker[w].top
            THEN mails[u].topic = None \/ u \in past.skipped \/ worker[w].filed[u] # None
            ELSE u \in worker[w].todo \/ u \in past.skipped
                   \/ \A v \in worker[w].todo : v < u

SyncedOnce == lastUid < 0 => past.start = Absent \/ past.forgot

IInv == TypeOK /\ Counted /\ PollAbove /\ PollComplete /\ SyncedOnce /\ MailLostOnlyIfForgotten

Rest == Counted /\ PollAbove /\ PollComplete /\ SyncedOnce /\ MailLostOnlyIfForgotten

Polling == {"sync", "synced", "fetch", "mails"}

LEMMA UidFacts ==
    ASSUME TypeOK
    PROVE  /\ lastUid \in Int
           /\ Len(mails) \in Nat /\ Len(mails) <= MaxUid /\ MaxUid \in Nat
           /\ mailbox \subseteq 1..Len(mails) /\ mailbox \subseteq Uids
           /\ past \in Past
           /\ \A u \in Uids : past.copies[u] \in Nat
           /\ \A w \in Workers : /\ worker[w].base \in Int
                                 /\ worker[w].top \in Nat
                                 /\ worker[w].todo \subseteq Uids
<1>1. /\ lastUid \in Int
      /\ Len(mails) \in Nat /\ Len(mails) <= MaxUid /\ MaxUid \in Nat
      /\ mailbox \subseteq 1..Len(mails)
      /\ past \in Past
  BY TicketAssumption DEF TypeOK, Absent, Null
<1>2. mailbox \subseteq Uids
  BY <1>1 DEF Uids
<1>3. \A u \in Uids : past.copies[u] \in Nat
  BY <1>1 DEF Past
<1>4. \A w \in Workers : /\ worker[w].base \in Int
                         /\ worker[w].top \in Nat
                         /\ worker[w].todo \subseteq Uids
  BY RowsType DEF Worker, Absent, Null
<1> QED
  BY <1>1, <1>2, <1>3, <1>4

\* Steps that leave the polls, the stored UID and the messages alone.
LEMMA QuietStep ==
    ASSUME IInv, UNCHANGED <<mails, lastUid>>, mailbox' \subseteq mailbox,
           past'.copies = past.copies, past'.skipped = past.skipped,
           past'.start = past.start, past'.forgot = past.forgot,
           \A v \in Workers : worker'[v] = worker[v] \/ worker'[v].at \notin Polling
    PROVE  Rest'
<1>1. Counted'
  BY DEF IInv, Counted
<1>2. PollAbove'
  BY DEF IInv, PollAbove, Polling
<1>3. PollComplete'
  BY DEF IInv, PollComplete, Polling
<1>4. SyncedOnce'
  BY DEF IInv, SyncedOnce
<1>5. MailLostOnlyIfForgotten'
  BY DEF IInv, MailLostOnlyIfForgotten, Due
<1> QED
  BY <1>1, <1>2, <1>3, <1>4, <1>5 DEF Rest

LEMMA PollStartKeeps ==
    ASSUME IInv, Serial, NEW w \in Workers, PollStart(w)
    PROVE  Rest'
<1>1. UNCHANGED <<mails, mailbox, lastUid, past>>
  BY DEF PollStart
<1>2. PICK r : /\ worker' = [worker EXCEPT ![w] = r]
               /\ r.at = IF lastUid < 0 THEN "sync" ELSE "fetch"
               /\ r.base = lastUid /\ \A u \in Uids : r.filed[u] = None
  <2> DEFINE r == [Idle EXCEPT !.at = IF lastUid < 0 THEN "sync" ELSE "fetch", !.base = lastUid]
  <2>1. worker' = [worker EXCEPT ![w] = r]
    BY DEF PollStart
  <2>2. /\ r.at = (IF lastUid < 0 THEN "sync" ELSE "fetch") /\ r.base = lastUid
        /\ \A u \in Uids : r.filed[u] = None
    BY DEF Idle
  <2> QED
    BY <2>1, <2>2
<1>3. \A v \in Workers : v = w /\ worker'[v] = r
  BY <1>2 DEF Serial, IInv, TypeOK
<1>4. Counted' /\ SyncedOnce' /\ MailLostOnlyIfForgotten'
  BY <1>1 DEF IInv, Counted, SyncedOnce, MailLostOnlyIfForgotten, Due
<1>5. PollAbove' /\ PollComplete'
  BY <1>1, <1>2, <1>3 DEF PollAbove, PollComplete
<1> QED
  BY <1>4, <1>5 DEF Rest

LEMMA SyncKeeps ==
    ASSUME IInv, Serial, NEW w \in Workers, Sync(w)
    PROVE  Rest'
<1>1. UNCHANGED <<mails, mailbox, lastUid, past>> /\ worker[w].at = "sync"
  BY DEF Sync
<1>2. worker'[w].at = "synced"
  BY DEF Sync, IInv, TypeOK, Worker
<1>3. \A v \in Workers : v = w
  BY DEF Serial
<1>4. Counted' /\ SyncedOnce' /\ MailLostOnlyIfForgotten'
  BY <1>1 DEF IInv, Counted, SyncedOnce, MailLostOnlyIfForgotten, Due
<1>5. PollAbove' /\ PollComplete'
  BY <1>1, <1>2, <1>3 DEF IInv, PollAbove, PollComplete
<1> QED
  BY <1>4, <1>5 DEF Rest

LEMMA AllIdle ==
    ASSUME IInv, Serial, NEW w \in Workers, End(w)
    PROVE  \A v \in Workers : worker'[v].at = "idle"
BY DEF Serial, End, IInv, TypeOK, Idle

LEMMA SyncCommitKeeps ==
    ASSUME IInv, Serial, NEW w \in Workers, SyncCommit(w)
    PROVE  Rest'
<1>1. UNCHANGED <<mails, mailbox>> /\ lastUid < 0 /\ lastUid' = worker[w].top
  BY DEF SyncCommit, IInv, PollAbove
<1>2. /\ past'.copies = past.copies /\ past'.skipped = past.skipped /\ past'.forgot = past.forgot
      /\ past'.start = IF past.start = Absent THEN worker[w].top ELSE past.start
  BY UidFacts DEF SyncCommit, IInv, Past
<1>3. lastUid' \in Nat
  BY <1>1, UidFacts DEF IInv
<1>4. \A u \in Uids : past.copies[u] = 0
  BY <1>1, UidFacts DEF IInv, Counted, Uids
<1>5. Counted'
  BY <1>2, <1>4 DEF Counted
<1>6. PollAbove' /\ PollComplete'
  BY AllIdle DEF SyncCommit, PollAbove, PollComplete
<1>7. SyncedOnce'
  BY <1>3 DEF SyncedOnce
<1>8. MailLostOnlyIfForgotten'
  <2>1. CASE past.start = Absent
    BY <1>1, <1>2, <1>3, <2>1, UidFacts DEF MailLostOnlyIfForgotten, Due, Uids, IInv
  <2>2. CASE past.start # Absent
    BY <1>1, <1>2, <2>2 DEF MailLostOnlyIfForgotten, IInv, SyncedOnce
  <2> QED
    BY <2>1, <2>2
<1> QED
  BY <1>5, <1>6, <1>7, <1>8 DEF Rest

LEMMA FetchKeeps ==
    ASSUME IInv, Serial, NEW w \in Workers, Fetch(w)
    PROVE  Rest'
<1>1. PICK lost \in SUBSET {u \in mailbox : u > worker[w].base} :
         LET got == {u \in mailbox : u > worker[w].base} \ lost
         IN /\ worker' = [worker EXCEPT ![w].at = "mails", ![w].todo = got,
                                        ![w].top = worker[w].base]
            /\ past' = [past EXCEPT !.skipped =
                          @ \cup {u \in lost : \E v \in got : v > u}]
  BY DEF Fetch
<1> DEFINE got == {u \in mailbox : u > worker[w].base} \ lost
<1>2. UNCHANGED <<mails, mailbox, lastUid>> /\ worker[w].at = "fetch" /\ worker[w].base = lastUid
  BY DEF Fetch, IInv, PollAbove
<1>3. worker[w].base \in Nat
  BY <1>2, UidFacts DEF IInv, TypeOK
<1>4. /\ worker'[w].at = "mails" /\ worker'[w].todo = got
      /\ worker'[w].top = worker[w].base /\ worker'[w].base = worker[w].base
      /\ worker'[w].filed = worker[w].filed
  BY <1>1, ZenonT(60) DEF IInv, TypeOK, Worker
<1>5. past'.copies = past.copies /\ past'.start = past.start /\ past'.forgot = past.forgot
      /\ past'.skipped = past.skipped \cup {u \in lost : \E v \in got : v > u}
  BY <1>1, UidFacts DEF IInv, Past
<1>6. \A v \in Workers : v = w
  BY DEF Serial
<1>7. Counted' /\ SyncedOnce' /\ MailLostOnlyIfForgotten'
  BY <1>2, <1>5 DEF IInv, Counted, SyncedOnce, MailLostOnlyIfForgotten, Due
<1>8. \A u \in Uids : worker[w].filed[u] = None
  BY <1>2 DEF IInv, PollAbove
<1>9. PollAbove'
  BY <1>2, <1>3, <1>4, <1>6, <1>8 DEF PollAbove
<1>10. PollComplete'
  <2> SUFFICES ASSUME NEW u \in mailbox, worker[w].base < u
               PROVE  \/ u \in got \/ u \in past'.skipped
                      \/ \A v \in got : v < u
    BY <1>2, <1>3, <1>4, <1>6, UidFacts DEF PollComplete, IInv, Uids
  <2>1. CASE u \in lost /\ \E v \in got : v > u
    BY <1>5, <2>1
  <2>2. CASE u \in lost /\ ~\E v \in got : v > u
    BY <2>2, UidFacts DEF IInv, Uids
  <2>3. CASE u \notin lost
    BY <2>3
  <2> QED
    BY <2>1, <2>2, <2>3
<1> QED
  BY <1>7, <1>9, <1>10 DEF Rest

LEMMA FileMailKeeps ==
    ASSUME IInv, Serial, NEW w \in Workers, FileMail(w)
    PROVE  Rest'
<1>1. UNCHANGED <<mails, mailbox, lastUid, past>> /\ worker[w].at = "mails"
  BY DEF FileMail
<1>2. PICK u \in worker[w].todo :
         /\ \A v \in worker[w].todo : u <= v
         /\ LET next == [worker[w] EXCEPT !.todo = @ \ {u}, !.top = u]
            IN IF mails[u].topic = None
               THEN worker' = [worker EXCEPT ![w] = next]
               ELSE \E t \in IF Matching(w, u) # {} THEN Matching(w, u)
                             ELSE {n \in Tickets : Free(n)} :
                      worker' = [worker EXCEPT ![w] = [next EXCEPT !.filed[u] = t,
                         !.rows[t] = IF @.status # "unborn" THEN @
                                     ELSE IF Exists(t) THEN ticket[t]
                                     ELSE NewTicket(mails[u].topic)]]
  BY DEF FileMail
<1> DEFINE next == [worker[w] EXCEPT !.todo = @ \ {u}, !.top = u]
<1>3. /\ next.at = "mails" /\ next.base = worker[w].base /\ next.top = u
      /\ next.todo = worker[w].todo \ {u} /\ next.filed = worker[w].filed
      /\ worker[w].filed \in [Uids -> Tickets \cup {None}]
  BY <1>1, RowsType DEF IInv, Worker
<1>4. u \in Uids /\ u \in Int /\ worker[w].todo \subseteq Uids /\ worker[w].top < u
  BY <1>1, UidFacts DEF IInv, Uids, PollAbove
<1> HIDE DEF next
<1>5. PICK r : /\ worker' = [worker EXCEPT ![w] = r]
               /\ r.at = "mails" /\ r.base = worker[w].base /\ r.top = u
               /\ r.todo = worker[w].todo \ {u}
               /\ mails[u].topic # None => r.filed[u] # None
               /\ \A v \in Uids \ {u} : r.filed[v] = worker[w].filed[v]
               /\ r.filed[u] # None \/ r.filed[u] = worker[w].filed[u]
  <2>1. CASE mails[u].topic = None
    BY <1>2, <1>3, <2>1 DEF next
  <2>2. CASE mails[u].topic # None
    <3>1. PICK t \in IF Matching(w, u) # {} THEN Matching(w, u)
                     ELSE {n \in Tickets : Free(n)} :
              worker' = [worker EXCEPT ![w] = [next EXCEPT !.filed[u] = t,
                 !.rows[t] = IF @.status # "unborn" THEN @
                             ELSE IF Exists(t) THEN ticket[t]
                             ELSE NewTicket(mails[u].topic)]]
      BY <1>2, <2>2 DEF next
    <3>2. t \in Tickets
      BY <3>1 DEF Matching, Threaded, SameTopic
    <3>3. t # None
      BY <3>2, TicketAssumption
    <3> DEFINE r == [next EXCEPT !.filed[u] = t,
                 !.rows[t] = IF @.status # "unborn" THEN @
                             ELSE IF Exists(t) THEN ticket[t]
                             ELSE NewTicket(mails[u].topic)]
    <3>4. /\ r.at = next.at /\ r.base = next.base /\ r.top = next.top /\ r.todo = next.todo
          /\ r.filed = [next.filed EXCEPT ![u] = t]
      BY <1>3, RowsType DEF IInv, Worker, next
    <3> HIDE DEF r
    <3>5. r.filed[u] = t /\ \A v \in Uids \ {u} : r.filed[v] = worker[w].filed[v]
      BY <1>3, <1>4, <3>4
    <3>6. worker' = [worker EXCEPT ![w] = r]
      BY <3>1 DEF r
    <3>7. /\ r.at = "mails" /\ r.base = worker[w].base /\ r.top = u
          /\ r.todo = worker[w].todo \ {u}
      BY <1>3, <3>4
    <3>8. r.filed[u] # None
      BY <3>3, <3>5
    <3> QED
      BY <3>5, <3>6, <3>7, <3>8
  <2> QED
    BY <2>1, <2>2
<1>6. \A v \in Workers : v = w /\ worker'[v] = r
  BY <1>5 DEF Serial, IInv, TypeOK
<1>7. Counted' /\ SyncedOnce' /\ MailLostOnlyIfForgotten'
  BY <1>1 DEF IInv, Counted, SyncedOnce, MailLostOnlyIfForgotten, Due
<1>8. PollAbove'
  <2>1. /\ worker[w].base = lastUid /\ lastUid >= 0 /\ worker[w].base <= worker[w].top
        /\ \A v \in Uids : worker[w].filed[v] # None => worker[w].base < v /\ v <= worker[w].top
    BY <1>1 DEF IInv, PollAbove
  <2>2. worker[w].base \in Int /\ worker[w].top \in Int /\ worker[w].base < u
    BY <1>4, <2>1, UidFacts DEF IInv
  <2>3. \A v \in r.todo : u < v
    <3> SUFFICES ASSUME NEW v \in worker[w].todo, v # u PROVE u < v
      BY <1>5
    <3>1. u <= v /\ v \in Uids
      BY <1>2, <1>4
    <3> QED
      BY <1>4, <3>1 DEF Uids
  <2>4. \A v \in Uids : r.filed[v] # None => r.base < v /\ v <= r.top
    <3> SUFFICES ASSUME NEW v \in Uids, r.filed[v] # None PROVE r.base < v /\ v <= u
      BY <1>5
    <3>1. CASE v = u
      BY <3>1, <1>5, <2>2, <1>4
    <3>2. CASE v # u
      BY <3>2, <1>4, <1>5, <2>1, <2>2 DEF Uids
    <3> QED
      BY <3>1, <3>2
  <2> QED
    BY <1>1, <1>4, <1>5, <1>6, <2>1, <2>2, <2>3, <2>4 DEF PollAbove
<1>9. PollComplete'
  <2> SUFFICES ASSUME NEW m \in mailbox, r.base < m
               PROVE  IF m <= u
                      THEN mails[m].topic = None \/ m \in past.skipped \/ r.filed[m] # None
                      ELSE m \in r.todo \/ m \in past.skipped \/ \A v \in r.todo : v < m
    BY <1>1, <1>5, <1>6 DEF PollComplete
  <2>1. m \in Uids /\ m \in Int /\ worker[w].top \in Int /\ worker[w].base < m
    BY <1>5, UidFacts DEF IInv, Uids
  <2>2. IF m <= worker[w].top
        THEN mails[m].topic = None \/ m \in past.skipped \/ worker[w].filed[m] # None
        ELSE m \in worker[w].todo \/ m \in past.skipped \/ \A v \in worker[w].todo : v < m
    BY <1>1, <2>1 DEF IInv, PollComplete
  <2>3. CASE m <= worker[w].top
    <3>1. m <= u /\ m # u
      BY <1>4, <2>1, <2>3
    <3>2. r.filed[m] = worker[w].filed[m]
      BY <1>5, <2>1, <3>1
    <3> QED
      BY <2>2, <2>3, <3>1, <3>2
  <2>4. CASE ~(m <= worker[w].top) /\ m < u
    <3>1. m \notin worker[w].todo
      <4>1. ~(u <= m)
        BY <1>4, <2>1, <2>4
      <4> QED
        BY <1>2, <4>1, Zenon
    <3>2. ~\A v \in worker[w].todo : v < m
      BY <1>4, <2>1, <2>4
    <3>3. m <= u
      BY <1>4, <2>1, <2>4
    <3> QED
      BY <2>2, <2>4, <3>1, <3>2, <3>3
  <2>5. CASE m = u
    BY <1>4, <1>5, <2>5
  <2>6. CASE u < m
    <3>1. ~(m <= worker[w].top) /\ ~(m <= u) /\ m # u
      BY <1>4, <2>1, <2>6
    <3> QED
      BY <1>5, <2>2, <3>1
  <2> QED
    BY <1>4, <2>1, <2>3, <2>4, <2>5, <2>6
<1> QED
  BY <1>7, <1>8, <1>9 DEF Rest

LEMMA PollCommitKeeps ==
    ASSUME IInv, Serial, NEW w \in Workers, PollCommit(w)
    PROVE  Rest'
<1> DEFINE new == IF worker[w].top = 0 THEN Null ELSE worker[w].top
<1>1. /\ UNCHANGED <<mails, mailbox>> /\ worker[w].at = "mails" /\ worker[w].todo = {}
      /\ lastUid' = Written(worker[w].base, new) /\ End(w)
  BY DEF PollCommit
<1>2. /\ worker[w].base = lastUid /\ lastUid >= 0 /\ lastUid <= worker[w].top
      /\ \A u \in Uids : worker[w].filed[u] # None => lastUid < u /\ u <= worker[w].top
  BY <1>1 DEF IInv, PollAbove
<1>3. lastUid \in Nat /\ worker[w].top \in Nat
  BY <1>2, UidFacts DEF IInv
<1>4. /\ past'.start = past.start /\ past'.skipped = past.skipped
      /\ \A u \in Uids : past'.copies[u] = IF worker[w].filed[u] # None
                                           THEN past.copies[u] + 1 ELSE past.copies[u]
      /\ past'.forgot = (past.forgot \/ lastUid' = Null)
  <2>1. past \in Past
    BY UidFacts DEF IInv
  <2> QED
    BY <2>1 DEF PollCommit, Past
<1>5. \/ worker[w].top > 0 /\ lastUid' = worker[w].top
      \/ worker[w].top = 0 /\ lastUid = 0 /\ lastUid' = Null
  BY <1>1, <1>2, <1>3 DEF Written, Null
<1>6. lastUid' \in Int
  BY <1>3, <1>5 DEF Null
<1>7. Counted'
  <2> SUFFICES ASSUME NEW u \in Uids
               PROVE  /\ past'.copies[u] <= 1
                      /\ past'.copies[u] > 0 => u <= lastUid'
    BY DEF Counted
  <2>1. /\ u \in Nat /\ u > 0 /\ past.copies[u] \in Nat /\ past.copies[u] <= 1
        /\ past.copies[u] > 0 => u <= lastUid
    BY UidFacts DEF IInv, Counted, Uids
  <2>2. CASE worker[w].filed[u] # None
    <3>1. past.copies[u] = 0 /\ u <= worker[w].top /\ worker[w].top > 0
      BY <1>2, <1>3, <2>1, <2>2
    <3> QED
      BY <1>4, <1>5, <2>2, <3>1
  <2>3. CASE worker[w].filed[u] = None
    BY <1>2, <1>3, <1>4, <1>5, <2>1, <2>3
  <2> QED
    BY <2>2, <2>3
<1>8. PollAbove' /\ PollComplete'
  BY <1>1, AllIdle DEF PollAbove, PollComplete
<1>9. SyncedOnce'
  <2> SUFFICES ASSUME lastUid' < 0 PROVE past'.forgot
    BY DEF SyncedOnce
  <2>1. lastUid' = Null
    BY <1>3, <1>5
  <2> QED
    BY <1>4, <2>1, Zenon
<1>10. MailLostOnlyIfForgotten'
  <2> SUFFICES ASSUME NEW u \in Uids, Due(u)', ~past'.forgot
               PROVE  past'.copies[u] > 0 \/ u \in past.skipped
    BY <1>4 DEF MailLostOnlyIfForgotten
  <2>1. /\ u \in mailbox /\ mails[u].topic # None /\ u <= worker[w].top
        /\ past.start # Absent /\ past.start < u /\ ~past.forgot
    BY <1>1, <1>4, <1>5 DEF Due
  <2>2. u \in Nat /\ past.copies[u] \in Nat
    BY UidFacts DEF IInv, Uids
  <2>3. CASE u <= lastUid
    <3>1. past.copies[u] > 0 \/ u \in past.skipped
      BY <2>1, <2>3 DEF IInv, MailLostOnlyIfForgotten, Due
    <3> QED
      BY <1>4, <2>2, <3>1
  <2>4. CASE lastUid < u
    <3>1. u \in past.skipped \/ worker[w].filed[u] # None
      BY <1>1, <1>2, <2>1, <2>4 DEF IInv, PollComplete
    <3> QED
      BY <1>4, <2>2, <3>1
  <2> QED
    BY <1>3, <2>2, <2>3, <2>4
<1> QED
  BY <1>7, <1>8, <1>9, <1>10 DEF Rest

LEMMA MailArrivesKeeps ==
    ASSUME IInv, MailArrives
    PROVE  Rest'
<1>1. PICK m : mails' = Append(mails, m)
  BY DEF MailArrives
<1>2. /\ UNCHANGED <<lastUid, worker, past>>
      /\ mails \in Seq(Mail) /\ Len(mails) \in Nat /\ Len(mails') = Len(mails) + 1
      /\ \A u \in 1..Len(mails) : mails'[u] = mails[u]
      /\ mailbox' = mailbox \cup {Len(mails) + 1} /\ mailbox \subseteq 1..Len(mails)
  BY <1>1 DEF MailArrives, IInv, TypeOK
<1>3. \A w \in Workers : /\ worker[w].top <= Len(mails) /\ worker[w].base <= Len(mails)
                         /\ worker[w].todo \subseteq 1..Len(mails)
                         /\ worker[w].top \in Int
  BY UidFacts DEF IInv, TypeOK
<1>4. lastUid \in Int /\ lastUid <= Len(mails)
  BY <1>2 DEF IInv, TypeOK, Absent, Null
<1>5. Counted' /\ PollAbove' /\ SyncedOnce'
  BY <1>2 DEF IInv, Counted, PollAbove, SyncedOnce
<1>6. PollComplete'
  <2> SUFFICES ASSUME NEW w \in Workers, worker[w].at = "mails", NEW u \in mailbox',
                      worker[w].base < u
               PROVE  IF u <= worker[w].top
                      THEN mails'[u].topic = None \/ u \in past.skipped \/ worker[w].filed[u] # None
                      ELSE u \in worker[w].todo \/ u \in past.skipped
                             \/ \A v \in worker[w].todo : v < u
    BY <1>2 DEF PollComplete
  <2>1. CASE u \in mailbox
    <3>1. mails'[u] = mails[u]
      BY <1>2, <2>1
    <3> QED
      BY <2>1, <3>1 DEF IInv, PollComplete
  <2>2. CASE u = Len(mails) + 1
    <3>1. ~(u <= worker[w].top)
      BY <1>2, <1>3, <2>2
    <3>2. \A v \in worker[w].todo : v < u
      BY <1>2, <1>3, <2>2
    <3> QED
      BY <3>1, <3>2
  <2> QED
    BY <1>2, <2>1, <2>2
<1>7. MailLostOnlyIfForgotten'
  <2> SUFFICES ASSUME NEW u \in Uids, Due(u)'
               PROVE  past.copies[u] > 0 \/ u \in past.skipped \/ past.forgot
    BY <1>2 DEF MailLostOnlyIfForgotten
  <2>1. /\ u \in mailbox' /\ u <= lastUid /\ mails'[u].topic # None
        /\ past.start # Absent /\ past.start < u
    BY <1>2 DEF Due
  <2>2. u \in mailbox
    BY <1>2, <1>4, <2>1 DEF Uids
  <2>3. Due(u)
    BY <1>2, <2>1, <2>2 DEF Due
  <2> QED
    BY <2>3 DEF IInv, MailLostOnlyIfForgotten
<1> QED
  BY <1>5, <1>6, <1>7 DEF Rest

LEMMA HandsQuiet ==
    ASSUME IInv, NEW w \in Workers,
           HandsLoad(w) \/ StatusUpdate(w) \/ Assign(w) \/ DueLoad(w) \/ DueCommit(w)
             \/ ReplySend(w) \/ ReplyCommit(w) \/ Rollback(w) \/ ImapFails(w)
    PROVE  Rest'
<1>1. past \in Past /\ worker \in [Workers -> Worker]
  BY DEF IInv, TypeOK
<1>2. ASSUME NEW at \in {"hands", "due", "reply"}, NEW T, Load(w, at, T)
      PROVE  \A v \in Workers : worker'[v] = worker[v] \/ worker'[v].at \notin Polling
  <2>1. worker'[w].at = at
    BY <1>1, <1>2 DEF Load, Idle
  <2> QED
    BY <1>1, <1>2, <2>1 DEF Load, Polling
<1>3. ASSUME End(w)
      PROVE  \A v \in Workers : worker'[v] = worker[v] \/ worker'[v].at \notin Polling
  BY <1>1, <1>3 DEF End, Idle, Polling
<1>4. CASE HandsLoad(w)
  BY <1>2, <1>4, QuietStep DEF HandsLoad
<1>5. CASE DueLoad(w)
  BY <1>2, <1>5, QuietStep DEF DueLoad
<1>6. CASE ReplySend(w)
  BY <1>2, <1>6, QuietStep DEF ReplySend
<1>7. ASSUME NEW new, HandsCommit(w, new)
      PROVE  Rest'
  <2>1. /\ past'.copies = past.copies /\ past'.skipped = past.skipped
        /\ past'.start = past.start /\ past'.forgot = past.forgot
    BY <1>1, <1>7 DEF HandsCommit, Past
  <2>2. UNCHANGED <<mails, mailbox, lastUid>> /\ End(w)
    BY <1>7 DEF HandsCommit
  <2> QED
    BY <1>3, <2>1, <2>2, QuietStep
<1>8. CASE StatusUpdate(w) \/ Assign(w)
  BY <1>7, <1>8 DEF StatusUpdate, Assign
<1>9. CASE DueCommit(w)
  BY <1>3, <1>9, QuietStep DEF DueCommit
<1>10. CASE ReplyCommit(w)
  BY <1>3, <1>10, QuietStep DEF ReplyCommit
<1>11. CASE Rollback(w) \/ ImapFails(w)
  BY <1>3, <1>11, QuietStep DEF Rollback, ImapFails
<1> QED
  BY <1>4, <1>5, <1>6, <1>8, <1>9, <1>10, <1>11

LEMMA NextKeeps == IInv /\ Serial /\ [Next]_vars => Rest'
<1> SUFFICES ASSUME IInv, Serial, [Next]_vars PROVE Rest'
  OBVIOUS
<1>1. CASE UNCHANGED vars
  BY <1>1, QuietStep DEF vars
<1>2. CASE TicketCreate \/ MailRemoved \/ NextDay
  BY <1>2, QuietStep DEF TicketCreate, MailRemoved, NextDay
<1>3. CASE Restart
  <2>1. \A v \in Workers : worker'[v].at \notin Polling
    BY <1>3 DEF Restart, Idle, Polling
  <2> QED
    BY <1>3, <2>1, QuietStep DEF Restart
<1>4. CASE Next
  BY <1>2, <1>3, <1>4, PollStartKeeps, SyncKeeps, SyncCommitKeeps, FetchKeeps, FileMailKeeps,
     PollCommitKeeps, MailArrivesKeeps, HandsQuiet DEF Next
<1> QED
  BY <1>1, <1>4

LEMMA InitIInv == Init => IInv
<1> SUFFICES ASSUME Init PROVE IInv
  OBVIOUS
<1>1. TypeOK
  BY InitTypes
<1>2. Counted /\ SyncedOnce
  BY DEF Init, Counted, SyncedOnce
<1>3. PollAbove /\ PollComplete
  BY DEF Init, PollAbove, PollComplete, Idle
<1>4. MailLostOnlyIfForgotten
  BY DEF Init, MailLostOnlyIfForgotten, Due
<1> QED
  BY <1>1, <1>2, <1>3, <1>4 DEF IInv

LEMMA SerialIInv == ASSUME Serial PROVE Spec => []IInv
<1>1. IInv /\ [Next]_vars => IInv'
  BY NextTypes, NextKeeps DEF IInv, Rest
<1> QED
  BY InitIInv, <1>1, PTL DEF Spec

\* With one poll or request at a time no mail is filed twice, whatever fails.
THEOREM FiledOnce == ASSUME Serial PROVE Spec => []MailFiledOnce
<1>1. IInv => MailFiledOnce
  BY DEF IInv, Counted, MailFiledOnce
<1> QED
  BY <1>1, SerialIInv, PTL

\* With one poll or request at a time a new mail is only lost when its own FETCH
\* failed or the UID 0 of an empty inbox had been replaced by NULL.
THEOREM LostOnlyIfForgotten == ASSUME Serial PROVE Spec => []MailLostOnlyIfForgotten
<1>1. IInv => MailLostOnlyIfForgotten
  BY DEF IInv
<1> QED
  BY <1>1, SerialIInv, PTL

-----------------------------------------------------------------------------
\* What a session loaded is what the database holds; rows it is about to insert
\* are those of new tickets.
RowsCurrent ==
    \A w \in Workers, t \in Tickets : worker[w].rows[t].status # "unborn" =>
        IF Exists(t) THEN worker[w].rows[t] = ticket[t]
        ELSE worker[w].at = "mails" /\ worker[w].rows[t].status = "ACTIVE"

TicketInv == TypeOK /\ RowsCurrent /\ RepliesSurface /\ PostponedComesBack

LEMMA MergeCurrent ==
    ASSUME NEW row \in Ticket, NEW new \in Ticket
    PROVE  Merge(row, row, new) = new
BY DEF Merge, Ticket

\* A commit leaves a session without rows.
LEMMA NoRowsLeft ==
    ASSUME TypeOK, Serial, NEW w \in Workers, End(w)
    PROVE  \A v \in Workers, t \in Tickets : worker'[v].rows[t].status = "unborn"
BY DEF Serial, End, TypeOK, Idle, Unborn

\* Steps that write no ticket, after which a session holds no row that it did not
\* hold before or that is not the one of the database.
LEMMA TicketsUntouched ==
    ASSUME TicketInv, UNCHANGED ticket, past'.fresh = past.fresh,
           \A v \in Workers, t \in Tickets :
              \/ worker'[v].rows[t].status = "unborn"
              \/ /\ worker'[v].rows[t] = worker[v].rows[t]
                 /\ worker[v].at = "mails" => worker'[v].at = "mails"
              \/ worker'[v].rows[t] = ticket[t]
              \/ /\ ~Exists(t) /\ worker'[v].at = "mails"
                 /\ worker'[v].rows[t].status = "ACTIVE"
    PROVE  RowsCurrent' /\ RepliesSurface' /\ PostponedComesBack'
<1>1. RepliesSurface' /\ PostponedComesBack'
  BY DEF TicketInv, RepliesSurface, PostponedComesBack
<1>2. ASSUME NEW v \in Workers, NEW t \in Tickets, worker'[v].rows[t].status # "unborn"
      PROVE  IF Exists(t) THEN worker'[v].rows[t] = ticket[t]
             ELSE worker'[v].at = "mails" /\ worker'[v].rows[t].status = "ACTIVE"
  BY <1>2 DEF TicketInv, RowsCurrent, Exists
<1> QED
  BY <1>1, <1>2 DEF RowsCurrent, Exists

LEMMA LoadsAreCurrent ==
    ASSUME TicketInv, NEW w \in Workers, NEW at, NEW T, Load(w, at, T),
           UNCHANGED <<ticket, past>>
    PROVE  RowsCurrent' /\ RepliesSurface' /\ PostponedComesBack'
<1>1. \A v \in Workers, t \in Tickets :
         \/ worker'[v].rows[t].status = "unborn"
         \/ worker'[v] = worker[v]
         \/ worker'[v].rows[t] = ticket[t]
  BY DEF Load, TicketInv, TypeOK, Idle, Unborn
<1> QED
  BY <1>1, TicketsUntouched

\* Filing a mail looks at one more ticket at most.
LEMMA FilingIsCurrent ==
    ASSUME TicketInv, NEW w \in Workers, FileMail(w)
    PROVE  RowsCurrent' /\ RepliesSurface' /\ PostponedComesBack'
<1>1. worker[w] \in Worker /\ worker \in [Workers -> Worker] /\ worker[w].at = "mails"
      /\ UNCHANGED <<ticket, past>>
  BY DEF TicketInv, TypeOK, FileMail
<1>2. PICK u \in worker[w].todo :
         LET next == [worker[w] EXCEPT !.todo = @ \ {u}, !.top = u]
         IN IF mails[u].topic = None
            THEN worker' = [worker EXCEPT ![w] = next]
            ELSE \E t \in IF Matching(w, u) # {} THEN Matching(w, u)
                          ELSE {n \in Tickets : Free(n)} :
                   worker' = [worker EXCEPT ![w] = [next EXCEPT !.filed[u] = t,
                      !.rows[t] = IF @.status # "unborn" THEN @
                                  ELSE IF Exists(t) THEN ticket[t]
                                  ELSE NewTicket(mails[u].topic)]]
  BY DEF FileMail
<1> DEFINE next == [worker[w] EXCEPT !.todo = @ \ {u}, !.top = u]
<1>3. next.at = "mails" /\ next.rows = worker[w].rows /\ next.rows \in [Tickets -> Ticket]
  BY <1>1 DEF Worker
<1>4. CASE mails[u].topic = None
  <2>1. worker'[w].rows = worker[w].rows /\ worker'[w].at = "mails"
        /\ \A v \in Workers \ {w} : worker'[v] = worker[v]
    BY <1>1, <1>2, <1>3, <1>4
  <2> QED
    BY <1>1, <2>1, TicketsUntouched
<1>5. CASE mails[u].topic # None
  <2>1. PICK t : worker' = [worker EXCEPT ![w] = [next EXCEPT !.filed[u] = t,
                      !.rows[t] = IF @.status # "unborn" THEN @
                                  ELSE IF Exists(t) THEN ticket[t]
                                  ELSE NewTicket(mails[u].topic)]]
    BY <1>2, <1>5
  <2> DEFINE row == IF next.rows[t].status # "unborn" THEN next.rows[t]
                    ELSE IF Exists(t) THEN ticket[t] ELSE NewTicket(mails[u].topic)
  <2>2. worker'[w].at = "mails"
        /\ worker'[w].rows = [next.rows EXCEPT ![t] = row]
        /\ \A v \in Workers \ {w} : worker'[v] = worker[v]
    BY <1>1, <1>3, <2>1 DEF Worker
  <2> HIDE DEF next
  <2>3. NewTicket(mails[u].topic).status = "ACTIVE"
    BY DEF NewTicket, Unborn
  <2>4. \A s \in Tickets :
           \/ worker'[w].rows[s] = worker[w].rows[s]
           \/ worker'[w].rows[s] = ticket[s]
           \/ ~Exists(s) /\ worker'[w].rows[s].status = "ACTIVE"
    BY <1>3, <2>2, <2>3
  <2> QED
    BY <1>1, <2>2, <2>4, TicketsUntouched
<1> QED
  BY <1>4, <1>5

LEMMA PollSurfaces ==
    ASSUME TicketInv, Serial, NEW w \in Workers, PollCommit(w)
    PROVE  RowsCurrent' /\ RepliesSurface' /\ PostponedComesBack'
<1>1. End(w) /\ past'.fresh = past.fresh \cup Loaded(w)
  BY DEF PollCommit, TicketInv, TypeOK, Past
<1>2. RowsCurrent'
  BY <1>1, NoRowsLeft DEF TicketInv, RowsCurrent
<1>3. ASSUME NEW t \in Loaded(w), Exists(t)
      PROVE  ticket'[t] = Reopened(ticket[t]) /\ ticket[t] \in Ticket
  <2>1. t \in Tickets /\ worker[w].rows[t] = ticket[t] /\ ticket[t] \in Ticket
    BY <1>3 DEF Loaded, TicketInv, RowsCurrent, TypeOK
  <2>2. Reopened(ticket[t]) \in Ticket
    BY <2>1, ReopenedType
  <2>3. ticket'[t] = Merge(ticket[t], worker[w].rows[t], Reopened(worker[w].rows[t]))
    BY <1>3, <2>1 DEF PollCommit
  <2> QED
    BY <2>1, <2>2, <2>3, MergeCurrent
<1>4. ASSUME NEW t \in Loaded(w), ~Exists(t) PROVE ticket'[t].status = "ACTIVE"
  <2>1. t \in Tickets /\ worker[w].rows[t].status = "ACTIVE"
    BY <1>4 DEF Loaded, TicketInv, RowsCurrent
  <2> QED
    BY <1>4, <2>1 DEF PollCommit
<1>5. \A t \in Tickets \ Loaded(w) : ticket'[t] = ticket[t]
  BY DEF PollCommit
<1>6. ASSUME NEW t \in Loaded(w), Exists(t)
      PROVE  ticket'[t].status \in {"ACTIVE", "ASSIGNED", "DELETED"}
  <2>1. ticket[t].status \in Status
    BY <1>3, <1>6 DEF Exists, Ticket
  <2>2. CASE ticket[t].status \in {"CLOSED", "POSTPONED", "WAITING"}
    <3>1. Reopened(ticket[t]).status = Open(ticket[t])
      BY <1>3, <1>6, <2>2 DEF Reopened, Ticket
    <3> QED
      BY <1>3, <1>6, <3>1, OpenType
  <2>3. CASE ticket[t].status \notin {"CLOSED", "POSTPONED", "WAITING"}
    BY <1>3, <1>6, <2>1, <2>3 DEF Reopened, Status
  <2> QED
    BY <2>2, <2>3
<1>7. RepliesSurface'
  <2>1. ASSUME NEW t \in past'.fresh
        PROVE  ticket'[t].status \in {"ACTIVE", "ASSIGNED", "DELETED"}
    <3>1. CASE t \in Loaded(w)
      BY <1>4, <1>6, <3>1
    <3>2. CASE t \notin Loaded(w)
      <4>1. t \in past.fresh /\ t \in Tickets
        BY <1>1, <2>1, <3>2 DEF TicketInv, TypeOK, Past
      <4> QED
        BY <1>5, <3>2, <4>1 DEF TicketInv, RepliesSurface
    <3> QED
      BY <3>1, <3>2
  <2> QED
    BY <2>1 DEF RepliesSurface
<1>8. PostponedComesBack'
  BY <1>4, <1>5, <1>6 DEF TicketInv, PostponedComesBack, Loaded
<1> QED
  BY <1>2, <1>7, <1>8

\* Where a hand writes new over the rows it loaded, the tickets become new.
LEMMA HandsSurface ==
    ASSUME TicketInv, Serial, NEW w \in Workers, NEW new \in [Tickets -> Ticket],
           HandsCommit(w, new),
           \A t \in Tickets : new[t].status = "POSTPONED" => new[t].until # None
    PROVE  RowsCurrent' /\ RepliesSurface' /\ PostponedComesBack'
<1>1. End(w) /\ worker[w].at = "hands" /\ past'.fresh = past.fresh \ Loaded(w)
  BY DEF HandsCommit, TicketInv, TypeOK, Past
<1>2. RowsCurrent'
  BY <1>1, NoRowsLeft DEF TicketInv, RowsCurrent
<1>3. ASSUME NEW t \in Loaded(w)
      PROVE  ticket'[t].status = new[t].status /\ ticket'[t].until = new[t].until
  <2>1. t \in Tickets /\ worker[w].rows[t] = ticket[t] /\ ticket[t] \in Ticket
    BY <1>1, <1>3 DEF Loaded, TicketInv, RowsCurrent, TypeOK
  <2>2. ticket'[t] = [Merge(ticket[t], worker[w].rows[t], new[t])
                        EXCEPT !.closed = @ \/ new[t].status = "CLOSED"]
    BY <1>3, <2>1 DEF HandsCommit
  <2>3. ticket'[t] = [new[t] EXCEPT !.closed = @ \/ new[t].status = "CLOSED"]
    BY <2>1, <2>2, MergeCurrent
  <2> QED
    BY <2>1, <2>3 DEF Ticket
<1>4. \A t \in Tickets \ Loaded(w) : ticket'[t] = ticket[t]
  BY DEF HandsCommit
<1>5. RepliesSurface'
  BY <1>1, <1>4 DEF TicketInv, RepliesSurface, TypeOK, Past
<1>6. PostponedComesBack'
  BY <1>3, <1>4 DEF TicketInv, PostponedComesBack
<1> QED
  BY <1>2, <1>5, <1>6

LEMMA HandsChange ==
    ASSUME TicketInv, Serial, NEW w \in Workers, StatusUpdate(w) \/ Assign(w)
    PROVE  RowsCurrent' /\ RepliesSurface' /\ PostponedComesBack'
<1>1. worker[w].rows \in [Tickets -> Ticket]
  BY RowsType DEF TicketInv
<1>2. CASE StatusUpdate(w)
  <2>1. PICK status \in Status, until \in 1..LastDay :
           HandsCommit(w, [t \in Tickets |-> WithStatus(worker[w].rows[t], status, until)])
    BY <1>2 DEF StatusUpdate
  <2> DEFINE new == [t \in Tickets |-> WithStatus(worker[w].rows[t], status, until)]
  <2>4. status \in Status /\ until \in (1..LastDay) \cup {None} /\ until # None
    BY TicketAssumption
  <2>5. ASSUME NEW t \in Tickets
        PROVE  /\ WithStatus(worker[w].rows[t], status, until) \in Ticket
               /\ WithStatus(worker[w].rows[t], status, until).status = "POSTPONED"
                    => WithStatus(worker[w].rows[t], status, until).until # None
    <3> DEFINE row == worker[w].rows[t]
    <3>1. row \in Ticket
      BY <1>1
    <3> HIDE DEF row
    <3>2. WithStatus(row, status, until) \in Ticket
      BY <2>4, <3>1 DEF WithStatus, Ticket
    <3>3. WithStatus(row, status, until).status = "POSTPONED"
            => WithStatus(row, status, until).until = until
      BY <3>1 DEF WithStatus, Ticket
    <3> QED
      BY <2>4, <3>2, <3>3 DEF row
  <2>2. \A t \in Tickets :
           /\ new[t] \in Ticket
           /\ new[t].status = "POSTPONED" => new[t].until # None
    BY <2>5
  <2>3. new \in [Tickets -> Ticket] /\ HandsCommit(w, new)
    BY <2>1, <2>2
  <2> HIDE DEF new
  <2> QED
    BY <2>2, <2>3, HandsSurface
<1>3. CASE Assign(w)
  <2>1. PICK user \in Users \cup {None} :
           HandsCommit(w, [t \in Tickets |-> WithAssignee(worker[w].rows[t], user)])
    BY <1>3 DEF Assign
  <2> DEFINE new == [t \in Tickets |-> WithAssignee(worker[w].rows[t], user)]
  <2>2. \A t \in Tickets : new[t] \in Ticket /\ new[t].status # "POSTPONED"
    BY <1>1 DEF WithAssignee, Ticket, Status
  <2>3. new \in [Tickets -> Ticket] /\ HandsCommit(w, new)
    BY <2>1, <2>2
  <2> HIDE DEF new
  <2> QED
    BY <2>2, <2>3, HandsSurface
<1> QED
  BY <1>2, <1>3

LEMMA DueSurface ==
    ASSUME TicketInv, Serial, NEW w \in Workers, DueCommit(w)
    PROVE  RowsCurrent' /\ RepliesSurface' /\ PostponedComesBack'
<1>1. End(w) /\ worker[w].at = "due" /\ past' = past
  BY DEF DueCommit
<1>2. RowsCurrent'
  BY <1>1, NoRowsLeft DEF TicketInv, RowsCurrent
<1>3. ASSUME NEW t \in Loaded(w) PROVE ticket'[t].status \in {"ACTIVE", "ASSIGNED"}
  <2>1. t \in Tickets /\ worker[w].rows[t] = ticket[t] /\ ticket[t] \in Ticket
    BY <1>1, <1>3 DEF Loaded, TicketInv, RowsCurrent, TypeOK
  <2> DEFINE new == [ticket[t] EXCEPT !.status = Open(ticket[t]), !.until = None]
  <2>2. new \in Ticket /\ new.status \in {"ACTIVE", "ASSIGNED"}
    BY <2>1, OpenType DEF Ticket, Status
  <2>3. ticket'[t] = Merge(ticket[t], ticket[t], new)
    BY <1>3, <2>1 DEF DueCommit
  <2> HIDE DEF new
  <2> QED
    BY <2>1, <2>2, <2>3, MergeCurrent
<1>4. \A t \in Tickets \ Loaded(w) : ticket'[t] = ticket[t]
  BY DEF DueCommit
<1>5. RepliesSurface' /\ PostponedComesBack'
  BY <1>1, <1>3, <1>4 DEF TicketInv, RepliesSurface, PostponedComesBack, TypeOK, Past
<1> QED
  BY <1>2, <1>5

LEMMA CreateSurfaces ==
    ASSUME TicketInv, TicketCreate
    PROVE  RowsCurrent' /\ RepliesSurface' /\ PostponedComesBack'
<1>1. PICK t \in Tickets, topic \in Topics :
         /\ Free(t)
         /\ ticket' = [ticket EXCEPT ![t] = NewTicket(topic)]
  BY DEF TicketCreate
<1>2. UNCHANGED <<worker, past>>
  BY DEF TicketCreate
<1>3. ticket'[t].status = "ACTIVE" /\ \A s \in Tickets \ {t} : ticket'[s] = ticket[s]
  BY <1>1 DEF NewTicket, Unborn, TicketInv, TypeOK
<1>4. \A w \in Workers : worker[w].rows[t].status = "unborn"
  BY <1>1 DEF Free, Claimed
<1>5. RowsCurrent'
  BY <1>2, <1>3, <1>4 DEF TicketInv, RowsCurrent, Exists
<1>6. RepliesSurface' /\ PostponedComesBack'
  BY <1>2, <1>3 DEF TicketInv, RepliesSurface, PostponedComesBack, TypeOK, Past
<1> QED
  BY <1>5, <1>6

LEMMA QuietForTickets ==
    ASSUME TicketInv, Serial, NEW w \in Workers,
           \/ PollStart(w) \/ Sync(w) \/ SyncCommit(w) \/ ImapFails(w) \/ Fetch(w)
           \/ ReplyCommit(w) \/ Rollback(w)
    PROVE  RowsCurrent' /\ RepliesSurface' /\ PostponedComesBack'
<1>1. worker \in [Workers -> Worker] /\ past \in Past
  BY DEF TicketInv, TypeOK
<1>2. CASE PollStart(w)
  <2>1. \A v \in Workers, t \in Tickets :
           worker'[v].rows[t].status = "unborn" \/ worker'[v] = worker[v]
    BY <1>1, <1>2 DEF PollStart, Idle, Unborn
  <2> QED
    BY <1>2, <2>1, TicketsUntouched DEF PollStart
<1>3. CASE Sync(w)
  <2>0. PICK top : worker' = [worker EXCEPT ![w].at = "synced", ![w].top = top]
    BY <1>3 DEF Sync
  <2>1. \A v \in Workers : worker'[v].rows = worker[v].rows
                            /\ (worker[v].at = "mails" => worker'[v].at = "mails")
    <3>1. worker[w].at = "sync"
      BY <1>3 DEF Sync
    <3>2. worker'[w].rows = worker[w].rows
      BY <1>1, <2>0 DEF Worker
    <3>3. \A v \in Workers \ {w} : worker'[v] = worker[v]
      BY <1>1, <2>0
    <3> QED
      BY <3>1, <3>2, <3>3
  <2> QED
    BY <1>3, <2>1, TicketsUntouched DEF Sync
<1>4. CASE Fetch(w)
  <2>1. PICK top, todo : worker' = [worker EXCEPT ![w].at = "mails", ![w].todo = todo, ![w].top = top]
    BY <1>4 DEF Fetch
  <2>2. \A v \in Workers : worker'[v].rows = worker[v].rows
                            /\ (worker[v].at = "mails" => worker'[v].at = "mails")
    BY <1>1, <2>1 DEF Worker
  <2>3. past'.fresh = past.fresh /\ UNCHANGED ticket
    BY <1>1, <1>4 DEF Fetch, Past
  <2> QED
    BY <2>2, <2>3, TicketsUntouched
<1>5. CASE SyncCommit(w) \/ ImapFails(w) \/ ReplyCommit(w) \/ Rollback(w)
  <2>1. End(w) /\ UNCHANGED ticket
    BY <1>5 DEF SyncCommit, ImapFails, ReplyCommit, Rollback
  <2>2. past'.fresh = past.fresh
    BY <1>1, <1>5 DEF SyncCommit, ImapFails, ReplyCommit, Rollback, Past
  <2>3. TypeOK
    BY DEF TicketInv
  <2> QED
    BY <2>1, <2>2, <2>3, NoRowsLeft, TicketsUntouched
<1> QED
  BY <1>2, <1>3, <1>4, <1>5

LEMMA TicketStep == TicketInv /\ Serial /\ [Next]_vars => TicketInv'
<1> SUFFICES ASSUME TicketInv, Serial, [Next]_vars
             PROVE  RowsCurrent' /\ RepliesSurface' /\ PostponedComesBack'
  BY NextTypes DEF TicketInv
<1>1. CASE UNCHANGED vars \/ MailArrives \/ MailRemoved \/ NextDay
  <2>1. UNCHANGED <<ticket, past, worker>>
    BY <1>1 DEF vars, MailArrives, MailRemoved, NextDay
  <2> QED
    BY <2>1, TicketsUntouched
<1>2. CASE Restart
  <2>1. \A v \in Workers, t \in Tickets : worker'[v].rows[t].status = "unborn"
    BY <1>2 DEF Restart, Idle, Unborn
  <2> QED
    BY <1>2, <2>1, TicketsUntouched DEF Restart
<1>3. ASSUME NEW w \in Workers, HandsLoad(w) \/ DueLoad(w) \/ ReplySend(w)
      PROVE  RowsCurrent' /\ RepliesSurface' /\ PostponedComesBack'
  BY <1>3, LoadsAreCurrent DEF HandsLoad, DueLoad, ReplySend
<1> QED
  BY <1>1, <1>2, <1>3, QuietForTickets, FilingIsCurrent, PollSurfaces, HandsChange, DueSurface,
     CreateSurfaces DEF Next

LEMMA SerialTicketInv == ASSUME Serial PROVE Spec => []TicketInv
<1>1. Init => TicketInv
  <2> SUFFICES ASSUME Init PROVE TicketInv
    OBVIOUS
  <2>1. RowsCurrent
    BY DEF Init, RowsCurrent, Idle, Unborn
  <2>2. RepliesSurface /\ PostponedComesBack
    BY DEF Init, RepliesSurface, PostponedComesBack, Unborn
  <2> QED
    BY <2>1, <2>2, InitTypes DEF TicketInv
<1> QED
  BY <1>1, TicketStep, PTL DEF Spec

\* With one poll or request at a time, a ticket with an answer nobody has acted
\* on is among the open ones, unless it is deleted.
THEOREM AnswersSurface == ASSUME Serial PROVE Spec => []RepliesSurface
<1>1. TicketInv => RepliesSurface
  BY DEF TicketInv
<1> QED
  BY <1>1, SerialTicketInv, PTL

\* With one poll or request at a time, a postponed ticket has its day.
THEOREM PostponedHaveADay == ASSUME Serial PROVE Spec => []PostponedComesBack
<1>1. TicketInv => PostponedComesBack
  BY DEF TicketInv
<1> QED
  BY <1>1, SerialTicketInv, PTL

-----------------------------------------------------------------------------
\* Bound of MailArrives: a mail cites one message at most.
OneReference == \A u \in 1..Len(mails) : \A a, b \in mails[u].refs : a = b

\* A Message-ID of ours is among those of the ticket it was sent from.
OwnIds == \A s \in Tickets : ids[s] \cap Tickets \subseteq {s}

\* A poll files an answer to a stored reply in the ticket of the reply.
FiledWithReply ==
    \A w \in Workers, u \in Uids : worker[w].filed[u] # None =>
        /\ u \in 1..Len(mails)
        /\ \A t \in Tickets : t \in mails[u].refs /\ t \in ids[t] => worker[w].filed[u] = t

\* A mail can cite a reply that has left, and only that; while the request that
\* sent it is alive, no answer has been filed.
NotAnsweredYet ==
    /\ \A u \in 1..Len(mails) : mails[u].refs \cap Tickets \subseteq sent
    /\ \A w \in Workers, t \in Tickets :
          worker[w].at = "reply" /\ worker[w].rows[t].status # "unborn" =>
             \A u \in 1..Len(mails) : t \in mails[u].refs => past.copies[u] = 0

ReplyRest == OneReference /\ OwnIds /\ FiledWithReply /\ NotAnsweredYet /\ AnswersFollowReply

ReplyInv == IInv /\ ReplyRest

LEMMA ReplyQuiet ==
    ASSUME ReplyInv, UNCHANGED <<mails, ids, sent>>, past'.copies = past.copies,
           \A v \in Workers :
              \/ worker'[v] = worker[v]
              \/ /\ worker'[v].at # "reply"
                 /\ worker'[v].filed = worker[v].filed \/ worker'[v].filed = Idle.filed
    PROVE  ReplyRest'
<1>1. OneReference' /\ OwnIds' /\ AnswersFollowReply'
  BY DEF ReplyInv, ReplyRest, OneReference, OwnIds, AnswersFollowReply
<1>2. \A u \in Uids : Idle.filed[u] = None
  BY DEF Idle
<1>3. FiledWithReply'
  BY <1>2 DEF ReplyInv, ReplyRest, FiledWithReply
<1>4. NotAnsweredYet'
  BY DEF ReplyInv, ReplyRest, NotAnsweredYet
<1> QED
  BY <1>1, <1>3, <1>4 DEF ReplyRest

\* A mail that has been filed lies below the stored UID, which is that of a mail.
LEMMA FiledHaveArrived ==
    ASSUME IInv, NEW u \in Uids, past.copies[u] > 0
    PROVE  u \in 1..Len(mails)
<1>1. u <= lastUid /\ u \in 1..MaxUid
  BY DEF IInv, Counted, Uids
<1>2. lastUid <= Len(mails) /\ lastUid \in Int /\ Len(mails) \in Nat
  BY UidFacts DEF IInv, TypeOK, Absent, Null
<1> QED
  BY <1>1, <1>2, TicketAssumption

LEMMA ReplySends ==
    ASSUME ReplyInv, NEW w \in Workers, ReplySend(w)
    PROVE  ReplyRest'
<1>1. PICK t \in Tickets : sent' = {t} /\ Load(w, "reply", {t})
  BY DEF ReplySend
<1>2. sent = {} /\ UNCHANGED <<mails, ids, past>>
  BY DEF ReplySend
<1>3. \A u \in 1..Len(mails) : mails[u].refs \cap Tickets = {}
  BY <1>2 DEF ReplyInv, ReplyRest, NotAnsweredYet
<1>4. NotAnsweredYet'
  BY <1>2, <1>3 DEF NotAnsweredYet
<1>5. \A v \in Workers : worker'[v] = worker[v] \/ worker'[v].filed = Idle.filed
  BY <1>1 DEF Load, ReplyInv, IInv, TypeOK, Idle
<1>6. FiledWithReply'
  BY <1>2, <1>5 DEF ReplyInv, ReplyRest, FiledWithReply, Idle
<1>7. OneReference' /\ OwnIds' /\ AnswersFollowReply'
  BY <1>2 DEF ReplyInv, ReplyRest, OneReference, OwnIds, AnswersFollowReply
<1> QED
  BY <1>4, <1>6, <1>7 DEF ReplyRest

LEMMA NothingInHand ==
    ASSUME IInv, Serial, NEW w \in Workers, End(w)
    PROVE  \A v \in Workers : worker'[v].at = "idle" /\ \A u \in Uids : worker'[v].filed[u] = None
BY DEF Serial, End, IInv, TypeOK, Idle

LEMMA ReplyStored ==
    ASSUME ReplyInv, Serial, NEW w \in Workers, ReplyCommit(w)
    PROVE  ReplyRest'
<1>1. /\ End(w) /\ worker[w].at = "reply"
      /\ UNCHANGED <<mails, sent, past>>
      /\ ids' = [t \in Tickets |-> IF t \in Loaded(w) THEN ids[t] \cup {t} ELSE ids[t]]
  BY DEF ReplyCommit
<1>2. FiledWithReply' /\ NotAnsweredYet'
  BY <1>1, NothingInHand DEF ReplyInv, ReplyRest, FiledWithReply, NotAnsweredYet
<1>3. OwnIds' /\ OneReference'
  BY <1>1 DEF ReplyInv, ReplyRest, OwnIds, OneReference
<1>4. ASSUME NEW u \in 1..Len(mails), NEW t \in Tickets,
             t \in mails[u].refs, t \in ids'[t], past.copies[u] > 0
      PROVE  u \in ids'[t]
  <2>1. CASE t \in Loaded(w)
    <3>1. past.copies[u] = 0
      BY <1>1, <1>4, <2>1 DEF Loaded, ReplyInv, ReplyRest, NotAnsweredYet
    <3> QED
      BY <1>4, <3>1
  <2>2. CASE t \notin Loaded(w)
    BY <1>1, <1>4, <2>2 DEF ReplyInv, ReplyRest, AnswersFollowReply
  <2> QED
    BY <2>1, <2>2
<1>5. AnswersFollowReply'
  BY <1>1, <1>4 DEF AnswersFollowReply
<1> QED
  BY <1>2, <1>3, <1>5 DEF ReplyRest

\* An answer whose reply is stored matches the ticket of the reply and no other.
LEMMA OnlyItsTicket ==
    ASSUME ReplyInv, NEW w \in Workers, NEW u \in 1..Len(mails), NEW t \in Tickets,
           t \in mails[u].refs, t \in ids[t]
    PROVE  Matching(w, u) = {t}
<1>1. t \notin Uids
  BY TicketAssumption DEF Uids
<1>2. t \in Threaded(w, u)
  BY DEF Threaded
<1>3. ASSUME NEW s \in Threaded(w, u) PROVE s = t
  <2>1. s \in Tickets
        /\ mails[u].refs \cap (ids[s] \cup {v \in Uids : worker[w].filed[v] = s}) # {}
    BY <1>3 DEF Threaded
  <2>2. t \in ids[s]
    BY <1>1, <2>1 DEF ReplyInv, ReplyRest, OneReference
  <2> QED
    BY <2>1, <2>2 DEF ReplyInv, ReplyRest, OwnIds
<1> QED
  BY <1>2, <1>3 DEF Matching

LEMMA FilingFollowsReply ==
    ASSUME ReplyInv, NEW w \in Workers, FileMail(w)
    PROVE  ReplyRest'
<1>1. /\ worker[w] \in Worker /\ worker \in [Workers -> Worker] /\ worker[w].at = "mails"
      /\ worker[w].todo \subseteq 1..Len(mails) /\ worker[w].todo \subseteq Uids
      /\ UNCHANGED <<mails, ids, sent, past>>
  BY UidFacts DEF ReplyInv, IInv, TypeOK, FileMail
<1>2. PICK u \in worker[w].todo :
         LET next == [worker[w] EXCEPT !.todo = @ \ {u}, !.top = u]
         IN IF mails[u].topic = None
            THEN worker' = [worker EXCEPT ![w] = next]
            ELSE \E t \in IF Matching(w, u) # {} THEN Matching(w, u)
                          ELSE {n \in Tickets : Free(n)} :
                   worker' = [worker EXCEPT ![w] = [next EXCEPT !.filed[u] = t,
                      !.rows[t] = IF @.status # "unborn" THEN @
                                  ELSE IF Exists(t) THEN ticket[t]
                                  ELSE NewTicket(mails[u].topic)]]
  BY DEF FileMail
<1> DEFINE next == [worker[w] EXCEPT !.todo = @ \ {u}, !.top = u]
<1>3. next.at = "mails" /\ next.filed = worker[w].filed
      /\ worker[w].filed \in [Uids -> Tickets \cup {None}]
  BY <1>1 DEF Worker
<1>4. CASE mails[u].topic = None
  <2>1. worker'[w].filed = worker[w].filed /\ worker'[w].at # "reply"
        /\ \A v \in Workers \ {w} : worker'[v] = worker[v]
    BY <1>1, <1>2, <1>3, <1>4
  <2> QED
    BY <1>1, <2>1, ReplyQuiet
<1>5. CASE mails[u].topic # None
  <2>1. PICK t \in IF Matching(w, u) # {} THEN Matching(w, u) ELSE {n \in Tickets : Free(n)} :
           worker' = [worker EXCEPT ![w] = [next EXCEPT !.filed[u] = t,
                      !.rows[t] = IF @.status # "unborn" THEN @
                                  ELSE IF Exists(t) THEN ticket[t]
                                  ELSE NewTicket(mails[u].topic)]]
    BY <1>2, <1>5
  <2>2. /\ worker'[w].at = "mails"
        /\ worker'[w].filed = [worker[w].filed EXCEPT ![u] = t]
        /\ \A v \in Workers \ {w} : worker'[v] = worker[v]
    BY <1>1, <1>3, <2>1
  <2> HIDE DEF next
  <2>3. ASSUME NEW s \in Tickets, s \in mails[u].refs, s \in ids[s] PROVE t = s
    BY <1>1, <2>1, <2>3, OnlyItsTicket
  <2>4. FiledWithReply'
    <3>1. ASSUME NEW v \in Workers, NEW x \in Uids, worker'[v].filed[x] # None
          PROVE  /\ x \in 1..Len(mails)
                 /\ \A s \in Tickets : s \in mails[x].refs /\ s \in ids[s]
                                          => worker'[v].filed[x] = s
      <4>1. CASE v = w /\ x = u
        BY <1>1, <1>3, <2>2, <2>3, <4>1
      <4>2. CASE ~(v = w /\ x = u)
        <5>1. worker'[v].filed[x] = worker[v].filed[x]
          BY <1>3, <2>2, <4>2
        <5> QED
          BY <3>1, <5>1 DEF ReplyInv, ReplyRest, FiledWithReply
      <4> QED
        BY <4>1, <4>2
    <3> QED
      BY <1>1, <3>1 DEF FiledWithReply
  <2>5. NotAnsweredYet'
    <3>1. \A v \in Workers : worker'[v] = worker[v] \/ worker'[v].at # "reply"
      BY <2>2
    <3> QED
      BY <1>1, <3>1 DEF ReplyInv, ReplyRest, NotAnsweredYet
  <2>6. OneReference' /\ OwnIds' /\ AnswersFollowReply'
    BY <1>1 DEF ReplyInv, ReplyRest, OneReference, OwnIds, AnswersFollowReply
  <2> QED
    BY <2>4, <2>5, <2>6 DEF ReplyRest
<1> QED
  BY <1>4, <1>5

LEMMA PollFollowsReply ==
    ASSUME ReplyInv, Serial, NEW w \in Workers, PollCommit(w)
    PROVE  ReplyRest'
<1>1. /\ End(w) /\ UNCHANGED <<mails, sent>>
      /\ ids' = [t \in Tickets |-> ids[t] \cup FiledIn(w, t)]
  BY DEF PollCommit
<1>2. past'.copies = [u \in Uids |-> IF worker[w].filed[u] # None
                                      THEN past.copies[u] + 1 ELSE past.copies[u]]
  BY DEF PollCommit, ReplyInv, IInv, TypeOK, Past
<1>3. FiledWithReply' /\ NotAnsweredYet'
  BY <1>1, NothingInHand DEF ReplyInv, ReplyRest, FiledWithReply, NotAnsweredYet
<1>4. \A t \in Tickets : FiledIn(w, t) \cap Tickets = {}
  BY TicketAssumption DEF FiledIn, Uids
<1>5. OwnIds' /\ OneReference'
  BY <1>1, <1>4 DEF ReplyInv, ReplyRest, OwnIds, OneReference
<1>6. ASSUME NEW u \in 1..Len(mails), NEW t \in Tickets,
             t \in mails[u].refs, t \in ids'[t], past'.copies[u] > 0
      PROVE  u \in ids'[t]
  <2>0. u \in Uids
    BY UidFacts DEF ReplyInv, IInv, Uids
  <2>1. t \in ids[t]
    BY <1>1, <1>4, <1>6
  <2>2. CASE worker[w].filed[u] # None
    <3>1. worker[w].filed[u] = t
      BY <1>6, <2>0, <2>1, <2>2 DEF ReplyInv, ReplyRest, FiledWithReply
    <3> QED
      BY <1>1, <2>0, <3>1 DEF FiledIn
  <2>3. CASE worker[w].filed[u] = None
    BY <1>1, <1>2, <1>6, <2>0, <2>1, <2>3 DEF ReplyInv, ReplyRest, AnswersFollowReply
  <2> QED
    BY <2>2, <2>3
<1>7. AnswersFollowReply'
  BY <1>1, <1>6 DEF AnswersFollowReply
<1> QED
  BY <1>3, <1>5, <1>7 DEF ReplyRest

LEMMA ArrivalsCiteReplies ==
    ASSUME ReplyInv, MailArrives
    PROVE  ReplyRest'
<1>1. PICK topic \in Topics \cup {None}, refs \in {{}} \cup {{id} : id \in 1..Len(mails) \cup sent} :
         mails' = Append(mails, [topic |-> topic, refs |-> refs])
  BY DEF MailArrives
<1>2. UNCHANGED <<ids, sent, worker, past>> /\ Len(mails) \in Nat /\ mails \in Seq(Mail)
  BY UidFacts DEF MailArrives, ReplyInv, IInv, TypeOK
<1>3. /\ Len(mails') = Len(mails) + 1
      /\ mails'[Len(mails) + 1].refs = refs
      /\ \A u \in 1..Len(mails) : mails'[u] = mails[u]
  BY <1>1, <1>2
<1>4. /\ \A a, b \in refs : a = b
      /\ refs \cap Tickets \subseteq sent
  BY <1>1, <1>2, TicketAssumption
<1>5. \A u \in 1..Len(mails') : u \in 1..Len(mails) \/ u = Len(mails) + 1
  BY <1>2, <1>3
<1>6. past.copies[Len(mails) + 1] = 0
  <2>1. Len(mails) + 1 \in Uids /\ past.copies[Len(mails) + 1] \in Nat
    BY <1>2, UidFacts DEF MailArrives, Uids, ReplyInv, IInv
  <2>2. Len(mails) + 1 \notin 1..Len(mails)
    BY <1>2
  <2> QED
    BY <2>1, <2>2, FiledHaveArrived DEF ReplyInv
<1>7. OneReference'
  BY <1>3, <1>4, <1>5 DEF ReplyInv, ReplyRest, OneReference
<1>8. OwnIds'
  BY <1>2 DEF ReplyInv, ReplyRest, OwnIds
<1>9. FiledWithReply'
  <2>1. \A u \in 1..Len(mails) : u \in 1..Len(mails')
    BY <1>2, <1>3
  <2> QED
    BY <1>2, <1>3, <2>1 DEF ReplyInv, ReplyRest, FiledWithReply
<1>10. NotAnsweredYet'
  BY <1>2, <1>3, <1>4, <1>5, <1>6 DEF ReplyInv, ReplyRest, NotAnsweredYet
<1>11. AnswersFollowReply'
  BY <1>2, <1>3, <1>5, <1>6 DEF ReplyInv, ReplyRest, AnswersFollowReply
<1> QED
  BY <1>7, <1>8, <1>9, <1>10, <1>11 DEF ReplyRest

LEMMA QuietForReplies ==
    ASSUME ReplyInv, NEW w \in Workers,
           \/ PollStart(w) \/ Sync(w) \/ SyncCommit(w) \/ ImapFails(w) \/ Fetch(w)
           \/ HandsLoad(w) \/ StatusUpdate(w) \/ Assign(w) \/ DueLoad(w) \/ DueCommit(w)
           \/ Rollback(w)
    PROVE  ReplyRest'
<1>1. worker \in [Workers -> Worker] /\ past \in Past
  BY DEF ReplyInv, IInv, TypeOK
<1>2. ASSUME \A v \in Workers : \/ worker'[v] = worker[v]
                                 \/ /\ worker'[v].at # "reply"
                                    /\ \/ worker'[v].filed = worker[v].filed
                                       \/ worker'[v].filed = Idle.filed,
             UNCHANGED <<mails, ids, sent>>, past'.copies = past.copies
      PROVE  ReplyRest'
  BY <1>2, ReplyQuiet
<1>3. ASSUME End(w), UNCHANGED <<mails, ids, sent>>, past'.copies = past.copies
      PROVE  ReplyRest'
  BY <1>1, <1>2, <1>3 DEF End, Idle
<1>4. ASSUME NEW at \in {"hands", "due"}, NEW T, Load(w, at, T), UNCHANGED <<mails, ids, sent, past>>
      PROVE  ReplyRest'
  <2>1. worker'[w].at # "reply" /\ worker'[w].filed = Idle.filed
        /\ \A v \in Workers \ {w} : worker'[v] = worker[v]
    BY <1>1, <1>4 DEF Load, Idle
  <2> QED
    BY <1>2, <1>4, <2>1
<1>5. CASE PollStart(w)
  <2>1. worker'[w].at # "reply" /\ worker'[w].filed = Idle.filed
        /\ \A v \in Workers \ {w} : worker'[v] = worker[v]
    BY <1>1, <1>5 DEF PollStart, Idle
  <2> QED
    BY <1>2, <1>5, <2>1 DEF PollStart
<1>6. CASE Sync(w)
  <2>1. PICK top : worker' = [worker EXCEPT ![w].at = "synced", ![w].top = top]
    BY <1>6 DEF Sync
  <2>2. worker'[w].at # "reply" /\ worker'[w].filed = worker[w].filed
    BY <1>1, <2>1 DEF Worker
  <2>3. \A v \in Workers \ {w} : worker'[v] = worker[v]
    BY <1>1, <2>1
  <2> QED
    BY <1>2, <1>6, <2>2, <2>3 DEF Sync
<1>7. CASE Fetch(w)
  <2>1. PICK top, todo : worker' = [worker EXCEPT ![w].at = "mails", ![w].todo = todo, ![w].top = top]
    BY <1>7 DEF Fetch
  <2>2. worker'[w].at # "reply" /\ worker'[w].filed = worker[w].filed
    BY <1>1, <2>1 DEF Worker
  <2>3. \A v \in Workers \ {w} : worker'[v] = worker[v]
    BY <1>1, <2>1
  <2>4. past'.copies = past.copies /\ UNCHANGED <<mails, ids, sent>>
    BY <1>1, <1>7 DEF Fetch, Past
  <2> QED
    BY <1>2, <2>2, <2>3, <2>4
<1>8. CASE SyncCommit(w) \/ ImapFails(w) \/ Rollback(w) \/ DueCommit(w)
  <2>1. past'.copies = past.copies
    BY <1>1, <1>8 DEF SyncCommit, ImapFails, Rollback, DueCommit, Past
  <2> QED
    BY <1>3, <1>8, <2>1 DEF SyncCommit, ImapFails, Rollback, DueCommit
<1>9. ASSUME NEW new, HandsCommit(w, new) PROVE ReplyRest'
  <2>1. past'.copies = past.copies
    BY <1>1, <1>9 DEF HandsCommit, Past
  <2> QED
    BY <1>3, <1>9, <2>1 DEF HandsCommit
<1>10. CASE StatusUpdate(w) \/ Assign(w)
  BY <1>9, <1>10 DEF StatusUpdate, Assign
<1>11. CASE HandsLoad(w) \/ DueLoad(w)
  BY <1>4, <1>11 DEF HandsLoad, DueLoad
<1> QED
  BY <1>5, <1>6, <1>7, <1>8, <1>10, <1>11

LEMMA ReplyStep == ReplyInv /\ Serial /\ [Next]_vars => ReplyInv'
<1> SUFFICES ASSUME ReplyInv, Serial, [Next]_vars PROVE ReplyRest'
  BY NextTypes, NextKeeps DEF ReplyInv, IInv, Rest
<1>1. CASE UNCHANGED vars \/ TicketCreate \/ MailRemoved \/ NextDay
  <2>1. UNCHANGED <<mails, ids, sent, worker, past>>
    BY <1>1 DEF vars, TicketCreate, MailRemoved, NextDay
  <2> QED
    BY <2>1, ReplyQuiet
<1>2. CASE Restart
  <2>1. \A v \in Workers : worker'[v].at # "reply" /\ worker'[v].filed = Idle.filed
    BY <1>2 DEF Restart, Idle
  <2> QED
    BY <1>2, <2>1, ReplyQuiet DEF Restart
<1> QED
  BY <1>1, <1>2, QuietForReplies, ReplySends, ReplyStored, FilingFollowsReply, PollFollowsReply,
     ArrivalsCiteReplies DEF Next

\* With one poll or request at a time, an answer to a stored reply of ours is
\* filed in the ticket the reply came from, whatever its subject.
THEOREM AnswersFollow == ASSUME Serial PROVE Spec => []AnswersFollowReply
<1>1. Init => ReplyInv
  <2> SUFFICES ASSUME Init PROVE ReplyRest
    BY InitIInv DEF ReplyInv
  <2>1. \A u \in 1..Len(mails) : mails[u].refs = {}
    BY DEF Init
  <2>2. OneReference /\ AnswersFollowReply
    BY <2>1 DEF OneReference, AnswersFollowReply
  <2>3. OwnIds /\ FiledWithReply
    BY DEF Init, OwnIds, FiledWithReply, Idle
  <2>4. NotAnsweredYet
    BY <2>1 DEF Init, NotAnsweredYet, Idle
  <2> QED
    BY <2>2, <2>3, <2>4 DEF ReplyRest
<1>2. ReplyInv => AnswersFollowReply
  BY DEF ReplyInv, ReplyRest
<1> QED
  BY <1>1, <1>2, ReplyStep, PTL DEF Spec
=============================================================================
