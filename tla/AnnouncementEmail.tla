-------------------------- MODULE AnnouncementEmail --------------------------
(***************************************************************************)
(* The e-mail channel of one announcement: the request that starts a paced *)
(* send, and the background task that carries it out in the same coroutine *)
(* after the response has gone back (app/routers/announcements.py,         *)
(* app/announcement_mailer.py).                                            *)
(*                                                                         *)
(* Announcements share no row and no task, so one stands for all.          *)
(***************************************************************************)
EXTENDS Integers, FiniteSets

CONSTANTS
    People,       \* the members who may be recipients
    Sends,        \* send requests alive at once, each with its background task
    BatchSize,    \* EMAIL_BATCH_SIZE
    Overlapping   \* may two send handlers be between their read and their commit?

ASSUME MailAssumption ==
    /\ IsFiniteSet(People)
    /\ BatchSize \in Nat \ {0}
    /\ Overlapping \in BOOLEAN

VARIABLES
    announcement,  \* announcements.status, "live" for DRAFT, "gone" once deleted
    delivery,      \* status of the EMAIL row of announcement_deliveries, or "none"
    residents,     \* what get_active_recipient_emails would return now
    send,          \* the requests and their background tasks
    got,           \* history: mails a person received since Send now was last accepted
    late,          \* history: mails attempted after the announcement was deleted
    cutOff         \* history: a task was lost before it could record its end

vars == <<announcement, delivery, residents, send, got, late, cutOff>>

Delivery == {"none", "SENDING", "SENT", "FAILED"}

\* handler: decided, not yet committed; scheduled: answered, task not begun;
\* mailing: between two batches; broken: an exception is being handled.
Send == [at : {"idle", "handler", "scheduled", "mailing", "broken"},
         seen : Delivery, left : SUBSET People, success : BOOLEAN]
Idle == [at |-> "idle", seen |-> "none", left |-> {}, success |-> FALSE]

TypeOK ==
    /\ announcement \in {"live", "ARCHIVED", "gone"}
    /\ delivery \in Delivery
    /\ announcement = "gone" => delivery = "none"
    /\ residents \subseteq People
    /\ send \in [Sends -> Send]
    /\ got \in [People -> Nat]
    /\ late \in Nat
    /\ cutOff \in BOOLEAN

Init ==
    /\ announcement = "live"
    /\ delivery = "none"
    /\ residents \in SUBSET People
    /\ send = [w \in Sends |-> Idle]
    /\ got = [p \in People |-> 0]
    /\ late = 0
    /\ cutOff = FALSE
-----------------------------------------------------------------------------
Exists == announcement # "gone"

InTask(w) == send[w].at \in {"scheduled", "mailing", "broken"}

Goto(w, at) == send' = [send EXCEPT ![w].at = at]
End(w) == send' = [send EXCEPT ![w] = Idle]

\* SQLAlchemy writes only the columns that differ from what the session loaded.
Written(seen, status) == IF status = seen THEN delivery ELSE status

SendLoadUnguarded(w) ==   \* MUTANT of SendLoad
    /\ send[w].at = "idle"
    /\ announcement = "live"
    /\ Overlapping \/ \A v \in Sends : send[v].at # "handler"
    /\ send' = [send EXCEPT ![w] = [Idle EXCEPT !.at = "handler", !.seen = delivery]]
    /\ UNCHANGED <<announcement, delivery, residents, got, late, cutOff>>

\* announcement_send_email up to its decision; 404, 400 and 409 change nothing.
SendLoad(w) ==
    /\ send[w].at = "idle"
    /\ announcement = "live"
    /\ delivery # "SENDING"
    /\ Overlapping \/ \A v \in Sends : send[v].at # "handler"
    /\ send' = [send EXCEPT ![w] = [Idle EXCEPT !.at = "handler", !.seen = delivery]]
    /\ UNCHANGED <<announcement, delivery, residents, got, late, cutOff>>

\* The commit inserts the row or updates the one loaded; a second insert breaks
\* the unique constraint, a deleted announcement the foreign key.
Committable(w) == Exists /\ (send[w].seen = "none" => delivery = "none")

SendCommitEager(w) ==   \* MUTANT of SendCommit
    /\ send[w].at = "handler"
    /\ Committable(w)
    /\ delivery' = "SENDING"
    /\ got' = [p \in People |-> 0]
    /\ IF residents = {} THEN End(w) ELSE Goto(w, "scheduled")
    /\ UNCHANGED <<announcement, residents, late, cutOff>>

SendCommit(w) ==
    /\ send[w].at = "handler"
    /\ Committable(w)
    /\ IF residents = {}
       THEN /\ delivery' = Written(send[w].seen, "FAILED")
            /\ End(w)
            /\ UNCHANGED got
       ELSE /\ delivery' = "SENDING"
            /\ got' = [p \in People |-> 0]
            /\ Goto(w, "scheduled")
    /\ UNCHANGED <<announcement, residents, late, cutOff>>

SendRollback(w) ==
    /\ send[w].at = "handler"
    /\ ~Committable(w)
    /\ End(w)
    /\ UNCHANGED <<announcement, delivery, residents, got, late, cutOff>>
-----------------------------------------------------------------------------
\* The task loads everything again; nothing is left to do for a deleted row.
TaskStart(w) ==
    /\ send[w].at = "scheduled"
    /\ IF delivery = "none"
       THEN End(w)
       ELSE send' = [send EXCEPT ![w].at = "mailing", ![w].seen = delivery,
                                 ![w].left = residents]
    /\ UNCHANGED <<announcement, delivery, residents, got, late, cutOff>>

Batches(left) ==
    IF Cardinality(left) <= BatchSize THEN {left}
    ELSE {batch \in SUBSET left : Cardinality(batch) = BatchSize}

TaskBatchBlind(w) ==   \* MUTANT of TaskBatch
    /\ send[w].at = "mailing" /\ send[w].left # {}
    /\ \E batch \in Batches(send[w].left) : \E accepted \in SUBSET batch :
          /\ got' = [p \in People |-> IF p \in accepted THEN got[p] + 1 ELSE got[p]]
          /\ late' = IF Exists THEN late ELSE late + Cardinality(batch)
          /\ send' = [send EXCEPT ![w].at = "mailing",
                                  ![w].left = @ \ batch,
                                  ![w].success = @ \/ accepted # {}]
    /\ UNCHANGED <<announcement, delivery, residents, cutOff>>

\* One batch and the commit of its progress note. The mail server accepts any
\* part of it. The commit of a note on a deleted row raises StaleDataError.
TaskBatch(w) ==
    /\ send[w].at = "mailing" /\ send[w].left # {}
    /\ \E batch \in Batches(send[w].left) : \E accepted \in SUBSET batch :
          /\ got' = [p \in People |-> IF p \in accepted THEN got[p] + 1 ELSE got[p]]
          /\ late' = IF Exists THEN late ELSE late + Cardinality(batch)
          /\ send' = [send EXCEPT ![w].at = IF Exists THEN "mailing" ELSE "broken",
                                  ![w].left = @ \ batch,
                                  ![w].success = @ \/ accepted # {}]
    /\ UNCHANGED <<announcement, delivery, residents, cutOff>>

TaskFinishSwapped(w) ==   \* MUTANT of TaskFinish
    /\ send[w].at = "mailing" /\ send[w].left = {}
    /\ IF Exists
       THEN /\ delivery' = Written(send[w].seen, IF send[w].success THEN "FAILED" ELSE "SENT")
            /\ End(w)
       ELSE Goto(w, "broken") /\ UNCHANGED delivery
    /\ UNCHANGED <<announcement, residents, got, late, cutOff>>

TaskFinish(w) ==
    /\ send[w].at = "mailing" /\ send[w].left = {}
    /\ IF Exists
       THEN /\ delivery' = Written(send[w].seen, IF send[w].success THEN "SENT" ELSE "FAILED")
            /\ End(w)
       ELSE Goto(w, "broken") /\ UNCHANGED delivery
    /\ UNCHANGED <<announcement, residents, got, late, cutOff>>

\* Anything in the task may raise (a lost connection, say) ...
TaskRaise(w) ==
    /\ send[w].at \in {"scheduled", "mailing"}
    /\ Goto(w, "broken")
    /\ UNCHANGED <<announcement, delivery, residents, got, late, cutOff>>

TaskRecordSilent(w) ==   \* MUTANT of TaskRecord
    /\ send[w].at = "broken"
    /\ End(w)
    /\ UNCHANGED <<announcement, delivery, residents, got, late, cutOff>>

\* ... and is recorded in a session of its own, if the row is still there.
TaskRecord(w) ==
    /\ send[w].at = "broken"
    /\ delivery' = IF delivery = "none" THEN "none" ELSE "FAILED"
    /\ End(w)
    /\ UNCHANGED <<announcement, residents, got, late, cutOff>>

\* "Could not even record the failure": logged, nothing else.
TaskRecordFails(w) ==
    /\ send[w].at = "broken"
    /\ End(w)
    /\ cutOff' = TRUE
    /\ UNCHANGED <<announcement, delivery, residents, got, late>>
-----------------------------------------------------------------------------
Archive ==
    /\ Exists
    /\ announcement' = "ARCHIVED"
    /\ UNCHANGED <<delivery, residents, send, got, late, cutOff>>

\* The delivery rows go with the announcement, the tasks are not told.
Delete ==
    /\ Exists
    /\ announcement' = "gone"
    /\ delivery' = "none"
    /\ UNCHANGED <<residents, send, got, late, cutOff>>

\* Members move in and out, give up notifications, end their membership.
ResidentsChange ==
    /\ residents' \in SUBSET People
    /\ UNCHANGED <<announcement, delivery, send, got, late, cutOff>>

\* A restart forgets every request and task; the start-up code (lifespan) looks
\* at no delivery.
Restart ==
    /\ send' = [w \in Sends |-> Idle]
    /\ cutOff' = (cutOff \/ \E w \in Sends : InTask(w))
    /\ UNCHANGED <<announcement, delivery, residents, got, late>>

Task(w) == TaskStart(w) \/ TaskBatch(w) \/ TaskFinish(w) \/ TaskRecord(w)

Next ==
    \/ \E w \in Sends :
          \/ SendLoad(w) \/ SendCommit(w) \/ SendRollback(w)
          \/ Task(w) \/ TaskRaise(w) \/ TaskRecordFails(w)
    \/ Archive \/ Delete \/ ResidentsChange \/ Restart

Spec == Init /\ [][Next]_vars

\* A task runs on by itself: the pause between batches ends and aiosmtplib gives
\* every mail up after its time-out.
FairSpec == Spec /\ \A w \in Sends : WF_vars(Task(w))
-----------------------------------------------------------------------------
\* The roster is not mailed twice for one click, a double click or a stale tab:
\* "shouldn't be able to trigger the roster being emailed twice" (ADR 0027).
RosterMailedOnce == \A p \in People : got[p] <= 1

\* "rejects a second POST with 409 if one is already in progress"
\* (docs/module-announcements.md:121): whenever the row says SENDING, so that
\* Send now is refused, a task is at work on it, except after one was lost in a
\* restart or with the failure it could not record.
StuckOnlyWhenCutOff ==
    delivery = "SENDING" /\ ~cutOff => \E w \in Sends : InTask(w)

\* SENT is only shown when at least one member did receive the announcement.
SentReachedSomeone == delivery = "SENT" => \E p \in People : got[p] > 0

\* Deleting an announcement stops its send: what still goes out is at most the
\* batch that was under way.
DeletionStopsTheSend == late <= BatchSize

\* A send does not stay SENDING for ever, unless its task was lost.
SendEnds == delivery = "SENDING" ~> (delivery # "SENDING" \/ cutOff)
=============================================================================
