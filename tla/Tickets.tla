------------------------------- MODULE Tickets -------------------------------
(***************************************************************************)
(* The ticket mailbox and what the board does with the tickets that come   *)
(* out of it (app/ticket_mailer.py, app/routers/tickets.py and             *)
(* app/routers/api_tickets.py): a poll every two minutes and on demand,    *)
(* the hands that close, postpone and assign tickets, and replies.         *)
(*                                                                         *)
(* A request or poll loads rows, waits, and commits the columns it changed *)
(* later; a poll talks to the IMAP server in between.                      *)
(***************************************************************************)
EXTENDS Integers, FiniteSets, Sequences

CONSTANTS
    Tickets,   \* ticket ids; also the Message-ID of the reply sent from a ticket
    Users,     \* possible assignees
    Topics,    \* sender and normalized subject of a mail
    MaxUid,    \* bound: mails that ever arrive
    LastDay,   \* bound: days the calendar is turned, and the days to postpone to
    Workers,   \* requests and polls alive at once
    None

ASSUME TicketAssumption ==
    /\ MaxUid \in Nat \ {0} /\ LastDay \in Nat \ {0}
    /\ None \notin Tickets \cup Users \cup Topics \cup Int
    /\ Tickets \cap Int = {}
    /\ IsFiniteSet(Tickets)

VARIABLES
    mails,      \* every mail that arrived, in the order of UIDs
    mailbox,    \* UIDs that are in INBOX now
    lastUid,    \* setting ticket_imap_letzte_uid, Absent or Null
    ticket,     \* rows of tickets
    ids,        \* Message-IDs among each ticket's messages
    sent,       \* tickets whose reply has left
    today,
    worker,
    past        \* history for the properties, see Past

vars == <<mails, mailbox, lastUid, ticket, ids, sent, today, worker, past>>

Uids == 1..MaxUid
Absent == -2   \* no row in club_settings
Null == -1     \* a row without a value

Status == {"ACTIVE", "ASSIGNED", "WAITING", "POSTPONED", "CLOSED", "DELETED"}
Ticket == [status : Status \cup {"unborn"}, assignee : Users \cup {None},
           until : (1..LastDay) \cup {None}, closed : BOOLEAN,
           topic : Topics \cup {None}]
Unborn == [status |-> "unborn", assignee |-> None, until |-> None,
           closed |-> FALSE, topic |-> None]
NewTicket(topic) == [Unborn EXCEPT !.status = "ACTIVE", !.topic = topic]

\* A mail without a usable sender has no topic. refs: In-Reply-To, References.
Mail == [topic : Topics \cup {None}, refs : SUBSET (Uids \cup Tickets)]

\* rows: what the session loaded or is about to insert; base: the UID it read;
\* top: highest_uid; todo: fetched mails; filed: the ticket of each filed mail.
Worker == [at : {"idle", "sync", "synced", "fetch", "mails", "hands", "due", "reply"},
           rows : [Tickets -> Ticket], base : {Absent, Null} \cup Nat, top : Nat,
           todo : SUBSET Uids, filed : [Uids -> Tickets \cup {None}]]
Idle == [at |-> "idle", rows |-> [t \in Tickets |-> Unborn], base |-> Absent,
         top |-> 0, todo |-> {}, filed |-> [u \in Uids |-> None]]

\* start: what the first sync found; copies: messages made of a mail; skipped:
\* not fetched, though a later mail was; fresh: tickets with a message nobody
\* acted on since; forgot: the UID was given up for NULL.
Past == [start : {Absent} \cup Nat, copies : [Uids -> Nat], skipped : SUBSET Uids,
         fresh : SUBSET Tickets, forgot : BOOLEAN]

TypeOK ==
    /\ mails \in Seq(Mail) /\ Len(mails) <= MaxUid
    /\ mailbox \subseteq 1..Len(mails)
    /\ lastUid \in {Absent, Null} \cup 0..Len(mails)
    /\ ticket \in [Tickets -> Ticket]
    /\ ids \in [Tickets -> SUBSET (Uids \cup Tickets)]
    /\ sent \subseteq Tickets
    /\ today \in 0..LastDay
    /\ worker \in [Workers -> Worker]
    /\ \A w \in Workers :
          /\ worker[w].base <= Len(mails) /\ worker[w].top <= Len(mails)
          /\ worker[w].todo \subseteq 1..Len(mails)
          /\ worker[w].at = "fetch" => worker[w].base >= 0
    /\ past \in Past

\* The inbox may hold old mail before it is connected for the first time.
Init ==
    /\ mails \in {<<>>, <<[topic |-> None, refs |-> {}]>>}
    /\ mailbox = 1..Len(mails)
    /\ lastUid = Absent
    /\ ticket = [t \in Tickets |-> Unborn]
    /\ ids = [t \in Tickets |-> {}]
    /\ sent = {}
    /\ today = 0
    /\ worker = [w \in Workers |-> Idle]
    /\ past = [start |-> Absent, copies |-> [u \in Uids |-> 0], skipped |-> {},
               fresh |-> {}, forgot |-> FALSE]
-----------------------------------------------------------------------------
Exists(t) == ticket[t].status # "unborn"
Claimed(t) == \E w \in Workers : worker[w].rows[t].status # "unborn"
Free(t) == ~Exists(t) /\ ~Claimed(t)

End(w) == worker' = [worker EXCEPT ![w] = Idle]
Load(w, at, T) ==
    worker' = [worker EXCEPT ![w] = [Idle EXCEPT !.at = at,
                 !.rows = [t \in Tickets |-> IF t \in T THEN ticket[t] ELSE Unborn]]]
Loaded(w) == {t \in Tickets : worker[w].rows[t].status # "unborn"}

\* SQLAlchemy writes only the columns that differ from what the session loaded.
Merge(now, seen, new) ==
    [col \in DOMAIN now |-> IF new[col] = seen[col] THEN now[col] ELSE new[col]]
Written(seen, new) == IF new = seen THEN lastUid ELSE new

Open(row) == IF row.assignee # None THEN "ASSIGNED" ELSE "ACTIVE"

ReopenedUnlessWaiting(row) ==   \* MUTANT of Reopened
    IF row.status \in {"CLOSED", "POSTPONED"}
    THEN [row EXCEPT !.status = Open(row), !.closed = FALSE, !.until = None]
    ELSE row

\* A reply from the sender ends any form of "we're waiting".
Reopened(row) ==
    IF row.status \in {"CLOSED", "POSTPONED", "WAITING"}
    THEN [row EXCEPT !.status = Open(row), !.closed = FALSE, !.until = None]
    ELSE row

-----------------------------------------------------------------------------
PollStart(w) ==
    /\ worker[w].at = "idle"
    /\ worker' = [worker EXCEPT ![w] = [Idle EXCEPT
                    !.at = IF lastUid < 0 THEN "sync" ELSE "fetch", !.base = lastUid]]
    /\ UNCHANGED <<mails, mailbox, lastUid, ticket, ids, sent, today, past>>

\* The very first fetch only looks up the highest UID (_fetch_highest_uid_sync);
\* a SEARCH that is not answered with OK passes for an empty mailbox.
Sync(w) ==
    /\ worker[w].at = "sync"
    /\ \E highest \in mailbox \cup {0} :
          /\ highest = 0 \/ \A u \in mailbox : u <= highest
          /\ worker' = [worker EXCEPT ![w].at = "synced", ![w].top = highest]
    /\ UNCHANGED <<mails, mailbox, lastUid, ticket, ids, sent, today, past>>

\* Two first syncs may both insert the row: the second is rolled back (Rollback).
SyncCommit(w) ==
    /\ worker[w].at = "synced"
    /\ lastUid' = worker[w].top
    /\ past' = [past EXCEPT !.start = IF @ = Absent THEN worker[w].top ELSE @]
    /\ End(w)
    /\ UNCHANGED <<mails, mailbox, ticket, ids, sent, today>>

\* The server cannot be reached, or it drops the connection.
ImapFails(w) ==
    /\ worker[w].at \in {"sync", "fetch"}
    /\ End(w)
    /\ UNCHANGED <<mails, mailbox, lastUid, ticket, ids, sent, today, past>>

FetchAdvancing(w) ==   \* MUTANT of Fetch
    /\ worker[w].at = "fetch"
    /\ \E lost \in SUBSET {u \in mailbox : u > worker[w].base} :
         \E top \in lost \cup {worker[w].base} :
         LET got == {u \in mailbox : u > worker[w].base} \ lost
         IN /\ \A u \in lost : u <= top
            /\ worker' = [worker EXCEPT ![w].at = "mails", ![w].todo = got, ![w].top = top]
            /\ past' = [past EXCEPT !.skipped =
                          @ \cup {u \in lost : \E v \in got : v > u}]
    /\ UNCHANGED <<mails, mailbox, lastUid, ticket, ids, sent, today>>

\* A mail whose FETCH is not answered with OK is passed over.
Fetch(w) ==
    /\ worker[w].at = "fetch"
    /\ \E lost \in SUBSET {u \in mailbox : u > worker[w].base} :
         LET got == {u \in mailbox : u > worker[w].base} \ lost
         IN /\ worker' = [worker EXCEPT ![w].at = "mails", ![w].todo = got,
                                        ![w].top = worker[w].base]
            /\ past' = [past EXCEPT !.skipped =
                          @ \cup {u \in lost : \E v \in got : v > u}]
    /\ UNCHANGED <<mails, mailbox, lastUid, ticket, ids, sent, today>>

\* What a query of the session sees: the database and its own flushed writes.
Seen(w, t) ==
    LET row == worker[w].rows[t]
    IN IF row.status = "unborn" THEN ticket[t]
       ELSE IF ~Exists(t) \/ Reopened(row) # row THEN Reopened(row) ELSE ticket[t]

Threaded(w, u) ==
    {t \in Tickets : mails[u].refs \cap (ids[t] \cup {v \in Uids : worker[w].filed[v] = t}) # {}}
SameTopic(w, u) ==
    {t \in Tickets : /\ Seen(w, t).status \notin {"unborn", "CLOSED"}
                     /\ Seen(w, t).topic = mails[u].topic}
MatchingByTopic(w, u) == SameTopic(w, u)   \* MUTANT of Matching

Matching(w, u) == IF Threaded(w, u) # {} THEN Threaded(w, u) ELSE SameTopic(w, u)

\* One mail: find its ticket (_find_matching_ticket) or open a new one.
FileMail(w) ==
    /\ worker[w].at = "mails"
    /\ \E u \in worker[w].todo :
         /\ \A v \in worker[w].todo : u <= v
         /\ LET next == [worker[w] EXCEPT !.todo = @ \ {u}, !.top = u]
            IN IF mails[u].topic = None
               THEN worker' = [worker EXCEPT ![w] = next]
               ELSE \E t \in IF Matching(w, u) # {} THEN Matching(w, u)
                             ELSE {n \in Tickets : Free(n)} :
                      worker' = [worker EXCEPT ![w] = [next EXCEPT !.filed[u] = t,
                         !.rows[t] = IF @.status # "unborn" THEN @
                                     ELSE IF Exists(t) THEN ticket[t]
                                     ELSE NewTicket(mails[u].topic)]]
    /\ UNCHANGED <<mails, mailbox, lastUid, ticket, ids, sent, today, past>>

FiledIn(w, t) == {u \in Uids : worker[w].filed[u] = t}

PollCommitUnmarked(w) ==   \* MUTANT of PollCommit
    /\ worker[w].at = "mails" /\ worker[w].todo = {}
    /\ ticket' = [t \in Tickets |-> IF t \in Loaded(w) /\ Exists(t)
                    THEN Merge(ticket[t], worker[w].rows[t], Reopened(worker[w].rows[t]))
                    ELSE IF t \in Loaded(w) THEN worker[w].rows[t] ELSE ticket[t]]
    /\ ids' = [t \in Tickets |-> ids[t] \cup FiledIn(w, t)]
    /\ past' = [past EXCEPT
                 !.copies = [u \in Uids |-> IF worker[w].filed[u] # None THEN @[u] + 1 ELSE @[u]],
                 !.fresh = @ \cup Loaded(w)]
    /\ End(w)
    /\ UNCHANGED <<mails, mailbox, lastUid, sent, today>>

\* highest_uid 0 is stored as NULL.
PollCommit(w) ==
    /\ worker[w].at = "mails" /\ worker[w].todo = {}
    /\ ticket' = [t \in Tickets |-> IF t \in Loaded(w) /\ Exists(t)
                    THEN Merge(ticket[t], worker[w].rows[t], Reopened(worker[w].rows[t]))
                    ELSE IF t \in Loaded(w) THEN worker[w].rows[t] ELSE ticket[t]]
    /\ ids' = [t \in Tickets |-> ids[t] \cup FiledIn(w, t)]
    /\ lastUid' = Written(worker[w].base, IF worker[w].top = 0 THEN Null ELSE worker[w].top)
    /\ past' = [past EXCEPT
                 !.copies = [u \in Uids |-> IF worker[w].filed[u] # None THEN @[u] + 1 ELSE @[u]],
                 !.fresh = @ \cup Loaded(w), !.forgot = @ \/ lastUid' = Null]
    /\ End(w)
    /\ UNCHANGED <<mails, mailbox, sent, today>>
-----------------------------------------------------------------------------
\* One ticket or a selection of them is loaded for a change by hand.
HandsLoad(w) ==
    /\ worker[w].at = "idle"
    /\ \E T \in SUBSET {t \in Tickets : Exists(t)} : T # {} /\ Load(w, "hands", T)
    /\ UNCHANGED <<mails, mailbox, lastUid, ticket, ids, sent, today, past>>

WithStatusNoDate(row, status, until) ==   \* MUTANT of WithStatus
    [row EXCEPT !.status = status, !.until = None,
                !.closed = (status = "CLOSED"),
                !.assignee = IF status = "ACTIVE" THEN None ELSE @]

\* _apply_status; closed_at is stamped anew whenever the status is CLOSED.
WithStatus(row, status, until) ==
    [row EXCEPT !.status = status,
                !.until = IF status = "POSTPONED" THEN until ELSE None,
                !.closed = (status = "CLOSED"),
                !.assignee = IF status = "ACTIVE" THEN None ELSE @]

WithAssignee(row, user) == [row EXCEPT !.assignee = user,
                              !.status = IF user # None THEN "ASSIGNED" ELSE "ACTIVE"]

HandsCommit(w, new) ==
    /\ worker[w].at = "hands"
    /\ ticket' = [t \in Tickets |-> IF t \in Loaded(w)
         THEN [Merge(ticket[t], worker[w].rows[t], new[t])
                 EXCEPT !.closed = @ \/ new[t].status = "CLOSED"]
         ELSE ticket[t]]
    /\ past' = [past EXCEPT !.fresh = @ \ Loaded(w)]
    /\ End(w)
    /\ UNCHANGED <<mails, mailbox, lastUid, ids, sent, today>>

StatusUpdate(w) == \E status \in Status, until \in 1..LastDay :
    HandsCommit(w, [t \in Tickets |-> WithStatus(worker[w].rows[t], status, until)])
Assign(w) == \E user \in Users \cup {None} :
    HandsCommit(w, [t \in Tickets |-> WithAssignee(worker[w].rows[t], user)])

\* Loading the list or a ticket brings back what is due (_reactivate_due_tickets).
DueLoad(w) ==
    /\ worker[w].at = "idle"
    /\ LET Due == {t \in Tickets : /\ ticket[t].status = "POSTPONED"
                                   /\ ticket[t].until # None
                                   /\ ticket[t].until <= today}
       IN Due # {} /\ Load(w, "due", Due)
    /\ UNCHANGED <<mails, mailbox, lastUid, ticket, ids, sent, today, past>>

DueCommit(w) ==
    /\ worker[w].at = "due"
    /\ ticket' = [t \in Tickets |-> IF t \in Loaded(w)
         THEN LET row == worker[w].rows[t]
              IN Merge(ticket[t], row, [row EXCEPT !.status = Open(row), !.until = None])
         ELSE ticket[t]]
    /\ End(w)
    /\ UNCHANGED <<mails, mailbox, lastUid, ids, sent, today, past>>

\* The reply leaves before its message, and with it the Message-ID that an
\* answer will cite, is committed. Bound: one reply is ever sent.
ReplySend(w) ==
    /\ worker[w].at = "idle" /\ sent = {}
    /\ \E t \in {n \in Tickets : Exists(n)} : sent' = {t} /\ Load(w, "reply", {t})
    /\ UNCHANGED <<mails, mailbox, lastUid, ticket, ids, today, past>>

ReplyCommit(w) ==
    /\ worker[w].at = "reply"
    /\ ids' = [t \in Tickets |-> IF t \in Loaded(w) THEN ids[t] \cup {t} ELSE ids[t]]
    /\ End(w)
    /\ UNCHANGED <<mails, mailbox, lastUid, ticket, sent, today, past>>

\* A ticket typed in by hand; its first message has no Message-ID. Bound: a
\* ticket is left for every mail that may still need one.
TicketCreate ==
    /\ Cardinality({n \in Tickets : Free(n)}) > Cardinality({u \in Uids : past.copies[u] = 0})
    /\ \E t \in {n \in Tickets : Free(n)}, topic \in Topics :
          ticket' = [ticket EXCEPT ![t] = NewTicket(topic)]
    /\ UNCHANGED <<mails, mailbox, lastUid, ids, sent, today, worker, past>>

\* Any exception on the way to a commit: the session is rolled back.
Rollback(w) ==
    /\ worker[w].at # "idle"
    /\ End(w)
    /\ UNCHANGED <<mails, mailbox, lastUid, ticket, ids, sent, today, past>>
-----------------------------------------------------------------------------
\* Bound: a mail cites at most one message.
MailArrives ==
    /\ Len(mails) < MaxUid
    /\ \E topic \in Topics \cup {None},
          refs \in {{}} \cup {{id} : id \in 1..Len(mails) \cup sent} :
          mails' = Append(mails, [topic |-> topic, refs |-> refs])
    /\ mailbox' = mailbox \cup {Len(mails')}
    /\ UNCHANGED <<lastUid, ticket, ids, sent, today, worker, past>>

\* The mailbox is an ordinary one: somebody files or deletes a mail elsewhere.
MailRemoved ==
    /\ \E u \in mailbox : mailbox' = mailbox \ {u}
    /\ UNCHANGED <<mails, lastUid, ticket, ids, sent, today, worker, past>>

NextDay ==
    /\ today < LastDay
    /\ today' = today + 1
    /\ UNCHANGED <<mails, mailbox, lastUid, ticket, ids, sent, worker, past>>

Restart ==
    /\ worker' = [w \in Workers |-> Idle]
    /\ UNCHANGED <<mails, mailbox, lastUid, ticket, ids, sent, today, past>>

Next ==
    \/ \E w \in Workers :
          \/ PollStart(w) \/ Sync(w) \/ SyncCommit(w) \/ ImapFails(w)
          \/ Fetch(w) \/ FileMail(w) \/ PollCommit(w)
          \/ HandsLoad(w) \/ StatusUpdate(w) \/ Assign(w)
          \/ DueLoad(w) \/ DueCommit(w)
          \/ ReplySend(w) \/ ReplyCommit(w) \/ Rollback(w)
    \/ TicketCreate \/ MailArrives \/ MailRemoved \/ NextDay \/ Restart

Spec == Init /\ [][Next]_vars
-----------------------------------------------------------------------------
\* No mail is filed twice, in one ticket or in two (last_uid keeps track).
MailFiledOnce == \A u \in Uids : past.copies[u] <= 1

Due(u) == /\ past.start # Absent /\ past.start < u /\ u <= lastUid
          /\ u \in mailbox /\ mails[u].topic # None

\* "From the next cycle onward, only newly arriving emails are processed"
\* (module-tickets.md): a mail that arrived after the first sync and lies below
\* the stored UID has become a message, unless its FETCH failed.
NewMailProcessed ==
    \A u \in Uids : Due(u) => past.copies[u] > 0 \/ u \in past.skipped

\* What holds of it: the only other loss is after highest_uid 0 became NULL.
MailLostOnlyIfForgotten ==
    \A u \in Uids : Due(u) => past.copies[u] > 0 \/ u \in past.skipped \/ past.forgot

\* A reply brings its ticket back to the open ones until somebody acts on it;
\* only a DELETED ticket swallows it ("any incoming reply reactivates").
RepliesSurface ==
    \A t \in past.fresh : ticket[t].status \in {"ACTIVE", "ASSIGNED", "DELETED"}

\* A postponed ticket has a day on which it comes back.
PostponedComesBack == \A t \in Tickets : ticket[t].status = "POSTPONED" => ticket[t].until # None

\* An answer to a reply of ours is filed in the ticket the reply came from.
AnswersFollowReply ==
    \A u \in 1..Len(mails), t \in Tickets :
        t \in mails[u].refs /\ t \in ids[t] /\ past.copies[u] > 0 => u \in ids[t]
=============================================================================
