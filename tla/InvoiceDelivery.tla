--------------------------- MODULE InvoiceDelivery ---------------------------
(***************************************************************************)
(* Delivery of the invoices of one finalized run by e-mail, upload and     *)
(* print bundle (app/routers/finances.py, app/invoice_delivery.py).        *)
(*                                                                         *)
(* A delivery reads all invoices, mails and uploads them one by one, and   *)
(* commits its marks at the end.  Whether a mail is accepted depends on    *)
(* the residents of the moment and on the mail server: any outcome, and    *)
(* send_email may report a failure after the server has accepted the mail  *)
(* (a timeout of its answer), never the other way round.  The database may *)
(* let one of two deliveries wait for the other's rows, which only takes   *)
(* away interleavings.                                                     *)
(***************************************************************************)
EXTENDS Naturals

CONSTANTS
    Invoices,  \* the invoices of the run
    Clerks,    \* requests in flight at the same time
    MaxMails   \* bound: mails accepted for one invoice

VARIABLES
    emailed,   \* invoices with emailed_at
    uploaded,  \* invoices with uploaded_to_cloud_at
    printed,   \* invoices with printed_at
    mailed,    \* how many mails the server has accepted for each invoice
    clerk,     \* what each request in flight has read and done
    lost       \* ghost: invoices with a mail that its request could not record

vars == <<emailed, uploaded, printed, mailed, clerk, lost>>

\* The invoices a request has still to visit, those it found without e-mail or
\* upload, and those it has marked; alone until another one mails as well.
Idle == [at |-> "idle", todo |-> {}, unmailed |-> {}, unstored |-> {},
         sent |-> {}, stored |-> {}, alone |-> TRUE]

Request == [at : {"idle", "deliver", "resend", "print"}, todo : SUBSET Invoices,
            unmailed : SUBSET Invoices, unstored : SUBSET Invoices,
            sent : SUBSET Invoices, stored : SUBSET Invoices, alone : BOOLEAN]

\* All variables have their types.
TypeOK ==
    /\ emailed \subseteq Invoices /\ uploaded \subseteq Invoices /\ printed \subseteq Invoices
    /\ mailed \in [Invoices -> Nat]
    /\ clerk \in [Clerks -> Request]
    /\ lost \subseteq Invoices

Init ==
    /\ emailed = {} /\ uploaded = {} /\ printed = {}
    /\ mailed = [i \in Invoices |-> 0]
    /\ clerk = [c \in Clerks |-> Idle]
    /\ lost = {}
-----------------------------------------------------------------------------
Mailing(c) == clerk[c].at \in {"deliver", "resend"}

Start(c, q) ==
    /\ clerk[c] = Idle
    /\ clerk' = [d \in Clerks |->
                   IF d = c THEN [q EXCEPT !.alone = \A e \in Clerks : ~Mailing(e)]
                   ELSE IF Mailing(d) /\ q.at # "print" THEN [clerk[d] EXCEPT !.alone = FALSE]
                   ELSE clerk[d]]
    /\ UNCHANGED <<emailed, uploaded, printed, mailed, lost>>

DeliverEverything(c) ==   \* MUTANT of DeliverLoad
    Start(c, [Idle EXCEPT !.at = "deliver", !.todo = Invoices,
                          !.unmailed = Invoices, !.unstored = Invoices \ uploaded])

DeliverLoad(c) ==
    Start(c, [Idle EXCEPT !.at = "deliver", !.todo = Invoices,
                          !.unmailed = Invoices \ emailed, !.unstored = Invoices \ uploaded])

MarkUnsent(c, i, sent, stored) ==   \* MUTANT of Mark
    clerk' = [clerk EXCEPT ![c].todo = @ \ {i},
                           ![c].sent = @ \cup {i},
                           ![c].stored = IF stored THEN @ \cup {i} ELSE @]

\* emailed_at and uploaded_to_cloud_at are set on success only.
Mark(c, i, sent, stored) ==
    clerk' = [clerk EXCEPT ![c].todo = @ \ {i},
                           ![c].sent = IF sent THEN @ \cup {i} ELSE @,
                           ![c].stored = IF stored THEN @ \cup {i} ELSE @]

\* send_invoice_email, and in a delivery upload_invoice_to_cloud after it: the
\* mail is accepted or not, and send_email reports it as sent or not.
SendAndUpload(c, i, mayMail, mayStore) ==
    /\ \E accepted, sent, stored \in BOOLEAN :
          /\ sent => accepted
          /\ accepted => mayMail /\ mailed[i] < MaxMails
          /\ stored => mayStore
          /\ mailed' = [mailed EXCEPT ![i] = IF accepted THEN @ + 1 ELSE @]
          /\ lost' = IF accepted /\ ~sent THEN lost \cup {i} ELSE lost
          /\ Mark(c, i, sent, stored)
    /\ UNCHANGED <<emailed, uploaded, printed>>

DeliverOne(c, i) ==
    /\ clerk[c].at = "deliver" /\ i \in clerk[c].todo
    /\ SendAndUpload(c, i, i \in clerk[c].unmailed, i \in clerk[c].unstored)

\* Resending does not look at emailed_at.
ResendLoad(c, i) == Start(c, [Idle EXCEPT !.at = "resend", !.todo = {i}, !.unmailed = {i}])

ResendOne(c, i) ==
    /\ clerk[c].at = "resend" /\ i \in clerk[c].todo
    /\ SendAndUpload(c, i, TRUE, FALSE)

MailingCommit(c) ==
    /\ Mailing(c) /\ clerk[c].todo = {}
    /\ emailed' = emailed \cup clerk[c].sent
    /\ uploaded' = uploaded \cup clerk[c].stored
    /\ lost' = lost \ clerk[c].sent
    /\ clerk' = [clerk EXCEPT ![c] = Idle]
    /\ UNCHANGED <<printed, mailed>>

\* The bundle takes every invoice not e-mailed yet, printed before or not.
PrintLoad(c) ==
    /\ emailed # Invoices
    /\ Start(c, [Idle EXCEPT !.at = "print", !.todo = Invoices \ emailed])

PrintCommit(c) ==
    /\ clerk[c].at = "print"
    /\ printed' = printed \cup clerk[c].todo
    /\ clerk' = [clerk EXCEPT ![c] = Idle]
    /\ UNCHANGED <<emailed, uploaded, mailed, lost>>

\* A failure in the loop or at the commit, a deadlock in the database or a
\* restart: the session is rolled back, the mails have gone out.
Fail(c) ==
    /\ clerk[c] # Idle
    /\ lost' = lost \cup clerk[c].sent
    /\ clerk' = [clerk EXCEPT ![c] = Idle]
    /\ UNCHANGED <<emailed, uploaded, printed, mailed>>
-----------------------------------------------------------------------------
Next ==
    \E c \in Clerks :
        \/ DeliverLoad(c) \/ PrintLoad(c) \/ PrintCommit(c)
        \/ MailingCommit(c) \/ Fail(c)
        \/ \E i \in Invoices : DeliverOne(c, i) \/ ResendLoad(c, i) \/ ResendOne(c, i)

Spec == Init /\ [][Next]_vars
-----------------------------------------------------------------------------
\* Nobody is mailed the same invoice twice, unless somebody asked for it to be
\* sent again, the mail before was not recorded (its delivery failed before its
\* one commit at the end, or took an accepted mail for a failed one), or two
\* requests mailed at the same time.
MailedOnce ==
    [][\A i \in Invoices :
         mailed[i] > 0 /\ mailed'[i] > mailed[i] =>
           \/ i \in lost
           \/ \E c \in Clerks :
                /\ Mailing(c) /\ i \in clerk[c].todo \ clerk'[c].todo
                /\ clerk[c].at = "resend" \/ ~clerk[c].alone]_vars

\* Everything on record as e-mailed has been mailed, and everything mailed is
\* on record, or is going to be, or is one of the mails no request could
\* record: the print bundle and the next delivery go by the record alone.
RecordIsTrue ==
    \A i \in Invoices :
        /\ i \in emailed => mailed[i] > 0
        /\ mailed[i] > 0 => i \in emailed \cup lost \/ \E c \in Clerks : i \in clerk[c].sent
=============================================================================
