------------------------------- MODULE People -------------------------------
(***************************************************************************)
(* What the board does about members: tenancies with their cloud folders,  *)
(* delivery of invoices, work sessions, work hours (the routers that       *)
(* app/main.py includes for them).                                         *)
(*                                                                         *)
(* The four write no table in common (the leases the work hours read are   *)
(* rows of their own here), so that a step is a step of one of them.       *)
(***************************************************************************)
EXTENDS Tenancies

CONSTANTS
    Invoices,      \* the invoices of the run that is delivered
    Clerks,        \* deliveries in flight at the same time
    MaxMails,      \* bound: mails accepted for one invoice
    Sessions,      \* identities of work sessions
    Households,    \* sets of members that may be the tenants of a parcel
    Limits,        \* values typed in for max_participants, of either sign
    Marks,         \* statuses the board gives to participations
    Tasks,         \* identities of work tasks
    Desks,         \* sign-ups and task changes in flight at the same time
    Roles,         \* identities of club roles
    Sponsorships,  \* identities of sponsorships
    Hours,         \* numbers of hours typed in, in tenths
    Absent         \* no row

\* A club has finitely many members and sponsorships; a limit is an integer and
\* hours are whole tenths of them, of either sign, checked by nobody; the board
\* gives the statuses the enum has; null and a missing row are no value.
ASSUME PeopleAssumption ==
    /\ IsFiniteSet(Members) /\ IsFiniteSet(Sponsorships) /\ Hours \subseteq Int
    /\ Households \subseteq SUBSET Members
    /\ Limits \subseteq Int /\ None \notin Int /\ Absent \notin Int \cup {None}
    /\ Marks \subseteq {"REGISTERED", "ATTENDED", "NO_SHOW"}
    /\ None \notin Sessions \cup Members \cup (Sessions \X Members)

VARIABLES
    emailed, uploaded, printed, mailed, clerk, lost,                        \* InvoiceDelivery
    limit, part, task, signup, torn,                                        \* WorkSessions
    config, role, held, sponsorship, attendance, garden, standing           \* WorkHours

deliveryVars == <<emailed, uploaded, printed, mailed, clerk, lost>>
sessionVars == <<limit, part, task, signup, torn>>
hoursVars == <<config, role, held, sponsorship, attendance, garden, standing>>
peopleVars == <<vars, deliveryVars, sessionVars, hoursVars>>

Delivery == INSTANCE InvoiceDelivery
SignUp == INSTANCE WorkSessions WITH desk <- signup
Evaluation == INSTANCE WorkHours WITH lease <- garden

PeopleInit == Init /\ Delivery!Init /\ SignUp!Init /\ Evaluation!Init
-----------------------------------------------------------------------------
TenancyStep == Next /\ UNCHANGED <<deliveryVars, sessionVars, hoursVars>>
DeliveryStep == Delivery!Next /\ UNCHANGED <<vars, sessionVars, hoursVars>>
SessionStep == SignUp!Next /\ UNCHANGED <<vars, deliveryVars, hoursVars>>
HoursStep == Evaluation!Next /\ UNCHANGED <<vars, deliveryVars, sessionVars>>

PeopleNext == TenancyStep \/ DeliveryStep \/ SessionStep \/ HoursStep

PeopleSpec == PeopleInit /\ [][PeopleNext]_peopleVars
-----------------------------------------------------------------------------
(* The promises of the instances, under names of their own.                *)

\* A repeated mail was asked for, or a commit was lost, or mailings overlap.
MailedOnce == Delivery!MailedOnce

\* What is on record as e-mailed is what has been mailed.
RecordIsTrue == Delivery!RecordIsTrue

\* A task is at the session its assignee is signed up for.
TaskOnOwnSession == SignUp!TaskOnOwnSession

\* What a public sign-up answers comes true.
SignupKeepsItsWord == SignUp!SignupKeepsItsWord

\* The standings of page, CSV and REST API can be told from each other.
StandingsComparable == Evaluation!StandingsComparable
=============================================================================
