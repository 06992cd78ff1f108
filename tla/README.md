# A verification of Parcella's core logic in TLA+

Parcella manages an allotment club: members, parcels, invoices, tickets, tasks
and announcements. It is a FastAPI application on an async SQLAlchemy session
and PostgreSQL (`app/`). This directory holds TLA+ modules of the parts whose
behaviour depends on the order in which things happen, TLC configurations that
check them on small instances, and proofs of their main invariants for
instances of any size.

* `tlc -config InvoiceRuns_serial.cfg MCInvoiceRuns` checks one configuration.
  `X_y.cfg` belongs to the module `MCX`, `People.cfg` to `MCPeople` and
  `Things.cfg` to `MCThings`; `PurchaseRequests_requester.cfg` and
  `WorkHours_exemption.cfg` are run on the component's module itself.
* `tlapm InvoiceRunsProofs.tla` checks the proofs of one module.
* `PROJECT.json` relates every definition to the lines it models, and lists the
  runs, the theorems, the hazards and, for every property, a plausible bug in
  the code that it catches (the definitions marked `MUTANT`).

## 1. The system

### How steps come about

Everything is one process with one event loop. Three things run in it:

* **request handlers**: one coroutine and one session each (`app/database.py`,
  `get_db`); an exception rolls the session back;
* **background tasks** that continue after the response has gone out (the paced
  announcement mailing);
* **two loops** started with the application (`app/main.py`): the ticket mailbox
  every two minutes, and the update check.

Every `await` lets others run. Transactions are READ COMMITTED and no query
takes a lock, so a handler decides on rows that may have changed by the time it
commits; SQLAlchemy writes only the *columns* that differ from what the session
loaded; an UPDATE of a row that is gone, a duplicate of a unique value or an
insert without its parent row rolls the whole session back. Nothing outside the
database survives a restart. The modules are cut along this: a handler is a
*load* (its reads and checks), further steps where it awaits something that
matters, and a *commit* that merges changed columns into the rows of that
moment. Everything else comes in between. A handler that only answers with a
page or an error changes nothing and has no action.

### Inventory

| Component | State | Operations | Hard about it | Correct means | Module |
|---|---|---|---|---|---|
| Annual invoices (`finances.py`, `invoice_generation.py`) | runs, item definitions, invoices, two number settings | create, edit, copy, delete definitions; finalize; delete a run | finalization reads and computes for long, then numbers and commits; overlapping finalizations, deletion or edits | numbers unique, an issued invoice keeps its number and lines, a parcel billed once, with what is configured | `InvoiceRuns`, `InvoiceLedger` |
| Invoice delivery (`invoice_delivery.py`, `finances.py`) | marks on invoices: e-mailed, uploaded, printed | mail and upload a run, resend one, print the rest | many mails, one commit at the end | nobody is mailed twice unasked; the marks are true | `InvoiceDelivery` |
| Payments, finance categories | payments of an invoice, rows of categories | enter, delete, import | none: one row at a time, the status is computed when shown | | not modelled |
| Purchase requests | request, approvals, accounts | file, confirm, approve, reject; delete an account | approvals are counted on a loaded list | four eyes; a decision is final | `PurchaseRequests` |
| Announcements, e-mail | delivery row, background task | send now, archive, delete; batches | the task outlives its request and not the process | nobody mailed twice; SENDING ends | `AnnouncementEmail` |
| Announcements, other channels | delivery rows, files | blog draft, print | the WordPress call before the commit | one draft per announcement | not modelled |
| Ticket mailbox (`ticket_mailer.py`, `tickets.py`) | tickets, messages, last UID | poll, close, postpone, assign, delete, reply | poll beside hands, IMAP failures, UID book-keeping, mail before commit | every mail filed once in the right ticket, answers surface | `Tickets` |
| Task board (`task_board.py`) | position of each card | create, move, delete | positions computed from what was read; deletion commits twice | columns are sequences | `TaskBoard`, `TaskColumns` |
| Accounts and groups (`admin.py`, `admin_groups.py`, `auth.py`) | users, groups, memberships, invitations | invite, resend, accept, deactivate, edit, delete; group changes | two ways to be an administrator, a guard for each | somebody can always administer; an invitation is used once | `AdminAccess` |
| Module permissions (`permissions.py`) | flags of a group per module | read only when used | none | union of the groups | not modelled |
| Inventory and loans (`inventory.py`) | categories, items, loans | create, edit, retire, delete; check out, return | availability is computed from loans read before the insert; the total is edited without looking at them | never more out than there is | `InventoryLoans` |
| Work sessions, tasks, public sign-up (`work_hours.py`, `api_public.py`) | sessions with limits, participations, tasks | sign-up of a household by the public form, by the board; schedule and assign tasks | places counted before the inserts; the assignee is a row of another table | what was answered comes true; tasks belong to participants of their session | `WorkSessions` |
| Work hours (`work_hours.py`, `api_work_hours.py`) | configuration of a year, club roles, sponsorships, attendance | edit each; evaluate | one standing computed in three copies over two sets of people | page, CSV and API charge comparable standings | `WorkHours` |
| Tenancies, cloud folders (`parcels.py`, `parcel_cloud_folders.py`) | leases, the active folder of a parcel | assign, end, edit, delete a tenancy; set a folder | the folder is deactivated in a second commit | a folder is for the tenants it was set for | `Tenancies`; what invoices see of it is in `InvoiceRuns` |
| Metering (`metering.py`, `meter_utils.py`) | points, meters, readings | create and delete points, exchange meters, record and delete readings | readings compared with rows read before the insert; gaps and exchanges; invoices read them in any order of years | readings grow; the invoices of a meter fit together | `Metering` |
| Insurance (`insurance.py`, `insurance_utils.py`) | packages, accident configuration, one row per parcel with its persons | edit each, open and save a parcel | a save replaces persons it has read | no persons without accident insurance, no package without property insurance | `Insurance` |
| Calendar, settings, change history, sample data, presentation, WordPress plug-in | rows edited one at a time, formatting | | none that a model reaches | | not modelled |

Components meet in the database: the deletion of an account reaches approvals
(`PurchaseRequests`) and memberships (`AdminAccess`), a change of tenants and
the deletion of a parcel reach invoices (`InvoiceRuns`), a change of tenants
reaches cloud folders (`Tenancies`) and the standing of a parcel (`WorkHours`),
the deletion of a session reaches tasks (`WorkSessions`), a restart reaches the
background task (`AnnouncementEmail`), a poll (`Tickets`), a delivery
(`InvoiceDelivery`) and an end of tenancy (`Tenancies`). Each of these is an
action of the module that is affected.

## 2. The modules

Each component has a specification `X`. Instances for TLC (model values, symmetry,
tuples that a configuration cannot write) are in `MCX`, theorems in `XProofs`. Eight
components that share no table are composed in two modules: `Tenancies`,
`InvoiceDelivery`, `WorkSessions` and `WorkHours` in `People`, `PurchaseRequests`,
`Metering`, `InventoryLoans` and `Insurance` in `Things`. A step of the composition is a
step of one of them (`PeopleNext`, `ThingsNext`), and
`PeopleProofs` and `ThingsProofs` have the theorems about each component and the theorem
that the composition implements all of them. For TLC, `MCPeople` and `MCThings` pick one
*desk* in the initial state, and only the component at that desk takes steps: as nothing is
shared, the product of the components would add states but no behaviour of any of them.
"Overlap" below means that several requests are alive at once: the
constant that names the requests in flight (`Workers`, `Officers`, `Clerks`,
`Desks`, `Fitters`, `Agents`) has more than one member.

Where overlapping requests do break a promise, the newer modules do not forbid the
overlap. They record in a history variable why the promise no longer holds for a
row (`missed`, `lost`, `torn`, `strained`, `tangled`, `mixed`), and the property
says that it fails for *no other reason*. None of these variables occurs in a guard.

### InvoiceRuns and InvoiceLedger

`InvoiceLedger` is the promise: a book of invoices in which closing a run enters
all of its invoices at once, numbered one after the other in plot order with
numbers the book does not hold; no run is closed twice and nothing is struck
out. `InvoiceRuns` is the code: `status` and `override` are the rows of
`invoice_runs`, `items` the definitions, `invoices` the issued ones with their
lines, `billable` the parcels that `compute_invoices_for_run` would bill now,
`format` and `firstSeq` the two settings. `req[w]` is what request `w` has read.
A finalization loads the run, computes the lines, fixes the first number and
commits, four steps because `finalize_run` awaits each of them; the unique
index on the number turns the loser of a race away. Prices are abstracted to
whether a definition yields a line. Three history variables say what a promise may
rest on: `issued` is every invoice ever stored, `edited[w]` the definitions and
`moved[w]` the parcels' tenants that have changed since finalization `w` read them
(`Watch`, a conjunct of every step). The module is shown to implement
the ledger (`ImplementsLedger`, with `book <- invoices`, `closed <- ` the FINALIZED
runs).

### PurchaseRequests

Rows of `purchase_requests` (`status`, `filed`, `confirmed`), of their approvals
and of `users`; `wantedBy` is the person behind a typed address. A handler counts
the approvals it loaded (`req[w].seen`), adds its own and commits.

### AnnouncementEmail

One announcement, its EMAIL delivery row, and per send the handler and then the
task in the same coroutine. A task loads the residents, takes `BatchSize` of them
at a time, notes its progress, and ends in SENT or FAILED. It may meet an
exception at any point, and a restart wipes all of them. `Overlapping` says
whether two send handlers may both be between their read and their commit: the
unique constraint lets only one *first* send through, but not of two retries.

### Tickets

Mails with UIDs (`mails`, of which `mailbox` are in INBOX), the stored last UID
(`Absent`: no row; `Null`: a row without value), tickets and the Message-IDs
filed in each. A poll syncs on its first run (a SEARCH that is not answered with OK
passes for an empty mailbox and stores 0 as well), else searches, fetches one by one
(each FETCH may fail), files each mail by reference or by topic, and commits
tickets and UID together. Hands (close, postpone, assign, reopen, delete), the
return of postponed tickets on a page load (`due`) and replies, which leave
before they are committed, load and commit in between. `past` is history.

### TaskBoard and TaskColumns

`TaskColumns` is the promise: columns of cards, each with an order of its cards (the
relation `before`) unless that was lost (`loose`). A new card comes last, a card that
leaves disturbs nobody, a moved card gets one place among the others, whose order stays,
and only a move into or out of a column puts it in order again. `TaskBoard` is the
arithmetic of `task_board.py`: create counts, move reads both columns and renumbers,
delete commits, then closes the gap in a second transaction. `torn` marks the columns that
a stale commit or a crash between the two commits may have misnumbered; an undisturbed
move takes the mark away. The refinement mapping reads the order from the positions.

### AdminAccess

`user`, `group`, `invitation` are the tables (memberships and targets as sets of
groups). An account stands for its address: changing an address is left out. The date
on which an invitation expires is past (`overdue`) or not: it passes by itself
(`InvitationExpires`), the row stays PENDING and is refused when somebody wants to
accept it, until `InvitationResend` gives it a new date. Every handler first needs an administrator, then its own guard:
`IsLastAdmin` for accounts, `OtherSystemAdminExists` for groups, the other way
in for memberships. `_user_has_history` is modelled by the one table of its list
that is modelled, the memberships; the other tables may keep an account as well, and
nobody is obliged to delete one, so every behaviour of the code is included.

### Tenancies

`lease[p][m]` is the row of `member_parcels` ("ended" has an `assigned_until` in
the past), `folder` the rows of `parcel_cloud_folders`. `member_remove` and
`assignment_update` commit; then `deactivate_if_vacant` asks for residents (`check`),
in a second query for the active folder (`vacant`), and commits a second time
(`deactivate`); setting a folder reads the active one and
writes it or inserts (`set`). A restart drops whatever is in flight. A *turnover* is
a step that leaves a parcel without tenants; each folder remembers for which
turnover its path was typed in, which is what "nobody inherits it" is about.
Members that are deleted keep their row, as in the code. The permanent deletion of
a parcel is in `InvoiceRuns`; a parcel with tenancies cannot be deleted.

### InvoiceDelivery

One finalized run: the three marks on its invoices, and how many mails the mail server
has accepted for each. A delivery reads everything, mails and uploads invoice by
invoice in any order and with any outcome, and has one commit for all marks. That the
server has accepted a mail and that `send_email` reports it as sent are two things: a
time-out of the answer makes the first true and the second false. `lost` are invoices
mailed by a request that never committed, or without being told so; `alone` says that no second mailing
was alive beside this one. Resending one invoice never asks whether it was mailed before;
the print bundle takes those without e-mail. Payments are left out.

### WorkSessions

`limit` is `max_participants` of the existing sessions, `part` the status of each
participation, `task` the session and the assignee of each task. The board's
own handlers write one row and are one step, with the cascades of the database
(a deleted session sends its tasks back to the backlog, a removed participation
clears the assignee). The public sign-up resolves a name to one tenant or to the
whole household, decides per session, and commits all sessions at once. A change
of a task is a load and a commit of the changed columns. A request that has read
something older than what it commits on is `stale` or `lost`, a task written that way
is `torn`. A payload that names one session twice is `repeated`: its rows are inserted
twice, and the unique constraint refuses the whole request. Whether a task is done, and the dates that open a session for sign-up,
are left out.

### WorkHours

All that the standing of one year is computed from: configuration, club roles,
who holds them, sponsorships, attendance, tenancies, members. `PageRow`,
`CsvRow` and `ApiRow` are the three copies of the computation, each written as its
source is: the page adds up its tenants, the CSV adds sessions and sponsorships up
in columns of their own as well, the API takes everybody with a row in
`member_parcels`, deleted or expired members too (`Leaseholders` against `Tenants`).
What they share is what they share in the code, the hours of one member and whether
that member is exempt. `_is_exempt` raises when a member holds two exempting
roles (`Raises`). Handlers write one row each and are one step, creating and
updating are separate actions.

### InventoryLoans

Categories, items with their total, loans. A checkout compares its quantity with
what it has read and inserts later; an edit writes changed columns later. Deleting
a category clears it on its items, deleting an item takes its loans. `strained`
are items that were overlent by overlapping checkouts or whose total was lowered below
what is out. Names, conditions and due dates are left out.

### Metering

Points with their meters (one of them active, as long as exchanges do not overlap) and
one reading per meter and year. `ReadingBefore` reaches back over years without a
reading, to the initial one after an exchange. Recording and exchanging are a load
and a commit; deleting is one step. `RunFinalize` is the finalization of a run as
metering sees it: for the current meter of each point it covers, if that meter was
read in the year of the run, the invoice charges `Bill`, the reading of the year less
the one before. It only reads, and is one step at the moment it has read.
`billed` is history: the bills on invoices, without those one of whose readings
somebody has changed, entered or deleted since. The sums of the overview and of the
evaluation page are left out, nothing else depends on them. Water and electricity run
the same code and are two instances of the module.

### Insurance

Prices of packages, the accident configuration, the row of each parcel with its
additional persons. Opening a parcel creates its row; a save loads (creating
the row), drops what an unticked insurance makes meaningless (`Wanted`), and commits:
changed columns one by one, the persons that were read deleted, the chosen ones
inserted. `mixed` are rows in which two overlapping forms have met.

## 3. What the runs check

| Run | Instance | Shows |
|---|---|---|
| `InvoiceRuns_serial` | 2 runs of one year, 2 definitions, 2 parcels with changing tenants, 1 request at a time | numbers free when used, one invoice per parcel and run, a finalized run stays; implements `InvoiceLedger` |
| `InvoiceRuns_overlap` | the same with 2 requests; one of the parcels may change its tenants and be deleted for good | what survives any interleaving: sequence numbers unique per year, invoices only of finalized runs, an issued number stays with its invoice until parcel or run is gone, everything nobody has changed is billed as configured |
| `AnnouncementEmail_tasks` | 3 people, batches of 2, 2 sends | nobody twice, SENT is true, deletion stops the send, SENDING stays only where a task was lost, and ends otherwise |
| `Tickets_serial` | 2 mails, 2 tickets, 1 topic, 1 assignee, 1 change of day | each mail filed once, lost only in the two ways listed, answers surface in their ticket and find it through the reply, postponed tickets come back |
| `TaskBoard_serial` | 4 cards, 2 columns | gapless unless torn; implements `TaskColumns` |
| `AdminAccess_serial` | 3 accounts, 2 groups, 2 invitations that may run out and be sent again | somebody stays administrator, one invitation per address, used once, no membership lost with an account |
| `People`, tenancies | 1 parcel, 2 members, 2 folders, 2 requests, restarts | a folder ends with the tenancy it was set for, tenants keep theirs, except for recorded reasons |
| `People`, delivery | 2 invoices, 2 requests, failures | a second mail only if asked for, after a failure or beside another mailing; the record is true |
| `People`, sign-ups and tasks | 2 sessions, 2 members of one household, 1 task, 2 requests | an undisturbed sign-up keeps its word and the limit; an assignee is signed up for the session of the task |
| `People`, hours | 1 parcel, 2 members who may leave or be deleted, 1 role, 1 sponsorship, 1 or 2 hours | page and CSV charge the same, the API differs by those left out only, debt and fulfilment exclude each other |
| `Things`, purchases | 2 requests, 3 accounts (2 on the board), all deletable, 1 handler | four eyes, two approvals always decide, decisions stay, no approval disappears |
| `Things`, metering | 1 point, 2 meters, 2 years with a gap, 2 requests, no invoices | readings grow, one active meter, except for recorded reasons |
| `Things`, billing | 1 point, 2 meters, 3 years, 1 request, finalizations at any time | the invoices of a meter fit together |
| `Things`, inventory | 1 item, 1 category, 2 loans, totals 1 and 2, 2 requests | no more is lent than there is, except for recorded reasons |
| `Things`, insurance | 1 parcel, 1 package, 1 person, 2 saves | rows are whole unless mixed; what is not on the evaluation costs nothing |

and four that end in a counterexample, each against a sentence of the
repository (section 5): `InvoiceRuns_definitions`, `PurchaseRequests_requester`,
`Tickets_empty`, `WorkHours_exemption`.

**Bounds, and why they are enough.** Two of each thing that compete (runs of one
year, requests, mails, sends, groups, invitations, saves, exchanges) is where
uniqueness and order can fail; a third person lets somebody be neither actor nor
last. Two parcels make two consecutive numbers, and `Overrides = {2}` collides with
the second number of a run that begins at 1. Four cards let a move cross two others
in one column while the other is not empty. A batch of 2 for 3 people gives a full
and a partial batch. `MaxUid` = 2 gives a mail before and one after the stored UID,
`LastDay` = 1 one day to postpone to. `MaxTurnovers` = 2 lets a parcel change hands
twice, so that a folder can reach tenants it was not set for; `MaxMails` = 2 is the
first mail and the one too many. Years {2024, 2025, 2026} give a year between two others
that is read late or never; overlapping requests have the gap {2024, 2026} only.
Values around the initial reading 1 give a reading below, at and above it, and up to 3 one
for each year. Hours 1 and 2 let one member, or only both, do what is required. Totals 1 and 2
with loans of 1 and 2 let one loan, or only both, use an item up.

The instances of `MCPeople` and `MCThings` leave out, as conditions on the next state:
cloud folders for one of the two billed parcels (it shows what a parcel without
folder does); sign-ups in flight while tasks change, since the two meet in the
participations only; for tasks also limits, NO_SHOW and more than two
participations, none of which a task handler reads; the mode PER_MEMBER, which
the property is not about, a second member who has left, a second one signed up
without having attended, more than one hour worked or credited at a time; readings of
the second meter before the last year (the first one shows what many years do);
invoices beside overlapping readings (`billed` is in no guard, and `BillsFit` is proved
for both together); two edits of one item in flight, which only overwrite each other's
columns; amounts of the accident configuration other than 1. The
specifications themselves have none of these restrictions, nor have the theorems.

`People` has about 590 000 distinct states and `Things` about 840 000. History
variables take no part in guards, except where bounded by the instance. Symmetry is
used over sets of model values only, and in no run with a liveness property. Deadlock
is checked except in `Things` and `PurchaseRequests_requester`, where every request
may be decided and every account gone. Type invariants are proved (section 4)
and not run.

**Fairness.** `FairSpec` of `AnnouncementEmail` is weakly fair to each
background task and to nothing else: `asyncio.sleep` between batches returns,
and aiosmtplib gives a mail up at its time-out, so a task that still exists goes
on. Handlers, restarts and people owe nothing. All other properties are safety.

## 4. What is proved

| Theorem | For | Under |
|---|---|---|
| `TypeCorrect` in InvoiceRuns, AnnouncementEmail, Tickets, TaskBoard and AdminAccess, `PurchaseTypes`, `TenanciesTypes`, `DeliveryTypes`; the types of the others are part of their invariants | any instance, any overlap | the ASSUMEs of the module |
| `OnlyInFinalizedRuns`, `BillOwnRun` | InvoiceRuns, any overlap | |
| `SequencesUnique` | InvoiceRuns, any overlap | the format setting never leaves the default |
| `BilledRight`, `NumbersStay` | InvoiceRuns, any overlap, parcels deleted at any time | |
| `BilledOnce` | InvoiceRuns, parcels deleted at any time | requests do not overlap (`OneAtATime`) |
| `NumbersAreFree` | the same | also: the format setting never leaves the default |
| `RunsStay`, `KeepsTheBook` (InvoiceRuns implements InvoiceLedger) | InvoiceRuns | `OneAtATime`, and no parcel is deleted for good (`Purgeable = {}`) |
| `FourEyesHolds` | PurchaseRequests, any overlap | no account is deleted |
| `FourEyesSerially`, `SecondApprovalDecides`, `DecisionsAreFinal`, `ApprovalsAreKept` | PurchaseRequests, accounts deleted at any time | handlers do not overlap (`OneAtATime`) |
| `StuckOnlyIfCutOff` | AnnouncementEmail, any overlap | |
| `MailedOnce`, `SentReached`, `DeletionStops` | AnnouncementEmail | send handlers do not overlap |
| `FiledOnce`, `LostOnlyIfForgotten`, `AnswersSurface`, `AnswersFollow`, `PostponedHaveADay` | Tickets | polls and requests do not overlap (`Serial`) |
| `Gapless`, `OneGap`, `TaskBoardImplementsColumns` (TaskBoard implements TaskColumns) | TaskBoard, any overlap, failures at any point | |
| `SomebodyIsAdmin`, `OneInvitation`, `ZeroFootprint`, `InvitationsUsedUp` | AdminAccess | requests do not overlap (`OneAtATime`) |
| `FolderIsEnded`, `FolderIsKept` | Tenancies, any overlap, restarts at any point | |
| `RecordHolds`, `DeliveredOnce` | InvoiceDelivery, any overlap, failures at any point | |
| `TasksStayOnTheirSessions`, `SignupsKeepTheirWord` | WorkSessions, any overlap, any number of sessions, members and tasks | |
| `WorkHoursTypes`, `StandingsCompare` | WorkHours, any number of members, roles and sponsorships | hours are integers, the sets finite |
| `LoansStayWithinStock` | InventoryLoans, any overlap, any number of loans | |
| `ReadingsNeverFall`, `PointsHaveOneMeter`, `BillsFit` | Metering, any overlap, any finite sets of meters and years | |
| `InsuredRowsAreWhole` | Insurance, any overlap | |
| `PeopleImplementsComponents`, `PeoplePromises` | the composition `People` | |
| `ThingsImplementsComponents`, `ThingsPromises` | the composition `Things` | |
| `PurchasePromises` | the composition `Things` | purchase handlers do not overlap (`OneAtATime`) |

The conditions are those of the runs: where one of them is dropped, section 5 says
which behaviour of the code breaks the property. Where no condition is named the
exceptions are in the property itself, one history variable for each (section 2).

**The arguments.**

* *InvoiceRuns.* That sequence numbers are unique is not inductive: a commit only
  compares displayed numbers. The invariant is `NumbersUnique` (what the unique
  index enforces) with `NumberedBySequence` (under the default format a number
  is year and sequence), and that the batch of one commit is injective in the
  rank of the parcel (`RankMonotone`, `BatchNumbersUnique`). `OwnInv` says that
  what a finalization has read of definitions belongs to its run, and that a
  definition never changes its run (`OwnerStays`). `BilledRight` rests on `ReadInv`: what
  a finalization has read, and then computed, differs from what is there now only in
  definitions in `edited` and parcels in `moved` (`Watched`, `SameRowBillsSame`); the
  commit then adds exactly its batch (`CommitAdds`). `NumbersStay` rests on the unique
  index (`NumbersUnique`) and on invoices leaving with their parcel or their run only
  (`LeavesWhenGone`), neither of which comes back (`GoneForGood`). For one request at
  a time `SerialInv` says what a request in flight may rely on: it is about a run that
  is still DRAFT (`DraftInv`), and the numbers it has fixed are not in use in the year
  (`FreeInv`). That a commit is a `Close` of
  `InvoiceLedger` (`CommitCloses`) needs that its numbers are consecutive in plot
  order: the parcels and the entries of the batch correspond one to one, so that the
  distance of two ranks is the number of entries between them (`RankDifference`).
* *PurchaseRequests.* `SeenInv` says that an approving handler has seen no more
  approvals than there are; with `FiledInv`, that who filed a request does not change
  and was compared, a commit to APPROVED has two. One handler at a time knows the
  rows as they are (`CurrentInv`), so that the second approval counts the first.
* *AnnouncementEmail.* `OnceInv`: at most one handler and one task, a task is shown by
  SENDING, a handler that is about to start a send does not coexist with that, and those in
  `left` have had no mail. On it rest `SentInv`, that a task which counts a success has
  reached somebody, and `LateInv`, that no task mails on after its late batch.
* *Tickets.* `IInv` adds to the types that a mail with a message lies below the
  stored UID (`Counted`), that what the poll has in hand lies above it
  (`PollAbove`), that the poll has filed, fetched or noted as skipped everything in
  between (`PollComplete`), and that the first sync happens once (`SyncedOnce`).
  `RowsCurrent`, that a session has the rows of the database, makes a merged row the
  row that was meant. `NotAnsweredYet`, that no answer is filed while the reply is
  still being stored, and `FiledWithReply` give `AnswersFollow`: an answer matches the
  ticket of the reply and no other (`OnlyItsTicket`).
* *TaskBoard.* `ColumnOK` for every column that is not torn: numbered, or with the
  one gap of the one request that is closing it. Lemmas on counting carry the steps:
  `Appended`, `TakenOut`, `GapClosed`, `Inserted`. For the refinement the same invariant
  makes the positions of a column distinct, so that they order it (`InOrderHere`); a
  ranking by position keeps the order of all cards but the moved one (`MoveMoves`), and
  closing the gap shifts no card past another since none has the position of
  the gap (`CloseMovesNothing`).
* *AdminAccess.* `Safe(q)` says of the request that is alive what its check found
  out and what is still true: there is another administrator, or another way in, or
  no membership; the acting administrator is the witness wherever the code
  excludes acting on oneself.
* *Tenancies.* `Accounted` names the request that still attends to an outlived
  folder; it survives a step of that request because nobody lives with such a folder
  unless it was missed (`Inhabited`): a request that finds residents goes away. A request
  deactivates the right row because a parcel has one active folder (`OneActive`,
  the unique index) and the row is of its parcel (`Linked`). `Fresh`, that a deactivation
  nobody has overtaken is of a vacant parcel, gives `FolderIsKept`.
* *InvoiceDelivery.* `SentInv`: what a request has marked has been mailed. `AloneInv`: of
  two mailings alive at once neither is alone. `OnceInv`: what a delivery that mails
  alone has still to send was mailed before by failed requests only.
* *WorkSessions.* A request in flight has read the rows of the moment unless its flag says
  otherwise: `SignupHolds` for a sign-up (the places it counted, the participations it
  found), `TaskChangeHolds` for a change of a task. With `AssigneesExist`, that an assignee
  is a participation there is, a commit of the changed columns only leaves assignee and
  session together. A step of another request either touches a session and flags whoever has
  read it (`TouchNotices`) or touches nothing of theirs. `PlacesTaken` counts what a
  commit adds.
* *WorkHours.* Hours are integers (`WorkHoursTypes`). The sum over the leaseholders is
  the sum over the tenants and the sum over those left out (`TotalsDiffer`), so that the
  API has at least the hours of the page; the sum of the totals is the sum of the
  columns (`ColumnsAddUp`); nothing is open exactly when enough is done
  (`DebtIsWhatIsMissing`). `StandingsOfParcel` puts them together.
* *InventoryLoans.* `RoomInv`: a checkout in flight that is not stale finds the quantity
  on loan it has compared. `OnLoanMore`, `OnLoanLess` and `OnLoanSame` say what one step does
  to the sum over the open loans of an item.
* *Metering.* `ExchangeOK` and `RecordingOK` say what an exchange or a recording that
  was not overtaken knows of its point and meter. `PlausibleFits` is the heart of
  `ReadingsNeverFall`: to compare with the nearest recorded years on both sides is to compare
  with all. `BillsFit` rests on two facts: a bill in `billed` is still what its meter
  would be charged now, since a change of a reading that it does not depend on leaves the
  reading before its year what it was (`BeforeIsSame`, `BillStays`, `BilledIsUsed`); and
  two bills of readings that grow fit together (`TwoBills`). The initial reading of a
  billed meter stays, or the meter goes with its bills.
* *Insurance.* `SaveInv`: a save that is neither stale nor lost has read the row there is, so
  that writing the changed columns only (`SaveCommit`) writes the whole form;
  `WantedIsWhole` says that a form without an insurance has no persons or package.
* *Compositions.* Each step of `People` or `Things` is a step of one component and a
  stutter of the others; the promises follow from the components' theorems.

**Induction over finite sets.** The induction theorems of the library take a predicate as
a parameter, which the installed provers cannot instantiate. `FiniteInduction` states them
with a set in the place of the predicate: a family of finite sets that contains a set as
soon as it contains all its proper subsets contains all of them (`SubsetInduction`; a
smallest counterexample would have to exist, by `FS_StrictSubsetOrderingWellFounded`
and `WFMin`). From it the module derives what the sums of the
community modules compute: existence of the recursive function behind them (`SumExists`),
removal and addition of an element, sums of naturals, of zeros and of pairs (`SumPlus`),
over a set and what is left of it (`SumApart`), and greatest and least elements of
finite sets of integers (`Extrema`).

Only model-checked: `SendEnds`, which is liveness under fairness and beyond the prover.
The counterexamples of section 5 are single behaviours and need no proof. Every other
property of a run is stated by one of the theorems above.

## 5. What the code does that the repository says it does not

With a run of their own:

* `DefinitionsFrozen`: `item_delete` (`finances.py:480`) does not look at the
  status of the run; `en.json:1764` says definitions of a finalized run can no longer
  be changed.
* `RequesterNeverApproves`: a request filed for somebody with an account is not
  tied to that account (`purchase_requests.py:204`), so they can approve it;
  `models.py:1245` says the requester does not count.
* `NewMailProcessed`: for an empty inbox UID 0 becomes NULL
  (`ticket_mailer.py:419`) and the next poll passes over what has arrived, against
  `docs/module-tickets.md:93`.
* `ExemptionIsEvaluated`: with two exempting roles in one year `_is_exempt`
  (`work_hours.py:95`) raises and nobody's standing of that year can be shown;
  `docs/module-work-hours.md:56-57` says one exempt tenant exempts the parcel.

Met while choosing the conditions of the runs and theorems above (drop the
condition named in brackets from the configuration, the property or the theorem to see
them):

* two overlapping finalizations of one run both store invoices, and a deletion of a
  run that overlaps its finalization removes issued invoices [one worker]; definitions
  or tenants that change during a finalization are billed in part as they were
  [edited, moved];
* with `{number}` alone as the format, numbers of two years collide [format], although
  `invoice_generation.py:46` says that `{number}` makes every number unique;
* the number of an invoice that went with its parcel is given out again [Gone], although
  `en.json:1731` calls invoice numbers permanent;
* a restart leaves SENDING behind and every send is refused from then on, although
  `docs/module-announcements.md:121` gives 409 only while one is in progress [the
  exception for tasks that were lost];
* two approvals at the same moment leave a request OPEN for good; approve and reject
  may overwrite each other; an approval made while its author's account is deleted
  goes with it [one worker];
* two retries of a failed send at the same moment mail everybody twice [Overlapping],
  against ADR 0027;
* a poll and "Fetch inbox now" at the same moment file the same mails twice [one
  worker];
* two cards created at the same moment share a position [torn], against
  `models.py:1751`;
* two administrators who remove each other at the same moment lock everybody out
  [one worker], against `permissions.py:83-92`; two invitations of one address at the
  same moment are both valid. `user_edit` accepts any role in the form although ADR
  0041 says nobody is promoted that way; `AdminAccess` models what it accepts;
* after a restart between the two commits, after the REST removal of the last tenant, or
  when the next tenants are quicker than the deactivation, the folder of the old
  tenants stays active for the new ones [missed], against
  `docs/module-cloud-storage.md:73`;
  A folder set for newcomers between the two queries of `deactivate_if_vacant` is
  deactivated as if it were the old one [stale];
* after a failed delivery the whole run is mailed again, and so is an invoice whose
  mail was accepted but reported as failed (`email_service.py:132-145`) [lost];
* overlapping sign-ups overbook a session [stale], and a payload that names a session
  twice is answered with an error for all its sessions [repeated];
* two overlapping changes of one task may leave it with an assignee who is not signed
  up for its session [torn];
* two checkouts at the same moment overlend an item, and its total may be set below what is
  out [strained];
* two exchanges at the same moment leave two active meters, and two recordings at the
  same moment may make readings fall [tangled]; a meter counts as tangled even if what
  overtook the recording was harmless, such as a deletion;
* a reading entered late, corrected or deleted after it was billed makes the next
  invoices charge units again or never (a year before a billed one, entered and billed
  late, is charged twice) [billed];
* two saves of one parcel's insurance may mix [mixed].

Read in the code while translating it, and modelled as it is:

* invoices bill the current meter of a point only (`invoice_generation.py:154-163`): what a
  meter had counted in the year in which it was read and exchanged before the
  finalization is on the overview and on no invoice; a second run of a year bills the
  same consumption again;
* retired items can be lent;
* on the web an insurance amount of 0 keeps the old price; deleting a package leaves
  the insured parcels with a cost of 0; additional persons are not compared with
  the residents of the parcel;
* a comment at `api_work_hours.py:166` promises that a club role goes with its
  assignments, but its deletion fails while somebody holds it;
* ended tenancies still count as tenants in the evaluation of work hours, attended
  sessions without hours count 0, and the API also counts deleted and expired
  members although `api_work_hours.py:549` says "Same rule as the web UI"; the CSV has
  only its headings in the mode PER_MEMBER;
* page and CSV add hours up as floats, the API as decimals, so that at the border one may
  see enough and another not (the model's hours are integers, and exact);
* the confirmation mail of a purchase request leaves before the commit, one mail that
  cannot be stored rolls back every poll, and an answer to a deleted ticket is filed
  where nobody sees it.

## 6. What is not modelled

* **Formatting and pure I/O**: templates, translations, PDF, ICS, number formats,
  the SMTP, IMAP, WordPress and Nextcloud dialogues (only their outcomes).
* **Amounts of invoices**: a price is there or not; sums are arithmetic over a single
  list.
* **Time**: no clock but the day of `Tickets` and whether an invitation is overdue.
  Hence no two tokens signed in the same second, no opening dates of sessions.
* **Permissions per module**: who may call a handler is an input, except where a
  property is about it (`AdminAccess`, the board in `PurchaseRequests`).
* **Single-row edits** that no property relates to anything else: calendar and council
  presence, payments and finance categories, a member's and a parcel's own fields,
  labels and notes of points, whether a task is done, internal notes of tickets,
  settings that are only shown, and the change history written with all of them.
* **Authoring of announcements, blog and print channels**: a row is edited, or one call to
  WordPress is followed by one commit; the REST rendering of a PDF changes nothing.
* **Views over several rows**: the attendee sheet of a session, households of the
  insurance page, the overview and the evaluation of metering (the overview adds up all
  meters of a point, though a comment at `meter_utils.py:106` speaks of the active
  ones), work hours in the mode PER_MEMBER.
* **Sample data, the WordPress plug-in, the update check**: demonstration,
  a client of the public API, a cached string.

## 7. Plan

Done: `InvoiceRuns` with `InvoiceLedger`, `PurchaseRequests`, `AnnouncementEmail`,
`Tickets`, `TaskBoard` with `TaskColumns`, `AdminAccess`, `Tenancies`,
`InvoiceDelivery`, `WorkSessions`, `WorkHours`, `InventoryLoans`, `Metering`,
`Insurance`, the compositions `People` and `Things`, and theorems about all of them.

Left, in this order:

1. The promises that are proved for one request at a time (`InvoiceRuns`, `Tickets`,
   `AdminAccess`, `PurchaseRequests`) for any overlap, with the exceptions recorded in a
   history variable as in the newer modules.
2. The dates that open a session for sign-up, for which a clock is needed as in `Tickets`.
3. An invoice's readings by point instead of by meter, so that what an exchange leaves
   off the invoices can be stated as a property of its own.
4. The blog and print channels of announcements, with the WordPress call before the
   commit; payments and finance categories, once something depends on them.
