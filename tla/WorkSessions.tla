---------------------------- MODULE WorkSessions ----------------------------
(***************************************************************************)
(* Work sessions, their participations and the tasks done at them          *)
(* (app/routers/work_hours.py, api_work_hours.py), and the public sign-up  *)
(* for sessions (app/routers/api_public.py).                               *)
(*                                                                         *)
(* The board's own handlers on sessions and participations read and write  *)
(* one row each and are one step.  A sign-up and a change of a task decide *)
(* on rows read earlier: they are a load and a commit, with other requests *)
(* in between.  A participation is identified by its session and member;   *)
(* a request holding the id of a removed row learns of it by the flag      *)
(* `lost`.                                                                 *)
(***************************************************************************)
EXTENDS Integers, FiniteSets

CONSTANTS
    Sessions,    \* identities of work sessions
    Members,     \* members of the club
    Households,  \* sets of members that may be the current tenants of a parcel
    Limits,      \* values typed in for max_participants, of either sign
    Marks,       \* statuses the board gives to participations
    Tasks,       \* identities of work tasks
    Desks,       \* requests in flight at the same time
    None,        \* null
    Absent       \* no row

VARIABLES
    limit,    \* work_sessions.max_participants, None without a limit, Absent without a row
    part,     \* status of each member's row in session_participations, or "none"
    task,     \* the rows of work_tasks
    desk,     \* what each request in flight has read and decided
    torn      \* tasks written by a request that had read an older row

vars == <<limit, part, task, desk, torn>>

Status == {"REGISTERED", "ATTENDED", "NO_SHOW"}
Participation == Sessions \X Members
NoTask == [here |-> FALSE, session |-> None, who |-> None]
Task == [here : BOOLEAN, session : Sessions \cup {None},
         who : Participation \cup {None}]
Idle == [at |-> "idle"]
Signup == [at : {"signup"}, people : SUBSET Members, accepted : SUBSET Sessions,
           adds : [Sessions -> SUBSET Members], repeated : BOOLEAN, stale : BOOLEAN]
TaskChange == [at : {"task"}, task : Tasks, seen : Task,
               session : Sessions \cup {None}, who : Participation \cup {None},
               lost : BOOLEAN]

\* All variables have their types, and only existing sessions have
\* participations (the foreign key of session_participations).
TypeOK ==
    /\ limit \in [Sessions -> Limits \cup {None, Absent}]
    /\ part \in [Sessions -> [Members -> Status \cup {"none"}]]
    /\ task \in [Tasks -> Task]
    /\ desk \in [Desks -> {Idle} \cup Signup \cup TaskChange]
    /\ torn \subseteq Tasks
    /\ \A s \in Sessions : limit[s] = Absent => part[s] = [m \in Members |-> "none"]

Init ==
    /\ limit = [s \in Sessions |-> Absent]
    /\ part = [s \in Sessions |-> [m \in Members |-> "none"]]
    /\ task = [t \in Tasks |-> NoTask]
    /\ desk = [d \in Desks |-> Idle]
    /\ torn = {}
-----------------------------------------------------------------------------
Registered(s) == {m \in Members : part[s][m] # "none"}

Occupied(s) == Cardinality({m \in Members : part[s][m] \in {"REGISTERED", "ATTENDED"}})

AvailableSpots(s) == IF limit[s] <= Occupied(s) THEN 0 ELSE limit[s] - Occupied(s)

AnyDeskIdle == \E d \in Desks : desk[d] = Idle

\* Sign-ups in flight that have read session s now hold an old picture of it,
\* and task changes that have checked one of the rows `removed` hold its id.
Touch(s, removed) ==
    desk' = [d \in Desks |->
               IF desk[d].at = "signup"
               THEN [desk[d] EXCEPT !.stale = @ \/ s \in desk[d].accepted]
               ELSE IF desk[d].at = "task"
               THEN [desk[d] EXCEPT !.lost = @ \/ desk[d].who \in removed]
               ELSE desk[d]]

Start(d, q) == desk[d] = Idle /\ desk' = [desk EXCEPT ![d] = q]

Rollback(d) ==
    /\ desk' = [desk EXCEPT ![d] = Idle]
    /\ UNCHANGED <<limit, part, task, torn>>
-----------------------------------------------------------------------------
SessionCreate(s, max) ==
    /\ limit[s] = Absent
    /\ limit' = [limit EXCEPT ![s] = max]
    /\ AnyDeskIdle
    /\ UNCHANGED <<part, task, desk, torn>>

\* The new limit is not compared with the participations there are.
SessionUpdate(s, max) ==
    /\ limit[s] # Absent
    /\ limit' = [limit EXCEPT ![s] = max]
    /\ AnyDeskIdle
    /\ Touch(s, {})
    /\ UNCHANGED <<part, task, torn>>

\* The participations go with the session; the database takes the tasks back
\* to the backlog and clears whoever was assigned.
SessionDelete(s) ==
    /\ limit[s] # Absent
    /\ limit' = [limit EXCEPT ![s] = Absent]
    /\ part' = [part EXCEPT ![s] = [m \in Members |-> "none"]]
    /\ task' = [t \in Tasks |->
                  [task[t] EXCEPT !.session = IF @ = s THEN None ELSE @,
                                  !.who = IF @ \in {s} \X Members THEN None ELSE @]]
    /\ AnyDeskIdle
    /\ Touch(s, {s} \X Members)
    /\ UNCHANGED torn

\* Adding a member at the desk looks for a row of the member, not for a free place.
ParticipantAdd(s, m, status) ==
    /\ limit[s] # Absent /\ part[s][m] = "none"
    /\ part' = [part EXCEPT ![s][m] = status]
    /\ AnyDeskIdle
    /\ Touch(s, {})
    /\ UNCHANGED <<limit, task, torn>>

ParticipationStatusChange(s, m, status) ==
    /\ part[s][m] # "none"
    /\ part' = [part EXCEPT ![s][m] = status]
    /\ AnyDeskIdle
    /\ Touch(s, {})
    /\ UNCHANGED <<limit, task, torn>>

ParticipationRemove(s, m) ==
    /\ part[s][m] # "none"
    /\ part' = [part EXCEPT ![s][m] = "none"]
    /\ task' = [t \in Tasks |->
                  [task[t] EXCEPT !.who = IF @ = <<s, m>> THEN None ELSE @]]
    /\ AnyDeskIdle
    /\ Touch(s, {<<s, m>>})
    /\ UNCHANGED <<limit, torn>>
-----------------------------------------------------------------------------
\* Exactly one tenant of that name: this one; otherwise all of them.
MembersToRegister(tenants, named) ==
    IF Cardinality(named) = 1 THEN named ELSE tenants

FitsWithoutHousehold(s, new) ==   \* MUTANT of Fits
    limit[s] = None \/ AvailableSpots(s) >= IF new = {} THEN 0 ELSE 1

Fits(s, new) == limit[s] = None \/ AvailableSpots(s) >= Cardinality(new)

\* submit_signup up to its inserts: for each chosen session either everybody
\* not yet registered there is going to be, or the session is refused.  The
\* payload may name one of the sessions it adds somebody to twice: it is decided
\* twice on the same picture, and its rows are inserted twice.
SignupLoad(d, tenants, named, chosen, repeated) ==
    LET people == MembersToRegister(tenants, named)
        new(s) == people \ Registered(s)
        accepted == {s \in chosen : limit[s] # Absent /\ Fits(s, new(s))}
        adds == [s \in Sessions |-> IF s \in accepted THEN new(s) ELSE {}]
    IN
    /\ \E s \in accepted : adds[s] # {}
    /\ Start(d, [at |-> "signup", people |-> people, accepted |-> accepted,
                 adds |-> adds, repeated |-> repeated, stale |-> FALSE])
    /\ UNCHANGED <<limit, part, task, torn>>

\* One commit for all sessions; a row that exists by now or is inserted twice
\* (unique constraint) or a session that is gone (foreign key) rolls back the
\* whole sign-up.
SignupCommit(d) ==
    LET adds == desk[d].adds
        possible == /\ ~desk[d].repeated
                    /\ \A s \in Sessions : adds[s] # {} =>
                          limit[s] # Absent /\ adds[s] \cap Registered(s) = {}
    IN
    /\ desk[d].at = "signup"
    /\ IF possible
       THEN /\ part' = [s \in Sessions |-> [m \in Members |->
                          IF m \in adds[s] THEN "REGISTERED" ELSE part[s][m]]]
            /\ desk' = [e \in Desks |->
                 IF e = d THEN Idle
                 ELSE IF desk[e].at = "signup"
                 THEN [desk[e] EXCEPT !.stale =
                         @ \/ \E s \in desk[e].accepted : adds[s] # {}]
                 ELSE desk[e]]
            /\ UNCHANGED <<limit, task, torn>>
       ELSE Rollback(d)
-----------------------------------------------------------------------------
TaskCreate(t, s) ==
    /\ ~task[t].here
    /\ s # None => limit[s] # Absent
    /\ task' = [task EXCEPT ![t] = [NoTask EXCEPT !.here = TRUE, !.session = s]]
    /\ torn' = torn \ {t}
    /\ AnyDeskIdle
    /\ UNCHANGED <<limit, part, desk>>

TaskDelete(t) ==
    /\ task[t].here
    /\ task' = [task EXCEPT ![t] = NoTask]
    /\ AnyDeskIdle
    /\ UNCHANGED <<limit, part, desk, torn>>

StartTaskChange(d, t, s, who) ==
    /\ Start(d, [at |-> "task", task |-> t, seen |-> task[t], session |-> s,
                 who |-> who, lost |-> FALSE])
    /\ UNCHANGED <<limit, part, task, torn>>

ScheduleKeepingAssignee(d, t, s) ==   \* MUTANT of TaskAssignToSession
    /\ task[t].here
    /\ StartTaskChange(d, t, s, task[t].who)

\* A changed session clears the assignee, the same session leaves it alone.
TaskAssignToSession(d, t, s) ==
    /\ task[t].here
    /\ StartTaskChange(d, t, s, IF s # task[t].session THEN None ELSE task[t].who)

\* Only somebody signed up for the task's own session, or nobody.
TaskParticipantAssign(d, t, m) ==
    LET s == task[t].session IN
    /\ task[t].here /\ s # None
    /\ m # None => part[s][m] # "none"
    /\ StartTaskChange(d, t, s, IF m = None THEN None ELSE <<s, m>>)

\* The REST call may change the session and the assignee at once; the assignee
\* has to be signed up for the new session.
UpdateTask(d, t, s, m) ==
    /\ task[t].here /\ s # None
    /\ part[s][m] # "none"
    /\ StartTaskChange(d, t, s, <<s, m>>)

\* Only columns whose value differs from the loaded one are written.
TaskCommit(d) ==
    LET q == desk[d]
        t == q.task
        movesTo == q.session # q.seen.session
        reassigns == q.who # q.seen.who
        possible ==
            /\ task[t].here
            /\ movesTo /\ q.session # None => limit[q.session] # Absent
            /\ reassigns /\ q.who # None => ~q.lost
    IN
    /\ desk[d].at = "task"
    /\ IF possible
       THEN /\ task' = [task EXCEPT ![t].session = IF movesTo THEN q.session ELSE @,
                                    ![t].who = IF reassigns THEN q.who ELSE @]
            /\ torn' = IF task[t].session = q.seen.session /\ task[t].who = q.seen.who
                       THEN torn ELSE torn \cup {t}
            /\ desk' = [desk EXCEPT ![d] = Idle]
            /\ UNCHANGED <<limit, part>>
       ELSE Rollback(d)
-----------------------------------------------------------------------------
BoardStep ==
    \/ \E s \in Sessions, max \in Limits \cup {None} :
          SessionCreate(s, max) \/ SessionUpdate(s, max)
    \/ \E s \in Sessions : SessionDelete(s)
    \/ \E s \in Sessions, m \in Members, status \in Marks :
          ParticipantAdd(s, m, status) \/ ParticipationStatusChange(s, m, status)
    \/ \E s \in Sessions, m \in Members : ParticipationRemove(s, m)
    \/ \E t \in Tasks : TaskDelete(t)
    \/ \E t \in Tasks, s \in Sessions \cup {None} : TaskCreate(t, s)

SignupStep(d) ==
    \/ \E tenants \in Households, repeated \in BOOLEAN :
          \E named \in SUBSET tenants, chosen \in SUBSET Sessions :
             SignupLoad(d, tenants, named, chosen, repeated)
    \/ SignupCommit(d)

TaskStep(d) ==
    \/ \E t \in Tasks, s \in Sessions \cup {None} : TaskAssignToSession(d, t, s)
    \/ \E t \in Tasks, m \in Members \cup {None} : TaskParticipantAssign(d, t, m)
    \/ \E t \in Tasks, s \in Sessions, m \in Members : UpdateTask(d, t, s, m)
    \/ TaskCommit(d)

Next == BoardStep \/ \E d \in Desks : SignupStep(d) \/ TaskStep(d)

Spec == Init /\ [][Next]_vars
-----------------------------------------------------------------------------
\* A task with an assignee is scheduled to the session that person signed up
\* for, unless two changes of the task overlapped (docs/module-work-hours.md:
\* an assignment only makes sense for that session).  The rule has to survive
\* rescheduling, the removal of participations and of whole sessions, and the
\* writing of changed columns only.
TaskOnOwnSession ==
    \A t \in Tasks : task[t].who # None /\ t \notin torn =>
        /\ task[t].who \in {task[t].session} \X Members
        /\ part[task[t].who[1]][task[t].who[2]] # "none"

\* A sign-up whose sessions nobody has touched since it read them keeps its
\* word, unless it names one of them twice and is answered with an error:
\* wherever it answers "accepted" everybody it stands for is registered
\* afterwards, and it never fills a session beyond its limit.  The answer is
\* computed before the inserts, over several sessions and a whole household.
SignupKeepsItsWord ==
    [][\A d \in Desks :
         desk[d].at = "signup" /\ desk'[d] = Idle /\ ~desk[d].stale /\ ~desk[d].repeated =>
         \A s \in desk[d].accepted :
            /\ desk[d].people \subseteq {m \in Members : part'[s][m] # "none"}
            /\ desk[d].adds[s] # {} /\ limit[s] # None => Occupied(s)' <= limit[s]]_vars
=============================================================================
