------------------------------ MODULE TaskBoard ------------------------------
(***************************************************************************)
(* The task board (app/task_board.py, app/routers/tasks.py,                *)
(* app/routers/api_tasks.py): cards with a position in their column, which *)
(* create, move and delete keep a gapless 0..n-1 by reading columns and    *)
(* writing back new positions.  A request loads, waits and commits later;  *)
(* a deletion commits twice.                                               *)
(***************************************************************************)
EXTENDS Integers, FiniteSets

CONSTANTS
    Cards,    \* task ids
    Columns,  \* TaskStatus, or as many of the three as are checked
    Workers,  \* requests alive at once
    None

ASSUME BoardAssumption == IsFiniteSet(Cards) /\ None \notin Columns

VARIABLES
    card,    \* rows of tasks
    worker,
    torn     \* history: columns a stale commit or a crash may have left misnumbered

vars == <<card, worker, torn>>

Row == [status : Columns \cup {None}, position : Nat]
Unborn == [status |-> None, position |-> 0]

\* seen: the rows as the session loaded them; rows: what it is going to write.
Worker == [at : {"idle", "create", "move", "moving", "delete", "close", "closing"},
           card : Cards \cup {None}, column : Columns \cup {None}, index : Nat,
           seen : [Cards -> Row], rows : [Cards -> Row]]
Nothing == [c \in Cards |-> Unborn]
Idle == [at |-> "idle", card |-> None, column |-> None, index |-> 0,
         seen |-> Nothing, rows |-> Nothing]

TypeOK ==
    /\ card \in [Cards -> Row]
    /\ worker \in [Workers -> Worker]
    /\ \A w \in Workers : worker[w].at \notin {"idle", "move"} => worker[w].column \in Columns
    /\ \A w \in Workers : worker[w].at \in {"move", "moving", "delete"} =>
                              worker[w].card \in Cards
    /\ torn \subseteq Columns

Init ==
    /\ card = Nothing
    /\ worker = [w \in Workers |-> Idle]
    /\ torn = {}
-----------------------------------------------------------------------------
Exists(c) == card[c].status # None
Column(rows, s) == {c \in Cards : rows[c].status = s}
Fetched(S) == [c \in Cards |-> IF card[c].status \in S THEN card[c] ELSE Unborn]
Free(c) ==
    /\ ~Exists(c)
    /\ \A w \in Workers : worker[w].card # c /\ worker[w].seen[c] = Unborn

End(w) == worker' = [worker EXCEPT ![w] = Idle]

\* SQLAlchemy writes only the columns that differ from what the session loaded.
Written(w) == {c \in Cards : worker[w].rows[c] # worker[w].seen[c]}
Merge(now, seen, new) ==
    [col \in DOMAIN now |-> IF new[col] = seen[col] THEN now[col] ELSE new[col]]
Merged(w) == [c \in Cards |-> Merge(card[c], worker[w].seen[c], worker[w].rows[c])]

\* Column s is not what w read, or a deletion has still to close its gap in it.
Stale(w, s) == \E c \in Column(card, s) \cup Column(worker[w].seen, s) :
                   card[c] # worker[w].seen[c]
Closing(v, s) == worker[v].at \in {"close", "closing"} /\ worker[v].column = s
Disturbed(w, s) == Stale(w, s) \/ \E v \in Workers \ {w} : Closing(v, s)
-----------------------------------------------------------------------------
(* task_create: the position is the number of cards counted in the column. *)
CreateLoad(w, s) ==
    /\ worker[w].at = "idle"
    /\ worker' = [worker EXCEPT ![w] = [Idle EXCEPT !.at = "create", !.column = s,
                                                    !.seen = Fetched({s})]]
    /\ UNCHANGED <<card, torn>>

CreateCommit(w, c) ==
    LET s == worker[w].column IN
    /\ worker[w].at = "create" /\ Free(c)
    /\ card' = [card EXCEPT ![c] = [status |-> s,
                                    position |-> Cardinality(Column(worker[w].seen, s))]]
    /\ torn' = IF Disturbed(w, s) THEN torn \cup {s} ELSE torn
    /\ End(w)

(* task_move loads the card, then move_task reads the columns.             *)
MoveLoad(w, c) ==
    /\ worker[w].at = "idle" /\ Exists(c)
    /\ worker' = [worker EXCEPT ![w] = [Idle EXCEPT !.at = "move", !.card = c,
                                           !.seen = [Nothing EXCEPT ![c] = card[c]]]]
    /\ UNCHANGED <<card, torn>>

RankingsUnordered(S, rows) ==   \* MUTANT of Rankings
    {rank \in [S -> 0..Cardinality(S) - 1] : \A a, b \in S : a # b => rank[a] # rank[b]}

\* order_by(Task.position) of the cards S: ties come in any order.
Rankings(S, rows) ==
    {rank \in [S -> 0..Cardinality(S) - 1] :
        \A a, b \in S : /\ a # b => rank[a] # rank[b]
                        /\ rows[a].position < rows[b].position => rank[a] < rank[b]}
Clamped(index, n) == IF index < 0 THEN 0 ELSE IF index > n THEN n ELSE index

\* The task was loaded earlier; its row is not read again.
Reread(w, S) == [Fetched(S) EXCEPT ![worker[w].card] = worker[w].seen[worker[w].card]]

RenumberedGapInSource(c, from, to, index, rows, left, target) ==   \* MUTANT of Renumbered
    [d \in Cards |->
        CASE d = c -> [status |-> to, position |-> index]
          [] d \in DOMAIN target -> [rows[d] EXCEPT !.position =
                                        IF target[d] < index THEN target[d] ELSE target[d] + 1]
          [] OTHER -> rows[d]]

Renumbered(c, from, to, index, rows, left, target) ==
    [d \in Cards |->
        CASE d = c -> [status |-> to, position |-> index]
          [] d \in DOMAIN target -> [rows[d] EXCEPT !.position =
                                        IF target[d] < index THEN target[d] ELSE target[d] + 1]
          [] d \in DOMAIN left /\ from # to -> [rows[d] EXCEPT !.position = left[d]]
          [] OTHER -> rows[d]]

MoveRead(w, to, index) ==
    LET q == worker[w]
        from == q.seen[q.card].status
        rows == Reread(w, {from, to})
        others == [s \in Columns |-> Column(rows, s) \ {q.card}] IN
    /\ q.at = "move"
    /\ \E left \in Rankings(others[from], rows), target \in Rankings(others[to], rows) :
          worker' = [worker EXCEPT ![w] = [q EXCEPT !.at = "moving", !.column = to, !.seen = rows,
              !.rows = Renumbered(q.card, from, to, Clamped(index, Cardinality(others[to])),
                                  rows, left, target)]]
    /\ UNCHANGED <<card, torn>>

\* An UPDATE of a row that has gone fails and rolls back everything.
MoveCommit(w) ==
    LET q == worker[w]
        touched == {q.seen[q.card].status, q.column}
                       \cup {card[c].status : c \in Written(w)} IN
    /\ q.at = "moving"
    /\ \A c \in Written(w) : Exists(c)
    /\ card' = Merged(w)
    /\ torn' = IF \E s \in touched : Disturbed(w, s) THEN torn \cup touched
                                                    ELSE torn \ touched
    /\ End(w)

(* task_delete: the row goes with one commit, the gap with another, at the *)
(* status and position that were loaded.  Deleting a row that has gone     *)
(* already is only a warning.                                              *)
DeleteLoad(w, c) ==
    /\ worker[w].at = "idle" /\ Exists(c)
    /\ worker' = [worker EXCEPT ![w] = [Idle EXCEPT !.at = "delete", !.card = c,
                     !.column = card[c].status, !.index = card[c].position,
                     !.seen = Fetched({card[c].status})]]
    /\ UNCHANGED <<card, torn>>

DeleteCommit(w) ==
    LET q == worker[w]
        touched == {q.column, card[q.card].status} \ {None} IN
    /\ q.at = "delete"
    /\ card' = [card EXCEPT ![q.card] = Unborn]
    /\ torn' = IF \E s \in touched : Disturbed(w, s) THEN torn \cup touched ELSE torn
    /\ worker' = [worker EXCEPT ![w] = [Idle EXCEPT !.at = "close", !.column = q.column,
                                                    !.index = q.index]]

(* close_gap_after_delete.                                                 *)
CloseRead(w) ==
    LET q == worker[w]
        column == Fetched({q.column}) IN
    /\ q.at = "close"
    /\ worker' = [worker EXCEPT ![w] = [q EXCEPT !.at = "closing", !.seen = column,
           !.rows = [c \in Cards |-> IF column[c].position > q.index
                                     THEN [column[c] EXCEPT !.position = @ - 1]
                                     ELSE column[c]]]]
    /\ UNCHANGED <<card, torn>>

CloseCommit(w) ==
    LET q == worker[w] IN
    /\ q.at = "closing"
    /\ \A c \in Written(w) : Exists(c)
    /\ card' = Merged(w)
    /\ torn' = torn \cup ({card[c].status : c \in Written(w)} \ {q.column})
    /\ End(w)

\* An error or a crash: nothing of the open transaction stays.
Abort(w) ==
    /\ worker[w].at # "idle"
    /\ torn' = IF worker[w].at \in {"close", "closing"} THEN torn \cup {worker[w].column}
                                                        ELSE torn
    /\ End(w)
    /\ UNCHANGED card

Next == \E w \in Workers :
    \/ \E s \in Columns : CreateLoad(w, s)
    \/ \E c \in Cards : CreateCommit(w, c)
    \/ \E c \in Cards : MoveLoad(w, c)
    \/ \E to \in Columns, index \in -1..Cardinality(Cards) : MoveRead(w, to, index)
    \/ MoveCommit(w)
    \/ \E c \in Cards : DeleteLoad(w, c)
    \/ DeleteCommit(w)
    \/ CloseRead(w)
    \/ CloseCommit(w)
    \/ Abort(w)

Spec == Init /\ [][Next]_vars
-----------------------------------------------------------------------------
\* In `rows` the positions of the cards S are 0..n-1, or 0..n without `hole`.
Distinct(rows, S) == \A a, b \in S : a # b => rows[a].position # rows[b].position
Numbered(rows, S) ==
    Distinct(rows, S) /\ {rows[c].position : c \in S} = 0..Cardinality(S) - 1
NumberedButFor(rows, S, hole) ==
    Distinct(rows, S) /\ {rows[c].position : c \in S} = (0..Cardinality(S)) \ {hole}

(* "`position` orders cards within their column (0-based, no gaps)"         *)
(* (app/models.py:1751): so it is in every column, with any requests in    *)
(* flight, except where a request wrote over what another had written, a   *)
(* crash hit a deletion between its commits, or the deletion has yet to    *)
(* close its gap; and a move that is not disturbed repairs what was torn.  *)
GaplessUnlessTorn ==
    \A s \in Columns \ torn :
        (\A w \in Workers : ~Closing(w, s)) => Numbered(card, Column(card, s))

(* Between its two commits a deletion leaves exactly its own gap, so a     *)
(* reader sees the other cards in their order.                             *)
OneGapWhileClosing ==
    \A s \in Columns \ torn : \A w \in Workers :
        Closing(w, s) => NumberedButFor(card, Column(card, s), worker[w].index)
-----------------------------------------------------------------------------
\* The cards of column s in the order of their positions.
Precedes(s) == {pair \in Column(card, s) \X Column(card, s) :
                    card[pair[1]].position < card[pair[2]].position}

Board == INSTANCE TaskColumns WITH
    column <- [s \in Columns |-> Column(card, s)],
    before <- [s \in Columns |-> IF s \in torn THEN {} ELSE Precedes(s)],
    loose <- torn

(* Whatever overlaps or fails, the board behaves as columns of cards: a    *)
(* new card comes last, a moved card has one place among the others, and   *)
(* no other card changes its column or its place among the others.         *)
ImplementsColumns == Board!Spec
=============================================================================
