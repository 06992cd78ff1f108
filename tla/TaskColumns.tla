----------------------------- MODULE TaskColumns -----------------------------
(***************************************************************************)
(* What the task board promises: every column holds its cards in an order, *)
(* a new card comes last, a card leaves without disturbing the others, and *)
(* a move takes one card out and puts it in one place among the others.    *)
(* A column whose order got lost is loose: only the set of its cards is    *)
(* known, and only a move from or into it gives it an order again.         *)
(***************************************************************************)
CONSTANTS Cards, Columns

VARIABLES
    column,   \* the cards of each column
    before,   \* of each column in order, the pairs of a card and a later one
    loose     \* the columns that are not in order

vars == <<column, before, loose>>

Init ==
    /\ column = [s \in Columns |-> {}]
    /\ before = [s \in Columns |-> {}]
    /\ loose = {}

OnBoard == UNION {column[s] : s \in Columns}

\* r is a strict total order of the cards S.
Orders(r, S) ==
    /\ r \subseteq S \X S
    /\ \A a \in S : <<a, a>> \notin r
    /\ \A a, b \in S : a # b => (<<a, b>> \in r <=> <<b, a>> \notin r)
    /\ \A a, b, c \in S : <<a, b>> \in r /\ <<b, c>> \in r => <<a, c>> \in r

InOrder == \A s \in Columns :
    IF s \in loose THEN before[s] = {} ELSE Orders(before[s], column[s])

\* All cards but `moved` stay in their order; columns may get loose, but only
\* those in `repaired` get an order again.
Keeps(moved, repaired) ==
    /\ InOrder'
    /\ loose \ loose' \subseteq repaired
    /\ \A s \in Columns \ (loose \cup loose') : \A a, b \in column[s] \ moved :
          <<a, b>> \in before'[s] <=> <<a, b>> \in before[s]

Add(c, to) ==
    /\ c \notin OnBoard
    /\ column' = [column EXCEPT ![to] = @ \cup {c}]
    /\ Keeps({c}, {})
    /\ to \notin loose' => \A a \in column[to] : <<a, c>> \in before'[to]

Leave(c) ==
    /\ c \in OnBoard
    /\ column' = [s \in Columns |-> column[s] \ {c}]
    /\ Keeps({c}, {})

Move(c, to) ==
    /\ c \in OnBoard
    /\ column' = [s \in Columns |-> IF s = to THEN column[s] \cup {c} ELSE column[s] \ {c}]
    /\ Keeps({c}, {to} \cup {s \in Columns : c \in column[s]})

Lose == column' = column /\ Keeps({}, {})

Next ==
    \/ \E c \in Cards, to \in Columns : Add(c, to) \/ Move(c, to)
    \/ \E c \in Cards : Leave(c)
    \/ Lose

Spec == Init /\ [][Next]_vars
=============================================================================
