--------------------------- MODULE TaskBoardProofs ---------------------------
(***************************************************************************)
(* Theorems about TaskBoard, for any finite set of cards, any columns and  *)
(* any number of overlapping requests.                                     *)
(***************************************************************************)
EXTENDS TaskBoard, TLAPS, FiniteSetTheorems, FunctionTheorems

-----------------------------------------------------------------------------
(* What renumbering does to positions.                                     *)

LEMMA CountFinite ==
    ASSUME NEW S \in SUBSET Cards
    PROVE  IsFiniteSet(S) /\ Cardinality(S) \in Nat
BY BoardAssumption, FS_Subset, FS_CardinalityType

\* A new card behind a numbered column leaves it numbered.
LEMMA Appended ==
    ASSUME NEW f \in [Cards -> Row], NEW g \in [Cards -> Row], NEW S \in SUBSET Cards,
           NEW c \in Cards \ S, Numbered(f, S),
           \A d \in S : g[d] = f[d], g[c].position = Cardinality(S)
    PROVE  Numbered(g, S \cup {c})
<1> DEFINE n == Cardinality(S)
<1>1. IsFiniteSet(S) /\ n \in Nat
  BY CountFinite
<1>2. Cardinality(S \cup {c}) = n + 1
  BY <1>1, FS_AddElement
<1>3. \A d \in S : g[d].position \in 0..n - 1
  BY DEF Numbered
<1> HIDE DEF n
<1>4. Distinct(g, S \cup {c})
  BY <1>1, <1>3 DEF Numbered, Distinct, n
<1>5. {g[d].position : d \in S \cup {c}} = {f[d].position : d \in S} \cup {n}
  BY DEF n
<1>6. {g[d].position : d \in S \cup {c}} = 0..n
  BY <1>1, <1>5 DEF Numbered, n
<1>7. Cardinality(S \cup {c}) - 1 = n
  BY <1>1, <1>2
<1> QED
  BY <1>4, <1>6, <1>7 DEF Numbered

\* Taking a card out of a numbered column leaves its gap.
LEMMA TakenOut ==
    ASSUME NEW f \in [Cards -> Row], NEW g \in [Cards -> Row], NEW S \in SUBSET Cards,
           NEW c \in S, Numbered(f, S), \A d \in S \ {c} : g[d] = f[d]
    PROVE  /\ NumberedButFor(g, S \ {c}, f[c].position)
           /\ f[c].position \in 0..Cardinality(S \ {c})
<1> DEFINE n == Cardinality(S)  T == S \ {c}
<1>1. IsFiniteSet(S) /\ n \in Nat
  BY CountFinite
<1>2. Cardinality(T) = n - 1
  BY <1>1, FS_RemoveElement
<1>3. {f[d].position : d \in S} = 0..n - 1
  BY DEF Numbered
<1>4. {g[d].position : d \in T} = {f[d].position : d \in S} \ {f[c].position}
  BY DEF Numbered, Distinct
<1>5. Distinct(g, T)
  BY DEF Numbered, Distinct
<1>6. f[c].position \in 0..n - 1
  BY <1>3
<1> HIDE DEF n, T
<1> QED
  BY <1>2, <1>3, <1>4, <1>5, <1>6 DEF NumberedButFor, T

\* Moving the cards behind the gap down by one closes it.
LEMMA GapClosed ==
    ASSUME NEW f \in [Cards -> Row], NEW g \in [Cards -> Row], NEW S \in SUBSET Cards,
           NEW hole \in 0..Cardinality(S), NumberedButFor(f, S, hole),
           \A d \in S : g[d].position = IF f[d].position > hole THEN f[d].position - 1
                                                              ELSE f[d].position
    PROVE  Numbered(g, S)
<1> DEFINE n == Cardinality(S)
<1>1. n \in Nat
  BY CountFinite
<1>2. \A d \in S : f[d].position \in 0..n /\ f[d].position # hole
  BY DEF NumberedButFor
<1>3. \A i \in 0..n : i # hole => \E d \in S : f[d].position = i
  <2> SUFFICES ASSUME NEW i \in 0..n, i # hole PROVE i \in {f[d].position : d \in S}
    OBVIOUS
  <2> QED
    BY DEF NumberedButFor
<1> HIDE DEF n
<1>4. Distinct(g, S)
  BY <1>1, <1>2 DEF NumberedButFor, Distinct, n
<1>5. \A d \in S : g[d].position \in 0..n - 1
  BY <1>1, <1>2 DEF n
<1>6. ASSUME NEW i \in 0..n - 1 PROVE \E d \in S : g[d].position = i
  <2>1. CASE i < hole
    <3>1. PICK d \in S : f[d].position = i
      BY <1>1, <1>3, <2>1
    <3> QED
      BY <1>1, <2>1, <3>1 DEF n
  <2>2. CASE i >= hole
    <3>1. PICK d \in S : f[d].position = i + 1
      BY <1>1, <1>3, <2>2 DEF n
    <3> QED
      BY <1>1, <2>2, <3>1 DEF n
  <2> QED
    BY <1>1, <2>1, <2>2 DEF n
<1>7. {g[d].position : d \in S} = 0..n - 1
  BY <1>5, <1>6
<1> QED
  BY <1>4, <1>7 DEF Numbered, n

\* A ranking hits every position.
LEMMA RankOnto ==
    ASSUME NEW S \in SUBSET Cards, NEW rows, NEW r \in Rankings(S, rows)
    PROVE  /\ r \in [S -> 0..Cardinality(S) - 1]
           /\ \A a, b \in S : a # b => r[a] # r[b]
           /\ \A i \in 0..Cardinality(S) - 1 : \E d \in S : r[d] = i
<1> DEFINE n == Cardinality(S)
<1>1. IsFiniteSet(S) /\ n \in Nat
  BY CountFinite
<1>2. r \in [S -> 0..n - 1] /\ \A a, b \in S : a # b => r[a] # r[b]
  BY DEF Rankings
<1>3. r \in Injection(S, 0..n - 1)
  BY <1>2 DEF Injection, IsInjective
<1>4. IsFiniteSet(0..n - 1) /\ Cardinality(0..n - 1) = n
  <2>1. 0 \in Int /\ n - 1 \in Int /\ n = (IF 0 > n - 1 THEN 0 ELSE n - 1 - 0 + 1)
    BY <1>1
  <2> HIDE DEF n
  <2> QED
    BY <2>1, FS_Interval
<1>5. r \in Surjection(S, 0..n - 1)
  BY <1>1, <1>3, <1>4, FS_Injection
<1> QED
  BY <1>2, <1>5 DEF Surjection

\* The column a card left is numbered by its ranking.
LEMMA Ranked ==
    ASSUME NEW S \in SUBSET Cards, NEW rows, NEW r \in Rankings(S, rows),
           NEW g \in [Cards -> Row], \A d \in S : g[d].position = r[d]
    PROVE  Numbered(g, S)
<1>1. Distinct(g, S)
  BY RankOnto DEF Distinct
<1>2. {g[d].position : d \in S} = 0..Cardinality(S) - 1
  BY RankOnto
<1> QED
  BY <1>1, <1>2 DEF Numbered

\* So is the column it was inserted into.
LEMMA Inserted ==
    ASSUME NEW S \in SUBSET Cards, NEW rows, NEW r \in Rankings(S, rows),
           NEW g \in [Cards -> Row], NEW c \in Cards \ S, NEW index \in 0..Cardinality(S),
           \A d \in S : g[d].position = IF r[d] < index THEN r[d] ELSE r[d] + 1,
           g[c].position = index
    PROVE  Numbered(g, S \cup {c})
<1> DEFINE n == Cardinality(S)
<1>1. IsFiniteSet(S) /\ n \in Nat
  BY CountFinite
<1>2. Cardinality(S \cup {c}) = n + 1
  BY <1>1, FS_AddElement
<1>3. /\ \A d \in S : r[d] \in 0..n - 1
      /\ \A a, b \in S : a # b => r[a] # r[b]
      /\ \A i \in 0..n - 1 : \E d \in S : r[d] = i
  BY RankOnto
<1> HIDE DEF n
<1>4. Distinct(g, S \cup {c})
  BY <1>1, <1>3 DEF Distinct, n
<1>5. \A d \in S \cup {c} : g[d].position \in 0..n
  BY <1>1, <1>3 DEF n
<1>6. ASSUME NEW i \in 0..n PROVE \E d \in S \cup {c} : g[d].position = i
  <2>1. CASE i < index
    <3>1. PICK d \in S : r[d] = i
      BY <1>1, <1>3, <2>1 DEF n
    <3> QED
      BY <2>1, <3>1
  <2>2. CASE i > index
    <3>1. PICK d \in S : r[d] = i - 1
      BY <1>1, <1>3, <2>2 DEF n
    <3> QED
      BY <1>1, <2>2, <3>1 DEF n
  <2>3. CASE i = index
    BY <2>3
  <2> QED
    BY <1>1, <2>1, <2>2, <2>3 DEF n
<1>7. {g[d].position : d \in S \cup {c}} = 0..n
  BY <1>5, <1>6
<1>8. Cardinality(S \cup {c}) - 1 = n
  BY <1>1, <1>2
<1> QED
  BY <1>4, <1>7, <1>8 DEF Numbered
-----------------------------------------------------------------------------
(* Types, and what a request holds at each stage.                          *)

Rest(q, s) == Column(q.seen, s) \ {q.card}

\* What MoveRead prepared: every card of the two columns has its new place.
Prepared(q) ==
    LET from == q.seen[q.card].status IN
    /\ q.card \in Cards /\ q.column \in Columns /\ from \in Columns
    /\ \A d \in Cards : q.seen[d].status \in {from, q.column} \/ q.seen[d] = Unborn
    /\ \E left \in Rankings(Rest(q, from), q.seen),
          target \in Rankings(Rest(q, q.column), q.seen),
          index \in 0..Cardinality(Rest(q, q.column)) :
             q.rows = Renumbered(q.card, from, q.column, index, q.seen, left, target)

InFlight(q) ==
    /\ q.at = "move" => q.card \in Cards /\ q.seen[q.card].status \in Columns
    /\ q.at = "moving" => Prepared(q)
    /\ q.at = "create" => q.column \in Columns
    /\ q.at = "delete" => /\ q.card \in Cards /\ q.column \in Columns
                          /\ q.seen[q.card] = [status |-> q.column, position |-> q.index]
    /\ q.at \in {"close", "closing"} => q.column \in Columns
    /\ q.at = "closing" => \A c \in Cards : q.rows[c].status = q.seen[c].status

Typed == TypeOK /\ \A w \in Workers : InFlight(worker[w])

LEMMA IdleType == Idle \in Worker /\ Idle.at = "idle" /\ InFlight(Idle) /\ Nothing \in [Cards -> Row]
BY DEF Idle, Worker, Nothing, Unborn, Row, InFlight

LEMMA MergeType ==
    ASSUME NEW now \in Row, NEW seen, NEW new \in Row
    PROVE  /\ Merge(now, seen, new) \in Row
           /\ Merge(now, seen, new).status =
                 IF new.status = seen.status THEN now.status ELSE new.status
           /\ new = seen => Merge(now, seen, new) = now
           /\ now = seen => Merge(now, seen, new) = new
BY DEF Merge, Row

LEMMA MergedType ==
    ASSUME TypeOK, NEW w \in Workers
    PROVE  /\ Merged(w) \in [Cards -> Row]
           /\ worker[w].seen \in [Cards -> Row] /\ worker[w].rows \in [Cards -> Row]
           /\ \A c \in Cards : worker[w].rows[c] = worker[w].seen[c] => Merged(w)[c] = card[c]
           /\ \A c \in Cards : card[c] = worker[w].seen[c] => Merged(w)[c] = worker[w].rows[c]
           /\ \A c \in Cards : worker[w].rows[c].status = worker[w].seen[c].status =>
                                   Merged(w)[c].status = card[c].status
<1>1. card \in [Cards -> Row] /\ worker[w].seen \in [Cards -> Row] /\ worker[w].rows \in [Cards -> Row]
  BY DEF TypeOK, Worker
<1>2. ASSUME NEW c \in Cards
      PROVE  /\ Merge(card[c], worker[w].seen[c], worker[w].rows[c]) \in Row
             /\ worker[w].rows[c] = worker[w].seen[c] => Merged(w)[c] = card[c]
             /\ card[c] = worker[w].seen[c] => Merged(w)[c] = worker[w].rows[c]
             /\ worker[w].rows[c].status = worker[w].seen[c].status =>
                    Merged(w)[c].status = card[c].status
  <2>1. card[c] \in Row /\ worker[w].rows[c] \in Row
    BY <1>1
  <2>2. Merged(w)[c] = Merge(card[c], worker[w].seen[c], worker[w].rows[c])
    BY DEF Merged
  <2> QED
    BY <2>1, <2>2, MergeType
<1> QED
  BY <1>1, <1>2 DEF Merged

LEMMA FetchedType ==
    ASSUME TypeOK, NEW S
    PROVE  Fetched(S) \in [Cards -> Row]
BY DEF TypeOK, Fetched, Unborn, Row

LEMMA RenumberedType ==
    ASSUME NEW c \in Cards, NEW from \in Columns, NEW to \in Columns, NEW rows \in [Cards -> Row],
           NEW L \in SUBSET Cards, NEW T \in SUBSET Cards,
           c \notin L \cup T, from # to => L \cap T = {},
           NEW left \in Rankings(L, rows), NEW target \in Rankings(T, rows), NEW index \in Nat
    PROVE  Renumbered(c, from, to, index, rows, left, target) \in [Cards -> Row]
<1>1. /\ DOMAIN left = L /\ \A d \in L : left[d] \in Nat
      /\ DOMAIN target = T /\ \A d \in T : target[d] \in Nat
  BY CountFinite DEF Rankings
<1> DEFINE new == Renumbered(c, from, to, index, rows, left, target)
<1>2. ASSUME NEW d \in Cards PROVE new[d] \in Row
  <2>1. rows[d] \in Row
    OBVIOUS
  <2>2. CASE d = c
    BY <1>1, <2>2 DEF Renumbered, Row
  <2>3. CASE d # c /\ d \in T
    BY <1>1, <2>1, <2>3 DEF Renumbered, Row
  <2>4. CASE d # c /\ d \notin T /\ d \in L /\ from # to
    BY <1>1, <2>1, <2>4 DEF Renumbered, Row
  <2>5. CASE d # c /\ d \notin T /\ ~(d \in L /\ from # to)
    BY <1>1, <2>1, <2>5 DEF Renumbered
  <2> QED
    BY <2>2, <2>3, <2>4, <2>5
<1> QED
  BY <1>2 DEF Renumbered

\* MoveRead hands over what Prepared says.
LEMMA MoveReadPrepares ==
    ASSUME Typed, NEW w \in Workers, NEW to \in Columns,
           NEW index \in -1..Cardinality(Cards), MoveRead(w, to, index)
    PROVE  worker'[w] \in Worker /\ worker'[w].at = "moving" /\ Prepared(worker'[w])
<1> DEFINE q == worker[w]
           from == q.seen[q.card].status
           rows == Reread(w, {from, to})
           others == [s \in Columns |-> Column(rows, s) \ {q.card}]
<1>0. q \in Worker /\ q.at = "move" /\ q.card \in Cards /\ from \in Columns
  BY DEF MoveRead, Typed, TypeOK, InFlight
<1>1. rows \in [Cards -> Row] /\ rows[q.card] = q.seen[q.card]
  BY <1>0, FetchedType DEF Reread, Worker, Typed
<1>2. \A s \in Columns : others[s] \in SUBSET Cards
  BY DEF Column
<1>3. \A d \in Cards : rows[d].status \in {from, to} \/ rows[d] = Unborn
  BY <1>0 DEF Reread, Fetched
<1>4. PICK left \in Rankings(others[from], rows), target \in Rankings(others[to], rows) :
         worker' = [worker EXCEPT ![w] = [q EXCEPT !.at = "moving", !.column = to, !.seen = rows,
              !.rows = Renumbered(q.card, from, to, Clamped(index, Cardinality(others[to])),
                                  rows, left, target)]]
  BY DEF MoveRead
<1>6. Cardinality(others[to]) \in Nat
  <2>1. others[to] \in SUBSET Cards
    BY <1>2
  <2> QED
    BY <2>1, CountFinite
<1>5. Clamped(index, Cardinality(others[to])) \in 0..Cardinality(others[to])
  <2>1. index \in Int
    BY BoardAssumption, FS_CardinalityType
  <2> HIDE DEF others
  <2> QED
    BY <1>6, <2>1 DEF Clamped
<1>7. Renumbered(q.card, from, to, Clamped(index, Cardinality(others[to])), rows, left, target)
         \in [Cards -> Row]
  <2>1. q.card \notin others[from] \cup others[to]
    BY <1>0
  <2>2. from # to => others[from] \cap others[to] = {}
    BY <1>0 DEF Column
  <2>3. others[from] \in SUBSET Cards /\ others[to] \in SUBSET Cards
    BY <1>0, <1>2
  <2>4. Clamped(index, Cardinality(others[to])) \in Nat
    <3> HIDE DEF others
    <3> QED
      BY <1>5, <1>6
  <2> HIDE DEF others, from, rows
  <2> QED
    BY <1>0, <1>1, <2>1, <2>2, <2>3, <2>4, RenumberedType
<1> HIDE DEF rows
<1>8. /\ worker'[w].at = "moving" /\ worker'[w].column = to /\ worker'[w].seen = rows
      /\ worker'[w].card = q.card /\ worker'[w].index = q.index
      /\ worker'[w].rows = Renumbered(q.card, from, to, Clamped(index, Cardinality(others[to])),
                                      rows, left, target)
  BY <1>0, <1>4 DEF Typed, TypeOK, Worker
<1>9. worker'[w] \in Worker
  BY <1>0, <1>1, <1>4, <1>7, <1>8 DEF Typed, TypeOK, Worker
<1>10. \A s \in Columns : Rest(worker'[w], s) = others[s]
  BY <1>8 DEF Rest
<1>11. worker'[w].seen[worker'[w].card].status = from
  BY <1>1, <1>8
<1> DEFINE p == worker'[w]
<1>12. /\ p.card \in Cards /\ p.column \in Columns /\ from \in Columns
       /\ \A d \in Cards : p.seen[d].status \in {from, p.column} \/ p.seen[d] = Unborn
  BY <1>0, <1>3, <1>8
<1>13. /\ left \in Rankings(Rest(p, from), p.seen)
       /\ target \in Rankings(Rest(p, p.column), p.seen)
       /\ Clamped(index, Cardinality(others[to])) \in 0..Cardinality(Rest(p, p.column))
       /\ p.rows = Renumbered(p.card, from, p.column, Clamped(index, Cardinality(others[to])),
                              p.seen, left, target)
  <2>1. Rest(p, from) = others[from] /\ Rest(p, to) = others[to]
    BY <1>0, <1>10
  <2> HIDE DEF from, others
  <2> QED
    BY <1>4, <1>5, <1>8, <2>1
<1>14. p.seen[p.card].status = from
  BY <1>11
<1> HIDE DEF p, from, others
<1>15. Prepared(p)
  BY <1>12, <1>13, <1>14 DEF Prepared
<1> QED
  BY <1>8, <1>9, <1>15 DEF p

LEMMA StepTyped ==
    ASSUME Typed, NEW w \in Workers, NEW q \in Worker, InFlight(q),
           worker' = [worker EXCEPT ![w] = q], card' \in [Cards -> Row], torn' \subseteq Columns
    PROVE  Typed'
<1>1. \A v \in Workers : worker'[v] = IF v = w THEN q ELSE worker[v]
  BY DEF Typed, TypeOK
<1>2. worker' \in [Workers -> Worker]
  BY <1>1 DEF Typed, TypeOK
<1>3. \A v \in Workers : InFlight(worker'[v])
  BY <1>1 DEF Typed
<1>4. \A v \in Workers : InFlight(worker[v])'
  BY <1>3 DEF InFlight, Prepared, Rest
<1>5. q.at \in {"idle", "create", "move", "moving", "delete", "close", "closing"}
  BY DEF Worker
<1>6. q.at \notin {"idle", "move"} => q.column \in Columns
  BY <1>5 DEF InFlight, Prepared
<1>7. q.at \in {"move", "moving", "delete"} => q.card \in Cards
  BY DEF InFlight, Prepared
<1>8. \A v \in Workers : /\ worker'[v].at \notin {"idle", "move"} => worker'[v].column \in Columns
                         /\ worker'[v].at \in {"move", "moving", "delete"} => worker'[v].card \in Cards
  BY <1>1, <1>6, <1>7 DEF Typed, TypeOK
<1> QED
  BY <1>2, <1>4, <1>8 DEF Typed, TypeOK

LEMMA EndTyped ==
    ASSUME Typed, NEW w \in Workers, End(w), card' \in [Cards -> Row], torn' \subseteq Columns
    PROVE  Typed'
BY IdleType, StepTyped DEF End

LEMMA InitTyped == Init => Typed
BY IdleType DEF Init, Typed, TypeOK, Idle

LEMMA NextTyped == Typed /\ [Next]_vars => Typed'
<1> SUFFICES ASSUME Typed, [Next]_vars PROVE Typed'
  OBVIOUS
<1>0. /\ card \in [Cards -> Row] /\ torn \subseteq Columns
      /\ worker \in [Workers -> Worker] /\ \A w \in Workers : InFlight(worker[w])
  BY DEF Typed, TypeOK
<1>1. ASSUME NEW w \in Workers, NEW s \in Columns, CreateLoad(w, s) PROVE Typed'
  <2> DEFINE q == [Idle EXCEPT !.at = "create", !.column = s, !.seen = Fetched({s})]
  <2>1. q \in Worker /\ InFlight(q)
    BY IdleType, FetchedType DEF Typed, Worker, InFlight
  <2> QED
    BY <1>0, <1>1, <2>1, StepTyped DEF CreateLoad
<1>2. ASSUME NEW w \in Workers, NEW c \in Cards, CreateCommit(w, c) PROVE Typed'
  <2> DEFINE s == worker[w].column
  <2>1. s \in Columns
    BY <1>0, <1>2 DEF CreateCommit, InFlight
  <2>2. Cardinality(Column(worker[w].seen, s)) \in Nat
    BY CountFinite DEF Column
  <2>3. card' \in [Cards -> Row]
    BY <1>0, <1>2, <2>1, <2>2 DEF CreateCommit, Row
  <2>4. torn' \subseteq Columns
    BY <1>0, <1>2, <2>1 DEF CreateCommit
  <2> QED
    BY <1>2, <2>3, <2>4, EndTyped DEF CreateCommit
<1>3. ASSUME NEW w \in Workers, NEW c \in Cards, MoveLoad(w, c) PROVE Typed'
  <2> DEFINE q == [Idle EXCEPT !.at = "move", !.card = c, !.seen = [Nothing EXCEPT ![c] = card[c]]]
  <2>1. q.seen \in [Cards -> Row] /\ q.seen[c].status \in Columns
    <3>1. card[c] \in Row /\ card[c].status # None
      BY <1>0, <1>3 DEF MoveLoad, Exists
    <3>2. q.seen = [Nothing EXCEPT ![c] = card[c]]
      BY DEF Idle
    <3> QED
      BY <3>1, <3>2, IdleType DEF Row
  <2>2. q \in Worker /\ InFlight(q)
    BY <2>1, IdleType DEF Worker, InFlight
  <2> QED
    BY <1>0, <1>3, <2>2, StepTyped DEF MoveLoad
<1>4. ASSUME NEW w \in Workers, NEW to \in Columns, NEW index \in -1..Cardinality(Cards),
             MoveRead(w, to, index)
      PROVE  Typed'
  <2>1. worker'[w] \in Worker /\ InFlight(worker'[w])
    BY <1>4, MoveReadPrepares DEF InFlight
  <2>2. worker' = [worker EXCEPT ![w] = worker'[w]]
    BY <1>0, <1>4 DEF MoveRead
  <2>3. card' = card /\ torn' = torn
    BY <1>4 DEF MoveRead
  <2> HIDE DEF MoveRead
  <2> QED
    BY <1>0, <2>1, <2>2, <2>3, StepTyped
<1>5. ASSUME NEW w \in Workers, MoveCommit(w) PROVE Typed'
  <2> DEFINE q == worker[w]
  <2>1. q.seen[q.card].status \in Columns /\ q.column \in Columns
    BY <1>0, <1>5 DEF MoveCommit, InFlight, Prepared
  <2>2. \A c \in Written(w) : card[c].status \in Columns
    BY <1>0, <1>5 DEF MoveCommit, Written, Exists, Row
  <2>3. torn' \subseteq Columns
    BY <1>0, <1>5, <2>1, <2>2 DEF MoveCommit
  <2>4. card' \in [Cards -> Row]
    BY <1>5, MergedType DEF MoveCommit, Typed
  <2> QED
    BY <1>5, <2>3, <2>4, EndTyped DEF MoveCommit
<1>6. ASSUME NEW w \in Workers, NEW c \in Cards, DeleteLoad(w, c) PROVE Typed'
  <2> DEFINE q == [Idle EXCEPT !.at = "delete", !.card = c, !.column = card[c].status,
                               !.index = card[c].position, !.seen = Fetched({card[c].status})]
  <2>1. card[c] \in Row /\ card[c].status \in Columns
    BY <1>0, <1>6 DEF DeleteLoad, Exists, Row
  <2>2. Fetched({card[c].status}) \in [Cards -> Row] /\ Fetched({card[c].status})[c] = card[c]
    BY FetchedType DEF Typed, Fetched
  <2>3. q \in Worker
    BY <2>1, <2>2, IdleType DEF Worker, Row
  <2>4. InFlight(q)
    BY <2>1, <2>2 DEF InFlight, Idle, Row
  <2> QED
    BY <1>0, <1>6, <2>3, <2>4, StepTyped DEF DeleteLoad
<1>7. ASSUME NEW w \in Workers, DeleteCommit(w) PROVE Typed'
  <2> DEFINE q == [Idle EXCEPT !.at = "close", !.column = worker[w].column, !.index = worker[w].index]
  <2>1. worker[w] \in Worker /\ worker[w].column \in Columns /\ worker[w].card \in Cards
    BY <1>0, <1>7 DEF DeleteCommit, InFlight
  <2>2. q \in Worker /\ InFlight(q)
    BY <2>1, IdleType DEF Worker, InFlight
  <2>3. card' \in [Cards -> Row]
    BY <1>0, <1>7 DEF DeleteCommit, Unborn, Row
  <2>4. torn' \subseteq Columns
    BY <1>0, <1>7, <2>1 DEF DeleteCommit, Row
  <2> QED
    BY <1>7, <2>2, <2>3, <2>4, StepTyped DEF DeleteCommit
<1>8. ASSUME NEW w \in Workers, CloseRead(w) PROVE Typed'
  <2> DEFINE column == Fetched({worker[w].column})
             rows == [c \in Cards |-> IF column[c].position > worker[w].index
                                      THEN [column[c] EXCEPT !.position = @ - 1] ELSE column[c]]
             q == [worker[w] EXCEPT !.at = "closing", !.seen = column, !.rows = rows]
  <2>1. worker[w] \in Worker /\ worker[w].column \in Columns /\ worker[w].index \in Nat
    BY <1>0, <1>8 DEF CloseRead, InFlight, Worker
  <2>2. column \in [Cards -> Row]
    BY FetchedType DEF Typed
  <2>3. \A c \in Cards : rows[c] \in Row /\ rows[c].status = column[c].status
    <3> HIDE DEF column
    <3> QED
      BY <2>1, <2>2 DEF Row
  <2>4. q \in Worker /\ InFlight(q)
    <3> HIDE DEF column
    <3>1. rows \in [Cards -> Row]
      BY <2>3
    <3> HIDE DEF rows
    <3> QED
      BY <2>1, <2>2, <2>3, <3>1 DEF Worker, InFlight
  <2> QED
    BY <1>0, <1>8, <2>4, StepTyped DEF CloseRead
<1>9. ASSUME NEW w \in Workers, CloseCommit(w) PROVE Typed'
  <2>1. \A c \in Written(w) : card[c].status \in Columns
    BY <1>0, <1>9 DEF CloseCommit, Written, Exists, Row
  <2>2. torn' \subseteq Columns
    BY <1>0, <1>9, <2>1 DEF CloseCommit
  <2>3. card' \in [Cards -> Row]
    BY <1>9, MergedType DEF CloseCommit, Typed
  <2> QED
    BY <1>9, <2>2, <2>3, EndTyped DEF CloseCommit
<1>10. ASSUME NEW w \in Workers, Abort(w) PROVE Typed'
  <2>1. torn' \subseteq Columns
    BY <1>0, <1>10 DEF Abort, InFlight
  <2> QED
    BY <1>0, <1>10, <2>1, EndTyped DEF Abort
<1>11. CASE UNCHANGED vars
  <2>1. \A v \in Workers : InFlight(worker'[v])
    BY <1>0, <1>11 DEF vars
  <2>2. \A v \in Workers : InFlight(worker[v])'
    BY <2>1 DEF InFlight, Prepared, Rest
  <2>3. TypeOK'
    BY <1>11 DEF vars, Typed, TypeOK
  <2> QED
    BY <2>2, <2>3 DEF Typed
<1>12. CASE Next
  <2>1. PICK w \in Workers :
           \/ \E s \in Columns : CreateLoad(w, s)
           \/ \E c \in Cards : CreateCommit(w, c)
           \/ \E c \in Cards : MoveLoad(w, c)
           \/ \E to \in Columns, index \in -1..Cardinality(Cards) : MoveRead(w, to, index)
           \/ MoveCommit(w)
           \/ \E c \in Cards : DeleteLoad(w, c)
           \/ DeleteCommit(w)
           \/ CloseRead(w)
           \/ CloseCommit(w)
           \/ Abort(w)
    BY <1>12 DEF Next
  <2> QED
    BY <2>1, <1>1, <1>2, <1>3, <1>4, <1>5, <1>6, <1>7, <1>8, <1>9, <1>10
<1> QED
  BY <1>11, <1>12

\* Every reachable state is well typed.
THEOREM TypeCorrect == Spec => []TypeOK
<1>1. Typed => TypeOK
  BY DEF Typed
<1> QED
  BY <1>1, InitTyped, NextTyped, PTL DEF Spec
-----------------------------------------------------------------------------
(* A column that is not torn is numbered, but for the gap of the one       *)
(* deletion that is closing it; and that deletion knows the column.        *)

Lowered(rows, hole, c) == IF rows[c].position > hole
                          THEN [rows[c] EXCEPT !.position = @ - 1] ELSE rows[c]

Knows(w, s) == \A c \in Cards :
    /\ worker[w].seen[c] = IF card[c].status = s THEN card[c] ELSE Unborn
    /\ worker[w].rows[c] = IF card[c].status = s THEN Lowered(card, worker[w].index, c) ELSE Unborn

ColumnOK(s) ==
    /\ (\A w \in Workers : ~Closing(w, s)) => Numbered(card, Column(card, s))
    /\ \A w \in Workers : Closing(w, s) =>
          /\ NumberedButFor(card, Column(card, s), worker[w].index)
          /\ worker[w].index \in 0..Cardinality(Column(card, s))
    /\ \A v, w \in Workers : Closing(v, s) /\ Closing(w, s) => v = w
    /\ \A w \in Workers : worker[w].at = "closing" /\ worker[w].column = s => Knows(w, s)

IInv == Typed /\ \A s \in Columns \ torn : ColumnOK(s)

\* A column a step neither writes nor begins or ends to close stays as it was.
LEMMA Untouched ==
    ASSUME Typed, NEW s \in Columns, ColumnOK(s), NEW w \in Workers, NEW q,
           worker' = [worker EXCEPT ![w] = q], ~(q.at \in {"close", "closing"} /\ q.column = s),
           ~Closing(w, s), card' \in [Cards -> Row],
           \A d \in Cards : card[d].status = s \/ card'[d].status = s => card'[d] = card[d]
    PROVE  ColumnOK(s)'
<1>1. \A v \in Workers : worker'[v] = IF v = w THEN q ELSE worker[v]
  BY DEF Typed, TypeOK
<1>2. \A v \in Workers : Closing(v, s)' <=> Closing(v, s)
  BY <1>1 DEF Closing
<1>3. Column(card', s) = Column(card, s)
  BY DEF Column
<1>4. \A d \in Column(card, s) : card'[d] = card[d]
  BY DEF Column
<1>5. /\ Numbered(card, Column(card, s)) => Numbered(card', Column(card, s))
      /\ \A hole : NumberedButFor(card, Column(card, s), hole) =>
                       NumberedButFor(card', Column(card, s), hole)
  BY <1>4 DEF Numbered, NumberedButFor, Distinct
<1>6. \A v \in Workers : Closing(v, s) => worker'[v] = worker[v]
  BY <1>1
<1>7. ASSUME NEW v \in Workers, worker'[v].at = "closing", worker'[v].column = s
      PROVE  Knows(v, s)'
  <2>1. v # w
    BY <1>1, <1>7
  <2>2. worker'[v] = worker[v] /\ Knows(v, s)
    BY <1>1, <1>7, <2>1 DEF ColumnOK
  <2>3. \A d \in Cards : IF card'[d].status = s THEN card[d].status = s /\ card'[d] = card[d]
                                              ELSE card[d].status # s
    OBVIOUS
  <2> QED
    BY <2>2, <2>3 DEF Knows, Lowered
<1> QED
  BY <1>2, <1>3, <1>5, <1>6, <1>7 DEF ColumnOK

\* A column nobody is closing only has to be numbered.
LEMMA Settled ==
    ASSUME NEW s \in Columns, \A v \in Workers : ~Closing(v, s)',
           Numbered(card', Column(card', s))
    PROVE  ColumnOK(s)'
BY DEF ColumnOK, Closing

LEMMA EndOthers ==
    ASSUME Typed, NEW w \in Workers, End(w)
    PROVE  /\ worker' = [worker EXCEPT ![w] = Idle]
           /\ \A s \in Columns : ~(Idle.at \in {"close", "closing"} /\ Idle.column = s)
           /\ \A s \in Columns : ~Closing(w, s)'
           /\ \A s \in Columns, v \in Workers : Closing(v, s)' => v # w /\ Closing(v, s)
BY DEF End, Idle, Typed, TypeOK, Closing

LEMMA CreateCommitKeeps ==
    ASSUME IInv, NEW w \in Workers, NEW c \in Cards, CreateCommit(w, c), NEW s \in Columns \ torn'
    PROVE  ColumnOK(s)'
<1> DEFINE to == worker[w].column
<1>0. Typed /\ Typed' /\ to \in Columns /\ card[c].status = None /\ ColumnOK(s)
  <2>1. Typed'
    BY NextTyped DEF IInv, Next
  <2> QED
    BY <2>1 DEF IInv, CreateCommit, Typed, InFlight, Free, Exists
<1>1. /\ card \in [Cards -> Row] /\ card' \in [Cards -> Row]
      /\ card'[c] = [status |-> to, position |-> Cardinality(Column(worker[w].seen, to))]
      /\ \A d \in Cards \ {c} : card'[d] = card[d]
  BY <1>0 DEF Typed, TypeOK, CreateCommit
<1>2. End(w) /\ ~Closing(w, s)
  BY DEF CreateCommit, Closing
<1>3. CASE s # to
  <2>1. \A d \in Cards : card[d].status = s \/ card'[d].status = s => card'[d] = card[d]
    BY <1>0, <1>1, <1>3, BoardAssumption
  <2> QED
    BY <1>0, <1>1, <1>2, <2>1, EndOthers, Untouched
<1>4. CASE s = to
  <2>1. ~Disturbed(w, s)
    BY <1>4 DEF CreateCommit
  <2>2. \A v \in Workers : ~Closing(v, s)
    BY <1>2, <2>1 DEF Disturbed
  <2>3. Column(worker[w].seen, s) = Column(card, s)
    BY <2>1 DEF Disturbed, Stale, Column
  <2>4. Numbered(card, Column(card, s))
    BY <1>0, <2>2 DEF ColumnOK
  <2>5. Column(card', s) = Column(card, s) \cup {c}
    BY <1>1, <1>4 DEF Column
  <2>6. c \notin Column(card, s) /\ Column(card, s) \in SUBSET Cards
    BY <1>0, BoardAssumption DEF Column
  <2>7. Numbered(card', Column(card', s))
    BY <1>1, <1>4, <2>3, <2>4, <2>5, <2>6, Appended
  <2>8. \A v \in Workers : ~Closing(v, s)'
    BY <1>0, <1>2, <2>2, EndOthers
  <2> QED
    BY <2>7, <2>8, Settled
<1> QED
  BY <1>3, <1>4

LEMMA DeleteCommitKeeps ==
    ASSUME IInv, NEW w \in Workers, DeleteCommit(w), NEW s \in Columns \ torn'
    PROVE  ColumnOK(s)'
<1> DEFINE q == worker[w]
           c == q.card
           p == [Idle EXCEPT !.at = "close", !.column = q.column, !.index = q.index]
<1>0. Typed /\ Typed' /\ c \in Cards /\ q.column \in Columns /\ ColumnOK(s)
      /\ q.seen[c] = [status |-> q.column, position |-> q.index]
  <2>1. Typed'
    BY NextTyped DEF IInv, Next
  <2> QED
    BY <2>1 DEF IInv, DeleteCommit, Typed, InFlight
<1>1. /\ card \in [Cards -> Row] /\ card' \in [Cards -> Row] /\ card'[c] = Unborn
      /\ \A d \in Cards \ {c} : card'[d] = card[d]
      /\ worker' = [worker EXCEPT ![w] = p]
      /\ \A v \in Workers : worker'[v] = IF v = w THEN p ELSE worker[v]
  BY <1>0 DEF Typed, TypeOK, DeleteCommit
<1>2. ~Closing(w, s)
  BY DEF DeleteCommit, Closing
<1>3. p.at = "close" /\ p.column = q.column /\ p.index = q.index
  BY DEF Idle
<1>4. CASE s \notin {q.column, card[c].status}
  <2>1. \A d \in Cards : card[d].status = s \/ card'[d].status = s => card'[d] = card[d]
    BY <1>0, <1>1, <1>4, BoardAssumption DEF Unborn
  <2>2. ~(p.at \in {"close", "closing"} /\ p.column = s)
    BY <1>3, <1>4
  <2> HIDE DEF p
  <2> QED
    BY <1>0, <1>1, <1>2, <2>1, <2>2, Untouched
<1>5. CASE s \in {q.column, card[c].status}
  <2>1. \A r \in {q.column, card[c].status} \ {None} : ~Disturbed(w, r)
    BY <1>5, BoardAssumption DEF DeleteCommit
  <2>2. ~Disturbed(w, q.column)
    BY <1>0, <2>1, BoardAssumption
  <2>3. card[c] = q.seen[c]
    BY <1>0, <2>2 DEF Disturbed, Stale, Column
  <2>4. s = q.column /\ card[c].status = s /\ card[c].position = q.index
    BY <1>0, <1>5, <2>3
  <2>5. \A v \in Workers : ~Closing(v, s)
    BY <1>2, <2>2, <2>4 DEF Disturbed
  <2>6. Numbered(card, Column(card, s))
    BY <1>0, <2>5 DEF ColumnOK
  <2>7. Column(card', s) = Column(card, s) \ {c} /\ c \in Column(card, s)
    BY <1>0, <1>1, <2>4, BoardAssumption DEF Column, Unborn
  <2>8. /\ NumberedButFor(card', Column(card', s), q.index)
        /\ q.index \in 0..Cardinality(Column(card', s))
    <3>1. Column(card, s) \in SUBSET Cards
      BY DEF Column
    <3>2. \A d \in Column(card, s) \ {c} : card'[d] = card[d]
      BY <1>1 DEF Column
    <3>3. c \in Column(card, s) /\ card \in [Cards -> Row] /\ card' \in [Cards -> Row]
      BY <1>1, <2>7
    <3>4. /\ NumberedButFor(card', Column(card, s) \ {c}, card[c].position)
          /\ card[c].position \in 0..Cardinality(Column(card, s) \ {c})
      <4> HIDE DEF c
      <4> QED
        BY <2>6, <3>1, <3>2, <3>3, TakenOut
    <3> QED
      BY <2>4, <2>7, <3>4
  <2>9. \A v \in Workers : Closing(v, s)' => v = w
    BY <1>1, <2>5 DEF Closing
  <2>10. worker'[w].index = q.index /\ worker'[w].at = "close" /\ Closing(w, s)'
    BY <1>1, <1>3, <2>4 DEF Closing
  <2>11. \A v \in Workers : ~(worker'[v].at = "closing" /\ worker'[v].column = s)
    BY <2>9, <2>10 DEF Closing
  <2> QED
    BY <2>8, <2>9, <2>10, <2>11 DEF ColumnOK
<1> QED
  BY <1>4, <1>5

LEMMA CloseReadKeeps ==
    ASSUME IInv, NEW w \in Workers, CloseRead(w), NEW s \in Columns \ torn'
    PROVE  ColumnOK(s)'
<1> DEFINE q == worker[w]
<1>0. Typed /\ ColumnOK(s) /\ q.column \in Columns /\ q.index \in Nat
      /\ card \in [Cards -> Row] /\ card' = card
  BY DEF IInv, CloseRead, Typed, TypeOK, InFlight, Worker
<1>1. /\ worker'[w].at = "closing" /\ worker'[w].column = q.column /\ worker'[w].index = q.index
      /\ worker'[w].seen = Fetched({q.column})
      /\ worker'[w].rows = [c \in Cards |-> Lowered(Fetched({q.column}), q.index, c)]
      /\ \A v \in Workers \ {w} : worker'[v] = worker[v]
  BY <1>0 DEF Typed, TypeOK, CloseRead, Worker, Lowered
<1>2. \A v \in Workers : (Closing(v, s)' <=> Closing(v, s)) /\ worker'[v].index = worker[v].index
  BY <1>1 DEF Closing, CloseRead
<1>3. ASSUME NEW v \in Workers, worker'[v].at = "closing", worker'[v].column = s
      PROVE  Knows(v, s)'
  <2>1. CASE v # w
    <3>1. worker'[v] = worker[v] /\ Knows(v, s)
      BY <1>0, <1>1, <1>3, <2>1 DEF ColumnOK
    <3> QED
      BY <1>0, <3>1 DEF Knows, Lowered
  <2>2. CASE v = w
    <3>1. s = q.column
      BY <1>1, <1>3, <2>2
    <3>2. \A c \in Cards : Fetched({s})[c] = IF card[c].status = s THEN card[c] ELSE Unborn
      BY DEF Fetched
    <3>3. ASSUME NEW c \in Cards
          PROVE  Lowered(Fetched({s}), q.index, c) =
                     IF card[c].status = s THEN Lowered(card, q.index, c) ELSE Unborn
      <4>1. CASE card[c].status = s
        BY <3>2, <4>1 DEF Lowered
      <4>2. CASE card[c].status # s
        <5>1. Fetched({s})[c] = Unborn
          BY <3>2, <4>2
        <5>2. Unborn.position = 0
          BY DEF Unborn
        <5>3. ~(Unborn.position > q.index)
          BY <1>0, <5>2
        <5> QED
          BY <4>2, <5>1, <5>3 DEF Lowered
      <4> QED
        BY <4>1, <4>2
    <3>4. ASSUME NEW c \in Cards
          PROVE  /\ worker'[w].seen[c] = IF card'[c].status = s THEN card'[c] ELSE Unborn
                 /\ worker'[w].rows[c] = IF card'[c].status = s
                                         THEN Lowered(card, worker'[w].index, c) ELSE Unborn
      BY <1>0, <1>1, <3>1, <3>2, <3>3
    <3> QED
      BY <1>0, <2>2, <3>4 DEF Knows, Lowered
  <2> QED
    BY <2>1, <2>2
<1> QED
  BY <1>0, <1>2, <1>3 DEF ColumnOK

LEMMA CloseCommitKeeps ==
    ASSUME IInv, NEW w \in Workers, CloseCommit(w), NEW s \in Columns \ torn'
    PROVE  ColumnOK(s)'
<1> DEFINE q == worker[w]
<1>0. Typed /\ ColumnOK(s) /\ q.column \in Columns /\ q.at = "closing" /\ End(w)
      /\ \A c \in Cards : q.rows[c].status = q.seen[c].status
  BY DEF IInv, CloseCommit, Typed, InFlight
<1>1. card \in [Cards -> Row] /\ card' \in [Cards -> Row] /\ card' = Merged(w)
  BY <1>0, MergedType DEF CloseCommit, Typed, TypeOK
<1>2. \A c \in Cards : card'[c].status = card[c].status
  BY <1>0, <1>1, MergedType DEF Typed
<1>3. CASE s # q.column
  <2>1. \A d \in Cards : card[d].status = s => card'[d] = card[d]
    <3> SUFFICES ASSUME NEW d \in Cards, card[d].status = s PROVE card'[d] = card[d]
      OBVIOUS
    <3>1. d \notin Written(w)
      BY <1>3 DEF CloseCommit
    <3> QED
      BY <1>0, <1>1, <3>1, MergedType DEF Written, Typed
  <2>2. ~Closing(w, s)
    BY <1>3 DEF Closing
  <2> QED
    BY <1>0, <1>1, <1>2, <2>1, <2>2, EndOthers, Untouched
<1>4. CASE s = q.column
  <2>1. Closing(w, s) /\ Knows(w, s)
    BY <1>0, <1>4 DEF ColumnOK, Closing
  <2>2. \A d \in Cards : card[d].status = s => card'[d] = Lowered(card, q.index, d)
    BY <1>0, <1>1, <2>1, MergedType DEF Knows, Typed
  <2>3. Column(card', s) = Column(card, s) /\ Column(card, s) \in SUBSET Cards
    BY <1>2 DEF Column
  <2>4. /\ NumberedButFor(card, Column(card, s), q.index)
        /\ q.index \in 0..Cardinality(Column(card, s))
    BY <1>0, <2>1 DEF ColumnOK
  <2>5. \A d \in Column(card, s) : card'[d].position = IF card[d].position > q.index
                                      THEN card[d].position - 1 ELSE card[d].position
    <3> SUFFICES ASSUME NEW d \in Column(card, s)
                 PROVE  card'[d].position = IF card[d].position > q.index
                                            THEN card[d].position - 1 ELSE card[d].position
      OBVIOUS
    <3>1. card[d] \in Row /\ card'[d] = Lowered(card, q.index, d)
      BY <1>1, <2>2 DEF Column
    <3> QED
      BY <3>1 DEF Lowered, Row
  <2>6. Numbered(card', Column(card', s))
    BY <1>1, <2>3, <2>4, <2>5, GapClosed
  <2>7. \A v \in Workers : ~Closing(v, s)'
    BY <1>0, <2>1, EndOthers DEF ColumnOK
  <2> QED
    BY <2>6, <2>7, Settled
<1> QED
  BY <1>3, <1>4

\* What Prepared says card by card.
LEMMA PreparedRows ==
    ASSUME NEW q \in Worker, Prepared(q)
    PROVE  LET from == q.seen[q.card].status
               to == q.column
               L == Rest(q, from)
               T == Rest(q, to) IN
           \E left \in Rankings(L, q.seen), target \in Rankings(T, q.seen),
              index \in 0..Cardinality(T) :
              /\ q.rows[q.card] = [status |-> to, position |-> index]
              /\ \A d \in T : /\ q.rows[d].status = to
                              /\ q.rows[d].position = IF target[d] < index THEN target[d]
                                                      ELSE target[d] + 1
              /\ from # to => \A d \in L : /\ q.rows[d].status = from
                                           /\ q.rows[d].position = left[d]
              /\ \A d \in Cards : d # q.card /\ d \notin T \cup L => q.rows[d] = q.seen[d]
<1> DEFINE c == q.card
           from == q.seen[c].status
           to == q.column
           L == Rest(q, from)
           T == Rest(q, to)
<1>1. c \in Cards /\ from \in Columns /\ to \in Columns /\ q.seen \in [Cards -> Row]
  BY DEF Prepared, Worker
<1>2. PICK left \in Rankings(L, q.seen), target \in Rankings(T, q.seen), index \in 0..Cardinality(T) :
         q.rows = Renumbered(c, from, to, index, q.seen, left, target)
  BY DEF Prepared
<1>3. /\ L \in SUBSET Cards /\ T \in SUBSET Cards /\ c \notin L \cup T
      /\ \A d \in L : q.seen[d] \in Row /\ q.seen[d].status = from
      /\ \A d \in T : q.seen[d] \in Row /\ q.seen[d].status = to
      /\ from = to => L = T
  BY <1>1 DEF Rest, Column
<1>4. DOMAIN left = L /\ DOMAIN target = T
  BY DEF Rankings
<1> HIDE DEF L, T, from, to, c
<1>5. q.rows[c] = [status |-> to, position |-> index]
  BY <1>1, <1>2, <1>3, <1>4 DEF Renumbered
<1>6. ASSUME NEW d \in T
      PROVE  /\ q.rows[d].status = to
             /\ q.rows[d].position = IF target[d] < index THEN target[d] ELSE target[d] + 1
  <2>1. d \in Cards /\ d # c /\ (from # to => d \notin L)
    BY <1>3
  <2>2. q.rows[d] = [q.seen[d] EXCEPT !.position = IF target[d] < index THEN target[d]
                                                                      ELSE target[d] + 1]
    BY <1>2, <1>4, <2>1 DEF Renumbered
  <2> QED
    BY <1>3, <2>2 DEF Row
<1>7. ASSUME from # to, NEW d \in L PROVE q.rows[d].status = from /\ q.rows[d].position = left[d]
  <2>1. d \in Cards /\ d # c /\ d \notin T
    BY <1>3, <1>7
  <2>2. q.rows[d] = [q.seen[d] EXCEPT !.position = left[d]]
    BY <1>2, <1>4, <1>7, <2>1 DEF Renumbered
  <2> QED
    BY <1>3, <2>2 DEF Row
<1>8. ASSUME NEW d \in Cards, d # c, d \notin T \cup L PROVE q.rows[d] = q.seen[d]
  BY <1>2, <1>4, <1>8 DEF Renumbered
<1> QED
  BY <1>5, <1>6, <1>7, <1>8 DEF L, T, from, to, c

LEMMA MoveCommitKeeps ==
    ASSUME IInv, NEW w \in Workers, MoveCommit(w), NEW s \in Columns \ torn'
    PROVE  ColumnOK(s)'
<1> DEFINE q == worker[w]
           c == q.card
           from == q.seen[c].status
           to == q.column
           L == Rest(q, from)
           T == Rest(q, to)
           touched == {from, to} \cup {card[d].status : d \in Written(w)}
<1>0. /\ Typed /\ q \in Worker /\ q.at = "moving" /\ Prepared(q) /\ End(w)
      /\ c \in Cards /\ from \in Columns /\ to \in Columns
      /\ ~Closing(w, s)
  BY DEF IInv, MoveCommit, Typed, TypeOK, InFlight, Prepared, Closing
<1>1. /\ card \in [Cards -> Row] /\ card' \in [Cards -> Row] /\ card' = Merged(w)
      /\ q.seen \in [Cards -> Row] /\ q.rows \in [Cards -> Row]
  BY <1>0, MergedType DEF MoveCommit, Typed, TypeOK
<1>2. PICK left \in Rankings(L, q.seen), target \in Rankings(T, q.seen), index \in 0..Cardinality(T) :
         /\ q.rows[c] = [status |-> to, position |-> index]
         /\ \A d \in T : /\ q.rows[d].status = to
                         /\ q.rows[d].position = IF target[d] < index THEN target[d]
                                                 ELSE target[d] + 1
         /\ from # to => \A d \in L : q.rows[d].status = from /\ q.rows[d].position = left[d]
         /\ \A d \in Cards : d # c /\ d \notin T \cup L => q.rows[d] = q.seen[d]
  BY <1>0, PreparedRows
<1>3. /\ \A d \in Cards : d \in L <=> d # c /\ q.seen[d].status = from
      /\ \A d \in Cards : d \in T <=> d # c /\ q.seen[d].status = to
      /\ L \in SUBSET Cards /\ T \in SUBSET Cards /\ c \notin L \cup T
  BY DEF Rest, Column
<1>4. /\ \A d \in Written(w) : d \in Cards /\ q.seen[d].status \in {from, to}
      /\ \A d \in Cards : d \notin Written(w) => card'[d] = card[d]
      /\ \A d \in Cards : card[d] = q.seen[d] => card'[d] = q.rows[d]
      /\ \A d \in Cards : q.rows[d].status = q.seen[d].status => card'[d].status = card[d].status
  <2>1. \A d \in Written(w) : d \in Cards /\ q.seen[d].status \in {from, to}
    BY <1>2, <1>3 DEF Written
  <2> QED
    BY <1>0, <1>1, <2>1, MergedType DEF Typed, Written
<1>5. ASSUME NEW d \in Cards, d # c PROVE q.rows[d].status = q.seen[d].status
  <2> HIDE DEF L, T, from, to, c, touched
  <2>1. CASE d \in T
    BY <1>2, <1>3, <2>1
  <2>2. CASE d \in L /\ from # to
    BY <1>2, <1>3, <1>5, <2>2
  <2>3. CASE d \in L /\ from = to
    BY <1>2, <1>3, <1>5, <2>3
  <2>4. CASE d \notin T \cup L
    BY <1>2, <1>5, <2>4
  <2> QED
    BY <2>1, <2>2, <2>3, <2>4
<1>6. ASSUME s \notin touched PROVE ColumnOK(s)'
  <2>1. ASSUME NEW d \in Cards, card[d].status = s \/ card'[d].status = s
        PROVE  card'[d] = card[d]
    <3>1. CASE d \notin Written(w)
      BY <1>4, <3>1
    <3>2. CASE d \in Written(w)
      <4>1. card[d].status # s
        BY <1>6, <3>2
      <4>2. card'[d].status = card[d].status \/ card'[d].status = to
        <5>1. card'[d] = Merge(card[d], q.seen[d], q.rows[d])
          BY <1>1 DEF Merged
        <5>2. card[d] \in Row /\ q.rows[d] \in Row
          BY <1>1
        <5>3. card'[d].status = IF q.rows[d].status = q.seen[d].status THEN card[d].status
                                                                      ELSE q.rows[d].status
          BY <5>1, <5>2, MergeType
        <5>4. q.rows[d].status = q.seen[d].status \/ q.rows[d].status = to
          BY <1>2, <1>5
        <5> QED
          BY <5>3, <5>4
      <4> QED
        BY <1>6, <2>1, <4>1, <4>2
    <3> QED
      BY <3>1, <3>2
  <2>2. ColumnOK(s)
    BY <1>6 DEF IInv, MoveCommit
  <2> QED
    BY <1>0, <1>1, <2>1, <2>2, EndOthers, Untouched
<1>7. ASSUME s \in touched PROVE ColumnOK(s)'
  <2>1. \A r \in touched : ~Disturbed(w, r)
    BY <1>7 DEF MoveCommit
  <2>2. \A d \in Cards : card[d].status \in {from, to} \/ q.seen[d].status \in {from, to} =>
                            card[d] = q.seen[d]
    BY <2>1 DEF Disturbed, Stale, Column
  <2>3. s \in {from, to}
    <3>1. ASSUME NEW d \in Written(w), s = card[d].status PROVE s \in {from, to}
      <4>1. d \in Cards /\ worker[w].seen[d].status \in {from, to}
        BY <1>4
      <4>2. card[d] = worker[w].seen[d]
        BY <2>2, <4>1
      <4> QED
        BY <3>1, <4>1, <4>2
    <3> QED
      BY <1>7, <3>1
  <2>4. \A v \in Workers : ~Closing(v, s)'
    <3>1. \A v \in Workers : ~Closing(v, s)
      BY <1>0, <2>1, <2>3 DEF Disturbed
    <3> QED
      BY <1>0, <3>1, EndOthers
  <2>5. ASSUME NEW d \in Cards
        PROVE  /\ q.seen[d].status \in {from, to} => card'[d] = q.rows[d]
               /\ q.seen[d].status \notin {from, to} => card'[d].status \notin {from, to}
    BY <1>4, <2>2
  <2>8. q.rows[c].status = to /\ q.rows[c].position = index
    BY <1>2
  <2>9. card'[c] = q.rows[c]
    BY <1>0, <2>5
  <2>10. ASSUME NEW d \in Cards, d # c
         PROVE  card'[d].status = from <=> q.seen[d].status = from
    BY <1>5, <2>5, <2>10
  <2>11. ASSUME NEW d \in Cards, d # c
         PROVE  card'[d].status = to <=> q.seen[d].status = to
    BY <1>5, <2>5, <2>11
  <2>6. CASE s = to
    <3>1. Column(card', to) = T \cup {c}
      <4>1. ASSUME NEW d \in Cards PROVE card'[d].status = to <=> d \in T \cup {c}
        BY <1>3, <2>8, <2>9, <2>11
      <4> QED
        BY <1>0, <1>3, <4>1 DEF Column
    <3>2. /\ \A d \in T : card'[d].position = IF target[d] < index THEN target[d]
                                              ELSE target[d] + 1
          /\ card'[c].position = index
      <4>1. \A d \in T : d \in Cards /\ q.seen[d].status = to
        BY <1>3
      <4>2. \A d \in T : card'[d] = q.rows[d]
        BY <2>5, <4>1
      <4> HIDE DEF T
      <4> QED
        BY <1>2, <2>8, <2>9, <4>2
    <3>3. Numbered(card', T \cup {c})
      <4> HIDE DEF T, c
      <4> QED
        BY <1>0, <1>1, <1>2, <1>3, <3>2, Inserted
    <3> QED
      BY <2>4, <2>6, <3>1, <3>3, Settled
  <2>7. CASE s = from /\ from # to
    <3>1. Column(card', from) = L
      <4>1. ASSUME NEW d \in Cards PROVE card'[d].status = from <=> d \in L
        BY <1>3, <2>7, <2>8, <2>9, <2>10
      <4> QED
        BY <1>3, <4>1 DEF Column
    <3>2. \A d \in L : card'[d].position = left[d]
      BY <1>2, <1>3, <2>5, <2>7
    <3>3. Numbered(card', L)
      <4> HIDE DEF L
      <4> QED
        BY <1>1, <1>2, <1>3, <3>2, Ranked
    <3> QED
      BY <2>4, <2>7, <3>1, <3>3, Settled
  <2> QED
    BY <2>3, <2>6, <2>7
<1> QED
  BY <1>6, <1>7
-----------------------------------------------------------------------------
LEMMA NextKeeps == IInv /\ [Next]_vars => IInv'
<1> SUFFICES ASSUME IInv, [Next]_vars PROVE IInv'
  OBVIOUS
<1>0. Typed /\ Typed'
  BY NextTyped DEF IInv
<1>1. SUFFICES ASSUME NEW s \in Columns \ torn' PROVE ColumnOK(s)'
  BY <1>0 DEF IInv
\* A step that only loads changes no column, and begins or ends no closing.
<1>2. ASSUME NEW w \in Workers, worker[w].at = "idle" \/ worker[w].at = "move", UNCHANGED <<card, torn>>,
             NEW q, worker' = [worker EXCEPT ![w] = q], q.at \notin {"close", "closing"}
      PROVE  ColumnOK(s)'
  <2>1. ColumnOK(s) /\ ~Closing(w, s)
    BY <1>2 DEF IInv, Closing
  <2>2. card' \in [Cards -> Row]
    BY <1>0 DEF Typed, TypeOK
  <2> QED
    BY <1>0, <1>2, <2>1, <2>2, Untouched
<1>3. ASSUME NEW w \in Workers, NEW r \in Columns, CreateLoad(w, r) PROVE ColumnOK(s)'
  <2> DEFINE q == [Idle EXCEPT !.at = "create", !.column = r, !.seen = Fetched({r})]
  <2>1. q.at = "create"
    BY DEF Idle
  <2> HIDE DEF q
  <2> QED
    BY <1>2, <1>3, <2>1 DEF CreateLoad, q
<1>4. ASSUME NEW w \in Workers, NEW c \in Cards, MoveLoad(w, c) PROVE ColumnOK(s)'
  <2> DEFINE q == [Idle EXCEPT !.at = "move", !.card = c, !.seen = [Nothing EXCEPT ![c] = card[c]]]
  <2>1. q.at = "move"
    BY DEF Idle
  <2> HIDE DEF q
  <2> QED
    BY <1>2, <1>4, <2>1 DEF MoveLoad, q
<1>5. ASSUME NEW w \in Workers, NEW to \in Columns, NEW index \in -1..Cardinality(Cards),
             MoveRead(w, to, index)
      PROVE  ColumnOK(s)'
  <2>1. worker'[w].at = "moving"
    BY <1>0, <1>5, MoveReadPrepares
  <2>2. worker' = [worker EXCEPT ![w] = worker'[w]]
    BY <1>0, <1>5 DEF MoveRead, Typed, TypeOK
  <2>3. worker[w].at = "move" /\ UNCHANGED <<card, torn>>
    BY <1>5 DEF MoveRead
  <2> QED
    BY <1>2, <2>1, <2>2, <2>3
<1>6. ASSUME NEW w \in Workers, NEW c \in Cards, DeleteLoad(w, c) PROVE ColumnOK(s)'
  <2> DEFINE q == [Idle EXCEPT !.at = "delete", !.card = c, !.column = card[c].status,
                               !.index = card[c].position, !.seen = Fetched({card[c].status})]
  <2>1. q.at = "delete"
    BY DEF Idle
  <2> HIDE DEF q
  <2> QED
    BY <1>2, <1>6, <2>1 DEF DeleteLoad, q
<1>7. ASSUME NEW w \in Workers, Abort(w) PROVE ColumnOK(s)'
  <2>1. ~Closing(w, s) /\ ColumnOK(s)
    BY <1>7 DEF Abort, Closing, IInv
  <2>2. End(w) /\ card' = card /\ card' \in [Cards -> Row]
    BY <1>0, <1>7 DEF Abort, Typed, TypeOK
  <2> QED
    BY <1>0, <2>1, <2>2, EndOthers, Untouched
<1>8. CASE UNCHANGED vars
  <2>1. ColumnOK(s)
    BY <1>8 DEF IInv, vars
  <2>2. card' = card /\ worker' = worker
    BY <1>8 DEF vars
  <2> QED
    BY <2>1, <2>2 DEF ColumnOK, Closing, Knows, Lowered
<1>9. CASE Next
  <2>1. PICK w \in Workers :
           \/ \E r \in Columns : CreateLoad(w, r)
           \/ \E c \in Cards : CreateCommit(w, c)
           \/ \E c \in Cards : MoveLoad(w, c)
           \/ \E to \in Columns, index \in -1..Cardinality(Cards) : MoveRead(w, to, index)
           \/ MoveCommit(w)
           \/ \E c \in Cards : DeleteLoad(w, c)
           \/ DeleteCommit(w)
           \/ CloseRead(w)
           \/ CloseCommit(w)
           \/ Abort(w)
    BY <1>9 DEF Next
  <2> QED
    BY <2>1, <1>3, <1>4, <1>5, <1>6, <1>7, CreateCommitKeeps, MoveCommitKeeps,
       DeleteCommitKeeps, CloseReadKeeps, CloseCommitKeeps
<1> QED
  BY <1>8, <1>9

LEMMA InitColumns == Init => IInv
<1> SUFFICES ASSUME Init PROVE IInv
  OBVIOUS
<1>1. ASSUME NEW s \in Columns PROVE ColumnOK(s)
  <2>1. Column(card, s) = {}
    BY BoardAssumption DEF Init, Nothing, Unborn, Column
  <2>2. Cardinality({}) = 0
    BY FS_EmptySet
  <2>3. \A w \in Workers : worker[w].at = "idle"
    BY DEF Init, Idle
  <2>4. 0..Cardinality({}) - 1 = {}
    BY <2>2
  <2>5. Numbered(card, {})
    BY <2>4 DEF Numbered, Distinct
  <2> QED
    BY <2>1, <2>3, <2>5 DEF ColumnOK, Closing
<1> QED
  BY <1>1, InitTyped DEF IInv

\* With any number of overlapping requests and whatever fails, a column that
\* is not torn and in which no deletion is under way is numbered 0..n-1.
THEOREM Gapless == Spec => []GaplessUnlessTorn
<1>1. IInv => GaplessUnlessTorn
  BY DEF IInv, ColumnOK, GaplessUnlessTorn
<1> QED
  BY <1>1, InitColumns, NextKeeps, PTL DEF Spec

\* And a deletion under way leaves only its own gap.
THEOREM OneGap == Spec => []OneGapWhileClosing
<1>1. IInv => OneGapWhileClosing
  BY DEF IInv, ColumnOK, OneGapWhileClosing
<1> QED
  BY <1>1, InitColumns, NextKeeps, PTL DEF Spec
-----------------------------------------------------------------------------
(* The board behaves as columns of cards.                                  *)

\* In a column in order the positions differ, so they order its cards.
LEMMA InOrderHere == IInv => Board!InOrder
<1> SUFFICES ASSUME IInv, NEW s \in Columns
             PROVE  IF s \in torn THEN {} = {} ELSE Board!Orders(Precedes(s), Column(card, s))
  BY DEF Board!InOrder
<1> SUFFICES ASSUME s \notin torn PROVE Board!Orders(Precedes(s), Column(card, s))
  OBVIOUS
<1> DEFINE S == Column(card, s)
<1>1. Distinct(card, S)
  BY DEF IInv, ColumnOK, Numbered, NumberedButFor
<1>2. \A d \in S : card[d].position \in Nat
  BY DEF IInv, Typed, TypeOK, Row, Column
<1>3. \A a, b \in S : <<a, b>> \in Precedes(s) <=> card[a].position < card[b].position
  BY DEF Precedes
<1>4. Precedes(s) \subseteq S \X S
  BY DEF Precedes
<1> HIDE DEF S
<1>5. \A a \in S : <<a, a>> \notin Precedes(s)
  BY <1>2, <1>3
<1>6. \A a, b \in S : a # b => (<<a, b>> \in Precedes(s) <=> <<b, a>> \notin Precedes(s))
  BY <1>1, <1>2, <1>3 DEF Distinct
<1>7. \A a, b, c \in S : <<a, b>> \in Precedes(s) /\ <<b, c>> \in Precedes(s) =>
                             <<a, c>> \in Precedes(s)
  BY <1>2, <1>3
<1>8. Board!Orders(Precedes(s), S)
  BY <1>4, <1>5, <1>6, <1>7 DEF Board!Orders
<1> QED
  BY <1>8 DEF S

LEMMA InOrderNext == IInv' => Board!InOrder'
BY InOrderHere, PTL

\* When a step keeps the columns in order.
LEMMA BoardKeeps ==
    ASSUME IInv', NEW moved, NEW repaired, torn \ torn' \subseteq repaired,
           \A s \in Columns \ (torn \cup torn') : \A a, b \in Column(card, s) \ moved :
              /\ a \in Column(card', s) /\ b \in Column(card', s)
              /\ card'[a].position < card'[b].position <=> card[a].position < card[b].position
    PROVE  Board!Keeps(moved, repaired)
<1>1. Board!InOrder'
  BY InOrderNext
<1>2. ASSUME NEW s \in Columns \ (torn \cup torn'), NEW a \in Column(card, s) \ moved,
             NEW b \in Column(card, s) \ moved
      PROVE  <<a, b>> \in Precedes(s)' <=> <<a, b>> \in Precedes(s)
  BY <1>2 DEF Precedes, Column
<1> QED
  BY <1>1, <1>2 DEF Board!Keeps

\* When a step leaves every card where it is.
LEMMA BoardLoses ==
    ASSUME IInv', torn \subseteq torn',
           \A s \in Columns : Column(card', s) = Column(card, s),
           \A s \in Columns \ torn' : \A a, b \in Column(card, s) :
              card'[a].position < card'[b].position <=> card[a].position < card[b].position
    PROVE  Board!Lose
<1>1. Board!Keeps({}, {})
  BY BoardKeeps
<1>2. [s \in Columns |-> Column(card, s)]' = [s \in Columns |-> Column(card, s)]
  BY DEF Column
<1> QED
  BY <1>1, <1>2 DEF Board!Lose

LEMMA OnBoard == \A c \in Cards : c \in Board!OnBoard <=> card[c].status \in Columns
BY DEF Board!OnBoard, Column

LEMMA CreateAdds ==
    ASSUME IInv, IInv', NEW w \in Workers, NEW c \in Cards, CreateCommit(w, c),
           NEW to \in Columns, to = worker[w].column
    PROVE  Board!Add(c, to)
<1>0. Typed /\ card[c].status = None
  BY DEF IInv, CreateCommit, Free, Exists
<1>1. /\ card' \in [Cards -> Row]
      /\ card'[c] = [status |-> to, position |-> Cardinality(Column(worker[w].seen, to))]
      /\ \A d \in Cards \ {c} : card'[d] = card[d]
  BY <1>0 DEF IInv, Typed, TypeOK, CreateCommit
<1>2. torn \subseteq torn' /\ (to \notin torn' => ~Disturbed(w, to))
  BY DEF CreateCommit
<1>3. c \notin Board!OnBoard
  BY <1>0, BoardAssumption, OnBoard
<1>4. \A s \in Columns : /\ s # to => Column(card', s) = Column(card, s)
                         /\ s = to => Column(card', s) = Column(card, s) \cup {c}
                         /\ c \notin Column(card, s)
  BY <1>0, <1>1, BoardAssumption DEF Column
<1>5. [s \in Columns |-> Column(card, s)]' =
         [[s \in Columns |-> Column(card, s)] EXCEPT ![to] = @ \cup {c}]
  <2>1. \A s \in Columns : Column(card, s)' = Column(card', s)
    BY DEF Column
  <2> QED
    BY <1>0, <1>4, <2>1
<1>6. Board!Keeps({c}, {})
  <2>1. ASSUME NEW s \in Columns, NEW a \in Column(card, s), NEW b \in Column(card, s)
        PROVE  /\ a \in Column(card', s) /\ b \in Column(card', s)
               /\ card'[a].position < card'[b].position <=> card[a].position < card[b].position
    <3>1. a \in Cards \ {c} /\ b \in Cards \ {c}
      BY <1>4 DEF Column
    <3> QED
      BY <1>1, <1>4, <3>1
  <2> QED
    BY <1>2, <2>1, BoardKeeps
<1>7. ASSUME to \notin torn', NEW a \in Column(card, to) PROVE <<a, c>> \in Precedes(to)'
  <2>1. ~Disturbed(w, to) /\ to \notin torn
    BY <1>2, <1>7
  <2>2. Column(worker[w].seen, to) = Column(card, to)
    BY <2>1 DEF Disturbed, Stale, Column
  <2>3. \A v \in Workers : ~Closing(v, to)
    BY <2>1 DEF Disturbed, Closing, CreateCommit
  <2>4. Numbered(card, Column(card, to))
    BY <1>0, <2>1, <2>3 DEF IInv, ColumnOK
  <2>5. card[a].position \in 0..Cardinality(Column(card, to)) - 1
    BY <2>4 DEF Numbered
  <2>6. Cardinality(Column(card, to)) \in Nat
    BY CountFinite DEF Column
  <2>7. card[a].position < card'[c].position
    BY <1>1, <2>2, <2>5, <2>6
  <2>8. card'[a] = card[a] /\ a \in Column(card', to) /\ c \in Column(card', to)
    BY <1>0, <1>1, <1>4 DEF Column
  <2> QED
    BY <2>7, <2>8 DEF Precedes, Column
<1> QED
  BY <1>0, <1>3, <1>5, <1>6, <1>7 DEF Board!Add

LEMMA DeleteLeaves ==
    ASSUME IInv, IInv', NEW w \in Workers, DeleteCommit(w)
    PROVE  Board!Lose \/ \E c \in Cards : Board!Leave(c)
<1> DEFINE c == worker[w].card
<1>0. Typed /\ c \in Cards
  BY DEF IInv, DeleteCommit, Typed, InFlight
<1>1. /\ card \in [Cards -> Row] /\ card'[c] = Unborn /\ torn \subseteq torn'
      /\ \A d \in Cards \ {c} : card'[d] = card[d]
  BY <1>0 DEF Typed, TypeOK, DeleteCommit
<1>2. \A s \in Columns : Column(card', s) = Column(card, s) \ {c}
  BY <1>0, <1>1, BoardAssumption DEF Column, Unborn
<1>3. ASSUME NEW s \in Columns, NEW a \in Column(card, s) \ {c}, NEW b \in Column(card, s) \ {c}
      PROVE  /\ a \in Column(card', s) /\ b \in Column(card', s)
             /\ card'[a].position < card'[b].position <=> card[a].position < card[b].position
  BY <1>1, <1>2 DEF Column
<1>4. CASE Exists(c)
  <2>1. c \in Board!OnBoard
    BY <1>0, <1>1, <1>4, OnBoard DEF Exists, Row
  <2>2. [s \in Columns |-> Column(card, s)]' =
           [s \in Columns |-> [r \in Columns |-> Column(card, r)][s] \ {c}]
    <3>1. \A s \in Columns : Column(card, s)' = Column(card', s)
      BY DEF Column
    <3> QED
      BY <1>2, <3>1
  <2>3. Board!Keeps({c}, {})
    BY <1>1, <1>3, BoardKeeps
  <2> QED
    BY <1>0, <2>1, <2>2, <2>3 DEF Board!Leave
<1>5. CASE ~Exists(c)
  <2>1. \A s \in Columns : c \notin Column(card, s)
    BY <1>5, BoardAssumption DEF Exists, Column
  <2> QED
    BY <1>1, <1>2, <1>3, <2>1, BoardLoses
<1> QED
  BY <1>4, <1>5

LEMMA CloseMovesNothing ==
    ASSUME IInv, IInv', NEW w \in Workers, CloseCommit(w)
    PROVE  Board!Lose
<1> DEFINE q == worker[w]
<1>0. Typed /\ q.column \in Columns /\ q.at = "closing"
      /\ \A c \in Cards : q.rows[c].status = q.seen[c].status
  BY DEF IInv, CloseCommit, Typed, InFlight
<1>1. card \in [Cards -> Row] /\ card' \in [Cards -> Row] /\ card' = Merged(w)
      /\ q \in Worker
  BY <1>0, MergedType DEF CloseCommit, Typed, TypeOK
<1>2. \A c \in Cards : card'[c].status = card[c].status
  BY <1>0, <1>1, MergedType DEF Typed
<1>3. \A s \in Columns : Column(card', s) = Column(card, s)
  BY <1>2 DEF Column
<1>4. torn \subseteq torn'
  BY DEF CloseCommit
<1>5. ASSUME NEW s \in Columns \ torn', NEW a \in Column(card, s), NEW b \in Column(card, s)
      PROVE  card'[a].position < card'[b].position <=> card[a].position < card[b].position
  <2>1. a \in Cards /\ card[a].status = s /\ b \in Cards /\ card[b].status = s
    BY DEF Column
  <2>2. CASE s # q.column
    <3>1. a \notin Written(w) /\ b \notin Written(w)
      BY <1>5, <2>1, <2>2 DEF CloseCommit
    <3>2. card'[a] = card[a] /\ card'[b] = card[b]
      BY <1>0, <1>1, <2>1, <3>1, MergedType DEF Written, Typed
    <3> QED
      BY <3>2
  <2>3. CASE s = q.column
    <3>1. ColumnOK(s)
      BY <1>4, <1>5 DEF IInv
    <3>2. Closing(w, s) /\ Knows(w, s)
      BY <1>0, <2>3, <3>1 DEF ColumnOK, Closing
    <3>3. \A d \in Cards : card[d].status = s => card'[d] = Lowered(card, q.index, d)
      BY <1>0, <1>1, <3>2, MergedType DEF Knows, Typed
    <3>4. NumberedButFor(card, Column(card, s), q.index)
      BY <3>1, <3>2 DEF ColumnOK
    <3>5. card[a].position # q.index /\ card[b].position # q.index /\ q.index \in Nat
          /\ card[a] \in Row /\ card[b] \in Row
      BY <1>1, <2>1, <3>4 DEF NumberedButFor, Worker
    <3>6. /\ card'[a].position = IF card[a].position > q.index THEN card[a].position - 1
                                                              ELSE card[a].position
          /\ card'[b].position = IF card[b].position > q.index THEN card[b].position - 1
                                                              ELSE card[b].position
      BY <2>1, <3>3, <3>5 DEF Lowered, Row
    <3>7. card[a].position \in Nat /\ card[b].position \in Nat
      BY <3>5 DEF Row
    <3> QED
      BY <3>5, <3>6, <3>7
  <2> QED
    BY <2>2, <2>3
<1> QED
  BY <1>3, <1>4, <1>5, BoardLoses

LEMMA MoveMoves ==
    ASSUME IInv, IInv', NEW w \in Workers, MoveCommit(w)
    PROVE  Board!Lose \/ \E c \in Cards, to \in Columns : Board!Move(c, to)
<1> DEFINE q == worker[w]
           touched == {q.seen[q.card].status, q.column} \cup {card[d].status : d \in Written(w)}
<1>1. /\ Typed /\ q \in Worker /\ Prepared(q)
      /\ card \in [Cards -> Row] /\ card' = Merged(w) /\ card' \in [Cards -> Row]
      /\ q.seen \in [Cards -> Row] /\ q.rows \in [Cards -> Row]
      /\ \A d \in Written(w) : d \in Cards /\ Exists(d)
      /\ torn' = IF \E s \in touched : Disturbed(w, s) THEN torn \cup touched ELSE torn \ touched
  BY MergedType DEF IInv, MoveCommit, Typed, TypeOK, InFlight, Written
<1> DEFINE Rows(c, from, to) ==
              \E left \in Rankings(Rest(q, from), q.seen), target \in Rankings(Rest(q, to), q.seen),
                 index \in 0..Cardinality(Rest(q, to)) :
                 /\ q.rows[c] = [status |-> to, position |-> index]
                 /\ \A d \in Rest(q, to) : /\ q.rows[d].status = to
                                          /\ q.rows[d].position = IF target[d] < index THEN target[d]
                                                                  ELSE target[d] + 1
                 /\ from # to => \A d \in Rest(q, from) : /\ q.rows[d].status = from
                                                         /\ q.rows[d].position = left[d]
                 /\ \A d \in Cards : d # c /\ d \notin Rest(q, to) \cup Rest(q, from) =>
                                          q.rows[d] = q.seen[d]
<1>0. Rows(q.card, q.seen[q.card].status, q.column)
  BY <1>1, PreparedRows
<1>2. PICK c \in Cards, from \in Columns, to \in Columns :
         c = q.card /\ from = q.seen[c].status /\ to = q.column /\ Rows(c, from, to)
  <2> HIDE DEF Rows
  <2> QED
    BY <1>1, <1>0 DEF Prepared
<1> DEFINE L == Rest(q, from)
           T == Rest(q, to)
<1>3. PICK left \in Rankings(L, q.seen), target \in Rankings(T, q.seen), index \in 0..Cardinality(T) :
         /\ q.rows[c] = [status |-> to, position |-> index]
         /\ \A d \in T : /\ q.rows[d].status = to
                         /\ q.rows[d].position = IF target[d] < index THEN target[d]
                                                 ELSE target[d] + 1
         /\ from # to => \A d \in L : q.rows[d].status = from /\ q.rows[d].position = left[d]
         /\ \A d \in Cards : d # c /\ d \notin T \cup L => q.rows[d] = q.seen[d]
  BY <1>2
<1> HIDE DEF Rows
<1>4. /\ \A d \in Cards : d \in L <=> d # c /\ q.seen[d].status = from
      /\ \A d \in Cards : d \in T <=> d # c /\ q.seen[d].status = to
      /\ L \in SUBSET Cards /\ T \in SUBSET Cards
  BY <1>2 DEF Rest, Column
<1>5. /\ \A d \in Cards : d \notin Written(w) => card'[d] = card[d]
      /\ \A d \in Cards : card[d] = q.seen[d] => card'[d] = q.rows[d]
      /\ \A d \in Cards : card'[d].status = IF q.rows[d].status = q.seen[d].status
                                            THEN card[d].status ELSE q.rows[d].status
  <2>1. ASSUME NEW d \in Cards
        PROVE  card'[d].status = IF q.rows[d].status = q.seen[d].status
                                 THEN card[d].status ELSE q.rows[d].status
    <3>1. card'[d] = Merge(card[d], q.seen[d], q.rows[d])
      BY <1>1 DEF Merged
    <3>2. card[d] \in Row /\ q.rows[d] \in Row
      BY <1>1
    <3> QED
      BY <3>1, <3>2, MergeType
  <2> QED
    BY <1>1, <2>1, MergedType DEF Typed, Written
<1> HIDE DEF L, T
<1>6. ASSUME NEW d \in Cards, d # c PROVE q.rows[d].status = q.seen[d].status
  BY <1>3, <1>4, <1>6
<1>7. \A d \in Cards \ {c} : card'[d].status = card[d].status
  BY <1>5, <1>6
<1>8. \A d \in Written(w) : q.seen[d].status \in {from, to}
  BY <1>1, <1>2, <1>3, <1>4 DEF Written
\* A column the move does not touch keeps its cards' positions.
<1>9. ASSUME NEW s \in Columns \ touched, NEW a \in Column(card, s) PROVE card'[a] = card[a]
  BY <1>5, <1>9 DEF Column
<1>10. ASSUME \E s \in touched : Disturbed(w, s), NEW s \in Columns \ torn'
       PROVE  torn' = torn \cup touched /\ s \notin touched
  BY <1>1, <1>10
<1>11. CASE from = to /\ \E s \in touched : Disturbed(w, s)
  <2>1. q.rows[c].status = q.seen[c].status
    BY <1>2, <1>3, <1>11
  <2>2. \A d \in Cards : card'[d].status = card[d].status
    BY <1>5, <1>7, <2>1
  <2>3. \A s \in Columns : Column(card', s) = Column(card, s)
    BY <2>2 DEF Column
  <2>4. torn \subseteq torn'
    BY <1>1, <1>11
  <2>5. ASSUME NEW s \in Columns \ torn', NEW a \in Column(card, s), NEW b \in Column(card, s)
        PROVE  card'[a].position < card'[b].position <=> card[a].position < card[b].position
    BY <1>9, <1>10, <1>11
  <2> QED
    BY <2>3, <2>4, <2>5, BoardLoses
<1>12. CASE from # to \/ ~\E s \in touched : Disturbed(w, s)
  <2>1. (\A s \in touched : ~Disturbed(w, s)) =>
           \A d \in Cards : card[d].status \in {from, to} \/ q.seen[d].status \in {from, to} =>
                               card[d] = q.seen[d]
    BY <1>2 DEF Disturbed, Stale, Column
  <2>2. card[c].status \in Columns /\ card'[c].status = to
    <3>1. CASE from # to
      <4>1. q.rows[c].status # q.seen[c].status /\ q.rows[c].status = to
        BY <1>2, <1>3, <3>1
      <4>2. c \in Written(w)
        BY <4>1 DEF Written
      <4>3. card[c].status # None /\ card[c] \in Row
        BY <1>1, <4>2 DEF Exists
      <4> QED
        BY <1>5, <4>1, <4>3 DEF Row
    <3>2. CASE \A s \in touched : ~Disturbed(w, s)
      <4>1. card[c] = q.seen[c]
        BY <1>2, <2>1, <3>2
      <4> QED
        BY <1>2, <1>3, <1>5, <4>1
    <3> QED
      BY <1>12, <3>1, <3>2
  <2>3. \A s \in Columns : Column(card', s) = IF s = to THEN Column(card, s) \cup {c}
                                                       ELSE Column(card, s) \ {c}
    BY <1>7, <2>2 DEF Column
  <2>4. [s \in Columns |-> Column(card, s)]' =
           [s \in Columns |-> IF s = to THEN [r \in Columns |-> Column(card, r)][s] \cup {c}
                                        ELSE [r \in Columns |-> Column(card, r)][s] \ {c}]
    <3>1. \A s \in Columns : Column(card, s)' = Column(card', s)
      BY DEF Column
    <3> QED
      BY <2>3, <3>1
  <2>0. PICK repaired \in SUBSET Columns :
            repaired = {to} \cup {s \in Columns : c \in [r \in Columns |-> Column(card, r)][s]}
    OBVIOUS
  <2>5. torn \ torn' \subseteq repaired
    <3>1. CASE \E s \in touched : Disturbed(w, s)
      BY <1>1, <3>1
    <3>2. CASE \A s \in touched : ~Disturbed(w, s)
      <4>1. card[c] = q.seen[c]
        BY <1>2, <2>1, <3>2
      <4>2. \A d \in Written(w) : card[d].status \in {from, to}
        BY <1>1, <1>8, <2>1, <3>2
      <4>3. touched \subseteq {from, to}
        BY <1>2, <4>2
      <4>4. c \in Column(card, from)
        BY <1>2, <4>1 DEF Column
      <4> QED
        <5>1. torn \ torn' \subseteq touched
          BY <1>1
        <5>2. from \in repaired /\ to \in repaired
          BY <2>0, <4>4
        <5> HIDE DEF touched
        <5> QED
          BY <4>3, <5>1, <5>2
    <3> QED
      BY <3>1, <3>2
  <2>6. ASSUME NEW s \in Columns \ (torn \cup torn'),
               NEW a \in Column(card, s) \ {c}, NEW b \in Column(card, s) \ {c}
        PROVE  /\ a \in Column(card', s) /\ b \in Column(card', s)
               /\ card'[a].position < card'[b].position <=> card[a].position < card[b].position
    <3>1. a \in Cards \ {c} /\ b \in Cards \ {c} /\ card[a].status = s /\ card[b].status = s
      BY DEF Column
    <3>2. a \in Column(card', s) /\ b \in Column(card', s)
      BY <2>3
    <3>3. CASE s \notin touched
      BY <1>9, <3>2, <3>3
    <3>4. CASE s \in touched
      <4>1. \A r \in touched : ~Disturbed(w, r)
        BY <1>10, <3>4
      <4>2. \A d \in Written(w) : card[d].status \in {from, to}
        BY <1>1, <1>8, <2>1, <4>1
      <4>3. s \in {from, to}
        BY <1>2, <3>4, <4>2
      <4>4. /\ card[a] = q.seen[a] /\ card'[a] = q.rows[a]
            /\ card[b] = q.seen[b] /\ card'[b] = q.rows[b]
        BY <1>5, <2>1, <3>1, <4>1, <4>3
      <4>5. Distinct(card, Column(card, s))
        BY DEF IInv, ColumnOK, Numbered, NumberedButFor
      <4>6. (a # b => card[a].position # card[b].position)
            /\ card[a].position \in Nat /\ card[b].position \in Nat
        BY <1>1, <3>1, <4>5 DEF Distinct, Column, Row
      <4>7. CASE s = to
        <5>1. a \in T /\ b \in T
          BY <1>4, <3>1, <4>4, <4>7
        <5>2. target[a] \in Int /\ target[b] \in Int
              /\ (a # b => target[a] # target[b])
              /\ (q.seen[a].position < q.seen[b].position => target[a] < target[b])
              /\ (q.seen[b].position < q.seen[a].position => target[b] < target[a])
          BY <5>1 DEF Rankings
        <5>3. index \in Int
          OBVIOUS
        <5>4. /\ q.rows[a].position = IF target[a] < index THEN target[a] ELSE target[a] + 1
              /\ q.rows[b].position = IF target[b] < index THEN target[b] ELSE target[b] + 1
          BY <1>3, <5>1
        <5>5. q.rows[a].position < q.rows[b].position <=> target[a] < target[b]
          BY <5>2, <5>3, <5>4
        <5> QED
          BY <3>2, <4>4, <4>6, <5>2, <5>5
      <4>8. CASE s = from /\ from # to
        <5>1. a \in L /\ b \in L
          BY <1>4, <3>1, <4>4, <4>8
        <5>2. left[a] \in Int /\ left[b] \in Int
              /\ (a # b => left[a] # left[b])
              /\ (q.seen[a].position < q.seen[b].position => left[a] < left[b])
              /\ (q.seen[b].position < q.seen[a].position => left[b] < left[a])
          BY <5>1 DEF Rankings
        <5>3. q.rows[a].position = left[a] /\ q.rows[b].position = left[b]
          BY <1>3, <4>8, <5>1
        <5> QED
          BY <3>2, <4>4, <4>6, <5>2, <5>3
      <4> QED
        BY <4>3, <4>7, <4>8
    <3> QED
      BY <3>3, <3>4
  <2>7. Board!Keeps({c}, repaired)
    BY <2>5, <2>6, BoardKeeps
  <2>8. c \in Board!OnBoard
    BY <2>2, OnBoard
  <2>9. Board!Move(c, to)
    BY <2>0, <2>4, <2>7, <2>8 DEF Board!Move, Board!Keeps
  <2> QED
    BY <2>9
<1> QED
  BY <1>11, <1>12

\* A step that leaves the rows alone leaves the board, but for a lost order.
LEMMA RowsUntouched ==
    ASSUME IInv', card' = card, torn \subseteq torn'
    PROVE  Board!Lose
BY BoardLoses

\* With any number of overlapping requests and whatever fails, the board behaves
\* as columns of cards in which only a moved card changes its place among the others.
THEOREM TaskBoardImplementsColumns == Spec => ImplementsColumns
<1>1. Init => Board!Init
  <2> SUFFICES ASSUME Init PROVE Board!Init
    OBVIOUS
  <2>1. \A s \in Columns : Column(card, s) = {} /\ s \notin torn
    BY BoardAssumption DEF Init, Nothing, Unborn, Column
  <2>2. \A s \in Columns : Precedes(s) = {}
    BY <2>1 DEF Precedes
  <2>3. torn = {}
    BY DEF Init
  <2> QED
    BY <2>1, <2>2, <2>3 DEF Board!Init
<1>2. IInv /\ IInv' /\ [Next]_vars => [Board!Next]_(Board!vars)
  <2> SUFFICES ASSUME IInv, IInv', [Next]_vars PROVE Board!Next
    OBVIOUS
  <2>1. CASE UNCHANGED vars
    BY <2>1, RowsUntouched DEF vars, Board!Next
  <2>2. CASE Next
    <3>1. PICK w \in Workers :
             \/ \E s \in Columns : CreateLoad(w, s)
             \/ \E c \in Cards : CreateCommit(w, c)
             \/ \E c \in Cards : MoveLoad(w, c)
             \/ \E to \in Columns, index \in -1..Cardinality(Cards) : MoveRead(w, to, index)
             \/ MoveCommit(w)
             \/ \E c \in Cards : DeleteLoad(w, c)
             \/ DeleteCommit(w)
             \/ CloseRead(w)
             \/ CloseCommit(w)
             \/ Abort(w)
      BY <2>2 DEF Next
    <3>2. ASSUME \/ \E s \in Columns : CreateLoad(w, s)
                 \/ \E c \in Cards : MoveLoad(w, c)
                 \/ \E to \in Columns, index \in -1..Cardinality(Cards) : MoveRead(w, to, index)
                 \/ \E c \in Cards : DeleteLoad(w, c)
                 \/ CloseRead(w)
                 \/ Abort(w)
          PROVE  Board!Lose
      <4>1. card' = card /\ torn \subseteq torn'
        BY <3>2 DEF CreateLoad, MoveLoad, MoveRead, DeleteLoad, CloseRead, Abort
      <4> QED
        BY <4>1, RowsUntouched
    <3>3. ASSUME NEW c \in Cards, CreateCommit(w, c)
          PROVE  \E d \in Cards, to \in Columns : Board!Add(d, to)
      <4>1. PICK to \in Columns : to = worker[w].column
        BY <3>3 DEF CreateCommit, IInv, Typed, InFlight
      <4> QED
        BY <3>3, <4>1, CreateAdds
    <3>4. \/ Board!Lose
          \/ \E c \in Cards, to \in Columns : Board!Add(c, to) \/ Board!Move(c, to)
          \/ \E c \in Cards : Board!Leave(c)
      BY <3>1, <3>2, <3>3, MoveMoves, DeleteLeaves, CloseMovesNothing
    <3> QED
      BY <3>4 DEF Board!Next
  <2> QED
    BY <2>1, <2>2
<1> QED
  BY <1>1, <1>2, InitColumns, NextKeeps, PTL DEF Spec, ImplementsColumns, Board!Spec
=============================================================================
