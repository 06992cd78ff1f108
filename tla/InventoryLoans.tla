--------------------------- MODULE InventoryLoans ---------------------------
(***************************************************************************)
(* The inventory and the lending of its items (app/routers/inventory.py,   *)
(* app/routers/api_inventory.py).                                          *)
(*                                                                         *)
(* A checkout compares its quantity with the loans it has read, and an     *)
(* edit writes the columns that differ from the row it has read; both are  *)
(* a load and a commit, with other requests in between.  The remaining     *)
(* handlers write what they write whatever they have read and are one step.*)
(***************************************************************************)
EXTENDS Integers, FiniteSetsExt

CONSTANTS
    Items,       \* identities of items
    Categories,  \* identities of categories
    Loans,       \* identities of loans
    Totals,      \* values typed in for quantity_total, of either sign
    Clerks,      \* requests in flight at the same time
    None         \* null

VARIABLES
    category,  \* the rows of inventory_categories
    item,      \* the rows of inventory_items
    loan,      \* the rows of item_loans
    clerk,     \* what each checkout or edit in flight has read and decided
    strained   \* items with more out on loan than there are, for a known reason

vars == <<category, item, loan, clerk, strained>>

NoItem == [here |-> FALSE, total |-> 0, borrowable |-> FALSE, retired |-> FALSE,
           category |-> None]
NoLoan == [item |-> None, quantity |-> 0, out |-> FALSE]
Idle == [at |-> "idle"]

Item == [here : BOOLEAN, total : Totals \cup {0}, borrowable : BOOLEAN,
         retired : BOOLEAN, category : Categories \cup {None}]

Init ==
    /\ category = {}
    /\ item = [i \in Items |-> NoItem]
    /\ loan = [l \in Loans |-> NoLoan]
    /\ clerk = [c \in Clerks |-> Idle]
    /\ strained = {}
-----------------------------------------------------------------------------
OutstandingOf(i) == {l \in Loans : loan[l].item = i /\ loan[l].out}

QuantityOnLoan(i) == SumFunctionOnSet([l \in Loans |-> loan[l].quantity], OutstandingOf(i))

AvailableByCount(i) ==   \* MUTANT of AvailableQuantity
    item[i].total - Cardinality(OutstandingOf(i))

AvailableQuantity(i) ==
    IF item[i].total <= QuantityOnLoan(i) THEN 0 ELSE item[i].total - QuantityOnLoan(i)

Start(c, q) == clerk[c] = Idle /\ clerk' = [clerk EXCEPT ![c] = q]

Rollback(c) ==
    /\ clerk' = [clerk EXCEPT ![c] = Idle]
    /\ UNCHANGED <<category, item, loan, strained>>
-----------------------------------------------------------------------------
CategoryCreate(k) ==
    /\ k \notin category
    /\ category' = category \cup {k}
    /\ UNCHANGED <<item, loan, clerk, strained>>

\* Its items stay and lose their category.
CategoryDelete(k) ==
    /\ k \in category
    /\ category' = category \ {k}
    /\ item' = [i \in Items |-> [item[i] EXCEPT !.category = IF @ = k THEN None ELSE @]]
    /\ UNCHANGED <<loan, clerk, strained>>

ItemCreate(i, total, borrowable, k) ==
    /\ ~item[i].here
    /\ k # None => k \in category
    /\ item' = [item EXCEPT ![i] = [here |-> TRUE, total |-> total, borrowable |-> borrowable,
                                    retired |-> FALSE, category |-> k]]
    /\ UNCHANGED <<category, loan, clerk, strained>>

\* The row goes with its loans.
ItemDelete(i) ==
    /\ item[i].here
    /\ item' = [item EXCEPT ![i] = NoItem]
    /\ loan' = [l \in Loans |-> IF loan[l].item = i THEN NoLoan ELSE loan[l]]
    /\ clerk' = [c \in Clerks |->
                   IF clerk[c] # Idle /\ clerk[c].item = i
                   THEN [clerk[c] EXCEPT !.lost = TRUE] ELSE clerk[c]]
    /\ strained' = strained \ {i}
    /\ UNCHANGED category

Retire(i) ==
    /\ item[i].here
    /\ item' = [item EXCEPT ![i].retired = TRUE]
    /\ UNCHANGED <<category, loan, clerk, strained>>

\* The new total is not compared with what is out on loan.
ItemUpdateLoad(c, i, total, borrowable, k) ==
    /\ item[i].here
    /\ Start(c, [at |-> "edit", item |-> i, seen |-> item[i],
                 form |-> [item[i] EXCEPT !.total = total, !.borrowable = borrowable,
                                          !.category = k],
                 lost |-> FALSE])
    /\ UNCHANGED <<category, item, loan, strained>>

\* The foreign key refuses a category that is gone, if the column is written.
ItemUpdateCommit(c) ==
    LET q == clerk[c]
        i == q.item
        possible == ~q.lost /\ (q.form.category \notin {q.seen.category, None}
                                  => q.form.category \in category)
        total == IF q.form.total # q.seen.total THEN q.form.total ELSE item[i].total
    IN
    /\ q.at = "edit"
    /\ IF possible
       THEN /\ item' = [item EXCEPT
                 ![i].total = total,
                 ![i].borrowable = IF q.form.borrowable # q.seen.borrowable THEN q.form.borrowable ELSE @,
                 ![i].category = IF q.form.category # q.seen.category THEN q.form.category ELSE @]
            /\ strained' = IF total < item[i].total /\ total < QuantityOnLoan(i)
                           THEN strained \cup {i} ELSE strained
            /\ clerk' = [e \in Clerks |->
                 IF e = c THEN Idle
                 ELSE IF clerk[e].at = "checkout" /\ clerk[e].item = i /\ total # item[i].total
                 THEN [clerk[e] EXCEPT !.stale = TRUE] ELSE clerk[e]]
            /\ UNCHANGED <<category, loan>>
       ELSE Rollback(c)
-----------------------------------------------------------------------------
\* Retired items can be checked out like any other.
LoanCheckoutLoad(c, i, quantity) ==
    /\ item[i].here /\ item[i].borrowable
    /\ quantity >= 1 /\ quantity <= AvailableQuantity(i)
    /\ Start(c, [at |-> "checkout", item |-> i, quantity |-> quantity,
                 stale |-> FALSE, lost |-> FALSE])
    /\ UNCHANGED <<category, item, loan, strained>>

LoanCheckoutCommit(c, l) ==
    LET q == clerk[c]
        i == q.item
    IN
    /\ q.at = "checkout"
    /\ IF ~q.lost
       THEN /\ loan[l] = NoLoan
            /\ loan' = [loan EXCEPT ![l] = [item |-> i, quantity |-> q.quantity, out |-> TRUE]]
            /\ strained' = IF q.stale THEN strained \cup {i} ELSE strained
            /\ clerk' = [e \in Clerks |->
                 IF e = c THEN Idle
                 ELSE IF clerk[e].at = "checkout" /\ clerk[e].item = i
                 THEN [clerk[e] EXCEPT !.stale = TRUE] ELSE clerk[e]]
            /\ UNCHANGED <<category, item>>
       ELSE Rollback(c)

\* What comes back makes room; a checkout in flight has counted it as out.
LoanReturn(l) ==
    /\ loan[l].out
    /\ loan' = [loan EXCEPT ![l].out = FALSE]
    /\ strained' = IF QuantityOnLoan(loan[l].item) - loan[l].quantity <= item[loan[l].item].total
                   THEN strained \ {loan[l].item} ELSE strained
    /\ UNCHANGED <<category, item, clerk>>
-----------------------------------------------------------------------------
Next ==
    \/ \E k \in Categories : CategoryCreate(k) \/ CategoryDelete(k)
    \/ \E i \in Items : ItemDelete(i) \/ Retire(i)
    \/ \E i \in Items, total \in Totals, borrowable \in BOOLEAN, k \in category \cup {None} :
          \/ ItemCreate(i, total, borrowable, k)
          \/ \E c \in Clerks : ItemUpdateLoad(c, i, total, borrowable, k)
    \/ \E c \in Clerks, i \in Items, quantity \in Totals : LoanCheckoutLoad(c, i, quantity)
    \/ \E c \in Clerks : ItemUpdateCommit(c)
    \/ \E c \in Clerks, l \in Loans : LoanCheckoutCommit(c, l)
    \/ \E l \in Loans : LoanReturn(l)

Spec == Init /\ [][Next]_vars
-----------------------------------------------------------------------------
\* No more of an item is out on loan than there is, except after an edit that
\* lowered its total below what was out, and after a checkout that committed
\* although another loan or edit of the item had committed since it read it.
\* Nothing but the comparison in the handlers keeps the two tables together.
LentWithinStock ==
    \A i \in Items : item[i].here /\ i \notin strained =>
        QuantityOnLoan(i) = 0 \/ QuantityOnLoan(i) <= item[i].total
=============================================================================
