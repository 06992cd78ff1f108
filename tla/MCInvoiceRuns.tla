---------------------------- MODULE MCInvoiceRuns ----------------------------
(* Instances of InvoiceRuns for TLC. *)
EXTENDS InvoiceRuns, TLC

CONSTANTS r1, r2, w1, w2

MCYearSame == (r1 :> 2026) @@ (r2 :> 2026)

Form(a, s, p) == [all |-> a, scope |-> s, priced |-> p]
MCForms == {Form(TRUE, {}, TRUE), Form(FALSE, {1}, TRUE), Form(TRUE, {}, FALSE)}
MCEdits == [all : BOOLEAN, priced : BOOLEAN]
MCFormAll == {Form(TRUE, {}, TRUE)}
MCEditScoped == {[all |-> FALSE, priced |-> TRUE]}
WorkerSymmetry == Permutations(Workers)
=============================================================================
