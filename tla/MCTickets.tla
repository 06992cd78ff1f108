------------------------------ MODULE MCTickets ------------------------------
(* Instances of Tickets for TLC. *)
EXTENDS Tickets, TLC

CONSTANTS t1, t2, t3, ann, leak, w1, w2

TicketSymmetry == Permutations(Tickets)
=============================================================================
