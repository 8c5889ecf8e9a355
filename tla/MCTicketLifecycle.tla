-------------------------- MODULE MCTicketLifecycle --------------------------
(* TicketLifecycle on small sets; ids of one kind are interchangeable.        *)
EXTENDS TicketLifecycle, TLC

Symmetry == Permutations(Tickets) \cup Permutations(Operators) \cup Permutations(Approvals)
=============================================================================
