------------------------------ MODULE MCOutbox ------------------------------
(* Outbox on small sets.  A run with a liveness property takes no symmetry.  *)
EXTENDS Outbox
=============================================================================
