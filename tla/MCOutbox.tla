------------------------------ MODULE MCOutbox ------------------------------
(* A small instance of Outbox. *)
EXTENDS Outbox

CONSTANTS u1, u2, e1, e2, d1, d2
=============================================================================
