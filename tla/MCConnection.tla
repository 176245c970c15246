------------------------------- MODULE MCConnection -------------------------------
(* Bounds for Connection: two daemons that may die in the middle of anything, two    *)
(* clients, answers of up to two chunks and a last frame, sockets that hold one.     *)
EXTENDS Connection
=============================================================================
