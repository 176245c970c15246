------------------------------- MODULE MCStream -------------------------------
(* Bounds for RequestStream: two connections and two ids, answers of up to two *)
(* chunks, a cancel at any time, timeouts, clients that hang up and clients    *)
(* that do not read.                                                           *)
EXTENDS RequestStream

CONSTANTS t1, t2
=============================================================================
