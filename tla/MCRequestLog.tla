---------------------------- MODULE MCRequestLog ----------------------------
(* Small instances of RequestLog for TLC. *)
EXTENDS RequestLog

CONSTANTS w1, w2
=============================================================================
