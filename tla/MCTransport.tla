---------------------------- MODULE MCTransport ----------------------------
(***************************************************************************)
(* TcpTransport with two callers of SendFrame: the worker's callback and   *)
(* one more thread.  Its constants are given in the configurations.        *)
(***************************************************************************)
EXTENDS TcpTransport
=============================================================================
