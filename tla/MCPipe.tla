------------------------------- MODULE MCPipe -------------------------------
(***************************************************************************)
(* NamedPipe with two logon tiles, one of which tries again.               *)
(***************************************************************************)
EXTENDS NamedPipe, TLC

CONSTANTS c1, c2

MCClients == {c1, c2}
MCCalls == c1 :> 2 @@ c2 :> 1
=============================================================================
