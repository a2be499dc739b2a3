---------------------------- MODULE MCSimClient -----------------------------
(* A small instance of SimClient, in which the script and its listeners    *)
(* use the client in every way they can.                                   *)
EXTENDS SimClient

CONSTANTS loop, reader, nobody
=============================================================================
