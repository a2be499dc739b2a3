------------------------------ MODULE MCSimHost ------------------------------
(* A small instance of SimHost.                                            *)
EXTENDS SimHost

CONSTANTS counter, lamp, server, control, script, nobody

TwoObjects == {counter, lamp}
OneUrl == {server}
=============================================================================
