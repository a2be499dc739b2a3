----------------------------- MODULE MCNetwork -----------------------------
(* Two clients, each with one request of two events or two of one.         *)
EXTENDS Network

CONSTANTS c1, c2
=============================================================================
