---------------------------- MODULE MCTemplates ----------------------------
(* Two processes, one template with two commits.                           *)
EXTENDS Templates

CONSTANTS p1, p2, a
=============================================================================
