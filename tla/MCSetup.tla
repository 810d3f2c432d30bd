------------------------------ MODULE MCSetup ------------------------------
(* Instances of Setup for TLC. *)
EXTENDS Setup

CONSTANTS p1, p2
=============================================================================
