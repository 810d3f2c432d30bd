----------------------------- MODULE MCSession -----------------------------
(* Instances of Session for TLC.  One unit of time is two seconds for the    *)
(* two timeouts and the margin; lives and the API timeout are cut short.     *)
EXTENDS Session

CONSTANTS c1, c2
=============================================================================
