--------------------------- MODULE MCReportCache ---------------------------
(* Instances of ReportCache for TLC.                                         *)
EXTENDS ReportCache, TLC

CONSTANTS p1, p2,       \* processes
          a1,           \* an account
          foo, bar,     \* queries
          lfoo, lbar    \* the lower-cased texts

(* Each query has its own hash. *)
FoldFooBar == (foo :> lfoo @@ bar :> lbar)
FoldFoo    == (foo :> lfoo)

(* A report for the first query may have come out empty. *)
NoneOrTwo  == (lfoo :> {0, 2} @@ lbar :> {1})
SomeNone   == (lfoo :> {2} @@ lbar :> {0})
FooRows    == (lfoo :> {2})

OneAcc == [p \in Procs |-> a1]
Cached == [p \in Procs |-> TRUE]
Mixed  == [p \in Procs |-> p = p1]
=============================================================================
