---------------------------- MODULE MCViewStore ----------------------------
(* Instances of ViewStore for TLC.                                           *)
EXTENDS ViewStore, TLC

CONSTANTS p1, p2, v1, v2, r1, c1, c2, new, prev

Q(s, c, f, k) == [src |-> s, cols |-> c, fns |-> f, clause |-> k]

(* Views on a report and on another view, on a column or two, with and       *)
(* without a function; one that the reader of the file refuses.              *)
Some == {Q(r1, {c1, c2}, {c2}, "plain"), Q(v1, {c1}, {}, "lost"), Q(r1, {c1}, {c1}, "refused")}
TwoColumns == {Q(r1, c, {}, "plain") : c \in {{c1}, {c1, c2}}}

TwoVers == (p1 :> new @@ p2 :> prev)
Alone == (p1 :> new)
(* The older version has no column c2. *)
Columns == (new :> (r1 :> {c1, c2}) @@ prev :> (r1 :> {c1}))
=============================================================================
