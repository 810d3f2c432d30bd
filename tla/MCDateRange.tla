---------------------------- MODULE MCDateRange ----------------------------
(* Instances of DateRange. *)
EXTENDS DateRange

(* Within a week, and the day before it: soon after midnight, in the first   *)
(* and in the second half of an hour, and just before midnight.              *)
AWeek == {48 * n + h : n \in 35..41, h \in {0, 1, 20, 47}}

(* Greenwich; Paris, and New York with the clocks put on in the week before, *)
(* or back; Calcutta, where hours do not begin with those of UTC.            *)
SomeZones ==
  {[east |-> 0, change |-> 0, more |-> 0], [east |-> 2, change |-> 48 * 28 + 2, more |-> 2],
   [east |-> -10, change |-> 48 * 35 + 14, more |-> 2], [east |-> -8, change |-> 48 * 28 + 12, more |-> -2],
   [east |-> 11, change |-> 0, more |-> 0]}
AllLiterals == {<<l>> : l \in Literals}

(* Around today and around the past weeks; ranges the wrong way round too.   *)
SomeDays == {24, 29, 38}
Typed == {<<a, b>> : a, b \in SomeDays}
AnyRange == {<<>>} \cup AllLiterals \cup Typed
=============================================================================
