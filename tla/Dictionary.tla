----------------------------- MODULE Dictionary -----------------------------
(* What the prompt promises of the names of tables: what was once known      *)
(* stays known; Tab offers what was known when the tool was started, the     *)
(* index has what was known when the connection was opened, and neither has  *)
(* anything else.                                                            *)
CONSTANT Given     \* the names of the reports

VARIABLES known,    \* the tables there are
          offered,  \* those Tab offers
          indexed   \* those SHOW TABLES WITH looks at

names == <<known, offered, indexed>>

Init == known = Given /\ offered = {} /\ indexed = Given

(* A tool is started: it offers what is known, or nothing.                   *)
Start == offered' \in {{}, known} /\ indexed' = known /\ UNCHANGED known

(* A view is created on the open connection: it is neither offered nor       *)
(* indexed yet.                                                              *)
Create ==
  /\ \E n \in known' : n \notin known /\ known' = known \cup {n}
  /\ UNCHANGED <<offered, indexed>>

(* The connection is gone: the next one will index what is known.            *)
Leave == indexed' = known /\ UNCHANGED <<known, offered>>

Next == Start \/ Create \/ Leave
Spec == Init /\ [][Next]_names

(* Nothing is offered or indexed that is not there.                          *)
OnlyKnown ==
  /\ Given \subseteq known
  /\ offered \subseteq known
  /\ indexed \subseteq known
(* What is known stays known (there is no DROP VIEW).                        *)
StaysKnown == [][known \subseteq known']_names
=============================================================================
