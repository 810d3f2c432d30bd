--------------------------- MODULE ReportService ---------------------------
(* What the tool promises about its answers, without files, goroutines or    *)
(* purges: a process asks a query, the API may issue a report for it, and    *)
(* the answer is made of rows of issued reports of the same query, letter    *)
(* case aside.  ReportCache implements it.                                   *)
EXTENDS Integers, Sequences

CONSTANTS Procs, Accounts, Texts, Folds, Fold, Sizes, AccountOf, MaxTime,
          MaxQueries, MaxLives, Hole, NoText, NoAnswer

VARIABLES now, issued, phase, life, asked, text, shown

svars == <<now, issued, phase, life, asked, text, shown>>

Init ==
  /\ now = 0
  /\ issued = {}
  /\ phase = [p \in Procs |-> "off"]
  /\ life = [p \in Procs |-> 0]
  /\ asked = [p \in Procs |-> 0]
  /\ text = [p \in Procs |-> NoText]
  /\ shown = [p \in Procs |-> NoAnswer]

Start(p) ==
  /\ phase[p] = "off" /\ life[p] < MaxLives
  /\ phase' = [phase EXCEPT ![p] = "idle"]
  /\ life' = [life EXCEPT ![p] = @ + 1]
  /\ shown' = [shown EXCEPT ![p] = NoAnswer]
  /\ UNCHANGED <<now, issued, asked, text>>

Ask(p, t) ==
  /\ phase[p] = "idle" /\ asked[p] < MaxQueries
  /\ phase' = [phase EXCEPT ![p] = "busy"]
  /\ asked' = [asked EXCEPT ![p] = @ + 1]
  /\ text' = [text EXCEPT ![p] = t]
  /\ UNCHANGED <<now, issued, life, shown>>

(* The API issues a report for the query and the account of p. *)
Issue(p) ==
  /\ phase[p] = "busy"
  /\ \E n \in Sizes[Fold[text[p]]] :
       issued' = issued \cup {[acct |-> AccountOf[p], text |-> text[p], at |-> now,
                               by |-> <<p, life[p]>>, size |-> n]}
  /\ UNCHANGED <<now, phase, life, asked, text, shown>>

(* Rows an answer to t may be made of. *)
Fit(t) == {r \in issued : Fold[r.text] = Fold[t]} \cup {Hole}

Answer(p) ==
  /\ phase[p] = "busy"
  /\ phase' = [phase EXCEPT ![p] = "idle"]
  /\ \E a \in {shown'[p]} :
       /\ a # NoAnswer /\ a.text = text[p] /\ a.at = now /\ a.by = <<p, life[p]>>
       /\ a.rows \in Seq(Fit(text[p])) /\ a.hit \in BOOLEAN
       /\ shown' = [shown EXCEPT ![p] = a]
  /\ UNCHANGED <<now, issued, life, asked, text>>

Fail(p) ==
  /\ phase[p] = "busy"
  /\ phase' = [phase EXCEPT ![p] = "idle"]
  /\ UNCHANGED <<now, issued, life, asked, text, shown>>

Exit(p) ==
  /\ phase[p] # "off"
  /\ phase' = [phase EXCEPT ![p] = "off"]
  /\ text' = [text EXCEPT ![p] = NoText]
  /\ UNCHANGED <<now, issued, life, asked, shown>>

Tick ==
  /\ now < MaxTime
  /\ now' = now + 1
  /\ UNCHANGED <<issued, phase, life, asked, text, shown>>

Next ==
  \/ \E p \in Procs : \/ Start(p) \/ Issue(p) \/ Answer(p) \/ Fail(p) \/ Exit(p)
                      \/ \E t \in Texts : Ask(p, t)
  \/ Tick

Spec == Init /\ [][Next]_svars
=============================================================================
