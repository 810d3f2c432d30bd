---------------------------- MODULE SetupProofs ----------------------------
(* Proofs about Setup: the credentials of a session, for any number of       *)
(* processes, kills and failures.                                            *)
EXTENDS Setup, FiniteSetTheorems, TLAPS

(* A process has no credentials before it chooses how to get them, and only  *)
(* one that was given none asks, saves or reads.                             *)
TokenInv ==
  \A p \in Procs :
    /\ pc[p] \in {"check", "stat", "mkdir", "cache", "auth", "read"} => tk[p] = Empty
    /\ pc[p] \in {"ask", "save", "write", "read"} => args[p] # "both"
    /\ pc[p] \in {"ask", "save", "write"} => tk[p][1] = Blank

(* The answers are asked for in their order; all four are there in the end.  *)
AnswerInv ==
  \A p \in Procs :
    /\ pc[p] = "ask" => \A i \in 2..5 :
         /\ tk[p][i] \in {Blank, p}
         /\ tk[p][i] # Blank => \A j \in 2..(i - 1) : tk[p][j] # Blank
    /\ pc[p] \in {"save", "write"} => tk[p] = Answered(p)

(* Unless something has befallen it, the file has all answers of one user,   *)
(* or is empty while one is about to write it.                               *)
FileInv ==
  faults = {} /\ config # NoFile =>
    /\ ~config.torn
    /\ \/ \E q \in Procs : config.vals = Answered(q)
       \/ config.vals = Empty /\ \E q \in Procs : pc[q] = "write"

(* A file or a directory that there was once is there for ever. *)
KnownInv ==
  \A p \in Procs :
    /\ "file" \in known[p] \/ pc[p] = "read" => config # NoFile
    /\ "home" \in known[p] => home
    /\ pc[p] = "mkdir" => "home" \notin known[p]

(* CredentialsAreWhole needs to know what the file holds (FileInv) and what  *)
(* those who are about to write it hold (AnswerInv).                         *)
Inv == /\ TypeOK /\ TokenInv /\ AnswerInv /\ FileInv /\ KnownInv
       /\ CredentialsAreWhole /\ TemporaryIsNotKept /\ AskedOnce /\ FailsForAReason

LEMMA CredentialsTyped ==
  /\ Empty \in Credentials
  /\ \A p \in Procs : Temporary(p) \in Credentials /\ Answered(p) \in Credentials
  /\ \A c \in Configs : c.vals \in Credentials /\ c.torn \in BOOLEAN /\ c # NoFile
  /\ \A c \in Credentials, t \in BOOLEAN : [vals |-> c, torn |-> t] \in Configs
BY AbsentAssumption DEF Empty, Temporary, Answered, Credentials, Values, Fields, Configs

LEMMA FieldsOfEmpty == \A i \in Fields : Empty[i] = Blank
BY DEF Empty

LEMMA FieldsOfAnswered ==
  \A p \in Procs : Answered(p)[1] = Blank /\ \A i \in 2..5 : Answered(p)[i] = p
BY DEF Answered, Fields

(* Credentials that are asked for are not empty, and full ones are whole.    *)
LEMMA AnsweredIsNotEmpty == \A p \in Procs : Answered(p) # Empty
<1> SUFFICES ASSUME NEW p \in Procs, Answered(p) = Empty PROVE FALSE
  OBVIOUS
<1>1. Answered(p)[2] = p /\ Empty[2] = Blank
  BY DEF Answered, Empty, Fields
<1> QED
  BY <1>1, ProcAssumption

LEMMA FullIsAnswered ==
  ASSUME NEW p \in Procs, NEW c \in Credentials, c[1] = Blank, \A i \in 2..5 : c[i] = p
  PROVE  c = Answered(p)
BY DEF Answered, Credentials, Fields

LEMMA InitInv == Init => Inv
<1> SUFFICES ASSUME Init PROVE Inv
  OBVIOUS
<1> USE ProcAssumption, BoundAssumption, AbsentAssumption, CredentialsTyped DEF Init
<1>1. TypeOK
  <2>1. tk \in [Procs -> Credentials]
    OBVIOUS
  <2>2. life \in [Procs -> 0..MaxLives]
    OBVIOUS
  <2>3. /\ pc \in [Procs -> Places] /\ args \in [Procs -> Flags] /\ end \in [Procs -> Ends]
        /\ known \in [Procs -> SUBSET {"home", "file"}] /\ missed \subseteq Procs
    BY DEF Places, Flags, Ends
  <2>4. \A p \in Procs : pc[p] = "off"
    OBVIOUS
  <2> QED
    BY <2>1, <2>2, <2>3, <2>4 DEF TypeOK
<1>2. TokenInv
  BY DEF TokenInv, TypeOK
<1>3. AnswerInv
  BY DEF AnswerInv, TypeOK, TokenInv
<1>4. FileInv
  BY DEF FileInv, TypeOK, AnswerInv
<1>5. KnownInv
  BY DEF KnownInv, TypeOK
<1>6. CredentialsAreWhole
  BY DEF CredentialsAreWhole, TypeOK, FileInv, AnswerInv, TokenInv
<1>7. TemporaryIsNotKept
  BY DEF TemporaryIsNotKept, TypeOK, TokenInv
<1>8. AskedOnce
  BY DEF AskedOnce, TypeOK, KnownInv
<1>9. FailsForAReason
  BY DEF FailsForAReason, Excused
<1> QED
  BY <1>1, <1>2, <1>3, <1>4, <1>5, <1>6, <1>7, <1>8, <1>9 DEF Inv

(* Every step preserves the invariant. *)
LEMMA StepInv == Inv /\ [Next]_vars => Inv'
<1> SUFFICES ASSUME Inv, [Next]_vars PROVE Inv'
  OBVIOUS
<1> USE ProcAssumption, BoundAssumption, CredentialsTyped DEF Inv, Goto, Fail, disk, start
<1>1. ASSUME NEW p \in Procs, NEW f \in Flags, Start(p, f) PROVE Inv'
  <2> USE <1>1 DEF Start
  <2>1. TypeOK'
    BY DEF TypeOK, Flags, Places, Ends
  <2>2. TokenInv'
    BY DEF TokenInv, TypeOK
  <2>3. AnswerInv'
    BY DEF AnswerInv, TypeOK, TokenInv
  <2>4. FileInv'
    BY DEF FileInv, TypeOK, AnswerInv
  <2>5. KnownInv'
    BY DEF KnownInv, TypeOK
  <2>6. AskedOnce'
    BY DEF AskedOnce, TypeOK, KnownInv
  <2>7. CredentialsAreWhole' /\ TemporaryIsNotKept'
    BY DEF TypeOK, CredentialsAreWhole, TemporaryIsNotKept
  <2>r. FailsForAReason'
    BY DEF TypeOK, FailsForAReason, Excused, KnownInv, FileInv
  <2> QED
    BY <2>1, <2>2, <2>3, <2>4, <2>5, <2>6, <2>7, <2>r
<1>2. ASSUME NEW p \in Procs, Check(p) PROVE Inv'
  <2> USE <1>2 DEF Check
  <2>1. TypeOK'
    BY DEF TypeOK, Flags, Places, Ends
  <2>2. TokenInv'
    BY DEF TokenInv, TypeOK
  <2>3. FileInv'
    BY DEF FileInv, TypeOK, AnswerInv
  <2>4. AnswerInv' /\ KnownInv' /\ CredentialsAreWhole' /\ TemporaryIsNotKept' /\ AskedOnce'
    BY DEF TypeOK, AnswerInv, KnownInv, CredentialsAreWhole, TemporaryIsNotKept, AskedOnce
  <2>r. FailsForAReason'
    BY DEF TypeOK, FailsForAReason, Excused, KnownInv, FileInv
  <2> QED
    BY <2>1, <2>2, <2>3, <2>4, <2>r
<1>3. ASSUME NEW p \in Procs, StatHome(p) PROVE Inv'
  <2> USE <1>3 DEF StatHome
  <2>1. TypeOK'
    BY DEF TypeOK, Flags, Places, Ends
  <2>2. TokenInv'
    BY DEF TokenInv, TypeOK
  <2>3. FileInv'
    BY DEF FileInv, TypeOK, AnswerInv
  <2>4. AnswerInv' /\ KnownInv' /\ CredentialsAreWhole' /\ TemporaryIsNotKept' /\ AskedOnce'
    BY DEF TypeOK, AnswerInv, KnownInv, CredentialsAreWhole, TemporaryIsNotKept, AskedOnce
  <2>r. FailsForAReason'
    BY DEF TypeOK, FailsForAReason, Excused, KnownInv, FileInv
  <2> QED
    BY <2>1, <2>2, <2>3, <2>4, <2>r
<1>4. ASSUME NEW p \in Procs, MkHome(p) PROVE Inv'
  <2> USE <1>4 DEF MkHome
  <2>1. TypeOK'
    BY DEF TypeOK, Flags, Places, Ends
  <2>2. TokenInv'
    BY DEF TokenInv, TypeOK
  <2>3. FileInv'
    BY DEF FileInv, TypeOK, AnswerInv
  <2>4. AnswerInv' /\ KnownInv' /\ CredentialsAreWhole' /\ TemporaryIsNotKept' /\ AskedOnce'
    BY DEF TypeOK, AnswerInv, KnownInv, CredentialsAreWhole, TemporaryIsNotKept, AskedOnce
  <2>r. FailsForAReason'
    BY DEF TypeOK, FailsForAReason, Excused, KnownInv, FileInv
  <2> QED
    BY <2>1, <2>2, <2>3, <2>4, <2>r
<1>5. ASSUME NEW p \in Procs, MkCache(p) PROVE Inv'
  <2> USE <1>5 DEF MkCache
  <2>1. TypeOK'
    BY DEF TypeOK, Flags, Places, Ends
  <2>2. TokenInv'
    BY DEF TokenInv, TypeOK
  <2>3. FileInv'
    BY DEF FileInv, TypeOK, AnswerInv
  <2>4. AnswerInv' /\ KnownInv' /\ CredentialsAreWhole' /\ TemporaryIsNotKept' /\ AskedOnce'
    BY DEF TypeOK, AnswerInv, KnownInv, CredentialsAreWhole, TemporaryIsNotKept, AskedOnce
  <2>r. FailsForAReason'
    BY DEF TypeOK, FailsForAReason, Excused, KnownInv, FileInv
  <2> QED
    BY <2>1, <2>2, <2>3, <2>4, <2>r
<1>6. ASSUME NEW p \in Procs, ChooseAuth(p) PROVE Inv'
  <2> USE <1>6 DEF ChooseAuth
  <2>1. TypeOK'
    BY DEF TypeOK, Flags, Places, Ends
  <2>2. TokenInv'
    BY FieldsOfEmpty DEF TokenInv, TypeOK, Fields
  <2>3. AnswerInv'
    BY FieldsOfEmpty DEF AnswerInv, TypeOK, TokenInv, Fields
  <2>4. FileInv'
    BY DEF FileInv, TypeOK, AnswerInv
  <2>5. KnownInv'
    BY DEF KnownInv, TypeOK
  <2>6. CredentialsAreWhole'
    BY DEF CredentialsAreWhole, TypeOK, FileInv, AnswerInv, TokenInv
  <2>7. AskedOnce'
    BY DEF AskedOnce, TypeOK, KnownInv
  <2>8. TemporaryIsNotKept'
    BY DEF TypeOK, TemporaryIsNotKept
  <2>r. FailsForAReason'
    BY DEF TypeOK, FailsForAReason, Excused, KnownInv, FileInv
  <2> QED
    BY <2>1, <2>2, <2>3, <2>4, <2>5, <2>6, <2>7, <2>8, <2>r
<1>7. ASSUME NEW p \in Procs, Ask(p) PROVE Inv'
  <2> USE <1>7 DEF Ask
  <2>f. Fields \ {1} = 2..5
    BY DEF Fields
  <2>a. PICK i \in 2..5 :
           /\ tk[p][i] = Blank /\ \A j \in 2..(i - 1) : tk[p][j] # Blank
           /\ tk' = [tk EXCEPT ![p][i] = p]
    BY <2>f
  <2> DEFINE c == [tk[p] EXCEPT ![i] = p]
  <2>c. tk' = [tk EXCEPT ![p] = c]
    BY <2>a
  <2>d. c \in Credentials /\ c[i] = p /\ \A j \in Fields \ {i} : c[j] = tk[p][j]
    BY <2>a DEF TypeOK, Credentials, Values, Fields
  <2> HIDE DEF c
  <2>e. tk'[p] = c /\ \A q \in Procs \ {p} : tk'[q] = tk[q]
    BY <2>c DEF TypeOK
  <2>1. TypeOK'
    BY <2>c, <2>d DEF TypeOK, Flags, Places, Ends
  <2>2. TokenInv'
    BY <2>a, <2>d, <2>e DEF TokenInv, TypeOK, Fields
  <2>3. AnswerInv'
    BY <2>a, <2>d, <2>e DEF AnswerInv, TypeOK, TokenInv, Fields
  <2>4. FileInv' /\ KnownInv' /\ CredentialsAreWhole' /\ TemporaryIsNotKept' /\ AskedOnce'
    BY DEF TypeOK, FileInv, KnownInv, CredentialsAreWhole, TemporaryIsNotKept, AskedOnce
  <2>r. FailsForAReason'
    BY DEF TypeOK, FailsForAReason, Excused, KnownInv, FileInv
  <2> QED
    BY <2>1, <2>2, <2>3, <2>4, <2>r
<1>8. ASSUME NEW p \in Procs, AskDone(p) PROVE Inv'
  <2> USE <1>8 DEF AskDone
  <2>a. tk[p] \in Credentials /\ tk[p][1] = Blank /\ p # Blank
    BY DEF TypeOK, TokenInv
  <2>b. tk[p][5] # Blank /\ \A j \in 2..4 : tk[p][j] # Blank
    <3>1. tk[p][5] # Blank => \A j \in 2..(5 - 1) : tk[p][j] # Blank
      BY DEF AnswerInv
    <3> QED
      BY <3>1
  <2>c. \A i \in 2..5 : tk[p][i] = p
    BY <2>b DEF AnswerInv
  <2>d. tk[p] = Answered(p)
    BY <2>a, <2>c, FullIsAnswered
  <2>1. TypeOK'
    BY DEF TypeOK, Flags, Places, Ends
  <2>2. TokenInv'
    BY DEF TokenInv, TypeOK
  <2>3. AnswerInv'
    BY <2>d DEF AnswerInv, TypeOK, TokenInv
  <2>4. FileInv'
    BY DEF FileInv, TypeOK, AnswerInv
  <2>5. KnownInv' /\ CredentialsAreWhole' /\ TemporaryIsNotKept' /\ AskedOnce'
    BY DEF TypeOK, KnownInv, CredentialsAreWhole, TemporaryIsNotKept, AskedOnce
  <2>r. FailsForAReason'
    BY DEF TypeOK, FailsForAReason, Excused, KnownInv, FileInv
  <2> QED
    BY <2>1, <2>2, <2>3, <2>4, <2>5, <2>r
<1>9. ASSUME NEW p \in Procs, SaveConfig(p) PROVE Inv'
  <2> USE <1>9 DEF SaveConfig
  <2>a. \/ config' = [vals |-> Empty, torn |-> FALSE] /\ config' \in Configs
        \/ config' = config
    BY DEF TypeOK
  <2>1. TypeOK'
    BY <2>a DEF TypeOK, Flags, Places, Ends
  <2>2. AnswerInv'
    BY DEF AnswerInv, TypeOK, TokenInv
  <2>3. FileInv'
    BY DEF FileInv, TypeOK, AnswerInv
  <2>4. KnownInv'
    BY <2>a DEF KnownInv, TypeOK
  <2>5. TemporaryIsNotKept'
    BY <2>a, FieldsOfEmpty DEF TemporaryIsNotKept, TypeOK, TokenInv, Fields
  <2>6. TokenInv' /\ CredentialsAreWhole' /\ AskedOnce'
    BY DEF TypeOK, TokenInv, CredentialsAreWhole, AskedOnce
  <2>r. FailsForAReason'
    BY DEF TypeOK, FailsForAReason, Excused, KnownInv, FileInv
  <2> QED
    BY <2>1, <2>2, <2>3, <2>4, <2>5, <2>6, <2>r
<1>10. ASSUME NEW p \in Procs, WriteConfig(p) PROVE Inv'
  <2> USE <1>10 DEF WriteConfig
  <2>a. tk[p] = Answered(p) /\ config \in Configs
    BY DEF TypeOK, AnswerInv
  <2>q. \/ config' = [vals |-> Answered(p), torn |-> FALSE]
        \/ config' = [vals |-> Answered(p), torn |-> TRUE]
    BY <2>a
  <2>b. config'.vals = Answered(p) /\ config' \in Configs
    <3>1. Answered(p) \in Credentials
      OBVIOUS
    <3>2. CASE config' = [vals |-> Answered(p), torn |-> FALSE]
      BY <3>1, <3>2
    <3>3. CASE config' = [vals |-> Answered(p), torn |-> TRUE]
      BY <3>1, <3>3
    <3> QED
      BY <2>q, <3>2, <3>3
  <2>c. faults' = {} => ~config'.torn
    BY DEF TypeOK
  <2>1. TypeOK'
    BY <2>b DEF TypeOK, Flags, Places, Ends
  <2>2. FileInv'
    BY <2>b, <2>c DEF FileInv, TypeOK, AnswerInv
  <2>3. KnownInv'
    BY <2>b DEF KnownInv, TypeOK
  <2>4. CredentialsAreWhole'
    BY DEF CredentialsAreWhole, TypeOK, FileInv, AnswerInv, TokenInv
  <2>5. TemporaryIsNotKept'
    BY <2>b, FieldsOfAnswered DEF TemporaryIsNotKept, TypeOK, TokenInv
  <2>6. TokenInv' /\ AnswerInv' /\ AskedOnce'
    BY DEF TypeOK, TokenInv, AnswerInv, AskedOnce
  <2>r. FailsForAReason'
    BY DEF TypeOK, FailsForAReason, Excused, KnownInv, FileInv
  <2> QED
    BY <2>1, <2>2, <2>3, <2>4, <2>5, <2>6, <2>r
<1>11. ASSUME NEW p \in Procs, WriteCut(p) PROVE Inv'
  <2> USE <1>11 DEF WriteCut
  <2>a. tk[p] = Answered(p) /\ tk[p] \in Credentials /\ config \in Configs
    BY DEF TypeOK, AnswerInv
  <2>n. PICK n \in 0..4 : \E v \in {config.vals[n + 1]} \cup (IF n > 0 THEN {Cut} ELSE {}) :
          config' = [vals |-> [i \in Fields |-> IF i <= n THEN tk[p][i]
                                                ELSE IF i = n + 1 THEN v ELSE config.vals[i]],
                     torn |-> TRUE]
    OBVIOUS
  <2>b. PICK v \in {config.vals[n + 1]} \cup (IF n > 0 THEN {Cut} ELSE {}) :
          config' = [vals |-> [i \in Fields |-> IF i <= n THEN tk[p][i]
                                                ELSE IF i = n + 1 THEN v ELSE config.vals[i]],
                     torn |-> TRUE]
    BY <2>n
  <2>c. v \in Values
    BY <2>a, <2>b DEF Credentials, Values, Fields
  <2>d. config'.vals \in Credentials /\ config' \in Configs
    <3>1. [i \in Fields |-> IF i <= n THEN tk[p][i]
                           ELSE IF i = n + 1 THEN v ELSE config.vals[i]] \in Credentials
      BY <2>a, <2>c DEF Credentials
    <3> QED
      BY <2>b, <3>1
  <2>e. config'.vals[1] = Blank
    <3>1. config.vals[1] = Blank
      BY <2>a DEF TemporaryIsNotKept
    <3>2. CASE n = 0
      <4>1. v = config.vals[1]
        BY <3>2
      <4> QED
        BY <2>b, <3>1, <3>2, <4>1 DEF Fields
    <3>3. CASE n > 0
      BY <2>a, <2>b, <3>3, FieldsOfAnswered DEF Fields
    <3> QED
      BY <3>2, <3>3
  <2>1. TypeOK'
    BY <2>a, <2>d DEF TypeOK, Flags, Places, Ends
  <2>2. FileInv'
    BY DEF FileInv, TypeOK, AnswerInv
  <2>3. KnownInv'
    BY <2>d DEF KnownInv, TypeOK
  <2>4. TemporaryIsNotKept'
    BY <2>e DEF TemporaryIsNotKept, TypeOK, TokenInv
  <2>5. TokenInv' /\ AnswerInv' /\ CredentialsAreWhole' /\ AskedOnce'
    BY DEF TypeOK, TokenInv, AnswerInv, CredentialsAreWhole, AskedOnce
  <2>r. FailsForAReason'
    BY DEF TypeOK, FailsForAReason, Excused, KnownInv, FileInv
  <2> QED
    BY <2>1, <2>2, <2>3, <2>4, <2>5, <2>r
<1>12. ASSUME NEW p \in Procs, ReadConfig(p) PROVE Inv'
  <2> USE <1>12 DEF ReadConfig
  <2>a. config \in Configs /\ config # NoFile /\ config.vals \in Credentials
    BY DEF TypeOK, KnownInv
  <2>b. faults' = {} => \E q \in Procs : config.vals = Answered(q)
    BY <2>a DEF FileInv
  <2>c. args[p] # "both"
    BY DEF TokenInv
  <2>d. tk'[p] = config.vals \/ pc'[p] = "off"
    BY DEF TypeOK
  <2>e. \A q \in Procs \ {p} : pc'[q] = pc[q] /\ tk'[q] = tk[q]
    BY DEF TypeOK
  <2>f. faults' = {} => faults = {}
    OBVIOUS
  <2>1. TypeOK'
    BY <2>a DEF TypeOK, Flags, Places, Ends
  <2>2. TokenInv'
    BY DEF TokenInv, TypeOK
  <2>3. FileInv'
    BY DEF FileInv, TypeOK, AnswerInv
  <2>4. CredentialsAreWhole'
    BY <2>b, <2>c, <2>d, <2>e, <2>f DEF CredentialsAreWhole
  <2>5. AnswerInv' /\ KnownInv' /\ TemporaryIsNotKept' /\ AskedOnce'
    BY DEF TypeOK, AnswerInv, KnownInv, TemporaryIsNotKept, AskedOnce
  <2>r. FailsForAReason'
    BY DEF TypeOK, FailsForAReason, Excused, KnownInv, FileInv
  <2> QED
    BY <2>1, <2>2, <2>3, <2>4, <2>5, <2>r
<1>13. ASSUME NEW p \in Procs, Exit(p) PROVE Inv'
  <2> USE <1>13 DEF Exit
  <2>1. TypeOK'
    BY DEF TypeOK, Flags, Places, Ends
  <2>2. FileInv'
    BY DEF FileInv, TypeOK, AnswerInv
  <2>3. TokenInv' /\ AnswerInv' /\ KnownInv' /\ CredentialsAreWhole' /\ TemporaryIsNotKept' /\ AskedOnce'
    BY DEF TypeOK, TokenInv, AnswerInv, KnownInv, CredentialsAreWhole, TemporaryIsNotKept, AskedOnce
  <2>r. FailsForAReason'
    BY DEF TypeOK, FailsForAReason, Excused, KnownInv, FileInv
  <2> QED
    BY <2>1, <2>2, <2>3, <2>r
<1>15. ASSUME NEW p \in Procs, InputEnds(p) PROVE Inv'
  <2> USE <1>15 DEF InputEnds
  <2>1. TypeOK'
    BY DEF TypeOK, Flags, Places, Ends
  <2>2. TokenInv'
    BY DEF TokenInv, TypeOK
  <2>3. FileInv'
    BY DEF FileInv, TypeOK, AnswerInv
  <2>4. AnswerInv' /\ KnownInv' /\ CredentialsAreWhole' /\ TemporaryIsNotKept' /\ AskedOnce'
    BY DEF TypeOK, AnswerInv, KnownInv, CredentialsAreWhole, TemporaryIsNotKept, AskedOnce
  <2>r. FailsForAReason'
    BY DEF TypeOK, FailsForAReason, Excused
  <2> QED
    BY <2>1, <2>2, <2>3, <2>4, <2>r
<1>14. CASE UNCHANGED vars
  BY <1>14 DEF vars, TypeOK, TokenInv, AnswerInv, FileInv, KnownInv, CredentialsAreWhole, TemporaryIsNotKept, AskedOnce, FailsForAReason, Excused
<1> QED
  BY <1>1, <1>2, <1>3, <1>4, <1>5, <1>6, <1>7, <1>8, <1>9, <1>10, <1>11, <1>12, <1>13, <1>14, <1>15 DEF Next, Work

LEMMA Invariance == Spec => []Inv
BY InitInv, StepInv, PTL DEF Spec

(* Every state is typed, for any number of processes. *)
THEOREM TypeCorrect == Spec => []TypeOK
<1>1. Inv => TypeOK
  BY DEF Inv
<1> QED
  BY <1>1, Invariance, PTL

(* A session starts with the credentials it was given or with all four that  *)
(* one user was asked for, unless a write was cut, overlapped or read early. *)
THEOREM CredentialsAreWholeHolds == Spec => []CredentialsAreWhole
<1>1. Inv => CredentialsAreWhole
  BY DEF Inv
<1> QED
  BY <1>1, Invariance, PTL

LEMMA PartsOfToken == ASSUME NEW p \in Procs PROVE Parts(Temporary(p)) = 2
<1>1. p # Blank
  BY ProcAssumption
<1>2. {i \in Fields : Temporary(p)[i] # Blank} = 1..2
  BY <1>1 DEF Temporary, Fields
<1>3. Cardinality(1..2) = IF 1 > 2 THEN 0 ELSE 2 - 1 + 1
  BY 1 \in Int, 2 \in Int, FS_Interval, Zenon
<1> QED
  BY <1>2, <1>3 DEF Parts

LEMMA PartsOfClient == ASSUME NEW p \in Procs PROVE Parts(Answered(p)) = 4
<1>1. p # Blank
  BY ProcAssumption
<1>2. {i \in Fields : Answered(p)[i] # Blank} = 2..5
  BY <1>1 DEF Answered, Fields
<1>3. Cardinality(2..5) = IF 2 > 5 THEN 0 ELSE 5 - 2 + 1
  BY 2 \in Int, 5 \in Int, FS_Interval, Zenon
<1> QED
  BY <1>2, <1>3 DEF Parts

(* The driver, which counts the values it is given, takes them for what they *)
(* are: two are a token, four are the client's.                              *)
THEOREM ConnectsAsGivenHolds == Spec => []ConnectsAsGiven
<1>1. CredentialsAreWhole => ConnectsAsGiven
  BY PartsOfToken, PartsOfClient DEF CredentialsAreWhole, ConnectsAsGiven, AuthOf
<1> QED
  BY <1>1, CredentialsAreWholeHolds, PTL

(* No access token is ever left in the configuration file. *)
THEOREM TemporaryIsNotKeptHolds == Spec => []TemporaryIsNotKept
<1>1. Inv => TemporaryIsNotKept
  BY DEF Inv
<1> QED
  BY <1>1, Invariance, PTL

(* Who starts when there is a file is asked again, and writes over it, only  *)
(* when os.Stat failed on it.                                                *)
THEOREM AskedOnceHolds == Spec => []AskedOnce
<1>1. Inv => AskedOnce
  BY DEF Inv
<1> QED
  BY <1>1, Invariance, PTL

(* A start that does not come to a session has a reason. *)
THEOREM FailsForAReasonHolds == Spec => []FailsForAReason
<1>1. Inv => FailsForAReason
  BY DEF Inv
<1> QED
  BY <1>1, Invariance, PTL
=============================================================================
