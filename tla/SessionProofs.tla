--------------------------- MODULE SessionProofs ---------------------------
(* Proofs about Session: typing, the single serving connection, and the      *)
(* token that is never used after its end.                                   *)
EXTENDS Session, TLAPS

InUse == {"refresh", "exec", "call", "rows"}

(* The connection in use is the used one of the pool, and there is no free   *)
(* one next to it.                                                           *)
PoolInv ==
  /\ pc \in InUse => cn \in Conns /\ pool[cn] = "used"
  /\ \A c \in Conns : pool[c] = "used" => c = cn /\ pc \in InUse \cup {"ended"}
  /\ pc = "open" => \A c \in Conns : pool[c] # "free"
  /\ \A c, d \in Conns : {pool[c], pool[d]} \subseteq {"free", "used"} => c = d

(* What a connection believes of its token is off by the wait for it at most. *)
TokenInv ==
  auth = "client" =>
    /\ \A c \in Conns : expiry[c] # 0 => expiry[c] <= until[c] + TokenTimeout
    /\ pc = "refresh" => timeout = TokenTimeout
    /\ pc = "call" => clock <= until[cn]

(* The statements that have been typed are the ones that have ended, the one *)
(* being run and the ones not yet taken.                                     *)
CountInv ==
  /\ pc \in {"prompt", "batch"} => typed = done + left
  /\ pc \in InUse \cup {"open"} => typed = done + 1 + left
  /\ pc = "prompt" => left = 0

(* The number of statements that have ended stays within its bound because   *)
(* each of them was typed.                                                   *)
Inv == TypeOK /\ PoolInv /\ TokenInv /\ CountInv

LEMMA InitInv == Init => Inv
<1> SUFFICES ASSUME Init PROVE Inv
  OBVIOUS
<1> USE ConnsAssumption, AuthAssumption, TimeAssumption DEF Init
<1>1. TypeOK
  BY DEF TypeOK
<1>2. PoolInv
  BY DEF PoolInv, InUse
<1>3. TokenInv
  BY DEF TokenInv
<1>4. CountInv
  BY DEF CountInv, InUse
<1> QED
  BY <1>1, <1>2, <1>3, <1>4 DEF Inv

(* Every step preserves the invariant. *)
LEMMA StepInv == Inv /\ [Next]_vars => Inv'
<1> SUFFICES ASSUME Inv, [Next]_vars PROVE Inv'
  OBVIOUS
<1> USE ConnsAssumption, AuthAssumption, TimeAssumption, DeltaAssumption DEF Inv, InUse, input, tokens
<1>1. ASSUME Wait PROVE Inv'
  <2> USE <1>1 DEF Wait
  <2>1. TypeOK'
    BY DEF TypeOK, CountInv, PoolInv
  <2>2. PoolInv'
    BY DEF PoolInv, TypeOK
  <2>3. TokenInv'
    BY DEF TokenInv, TypeOK, PoolInv
  <2>4. CountInv'
    BY DEF CountInv, TypeOK
  <2> QED BY <2>1, <2>2, <2>3, <2>4
<1>2. ASSUME Quit PROVE Inv'
  <2> USE <1>2 DEF Quit
  <2>1. TypeOK'
    BY DEF TypeOK, CountInv, PoolInv
  <2>2. PoolInv'
    BY DEF PoolInv, TypeOK
  <2>3. TokenInv'
    BY DEF TokenInv, TypeOK, PoolInv
  <2>4. CountInv'
    BY DEF CountInv, TypeOK
  <2> QED BY <2>1, <2>2, <2>3, <2>4
<1>3. ASSUME NEW n \in 1..MaxBatch, Type(n) PROVE Inv'
  <2> USE <1>3 DEF Type
  <2>1. TypeOK'
    BY DEF TypeOK, CountInv, PoolInv
  <2>2. PoolInv'
    BY DEF PoolInv, TypeOK
  <2>3. TokenInv'
    BY DEF TokenInv, TypeOK, PoolInv
  <2>4. CountInv'
    BY DEF CountInv, TypeOK
  <2> QED BY <2>1, <2>2, <2>3, <2>4
<1>4. ASSUME TakeStmt PROVE Inv'
  <2> USE <1>4 DEF TakeStmt
  <2>1. TypeOK'
    BY DEF TypeOK, CountInv, PoolInv
  <2>2. PoolInv'
    BY DEF PoolInv, TypeOK
  <2>3. TokenInv'
    BY DEF TokenInv, TypeOK, PoolInv
  <2>4. CountInv'
    BY DEF CountInv, TypeOK
  <2> QED BY <2>1, <2>2, <2>3, <2>4
<1>5. ASSUME BatchEnds PROVE Inv'
  <2> USE <1>5 DEF BatchEnds
  <2>1. TypeOK'
    BY DEF TypeOK, CountInv, PoolInv
  <2>2. PoolInv'
    BY DEF PoolInv, TypeOK
  <2>3. TokenInv'
    BY DEF TokenInv, TypeOK, PoolInv
  <2>4. CountInv'
    BY DEF CountInv, TypeOK
  <2> QED BY <2>1, <2>2, <2>3, <2>4
<1>6. ASSUME NEW c \in Conns, Open(c) PROVE Inv'
  <2> USE <1>6 DEF Open, Refresh
  <2>1. TypeOK'
    BY DEF TypeOK, CountInv, PoolInv
  <2>2. PoolInv'
    BY DEF PoolInv, TypeOK
  <2>3. TokenInv'
    BY DEF TokenInv, TypeOK, PoolInv
  <2>4. CountInv'
    BY DEF CountInv, TypeOK
  <2> QED BY <2>1, <2>2, <2>3, <2>4
<1>7. ASSUME OpenFails PROVE Inv'
  <2> USE <1>7 DEF OpenFails
  <2>1. TypeOK'
    BY DEF TypeOK, CountInv, PoolInv
  <2>2. PoolInv'
    BY DEF PoolInv, TypeOK
  <2>3. TokenInv'
    BY DEF TokenInv, TypeOK, PoolInv
  <2>4. CountInv'
    BY DEF CountInv, TypeOK
  <2> QED BY <2>1, <2>2, <2>3, <2>4
<1>8. ASSUME TokenTimeOut PROVE Inv'
  <2> USE <1>8 DEF TokenTimeOut, Fails, Release, Refresh, NoToken, Valid
  <2>1. TypeOK'
    BY DEF TypeOK, CountInv, PoolInv
  <2>2. PoolInv'
    BY DEF PoolInv, TypeOK
  <2>3. TokenInv'
    BY DEF TokenInv, TypeOK, PoolInv
  <2>4. CountInv'
    BY DEF CountInv, TypeOK
  <2> QED BY <2>1, <2>2, <2>3, <2>4
<1>9. ASSUME ExecView PROVE Inv'
  <2> USE <1>9 DEF ExecView, Release
  <2>1. TypeOK'
    BY DEF TypeOK, CountInv, PoolInv
  <2>2. PoolInv'
    BY DEF PoolInv, TypeOK
  <2>3. TokenInv'
    BY DEF TokenInv, TypeOK, PoolInv
  <2>4. CountInv'
    BY DEF CountInv, TypeOK
  <2> QED BY <2>1, <2>2, <2>3, <2>4
<1>10. ASSUME ExecLocal PROVE Inv'
  <2> USE <1>10 DEF ExecLocal
  <2>1. TypeOK'
    BY DEF TypeOK, CountInv, PoolInv
  <2>2. PoolInv'
    BY DEF PoolInv, TypeOK
  <2>3. TokenInv'
    BY DEF TokenInv, TypeOK, PoolInv
  <2>4. CountInv'
    BY DEF CountInv, TypeOK
  <2> QED BY <2>1, <2>2, <2>3, <2>4
<1>11. ASSUME ExecFails PROVE Inv'
  <2> USE <1>11 DEF ExecFails, Fails, Release, Refresh, NoToken, Valid
  <2>1. TypeOK'
    BY DEF TypeOK, CountInv, PoolInv
  <2>2. PoolInv'
    BY DEF PoolInv, TypeOK
  <2>3. TokenInv'
    BY DEF TokenInv, TypeOK, PoolInv
  <2>4. CountInv'
    BY DEF CountInv, TypeOK
  <2> QED BY <2>1, <2>2, <2>3, <2>4
<1>12. ASSUME Download PROVE Inv'
  <2> USE <1>12 DEF Download, Fails, Release, Refresh, NoToken, Valid
  <2>1. TypeOK'
    BY DEF TypeOK, CountInv, PoolInv
  <2>2. PoolInv'
    BY DEF PoolInv, TypeOK
  <2>3. TokenInv'
    BY DEF TokenInv, TypeOK, PoolInv
  <2>4. CountInv'
    BY DEF CountInv, TypeOK
  <2> QED BY <2>1, <2>2, <2>3, <2>4
<1>13. ASSUME ApiTimeOut PROVE Inv'
  <2> USE <1>13 DEF ApiTimeOut, Fails, Release, Refresh, NoToken, Valid
  <2>1. TypeOK'
    BY DEF TypeOK, CountInv, PoolInv
  <2>2. PoolInv'
    BY DEF PoolInv, TypeOK
  <2>3. TokenInv'
    BY DEF TokenInv, TypeOK, PoolInv
  <2>4. CountInv'
    BY DEF CountInv, TypeOK
  <2> QED BY <2>1, <2>2, <2>3, <2>4
<1>14. ASSUME ShowRows PROVE Inv'
  <2> USE <1>14 DEF ShowRows, Release
  <2>1. TypeOK'
    BY DEF TypeOK, CountInv, PoolInv
  <2>2. PoolInv'
    BY DEF PoolInv, TypeOK
  <2>3. TokenInv'
    BY DEF TokenInv, TypeOK, PoolInv
  <2>4. CountInv'
    BY DEF CountInv, TypeOK
  <2> QED BY <2>1, <2>2, <2>3, <2>4
<1>15. ASSUME ShowFails PROVE Inv'
  <2> USE <1>15 DEF ShowFails
  <2>1. TypeOK'
    BY DEF TypeOK, CountInv, PoolInv
  <2>2. PoolInv'
    BY DEF PoolInv, TypeOK
  <2>3. TokenInv'
    BY DEF TokenInv, TypeOK, PoolInv
  <2>4. CountInv'
    BY DEF CountInv, TypeOK
  <2> QED BY <2>1, <2>2, <2>3, <2>4
<1>16. ASSUME NEW delay \in 0..TokenTimeout, TokenRefused(delay) PROVE Inv'
  <2> USE <1>16 DEF TokenRefused, Fails, Release, Refresh, NoToken, Valid
  <2>1. TypeOK'
    BY DEF TypeOK, CountInv, PoolInv
  <2>2. PoolInv'
    BY DEF PoolInv, TypeOK
  <2>3. TokenInv'
    BY DEF TokenInv, TypeOK, PoolInv
  <2>4. CountInv'
    BY DEF CountInv, TypeOK
  <2> QED BY <2>1, <2>2, <2>3, <2>4
<1>17. ASSUME NEW delay \in 0..TokenTimeout, NEW issue \in 0..delay, TokenAnswer(issue, delay) PROVE Inv'
  <2> USE <1>17 DEF TokenAnswer
  <2>1. TypeOK'
    BY DEF TypeOK, CountInv, PoolInv
  <2>2. PoolInv'
    BY DEF PoolInv, TypeOK
  <2>3. TokenInv'
    BY DEF TokenInv, TypeOK, PoolInv
  <2>4. CountInv'
    BY DEF CountInv, TypeOK
  <2> QED BY <2>1, <2>2, <2>3, <2>4
<1>18. ASSUME NEW delay \in 0..ApiTimeout, ApiAnswer(delay) PROVE Inv'
  <2> USE <1>18 DEF ApiAnswer, Fails, Release, Refresh, NoToken, Valid
  <2>1. TypeOK'
    BY DEF TypeOK, CountInv, PoolInv
  <2>2. PoolInv'
    BY DEF PoolInv, TypeOK
  <2>3. TokenInv'
    BY DEF TokenInv, TypeOK, PoolInv
  <2>4. CountInv'
    BY DEF CountInv, TypeOK
  <2> QED BY <2>1, <2>2, <2>3, <2>4
<1>19. CASE UNCHANGED vars
  BY <1>19 DEF vars, TypeOK, PoolInv, TokenInv, CountInv
<1> QED
  BY <1>1, <1>2, <1>3, <1>4, <1>5, <1>6, <1>7, <1>8, <1>9, <1>10, <1>11, <1>12, <1>13, <1>14, <1>15, <1>16, <1>17, <1>18, <1>19 DEF Next, Works, Servers

LEMMA SpecInv == Spec => []Inv
  BY InitInv, StepInv, PTL DEF Spec

(* Every state is typed: the counters keep to their bounds. *)
THEOREM TypeCorrect == Spec => []TypeOK
<1>1. Inv => TypeOK
  BY DEF Inv
<1> QED
  BY <1>1, SpecInv, PTL

(* At most one connection serves the statements, however many were left in   *)
(* use by Seek, and none is in use at the prompt.                            *)
THEOREM OneServesHolds == Spec => []OneServes
<1>1. Inv => OneServes
  BY DEF Inv, PoolInv, OneServes, InUse
<1> QED
  BY <1>1, SpecInv, PTL

(* Stmt.download never sends an expired token, whatever the life of tokens   *)
(* and the time servers take.                                                *)
THEOREM TokenIsLiveHolds == Spec => []TokenIsLive
<1>1. Inv => TokenIsLive
  BY DEF Inv, TokenInv, TokenIsLive
<1> QED
  BY <1>1, SpecInv, PTL

(* Seek tries every statement of an input. *)
THEOREM BatchIsTriedHolds == Spec => []BatchIsTried
<1>1. Inv => BatchIsTried
  BY DEF Inv, TypeOK, CountInv, BatchIsTried
<1> QED
  BY <1>1, SpecInv, PTL

(* A request runs under the short timeout only as the answer to a refresh    *)
(* brings it: every other way to a request sets its own.                     *)
LEMMA StepShort == Inv /\ ShortOnlyAfterRefresh /\ [Next]_vars => ShortOnlyAfterRefresh'
<1> SUFFICES ASSUME Inv, ShortOnlyAfterRefresh, [Next]_vars PROVE ShortOnlyAfterRefresh'
  OBVIOUS
<1>1. ASSUME NEW delay \in 0..TokenTimeout, NEW issue \in 0..delay, TokenAnswer(issue, delay)
      PROVE  ShortOnlyAfterRefresh'
  <2>1. cn \in Conns /\ expiry \in [Conns -> Nat] /\ cn' = cn
    BY <1>1 DEF TokenAnswer, Inv, PoolInv, TypeOK, InUse
  <2>2. expiry'[cn] = clock' + Life
    BY <1>1, <2>1 DEF TokenAnswer
  <2> QED
    BY <2>1, <2>2 DEF ShortOnlyAfterRefresh
<1>2. ASSUME Download PROVE ShortOnlyAfterRefresh'
  BY <1>2 DEF Download, Fails, Refresh, ShortOnlyAfterRefresh
<1>3. CASE UNCHANGED vars
  BY <1>3 DEF vars, ShortOnlyAfterRefresh
<1>4. ASSUME \/ Wait \/ Quit \/ TakeStmt \/ BatchEnds \/ OpenFails \/ ExecView \/ ExecLocal
             \/ ExecFails \/ ShowRows \/ ShowFails \/ ApiTimeOut
             \/ \E n \in 1..MaxBatch : Type(n)
             \/ \E delay \in 0..ApiTimeout : ApiAnswer(delay)
      PROVE  pc' # "call"
  BY <1>4 DEF Wait, Quit, TakeStmt, BatchEnds, OpenFails, ExecView, ExecLocal, ExecFails,
              ShowRows, ShowFails, ApiTimeOut, Type, ApiAnswer, Fails, Release
<1>5. ASSUME NEW c \in Conns, Open(c) PROVE pc' # "call"
  BY <1>5 DEF Open, Refresh
<1>6. ASSUME TokenTimeOut \/ \E delay \in 0..TokenTimeout : TokenRefused(delay) PROVE pc' # "call"
  BY <1>6 DEF TokenTimeOut, TokenRefused, NoToken, Fails
<1>7. pc' # "call" => ShortOnlyAfterRefresh'
  BY DEF ShortOnlyAfterRefresh
<1> QED
  BY <1>1, <1>2, <1>3, <1>4, <1>5, <1>6, <1>7 DEF Next, Works, Servers

(* Only the download that has just refreshed its token runs under the        *)
(* timeout of the refresh (Stmt.download, Conn.downloadToken).               *)
THEOREM ShortOnlyAfterRefreshHolds == Spec => []ShortOnlyAfterRefresh
<1>1. Init => ShortOnlyAfterRefresh
  BY DEF Init, ShortOnlyAfterRefresh
<1> QED
  BY <1>1, StepShort, SpecInv, PTL DEF Spec
=============================================================================
