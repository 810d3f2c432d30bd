------------------------------ MODULE Session ------------------------------
(* One run of the tool: the statements typed at the prompt, the connections  *)
(* that database/sql opens and keeps for them, and the OAuth token of each   *)
(* connection.  The process is sequential; time passes while the user types  *)
(* and while a server is waited for, never elsewhere.                        *)
EXTENDS Integers

CONSTANTS
  Conns,         \* connections of the pool
  NoConn,
  Auths,         \* what the credentials may be: "none", "token" (access token
                 \* given), "client" (refresh token)
  Life,          \* validity of an access token
  Delta,         \* tokenExpiryDelta
  TokenTimeout,  \* tokenTimeout
  ApiTimeout,    \* apiTimeout
  MaxBatch,      \* bound: statements in one input
  MaxStmts,      \* bound: statements in the run
  MaxClock       \* bound: the user no longer waits after this time

ASSUME ConnsAssumption == NoConn \notin Conns
ASSUME AuthAssumption == Auths \subseteq {"none", "token", "client"}
ASSUME TimeAssumption ==
  /\ Life \in Nat \ {0} /\ Delta \in Nat \ {0}
  /\ TokenTimeout \in Nat \ {0} /\ ApiTimeout \in Nat \ {0}
  /\ MaxBatch \in Nat /\ MaxStmts \in Nat /\ MaxClock \in Nat
(* The margin before the end of a token covers the wait for it, and a token  *)
(* outlives that wait.                                                       *)
ASSUME DeltaAssumption == TokenTimeout <= Delta /\ TokenTimeout <= Life

VARIABLES
  auth,      \* the credentials of this run, never changed
  clock,
  pc,        \* "prompt", "batch", "open", "refresh", "exec", "call", "rows", "ended"
  typed,     \* statements typed so far
  left,      \* statements of the input not yet taken
  done,      \* statements that have ended
  cn,        \* the connection in use
  pool,      \* per connection: "closed", "free", "used", "left" (never closed)
  expiry,    \* per connection: Auth.Expiry; 0 is the zero time
  until,     \* per connection: when the server stops accepting its token
  timeout,   \* http.DefaultClient.Timeout, shared by the connections; 0 is none
  back       \* what goes on after a refresh: "exec" or "call"

vars == <<auth, clock, pc, typed, left, done, cn, pool, expiry, until, timeout, back>>
input == <<auth, typed, left, done>>
tokens == <<expiry, until>>

TypeOK ==
  /\ auth \in Auths /\ clock \in Nat
  /\ pc \in {"prompt", "batch", "open", "refresh", "exec", "call", "rows", "ended"}
  /\ typed \in 0..MaxStmts /\ left \in 0..MaxBatch /\ done \in 0..MaxStmts
  /\ cn \in Conns \cup {NoConn}
  /\ pool \in [Conns -> {"closed", "free", "used", "left"}]
  /\ expiry \in [Conns -> Nat]
  /\ until \in [Conns -> Nat]
  /\ timeout \in {0, TokenTimeout, ApiTimeout}
  /\ back \in {"exec", "call"}

----------------------------------------------------------------------------
Init ==
  /\ auth \in Auths /\ clock = 0
  /\ pc = "prompt"
  /\ typed = 0 /\ left = 0 /\ done = 0
  /\ cn = NoConn
  /\ pool = [c \in Conns |-> "closed"]
  /\ expiry = [c \in Conns |-> 0]
  /\ until = [c \in Conns |-> Life]
  /\ timeout = 0
  /\ back = "exec"

(* Mutant of Valid: the margin is forgotten. *)
Valid_noDelta(c) == clock <= expiry[c]

(* Auth.Valid *)
Valid(c) == expiry[c] # 0 /\ clock + Delta <= expiry[c]

(* The statement has ended; what becomes of its connection. *)
Release(state) ==
  /\ pool' = [pool EXCEPT ![cn] = state]
  /\ cn' = NoConn
  /\ done' = done + 1
  /\ UNCHANGED <<auth, typed, left>>

(* Mutant of Fails: the error ends the input. *)
Fails_stop ==
  /\ pc' = "prompt"
  /\ Release("free")

(* An error is printed, and the next statement of the input is taken. *)
Fails ==
  /\ pc' = "batch"
  /\ Release("free")

(* The user is idle, types an input, or quits. *)
Wait ==
  /\ pc = "prompt" /\ clock < MaxClock
  /\ clock' = clock + 1
  /\ UNCHANGED <<pc, input, cn, pool, tokens, timeout, back>>

Type(n) ==
  /\ pc = "prompt" /\ typed + n <= MaxStmts
  /\ typed' = typed + n /\ left' = n
  /\ pc' = "batch"
  /\ UNCHANGED <<auth, clock, done, cn, pool, tokens, timeout, back>>

Quit ==
  /\ pc = "prompt"
  /\ pc' = "ended"
  /\ UNCHANGED <<clock, input, cn, pool, tokens, timeout, back>>

(* The loop of Seek; sql.DB takes a free connection, or opens another one.   *)
TakeStmt ==
  /\ pc = "batch" /\ left > 0
  /\ left' = left - 1
  /\ IF \E c \in Conns : pool[c] = "free"
       THEN \E c \in Conns :
              /\ pool[c] = "free"
              /\ pool' = [pool EXCEPT ![c] = "used"]
              /\ cn' = c
              /\ pc' = "exec"
       ELSE pc' = "open" /\ UNCHANGED <<cn, pool>>
  /\ UNCHANGED <<auth, clock, typed, done, tokens, timeout, back>>

BatchEnds ==
  /\ pc = "batch" /\ left = 0
  /\ pc' = "prompt"
  /\ UNCHANGED <<clock, input, cn, pool, tokens, timeout, back>>

(* Mutant of Refresh: the request may wait for ever. *)
Refresh_forever(next) ==
  /\ pc' = "refresh" /\ back' = next
  /\ UNCHANGED timeout

(* Conn.downloadToken: the timeout of the shared client is shortened. *)
Refresh(next) ==
  /\ pc' = "refresh" /\ back' = next
  /\ timeout' = TokenTimeout

(* AdvancedDriver.Open.  An access token is taken to have been issued now,   *)
(* when in truth it was no later than the start of the tool.                 *)
Open(c) ==
  /\ pc = "open" /\ pool[c] = "closed"
  /\ pool' = [pool EXCEPT ![c] = "used"]
  /\ cn' = c
  /\ \/ /\ auth = "client"
        /\ Refresh("exec")
        /\ UNCHANGED tokens
     \/ /\ auth = "token"
        /\ expiry' = [expiry EXCEPT ![c] = clock + Life]
        /\ pc' = "exec"
        /\ UNCHANGED <<until, timeout, back>>
     \/ /\ auth = "none"
        /\ pc' = "exec"
        /\ UNCHANGED <<tokens, timeout, back>>
  /\ UNCHANGED <<clock, input>>

(* The database cannot be loaded. *)
OpenFails ==
  /\ pc = "open"
  /\ pc' = "batch"
  /\ done' = done + 1
  /\ UNCHANGED <<auth, clock, typed, left, cn, pool, tokens, timeout, back>>

(* A new token, issued at any time between the request and its answer. *)
TokenAnswer(issue, delay) ==
  /\ pc = "refresh"
  /\ timeout # 0 => delay <= timeout
  /\ clock' = clock + delay
  /\ expiry' = [expiry EXCEPT ![cn] = clock + delay + Life]
  /\ until' = [until EXCEPT ![cn] = clock + issue + Life]
  /\ pc' = back
  /\ UNCHANGED <<input, cn, pool, timeout, back>>

(* No token: Open ignores it, a download does not. *)
NoToken ==
  \/ /\ back = "exec"
     /\ pc' = "exec"
     /\ UNCHANGED <<input, cn, pool>>
  \/ back = "call" /\ Fails

TokenRefused(delay) ==
  /\ pc = "refresh"
  /\ timeout # 0 => delay <= timeout
  /\ clock' = clock + delay
  /\ NoToken
  /\ UNCHANGED <<tokens, timeout, back>>

TokenTimeOut ==
  /\ pc = "refresh" /\ timeout # 0
  /\ clock' = clock + timeout
  /\ NoToken
  /\ UNCHANGED <<tokens, timeout, back>>

(* CREATE VIEW *)
ExecView ==
  /\ pc = "exec"
  /\ pc' = "batch"
  /\ Release("free")
  /\ UNCHANGED <<clock, tokens, timeout, back>>

(* SHOW, DESCRIBE, and SELECT from the cache. *)
ExecLocal ==
  /\ pc = "exec"
  /\ pc' = "rows"
  /\ UNCHANGED <<clock, input, cn, pool, tokens, timeout, back>>

ExecFails ==
  /\ pc = "exec"
  /\ Fails
  /\ UNCHANGED <<clock, tokens, timeout, back>>

(* Mutant of Download: the timeout of the last refresh is kept. *)
Download_keepTimeout ==
  /\ pc = "exec"
  /\ IF auth = "none" \/ Valid(cn)
       THEN pc' = "call" /\ UNCHANGED <<input, cn, pool, back>>
            /\ timeout' = IF timeout = 0 THEN ApiTimeout ELSE timeout
       ELSE auth = "client" /\ Refresh("call") /\ UNCHANGED <<input, cn, pool>>
  /\ UNCHANGED <<clock, tokens>>

(* Stmt.download up to the request: apiTimeout is set first, and a refresh   *)
(* that follows replaces it.                                                 *)
Download ==
  /\ pc = "exec"
  /\ \/ /\ auth = "none" \/ Valid(cn)
        /\ pc' = "call"
        /\ timeout' = ApiTimeout
        /\ UNCHANGED <<input, cn, pool, back>>
     \/ /\ auth = "client" /\ ~Valid(cn)
        /\ Refresh("call")
        /\ UNCHANGED <<input, cn, pool>>
     \/ /\ auth = "token" /\ ~Valid(cn)
        /\ Fails
        /\ timeout' = ApiTimeout
        /\ UNCHANGED back
  /\ UNCHANGED <<clock, tokens>>

(* The report, or an error of the service. *)
ApiAnswer(delay) ==
  /\ pc = "call" /\ delay <= timeout
  /\ clock' = clock + delay
  /\ \/ pc' = "rows" /\ UNCHANGED <<input, cn, pool>>
     \/ Fails
  /\ UNCHANGED <<tokens, timeout, back>>

ApiTimeOut ==
  /\ pc = "call"
  /\ clock' = clock + timeout
  /\ Fails
  /\ UNCHANGED <<tokens, timeout, back>>

(* Mutant of ShowRows: the rows are closed at the end of the input only. *)
ShowRows_defer ==
  /\ pc = "rows"
  /\ pc' = "batch"
  /\ Release("used") \/ Release("left")
  /\ UNCHANGED <<clock, tokens, timeout, back>>

(* Seek: the rows are read to their end, which closes them; an answer that   *)
(* has none is not closed.                                                   *)
ShowRows ==
  /\ pc = "rows"
  /\ pc' = "batch"
  /\ \/ Release("free")
     \/ Release("left")
  /\ UNCHANGED <<clock, tokens, timeout, back>>

(* The output cannot be written: Seek returns the error and the tool ends. *)
ShowFails ==
  /\ pc = "rows"
  /\ pc' = "ended"
  /\ UNCHANGED <<clock, input, cn, pool, tokens, timeout, back>>

Works ==
  \/ TakeStmt \/ BatchEnds
  \/ (\E c \in Conns : Open(c)) \/ OpenFails
  \/ TokenTimeOut
  \/ ExecView \/ ExecLocal \/ ExecFails \/ Download
  \/ ApiTimeOut
  \/ ShowRows \/ ShowFails

Servers ==
  \/ \E delay \in 0..TokenTimeout :
       TokenRefused(delay) \/ \E issue \in 0..delay : TokenAnswer(issue, delay)
  \/ \E delay \in 0..ApiTimeout : ApiAnswer(delay)

Next ==
  \/ Wait \/ Quit
  \/ \E n \in 1..MaxBatch : Type(n)
  \/ Works \/ Servers

Spec == Init /\ [][Next]_vars

(* The process runs; servers need not answer. *)
FairSpec == Spec /\ WF_vars(Works)

----------------------------------------------------------------------------
(* Promises.                                                                 *)

(* At most one connection serves the statements, however many were left in   *)
(* use by answers without rows, and none is in use at the prompt: the pool   *)
(* never has a second idle connection to close.                              *)
OneServes ==
  /\ \A c, d \in Conns : {pool[c], pool[d]} \subseteq {"free", "used"} => c = d
  /\ pc = "prompt" => \A c \in Conns : pool[c] # "used"

(* A report is never asked with a token that has expired, although its end   *)
(* is counted from the arrival of the token and not from its issue: the      *)
(* margin of Valid is no shorter than the wait for a token.                  *)
TokenIsLive == auth = "client" /\ pc = "call" => clock <= until[cn]

(* Only the download that has just had to refresh its token runs under the   *)
(* timeout of the refresh; the next one does not, even after a failure.      *)
ShortOnlyAfterRefresh ==
  pc = "call" /\ timeout # ApiTimeout => expiry[cn] = clock + Life

(* Every statement of an input is tried, whatever happened to those before.  *)
BatchIsTried == pc = "prompt" => done = typed

(* The prompt comes back even if no server ever answers.                     *)
EveryInputEnds == pc = "batch" ~> pc \in {"prompt", "ended"}
=============================================================================
