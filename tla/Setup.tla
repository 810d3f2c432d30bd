------------------------------- MODULE Setup -------------------------------
(* From the command line to the credentials of a session: the flags, the     *)
(* home directory, the configuration file with the answers of the user, and  *)
(* what the driver makes of them (conf, awql-driver).  Any number of         *)
(* processes may start at once, and each system call is a step.              *)
(*                                                                           *)
(* A credential is told apart only by the process whose user gave it.  The   *)
(* fields are numbered in the order they are written: access token,          *)
(* developer token, client ID, client secret, refresh token.                 *)
EXTENDS Integers, FiniteSets

CONSTANTS
  Procs,     \* awql processes
  MaxLives,  \* bound: times one process is started
  MayFail,   \* may a system call fail?
  Crashes,   \* may a process be killed while it writes?
  Blank,     \* an empty value
  Cut,       \* a value of which only the beginning was written
  NoFile

ASSUME ProcAssumption == Blank \notin Procs /\ Cut \notin Procs /\ Blank # Cut
ASSUME BoundAssumption == MaxLives \in Nat /\ MayFail \in BOOLEAN /\ Crashes \in BOOLEAN

Fields == 1..5
Values == Procs \cup {Blank, Cut}
Credentials == [Fields -> Values]
Configs == [vals : Credentials, torn : BOOLEAN]
ASSUME AbsentAssumption == NoFile \notin Configs

(* -T and -D, one of them alone, none, or an account or a version that is    *)
(* malformed or not supported.                                               *)
Flags == {"none", "both", "token", "developer", "bad"}

VARIABLES
  home,    \* is there a directory ~/.awql?
  cache,   \* and a directory ~/.awql/cache?
  config,  \* ~/.awql/config: NoFile, or the values in it and whether it ends early
  pc, life,
  args,    \* per process: its flags
  tk,      \* per process: Context.tk
  known,   \* per process: was there a "home" and a configuration "file" at its start (history)
  missed,  \* the processes whose os.Stat failed on a file that is there (history)
  end,     \* per process: why its last start or session is over (history)
  faults   \* what has befallen the file (history): a "cut" write, an
           \* "overlap" of two, or a process that came "early" and read it
           \* before it was written

vars == <<home, cache, config, pc, life, args, tk, known, missed, end, faults>>
disk == <<home, cache, config, faults>>
start == <<life, args, known>>

Places == {"off", "check", "stat", "mkdir", "cache", "auth", "ask", "repeat", "save",
           "write", "read", "ready"}
Ends == {"none", "flags", "home", "system", "yaml", "killed", "over"}

Empty == [i \in Fields |-> Blank]
Temporary(p) == [i \in Fields |-> IF i \in {1, 2} THEN p ELSE Blank]
Answered(p) == [i \in Fields |-> IF i = 1 THEN Blank ELSE p]

TypeOK ==
  /\ home \in BOOLEAN /\ cache \in BOOLEAN
  /\ config \in Configs \cup {NoFile}
  /\ pc \in [Procs -> Places]
  /\ life \in [Procs -> 0..MaxLives]
  /\ args \in [Procs -> Flags]
  /\ tk \in [Procs -> Credentials]
  /\ known \in [Procs -> SUBSET {"home", "file"}]
  /\ missed \subseteq Procs
  /\ end \in [Procs -> Ends]
  /\ faults \subseteq {"cut", "overlap", "early"}
  /\ \A p \in Procs : pc[p] = "write" => config # NoFile

----------------------------------------------------------------------------
Init ==
  /\ home = FALSE /\ cache = FALSE /\ config = NoFile
  /\ pc = [p \in Procs |-> "off"]
  /\ life = [p \in Procs |-> 0]
  /\ args = [p \in Procs |-> "none"]
  /\ tk = [p \in Procs |-> Empty]
  /\ known = [p \in Procs |-> {}]
  /\ missed = {}
  /\ end = [p \in Procs |-> "none"]
  /\ faults = {}

Goto(p, l) == pc' = [pc EXCEPT ![p] = l] /\ UNCHANGED end
Fail(p, why) == pc' = [pc EXCEPT ![p] = "off"] /\ end' = [end EXCEPT ![p] = why]

Start(p, f) ==
  /\ pc[p] = "off" /\ life[p] < MaxLives
  /\ life' = [life EXCEPT ![p] = @ + 1]
  /\ args' = [args EXCEPT ![p] = f]
  /\ tk' = [tk EXCEPT ![p] = Empty]
  /\ known' = [known EXCEPT ![p] = {x \in {"home", "file"} : IF x = "home" THEN home ELSE config # NoFile}]
  /\ missed' = missed \ {p}
  /\ pc' = [pc EXCEPT ![p] = "check"]
  /\ end' = [end EXCEPT ![p] = "none"]
  /\ UNCHANGED disk

(* Flag.Check, and db.Open for the version alone. *)
Check(p) ==
  /\ pc[p] = "check"
  /\ IF args[p] \in {"none", "both"} THEN Goto(p, "stat") ELSE Fail(p, "flags")
  /\ UNCHANGED <<disk, start, tk, missed>>

(* mkDirHome: an error of os.Stat other than absence passes for a directory. *)
StatHome(p) ==
  /\ pc[p] = "stat"
  /\ \/ Goto(p, IF home THEN "cache" ELSE "mkdir")
     \/ MayFail /\ Goto(p, "cache")
  /\ UNCHANGED <<disk, start, tk, missed>>

(* Mutant of MkHome: it is tried again until it can be made. *)
MkHome_insists(p) ==
  /\ pc[p] = "mkdir" /\ ~home
  /\ home' = TRUE
  /\ Goto(p, "cache")
  /\ UNCHANGED <<cache, config, faults, start, tk, missed>>

(* A home directory made by another process after this one has looked for it *)
(* is an error, a cache directory is not.                                    *)
MkHome(p) ==
  /\ pc[p] = "mkdir"
  /\ \/ ~home /\ home' = TRUE /\ Goto(p, "cache")
     \/ home /\ Fail(p, "home") /\ UNCHANGED home
     \/ MayFail /\ Fail(p, "system") /\ UNCHANGED home
  /\ UNCHANGED <<cache, config, faults, start, tk, missed>>

MkCache(p) ==
  /\ pc[p] = "cache"
  /\ \/ home /\ cache' = TRUE /\ Goto(p, "auth")
     \/ MayFail /\ Fail(p, "system") /\ UNCHANGED cache
  /\ UNCHANGED <<home, config, faults, start, tk, missed>>

(* Mutant of ChooseAuth: the temporary credentials are saved too.            *)
ChooseAuth_save(p) ==
  /\ pc[p] = "auth"
  /\ tk' = IF args[p] = "both" THEN [tk EXCEPT ![p] = Temporary(p)] ELSE tk
  /\ Goto(p, IF args[p] = "both" THEN "save" ELSE IF config = NoFile THEN "ask" ELSE "read")
  /\ UNCHANGED <<disk, start, missed>>

(* The switch of Init: given credentials, no configuration file, or one.     *)
(* Any error of os.Stat passes for the absence of the file.                  *)
ChooseAuth(p) ==
  /\ pc[p] = "auth"
  /\ \/ /\ args[p] = "both"
        /\ tk' = [tk EXCEPT ![p] = Temporary(p)]
        /\ Goto(p, "ready")
        /\ UNCHANGED missed
     \/ /\ args[p] # "both"
        /\ Goto(p, IF config = NoFile THEN "ask" ELSE "read")
        /\ UNCHANGED <<tk, missed>>
     \/ /\ args[p] # "both" /\ config # NoFile /\ MayFail
        /\ Goto(p, "ask")
        /\ missed' = missed \cup {p}
        /\ UNCHANGED tk
  /\ UNCHANGED <<disk, start>>

(* ask: the user's answer for the next of the four fields.  The question is  *)
(* repeated until there is one.                                              *)
Ask(p) ==
  /\ pc[p] = "ask"
  /\ \E i \in Fields \ {1} :
       /\ tk[p][i] = Blank /\ \A j \in 2..(i - 1) : tk[p][j] # Blank
       /\ tk' = [tk EXCEPT ![p][i] = p]
  /\ UNCHANGED <<disk, pc, end, start, missed>>

(* The error of ReadString is not looked at: once the standard input is at   *)
(* its end the question is repeated without one, and without end.            *)
InputEnds(p) ==
  /\ pc[p] = "ask" /\ tk[p][5] = Blank
  /\ Goto(p, "repeat")
  /\ UNCHANGED <<disk, start, tk, missed>>

(* Mutant of AskDone: the refresh token may be left out. *)
AskDone_early(p) ==
  /\ pc[p] = "ask" /\ tk[p][4] # Blank
  /\ Goto(p, "save")
  /\ UNCHANGED <<disk, start, tk, missed>>

AskDone(p) ==
  /\ pc[p] = "ask" /\ tk[p][5] # Blank
  /\ Goto(p, "save")
  /\ UNCHANGED <<disk, start, tk, missed>>

(* ioutil.WriteFile truncates the file, then writes it. *)
SaveConfig(p) ==
  /\ pc[p] = "save"
  /\ \/ /\ config' = [vals |-> Empty, torn |-> FALSE]
        /\ Goto(p, "write")
     \/ MayFail /\ Fail(p, "system") /\ UNCHANGED config
  /\ UNCHANGED <<home, cache, faults, start, tk, missed>>

(* What another process has written since may be longer, and show behind.    *)
WriteConfig(p) ==
  /\ pc[p] = "write"
  /\ \/ config' = [vals |-> tk[p], torn |-> FALSE] /\ UNCHANGED faults
     \/ /\ config.vals # Empty
        /\ config' = [vals |-> tk[p], torn |-> TRUE]
        /\ faults' = faults \cup {"overlap"}
  /\ Goto(p, "ready")
  /\ UNCHANGED <<home, cache, start, tk, missed>>

(* The first n fields were written, perhaps the beginning of the next, and   *)
(* the process ends: the device is full, or it was killed.                   *)
WriteCut(p) ==
  /\ pc[p] = "write"
  /\ \/ MayFail /\ Fail(p, "system")
     \/ Crashes /\ Fail(p, "killed")
  /\ \E n \in 0..4 :
       \E v \in {config.vals[n + 1]} \cup (IF n > 0 THEN {Cut} ELSE {}) :
         config' = [vals |-> [i \in Fields |-> IF i <= n THEN tk[p][i]
                                               ELSE IF i = n + 1 THEN v ELSE config.vals[i]],
                    torn |-> TRUE]
  /\ faults' = faults \cup {"cut"}
  /\ UNCHANGED <<home, cache, start, tk, missed>>

(* Credentials.Get; what ends early may be no YAML. *)
ReadConfig(p) ==
  /\ pc[p] = "read"
  /\ \/ tk' = [tk EXCEPT ![p] = config.vals] /\ Goto(p, "ready")
     \/ config.torn /\ Fail(p, "yaml") /\ UNCHANGED tk
     \/ MayFail /\ Fail(p, "system") /\ UNCHANGED tk
  /\ faults' = faults \cup (IF \E q \in Procs : pc[q] = "write" THEN {"early"} ELSE {})
  /\ UNCHANGED <<home, cache, config, start, missed>>

(* The session is over, or the process is killed between two calls. *)
Exit(p) ==
  /\ \/ pc[p] = "ready" /\ Fail(p, "over")
     \/ Crashes /\ pc[p] \notin {"off", "write", "ready"} /\ Fail(p, "killed")
  /\ UNCHANGED <<disk, start, tk, missed>>

(* The steps of a start, without those of the user. *)
Work(p) ==
  \/ Check(p) \/ StatHome(p) \/ MkHome(p) \/ MkCache(p) \/ ChooseAuth(p)
  \/ AskDone(p) \/ SaveConfig(p) \/ WriteConfig(p) \/ WriteCut(p) \/ ReadConfig(p)

Next ==
  \E p \in Procs : Work(p) \/ Ask(p) \/ InputEnds(p) \/ Exit(p) \/ \E f \in Flags : Start(p, f)

Spec == Init /\ [][Next]_vars
FairSpec == Spec /\ \A p \in Procs : WF_vars(Work(p))

----------------------------------------------------------------------------
(* The data source name has the credentials that are not empty, one after    *)
(* the other, and the driver tells from their number what they are.          *)
Parts(c) == Cardinality({i \in Fields : c[i] # Blank})

(* Mutant of AuthOf: the account is counted as a part. *)
AuthOf_account(c) ==
  CASE Parts(c) = 2 -> "none" [] Parts(c) = 3 -> "token" [] Parts(c) = 5 -> "client"
    [] OTHER -> "bad"

(* What Session starts from: "bad" is an error of every statement. *)
AuthOf(c) ==
  CASE Parts(c) = 1 -> "none" [] Parts(c) = 2 -> "token" [] Parts(c) = 4 -> "client"
    [] OTHER -> "bad"

----------------------------------------------------------------------------
(* Promises.                                                                 *)

(* A session starts with the credentials it was given, or with all four that *)
(* one user was asked for, whichever processes start and end meanwhile --    *)
(* unless a write was cut, two overlapped, or the file was read in between.  *)
CredentialsAreWhole ==
  faults = {} => \A p \in Procs : pc[p] = "ready" =>
    IF args[p] = "both" THEN tk[p] = Temporary(p) ELSE \E q \in Procs : tk[p] = Answered(q)

(* ... and the driver takes them for what they are.                          *)
ConnectsAsGiven ==
  faults = {} => \A p \in Procs : pc[p] = "ready" =>
    AuthOf(tk[p]) = IF args[p] = "both" THEN "token" ELSE "client"

(* An access token given for one run is never kept for the next: neither a   *)
(* cut nor an overlap of writes leaves one in the file.                      *)
TemporaryIsNotKept == config # NoFile => config.vals[1] = Blank

(* The user is asked once: a process that starts when there is a file asks   *)
(* for credentials and writes over it only when os.Stat failed on it.        *)
AskedOnce ==
  \A p \in Procs : "file" \in known[p] /\ pc[p] \in {"ask", "repeat", "save", "write"} => p \in missed

(* A start fails for its flags, for the home directory when there was none   *)
(* yet, for a file that something has befallen, or for the system.           *)
Excused(p) ==
  /\ end[p] = "flags"  => args[p] \notin {"none", "both"}
  /\ end[p] = "home"   => "home" \notin known[p]
  /\ end[p] = "yaml"   => faults # {}
  /\ end[p] = "system" => MayFail
  /\ end[p] = "killed" => Crashes
FailsForAReason == \A p \in Procs : Excused(p)

(* A start comes to a session or fails for such a reason, or else it waits   *)
(* for an answer of the user from some time on, or, at the end of its input, *)
(* repeats the question for ever.                                            *)
Waits(p) == pc[p] = "ask" /\ tk[p][5] = Blank
Ended(p) == pc[p] \in {"ready", "repeat"} \/ (pc[p] = "off" /\ end[p] # "over" /\ Excused(p))
StartEnds == \A p \in Procs : pc[p] = "check" ~> (Ended(p) \/ []Waits(p))
=============================================================================
