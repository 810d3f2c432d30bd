------------------------- MODULE ReportCacheProofs -------------------------
(* Proofs about ReportCache, for any number of processes, accounts, queries  *)
(* and rows.                                                                 *)
EXTENDS ReportCache, TLAPS, SequenceTheorems, FiniteSetTheorems

(* Writing a row of S into a file made of rows of S leaves a file made of    *)
(* rows of S and holes.                                                      *)
LEMMA WriteAtType ==
  ASSUME NEW S, Hole \in S, NEW s \in Seq(S), NEW i \in Nat \ {0}, NEW r \in S
  PROVE  /\ WriteAt(s, i, r) \in Seq(S)
         /\ Len(WriteAt(s, i, r)) = IF i > Len(s) THEN i ELSE Len(s)
<1> DEFINE n == IF i > Len(s) THEN i ELSE Len(s)
<1>1. n \in Nat
  OBVIOUS
<1>2. ASSUME NEW j \in 1..n
      PROVE  (IF j = i THEN r ELSE IF j <= Len(s) THEN s[j] ELSE Hole) \in S
  OBVIOUS
<1>3. WriteAt(s, i, r) \in [1..n -> S]
  BY <1>1, <1>2 DEF WriteAt
<1>4. WriteAt(s, i, r) \in Seq(S)
  BY <1>1, <1>3, SeqDef
<1> QED
  BY <1>1, <1>3, <1>4 DEF WriteAt

LEMMA FoldType == ASSUME NEW t \in Texts PROVE Fold[t] \in Folds
  BY FoldAssumption

LEMMA KeyType ==
  ASSUME NEW p \in Procs, text[p] \in Texts
  PROVE  KeyOf(p) \in Keys
  BY FoldAssumption, ProcAssumption DEF KeyOf, Keys

(* Type correctness: the shared files, the local variables and the           *)
(* goroutines keep their types, at every place of every process.             *)
LEMMA EmptyRows == <<>> \in Rows /\ Len(<<>>) = 0
  BY EmptySeq DEF Rows

(* A file that exists has a content and a modification time. *)
LEMMA CacheFileType ==
  ASSUME FilesOK, NEW k \in Keys, Exists(k)
  PROVE  cacheFile[k] \in CacheFiles /\ cacheFile[k].rows \in Rows
  BY DEF FilesOK, Exists, CacheFiles

LEMMA TmpFileType ==
  ASSUME FilesOK, NEW f \in Folds, tmpFile[f] # NoFile
  PROVE  tmpFile[f] \in Rows
  BY DEF FilesOK

(* One goroutine replaced by w. *)
LEMMA SetterUpdate ==
  ASSUME SettersOK, NEW p \in Procs, NEW i \in 1..MaxQueries, NEW w \in Setters,
         setter' = [setter EXCEPT ![p][i] = w]
  PROVE  /\ setter' \in [Procs -> [1..MaxQueries -> Setters]]
         /\ \A q \in Procs, j \in 1..MaxQueries :
              setter'[q][j] = IF q = p /\ j = i THEN w ELSE setter[q][j]
<1>1. setter \in [Procs -> [1..MaxQueries -> Setters]]
  BY DEF SettersOK
<1>2. setter[p] \in [1..MaxQueries -> Setters]
  BY <1>1
<1>3. [setter[p] EXCEPT ![i] = w] \in [1..MaxQueries -> Setters]
  BY <1>2
<1>4. setter' = [setter EXCEPT ![p] = [setter[p] EXCEPT ![i] = w]]
  OBVIOUS
<1> QED
  BY <1>1, <1>2, <1>3, <1>4

(* Unlinking a file leaves a goroutine as it was but for its mark. *)
LEMMA UnlinkType ==
  ASSUME SettersOK, NEW k
  PROVE  /\ Unlink(setter, k) \in [Procs -> [1..MaxQueries -> Setters]]
         /\ \A q \in Procs, j \in 1..MaxQueries :
              LET w == Unlink(setter, k)[q][j] IN
              /\ w.st = setter[q][j].st /\ w.key = setter[q][j].key
              /\ w.val = setter[q][j].val /\ w.pos = setter[q][j].pos
              /\ w.linked => setter[q][j].linked /\ w.key # k
<1> DEFINE new(q, j) == IF setter[q][j].key = k
                          THEN [setter[q][j] EXCEPT !.linked = FALSE]
                          ELSE setter[q][j]
<1>1. ASSUME NEW q \in Procs, NEW j \in 1..MaxQueries
      PROVE  /\ new(q, j) \in Setters
             /\ new(q, j).st = setter[q][j].st /\ new(q, j).key = setter[q][j].key
             /\ new(q, j).val = setter[q][j].val /\ new(q, j).pos = setter[q][j].pos
             /\ new(q, j).linked => setter[q][j].linked /\ new(q, j).key # k
  <2>1. setter[q][j] \in Setters
    BY DEF SettersOK
  <2> QED
    BY <2>1 DEF Setters
<1>2. Unlink(setter, k) = [q \in Procs |-> [j \in 1..MaxQueries |-> new(q, j)]]
  BY DEF Unlink
<1> HIDE DEF new
<1> QED
  BY <1>1, <1>2

(* The row a copy or a goroutine comes to next. *)
LEMMA NextRowType ==
  ASSUME NEW s \in Rows, NEW i \in Nat, i < Len(s)
  PROVE  /\ i + 1 \in 1..Len(s) /\ i + 1 \in Nat \ {0}
         /\ s[i + 1] \in Reports \cup {Hole}
<1>1. s \in Seq(Reports \cup {Hole}) /\ Len(s) \in Nat
  BY LenProperties DEF Rows
<1>2. i + 1 \in 1..Len(s) /\ i + 1 \in Nat \ {0}
  BY <1>1
<1> QED
  BY <1>1, <1>2, ElementOfSeq

LEMMA SetterType ==
  ASSUME SettersOK, NEW p \in Procs, NEW i \in 1..MaxQueries
  PROVE  setter[p][i] \in Setters /\ SetterOK(setter[p][i])
  BY DEF SettersOK

LEMMA TypeInit == Init => TypeOK
<1> SUFFICES ASSUME Init PROVE TypeOK
  OBVIOUS
<1> USE BoundAssumption DEF Init
<1>1. FilesOK
  BY DEF FilesOK
<1>2. ProcsOK
  BY DEF ProcsOK, States, Rows
<1>3. \A p \in Procs : PlaceOK(p)
  BY DEF PlaceOK, Asking
<1>4. SettersOK
  BY DEF SettersOK, SetterOK, NoSetter, Setters, Rows
<1> QED
  BY <1>1, <1>2, <1>3, <1>4 DEF TypeOK

LEMMA StartType ==
  ASSUME NEW p \in Procs, TypeOK, Start(p)
  PROVE  TypeOK'
<1> USE BoundAssumption, FoldType, KeyType DEF TypeOK, Start, files, session, locals, traces, Goto
<1>1. FilesOK'
  BY DEF FilesOK
<1>2. ProcsOK'
  BY DEF ProcsOK, PlaceOK, States, Asking
<1>3. (\A q \in Procs : PlaceOK(q))'
  BY DEF ProcsOK, PlaceOK, States, Asking
<1>4. SettersOK'
  BY DEF SettersOK, SetterOK, Exists
<1> QED
  BY <1>1, <1>2, <1>3, <1>4

LEMMA AskType ==
  ASSUME NEW p \in Procs, NEW t \in Texts, TypeOK, Ask(p, t)
  PROVE  TypeOK'
<1> USE BoundAssumption, FoldType, KeyType DEF TypeOK, Ask, files, session, locals, traces, Goto
<1>1. FilesOK'
  BY DEF FilesOK
<1>2. ProcsOK'
  BY DEF ProcsOK, PlaceOK, States, Asking
<1>3. (\A q \in Procs : PlaceOK(q))'
  BY DEF ProcsOK, PlaceOK, States, Asking
<1>4. SettersOK'
  BY DEF SettersOK, SetterOK, Exists
<1> QED
  BY <1>1, <1>2, <1>3, <1>4

LEMMA ListCacheType ==
  ASSUME NEW p \in Procs, TypeOK, ListCache(p)
  PROVE  TypeOK'
<1> USE BoundAssumption, FoldType, KeyType DEF TypeOK, ListCache, files, session, locals, traces, Goto
<1>1. FilesOK'
  BY DEF FilesOK
<1>2. ProcsOK'
  BY DEF ProcsOK, PlaceOK, States, Asking
<1>3. (\A q \in Procs : PlaceOK(q))'
  BY DEF ProcsOK, PlaceOK, States, Asking
<1>4. SettersOK'
  BY DEF SettersOK, SetterOK, Exists
<1> QED
  BY <1>1, <1>2, <1>3, <1>4

LEMMA PurgeNextType ==
  ASSUME NEW p \in Procs, TypeOK, PurgeNext(p)
  PROVE  TypeOK'
<1> USE BoundAssumption, FoldType, KeyType DEF TypeOK, PurgeNext, files, session, locals, traces, Goto
<1>1. FilesOK'
  BY DEF FilesOK
<1>2. ProcsOK'
  BY DEF ProcsOK, PlaceOK, States, Asking
<1>3. (\A q \in Procs : PlaceOK(q))'
  BY DEF ProcsOK, PlaceOK, States, Asking
<1>4. SettersOK'
  BY DEF SettersOK, SetterOK, Exists
<1> QED
  BY <1>1, <1>2, <1>3, <1>4

LEMMA RemoveFileType ==
  ASSUME NEW p \in Procs, TypeOK, RemoveFile(p)
  PROVE  TypeOK'
<1> USE BoundAssumption, FoldType, KeyType DEF TypeOK, RemoveFile, Unlinked, GivesUp, files, session, locals, traces, Goto
<1>1. FilesOK'
  BY DEF FilesOK
<1>2. ProcsOK'
  BY DEF ProcsOK, PlaceOK, States, Asking
<1>3. (\A q \in Procs : PlaceOK(q))'
  BY DEF ProcsOK, PlaceOK, States, Asking
<1>4. SettersOK'
  <2>1. CASE Unlinked(p)
    <3>1. victim[p] \in Keys
      BY DEF PlaceOK
    <3>2. setter' = Unlink(setter, victim[p])
      BY <2>1
    <3>3. ASSUME NEW q \in Procs, NEW j \in 1..MaxQueries
          PROVE  SetterOK(setter[q][j])'
      <4>1. LET w == setter'[q][j] IN
            /\ w.st = setter[q][j].st /\ w.key = setter[q][j].key
            /\ w.val = setter[q][j].val /\ w.pos = setter[q][j].pos
            /\ w.linked => setter[q][j].linked /\ w.key # victim[p]
        BY <3>2, UnlinkType
      <4>2. SetterOK(setter[q][j])
        BY SetterType
      <4>3. \A k \in Keys : k # victim[p] /\ Exists(k) => Exists(k)'
        BY <2>1, <3>1 DEF Exists, FilesOK
      <4> QED
        BY <4>1, <4>2, <4>3 DEF SetterOK
    <3> QED
      BY <3>2, <3>3, UnlinkType DEF SettersOK
  <2>2. CASE GivesUp(p)
    BY <2>2 DEF SettersOK, SetterOK, Exists
  <2> QED
    BY <2>1, <2>2
<1> QED
  BY <1>1, <1>2, <1>3, <1>4

LEMMA PurgeDoneType ==
  ASSUME NEW p \in Procs, TypeOK, PurgeDone(p)
  PROVE  TypeOK'
<1> USE BoundAssumption, FoldType, KeyType DEF TypeOK, PurgeDone, files, session, locals, traces, Goto
<1>1. FilesOK'
  BY DEF FilesOK
<1>2. ProcsOK'
  BY DEF ProcsOK, PlaceOK, States, Asking
<1>3. (\A q \in Procs : PlaceOK(q))'
  BY DEF ProcsOK, PlaceOK, States, Asking
<1>4. SettersOK'
  BY DEF SettersOK, SetterOK, Exists
<1> QED
  BY <1>1, <1>2, <1>3, <1>4

LEMMA ConnectType ==
  ASSUME NEW p \in Procs, TypeOK, Connect(p)
  PROVE  TypeOK'
<1> USE BoundAssumption, FoldType, KeyType DEF TypeOK, Connect, files, session, locals, traces, Goto
<1>1. FilesOK'
  BY DEF FilesOK
<1>2. ProcsOK'
  BY DEF ProcsOK, PlaceOK, States, Asking
<1>3. (\A q \in Procs : PlaceOK(q))'
  BY DEF ProcsOK, PlaceOK, States, Asking
<1>4. SettersOK'
  BY DEF SettersOK, SetterOK, Exists
<1> QED
  BY <1>1, <1>2, <1>3, <1>4

LEMMA FailType ==
  ASSUME NEW p \in Procs, TypeOK, Fail(p)
  PROVE  TypeOK'
<1> USE BoundAssumption, FoldType, KeyType DEF TypeOK, Fail, files, session, locals, traces, Goto
<1>1. FilesOK'
  BY DEF FilesOK
<1>2. ProcsOK'
  BY EmptyRows DEF ProcsOK, PlaceOK, States, Asking
<1>3. (\A q \in Procs : PlaceOK(q))'
  BY DEF ProcsOK, PlaceOK, States, Asking
<1>4. SettersOK'
  BY DEF SettersOK, SetterOK, Exists
<1> QED
  BY <1>1, <1>2, <1>3, <1>4

LEMMA StatCacheType ==
  ASSUME NEW p \in Procs, TypeOK, StatCache(p)
  PROVE  TypeOK'
<1> USE BoundAssumption, FoldType, KeyType DEF TypeOK, StatCache, files, session, locals, traces, Goto
<1>1. FilesOK'
  BY DEF FilesOK
<1>2. ProcsOK'
  BY DEF ProcsOK, PlaceOK, States, Asking
<1>3. (\A q \in Procs : PlaceOK(q))'
  BY DEF ProcsOK, PlaceOK, States, Asking
<1>4. SettersOK'
  BY DEF SettersOK, SetterOK, Exists
<1> QED
  BY <1>1, <1>2, <1>3, <1>4

LEMMA ReadCacheType ==
  ASSUME NEW p \in Procs, TypeOK, ReadCache(p)
  PROVE  TypeOK'
<1> USE BoundAssumption, FoldType, KeyType DEF TypeOK, ReadCache, files, session, locals, traces, Goto
<1>1. FilesOK'
  BY DEF FilesOK
<1>2. ProcsOK'
  <2>1. got' \in [Procs -> Rows]
    <3>1. text[p] \in Texts
      BY DEF PlaceOK, Asking
    <3>2. CASE Exists(KeyOf(p)) /\ got' = [got EXCEPT ![p] = cacheFile[KeyOf(p)].rows]
      BY <3>1, <3>2, CacheFileType DEF ProcsOK
    <3>3. CASE UNCHANGED got
      BY <3>3 DEF ProcsOK
    <3> QED
      BY <3>2, <3>3
  <2> QED
    BY <2>1 DEF ProcsOK, States, Asking
<1>3. (\A q \in Procs : PlaceOK(q))'
  BY DEF ProcsOK, PlaceOK, States, Asking
<1>4. SettersOK'
  BY DEF SettersOK, SetterOK, Exists
<1> QED
  BY <1>1, <1>2, <1>3, <1>4

LEMMA CallApiType ==
  ASSUME NEW p \in Procs, TypeOK, CallApi(p)
  PROVE  TypeOK'
<1> USE BoundAssumption, FoldType, KeyType DEF TypeOK, CallApi, files, session, locals, traces, Goto
<1>0. PICK r \in Reports : /\ issued' = issued \cup {r}
                            /\ resp' = [resp EXCEPT ![p] = r]
  <2>1. text[p] \in Texts /\ life[p] \in 1..MaxLives
    BY DEF PlaceOK, Asking
  <2>2. AccountOf[p] \in Accounts
    BY ProcAssumption
  <2>3. PICK n \in Sizes[Fold[text[p]]] :
          LET r == [acct |-> AccountOf[p], text |-> text[p], at |-> now,
                    by |-> <<p, life[p]>>, size |-> n]
          IN issued' = issued \cup {r} /\ resp' = [resp EXCEPT ![p] = r]
    OBVIOUS
  <2>4. n \in Nat
    BY <2>1, FoldType, SizesAssumption
  <2> QED
    BY <2>1, <2>2, <2>3, <2>4 DEF Reports, FilesOK
<1>1. FilesOK'
  BY <1>0 DEF FilesOK
<1>2. ProcsOK'
  BY <1>0 DEF ProcsOK, States, Asking
<1>3. (\A q \in Procs : PlaceOK(q))'
  BY <1>0 DEF ProcsOK, PlaceOK, States, Asking
<1>4. SettersOK'
  BY DEF SettersOK, SetterOK, Exists
<1> QED
  BY <1>1, <1>2, <1>3, <1>4

LEMMA CreateTmpType ==
  ASSUME NEW p \in Procs, TypeOK, CreateTmp(p)
  PROVE  TypeOK'
<1> USE BoundAssumption, FoldType, KeyType DEF TypeOK, CreateTmp, files, session, locals, traces, Goto
<1>0. text[p] \in Texts
  BY DEF PlaceOK, Asking
<1>1. FilesOK'
  BY <1>0, EmptyRows DEF FilesOK
<1>2. ProcsOK'
  BY DEF ProcsOK, PlaceOK, States, Asking
<1>3. (\A q \in Procs : PlaceOK(q))'
  <2>1. tmpFile'[Fold[text[p]]] # NoFile
    BY <1>0, EmptyRows, AbsentAssumption DEF FilesOK
  <2>2. resp[p].size >= 0
    BY DEF ProcsOK, PlaceOK, Reports
  <2>3. \A f \in Folds : tmpFile[f] # NoFile => tmpFile'[f] # NoFile
    BY <1>0, EmptyRows, AbsentAssumption DEF FilesOK
  <2> QED
    BY <1>0, <2>1, <2>2, <2>3 DEF ProcsOK, PlaceOK, States, Asking
<1>4. SettersOK'
  BY DEF SettersOK, SetterOK, Exists
<1> QED
  BY <1>1, <1>2, <1>3, <1>4

LEMMA CopyRowType ==
  ASSUME NEW p \in Procs, TypeOK, CopyRow(p)
  PROVE  TypeOK'
<1> USE BoundAssumption, FoldType, KeyType DEF TypeOK, CopyRow, files, session, locals, traces, Goto
<1> DEFINE f0 == Fold[text[p]]
           new == WriteAt(tmpFile[f0], pos[p] + 1, resp[p])
<1>0. /\ text[p] \in Texts /\ f0 \in Folds
      /\ new \in Rows
      /\ tmpFile' = [tmpFile EXCEPT ![f0] = new]
  <2>1. text[p] \in Texts /\ f0 \in Folds
    BY DEF PlaceOK, Asking
  <2>2. tmpFile[f0] \in Rows
    BY <2>1, TmpFileType DEF PlaceOK
  <2>3. pos[p] + 1 \in Nat \ {0} /\ resp[p] \in Reports
    BY DEF ProcsOK, PlaceOK
  <2>4. new \in Rows
    BY <2>2, <2>3, WriteAtType DEF Rows
  <2> QED
    BY <2>1, <2>4
<1> HIDE DEF new
<1>1. FilesOK'
  BY <1>0 DEF FilesOK
<1>2. ProcsOK'
  BY DEF ProcsOK, PlaceOK, States, Asking
<1>3. (\A q \in Procs : PlaceOK(q))'
  <2>1. \A f \in Folds : tmpFile[f] # NoFile => tmpFile'[f] # NoFile
    BY <1>0, AbsentAssumption DEF FilesOK
  <2>2. resp[p].size \in Nat
    BY DEF ProcsOK, PlaceOK, Reports
  <2> QED
    BY <1>0, <2>1, <2>2 DEF ProcsOK, PlaceOK, States, Asking
<1>4. SettersOK'
  BY DEF SettersOK, SetterOK, Exists
<1> QED
  BY <1>1, <1>2, <1>3, <1>4

LEMMA CopyDoneType ==
  ASSUME NEW p \in Procs, TypeOK, CopyDone(p)
  PROVE  TypeOK'
<1> USE BoundAssumption, FoldType, KeyType DEF TypeOK, CopyDone, files, session, locals, traces, Goto
<1>1. FilesOK'
  BY DEF FilesOK
<1>2. ProcsOK'
  BY DEF ProcsOK, PlaceOK, States, Asking
<1>3. (\A q \in Procs : PlaceOK(q))'
  BY DEF ProcsOK, PlaceOK, States, Asking
<1>4. SettersOK'
  BY DEF SettersOK, SetterOK, Exists
<1> QED
  BY <1>1, <1>2, <1>3, <1>4

LEMMA ParseTmpType ==
  ASSUME NEW p \in Procs, TypeOK, ParseTmp(p)
  PROVE  TypeOK'
<1> USE BoundAssumption, FoldType, KeyType DEF TypeOK, ParseTmp, files, session, locals, traces, Goto
<1> DEFINE rows == tmpFile[Fold[text[p]]]
           new == [st |-> "ready", key |-> KeyOf(p), val |-> rows, pos |-> 0,
                   linked |-> FALSE]
<1>0. /\ text[p] \in Texts /\ asked[p] \in 1..MaxQueries
      /\ rows \in Rows /\ KeyOf(p) \in Keys
      /\ got' = [got EXCEPT ![p] = rows]
  BY TmpFileType DEF PlaceOK, Asking
<1>1. FilesOK'
  BY DEF FilesOK
<1>2. ProcsOK'
  BY <1>0 DEF ProcsOK, States, Asking
<1>3. (\A q \in Procs : PlaceOK(q))'
  BY DEF ProcsOK, PlaceOK, States, Asking
<1>4. SettersOK'
  <2>1. new \in Setters
    BY <1>0 DEF Setters
  <2>2. setter' = [setter EXCEPT ![p][asked[p]] = new]
    OBVIOUS
  <2>3. new.st = "ready" /\ new.key \in Keys /\ ~new.linked /\ new.pos <= Len(new.val)
    BY <1>0, LenProperties DEF Rows
  <2> HIDE DEF new
  <2>7. /\ setter' \in [Procs -> [1..MaxQueries -> Setters]]
        /\ \A q \in Procs, j \in 1..MaxQueries :
             setter'[q][j] = IF q = p /\ j = asked[p] THEN new ELSE setter[q][j]
    <3>1. setter' = [setter EXCEPT ![p][asked[p]] = new] /\ new \in Setters /\ SettersOK
      BY <2>1, <2>2
    <3>2. asked[p] \in 1..MaxQueries
      BY <1>0
    <3> QED
      BY ONLY <3>1, <3>2, SetterUpdate, p \in Procs
  <2>4. ASSUME NEW q \in Procs, NEW j \in 1..MaxQueries
        PROVE  SetterOK(setter[q][j])'
    <3>1. setter'[q][j] = IF q = p /\ j = asked[p] THEN new ELSE setter[q][j]
      BY <2>7
    <3> QED
      BY <2>3, <3>1, SetterType DEF SetterOK, Exists
  <2> QED
    BY <2>4, <2>7 DEF SettersOK
<1> QED
  BY <1>1, <1>2, <1>3, <1>4

LEMMA ShowType ==
  ASSUME NEW p \in Procs, TypeOK, Show(p)
  PROVE  TypeOK'
<1> USE BoundAssumption, FoldType, KeyType DEF TypeOK, Show, files, session, locals, traces, Goto
<1>1. FilesOK'
  BY DEF FilesOK
<1>2. ProcsOK'
  <2> DEFINE a == [text |-> text[p], rows |-> got[p], hit |-> hit[p], at |-> now,
                   by |-> <<p, life[p]>>]
  <2>1. a \in Answers
    <3>1. text[p] \in Texts
      BY DEF PlaceOK, Asking
    <3>2. got[p] \in Rows /\ hit[p] \in BOOLEAN /\ life[p] \in 1..MaxLives /\ now \in 0..MaxTime
      BY DEF ProcsOK, PlaceOK, FilesOK
    <3> QED
      BY <3>1, <3>2 DEF Answers
  <2>2. shown' = [shown EXCEPT ![p] = a]
    OBVIOUS
  <2> HIDE DEF a
  <2>3. shown' \in [Procs -> Answers \cup {NoAnswer}]
    BY <2>1, <2>2 DEF ProcsOK
  <2>4. got' \in [Procs -> Rows] /\ conn' \in [Procs -> BOOLEAN] /\ pc' \in [Procs -> States]
    BY EmptyRows DEF ProcsOK, States, Asking
  <2> QED
    BY <2>3, <2>4 DEF ProcsOK
<1>3. (\A q \in Procs : PlaceOK(q))'
  BY DEF ProcsOK, PlaceOK, States, Asking
<1>4. SettersOK'
  BY DEF SettersOK, SetterOK, Exists
<1> QED
  BY <1>1, <1>2, <1>3, <1>4

LEMMA ExitType ==
  ASSUME NEW p \in Procs, TypeOK, Exit(p)
  PROVE  TypeOK'
<1> USE BoundAssumption, FoldType, KeyType DEF TypeOK, Exit, files, session, locals, traces, Goto
<1>1. FilesOK'
  BY DEF FilesOK
<1>2. ProcsOK'
  BY EmptyRows DEF ProcsOK, States
<1>3. (\A q \in Procs : PlaceOK(q))'
  BY DEF ProcsOK, PlaceOK, States, Asking
<1>4. SettersOK'
  <2>1. NoSetter \in Setters /\ SetterOK(NoSetter)'
    BY EmptyRows DEF NoSetter, Setters, SetterOK
  <2>2. ASSUME NEW q \in Procs
        PROVE  /\ setter'[q] \in [1..MaxQueries -> Setters]
               /\ \A j \in 1..MaxQueries :
                    setter'[q][j] = IF q = p THEN NoSetter ELSE setter[q][j]
    BY <2>1 DEF SettersOK
  <2>3. setter' \in [Procs -> [1..MaxQueries -> Setters]]
    BY <2>1, <2>2 DEF SettersOK
  <2>4. ASSUME NEW q \in Procs, NEW j \in 1..MaxQueries
        PROVE  SetterOK(setter[q][j])'
    <3>1. CASE q = p
      BY <2>1, <2>2, <3>1
    <3>2. CASE q # p
      <4>1. setter'[q][j] = setter[q][j]
        BY <2>2, <3>2
      <4> QED
        BY <4>1, SetterType DEF SetterOK, Exists
    <3> QED
      BY <3>1, <3>2
  <2> QED
    BY <2>3, <2>4 DEF SettersOK
<1> QED
  BY <1>1, <1>2, <1>3, <1>4

LEMMA OpenOnType ==
  ASSUME SettersOK, NEW k PROVE OpenOn(k) \subseteq Rows
<1>1. \A j \in Procs \X (1..MaxQueries) : setter[j[1]][j[2]].val \in Rows
  BY SetterType DEF Setters
<1> QED
  BY <1>1 DEF OpenOn

LEMMA SetCreateType ==
  ASSUME NEW p \in Procs, NEW i \in 1..MaxQueries, TypeOK, SetCreate(p, i)
  PROVE  TypeOK'
<1> USE BoundAssumption, FoldType, KeyType DEF TypeOK, SetCreate, files, session, locals, traces, Goto
<1> DEFINE w == setter[p][i]
           new == [w EXCEPT !.st = "open", !.linked = TRUE]
           file == [rows |-> <<>>, mtime |-> now]
<1>0. /\ w \in Setters /\ w.key \in Keys /\ w.pos <= Len(w.val)
      /\ new \in Setters /\ new.key = w.key /\ new.pos = w.pos /\ new.val = w.val
      /\ setter' = [setter EXCEPT ![p][i] = new]
      /\ file \in CacheFiles
      /\ cacheFile' = [cacheFile EXCEPT ![w.key] = file]
  <2>1. w \in Setters /\ SetterOK(w) /\ w.st = "ready"
    BY SetterType
  <2>2. file \in CacheFiles
    BY EmptyRows DEF CacheFiles, FilesOK
  <2> QED
    BY <2>1, <2>2 DEF Setters, SetterOK
<1> HIDE DEF new, file
<1>1. FilesOK'
  <2>1. {w.val} \cup OpenOn(w.key) \subseteq Rows
    BY <1>0, OpenOnType DEF Setters
  <2> DEFINE W == {w.val} \cup OpenOn(w.key)
  <2>2. woven' = [woven EXCEPT ![w.key] = W]
    OBVIOUS
  <2>3. woven' \in [Keys -> SUBSET Rows]
    <3>1. W \in SUBSET Rows /\ woven \in [Keys -> SUBSET Rows]
      BY <2>1 DEF FilesOK
    <3> HIDE DEF W, w
    <3> QED
      BY <2>2, <3>1
  <2>4. cacheFile' \in [Keys -> CacheFiles \cup {NoFile}]
    <3>1. cacheFile \in [Keys -> CacheFiles \cup {NoFile}]
      BY DEF FilesOK
    <3> HIDE DEF w
    <3> QED
      BY <1>0, <3>1
  <2>5. cut' \subseteq Keys
    BY DEF FilesOK
  <2> QED
    BY <2>3, <2>4, <2>5 DEF FilesOK
<1>2. ProcsOK'
  BY DEF ProcsOK, PlaceOK, States, Asking
<1>3. (\A q \in Procs : PlaceOK(q))'
  BY DEF ProcsOK, PlaceOK, States, Asking
<1>4. SettersOK'
  <2>7. /\ setter' \in [Procs -> [1..MaxQueries -> Setters]]
        /\ \A q \in Procs, j \in 1..MaxQueries :
             setter'[q][j] = IF q = p /\ j = i THEN new ELSE setter[q][j]
    <3>1. setter' = [setter EXCEPT ![p][i] = new] /\ new \in Setters /\ SettersOK
      BY <1>0
    <3> QED
      BY ONLY <3>1, SetterUpdate, p \in Procs, i \in 1..MaxQueries
  <2>1. ASSUME NEW q \in Procs, NEW j \in 1..MaxQueries
        PROVE  SetterOK(setter[q][j])'
    <3>1. setter'[q][j] = IF q = p /\ j = i THEN new ELSE setter[q][j]
      BY <2>7
    <3>2. \A k \in Keys : Exists(k) => Exists(k)'
      BY <1>0, AbsentAssumption DEF Exists, FilesOK
    <3>3. Exists(w.key)'
      BY <1>0, AbsentAssumption DEF Exists, FilesOK
    <3> QED
      BY <1>0, <3>1, <3>2, <3>3, SetterType DEF SetterOK
  <2> QED
    BY <2>1, <2>7 DEF SettersOK
<1> QED
  BY <1>1, <1>2, <1>3, <1>4

LEMMA SetWriteType ==
  ASSUME NEW p \in Procs, NEW i \in 1..MaxQueries, TypeOK, SetWrite(p, i)
  PROVE  TypeOK'
<1> USE BoundAssumption, FoldType, KeyType DEF TypeOK, SetWrite, files, session, locals, traces, Goto
<1> DEFINE w == setter[p][i]
           new == [w EXCEPT !.pos = w.pos + 1]
           file == [rows |-> WriteAt(cacheFile[w.key].rows, w.pos + 1, w.val[w.pos + 1]),
                    mtime |-> now]
<1>0. /\ w \in Setters /\ w.key \in Keys /\ w.pos < Len(w.val) /\ SetterOK(w)
      /\ new \in Setters /\ new.key = w.key /\ new.pos = w.pos + 1 /\ new.val = w.val
      /\ new.linked = w.linked /\ new.st = w.st
      /\ setter' = [setter EXCEPT ![p][i] = new]
  <2>1. w \in Setters /\ SetterOK(w) /\ w.st = "open" /\ w.pos < Len(w.val)
    BY SetterType
  <2>2. w.pos \in Nat /\ w.pos + 1 \in Nat /\ w.key \in Keys
    BY <2>1 DEF Setters, SetterOK
  <2>3. new \in Setters /\ new.key = w.key /\ new.pos = w.pos + 1 /\ new.val = w.val
        /\ new.linked = w.linked /\ new.st = w.st
    BY <2>1, <2>2 DEF Setters
  <2>4. setter' = [setter EXCEPT ![p][i] = new]
    OBVIOUS
  <2> HIDE DEF new
  <2> QED
    BY <2>1, <2>2, <2>3, <2>4
<1>5. ASSUME w.linked
      PROVE  /\ file \in CacheFiles
             /\ cacheFile' = [cacheFile EXCEPT ![w.key] = file]
  <2>1. cacheFile[w.key].rows \in Rows
    BY <1>0, <1>5, CacheFileType DEF SetterOK
  <2>2. w.val \in Rows /\ w.pos \in Nat
    BY <1>0 DEF Setters
  <2>3. w.pos + 1 \in Nat \ {0} /\ w.val[w.pos + 1] \in Reports \cup {Hole}
    <3> HIDE DEF w
    <3> QED
      BY <1>0, <2>2, NextRowType
  <2>4. WriteAt(cacheFile[w.key].rows, w.pos + 1, w.val[w.pos + 1]) \in Rows
    BY <2>1, <2>2, <2>3, WriteAtType DEF Rows
  <2> QED
    BY <1>5, <2>4 DEF CacheFiles, FilesOK
<1> HIDE DEF new, file
<1>1. FilesOK'
  <2>1. CASE w.linked
    BY <1>0, <1>5, <2>1 DEF FilesOK
  <2>2. CASE ~w.linked
    BY <2>2 DEF FilesOK
  <2> QED
    BY <2>1, <2>2
<1>2. ProcsOK'
  BY DEF ProcsOK, PlaceOK, States, Asking
<1>3. (\A q \in Procs : PlaceOK(q))'
  BY DEF ProcsOK, PlaceOK, States, Asking
<1>4. SettersOK'
  <2>1. \A k \in Keys : Exists(k) => Exists(k)'
    <3>1. CASE w.linked
      BY <1>0, <1>5, <3>1, AbsentAssumption DEF Exists, FilesOK
    <3>2. CASE ~w.linked
      BY <3>2 DEF Exists
    <3> QED
      BY <3>1, <3>2
  <2>7. /\ setter' \in [Procs -> [1..MaxQueries -> Setters]]
        /\ \A q \in Procs, j \in 1..MaxQueries :
             setter'[q][j] = IF q = p /\ j = i THEN new ELSE setter[q][j]
    <3>1. setter' = [setter EXCEPT ![p][i] = new] /\ new \in Setters /\ SettersOK
      BY <1>0
    <3> QED
      BY ONLY <3>1, SetterUpdate, p \in Procs, i \in 1..MaxQueries
  <2>2. ASSUME NEW q \in Procs, NEW j \in 1..MaxQueries
        PROVE  SetterOK(setter[q][j])'
    <3>1. setter'[q][j] = IF q = p /\ j = i THEN new ELSE setter[q][j]
      BY <2>7
    <3>2. SetterOK(w) /\ SetterOK(setter[q][j])
      BY SetterType
    <3>3. CASE q = p /\ j = i
      <4>1. setter'[q][j] = new
        BY <3>1, <3>3
      <4>2. SetterOK(w)
        BY <3>2
      <4>3. new.pos <= Len(new.val)
        BY <1>0 DEF Setters
      <4> QED
        BY <1>0, <2>1, <4>1, <4>2, <4>3 DEF SetterOK
    <3>4. CASE ~(q = p /\ j = i)
      <4>1. setter'[q][j] = setter[q][j]
        BY <3>1, <3>4
      <4> QED
        BY <2>1, <3>2, <4>1 DEF SetterOK
    <3> QED
      BY <3>3, <3>4
  <2> QED
    BY <2>2, <2>7 DEF SettersOK
<1> QED
  BY <1>1, <1>2, <1>3, <1>4

LEMMA SetDoneType ==
  ASSUME NEW p \in Procs, NEW i \in 1..MaxQueries, TypeOK, SetDone(p, i)
  PROVE  TypeOK'
<1> USE BoundAssumption, FoldType, KeyType DEF TypeOK, SetDone, files, session, locals, traces, Goto
<1>1. FilesOK'
  BY DEF FilesOK
<1>2. ProcsOK'
  BY DEF ProcsOK, PlaceOK, States, Asking
<1>3. (\A q \in Procs : PlaceOK(q))'
  BY DEF ProcsOK, PlaceOK, States, Asking
<1>4. SettersOK'
  <2>1. NoSetter \in Setters /\ SetterOK(NoSetter)'
    BY EmptyRows DEF NoSetter, Setters, SetterOK
  <2>7. /\ setter' \in [Procs -> [1..MaxQueries -> Setters]]
        /\ \A q \in Procs, j \in 1..MaxQueries :
             setter'[q][j] = IF q = p /\ j = i THEN NoSetter ELSE setter[q][j]
    BY <2>1, SetterUpdate
  <2>2. ASSUME NEW q \in Procs, NEW j \in 1..MaxQueries
        PROVE  SetterOK(setter[q][j])'
    <3>1. setter'[q][j] = IF q = p /\ j = i THEN NoSetter ELSE setter[q][j]
      BY <2>7
    <3> QED
      BY <2>1, <3>1, SetterType DEF SetterOK, Exists
  <2> QED
    BY <2>2, <2>7 DEF SettersOK
<1> QED
  BY <1>1, <1>2, <1>3, <1>4

LEMMA SetFailsType ==
  ASSUME NEW p \in Procs, NEW i \in 1..MaxQueries, TypeOK, SetFails(p, i)
  PROVE  TypeOK'
<1> USE BoundAssumption, FoldType, KeyType DEF TypeOK, SetFails, files, session, locals, traces, Goto
<1>1. FilesOK'
  BY DEF FilesOK
<1>2. ProcsOK'
  BY DEF ProcsOK, PlaceOK, States, Asking
<1>3. (\A q \in Procs : PlaceOK(q))'
  BY DEF ProcsOK, PlaceOK, States, Asking
<1>4. SettersOK'
  <2>1. NoSetter \in Setters /\ SetterOK(NoSetter)'
    BY EmptyRows DEF NoSetter, Setters, SetterOK
  <2>7. /\ setter' \in [Procs -> [1..MaxQueries -> Setters]]
        /\ \A q \in Procs, j \in 1..MaxQueries :
             setter'[q][j] = IF q = p /\ j = i THEN NoSetter ELSE setter[q][j]
    BY <2>1, SetterUpdate
  <2>2. ASSUME NEW q \in Procs, NEW j \in 1..MaxQueries
        PROVE  SetterOK(setter[q][j])'
    <3>1. setter'[q][j] = IF q = p /\ j = i THEN NoSetter ELSE setter[q][j]
      BY <2>7
    <3> QED
      BY <2>1, <3>1, SetterType DEF SetterOK, Exists
  <2> QED
    BY <2>2, <2>7 DEF SettersOK
<1> QED
  BY <1>1, <1>2, <1>3, <1>4

LEMMA TypeNext == TypeOK /\ [Next]_vars => TypeOK'
<1> SUFFICES ASSUME TypeOK, [Next]_vars PROVE TypeOK'
  OBVIOUS
<1>1. ASSUME NEW p \in Procs, Start(p) PROVE TypeOK'
  BY <1>1, StartType
<1>2. ASSUME NEW p \in Procs, NEW t \in Texts, Ask(p, t) PROVE TypeOK'
  BY <1>2, AskType
<1>3. ASSUME NEW p \in Procs, ListCache(p) PROVE TypeOK'
  BY <1>3, ListCacheType
<1>4. ASSUME NEW p \in Procs, PurgeNext(p) PROVE TypeOK'
  BY <1>4, PurgeNextType
<1>5. ASSUME NEW p \in Procs, RemoveFile(p) PROVE TypeOK'
  BY <1>5, RemoveFileType
<1>6. ASSUME NEW p \in Procs, PurgeDone(p) PROVE TypeOK'
  BY <1>6, PurgeDoneType
<1>7. ASSUME NEW p \in Procs, Connect(p) PROVE TypeOK'
  BY <1>7, ConnectType
<1>8. ASSUME NEW p \in Procs, Fail(p) PROVE TypeOK'
  BY <1>8, FailType
<1>9. ASSUME NEW p \in Procs, StatCache(p) PROVE TypeOK'
  BY <1>9, StatCacheType
<1>10. ASSUME NEW p \in Procs, ReadCache(p) PROVE TypeOK'
  BY <1>10, ReadCacheType
<1>11. ASSUME NEW p \in Procs, CallApi(p) PROVE TypeOK'
  BY <1>11, CallApiType
<1>12. ASSUME NEW p \in Procs, CreateTmp(p) PROVE TypeOK'
  BY <1>12, CreateTmpType
<1>13. ASSUME NEW p \in Procs, CopyRow(p) PROVE TypeOK'
  BY <1>13, CopyRowType
<1>14. ASSUME NEW p \in Procs, CopyDone(p) PROVE TypeOK'
  BY <1>14, CopyDoneType
<1>15. ASSUME NEW p \in Procs, ParseTmp(p) PROVE TypeOK'
  BY <1>15, ParseTmpType
<1>16. ASSUME NEW p \in Procs, Show(p) PROVE TypeOK'
  BY <1>16, ShowType
<1>17. ASSUME NEW p \in Procs, Exit(p) PROVE TypeOK'
  BY <1>17, ExitType
<1>18. ASSUME NEW p \in Procs, NEW i \in 1..MaxQueries, SetCreate(p, i) PROVE TypeOK'
  BY <1>18, SetCreateType
<1>19. ASSUME NEW p \in Procs, NEW i \in 1..MaxQueries, SetWrite(p, i) PROVE TypeOK'
  BY <1>19, SetWriteType
<1>20. ASSUME NEW p \in Procs, NEW i \in 1..MaxQueries, SetDone(p, i) PROVE TypeOK'
  BY <1>20, SetDoneType
<1>23. ASSUME NEW p \in Procs, NEW i \in 1..MaxQueries, SetFails(p, i) PROVE TypeOK'
  BY <1>23, SetFailsType
<1>21. CASE Tick
  BY <1>21, BoundAssumption DEF Tick, TypeOK, FilesOK, ProcsOK, PlaceOK, SettersOK, SetterOK,
                       Exists, files, session, locals, traces
<1>22. CASE UNCHANGED vars
  BY <1>22 DEF vars, TypeOK, FilesOK, ProcsOK, PlaceOK, SettersOK, SetterOK,
                       Exists, files, session, locals, traces
<1> QED
  BY <1>1, <1>2, <1>3, <1>4, <1>5, <1>6, <1>7, <1>8, <1>9, <1>10, <1>11, <1>12, <1>13, <1>14, <1>15, <1>16, <1>17, <1>18, <1>19, <1>20, <1>23, <1>21, <1>22 DEF Next, Work, Save

(* Every reachable state is well typed. *)
THEOREM TypeCorrect == Spec => []TypeOK
  BY TypeInit, TypeNext, PTL DEF Spec

(* Provenance.  Steps that leave files, goroutines and places alone.         *)
LEMMA OwnRowsGrow ==
  ASSUME issued \subseteq issued', NEW f, NEW s \in Seq(OwnRows(f))
  PROVE  s \in Seq(OwnRows(f)')
<1>1. OwnRows(f) \subseteq OwnRows(f)'
  BY DEF OwnRows
<1> QED
  BY <1>1, SeqMonotonic

LEMMA FilesOwnKept ==
  ASSUME FilesOwn, issued \subseteq issued', UNCHANGED <<cacheFile, tmpFile>>
  PROVE  FilesOwn'
<1>1. ASSUME NEW k \in Keys, Exists(k)'
      PROVE  (cacheFile[k].rows \in Seq(OwnRows(k[1])))'
  BY <1>1, OwnRowsGrow DEF FilesOwn, Exists
<1>2. ASSUME NEW f \in Folds, tmpFile'[f] # NoFile
      PROVE  (tmpFile[f] \in Seq(OwnRows(f)))'
  BY <1>2, OwnRowsGrow DEF FilesOwn
<1> QED
  BY <1>1, <1>2 DEF FilesOwn

LEMMA SettersOwnKept ==
  ASSUME SettersOwn, issued \subseteq issued',
         \A q \in Procs, j \in 1..MaxQueries : setter'[q][j].st # "none" =>
           /\ setter[q][j].st # "none" /\ setter'[q][j].key = setter[q][j].key
           /\ setter'[q][j].val = setter[q][j].val
  PROVE  SettersOwn'
<1> SUFFICES ASSUME NEW q \in Procs, NEW j \in 1..MaxQueries, setter'[q][j].st # "none"
             PROVE  (setter[q][j].val \in Seq(OwnRows(setter[q][j].key[1])))'
  BY DEF SettersOwn
<1>1. setter[q][j].val \in Seq(OwnRows(setter[q][j].key[1]))
  BY DEF SettersOwn
<1>2. setter[q][j].val \in Seq(OwnRows(setter[q][j].key[1])')
  BY <1>1, OwnRowsGrow
<1> QED
  BY <1>2 DEF OwnRows

(* One process, the conjuncts of ProcsOwn. *)
ProcOwn(p) ==
  /\ pc[p] \in {"create", "copy"} => resp[p] \in OwnRows(Fold[text[p]])
  /\ pc[p] = "show" => got[p] \in Seq(OwnRows(Fold[text[p]]))
  /\ Answered(p) => shown[p].rows \in Seq(OwnRows(Fold[shown[p].text]))

LEMMA ProcOwnKept ==
  ASSUME ProcsOwn, issued \subseteq issued', NEW q \in Procs,
         pc'[q] = pc[q], resp'[q] = resp[q], got'[q] = got[q],
         text'[q] = text[q], shown'[q] = shown[q]
  PROVE  ProcOwn(q)'
<1>1. ProcOwn(q)
  BY DEF ProcsOwn, ProcOwn
<1>2. OwnRows(Fold[text[q]]) \subseteq OwnRows(Fold[text[q]])'
  BY DEF OwnRows
<1>3. got[q] \in Seq(OwnRows(Fold[text[q]])) => (got[q] \in Seq(OwnRows(Fold[text[q]])))'
  BY <1>2, SeqMonotonic
<1>4. OwnRows(Fold[shown[q].text]) \subseteq OwnRows(Fold[shown[q].text])'
  BY DEF OwnRows
<1>5. Answered(q) => (shown[q].rows \in Seq(OwnRows(Fold[shown[q].text])))'
  BY <1>1, <1>4, SeqMonotonic DEF ProcOwn
<1> QED
  BY <1>1, <1>2, <1>3, <1>5 DEF ProcOwn, Answered

LEMMA StartProvenance ==
  ASSUME NEW p \in Procs, TypeOK, Provenance, Start(p)
  PROVE  Provenance'
<1> USE FoldType, KeyType DEF Provenance, Start, files, session, locals, traces, Goto
<1>1. FilesOwn'
  BY FilesOwnKept
<1>2. ASSUME NEW q \in Procs PROVE ProcOwn(q)'
  <2>1. CASE q = p
    BY <2>1 DEF ProcsOwn, ProcOwn, Answered, TypeOK, ProcsOK, OwnRows
  <2>2. CASE q # p
    BY <2>2, ProcOwnKept DEF TypeOK, ProcsOK
  <2> QED
    BY <2>1, <2>2
<1>3. SettersOwn'
  BY SettersOwnKept
<1> QED
  BY <1>1, <1>2, <1>3 DEF ProcsOwn, ProcOwn

LEMMA AskProvenance ==
  ASSUME NEW p \in Procs, NEW t \in Texts, TypeOK, Provenance, Ask(p, t)
  PROVE  Provenance'
<1> USE FoldType, KeyType DEF Provenance, Ask, files, session, locals, traces, Goto
<1>1. FilesOwn'
  BY FilesOwnKept
<1>2. ASSUME NEW q \in Procs PROVE ProcOwn(q)'
  <2>1. CASE q = p
    BY <2>1 DEF ProcsOwn, ProcOwn, Answered, TypeOK, ProcsOK, OwnRows
  <2>2. CASE q # p
    BY <2>2, ProcOwnKept DEF TypeOK, ProcsOK
  <2> QED
    BY <2>1, <2>2
<1>3. SettersOwn'
  BY SettersOwnKept
<1> QED
  BY <1>1, <1>2, <1>3 DEF ProcsOwn, ProcOwn

LEMMA ListCacheProvenance ==
  ASSUME NEW p \in Procs, TypeOK, Provenance, ListCache(p)
  PROVE  Provenance'
<1> USE FoldType, KeyType DEF Provenance, ListCache, files, session, locals, traces, Goto
<1>1. FilesOwn'
  BY FilesOwnKept
<1>2. ASSUME NEW q \in Procs PROVE ProcOwn(q)'
  <2>1. CASE q = p
    BY <2>1 DEF ProcsOwn, ProcOwn, Answered, TypeOK, ProcsOK, OwnRows
  <2>2. CASE q # p
    BY <2>2, ProcOwnKept DEF TypeOK, ProcsOK
  <2> QED
    BY <2>1, <2>2
<1>3. SettersOwn'
  BY SettersOwnKept
<1> QED
  BY <1>1, <1>2, <1>3 DEF ProcsOwn, ProcOwn

LEMMA PurgeNextProvenance ==
  ASSUME NEW p \in Procs, TypeOK, Provenance, PurgeNext(p)
  PROVE  Provenance'
<1> USE FoldType, KeyType DEF Provenance, PurgeNext, files, session, locals, traces, Goto
<1>1. FilesOwn'
  BY FilesOwnKept
<1>2. ASSUME NEW q \in Procs PROVE ProcOwn(q)'
  <2>1. CASE q = p
    BY <2>1 DEF ProcsOwn, ProcOwn, Answered, TypeOK, ProcsOK, OwnRows
  <2>2. CASE q # p
    BY <2>2, ProcOwnKept DEF TypeOK, ProcsOK
  <2> QED
    BY <2>1, <2>2
<1>3. SettersOwn'
  BY SettersOwnKept
<1> QED
  BY <1>1, <1>2, <1>3 DEF ProcsOwn, ProcOwn

LEMMA RemoveFileProvenance ==
  ASSUME NEW p \in Procs, TypeOK, Provenance, RemoveFile(p)
  PROVE  Provenance'
<1> USE FoldType, KeyType DEF Provenance, RemoveFile, Unlinked, GivesUp, files, session, locals, traces, Goto
<1>1. FilesOwn'
  <2>1. ASSUME NEW k \in Keys, Exists(k)'
        PROVE  Exists(k) /\ cacheFile'[k] = cacheFile[k]
    BY <2>1, AbsentAssumption DEF Exists, TypeOK, FilesOK
  <2>2. ASSUME NEW k \in Keys, Exists(k)'
        PROVE  (cacheFile[k].rows \in Seq(OwnRows(k[1])))'
    BY <2>1, <2>2, OwnRowsGrow DEF FilesOwn
  <2>3. ASSUME NEW f \in Folds, tmpFile'[f] # NoFile
        PROVE  (tmpFile[f] \in Seq(OwnRows(f)))'
    BY <2>3, OwnRowsGrow DEF FilesOwn
  <2> QED
    BY <2>2, <2>3 DEF FilesOwn
<1>2. ASSUME NEW q \in Procs PROVE ProcOwn(q)'
  <2>1. CASE q = p
    BY <2>1 DEF ProcsOwn, ProcOwn, Answered, TypeOK, ProcsOK, OwnRows
  <2>2. CASE q # p
    BY <2>2, ProcOwnKept DEF TypeOK, ProcsOK
  <2> QED
    BY <2>1, <2>2
<1>3. SettersOwn'
  <2>1. CASE UNCHANGED setter
    BY <2>1, SettersOwnKept
  <2>2. CASE setter' = Unlink(setter, victim[p])
    <3>1. \A q \in Procs, j \in 1..MaxQueries :
            /\ setter'[q][j].st = setter[q][j].st /\ setter'[q][j].key = setter[q][j].key
            /\ setter'[q][j].val = setter[q][j].val
      BY <2>2, UnlinkType DEF TypeOK
    <3> QED
      BY <3>1, SettersOwnKept
  <2> QED
    BY <2>1, <2>2
<1> QED
  BY <1>1, <1>2, <1>3 DEF ProcsOwn, ProcOwn

LEMMA PurgeDoneProvenance ==
  ASSUME NEW p \in Procs, TypeOK, Provenance, PurgeDone(p)
  PROVE  Provenance'
<1> USE FoldType, KeyType DEF Provenance, PurgeDone, files, session, locals, traces, Goto
<1>1. FilesOwn'
  BY FilesOwnKept
<1>2. ASSUME NEW q \in Procs PROVE ProcOwn(q)'
  <2>1. CASE q = p
    BY <2>1 DEF ProcsOwn, ProcOwn, Answered, TypeOK, ProcsOK, OwnRows
  <2>2. CASE q # p
    BY <2>2, ProcOwnKept DEF TypeOK, ProcsOK
  <2> QED
    BY <2>1, <2>2
<1>3. SettersOwn'
  BY SettersOwnKept
<1> QED
  BY <1>1, <1>2, <1>3 DEF ProcsOwn, ProcOwn

LEMMA ConnectProvenance ==
  ASSUME NEW p \in Procs, TypeOK, Provenance, Connect(p)
  PROVE  Provenance'
<1> USE FoldType, KeyType DEF Provenance, Connect, files, session, locals, traces, Goto
<1>1. FilesOwn'
  BY FilesOwnKept
<1>2. ASSUME NEW q \in Procs PROVE ProcOwn(q)'
  <2>1. CASE q = p
    BY <2>1 DEF ProcsOwn, ProcOwn, Answered, TypeOK, ProcsOK, OwnRows
  <2>2. CASE q # p
    BY <2>2, ProcOwnKept DEF TypeOK, ProcsOK
  <2> QED
    BY <2>1, <2>2
<1>3. SettersOwn'
  BY SettersOwnKept
<1> QED
  BY <1>1, <1>2, <1>3 DEF ProcsOwn, ProcOwn

LEMMA FailProvenance ==
  ASSUME NEW p \in Procs, TypeOK, Provenance, Fail(p)
  PROVE  Provenance'
<1> USE FoldType, KeyType DEF Provenance, Fail, files, session, locals, traces, Goto
<1>1. FilesOwn'
  BY FilesOwnKept
<1>2. ASSUME NEW q \in Procs PROVE ProcOwn(q)'
  <2>1. CASE q = p
    BY <2>1 DEF ProcsOwn, ProcOwn, Answered, TypeOK, ProcsOK, OwnRows
  <2>2. CASE q # p
    BY <2>2, ProcOwnKept DEF TypeOK, ProcsOK
  <2> QED
    BY <2>1, <2>2
<1>3. SettersOwn'
  BY SettersOwnKept
<1> QED
  BY <1>1, <1>2, <1>3 DEF ProcsOwn, ProcOwn

LEMMA StatCacheProvenance ==
  ASSUME NEW p \in Procs, TypeOK, Provenance, StatCache(p)
  PROVE  Provenance'
<1> USE FoldType, KeyType DEF Provenance, StatCache, files, session, locals, traces, Goto
<1>1. FilesOwn'
  BY FilesOwnKept
<1>2. ASSUME NEW q \in Procs PROVE ProcOwn(q)'
  <2>1. CASE q = p
    BY <2>1 DEF ProcsOwn, ProcOwn, Answered, TypeOK, ProcsOK, OwnRows
  <2>2. CASE q # p
    BY <2>2, ProcOwnKept DEF TypeOK, ProcsOK
  <2> QED
    BY <2>1, <2>2
<1>3. SettersOwn'
  BY SettersOwnKept
<1> QED
  BY <1>1, <1>2, <1>3 DEF ProcsOwn, ProcOwn

LEMMA ReadCacheProvenance ==
  ASSUME NEW p \in Procs, TypeOK, Provenance, ReadCache(p)
  PROVE  Provenance'
<1> USE FoldType, KeyType DEF Provenance, ReadCache, files, session, locals, traces, Goto
<1>1. FilesOwn'
  BY FilesOwnKept
<1>2. ASSUME NEW q \in Procs PROVE ProcOwn(q)'
  <2>1. CASE q = p
    <3>1. text[p] \in Texts /\ KeyOf(p) \in Keys /\ KeyOf(p)[1] = Fold[text[p]]
      BY DEF TypeOK, PlaceOK, Asking, KeyOf
    <3>2. Exists(KeyOf(p)) => cacheFile[KeyOf(p)].rows \in Seq(OwnRows(Fold[text[p]]))
      BY <3>1 DEF FilesOwn
    <3>3. pc'[p] = "show" => got'[p] = cacheFile[KeyOf(p)].rows /\ Exists(KeyOf(p))
      BY DEF TypeOK, ProcsOK
    <3>4. pc'[p] \notin {"create", "copy"}
      BY DEF TypeOK, ProcsOK
    <3> QED
      BY <2>1, <3>2, <3>3, <3>4 DEF ProcsOwn, ProcOwn, Answered, OwnRows
  <2>2. CASE q # p
    BY <2>2, ProcOwnKept DEF TypeOK, ProcsOK
  <2> QED
    BY <2>1, <2>2
<1>3. SettersOwn'
  BY SettersOwnKept
<1> QED
  BY <1>1, <1>2, <1>3 DEF ProcsOwn, ProcOwn

LEMMA CallApiProvenance ==
  ASSUME NEW p \in Procs, TypeOK, Provenance, CallApi(p)
  PROVE  Provenance'
<1> USE FoldType, KeyType DEF Provenance, CallApi, files, session, locals, traces, Goto
<1>0. PICK r : /\ r.text = text[p]
                /\ issued' = issued \cup {r}
                /\ resp' = [resp EXCEPT ![p] = r]
  <2>1. PICK n \in Sizes[Fold[text[p]]] :
          LET r == [acct |-> AccountOf[p], text |-> text[p], at |-> now,
                    by |-> <<p, life[p]>>, size |-> n]
          IN issued' = issued \cup {r} /\ resp' = [resp EXCEPT ![p] = r]
    OBVIOUS
  <2> QED
    BY <2>1
<1>1. FilesOwn'
  BY FilesOwnKept
<1>2. ASSUME NEW q \in Procs PROVE ProcOwn(q)'
  <2>1. CASE q = p
    <3>1. (resp[p] \in OwnRows(Fold[text[p]]))'
      BY <1>0 DEF OwnRows, TypeOK, ProcsOK
    <3>2. pc'[p] # "show"
      BY DEF TypeOK, ProcsOK
    <3>3. Answered(p) => (shown[p].rows \in Seq(OwnRows(Fold[shown[p].text])))'
      <4>1. OwnRows(Fold[shown[p].text]) \subseteq OwnRows(Fold[shown[p].text])'
        BY <1>0 DEF OwnRows
      <4> QED
        BY <4>1, SeqMonotonic DEF ProcsOwn
    <3> QED
      BY <2>1, <3>1, <3>2, <3>3 DEF ProcOwn, Answered
  <2>2. CASE q # p
    BY <2>2, ProcOwnKept DEF TypeOK, ProcsOK
  <2> QED
    BY <2>1, <2>2
<1>3. SettersOwn'
  BY SettersOwnKept
<1> QED
  BY <1>1, <1>2, <1>3 DEF ProcsOwn, ProcOwn

LEMMA CreateTmpProvenance ==
  ASSUME NEW p \in Procs, TypeOK, Provenance, CreateTmp(p)
  PROVE  Provenance'
<1> USE FoldType, KeyType DEF Provenance, CreateTmp, files, session, locals, traces, Goto
<1>1. FilesOwn'
  <2>1. ASSUME NEW k \in Keys, Exists(k)'
        PROVE  (cacheFile[k].rows \in Seq(OwnRows(k[1])))'
    BY <2>1, OwnRowsGrow DEF FilesOwn, Exists
  <2>2. ASSUME NEW f \in Folds, tmpFile'[f] # NoFile
        PROVE  (tmpFile[f] \in Seq(OwnRows(f)))'
    <3>1. tmpFile'[f] = <<>> \/ tmpFile'[f] = tmpFile[f]
      BY DEF TypeOK, FilesOK
    <3>2. tmpFile'[f] \in Seq(OwnRows(f))
      BY <2>2, <3>1, EmptySeq DEF FilesOwn
    <3> QED
      BY <3>2 DEF OwnRows
  <2> QED
    BY <2>1, <2>2 DEF FilesOwn
<1>2. ASSUME NEW q \in Procs PROVE ProcOwn(q)'
  <2>1. CASE q = p
    BY <2>1 DEF ProcsOwn, ProcOwn, Answered, TypeOK, ProcsOK, OwnRows
  <2>2. CASE q # p
    BY <2>2, ProcOwnKept DEF TypeOK, ProcsOK
  <2> QED
    BY <2>1, <2>2
<1>3. SettersOwn'
  BY SettersOwnKept
<1> QED
  BY <1>1, <1>2, <1>3 DEF ProcsOwn, ProcOwn

LEMMA CopyRowProvenance ==
  ASSUME NEW p \in Procs, TypeOK, Provenance, CopyRow(p)
  PROVE  Provenance'
<1> USE FoldType, KeyType DEF Provenance, CopyRow, files, session, locals, traces, Goto
<1>1. FilesOwn'
  <2>1. ASSUME NEW k \in Keys, Exists(k)'
        PROVE  (cacheFile[k].rows \in Seq(OwnRows(k[1])))'
    BY <2>1, OwnRowsGrow DEF FilesOwn, Exists
  <2>2. ASSUME NEW f \in Folds, tmpFile'[f] # NoFile
        PROVE  tmpFile'[f] \in Seq(OwnRows(f))
    <3>1. CASE f = Fold[text[p]]
      <4>1. tmpFile[f] \in Seq(OwnRows(f))
        BY <3>1 DEF FilesOwn, TypeOK, PlaceOK
      <4>2. pos[p] + 1 \in Nat \ {0} /\ resp[p] \in OwnRows(f) /\ Hole \in OwnRows(f)
        <5>1. pos[p] \in Nat
          BY DEF TypeOK, ProcsOK
        <5>2. resp[p] \in OwnRows(f)
          BY <3>1 DEF ProcsOwn
        <5> QED
          BY <5>1, <5>2 DEF OwnRows
      <4>3. WriteAt(tmpFile[f], pos[p] + 1, resp[p]) \in Seq(OwnRows(f))
        BY <4>1, <4>2, WriteAtType
      <4> QED
        BY <3>1, <4>3 DEF TypeOK, FilesOK
    <3>2. CASE f # Fold[text[p]]
      BY <2>2, <3>2 DEF FilesOwn, TypeOK, FilesOK
    <3> QED
      BY <3>1, <3>2
  <2>3. \A f \in Folds : OwnRows(f)' = OwnRows(f)
    BY DEF OwnRows
  <2> QED
    BY <2>1, <2>2, <2>3 DEF FilesOwn
<1>2. ASSUME NEW q \in Procs PROVE ProcOwn(q)'
  <2>1. CASE q = p
    BY <2>1 DEF ProcsOwn, ProcOwn, Answered, TypeOK, ProcsOK, OwnRows
  <2>2. CASE q # p
    BY <2>2, ProcOwnKept DEF TypeOK, ProcsOK
  <2> QED
    BY <2>1, <2>2
<1>3. SettersOwn'
  BY SettersOwnKept
<1> QED
  BY <1>1, <1>2, <1>3 DEF ProcsOwn, ProcOwn

LEMMA CopyDoneProvenance ==
  ASSUME NEW p \in Procs, TypeOK, Provenance, CopyDone(p)
  PROVE  Provenance'
<1> USE FoldType, KeyType DEF Provenance, CopyDone, files, session, locals, traces, Goto
<1>1. FilesOwn'
  BY FilesOwnKept
<1>2. ASSUME NEW q \in Procs PROVE ProcOwn(q)'
  <2>1. CASE q = p
    BY <2>1 DEF ProcsOwn, ProcOwn, Answered, TypeOK, ProcsOK, OwnRows
  <2>2. CASE q # p
    BY <2>2, ProcOwnKept DEF TypeOK, ProcsOK
  <2> QED
    BY <2>1, <2>2
<1>3. SettersOwn'
  BY SettersOwnKept
<1> QED
  BY <1>1, <1>2, <1>3 DEF ProcsOwn, ProcOwn

LEMMA ParseTmpProvenance ==
  ASSUME NEW p \in Procs, TypeOK, Provenance, ParseTmp(p)
  PROVE  Provenance'
<1> USE FoldType, KeyType DEF Provenance, ParseTmp, files, session, locals, traces, Goto
<1> DEFINE rows == tmpFile[Fold[text[p]]]
           new == [st |-> "ready", key |-> KeyOf(p), val |-> rows, pos |-> 0,
                   linked |-> FALSE]
<1>0. /\ text[p] \in Texts /\ asked[p] \in 1..MaxQueries /\ rows \in Rows
      /\ KeyOf(p) \in Keys /\ KeyOf(p)[1] = Fold[text[p]]
      /\ rows \in Seq(OwnRows(Fold[text[p]]))
  BY TmpFileType DEF TypeOK, PlaceOK, Asking, FilesOwn, KeyOf
<1>5. \A f \in Folds : OwnRows(f)' = OwnRows(f)
  BY DEF OwnRows
<1>1. FilesOwn'
  BY FilesOwnKept
<1>2. ASSUME NEW q \in Procs PROVE ProcOwn(q)'
  <2>1. CASE q = p
    <3>1. pc'[p] = "show" /\ got'[p] = rows
      BY DEF TypeOK, ProcsOK
    <3>2. (Fold[text[p]] \in Folds) /\ text'[p] = text[p]
      BY <1>0
    <3>3. (got[p] \in Seq(OwnRows(Fold[text[p]])))'
      BY <1>0, <3>1, <3>2 DEF OwnRows
    <3>4. Answered(p) => (shown[p].rows \in Seq(OwnRows(Fold[shown[p].text])))'
      BY DEF ProcsOwn, OwnRows
    <3> QED
      BY <2>1, <3>1, <3>3, <3>4 DEF ProcOwn, Answered
  <2>2. CASE q # p
    BY <2>2, ProcOwnKept DEF TypeOK, ProcsOK
  <2> QED
    BY <2>1, <2>2
<1>3. SettersOwn'
  <2>1. new \in Setters
    BY <1>0 DEF Setters
  <2>2. setter' = [setter EXCEPT ![p][asked[p]] = new]
    OBVIOUS
  <2>3. new.key = KeyOf(p) /\ new.val = rows
    OBVIOUS
  <2> HIDE DEF new
  <2>4. \A q \in Procs, j \in 1..MaxQueries :
          setter'[q][j] = IF q = p /\ j = asked[p] THEN new ELSE setter[q][j]
    <3>1. setter' = [setter EXCEPT ![p][asked[p]] = new] /\ new \in Setters /\ SettersOK
      BY <2>1, <2>2 DEF TypeOK
    <3>2. asked[p] \in 1..MaxQueries
      BY <1>0
    <3> QED
      BY ONLY <3>1, <3>2, SetterUpdate, p \in Procs
  <2>5. ASSUME NEW q \in Procs, NEW j \in 1..MaxQueries, setter'[q][j].st # "none"
        PROVE  setter'[q][j].val \in Seq(OwnRows(setter'[q][j].key[1]))
    <3>1. CASE q = p /\ j = asked[p]
      BY <1>0, <2>3, <2>4, <3>1
    <3>2. CASE ~(q = p /\ j = asked[p])
      BY <2>4, <2>5, <3>2 DEF SettersOwn
    <3> QED
      BY <3>1, <3>2
  <2> QED
    BY <2>5 DEF SettersOwn, OwnRows
<1> QED
  BY <1>1, <1>2, <1>3 DEF ProcsOwn, ProcOwn

LEMMA ShowProvenance ==
  ASSUME NEW p \in Procs, TypeOK, Provenance, Show(p)
  PROVE  Provenance'
<1> USE FoldType, KeyType DEF Provenance, Show, files, session, locals, traces, Goto
<1>1. FilesOwn'
  BY FilesOwnKept
<1>2. ASSUME NEW q \in Procs PROVE ProcOwn(q)'
  <2>1. CASE q = p
    BY <2>1 DEF ProcsOwn, ProcOwn, Answered, TypeOK, ProcsOK, OwnRows
  <2>2. CASE q # p
    BY <2>2, ProcOwnKept DEF TypeOK, ProcsOK
  <2> QED
    BY <2>1, <2>2
<1>3. SettersOwn'
  BY SettersOwnKept
<1> QED
  BY <1>1, <1>2, <1>3 DEF ProcsOwn, ProcOwn

LEMMA ExitProvenance ==
  ASSUME NEW p \in Procs, TypeOK, Provenance, Exit(p)
  PROVE  Provenance'
<1> USE FoldType, KeyType DEF Provenance, Exit, files, session, locals, traces, Goto
<1>1. FilesOwn'
  BY FilesOwnKept
<1>2. ASSUME NEW q \in Procs PROVE ProcOwn(q)'
  <2>1. CASE q = p
    BY <2>1 DEF ProcsOwn, ProcOwn, Answered, TypeOK, ProcsOK, OwnRows
  <2>2. CASE q # p
    BY <2>2, ProcOwnKept DEF TypeOK, ProcsOK
  <2> QED
    BY <2>1, <2>2
<1>3. SettersOwn'
  <2>1. ASSUME NEW q \in Procs, NEW j \in 1..MaxQueries
        PROVE  setter'[q][j] = IF q = p THEN NoSetter ELSE setter[q][j]
    BY DEF TypeOK, SettersOK
  <2>2. NoSetter.st = "none"
    BY DEF NoSetter
  <2> QED
    BY <2>1, <2>2, SettersOwnKept
<1> QED
  BY <1>1, <1>2, <1>3 DEF ProcsOwn, ProcOwn

LEMMA SetCreateProvenance ==
  ASSUME NEW p \in Procs, NEW i \in 1..MaxQueries, TypeOK, Provenance, SetCreate(p, i)
  PROVE  Provenance'
<1> USE FoldType, KeyType DEF Provenance, SetCreate, files, session, locals, traces, Goto
<1> DEFINE w == setter[p][i]
           new == [w EXCEPT !.st = "open", !.linked = TRUE]
           file == [rows |-> <<>>, mtime |-> now]
<1>0. /\ w.key \in Keys /\ w.st # "none"
      /\ new \in Setters /\ new.key = w.key /\ new.val = w.val
      /\ setter' = [setter EXCEPT ![p][i] = new]
      /\ cacheFile' = [cacheFile EXCEPT ![w.key] = file]
      /\ file.rows = <<>>
  <2>1. w \in Setters /\ SetterOK(w) /\ w.st = "ready"
    BY SetterType DEF TypeOK
  <2> QED
    BY <2>1 DEF Setters, SetterOK
<1> HIDE DEF new, file
<1>1. FilesOwn'
  <2>1. ASSUME NEW k \in Keys, Exists(k)'
        PROVE  cacheFile'[k].rows \in Seq(OwnRows(k[1]))
    <3>1. CASE k = w.key
      <4>1. cacheFile'[k].rows = <<>>
        BY <1>0, <3>1 DEF TypeOK, FilesOK
      <4> QED
        BY <4>1, EmptySeq
    <3>2. CASE k # w.key
      BY <1>0, <2>1, <3>2 DEF FilesOwn, Exists, TypeOK, FilesOK
    <3> QED
      BY <3>1, <3>2
  <2>2. ASSUME NEW f \in Folds, tmpFile'[f] # NoFile
        PROVE  tmpFile'[f] \in Seq(OwnRows(f))
    BY <2>2 DEF FilesOwn
  <2> QED
    BY <2>1, <2>2 DEF FilesOwn, OwnRows
<1>2. ASSUME NEW q \in Procs PROVE ProcOwn(q)'
  <2>1. CASE q = p
    BY <2>1 DEF ProcsOwn, ProcOwn, Answered, TypeOK, ProcsOK, OwnRows
  <2>2. CASE q # p
    BY <2>2, ProcOwnKept DEF TypeOK, ProcsOK
  <2> QED
    BY <2>1, <2>2
<1>3. SettersOwn'
  <2>2. \A q \in Procs, j \in 1..MaxQueries :
          setter'[q][j] = IF q = p /\ j = i THEN new ELSE setter[q][j]
    <3>1. setter' = [setter EXCEPT ![p][i] = new] /\ new \in Setters /\ SettersOK
      BY <1>0 DEF TypeOK
    <3> QED
      BY ONLY <3>1, SetterUpdate, p \in Procs, i \in 1..MaxQueries
  <2> QED
    BY <1>0, <2>2, SettersOwnKept
<1> QED
  BY <1>1, <1>2, <1>3 DEF ProcsOwn, ProcOwn

LEMMA SetWriteProvenance ==
  ASSUME NEW p \in Procs, NEW i \in 1..MaxQueries, TypeOK, Provenance, SetWrite(p, i)
  PROVE  Provenance'
<1> USE FoldType, KeyType DEF Provenance, SetWrite, files, session, locals, traces, Goto
<1> DEFINE w == setter[p][i]
           new == [w EXCEPT !.pos = w.pos + 1]
           rows == WriteAt(cacheFile[w.key].rows, w.pos + 1, w.val[w.pos + 1])
<1>0. /\ w \in Setters /\ w.key \in Keys /\ w.st # "none" /\ SetterOK(w)
      /\ w.pos < Len(w.val)
      /\ new \in Setters /\ new.key = w.key /\ new.val = w.val
      /\ setter' = [setter EXCEPT ![p][i] = new]
  <2>1. w \in Setters /\ SetterOK(w) /\ w.st = "open" /\ w.pos < Len(w.val)
    BY SetterType DEF TypeOK
  <2>2. w.key \in Keys /\ w.pos + 1 \in Nat
    BY <2>1 DEF Setters, SetterOK
  <2>3. new \in Setters /\ new.key = w.key /\ new.val = w.val
    BY <2>1, <2>2 DEF Setters
  <2>4. setter' = [setter EXCEPT ![p][i] = new]
    OBVIOUS
  <2> HIDE DEF new
  <2> QED
    BY <2>1, <2>2, <2>3, <2>4
<1>5. ASSUME w.linked
      PROVE  /\ rows \in Seq(OwnRows(w.key[1]))
             /\ cacheFile' = [cacheFile EXCEPT ![w.key] = [rows |-> rows, mtime |-> now]]
  <2>1. cacheFile[w.key].rows \in Seq(OwnRows(w.key[1]))
    BY <1>0, <1>5 DEF FilesOwn, SetterOK
  <2>2. w.val \in Seq(OwnRows(w.key[1]))
    BY <1>0 DEF SettersOwn
  <2>3. w.pos \in Nat
    BY <1>0 DEF Setters
  <2>4. w.pos + 1 \in 1..Len(w.val) /\ w.pos + 1 \in Nat \ {0}
    BY <1>0, <2>2, <2>3, LenProperties
  <2>5. w.val[w.pos + 1] \in OwnRows(w.key[1]) /\ Hole \in OwnRows(w.key[1])
    BY <2>2, <2>4, ElementOfSeq DEF OwnRows
  <2>6. rows \in Seq(OwnRows(w.key[1]))
    BY <2>1, <2>4, <2>5, WriteAtType
  <2> QED
    BY <1>5, <2>6
<1> HIDE DEF new, rows
<1>1. FilesOwn'
  <2>1. ASSUME NEW k \in Keys, Exists(k)'
        PROVE  cacheFile'[k].rows \in Seq(OwnRows(k[1]))
    <3>1. CASE w.linked /\ k = w.key
      BY <1>0, <1>5, <3>1 DEF TypeOK, FilesOK
    <3>2. CASE ~(w.linked /\ k = w.key)
      <4>1. cacheFile'[k] = cacheFile[k]
        BY <1>0, <1>5, <3>2 DEF TypeOK, FilesOK
      <4> QED
        BY <2>1, <4>1 DEF FilesOwn, Exists
    <3> QED
      BY <3>1, <3>2
  <2>2. ASSUME NEW f \in Folds, tmpFile'[f] # NoFile
        PROVE  tmpFile'[f] \in Seq(OwnRows(f))
    BY <2>2 DEF FilesOwn
  <2> QED
    BY <2>1, <2>2 DEF FilesOwn, OwnRows
<1>2. ASSUME NEW q \in Procs PROVE ProcOwn(q)'
  <2>1. CASE q = p
    BY <2>1 DEF ProcsOwn, ProcOwn, Answered, TypeOK, ProcsOK, OwnRows
  <2>2. CASE q # p
    BY <2>2, ProcOwnKept DEF TypeOK, ProcsOK
  <2> QED
    BY <2>1, <2>2
<1>3. SettersOwn'
  <2>2. \A q \in Procs, j \in 1..MaxQueries :
          setter'[q][j] = IF q = p /\ j = i THEN new ELSE setter[q][j]
    <3>1. setter' = [setter EXCEPT ![p][i] = new] /\ new \in Setters /\ SettersOK
      BY <1>0 DEF TypeOK
    <3> QED
      BY ONLY <3>1, SetterUpdate, p \in Procs, i \in 1..MaxQueries
  <2> QED
    BY <1>0, <2>2, SettersOwnKept
<1> QED
  BY <1>1, <1>2, <1>3 DEF ProcsOwn, ProcOwn

LEMMA SetDoneProvenance ==
  ASSUME NEW p \in Procs, NEW i \in 1..MaxQueries, TypeOK, Provenance, SetDone(p, i)
  PROVE  Provenance'
<1> USE FoldType, KeyType DEF Provenance, SetDone, files, session, locals, traces, Goto
<1>1. FilesOwn'
  BY FilesOwnKept
<1>2. ASSUME NEW q \in Procs PROVE ProcOwn(q)'
  <2>1. CASE q = p
    BY <2>1 DEF ProcsOwn, ProcOwn, Answered, TypeOK, ProcsOK, OwnRows
  <2>2. CASE q # p
    BY <2>2, ProcOwnKept DEF TypeOK, ProcsOK
  <2> QED
    BY <2>1, <2>2
<1>3. SettersOwn'
  <2>1. NoSetter \in Setters
    BY EmptyRows DEF NoSetter, Setters
  <2>2. \A q \in Procs, j \in 1..MaxQueries :
          setter'[q][j] = IF q = p /\ j = i THEN NoSetter ELSE setter[q][j]
    <3>1. setter' = [setter EXCEPT ![p][i] = NoSetter] /\ SettersOK
      BY DEF TypeOK
    <3> QED
      BY ONLY <2>1, <3>1, SetterUpdate, p \in Procs, i \in 1..MaxQueries
  <2>3. NoSetter.st = "none"
    BY DEF NoSetter
  <2> QED
    BY <2>2, <2>3, SettersOwnKept
<1> QED
  BY <1>1, <1>2, <1>3 DEF ProcsOwn, ProcOwn

LEMMA SetFailsProvenance ==
  ASSUME NEW p \in Procs, NEW i \in 1..MaxQueries, TypeOK, Provenance, SetFails(p, i)
  PROVE  Provenance'
<1> USE FoldType, KeyType DEF Provenance, SetFails, files, session, locals, traces, Goto
<1>1. FilesOwn'
  BY FilesOwnKept
<1>2. ASSUME NEW q \in Procs PROVE ProcOwn(q)'
  <2>1. CASE q = p
    BY <2>1 DEF ProcsOwn, ProcOwn, Answered, TypeOK, ProcsOK, OwnRows
  <2>2. CASE q # p
    BY <2>2, ProcOwnKept DEF TypeOK, ProcsOK
  <2> QED
    BY <2>1, <2>2
<1>3. SettersOwn'
  <2>1. NoSetter \in Setters
    BY EmptyRows DEF NoSetter, Setters
  <2>2. \A q \in Procs, j \in 1..MaxQueries :
          setter'[q][j] = IF q = p /\ j = i THEN NoSetter ELSE setter[q][j]
    <3>1. setter' = [setter EXCEPT ![p][i] = NoSetter] /\ SettersOK
      BY DEF TypeOK
    <3> QED
      BY ONLY <2>1, <3>1, SetterUpdate, p \in Procs, i \in 1..MaxQueries
  <2>3. NoSetter.st = "none"
    BY DEF NoSetter
  <2> QED
    BY <2>2, <2>3, SettersOwnKept
<1> QED
  BY <1>1, <1>2, <1>3 DEF ProcsOwn, ProcOwn

LEMMA ProvenanceNext == TypeOK /\ Provenance /\ [Next]_vars => Provenance'
<1> SUFFICES ASSUME TypeOK, Provenance, [Next]_vars PROVE Provenance'
  OBVIOUS
<1>1. ASSUME NEW p \in Procs, Start(p) PROVE Provenance'
  BY <1>1, StartProvenance
<1>2. ASSUME NEW p \in Procs, NEW t \in Texts, Ask(p, t) PROVE Provenance'
  BY <1>2, AskProvenance
<1>3. ASSUME NEW p \in Procs, ListCache(p) PROVE Provenance'
  BY <1>3, ListCacheProvenance
<1>4. ASSUME NEW p \in Procs, PurgeNext(p) PROVE Provenance'
  BY <1>4, PurgeNextProvenance
<1>5. ASSUME NEW p \in Procs, RemoveFile(p) PROVE Provenance'
  BY <1>5, RemoveFileProvenance
<1>6. ASSUME NEW p \in Procs, PurgeDone(p) PROVE Provenance'
  BY <1>6, PurgeDoneProvenance
<1>7. ASSUME NEW p \in Procs, Connect(p) PROVE Provenance'
  BY <1>7, ConnectProvenance
<1>8. ASSUME NEW p \in Procs, Fail(p) PROVE Provenance'
  BY <1>8, FailProvenance
<1>9. ASSUME NEW p \in Procs, StatCache(p) PROVE Provenance'
  BY <1>9, StatCacheProvenance
<1>10. ASSUME NEW p \in Procs, ReadCache(p) PROVE Provenance'
  BY <1>10, ReadCacheProvenance
<1>11. ASSUME NEW p \in Procs, CallApi(p) PROVE Provenance'
  BY <1>11, CallApiProvenance
<1>12. ASSUME NEW p \in Procs, CreateTmp(p) PROVE Provenance'
  BY <1>12, CreateTmpProvenance
<1>13. ASSUME NEW p \in Procs, CopyRow(p) PROVE Provenance'
  BY <1>13, CopyRowProvenance
<1>14. ASSUME NEW p \in Procs, CopyDone(p) PROVE Provenance'
  BY <1>14, CopyDoneProvenance
<1>15. ASSUME NEW p \in Procs, ParseTmp(p) PROVE Provenance'
  BY <1>15, ParseTmpProvenance
<1>16. ASSUME NEW p \in Procs, Show(p) PROVE Provenance'
  BY <1>16, ShowProvenance
<1>17. ASSUME NEW p \in Procs, Exit(p) PROVE Provenance'
  BY <1>17, ExitProvenance
<1>18. ASSUME NEW p \in Procs, NEW i \in 1..MaxQueries, SetCreate(p, i) PROVE Provenance'
  BY <1>18, SetCreateProvenance
<1>19. ASSUME NEW p \in Procs, NEW i \in 1..MaxQueries, SetWrite(p, i) PROVE Provenance'
  BY <1>19, SetWriteProvenance
<1>20. ASSUME NEW p \in Procs, NEW i \in 1..MaxQueries, SetDone(p, i) PROVE Provenance'
  BY <1>20, SetDoneProvenance
<1>23. ASSUME NEW p \in Procs, NEW i \in 1..MaxQueries, SetFails(p, i) PROVE Provenance'
  BY <1>23, SetFailsProvenance
<1>21. CASE Tick
  <2>1. \A q \in Procs : ProcOwn(q)'
    BY <1>21, ProcOwnKept DEF Tick, Provenance, files, session, locals, traces
  <2> QED
    BY <1>21, <2>1, FilesOwnKept, SettersOwnKept
    DEF Tick, Provenance, ProcsOwn, ProcOwn, files, session, locals, traces
<1>22. CASE UNCHANGED vars
  <2>1. \A q \in Procs : ProcOwn(q)'
    BY <1>22, ProcOwnKept DEF vars, Provenance, files, session, locals, traces
  <2> QED
    BY <1>22, <2>1, FilesOwnKept, SettersOwnKept
    DEF vars, Provenance, ProcsOwn, ProcOwn, files, session, locals, traces
<1> QED
  BY <1>1, <1>2, <1>3, <1>4, <1>5, <1>6, <1>7, <1>8, <1>9, <1>10, <1>11, <1>12, <1>13, <1>14, <1>15, <1>16, <1>17, <1>18, <1>19, <1>20, <1>23, <1>21, <1>22 DEF Next, Work, Save

LEMMA ProvenanceInit == Init => Provenance
  BY DEF Init, Provenance, FilesOwn, ProcsOwn, SettersOwn, Exists, Answered, NoSetter

(* Rows never leave the queries they were issued for.                        *)
THEOREM ProvenanceHolds == Spec => []Provenance
<1>1. TypeOK /\ Provenance /\ [Next]_vars => Provenance'
  BY ProvenanceNext
<1> QED
  BY <1>1, ProvenanceInit, TypeCorrect, PTL DEF Spec

(* The promise about answers follows.                                        *)
LEMMA ProvenanceGivesFold == Provenance => AnswerMatchesFold
<1> SUFFICES ASSUME Provenance, NEW p \in Procs, Answered(p), NEW r \in AnswerRows(p)
             PROVE  r \in issued /\ Fold[r.text] = Fold[shown[p].text]
  BY DEF AnswerMatchesFold
<1>1. shown[p].rows \in Seq(OwnRows(Fold[shown[p].text]))
  BY DEF Provenance, ProcsOwn
<1>2. PICK i \in DOMAIN shown[p].rows : r = shown[p].rows[i]
  BY DEF AnswerRows
<1>3. r \in OwnRows(Fold[shown[p].text])
  BY <1>1, <1>2, ElementOfSeq, LenProperties
<1> QED
  BY <1>3 DEF OwnRows, AnswerRows

(* An answer only holds rows that were issued for its query, letter case     *)
(* aside, whatever the processes, goroutines and purges do.                  *)
THEOREM AnswersMatchFold == Spec => []AnswerMatchesFold
  BY ProvenanceHolds, ProvenanceGivesFold, PTL

(* The API issues a report for the account of the process that asks.         *)
IssuedForAProc == \A r \in issued : \E q \in Procs : r.acct = AccountOf[q]

LEMMA IssuedInvariant == Spec => []IssuedForAProc
<1>1. Init => IssuedForAProc
  BY DEF Init, IssuedForAProc
<1>2. IssuedForAProc /\ [Next]_vars => IssuedForAProc'
  <2> SUFFICES ASSUME IssuedForAProc, [Next]_vars PROVE IssuedForAProc'
    OBVIOUS
  <2>1. CASE UNCHANGED issued
    BY <2>1 DEF IssuedForAProc
  <2>2. ASSUME NEW p \in Procs, CallApi(p) PROVE IssuedForAProc'
    BY <2>2 DEF IssuedForAProc, CallApi
  <2>3. ASSUME NEW p \in Procs, Work(p) PROVE UNCHANGED issued \/ CallApi(p)
    BY <2>3 DEF Work, ListCache, PurgeNext, RemoveFile, Unlinked, GivesUp, PurgeDone, Connect, StatCache,
               ReadCache, CreateTmp, CopyRow, CopyDone, ParseTmp, Show
  <2>4. ASSUME NEW p \in Procs, NEW i \in 1..MaxQueries, Save(p, i) PROVE UNCHANGED issued
    BY <2>4 DEF Save, SetCreate, SetWrite, SetDone, SetFails
  <2>5. ASSUME NEW p \in Procs, Start(p) \/ Fail(p) \/ Exit(p) \/ \E t \in Texts : Ask(p, t)
        PROVE  UNCHANGED issued
    BY <2>5 DEF Start, Fail, Exit, Ask
  <2>6. CASE Tick \/ UNCHANGED vars
    BY <2>1, <2>6 DEF Tick, vars
  <2> QED
    BY <2>1, <2>2, <2>3, <2>4, <2>5, <2>6 DEF Next
<1> QED
  BY <1>1, <1>2, PTL DEF Spec

(* With one account, and queries that the lower-cased hash tells apart, an   *)
(* answer is about the query that was asked and the account it was asked for. *)
THEOREM AnswersMatchQuery == Spec => []AnswerMatchesQuery
<1>1. AnswerMatchesFold /\ IssuedForAProc /\ TypeOK => AnswerMatchesQuery
  <2> SUFFICES ASSUME AnswerMatchesFold, IssuedForAProc, TypeOK, FoldInjective, OneAccount,
                      NEW p \in Procs, Answered(p), NEW r \in AnswerRows(p)
               PROVE  r.text = shown[p].text /\ r.acct = AccountOf[p]
    BY DEF AnswerMatchesQuery
  <2>1. r \in issued /\ Fold[r.text] = Fold[shown[p].text]
    BY DEF AnswerMatchesFold
  <2>2. r.text \in Texts /\ shown[p].text \in Texts
    BY <2>1 DEF TypeOK, FilesOK, Reports, ProcsOK, Answers, Answered
  <2> QED
    BY <2>1, <2>2 DEF FoldInjective, OneAccount, IssuedForAProc
<1> QED
  BY <1>1, AnswersMatchFold, IssuedInvariant, TypeCorrect, PTL

(* Refinement: every step is a step of the abstract service or a stutter.    *)
LEMMA PhaseStep ==
  ASSUME ProcsOK, NEW p \in Procs, NEW l \in States, Goto(p, l)
  PROVE  phase' = [phase EXCEPT ![p] = IF l \in {"off", "idle"} THEN l ELSE "busy"]
  BY DEF Goto, phase, ProcsOK

(* Between a query and its answer the abstract service does not move, but    *)
(* when the API issues a report.                                             *)
LEMMA QuietStep ==
  ASSUME TypeOK, NEW p \in Procs, Work(p), ~CallApi(p), ~Show(p)
  PROVE  UNCHANGED Service!svars
<1>1. UNCHANGED <<now, issued, life, asked, text, shown>>
  BY DEF Work, ListCache, PurgeNext, RemoveFile, Unlinked, GivesUp, PurgeDone, Connect, StatCache, ReadCache, CreateTmp, CopyRow, CopyDone, ParseTmp, session, locals, traces
<1>2. pc[p] \in Asking /\ pc'[p] \in Asking
      /\ \A q \in Procs : q # p => pc'[q] = pc[q]
  BY DEF Work, ListCache, PurgeNext, RemoveFile, Unlinked, GivesUp, PurgeDone, Connect, StatCache, ReadCache, CreateTmp, CopyRow, CopyDone, ParseTmp,
         Goto, TypeOK, ProcsOK, Asking
<1>3. phase' = phase
  BY <1>2 DEF phase, Asking
<1> QED
  BY <1>1, <1>3 DEF Service!svars

LEMMA StepRefines ==
  TypeOK /\ Provenance /\ [Next]_vars => [Service!Next]_(Service!svars)
<1> SUFFICES ASSUME TypeOK, Provenance, [Next]_vars
             PROVE  Service!Next \/ UNCHANGED Service!svars
  OBVIOUS
<1> USE DEF files, session, locals, traces
<1>1. ASSUME NEW p \in Procs, Start(p) PROVE Service!Start(p)
  <2>1. phase[p] = "off"
    BY <1>1 DEF Start, phase
  <2>2. phase' = [phase EXCEPT ![p] = "idle"]
    BY <1>1, PhaseStep DEF Start, TypeOK, States
  <2> QED
    BY <1>1, <2>1, <2>2 DEF Start, Service!Start
<1>2. ASSUME NEW p \in Procs, NEW t \in Texts, Ask(p, t) PROVE Service!Ask(p, t)
  <2>1. phase[p] = "idle"
    BY <1>2 DEF Ask, phase
  <2>2. phase' = [phase EXCEPT ![p] = "busy"]
    <3>1. CASE Goto(p, "stat")
      BY <3>1, PhaseStep DEF TypeOK, States, Asking
    <3>2. CASE Goto(p, "list")
      BY <3>2, PhaseStep DEF TypeOK, States, Asking
    <3> QED
      BY <1>2, <3>1, <3>2 DEF Ask
  <2> QED
    BY <1>2, <2>1, <2>2 DEF Ask, Service!Ask
<1>3. ASSUME NEW p \in Procs, CallApi(p) PROVE Service!Issue(p)
  <2>1. phase[p] = "busy"
    BY <1>3 DEF CallApi, phase
  <2>2. phase' = phase
    BY <1>3 DEF CallApi, phase, Goto, TypeOK, ProcsOK
  <2> QED
    BY <1>3, <2>1, <2>2 DEF CallApi, Service!Issue
<1>4. ASSUME NEW p \in Procs, Show(p) PROVE Service!Answer(p)
  <2> DEFINE a == [text |-> text[p], rows |-> got[p], hit |-> hit[p], at |-> now,
                   by |-> <<p, life[p]>>]
  <2>1. phase[p] = "busy"
    BY <1>4 DEF Show, phase
  <2>2. phase' = [phase EXCEPT ![p] = "idle"]
    BY <1>4, PhaseStep DEF Show, TypeOK, States
  <2>3. a.rows \in Seq(Service!Fit(text[p])) /\ a.hit \in BOOLEAN
    <3>1. OwnRows(Fold[text[p]]) = Service!Fit(text[p])
      BY DEF OwnRows, Service!Fit
    <3> QED
      BY <1>4, <3>1 DEF Show, Provenance, ProcsOwn, TypeOK, ProcsOK
  <2>4. a \in Answers
    BY <1>4 DEF Answers, ProcsOK, PlaceOK, Asking, FilesOK, TypeOK, Show
  <2>5. a # NoAnswer
    BY <2>4, AbsentAssumption
  <2>6. shown' = [shown EXCEPT ![p] = a] /\ shown'[p] = a
    BY <1>4 DEF Show, TypeOK, ProcsOK
  <2>7. a.text = text[p] /\ a.at = now /\ a.by = <<p, life[p]>>
    OBVIOUS
  <2>8. UNCHANGED <<now, issued, life, asked, text>>
    BY <1>4 DEF Show
  <2> HIDE DEF a
  <2> QED
    BY <2>1, <2>2, <2>3, <2>5, <2>6, <2>7, <2>8 DEF Service!Answer
<1>5. ASSUME NEW p \in Procs, Fail(p) PROVE Service!Fail(p)
  <2>1. phase[p] = "busy"
    BY <1>5 DEF Fail, phase
  <2>2. phase' = [phase EXCEPT ![p] = "idle"]
    BY <1>5, PhaseStep DEF Fail, TypeOK, States
  <2> QED
    BY <1>5, <2>1, <2>2 DEF Fail, Service!Fail
<1>6. ASSUME NEW p \in Procs, Exit(p) PROVE Service!Exit(p)
  <2>1. phase[p] # "off"
    BY <1>6 DEF Exit, phase, TypeOK, ProcsOK
  <2>2. phase' = [phase EXCEPT ![p] = "off"]
    BY <1>6, PhaseStep DEF Exit, TypeOK, States
  <2> QED
    BY <1>6, <2>1, <2>2 DEF Exit, Service!Exit
<1>7. ASSUME NEW p \in Procs, NEW i \in 1..MaxQueries, Save(p, i)
      PROVE  UNCHANGED Service!svars
  BY <1>7 DEF Save, SetCreate, SetWrite, SetDone, SetFails, phase, Service!svars
<1>8. CASE Tick
  <2>1. Service!Tick
    BY <1>8 DEF Tick, phase, Service!Tick
  <2> QED
    BY <2>1 DEF Service!Next
<1>9. CASE UNCHANGED vars
  BY <1>9 DEF vars, phase, Service!svars
<1>10. ASSUME NEW p \in Procs, Work(p)
       PROVE  Service!Next \/ UNCHANGED Service!svars
  BY <1>3, <1>4, <1>10, QuietStep DEF Service!Next
<1> QED
  BY <1>1, <1>2, <1>5, <1>6, <1>7, <1>8, <1>9, <1>10 DEF Next, Service!Next

(* The files, purges and goroutines implement the abstract service.          *)
THEOREM RefinesService == Spec => ImplementsService
<1>1. Init => Service!Init
  BY DEF Init, Service!Init, phase
<1>2. TypeOK /\ Provenance /\ [Next]_vars => [Service!Next]_(Service!svars)
  BY StepRefines
<1> QED
  BY <1>1, <1>2, TypeCorrect, ProvenanceHolds, PTL DEF Spec, ImplementsService, Service!Spec

----------------------------------------------------------------------------
(* One process at a time, however often the tool is started and whatever its *)
(* goroutines do.                                                            *)

(* What a write of one row leaves of a file.                                 *)
LEMMA Written ==
  ASSUME NEW s \in Rows, NEW i \in Nat \ {0}, NEW r \in Reports \cup {Hole}
  PROVE  /\ WriteAt(s, i, r) \in Rows
         /\ Len(WriteAt(s, i, r)) = IF i > Len(s) THEN i ELSE Len(s)
         /\ \A j \in 1..Len(WriteAt(s, i, r)) :
              WriteAt(s, i, r)[j] = IF j = i THEN r ELSE IF j <= Len(s) THEN s[j] ELSE Hole
<1>1. /\ WriteAt(s, i, r) \in Seq(Reports \cup {Hole})
      /\ Len(WriteAt(s, i, r)) = IF i > Len(s) THEN i ELSE Len(s)
  BY WriteAtType DEF Rows
<1>2. \A j \in 1..(IF i > Len(s) THEN i ELSE Len(s)) :
        WriteAt(s, i, r)[j] = IF j = i THEN r ELSE IF j <= Len(s) THEN s[j] ELSE Hole
  BY DEF WriteAt
<1> QED
  BY <1>1, <1>2 DEF Rows

AloneInv == \A p, q \in Procs : pc[p] # "off" /\ pc[q] # "off" => p = q

(* The report that process p has asked for in this life, and its rows. *)
OfRun(r, p) == r \in issued /\ r.by = <<p, life[p]>> /\ r.text = text[p]
WholeRun(s, p) == \E r \in Reports : OfRun(r, p) /\ s = Whole(r)

(* The report on its way from the API to Show.                               *)
CopyAt(p) ==
  /\ pc[p] \in {"create", "copy"} => OfRun(resp[p], p)
  /\ pc[p] = "copy" => tmpFile[Fold[text[p]]] = [i \in 1..pos[p] |-> resp[p]]
  /\ pc[p] = "parse" => WholeRun(tmpFile[Fold[text[p]]], p)
  /\ pc[p] = "show" /\ ~hit[p] => WholeRun(got[p], p)
  /\ Answered(p) /\ ~shown[p].hit =>
       \E r \in issued : /\ r.by = shown[p].by /\ r.text = shown[p].text
                         /\ shown[p].rows = Whole(r)

CopyInv == \A p \in Procs : CopyAt(p)

StepOf(p) == Start(p) \/ Work(p) \/ Fail(p) \/ Exit(p) \/ \E t \in Texts : Ask(p, t)
Quiet == Tick \/ \E p \in Procs, i \in 1..MaxQueries : Save(p, i)

LEMMA StepCases == [Next]_vars => (\E p \in Procs : StepOf(p)) \/ Quiet \/ UNCHANGED vars
  BY DEF Next, StepOf, Quiet

(* Nothing of another process changes.                                       *)
LEMMA OthersStay ==
  ASSUME TypeOK, NEW p \in Procs, StepOf(p), NEW q \in Procs, q # p
  PROVE  /\ pc'[q] = pc[q] /\ life'[q] = life[q] /\ text'[q] = text[q]
         /\ conn'[q] = conn[q] /\ todo'[q] = todo[q] /\ victim'[q] = victim[q]
         /\ resp'[q] = resp[q] /\ pos'[q] = pos[q] /\ got'[q] = got[q]
         /\ hit'[q] = hit[q] /\ shown'[q] = shown[q] /\ spared'[q] = spared[q]
<1> USE DEF TypeOK, ProcsOK, files, session, locals, traces, Goto
<1>1. CASE Start(p)
  BY <1>1 DEF Start
<1>2. CASE \E t \in Texts : Ask(p, t)
  BY <1>2 DEF Ask
<1>3. CASE ListCache(p) \/ PurgeNext(p) \/ RemoveFile(p) \/ PurgeDone(p) \/ Connect(p)
  BY <1>3 DEF ListCache, PurgeNext, RemoveFile, Unlinked, GivesUp, PurgeDone, Connect
<1>4. CASE StatCache(p) \/ ReadCache(p) \/ CallApi(p) \/ CreateTmp(p) \/ CopyRow(p)
  BY <1>4 DEF StatCache, ReadCache, CallApi, CreateTmp, CopyRow
<1>5. CASE CopyDone(p) \/ ParseTmp(p) \/ Show(p)
  BY <1>5 DEF CopyDone, ParseTmp, Show
<1>6. CASE Fail(p) \/ Exit(p)
  BY <1>6 DEF Fail, Exit
<1> QED
  BY <1>1, <1>2, <1>3, <1>4, <1>5, <1>6 DEF StepOf, Work

(* Goroutines and the clock leave the processes and the report files alone.  *)
LEMMA QuietStays ==
  ASSUME Quiet
  PROVE  UNCHANGED <<tmpFile, issued, pc, session, locals, spared, shown>>
  BY DEF Quiet, Tick, Save, SetCreate, SetWrite, SetDone, SetFails, files, traces

(* A report stays issued.                                                    *)
LEMMA IssuedStay ==
  ASSUME NEW p \in Procs, StepOf(p) PROVE issued \subseteq issued'
  BY DEF StepOf, Work, Start, Ask, Fail, Exit, ListCache, PurgeNext, RemoveFile, Unlinked, GivesUp, PurgeDone,
     Connect, StatCache, ReadCache, CallApi, CreateTmp, CopyRow, CopyDone, ParseTmp, Show

----------------------------------------------------------------------------
LEMMA AloneInit == Init => AloneInv
  BY DEF Init, AloneInv

LEMMA OneOrNone ==
  ASSUME AloneInv, NEW p \in Procs, pc[p] # "off"
  PROVE  IsFiniteSet(Live) /\ Cardinality(Live) = 1
<1>1. Live = {p}
  BY DEF AloneInv, Live
<1> QED
  BY <1>1, FS_Singleton

LEMMA AloneNext ==
  ASSUME MaxLive = 1, TypeOK, AloneInv, [Next]_vars PROVE AloneInv'
<1>1. ASSUME NEW p \in Procs, StepOf(p) PROVE AloneInv'
  <2>1. \A q \in Procs : q # p => pc'[q] = pc[q]
    BY <1>1, OthersStay
  <2>2. \A q \in Procs : q # p => pc[q] = "off"
    <3>1. CASE pc[p] # "off"
      BY <3>1 DEF AloneInv
    <3>2. CASE pc[p] = "off"
      <4>1. Start(p)
        BY <1>1, <3>2 DEF StepOf, Work, Ask, Fail, Exit, ListCache, PurgeNext, RemoveFile, Unlinked, GivesUp, PurgeDone,
             Connect, StatCache, ReadCache, CallApi, CreateTmp, CopyRow, CopyDone, ParseTmp, Show
      <4>2. Cardinality(Live) < 1
        BY <4>1 DEF Start
      <4> QED
        BY <4>2, OneOrNone
    <3> QED
      BY <3>1, <3>2
  <2> QED
    BY <2>1, <2>2 DEF AloneInv
<1>2. CASE Quiet
  BY <1>2, QuietStays DEF AloneInv
<1>3. CASE UNCHANGED vars
  BY <1>3 DEF AloneInv, vars
<1> QED
  BY <1>1, <1>2, <1>3, StepCases

----------------------------------------------------------------------------
LEMMA CopyInit == Init => CopyInv
  BY DEF Init, CopyInv, CopyAt, Answered

(* Nobody else writes the report file of a process.                          *)
LEMMA CopyStays ==
  ASSUME NEW q \in Procs, CopyAt(q), pc'[q] = pc[q], life'[q] = life[q], text'[q] = text[q],
         resp'[q] = resp[q], pos'[q] = pos[q], got'[q] = got[q], hit'[q] = hit[q],
         shown'[q] = shown[q], pc[q] = "off" \/ UNCHANGED tmpFile, issued \subseteq issued'
  PROVE  CopyAt(q)'
  BY DEF CopyAt, OfRun, WholeRun, Whole, Answered

LEMMA CopyOthers ==
  ASSUME TypeOK, AloneInv, CopyInv, NEW p \in Procs, StepOf(p), NEW q \in Procs, q # p
  PROVE  CopyAt(q)'
<1>1. CASE pc[p] # "off"
  <2>1. pc[q] = "off"
    BY <1>1 DEF AloneInv
  <2> QED
    BY <2>1, OthersStay, IssuedStay, CopyStays DEF CopyInv
<1>2. CASE pc[p] = "off"
  <2>1. UNCHANGED tmpFile
    BY <1>2 DEF StepOf, Work, Start, Ask, Fail, Exit, ListCache, PurgeNext, RemoveFile, Unlinked, GivesUp, PurgeDone,
         Connect, StatCache, ReadCache, CallApi, CreateTmp, CopyRow, CopyDone, ParseTmp, Show, files
  <2> QED
    BY <2>1, OthersStay, IssuedStay, CopyStays DEF CopyInv
<1> QED
  BY <1>1, <1>2

(* From the API to Show: the whole report, and nothing else.                 *)
LEMMA CallApiCopy ==
  ASSUME TypeOK, NEW p \in Procs, CopyAt(p), CallApi(p) PROVE CopyAt(p)'
<1>1. pc'[p] = "create" /\ UNCHANGED <<text, life, shown>>
  BY DEF TypeOK, ProcsOK, CallApi, session, Goto
<1>2. OfRun(resp[p], p)'
  BY DEF TypeOK, ProcsOK, CallApi, session, OfRun
<1>3. issued \subseteq issued'
  BY DEF CallApi
<1> QED
  BY <1>1, <1>2, <1>3 DEF CopyAt, Answered, Whole

LEMMA CreateTmpCopy ==
  ASSUME TypeOK, NEW p \in Procs, CopyAt(p), CreateTmp(p) PROVE CopyAt(p)'
<1>1. pc[p] = "create" /\ text[p] \in Texts /\ Fold[text[p]] \in Folds
  BY FoldType DEF TypeOK, PlaceOK, Asking, CreateTmp
<1>2. pc'[p] = "copy" /\ pos'[p] = 0 /\ UNCHANGED <<issued, text, life, shown, resp, got, hit>>
  BY DEF CreateTmp, TypeOK, ProcsOK, session, Goto
<1>3. tmpFile'[Fold[text[p]]] = <<>>
  BY <1>1 DEF CreateTmp, TypeOK, FilesOK
<1>4. <<>> = [i \in 1..0 |-> resp[p]]
  OBVIOUS
<1> QED
  BY <1>1, <1>2, <1>3, <1>4 DEF CopyAt, OfRun, Answered, Whole

LEMMA CopyRowCopy ==
  ASSUME TypeOK, NEW p \in Procs, CopyAt(p), CopyRow(p) PROVE CopyAt(p)'
<1> DEFINE f == Fold[text[p]]
           s == tmpFile[f]
<1>1. pc[p] = "copy" /\ text[p] \in Texts /\ f \in Folds /\ pos[p] \in Nat
  BY FoldType DEF TypeOK, ProcsOK, PlaceOK, Asking, CopyRow
<1>2. pos'[p] = pos[p] + 1 /\ UNCHANGED <<issued, pc, text, life, shown, resp, got, hit>>
  BY DEF CopyRow, TypeOK, ProcsOK, session
<1>3. tmpFile'[f] = WriteAt(s, pos[p] + 1, resp[p])
  BY <1>1 DEF CopyRow, TypeOK, FilesOK
<1>4. s = [i \in 1..pos[p] |-> resp[p]] /\ Len(s) = pos[p]
  BY <1>1 DEF CopyAt
<1>5. WriteAt(s, pos[p] + 1, resp[p]) = [j \in 1..(pos[p] + 1) |-> resp[p]]
  BY <1>1, <1>4 DEF WriteAt
<1>6. tmpFile'[f] = [j \in 1..pos'[p] |-> resp'[p]]
  BY <1>2, <1>3, <1>5
<1> QED
  BY <1>1, <1>2, <1>6 DEF CopyAt, OfRun, Answered, Whole

LEMMA CopyDoneCopy ==
  ASSUME TypeOK, NEW p \in Procs, CopyAt(p), CopyDone(p) PROVE CopyAt(p)'
<1>1. pc[p] = "copy" /\ resp[p] \in Reports /\ pos[p] = resp[p].size
  BY DEF TypeOK, ProcsOK, PlaceOK, CopyDone
<1>2. pc'[p] = "parse" /\ UNCHANGED <<issued, tmpFile, text, life, shown>>
  BY DEF CopyDone, TypeOK, ProcsOK, files, session, Goto
<1>3. WholeRun(tmpFile[Fold[text[p]]], p)
  BY <1>1 DEF CopyAt, WholeRun, Whole
<1> QED
  BY <1>1, <1>2, <1>3 DEF CopyAt, WholeRun, OfRun, Answered, Whole

LEMMA ParseTmpCopy ==
  ASSUME TypeOK, NEW p \in Procs, CopyAt(p), ParseTmp(p) PROVE CopyAt(p)'
<1>1. pc[p] = "parse" /\ pc'[p] = "show" /\ got'[p] = tmpFile[Fold[text[p]]]
      /\ UNCHANGED <<issued, text, life, shown>>
  BY DEF ParseTmp, TypeOK, ProcsOK, session, Goto
<1>2. WholeRun(got'[p], p)
  BY <1>1 DEF CopyAt
<1> QED
  BY <1>1, <1>2 DEF CopyAt, WholeRun, OfRun, Answered, Whole

LEMMA ShowCopy ==
  ASSUME TypeOK, NEW p \in Procs, CopyAt(p), Show(p) PROVE CopyAt(p)'
<1> DEFINE a == [text |-> text[p], rows |-> got[p], hit |-> hit[p], at |-> now,
                 by |-> <<p, life[p]>>]
<1>1. pc[p] = "show" /\ pc'[p] = "idle" /\ shown'[p] = a /\ issued' = issued
  BY DEF Show, TypeOK, ProcsOK, Goto
<1>2. a.text = text[p] /\ a.rows = got[p] /\ a.hit = hit[p] /\ a.by = <<p, life[p]>>
  OBVIOUS
<1>3. ~hit[p] => WholeRun(got[p], p)
  BY <1>1 DEF CopyAt
<1> HIDE DEF a
<1> QED
  BY <1>1, <1>2, <1>3 DEF CopyAt, WholeRun, OfRun, Whole

LEMMA OwnCopy ==
  ASSUME TypeOK, NEW p \in Procs, CopyAt(p), StepOf(p) PROVE CopyAt(p)'
<1>1. CASE Start(p) \/ Fail(p) \/ Exit(p) \/ \E t \in Texts : Ask(p, t)
  <2>1. pc'[p] \in {"idle", "off", "stat", "list"} /\ shown'[p] \in {shown[p], NoAnswer}
        /\ issued' = issued
    BY <1>1 DEF Start, Fail, Exit, Ask, TypeOK, ProcsOK, Goto
  <2> QED
    BY <2>1 DEF CopyAt, Answered, Whole
<1>2. CASE ListCache(p) \/ PurgeNext(p) \/ RemoveFile(p) \/ PurgeDone(p) \/ Connect(p)
           \/ StatCache(p)
  <2>1. pc'[p] \in {"purge", "remove", "connect", "stat", "call", "read"} /\ UNCHANGED <<shown, issued>>
    BY <1>2 DEF ListCache, PurgeNext, RemoveFile, Unlinked, GivesUp, PurgeDone, Connect, StatCache, TypeOK, ProcsOK, Goto
  <2> QED
    BY <2>1 DEF CopyAt, Answered, Whole
<1>3. CASE ReadCache(p)
  <2>1. UNCHANGED <<shown, issued>> /\ (pc'[p] = "call" \/ (pc'[p] = "show" /\ hit'[p]))
    BY <1>3 DEF ReadCache, TypeOK, ProcsOK, Goto
  <2> QED
    BY <2>1 DEF CopyAt, Answered, Whole
<1> QED
  BY <1>1, <1>2, <1>3, CallApiCopy, CreateTmpCopy, CopyRowCopy, CopyDoneCopy, ParseTmpCopy,
     ShowCopy DEF StepOf, Work

LEMMA CopyNext ==
  ASSUME TypeOK, AloneInv, CopyInv, [Next]_vars PROVE CopyInv'
<1>1. ASSUME NEW p \in Procs, StepOf(p) PROVE CopyInv'
  BY <1>1, OwnCopy, CopyOthers DEF CopyInv
<1>2. CASE Quiet
  BY <1>2, QuietStays, CopyStays DEF CopyInv, session, locals
<1>3. CASE UNCHANGED vars
  BY <1>3, CopyStays DEF CopyInv, vars, files, session, locals, traces
<1> QED
  BY <1>1, <1>2, <1>3, StepCases

LEMMA AloneHolds == ASSUME MaxLive = 1 PROVE Spec => [](TypeOK /\ AloneInv /\ CopyInv)
<1>1. Init => AloneInv /\ CopyInv
  BY AloneInit, CopyInit
<1>2. TypeOK /\ AloneInv /\ CopyInv /\ [Next]_vars => AloneInv' /\ CopyInv'
  BY AloneNext, CopyNext
<1> QED
  BY <1>1, <1>2, TypeCorrect, PTL DEF Spec

(* When one process runs at a time, a report that was downloaded is shown    *)
(* whole, and it is the one the API issued for this run of this query.       *)
THEOREM DownloadIsWholeHolds == ASSUME MaxLive = 1 PROVE Spec => []DownloadIsWhole
<1>1. TypeOK /\ CopyInv => DownloadIsWhole
  BY DEF CopyInv, CopyAt, DownloadIsWhole
<1> QED
  BY <1>1, AloneHolds, PTL

----------------------------------------------------------------------------
(* The goroutines: those of a process end with it, each query has its own.   *)
Free(p, i) == pc[p] = "off" \/ i > asked[p] \/ (i = asked[p] /\ pc[p] \in Asking \ {"show"})
SlotAt(p) ==
  /\ pc[p] = "off" => ~conn[p]
  /\ \A i \in 1..MaxQueries : Free(p, i) => setter[p][i].st = "none"
SlotInv == \A p \in Procs : SlotAt(p)

SameJob(w, v) == w.st = v.st /\ w.key = v.key /\ w.val = v.val /\ w.pos = v.pos

(* Only the end of its process or a new report changes a goroutine.          *)
LEMMA JobsStay ==
  ASSUME TypeOK, NEW p \in Procs, StepOf(p), NEW q \in Procs, NEW j \in 1..MaxQueries,
         q # p \/ ~(Exit(p) \/ ParseTmp(p))
  PROVE  SameJob(setter'[q][j], setter[q][j])
<1>1. CASE UNCHANGED setter
  BY <1>1 DEF SameJob
<1>2. CASE Unlinked(p)
  BY <1>2, UnlinkType DEF Unlinked, SameJob, TypeOK
<1>3. CASE Exit(p) \/ ParseTmp(p)
  BY <1>3 DEF Exit, ParseTmp, TypeOK, SettersOK, SameJob
<1> QED
  BY <1>1, <1>2, <1>3 DEF StepOf, Work, Start, Ask, Fail, ListCache, PurgeNext, RemoveFile, GivesUp, PurgeDone,
     Connect, StatCache, ReadCache, CallApi, CreateTmp, CopyRow, CopyDone, Show

(* The goroutine a download starts.                                          *)
LEMMA JobStarts ==
  ASSUME TypeOK, NEW p \in Procs, ParseTmp(p)
  PROVE  /\ asked[p] \in 1..MaxQueries
         /\ \A j \in 1..MaxQueries : j # asked[p] => setter'[p][j] = setter[p][j]
         /\ SameJob(setter'[p][asked[p]],
                    [st |-> "ready", key |-> KeyOf(p), val |-> tmpFile[Fold[text[p]]], pos |-> 0])
<1> DEFINE w == [st |-> "ready", key |-> KeyOf(p), val |-> tmpFile[Fold[text[p]]], pos |-> 0,
                 linked |-> FALSE]
<1>1. setter' = [setter EXCEPT ![p][asked[p]] = w] /\ asked[p] \in 1..MaxQueries
  BY DEF ParseTmp, TypeOK, PlaceOK, Asking
<1>2. setter \in [Procs -> [1..MaxQueries -> Setters]]
  BY DEF TypeOK, SettersOK
<1>3. setter'[p][asked[p]] = w /\ \A j \in 1..MaxQueries : j # asked[p] => setter'[p][j] = setter[p][j]
  <2> HIDE DEF w
  <2> QED
    BY <1>1, <1>2
<1> QED
  BY <1>1, <1>3 DEF SameJob

LEMMA SlotInit == Init => SlotInv
  BY DEF Init, SlotInv, SlotAt, NoSetter

(* A process in the middle of a query has been there since it asked.         *)
LEMMA PlaceStep ==
  ASSUME TypeOK, NEW p \in Procs, StepOf(p), ~Exit(p)
  PROVE  /\ pc'[p] # "off"
         /\ \/ asked'[p] = asked[p] /\ pc'[p] \in Asking \cup {"idle"}
               /\ (pc'[p] \in Asking \ {"show"} => pc[p] \in Asking \ {"show"})
            \/ asked'[p] = asked[p] + 1 /\ pc[p] = "idle"
<1> USE DEF TypeOK, ProcsOK, session, Goto, Asking
<1>1. CASE Start(p)
  BY <1>1 DEF Start
<1>2. CASE \E t \in Texts : Ask(p, t)
  BY <1>2 DEF Ask
<1>3. CASE ListCache(p) \/ PurgeNext(p) \/ RemoveFile(p) \/ PurgeDone(p) \/ Connect(p)
  BY <1>3 DEF ListCache, PurgeNext, RemoveFile, Unlinked, GivesUp, PurgeDone, Connect
<1>4. CASE StatCache(p) \/ ReadCache(p) \/ CallApi(p) \/ CreateTmp(p) \/ CopyRow(p)
  BY <1>4 DEF StatCache, ReadCache, CallApi, CreateTmp, CopyRow
<1>5. CASE CopyDone(p) \/ ParseTmp(p) \/ Show(p) \/ Fail(p)
  BY <1>5 DEF CopyDone, ParseTmp, Show, Fail
<1> QED
  BY <1>1, <1>2, <1>3, <1>4, <1>5 DEF StepOf, Work

LEMMA SlotStep ==
  ASSUME TypeOK, SlotInv, NEW p \in Procs, StepOf(p) PROVE SlotInv'
<1>1. ASSUME NEW q \in Procs, q # p PROVE SlotAt(q)'
  <2>1. asked'[q] = asked[q]
    BY <1>1 DEF StepOf, Work, Start, Ask, Fail, Exit, ListCache, PurgeNext, RemoveFile, Unlinked, GivesUp, PurgeDone,
       Connect, StatCache, ReadCache, CallApi, CreateTmp, CopyRow, CopyDone, ParseTmp, Show,
       session, TypeOK, ProcsOK
  <2>2. pc'[q] = pc[q] /\ conn'[q] = conn[q]
    BY <1>1, OthersStay
  <2>3. \A j \in 1..MaxQueries : setter'[q][j].st = setter[q][j].st
    BY <1>1, JobsStay DEF SameJob
  <2>4. SlotAt(q)
    BY DEF SlotInv
  <2> QED
    BY <2>1, <2>2, <2>3, <2>4 DEF SlotAt, Free
<1>2. SlotAt(p)
  BY DEF SlotInv
<1>3. CASE Exit(p)
  <2>1. pc'[p] = "off" /\ ~conn'[p] /\ \A j \in 1..MaxQueries : setter'[p][j] = NoSetter
    BY <1>3 DEF Exit, Goto, TypeOK, ProcsOK, SettersOK
  <2> QED
    BY <1>1, <2>1 DEF SlotInv, SlotAt, NoSetter
<1>4. CASE ~Exit(p)
  <2>1. \A i \in 1..MaxQueries : Free(p, i)' => Free(p, i) /\ ~(ParseTmp(p) /\ i = asked[p])
    <3>1. asked[p] \in Nat
      BY DEF TypeOK, ProcsOK
    <3>2. ParseTmp(p) => pc'[p] = "show" /\ asked'[p] = asked[p]
      BY DEF ParseTmp, Goto, TypeOK, ProcsOK, session
    <3> QED
      BY <1>4, <3>1, <3>2, PlaceStep DEF Free, Asking
  <2>2. \A i \in 1..MaxQueries : ~(ParseTmp(p) /\ i = asked[p]) => setter'[p][i].st = setter[p][i].st
    BY <1>4, JobsStay, JobStarts DEF SameJob
  <2> QED
    BY <1>1, <1>2, <1>4, <2>1, <2>2, PlaceStep DEF SlotInv, SlotAt
<1> QED
  BY <1>3, <1>4

(* A step of a goroutine.                                                    *)
LEMMA SaveStep ==
  ASSUME TypeOK, NEW p \in Procs, NEW i \in 1..MaxQueries, Save(p, i)
  PROVE  /\ setter[p][i].st # "none"
         /\ setter'[p][i] = NoSetter \/ (setter'[p][i].key = setter[p][i].key
                                         /\ setter'[p][i].val = setter[p][i].val)
         /\ \A q \in Procs, j \in 1..MaxQueries :
              q # p \/ j # i => setter'[q][j] = setter[q][j]
<1>1. setter \in [Procs -> [1..MaxQueries -> Setters]] /\ setter[p][i] \in Setters
  BY SetterType DEF TypeOK, SettersOK
<1>2. setter[p][i].st # "none"
  BY DEF Save, SetCreate, SetWrite, SetDone, SetFails
<1>3. PICK w : setter' = [setter EXCEPT ![p][i] = w]
              /\ (w = NoSetter \/ (w.key = setter[p][i].key /\ w.val = setter[p][i].val))
  <2>1. CASE SetCreate(p, i)
    <3> DEFINE w == [setter[p][i] EXCEPT !.st = "open", !.linked = TRUE]
    <3>1. w.key = setter[p][i].key /\ w.val = setter[p][i].val
      BY <1>1 DEF Setters
    <3>2. setter' = [setter EXCEPT ![p][i] = w]
      BY <2>1 DEF SetCreate
    <3> HIDE DEF w
    <3> QED
      BY <3>1, <3>2
  <2>2. CASE SetWrite(p, i)
    <3> DEFINE w == [setter[p][i] EXCEPT !.pos = setter[p][i].pos + 1]
    <3>1. w.key = setter[p][i].key /\ w.val = setter[p][i].val
      BY <1>1 DEF Setters
    <3>2. setter' = [setter EXCEPT ![p][i] = w]
      BY <2>2 DEF SetWrite
    <3> HIDE DEF w
    <3> QED
      BY <3>1, <3>2
  <2>3. CASE SetDone(p, i) \/ SetFails(p, i)
    BY <1>1, <2>3 DEF SetDone, SetFails
  <2> QED
    BY <2>1, <2>2, <2>3 DEF Save
<1> QED
  BY <1>1, <1>2, <1>3

LEMMA SlotNext == ASSUME TypeOK, SlotInv, [Next]_vars PROVE SlotInv'
<1>1. ASSUME NEW p \in Procs, StepOf(p) PROVE SlotInv'
  BY <1>1, SlotStep
<1>2. ASSUME NEW p \in Procs, NEW i \in 1..MaxQueries, Save(p, i) PROVE SlotInv'
  <2>1. UNCHANGED <<pc, asked, conn>>
    BY <1>2, QuietStays DEF Quiet, session
  <2>2. \A q \in Procs, j \in 1..MaxQueries : setter[q][j].st = "none" => setter'[q][j].st = "none"
    BY <1>2, SaveStep
  <2> QED
    BY <2>1, <2>2 DEF SlotInv, SlotAt, Free
<1>3. CASE Tick \/ UNCHANGED vars
  BY <1>3 DEF Tick, vars, session, SlotInv, SlotAt, Free
<1> QED
  BY <1>1, <1>2, <1>3, StepCases DEF Quiet

----------------------------------------------------------------------------
(* Without -c: once the purge is over, all files but those it has left there *)
(* are of this life.                                                         *)
OwnLife(s, p) == \A i \in DOMAIN s : s[i] = Hole \/ s[i].by = <<p, life[p]>>
Clean(p, S) == \A k \in Keys \ S : Exists(k) => OwnLife(cacheFile[k].rows, p)
Left(p) == IF pc[p] = "remove" THEN todo[p] \cup {victim[p]} ELSE todo[p]
Opened(p) ==
  \/ pc[p] \in {"connect", "stat", "read", "call", "create", "copy", "parse", "show"}
  \/ pc[p] = "idle" /\ conn[p]

PurgeLife(p) ==
  /\ pc[p] \in {"purge", "remove"} => Clean(p, Left(p) \cup spared[p])
  /\ Opened(p) => Clean(p, spared[p])
GotLife(p) ==
  pc[p] = "show" => OwnLife(got[p], p) \/ (hit[p] /\ KeyOf(p) \in spared[p])
JobsLife(p) ==
  pc[p] # "off" => \A i \in 1..MaxQueries :
    setter[p][i].st # "none" => OwnLife(setter[p][i].val, p)
ShownLife(p) ==
  Answered(p) =>
    \/ \A i \in DOMAIN shown[p].rows :
         shown[p].rows[i] = Hole \/ shown[p].rows[i].by = shown[p].by
    \/ shown[p].hit /\ <<Fold[shown[p].text], AccountOf[p]>> \in spared[p]
LifeAt(p) == PurgeLife(p) /\ GotLife(p) /\ JobsLife(p) /\ ShownLife(p)
LifeInv == \A p \in Procs : ~WithCache[p] => LifeAt(p)

LEMMA LifeInit == Init => LifeInv
  BY DEF Init, LifeInv, LifeAt, PurgeLife, GotLife, JobsLife, ShownLife, Opened, Answered

LEMMA LifeOfOff ==
  ASSUME NEW q \in Procs, pc'[q] = "off", shown'[q] = shown[q], spared'[q] = spared[q], ShownLife(q)
  PROVE  LifeAt(q)'
  BY DEF LifeAt, PurgeLife, GotLife, JobsLife, ShownLife, Opened, Answered

LEMMA OthersOff ==
  ASSUME AloneInv, AloneInv', NEW p \in Procs, StepOf(p), NEW q \in Procs, q # p, TypeOK
  PROVE  pc[q] = "off" /\ pc'[q] = "off"
<1>1. pc'[q] = pc[q]
  BY OthersStay
<1>2. CASE Exit(p)
  BY <1>1, <1>2 DEF Exit, AloneInv
<1>3. CASE ~Exit(p)
  BY <1>1, <1>3, PlaceStep DEF AloneInv
<1> QED
  BY <1>2, <1>3

LEMMA PurgeStep ==
  ASSUME TypeOK, SlotInv, NEW p \in Procs, ~WithCache[p], LifeAt(p), StepOf(p)
  PROVE  PurgeLife(p)'
<1> USE DEF PurgeLife, Opened, Left, LifeAt
<1>0. pc \in [Procs -> States] /\ todo \in [Procs -> SUBSET Keys] /\ conn \in [Procs -> BOOLEAN]
      /\ victim \in [Procs -> Keys \cup {NoKey}] /\ cacheFile \in [Keys -> CacheFiles \cup {NoFile}]
      /\ spared \in [Procs -> SUBSET Keys]
  BY DEF TypeOK, ProcsOK, FilesOK
<1>1. CASE Start(p)
  <2>1. pc'[p] = "idle" /\ ~conn[p] /\ conn' = conn
    BY <1>0, <1>1 DEF Start, Goto, session, SlotInv, SlotAt
  <2> QED
    BY <2>1
<1>2. CASE ListCache(p)
  <2>1. pc'[p] = "purge" /\ UNCHANGED <<cacheFile, life>>
        /\ {k \in Keys : Exists(k)} \subseteq todo'[p] \cup spared'[p]
    BY <1>0, <1>2 DEF ListCache, Goto, files, session
  <2> QED
    BY <2>1 DEF Clean, Exists
<1>3. CASE PurgeNext(p)
  <2>1. PICK k \in todo[p] : todo'[p] = todo[p] \ {k} /\ pc'[p] = "remove" /\ victim'[p] = k
    BY <1>0, <1>3 DEF PurgeNext, Condemned, Goto
  <2>2. pc[p] = "purge" /\ UNCHANGED <<cacheFile, life, spared>>
    BY <1>3 DEF PurgeNext, files, session, traces
  <2> QED
    BY <2>1, <2>2 DEF Clean, OwnLife, Exists
<1>4. CASE RemoveFile(p)
  <2>0. pc[p] = "remove" /\ victim[p] \in Keys /\ todo[p] \subseteq Keys /\ life' = life
    BY <1>0, <1>4 DEF RemoveFile, session, TypeOK, PlaceOK
  <2>1. CASE Unlinked(p)
    <3>1. todo' = todo /\ pc'[p] = "purge" /\ spared' = spared
          /\ cacheFile' = [cacheFile EXCEPT ![victim[p]] = NoFile]
      BY <1>0, <2>1 DEF Unlinked, Goto
    <3>2. \A k \in Keys : cacheFile'[k] = IF k = victim[p] THEN NoFile ELSE cacheFile[k]
      BY <1>0, <2>0, <3>1
    <3> QED
      BY <2>0, <3>1, <3>2 DEF Clean, OwnLife, Exists
  <2>2. CASE GivesUp(p)
    <3>1. pc'[p] = "connect" /\ cacheFile' = cacheFile
          /\ spared'[p] = spared[p] \cup todo[p] \cup {victim[p]}
      BY <1>0, <2>2 DEF GivesUp, Goto
    <3> QED
      BY <2>0, <3>1 DEF Clean, OwnLife, Exists
  <2> QED
    BY <1>4, <2>1, <2>2 DEF RemoveFile
<1>5. CASE PurgeDone(p)
  <2>1. pc[p] = "purge" /\ todo[p] = {} /\ pc'[p] = "connect"
        /\ UNCHANGED <<cacheFile, life, spared>>
    BY <1>0, <1>5 DEF PurgeDone, Goto, files, session, traces
  <2> QED
    BY <2>1 DEF Clean, OwnLife, Exists
<1>6. CASE Exit(p)
  BY <1>0, <1>6 DEF Exit, Goto
<1>7. ASSUME Opened(p) \/ (pc'[p] \notin {"purge", "remove"} /\ ~Opened(p)'),
             pc'[p] \notin {"purge", "remove"}, UNCHANGED <<cacheFile, life, spared>>
      PROVE  PurgeLife(p)'
  BY <1>7 DEF Clean, OwnLife, Exists
<1>8. CASE \E t \in Texts : Ask(p, t)
  BY <1>0, <1>7, <1>8 DEF Ask, Goto, files, session, traces
<1>9. CASE Connect(p) \/ Fail(p) \/ StatCache(p) \/ ReadCache(p)
  BY <1>0, <1>7, <1>9 DEF Connect, Fail, StatCache, ReadCache, Goto, files, session, traces
<1>10. CASE CallApi(p) \/ CreateTmp(p) \/ CopyRow(p) \/ CopyDone(p) \/ ParseTmp(p) \/ Show(p)
  BY <1>0, <1>7, <1>10 DEF CallApi, CreateTmp, CopyRow, CopyDone, ParseTmp, Show, Goto, files, session, traces
<1> QED
  BY <1>1, <1>2, <1>3, <1>4, <1>5, <1>6, <1>8, <1>9, <1>10 DEF StepOf, Work

LEMMA WholeIsOwn ==
  ASSUME NEW s, NEW p, WholeRun(s, p) PROVE OwnLife(s, p)
  BY DEF WholeRun, Whole, OfRun, OwnLife

LEMMA GotStep ==
  ASSUME TypeOK, NEW p \in Procs, LifeAt(p), CopyAt(p), StepOf(p) PROVE GotLife(p)'
<1>1. CASE ReadCache(p) /\ pc'[p] = "show"
  <2>1. Exists(KeyOf(p)) /\ got'[p] = cacheFile[KeyOf(p)].rows /\ life' = life /\ pc[p] = "read"
        /\ hit'[p] /\ text' = text /\ spared' = spared
    BY <1>1 DEF ReadCache, Goto, TypeOK, ProcsOK, session, traces
  <2>2. KeyOf(p) \in Keys
    BY <2>1, KeyType DEF TypeOK, PlaceOK, Asking
  <2> QED
    BY <2>1, <2>2 DEF LifeAt, PurgeLife, Opened, Clean, GotLife, OwnLife, KeyOf
<1>2. CASE ParseTmp(p)
  <2>1. got'[p] = tmpFile[Fold[text[p]]] /\ life' = life /\ pc[p] = "parse"
    BY <1>2 DEF ParseTmp, TypeOK, ProcsOK, session
  <2>2. OwnLife(got'[p], p)
    BY <2>1, WholeIsOwn DEF CopyAt
  <2>3. OwnLife(got[p], p)'
    BY <2>1, <2>2 DEF OwnLife
  <2> QED
    BY <2>3 DEF GotLife
<1>3. CASE ~ParseTmp(p) /\ ~(ReadCache(p) /\ pc'[p] = "show")
  <2>1. pc'[p] # "show"
    BY <1>3 DEF StepOf, Work, Start, Ask, Fail, Exit, ListCache, PurgeNext, RemoveFile, Unlinked, GivesUp, PurgeDone,
       Connect, StatCache, CallApi, CreateTmp, CopyRow, CopyDone, Show, Goto, TypeOK, ProcsOK
  <2> QED
    BY <2>1 DEF GotLife
<1> QED
  BY <1>1, <1>2, <1>3

LEMMA JobsStep ==
  ASSUME TypeOK, SlotInv, NEW p \in Procs, LifeAt(p), CopyAt(p), StepOf(p) PROVE JobsLife(p)'
<1>1. CASE Exit(p)
  BY <1>1 DEF Exit, Goto, TypeOK, ProcsOK, JobsLife
<1>2. CASE Start(p)
  <2>1. \A i \in 1..MaxQueries : setter'[p][i].st = "none"
    BY <1>2 DEF Start, SlotInv, SlotAt, Free
  <2> QED
    BY <2>1 DEF JobsLife
<1>3. CASE ~Exit(p) /\ ~Start(p)
  <2>1. life'[p] = life[p] /\ pc[p] # "off"
    BY <1>3 DEF StepOf, Work, Ask, Fail, ListCache, PurgeNext, RemoveFile, Unlinked, GivesUp, PurgeDone, session,
       Connect, StatCache, ReadCache, CallApi, CreateTmp, CopyRow, CopyDone, ParseTmp, Show
  <2>2. ASSUME NEW i \in 1..MaxQueries, setter'[p][i].st # "none" PROVE OwnLife(setter'[p][i].val, p)
    <3>1. CASE ParseTmp(p) /\ i = asked[p]
      <4>1. setter'[p][i].val = tmpFile[Fold[text[p]]] /\ pc[p] = "parse"
        BY <3>1, JobStarts DEF SameJob, ParseTmp
      <4> QED
        BY <4>1 DEF CopyAt, WholeRun, Whole, OfRun, OwnLife
    <3>2. CASE ~(ParseTmp(p) /\ i = asked[p])
      <4>1. setter'[p][i].st = setter[p][i].st /\ setter'[p][i].val = setter[p][i].val
        BY <1>3, <3>2, JobsStay, JobStarts DEF SameJob
      <4> QED
        BY <2>1, <2>2, <4>1 DEF LifeAt, JobsLife
    <3> QED
      BY <3>1, <3>2
  <2> QED
    BY <2>1, <2>2 DEF JobsLife, OwnLife
<1> QED
  BY <1>1, <1>2, <1>3

LEMMA ShownStep ==
  ASSUME TypeOK, NEW p \in Procs, LifeAt(p), StepOf(p) PROVE ShownLife(p)'
<1>1. CASE Show(p)
  <2> DEFINE a == [text |-> text[p], rows |-> got[p], hit |-> hit[p], at |-> now,
                   by |-> <<p, life[p]>>]
  <2>1. pc[p] = "show" /\ shown'[p] = a /\ spared' = spared
    BY <1>1 DEF Show, TypeOK, ProcsOK, traces
  <2>2. a.rows = got[p] /\ a.by = <<p, life[p]>> /\ a.hit = hit[p] /\ a.text = text[p]
    OBVIOUS
  <2> HIDE DEF a
  <2> QED
    BY <2>1, <2>2 DEF LifeAt, GotLife, OwnLife, ShownLife, KeyOf
<1>2. CASE ~Show(p)
  <2>1. shown'[p] = NoAnswer \/ (shown'[p] = shown[p] /\ spared[p] \subseteq spared'[p])
    BY <1>2 DEF StepOf, Work, Start, Ask, Fail, Exit, ListCache, PurgeNext, RemoveFile, Unlinked,
       GivesUp, PurgeDone, Connect, StatCache, ReadCache, CallApi, CreateTmp, CopyRow, CopyDone,
       ParseTmp, TypeOK, ProcsOK, traces
  <2> QED
    BY <2>1 DEF LifeAt, ShownLife, Answered
<1> QED
  BY <1>1, <1>2

----------------------------------------------------------------------------
(* What the steps of a goroutine do.                                         *)
LEMMA SetCreateDoes ==
  ASSUME TypeOK, NEW p \in Procs, NEW i \in 1..MaxQueries, SetCreate(p, i)
  PROVE  LET w == setter[p][i]
             v == setter'[p][i] IN
         /\ w.key \in Keys /\ w.st = "ready" /\ cut' = cut \ {w.key}
         /\ woven'[w.key] = {w.val} \cup OpenOn(w.key)
         /\ \A k \in Keys \ {w.key} : woven'[k] = woven[k]
         /\ v.st = "open" /\ v.linked /\ v.key = w.key /\ v.val = w.val /\ v.pos = w.pos
         /\ \A k \in Keys : /\ cacheFile'[k] = IF k = w.key THEN [rows |-> <<>>, mtime |-> now]
                                               ELSE cacheFile[k]
                            /\ Exists(k) => Exists(k)'
<1> DEFINE w == setter[p][i]
           new == [w EXCEPT !.st = "open", !.linked = TRUE]
           file == [rows |-> <<>>, mtime |-> now]
<1>1. w \in Setters /\ w.st = "ready" /\ w.key \in Keys
  BY SetterType DEF TypeOK, SetCreate, SetterOK
<1>2. setter \in [Procs -> [1..MaxQueries -> Setters]] /\ cacheFile \in [Keys -> CacheFiles \cup {NoFile}]
  BY DEF TypeOK, SettersOK, FilesOK
<1>3. new.st = "open" /\ new.linked /\ new.key = w.key /\ new.val = w.val /\ new.pos = w.pos
  BY <1>1 DEF Setters
<1>4. file # NoFile
  <2>1. file \in CacheFiles
    BY EmptyRows DEF TypeOK, FilesOK, CacheFiles
  <2> QED
    BY <2>1, AbsentAssumption
<1>5. setter' = [setter EXCEPT ![p][i] = new] /\ cacheFile' = [cacheFile EXCEPT ![w.key] = file]
      /\ cut' = cut \ {w.key}
  BY DEF SetCreate
<1>7. woven'[w.key] = {w.val} \cup OpenOn(w.key) /\ \A k \in Keys \ {w.key} : woven'[k] = woven[k]
  <2>1. woven \in [Keys -> SUBSET Rows] /\ woven' = [woven EXCEPT ![w.key] = {w.val} \cup OpenOn(w.key)]
    BY DEF TypeOK, FilesOK, SetCreate
  <2> HIDE DEF w
  <2> QED
    BY <1>1, <2>1
<1>6. setter'[p][i] = new /\ \A k \in Keys : cacheFile'[k] = IF k = w.key THEN file ELSE cacheFile[k]
  <2> HIDE DEF new, file, w
  <2> QED
    BY <1>1, <1>2, <1>5
<1> HIDE DEF new
<1> QED
  BY <1>1, <1>3, <1>4, <1>5, <1>6, <1>7 DEF Exists

LEMMA SetWriteDoes ==
  ASSUME TypeOK, NEW p \in Procs, NEW i \in 1..MaxQueries, SetWrite(p, i)
  PROVE  LET w == setter[p][i]
             v == setter'[p][i] IN
         /\ w.key \in Keys /\ w.st = "open" /\ w.pos \in Nat /\ w.val \in Rows /\ w.pos < Len(w.val)
         /\ cut' = cut /\ woven' = woven
         /\ v.st = "open" /\ v.linked = w.linked /\ v.key = w.key /\ v.val = w.val /\ v.pos = w.pos + 1
         /\ ~w.linked => UNCHANGED cacheFile
         /\ w.linked => Exists(w.key)
         /\ w.linked => \A k \in Keys :
              /\ k # w.key => cacheFile'[k] = cacheFile[k]
              /\ k = w.key => cacheFile'[k].rows = WriteAt(cacheFile[k].rows, w.pos + 1, w.val[w.pos + 1])
              /\ Exists(k) => Exists(k)'
<1> DEFINE w == setter[p][i]
           new == [w EXCEPT !.pos = w.pos + 1]
           rows == WriteAt(cacheFile[w.key].rows, w.pos + 1, w.val[w.pos + 1])
           file == [rows |-> rows, mtime |-> now]
<1>1. w \in Setters /\ w.st = "open" /\ w.key \in Keys /\ w.pos < Len(w.val) /\ w.pos \in Nat
      /\ w.val \in Rows /\ (w.linked => Exists(w.key)) /\ w.linked \in BOOLEAN
  BY SetterType DEF TypeOK, SetWrite, SetterOK, Setters
<1>2. setter \in [Procs -> [1..MaxQueries -> Setters]] /\ cacheFile \in [Keys -> CacheFiles \cup {NoFile}]
  BY DEF TypeOK, SettersOK, FilesOK
<1>3. new.st = "open" /\ new.linked = w.linked /\ new.key = w.key /\ new.val = w.val
      /\ new.pos = w.pos + 1
  BY <1>1 DEF Setters
<1>4. ASSUME w.linked PROVE file # NoFile /\ file.rows = rows
  <2>1. cacheFile[w.key].rows \in Rows
    BY <1>1, <1>4, CacheFileType DEF TypeOK
  <2>2. w.val[w.pos + 1] \in Reports \cup {Hole} /\ w.pos + 1 \in Nat \ {0}
    <3> HIDE DEF w
    <3> QED
      BY <1>1, NextRowType
  <2>3. rows \in Rows
    BY <2>1, <2>2, Written
  <2>4. file \in CacheFiles
    BY <2>3 DEF TypeOK, FilesOK, CacheFiles
  <2> QED
    BY <2>4, AbsentAssumption
<1>5. /\ setter' = [setter EXCEPT ![p][i] = new] /\ cut' = cut /\ woven' = woven
      /\ w.linked => cacheFile' = [cacheFile EXCEPT ![w.key] = file]
      /\ ~w.linked => cacheFile' = cacheFile
  BY DEF SetWrite, traces
<1>6. setter'[p][i] = new
  <2> HIDE DEF new
  <2> QED
    BY <1>2, <1>5
<1>7. w.linked => \A k \in Keys : cacheFile'[k] = IF k = w.key THEN file ELSE cacheFile[k]
  <2> HIDE DEF file, w
  <2> QED
    BY <1>1, <1>2, <1>5
<1>8. w.linked => \A k \in Keys :
              /\ k # w.key => cacheFile'[k] = cacheFile[k]
              /\ k = w.key => cacheFile'[k].rows = WriteAt(cacheFile[k].rows, w.pos + 1, w.val[w.pos + 1])
              /\ Exists(k) => Exists(k)'
  BY <1>4, <1>7 DEF Exists
<1> HIDE DEF new
<1> QED
  BY <1>1, <1>3, <1>5, <1>6, <1>8

LEMMA OwnWritten ==
  ASSUME NEW p, NEW s \in Rows, NEW v \in Rows, NEW n \in DOMAIN v, OwnLife(s, p), OwnLife(v, p)
  PROVE  OwnLife(WriteAt(s, n, v[n]), p)
<1>1. n \in Nat \ {0} /\ v[n] \in Reports \cup {Hole} /\ DOMAIN s = 1..Len(s) /\ Len(s) \in Nat
  BY ElementOfSeq, LenProperties DEF Rows
<1> DEFINE t == WriteAt(s, n, v[n])
<1>2. t \in Rows /\ \A j \in 1..Len(t) : t[j] = IF j = n THEN v[n] ELSE IF j <= Len(s) THEN s[j] ELSE Hole
  BY <1>1, Written
<1>3. DOMAIN t = 1..Len(t) /\ Len(t) \in Nat
  BY <1>2, LenProperties DEF Rows
<1> HIDE DEF t
<1>4. OwnLife(t, p)
  BY <1>1, <1>2, <1>3 DEF OwnLife
<1> QED
  BY <1>4 DEF t

LEMMA SaveLife ==
  ASSUME TypeOK, SlotInv, NEW p \in Procs, LifeAt(p), NEW i \in 1..MaxQueries, Save(p, i)
  PROVE  LifeAt(p)'
<1> DEFINE w == setter[p][i]
<1>1. UNCHANGED <<pc, life, conn, text, todo, victim, got, hit, spared, shown>>
  BY QuietStays DEF Quiet, session, locals
<1>2. pc[p] # "off" /\ w.st # "none"
  BY SaveStep DEF SlotInv, SlotAt, Free
<1>3. OwnLife(w.val, p)
  BY <1>2 DEF LifeAt, JobsLife
<1>4. \A k \in Keys : Exists(k) => Exists(k)'
  <2>1. CASE SetDone(p, i) \/ SetFails(p, i)
    BY <2>1 DEF SetDone, SetFails, files, Exists
  <2>2. CASE SetWrite(p, i)
    BY <2>2, SetWriteDoes DEF Exists
  <2> QED
    BY <2>1, <2>2, SetCreateDoes DEF Save
<1>5. \A k \in Keys : \/ cacheFile'[k] = cacheFile[k]
                      \/ OwnLife(cacheFile'[k].rows, p)
                      \/ Exists(k) /\ (OwnLife(cacheFile[k].rows, p) => OwnLife(cacheFile'[k].rows, p))
  <2>1. CASE SetDone(p, i) \/ SetFails(p, i)
    BY <2>1 DEF SetDone, SetFails, files
  <2>2. CASE SetCreate(p, i)
    BY <2>2, SetCreateDoes DEF OwnLife
  <2>3. CASE SetWrite(p, i)
    <3>1. CASE ~w.linked
      BY <2>3, <3>1, SetWriteDoes
    <3>2. CASE w.linked
      <4>1. /\ w.key \in Keys /\ Exists(w.key) /\ w.pos \in Nat /\ w.val \in Rows /\ w.pos < Len(w.val)
            /\ cacheFile'[w.key].rows = WriteAt(cacheFile[w.key].rows, w.pos + 1, w.val[w.pos + 1])
            /\ \A k \in Keys : k # w.key => cacheFile'[k] = cacheFile[k]
        BY <2>3, <3>2, SetWriteDoes
      <4>2. cacheFile[w.key].rows \in Rows
        BY <4>1, CacheFileType DEF TypeOK
      <4>3. w.pos + 1 \in DOMAIN w.val
        BY <4>1, LenProperties DEF Rows
      <4>4. OwnLife(cacheFile[w.key].rows, p)
              => OwnLife(WriteAt(cacheFile[w.key].rows, w.pos + 1, w.val[w.pos + 1]), p)
        BY <1>3, <4>1, <4>2, <4>3, OwnWritten
      <4> QED
        BY <4>1, <4>4
    <3> QED
      BY <3>1, <3>2
  <2> QED
    BY <2>1, <2>2, <2>3 DEF Save
<1>6. \A S : Clean(p, S) => Clean(p, S)'
  BY <1>1, <1>5 DEF Clean, OwnLife, Exists
<1>7. PurgeLife(p)'
  <2>1. pc[p] \in {"purge", "remove"} => Left(p) \subseteq Keys /\ Left(p)' = Left(p)
    BY <1>1 DEF Left, TypeOK, ProcsOK, PlaceOK
  <2> QED
    BY <1>1, <1>6, <2>1 DEF LifeAt, PurgeLife, Opened, Left
<1>8. GotLife(p)' /\ ShownLife(p)'
  BY <1>1 DEF LifeAt, GotLife, ShownLife, OwnLife, Answered, KeyOf
<1>9. JobsLife(p)'
  <2>1. \A j \in 1..MaxQueries : setter'[p][j].st # "none" =>
          setter[p][j].st # "none" /\ setter'[p][j].val = setter[p][j].val
    BY SaveStep DEF NoSetter
  <2> QED
    BY <1>1, <2>1 DEF LifeAt, JobsLife, OwnLife
<1> QED
  BY <1>7, <1>8, <1>9 DEF LifeAt

LEMMA LifeNext ==
  ASSUME TypeOK, AloneInv, AloneInv', SlotInv, CopyInv, LifeInv, [Next]_vars PROVE LifeInv'
<1>1. ASSUME NEW p \in Procs, StepOf(p), NEW q \in Procs, ~WithCache[q] PROVE LifeAt(q)'
  <2>1. LifeAt(q) /\ CopyAt(q)
    BY <1>1 DEF LifeInv, CopyInv
  <2>2. CASE q = p
    BY <1>1, <2>1, <2>2, PurgeStep, GotStep, JobsStep, ShownStep DEF LifeAt
  <2>3. CASE q # p
    BY <1>1, <2>1, <2>3, OthersOff, OthersStay, LifeOfOff DEF LifeAt
  <2> QED
    BY <2>2, <2>3
<1>2. ASSUME NEW p \in Procs, NEW i \in 1..MaxQueries, Save(p, i), NEW q \in Procs, ~WithCache[q]
      PROVE  LifeAt(q)'
  <2>1. LifeAt(q)
    BY <1>2 DEF LifeInv
  <2>2. UNCHANGED <<pc, shown, spared>> /\ pc[p] # "off"
    BY <1>2, QuietStays, SaveStep DEF Quiet, SlotInv, SlotAt, Free
  <2>3. q # p => pc'[q] = "off"
    BY <2>2 DEF AloneInv
  <2> QED
    BY <1>2, <2>1, <2>2, <2>3, SaveLife, LifeOfOff DEF LifeAt
<1>3. ASSUME Tick \/ UNCHANGED vars, NEW q \in Procs, ~WithCache[q] PROVE LifeAt(q)'
  BY <1>3 DEF LifeInv, LifeAt, PurgeLife, GotLife, JobsLife, ShownLife, Opened, Left, Clean, OwnLife,
     Exists, Answered, KeyOf, Tick, vars, files, session, locals, traces
<1> QED
  BY <1>1, <1>2, <1>3, StepCases DEF Quiet, LifeInv

LEMMA LifeHolds == ASSUME MaxLive = 1 PROVE Spec => [](TypeOK /\ AloneInv /\ CopyInv /\ SlotInv /\ LifeInv)
<1>1. Init => SlotInv /\ LifeInv
  BY SlotInit, LifeInit
<1>2. TypeOK /\ AloneInv /\ AloneInv' /\ CopyInv /\ SlotInv /\ LifeInv /\ [Next]_vars
        => SlotInv' /\ LifeInv'
  BY SlotNext, LifeNext
<1> QED
  BY <1>1, <1>2, AloneHolds, PTL DEF Spec

(* When one process runs at a time and was started without -c, an answer has *)
(* a row that an earlier run of the tool has downloaded only when it is a    *)
(* hit on a file that a purge of this run has left there.                    *)
THEOREM NoRowOfAnEarlierRunHolds == ASSUME MaxLive = 1 PROVE Spec => []NoRowOfAnEarlierRun
<1>1. LifeInv => NoRowOfAnEarlierRun
  BY DEF LifeInv, LifeAt, ShownLife, NoRowOfAnEarlierRun, AnswerRows
<1> QED
  BY <1>1, LifeHolds, PTL

----------------------------------------------------------------------------
(* What is not in a cache file yet is still to be written by a goroutine.    *)
JobInv == \A p \in Procs, i \in 1..MaxQueries : setter[p][i].st = "ready" => setter[p][i].pos = 0

(* A goroutine will still write row j of file k.                             *)
Owes(w, k, j) == Writing(w, k) /\ w.pos < j /\ j <= Len(w.val)

(* File k, whose rows are s, on its way to being woven from the answers W.   *)
Declared(k, W) == \A p \in Procs, i \in 1..MaxQueries : Writing(setter[p][i], k) => setter[p][i].val \in W
LengthDue(k, W, s) ==
  \/ \E v \in W : Len(s) = Len(v)
  \/ \E p \in Procs, i \in 1..MaxQueries :
       Owes(setter[p][i], k, Len(setter[p][i].val)) /\ Len(s) <= Len(setter[p][i].val)
RowDue(k, W, r, j) ==
  \/ RowFrom(W, r, j)
  \/ r = Hole /\ \E p \in Procs, i \in 1..MaxQueries : Owes(setter[p][i], k, j)
Reached(k, W, s) ==
  \/ \E v \in W : Len(v) <= Len(s)
  \/ \E p \in Procs, i \in 1..MaxQueries : Writing(setter[p][i], k) /\ setter[p][i].pos <= Len(s)

Filled(k) ==
  /\ Declared(k, woven[k])
  /\ LengthDue(k, woven[k], cacheFile[k].rows)
  /\ \A j \in 1..Len(cacheFile[k].rows) : RowDue(k, woven[k], cacheFile[k].rows[j], j)
  /\ Reached(k, woven[k], cacheFile[k].rows)
FillInv == \A k \in Keys : Exists(k) /\ k \notin cut => Filled(k)

LEMMA FillInit == Init => JobInv /\ FillInv
  BY DEF Init, JobInv, FillInv, NoSetter, Exists

LEMMA JobNext ==
  ASSUME TypeOK, JobInv, [Next]_vars PROVE JobInv'
<1>1. ASSUME NEW p \in Procs, StepOf(p), NEW q \in Procs, NEW j \in 1..MaxQueries
      PROVE  setter'[q][j].st = "ready" => setter'[q][j].pos = 0
  <2>1. CASE Exit(p) /\ q = p
    BY <2>1 DEF Exit, TypeOK, SettersOK, NoSetter
  <2>2. CASE ParseTmp(p) /\ q = p /\ j = asked[p]
    BY <2>2, JobStarts DEF SameJob
  <2>3. CASE ~(Exit(p) /\ q = p) /\ ~(ParseTmp(p) /\ q = p /\ j = asked[p])
    <3>1. SameJob(setter'[q][j], setter[q][j])
      <4>1. CASE ParseTmp(p) /\ q = p
        BY <2>3, <4>1, JobStarts DEF SameJob
      <4>2. CASE ~(ParseTmp(p) /\ q = p)
        BY <1>1, <2>3, <4>2, JobsStay
      <4> QED
        BY <4>1, <4>2
    <3> QED
      BY <3>1 DEF SameJob, JobInv
  <2> QED
    BY <2>1, <2>2, <2>3
<1>2. ASSUME NEW p \in Procs, NEW i \in 1..MaxQueries, Save(p, i) PROVE JobInv'
  <2>1. setter'[p][i].st # "ready"
    <3>1. CASE SetDone(p, i) \/ SetFails(p, i)
      <4>1. setter'[p][i] = NoSetter
        BY <3>1 DEF SetDone, SetFails, TypeOK, SettersOK
      <4> QED
        BY <4>1 DEF NoSetter
    <3> QED
      BY <1>2, <3>1, SetCreateDoes, SetWriteDoes DEF Save
  <2> QED
    BY <1>2, <2>1, SaveStep DEF JobInv, NoSetter
<1>3. CASE Tick \/ UNCHANGED vars
  BY <1>3 DEF JobInv, Tick, vars
<1> QED
  BY <1>1, <1>2, <1>3, StepCases DEF JobInv, Quiet

(* A file that is left alone, with the goroutines that write it.             *)
LEMMA FilledStays ==
  ASSUME NEW k \in Keys, Filled(k), cacheFile'[k] = cacheFile[k], woven'[k] = woven[k],
         \A q \in Procs, j \in 1..MaxQueries :
           setter'[q][j] = setter[q][j] \/ (~Writing(setter[q][j], k) /\ ~Writing(setter'[q][j], k))
  PROVE  Filled(k)'
<1>1. \A q \in Procs, j \in 1..MaxQueries : Writing(setter[q][j], k) => setter'[q][j] = setter[q][j]
  OBVIOUS
<1>2. \A q \in Procs, j \in 1..MaxQueries : Writing(setter'[q][j], k) => setter'[q][j] = setter[q][j]
  OBVIOUS
<1>3. \A m : \A q \in Procs, j \in 1..MaxQueries : Owes(setter[q][j], k, m) => setter'[q][j] = setter[q][j]
  BY <1>1 DEF Owes
<1>4. Declared(k, woven[k])'
  BY <1>2 DEF Filled, Declared, Writing
<1>5. LengthDue(k, woven[k], cacheFile[k].rows)'
  BY <1>3 DEF Filled, LengthDue, Owes, Writing
<1>6. \A j \in 1..Len(cacheFile[k].rows) : RowDue(k, woven[k], cacheFile[k].rows[j], j)'
  BY <1>3 DEF Filled, RowDue, RowFrom, Owes, Writing
<1>7. Reached(k, woven[k], cacheFile[k].rows)'
  BY <1>1 DEF Filled, Reached, Writing
<1> QED
  BY <1>4, <1>5, <1>6, <1>7 DEF Filled

LEMMA FillStep ==
  ASSUME TypeOK, SlotInv, FillInv, NEW p \in Procs, StepOf(p) PROVE FillInv'
<1>1. ASSUME NEW k \in Keys, Exists(k), k \notin cut, cacheFile'[k] = cacheFile[k],
             woven'[k] = woven[k],
             \A q \in Procs, j \in 1..MaxQueries : setter'[q][j] = setter[q][j]
               \/ (~Writing(setter[q][j], k) /\ ~Writing(setter'[q][j], k))
      PROVE  Filled(k)'
  BY <1>1, FilledStays DEF FillInv
<1>2. cacheFile \in [Keys -> CacheFiles \cup {NoFile}] /\ setter \in [Procs -> [1..MaxQueries -> Setters]]
      /\ woven \in [Keys -> SUBSET Rows]
  BY DEF TypeOK, FilesOK, SettersOK
<1>3. CASE RemoveFile(p) /\ Unlinked(p)
  <2>1. victim[p] \in Keys
    BY <1>3 DEF RemoveFile, TypeOK, PlaceOK
  <2>2. cacheFile' = [cacheFile EXCEPT ![victim[p]] = NoFile] /\ setter' = Unlink(setter, victim[p])
        /\ cut' = cut \ {victim[p]} /\ woven' = [woven EXCEPT ![victim[p]] = {}]
    BY <1>3 DEF Unlinked
  <2>3. \A q \in Procs, j \in 1..MaxQueries :
          setter[q][j].key # victim[p] => setter'[q][j] = setter[q][j]
    BY <2>2 DEF Unlink
  <2>4. \A q \in Procs, j \in 1..MaxQueries :
          setter[q][j].key = victim[p] => setter'[q][j].key = victim[p]
    BY <2>2, UnlinkType DEF TypeOK
  <2>5. ASSUME NEW k \in Keys, k # victim[p]
        PROVE  cacheFile'[k] = cacheFile[k] /\ woven'[k] = woven[k]
               /\ \A q \in Procs, j \in 1..MaxQueries : setter'[q][j] = setter[q][j]
                    \/ (~Writing(setter[q][j], k) /\ ~Writing(setter'[q][j], k))
    BY <1>2, <2>1, <2>2, <2>3, <2>4, <2>5 DEF Writing
  <2>6. cacheFile'[victim[p]] = NoFile
    BY <1>2, <2>1, <2>2
  <2>7. ASSUME NEW k \in Keys, Exists(k)', k \notin cut' PROVE Filled(k)'
    <3>1. k # victim[p]
      BY <2>6, <2>7 DEF Exists
    <3>2. Exists(k) /\ k \notin cut
      BY <2>2, <2>5, <2>7, <3>1 DEF Exists
    <3> QED
      BY <1>1, <2>5, <3>1, <3>2
  <2> QED
    BY <2>7 DEF FillInv
<1>4. CASE ParseTmp(p)
  <2>1. setter[p][asked[p]].st = "none" /\ setter'[p][asked[p]].st = "ready"
    BY <1>4, JobStarts DEF ParseTmp, SlotInv, SlotAt, Free, Asking, SameJob
  <2>2. \A q \in Procs, j \in 1..MaxQueries : q # p => setter'[q][j] = setter[q][j]
    BY <1>2, <1>4 DEF ParseTmp
  <2>3. UNCHANGED <<cacheFile, cut, woven>>
    BY <1>4 DEF ParseTmp, files, traces
  <2>4. \A q \in Procs, j \in 1..MaxQueries :
          setter'[q][j] = setter[q][j] \/ (setter[q][j].st # "open" /\ setter'[q][j].st # "open")
    <3>1. \A j \in 1..MaxQueries : j # asked[p] => setter'[p][j] = setter[p][j]
      BY <1>4, JobStarts
    <3> QED
      BY <2>1, <2>2, <3>1
  <2> QED
    BY <1>1, <2>3, <2>4 DEF FillInv, Exists, Writing
<1>5. CASE Exit(p)
  <2>1. \A q \in Procs, j \in 1..MaxQueries : q # p => setter'[q][j] = setter[q][j]
    BY <1>2, <1>5 DEF Exit
  <2>2. cut \subseteq cut' /\ UNCHANGED <<cacheFile, woven>>
        /\ \A k \in Keys : (\E j \in 1..MaxQueries : Writing(setter[p][j], k)) => k \in cut'
    BY <1>5 DEF Exit, files
  <2>3. \A j \in 1..MaxQueries : setter'[p][j].st = "none"
    BY <1>2, <1>5 DEF Exit, NoSetter
  <2> QED
    BY <1>1, <2>1, <2>2, <2>3 DEF FillInv, Exists, Writing
<1>6. CASE ~(RemoveFile(p) /\ Unlinked(p)) /\ ~ParseTmp(p) /\ ~Exit(p)
  <2>1. UNCHANGED <<cacheFile, setter, cut, woven>>
    BY <1>6 DEF StepOf, Work, Start, Ask, Fail, ListCache, PurgeNext, RemoveFile, GivesUp, PurgeDone,
       Connect, StatCache, ReadCache, CallApi, CreateTmp, CopyRow, CopyDone, Show, files, traces
  <2> QED
    BY <1>1, <2>1 DEF FillInv, Exists
<1> QED
  BY <1>3, <1>4, <1>5, <1>6

LEMMA SetCreateFill ==
  ASSUME TypeOK, JobInv, FillInv, NEW p \in Procs, NEW i \in 1..MaxQueries, SetCreate(p, i)
  PROVE  FillInv'
<1> DEFINE w == setter[p][i]
           v == setter'[p][i]
<1>1. /\ w.key \in Keys /\ w.st = "ready" /\ cut' = cut \ {w.key} /\ w.val \in Rows
      /\ woven'[w.key] = {w.val} \cup OpenOn(w.key)
      /\ \A k \in Keys \ {w.key} : woven'[k] = woven[k]
      /\ v.st = "open" /\ v.linked /\ v.key = w.key /\ v.pos = 0 /\ v.val = w.val
      /\ \A k \in Keys : cacheFile'[k] = IF k = w.key THEN [rows |-> <<>>, mtime |-> now]
                                         ELSE cacheFile[k]
  <2>1. w.val \in Rows
    BY SetterType DEF TypeOK, Setters
  <2>2. w.st = "ready" => w.pos = 0
    BY DEF JobInv
  <2> QED
    BY <2>1, <2>2, SetCreateDoes
<1>2. \A q \in Procs, j \in 1..MaxQueries : q # p \/ j # i => setter'[q][j] = setter[q][j]
  BY SaveStep DEF Save
<1>3. ASSUME NEW k \in Keys, Exists(k)', k \notin cut' PROVE Filled(k)'
  <2>2. CASE k = w.key
    <3>1. cacheFile'[k].rows = <<>> /\ Len(cacheFile'[k].rows) = 0 /\ Writing(v, k)
          /\ woven'[k] = {w.val} \cup OpenOn(k)
      BY <1>1, <2>2, EmptyRows DEF Writing
    <3>2. Declared(k, woven[k])'
      <4>1. \A q \in Procs, j \in 1..MaxQueries : Writing(setter[q][j], k) => setter[q][j].val \in OpenOn(k)
        <5> SUFFICES ASSUME NEW q \in Procs, NEW j \in 1..MaxQueries, Writing(setter[q][j], k)
                     PROVE  setter[q][j].val \in OpenOn(k)
          OBVIOUS
        <5> DEFINE a == <<q, j>>
        <5>1. a \in Procs \X (1..MaxQueries) /\ setter[a[1]][a[2]] = setter[q][j]
          OBVIOUS
        <5> HIDE DEF a
        <5> QED
          BY <5>1 DEF OpenOn
      <4> QED
        BY <1>1, <1>2, <3>1, <4>1 DEF Declared
    <3>3. Len(w.val) \in Nat
      BY <1>1, LenProperties DEF Rows
    <3>4. LengthDue(k, woven[k], cacheFile[k].rows)'
      <4>1. CASE Len(w.val) = 0
        BY <3>1, <4>1 DEF LengthDue
      <4>2. CASE Len(w.val) > 0
        <5>1. Owes(v, k, Len(v.val)) /\ Len(cacheFile'[k].rows) <= Len(v.val)
          BY <1>1, <3>1, <3>3, <4>2 DEF Owes
        <5> QED
          BY <5>1 DEF LengthDue
      <4> QED
        BY <3>3, <4>1, <4>2
    <3>5. Reached(k, woven[k], cacheFile[k].rows)'
      BY <1>1, <3>1 DEF Reached
    <3> QED
      BY <3>1, <3>2, <3>4, <3>5 DEF Filled
  <2>3. CASE k # w.key
    <3>1. Filled(k) /\ cacheFile'[k] = cacheFile[k] /\ woven'[k] = woven[k]
      BY <1>1, <1>3, <2>3 DEF FillInv, Exists
    <3>2. ~Writing(w, k) /\ ~Writing(v, k)
      BY <1>1, <2>3 DEF Writing
    <3> QED
      BY <1>2, <3>1, <3>2, FilledStays
  <2> QED
    BY <2>2, <2>3
<1> QED
  BY <1>3 DEF FillInv

LEMMA SetWriteFill ==
  ASSUME TypeOK, FillInv, NEW p \in Procs, NEW i \in 1..MaxQueries, SetWrite(p, i)
  PROVE  FillInv'
<1> DEFINE w == setter[p][i]
           v == setter'[p][i]
<1>1. /\ w.key \in Keys /\ w.st = "open" /\ w.pos \in Nat /\ w.val \in Rows /\ w.pos < Len(w.val)
      /\ cut' = cut /\ woven' = woven
      /\ v.st = "open" /\ v.linked = w.linked /\ v.key = w.key /\ v.pos = w.pos + 1 /\ v.val = w.val
  BY SetWriteDoes
<1>2. \A q \in Procs, j \in 1..MaxQueries : q # p \/ j # i => setter'[q][j] = setter[q][j]
  BY SaveStep DEF Save
<1>3. ASSUME NEW k \in Keys, Exists(k)', k \notin cut' PROVE Filled(k)'
  <2>1. CASE ~w.linked \/ k # w.key
    <3>1. cacheFile'[k] = cacheFile[k]
      BY <2>1, SetWriteDoes
    <3>2. Filled(k)
      BY <1>1, <1>3, <3>1 DEF FillInv, Exists
    <3>3. ~Writing(w, k) /\ ~Writing(v, k)
      BY <1>1, <2>1 DEF Writing
    <3> QED
      BY <1>1, <1>2, <3>1, <3>2, <3>3, FilledStays
  <2>2. CASE w.linked /\ k = w.key
    <3> DEFINE s == cacheFile[k].rows
               n == w.pos + 1
               t == cacheFile'[k].rows
               W == woven[k]
    <3>1. Exists(k) /\ t = WriteAt(s, n, w.val[n])
      BY <2>2, SetWriteDoes
    <3>2. Filled(k) /\ s \in Rows
      BY <1>1, <1>3, <3>1, CacheFileType DEF FillInv, TypeOK
    <3>3. /\ n \in Nat \ {0} /\ w.val[n] \in Reports \cup {Hole} /\ Len(s) \in Nat
          /\ Len(w.val) \in Nat /\ n \in 1..Len(w.val)
      <4> HIDE DEF w
      <4> QED
        BY <1>1, <3>2, NextRowType, LenProperties DEF Rows
    <3>14. w.val \in Rows
      BY <1>1
    <3>4. /\ Len(t) = IF n > Len(s) THEN n ELSE Len(s)
          /\ \A j \in 1..Len(t) : t[j] = IF j = n THEN w.val[n] ELSE IF j <= Len(s) THEN s[j] ELSE Hole
      <4> HIDE DEF s, n, w, t
      <4> QED
        BY <3>1, <3>2, <3>3, Written DEF Rows
    <3>5. W \subseteq Rows /\ \A u \in W : Len(u) \in Nat
      BY LenProperties DEF TypeOK, FilesOK, Rows
    <3>6. Writing(w, k) /\ Writing(v, k) /\ w.val \in W /\ v.pos = n /\ w.pos = n - 1 /\ w.pos < n
      <4>1. Writing(w, k) /\ Writing(v, k)
        BY <1>1, <2>2 DEF Writing
      <4> QED
        BY <1>1, <3>2, <4>1 DEF Filled, Declared
    <3>7. \A q \in Procs, j \in 1..MaxQueries :
            /\ setter[q][j].pos \in Nat /\ Len(setter[q][j].val) \in Nat
            /\ Writing(setter[q][j], k) => setter[q][j].val \in W
      BY <3>2, SetterType, LenProperties DEF TypeOK, Setters, Rows, Filled, Declared
    <3> DEFINE NewLength ==
                 \/ \E u \in W : Len(t) = Len(u)
                 \/ \E q \in Procs, m \in 1..MaxQueries :
                      Owes(setter'[q][m], k, Len(setter'[q][m].val)) /\ Len(t) <= Len(setter'[q][m].val)
               NewRow(j) ==
                 \/ RowFrom(W, t[j], j)
                 \/ t[j] = Hole /\ \E q \in Procs, m \in 1..MaxQueries : Owes(setter'[q][m], k, j)
               NewReach ==
                 \/ \E u \in W : Len(u) <= Len(t)
                 \/ \E q \in Procs, m \in 1..MaxQueries :
                      Writing(setter'[q][m], k) /\ setter'[q][m].pos <= Len(t)
    <3> HIDE DEF n, s, t
    <3>8. Declared(k, W)'
      BY <1>1, <1>2, <3>6, <3>7 DEF Declared
    <3>9. NewLength
      <4>1. CASE n < Len(w.val) /\ Len(t) <= Len(w.val)
        <5>1. Owes(v, k, Len(v.val)) /\ Len(t) <= Len(v.val)
          BY <1>1, <3>3, <3>6, <4>1 DEF Owes
        <5> QED
          BY <5>1
      <4>2. CASE n = Len(w.val) /\ Len(t) = n
        BY <1>1, <3>6, <4>2
      <4>3. CASE \E u \in W : Len(s) = Len(u) /\ Len(t) = Len(s)
        BY <1>1, <4>3
      <4>4. CASE /\ Len(t) = Len(s)
                 /\ \E q \in Procs, j \in 1..MaxQueries :
                      /\ q # p \/ j # i
                      /\ Owes(setter[q][j], k, Len(setter[q][j].val)) /\ Len(s) <= Len(setter[q][j].val)
        <5>1. PICK q \in Procs, j \in 1..MaxQueries :
                      /\ q # p \/ j # i
                      /\ Owes(setter[q][j], k, Len(setter[q][j].val)) /\ Len(s) <= Len(setter[q][j].val)
          BY <4>4
        <5>2. setter'[q][j] = setter[q][j]
          BY <1>2, <5>1
        <5>3. Owes(setter'[q][j], k, Len(setter'[q][j].val)) /\ Len(t) <= Len(setter'[q][j].val)
          BY <4>4, <5>1, <5>2 DEF Owes, Writing
        <5> QED
          BY <5>3
      <4>5. LengthDue(k, W, s)
        BY <3>2 DEF Filled, s
      <4>6. CASE n > Len(s)
        BY <3>3, <3>4, <4>1, <4>2, <4>6
      <4>7. CASE n <= Len(s)
        <5>1. Len(t) = Len(s)
          BY <3>3, <3>4, <4>7
        <5>2. CASE Len(s) <= Len(w.val)
          BY <3>3, <4>1, <4>2, <4>7, <5>1, <5>2
        <5>3. CASE ~(Len(s) <= Len(w.val))
          BY <4>3, <4>4, <4>5, <5>1, <5>3 DEF LengthDue
        <5> QED
          BY <5>2, <5>3
      <4> QED
        BY <3>3, <4>6, <4>7
    <3>10. ASSUME NEW j \in 1..Len(t) PROVE NewRow(j)
      <4>0. j \in Nat
        BY <3>3, <3>4
      <4>1. CASE j = n
        <5>1. t[j] = w.val[j] /\ j <= Len(w.val)
          BY <3>3, <3>4, <4>1
        <5>2. RowFrom(W, t[j], j)
          BY <3>6, <5>1 DEF RowFrom
        <5> QED
          BY <5>2
      <4>2. CASE j # n /\ j <= Len(s)
        <5>1. t[j] = s[j] /\ j \in 1..Len(s)
          BY <3>3, <3>4, <4>2
        <5>2. RowDue(k, W, s[j], j)
          BY <3>2, <5>1 DEF Filled, s
        <5>3. CASE RowFrom(W, s[j], j)
          BY <5>1, <5>3
        <5>4. ASSUME s[j] = Hole, NEW q \in Procs, NEW m \in 1..MaxQueries, Owes(setter[q][m], k, j)
              PROVE  NewRow(j)
          <6>1. Owes(setter'[q][m], k, j)
            <7>1. CASE q = p /\ m = i
              <8>1. w.pos < j /\ j <= Len(w.val)
                BY <5>4, <7>1 DEF Owes
              <8>2. n < j
                BY <3>3, <3>6, <4>0, <4>2, <8>1
              <8> QED
                BY <1>1, <3>6, <7>1, <8>1, <8>2 DEF Owes
            <7>2. CASE ~(q = p /\ m = i)
              <8>1. setter'[q][m] = setter[q][m]
                BY <1>2, <7>2
              <8> QED
                BY <5>4, <8>1 DEF Owes, Writing
            <7> QED
              BY <7>1, <7>2
          <6> QED
            BY <5>1, <5>4, <6>1
        <5> QED
          BY <5>2, <5>3, <5>4 DEF RowDue
      <4>3. CASE j # n /\ j > Len(s)
        <5>1. t[j] = Hole /\ j < n
          BY <3>3, <3>4, <4>0, <4>3
        <5>2. ASSUME NEW u \in W, Len(u) <= Len(s) PROVE NewRow(j)
          <6>1. Len(u) < j
            BY <3>3, <3>5, <4>0, <4>3, <5>2
          <6> QED
            BY <5>1, <6>1 DEF RowFrom
        <5>3. ASSUME NEW q \in Procs, NEW m \in 1..MaxQueries, Writing(setter[q][m], k),
                     setter[q][m].pos <= Len(s)
              PROVE  NewRow(j)
          <6>1. setter[q][m].pos < j /\ setter[q][m].pos \in Nat /\ Len(setter[q][m].val) \in Nat
                /\ setter[q][m].val \in W
            BY <3>3, <3>7, <4>0, <4>3, <5>3
          <6>2. q # p \/ m # i
            BY <3>3, <3>6, <4>0, <5>1, <6>1
          <6>3. setter'[q][m] = setter[q][m]
            BY <1>2, <6>2
          <6>4. CASE j <= Len(setter[q][m].val)
            <7>1. Owes(setter'[q][m], k, j)
              BY <5>3, <6>1, <6>3, <6>4 DEF Owes, Writing
            <7> QED
              BY <5>1, <7>1
          <6>5. CASE Len(setter[q][m].val) < j
            BY <5>1, <6>1, <6>5 DEF RowFrom
          <6> QED
            BY <4>0, <6>1, <6>4, <6>5
        <5>4. Reached(k, W, s)
          BY <3>2 DEF Filled, s
        <5> QED
          BY <5>2, <5>3, <5>4 DEF Reached
      <4> QED
        BY <3>3, <4>0, <4>1, <4>2, <4>3
    <3>11. NewReach
      <4>1. Reached(k, W, s)
        BY <3>2 DEF Filled, s
      <4>2. Len(s) <= Len(t) /\ n <= Len(t) /\ Len(t) \in Nat
        BY <3>3, <3>4
      <4>3. ASSUME NEW u \in W, Len(u) <= Len(s) PROVE NewReach
        <5>1. Len(u) <= Len(t)
          BY <3>3, <3>5, <4>2, <4>3
        <5> QED
          BY <1>1, <5>1
      <4>4. ASSUME NEW q \in Procs, NEW m \in 1..MaxQueries, Writing(setter[q][m], k),
                   setter[q][m].pos <= Len(s)
            PROVE  NewReach
        <5>1. Writing(setter'[q][m], k) /\ setter'[q][m].pos <= Len(t)
          <6>1. CASE q = p /\ m = i
            BY <3>6, <4>2, <6>1
          <6>2. CASE ~(q = p /\ m = i)
            <7>1. setter'[q][m] = setter[q][m] /\ setter[q][m].pos \in Nat
              BY <1>2, <3>7, <6>2
            <7> QED
              BY <3>3, <4>2, <4>4, <7>1 DEF Writing
          <6> QED
            BY <6>1, <6>2
        <5> QED
          BY <5>1
      <4> QED
        BY <4>1, <4>3, <4>4 DEF Reached
    <3> QED
      BY <1>1, <3>8, <3>9, <3>10, <3>11 DEF Filled, LengthDue, RowDue, RowFrom, Reached, t
  <2> QED
    BY <2>1, <2>2
<1> QED
  BY <1>3 DEF FillInv

LEMMA SetDoneFill ==
  ASSUME TypeOK, FillInv, NEW p \in Procs, NEW i \in 1..MaxQueries, SetDone(p, i)
  PROVE  FillInv'
<1> DEFINE w == setter[p][i]
<1>1. UNCHANGED <<cacheFile, cut, woven>> /\ w.st = "open" /\ w.pos = Len(w.val)
      /\ ~Writing(setter'[p][i], w.key) /\ setter'[p][i].st = "none"
  BY DEF SetDone, files, traces, Writing, NoSetter, TypeOK, SettersOK
<1>2. \A q \in Procs, j \in 1..MaxQueries : q # p \/ j # i => setter'[q][j] = setter[q][j]
  BY SaveStep DEF Save
<1>3. Len(w.val) \in Nat
  BY SetterType, LenProperties DEF TypeOK, Setters, Rows
<1>4. ASSUME NEW k \in Keys, Filled(k) PROVE Filled(k)'
  <2> DEFINE s == cacheFile[k].rows
             W == woven[k]
  <2>1. ~Writing(setter'[p][i], k) /\ \A j \in Nat : ~(j <= Len(w.val) /\ w.pos < j)
    <3>1. ~Writing(setter'[p][i], k)
      BY <1>1 DEF Writing
    <3>2. \A j \in Nat : ~(j <= Len(w.val) /\ w.pos < j)
      <4> HIDE DEF w
      <4> QED
        BY <1>1, <1>3
    <3> QED
      BY <3>1, <3>2
  <2>2. Declared(k, W)'
    BY <1>1, <1>2, <1>4, <2>1 DEF Filled, Declared
  <2>3. \A j \in Nat : ~Owes(w, k, j)
    BY <2>1 DEF Owes
  <2>4. LengthDue(k, W, s)'
    <3>1. ~Owes(w, k, Len(w.val))
      BY <1>3, <2>3
    <3>2. \A q \in Procs, j \in 1..MaxQueries :
            Owes(setter[q][j], k, Len(setter[q][j].val)) => setter'[q][j] = setter[q][j]
      BY <1>2, <3>1
    <3> QED
      BY <1>1, <1>4, <3>2 DEF Filled, LengthDue, Owes, Writing
  <2>5. \A j \in 1..Len(s) : RowDue(k, W, s[j], j)'
    <3> SUFFICES ASSUME NEW j \in 1..Len(s) PROVE RowDue(k, W, s[j], j)'
      BY <1>1
    <3>1. RowDue(k, W, s[j], j) /\ j \in Nat
      BY <1>4 DEF Filled
    <3>2. \A q \in Procs, m \in 1..MaxQueries : Owes(setter[q][m], k, j) => setter'[q][m] = setter[q][m]
      BY <1>2, <2>3, <3>1
    <3> QED
      BY <1>1, <3>1, <3>2 DEF RowDue, RowFrom, Owes, Writing
  <2>6. Reached(k, W, s)'
    <3>1. CASE Writing(w, k)
      BY <1>1, <1>2, <1>4, <3>1 DEF Filled, Declared, Reached, Writing
    <3>2. CASE ~Writing(w, k)
      BY <1>1, <1>2, <1>4, <3>2 DEF Filled, Reached, Writing
    <3> QED
      BY <3>1, <3>2
  <2> QED
    BY <1>1, <2>2, <2>4, <2>5, <2>6 DEF Filled
<1> QED
  BY <1>1, <1>4 DEF FillInv, Exists

LEMMA SetFailsFill ==
  ASSUME TypeOK, FillInv, NEW p \in Procs, NEW i \in 1..MaxQueries, SetFails(p, i)
  PROVE  FillInv'
<1>1. /\ UNCHANGED <<cacheFile, woven>> /\ cut \subseteq cut' /\ setter'[p][i].st = "none"
      /\ \A k \in Keys : Writing(setter[p][i], k) => k \in cut'
  BY DEF SetFails, files, NoSetter, TypeOK, SettersOK
<1>2. \A q \in Procs, j \in 1..MaxQueries : q # p \/ j # i => setter'[q][j] = setter[q][j]
  BY SaveStep DEF Save
<1>3. ASSUME NEW k \in Keys, Exists(k)', k \notin cut' PROVE Filled(k)'
  <2>1. Exists(k) /\ Filled(k)
    BY <1>1, <1>3 DEF FillInv, Exists
  <2>2. ~Writing(setter[p][i], k) /\ ~Writing(setter'[p][i], k)
    BY <1>1, <1>3 DEF Writing
  <2> QED
    BY <1>1, <1>2, <2>1, <2>2, FilledStays
<1> QED
  BY <1>3 DEF FillInv

LEMMA FillNext ==
  ASSUME TypeOK, SlotInv, JobInv, FillInv, [Next]_vars PROVE FillInv'
<1>1. ASSUME NEW p \in Procs, StepOf(p) PROVE FillInv'
  BY <1>1, FillStep
<1>2. ASSUME NEW p \in Procs, NEW i \in 1..MaxQueries, Save(p, i) PROVE FillInv'
  BY <1>2, SetCreateFill, SetWriteFill, SetDoneFill, SetFailsFill DEF Save
<1>3. CASE Tick \/ UNCHANGED vars
  <2>1. UNCHANGED <<cacheFile, setter, cut, woven>>
    BY <1>3 DEF Tick, vars, files, traces
  <2> QED
    BY <2>1, FilledStays DEF FillInv, Exists
<1> QED
  BY <1>1, <1>2, <1>3, StepCases DEF Quiet

(* Whatever the number of processes and of goroutines that write one over    *)
(* the other, a cache file that nobody is writing any more, and neither the  *)
(* end of a process nor a failed write has cut, is woven from the answers of *)
(* those that had it open at once, with holes only behind a shorter one.     *)
THEOREM SettledIsWovenHolds == Spec => []SettledIsWoven
<1>1. Init => SlotInv /\ JobInv /\ FillInv
  BY SlotInit, FillInit
<1>2. TypeOK /\ SlotInv /\ JobInv /\ FillInv /\ [Next]_vars => SlotInv' /\ JobInv' /\ FillInv'
  BY SlotNext, JobNext, FillNext
<1>3. TypeOK /\ FillInv => SettledIsWoven
  <2> SUFFICES ASSUME TypeOK, FillInv, NEW k \in Keys, Settled(k), k \notin cut
               PROVE  /\ \E v \in woven[k] : Len(cacheFile[k].rows) = Len(v)
                      /\ \A i \in DOMAIN cacheFile[k].rows : RowFrom(woven[k], cacheFile[k].rows[i], i)
    BY DEF SettledIsWoven
  <2>1. Exists(k) /\ cacheFile[k].rows \in Rows /\ Filled(k)
    BY CacheFileType DEF Settled, TypeOK, FillInv
  <2>2. DOMAIN cacheFile[k].rows = 1..Len(cacheFile[k].rows)
    BY <2>1, LenProperties DEF Rows
  <2>3. \A p \in Procs, i \in 1..MaxQueries : ~Writing(setter[p][i], k)
    BY DEF Settled
  <2> QED
    BY <2>1, <2>2, <2>3 DEF Filled, LengthDue, RowDue, Owes
<1> QED
  BY <1>1, <1>2, <1>3, TypeCorrect, PTL DEF Spec
=============================================================================
