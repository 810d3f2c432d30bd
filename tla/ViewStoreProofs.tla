-------------------------- MODULE ViewStoreProofs --------------------------
(* Proofs about ViewStore: typing, no view twice, a file that can always be  *)
(* loaded, and created views that are found.                                 *)
EXTENDS ViewStore, SequenceTheorems, TLAPS

Entries == Seq(AllViews)

(* Two lists of the same views, but for their clauses. *)
Alike(s, t) ==
  /\ Len(s) = Len(t)
  /\ \A i \in 1..Len(s) : s[i].name = t[i].name /\ s[i].src = t[i].src /\ s[i].cols = t[i].cols

LEMMA AlikeLoadable ==
  ASSUME NEW s \in Entries, NEW t \in Entries, Alike(s, t), NEW v, Loadable(v, s)
  PROVE  Loadable(v, t)
<1>1. DOMAIN s = 1..Len(s) /\ DOMAIN t = 1..Len(s) /\ Len(s) \in Nat
  BY LenProperties DEF Alike, Entries
<1> SUFFICES ASSUME NEW i \in 1..Len(s) PROVE Founded(v, t, i, t[i])
  BY <1>1 DEF Loadable
<1>2. Founded(v, s, i, s[i])
  BY <1>1 DEF Loadable
<1>3. \A k \in 1..(i - 1) : k \in 1..Len(s) /\ \A j \in 1..(k - 1) : j \in 1..Len(s)
  BY <1>1
<1>4. Known(v, t, i, t[i].src)
  BY <1>2, <1>3 DEF Founded, Known, Alike
<1>5. ASSUME NEW c \in t[i].cols PROVE HasField(v, t, i, t[i].src, c)
  BY <1>2, <1>3, <1>5 DEF Founded, HasField, Alike
<1> QED
  BY <1>4, <1>5 DEF Founded

LEMMA AlikeDistinct ==
  ASSUME NEW s \in Entries, NEW t \in Entries, Alike(s, t), Distinct(s)
  PROVE  Distinct(t)
<1>1. DOMAIN s = 1..Len(s) /\ DOMAIN t = 1..Len(s)
  BY LenProperties DEF Alike, Entries
<1> QED
  BY <1>1 DEF Distinct, Alike

LEMMA RereadAlike ==
  ASSUME NEW s \in Entries
  PROVE  Reread(s) \in Entries /\ Alike(s, Reread(s))
<1>1. DOMAIN s = 1..Len(s) /\ Len(s) \in Nat /\ \A i \in 1..Len(s) : s[i] \in AllViews
  BY LenProperties, ElementOfSeq DEF Entries
<1>2. \A i \in 1..Len(s) : Reloaded(s[i]) \in AllViews
  BY <1>1 DEF AllViews, Clauses, Reloaded
<1>3. Reread(s) \in [1..Len(s) -> AllViews]
  BY <1>1, <1>2 DEF Reread
<1>4. Reread(s) \in Entries /\ Len(Reread(s)) = Len(s)
  BY <1>1, <1>3, LenProperties DEF Entries
<1>5. \A i \in 1..Len(s) : Reread(s)[i] = Reloaded(s[i])
  BY <1>1 DEF Reread
<1> QED
  BY <1>1, <1>4, <1>5 DEF Alike, AllViews, Reloaded

(* A prefix is a list of its own, and keeps what the whole has. *)
LEMMA PrefixProperties ==
  ASSUME NEW s \in Entries, NEW p \in Prefixes(s)
  PROVE  /\ p \in Entries /\ (Distinct(s) => Distinct(p))
         /\ \A v : Loadable(v, s) => Loadable(v, p)
<1>1. PICK n \in 0..Len(s) : p = SubSeq(s, 1, n)
  BY DEF Prefixes
<1>2. Len(s) \in Nat /\ DOMAIN s = 1..Len(s) /\ \A i \in 1..Len(s) : s[i] \in AllViews
  BY LenProperties, ElementOfSeq DEF Entries
<1>3. p \in Entries /\ Len(p) = n /\ \A i \in 1..n : p[i] = s[i]
  BY <1>1, <1>2 DEF Entries
<1>4. DOMAIN p = 1..n
  BY <1>3, LenProperties DEF Entries
<1>5. ASSUME NEW v, Loadable(v, s) PROVE Loadable(v, p)
  <2> SUFFICES ASSUME NEW i \in 1..n PROVE Founded(v, p, i, p[i])
    BY <1>4 DEF Loadable
  <2>1. Founded(v, s, i, p[i])
    BY <1>2, <1>3, <1>5 DEF Loadable
  <2>2. \A k \in 1..(i - 1) : p[k] = s[k] /\ \A j \in 1..(k - 1) : p[j] = s[j]
    BY <1>2, <1>3
  <2> QED
    BY <2>1, <2>2 DEF Founded, Known, HasField
<1> QED
  BY <1>2, <1>3, <1>4, <1>5 DEF Distinct

(* What a file is read as are views of it, if not all of them. *)
LEMMA ReadingProperties ==
  ASSUME NEW f \in [views : Entries, end : Endings], NEW r \in Readings(f)
  PROVE  /\ r \in Entries /\ (Distinct(f.views) => Distinct(r))
         /\ \A v : Loadable(v, f.views) => Loadable(v, r)
<1>1. CASE f.end = "whole"
  BY <1>1 DEF Readings
<1>2. CASE f.end # "whole"
  <2> DEFINE cut(s) == [i \in DOMAIN s |-> IF i < Len(s) THEN s[i]
                                          ELSE [s[i] EXCEPT !.clause = "plain"]]
  <2>1. PICK s \in Prefixes(f.views) : r \in {s, cut(s)}
    BY <1>2 DEF Readings
  <2>2. s \in Entries /\ (Distinct(f.views) => Distinct(s))
        /\ \A v : Loadable(v, f.views) => Loadable(v, s)
    BY <2>1, PrefixProperties
  <2>3. DOMAIN s = 1..Len(s) /\ Len(s) \in Nat /\ \A i \in 1..Len(s) : s[i] \in AllViews
    BY <2>2, LenProperties, ElementOfSeq DEF Entries
  <2>4. \A i \in 1..Len(s) : [s[i] EXCEPT !.clause = "plain"] \in AllViews
    BY <2>3 DEF AllViews, Clauses
  <2>5. cut(s) \in [1..Len(s) -> AllViews]
    BY <2>3, <2>4
  <2>6. cut(s) \in Entries /\ Len(cut(s)) = Len(s)
    BY <2>3, <2>5, LenProperties DEF Entries
  <2>7. \A i \in 1..Len(s) : cut(s)[i] = s[i] \/ cut(s)[i] = [s[i] EXCEPT !.clause = "plain"]
    BY <2>3
  <2> HIDE DEF cut
  <2>8. Alike(s, cut(s))
    BY <2>3, <2>6, <2>7 DEF Alike, AllViews
  <2> QED
    BY <2>1, <2>2, <2>6, <2>8, AlikeDistinct, AlikeLoadable
<1> QED
  BY <1>1, <1>2

(* What one version finds, a more complete one finds.                        *)
LEMMA CompleteLoads ==
  ASSUME NEW p \in Procs, NEW q \in Procs, Complete(q), NEW s \in Entries, NEW i \in Nat,
         i <= Len(s) + 1, NEW d \in AllViews, Founded(VersionOf[p], s, i, d)
  PROVE  Founded(VersionOf[q], s, i, d)
<1>1. \A t \in Tables : ColsOf[VersionOf[p]][t] \subseteq ColsOf[VersionOf[q]][t]
  BY DEF Complete
<1>2. \A k \in 1..(i - 1) : s[k].name \in Names
  <2> TAKE k \in 1..(i - 1)
  <2>1. k \in 1..Len(s) /\ Len(s) \in Nat
    BY LenProperties DEF Entries
  <2>2. s[k] \in AllViews
    BY <2>1, ElementOfSeq DEF Entries
  <2> QED
    BY <2>2 DEF AllViews
<1>3. CASE HasTable(VersionOf[p], d.src)
  BY <1>1, <1>3 DEF Founded, Known, HasField, HasTable
<1>4. CASE ~HasTable(VersionOf[p], d.src)
  <2>1. d.src \in Names
    BY <1>2, <1>4 DEF Founded, Known
  <2>2. ~HasTable(VersionOf[q], d.src)
    BY <2>1, NameAssumption DEF HasTable
  <2> QED
    BY <1>4, <2>2 DEF Founded, Known, HasField
<1> QED
  BY <1>3, <1>4

LEMMA CompleteLoadsAll ==
  ASSUME NEW p \in Procs, NEW q \in Procs, Complete(q), NEW s \in Entries, Loadable(VersionOf[p], s)
  PROVE  Loadable(VersionOf[q], s)
<1>1. DOMAIN s = 1..Len(s) /\ Len(s) \in Nat /\ \A i \in 1..Len(s) : s[i] \in AllViews
  BY LenProperties, ElementOfSeq DEF Entries
<1>2. ASSUME NEW i \in 1..Len(s) PROVE Founded(VersionOf[q], s, i, s[i])
  <2>1. i \in Nat /\ i <= Len(s) + 1 /\ s[i] \in AllViews /\ Founded(VersionOf[p], s, i, s[i])
    BY <1>1 DEF Loadable
  <2> QED
    BY <2>1, CompleteLoads
<1> QED
  BY <1>1, <1>2 DEF Loadable

(* A view whose source and columns are found may be added to the list. *)
LEMMA AddedProperties ==
  ASSUME NEW s \in Entries, NEW d \in AllViews, NEW t, t = Append(s, d)
  PROVE  /\ t \in Entries /\ t # <<>>
         /\ Distinct(s) /\ d.name \notin NamesOf(s) => Distinct(t)
         /\ \A v \in Versions :
              Loadable(v, s) /\ Founded(v, s, Len(s) + 1, d) => Loadable(v, t)
<1>1. Len(s) \in Nat /\ DOMAIN s = 1..Len(s)
  BY LenProperties DEF Entries
<1>2. t \in Entries /\ Len(t) = Len(s) + 1 /\ t[Len(s) + 1] = d
      /\ \A i \in 1..Len(s) : t[i] = s[i]
  BY <1>1 DEF Entries
<1>3. DOMAIN t = 1..(Len(s) + 1)
  BY <1>2, LenProperties DEF Entries
<1>4. t # <<>>
  BY <1>1, <1>2
<1>5. ASSUME Distinct(s), d.name \notin NamesOf(s) PROVE Distinct(t)
  BY <1>1, <1>2, <1>3, <1>5 DEF Distinct, NamesOf
<1>6. ASSUME NEW v \in Versions, Loadable(v, s), Founded(v, s, Len(s) + 1, d) PROVE Loadable(v, t)
  <2>1. ASSUME NEW i \in 1..(Len(s) + 1), NEW e, Founded(v, s, i, e)
        PROVE  Founded(v, t, i, e)
    <3>1. \A k \in 1..(i - 1) : t[k] = s[k] /\ \A j \in 1..(k - 1) : t[j] = s[j]
      BY <1>1, <1>2
    <3> QED
      BY <2>1, <3>1 DEF Founded, Known, HasField
  <2>2. \A i \in 1..(Len(s) + 1) : Founded(v, s, i, t[i])
    <3> TAKE i \in 1..(Len(s) + 1)
    <3>1. CASE i = Len(s) + 1
      BY <3>1, <1>2, <1>6
    <3>2. CASE i \in 1..Len(s)
      BY <3>2, <1>1, <1>2, <1>6 DEF Loadable
    <3> QED
      BY <3>1, <3>2, <1>1
  <2> QED
    BY <2>1, <2>2, <1>3 DEF Loadable
<1>7. \A v \in Versions : Loadable(v, s) /\ Founded(v, s, Len(s) + 1, d) => Loadable(v, t)
  BY <1>6
<1> QED
  BY <1>2, <1>4, <1>5, <1>7

LEMMA ReplacedProperties ==
  ASSUME NEW s \in Entries, NEW d \in AllViews
  PROVE  Replaced(s, d) \in Entries /\ (Distinct(s) => Distinct(Replaced(s, d)))
<1>1. DOMAIN s = 1..Len(s) /\ Len(s) \in Nat /\ \A i \in 1..Len(s) : s[i] \in AllViews
  BY LenProperties, ElementOfSeq DEF Entries
<1>2. Replaced(s, d) \in [1..Len(s) -> AllViews]
  BY <1>1 DEF Replaced
<1>3. Replaced(s, d) \in Entries
  BY <1>1, <1>2 DEF Entries
<1>4. \A i \in 1..Len(s) : Replaced(s, d)[i].name = s[i].name
  BY <1>1 DEF Replaced
<1> QED
  BY <1>1, <1>2, <1>3, <1>4 DEF Distinct

----------------------------------------------------------------------------
(* No list is written or kept that has a view twice. *)
DistinctInv ==
  "overlap" \notin faults =>
    /\ \A p \in Procs : Distinct(vw[p])
    /\ \A p \in Procs : pc[p] \in {"open", "write"} => Distinct(next[p])
    /\ file # NoFile => Distinct(file.views)

(* A list can be loaded, except the one in memory while the one it replaces  *)
(* is being written.                                                         *)
LoadInv ==
  faults \cap {"failed", "overlap"} = {} =>
    \A q \in Procs : Complete(q) =>
      /\ \A p \in Procs : IF pc[p] \in {"open", "write"}
                            THEN Loadable(VersionOf[q], next[p])
                            ELSE Loadable(VersionOf[q], vw[p])
      /\ file # NoFile => Loadable(VersionOf[q], file.views)

(* The remains of another list are there after an overlap only.              *)
EndInv == file # NoFile /\ file.end = "mixed" => "overlap" \in faults

Inv == TypeOK /\ DistinctInv /\ LoadInv /\ EndInv /\ PanicHasAReason

LEMMA EmptyList ==
  <<>> \in Entries /\ Distinct(<<>>) /\ \A v : Loadable(v, <<>>)
<1>1. <<>> \in Entries /\ DOMAIN <<>> = {}
  BY EmptySeq DEF Entries
<1> QED
  BY <1>1 DEF Distinct, Loadable

LEMMA InitInv == Init => Inv
<1> SUFFICES ASSUME Init PROVE Inv
  OBVIOUS
<1> USE BoundAssumption, EmptyList DEF Init
<1>1. TypeOK
  BY DEF TypeOK, Entries
<1>2. DistinctInv /\ LoadInv /\ EndInv /\ PanicHasAReason
  BY DEF DistinctInv, LoadInv, EndInv, PanicHasAReason
<1> QED
  BY <1>1, <1>2 DEF Inv

(* LoadViews: what is loaded is a reading of the file, and was checked.      *)
LEMMA LoadStep ==
  ASSUME Inv, NEW p \in Procs, LoadViews(p) PROVE Inv'
<1> USE DEF Inv, Ends
<1>1. file # NoFile => file \in [views : Entries, end : Endings]
  BY DEF TypeOK, WrittenFiles, Entries
<1>6. /\ faults' \subseteq Faults /\ faults \subseteq faults'
      /\ ("overlap" \in faults') = ("overlap" \in faults)
      /\ faults' \cap {"failed", "overlap"} = faults \cap {"failed", "overlap"}
  <2>1. PICK T \in SUBSET {"shared", "unread"} : faults' = faults \cup T
    <3>1. CASE Shared(p)
      BY <3>1 DEF LoadViews, Befalls
    <3>2. CASE ~Shared(p)
      BY <3>2 DEF LoadViews, Befalls
    <3> QED
      BY <3>1, <3>2
  <2> QED
    BY <2>1 DEF TypeOK, Faults
<1>7. /\ pc[p] = "off" /\ UNCHANGED <<file, next, stmt, acked, creates>>
      /\ unsaved' = [unsaved EXCEPT ![p] = {}]
  BY DEF LoadViews
<1>8. EndInv'
  BY <1>6, <1>7 DEF EndInv
<1>2. ASSUME NEW l \in Entries, Loadable(VersionOf[p], l),
             "overlap" \notin faults => Distinct(l), vw' = [vw EXCEPT ![p] = l],
             pc' = [pc EXCEPT ![p] = "ready"], result' = [result EXCEPT ![p] = "none"]
      PROVE  Inv'
  <2>1. TypeOK'
    BY <1>2, <1>6, <1>7 DEF TypeOK, Entries
  <2>2. DistinctInv'
    BY <1>2, <1>6, <1>7 DEF DistinctInv, TypeOK
  <2>3. \A q \in Procs : Complete(q) => Loadable(VersionOf[q], l)
    BY <1>2, CompleteLoadsAll
  <2>4. LoadInv'
    BY <1>2, <1>6, <1>7, <2>3 DEF LoadInv, TypeOK
  <2>5. PanicHasAReason'
    BY <1>2, <1>6 DEF PanicHasAReason, TypeOK
  <2> QED
    BY <2>1, <2>2, <2>4, <2>5, <1>8
<1>3. CASE vw' = [vw EXCEPT ![p] = <<>>] /\ Ends(p, "ready", "none")
  BY <1>2, <1>3, EmptyList
<1>4. CASE /\ file # NoFile /\ Ends(p, "ready", "none")
           /\ \E r \in Readings(file) :
                Loadable(VersionOf[p], r) /\ vw' = [vw EXCEPT ![p] = Reread(r)]
  <2>1. PICK r \in Readings(file) :
          Loadable(VersionOf[p], r) /\ vw' = [vw EXCEPT ![p] = Reread(r)]
    BY <1>4
  <2>2. r \in Entries /\ (Distinct(file.views) => Distinct(r))
    BY <1>1, <1>4, ReadingProperties
  <2>3. Reread(r) \in Entries /\ Alike(r, Reread(r))
    BY <2>2, RereadAlike
  <2>4. Loadable(VersionOf[p], Reread(r)) /\ (Distinct(r) => Distinct(Reread(r)))
    BY <2>1, <2>2, <2>3, AlikeLoadable, AlikeDistinct
  <2>5. "overlap" \notin faults => Distinct(Reread(r))
    BY <1>4, <2>2, <2>4 DEF DistinctInv
  <2> QED
    BY <1>2, <1>4, <2>1, <2>3, <2>4, <2>5
<1>5. ASSUME vw' = vw, NEW l \in {"off", "panic"}, NEW r \in {"unreadable", "none"}, Ends(p, l, r),
             PanicHasAReason'
      PROVE  Inv'
  <2>1. TypeOK'
    BY <1>5, <1>6, <1>7 DEF TypeOK
  <2>2. DistinctInv'
    BY <1>5, <1>6, <1>7 DEF DistinctInv, TypeOK
  <2>3. LoadInv'
    BY <1>5, <1>6, <1>7 DEF LoadInv, TypeOK
  <2> QED
    BY <2>1, <2>2, <2>3, <1>5, <1>8
<1>9. CASE vw' = vw /\ Ends(p, "off", "unreadable")
  <2>1. PanicHasAReason'
    BY <1>9, <1>6 DEF PanicHasAReason, TypeOK
  <2> QED
    BY <1>5, <1>9, <2>1
<1>10. CASE /\ vw' = vw /\ Ends(p, "panic", "none") /\ file # NoFile
            /\ \/ file.end = "mixed"
               \/ \E s \in Readings(file) : ~Loadable(VersionOf[p], s)
  <2>1. ASSUME Complete(p), faults \cap {"failed", "overlap"} = {} PROVE FALSE
    <3>1. Loadable(VersionOf[p], file.views)
      BY <1>10, <2>1 DEF LoadInv
    <3>2. file.end # "mixed"
      BY <1>10, <2>1 DEF EndInv
    <3> QED
      BY <1>1, <1>10, <3>1, <3>2, ReadingProperties
  <2>2. PanicHasAReason'
    BY <1>10, <1>6, <2>1 DEF PanicHasAReason, TypeOK
  <2> QED
    BY <1>5, <1>10, <2>2
<1> QED
  BY <1>3, <1>4, <1>9, <1>10 DEF LoadViews

(* CreateView: the list to write is checked, and keeps every name once; the  *)
(* one in memory keeps its names, but may lose what loading needs.           *)
LEMMA CreateStep ==
  ASSUME Inv, NEW p \in Procs, NEW d \in AllViews, NEW r \in BOOLEAN, CreateView(p, d, r)
  PROVE  Inv'
<1> USE BoundAssumption DEF Inv, Ends
<1>1. vw[p] \in Entries
  BY DEF TypeOK, Entries
<1>5. creates' \in 0..MaxCreates
  BY DEF CreateView, TypeOK
<1>6. UNCHANGED <<file, acked, unsaved, faults>>
  BY <1>1 DEF CreateView, TypeOK, Entries
<1>7. pc[p] = "ready"
  BY DEF CreateView
<1>8. EndInv'
  BY <1>6 DEF EndInv
<1>2. CASE Refused(p, d, r)
  <2>3. result' = [result EXCEPT ![p] = "refused"] /\ UNCHANGED <<pc, vw, next, stmt>>
    BY <1>2 DEF CreateView
  <2>1. TypeOK'
    BY <1>5, <1>6, <2>3 DEF TypeOK
  <2>2. DistinctInv' /\ LoadInv' /\ PanicHasAReason'
    BY <1>6, <2>3 DEF DistinctInv, LoadInv, PanicHasAReason
  <2> QED
    BY <1>8, <2>1, <2>2
<1>3. CASE ~Refused(p, d, r) /\ d.name \in NamesOf(vw[p])
  <2>1. Replaced(vw[p], d) \in Entries /\ (Distinct(vw[p]) => Distinct(Replaced(vw[p], d)))
    BY <1>1, ReplacedProperties
  <2>2. vw[p] # <<>>
    BY <1>3, EmptySeq DEF NamesOf
  <2>6. /\ next' = [next EXCEPT ![p] = vw[p]]
        /\ vw' = [vw EXCEPT ![p] = Replaced(vw[p], d)]
        /\ stmt' = [stmt EXCEPT ![p] = d] /\ pc' = [pc EXCEPT ![p] = "open"]
        /\ result' = [result EXCEPT ![p] = "none"]
    BY <1>3 DEF CreateView
  <2>7. /\ next' \in [Procs -> Seq(AllViews)] /\ vw' \in [Procs -> Seq(AllViews)]
        /\ stmt' \in [Procs -> AllViews \cup {NoView}] /\ next'[p] # <<>>
        /\ stmt'[p] \in AllViews
    BY <1>1, <2>1, <2>2, <2>6 DEF TypeOK, Entries
  <2>3. TypeOK'
    BY <1>5, <1>6, <1>7, <2>6, <2>7 DEF TypeOK
  <2>4. DistinctInv'
    BY <1>3, <2>1 DEF CreateView, DistinctInv, TypeOK
  <2>5. LoadInv'
    BY <1>6, <1>7, <2>6 DEF LoadInv, TypeOK
  <2>8. PanicHasAReason'
    BY <1>6, <2>6 DEF PanicHasAReason, TypeOK
  <2> QED
    BY <1>8, <2>3, <2>4, <2>5, <2>8
<1>4. CASE ~Refused(p, d, r) /\ d.name \notin NamesOf(vw[p])
  <2> DEFINE l == Append(vw[p], d)
  <2>1. Founded(VersionOf[p], vw[p], Len(vw[p]) + 1, d)
    BY <1>4 DEF Refused
  <2>2. \A q \in Procs : Complete(q) => Founded(VersionOf[q], vw[p], Len(vw[p]) + 1, d)
    <3>1. Len(vw[p]) + 1 \in Nat /\ Len(vw[p]) + 1 <= Len(vw[p]) + 1
      BY <1>1, LenProperties DEF Entries
    <3> QED
      BY <1>1, <2>1, <3>1, CompleteLoads
  <2>3. /\ l \in Entries /\ l # <<>>
        /\ Distinct(vw[p]) => Distinct(l)
        /\ \A q \in Procs : Complete(q) /\ Loadable(VersionOf[q], vw[p]) => Loadable(VersionOf[q], l)
    BY <1>1, <1>4, <2>2, AddedProperties, ProcsAssumption
  <2>4. /\ next' = [next EXCEPT ![p] = l] /\ vw' = vw /\ stmt' = [stmt EXCEPT ![p] = d]
        /\ pc' = [pc EXCEPT ![p] = "open"] /\ result' = [result EXCEPT ![p] = "none"]
    BY <1>4 DEF CreateView
  <2> HIDE DEF l
  <2>7. /\ next' \in [Procs -> Seq(AllViews)] /\ next'[p] # <<>>
        /\ stmt' \in [Procs -> AllViews \cup {NoView}] /\ stmt'[p] \in AllViews
    BY <2>3, <2>4 DEF TypeOK, Entries
  <2>8. TypeOK'
    BY <1>5, <1>6, <1>7, <2>4, <2>7 DEF TypeOK
  <2>5. DistinctInv'
    BY <1>6, <2>3, <2>4 DEF DistinctInv, TypeOK
  <2>6. LoadInv'
    <3>1. \A q \in Procs : Complete(q) /\ Loadable(VersionOf[q], vw[p]) => Loadable(VersionOf[q], next'[p])
      BY <2>3, <2>4 DEF TypeOK
    <3> QED
      BY <1>6, <1>7, <2>4, <3>1 DEF LoadInv, TypeOK
  <2>9. PanicHasAReason'
    BY <1>6, <2>4 DEF PanicHasAReason, TypeOK
  <2> QED
    BY <1>8, <2>5, <2>6, <2>8, <2>9
<1> QED
  BY <1>2, <1>3, <1>4

(* A statement that fails before or in the write is an exit of it. *)
LEMMA FailsType ==
  ASSUME TypeOK, NEW p \in Procs, pc[p] \in {"open", "write"}, Fails(p)
  PROVE  /\ unsaved' \in [Procs -> SUBSET Names] /\ UNCHANGED vw
         /\ pc' = [pc EXCEPT ![p] = "ready"] /\ result' = [result EXCEPT ![p] = "failed"]
<1>1. stmt[p].name \in Names
  BY DEF TypeOK, AllViews
<1> QED
  BY <1>1 DEF TypeOK, Fails, Ends

(* What a write leaves in the file, whole, in part or mixed.                 *)
LEMMA PartIsWritten ==
  ASSUME TypeOK, NEW p \in Procs, pc[p] = "write", NEW T \in SUBSET {"failed"}, PartWritten(p, T)
  PROVE  /\ file' \in WrittenFiles /\ file' # NoFile
         /\ faults' \subseteq Faults /\ faults \cup T \cup {"cut"} \subseteq faults'
         /\ "overlap" \notin faults' => file'.views = next[p]
         /\ file'.end = "mixed" => "overlap" \in faults'
<1>1. next[p] \in Entries /\ file \in [views : Entries, end : Endings]
  BY DEF TypeOK, WrittenFiles, Entries
<1>2. CASE file' = [views |-> next[p], end |-> "cut"] /\ Befalls(T \cup {"cut"})
  <2>1. file' \in WrittenFiles
    BY <1>1, <1>2 DEF WrittenFiles, Entries, Endings
  <2> QED
    BY <1>2, <2>1, AbsentAssumption DEF Befalls, TypeOK, Faults
<1>3. ASSUME NEW n \in 0..Len(next[p]), NEW k \in DOMAIN file.views,
             file' = [views |-> SubSeq(next[p], 1, n) \o SubSeq(file.views, k + 1, Len(file.views)),
                      end |-> "mixed"],
             Befalls(T \cup {"cut", "overlap"})
      PROVE  /\ file' \in WrittenFiles /\ faults' \subseteq Faults
             /\ faults \cup T \cup {"cut", "overlap"} \subseteq faults'
  <2>1. DOMAIN file.views = 1..Len(file.views) /\ Len(file.views) \in Nat /\ Len(next[p]) \in Nat
    BY <1>1, LenProperties DEF Entries
  <2>2. SubSeq(next[p], 1, n) \in Entries /\ SubSeq(file.views, k + 1, Len(file.views)) \in Entries
    BY <1>1, <2>1 DEF Entries
  <2>3. SubSeq(next[p], 1, n) \o SubSeq(file.views, k + 1, Len(file.views)) \in Entries
    BY <2>2 DEF Entries
  <2>4. file' \in WrittenFiles
    BY <1>3, <2>3 DEF WrittenFiles, Entries, Endings
  <2> QED
    BY <1>3, <2>4 DEF Befalls, TypeOK, Faults
<1> QED
  BY <1>2, <1>3, AbsentAssumption DEF PartWritten

LEMMA AllIsWritten ==
  ASSUME TypeOK, NEW p \in Procs, pc[p] = "write", Written(p)
  PROVE  /\ file' \in WrittenFiles /\ file' # NoFile
         /\ faults' \subseteq Faults /\ faults \subseteq faults'
         /\ "overlap" \notin faults' => file' = [views |-> next[p], end |-> "whole"] /\ faults' = faults
         /\ file'.end = "mixed" => "overlap" \in faults'
<1>1. next[p] \in Entries /\ file \in [views : Entries, end : Endings]
  BY DEF TypeOK, WrittenFiles, Entries
<1>2. CASE file' = [views |-> next[p], end |-> "whole"] /\ UNCHANGED faults
  <2>1. file' \in WrittenFiles
    BY <1>1, <1>2 DEF WrittenFiles, Entries, Endings
  <2> QED
    BY <1>2, <2>1, AbsentAssumption DEF TypeOK
<1>3. ASSUME NEW k \in DOMAIN file.views,
             file' = [views |-> next[p] \o SubSeq(file.views, k + 1, Len(file.views)), end |-> "mixed"],
             Befalls({"overlap"})
      PROVE  /\ file' \in WrittenFiles /\ faults' \subseteq Faults
             /\ faults \cup {"overlap"} \subseteq faults'
  <2>1. DOMAIN file.views = 1..Len(file.views) /\ Len(file.views) \in Nat
    BY <1>1, LenProperties DEF Entries
  <2>2. SubSeq(file.views, k + 1, Len(file.views)) \in Entries
    BY <1>1, <2>1 DEF Entries
  <2>3. next[p] \o SubSeq(file.views, k + 1, Len(file.views)) \in Entries
    BY <1>1, <2>2 DEF Entries
  <2>4. file' \in WrittenFiles
    BY <1>3, <2>3 DEF WrittenFiles, Entries, Endings
  <2> QED
    BY <1>3, <2>4 DEF Befalls, TypeOK, Faults
<1> QED
  BY <1>2, <1>3, AbsentAssumption DEF Written

(* Every step preserves the invariant. *)
LEMMA StepInv == Inv /\ [Next]_vars => Inv'
<1> SUFFICES ASSUME Inv, [Next]_vars PROVE Inv'
  OBVIOUS
<1> USE EmptyList DEF Inv
<1>1. ASSUME NEW p \in Procs, LoadViews(p) PROVE Inv'
  BY <1>1, LoadStep
<1>2. ASSUME NEW p \in Procs, NEW n \in Names, NEW q \in Queries, NEW r \in BOOLEAN,
             CreateView(p, ViewOf(n, q), r)
      PROVE  Inv'
  BY <1>2, CreateStep, QueryAssumption
<1>3. ASSUME NEW p \in Procs, OpenFile(p) PROVE Inv'
  <2>1. pc[p] = "open" /\ UNCHANGED <<next, stmt, acked, creates>>
    BY <1>3 DEF OpenFile
  <2>2. CASE file' = [views |-> <<>>, end |-> "whole"] /\ pc' = [pc EXCEPT ![p] = "write"]
             /\ UNCHANGED <<vw, result, unsaved, faults>>
    <3>1. file' \in WrittenFiles /\ file' # NoFile /\ file'.views = <<>> /\ file'.end = "whole"
      <4>1. <<>> \in Seq(AllViews)
        BY EmptyList DEF Entries
      <4>2. file' \in WrittenFiles
        BY <2>2, <4>1 DEF WrittenFiles, Endings
      <4> QED
        BY <2>2, <4>2, AbsentAssumption
    <3>2. TypeOK'
      BY <2>1, <2>2, <3>1 DEF TypeOK
    <3>3. DistinctInv'
      BY <2>1, <2>2, <3>1 DEF DistinctInv, TypeOK
    <3>4. LoadInv'
      BY <2>1, <2>2, <3>1 DEF LoadInv, TypeOK
    <3>5. EndInv' /\ PanicHasAReason'
      BY <2>2, <3>1 DEF EndInv, PanicHasAReason, TypeOK
    <3> QED
      BY <3>2, <3>3, <3>4, <3>5
  <2>3. CASE Fails(p) /\ Befalls({"failed"}) /\ UNCHANGED file
    <3>5. /\ unsaved' \in [Procs -> SUBSET Names] /\ UNCHANGED vw
          /\ pc' = [pc EXCEPT ![p] = "ready"] /\ result' = [result EXCEPT ![p] = "failed"]
      BY <2>1, <2>3, FailsType
    <3>6. faults' = faults \cup {"failed"}
      BY <2>3 DEF Befalls
    <3>1. TypeOK'
      BY <2>1, <2>3, <3>5, <3>6 DEF TypeOK, Faults
    <3>2. DistinctInv'
      BY <2>1, <2>3, <3>5, <3>6 DEF DistinctInv, TypeOK
    <3>3. faults' \cap {"failed", "overlap"} # {}
      BY <3>6
    <3>4. EndInv' /\ PanicHasAReason'
      BY <2>3, <3>3, <3>6 DEF EndInv, PanicHasAReason
    <3> QED
      BY <3>1, <3>2, <3>3, <3>4 DEF LoadInv
  <2> QED
    BY <1>3, <2>2, <2>3 DEF OpenFile
<1>4. ASSUME NEW p \in Procs, WriteViews(p) PROVE Inv'
  <2>1. /\ stmt[p] \in AllViews /\ stmt[p].name \in Names /\ next[p] \in Entries /\ pc[p] = "write"
        /\ UNCHANGED <<next, stmt, creates>>
    BY <1>4 DEF WriteViews, TypeOK, AllViews, Entries
  <2>2. /\ file' \in WrittenFiles /\ file' # NoFile
        /\ faults' \subseteq Faults /\ faults \subseteq faults'
        /\ "overlap" \notin faults' => file' = [views |-> next[p], end |-> "whole"] /\ faults' = faults
        /\ file'.end = "mixed" => "overlap" \in faults'
    BY <1>4, AllIsWritten DEF WriteViews
  <2>3. /\ vw' = [vw EXCEPT ![p] = next[p]] /\ acked' = [acked EXCEPT ![stmt[p].name] = stmt[p]]
        /\ unsaved' = [unsaved EXCEPT ![p] = {}] /\ pc' = [pc EXCEPT ![p] = "ready"]
        /\ result' = [result EXCEPT ![p] = "ok"]
    BY <1>4 DEF WriteViews, Ends
  <2>5. TypeOK'
    BY <2>1, <2>2, <2>3 DEF TypeOK, Entries
  <2>6. DistinctInv'
    BY <2>1, <2>2, <2>3 DEF DistinctInv, TypeOK
  <2>7. LoadInv'
    BY <2>1, <2>2, <2>3 DEF LoadInv, TypeOK
  <2>8. EndInv' /\ PanicHasAReason'
    BY <2>2, <2>3 DEF EndInv, PanicHasAReason, TypeOK
  <2> QED
    BY <2>5, <2>6, <2>7, <2>8
<1>5. ASSUME NEW p \in Procs, WriteCut(p) PROVE Inv'
  <2>1. next[p] \in Entries /\ pc[p] = "write" /\ UNCHANGED <<next, stmt, acked, creates>>
    BY <1>5 DEF WriteCut, TypeOK, Entries
  <2>3. CASE Fails(p) /\ PartWritten(p, {"failed"})
    <3>1. /\ unsaved' \in [Procs -> SUBSET Names] /\ UNCHANGED vw
          /\ pc' = [pc EXCEPT ![p] = "ready"] /\ result' = [result EXCEPT ![p] = "failed"]
      BY <2>1, <2>3, FailsType
    <3>2. /\ file' \in WrittenFiles /\ file' # NoFile
          /\ faults' \subseteq Faults /\ faults \cup {"failed", "cut"} \subseteq faults'
          /\ "overlap" \notin faults' => file'.views = next[p]
          /\ file'.end = "mixed" => "overlap" \in faults'
      BY <2>1, <2>3, PartIsWritten
    <3>3. TypeOK'
      BY <2>1, <3>1, <3>2 DEF TypeOK
    <3>4. DistinctInv'
      BY <2>1, <3>1, <3>2 DEF DistinctInv, TypeOK
    <3>5. faults' \cap {"failed", "overlap"} # {}
      BY <3>2
    <3>6. EndInv' /\ PanicHasAReason'
      BY <3>2, <3>5 DEF EndInv, PanicHasAReason
    <3> QED
      BY <3>3, <3>4, <3>5, <3>6 DEF LoadInv
  <2>4. CASE /\ PartWritten(p, {}) /\ Ends(p, "off", "none") /\ vw' = [vw EXCEPT ![p] = <<>>]
             /\ unsaved' = [unsaved EXCEPT ![p] = {}]
    <3>1. /\ file' \in WrittenFiles /\ file' # NoFile
          /\ faults' \subseteq Faults /\ faults \subseteq faults'
          /\ "overlap" \notin faults' => file'.views = next[p]
          /\ file'.end = "mixed" => "overlap" \in faults'
      BY <2>1, <2>4, PartIsWritten
    <3>2. TypeOK'
      BY <2>1, <2>4, <3>1 DEF Ends, TypeOK, Entries
    <3>3. DistinctInv'
      BY <2>1, <2>4, <3>1 DEF Ends, DistinctInv, TypeOK
    <3>4. LoadInv'
      BY <2>1, <2>4, <3>1 DEF Ends, LoadInv, TypeOK
    <3>5. EndInv' /\ PanicHasAReason'
      BY <2>4, <3>1 DEF Ends, EndInv, PanicHasAReason, TypeOK
    <3> QED
      BY <3>2, <3>3, <3>4, <3>5
  <2> QED
    BY <1>5, <2>3, <2>4 DEF WriteCut
<1>6. ASSUME NEW p \in Procs, Exit(p) PROVE Inv'
  <2>4. /\ pc' = [pc EXCEPT ![p] = "off"] /\ result' = [result EXCEPT ![p] = "none"]
        /\ vw' = [vw EXCEPT ![p] = <<>>] /\ unsaved' = [unsaved EXCEPT ![p] = {}]
        /\ UNCHANGED <<file, next, stmt, acked, creates>>
        /\ faults' \subseteq Faults /\ faults \subseteq faults'
        /\ faults' \cap {"failed", "overlap"} = faults \cap {"failed", "overlap"}
        /\ ("overlap" \in faults') = ("overlap" \in faults)
    <3>1. faults' = faults \/ faults' = faults \cup {"cut"}
      BY <1>6 DEF Exit, Befalls
    <3>2. faults' \subseteq Faults
      BY <3>1 DEF TypeOK, Faults
    <3>3. /\ faults \subseteq faults' /\ ("overlap" \in faults') = ("overlap" \in faults)
          /\ faults' \cap {"failed", "overlap"} = faults \cap {"failed", "overlap"}
      BY <3>1
    <3> QED
      BY <1>6, <3>2, <3>3 DEF Exit, Ends
  <2>1. TypeOK'
    BY <2>4 DEF TypeOK, Entries
  <2>2. DistinctInv'
    BY <2>4 DEF DistinctInv, TypeOK
  <2>3. LoadInv'
    BY <2>4 DEF LoadInv, TypeOK
  <2>5. EndInv' /\ PanicHasAReason'
    BY <2>4 DEF EndInv, PanicHasAReason, TypeOK
  <2> QED
    BY <2>1, <2>2, <2>3, <2>5
<1>7. CASE UNCHANGED vars
  BY <1>7 DEF vars, TypeOK, DistinctInv, LoadInv, EndInv, PanicHasAReason
<1> QED
  BY <1>1, <1>2, <1>3, <1>4, <1>5, <1>6, <1>7 DEF Next

LEMMA SpecInv == Spec => []Inv
  BY InitInv, StepInv, PTL DEF Spec

(* The file and every list are lists of views. *)
THEOREM TypeCorrect == Spec => []TypeOK
<1>1. Inv => TypeOK
  BY DEF Inv
<1> QED
  BY <1>1, SpecInv, PTL

(* AddView and loadViews never give a name to two views, neither in memory   *)
(* nor in the file, unless two writes of the file overlap.                   *)
THEOREM DistinctHolds == Spec => []ViewsAreDistinct
<1>1. Inv => ViewsAreDistinct
  BY DEF Inv, DistinctInv, ViewsAreDistinct
<1> QED
  BY <1>1, SpecInv, PTL

(* Load panics on views it does not find the columns of only when a write    *)
(* has failed, two have overlapped, or its API version lacks what another    *)
(* has; cut files, kills, unreadable ones and processes side by side do not  *)
(* bring it there.                                                           *)
THEOREM PanicHasAReasonHolds == Spec => []PanicHasAReason
<1>1. Inv => PanicHasAReason
  BY DEF Inv
<1> QED
  BY <1>1, SpecInv, PTL

----------------------------------------------------------------------------
(* Until something befalls the file, one process at a time has it.           *)
Active(p) == pc[p] \in {"ready", "open", "write"}
SoloInv == Calm => \A p, q \in Procs : Active(p) /\ Active(q) => p = q

(* What that process has in memory is in the file when it is ready, and when *)
(* it is about to write, but for the view it has just replaced.              *)
Pending(p) == unsaved[p] \cup ({stmt[p].name} \cap NamesOf(vw[p]))
KeptInv ==
  Calm =>
    /\ file # NoFile => file.end = "whole"
    /\ \A p \in Procs : pc[p] = "ready" /\ file # NoFile => Kept(vw[p], file.views, unsaved[p])
    /\ \A p \in Procs : pc[p] = "open" /\ file # NoFile => Kept(vw[p], file.views, Pending(p))

(* The names reported as created are in the file, or in the list that is     *)
(* about to be written to it.                                                *)
Created == {n \in Names : acked[n] # NoView}
FoundInv ==
  Calm =>
    /\ file = NoFile => Created = {}
    /\ file # NoFile /\ (\A p \in Procs : pc[p] # "write") => Created \subseteq NamesOf(file.views)
    /\ \A p \in Procs : pc[p] \in {"ready", "open"} => Created \subseteq NamesOf(vw[p])
    /\ \A p \in Procs : pc[p] \in {"open", "write"} => Created \cup {stmt[p].name} \subseteq NamesOf(next[p])

LEMMA EntriesAreViews ==
  ASSUME NEW s \in Entries
  PROVE  Len(s) \in Nat /\ DOMAIN s = 1..Len(s) /\ \A i \in DOMAIN s : s[i] \in AllViews
  BY LenProperties, ElementOfSeq DEF Entries

(* What loadViews makes of a list is that list, but for what it loses.       *)
LEMMA RereadKept ==
  ASSUME NEW s \in Entries, NEW N
  PROVE  Kept(Reread(s), s, N) /\ Kept(s, s, N) /\ NamesOf(Reread(s)) = NamesOf(s)
<1>1. DOMAIN Reread(s) = DOMAIN s /\ Len(Reread(s)) = Len(s)
  BY RereadAlike, EntriesAreViews DEF Alike, Reread
<1>2. \A i \in DOMAIN s : Reread(s)[i] = [s[i] EXCEPT !.fns = {}, !.clause = "plain"]
  BY DEF Reread, Reloaded
<1>3. \A i \in DOMAIN s : Reread(s)[i].name = s[i].name
  <2> TAKE i \in DOMAIN s
  <2>1. s[i] \in AllViews
    BY EntriesAreViews
  <2>2. Reread(s)[i] = [s[i] EXCEPT !.fns = {}, !.clause = "plain"]
    BY <1>2
  <2> QED
    BY <2>1, <2>2 DEF AllViews
<1> QED
  BY <1>1, <1>2, <1>3 DEF Kept, NamesOf

(* Replacing a view in memory keeps the names and the other views.           *)
LEMMA ReplacedKept ==
  ASSUME NEW s \in Entries, NEW t \in Entries, NEW d \in AllViews, NEW N
  PROVE  /\ NamesOf(Replaced(s, d)) = NamesOf(s)
         /\ Kept(s, t, N) => Kept(Replaced(s, d), t, N \cup ({d.name} \cap NamesOf(Replaced(s, d))))
<1>1. DOMAIN Replaced(s, d) = DOMAIN s /\ DOMAIN s = 1..Len(s) /\ DOMAIN t = 1..Len(t)
      /\ Len(Replaced(s, d)) = Len(s)
  BY EntriesAreViews, ReplacedProperties DEF Replaced
<1>2. \A i \in DOMAIN s : \/ Replaced(s, d)[i] = s[i]
                          \/ Replaced(s, d)[i] = d /\ s[i].name = d.name
  BY DEF Replaced
<1>3. NamesOf(Replaced(s, d)) = NamesOf(s)
  BY <1>1, <1>2 DEF NamesOf
<1>4. ASSUME Kept(s, t, N) PROVE Kept(Replaced(s, d), t, N \cup ({d.name} \cap NamesOf(Replaced(s, d))))
  <2>1. Len(s) = Len(t) /\ \A i \in DOMAIN s : s[i].name = t[i].name
    BY <1>1, <1>4, EntriesAreViews DEF Kept, AllViews
  <2>2. \A i \in DOMAIN s : Replaced(s, d)[i] = d => d.name \in NamesOf(Replaced(s, d))
    BY <1>1 DEF NamesOf
  <2> QED
    BY <1>1, <1>2, <1>4, <2>1, <2>2 DEF Kept
<1> QED
  BY <1>3, <1>4

LEMMA KeptMore ==
  ASSUME NEW s, NEW t, NEW N, NEW M, N \subseteq M, Kept(s, t, N) PROVE Kept(s, t, M)
  BY DEF Kept

LEMMA AddedNames ==
  ASSUME NEW s \in Entries, NEW d \in AllViews
  PROVE  NamesOf(Append(s, d)) = NamesOf(s) \cup {d.name}
<1>1. Len(s) \in Nat /\ DOMAIN s = 1..Len(s)
  BY LenProperties DEF Entries
<1>2. DOMAIN Append(s, d) = 1..(Len(s) + 1) /\ Append(s, d)[Len(s) + 1] = d
      /\ \A i \in 1..Len(s) : Append(s, d)[i] = s[i]
  BY <1>1, AppendProperties DEF Entries
<1> QED
  BY <1>1, <1>2 DEF NamesOf

Sole == SoloInv /\ KeptInv /\ FoundInv

LEMMA InitSole == Init => Sole
  BY DEF Init, Sole, SoloInv, Active, KeptInv, FoundInv, Created

(* A fault is never forgotten. *)
LEMMA FaultsStay == [Next]_vars => faults \subseteq faults'
<1> SUFFICES ASSUME [Next]_vars PROVE faults \subseteq faults'
  OBVIOUS
<1> QED
  BY DEF Next, vars, LoadViews, OpenFile, WriteViews, Written, WriteCut, PartWritten, Exit, CreateView, Befalls

LEMMA Types ==
  Inv => /\ pc \in [Procs -> {"off", "ready", "open", "write", "panic"}]
         /\ vw \in [Procs -> Entries] /\ next \in [Procs -> Entries]
         /\ stmt \in [Procs -> AllViews \cup {NoView}] /\ unsaved \in [Procs -> SUBSET Names]
         /\ acked \in [Names -> AllViews \cup {NoView}]
         /\ file # NoFile => file.views \in Entries
  BY DEF Inv, TypeOK, Entries, WrittenFiles

(* LoadViews: no other process is active, and the file is read as it was     *)
(* written.                                                                  *)
LEMMA LoadSole ==
  ASSUME Inv, Sole, Calm, NEW p \in Procs, LoadViews(p), Calm' PROVE Sole'
<1>1. \A q \in Procs : Active(q) => q = p
  BY DEF LoadViews, Shared, Active, Calm, Befalls
<1>2. /\ pc[p] = "off" /\ UNCHANGED <<file, next, stmt, acked>>
      /\ unsaved' = [unsaved EXCEPT ![p] = {}]
  BY DEF LoadViews
<1>3. \A q \in Procs : ~Active(q)
  BY <1>1, <1>2 DEF Active
<1>4. pc \in [Procs -> {"off", "ready", "open", "write", "panic"}] /\ vw \in [Procs -> Entries]
  BY Types
<1>5. CASE file = NoFile /\ vw' = [vw EXCEPT ![p] = <<>>] /\ pc' = [pc EXCEPT ![p] = "ready"]
  BY <1>2, <1>3, <1>4, <1>5 DEF Sole, SoloInv, KeptInv, FoundInv, Created, Active
<1>6. CASE file # NoFile /\ \E s \in Readings(file) :
             vw' = [vw EXCEPT ![p] = Reread(s)] /\ pc' = [pc EXCEPT ![p] = "ready"]
  <2>1. file.views \in Entries
    BY <1>6, Types
  <2>2. vw' = [vw EXCEPT ![p] = Reread(file.views)] /\ pc' = [pc EXCEPT ![p] = "ready"]
    BY <1>6 DEF Sole, KeptInv, Readings
  <2>3. Kept(vw'[p], file.views, unsaved'[p]) /\ NamesOf(vw'[p]) = NamesOf(file.views)
    BY <1>4, <2>1, <2>2, RereadKept
  <2>4. Created \subseteq NamesOf(file.views)
    BY <1>3, <1>6 DEF Sole, FoundInv, Active
  <2>5. SoloInv'
    BY <1>3, <1>4, <2>2 DEF SoloInv, Active
  <2>6. KeptInv'
    BY <1>2, <1>3, <1>4, <2>2, <2>3 DEF Sole, KeptInv, Active
  <2>7. FoundInv'
    BY <1>2, <1>3, <1>4, <1>6, <2>2, <2>3, <2>4 DEF FoundInv, Created, Active
  <2> QED
    BY <2>5, <2>6, <2>7 DEF Sole
<1>7. CASE vw' = vw /\ pc' \in {[pc EXCEPT ![p] = "off"], [pc EXCEPT ![p] = "panic"]}
  BY <1>2, <1>3, <1>4, <1>7 DEF Sole, SoloInv, KeptInv, FoundInv, Created, Active
<1>8. ~(\E T : Befalls(T \cup {"unread"}))
  BY DEF Befalls, Calm
<1> QED
  BY <1>5, <1>6, <1>7, <1>8 DEF LoadViews, Ends

(* CreateView: the list to write has every name of the one in memory, which  *)
(* has those reported.                                                       *)
LEMMA CreateSole ==
  ASSUME Inv, Sole, Calm, NEW p \in Procs, NEW d \in AllViews, NEW r \in BOOLEAN,
         CreateView(p, d, r)
  PROVE  Sole'
<1>1. pc[p] = "ready" /\ UNCHANGED <<file, acked, unsaved, faults>>
  BY DEF CreateView
<1>2. /\ pc \in [Procs -> {"off", "ready", "open", "write", "panic"}] /\ vw[p] \in Entries
      /\ vw \in [Procs -> Entries]
      /\ next \in [Procs -> Entries] /\ stmt \in [Procs -> AllViews \cup {NoView}]
      /\ file # NoFile => file.views \in Entries
  BY Types
<1>3. /\ Created \subseteq NamesOf(vw[p]) /\ \A q \in Procs : Active(q) => q = p
      /\ file # NoFile => file.end = "whole" /\ Kept(vw[p], file.views, unsaved[p])
  BY <1>1 DEF Sole, FoundInv, KeptInv, SoloInv, Active
<1>4. CASE Refused(p, d, r)
  BY <1>4, <1>1 DEF CreateView, Sole, SoloInv, KeptInv, FoundInv, Created, Active, Calm
<1>5. CASE ~Refused(p, d, r)
  <2>1. pc' = [pc EXCEPT ![p] = "open"] /\ stmt' = [stmt EXCEPT ![p] = d]
    BY <1>5 DEF CreateView, Ends
  <2>2. \/ d.name \in NamesOf(vw[p]) /\ next'[p] = vw[p] /\ vw' = [vw EXCEPT ![p] = Replaced(vw[p], d)]
        \/ d.name \notin NamesOf(vw[p]) /\ next'[p] = Append(vw[p], d) /\ vw' = vw
    BY <1>2, <1>5 DEF CreateView
  <2>3. Created \cup {stmt'[p].name} \subseteq NamesOf(next'[p])
    BY <1>2, <1>3, <2>1, <2>2, AddedNames
  <2>4. \A q \in Procs \ {p} : pc'[q] = pc[q] /\ ~Active(q)
    BY <1>2, <1>3, <2>1
  <2>5. SoloInv'
    BY <1>2, <2>1, <2>4 DEF SoloInv, Active
  <2>8. NamesOf(vw'[p]) = NamesOf(vw[p])
    BY <1>2, <2>2, ReplacedKept, EmptyList
  <2>9. file # NoFile => Kept(vw'[p], file.views, Pending(p)')
    <3>1. SUFFICES ASSUME file # NoFile PROVE Kept(vw'[p], file.views, unsaved[p] \cup ({d.name} \cap NamesOf(vw'[p])))
      BY <1>1, <1>2, <2>1 DEF Pending
    <3>2. CASE vw' = [vw EXCEPT ![p] = Replaced(vw[p], d)]
      BY <1>2, <1>3, <3>1, <3>2, ReplacedKept
    <3>3. CASE vw' = vw
      BY <1>3, <3>1, <3>3, KeptMore
    <3> QED
      BY <2>2, <3>2, <3>3
  <2>6. KeptInv'
    BY <1>1, <1>2, <1>3, <2>1, <2>4, <2>9 DEF KeptInv, Active
  <2>7. FoundInv'
    BY <1>1, <1>2, <1>3, <2>1, <2>3, <2>4, <2>8 DEF Sole, FoundInv, Created, Active
  <2> QED
    BY <2>5, <2>6, <2>7 DEF Sole
<1> QED
  BY <1>4, <1>5

(* WriteViews: memory, file and list are one again.                          *)
LEMMA WriteSole ==
  ASSUME Inv, Sole, Calm, NEW p \in Procs, WriteViews(p), Calm' PROVE Sole'
<1>1. pc[p] = "write" /\ stmt[p] \in AllViews /\ stmt[p].name \in Names
  BY DEF WriteViews, Inv, TypeOK, AllViews
<1>2. pc \in [Procs -> {"off", "ready", "open", "write", "panic"}] /\ vw \in [Procs -> Entries]
      /\ acked \in [Names -> AllViews \cup {NoView}] /\ next[p] \in Entries
  BY Types
<1>3. \A q \in Procs \ {p} : ~Active(q)
  BY <1>1 DEF Sole, SoloInv, Active
<1>4. file' = [views |-> next[p], end |-> "whole"] /\ file' # NoFile
  BY AllIsWritten DEF WriteViews, Inv, Calm
<1>5. pc' = [pc EXCEPT ![p] = "ready"] /\ vw' = [vw EXCEPT ![p] = next[p]]
      /\ acked' = [acked EXCEPT ![stmt[p].name] = stmt[p]]
  BY DEF WriteViews, Ends
<1>6. Created' \subseteq NamesOf(next[p])
  <2>1. Created \cup {stmt[p].name} \subseteq NamesOf(next[p])
    BY <1>1 DEF Sole, FoundInv
  <2>2. Created' \subseteq Created \cup {stmt[p].name}
    BY <1>2, <1>5 DEF Created
  <2> QED
    BY <2>1, <2>2
<1>8. SoloInv'
  BY <1>2, <1>3, <1>5 DEF SoloInv, Active
<1>7. Kept(vw'[p], file'.views, unsaved'[p])
  BY <1>2, <1>4, <1>5, RereadKept
<1>9. KeptInv'
  BY <1>2, <1>3, <1>4, <1>5, <1>7 DEF KeptInv, Active
<1>10. FoundInv'
  BY <1>2, <1>3, <1>4, <1>5, <1>6 DEF FoundInv, Active
<1> QED
  BY <1>8, <1>9, <1>10 DEF Sole

LEMMA StepSole == Inv /\ Sole /\ [Next]_vars => Sole'
<1> SUFFICES ASSUME Inv, Sole, [Next]_vars, Calm' PROVE Sole'
  BY DEF Sole, SoloInv, KeptInv, FoundInv
<1>1. Calm
  BY FaultsStay DEF Calm
<1>2. pc \in [Procs -> {"off", "ready", "open", "write", "panic"}] /\ vw \in [Procs -> Entries]
      /\ unsaved \in [Procs -> SUBSET Names]
  BY Types
<1>3. ASSUME NEW p \in Procs, LoadViews(p) PROVE Sole'
  BY <1>1, <1>3, LoadSole
<1>4. ASSUME NEW p \in Procs, NEW n \in Names, NEW q \in Queries, NEW r \in BOOLEAN,
             CreateView(p, ViewOf(n, q), r)
      PROVE  Sole'
  BY <1>1, <1>4, CreateSole, QueryAssumption
<1>5. ASSUME NEW p \in Procs, OpenFile(p) PROVE Sole'
  <2>1. pc[p] = "open" /\ UNCHANGED <<next, stmt, acked>>
    BY <1>5 DEF OpenFile
  <2>2. \A q \in Procs \ {p} : ~Active(q)
    BY <1>1, <2>1 DEF Sole, SoloInv, Active
  <2>3. CASE file' = [views |-> <<>>, end |-> "whole"] /\ pc' = [pc EXCEPT ![p] = "write"]
             /\ UNCHANGED <<vw, unsaved>>
    <3>1. file' # NoFile
      <4>1. [views |-> <<>>, end |-> "whole"] \in [views : Entries, end : Endings]
        BY EmptyList DEF Endings
      <4> QED
        BY <2>3, <4>1, AbsentAssumption DEF WrittenFiles, Entries
    <3> QED
      BY <1>1, <1>2, <2>1, <2>2, <2>3, <3>1 DEF Sole, SoloInv, KeptInv, FoundInv, Created, Active
  <2>4. CASE Fails(p) /\ UNCHANGED file
    <3>1. pc' = [pc EXCEPT ![p] = "ready"] /\ UNCHANGED vw /\ unsaved'[p] = Pending(p)
      BY <1>2, <2>4 DEF Fails, Ends, Pending
    <3>2. SoloInv'
      BY <1>2, <2>2, <3>1 DEF SoloInv, Active
    <3>3. file # NoFile => file.end = "whole" /\ Kept(vw[p], file.views, Pending(p))
      BY <1>1, <2>1 DEF Sole, KeptInv
    <3>4. KeptInv'
      BY <1>2, <2>2, <2>4, <3>1, <3>3 DEF KeptInv, Active
    <3>5. FoundInv'
      BY <1>1, <1>2, <2>1, <2>2, <2>4, <3>1 DEF Sole, FoundInv, Created, Active
    <3> QED
      BY <3>2, <3>4, <3>5 DEF Sole
  <2> QED
    BY <1>5, <2>3, <2>4 DEF OpenFile
<1>6. ASSUME NEW p \in Procs, WriteViews(p) PROVE Sole'
  BY <1>1, <1>6, WriteSole
<1>7. ASSUME NEW p \in Procs, WriteCut(p) PROVE FALSE
  BY <1>7 DEF WriteCut, PartWritten, Befalls, Calm
<1>8. ASSUME NEW p \in Procs, Exit(p) PROVE Sole'
  <2>1. pc[p] \in {"ready", "open"} /\ pc' = [pc EXCEPT ![p] = "off"] /\ vw' = [vw EXCEPT ![p] = <<>>]
        /\ unsaved' = [unsaved EXCEPT ![p] = {}] /\ UNCHANGED <<file, next, stmt, acked>>
    BY <1>8 DEF Exit, Ends, Befalls, Calm
  <2>2. \A q \in Procs \ {p} : ~Active(q)
    BY <1>1, <2>1 DEF Sole, SoloInv, Active
  <2> QED
    BY <1>1, <1>2, <2>1, <2>2 DEF Sole, SoloInv, KeptInv, FoundInv, Created, Active
<1>9. CASE UNCHANGED vars
  BY <1>1, <1>9 DEF vars, Sole, SoloInv, KeptInv, FoundInv, Created, Active, Pending
<1> QED
  BY <1>3, <1>4, <1>5, <1>6, <1>7, <1>8, <1>9 DEF Next

LEMMA SpecSole == Spec => []Sole
  BY InitSole, StepSole, SpecInv, PTL DEF Spec

(* Whatever the statements, restarts and writes that fail before they have   *)
(* opened the file, a ready process that alone has it holds its views in     *)
(* memory, but for what loadViews loses of them and for the replacements     *)
(* that failed.                                                              *)
THEOREM MemoryIsFileHolds == Spec => []MemoryIsFile
<1>1. Sole => MemoryIsFile
  BY DEF Sole, KeptInv, MemoryIsFile
<1> QED
  BY <1>1, SpecSole, PTL

(* ... and a view that AddView reported as created is found in it, by every  *)
(* later process, for any number of statements and restarts.                 *)
THEOREM CreatedIsFoundHolds == Spec => []CreatedIsFound
<1>1. Sole => CreatedIsFound
  BY DEF Sole, FoundInv, Created, CreatedIsFound
<1> QED
  BY <1>1, SpecSole, PTL
=============================================================================
