---------------------------- MODULE PipelineProofs ----------------------------
(***************************************************************************)
(* Parser and anonymizer for any lists, e-mails, sizes of batches and      *)
(* slices, and number of faults.                                           *)
(*                                                                         *)
(* First the two files of the anonymizer: MapMatchesData alone is not      *)
(* inductive, it says nothing of files that are being written.  PairInv    *)
(* says of each phase of a list which of its two files are open, and that  *)
(* their rows are then already the same.  The dataset is read again for    *)
(* every slice and may have been replaced in between; as both writers get  *)
(* the same slice, nothing about it is used.                               *)
(*                                                                         *)
(* Then what is in the outputs.  Files only grow at the end, finished ones *)
(* stay as they are, and of a dead one that is deleted nothing could be    *)
(* read (Keeps).  What a task has taken are therefore the first rows of    *)
(* the finished files it saw, whatever the archiver does meanwhile         *)
(* (TaskOf).  Of a list whose listings never missed a file, error lines of *)
(* an earlier run are about e-mails that are still there (OldOf), and the  *)
(* datasets of later runs begin with those of earlier ones, which is why   *)
(* slices of two of them still fit together (SnapOf).  Inv has these parts *)
(* for every list, beside the types and the place of the run (RunOf).      *)
(*                                                                         *)
(* Last the lineage.  A bound on what a run misses says nothing between    *)
(* two runs; ProvInv counts what can no longer be found at any time (Gone) *)
(* and knows that datasets are made of finished files (Sourced).           *)
(***************************************************************************)
EXTENDS Pipeline, SequenceTheorems, FiniteSetTheorems, Induction

Matches(l) ==
    anonData[l].state = "done" /\ idMap[l].state = "done" =>
      anonData[l].rows = idMap[l].rows

\* The pair of list l: with the first slice still to come it is the one of
\* an earlier run, later its rows are equal and one file is not finished.
PairOf(l) ==
    /\ anon[l].phase \in AnonPhases
    /\ anon[l].phase \in {"off", "spawned"} => Matches(l)
    /\ anon[l].phase = "slices" =>
         /\ anon[l].total > 0
         /\ ~anon[l].opened => anon[l].offset = 0 /\ Matches(l)
         /\ anon[l].opened =>
              /\ anonData[l].state = "open" /\ idMap[l].state = "open"
              /\ anonData[l].rows = idMap[l].rows
    /\ anon[l].phase = "map" =>
         /\ idMap[l].state = "open" /\ anonData[l].rows = idMap[l].rows

PairInv ==
    /\ anon = [l \in Lists |-> anon[l]]
    /\ anonData = [l \in Lists |-> anonData[l]]
    /\ idMap = [l \in Lists |-> idMap[l]]
    /\ \A l \in Lists : PairOf(l)

-----------------------------------------------------------------------------
\* A step of the anonymizer on list m leaves the other lists alone.
LEMMA OneList ==
    ASSUME PairInv, NEW m \in Lists, NEW a, NEW d, NEW i,
           anon' = [anon EXCEPT ![m] = a],
           anonData' = [anonData EXCEPT ![m] = d],
           idMap' = [idMap EXCEPT ![m] = i],
           PairOf(m)'
    PROVE  PairInv'
<1>1. \A l \in Lists \ {m} :
        anon'[l] = anon[l] /\ anonData'[l] = anonData[l] /\ idMap'[l] = idMap[l]
  BY DEF PairInv
<1>2. ASSUME NEW l \in Lists, l # m PROVE PairOf(l)'
  BY <1>1, <1>2 DEF PairInv, PairOf, Matches
<1>3. \A l \in Lists : PairOf(l)'
  BY <1>2
<1>4. /\ anon' = [l \in Lists |-> anon'[l]]
      /\ anonData' = [l \in Lists |-> anonData'[l]]
      /\ idMap' = [l \in Lists |-> idMap'[l]]
  BY DEF PairInv
<1> QED BY <1>3, <1>4 DEF PairInv

\* Both writers are given the same slice.
LEMMA PairStep == PairInv /\ [Next]_vars => PairInv'
<1> SUFFICES ASSUME PairInv, [Next]_vars PROVE PairInv'
  OBVIOUS
<1>u. ASSUME UNCHANGED avars PROVE PairInv'
  BY <1>u DEF PairInv, PairOf, Matches, avars
<1>f. \A l \in Lists : anonData = [anonData EXCEPT ![l] = anonData[l]]
                       /\ idMap = [idMap EXCEPT ![l] = idMap[l]]
  BY DEF PairInv
<1>1. CASE StartAnonymizer
  <2>1. UNCHANGED <<anonData, idMap>> /\ anon' = [l \in Lists |-> AnonAt("spawned", 0, 0, FALSE)]
    BY <1>1 DEF StartAnonymizer
  <2>2. ASSUME NEW l \in Lists PROVE anon[l].phase = "off" /\ anon'[l].phase = "spawned"
    BY <1>1, <2>1 DEF StartAnonymizer, AnonBusy, AnonAt
  <2> QED BY <2>1, <2>2 DEF PairInv, PairOf, Matches, AnonPhases
<1>2. CASE AnonymizerKilled
  <2>1. UNCHANGED <<anonData, idMap>> /\ anon' = [l \in Lists |-> NoAnon]
    BY <1>2 DEF AnonymizerKilled
  <2>2. ASSUME NEW l \in Lists PROVE Matches(l) /\ anon'[l].phase = "off"
    BY <2>1 DEF PairInv, PairOf, Matches, AnonPhases, NoAnon, AnonAt
  <2> QED BY <2>1, <2>2 DEF PairInv, PairOf, Matches, AnonPhases
<1>3. ASSUME NEW l \in Lists, CountRows(l) PROVE PairInv'
  <2>1. UNCHANGED <<anonData, idMap>> /\ anon[l].phase = "spawned" /\ Matches(l)
    BY <1>3 DEF CountRows, PairInv, PairOf
  <2>2. CASE Len(dataset[l].rows) > 0
             /\ anon' = [anon EXCEPT ![l] = AnonAt("slices", 0, Len(dataset[l].rows), FALSE)]
    <3>1. anon'[l] = AnonAt("slices", 0, Len(dataset[l].rows), FALSE)
      BY <2>2 DEF PairInv
    <3>2. PairOf(l)'
      BY <2>1, <2>2, <3>1 DEF PairOf, Matches, AnonAt, AnonPhases
    <3> QED BY <1>f, <2>1, <2>2, <3>2, OneList
  <2>3. CASE AnonEnds(l)
    <3>1. anon'[l].phase = "off" /\ anon' = [anon EXCEPT ![l] = NoAnon]
      BY <2>3 DEF AnonEnds, PairInv, NoAnon, AnonAt
    <3>2. PairOf(l)'
      BY <2>1, <3>1 DEF PairOf, Matches, AnonPhases
    <3> QED BY <1>f, <2>1, <3>1, <3>2, OneList
  <2> QED BY <1>3, <2>2, <2>3 DEF CountRows
<1>4. ASSUME NEW l \in Lists, AnonymizeSlice(l) PROVE PairInv'
  <2>1. anon[l].phase = "slices"
    BY <1>4 DEF AnonymizeSlice
  <2>2. CASE /\ anonData' = [anonData EXCEPT ![l] = Written(l, anonData[l])]
             /\ idMap' = [idMap EXCEPT ![l] = Written(l, idMap[l])]
             /\ anon' = [anon EXCEPT ![l] = AnonAt("slices", SliceEnd(l), anon[l].total, TRUE)]
    <3>1. /\ anonData'[l] = Written(l, anonData[l])
          /\ idMap'[l] = Written(l, idMap[l])
          /\ anon'[l] = AnonAt("slices", SliceEnd(l), anon[l].total, TRUE)
      BY <2>2 DEF PairInv
    <3>2. Written(l, anonData[l]).rows = Written(l, idMap[l]).rows
      BY <2>1 DEF PairInv, PairOf, Written
    <3>3. Written(l, anonData[l]).state = "open" /\ Written(l, idMap[l]).state = "open"
      BY DEF Written
    <3>4. anon[l].total > 0
      BY <2>1 DEF PairInv, PairOf
    <3>5. PairOf(l)'
      <4>1. /\ anon'[l].phase = "slices" /\ anon'[l].total > 0 /\ anon'[l].opened
        BY <3>1, <3>4 DEF AnonAt
      <4> QED BY <3>1, <3>2, <3>3, <4>1 DEF PairOf, AnonPhases
    <3> QED BY <2>2, <3>5, OneList
  <2>3. CASE AnonEnds(l) /\ UNCHANGED <<anonData, idMap>>
    <3>1. anon'[l].phase = "off" /\ anon' = [anon EXCEPT ![l] = NoAnon]
      BY <2>3 DEF AnonEnds, PairInv, NoAnon, AnonAt
    <3>2. PairOf(l)'
      BY <2>1, <2>3, <3>1 DEF PairInv, PairOf, Matches, AnonPhases
    <3> QED BY <1>f, <2>3, <3>1, <3>2, OneList
  <2> QED BY <1>4, <2>2, <2>3 DEF AnonymizeSlice
<1>5. ASSUME NEW l \in Lists, SliceFails(l) PROVE PairInv'
  <2>1. /\ anon[l].phase = "slices" /\ anon' = [anon EXCEPT ![l] = NoAnon]
        /\ UNCHANGED idMap
    BY <1>5 DEF SliceFails, AnonEnds
  <2>2. anon'[l].phase = "off"
    BY <2>1 DEF PairInv, NoAnon, AnonAt
  <2>3. CASE UNCHANGED anonData
    <3>1. PairOf(l)'
      BY <2>1, <2>2, <2>3 DEF PairInv, PairOf, Matches, AnonPhases
    <3> QED BY <1>f, <2>1, <2>3, <3>1, OneList
  <2>4. CASE anonData' = [anonData EXCEPT ![l] = Written(l, anonData[l])]
    <3>1. anonData'[l].state = "open"
      BY <2>4 DEF PairInv, Written
    <3>2. PairOf(l)'
      BY <2>2, <3>1 DEF PairOf, Matches, AnonPhases
    <3> QED BY <1>f, <2>1, <2>4, <3>2, OneList
  <2> QED BY <1>5, <2>3, <2>4 DEF SliceFails
<1>6. ASSUME NEW l \in Lists, FinishData(l) PROVE PairInv'
  <2>1. /\ anon[l].phase = "slices" /\ anon[l].offset = anon[l].total /\ UNCHANGED idMap
        /\ anonData' = [anonData EXCEPT ![l] = Closed(anonData[l])]
        /\ anon' = [anon EXCEPT ![l] = AnonAt("map", anon[l].offset, anon[l].total, TRUE)]
    BY <1>6 DEF FinishData
  <2>2. anon[l].opened
    BY <2>1 DEF PairInv, PairOf
  <2>3. /\ anon'[l].phase = "map" /\ anonData'[l].rows = anonData[l].rows
    <3>1. anon'[l].phase = "map"
      BY <2>1 DEF PairInv, AnonAt
    <3>2. anonData'[l].rows = anonData[l].rows
      BY <2>1 DEF PairInv, Closed
    <3> QED BY <3>1, <3>2
  <2>4. PairOf(l)'
    BY <2>1, <2>2, <2>3 DEF PairInv, PairOf, AnonPhases
  <2>5. idMap' = [idMap EXCEPT ![l] = idMap[l]]
    BY <2>1 DEF PairInv
  <2> QED BY <2>1, <2>4, <2>5, OneList, ZenonT(30)
<1>7. ASSUME NEW l \in Lists, FinishMap(l) PROVE PairInv'
  <2>1. /\ anon[l].phase = "map" /\ UNCHANGED anonData
        /\ idMap' = [idMap EXCEPT ![l] = Closed(idMap[l])]
        /\ anon' = [anon EXCEPT ![l] = NoAnon]
    BY <1>7 DEF FinishMap, AnonEnds
  <2>2. anon'[l].phase = "off" /\ idMap'[l].rows = idMap[l].rows
    BY <2>1 DEF PairInv, NoAnon, AnonAt, Closed
  <2>3. PairOf(l)'
    BY <2>1, <2>2 DEF PairInv, PairOf, Matches, AnonPhases
  <2> QED BY <1>f, <2>1, <2>3, OneList
<1> QED
  BY <1>u, <1>1, <1>2, <1>3, <1>4, <1>5, <1>6, <1>7 DEF Next, AnonStep, vars

(***************************************************************************)
(* Whenever both files of a list can be read, they have the same rows: the *)
(* map from hashed to real identities is never about another run's data.   *)
(***************************************************************************)
THEOREM PairMatches == Spec => []MapMatchesData
<1>1. Init => PairInv
  BY DEF Init, PairInv, PairOf, Matches, NoAnon, AnonAt, Absent, AnonPhases
<1>2. PairInv => MapMatchesData
  BY DEF PairInv, PairOf, Matches, AnonPhases, MapMatchesData
<1> QED BY <1>1, <1>2, PairStep, PTL DEF Spec

-----------------------------------------------------------------------------
(***************************************************************************)
(* What the files of a list can be read as.  Each operator is a FlatMap,   *)
(* so that it takes sequences put together to sequences put together.      *)
(***************************************************************************)
Num  == Nat \ {Unreadable}
File == [state : {"open", "done", "dead"}, rows : Seq(Num)]

LEMMA RowsOfConcat ==
    ASSUME NEW a \in Seq(File), NEW b \in Seq(File)
    PROVE  /\ RowsOf(a) \in Seq(Num)
           /\ RowsOf(a \o b) = RowsOf(a) \o RowsOf(b)
           /\ RowsOf(<<>>) = <<>>
           /\ \A f \in File : RowsOf(<<f>>) = IF f.state = "done" THEN f.rows ELSE <<>>
<1> DEFINE F == [f \in File |-> IF f.state = "done" THEN f.rows ELSE <<>>]
<1>1. F \in Maps(File, Num)
  <2>1. <<>> \in Seq(Num)
    OBVIOUS
  <2>2. \A f \in File : f.rows \in Seq(Num)
    BY DEF File
  <2> QED BY <2>1, <2>2 DEF Maps
<1>2. ASSUME NEW s \in Seq(File) PROVE RowsOf(s) = FlatMap(F, s)
  <2>1. \A k \in DOMAIN s : s[k] \in File
    BY LenProperties
  <2>2. Mapped(F, s) = [k \in DOMAIN s |-> IF s[k].state = "done" THEN s[k].rows ELSE <<>>]
    BY <2>1 DEF Mapped
  <2> HIDE DEF F
  <2> QED BY <2>2 DEF FlatMap, RowsOf
<1>3. \A f \in File : F[f] = IF f.state = "done" THEN f.rows ELSE <<>>
  OBVIOUS
<1> HIDE DEF F
<1>4. a \o b \in Seq(File) /\ <<>> \in Seq(File)
  BY ConcatProperties
<1>5. \A f \in File : <<f>> \in Seq(File)
  OBVIOUS
<1>6. /\ FlatMap(F, a) \in Seq(Num)
      /\ FlatMap(F, a \o b) = FlatMap(F, a) \o FlatMap(F, b)
      /\ FlatMap(F, <<>>) = <<>>
      /\ \A f \in File : FlatMap(F, <<f>>) = F[f]
  BY <1>1, FlatMapConcat
<1> QED BY <1>2, <1>3, <1>4, <1>5, <1>6, ZenonT(30)

LEMMA ItemsConcat ==
    ASSUME NEW a \in Seq(File), NEW b \in Seq(File)
    PROVE  /\ Items(a) \in Seq(Nat)
           /\ Items(a \o b) = Items(a) \o Items(b)
           /\ Items(<<>>) = <<>>
           /\ \A f \in File : Items(<<f>>) = ItemsOf(f)
<1> DEFINE F == [f \in File |-> ItemsOf(f)]
<1>1. F \in Maps(File, Nat)
  <2>1. <<Unreadable>> \in Seq(Nat)
    BY DEF Unreadable
  <2>2. \A f \in File : f.rows \in Seq(Nat)
    <3>1. ASSUME NEW f \in File PROVE f.rows \in Seq(Nat)
      <4>1. f.rows \in Seq(Num) /\ Num \subseteq Nat
        BY DEF File, Num
      <4> QED BY <4>1, SeqMonotonic
    <3> QED BY <3>1
  <2> QED BY <2>1, <2>2 DEF Maps, ItemsOf
<1>2. ASSUME NEW s \in Seq(File) PROVE Items(s) = FlatMap(F, s)
  <2>1. \A k \in DOMAIN s : s[k] \in File
    BY LenProperties
  <2>2. Mapped(F, s) = [k \in DOMAIN s |-> ItemsOf(s[k])]
    BY <2>1 DEF Mapped
  <2> HIDE DEF F
  <2> QED BY <2>2 DEF FlatMap, Items
<1>3. \A f \in File : F[f] = ItemsOf(f)
  OBVIOUS
<1> HIDE DEF F
<1>4. a \o b \in Seq(File) /\ <<>> \in Seq(File)
  BY ConcatProperties
<1>5. \A f \in File : <<f>> \in Seq(File)
  OBVIOUS
<1>6. /\ FlatMap(F, a) \in Seq(Nat)
      /\ FlatMap(F, a \o b) = FlatMap(F, a) \o FlatMap(F, b)
      /\ FlatMap(F, <<>>) = <<>>
      /\ \A f \in File : FlatMap(F, <<f>>) = F[f]
  BY <1>1, FlatMapConcat
<1> QED BY <1>2, <1>3, <1>4, <1>5, <1>6

\* Finished files read as their rows.
LEMMA FinishedItems ==
    ASSUME NEW s \in Seq(File), \A k \in DOMAIN s : s[k].state = "done"
    PROVE  Items(s) = RowsOf(s)
<1>1. [k \in DOMAIN s |-> ItemsOf(s[k])] =
         [k \in DOMAIN s |-> IF s[k].state = "done" THEN s[k].rows ELSE <<>>]
  BY DEF ItemsOf
<1> QED BY <1>1 DEF Items, RowsOf

LEMMA SieveConcat ==
    ASSUME NEW l, NEW a \in Seq(Num), NEW b \in Seq(Num)
    PROVE  /\ Good(l, a) \in Seq(Nat) /\ Refused(l, a) \in Seq(Nat)
           /\ Good(l, a \o b) = Good(l, a) \o Good(l, b)
           /\ Refused(l, a \o b) = Refused(l, a) \o Refused(l, b)
           /\ Good(l, <<>>) = <<>> /\ Refused(l, <<>>) = <<>>
           /\ \A i \in Num : /\ <<l, i>> \in Bad => Good(l, <<i>>) = <<>>
                             /\ <<l, i>> \in Bad => Refused(l, <<i>>) = <<i>>
                             /\ <<l, i>> \notin Bad => Good(l, <<i>>) = <<i>>
                             /\ <<l, i>> \notin Bad => Refused(l, <<i>>) = <<>>
<1> DEFINE G == [i \in Num |-> IF <<l, i>> \in Bad THEN <<>> ELSE <<i>>]
           R == [i \in Num |-> IF <<l, i>> \in Bad THEN <<i>> ELSE <<>>]
<1>1. G \in Maps(Num, Nat) /\ R \in Maps(Num, Nat)
  <2>1. <<>> \in Seq(Nat) /\ \A i \in Num : <<i>> \in Seq(Nat)
    BY DEF Num
  <2> QED BY <2>1 DEF Maps
<1>2. ASSUME NEW s \in Seq(Num)
      PROVE  Good(l, s) = FlatMap(G, s) /\ Refused(l, s) = FlatMap(R, s)
  <2>1. \A k \in DOMAIN s : s[k] \in Num
    BY LenProperties
  <2>2. Mapped(G, s) = [k \in DOMAIN s |-> IF <<l, s[k]>> \in Bad THEN <<>> ELSE <<s[k]>>]
    BY <2>1 DEF Mapped
  <2>3. Mapped(R, s) = [k \in DOMAIN s |-> IF <<l, s[k]>> \in Bad THEN <<s[k]>> ELSE <<>>]
    BY <2>1 DEF Mapped
  <2> HIDE DEF G, R
  <2> QED BY <2>2, <2>3 DEF FlatMap, Good, Refused
<1>3. \A i \in Num : /\ <<l, i>> \in Bad => G[i] = <<>> /\ R[i] = <<i>>
                     /\ <<l, i>> \notin Bad => G[i] = <<i>> /\ R[i] = <<>>
  OBVIOUS
<1> HIDE DEF G, R
<1>4. a \o b \in Seq(Num) /\ <<>> \in Seq(Num) /\ \A i \in Num : <<i>> \in Seq(Num)
  BY ConcatProperties
<1>5. /\ FlatMap(G, a) \in Seq(Nat)
      /\ FlatMap(G, a \o b) = FlatMap(G, a) \o FlatMap(G, b)
      /\ FlatMap(G, <<>>) = <<>>
      /\ \A i \in Num : FlatMap(G, <<i>>) = G[i]
  BY <1>1, FlatMapConcat, SMTT(30)
<1>6. /\ FlatMap(R, a) \in Seq(Nat)
      /\ FlatMap(R, a \o b) = FlatMap(R, a) \o FlatMap(R, b)
      /\ FlatMap(R, <<>>) = <<>>
      /\ \A i \in Num : FlatMap(R, <<i>>) = R[i]
  BY <1>1, FlatMapConcat
<1>7. /\ Good(l, a) \in Seq(Nat) /\ Refused(l, a) \in Seq(Nat)
      /\ Good(l, a \o b) = Good(l, a) \o Good(l, b)
      /\ Refused(l, a \o b) = Refused(l, a) \o Refused(l, b)
      /\ Good(l, <<>>) = <<>> /\ Refused(l, <<>>) = <<>>
  BY <1>2, <1>4, <1>5, <1>6
<1>8. ASSUME NEW i \in Num
      PROVE  Good(l, <<i>>) = G[i] /\ Refused(l, <<i>>) = R[i]
  BY <1>2, <1>4, <1>5, <1>6
<1> QED BY <1>3, <1>7, <1>8


\* E-mails of which none is refused are all good.
LEMMA NoneRefused ==
    ASSUME NEW l, NEW rows \in Seq(Num), Refused(l, rows) = <<>>
    PROVE  Good(l, rows) = rows
<1> DEFINE T == {n \in Nat : \A s \in Seq(Num) :
                    Len(s) = n /\ Refused(l, s) = <<>> => Good(l, s) = s}
<1>1. 0 \in T
  <2>1. ASSUME NEW s \in Seq(Num), Len(s) = 0 PROVE Good(l, s) = s
    <3>1. s = <<>>
      BY <2>1, EmptySeq
    <3> QED BY <3>1, SieveConcat
  <2> QED BY <2>1
<1>2. ASSUME NEW n \in Nat, n \in T PROVE n + 1 \in T
  <2>1. ASSUME NEW s \in Seq(Num), Len(s) = n + 1, Refused(l, s) = <<>>
        PROVE  Good(l, s) = s
    <3>1. PICK t \in Seq(Num), i \in Num : s = Append(t, i)
      <4>1. s # <<>>
        BY <2>1
      <4> QED BY <4>1, SequenceEmptyOrAppend
    <3>2. s = t \o <<i>> /\ Len(t) = n /\ <<i>> \in Seq(Num)
      <4>1. Len(Append(t, i)) = Len(t) + 1 /\ Len(t) \in Nat
        BY AppendProperties, LenProperties
      <4> QED BY <2>1, <3>1, <4>1, AppendIsConcat
    <3>3. /\ Refused(l, s) = Refused(l, t) \o Refused(l, <<i>>)
          /\ Good(l, s) = Good(l, t) \o Good(l, <<i>>)
      <4>1. /\ Refused(l, t \o <<i>>) = Refused(l, t) \o Refused(l, <<i>>)
            /\ Good(l, t \o <<i>>) = Good(l, t) \o Good(l, <<i>>)
        <5>1. PICK u \in Seq(Num) : u = <<i>>
          BY <3>2
        <5>2. /\ Refused(l, t \o u) = Refused(l, t) \o Refused(l, u)
              /\ Good(l, t \o u) = Good(l, t) \o Good(l, u)
          BY SieveConcat
        <5> QED BY <5>1, <5>2
      <4> QED BY <3>2, <4>1
    <3>7. Refused(l, t) \in Seq(Nat) /\ Refused(l, <<i>>) \in Seq(Nat)
      BY <3>2, SieveConcat
    <3>4. Refused(l, t) = <<>> /\ Refused(l, <<i>>) = <<>>
      <4>1. Refused(l, t) \o Refused(l, <<i>>) = <<>>
        BY <2>1, <3>3
      <4> HIDE DEF T
      <4> QED BY <3>7, <4>1, ConcatEqualIffEmpty
    <3>5. Good(l, t) = t
      BY <1>2, <3>2, <3>4
    <3>6. Good(l, <<i>>) = <<i>>
      BY <3>4, SieveConcat
    <3> QED BY <3>2, <3>3, <3>5, <3>6
  <2> QED BY <2>1
<1>3. Nat \subseteq T
  <2> HIDE DEF T
  <2> QED BY <1>1, <1>2, SetInduction
<1>4. Len(rows) \in T
  <2> HIDE DEF T
  <2> QED BY <1>3, LenProperties
<1> QED BY <1>4

-----------------------------------------------------------------------------
(***************************************************************************)
(* The first files of a list.                                              *)
(***************************************************************************)
LEMMA FirstFiles ==
    ASSUME NEW f \in Seq(File), NEW n \in 0 .. Len(f)
    PROVE  /\ SubSeq(f, 1, n) \in Seq(File) /\ Len(SubSeq(f, 1, n)) = n
           /\ DOMAIN SubSeq(f, 1, n) = 1 .. n
           /\ \A k \in 1 .. n : SubSeq(f, 1, n)[k] = f[k] /\ f[k] \in File
           /\ n = 0 => SubSeq(f, 1, n) = <<>>
           /\ n = Len(f) => SubSeq(f, 1, n) = f
           /\ n > 0 => SubSeq(f, 1, n) = SubSeq(f, 1, n - 1) \o <<f[n]>>
<1>1. Len(f) \in Nat /\ \A k \in 1 .. n : f[k] \in File
  BY LenProperties
<1>2. /\ SubSeq(f, 1, n) \in Seq(File) /\ Len(SubSeq(f, 1, n)) = n
      /\ \A k \in 1 .. n : SubSeq(f, 1, n)[k] = f[k]
  <2>1. /\ SubSeq(f, 1, n) \in Seq(File)
        /\ Len(SubSeq(f, 1, n)) = IF 1 <= n THEN n - 1 + 1 ELSE 0
        /\ \A k \in 1 .. n - 1 + 1 : SubSeq(f, 1, n)[k] = f[1 + k - 1]
    BY <1>1, SubSeqProperties
  <2> QED BY <1>1, <2>1
<1>3. DOMAIN SubSeq(f, 1, n) = 1 .. n
  BY <1>2, LenProperties
<1>4. n = 0 => SubSeq(f, 1, n) = <<>>
  BY <1>2, EmptySeq
<1>5. n = Len(f) => SubSeq(f, 1, n) = f
  BY SubSeqFull
<1>6. n > 0 => SubSeq(f, 1, n) = SubSeq(f, 1, n - 1) \o <<f[n]>>
  <2>1. n > 0 => 1 \in 1 .. Len(f) /\ n \in 1 .. Len(f)
    BY <1>1
  <2> QED BY <2>1, SubSeqRecursiveSecond
<1> QED BY <1>1, <1>2, <1>3, <1>4, <1>5, <1>6

LEMMA SplitFiles ==
    ASSUME NEW f \in Seq(File), NEW n \in 0 .. Len(f), NEW m \in 0 .. n
    PROVE  /\ SubSeq(f, m + 1, n) \in Seq(File)
           /\ SubSeq(f, 1, n) = SubSeq(f, 1, m) \o SubSeq(f, m + 1, n)
           /\ \A k \in DOMAIN SubSeq(f, m + 1, n) : \E i \in m + 1 .. n :
                 SubSeq(f, m + 1, n)[k] = f[i]
<1>1. Len(f) \in Nat /\ \A k \in 1 .. Len(f) : f[k] \in File
  BY LenProperties
<1>2. /\ SubSeq(f, m + 1, n) \in Seq(File)
      /\ Len(SubSeq(f, m + 1, n)) = IF m + 1 <= n THEN n - (m + 1) + 1 ELSE 0
      /\ \A k \in 1 .. n - (m + 1) + 1 : SubSeq(f, m + 1, n)[k] = f[m + 1 + k - 1]
  <2>1. m + 1 \in Int /\ n \in Int /\ \A k \in m + 1 .. n : f[k] \in File
    BY <1>1
  <2> QED BY <2>1, SubSeqProperties
<1>3. SubSeq(f, 1, n) = SubSeq(f, 1, m) \o SubSeq(f, m + 1, n)
  <2>1. 1 \in 1 .. Len(f) + 1 /\ m \in 1 - 1 .. Len(f) /\ n \in m .. Len(f)
    BY <1>1
  <2> QED BY <2>1, ConcatAdjacentSubSeq
<1>4. ASSUME NEW k \in DOMAIN SubSeq(f, m + 1, n)
      PROVE  \E i \in m + 1 .. n : SubSeq(f, m + 1, n)[k] = f[i]
  <2>1. k \in 1 .. Len(SubSeq(f, m + 1, n))
    BY <1>2, LenProperties
  <2>2. k \in 1 .. n - (m + 1) + 1 /\ m + 1 + k - 1 \in m + 1 .. n
    BY <1>1, <1>2, <2>1, SMTT(60)
  <2> QED BY <1>2, <2>2
<1> QED BY <1>2, <1>3, <1>4

LEMMA SameFirst ==
    ASSUME NEW f \in Seq(File), NEW g \in Seq(File),
           NEW n \in Nat, n <= Len(f), n <= Len(g), \A k \in 1 .. n : f[k] = g[k]
    PROVE  SubSeq(f, 1, n) = SubSeq(g, 1, n)
<1>1. Len(f) \in Nat /\ Len(g) \in Nat
  BY LenProperties
<1>2. n \in 0 .. Len(f) /\ n \in 0 .. Len(g)
  BY <1>1
<1> QED BY <1>2, FirstFiles, SeqEqual

\* Of the files there are, the archiver changes only the last, and not if it
\* is finished; a new one is open.
Grows(f, g) ==
    /\ Len(f) <= Len(g)
    /\ \A k \in 1 .. Len(f) : k < Len(f) \/ f[k].state = "done" => g[k] = f[k]

\* What could be read of the first n files can still be read of the first n
\* or n - 1 of them, and no less can be read of the first n.
LEMMA GrowsRows ==
    ASSUME NEW f \in Seq(File), NEW g \in Seq(File), Grows(f, g), NEW n \in 0 .. Len(f)
    PROVE  /\ \E m \in 0 .. n : RowsOf(SubSeq(g, 1, m)) = RowsOf(SubSeq(f, 1, n))
           /\ \E more \in Seq(Num) :
                 RowsOf(SubSeq(g, 1, n)) = RowsOf(SubSeq(f, 1, n)) \o more
<1>1. Len(f) \in Nat /\ Len(g) \in Nat /\ Len(f) <= Len(g)
  BY LenProperties DEF Grows
<1>2. n \in 0 .. Len(f) /\ n \in 0 .. Len(g) /\ n \in Nat
  BY <1>1
<1>3. /\ SubSeq(f, 1, n) \in Seq(File) /\ RowsOf(SubSeq(f, 1, n)) \in Seq(Num)
  BY FirstFiles, RowsOfConcat
<1>4. CASE \A k \in 1 .. n : g[k] = f[k]
  <2>1. SubSeq(g, 1, n) = SubSeq(f, 1, n)
    BY <1>1, <1>2, <1>4, SameFirst
  <2>2. <<>> \in Seq(Num) /\ RowsOf(SubSeq(f, 1, n)) \o <<>> = RowsOf(SubSeq(f, 1, n))
    BY <1>3, ConcatEmptySeq
  <2>3. n \in 0 .. n
    BY <1>2
  <2> QED BY <2>1, <2>2, <2>3
<1>5. CASE ~ \A k \in 1 .. n : g[k] = f[k]
  <2>1. n = Len(f) /\ n > 0 /\ f[n].state # "done" /\ \A k \in 1 .. n - 1 : g[k] = f[k]
    BY <1>1, <1>5 DEF Grows
  <2>2. /\ n - 1 \in 0 .. Len(f) /\ n - 1 \in Nat /\ n - 1 <= Len(f) /\ n - 1 <= Len(g)
        /\ n - 1 \in 0 .. n
    BY <1>1, <2>1
  <2>3. SubSeq(g, 1, n - 1) = SubSeq(f, 1, n - 1)
    BY <2>1, <2>2, SameFirst
  <2>4. /\ SubSeq(f, 1, n) = SubSeq(f, 1, n - 1) \o <<f[n]>>
        /\ SubSeq(g, 1, n) = SubSeq(f, 1, n - 1) \o <<g[n]>>
        /\ SubSeq(f, 1, n - 1) \in Seq(File)
        /\ f[n] \in File /\ g[n] \in File
    <3>1. n \in 1 .. n
      BY <1>2, <2>1
    <3> QED BY <1>2, <2>1, <2>2, <2>3, <3>1, FirstFiles
  <2>5. <<f[n]>> \in Seq(File) /\ <<g[n]>> \in Seq(File)
    BY <2>4
  <2>6. /\ RowsOf(SubSeq(f, 1, n)) = RowsOf(SubSeq(f, 1, n - 1)) \o RowsOf(<<f[n]>>)
        /\ RowsOf(SubSeq(g, 1, n)) = RowsOf(SubSeq(f, 1, n - 1)) \o RowsOf(<<g[n]>>)
        /\ RowsOf(<<f[n]>>) = <<>> /\ RowsOf(<<g[n]>>) \in Seq(Num)
        /\ RowsOf(SubSeq(f, 1, n - 1)) \in Seq(Num)
    <3>1. PICK a \in Seq(File), b \in Seq(File), c \in Seq(File) :
             a = SubSeq(f, 1, n - 1) /\ b = <<f[n]>> /\ c = <<g[n]>>
      BY <2>4, <2>5
    <3>2. /\ RowsOf(a \o b) = RowsOf(a) \o RowsOf(b)
          /\ RowsOf(a \o c) = RowsOf(a) \o RowsOf(c)
          /\ RowsOf(a) \in Seq(Num) /\ RowsOf(c) \in Seq(Num)
      BY RowsOfConcat
    <3>3. RowsOf(<<f[n]>>) = <<>>
      BY <2>1, <2>4, RowsOfConcat
    <3> QED BY <2>4, <3>1, <3>2, <3>3
  <2>7. RowsOf(SubSeq(f, 1, n)) = RowsOf(SubSeq(f, 1, n - 1))
    BY <2>6, ConcatEmptySeq
  <2> QED BY <2>2, <2>3, <2>6, <2>7
<1> QED BY <1>4, <1>5

-----------------------------------------------------------------------------
(***************************************************************************)
(* What can be read of the first files of a list.                          *)
(***************************************************************************)
AllDone(f, n) == \A k \in 1 .. n : f[k].state = "done"
Rows(f, n)    == RowsOf(SubSeq(f, 1, n))

LEMMA RowsMore ==
    ASSUME NEW f \in Seq(File), NEW n \in 0 .. Len(f), NEW m \in 0 .. n
    PROVE  /\ Rows(f, n) \in Seq(Num) /\ Rows(f, m) \in Seq(Num)
           /\ \E more \in Seq(Num) : Rows(f, n) = Rows(f, m) \o more
<1>1. Len(f) \in Nat /\ m \in 0 .. Len(f)
  BY LenProperties
<1>2. /\ SubSeq(f, 1, n) \in Seq(File) /\ SubSeq(f, 1, m) \in Seq(File)
      /\ SubSeq(f, m + 1, n) \in Seq(File)
      /\ SubSeq(f, 1, n) = SubSeq(f, 1, m) \o SubSeq(f, m + 1, n)
  BY <1>1, FirstFiles, SplitFiles
<1> QED BY <1>2, RowsOfConcat, ZenonT(30) DEF Rows

\* Files that are all finished read as their rows.
LEMMA DoneItems ==
    ASSUME NEW f \in Seq(File), NEW n \in 0 .. Len(f), AllDone(f, n)
    PROVE  Items(SubSeq(f, 1, n)) = Rows(f, n)
<1>1. /\ SubSeq(f, 1, n) \in Seq(File) /\ DOMAIN SubSeq(f, 1, n) = 1 .. n
      /\ \A k \in 1 .. n : SubSeq(f, 1, n)[k] = f[k]
  BY FirstFiles
<1>2. \A k \in DOMAIN SubSeq(f, 1, n) : SubSeq(f, 1, n)[k].state = "done"
  BY <1>1 DEF AllDone
<1> QED BY <1>1, <1>2, FinishedItems DEF Rows

LEMMA ItemsMore ==
    ASSUME NEW f \in Seq(File), NEW n \in 0 .. Len(f), NEW m \in 0 .. n, AllDone(f, m)
    PROVE  \E Z \in Seq(Nat) : Items(SubSeq(f, 1, n)) = Rows(f, m) \o Z
<1>1. Len(f) \in Nat /\ m \in 0 .. Len(f)
  BY LenProperties
<1>2. /\ SubSeq(f, 1, m) \in Seq(File) /\ SubSeq(f, m + 1, n) \in Seq(File)
      /\ SubSeq(f, 1, n) = SubSeq(f, 1, m) \o SubSeq(f, m + 1, n)
  BY <1>1, FirstFiles, SplitFiles
<1>3. /\ Items(SubSeq(f, 1, n)) = Items(SubSeq(f, 1, m)) \o Items(SubSeq(f, m + 1, n))
      /\ Items(SubSeq(f, m + 1, n)) \in Seq(Nat)
  BY <1>2, ItemsConcat
<1>4. Items(SubSeq(f, 1, m)) = Rows(f, m)
  BY <1>1, DoneItems
<1> QED BY <1>3, <1>4

\* The items before the first file that cannot be read.
LEMMA ItemsUpTo ==
    ASSUME NEW f \in Seq(File), NEW n \in 0 .. Len(f)
    PROVE  \E j \in 0 .. n :
              /\ AllDone(f, j)
              /\ \/ j = n /\ Items(SubSeq(f, 1, n)) = Rows(f, j)
                 \/ \E Y \in Seq(Nat) :
                       Items(SubSeq(f, 1, n)) = Rows(f, j) \o (<<Unreadable>> \o Y)
<1>1. Len(f) \in Nat /\ n \in Nat /\ n <= Len(f)
  BY LenProperties
<1>2. CASE AllDone(f, n)
  <2>1. n \in 0 .. n
    BY <1>1
  <2> QED BY <1>2, <2>1, DoneItems
<1>3. CASE ~AllDone(f, n)
  <2> DEFINE T == {k \in 1 .. n : f[k].state # "done"}
  <2>1. T \in SUBSET Nat /\ T # {}
    BY <1>3 DEF AllDone
  <2>2. PICK k \in T : \A i \in T : k <= i
    <3> HIDE DEF T
    <3> QED BY <2>1, LeastNat
  <2>3. k \in 1 .. n /\ f[k].state # "done" /\ k - 1 \in 0 .. n /\ k \in 0 .. Len(f)
        /\ k - 1 \in 0 .. Len(f) /\ k \in 0 .. n /\ k > 0 /\ k \in 1 .. k
    BY <1>1, <2>2
  <2>4. AllDone(f, k - 1)
    <3>1. ASSUME NEW i \in 1 .. k - 1, f[i].state # "done" PROVE FALSE
      <4>1. i \in T /\ ~(k <= i)
        BY <1>1, <2>3, <3>1
      <4> QED BY <2>2, <4>1
    <3> QED BY <3>1 DEF AllDone
  <2> HIDE DEF T
  <2>5. /\ SubSeq(f, 1, k) = SubSeq(f, 1, k - 1) \o <<f[k]>>
        /\ SubSeq(f, 1, k) \in Seq(File) /\ SubSeq(f, 1, k - 1) \in Seq(File) /\ f[k] \in File
    BY <2>3, FirstFiles
  <2>6. /\ SubSeq(f, k + 1, n) \in Seq(File)
        /\ SubSeq(f, 1, n) = SubSeq(f, 1, k) \o SubSeq(f, k + 1, n)
    BY <2>3, SplitFiles
  <2>7. PICK Y : Y = Items(SubSeq(f, k + 1, n)) /\ Y \in Seq(Nat)
    BY <2>6, ItemsConcat
  <2>8. Items(SubSeq(f, 1, n)) = Items(SubSeq(f, 1, k)) \o Y
    BY <2>5, <2>6, <2>7, ItemsConcat
  <2>9. Items(SubSeq(f, 1, k)) = Rows(f, k - 1) \o <<Unreadable>>
    <3>1. PICK last \in Seq(File) : last = <<f[k]>>
      <4>1. f[k] \in File
        BY <2>5
      <4>2. <<f[k]>> \in Seq(File)
        BY <4>1
      <4> QED BY <4>2
    <3>2. Items(SubSeq(f, 1, k - 1) \o last) = Items(SubSeq(f, 1, k - 1)) \o Items(last)
      BY <2>5, ItemsConcat
    <3>3. Items(last) = ItemsOf(f[k])
      BY <2>5, <3>1, ItemsConcat
    <3>4. ItemsOf(f[k]) = <<Unreadable>>
      BY <2>3 DEF ItemsOf
    <3>5. Items(SubSeq(f, 1, k - 1)) = Rows(f, k - 1)
      BY <2>3, <2>4, DoneItems
    <3> QED BY <2>5, <3>1, <3>2, <3>3, <3>4, <3>5
  <2>10. (Rows(f, k - 1) \o <<Unreadable>>) \o Y = Rows(f, k - 1) \o (<<Unreadable>> \o Y)
    <3>1. Rows(f, k - 1) \in Seq(Num)
      BY <2>5, RowsOfConcat DEF Rows
    <3>2. Rows(f, k - 1) \in Seq(Nat)
      <4>1. Num \subseteq Nat
        BY DEF Num
      <4> QED BY <3>1, <4>1, SeqMonotonic
    <3>3. <<Unreadable>> \in Seq(Nat)
      BY DEF Unreadable
    <3> QED BY <2>7, <3>2, <3>3, ConcatAssociative, SMTT(30)
  <2> QED BY <2>3, <2>4, <2>7, <2>8, <2>9, <2>10
<1> QED BY <1>2, <1>3


LEMMA NumSeq ==
    ASSUME NEW s \in Seq(Num)
    PROVE  s \in Seq(Nat) /\ \A k \in 1 .. Len(s) : s[k] \in Nat /\ s[k] # Unreadable
<1>1. Num \subseteq Nat
  BY DEF Num
<1>2. \A k \in 1 .. Len(s) : s[k] \in Num
  BY LenProperties
<1> QED BY <1>1, <1>2, SeqMonotonic DEF Num

\* What is still to be taken when seen was.
LEMMA StillToTake ==
    ASSUME NEW f \in Seq(File), NEW n \in 0 .. Len(f), NEW j \in 0 .. n, AllDone(f, j),
           NEW seen \in Seq(Num), NEW rest \in Seq(Num), Rows(f, j) = seen \o rest
    PROVE  \E x \in Seq(Nat) :
              /\ Items(SubSeq(f, 1, n)) = seen \o x
              /\ SubSeq(Items(SubSeq(f, 1, n)), Len(seen) + 1, Len(Items(SubSeq(f, 1, n)))) = x
<1>1. PICK Z \in Seq(Nat) : Items(SubSeq(f, 1, n)) = Rows(f, j) \o Z
  BY ItemsMore
<1>2. seen \in Seq(Nat) /\ rest \in Seq(Nat)
  BY NumSeq
<1>3. rest \o Z \in Seq(Nat) /\ (seen \o rest) \o Z = seen \o (rest \o Z)
  <2>1. rest \o Z \in Seq(Nat)
    BY <1>2, ConcatProperties
  <2>2. (seen \o rest) \o Z = seen \o (rest \o Z)
    BY <1>2, NatAssoc, Zenon
  <2> QED BY <2>1, <2>2
<1>4. SubSeq(seen \o (rest \o Z), Len(seen) + 1, Len(seen \o (rest \o Z))) = rest \o Z
  BY <1>2, <1>3, Behind
<1> QED BY <1>1, <1>3, <1>4

\* E-mails taken from the items are rows of files that are finished; all of
\* the rows, when nothing is left.
LEMMA TakenAreRows ==
    ASSUME NEW f \in Seq(File), NEW n \in 0 .. Len(f),
           NEW p \in Seq(Num), NEW x \in Seq(Nat), Items(SubSeq(f, 1, n)) = p \o x
    PROVE  \E j \in 0 .. n :
              /\ AllDone(f, j)
              /\ \E r \in Seq(Num) : Rows(f, j) = p \o r
              /\ x = <<>> => j = n /\ Rows(f, j) = p
<1>1. PICK j \in 0 .. n :
         /\ AllDone(f, j)
         /\ \/ j = n /\ Items(SubSeq(f, 1, n)) = Rows(f, j)
            \/ \E Y \in Seq(Nat) :
                  Items(SubSeq(f, 1, n)) = Rows(f, j) \o (<<Unreadable>> \o Y)
  BY ItemsUpTo
<1> DEFINE R == Rows(f, j)
<1>2. R \in Seq(Num) /\ R \in Seq(Nat) /\ p \in Seq(Nat)
  <2>1. n \in 0 .. Len(f) /\ j \in 0 .. n /\ j \in 0 .. Len(f) /\ j \in 0 .. j
    BY LenProperties
  <2>2. R \in Seq(Num)
    BY <2>1, RowsMore
  <2> QED BY <2>2, NumSeq
<1>3. ASSUME NEW r \in Seq(Nat), R = p \o r PROVE r \in Seq(Num)
  <2>1. r = SubSeq(R, Len(p) + 1, Len(R))
    BY <1>2, <1>3, Behind
  <2>2. Len(p) \in 0 .. Len(R)
    <3>1. Len(p) \in Nat /\ Len(r) \in Nat /\ Len(R) = Len(p) + Len(r)
      BY <1>2, <1>3, ConcatProperties, LenProperties
    <3> QED BY <3>1
  <2> HIDE DEF R
  <2>3. SubSeq(R, Len(p) + 1, Len(R)) \in Seq(Num)
    BY <1>2, <2>2, SeqParts
  <2> QED BY <2>1, <2>3
<1> HIDE DEF R
<1>4. CASE j = n /\ Items(SubSeq(f, 1, n)) = R
  <2>1. R = p \o x
    BY <1>4
  <2>2. x \in Seq(Num)
    BY <1>3, <2>1
  <2>3. x = <<>> => R = p
    BY <1>2, <2>1, ConcatEmptySeq
  <2> QED BY <1>1, <1>4, <2>1, <2>2, <2>3 DEF R
<1>5. ASSUME NEW Y \in Seq(Nat), Items(SubSeq(f, 1, n)) = R \o (<<Unreadable>> \o Y)
      PROVE  /\ \E r \in Seq(Num) : R = p \o r
             /\ x # <<>>
  <2>1. PICK z \in Seq(Nat) : z = <<Unreadable>> \o Y /\ Len(z) > 0 /\ z[1] = Unreadable
    <3>1. PICK u \in Seq(Nat) : u = <<Unreadable>>
      <4>1. <<Unreadable>> \in Seq(Nat)
        BY DEF Unreadable
      <4> QED BY <4>1
    <3>2. Len(u) = 1 /\ u[1] = Unreadable
      BY <3>1
    <3>3. /\ u \o Y \in Seq(Nat) /\ Len(u \o Y) = Len(u) + Len(Y) /\ Len(Y) \in Nat
          /\ \A i \in 1 .. Len(u) + Len(Y) : (u \o Y)[i] = IF i <= Len(u) THEN u[i] ELSE Y[i - Len(u)]
      BY ConcatProperties, LenProperties
    <3>4. Len(u \o Y) > 0 /\ (u \o Y)[1] = u[1]
      BY <3>2, <3>3
    <3> QED BY <3>1, <3>2, <3>3, <3>4
  <2>2. p \o x = R \o z
    BY <1>5, <2>1
  <2>3. /\ Len(p) \in Nat /\ Len(x) \in Nat /\ Len(R) \in Nat /\ Len(z) \in Nat
        /\ Len(p \o x) = Len(p) + Len(x) /\ Len(R \o z) = Len(R) + Len(z)
    BY <1>2, <2>1, ConcatProperties, LenProperties
  <2>4. Len(p) <= Len(R)
    <3>1. SUFFICES ASSUME Len(p) > Len(R) PROVE FALSE
      BY <2>3
    <3>2. Len(R) + 1 \in 1 .. Len(p)
      BY <2>3, <3>1
    <3>3. (p \o x)[Len(R) + 1] = p[Len(R) + 1]
      <4>1. \A i \in 1 .. Len(p) + Len(x) : (p \o x)[i] = IF i <= Len(p) THEN p[i] ELSE x[i - Len(p)]
        BY <1>2, ConcatProperties
      <4> QED BY <2>3, <3>2, <4>1
    <3>4. (R \o z)[Len(R) + 1] = z[1]
      <4>1. \A i \in 1 .. Len(R) + Len(z) : (R \o z)[i] = IF i <= Len(R) THEN R[i] ELSE z[i - Len(R)]
        BY <1>2, ConcatProperties
      <4>2. Len(R) + 1 \in 1 .. Len(R) + Len(z) /\ ~(Len(R) + 1 <= Len(R)) /\ Len(R) + 1 - Len(R) = 1
        BY <2>1, <2>3
      <4>3. (R \o z)[Len(R) + 1] = z[Len(R) + 1 - Len(R)]
        BY <4>1, <4>2
      <4> QED BY <4>2, <4>3
    <3>5. p[Len(R) + 1] # Unreadable
      BY <3>2, NumSeq
    <3> QED BY <2>1, <2>2, <3>3, <3>4, <3>5
  <2>5. PICK r \in Seq(Nat) : R = p \o r
    <3>1. R \in Seq(Nat) /\ p \in Seq(Nat) /\ z \in Seq(Nat)
      BY <1>2, <2>1
    <3>2. R = p \o SubSeq(R, Len(p) + 1, Len(R)) /\ SubSeq(R, Len(p) + 1, Len(R)) \in Seq(Nat)
      BY <2>2, <2>4, <3>1, NatBeginnings, Zenon
    <3> QED BY <3>2
  <2>6. r \in Seq(Num)
    BY <1>3, <2>5
  <2>7. Len(x) > 0
    BY <2>1, <2>2, <2>3, <2>4
  <2>8. x # <<>>
    BY <2>7, EmptySeq
  <2> QED BY <2>5, <2>6, <2>8
<1> QED BY <1>1, <1>4, <1>5 DEF R

\* A batch: what is left begins with it.
LEMMA BatchOf ==
    ASSUME NEW x \in Seq(Nat)
    PROVE  LET b == SubSeq(x, 1, IF Len(x) < MaxBatch THEN Len(x) ELSE MaxBatch)
           IN  /\ b \in Seq(Nat)
               /\ \E y \in Seq(Nat) : x = b \o y
               /\ ~HasError(b) => b \in Seq(Num)
               /\ b = <<>> <=> x = <<>>
<1> DEFINE n == IF Len(x) < MaxBatch THEN Len(x) ELSE MaxBatch
           b == SubSeq(x, 1, n)
<1>1. n \in 0 .. Len(x) /\ Len(x) \in Nat /\ (n = 0 <=> Len(x) = 0)
  BY LenProperties, ParserAssumption
<1> HIDE DEF n
<1>2. /\ b \in Seq(Nat) /\ Len(b) = n
      /\ SubSeq(x, n + 1, Len(x)) \in Seq(Nat)
      /\ x = b \o SubSeq(x, n + 1, Len(x))
  BY <1>1, SeqParts
<1> HIDE DEF b
<1>3. ASSUME ~HasError(b) PROVE b \in Seq(Num)
  <2>1. \A k \in 1 .. Len(b) : b[k] \in Num
    BY <1>2, <1>3, LenProperties DEF HasError, Contains, Num
  <2>2. b \in [1 .. Len(b) -> Num] /\ Len(b) \in Nat
    BY <1>2, <2>1, LenProperties
  <2> QED BY <2>2, SeqDef
<1>4. b = <<>> <=> x = <<>>
  BY <1>1, <1>2, EmptySeq
<1> QED BY <1>2, <1>3, <1>4 DEF b, n


-----------------------------------------------------------------------------
(***************************************************************************)
(* The types of the variables, and what the archiver does to them.         *)
(***************************************************************************)
Task == [phase : TaskPhases, listed : Nat, missed : SUBSET Nat, taken : Nat,
         batch : Seq(Num), pending : Seq(Nat), opened : BOOLEAN, errOpened : BOOLEAN]

\* An e-mail whose lineage is owed is in the last file, which can be read
\* already or still be finished.
OwedOf(f, o) == o # 0 => Len(f) > 0 /\ f[Len(f)].state # "dead"

Types ==
    /\ TypeOK
    /\ files \in [Lists -> Seq(File)]
    /\ next \in [Lists -> Num]
    /\ failOnError \in BOOLEAN
    /\ \A l \in Lists : OwedOf(files[l], owed[l])

\* A step of the archiver on list l, but for a file deleted by hand.
Archives(l) == Store(l) \/ RecordLineage(l) \/ Finish(l) \/ ArchiverKilled(l)

LEMMA LastFile ==
    ASSUME NEW f \in Seq(File), Len(f) > 0, f[Len(f)].state = "open", NEW h \in File
    PROVE  LET g == [f EXCEPT ![Len(f)] = h]
           IN  g \in Seq(File) /\ Len(g) = Len(f) /\ g[Len(g)] = h /\ Grows(f, g)
<1> DEFINE g == [f EXCEPT ![Len(f)] = h]
<1>1. Len(f) \in 1 .. Len(f)
  BY LenProperties
<1>2. /\ g \in Seq(File) /\ Len(g) = Len(f)
      /\ \A j \in 1 .. Len(f) : g[j] = IF j = Len(f) THEN h ELSE f[j]
  BY <1>1, ExceptSeq
<1> HIDE DEF g
<1>3. Grows(f, g)
  BY <1>1, <1>2 DEF Grows
<1> QED BY <1>1, <1>2, <1>3 DEF g

LEMMA NewFile ==
    ASSUME NEW f \in Seq(File), NEW h \in File
    PROVE  LET g == Append(f, h)
           IN  g \in Seq(File) /\ Len(g) > 0 /\ g[Len(g)] = h /\ Grows(f, g)
<1> DEFINE g == Append(f, h)
<1>1. /\ g \in Seq(File) /\ Len(g) = Len(f) + 1 /\ Len(f) \in Nat
      /\ \A i \in 1 .. Len(f) : g[i] = f[i]
      /\ g[Len(f) + 1] = h
  BY AppendProperties, LenProperties
<1> HIDE DEF g
<1> QED BY <1>1 DEF Grows, g

\* The archiver makes the files of one list grow.
LEMMA ArchiveShape ==
    ASSUME Types, NEW l \in Lists, Archives(l), UNCHANGED avars
    PROVE  /\ Types'
           /\ \A m \in Lists : Grows(files[m], files'[m])
           /\ UNCHANGED <<failOnError, run, exit, task, partial, outputs, avars>>
           /\ faults' >= faults
<1>0. /\ files \in [Lists -> Seq(File)] /\ next \in [Lists -> Num] /\ owed \in [Lists -> Nat]
      /\ failOnError \in BOOLEAN /\ \A m \in Lists : OwedOf(files[m], owed[m])
  BY DEF Types, TypeOK
<1>f. PICK f : f = files[l] /\ f \in Seq(File) /\ Len(f) \in Nat /\ OwedOf(f, owed[l])
  BY <1>0, LenProperties
<1>g. Grows(f, f)
  BY <1>f DEF Grows
<1>n. \A k \in 1 .. Len(f) : f[k] \in File /\ f[k].rows \in Seq(Num)
  <2>1. \A k \in 1 .. Len(f) : f[k] \in File
    BY <1>f, LenProperties
  <2> QED BY <2>1 DEF File
<1>1. ASSUME NEW g \in Seq(File), NEW o \in Nat, NEW n \in Num, Grows(f, g), OwedOf(g, o),
             files' = [files EXCEPT ![l] = g],
             owed' = [owed EXCEPT ![l] = o],
             next' = [next EXCEPT ![l] = n],
             faults' \in 0 .. MaxFaults, faults' >= faults,
             UNCHANGED <<failOnError, run, exit, task, partial, outputs>>
      PROVE  /\ Types'
             /\ \A m \in Lists : Grows(files[m], files'[m])
             /\ UNCHANGED <<failOnError, run, exit, task, partial, outputs, avars>>
             /\ faults' >= faults
  <2>1. /\ files' \in [Lists -> Seq(File)] /\ owed' \in [Lists -> Nat]
        /\ next' \in [Lists -> Num] /\ next' \in [Lists -> Nat]
    BY <1>0, <1>1 DEF Num
  <2>2. \A m \in Lists : OwedOf(files'[m], owed'[m])
    BY <1>0, <1>1, <1>f
  <2>3. \A m \in Lists : Grows(files[m], files'[m])
    <3>1. \A m \in Lists \ {l} : files'[m] = files[m]
      BY <1>0, <1>1
    <3>2. files'[l] = g
      BY <1>0, <1>1
    <3>3. \A h \in Seq(File) : Grows(h, h)
      BY LenProperties DEF Grows
    <3> QED BY <1>0, <1>1, <1>f, <3>1, <3>2, <3>3
  <2>4. TypeOK'
    BY <1>1, <2>1 DEF Types, TypeOK, outputs, avars
  <2> QED BY <1>0, <1>1, <2>1, <2>2, <2>3, <2>4 DEF Types
<1>2. /\ next = [next EXCEPT ![l] = next[l]] /\ owed = [owed EXCEPT ![l] = owed[l]]
      /\ files = [files EXCEPT ![l] = f]
      /\ owed[l] \in Nat /\ next[l] \in Num /\ faults \in 0 .. MaxFaults
      /\ faults >= faults
  BY <1>0, <1>f DEF Types, TypeOK
<1>w. Writing(l) => Len(f) > 0 /\ f[Len(f)].state = "open" /\ f[Len(f)] \in File
                    /\ f[Len(f)].rows \in Seq(Num)
  <2>1. Writing(l) => Len(f) # 0 /\ f[Len(f)].state = "open"
    BY <1>f, EmptySeq DEF Writing, Last
  <2> QED BY <1>f, <1>n, <2>1
<1>3. CASE Store(l)
  <2>1. next[l] \in Nat /\ next[l] + 1 \in Num
    BY <1>2 DEF Num, Unreadable
  <2>2. CASE Writing(l)
    <3> DEFINE h == [f[Len(f)] EXCEPT !.rows = Append(@, next[l])]
               g == [f EXCEPT ![Len(f)] = h]
    <3>1. h \in File /\ h.state = "open"
      <4>1. Append(f[Len(f)].rows, next[l]) \in Seq(Num)
        BY <1>2, <1>w, <2>2, AppendProperties
      <4> QED BY <1>w, <2>2, <4>1 DEF File
    <3>2. files' = [files EXCEPT ![l] = g]
      BY <1>0, <1>3, <1>f, <2>2 DEF Store
    <3> HIDE DEF h
    <3>3. g \in Seq(File) /\ Len(g) = Len(f) /\ g[Len(g)] = h /\ Grows(f, g)
      BY <1>f, <1>w, <2>2, <3>1, LastFile
    <3> HIDE DEF g
    <3>4. OwedOf(g, next[l])
      BY <1>w, <2>2, <3>1, <3>3 DEF OwedOf
    <3> QED BY <1>1, <1>2, <1>3, <2>1, <3>2, <3>3, <3>4 DEF Store
  <2>3. CASE ~Writing(l)
    <3> DEFINE h == [rows |-> <<next[l]>>, state |-> "open"]
               g == Append(f, h)
    <3>1. h \in File /\ h.state = "open"
      <4>1. <<next[l]>> \in Seq(Num)
        BY <1>2
      <4> QED BY <4>1 DEF File
    <3>2. files' = [files EXCEPT ![l] = g]
      BY <1>0, <1>3, <1>f, <2>3 DEF Store
    <3> HIDE DEF h
    <3>3. g \in Seq(File) /\ Len(g) > 0 /\ g[Len(g)] = h /\ Grows(f, g)
      BY <1>f, <3>1, NewFile
    <3> HIDE DEF g
    <3>4. OwedOf(g, next[l])
      BY <3>1, <3>3 DEF OwedOf
    <3> QED BY <1>1, <1>2, <1>3, <2>1, <3>2, <3>3, <3>4 DEF Store
  <2> QED BY <2>2, <2>3
<1>4. CASE RecordLineage(l)
  <2>1. /\ files' = [files EXCEPT ![l] = f] /\ next' = [next EXCEPT ![l] = next[l]]
        /\ owed' = [owed EXCEPT ![l] = 0] /\ faults' = faults
        /\ UNCHANGED <<failOnError, run, exit, task, partial, outputs>>
    BY <1>2, <1>4 DEF RecordLineage
  <2> QED BY <1>1, <1>2, <1>f, <1>g, <2>1 DEF OwedOf
<1>5. CASE Finish(l)
  <2> DEFINE h == [f[Len(f)] EXCEPT !.state = "done"]
             g == [f EXCEPT ![Len(f)] = h]
  <2>0. Writing(l)
    BY <1>5 DEF Finish
  <2>1. h \in File /\ h.state = "done"
    BY <1>w, <2>0 DEF File
  <2>2. files' = [files EXCEPT ![l] = g]
    BY <1>0, <1>5, <1>f DEF Finish
  <2> HIDE DEF h
  <2>3. g \in Seq(File) /\ Len(g) = Len(f) /\ g[Len(g)] = h /\ Grows(f, g)
    BY <1>f, <1>w, <2>0, <2>1, LastFile
  <2> HIDE DEF g
  <2>4. OwedOf(g, owed[l])
    BY <1>w, <2>0, <2>1, <2>3 DEF OwedOf
  <2> QED BY <1>1, <1>2, <1>5, <2>2, <2>3, <2>4 DEF Finish
<1>6. CASE ArchiverKilled(l)
  <2>1. PICK n \in {next[l]} \cup Range(Last(files[l]).rows) : next' = [next EXCEPT ![l] = n]
    BY <1>6 DEF ArchiverKilled
  <2>2. n \in Num
    <3>1. Len(f) > 0
      BY <1>6, <1>f, <1>w DEF ArchiverKilled, OwedOf
    <3>2. f[Len(f)].rows \in Seq(Num)
      BY <1>f, <1>n, <3>1
    <3>3. \A r \in Seq(Num) : Range(r) \subseteq Num
      BY LenProperties DEF Range
    <3> QED BY <1>2, <1>f, <2>1, <3>2, <3>3 DEF Last
  <2>3. faults' \in 0 .. MaxFaults /\ faults' >= faults
    BY <1>2, <1>6, ParserAssumption DEF ArchiverKilled, Fault
  <2>4. /\ owed' = [owed EXCEPT ![l] = 0]
        /\ UNCHANGED <<failOnError, run, exit, task, partial, outputs>>
    BY <1>6 DEF ArchiverKilled
  <2>5. CASE Writing(l)
    <3> DEFINE h == [f[Len(f)] EXCEPT !.state = "dead"]
               g == [f EXCEPT ![Len(f)] = h]
    <3>1. h \in File
      BY <1>w, <2>5 DEF File
    <3>2. files' = [files EXCEPT ![l] = g]
      BY <1>0, <1>6, <1>f, <2>5 DEF ArchiverKilled
    <3> HIDE DEF h
    <3>3. g \in Seq(File) /\ Grows(f, g)
      BY <1>f, <1>w, <2>5, <3>1, LastFile
    <3> HIDE DEF g
    <3> QED BY <1>1, <2>1, <2>2, <2>3, <2>4, <3>2, <3>3 DEF OwedOf
  <2>6. CASE ~Writing(l)
    <3>1. files' = [files EXCEPT ![l] = f]
      BY <1>2, <1>6, <2>6 DEF ArchiverKilled
    <3> QED BY <1>1, <1>f, <1>g, <2>1, <2>2, <2>3, <2>4, <3>1 DEF OwedOf
  <2> QED BY <2>5, <2>6
<1> QED BY <1>3, <1>4, <1>5, <1>6 DEF Archives


-----------------------------------------------------------------------------
(***************************************************************************)
(* What is true of a list at each phase.  The parts are about values: the  *)
(* files f of list l, its task t, dataset d, error lines e, anonymizer a   *)
(* and anonymized dataset ad, fail_on_parsing_error, and the state r and   *)
(* exit status x of the run.                                               *)
(***************************************************************************)
Walk == {"reading", "batch", "flush", "closing", "leaving"}

RunOf(t, fail, r, x) ==
    /\ t.phase \in Walk \cup {"spawned"} => r = "lists"
    /\ r = "lineage" => t.phase \in {"ok", "empty", "failed"}
    /\ fail /\ (r = "lineage" \/ x = "ok") => t.phase \in {"ok", "empty"}
    /\ x = "ok" => r = "idle"

DatasetIs(l, t, d, rows) ==
    IF t.opened THEN d = [state |-> "open", rows |-> Good(l, rows)]
                ELSE Good(l, rows) = <<>>

\* The lines written and those in the buffer.
ErrorsAre(l, t, e, fail, rows) ==
    /\ IF t.errOpened THEN e \o t.pending = Refused(l, rows)
                      ELSE Refused(l, rows) = <<>> /\ t.pending = <<>>
    /\ fail => Refused(l, rows) = <<>>

\* In the middle of a batch its errors are noted and its rows are not.
Noted(t, seen) == IF t.phase = "flush" THEN seen \o t.batch ELSE seen

\* What was taken are the first rows of files that are finished, and the
\* two outputs are what has to be written of them.
StepsMatch(l, f, t, d, e, fail) ==
    \E j \in 0 .. t.listed : \E seen, rest \in Seq(Num) :
       /\ AllDone(f, j)
       /\ Rows(f, j) = (seen \o t.batch) \o rest
       /\ t.taken = Len(seen) + Len(t.batch)
       /\ DatasetIs(l, t, d, seen)
       /\ ErrorsAre(l, t, e, fail, Noted(t, seen))

ToldOf(l, f, t, e, fail) ==
    /\ AllDone(f, t.listed)
    /\ ErrorsAre(l, t, e, fail, Rows(f, t.listed))

TaskOf(l, f, t, d, e, fail) ==
    /\ t.phase = "spawned" =>
         t.taken = 0 /\ t.batch = <<>> /\ t.pending = <<>> /\ ~t.opened /\ ~t.errOpened
    /\ t.phase \in Walk \cup {"ok", "empty"} => t.listed <= Len(f)
    /\ t.phase \in {"reading", "batch", "flush"} => StepsMatch(l, f, t, d, e, fail)
    /\ t.phase = "reading" => t.batch = <<>>
    /\ t.phase \in {"closing", "leaving", "ok", "empty"} => ToldOf(l, f, t, e, fail)
    /\ t.phase = "closing" =>
         t.opened /\ d = [state |-> "open", rows |-> Good(l, Rows(f, t.listed))]
    /\ t.phase = "ok" \/ (t.phase = "leaving" /\ t.opened) =>
         d = [state |-> "done", rows |-> Good(l, Rows(f, t.listed))]
    /\ t.phase = "empty" \/ (t.phase = "leaving" /\ ~t.opened) =>
         Good(l, Rows(f, t.listed)) = <<>>

\* Error lines of an earlier run are about e-mails that are still there.
OldOf(l, f, t, e) ==
    e # <<>> => /\ Refused(l, Rows(f, Len(f))) # <<>>
                /\ t.phase \in Walk \cup {"ok", "empty"} =>
                     Refused(l, Rows(f, t.listed)) # <<>>

\* How many files a dataset that can be read may be about: a run writes one
\* that is about all it listed.
Reach(f, t) == IF t.phase \in Walk THEN t.listed ELSE Len(f)

Snap(l, f, n) == Good(l, Rows(f, n))

\* The slices are the beginning of a snapshot, also if the parser replaced
\* the dataset: the new one begins with the old one.
SlicesOf(l, f, t, d, a, ad) ==
    \E n \in 0 .. Reach(f, t) :
       /\ a.total = Len(Snap(l, f, n))
       /\ a.offset <= a.total
       /\ a.opened => ad.rows = SubSeq(Snap(l, f, n), 1, a.offset)
       /\ ~a.opened => a.offset = 0
       /\ d.state = "done" => Len(d.rows) >= a.total

SnapOf(l, f, t, d, a, ad) ==
    /\ d.state = "done" => \E n \in 0 .. Reach(f, t) : d.rows = Snap(l, f, n)
    /\ ad.state = "done" => \E n \in 0 .. Len(f) : ad.rows = Snap(l, f, n)
    /\ a.phase = "slices" => a.total > 0 /\ SlicesOf(l, f, t, d, a, ad)

\* What is true of a list whose listings have shown all files.
WholeOf(l, f, t, d, e, a, ad) ==
    t.missed = {} /\ OldOf(l, f, t, e) /\ SnapOf(l, f, t, d, a, ad)

-----------------------------------------------------------------------------
(***************************************************************************)
(* Nothing of it is lost when the files grow, or when a file that a killed *)
(* archiver left is deleted; nor what a task that missed some can see.     *)
(***************************************************************************)
\* What could be read of the first files, no matter how many, still can be.
Keeps(f, g) ==
    /\ Len(f) <= Len(g)
    /\ \A n \in 0 .. Len(f) :
         /\ AllDone(f, n) => AllDone(g, n) /\ Rows(g, n) = Rows(f, n)
         /\ \E m \in 0 .. n : Rows(g, m) = Rows(f, n)
         /\ \E more \in Seq(Num) : Rows(g, n) = Rows(f, n) \o more

\* Files that could not be read are deleted.
Cleared(f, g) ==
    /\ Len(g) = Len(f)
    /\ \A k \in 1 .. Len(f) : g[k] = f[k] \/ (f[k].state # "done" /\ g[k] = NoFile)

LEMMA GrowsDone ==
    ASSUME NEW f \in Seq(File), NEW g \in Seq(File), Grows(f, g),
           NEW j \in Nat, j <= Len(f), AllDone(f, j)
    PROVE  AllDone(g, j) /\ Rows(g, j) = Rows(f, j)
<1>1. Len(f) \in Nat /\ Len(g) \in Nat /\ Len(f) <= Len(g)
  BY LenProperties DEF Grows
<1>2. \A k \in 1 .. j : f[k].state = "done" /\ g[k] = f[k]
  BY <1>1 DEF Grows, AllDone
<1>3. SubSeq(f, 1, j) = SubSeq(g, 1, j)
  BY <1>1, <1>2, SameFirst
<1> QED BY <1>2, <1>3 DEF AllDone, Rows

LEMMA GrowsKeeps ==
    ASSUME NEW f \in Seq(File), NEW g \in Seq(File), Grows(f, g)
    PROVE  Keeps(f, g)
<1>1. Len(f) \in Nat /\ Len(f) <= Len(g)
  BY LenProperties DEF Grows
<1>2. ASSUME NEW n \in 0 .. Len(f)
      PROVE  /\ AllDone(f, n) => AllDone(g, n) /\ Rows(g, n) = Rows(f, n)
             /\ \E m \in 0 .. n : Rows(g, m) = Rows(f, n)
             /\ \E more \in Seq(Num) : Rows(g, n) = Rows(f, n) \o more
  <2>1. n \in Nat /\ n <= Len(f)
    BY <1>1
  <2>2. AllDone(f, n) => AllDone(g, n) /\ Rows(g, n) = Rows(f, n)
    BY <2>1, GrowsDone
  <2>3. /\ \E m \in 0 .. n : Rows(g, m) = Rows(f, n)
        /\ \E more \in Seq(Num) : Rows(g, n) = Rows(f, n) \o more
    BY GrowsRows DEF Rows
  <2> QED BY <2>2, <2>3
<1> QED BY <1>1, <1>2 DEF Keeps

LEMMA ClearedKeeps ==
    ASSUME NEW f \in Seq(File), NEW g \in Seq(File), Cleared(f, g)
    PROVE  Keeps(f, g)
<1>1. /\ Len(f) \in Nat /\ Len(g) = Len(f)
      /\ \A k \in 1 .. Len(f) : g[k] = f[k] \/ (f[k].state # "done" /\ g[k] = NoFile)
  BY LenProperties DEF Cleared
<1>2. ASSUME NEW n \in 0 .. Len(f)
      PROVE  /\ AllDone(f, n) => AllDone(g, n)
             /\ Rows(g, n) = Rows(f, n) /\ Rows(f, n) \in Seq(Num)
  <2>1. n \in 0 .. Len(g) /\ n \in 0 .. n /\ \A k \in 1 .. n : k \in 1 .. Len(f)
    BY <1>1
  <2>2. AllDone(f, n) => AllDone(g, n)
    BY <1>1, <2>1 DEF AllDone
  <2>3. PICK a \in Seq(File), b \in Seq(File) : a = SubSeq(f, 1, n) /\ b = SubSeq(g, 1, n)
    BY <2>1, FirstFiles
  <2>4. /\ DOMAIN a = 1 .. n /\ DOMAIN b = 1 .. n
        /\ \A k \in 1 .. n : a[k] = f[k] /\ b[k] = g[k]
    BY <2>1, <2>3, FirstFiles
  <2>5. \A k \in 1 .. n : (IF b[k].state = "done" THEN b[k].rows ELSE <<>>) =
                           (IF a[k].state = "done" THEN a[k].rows ELSE <<>>)
    BY <1>1, <2>1, <2>4 DEF NoFile
  <2>6. [k \in DOMAIN b |-> IF b[k].state = "done" THEN b[k].rows ELSE <<>>] =
        [k \in DOMAIN a |-> IF a[k].state = "done" THEN a[k].rows ELSE <<>>]
    BY <2>4, <2>5
  <2>7. Rows(g, n) = Rows(f, n)
    BY <2>3, <2>6 DEF Rows, RowsOf
  <2> QED BY <2>1, <2>2, <2>7, RowsMore
<1>3. ASSUME NEW n \in 0 .. Len(f)
      PROVE  /\ \E m \in 0 .. n : Rows(g, m) = Rows(f, n)
             /\ \E more \in Seq(Num) : Rows(g, n) = Rows(f, n) \o more
  <2>1. n \in 0 .. n /\ <<>> \in Seq(Num)
    BY <1>1
  <2>2. Rows(g, n) = Rows(f, n) \o <<>>
    BY <1>2, ConcatEmptySeq
  <2> QED BY <1>2, <2>1, <2>2
<1>4. \A n \in 0 .. Len(f) :
         /\ AllDone(f, n) => AllDone(g, n) /\ Rows(g, n) = Rows(f, n)
         /\ \E m \in 0 .. n : Rows(g, m) = Rows(f, n)
         /\ \E more \in Seq(Num) : Rows(g, n) = Rows(f, n) \o more
  BY <1>2, <1>3, Zenon
<1>5. Len(f) <= Len(g)
  BY <1>1
<1> QED BY <1>4, <1>5, Zenon DEF Keeps

LEMMA SeenFiles ==
    ASSUME NEW f \in Seq(File), NEW missed
    PROVE  /\ Seen(f, missed) \in Seq(File) /\ Len(Seen(f, missed)) = Len(f)
           /\ \A k \in 1 .. Len(f) :
                 Seen(f, missed)[k] = IF k \in missed THEN NoFile ELSE f[k]
           /\ missed = {} => Seen(f, missed) = f
<1>1. Len(f) \in Nat /\ DOMAIN f = 1 .. Len(f) /\ \A k \in 1 .. Len(f) : f[k] \in File
  BY LenProperties
<1>2. NoFile \in File
  BY DEF NoFile, File
<1>3. PICK g : g = Seen(f, missed)
  OBVIOUS
<1>4. g = [k \in 1 .. Len(f) |-> IF k \in missed THEN NoFile ELSE f[k]]
  BY <1>1, <1>3 DEF Seen
<1>5. g \in [1 .. Len(f) -> File]
  BY <1>1, <1>2, <1>4
<1>6. g \in Seq(File)
  BY <1>1, <1>5, IsASeq
<1>7. Len(g) = Len(f)
  <2>1. DOMAIN g = 1 .. Len(f) /\ DOMAIN g = 1 .. Len(g) /\ Len(g) \in Nat
    BY <1>5, <1>6, LenProperties
  <2> QED BY <1>1, <2>1
<1>8. missed = {} => g = f
  <2>1. \A k \in 1 .. Len(f) : missed = {} => g[k] = f[k]
    BY <1>4
  <2> QED BY <1>6, <1>7, <2>1, SeqEqual
<1> QED BY <1>3, <1>4, <1>6, <1>7, <1>8

LEMMA SeenKeeps ==
    ASSUME NEW f \in Seq(File), NEW g \in Seq(File), Grows(f, g) \/ Cleared(f, g),
           NEW missed
    PROVE  Keeps(Seen(f, missed), Seen(g, missed))
<1>1. PICK a \in Seq(File), b \in Seq(File) :
         /\ a = Seen(f, missed) /\ Len(a) = Len(f)
         /\ \A k \in 1 .. Len(f) : a[k] = IF k \in missed THEN NoFile ELSE f[k]
         /\ b = Seen(g, missed) /\ Len(b) = Len(g)
         /\ \A k \in 1 .. Len(g) : b[k] = IF k \in missed THEN NoFile ELSE g[k]
  BY SeenFiles
<1>2. Len(f) \in Nat /\ Len(g) \in Nat
  BY LenProperties
<1>3. CASE Grows(f, g)
  <2>1. Len(f) <= Len(g) /\ \A k \in 1 .. Len(f) : k \in 1 .. Len(g)
    BY <1>2, <1>3 DEF Grows
  <2>2. ASSUME NEW k \in 1 .. Len(f), k < Len(f) \/ a[k].state = "done" PROVE b[k] = a[k]
    BY <1>1, <1>3, <2>1, <2>2 DEF Grows
  <2>3. Grows(a, b)
    BY <1>1, <2>1, <2>2 DEF Grows
  <2> QED BY <1>1, <2>3, GrowsKeeps
<1>4. CASE Cleared(f, g)
  <2>1. Len(a) = Len(b)
    BY <1>1, <1>4 DEF Cleared
  <2>2. ASSUME NEW k \in 1 .. Len(f)
        PROVE  b[k] = a[k] \/ (a[k].state # "done" /\ b[k] = NoFile)
    BY <1>1, <1>4, <2>2 DEF Cleared
  <2>3. Cleared(a, b)
    BY <1>1, <2>1, <2>2 DEF Cleared
  <2> QED BY <1>1, <2>3, ClearedKeeps
<1> QED BY <1>3, <1>4

\* What is refused stays refused when there is more.
LEMMA StillRefused ==
    ASSUME NEW l, NEW a \in Seq(Num), NEW b \in Seq(Num), Refused(l, a) # <<>>
    PROVE  Refused(l, a \o b) # <<>>
<1>1. /\ Refused(l, a \o b) = Refused(l, a) \o Refused(l, b)
      /\ Refused(l, a) \in Seq(Nat)
  BY SieveConcat
<1>2. Refused(l, b) \in Seq(Nat)
  BY SieveConcat
<1>3. Refused(l, a) \o Refused(l, b) = <<>> <=> Refused(l, a) = <<>> /\ Refused(l, b) = <<>>
  BY <1>1, <1>2, ConcatEqualIffEmpty
<1> QED BY <1>1, <1>3

LEMMA StaysRefused ==
    ASSUME NEW f \in Seq(File), NEW l, NEW j \in 0 .. Len(f), Refused(l, Rows(f, j)) # <<>>,
           NEW n \in j .. Len(f)
    PROVE  Refused(l, Rows(f, n)) # <<>>
<1>1. n \in 0 .. Len(f) /\ j \in 0 .. n
  BY LenProperties
<1>2. PICK more \in Seq(Num) : Rows(f, n) = Rows(f, j) \o more
  BY <1>1, RowsMore
<1>3. Rows(f, j) \in Seq(Num)
  BY <1>1, RowsMore
<1> QED BY <1>2, <1>3, StillRefused

LEMMA KeepsTask ==
    ASSUME NEW f \in Seq(File), NEW g \in Seq(File), Keeps(f, g),
           NEW l, NEW t \in Task, NEW d, NEW e, NEW fail, TaskOf(l, f, t, d, e, fail)
    PROVE  TaskOf(l, g, t, d, e, fail)
<1>1. /\ Len(f) \in Nat /\ Len(g) \in Nat /\ Len(f) <= Len(g) /\ t.listed \in Nat
      /\ \A n \in 0 .. Len(f) : AllDone(f, n) => AllDone(g, n) /\ Rows(g, n) = Rows(f, n)
  BY LenProperties DEF Keeps, Task
<1>2. CASE t.phase \in {"reading", "batch", "flush"}
  <2>1. t.listed <= Len(f) /\ StepsMatch(l, f, t, d, e, fail)
    BY <1>2 DEF TaskOf, Walk
  <2>2. PICK j \in 0 .. t.listed, seen \in Seq(Num), rest \in Seq(Num) :
           /\ AllDone(f, j)
           /\ Rows(f, j) = (seen \o t.batch) \o rest
           /\ t.taken = Len(seen) + Len(t.batch)
           /\ DatasetIs(l, t, d, seen)
           /\ ErrorsAre(l, t, e, fail, Noted(t, seen))
    BY <2>1 DEF StepsMatch
  <2>3. AllDone(g, j) /\ Rows(g, j) = Rows(f, j)
    <3>1. j \in 0 .. Len(f)
      BY <1>1, <2>1
    <3> QED BY <1>1, <2>2, <3>1
  <2>4. StepsMatch(l, g, t, d, e, fail)
    BY <2>2, <2>3 DEF StepsMatch
  <2> QED BY <1>1, <1>2, <2>1, <2>4 DEF TaskOf
<1>3. CASE t.phase \in {"closing", "leaving", "ok", "empty"}
  <2>1. t.listed <= Len(f) /\ AllDone(f, t.listed)
    BY <1>3 DEF TaskOf, ToldOf, Walk
  <2>2. AllDone(g, t.listed) /\ Rows(g, t.listed) = Rows(f, t.listed)
    BY <1>1, <2>1
  <2> QED BY <1>1, <1>3, <2>1, <2>2 DEF TaskOf, ToldOf
<1>4. CASE t.phase \notin {"reading", "batch", "flush", "closing", "leaving", "ok", "empty"}
  BY <1>4 DEF TaskOf, Walk
<1> QED BY <1>2, <1>3, <1>4

LEMMA KeepsOld ==
    ASSUME NEW f \in Seq(File), NEW g \in Seq(File), Keeps(f, g),
           NEW l, NEW t \in Task, NEW e, OldOf(l, f, t, e),
           t.phase \in Walk \cup {"ok", "empty"} => t.listed <= Len(f)
    PROVE  OldOf(l, g, t, e)
<1>1. Len(f) \in Nat /\ Len(g) \in Nat /\ Len(f) <= Len(g) /\ t.listed \in Nat
  BY LenProperties DEF Keeps, Task
<1>2. ASSUME NEW n \in 0 .. Len(f), Refused(l, Rows(f, n)) # <<>>
      PROVE  Refused(l, Rows(g, n)) # <<>>
  <2>1. PICK more \in Seq(Num) : Rows(g, n) = Rows(f, n) \o more
    BY DEF Keeps
  <2>2. Rows(f, n) \in Seq(Num)
    BY <1>1, RowsMore
  <2> QED BY <1>2, <2>1, <2>2, StillRefused
<1>3. ASSUME Refused(l, Rows(g, Len(f))) # <<>> PROVE Refused(l, Rows(g, Len(g))) # <<>>
  <2>1. Len(g) \in 0 .. Len(g) /\ Len(f) \in 0 .. Len(g)
    BY <1>1
  <2>2. PICK more \in Seq(Num) : Rows(g, Len(g)) = Rows(g, Len(f)) \o more
    BY <2>1, RowsMore
  <2>3. Rows(g, Len(f)) \in Seq(Num)
    BY <2>1, RowsMore
  <2> QED BY <1>3, <2>2, <2>3, StillRefused
<1>4. /\ Len(f) \in 0 .. Len(f)
      /\ t.phase \in Walk \cup {"ok", "empty"} => t.listed \in 0 .. Len(f)
  BY <1>1
<1> QED BY <1>2, <1>3, <1>4 DEF OldOf

LEMMA KeepsSnap ==
    ASSUME NEW f \in Seq(File), NEW g \in Seq(File), Keeps(f, g),
           NEW l, NEW t \in Task, NEW d, NEW a, NEW ad, SnapOf(l, f, t, d, a, ad),
           t.phase \in Walk => t.listed <= Len(f)
    PROVE  SnapOf(l, g, t, d, a, ad)
<1>1. Len(f) \in Nat /\ Len(g) \in Nat /\ Len(f) <= Len(g) /\ t.listed \in Nat
  BY LenProperties DEF Keeps, Task
<1>2. Reach(f, t) \in 0 .. Len(f) /\ Reach(g, t) \in Nat /\ Reach(f, t) <= Reach(g, t)
  BY <1>1 DEF Reach
<1>3. ASSUME NEW n \in 0 .. Len(f) PROVE \E m \in 0 .. n : Snap(l, g, m) = Snap(l, f, n)
  BY DEF Keeps, Snap
<1>4. ASSUME NEW n \in 0 .. Reach(f, t)
      PROVE  \E m \in 0 .. Reach(g, t) : Snap(l, g, m) = Snap(l, f, n)
  <2>1. n \in 0 .. Len(f)
    BY <1>2
  <2>2. PICK m \in 0 .. n : Snap(l, g, m) = Snap(l, f, n)
    BY <1>3, <2>1
  <2>3. m \in 0 .. Reach(g, t)
    BY <1>2, <2>1
  <2> QED BY <2>2, <2>3
<1>5. ASSUME NEW n \in 0 .. Len(f) PROVE \E m \in 0 .. Len(g) : Snap(l, g, m) = Snap(l, f, n)
  <2>1. PICK m \in 0 .. n : Snap(l, g, m) = Snap(l, f, n)
    BY <1>3
  <2>2. m \in 0 .. Len(g)
    BY <1>1
  <2> QED BY <2>1, <2>2
<1>6. SlicesOf(l, f, t, d, a, ad) => SlicesOf(l, g, t, d, a, ad)
  <2> SUFFICES ASSUME SlicesOf(l, f, t, d, a, ad) PROVE SlicesOf(l, g, t, d, a, ad)
    OBVIOUS
  <2>1. PICK n \in 0 .. Reach(f, t) :
           /\ a.total = Len(Snap(l, f, n))
           /\ a.offset <= a.total
           /\ a.opened => ad.rows = SubSeq(Snap(l, f, n), 1, a.offset)
           /\ ~a.opened => a.offset = 0
           /\ d.state = "done" => Len(d.rows) >= a.total
    BY DEF SlicesOf
  <2>2. PICK m \in 0 .. Reach(g, t) : Snap(l, g, m) = Snap(l, f, n)
    BY <1>4
  <2> QED BY <2>1, <2>2 DEF SlicesOf
<1>7. d.state = "done" => \E n \in 0 .. Reach(g, t) : d.rows = Snap(l, g, n)
  BY <1>4 DEF SnapOf
<1>8. ad.state = "done" => \E n \in 0 .. Len(g) : ad.rows = Snap(l, g, n)
  BY <1>5 DEF SnapOf
<1> QED BY <1>6, <1>7, <1>8 DEF SnapOf

-----------------------------------------------------------------------------
(***************************************************************************)
(* Snapshots when the task goes on, and when the anonymizer does.          *)
(***************************************************************************)
\* A task that reaches as many files or more, with a dataset as it was or
\* one that cannot be read.
LEMMA ReachesMore ==
    ASSUME NEW f \in Seq(File), NEW l, NEW t \in Task, NEW u \in Task,
           NEW d, NEW c, NEW a, NEW ad,
           SnapOf(l, f, t, d, a, ad), c = d \/ c.state # "done",
           t.phase \in Walk => t.listed <= Len(f),
           u.phase \in Walk => \/ t.phase \in Walk /\ u.listed = t.listed
                               \/ u.listed = Len(f)
    PROVE  SnapOf(l, f, u, c, a, ad)
<1>1. Len(f) \in Nat /\ t.listed \in Nat /\ u.listed \in Nat
  BY LenProperties DEF Task
<1>2. Reach(f, t) \in Nat /\ Reach(f, u) \in Nat /\ Reach(f, t) <= Reach(f, u)
  BY <1>1 DEF Reach
<1>3. 0 .. Reach(f, t) \subseteq 0 .. Reach(f, u)
  BY <1>2
<1>4. SlicesOf(l, f, t, d, a, ad) => SlicesOf(l, f, u, c, a, ad)
  BY <1>3 DEF SlicesOf
<1>5. c.state = "done" => \E n \in 0 .. Reach(f, u) : c.rows = Snap(l, f, n)
  BY <1>3 DEF SnapOf
<1> QED BY <1>4, <1>5 DEF SnapOf

\* Of two snapshots one is a beginning of the other.
LEMMA SnapMore ==
    ASSUME NEW f \in Seq(File), NEW l, NEW n \in 0 .. Len(f), NEW m \in 0 .. n
    PROVE  /\ Snap(l, f, n) \in Seq(Nat) /\ Snap(l, f, m) \in Seq(Nat)
           /\ \E more \in Seq(Nat) : Snap(l, f, n) = Snap(l, f, m) \o more
           /\ Len(Snap(l, f, m)) <= Len(Snap(l, f, n))
<1>1. PICK more \in Seq(Num) : Rows(f, n) = Rows(f, m) \o more
  BY RowsMore
<1>2. Rows(f, n) \in Seq(Num) /\ Rows(f, m) \in Seq(Num)
  BY RowsMore
<1>3. /\ Good(l, Rows(f, m) \o more) = Good(l, Rows(f, m)) \o Good(l, more)
      /\ Good(l, Rows(f, m)) \in Seq(Nat)
  BY <1>2, SieveConcat
<1>4. Good(l, more) \in Seq(Nat) /\ Good(l, Rows(f, n)) \in Seq(Nat)
  BY <1>2, SieveConcat
<1>5. /\ Len(Good(l, Rows(f, m)) \o Good(l, more)) =
            Len(Good(l, Rows(f, m))) + Len(Good(l, more))
      /\ Len(Good(l, Rows(f, m))) \in Nat /\ Len(Good(l, more)) \in Nat
  BY <1>3, <1>4, ConcatProperties, LenProperties
<1>6. Snap(l, f, n) = Snap(l, f, m) \o Good(l, more)
  BY <1>1, <1>3 DEF Snap
<1>7. Len(Snap(l, f, m)) <= Len(Snap(l, f, n))
  <2>1. Len(Snap(l, f, n)) = Len(Snap(l, f, m)) + Len(Good(l, more))
    BY <1>5, <1>6 DEF Snap
  <2> QED BY <1>5, <2>1 DEF Snap
<1>8. Snap(l, f, n) \in Seq(Nat) /\ Snap(l, f, m) \in Seq(Nat)
  BY <1>3, <1>4 DEF Snap
<1> QED BY <1>4, <1>6, <1>7, <1>8

\* Closing the dataset: it is about all files the task listed.
LEMMA ClosesSnap ==
    ASSUME NEW f \in Seq(File), NEW l, NEW t \in Task, NEW u \in Task,
           NEW d, NEW c, NEW a, NEW ad, SnapOf(l, f, t, d, a, ad),
           t.phase \in Walk, t.listed <= Len(f), u.phase \in Walk, u.listed = t.listed,
           c.rows = Snap(l, f, t.listed)
    PROVE  SnapOf(l, f, u, c, a, ad)
<1>1. Len(f) \in Nat /\ t.listed \in 0 .. Len(f) /\ t.listed \in 0 .. t.listed
  BY LenProperties DEF Task
<1>2. Reach(f, t) = t.listed /\ Reach(f, u) = t.listed
  BY DEF Reach
<1>3. SlicesOf(l, f, t, d, a, ad) => SlicesOf(l, f, u, c, a, ad)
  <2> SUFFICES ASSUME SlicesOf(l, f, t, d, a, ad) PROVE SlicesOf(l, f, u, c, a, ad)
    OBVIOUS
  <2>1. PICK n \in 0 .. t.listed :
           /\ a.total = Len(Snap(l, f, n))
           /\ a.offset <= a.total
           /\ a.opened => ad.rows = SubSeq(Snap(l, f, n), 1, a.offset)
           /\ ~a.opened => a.offset = 0
    BY <1>2 DEF SlicesOf
  <2>2. n \in 0 .. Len(f) /\ Len(c.rows) >= Len(Snap(l, f, n))
    <3>1. Len(Snap(l, f, n)) <= Len(Snap(l, f, t.listed))
      BY <1>1, SnapMore
    <3>2. Snap(l, f, n) \in Seq(Nat) /\ Snap(l, f, t.listed) \in Seq(Nat)
      BY <1>1, SnapMore
    <3>3. Len(Snap(l, f, n)) \in Nat /\ Len(Snap(l, f, t.listed)) \in Nat
      BY <3>2, LenProperties
    <3> QED BY <1>1, <3>1, <3>3
  <2> QED BY <1>2, <2>1, <2>2 DEF SlicesOf
<1> QED BY <1>1, <1>2, <1>3 DEF SnapOf


-----------------------------------------------------------------------------
(***************************************************************************)
(* The steps of process_mailing_list, on values.                           *)
(***************************************************************************)
Left(f, t) ==
    LET items == Items(SubSeq(f, 1, t.listed))
    IN  SubSeq(items, t.taken + 1, Len(items))

LEMMA WhileReading ==
    ASSUME NEW f \in Seq(File), NEW l, NEW t \in Task, NEW d, NEW e, NEW fail,
           TaskOf(l, f, t, d, e, fail), t.phase = "reading"
    PROVE  /\ t.listed \in 0 .. Len(f) /\ t.batch = <<>> /\ Left(f, t) \in Seq(Nat)
           /\ \E seen \in Seq(Num) :
                 /\ Items(SubSeq(f, 1, t.listed)) = seen \o Left(f, t)
                 /\ t.taken = Len(seen)
                 /\ DatasetIs(l, t, d, seen)
                 /\ ErrorsAre(l, t, e, fail, seen)
<1>1. /\ t.listed \in 0 .. Len(f) /\ t.batch = <<>> /\ StepsMatch(l, f, t, d, e, fail)
  BY LenProperties DEF TaskOf, Walk, Task
<1>2. PICK j \in 0 .. t.listed, seen \in Seq(Num), rest \in Seq(Num) :
         /\ AllDone(f, j)
         /\ Rows(f, j) = (seen \o t.batch) \o rest
         /\ t.taken = Len(seen) + Len(t.batch)
         /\ DatasetIs(l, t, d, seen)
         /\ ErrorsAre(l, t, e, fail, Noted(t, seen))
  BY <1>1 DEF StepsMatch
<1>3. seen \o t.batch = seen /\ Len(t.batch) = 0 /\ Len(seen) \in Nat
  BY <1>1, ConcatEmptySeq, LenProperties
<1>4. t.taken = Len(seen) /\ Rows(f, j) = seen \o rest /\ ErrorsAre(l, t, e, fail, seen)
  BY <1>2, <1>3 DEF Noted
<1>5. PICK x \in Seq(Nat) :
         /\ Items(SubSeq(f, 1, t.listed)) = seen \o x
         /\ SubSeq(Items(SubSeq(f, 1, t.listed)), Len(seen) + 1,
                   Len(Items(SubSeq(f, 1, t.listed)))) = x
  BY <1>1, <1>2, <1>4, StillToTake, ZenonT(30)
<1>6. Left(f, t) = x
  BY <1>4, <1>5 DEF Left
<1> QED BY <1>1, <1>2, <1>4, <1>5, <1>6

\* TakeBatch: no unreadable file begins before the end of the batch.
LEMMA TakesBatch ==
    ASSUME NEW f \in Seq(File), NEW l, NEW t \in Task, NEW d, NEW e, NEW fail,
           TaskOf(l, f, t, d, e, fail), t.phase = "reading",
           NEW b \in Seq(Num), NEW y \in Seq(Nat), Left(f, t) = b \o y,
           NEW u \in Task, u.phase = "batch", u.batch = b, u.taken = t.taken + Len(b),
           u.listed = t.listed, u.pending = t.pending,
           u.opened = t.opened, u.errOpened = t.errOpened
    PROVE  TaskOf(l, f, u, d, e, fail)
<1>1. t.listed \in 0 .. Len(f)
  BY WhileReading
<1>2. PICK seen \in Seq(Num) :
         /\ Items(SubSeq(f, 1, t.listed)) = seen \o Left(f, t)
         /\ t.taken = Len(seen)
         /\ DatasetIs(l, t, d, seen)
         /\ ErrorsAre(l, t, e, fail, seen)
  BY WhileReading
<1>3. PICK p \in Seq(Num) : p = seen \o b
  BY ConcatProperties
<1>4. Items(SubSeq(f, 1, t.listed)) = p \o y
  <2>1. seen \in Seq(Nat)
    BY NumSeq
  <2>2. b \in Seq(Nat)
    BY NumSeq
  <2>3. (seen \o b) \o y = seen \o (b \o y)
    BY <2>1, <2>2, NatAssoc, Zenon
  <2> QED BY <1>2, <1>3, <2>3
<1>5. PICK j \in 0 .. t.listed :
         /\ AllDone(f, j)
         /\ \E r \in Seq(Num) : Rows(f, j) = p \o r
  BY <1>1, <1>4, TakenAreRows
<1>6. PICK r \in Seq(Num) : Rows(f, j) = p \o r
  BY <1>5
<1>7. DatasetIs(l, u, d, seen)
  BY <1>2 DEF DatasetIs
<1>8. ErrorsAre(l, u, e, fail, Noted(u, seen))
  BY <1>2 DEF ErrorsAre, Noted
<1>9. StepsMatch(l, f, u, d, e, fail)
  BY <1>2, <1>3, <1>5, <1>6, <1>7, <1>8 DEF StepsMatch
<1> QED BY <1>1, <1>9 DEF TaskOf

\* EndOfInput: all files listed can be read, and their rows were taken.
LEMMA NothingLeft ==
    ASSUME NEW f \in Seq(File), NEW l, NEW t \in Task, NEW d, NEW e, NEW fail,
           TaskOf(l, f, t, d, e, fail), t.phase = "reading", Left(f, t) = <<>>
    PROVE  /\ t.listed \in 0 .. Len(f)
           /\ ToldOf(l, f, t, e, fail)
           /\ DatasetIs(l, t, d, Rows(f, t.listed))
<1>1. t.listed \in 0 .. Len(f)
  BY WhileReading
<1>2. PICK seen \in Seq(Num) :
         /\ Items(SubSeq(f, 1, t.listed)) = seen \o Left(f, t)
         /\ DatasetIs(l, t, d, seen)
         /\ ErrorsAre(l, t, e, fail, seen)
  BY WhileReading
<1>3. PICK x \in Seq(Nat) : x = <<>> /\ Items(SubSeq(f, 1, t.listed)) = seen \o x
  <2>1. <<>> \in Seq(Nat)
    OBVIOUS
  <2> QED BY <1>2, <2>1
<1>4. AllDone(f, t.listed) /\ Rows(f, t.listed) = seen
  <2>1. PICK n \in 0 .. Len(f) : n = t.listed /\ Items(SubSeq(f, 1, n)) = seen \o x
    BY <1>1, <1>3
  <2>2. Items(SubSeq(f, 1, n)) = seen \o x
    BY <2>1
  <2>3. \E j \in 0 .. n :
           /\ AllDone(f, j)
           /\ \E r \in Seq(Num) : Rows(f, j) = seen \o r
           /\ x = <<>> => j = n /\ Rows(f, j) = seen
    BY <2>2, TakenAreRows, ZenonT(30)
  <2> QED BY <1>3, <2>1, <2>3
<1> QED BY <1>1, <1>2, <1>4 DEF ToldOf

\* RecordErrors: the lines, written or not, are those of what was taken.
LEMMA NotesErrors ==
    ASSUME NEW f \in Seq(File), NEW l, NEW t \in Task, NEW d, NEW e \in Seq(Nat), NEW fail,
           TaskOf(l, f, t, d, e, fail), t.phase = "batch",
           fail => Refused(l, t.batch) = <<>>,
           NEW c \in Seq(Nat),
           NEW u \in Task, u.phase = "flush", u.listed = t.listed, u.taken = t.taken,
           u.batch = t.batch, u.opened = t.opened,
           u.errOpened <=> t.errOpened \/ Refused(l, t.batch) # <<>>,
           Refused(l, t.batch) = <<>> => c = e /\ u.pending = t.pending,
           Refused(l, t.batch) # <<>> =>
              c \o u.pending = (IF t.errOpened THEN e ELSE <<>>)
                                  \o (t.pending \o Refused(l, t.batch))
    PROVE  /\ TaskOf(l, f, u, d, c, fail)
           /\ OldOf(l, f, t, e) => OldOf(l, f, u, c)
<1>1. /\ t.listed \in 0 .. Len(f) /\ StepsMatch(l, f, t, d, e, fail) /\ Len(f) \in Nat
      /\ t.batch \in Seq(Num) /\ t.pending \in Seq(Nat)
  BY LenProperties DEF TaskOf, Walk, Task
<1>2. PICK j \in 0 .. t.listed, seen \in Seq(Num), rest \in Seq(Num) :
         /\ AllDone(f, j)
         /\ Rows(f, j) = (seen \o t.batch) \o rest
         /\ t.taken = Len(seen) + Len(t.batch)
         /\ DatasetIs(l, t, d, seen)
         /\ ErrorsAre(l, t, e, fail, Noted(t, seen))
  BY <1>1 DEF StepsMatch
<1>3. PICK b \in Seq(Num) : b = t.batch
  BY <1>1
<1>4. PICK bad \in Seq(Nat) : bad = Refused(l, b)
  BY SieveConcat
<1>p. PICK q \in Seq(Nat) : q = t.pending
  BY <1>1
<1>5. /\ u.phase = "flush" /\ u.listed = t.listed /\ u.taken = t.taken
      /\ u.batch = b /\ u.opened = t.opened
      /\ u.errOpened <=> t.errOpened \/ bad # <<>>
      /\ bad = <<>> => c = e /\ u.pending = q
      /\ bad # <<>> => c \o u.pending = (IF t.errOpened THEN e ELSE <<>>) \o (q \o bad)
  BY <1>3, <1>4, <1>p
<1>6. /\ Refused(l, seen \o b) = Refused(l, seen) \o bad
      /\ Refused(l, seen) \in Seq(Nat)
  BY <1>4, SieveConcat
<1>7. /\ IF t.errOpened THEN e \o q = Refused(l, seen)
                        ELSE Refused(l, seen) = <<>> /\ q = <<>>
      /\ fail => Refused(l, seen) = <<>>
  <2>1. ErrorsAre(l, t, e, fail, seen)
    BY <1>2 DEF Noted
  <2> QED BY <1>p, <2>1 DEF ErrorsAre
<1>8. ErrorsAre(l, u, c, fail, seen \o b)
  <2>1. CASE bad = <<>>
    <3>1. c = e /\ u.pending = q /\ (u.errOpened <=> t.errOpened)
      BY <1>5, <2>1
    <3>2. Refused(l, seen \o b) = Refused(l, seen)
      BY <1>6, <2>1, ConcatEmptySeq
    <3> QED BY <1>7, <3>1, <3>2 DEF ErrorsAre
  <2>2. CASE bad # <<>>
    <3>1. u.errOpened /\ ~fail
      BY <1>3, <1>4, <1>5, <2>2
    <3>2. CASE t.errOpened
      <4>1. c \o u.pending = e \o (q \o bad)
        BY <1>5, <2>2, <3>2
      <4>2. (e \o q) \o bad = e \o (q \o bad)
        BY NatAssoc, Zenon
      <4>3. c \o u.pending = Refused(l, seen) \o bad
        BY <1>7, <3>2, <4>1, <4>2
      <4> QED BY <1>6, <3>1, <4>3 DEF ErrorsAre
    <3>3. CASE ~t.errOpened
      <4>1. c \o u.pending = <<>> \o (<<>> \o bad)
        BY <1>5, <1>7, <2>2, <3>3
      <4>2. <<>> \o bad = bad
        BY ConcatEmptySeq
      <4>3. c \o u.pending = Refused(l, seen) \o bad
        BY <1>7, <3>3, <4>1, <4>2
      <4> QED BY <1>6, <3>1, <4>3 DEF ErrorsAre
    <3> QED BY <3>2, <3>3
  <2> QED BY <2>1, <2>2
<1>9. TaskOf(l, f, u, d, c, fail)
  <2>1. Noted(u, seen) = seen \o b
    BY <1>5 DEF Noted
  <2>2. DatasetIs(l, u, d, seen)
    BY <1>2, <1>5 DEF DatasetIs
  <2>3. StepsMatch(l, f, u, d, c, fail)
    BY <1>2, <1>3, <1>5, <1>8, <2>1, <2>2 DEF StepsMatch
  <2> QED BY <1>1, <1>5, <2>3 DEF TaskOf
<1>10. ASSUME OldOf(l, f, t, e) PROVE OldOf(l, f, u, c)
  <2>1. CASE bad = <<>>
    <3>1. c = e
      BY <1>5, <2>1
    <3> QED BY <1>5, <1>10, <3>1 DEF OldOf, Walk
  <2>2. CASE bad # <<>>
    <3>1. PICK p \in Seq(Num) : p = seen \o b
      BY ConcatProperties
    <3>2. Refused(l, p) # <<>>
      BY <1>4, <1>6, <2>2, <3>1, ConcatEqualIffEmpty
    <3>3. Refused(l, Rows(f, j)) # <<>>
      BY <1>2, <1>3, <3>1, <3>2, StillRefused
    <3>4. \A n \in j .. Len(f) : Refused(l, Rows(f, n)) # <<>>
      <4>1. j \in 0 .. Len(f)
        BY <1>1
      <4> QED BY <3>3, <4>1, StaysRefused
    <3>5. t.listed \in j .. Len(f) /\ Len(f) \in j .. Len(f)
      BY <1>1
    <3> QED BY <1>5, <3>4, <3>5 DEF OldOf
  <2> QED BY <2>1, <2>2
<1> QED BY <1>9, <1>10

\* FlushBatch: so are the rows.
LEMMA FlushesBatch ==
    ASSUME NEW f \in Seq(File), NEW l, NEW t \in Task, NEW d \in OutFiles, NEW e, NEW fail,
           TaskOf(l, f, t, d, e, fail), t.phase = "flush",
           NEW c, Good(l, t.batch) = <<>> => c = d,
           Good(l, t.batch) # <<>> =>
              c = [state |-> "open",
                   rows |-> (IF t.opened THEN d.rows ELSE <<>>) \o Good(l, t.batch)],
           NEW u \in Task, u.phase = "reading", u.listed = t.listed, u.taken = t.taken,
           u.batch = <<>>, u.pending = t.pending, u.errOpened = t.errOpened,
           u.opened <=> t.opened \/ Good(l, t.batch) # <<>>
    PROVE  /\ c \in OutFiles
           /\ TaskOf(l, f, u, c, e, fail)
           /\ OldOf(l, f, t, e) => OldOf(l, f, u, e)
<1>1. /\ t.listed \in 0 .. Len(f) /\ StepsMatch(l, f, t, d, e, fail) /\ t.batch \in Seq(Num)
  BY LenProperties DEF TaskOf, Walk, Task
<1>2. PICK j \in 0 .. t.listed, seen \in Seq(Num), rest \in Seq(Num) :
         /\ AllDone(f, j)
         /\ Rows(f, j) = (seen \o t.batch) \o rest
         /\ t.taken = Len(seen) + Len(t.batch)
         /\ DatasetIs(l, t, d, seen)
         /\ ErrorsAre(l, t, e, fail, Noted(t, seen))
  BY <1>1 DEF StepsMatch
<1>3. PICK b \in Seq(Num) : b = t.batch
  BY <1>1
<1>4. PICK good \in Seq(Nat) : good = Good(l, b)
  BY SieveConcat
<1>5. u.opened <=> t.opened \/ good # <<>>
  BY <1>3, <1>4
<1>6. PICK p \in Seq(Num) : p = seen \o b /\ Len(p) = Len(seen) + Len(b) /\ Len(p) \in Nat
  BY ConcatProperties, LenProperties
<1>7. /\ Good(l, p) = Good(l, seen) \o good
      /\ Good(l, seen) \in Seq(Nat)
  BY <1>4, <1>6, SieveConcat
<1>8. /\ c \in OutFiles
      /\ DatasetIs(l, u, c, p)
  <2>1. CASE good = <<>>
    <3>1. c = d /\ (u.opened <=> t.opened)
      BY <1>3, <1>4, <1>5, <2>1
    <3>2. Good(l, p) = Good(l, seen)
      BY <1>7, <2>1, ConcatEmptySeq
    <3> QED BY <1>2, <3>1, <3>2 DEF DatasetIs
  <2>2. CASE good # <<>>
    <3>1. u.opened /\ c = [state |-> "open", rows |-> (IF t.opened THEN d.rows ELSE <<>>) \o good]
      BY <1>3, <1>4, <1>5, <2>2
    <3>2. (IF t.opened THEN d.rows ELSE <<>>) = Good(l, seen)
      BY <1>2 DEF DatasetIs
    <3>3. c = [state |-> "open", rows |-> Good(l, p)]
      BY <1>7, <3>1, <3>2
    <3>4. Good(l, p) \in Seq(Nat)
      BY SieveConcat
    <3>5. c \in OutFiles
      BY <3>3, <3>4 DEF OutFiles
    <3> QED BY <3>1, <3>3, <3>5 DEF DatasetIs
  <2> QED BY <2>1, <2>2
<1>9. StepsMatch(l, f, u, c, e, fail)
  <2>1. Noted(u, p) = p /\ Noted(t, seen) = p
    BY <1>3, <1>5, <1>6 DEF Noted
  <2>2. ErrorsAre(l, u, e, fail, Noted(u, p))
    BY <1>2, <1>5, <2>1 DEF ErrorsAre
  <2>3. Rows(f, j) = (p \o u.batch) \o rest
    <3>1. p \o <<>> = p
      BY ConcatEmptySeq
    <3> QED BY <1>2, <1>3, <1>5, <1>6, <3>1
  <2>4. u.taken = Len(p) + Len(u.batch)
    <3>1. Len(<<>>) = 0
      OBVIOUS
    <3> QED BY <1>2, <1>3, <1>5, <1>6, <3>1
  <2> QED BY <1>2, <1>5, <1>8, <2>2, <2>3, <2>4 DEF StepsMatch
<1>10. TaskOf(l, f, u, c, e, fail)
  BY <1>1, <1>5, <1>9 DEF TaskOf
<1>11. OldOf(l, f, t, e) => OldOf(l, f, u, e)
  BY <1>5 DEF OldOf, Walk
<1> QED BY <1>8, <1>10, <1>11

\* Lines that a failing task may leave behind are about rows of the files.
LEMMA LinesAbout ==
    ASSUME NEW f \in Seq(File), NEW l, NEW t \in Task, NEW d, NEW e \in Seq(Nat), NEW fail,
           TaskOf(l, f, t, d, e, fail), OldOf(l, f, t, e), t.phase \in Walk,
           \/ e # <<>>
           \/ t.pending # <<>>
           \/ t.phase = "batch" /\ Refused(l, t.batch) # <<>>
    PROVE  Refused(l, Rows(f, Len(f))) # <<>>
<1>1. /\ t.listed \in 0 .. Len(f) /\ Len(f) \in Nat
      /\ t.batch \in Seq(Num) /\ t.pending \in Seq(Nat)
  BY LenProperties DEF TaskOf, Walk, Task
<1>2. CASE e # <<>>
  BY <1>2 DEF OldOf
<1>3. ASSUME NEW rows \in Seq(Num), t.pending # <<>>, ErrorsAre(l, t, e, fail, rows)
      PROVE  Refused(l, rows) # <<>>
  <2>1. e \o t.pending = Refused(l, rows)
    BY <1>3 DEF ErrorsAre
  <2> QED BY <1>1, <1>3, <2>1, ConcatEqualIffEmpty
<1>4. CASE /\ t.phase \in {"reading", "batch", "flush"}
           /\ t.pending # <<>> \/ (t.phase = "batch" /\ Refused(l, t.batch) # <<>>)
  <2>1. PICK j \in 0 .. t.listed, seen \in Seq(Num), rest \in Seq(Num) :
           /\ AllDone(f, j)
           /\ Rows(f, j) = (seen \o t.batch) \o rest
           /\ ErrorsAre(l, t, e, fail, Noted(t, seen))
    BY <1>4 DEF TaskOf, StepsMatch
  <2>2. PICK b \in Seq(Num), p \in Seq(Num) : b = t.batch /\ p = seen \o b
    BY <1>1, ConcatProperties
  <2>3. /\ Refused(l, p) = Refused(l, seen) \o Refused(l, b)
        /\ Refused(l, seen) \in Seq(Nat) /\ Refused(l, b) \in Seq(Nat)
    BY <2>2, SieveConcat
  <2>4. Refused(l, p) # <<>>
    <3>1. CASE t.pending # <<>>
      <4>1. Noted(t, seen) = p \/ Noted(t, seen) = seen
        BY <2>2 DEF Noted
      <4>2. Refused(l, p) # <<>> \/ Refused(l, seen) # <<>>
        BY <1>3, <2>1, <3>1, <4>1
      <4> QED BY <2>3, <4>2, ConcatEqualIffEmpty
    <3>2. CASE Refused(l, t.batch) # <<>>
      BY <2>2, <2>3, <3>2, ConcatEqualIffEmpty
    <3> QED BY <1>4, <3>1, <3>2
  <2>5. Refused(l, Rows(f, j)) # <<>>
    BY <2>1, <2>2, <2>4, StillRefused
  <2>6. j \in 0 .. Len(f) /\ Len(f) \in j .. Len(f)
    BY <1>1
  <2> QED BY <2>5, <2>6, StaysRefused
<1>5. CASE t.phase \in {"closing", "leaving"} /\ t.pending # <<>>
  <2>1. ErrorsAre(l, t, e, fail, Rows(f, t.listed))
    BY <1>5 DEF TaskOf, ToldOf
  <2>2. t.listed \in 0 .. t.listed /\ Len(f) \in t.listed .. Len(f)
    BY <1>1
  <2>3. Rows(f, t.listed) \in Seq(Num)
    BY <1>1, <2>2, RowsMore
  <2>4. Refused(l, Rows(f, t.listed)) # <<>>
    BY <1>3, <1>5, <2>1, <2>3
  <2> QED BY <1>1, <2>2, <2>4, StaysRefused
<1> QED BY <1>2, <1>4, <1>5 DEF Walk

-----------------------------------------------------------------------------
(***************************************************************************)
(* The inductive invariant, and the steps that disturb one list only.      *)
(***************************************************************************)
ListInv(l) ==
    /\ RunOf(task[l], failOnError, run, exit)
    /\ TaskOf(l, Seen(files[l], task[l].missed), task[l], dataset[l], errors[l], failOnError)
    /\ l \notin partial =>
         WholeOf(l, files[l], task[l], dataset[l], errors[l], anon[l], anonData[l])
    /\ task[l].phase \in {"ok", "empty"} /\ task[l].pending # <<>> => faults > 0

Inv == Types /\ \A l \in Lists : ListInv(l)

LEMMA TypesOf ==
    ASSUME Types
    PROVE  /\ task \in [Lists -> Task] /\ dataset \in [Lists -> OutFiles]
           /\ errors \in [Lists -> Seq(Nat)] /\ files \in [Lists -> Seq(File)]
           /\ anon \in [Lists -> [phase : AnonPhases, offset : Nat, total : Nat,
                                  opened : BOOLEAN]]
           /\ anonData \in [Lists -> OutFiles] /\ idMap \in [Lists -> OutFiles]
           /\ faults \in 0 .. MaxFaults
BY DEF Types, TypeOK, Task, Num

\* While a task walks its files they stay where they are.
LEMMA WalkListed ==
    ASSUME Inv, NEW l \in Lists, task[l].phase \in Walk \cup {"ok", "empty"}
    PROVE  task[l].listed <= Len(files[l])
<1>1. PICK f \in Seq(File) : f = files[l]
  BY TypesOf DEF Inv
<1>2. Len(Seen(f, task[l].missed)) = Len(f)
  BY SeenFiles
<1> QED BY <1>1, <1>2 DEF Inv, ListInv, TaskOf

\* A step that changes nothing but the files.
LEMMA InvKeeps ==
    ASSUME Inv, Types', faults' >= faults,
           UNCHANGED <<failOnError, run, exit, task, partial, outputs, avars>>,
           \A l \in Lists : Grows(files[l], files'[l]) \/ Cleared(files[l], files'[l])
    PROVE  Inv'
<1>1. faults \in Nat /\ faults' \in Nat /\ faults' >= faults
  BY DEF Inv, Types, TypeOK
<1>2. ASSUME NEW l \in Lists PROVE ListInv(l)'
  <2>1. ListInv(l)
    BY DEF Inv
  <2>2. /\ files[l] \in Seq(File) /\ files'[l] \in Seq(File) /\ task[l] \in Task
    <3>1. files \in [Lists -> Seq(File)] /\ task \in [Lists -> Task]
      BY TypesOf DEF Inv
    <3>2. files' \in [Lists -> Seq(File)]
      BY DEF Types
    <3> QED BY <3>1, <3>2
  <2>3. PICK f \in Seq(File), g \in Seq(File), t \in Task :
           /\ f = files[l] /\ g = files'[l] /\ t = task[l]
           /\ Grows(f, g) \/ Cleared(f, g)
    BY <2>2
  <2>4. t.phase \in Walk \cup {"ok", "empty"} => t.listed <= Len(f)
    BY <2>3, WalkListed
  <2>5. TaskOf(l, Seen(g, t.missed), t, dataset[l], errors[l], failOnError)
    <3>1. PICK a \in Seq(File), b \in Seq(File) :
             a = Seen(f, t.missed) /\ b = Seen(g, t.missed)
      BY SeenFiles
    <3>2. Keeps(a, b)
      BY <2>3, <3>1, SeenKeeps
    <3>3. TaskOf(l, a, t, dataset[l], errors[l], failOnError)
      BY <2>1, <2>3, <3>1 DEF ListInv
    <3> QED BY <3>1, <3>2, <3>3, KeepsTask
  <2>6. l \notin partial => WholeOf(l, g, t, dataset[l], errors[l], anon[l], anonData[l])
    <3>1. Keeps(f, g)
      BY <2>3, GrowsKeeps, ClearedKeeps
    <3>2. SUFFICES ASSUME l \notin partial
                   PROVE  WholeOf(l, g, t, dataset[l], errors[l], anon[l], anonData[l])
      OBVIOUS
    <3>3. WholeOf(l, f, t, dataset[l], errors[l], anon[l], anonData[l])
      BY <2>1, <2>3, <3>2 DEF ListInv
    <3>4. OldOf(l, g, t, errors[l])
      BY <2>4, <3>1, <3>3, KeepsOld DEF WholeOf
    <3>5. SnapOf(l, g, t, dataset[l], anon[l], anonData[l])
      BY <2>4, <3>1, <3>3, KeepsSnap DEF WholeOf
    <3> QED BY <3>3, <3>4, <3>5 DEF WholeOf
  <2>7. /\ task' = task /\ dataset' = dataset /\ errors' = errors /\ anon' = anon
        /\ anonData' = anonData /\ partial' = partial /\ failOnError' = failOnError
        /\ run' = run /\ exit' = exit
    BY DEF outputs, avars
  <2>8. task[l].phase \in {"ok", "empty"} /\ task[l].pending # <<>> => faults' > 0
    BY <1>1, <2>1 DEF ListInv
  <2>9. RunOf(task[l], failOnError, run, exit)
    BY <2>1 DEF ListInv
  <2> QED BY <2>3, <2>5, <2>6, <2>7, <2>8, <2>9 DEF ListInv
<1> QED BY <1>2 DEF Inv

LEMMA InvArchives ==
    ASSUME Inv, NEW m \in Lists, Archives(m), UNCHANGED avars
    PROVE  Inv'
BY ArchiveShape, InvKeeps DEF Inv

LEMMA InvRemoved ==
    ASSUME Inv, NEW m \in Lists, RemoveDead(m), UNCHANGED avars
    PROVE  Inv'
<1>1. PICK k \in DOMAIN files[m] :
         /\ files[m][k].state = "dead"
         /\ files' = [files EXCEPT ![m][k] = NoFile]
  BY DEF RemoveDead
<1>2. UNCHANGED <<lineage, next, owed, failOnError, run, exit, task, partial, outputs,
                  faults, avars>>
  BY DEF RemoveDead
<1>3. files \in [Lists -> Seq(File)]
  BY TypesOf DEF Inv
<1>4. PICK f \in Seq(File) : f = files[m]
  BY <1>3
<1>5. k \in 1 .. Len(f) /\ f[k].state = "dead" /\ Len(f) \in Nat
  BY <1>1, <1>4, LenProperties
<1>6. PICK g : g = [f EXCEPT ![k] = NoFile]
  OBVIOUS
<1>7. /\ g \in Seq(File) /\ Len(g) = Len(f)
      /\ \A i \in 1 .. Len(f) : g[i] = IF i = k THEN NoFile ELSE f[i]
  <2>1. NoFile \in File
    BY DEF NoFile, File
  <2> QED BY <1>5, <1>6, <2>1, ExceptSeq
<1>8. /\ files' \in [Lists -> Seq(File)] /\ files'[m] = g
      /\ \A l \in Lists \ {m} : files'[l] = files[l]
  BY <1>1, <1>3, <1>4, <1>6, <1>7
<1>9. Cleared(f, g)
  BY <1>5, <1>7 DEF Cleared
<1>10. Types'
  <2>1. OwedOf(f, owed[m])
    BY <1>4 DEF Inv, Types
  <2>2. OwedOf(g, owed[m])
    BY <1>5, <1>7, <2>1 DEF OwedOf, NoFile
  <2>3. \A l \in Lists : OwedOf(files'[l], owed'[l])
    BY <1>2, <1>8, <2>2 DEF Inv, Types
  <2>4. TypeOK'
    BY <1>2 DEF Inv, Types, TypeOK, outputs, avars
  <2> QED BY <1>2, <1>8, <2>3, <2>4 DEF Inv, Types
<1>11. ASSUME NEW l \in Lists PROVE Grows(files[l], files'[l]) \/ Cleared(files[l], files'[l])
  <2>1. CASE l = m
    BY <1>4, <1>8, <1>9, <2>1
  <2>2. CASE l # m
    <3>1. files'[l] = files[l]
      BY <1>8, <2>2
    <3> QED BY <3>1 DEF Cleared
  <2> QED BY <2>1, <2>2
<1>12. faults' >= faults
  BY <1>2 DEF Inv, Types, TypeOK
<1> QED BY <1>2, <1>10, <1>11, <1>12, InvKeeps

\* A step of the task of one list.
LEMMA OneTask ==
    ASSUME Inv, NEW m \in Lists, NEW t \in Task, NEW d \in OutFiles, NEW e \in Seq(Nat),
           task' = [task EXCEPT ![m] = t],
           dataset' = [dataset EXCEPT ![m] = d],
           errors' = [errors EXCEPT ![m] = e],
           faults' \in 0 .. MaxFaults, faults' >= faults,
           partial' = partial \/ partial' = partial \cup {m},
           UNCHANGED <<archive, failOnError, run, exit, avars>>,
           RunOf(t, failOnError, run, exit),
           TaskOf(m, Seen(files[m], t.missed), t, d, e, failOnError),
           m \notin partial' => WholeOf(m, files[m], t, d, e, anon[m], anonData[m]),
           t.phase \in {"ok", "empty"} /\ t.pending # <<>> => faults' > 0
    PROVE  Inv'
<1>1. /\ task \in [Lists -> Task] /\ dataset \in [Lists -> OutFiles]
      /\ errors \in [Lists -> Seq(Nat)] /\ faults \in Nat /\ partial \subseteq Lists
  <2>1. faults \in Nat /\ partial \subseteq Lists
    BY DEF Inv, Types, TypeOK
  <2> QED BY <2>1, TypesOf DEF Inv
<1>2. /\ task' \in [Lists -> Task] /\ dataset' \in [Lists -> OutFiles]
      /\ errors' \in [Lists -> Seq(Nat)] /\ partial' \subseteq Lists
      /\ task'[m] = t /\ dataset'[m] = d /\ errors'[m] = e
      /\ \A l \in Lists \ {m} :
            /\ task'[l] = task[l] /\ dataset'[l] = dataset[l] /\ errors'[l] = errors[l]
            /\ l \notin partial' => l \notin partial
  BY <1>1
<1>3. Types'
  <2>1. TypeOK'
    BY <1>2 DEF Inv, Types, TypeOK, Task, Num, archive, avars
  <2> QED BY <2>1 DEF Inv, Types, archive
<1>4. ASSUME NEW l \in Lists PROVE ListInv(l)'
  <2>1. ListInv(l)
    BY DEF Inv
  <2>2. /\ files' = files /\ failOnError' = failOnError /\ run' = run /\ exit' = exit
        /\ anon' = anon /\ anonData' = anonData
    BY DEF archive, avars
  <2>3. CASE l # m
    <3>1. faults > 0 => faults' > 0
      BY <1>1
    <3>2. /\ task'[l] = task[l] /\ dataset'[l] = dataset[l] /\ errors'[l] = errors[l]
          /\ l \notin partial' => l \notin partial
      BY <1>2, <2>3
    <3> QED BY <2>1, <2>2, <3>1, <3>2 DEF ListInv
  <2>4. CASE l = m
    BY <1>2, <2>2, <2>4 DEF ListInv
  <2> QED BY <2>3, <2>4
<1> QED BY <1>3, <1>4 DEF Inv

-----------------------------------------------------------------------------
(***************************************************************************)
(* The steps of a whole run.                                               *)
(***************************************************************************)
LEMMA NoTaskTypes ==
    /\ NoTask \in Task /\ NoTask.phase = "off"
    /\ \A ph \in TaskPhases :
         \E u \in Task : /\ u = [NoTask EXCEPT !.phase = ph]
                         /\ u.phase = ph /\ u.listed = 0 /\ u.missed = {} /\ u.taken = 0
                         /\ u.batch = <<>> /\ u.pending = <<>> /\ ~u.opened /\ ~u.errOpened
<1>1. /\ NoTask \in Task /\ NoTask.phase = "off" /\ NoTask.listed = 0 /\ NoTask.missed = {}
      /\ NoTask.taken = 0 /\ NoTask.batch = <<>> /\ NoTask.pending = <<>>
      /\ ~NoTask.opened /\ ~NoTask.errOpened
  BY DEF NoTask, Task, TaskPhases
<1>2. ASSUME NEW ph \in TaskPhases
      PROVE  \E u \in Task : /\ u = [NoTask EXCEPT !.phase = ph]
                             /\ u.phase = ph /\ u.listed = 0 /\ u.missed = {} /\ u.taken = 0
                             /\ u.batch = <<>> /\ u.pending = <<>>
                             /\ ~u.opened /\ ~u.errOpened
  <2> DEFINE u == [NoTask EXCEPT !.phase = ph]
  <2>1. u \in Task
    BY <1>1 DEF Task
  <2>2. /\ u.phase = ph /\ u.listed = 0 /\ u.missed = {} /\ u.taken = 0
        /\ u.batch = <<>> /\ u.pending = <<>>
    BY <1>1 DEF Task
  <2>3. ~u.opened /\ ~u.errOpened
    BY <1>1 DEF Task
  <2> QED BY <2>1, <2>2, <2>3
<1> QED BY <1>1, <1>2

LEMMA InvStart ==
    ASSUME Inv, StartParser, UNCHANGED avars
    PROVE  Inv'
<1>1. /\ run = "idle" /\ run' = "lists" /\ failOnError' \in BOOLEAN /\ exit' = "none"
      /\ task' = [l \in Lists |-> [NoTask EXCEPT !.phase = "spawned"]]
      /\ UNCHANGED <<archive, partial, outputs, faults, avars>>
  BY DEF StartParser
<1>2. PICK u \in Task :
         /\ u = [NoTask EXCEPT !.phase = "spawned"]
         /\ u.phase = "spawned" /\ u.listed = 0 /\ u.missed = {} /\ u.taken = 0
         /\ u.batch = <<>> /\ u.pending = <<>> /\ ~u.opened /\ ~u.errOpened
  BY NoTaskTypes DEF TaskPhases
<1>3. task' \in [Lists -> Task] /\ \A l \in Lists : task'[l] = u
  BY <1>1, <1>2
<1>4. Types'
  <2>1. TypeOK'
    BY <1>1, <1>3 DEF Inv, Types, TypeOK, Task, Num, archive, outputs, avars
  <2> QED BY <1>1, <2>1 DEF Inv, Types, archive
<1>5. ASSUME NEW l \in Lists PROVE ListInv(l)'
  <2>1. ListInv(l)
    BY DEF Inv
  <2>2. PICK t \in Task, f \in Seq(File) : t = task[l] /\ f = files[l]
    BY TypesOf DEF Inv
  <2>3. t.phase \notin Walk
    BY <1>1, <2>1, <2>2 DEF ListInv, RunOf
  <2>4. TaskOf(l, Seen(f, u.missed), u, dataset[l], errors[l], failOnError')
    BY <1>2 DEF TaskOf, Walk
  <2>5. l \notin partial => WholeOf(l, f, u, dataset[l], errors[l], anon[l], anonData[l])
    <3> SUFFICES ASSUME l \notin partial
                 PROVE  WholeOf(l, f, u, dataset[l], errors[l], anon[l], anonData[l])
      OBVIOUS
    <3>1. WholeOf(l, f, t, dataset[l], errors[l], anon[l], anonData[l])
      BY <2>1, <2>2 DEF ListInv
    <3>2. OldOf(l, f, u, errors[l])
      BY <1>2, <3>1 DEF WholeOf, OldOf, Walk
    <3>3. u.phase \notin Walk
      BY <1>2 DEF Walk
    <3>4. SnapOf(l, f, u, dataset[l], anon[l], anonData[l])
      BY <2>3, <3>1, <3>3, ReachesMore DEF WholeOf
    <3> QED BY <1>2, <3>2, <3>4 DEF WholeOf
  <2>6. RunOf(u, failOnError', run', exit')
    BY <1>1, <1>2 DEF RunOf, Walk
  <2>7. u.phase \notin {"ok", "empty"}
    BY <1>2
  <2>8. /\ files' = files /\ partial' = partial /\ dataset' = dataset /\ errors' = errors
        /\ anon' = anon /\ anonData' = anonData
    BY <1>1 DEF archive, outputs, avars
  <2> QED BY <1>3, <2>2, <2>4, <2>5, <2>6, <2>7, <2>8 DEF ListInv
<1> QED BY <1>4, <1>5 DEF Inv

\* A step that changes only the state of the run and its exit status.
LEMMA InvRun ==
    ASSUME Inv, run' \in {"idle", "lists", "lineage"}, exit' \in {"none", "ok", "failed"},
           faults' \in 0 .. MaxFaults, faults' >= faults,
           UNCHANGED <<archive, failOnError, task, partial, dataset, errors, avars>>,
           \A l \in Lists : RunOf(task[l], failOnError, run', exit')
    PROVE  Inv'
<1>1. Types'
  BY DEF Inv, Types, TypeOK, archive, avars
<1>2. ASSUME NEW l \in Lists PROVE ListInv(l)'
  <2>1. faults > 0 => faults' > 0
    BY DEF Inv, Types, TypeOK
  <2> QED BY <2>1 DEF Inv, ListInv, archive, avars
<1> QED BY <1>1, <1>2 DEF Inv

LEMMA InvJoin ==
    ASSUME Inv, JoinLists \/ ParseLineage \/ LineageFails, UNCHANGED avars
    PROVE  Inv'
<1>0. faults \in 0 .. MaxFaults /\ faults >= faults /\ exit \in {"none", "ok", "failed"}
  BY DEF Inv, Types, TypeOK
<1>r. \A l \in Lists : RunOf(task[l], failOnError, run, exit)
  BY DEF Inv, ListInv
<1>1. CASE JoinLists
  <2>1. /\ run = "lists" /\ \A l \in Lists : task[l].phase \in {"ok", "empty", "failed"}
        /\ UNCHANGED <<archive, failOnError, task, partial, outputs, faults>>
    BY <1>1 DEF JoinLists, Ended
  <2>2. CASE failOnError /\ \E l \in Lists : task[l].phase = "failed"
    <3>1. run' = "idle" /\ exit' = "failed"
      BY <1>1, <2>2 DEF JoinLists
    <3>2. \A l \in Lists : RunOf(task[l], failOnError, run', exit')
      BY <2>1, <3>1 DEF RunOf, Walk
    <3> QED BY <1>0, <2>1, <3>1, <3>2, InvRun DEF outputs
  <2>3. CASE ~(failOnError /\ \E l \in Lists : task[l].phase = "failed")
    <3>1. run' = "lineage" /\ exit' = exit
      BY <1>1, <2>3 DEF JoinLists
    <3>2. ASSUME NEW l \in Lists PROVE RunOf(task[l], failOnError, run', exit')
      BY <1>r, <2>1, <2>3, <3>1 DEF RunOf, Walk
    <3> QED BY <1>0, <2>1, <3>1, <3>2, InvRun DEF outputs
  <2> QED BY <2>2, <2>3
<1>2. CASE ParseLineage
  <2>1. /\ run = "lineage" /\ run' = "idle" /\ exit' = "ok"
        /\ UNCHANGED <<archive, failOnError, task, partial, dataset, errors, faults>>
    BY <1>2 DEF ParseLineage
  <2>2. \A l \in Lists : RunOf(task[l], failOnError, run', exit')
    BY <1>r, <2>1 DEF RunOf, Walk
  <2> QED BY <1>0, <2>1, <2>2, InvRun
<1>3. CASE LineageFails
  <2>1. /\ run = "lineage" /\ run' = "idle" /\ exit' = "failed"
        /\ UNCHANGED <<archive, failOnError, task, partial, dataset, errors>>
        /\ faults' \in 0 .. MaxFaults /\ faults' >= faults
    BY <1>0, <1>3, ParserAssumption DEF LineageFails, Fault
  <2>2. \A l \in Lists : RunOf(task[l], failOnError, run', exit')
    BY <1>r, <2>1 DEF RunOf, Walk
  <2> QED BY <1>0, <2>1, <2>2, InvRun
<1> QED BY <1>1, <1>2, <1>3

LEMMA InvKilled ==
    ASSUME Inv, ParserKilled, UNCHANGED avars
    PROVE  Inv'
<1>1. /\ run' = "idle" /\ exit' = "failed" /\ task' = [l \in Lists |-> NoTask]
      /\ UNCHANGED <<archive, failOnError, partial, dataset, errors, avars>>
  BY DEF ParserKilled
<1>2. faults' \in 0 .. MaxFaults
  BY ParserAssumption DEF ParserKilled, Fault, Inv, Types, TypeOK
<1>3. PICK u \in Task :
         /\ u = NoTask /\ u.phase = "off" /\ u.missed = {}
  BY NoTaskTypes DEF NoTask
<1>4. task' \in [Lists -> Task] /\ \A l \in Lists : task'[l] = u
  BY <1>1, <1>3
<1>5. Types'
  <2>1. TypeOK'
    BY <1>1, <1>2, <1>4 DEF Inv, Types, TypeOK, Task, Num, archive, avars
  <2> QED BY <1>1, <2>1 DEF Inv, Types, archive
<1>6. ASSUME NEW l \in Lists PROVE ListInv(l)'
  <2>1. ListInv(l)
    BY DEF Inv
  <2>2. PICK t \in Task, f \in Seq(File) : t = task[l] /\ f = files[l]
    BY TypesOf DEF Inv
  <2>3. TaskOf(l, Seen(f, u.missed), u, dataset[l], errors[l], failOnError)
    BY <1>3 DEF TaskOf, Walk
  <2>4. l \notin partial => WholeOf(l, f, u, dataset[l], errors[l], anon[l], anonData[l])
    <3> SUFFICES ASSUME l \notin partial
                 PROVE  WholeOf(l, f, u, dataset[l], errors[l], anon[l], anonData[l])
      OBVIOUS
    <3>1. WholeOf(l, f, t, dataset[l], errors[l], anon[l], anonData[l])
      BY <2>1, <2>2 DEF ListInv
    <3>2. OldOf(l, f, u, errors[l])
      BY <1>3, <3>1 DEF WholeOf, OldOf, Walk
    <3>3. u.phase \notin Walk
      BY <1>3 DEF Walk
    <3>4. t.phase \in Walk => t.listed <= Len(f)
      BY <2>2, WalkListed
    <3>5. SnapOf(l, f, u, dataset[l], anon[l], anonData[l])
      BY <3>1, <3>3, <3>4, ReachesMore DEF WholeOf
    <3> QED BY <1>3, <3>2, <3>5 DEF WholeOf
  <2>5. RunOf(u, failOnError, run', exit')
    BY <1>1, <1>3 DEF RunOf, Walk
  <2>6. u.phase \notin {"ok", "empty"}
    BY <1>3
  <2>7. /\ files' = files /\ partial' = partial /\ dataset' = dataset /\ errors' = errors
        /\ anon' = anon /\ anonData' = anonData /\ failOnError' = failOnError
    BY <1>1 DEF archive, avars
  <2> QED BY <1>4, <2>2, <2>3, <2>4, <2>5, <2>6, <2>7 DEF ListInv
<1> QED BY <1>5, <1>6 DEF Inv

-----------------------------------------------------------------------------
(***************************************************************************)
(* The steps of the task of one list.                                      *)
(***************************************************************************)
LEMMA Here ==
    ASSUME Inv, NEW m \in Lists
    PROVE  \E f \in Seq(File), g \in Seq(File), t \in Task, d \in OutFiles, e \in Seq(Nat) :
              /\ f = files[m] /\ t = task[m] /\ d = dataset[m] /\ e = errors[m]
              /\ g = Seen(files[m], t.missed) /\ Len(g) = Len(f)
              /\ t.missed = {} => g = f
              /\ RunOf(t, failOnError, run, exit)
              /\ TaskOf(m, g, t, d, e, failOnError)
              /\ m \notin partial => WholeOf(m, f, t, d, e, anon[m], anonData[m])
              /\ t.phase \in Walk \cup {"ok", "empty"} => t.listed <= Len(f)
              /\ task = [task EXCEPT ![m] = t]
              /\ dataset = [dataset EXCEPT ![m] = d]
              /\ errors = [errors EXCEPT ![m] = e]
              /\ faults \in 0 .. MaxFaults /\ faults >= faults
<1>1. /\ task \in [Lists -> Task] /\ dataset \in [Lists -> OutFiles]
      /\ errors \in [Lists -> Seq(Nat)] /\ files \in [Lists -> Seq(File)]
  BY TypesOf DEF Inv
<1>2. /\ task[m] \in Task /\ dataset[m] \in OutFiles /\ errors[m] \in Seq(Nat)
      /\ files[m] \in Seq(File)
  BY <1>1
<1>3. /\ task = [task EXCEPT ![m] = task[m]]
      /\ dataset = [dataset EXCEPT ![m] = dataset[m]]
      /\ errors = [errors EXCEPT ![m] = errors[m]]
  BY <1>1
<1>4. task[m].phase \in Walk \cup {"ok", "empty"} => task[m].listed <= Len(files[m])
  BY WalkListed
<1>5. ListInv(m)
  BY DEF Inv
<1>6. PICK g \in Seq(File) :
         /\ g = Seen(files[m], task[m].missed) /\ Len(g) = Len(files[m])
         /\ task[m].missed = {} => g = files[m]
  BY <1>2, SeenFiles
<1>7. faults \in 0 .. MaxFaults /\ faults >= faults
  BY DEF Inv, Types, TypeOK
<1> QED BY <1>2, <1>3, <1>4, <1>5, <1>6, <1>7 DEF ListInv

\* What it knows of the list, for a step that goes on from there.
LEMMA StillWhole ==
    ASSUME NEW l, NEW f \in Seq(File), NEW t \in Task, NEW u \in Task,
           NEW d, NEW c, NEW e, NEW x, NEW a, NEW ad,
           WholeOf(l, f, t, d, e, a, ad), u.missed = t.missed,
           OldOf(l, f, t, e) => OldOf(l, f, u, x), c = d \/ c.state # "done",
           t.phase \in Walk => t.listed <= Len(f),
           u.phase \in Walk => \/ t.phase \in Walk /\ u.listed = t.listed
                               \/ u.listed = Len(f)
    PROVE  WholeOf(l, f, u, c, x, a, ad)
<1>1. SnapOf(l, f, t, d, a, ad) /\ OldOf(l, f, t, e) /\ t.missed = {}
  BY DEF WholeOf
<1>2. SnapOf(l, f, u, c, a, ad)
  BY <1>1, ReachesMore
<1> QED BY <1>1, <1>2 DEF WholeOf

\* While a task runs nothing is asked of the run but that it runs.
LEMMA RunsOn ==
    ASSUME NEW t, NEW u, NEW fail, NEW r, NEW x, RunOf(t, fail, r, x),
           t.phase \in Walk \cup {"spawned"}
    PROVE  RunOf(u, fail, r, x)
BY DEF RunOf

LEMMA Collects ==
    ASSUME NEW f \in Seq(File), NEW l, NEW d, NEW e, NEW fail,
           NEW u \in Task, u.phase = "reading", u.listed = Len(f), u.taken = 0,
           u.batch = <<>>, u.pending = <<>>, ~u.opened, ~u.errOpened
    PROVE  TaskOf(l, f, u, d, e, fail)
<1>1. Len(f) \in Nat /\ 0 \in 0 .. u.listed /\ 0 \in 0 .. Len(f)
  BY LenProperties
<1>2. PICK none \in Seq(Num) : none = <<>> /\ Len(none) = 0 /\ none \o none = none
  <2>1. <<>> \in Seq(Num) /\ Len(<<>>) = 0
    OBVIOUS
  <2>2. <<>> \o <<>> = <<>>
    BY <2>1, ConcatEmptySeq
  <2> QED BY <2>1, <2>2
<1>3. Good(l, none) = <<>> /\ Refused(l, none) = <<>>
  BY <1>2, SieveConcat
<1>4. Rows(f, 0) = none
  <2>1. SubSeq(f, 1, 0) = <<>>
    BY <1>1, FirstFiles
  <2>2. RowsOf(<<>>) = <<>>
    BY RowsOfConcat
  <2> QED BY <1>2, <2>1, <2>2 DEF Rows
<1>5. AllDone(f, 0)
  BY DEF AllDone
<1>6. u.batch = none
  BY <1>2
<1>7. Rows(f, 0) = (none \o u.batch) \o none
  BY <1>2, <1>4, <1>6
<1>8. u.taken = Len(none) + Len(u.batch)
  BY <1>2, <1>6
<1>9. DatasetIs(l, u, d, none) /\ ErrorsAre(l, u, e, fail, Noted(u, none))
  BY <1>3 DEF DatasetIs, ErrorsAre, Noted
<1>10. StepsMatch(l, f, u, d, e, fail)
  BY <1>1, <1>2, <1>5, <1>7, <1>8, <1>9 DEF StepsMatch
<1> QED BY <1>1, <1>10 DEF TaskOf, Walk

LEMMA InvCollect ==
    ASSUME Inv, NEW m \in Lists, CollectFiles(m), UNCHANGED avars
    PROVE  Inv'
<1>1. PICK f \in Seq(File), g \in Seq(File), t \in Task, d \in OutFiles, e \in Seq(Nat) :
         /\ f = files[m] /\ t = task[m] /\ d = dataset[m] /\ e = errors[m]
         /\ RunOf(t, failOnError, run, exit)
         /\ TaskOf(m, g, t, d, e, failOnError)
         /\ m \notin partial => WholeOf(m, f, t, d, e, anon[m], anonData[m])
         /\ dataset = [dataset EXCEPT ![m] = d] /\ errors = [errors EXCEPT ![m] = e]
         /\ faults \in 0 .. MaxFaults /\ faults >= faults
  BY Here
<1>2. /\ t.phase = "spawned" /\ t.phase \notin Walk
      /\ UNCHANGED <<archive, failOnError, run, exit, outputs, avars>>
  BY <1>1 DEF CollectFiles, Walk
<1>3. PICK missed \in SUBSET DOMAIN f :
         /\ task' = [task EXCEPT ![m].phase = "reading", ![m].listed = Len(f),
                                 ![m].missed = missed]
         /\ IF missed = {} THEN UNCHANGED <<partial, faults>>
                           ELSE Fault /\ partial' = partial \cup {m}
  BY <1>1 DEF CollectFiles
<1> DEFINE v == [t EXCEPT !.phase = "reading", !.listed = Len(f), !.missed = missed]
<1>4. Len(f) \in Nat /\ missed \in SUBSET Nat
  <2>1. Len(f) \in Nat /\ DOMAIN f = 1 .. Len(f)
    BY LenProperties
  <2> QED BY <2>1
<1>5. /\ v \in Task /\ v.phase = "reading" /\ v.listed = Len(f) /\ v.taken = t.taken
      /\ v.batch = t.batch /\ v.pending = t.pending /\ v.missed = missed
  BY <1>4 DEF Task, TaskPhases
<1>6. (v.opened <=> t.opened) /\ (v.errOpened <=> t.errOpened)
  BY DEF Task
<1>7. task' = [task EXCEPT ![m] = v]
  BY <1>1, <1>3, TypesOf DEF Inv
<1> HIDE DEF v
<1>8. PICK u \in Task : u = v
  BY <1>5
<1>9. /\ u.phase = "reading" /\ u.listed = Len(f) /\ u.taken = 0 /\ u.missed = missed
      /\ u.batch = <<>> /\ u.pending = <<>> /\ ~u.opened /\ ~u.errOpened
  BY <1>1, <1>2, <1>5, <1>6, <1>8 DEF TaskOf
<1>10. TaskOf(m, Seen(f, u.missed), u, d, e, failOnError)
  <2>1. PICK h \in Seq(File) : h = Seen(f, u.missed) /\ Len(h) = Len(f)
    BY SeenFiles
  <2>2. TaskOf(m, h, u, d, e, failOnError)
    BY <1>9, <2>1, Collects
  <2> QED BY <2>1, <2>2
<1>11. ASSUME m \notin partial' PROVE WholeOf(m, f, u, d, e, anon[m], anonData[m])
  <2>1. missed = {} /\ m \notin partial
    BY <1>3, <1>11
  <2>2. WholeOf(m, f, t, d, e, anon[m], anonData[m])
    BY <1>1, <2>1
  <2>3. OldOf(m, f, t, e) => OldOf(m, f, u, e)
    BY <1>9 DEF OldOf
  <2>4. u.missed = t.missed
    BY <1>9, <2>1, <2>2 DEF WholeOf
  <2> QED BY <1>2, <1>9, <2>2, <2>3, <2>4, StillWhole
<1>12. RunOf(u, failOnError, run, exit)
  BY <1>1, <1>2, RunsOn
<1>13. /\ task' = [task EXCEPT ![m] = u] /\ dataset' = [dataset EXCEPT ![m] = d]
       /\ errors' = [errors EXCEPT ![m] = e]
  BY <1>1, <1>2, <1>7, <1>8 DEF outputs
<1>14. /\ faults' \in 0 .. MaxFaults /\ faults' >= faults
       /\ partial' = partial \/ partial' = partial \cup {m}
  BY <1>1, <1>3, ParserAssumption DEF Fault
<1> QED BY <1>1, <1>2, <1>9, <1>10, <1>11, <1>12, <1>13, <1>14, OneTask

\* A list that fails, whatever it leaves of its files.
LEMMA InvFails ==
    ASSUME Inv, NEW m \in Lists, Fail(m), task[m].phase \in Walk,
           NEW c \in OutFiles, c = dataset[m] \/ c.state # "done",
           dataset' = [dataset EXCEPT ![m] = c],
           NEW x \in Seq(Nat),
           x # <<>> => \/ errors[m] # <<>>
                       \/ task[m].pending # <<>>
                       \/ task[m].phase = "batch" /\ Refused(m, task[m].batch) # <<>>,
           errors' = [errors EXCEPT ![m] = x],
           faults' \in 0 .. MaxFaults, faults' >= faults,
           UNCHANGED <<archive, failOnError, partial, run, exit, avars>>
    PROVE  Inv'
<1>1. PICK f \in Seq(File), g \in Seq(File), t \in Task, d \in OutFiles, e \in Seq(Nat) :
         /\ f = files[m] /\ t = task[m] /\ d = dataset[m] /\ e = errors[m]
         /\ g = Seen(files[m], t.missed)
         /\ t.missed = {} => g = f
         /\ RunOf(t, failOnError, run, exit)
         /\ TaskOf(m, g, t, d, e, failOnError)
         /\ m \notin partial => WholeOf(m, f, t, d, e, anon[m], anonData[m])
         /\ t.phase \in Walk \cup {"ok", "empty"} => t.listed <= Len(f)
  BY Here
<1>2. PICK u \in Task : /\ u = [NoTask EXCEPT !.phase = "failed"]
                        /\ u.phase = "failed" /\ u.missed = {}
  BY NoTaskTypes DEF TaskPhases
<1>3. TaskOf(m, Seen(f, u.missed), u, c, x, failOnError)
  BY <1>2 DEF TaskOf, Walk
<1>4. u.phase \notin Walk
  BY <1>2 DEF Walk
<1>5. ASSUME m \notin partial PROVE WholeOf(m, f, u, c, x, anon[m], anonData[m])
  <2>1. WholeOf(m, f, t, d, e, anon[m], anonData[m])
    BY <1>1, <1>5
  <2>2. t.missed = {} /\ g = f /\ OldOf(m, f, t, e)
    BY <1>1, <2>1 DEF WholeOf
  <2>3. ASSUME x # <<>> PROVE Refused(m, Rows(f, Len(f))) # <<>>
    <3>1. TaskOf(m, f, t, d, e, failOnError)
      BY <1>1, <2>2
    <3>2. t.phase \in Walk
      BY <1>1
    <3>3. \/ e # <<>> \/ t.pending # <<>>
          \/ t.phase = "batch" /\ Refused(m, t.batch) # <<>>
      BY <1>1, <2>3
    <3> QED BY <2>2, <3>1, <3>2, <3>3, LinesAbout
  <2>4. OldOf(m, f, u, x)
    BY <1>2, <2>3 DEF OldOf, Walk
  <2>5. c = d \/ c.state # "done"
    BY <1>1
  <2> QED BY <1>1, <1>2, <1>4, <2>1, <2>2, <2>4, <2>5, StillWhole
<1>6. RunOf(u, failOnError, run, exit)
  BY <1>1, RunsOn
<1>7. task' = [task EXCEPT ![m] = u]
  BY <1>2 DEF Fail
<1> QED BY <1>1, <1>2, <1>3, <1>5, <1>6, <1>7, OneTask

\* The lines a dropped writer wrote, of those there were.
LEMMA LinesWritten ==
    ASSUME NEW e \in Seq(Nat), NEW q \in Seq(Nat), NEW k \in 0 .. Len(q)
    PROVE  /\ e \o SubSeq(q, 1, k) \in Seq(Nat)
           /\ SubSeq(q, k + 1, Len(q)) \in Seq(Nat)
           /\ (e \o SubSeq(q, 1, k)) \o SubSeq(q, k + 1, Len(q)) = e \o q
           /\ e \o SubSeq(q, 1, k) # <<>> => e # <<>> \/ q # <<>>
           /\ k = Len(q) => SubSeq(q, k + 1, Len(q)) = <<>>
<1>1. /\ SubSeq(q, 1, k) \in Seq(Nat) /\ SubSeq(q, k + 1, Len(q)) \in Seq(Nat)
      /\ q = SubSeq(q, 1, k) \o SubSeq(q, k + 1, Len(q))
  BY SeqParts
<1>2. PICK a \in Seq(Nat), b \in Seq(Nat) :
         a = SubSeq(q, 1, k) /\ b = SubSeq(q, k + 1, Len(q)) /\ q = a \o b
  BY <1>1
<1>3. e \o a \in Seq(Nat) /\ (e \o a) \o b = e \o (a \o b)
  <2>1. e \o a \in Seq(Nat)
    BY ConcatProperties
  <2>2. (e \o a) \o b = e \o (a \o b)
    BY NatAssoc, Zenon
  <2> QED BY <2>1, <2>2
<1>4. e \o a # <<>> => e # <<>> \/ q # <<>>
  <2>1. e = <<>> /\ q = <<>> => a = <<>>
    BY <1>2, ConcatEqualIffEmpty
  <2> QED BY <2>1, ConcatEmptySeq
<1>5. k = Len(q) => SubSeq(q, k + 1, Len(q)) = <<>>
  BY LenProperties, SubSeqEmpty
<1> QED BY <1>2, <1>3, <1>4, <1>5

LEMMA InvTake ==
    ASSUME Inv, NEW m \in Lists, TakeBatch(m), UNCHANGED avars
    PROVE  Inv'
<1>1. PICK f \in Seq(File), g \in Seq(File), t \in Task, d \in OutFiles, e \in Seq(Nat) :
         /\ f = files[m] /\ t = task[m] /\ d = dataset[m] /\ e = errors[m]
         /\ g = Seen(files[m], t.missed)
         /\ RunOf(t, failOnError, run, exit)
         /\ TaskOf(m, g, t, d, e, failOnError)
         /\ m \notin partial => WholeOf(m, f, t, d, e, anon[m], anonData[m])
         /\ t.phase \in Walk \cup {"ok", "empty"} => t.listed <= Len(f)
         /\ dataset = [dataset EXCEPT ![m] = d] /\ errors = [errors EXCEPT ![m] = e]
         /\ faults \in 0 .. MaxFaults /\ faults >= faults
  BY Here
<1>2. /\ t.phase = "reading" /\ t.phase \in Walk
      /\ UNCHANGED <<archive, failOnError, partial, run, exit, dataset, provenance, avars>>
  BY <1>1 DEF TakeBatch, Walk
<1>3. PICK x \in Seq(Nat) : x = Left(g, t)
  BY <1>1, <1>2, WhileReading
<1>4. x = Remaining(m)
  BY <1>1, <1>3 DEF Remaining, Listed, Left
<1>5. PICK b \in Seq(Nat) : b = SubSeq(x, 1, IF Len(x) < MaxBatch THEN Len(x) ELSE MaxBatch)
  BY BatchOf
<1>6. (\E y \in Seq(Nat) : x = b \o y) /\ (~HasError(b) => b \in Seq(Num))
  BY <1>5, BatchOf
<1>7. IF HasError(b)
        THEN Fail(m) /\ \E k \in 0 .. Len(task[m].pending) : DropWriter(m, k)
        ELSE /\ task' = [task EXCEPT ![m].phase = "batch", ![m].batch = b,
                                     ![m].taken = @ + Len(b)]
             /\ UNCHANGED <<errors, faults>>
  BY <1>4, <1>5 DEF TakeBatch
<1>8. dataset' = [dataset EXCEPT ![m] = d]
  BY <1>1, <1>2
<1>9. CASE HasError(b)
  <2>1. PICK q \in Seq(Nat) : q = t.pending
    BY DEF Task
  <2>2. PICK k \in 0 .. Len(q) :
           /\ errors' = [errors EXCEPT ![m] = errors[m] \o SubSeq(q, 1, k)]
           /\ IF k = Len(q) THEN UNCHANGED faults ELSE Fault
    BY <1>1, <1>7, <1>9, <2>1 DEF DropWriter
  <2>3. PICK y \in Seq(Nat) : y = e \o SubSeq(q, 1, k) /\ (y # <<>> => e # <<>> \/ q # <<>>)
    <3>1. /\ e \o SubSeq(q, 1, k) \in Seq(Nat)
          /\ e \o SubSeq(q, 1, k) # <<>> => e # <<>> \/ q # <<>>
      BY LinesWritten
    <3> QED BY <3>1
  <2>4. faults' \in 0 .. MaxFaults /\ faults' >= faults
    BY <1>1, <2>2, ParserAssumption DEF Fault
  <2>5. errors' = [errors EXCEPT ![m] = y]
    BY <1>1, <2>2, <2>3
  <2>6. y # <<>> => errors[m] # <<>> \/ task[m].pending # <<>>
    BY <1>1, <2>1, <2>3
  <2>7. Fail(m) /\ task[m].phase \in Walk /\ d = dataset[m]
    BY <1>1, <1>2, <1>7, <1>9
  <2> QED BY <1>2, <1>8, <2>4, <2>5, <2>6, <2>7, InvFails
<1>10. CASE ~HasError(b)
  <2> DEFINE v == [t EXCEPT !.phase = "batch", !.batch = b, !.taken = t.taken + Len(b)]
  <2>1. b \in Seq(Num) /\ Len(b) \in Nat /\ t.taken + Len(b) \in Nat
    BY <1>6, <1>10, LenProperties DEF Task
  <2>2. /\ v \in Task /\ v.phase = "batch" /\ v.batch = b /\ v.taken = t.taken + Len(b)
        /\ v.listed = t.listed /\ v.missed = t.missed /\ v.pending = t.pending
    BY <2>1 DEF Task, TaskPhases
  <2>3. v.opened = t.opened /\ v.errOpened = t.errOpened
    BY DEF Task
  <2>4. task' = [task EXCEPT ![m] = v]
    BY <1>1, <1>7, <1>10, TypesOf DEF Inv
  <2> HIDE DEF v
  <2>5. PICK u \in Task : u = v
    BY <2>2
  <2>6. /\ u.phase = "batch" /\ u.batch = b /\ u.taken = t.taken + Len(b)
        /\ u.listed = t.listed /\ u.opened = t.opened /\ u.errOpened = t.errOpened
        /\ u.missed = t.missed /\ u.pending = t.pending
    BY <2>2, <2>3, <2>5
  <2>7. PICK y \in Seq(Nat) : Left(g, t) = b \o y
    BY <1>3, <1>6
  <2>8. TaskOf(m, g, u, d, e, failOnError)
    BY <1>1, <1>2, <2>1, <2>6, <2>7, TakesBatch
  <2>9. ASSUME m \notin partial PROVE WholeOf(m, f, u, d, e, anon[m], anonData[m])
    <3>1. OldOf(m, f, t, e) => OldOf(m, f, u, e)
      BY <1>2, <2>6 DEF OldOf
    <3> QED BY <1>1, <1>2, <2>6, <2>9, <3>1, StillWhole
  <2>10. RunOf(u, failOnError, run, exit)
    BY <1>1, <1>2, RunsOn
  <2>11. /\ task' = [task EXCEPT ![m] = u] /\ errors' = [errors EXCEPT ![m] = e]
         /\ faults' \in 0 .. MaxFaults /\ faults' >= faults
         /\ partial' = partial /\ u.phase \notin {"ok", "empty"}
    BY <1>1, <1>2, <1>7, <1>10, <2>4, <2>5, <2>6
  <2>12. TaskOf(m, Seen(files[m], u.missed), u, d, e, failOnError)
    BY <1>1, <2>6, <2>8
  <2> QED BY <1>1, <1>2, <1>8, <2>9, <2>10, <2>11, <2>12, OneTask
<1> QED BY <1>9, <1>10

LEMMA InvRecord ==
    ASSUME Inv, NEW m \in Lists, RecordErrors(m), UNCHANGED avars
    PROVE  Inv'
<1>1. PICK f \in Seq(File), g \in Seq(File), t \in Task, d \in OutFiles, e \in Seq(Nat) :
         /\ f = files[m] /\ t = task[m] /\ d = dataset[m] /\ e = errors[m]
         /\ g = Seen(files[m], t.missed)
         /\ RunOf(t, failOnError, run, exit)
         /\ TaskOf(m, g, t, d, e, failOnError)
         /\ m \notin partial => WholeOf(m, f, t, d, e, anon[m], anonData[m])
         /\ t.phase \in Walk \cup {"ok", "empty"} => t.listed <= Len(f)
         /\ dataset = [dataset EXCEPT ![m] = d] /\ errors = [errors EXCEPT ![m] = e]
         /\ faults \in 0 .. MaxFaults /\ faults >= faults
  BY Here
<1>2. /\ t.phase = "batch" /\ t.phase \in Walk
      /\ UNCHANGED <<archive, failOnError, partial, run, exit, dataset, provenance, faults,
                     avars>>
  BY <1>1 DEF RecordErrors, Walk
<1>3. PICK bad \in Seq(Nat) : bad = Refused(m, t.batch)
  <2>1. t.batch \in Seq(Num)
    BY DEF Task
  <2> QED BY <2>1, SieveConcat
<1>4. PICK p \in Seq(Nat) : p = t.pending
  BY DEF Task
<1>5. PICK old \in Seq(Nat) : old = (IF t.errOpened THEN e ELSE <<>>)
  <2>1. e \in Seq(Nat) /\ <<>> \in Seq(Nat)
    OBVIOUS
  <2>2. CASE t.errOpened
    BY <2>1, <2>2, Zenon
  <2>3. CASE ~t.errOpened
    BY <2>1, <2>3, Zenon
  <2> QED BY <2>2, <2>3
<1>6. PICK q \in Seq(Nat) : q = p \o bad
  <2>1. p \o bad \in Seq(Nat)
    BY ConcatProperties
  <2> QED BY <2>1
<1>7. \/ failOnError /\ bad # <<>> /\ Fail(m) /\ UNCHANGED errors
      \/ /\ bad = <<>>
         /\ task' = [task EXCEPT ![m].phase = "flush"]
         /\ UNCHANGED errors
      \/ /\ bad # <<>> /\ ~failOnError
         /\ \E k \in 0 .. Len(q) :
              /\ errors' = [errors EXCEPT ![m] = old \o SubSeq(q, 1, k)]
              /\ task' = [task EXCEPT ![m].phase = "flush", ![m].errOpened = TRUE,
                                      ![m].pending = SubSeq(q, k + 1, Len(q))]
  BY <1>1, <1>3, <1>4, <1>5, <1>6 DEF RecordErrors, StopsAt, LinesSoFar
<1>8. /\ faults' \in 0 .. MaxFaults /\ faults' >= faults
      /\ dataset' = [dataset EXCEPT ![m] = d]
  BY <1>1, <1>2
<1>9. CASE failOnError /\ bad # <<>> /\ Fail(m) /\ UNCHANGED errors
  <2>1. Fail(m) /\ errors' = [errors EXCEPT ![m] = e]
    BY <1>1, <1>9
  <2> QED BY <1>1, <1>2, <1>8, <2>1, InvFails
<1>10. ASSUME NEW v \in Task, NEW c \in Seq(Nat),
              task' = [task EXCEPT ![m] = v], errors' = [errors EXCEPT ![m] = c],
              /\ v.phase = "flush" /\ v.listed = t.listed /\ v.taken = t.taken
              /\ v.batch = t.batch /\ v.opened = t.opened /\ v.missed = t.missed,
              v.errOpened <=> t.errOpened \/ bad # <<>>,
              bad = <<>> => c = e /\ v.pending = p,
              bad # <<>> => ~failOnError /\ c \o v.pending = old \o q
       PROVE  Inv'
  <2>1. /\ TaskOf(m, g, t, d, e, failOnError) /\ t.phase = "batch"
        /\ failOnError => Refused(m, t.batch) = <<>>
    BY <1>1, <1>2, <1>3, <1>10
  <2>2. Refused(m, t.batch) = <<>> => c = e /\ v.pending = t.pending
    BY <1>3, <1>4, <1>10
  <2>3. Refused(m, t.batch) # <<>> =>
           c \o v.pending = (IF t.errOpened THEN e ELSE <<>>)
                               \o (t.pending \o Refused(m, t.batch))
    BY <1>3, <1>4, <1>5, <1>6, <1>10
  <2>4. v.errOpened <=> t.errOpened \/ Refused(m, t.batch) # <<>>
    BY <1>3, <1>10
  <2>5. /\ v.phase = "flush" /\ v.listed = t.listed /\ v.taken = t.taken
        /\ v.batch = t.batch /\ v.opened = t.opened
    BY <1>10
  <2>6. TaskOf(m, g, v, d, c, failOnError)
    BY <2>1, <2>2, <2>3, <2>4, <2>5, NotesErrors, Zenon
  <2>7. ASSUME m \notin partial PROVE WholeOf(m, f, v, d, c, anon[m], anonData[m])
    <3>1. WholeOf(m, f, t, d, e, anon[m], anonData[m])
      BY <1>1, <2>7
    <3>2. g = f
      BY <1>1, <3>1, SeenFiles DEF WholeOf
    <3>3. TaskOf(m, f, t, d, e, failOnError)
      BY <2>1, <3>2
    <3>4. OldOf(m, f, t, e) => OldOf(m, f, v, c)
      BY <2>1, <3>3, <2>2, <2>3, <2>4, <2>5, NotesErrors, Zenon
    <3> QED BY <1>1, <1>2, <1>10, <3>1, <3>4, StillWhole
  <2>8. RunOf(v, failOnError, run, exit)
    BY <1>1, <1>2, RunsOn
  <2>9. TaskOf(m, Seen(files[m], v.missed), v, d, c, failOnError)
    BY <1>1, <1>10, <2>6
  <2>10. partial' = partial /\ v.phase \notin {"ok", "empty"}
    BY <1>2, <1>10
  <2> QED BY <1>1, <1>2, <1>8, <1>10, <2>7, <2>8, <2>9, <2>10, OneTask
<1>11. CASE bad = <<>> /\ task' = [task EXCEPT ![m].phase = "flush"] /\ UNCHANGED errors
  <2> DEFINE v == [t EXCEPT !.phase = "flush"]
  <2>1. /\ v \in Task /\ v.phase = "flush" /\ v.listed = t.listed /\ v.taken = t.taken
        /\ v.batch = t.batch /\ v.missed = t.missed /\ v.pending = t.pending
    BY DEF Task, TaskPhases
  <2>2. v.opened = t.opened /\ v.errOpened = t.errOpened
    BY DEF Task
  <2>3. task' = [task EXCEPT ![m] = v] /\ errors' = [errors EXCEPT ![m] = e]
    BY <1>1, <1>11, TypesOf DEF Inv
  <2> HIDE DEF v
  <2> QED BY <1>4, <1>10, <1>11, <2>1, <2>2, <2>3
<1>12. CASE /\ bad # <<>> /\ ~failOnError
            /\ \E k \in 0 .. Len(q) :
                 /\ errors' = [errors EXCEPT ![m] = old \o SubSeq(q, 1, k)]
                 /\ task' = [task EXCEPT ![m].phase = "flush", ![m].errOpened = TRUE,
                                         ![m].pending = SubSeq(q, k + 1, Len(q))]
  <2>1. PICK k \in 0 .. Len(q) :
           /\ errors' = [errors EXCEPT ![m] = old \o SubSeq(q, 1, k)]
           /\ task' = [task EXCEPT ![m].phase = "flush", ![m].errOpened = TRUE,
                                   ![m].pending = SubSeq(q, k + 1, Len(q))]
    BY <1>12
  <2>2. PICK c \in Seq(Nat), z \in Seq(Nat) :
           /\ c = old \o SubSeq(q, 1, k) /\ z = SubSeq(q, k + 1, Len(q))
           /\ c \o z = old \o q
    <3>1. /\ old \o SubSeq(q, 1, k) \in Seq(Nat) /\ SubSeq(q, k + 1, Len(q)) \in Seq(Nat)
          /\ (old \o SubSeq(q, 1, k)) \o SubSeq(q, k + 1, Len(q)) = old \o q
      BY LinesWritten
    <3> QED BY <3>1
  <2> DEFINE v == [t EXCEPT !.phase = "flush", !.errOpened = TRUE, !.pending = z]
  <2>3. /\ v \in Task /\ v.phase = "flush" /\ v.listed = t.listed /\ v.taken = t.taken
        /\ v.batch = t.batch /\ v.missed = t.missed /\ v.pending = z
    BY DEF Task, TaskPhases
  <2>4. v.opened = t.opened /\ v.errOpened
    BY DEF Task
  <2>5. task' = [task EXCEPT ![m] = v] /\ errors' = [errors EXCEPT ![m] = c]
    BY <1>1, <2>1, <2>2, TypesOf DEF Inv
  <2> HIDE DEF v
  <2>6. c \o v.pending = old \o q
    BY <2>2, <2>3
  <2> QED BY <1>10, <1>12, <2>3, <2>4, <2>5, <2>6
<1> QED BY <1>7, <1>9, <1>11, <1>12

LEMMA InvFlush ==
    ASSUME Inv, NEW m \in Lists, FlushBatch(m), UNCHANGED avars
    PROVE  Inv'
<1>1. PICK f \in Seq(File), g \in Seq(File), t \in Task, d \in OutFiles, e \in Seq(Nat) :
         /\ f = files[m] /\ t = task[m] /\ d = dataset[m] /\ e = errors[m]
         /\ g = Seen(files[m], t.missed)
         /\ RunOf(t, failOnError, run, exit)
         /\ TaskOf(m, g, t, d, e, failOnError)
         /\ m \notin partial => WholeOf(m, f, t, d, e, anon[m], anonData[m])
         /\ t.phase \in Walk \cup {"ok", "empty"} => t.listed <= Len(f)
         /\ dataset = [dataset EXCEPT ![m] = d] /\ errors = [errors EXCEPT ![m] = e]
         /\ faults \in 0 .. MaxFaults /\ faults >= faults
  BY Here
<1>2. /\ t.phase = "flush" /\ t.phase \in Walk
      /\ UNCHANGED <<archive, failOnError, partial, run, exit, errors, provenance, faults,
                     avars>>
  BY <1>1 DEF FlushBatch, Walk
<1>3. PICK good \in Seq(Nat) : good = Good(m, t.batch)
  <2>1. t.batch \in Seq(Num)
    BY DEF Task
  <2> QED BY <2>1, SieveConcat
<1>4. /\ dataset' = IF good = <<>> THEN dataset
           ELSE [dataset EXCEPT ![m] =
                   [state |-> "open", rows |-> (IF t.opened THEN d.rows ELSE <<>>) \o good]]
      /\ task' = [task EXCEPT ![m].phase = "reading", ![m].batch = <<>>,
                              ![m].opened = @ \/ good # <<>>]
  <2>1. \A rows : [Opened EXCEPT !.rows = rows] = [state |-> "open", rows |-> rows]
    BY DEF Opened
  <2>2. dataset' = IF good = <<>> THEN dataset
          ELSE [dataset EXCEPT ![m] = [Opened EXCEPT !.rows =
                  (IF t.opened THEN d.rows ELSE <<>>) \o good]]
    BY <1>1, <1>3 DEF FlushBatch
  <2>3. task' = [task EXCEPT ![m].phase = "reading", ![m].batch = <<>>,
                             ![m].opened = @ \/ good # <<>>]
    BY <1>1, <1>3 DEF FlushBatch
  <2> QED BY <2>1, <2>2, <2>3
<1>5. /\ faults' \in 0 .. MaxFaults /\ faults' >= faults
      /\ errors' = [errors EXCEPT ![m] = e]
  BY <1>1, <1>2
<1>6. PICK c : /\ good = <<>> => c = d
               /\ good # <<>> =>
                    c = [state |-> "open", rows |-> (IF t.opened THEN d.rows ELSE <<>>) \o good]
               /\ dataset' = [dataset EXCEPT ![m] = c]
  <2>1. CASE good = <<>>
    BY <1>1, <1>4, <2>1
  <2>2. CASE good # <<>>
    BY <1>4, <2>2
  <2> QED BY <2>1, <2>2
<1> DEFINE v == [t EXCEPT !.phase = "reading", !.batch = <<>>,
                          !.opened = t.opened \/ good # <<>>]
<1>7. /\ v \in Task /\ v.phase = "reading" /\ v.listed = t.listed /\ v.taken = t.taken
      /\ v.batch = <<>> /\ v.missed = t.missed /\ v.pending = t.pending
  <2>1. "reading" \in TaskPhases /\ <<>> \in Seq(Num) /\ (t.opened \/ good # <<>>) \in BOOLEAN
    BY DEF TaskPhases
  <2>2. v \in Task
    BY <2>1 DEF Task
  <2> QED BY <2>2 DEF Task
<1>8. v.errOpened = t.errOpened /\ (v.opened <=> t.opened \/ good # <<>>)
  BY DEF Task
<1>9. task' = [task EXCEPT ![m] = v]
  BY <1>1, <1>4, TypesOf DEF Inv
<1> HIDE DEF v
<1>10. PICK u \in Task : u = v
  BY <1>7
<1>11. /\ u.phase = "reading" /\ u.listed = t.listed /\ u.taken = t.taken
       /\ u.batch = <<>> /\ u.pending = t.pending /\ u.errOpened = t.errOpened
       /\ u.missed = t.missed
  BY <1>7, <1>8, <1>10
<1>12. /\ t.phase = "flush"
       /\ Good(m, t.batch) = <<>> => c = d
       /\ Good(m, t.batch) # <<>> =>
            c = [state |-> "open",
                 rows |-> (IF t.opened THEN d.rows ELSE <<>>) \o Good(m, t.batch)]
       /\ u.opened <=> t.opened \/ Good(m, t.batch) # <<>>
  BY <1>2, <1>3, <1>6, <1>8, <1>10
<1>13. c \in OutFiles /\ TaskOf(m, g, u, c, e, failOnError)
  <2>1. TaskOf(m, g, t, d, e, failOnError) /\ t.phase = "flush"
    BY <1>1, <1>12
  <2>2. Good(m, t.batch) = <<>> => c = d
    BY <1>12
  <2>3. Good(m, t.batch) # <<>> =>
           c = [state |-> "open",
                rows |-> (IF t.opened THEN d.rows ELSE <<>>) \o Good(m, t.batch)]
    BY <1>12
  <2>4. u.opened <=> t.opened \/ Good(m, t.batch) # <<>>
    BY <1>12
  <2>5. /\ u.phase = "reading" /\ u.listed = t.listed /\ u.taken = t.taken
        /\ u.batch = <<>> /\ u.pending = t.pending /\ u.errOpened = t.errOpened
    BY <1>11
  <2> QED BY <2>1, <2>2, <2>3, <2>4, <2>5, FlushesBatch, Zenon
<1>14. ASSUME m \notin partial PROVE WholeOf(m, f, u, c, e, anon[m], anonData[m])
  <2>1. WholeOf(m, f, t, d, e, anon[m], anonData[m])
    BY <1>1, <1>14
  <2>2. OldOf(m, f, t, e) => OldOf(m, f, u, e)
    BY <1>2, <1>11 DEF OldOf, Walk
  <2>3. c = d \/ c.state # "done"
    BY <1>6
  <2> QED BY <1>1, <1>2, <1>11, <2>1, <2>2, <2>3, StillWhole
<1>15. RunOf(u, failOnError, run, exit)
  BY <1>1, <1>2, RunsOn
<1>16. /\ task' = [task EXCEPT ![m] = u] /\ partial' = partial
       /\ u.phase \notin {"ok", "empty"}
  BY <1>2, <1>9, <1>10, <1>11
<1>17. TaskOf(m, Seen(files[m], u.missed), u, c, e, failOnError)
  BY <1>1, <1>11, <1>13
<1> QED BY <1>1, <1>2, <1>5, <1>6, <1>13, <1>14, <1>15, <1>16, <1>17, OneTask

LEMMA InvEnd ==
    ASSUME Inv, NEW m \in Lists, EndOfInput(m), UNCHANGED avars
    PROVE  Inv'
<1>1. PICK f \in Seq(File), g \in Seq(File), t \in Task, d \in OutFiles, e \in Seq(Nat) :
         /\ f = files[m] /\ t = task[m] /\ d = dataset[m] /\ e = errors[m]
         /\ g = Seen(files[m], t.missed)
         /\ RunOf(t, failOnError, run, exit)
         /\ TaskOf(m, g, t, d, e, failOnError)
         /\ m \notin partial => WholeOf(m, f, t, d, e, anon[m], anonData[m])
         /\ t.phase \in Walk \cup {"ok", "empty"} => t.listed <= Len(f)
         /\ dataset = [dataset EXCEPT ![m] = d] /\ errors = [errors EXCEPT ![m] = e]
         /\ faults \in 0 .. MaxFaults /\ faults >= faults
  BY Here
<1>2. /\ t.phase = "reading" /\ t.phase \in Walk
      /\ UNCHANGED <<archive, failOnError, partial, run, exit, outputs, faults, avars>>
  BY <1>1 DEF EndOfInput, Walk
<1>3. Left(g, t) = <<>>
  BY <1>1 DEF EndOfInput, Remaining, Listed, Left
<1>4. /\ t.listed \in 0 .. Len(g)
      /\ ToldOf(m, g, t, e, failOnError)
      /\ DatasetIs(m, t, d, Rows(g, t.listed))
  BY <1>1, <1>2, <1>3, NothingLeft
<1>5. PICK ph \in {"closing", "leaving"} : ph = IF t.opened THEN "closing" ELSE "leaving"
  OBVIOUS
<1> DEFINE v == [t EXCEPT !.phase = ph]
<1>6. /\ v \in Task /\ v.phase = ph /\ v.listed = t.listed
      /\ v.missed = t.missed /\ v.pending = t.pending
  BY DEF Task, TaskPhases
<1>7. v.opened = t.opened /\ v.errOpened = t.errOpened
  BY DEF Task
<1>8. task' = [task EXCEPT ![m] = v]
  BY <1>1, <1>5, TypesOf DEF EndOfInput, Inv
<1> HIDE DEF v
<1>9. PICK u \in Task : u = v
  BY <1>6
<1>10. /\ u.phase = ph /\ u.listed = t.listed /\ u.missed = t.missed
       /\ u.pending = t.pending /\ u.opened = t.opened /\ u.errOpened = t.errOpened
       /\ u.phase \in Walk
  BY <1>6, <1>7, <1>9 DEF Walk
<1>11. TaskOf(m, g, u, d, e, failOnError)
  <2>1. ToldOf(m, g, u, e, failOnError)
    BY <1>4, <1>10 DEF ToldOf, ErrorsAre
  <2>2. IF u.opened THEN d = [state |-> "open", rows |-> Good(m, Rows(g, u.listed))]
                    ELSE Good(m, Rows(g, u.listed)) = <<>>
    BY <1>4, <1>10 DEF DatasetIs
  <2>3. CASE t.opened
    BY <1>4, <1>5, <1>10, <2>1, <2>2, <2>3 DEF TaskOf, Walk
  <2>4. CASE ~t.opened
    BY <1>4, <1>5, <1>10, <2>1, <2>2, <2>4 DEF TaskOf, Walk
  <2> QED BY <2>3, <2>4
<1>12. ASSUME m \notin partial PROVE WholeOf(m, f, u, d, e, anon[m], anonData[m])
  <2>1. OldOf(m, f, t, e) => OldOf(m, f, u, e)
    BY <1>2, <1>10 DEF OldOf
  <2> QED BY <1>1, <1>2, <1>10, <1>12, <2>1, StillWhole
<1>13. RunOf(u, failOnError, run, exit)
  BY <1>1, <1>2, RunsOn
<1>14. /\ task' = [task EXCEPT ![m] = u] /\ partial' = partial
       /\ u.phase \notin {"ok", "empty"}
       /\ dataset' = [dataset EXCEPT ![m] = d] /\ errors' = [errors EXCEPT ![m] = e]
       /\ faults' \in 0 .. MaxFaults /\ faults' >= faults
  BY <1>1, <1>2, <1>8, <1>9, <1>10 DEF outputs
<1>15. TaskOf(m, Seen(files[m], u.missed), u, d, e, failOnError)
  BY <1>1, <1>10, <1>11
<1> QED BY <1>1, <1>2, <1>12, <1>13, <1>14, <1>15, OneTask

LEMMA InvClose ==
    ASSUME Inv, NEW m \in Lists, CloseDataset(m), UNCHANGED avars
    PROVE  Inv'
<1>1. PICK f \in Seq(File), g \in Seq(File), t \in Task, d \in OutFiles, e \in Seq(Nat) :
         /\ f = files[m] /\ t = task[m] /\ d = dataset[m] /\ e = errors[m]
         /\ g = Seen(files[m], t.missed)
         /\ RunOf(t, failOnError, run, exit)
         /\ TaskOf(m, g, t, d, e, failOnError)
         /\ m \notin partial => WholeOf(m, f, t, d, e, anon[m], anonData[m])
         /\ t.phase \in Walk \cup {"ok", "empty"} => t.listed <= Len(f)
         /\ errors = [errors EXCEPT ![m] = e]
         /\ faults \in 0 .. MaxFaults /\ faults >= faults
  BY Here
<1>2. /\ t.phase = "closing" /\ t.phase \in Walk
      /\ UNCHANGED <<archive, failOnError, partial, run, exit, errors, provenance, faults,
                     avars>>
  BY <1>1 DEF CloseDataset, Walk
<1> DEFINE v == [t EXCEPT !.phase = "leaving"]
<1>3. /\ v \in Task /\ v.phase = "leaving" /\ v.listed = t.listed
      /\ v.missed = t.missed /\ v.pending = t.pending
  BY DEF Task, TaskPhases
<1>4. v.opened = t.opened /\ v.errOpened = t.errOpened
  BY DEF Task
<1>5. task' = [task EXCEPT ![m] = v]
  BY <1>1, TypesOf DEF CloseDataset, Inv
<1> HIDE DEF v
<1>6. PICK u \in Task : u = v
  BY <1>3
<1>7. /\ u.phase = "leaving" /\ u.listed = t.listed /\ u.missed = t.missed
      /\ u.pending = t.pending /\ u.opened = t.opened /\ u.errOpened = t.errOpened
      /\ u.phase \in Walk
  BY <1>3, <1>4, <1>6 DEF Walk
<1>8. /\ ToldOf(m, g, t, e, failOnError) /\ t.opened
      /\ d = [state |-> "open", rows |-> Good(m, Rows(g, t.listed))]
  BY <1>1, <1>2 DEF TaskOf
<1>9. PICK c : /\ c = [state |-> "done", rows |-> Good(m, Rows(g, t.listed))]
               /\ dataset' = [dataset EXCEPT ![m] = c]
  <2>1. dataset' = [dataset EXCEPT ![m] = [d EXCEPT !.state = "done"]]
    BY <1>1, TypesOf DEF CloseDataset, Inv
  <2>2. [d EXCEPT !.state = "done"] = [state |-> "done", rows |-> Good(m, Rows(g, t.listed))]
    BY <1>8
  <2> QED BY <2>1, <2>2
<1>10. c \in OutFiles
  <2>1. d.rows = Good(m, Rows(g, t.listed)) /\ d.rows \in Seq(Nat)
    BY <1>8 DEF OutFiles
  <2> QED BY <1>9, <2>1 DEF OutFiles
<1>11. TaskOf(m, g, u, c, e, failOnError)
  <2>1. ToldOf(m, g, u, e, failOnError)
    BY <1>7, <1>8 DEF ToldOf, ErrorsAre
  <2>2. u.listed <= Len(g)
    BY <1>1, <1>2, <1>7 DEF TaskOf
  <2> QED BY <1>7, <1>8, <1>9, <2>1, <2>2 DEF TaskOf, Walk
<1>12. ASSUME m \notin partial PROVE WholeOf(m, f, u, c, e, anon[m], anonData[m])
  <2>1. WholeOf(m, f, t, d, e, anon[m], anonData[m])
    BY <1>1, <1>12
  <2>2. /\ t.missed = {} /\ OldOf(m, f, t, e)
        /\ SnapOf(m, f, t, d, anon[m], anonData[m])
    BY <2>1 DEF WholeOf
  <2>3. g = f
    BY <1>1, <2>2, SeenFiles
  <2>4. OldOf(m, f, u, e)
    BY <1>2, <1>7, <2>2 DEF OldOf
  <2>5. c.rows = Snap(m, f, t.listed)
    BY <1>9, <2>3 DEF Snap
  <2>6. SnapOf(m, f, u, c, anon[m], anonData[m])
    BY <1>1, <1>2, <1>7, <2>2, <2>5, ClosesSnap
  <2> QED BY <1>7, <2>2, <2>4, <2>6 DEF WholeOf
<1>13. RunOf(u, failOnError, run, exit)
  BY <1>1, <1>2, RunsOn
<1>14. /\ task' = [task EXCEPT ![m] = u] /\ partial' = partial
       /\ u.phase \notin {"ok", "empty"} /\ errors' = [errors EXCEPT ![m] = e]
       /\ faults' \in 0 .. MaxFaults /\ faults' >= faults
  BY <1>1, <1>2, <1>5, <1>6, <1>7
<1>15. TaskOf(m, Seen(files[m], u.missed), u, c, e, failOnError)
  BY <1>1, <1>7, <1>11
<1> QED BY <1>1, <1>2, <1>9, <1>10, <1>12, <1>13, <1>14, <1>15, OneTask

LEMMA InvReturn ==
    ASSUME Inv, NEW m \in Lists, ReturnOk(m), UNCHANGED avars
    PROVE  Inv'
<1>1. PICK f \in Seq(File), g \in Seq(File), t \in Task, d \in OutFiles, e \in Seq(Nat) :
         /\ f = files[m] /\ t = task[m] /\ d = dataset[m] /\ e = errors[m]
         /\ g = Seen(files[m], t.missed)
         /\ RunOf(t, failOnError, run, exit)
         /\ TaskOf(m, g, t, d, e, failOnError)
         /\ m \notin partial => WholeOf(m, f, t, d, e, anon[m], anonData[m])
         /\ t.phase \in Walk \cup {"ok", "empty"} => t.listed <= Len(f)
         /\ dataset = [dataset EXCEPT ![m] = d]
         /\ faults \in 0 .. MaxFaults /\ faults >= faults
  BY Here
<1>2. /\ t.phase = "leaving" /\ t.phase \in Walk
      /\ UNCHANGED <<archive, failOnError, partial, run, exit, dataset, provenance, avars>>
  BY <1>1 DEF ReturnOk, Walk
<1>3. PICK p \in Seq(Nat) : p = t.pending
  BY DEF Task
<1>4. PICK ph \in {"ok", "empty"} : ph = IF t.opened THEN "ok" ELSE "empty"
  OBVIOUS
<1>5. PICK k \in 0 .. Len(p) :
         /\ errors' = [errors EXCEPT ![m] = errors[m] \o SubSeq(p, 1, k)]
         /\ IF k = Len(p) THEN UNCHANGED faults ELSE Fault
         /\ task' = [task EXCEPT ![m].phase = ph, ![m].pending = SubSeq(p, k + 1, Len(p))]
  BY <1>1, <1>3, <1>4 DEF ReturnOk, DropWriter, LinesLost
<1>6. PICK c \in Seq(Nat), z \in Seq(Nat) :
         /\ c = e \o SubSeq(p, 1, k) /\ z = SubSeq(p, k + 1, Len(p))
         /\ c \o z = e \o p
         /\ c # <<>> => e # <<>> \/ p # <<>>
         /\ k = Len(p) => z = <<>>
  <2>1. /\ e \o SubSeq(p, 1, k) \in Seq(Nat) /\ SubSeq(p, k + 1, Len(p)) \in Seq(Nat)
        /\ (e \o SubSeq(p, 1, k)) \o SubSeq(p, k + 1, Len(p)) = e \o p
    BY LinesWritten
  <2>2. e \o SubSeq(p, 1, k) # <<>> => e # <<>> \/ p # <<>>
    BY LinesWritten
  <2>3. k = Len(p) => SubSeq(p, k + 1, Len(p)) = <<>>
    BY LinesWritten
  <2> QED BY <2>1, <2>2, <2>3, Zenon
<1> DEFINE v == [t EXCEPT !.phase = ph, !.pending = z]
<1>7. /\ v \in Task /\ v.phase = ph /\ v.listed = t.listed
      /\ v.missed = t.missed /\ v.pending = z
  BY DEF Task, TaskPhases
<1>8. v.opened = t.opened /\ v.errOpened = t.errOpened
  BY DEF Task
<1>9. task' = [task EXCEPT ![m] = v]
  BY <1>1, <1>5, <1>6, TypesOf DEF Inv
<1> HIDE DEF v
<1>10. PICK u \in Task : u = v
  BY <1>7
<1>11. /\ u.phase = ph /\ u.listed = t.listed /\ u.missed = t.missed
       /\ u.pending = z /\ u.opened = t.opened /\ u.errOpened = t.errOpened
       /\ u.phase \notin Walk /\ u.phase \in {"ok", "empty"}
  BY <1>7, <1>8, <1>10 DEF Walk
<1>12. /\ ToldOf(m, g, t, e, failOnError) /\ t.listed <= Len(g)
       /\ t.opened => d = [state |-> "done", rows |-> Good(m, Rows(g, t.listed))]
       /\ ~t.opened => Good(m, Rows(g, t.listed)) = <<>>
  BY <1>1, <1>2 DEF TaskOf
<1>13. ~t.errOpened => p = <<>> /\ z = <<>>
  <2>1. ~t.errOpened => p = <<>>
    BY <1>3, <1>12 DEF ToldOf, ErrorsAre
  <2>2. p = <<>> => k = Len(p)
    OBVIOUS
  <2> QED BY <1>6, <2>1, <2>2
<1>14. TaskOf(m, g, u, d, c, failOnError)
  <2>1. ToldOf(m, g, u, c, failOnError)
    <3>1. t.errOpened => c \o z = Refused(m, Rows(g, t.listed))
      BY <1>3, <1>6, <1>12 DEF ToldOf, ErrorsAre
    <3> QED BY <1>11, <1>12, <1>13, <3>1 DEF ToldOf, ErrorsAre
  <2>2. CASE t.opened
    BY <1>4, <1>11, <1>12, <2>1, <2>2 DEF TaskOf, Walk
  <2>3. CASE ~t.opened
    BY <1>4, <1>11, <1>12, <2>1, <2>3 DEF TaskOf, Walk
  <2> QED BY <2>2, <2>3
<1>15. ASSUME m \notin partial PROVE WholeOf(m, f, u, d, c, anon[m], anonData[m])
  <2>1. WholeOf(m, f, t, d, e, anon[m], anonData[m])
    BY <1>1, <1>15
  <2>2. t.missed = {} /\ OldOf(m, f, t, e)
    BY <2>1 DEF WholeOf
  <2>3. g = f
    BY <1>1, <2>2, SeenFiles
  <2>4. ASSUME c # <<>>
        PROVE  Refused(m, Rows(f, Len(f))) # <<>> /\ Refused(m, Rows(f, t.listed)) # <<>>
    <3>1. CASE e # <<>>
      BY <1>2, <2>2, <3>1 DEF OldOf
    <3>2. CASE e = <<>> /\ p # <<>>
      <4>1. e \o t.pending = Refused(m, Rows(f, t.listed))
        BY <1>3, <1>12, <1>13, <2>3, <3>2 DEF ToldOf, ErrorsAre
      <4>2. e \o p = p
        BY <3>2, ConcatEmptySeq
      <4>3. Refused(m, Rows(f, t.listed)) # <<>>
        BY <1>3, <3>2, <4>1, <4>2
      <4>4. t.listed \in 0 .. Len(f) /\ Len(f) \in t.listed .. Len(f)
        BY <1>1, <1>2, LenProperties DEF Task
      <4> QED BY <4>3, <4>4, StaysRefused
    <3> QED BY <1>6, <2>4, <3>1, <3>2
  <2>5. OldOf(m, f, u, c)
    BY <1>11, <2>4 DEF OldOf
  <2> QED BY <1>1, <1>2, <1>11, <2>1, <2>5, StillWhole
<1>16. RunOf(u, failOnError, run, exit)
  BY <1>1, <1>2, RunsOn
<1>17. /\ faults' \in 0 .. MaxFaults /\ faults' >= faults
       /\ u.pending # <<>> => faults' > 0
  <2>1. u.pending # <<>> => k # Len(p)
    BY <1>6, <1>11
  <2>2. k # Len(p) => faults' > 0
    BY <1>1, <1>5 DEF Fault
  <2> QED BY <1>1, <1>5, <2>1, <2>2, ParserAssumption DEF Fault
<1>18. /\ task' = [task EXCEPT ![m] = u] /\ partial' = partial
       /\ dataset' = [dataset EXCEPT ![m] = d] /\ errors' = [errors EXCEPT ![m] = c]
  BY <1>1, <1>2, <1>5, <1>6, <1>9, <1>10
<1>19. TaskOf(m, Seen(files[m], u.missed), u, d, c, failOnError)
  BY <1>1, <1>11, <1>14
<1> QED BY <1>1, <1>2, <1>15, <1>16, <1>17, <1>18, <1>19, OneTask

LEMMA InvTaskFails ==
    ASSUME Inv, NEW m \in Lists, TaskFails(m), UNCHANGED avars
    PROVE  Inv'
<1>1. PICK t \in Task, d \in OutFiles, e \in Seq(Nat) :
         /\ t = task[m] /\ d = dataset[m] /\ e = errors[m]
         /\ dataset = [dataset EXCEPT ![m] = d]
         /\ faults \in 0 .. MaxFaults /\ faults >= faults
  BY Here
<1>2. /\ task[m].phase \in Walk /\ Fail(m)
      /\ UNCHANGED <<archive, failOnError, partial, run, exit, provenance, avars>>
  BY DEF TaskFails, Walk
<1>3. faults' \in 0 .. MaxFaults /\ faults' >= faults
  BY <1>1, ParserAssumption DEF TaskFails, Fault
<1>4. PICK p \in Seq(Nat), bad \in Seq(Nat) : p = t.pending /\ bad = Refused(m, t.batch)
  <2>1. t.batch \in Seq(Num) /\ t.pending \in Seq(Nat)
    BY DEF Task
  <2> QED BY <2>1, SieveConcat
<1>5. PICK x \in LinesLeft(m) : errors' = [errors EXCEPT ![m] = x]
  BY DEF TaskFails
<1>6. /\ x \in Seq(Nat)
      /\ x # <<>> => \/ errors[m] # <<>>
                     \/ task[m].pending # <<>>
                     \/ task[m].phase = "batch" /\ Refused(m, task[m].batch) # <<>>
  <2>1. CASE \E k \in 0 .. Len(p) : x = e \o SubSeq(p, 1, k)
    <3>1. PICK k \in 0 .. Len(p) : x = e \o SubSeq(p, 1, k)
      BY <2>1
    <3>2. x \in Seq(Nat) /\ (x # <<>> => e # <<>> \/ p # <<>>)
      BY <3>1, LinesWritten
    <3> QED BY <1>1, <1>4, <3>2
  <2>2. CASE /\ t.phase = "batch" /\ bad # <<>>
             /\ \E k \in 0 .. Len(p \o bad) : x = LinesSoFar(m) \o SubSeq(p \o bad, 1, k)
    <3>1. PICK q \in Seq(Nat), old \in Seq(Nat) : q = p \o bad /\ old = LinesSoFar(m)
      <4>1. LinesSoFar(m) \in Seq(Nat)
        BY <1>1 DEF LinesSoFar
      <4>2. p \o bad \in Seq(Nat)
        BY ConcatProperties
      <4> QED BY <4>1, <4>2
    <3>2. PICK k \in 0 .. Len(q) : x = old \o SubSeq(q, 1, k)
      BY <2>2, <3>1
    <3>3. x \in Seq(Nat)
      BY <3>2, LinesWritten
    <3> QED BY <1>1, <1>4, <2>2, <3>3
  <2>3. x \in {e \o SubSeq(p, 1, k) : k \in 0 .. Len(p)} \cup
           (IF t.phase = "batch" /\ ~failOnError /\ bad # <<>>
              THEN {LinesSoFar(m) \o SubSeq(p \o bad, 1, k) : k \in 0 .. Len(p \o bad)}
              ELSE {})
    BY <1>1, <1>4, <1>5 DEF LinesLeft
  <2> QED BY <2>1, <2>2, <2>3
<1>7. CASE UNCHANGED dataset
  <2>1. dataset' = [dataset EXCEPT ![m] = d]
    BY <1>1, <1>7
  <2> QED BY <1>1, <1>2, <1>3, <1>5, <1>6, <2>1, InvFails
<1>8. CASE dataset' = [dataset EXCEPT ![m] = Opened]
  <2>1. Opened \in OutFiles /\ Opened.state # "done"
    BY DEF Opened, OutFiles
  <2> QED BY <1>2, <1>3, <1>5, <1>6, <1>8, <2>1, InvFails
<1> QED BY <1>7, <1>8 DEF TaskFails

-----------------------------------------------------------------------------
(***************************************************************************)
(* The steps of the anonymizer.                                            *)
(***************************************************************************)
AnonTask == [phase : AnonPhases, offset : Nat, total : Nat, opened : BOOLEAN]

\* A slice of a snapshot is the same in every later one.
LEMMA SliceOfSnap ==
    ASSUME NEW s \in Seq(Nat), NEW r \in Seq(Nat), Len(r) >= Len(s),
           (\E x \in Seq(Nat) : r = s \o x) \/ (\E x \in Seq(Nat) : s = r \o x),
           NEW o \in 0 .. Len(s), NEW n \in o .. Len(s)
    PROVE  SubSeq(s, 1, o) \o SubSeq(r, o + 1, n) = SubSeq(s, 1, n)
<1>1. Len(s) \in Nat /\ Len(r) \in Nat
  BY LenProperties
<1>2. /\ o + 1 \in Nat \ {0} /\ n \in 0 .. Len(s) /\ n \in 0 .. Len(r)
      /\ 1 \in 1 .. Len(s) + 1 /\ o \in 1 - 1 .. Len(s) /\ n \in o .. Len(s)
  BY <1>1
<1>3. SubSeq(r, o + 1, n) = SubSeq(s, o + 1, n)
  <2>1. CASE \E x \in Seq(Nat) : r = s \o x
    <3>1. PICK x \in Seq(Nat) : r = s \o x
      BY <2>1
    <3>2. SubSeq(s \o x, o + 1, n) = SubSeq(s, o + 1, n)
      BY <1>2, PartOfBeginning
    <3> QED BY <3>1, <3>2
  <2>2. CASE \E x \in Seq(Nat) : s = r \o x
    <3>1. PICK x \in Seq(Nat) : s = r \o x
      BY <2>2
    <3>2. SubSeq(r \o x, o + 1, n) = SubSeq(r, o + 1, n)
      BY <1>2, PartOfBeginning
    <3> QED BY <3>1, <3>2
  <2> QED BY <2>1, <2>2
<1>4. SubSeq(s, 1, o) \o SubSeq(s, o + 1, n) = SubSeq(s, 1, n)
  BY <1>2, ConcatAdjacentSubSeq
<1> QED BY <1>3, <1>4

\* The rows of a dataset that can be read, and those a slice is cut from.
LEMMA ReadsSnap ==
    ASSUME NEW f \in Seq(File), NEW l, NEW n \in 0 .. Len(f), NEW m \in 0 .. Len(f)
    PROVE  /\ Snap(l, f, n) \in Seq(Nat) /\ Snap(l, f, m) \in Seq(Nat)
           /\ \/ \E x \in Seq(Nat) : Snap(l, f, m) = Snap(l, f, n) \o x
              \/ \E x \in Seq(Nat) : Snap(l, f, n) = Snap(l, f, m) \o x
<1>1. CASE n <= m
  <2>1. n \in 0 .. m
    BY <1>1
  <2> QED BY <2>1, SnapMore, ZenonT(30)
<1>2. CASE m <= n
  <2>1. m \in 0 .. n
    BY <1>2
  <2> QED BY <2>1, SnapMore, ZenonT(30)
<1>3. n <= m \/ m <= n
  BY LenProperties
<1> QED BY <1>1, <1>2, <1>3

LEMMA SliceBounds ==
    ASSUME NEW k \in Nat
    PROVE  /\ \A o \in Nat, x \in Nat \ {0} : o < k => Least(o + x, k) \in o .. k
           /\ \A o, j \in Nat : \A n \in o .. k : j >= k => Least(n, j) = n
BY DEF Least

\* AnonymizeSlice: one more slice of the same snapshot.
LEMMA WritesSlice ==
    ASSUME NEW f \in Seq(File), NEW l, NEW t \in Task, NEW d \in OutFiles,
           NEW a \in AnonTask, NEW ad, SnapOf(l, f, t, d, a, ad),
           t.phase \in Walk => t.listed <= Len(f),
           a.phase = "slices", a.offset < a.total, d.state = "done",
           NEW n \in Nat, n = Least(a.offset + MaxSlice, a.total),
           NEW b \in AnonTask, b.phase = "slices", b.offset = n, b.total = a.total, b.opened,
           NEW c, c.state = "open",
           c.rows = (IF a.opened THEN ad.rows ELSE <<>>)
                       \o SubSeq(d.rows, a.offset + 1, Least(n, Len(d.rows)))
    PROVE  SnapOf(l, f, t, d, b, c)
<1>1. /\ \E m \in 0 .. Reach(f, t) : d.rows = Snap(l, f, m)
      /\ a.total > 0 /\ SlicesOf(l, f, t, d, a, ad)
  BY DEF SnapOf
<1>2. PICK m \in 0 .. Reach(f, t) : d.rows = Snap(l, f, m)
  BY <1>1
<1>3. PICK k \in 0 .. Reach(f, t) :
         /\ a.total = Len(Snap(l, f, k))
         /\ a.offset <= a.total
         /\ a.opened => ad.rows = SubSeq(Snap(l, f, k), 1, a.offset)
         /\ ~a.opened => a.offset = 0
         /\ Len(d.rows) >= a.total
  BY <1>1 DEF SlicesOf
<1>4. m \in 0 .. Len(f) /\ k \in 0 .. Len(f)
  BY LenProperties DEF Reach, Task
<1>r. /\ Snap(l, f, k) \in Seq(Nat) /\ Snap(l, f, m) \in Seq(Nat)
      /\ \/ \E x \in Seq(Nat) : Snap(l, f, m) = Snap(l, f, k) \o x
         \/ \E x \in Seq(Nat) : Snap(l, f, k) = Snap(l, f, m) \o x
  <2>1. \A p, q \in 0 .. Len(f) :
           /\ Snap(l, f, p) \in Seq(Nat) /\ Snap(l, f, q) \in Seq(Nat)
           /\ \/ \E x \in Seq(Nat) : Snap(l, f, q) = Snap(l, f, p) \o x
              \/ \E x \in Seq(Nat) : Snap(l, f, p) = Snap(l, f, q) \o x
    BY ReadsSnap
  <2>2. m \in 0 .. Len(f)
    BY <1>4
  <2>3. k \in 0 .. Len(f)
    BY <1>4
  <2> QED BY <2>1, <2>2, <2>3, Zenon
<1>5. PICK s \in Seq(Nat) : s = Snap(l, f, k)
  BY <1>r
<1>s. PICK r \in Seq(Nat) : r = Snap(l, f, m)
  BY <1>r
<1>6. (\E x \in Seq(Nat) : r = s \o x) \/ (\E x \in Seq(Nat) : s = r \o x)
  BY <1>r, <1>5, <1>s, Zenon
<1>7. Len(s) \in Nat /\ Len(r) \in Nat /\ a.total = Len(s) /\ Len(r) >= Len(s)
  BY <1>2, <1>3, <1>5, <1>s, LenProperties
<1>8. PICK o \in Nat : o = a.offset /\ o < Len(s)
  BY <1>3, <1>7 DEF AnonTask
<1>9. n \in o .. Len(s) /\ o \in 0 .. Len(s) /\ Least(n, Len(r)) = n
  <2>1. n = Least(o + MaxSlice, Len(s))
    BY <1>7, <1>8
  <2>2. n \in o .. Len(s)
    <3>1. Least(o + MaxSlice, Len(s)) \in o .. Len(s)
      BY <1>7, <1>8, SliceAssumption, SliceBounds
    <3> QED BY <2>1, <3>1
  <2>3. o \in 0 .. Len(s)
    BY <1>7, <1>8
  <2>4. Least(n, Len(r)) = n
    BY <1>7, <2>2, SliceBounds, Zenon
  <2> QED BY <2>2, <2>3, <2>4
<1>10. (IF a.opened THEN ad.rows ELSE <<>>) = SubSeq(s, 1, o)
  <2>1. CASE a.opened
    BY <1>3, <1>5, <1>8, <2>1
  <2>2. CASE ~a.opened
    <3>1. o = 0
      BY <1>3, <1>8, <2>2
    <3>2. SubSeq(s, 1, o) = <<>>
      BY <1>7, <3>1, SubSeqEmpty
    <3> QED BY <2>2, <3>2
  <2> QED BY <2>1, <2>2
<1>11. SubSeq(s, 1, o) \o SubSeq(r, o + 1, n) = SubSeq(s, 1, n)
  BY <1>6, <1>7, <1>9, SliceOfSnap
<1>12. c.rows = SubSeq(s, 1, n)
  <2>1. c.rows = SubSeq(s, 1, o) \o SubSeq(r, o + 1, n)
    BY <1>2, <1>s, <1>8, <1>9, <1>10
  <2> QED BY <1>11, <2>1
<1>13. SlicesOf(l, f, t, d, b, c)
  <2>1. b.total = Len(Snap(l, f, k)) /\ b.offset <= b.total
    BY <1>5, <1>7, <1>9
  <2>2. c.rows = SubSeq(Snap(l, f, k), 1, b.offset)
    BY <1>5, <1>12
  <2>3. Len(d.rows) >= b.total
    BY <1>3
  <2> QED BY <2>1, <2>2, <2>3 DEF SlicesOf
<1> QED BY <1>1, <1>13 DEF SnapOf

\* FinishData: all slices were written.
LEMMA FinishesSlices ==
    ASSUME NEW f \in Seq(File), NEW l, NEW t \in Task, NEW d,
           NEW a \in AnonTask, NEW ad, SnapOf(l, f, t, d, a, ad),
           t.phase \in Walk => t.listed <= Len(f),
           a.phase = "slices", a.offset = a.total,
           NEW b, b.phase # "slices", NEW c, c.rows = ad.rows
    PROVE  SnapOf(l, f, t, d, b, c)
<1>1. a.total > 0 /\ SlicesOf(l, f, t, d, a, ad)
  BY DEF SnapOf
<1>2. PICK k \in 0 .. Reach(f, t) :
         /\ a.total = Len(Snap(l, f, k))
         /\ a.opened => ad.rows = SubSeq(Snap(l, f, k), 1, a.offset)
         /\ ~a.opened => a.offset = 0
  BY <1>1 DEF SlicesOf
<1>3. k \in 0 .. Len(f)
  BY LenProperties DEF Reach, Task
<1>4. PICK s \in Seq(Nat) : s = Snap(l, f, k)
  BY <1>3, ReadsSnap
<1>5. a.opened /\ a.offset = Len(s)
  BY <1>1, <1>2, <1>4 DEF AnonTask
<1>6. SubSeq(s, 1, Len(s)) = s
  BY SubSeqFull
<1>7. c.rows = Snap(l, f, k)
  BY <1>2, <1>4, <1>5, <1>6
<1> QED BY <1>3, <1>7 DEF SnapOf

\* A step of the anonymizer on one list.
LEMMA OneAnon ==
    ASSUME Inv, NEW m \in Lists, NEW b \in AnonTask, NEW c \in OutFiles, NEW i \in OutFiles,
           anon' = [anon EXCEPT ![m] = b],
           anonData' = [anonData EXCEPT ![m] = c],
           idMap' = [idMap EXCEPT ![m] = i],
           faults' \in 0 .. MaxFaults, faults' >= faults,
           UNCHANGED <<archive, failOnError, partial, run, exit, task, outputs>>,
           m \notin partial => SnapOf(m, files[m], task[m], dataset[m], b, c)
    PROVE  Inv'
<1>1. /\ anon \in [Lists -> AnonTask] /\ anonData \in [Lists -> OutFiles]
      /\ idMap \in [Lists -> OutFiles]
  BY TypesOf DEF Inv, AnonTask
<1>2. /\ anon' \in [Lists -> AnonTask] /\ anonData' \in [Lists -> OutFiles]
      /\ idMap' \in [Lists -> OutFiles]
      /\ anon'[m] = b /\ anonData'[m] = c
      /\ \A l \in Lists \ {m} : anon'[l] = anon[l] /\ anonData'[l] = anonData[l]
  BY <1>1
<1>3. Types'
  <2>1. TypeOK'
    BY <1>2 DEF Inv, Types, TypeOK, AnonTask, archive, outputs
  <2> QED BY <2>1 DEF Inv, Types, archive
<1>4. ASSUME NEW l \in Lists PROVE ListInv(l)'
  <2>1. ListInv(l) /\ (faults > 0 => faults' > 0)
    BY DEF Inv, Types, TypeOK
  <2>2. CASE l # m
    <3>1. anon'[l] = anon[l] /\ anonData'[l] = anonData[l]
      BY <1>2, <2>2
    <3> QED BY <2>1, <3>1 DEF ListInv, archive, outputs
  <2>3. CASE l = m
    <3>1. l \notin partial =>
             WholeOf(l, files[l], task[l], dataset[l], errors[l], b, c)
      BY <2>1, <2>3 DEF ListInv, WholeOf
    <3> QED BY <1>2, <2>1, <2>3, <3>1 DEF ListInv, archive, outputs
  <2> QED BY <2>2, <2>3
<1> QED BY <1>3, <1>4 DEF Inv

LEMMA AnonHere ==
    ASSUME Inv, NEW m \in Lists
    PROVE  \E f \in Seq(File), t \in Task, d \in OutFiles, a \in AnonTask,
              ad \in OutFiles, im \in OutFiles :
              /\ f = files[m] /\ t = task[m] /\ d = dataset[m]
              /\ a = anon[m] /\ ad = anonData[m] /\ im = idMap[m]
              /\ m \notin partial => SnapOf(m, f, t, d, a, ad)
              /\ t.phase \in Walk => t.listed <= Len(f)
              /\ anon = [anon EXCEPT ![m] = a]
              /\ anonData = [anonData EXCEPT ![m] = ad]
              /\ idMap = [idMap EXCEPT ![m] = im]
              /\ faults \in 0 .. MaxFaults /\ faults >= faults
<1>1. /\ task \in [Lists -> Task] /\ dataset \in [Lists -> OutFiles]
      /\ files \in [Lists -> Seq(File)] /\ anon \in [Lists -> AnonTask]
      /\ anonData \in [Lists -> OutFiles] /\ idMap \in [Lists -> OutFiles]
  BY TypesOf DEF Inv, AnonTask
<1>2. /\ task[m] \in Task /\ dataset[m] \in OutFiles /\ files[m] \in Seq(File)
      /\ anon[m] \in AnonTask /\ anonData[m] \in OutFiles /\ idMap[m] \in OutFiles
  BY <1>1
<1>3. /\ anon = [anon EXCEPT ![m] = anon[m]]
      /\ anonData = [anonData EXCEPT ![m] = anonData[m]]
      /\ idMap = [idMap EXCEPT ![m] = idMap[m]]
  BY <1>1
<1>4. task[m].phase \in Walk => task[m].listed <= Len(files[m])
  BY WalkListed
<1>5. m \notin partial => SnapOf(m, files[m], task[m], dataset[m], anon[m], anonData[m])
  BY DEF Inv, ListInv, WholeOf
<1>6. faults \in 0 .. MaxFaults /\ faults >= faults
  BY DEF Inv, Types, TypeOK
<1> QED BY <1>2, <1>3, <1>4, <1>5, <1>6

\* No slices to come, and the anonymized dataset as it was or unreadable.
LEMMA NoSlices ==
    ASSUME NEW f, NEW l, NEW t, NEW d, NEW a, NEW ad, SnapOf(l, f, t, d, a, ad),
           NEW b, b.phase # "slices", NEW c, c = ad \/ c.state # "done"
    PROVE  SnapOf(l, f, t, d, b, c)
BY DEF SnapOf

LEMMA AnonSlices ==
    ASSUME NEW o \in Nat, NEW n \in Nat
    PROVE  \E b \in AnonTask : /\ b = AnonAt("slices", o, n, TRUE) /\ b.phase = "slices"
                               /\ b.offset = o /\ b.total = n /\ b.opened
<1>1. AnonAt("slices", o, n, TRUE) \in AnonTask
  BY DEF AnonAt, AnonTask, AnonPhases
<1>2. /\ AnonAt("slices", o, n, TRUE).phase = "slices" /\ AnonAt("slices", o, n, TRUE).offset = o
      /\ AnonAt("slices", o, n, TRUE).total = n
  BY DEF AnonAt
<1>3. AnonAt("slices", o, n, TRUE).opened
  BY DEF AnonAt
<1> QED BY <1>1, <1>2, <1>3

LEMMA AnonMap ==
    ASSUME NEW o \in Nat, NEW n \in Nat
    PROVE  \E b \in AnonTask : b = AnonAt("map", o, n, TRUE) /\ b.phase = "map"
<1>1. AnonAt("map", o, n, TRUE) \in AnonTask
  BY DEF NoAnon, AnonAt, AnonTask, AnonPhases
<1>2. AnonAt("map", o, n, TRUE).phase = "map"
  BY DEF NoAnon, AnonAt
<1> QED BY <1>1, <1>2

LEMMA AnonTypes ==
    /\ \E b \in AnonTask : b = NoAnon /\ b.phase = "off"
    /\ \E b \in AnonTask : b = AnonAt("spawned", 0, 0, FALSE) /\ b.phase = "spawned"
    /\ \A n \in Nat :
         \E b \in AnonTask : /\ b = AnonAt("slices", 0, n, FALSE) /\ b.phase = "slices"
                             /\ b.offset = 0 /\ b.total = n /\ ~b.opened
    /\ \A o, n \in Nat :
         \E b \in AnonTask : /\ b = AnonAt("slices", o, n, TRUE) /\ b.phase = "slices"
                             /\ b.offset = o /\ b.total = n /\ b.opened
    /\ \A o, n \in Nat :
         \E b \in AnonTask : b = AnonAt("map", o, n, TRUE) /\ b.phase = "map"
<1>1. \E b \in AnonTask : b = NoAnon /\ b.phase = "off"
  <2>1. NoAnon \in AnonTask
    BY DEF NoAnon, AnonAt, AnonTask, AnonPhases
  <2>2. NoAnon.phase = "off"
    BY DEF NoAnon, AnonAt
  <2> QED BY <2>1, <2>2
<1>2. \E b \in AnonTask : b = AnonAt("spawned", 0, 0, FALSE) /\ b.phase = "spawned"
  <2>1. AnonAt("spawned", 0, 0, FALSE) \in AnonTask
    BY DEF NoAnon, AnonAt, AnonTask, AnonPhases
  <2>2. AnonAt("spawned", 0, 0, FALSE).phase = "spawned"
    BY DEF NoAnon, AnonAt
  <2> QED BY <2>1, <2>2
<1>3. ASSUME NEW n \in Nat
      PROVE  \E b \in AnonTask : /\ b = AnonAt("slices", 0, n, FALSE) /\ b.phase = "slices"
                                 /\ b.offset = 0 /\ b.total = n /\ ~b.opened
  <2>1. AnonAt("slices", 0, n, FALSE) \in AnonTask
    BY DEF AnonAt, AnonTask, AnonPhases
  <2>2. /\ AnonAt("slices", 0, n, FALSE).phase = "slices" /\ AnonAt("slices", 0, n, FALSE).offset = 0
        /\ AnonAt("slices", 0, n, FALSE).total = n
    BY DEF AnonAt
  <2>3. ~AnonAt("slices", 0, n, FALSE).opened
    BY DEF AnonAt
  <2> QED BY <2>1, <2>2, <2>3
<1>4. ASSUME NEW o \in Nat, NEW n \in Nat
      PROVE  \E b \in AnonTask : /\ b = AnonAt("slices", o, n, TRUE) /\ b.phase = "slices"
                                 /\ b.offset = o /\ b.total = n /\ b.opened
  BY AnonSlices, ZenonT(30)
<1>5. ASSUME NEW o \in Nat, NEW n \in Nat
      PROVE  \E b \in AnonTask : b = AnonAt("map", o, n, TRUE) /\ b.phase = "map"
  BY AnonMap, ZenonT(30)
<1> QED BY <1>1, <1>2, <1>3, <1>4, <1>5

LEMMA InvAnonRun ==
    ASSUME Inv, StartAnonymizer \/ AnonymizerKilled
    PROVE  Inv'
<1>1. PICK b \in AnonTask : b.phase # "slices" /\ anon' = [l \in Lists |-> b]
  <2>1. CASE StartAnonymizer
    <3>1. PICK b \in AnonTask : b = AnonAt("spawned", 0, 0, FALSE) /\ b.phase = "spawned"
      BY AnonTypes
    <3>2. anon' = [l \in Lists |-> b]
      BY <2>1, <3>1 DEF StartAnonymizer
    <3> QED BY <3>1, <3>2
  <2>2. CASE AnonymizerKilled
    BY <2>2, AnonTypes DEF AnonymizerKilled
  <2> QED BY <2>1, <2>2
<1>2. /\ UNCHANGED <<archive, failOnError, partial, run, exit, task, outputs, anonData, idMap>>
      /\ faults' \in 0 .. MaxFaults /\ faults' >= faults
  <2>1. faults \in 0 .. MaxFaults /\ faults >= faults
    BY TypesOf DEF Inv
  <2>2. CASE StartAnonymizer
    BY <2>1, <2>2 DEF StartAnonymizer, pvars
  <2>3. CASE AnonymizerKilled
    BY <2>1, <2>3, ParserAssumption DEF AnonymizerKilled, Fault
  <2> QED BY <2>2, <2>3
<1>3. anon' \in [Lists -> AnonTask] /\ \A l \in Lists : anon'[l] = b
  BY <1>1
<1>4. Types'
  <2>1. TypeOK'
    BY <1>2, <1>3 DEF Inv, Types, TypeOK, AnonTask, archive, outputs
  <2> QED BY <1>2, <2>1 DEF Inv, Types, archive
<1>5. ASSUME NEW l \in Lists PROVE ListInv(l)'
  <2>1. ListInv(l) /\ (faults > 0 => faults' > 0)
    BY <1>2 DEF Inv, Types, TypeOK
  <2>2. l \notin partial =>
           WholeOf(l, files[l], task[l], dataset[l], errors[l], b, anonData[l])
    BY <1>1, <2>1, NoSlices DEF ListInv, WholeOf
  <2> QED BY <1>2, <1>3, <2>1, <2>2 DEF ListInv, archive, outputs
<1> QED BY <1>4, <1>5 DEF Inv

LEMMA InvCount ==
    ASSUME Inv, NEW m \in Lists, CountRows(m)
    PROVE  Inv'
<1>1. PICK f \in Seq(File), t \in Task, d \in OutFiles, a \in AnonTask,
           ad \in OutFiles, im \in OutFiles :
         /\ f = files[m] /\ t = task[m] /\ d = dataset[m]
         /\ a = anon[m] /\ ad = anonData[m] /\ im = idMap[m]
         /\ m \notin partial => SnapOf(m, f, t, d, a, ad)
         /\ anonData = [anonData EXCEPT ![m] = ad]
         /\ idMap = [idMap EXCEPT ![m] = im]
         /\ faults \in 0 .. MaxFaults /\ faults >= faults
  BY AnonHere
<1>2. /\ UNCHANGED <<archive, failOnError, partial, run, exit, task, outputs, faults, anonData, idMap>>
      /\ faults' \in 0 .. MaxFaults /\ faults' >= faults
  BY <1>1 DEF CountRows, pvars
<1>3. CASE d.state = "done" /\ Len(d.rows) > 0
  <2>1. PICK n \in Nat : n = Len(d.rows)
    <3>1. d.rows \in Seq(Nat)
      BY DEF OutFiles
    <3> QED BY <3>1, LenProperties
  <2>2. PICK b \in AnonTask : /\ b = AnonAt("slices", 0, n, FALSE) /\ b.phase = "slices"
                              /\ b.offset = 0 /\ b.total = n /\ ~b.opened
    BY AnonTypes
  <2>3. anon' = [anon EXCEPT ![m] = b]
    BY <1>1, <1>3, <2>1, <2>2 DEF CountRows
  <2>4. ASSUME m \notin partial PROVE SnapOf(m, f, t, d, b, ad)
    <3>1. PICK k \in 0 .. Reach(f, t) : d.rows = Snap(m, f, k)
      BY <1>1, <1>3, <2>4 DEF SnapOf
    <3>2. b.total = Len(Snap(m, f, k)) /\ b.offset <= b.total /\ Len(d.rows) >= b.total
      <4>1. b.total = n /\ Len(d.rows) = n /\ n \in Nat
        BY <2>1, <2>2
      <4>2. Len(Snap(m, f, k)) = n
        BY <3>1, <4>1
      <4>3. b.offset <= b.total
        <5>1. 0 <= n
          BY <4>1
        <5>2. b.offset = 0 /\ b.total = n
          BY <2>2, Zenon
        <5> QED BY <5>1, <5>2, Zenon
      <4>4. Len(d.rows) >= b.total
        BY <4>1
      <4> QED BY <4>1, <4>2, <4>3, <4>4
    <3>3. SlicesOf(m, f, t, d, b, ad)
      BY <2>2, <3>2 DEF SlicesOf
    <3> QED BY <1>1, <1>3, <2>1, <2>2, <2>4, <3>3 DEF SnapOf
  <2> QED BY <1>1, <1>2, <2>3, <2>4, OneAnon
<1>4. CASE ~(d.state = "done" /\ Len(d.rows) > 0)
  <2>1. PICK b \in AnonTask : b = NoAnon /\ b.phase = "off"
    BY AnonTypes
  <2>2. anon' = [anon EXCEPT ![m] = b]
    BY <1>1, <1>4, <2>1 DEF CountRows, AnonEnds
  <2>3. m \notin partial => SnapOf(m, f, t, d, b, ad)
    BY <1>1, <2>1, NoSlices
  <2> QED BY <1>1, <1>2, <2>2, <2>3, OneAnon
<1> QED BY <1>3, <1>4

\* What the two writers hold after a slice was given to them.
LEMMA WrittenTypes ==
    ASSUME NEW m \in Lists, NEW d \in OutFiles, d = dataset[m],
           NEW a \in AnonTask, a = anon[m]
    PROVE  /\ SliceEnd(m) \in Nat
           /\ \A file \in OutFiles :
                \E c \in OutFiles :
                   /\ c = Written(m, file) /\ c.state = "open"
                   /\ c.rows = (IF a.opened THEN file.rows ELSE <<>>)
                         \o SubSeq(d.rows, a.offset + 1, Least(SliceEnd(m), Len(d.rows)))
<1>1. a.offset \in Nat /\ a.total \in Nat /\ MaxSlice \in Nat
  BY SliceAssumption DEF AnonTask
<1>2. SliceEnd(m) \in Nat
  BY <1>1 DEF SliceEnd, Least
<1>3. PICK r \in Seq(Nat) : r = d.rows
  BY DEF OutFiles
<1>4. PICK n \in Nat : n = Least(SliceEnd(m), Len(r)) /\ n <= Len(r)
  BY <1>2, LenProperties DEF Least
<1>5. PICK o \in Nat : o = a.offset
  BY <1>1
<1>6. PICK x \in Seq(Nat) : x = SubSeq(r, o + 1, n)
  <2>1. \A i \in o + 1 .. n : r[i] \in Nat
    <3>1. \A i \in 1 .. Len(r) : r[i] \in Nat
      BY LenProperties
    <3>2. \A i \in o + 1 .. n : i \in 1 .. Len(r)
      BY <1>4, LenProperties
    <3> QED BY <3>1, <3>2
  <2>2. o + 1 \in Int /\ n \in Int
    OBVIOUS
  <2> QED BY <2>1, <2>2, SubSeqProperties
<1>7. x = SubSeq(d.rows, a.offset + 1, Least(SliceEnd(m), Len(d.rows)))
  BY <1>3, <1>4, <1>5, <1>6
<1>8. ASSUME NEW file \in OutFiles
      PROVE  \E c \in OutFiles :
                /\ c = Written(m, file) /\ c.state = "open"
                /\ c.rows = (IF a.opened THEN file.rows ELSE <<>>) \o x
  <2>1. PICK y \in Seq(Nat) : y = (IF a.opened THEN file.rows ELSE <<>>)
    <3>1. file.rows \in Seq(Nat) /\ <<>> \in Seq(Nat)
      BY DEF OutFiles
    <3> QED BY <3>1
  <2>2. PICK z \in Seq(Nat) : z = y \o x
    BY ConcatProperties
  <2>3. Written(m, file) = [state |-> "open", rows |-> z]
    BY <1>7, <2>1, <2>2 DEF Written, Slice
  <2>4. [state |-> "open", rows |-> z] \in OutFiles
    BY DEF OutFiles
  <2>5. PICK c \in OutFiles : c = [state |-> "open", rows |-> z]
    BY <2>4
  <2>6. c.state = "open" /\ c.rows = z
    BY <2>5
  <2> QED BY <2>1, <2>2, <2>3, <2>5, <2>6
<1> QED BY <1>2, <1>7, <1>8

LEMMA InvSlice ==
    ASSUME Inv, NEW m \in Lists, AnonymizeSlice(m)
    PROVE  Inv'
<1>1. PICK f \in Seq(File), t \in Task, d \in OutFiles, a \in AnonTask,
           ad \in OutFiles, im \in OutFiles :
         /\ f = files[m] /\ t = task[m] /\ d = dataset[m]
         /\ a = anon[m] /\ ad = anonData[m] /\ im = idMap[m]
         /\ m \notin partial => SnapOf(m, f, t, d, a, ad)
         /\ t.phase \in Walk => t.listed <= Len(f)
         /\ anonData = [anonData EXCEPT ![m] = ad]
         /\ idMap = [idMap EXCEPT ![m] = im]
         /\ faults \in 0 .. MaxFaults /\ faults >= faults
  BY AnonHere
<1>2. /\ a.phase = "slices" /\ a.offset < a.total
      /\ UNCHANGED <<archive, failOnError, partial, run, exit, task, outputs, faults>>
      /\ faults' \in 0 .. MaxFaults /\ faults' >= faults
  BY <1>1 DEF AnonymizeSlice, pvars
<1>3. CASE d.state = "done"
  <2>1. PICK n \in Nat : n = SliceEnd(m)
    BY <1>1, WrittenTypes
  <2>2. n = Least(a.offset + MaxSlice, a.total)
    BY <1>1, <2>1 DEF SliceEnd
  <2>3. PICK c \in OutFiles :
           /\ c = Written(m, ad) /\ c.state = "open"
           /\ c.rows = (IF a.opened THEN ad.rows ELSE <<>>)
                 \o SubSeq(d.rows, a.offset + 1, Least(n, Len(d.rows)))
    <3>1. \A file \in OutFiles :
            \E c \in OutFiles :
               /\ c = Written(m, file) /\ c.state = "open"
               /\ c.rows = (IF a.opened THEN file.rows ELSE <<>>)
                     \o SubSeq(d.rows, a.offset + 1, Least(SliceEnd(m), Len(d.rows)))
      <4>1. d = dataset[m] /\ a = anon[m]
        BY <1>1
      <4> QED BY <4>1, WrittenTypes, Zenon
    <3>2. PICK c \in OutFiles :
               /\ c = Written(m, ad) /\ c.state = "open"
               /\ c.rows = (IF a.opened THEN ad.rows ELSE <<>>)
                     \o SubSeq(d.rows, a.offset + 1, Least(SliceEnd(m), Len(d.rows)))
      BY <3>1
    <3> QED BY <2>1, <3>2, Zenon
  <2>4. PICK i \in OutFiles : i = Written(m, im)
    BY <1>1, WrittenTypes
  <2>5. PICK b \in AnonTask : /\ b = AnonAt("slices", n, a.total, TRUE) /\ b.phase = "slices"
                              /\ b.offset = n /\ b.total = a.total /\ b.opened
    <3>1. PICK k \in Nat : k = a.total
      BY DEF AnonTask
    <3>2. PICK b \in AnonTask : /\ b = AnonAt("slices", n, k, TRUE) /\ b.phase = "slices"
                                /\ b.offset = n /\ b.total = k /\ b.opened
      <4>1. ASSUME NEW p \in Nat, NEW q \in Nat
            PROVE  \E b \in AnonTask : /\ b = AnonAt("slices", p, q, TRUE) /\ b.phase = "slices"
                                       /\ b.offset = p /\ b.total = q /\ b.opened
        BY AnonSlices, ZenonT(30)
      <4> QED BY <4>1, ZenonT(30)
    <3> QED BY <3>1, <3>2
  <2>6. /\ anonData' = [anonData EXCEPT ![m] = c] /\ idMap' = [idMap EXCEPT ![m] = i]
        /\ anon' = [anon EXCEPT ![m] = b]
    BY <1>1, <1>3, <2>1, <2>3, <2>4, <2>5 DEF AnonymizeSlice
  <2>7. ASSUME m \notin partial PROVE SnapOf(m, f, t, d, b, c)
    <3>1. SnapOf(m, f, t, d, a, ad) /\ (t.phase \in Walk => t.listed <= Len(f))
      BY <1>1, <2>7
    <3>2. a.phase = "slices" /\ a.offset < a.total /\ d.state = "done"
      BY <1>2, <1>3
    <3>3. b.phase = "slices" /\ b.offset = n /\ b.total = a.total /\ b.opened
      BY <2>5
    <3>4. /\ c.state = "open"
          /\ c.rows = (IF a.opened THEN ad.rows ELSE <<>>)
                \o SubSeq(d.rows, a.offset + 1, Least(n, Len(d.rows)))
      BY <2>3
    <3> QED BY <2>2, <3>1, <3>2, <3>3, <3>4, WritesSlice, Zenon
  <2> QED BY <1>1, <1>2, <2>6, <2>7, OneAnon
<1>4. CASE d.state # "done"
  <2>1. PICK b \in AnonTask : b = NoAnon /\ b.phase = "off"
    BY AnonTypes
  <2>2. anon' = [anon EXCEPT ![m] = b] /\ UNCHANGED <<anonData, idMap>>
    BY <1>1, <1>4, <2>1 DEF AnonymizeSlice, AnonEnds
  <2>3. m \notin partial => SnapOf(m, f, t, d, b, ad)
    BY <1>1, <2>1, NoSlices
  <2> QED BY <1>1, <1>2, <2>2, <2>3, OneAnon
<1> QED BY <1>3, <1>4

LEMMA InvSliceFails ==
    ASSUME Inv, NEW m \in Lists, SliceFails(m)
    PROVE  Inv'
<1>1. PICK f \in Seq(File), t \in Task, d \in OutFiles, a \in AnonTask,
           ad \in OutFiles, im \in OutFiles :
         /\ f = files[m] /\ t = task[m] /\ d = dataset[m]
         /\ a = anon[m] /\ ad = anonData[m] /\ im = idMap[m]
         /\ m \notin partial => SnapOf(m, f, t, d, a, ad)
         /\ anonData = [anonData EXCEPT ![m] = ad]
         /\ idMap = [idMap EXCEPT ![m] = im]
         /\ faults \in 0 .. MaxFaults /\ faults >= faults
  BY AnonHere
<1>2. /\ UNCHANGED <<archive, failOnError, partial, run, exit, task, outputs>>
      /\ faults' \in 0 .. MaxFaults /\ faults' >= faults
  BY <1>1, ParserAssumption DEF SliceFails, Fault
<1>3. PICK b \in AnonTask : b = NoAnon /\ b.phase = "off"
  BY AnonTypes
<1>4. anon' = [anon EXCEPT ![m] = b] /\ idMap' = [idMap EXCEPT ![m] = im]
  BY <1>1, <1>3 DEF SliceFails, AnonEnds
<1>5. PICK w \in OutFiles : w = Written(m, ad) /\ w.state = "open"
  BY <1>1, WrittenTypes
<1>6. PICK c \in OutFiles : /\ anonData' = [anonData EXCEPT ![m] = c]
                            /\ c = ad \/ c.state # "done"
  BY <1>1, <1>5 DEF SliceFails
<1>7. m \notin partial => SnapOf(m, f, t, d, b, c)
  BY <1>1, <1>3, <1>6, NoSlices
<1> QED BY <1>1, <1>2, <1>4, <1>6, <1>7, OneAnon

LEMMA ClosedTypes ==
    ASSUME NEW file \in OutFiles
    PROVE  \E c \in OutFiles : c = Closed(file) /\ c.state = "done" /\ c.rows = file.rows
<1>1. Closed(file) \in OutFiles /\ Closed(file).state = "done" /\ Closed(file).rows = file.rows
  BY DEF Closed, OutFiles
<1> QED BY <1>1

LEMMA InvFinish ==
    ASSUME Inv, NEW m \in Lists, FinishData(m) \/ FinishMap(m)
    PROVE  Inv'
<1>1. PICK f \in Seq(File), t \in Task, d \in OutFiles, a \in AnonTask,
           ad \in OutFiles, im \in OutFiles :
         /\ f = files[m] /\ t = task[m] /\ d = dataset[m]
         /\ a = anon[m] /\ ad = anonData[m] /\ im = idMap[m]
         /\ m \notin partial => SnapOf(m, f, t, d, a, ad)
         /\ t.phase \in Walk => t.listed <= Len(f)
         /\ anonData = [anonData EXCEPT ![m] = ad]
         /\ idMap = [idMap EXCEPT ![m] = im]
         /\ faults \in 0 .. MaxFaults /\ faults >= faults
  BY AnonHere
<1>2. /\ UNCHANGED <<archive, failOnError, partial, run, exit, task, outputs>>
      /\ faults' \in 0 .. MaxFaults /\ faults' >= faults
  BY <1>1 DEF FinishData, FinishMap, pvars
<1>3. CASE FinishData(m)
  <2>1. a.phase = "slices" /\ a.offset = a.total
    BY <1>1, <1>3 DEF FinishData
  <2>2. PICK b \in AnonTask : b = AnonAt("map", a.offset, a.total, TRUE) /\ b.phase = "map"
    <3>1. a.offset \in Nat /\ a.total \in Nat
      BY DEF AnonTask
    <3> QED BY <3>1, AnonMap, ZenonT(30)
  <2>3. PICK c \in OutFiles : c = Closed(ad) /\ c.rows = ad.rows
    BY ClosedTypes
  <2>4. /\ anon' = [anon EXCEPT ![m] = b] /\ anonData' = [anonData EXCEPT ![m] = c]
        /\ idMap' = [idMap EXCEPT ![m] = im]
    BY <1>1, <1>3, <2>2, <2>3 DEF FinishData
  <2>5. b.phase # "slices"
    BY <2>2
  <2>6. m \notin partial => SnapOf(m, f, t, d, b, c)
    BY <1>1, <2>1, <2>3, <2>5, FinishesSlices
  <2> QED BY <1>1, <1>2, <2>4, <2>6, OneAnon
<1>4. CASE FinishMap(m)
  <2>1. PICK b \in AnonTask : b = NoAnon /\ b.phase = "off"
    BY AnonTypes
  <2>2. PICK c \in OutFiles : c = Closed(im)
    BY ClosedTypes
  <2>3. /\ anon' = [anon EXCEPT ![m] = b] /\ anonData' = [anonData EXCEPT ![m] = ad]
        /\ idMap' = [idMap EXCEPT ![m] = c]
    BY <1>1, <1>4, <2>1, <2>2 DEF FinishMap, AnonEnds
  <2>4. m \notin partial => SnapOf(m, f, t, d, b, ad)
    BY <1>1, <2>1, NoSlices
  <2> QED BY <1>1, <1>2, <2>3, <2>4, OneAnon
<1> QED BY <1>3, <1>4

-----------------------------------------------------------------------------
(***************************************************************************)
(* The invariance of Inv.                                                  *)
(***************************************************************************)
LEMMA InvInit == Init => Inv
<1> SUFFICES ASSUME Init PROVE Inv
  OBVIOUS
<1>1. Held \in Nat /\ MaxFaults \in Nat
  BY ParserAssumption
<1>2. PICK r \in Seq(Num) : r = [k \in 1 .. Held |-> k]
  <2>1. [k \in 1 .. Held |-> k] \in [1 .. Held -> Num]
    BY <1>1 DEF Num, Unreadable
  <2>2. \A s \in [1 .. Held -> Num] : s \in Seq(Num)
    BY <1>1, IsASeq
  <2> QED BY <2>1, <2>2
<1>3. PICK f \in Seq(File) : /\ f = IF Held = 0 THEN <<>> ELSE <<[state |-> "done", rows |-> r]>>
  <2>1. [state |-> "done", rows |-> r] \in File
    BY DEF File
  <2>2. <<>> \in Seq(File) /\ <<[state |-> "done", rows |-> r]>> \in Seq(File)
    BY <2>1
  <2> QED BY <2>2
<1>4. files = [l \in Lists |-> f]
  BY <1>2, <1>3 DEF Init, ParserInit
<1>5. /\ next = [l \in Lists |-> Held + 1] /\ owed = [l \in Lists |-> 0]
      /\ failOnError = FALSE /\ run = "idle" /\ exit = "none"
      /\ task = [l \in Lists |-> NoTask] /\ partial = {}
      /\ dataset = [l \in Lists |-> Absent] /\ errors = [l \in Lists |-> <<>>]
      /\ faults = 0
      /\ anon = [l \in Lists |-> NoAnon]
      /\ anonData = [l \in Lists |-> Absent] /\ idMap = [l \in Lists |-> Absent]
  BY DEF Init, ParserInit
<1>6. PICK u \in Task : u = NoTask /\ u.phase = "off" /\ u.missed = {}
  BY NoTaskTypes DEF NoTask
<1>7. PICK b \in AnonTask : b = NoAnon /\ b.phase = "off"
  BY AnonTypes
<1>8. PICK c \in OutFiles : c = Absent /\ c.state = "absent"
  <2>1. Absent \in OutFiles /\ Absent.state = "absent"
    BY DEF Absent, OutFiles
  <2> QED BY <2>1
<1>9. Held + 1 \in Num /\ Held + 1 \in Nat /\ 0 \in 0 .. MaxFaults
  BY <1>1 DEF Num, Unreadable
<1>10. Types
  <2>1. task \in [Lists -> Task]
    BY <1>5, <1>6
  <2>2. anon \in [Lists -> AnonTask]
    BY <1>5, <1>7
  <2>3. /\ dataset \in [Lists -> OutFiles] /\ anonData \in [Lists -> OutFiles]
        /\ idMap \in [Lists -> OutFiles]
    BY <1>5, <1>8
  <2>4. errors \in [Lists -> Seq(Nat)]
    BY <1>5
  <2>5. next \in [Lists -> Nat] /\ next \in [Lists -> Num] /\ owed \in [Lists -> Nat]
    BY <1>5, <1>9
  <2>6. TypeOK
    BY <1>5, <1>9, <2>1, <2>2, <2>3, <2>4, <2>5 DEF TypeOK, Task, Num, AnonTask
  <2>7. \A l \in Lists : OwedOf(files[l], owed[l])
    BY <1>5 DEF OwedOf
  <2>8. files \in [Lists -> Seq(File)] /\ failOnError \in BOOLEAN
    BY <1>4, <1>5
  <2> QED BY <2>5, <2>6, <2>7, <2>8 DEF Types
<1>11. ASSUME NEW l \in Lists PROVE ListInv(l)
  <2>1. /\ task[l] = u /\ dataset[l] = c /\ errors[l] = <<>> /\ anon[l] = b
        /\ anonData[l] = c
    BY <1>5, <1>6, <1>7, <1>8
  <2>2. RunOf(u, failOnError, run, exit)
    BY <1>5, <1>6 DEF RunOf, Walk
  <2>3. TaskOf(l, Seen(files[l], u.missed), u, c, <<>>, failOnError)
    BY <1>6 DEF TaskOf, Walk
  <2>4. OldOf(l, files[l], u, <<>>)
    BY DEF OldOf
  <2>5. SnapOf(l, files[l], u, c, b, c)
    BY <1>7, <1>8 DEF SnapOf
  <2>6. WholeOf(l, files[l], u, c, <<>>, b, c) /\ u.phase \notin {"ok", "empty"}
    BY <1>6, <2>4, <2>5 DEF WholeOf
  <2> QED BY <2>1, <2>2, <2>3, <2>6 DEF ListInv
<1> QED BY <1>10, <1>11 DEF Inv

LEMMA InvStep == Inv /\ [Next]_vars => Inv'
<1> SUFFICES ASSUME Inv, [Next]_vars PROVE Inv'
  OBVIOUS
<1>1. CASE UNCHANGED vars
  <2>1. /\ UNCHANGED <<archive, failOnError, task, partial, dataset, errors, avars>>
        /\ run' = run /\ exit' = exit /\ faults' = faults
    BY <1>1 DEF vars, pvars, outputs
  <2>2. \A l \in Lists : RunOf(task[l], failOnError, run', exit')
    BY <2>1 DEF Inv, ListInv
  <2>3. /\ run' \in {"idle", "lists", "lineage"} /\ exit' \in {"none", "ok", "failed"}
        /\ faults' \in 0 .. MaxFaults /\ faults' >= faults
    BY <2>1 DEF Inv, Types, TypeOK
  <2> QED BY <2>1, <2>2, <2>3, InvRun
<1>2. CASE ParserNext /\ UNCHANGED avars
  <2>1. CASE StartParser
    BY <1>2, <2>1, InvStart
  <2>2. CASE JoinLists \/ ParseLineage \/ LineageFails
    BY <1>2, <2>2, InvJoin
  <2>3. CASE ParserKilled
    BY <1>2, <2>3, InvKilled
  <2>4. ASSUME NEW l \in Lists, Store(l) \/ RecordLineage(l) \/ Finish(l) \/ ArchiverKilled(l)
        PROVE  Inv'
    BY <1>2, <2>4, InvArchives DEF Archives
  <2>5. ASSUME NEW l \in Lists, RemoveDead(l) PROVE Inv'
    BY <1>2, <2>5, InvRemoved
  <2>6. ASSUME NEW l \in Lists, ListStep(l) PROVE Inv'
    <3>1. CASE CollectFiles(l)
      BY <1>2, <3>1, InvCollect
    <3>2. CASE TakeBatch(l)
      BY <1>2, <3>2, InvTake
    <3>3. CASE RecordErrors(l)
      BY <1>2, <3>3, InvRecord
    <3>4. CASE FlushBatch(l)
      BY <1>2, <3>4, InvFlush
    <3>5. CASE EndOfInput(l)
      BY <1>2, <3>5, InvEnd
    <3>6. CASE CloseDataset(l)
      BY <1>2, <3>6, InvClose
    <3>7. CASE ReturnOk(l)
      BY <1>2, <3>7, InvReturn
    <3> QED BY <2>6, <3>1, <3>2, <3>3, <3>4, <3>5, <3>6, <3>7 DEF ListStep
  <2>7. ASSUME NEW l \in Lists, TaskFails(l) PROVE Inv'
    BY <1>2, <2>7, InvTaskFails
  <2> QED BY <1>2, <2>1, <2>2, <2>3, <2>4, <2>5, <2>6, <2>7 DEF ParserNext
<1>3. CASE StartAnonymizer \/ AnonymizerKilled
  BY <1>3, InvAnonRun
<1>4. ASSUME NEW l \in Lists, AnonStep(l) PROVE Inv'
  <2>1. CASE CountRows(l)
    BY <2>1, InvCount
  <2>2. CASE AnonymizeSlice(l)
    BY <2>2, InvSlice
  <2>3. CASE FinishData(l) \/ FinishMap(l)
    BY <2>3, InvFinish
  <2> QED BY <1>4, <2>1, <2>2, <2>3 DEF AnonStep
<1>5. ASSUME NEW l \in Lists, SliceFails(l) PROVE Inv'
  BY <1>5, InvSliceFails
<1> QED BY <1>1, <1>2, <1>3, <1>4, <1>5 DEF Next

LEMMA InvHolds == Spec => []Inv
<1>1. Init => Inv
  BY InvInit
<1>2. Inv /\ [Next]_vars => Inv'
  BY InvStep
<1> QED BY <1>1, <1>2, PTL DEF Spec

-----------------------------------------------------------------------------
(***************************************************************************)
(* The theorems.                                                           *)
(***************************************************************************)

\* Archiver, parser and anonymizer keep to the types of their variables: a
\* batch never holds the mark of an unreadable file, and there are never
\* more faults than the bound.
THEOREM PipelineTypes == Spec => []TypeOK
<1>1. Inv => TypeOK
  BY DEF Inv, Types
<1> QED BY <1>1, InvHolds, PTL

\* What a list that ended listed: files that are finished, so all their rows.
LEMMA ToldRows ==
    ASSUME Inv, NEW l \in Lists, task[l].phase \in {"ok", "empty"}
    PROVE  \E r \in Seq(Num) :
              /\ Listed(l) = r
              /\ Rows(Seen(files[l], task[l].missed), task[l].listed) = r
              /\ Refused(l, r) # <<>> \/ l \notin partial =>
                    errors[l] \o task[l].pending = Refused(l, r)
              /\ failOnError => Refused(l, r) = <<>>
              /\ task[l].phase = "ok" => dataset[l] = [state |-> "done", rows |-> Good(l, r)]
              /\ task[l].phase = "empty" => Good(l, r) = <<>>
              /\ task[l].pending # <<>> => faults > 0
<1>1. PICK f \in Seq(File), g \in Seq(File), t \in Task, d \in OutFiles, e \in Seq(Nat) :
         /\ f = files[l] /\ t = task[l] /\ d = dataset[l] /\ e = errors[l]
         /\ g = Seen(files[l], t.missed)
         /\ t.missed = {} => g = f
         /\ TaskOf(l, g, t, d, e, failOnError)
         /\ l \notin partial => WholeOf(l, f, t, d, e, anon[l], anonData[l])
  BY Here
<1>2. /\ t.listed \in 0 .. Len(g) /\ ToldOf(l, g, t, e, failOnError)
      /\ t.phase = "ok" => d = [state |-> "done", rows |-> Good(l, Rows(g, t.listed))]
      /\ t.phase = "empty" => Good(l, Rows(g, t.listed)) = <<>>
  BY <1>1, LenProperties DEF TaskOf, Task
<1>3. Items(SubSeq(g, 1, t.listed)) = Rows(g, t.listed)
  BY <1>2, DoneItems DEF ToldOf
<1>4. PICK r \in Seq(Num) : r = Rows(g, t.listed)
  <2>1. t.listed \in 0 .. t.listed
    BY <1>2
  <2> QED BY <1>2, <2>1, RowsMore
<1>5. Listed(l) = r
  BY <1>1, <1>3, <1>4 DEF Listed
<1>6. ASSUME Refused(l, r) # <<>> \/ l \notin partial
      PROVE  e \o t.pending = Refused(l, r)
  <2>1. CASE t.errOpened
    BY <1>2, <1>4, <2>1 DEF ToldOf, ErrorsAre
  <2>2. CASE ~t.errOpened
    <3>1. Refused(l, r) = <<>> /\ t.pending = <<>> /\ l \notin partial
      BY <1>2, <1>4, <1>6, <2>2 DEF ToldOf, ErrorsAre
    <3>2. WholeOf(l, f, t, d, e, anon[l], anonData[l]) /\ g = f
      BY <1>1, <3>1 DEF WholeOf
    <3>3. e = <<>>
      BY <1>1, <1>4, <3>1, <3>2 DEF WholeOf, OldOf
    <3>4. e \o t.pending = <<>>
      BY <3>1, <3>3, ConcatEmptySeq
    <3> QED BY <3>1, <3>4
  <2> QED BY <2>1, <2>2
<1>7. t.pending # <<>> => faults > 0
  BY <1>1 DEF Inv, ListInv
<1>8. failOnError => Refused(l, r) = <<>>
  BY <1>2, <1>4 DEF ToldOf, ErrorsAre
<1> QED BY <1>1, <1>2, <1>4, <1>5, <1>6, <1>7, <1>8

\* When process_mailing_list returns Ok the dataset is exactly what parses of
\* the files it listed, and errors.csv the rest but for lines the drop of its
\* writer lost by a fault: for any batch size, any number of files, e-mails
\* and faults, any files the listing missed, and with the archiver at work.
THEOREM ParserAccounts == Spec => []Accounted
<1>1. Inv => Accounted
  <2> SUFFICES ASSUME Inv, NEW l \in Lists, task[l].phase \in {"ok", "empty"}
               PROVE  LET refused == Refused(l, Listed(l))
                      IN  /\ task[l].phase = "ok" =>
                               dataset[l] = [state |-> "done", rows |-> Good(l, Listed(l))]
                          /\ task[l].phase = "empty" => Good(l, Listed(l)) = <<>>
                          /\ refused # <<>> \/ l \notin partial =>
                               errors[l] \o task[l].pending = refused
                          /\ task[l].pending # <<>> => faults > 0
    BY DEF Accounted
  <2>1. PICK r \in Seq(Num) :
           /\ Listed(l) = r
           /\ Refused(l, r) # <<>> \/ l \notin partial =>
                 errors[l] \o task[l].pending = Refused(l, r)
           /\ task[l].phase = "ok" => dataset[l] = [state |-> "done", rows |-> Good(l, r)]
           /\ task[l].phase = "empty" => Good(l, r) = <<>>
           /\ task[l].pending # <<>> => faults > 0
    BY ToldRows
  <2> QED BY <2>1
<1> QED BY <1>1, InvHolds, PTL

\* With fail_on_parsing_error an exit status of 0 means that every e-mail of
\* every file that was listed is in the datasets; not of every file there is.
THEOREM ExitIsTrue == Spec => []ExitTellsTruth
<1>1. Inv => ExitTellsTruth
  <2> SUFFICES ASSUME Inv, run = "idle", exit = "ok", failOnError, NEW l \in Lists
               PROVE  \/ /\ task[l].phase = "ok"
                         /\ dataset[l] = [state |-> "done", rows |-> Listed(l)]
                      \/ task[l].phase = "empty" /\ Listed(l) = <<>>
    BY DEF ExitTellsTruth
  <2>1. task[l].phase \in {"ok", "empty"}
    BY DEF Inv, ListInv, RunOf
  <2>2. PICK r \in Seq(Num) :
           /\ Listed(l) = r /\ Refused(l, r) = <<>>
           /\ task[l].phase = "ok" => dataset[l] = [state |-> "done", rows |-> Good(l, r)]
           /\ task[l].phase = "empty" => Good(l, r) = <<>>
    BY <2>1, ToldRows
  <2>3. Good(l, r) = r
    BY <2>2, NoneRefused
  <2> QED BY <2>1, <2>2, <2>3
<1> QED BY <1>1, InvHolds, PTL

\* Of a list whose listings never missed a file, a dataset or an anonymized
\* dataset with a footer is the archive as it was at some time, whatever was
\* killed, failed, was deleted or ran at the same time.
THEOREM OutputsWhole == Spec => []OutputsAreSnapshots
<1>1. Inv => OutputsAreSnapshots
  <2> SUFFICES ASSUME Inv, NEW l \in Lists \ partial, NEW file \in {dataset[l], anonData[l]},
                      file.state = "done"
               PROVE  \E n \in 0 .. Len(files[l]) : file.rows = Snap(l, files[l], n)
    BY DEF OutputsAreSnapshots, IsSnapshot, Snapshot, Snap, Rows
  <2>1. PICK f \in Seq(File), t \in Task, d \in OutFiles, e \in Seq(Nat) :
           /\ f = files[l] /\ t = task[l] /\ d = dataset[l]
           /\ l \notin partial => WholeOf(l, f, t, d, e, anon[l], anonData[l])
           /\ t.phase \in Walk \cup {"ok", "empty"} => t.listed <= Len(f)
    BY Here
  <2>2. \A n \in 0 .. Reach(f, t) : n \in 0 .. Len(f)
    BY <2>1, LenProperties DEF Reach, Task
  <2>3. SnapOf(l, f, t, d, anon[l], anonData[l])
    BY <2>1 DEF WholeOf
  <2>4. CASE file = dataset[l]
    BY <2>1, <2>2, <2>3, <2>4 DEF SnapOf
  <2>5. CASE file = anonData[l]
    BY <2>1, <2>3, <2>5 DEF SnapOf
  <2> QED BY <2>4, <2>5
<1> QED BY <1>1, InvHolds, PTL

-----------------------------------------------------------------------------
(***************************************************************************)
(* Lineage.  Gone are the e-mails in files that are or may be finished     *)
(* whose record was lost for good, and, as number 0, the record to come    *)
(* where the last one is torn.  Only a kill adds to them, two at a time;   *)
(* a record behind a torn one takes the place of that mark.  What a run    *)
(* misses in the end is Gone, or the e-mail the archiver was at.           *)
(***************************************************************************)
PieceOf == [kind : {"sep", "record", "cut", "torn"}, id : Nat]

KeptOf(f) ==
    {i \in Num : \E k \in DOMAIN f : f[k].state # "dead" /\ i \in Range(f[k].rows)}

DoneOf(f) ==
    {i \in Num : \E k \in DOMAIN f : f[k].state = "done" /\ i \in Range(f[k].rows)}

Torn(log) == Len(log) > 0 /\ log[Len(log)].kind = "torn"

GoneOf(f, log, o) ==
    {i \in Nat : \/ i \in KeptOf(f) /\ i \notin RecordsOf(log) /\ i # o
                 \/ i = 0 /\ Torn(log)}

Gone == {p \in Lists \X Nat : p[2] \in GoneOf(files[p[1]], lineage[p[1]], owed[p[1]])}

Parsed  == UNION {{l} \X Range(dataset[l].rows) : l \in Lists}
Missing == Parsed \ provenance.records

FewGone ==
    /\ lineage \in [Lists -> Seq(PieceOf)]
    /\ IsFiniteSet(Gone) /\ Cardinality(Gone) <= 2 * faults

Sourced == \A l \in Lists : Range(dataset[l].rows) \subseteq DoneOf(files[l])

FewMissing ==
    run = "idle" /\ exit = "ok" =>
      IsFiniteSet(Missing) /\ Cardinality(Missing) <= 2 * faults + Cardinality(Lists)

ProvInv == Inv /\ FewGone /\ Sourced /\ FewMissing

\* One more piece: another record, unless a torn one is two pieces before it.
LEMMA OnePiece ==
    ASSUME NEW log \in Seq(PieceOf), NEW p \in PieceOf
    PROVE  /\ log \o <<p>> \in Seq(PieceOf) /\ Len(log \o <<p>>) = Len(log) + 1
           /\ \A i \in 1 .. Len(log) : (log \o <<p>>)[i] = log[i]
           /\ (log \o <<p>>)[Len(log) + 1] = p
           /\ Torn(log \o <<p>>) <=> p.kind = "torn"
           /\ RecordsOf(log \o <<p>>) =
                RecordsOf(log) \cup
                  (IF p.kind = "record" /\ ~(Len(log) > 1 /\ log[Len(log) - 1].kind = "torn")
                     THEN {p.id} ELSE {})
<1>1. Len(log) \in Nat /\ DOMAIN log = 1 .. Len(log)
  BY LenProperties
<1>2. PICK g : g = log \o <<p>>
  OBVIOUS
<1>3. /\ g \in Seq(PieceOf) /\ Len(g) = Len(log) + 1 /\ DOMAIN g = 1 .. Len(log) + 1
      /\ \A i \in 1 .. Len(log) : g[i] = log[i]
      /\ g[Len(log) + 1] = p
  BY <1>1, <1>2
<1>4. Torn(g) <=> p.kind = "torn"
  BY <1>1, <1>3 DEF Torn
<1> DEFINE Counts(s, j) == s[j].kind = "record" /\ ~(j > 2 /\ s[j - 2].kind = "torn")
<1>5. \A j \in 1 .. Len(log) : Counts(g, j) <=> Counts(log, j)
  <2> TAKE j \in 1 .. Len(log)
  <2>1. g[j] = log[j]
    BY <1>3
  <2>2. j > 2 => g[j - 2] = log[j - 2]
    BY <1>1, <1>3
  <2> QED BY <2>1, <2>2
<1>6. Counts(g, Len(log) + 1) <=>
        p.kind = "record" /\ ~(Len(log) > 1 /\ log[Len(log) - 1].kind = "torn")
  <2>1. Len(log) + 1 > 2 <=> Len(log) > 1
    BY <1>1
  <2>2. Len(log) > 1 => (Len(log) + 1) - 2 = Len(log) - 1 /\ Len(log) - 1 \in 1 .. Len(log)
    BY <1>1
  <2> QED BY <1>3, <2>1, <2>2
<1>7. /\ RecordsOf(g) = {g[k].id : k \in {j \in DOMAIN g : Counts(g, j)}}
      /\ RecordsOf(log) = {log[k].id : k \in {j \in DOMAIN log : Counts(log, j)}}
  BY DEF RecordsOf
<1> HIDE DEF Counts
<1>8. \A j : j \in 1 .. Len(log) + 1 <=> j \in 1 .. Len(log) \/ j = Len(log) + 1
  BY <1>1
<1>9. \A x : x \in RecordsOf(g) <=>
        \/ x \in RecordsOf(log)
        \/ Counts(g, Len(log) + 1) /\ x = p.id
  <2> TAKE x
  <2>1. x \in RecordsOf(g) <=> \E j \in 1 .. Len(log) + 1 : Counts(g, j) /\ x = g[j].id
    BY <1>3, <1>7
  <2>2. x \in RecordsOf(log) <=> \E j \in 1 .. Len(log) : Counts(log, j) /\ x = log[j].id
    BY <1>1, <1>7
  <2>3. x \in RecordsOf(log) <=> \E j \in 1 .. Len(log) : Counts(g, j) /\ x = g[j].id
    BY <1>3, <1>5, <2>2
  <2> QED BY <1>3, <1>8, <2>1, <2>3
<1>10. RecordsOf(g) = RecordsOf(log) \cup
          (IF Counts(g, Len(log) + 1) THEN {p.id} ELSE {})
  BY <1>9
<1> QED BY <1>2, <1>3, <1>4, <1>6, <1>10

LEMMA Separator == \E s \in PieceOf : s = Piece("sep", 0) /\ s.kind = "sep"
<1>1. Piece("sep", 0) \in PieceOf /\ Piece("sep", 0).kind = "sep"
  BY DEF Piece, PieceOf
<1> QED BY <1>1

\* The same for the pieces that are written one behind the other.
LEMMA FirstPiece ==
    ASSUME NEW p \in PieceOf
    PROVE  /\ <<p>> \in Seq(PieceOf)
           /\ Torn(<<p>>) <=> p.kind = "torn"
           /\ RecordsOf(<<p>>) = IF p.kind = "record" THEN {p.id} ELSE {}
<1>1. <<p>> \in Seq(PieceOf) /\ Len(<<p>>) = 1 /\ DOMAIN <<p>> = {1} /\ <<p>>[1] = p
  OBVIOUS
<1>2. Torn(<<p>>) <=> p.kind = "torn"
  BY <1>1 DEF Torn
<1>3. RecordsOf(<<p>>) = IF p.kind = "record" THEN {p.id} ELSE {}
  BY <1>1 DEF RecordsOf
<1> QED BY <1>1, <1>2, <1>3

LEMMA NextPiece ==
    ASSUME NEW log \in Seq(PieceOf), log # <<>>, NEW s \in PieceOf, s.kind = "sep",
           NEW p \in PieceOf
    PROVE  /\ log \o <<s>> \in Seq(PieceOf)
           /\ ~Torn(log \o <<s>>)
           /\ RecordsOf(log \o <<s>>) = RecordsOf(log)
           /\ (log \o <<s>>) \o <<p>> \in Seq(PieceOf)
           /\ Torn((log \o <<s>>) \o <<p>>) <=> p.kind = "torn"
           /\ RecordsOf((log \o <<s>>) \o <<p>>) = RecordsOf(log) \cup
                (IF p.kind = "record" /\ ~Torn(log) THEN {p.id} ELSE {})
<1>1. Len(log) \in Nat /\ Len(log) > 0
  BY EmptySeq, LenProperties
<1>2. PICK a : a = log \o <<s>>
  OBVIOUS
<1>3. /\ a \in Seq(PieceOf) /\ Len(a) = Len(log) + 1
      /\ \A i \in 1 .. Len(log) : a[i] = log[i]
      /\ a[Len(log) + 1] = s
      /\ Torn(a) <=> s.kind = "torn"
      /\ RecordsOf(a) =
           RecordsOf(log) \cup
             (IF s.kind = "record" /\ ~(Len(log) > 1 /\ log[Len(log) - 1].kind = "torn")
                THEN {s.id} ELSE {})
  BY <1>2, OnePiece
<1>4. ~Torn(a) /\ RecordsOf(a) = RecordsOf(log)
  BY <1>3
<1>5. Len(a) > 1 /\ Len(a) - 1 = Len(log) /\ a[Len(log)] = log[Len(log)]
  <2>1. Len(log) \in 1 .. Len(log)
    BY <1>1
  <2> QED BY <1>1, <1>3, <2>1
<1>6. Torn(log) <=> Len(a) > 1 /\ a[Len(a) - 1].kind = "torn"
  BY <1>1, <1>5 DEF Torn
<1>7. /\ a \o <<p>> \in Seq(PieceOf)
      /\ Torn(a \o <<p>>) <=> p.kind = "torn"
      /\ RecordsOf(a \o <<p>>) =
           RecordsOf(a) \cup
             (IF p.kind = "record" /\ ~(Len(a) > 1 /\ a[Len(a) - 1].kind = "torn")
                THEN {p.id} ELSE {})
  BY <1>3, OnePiece
<1>8. RecordsOf(a \o <<p>>) = RecordsOf(log) \cup
        (IF p.kind = "record" /\ ~Torn(log) THEN {p.id} ELSE {})
  BY <1>4, <1>6, <1>7
<1> QED BY <1>2, <1>3, <1>4, <1>7, <1>8

\* append_yaml_to_file: what it adds to the records that can be read.
LEMMA AppendsPiece ==
    ASSUME lineage \in [Lists -> Seq(PieceOf)], NEW l \in Lists,
           NEW p \in PieceOf, p.kind # "sep"
    PROVE  \E log \in Seq(PieceOf) :
              /\ Appended(l, <<p>>) = [lineage EXCEPT ![l] = log]
              /\ Torn(log) <=> p.kind = "torn"
              /\ RecordsOf(log) = RecordsOf(lineage[l]) \cup
                   (IF p.kind = "record" /\ ~Torn(lineage[l]) THEN {p.id} ELSE {})
<1>1. PICK log \in Seq(PieceOf) : log = lineage[l]
  OBVIOUS
<1>2. PICK s \in PieceOf : s = Piece("sep", 0) /\ s.kind = "sep"
  BY Separator
<1>3. CASE log = <<>>
  <2>1. Appended(l, <<p>>) = [lineage EXCEPT ![l] = <<p>>]
    <3>1. (log \o <<>>) \o <<p>> = <<p>>
      BY <1>3
    <3> QED BY <1>1, <1>3, <3>1 DEF Appended
  <2>2. ~Torn(log) /\ RecordsOf(log) = {}
    BY <1>3 DEF Torn, RecordsOf
  <2>3. /\ <<p>> \in Seq(PieceOf)
        /\ Torn(<<p>>) <=> p.kind = "torn"
        /\ RecordsOf(<<p>>) = IF p.kind = "record" THEN {p.id} ELSE {}
    BY FirstPiece
  <2>4. RecordsOf(<<p>>) = RecordsOf(log) \cup
          (IF p.kind = "record" /\ ~Torn(log) THEN {p.id} ELSE {})
    BY <2>2, <2>3
  <2> QED BY <1>1, <2>1, <2>3, <2>4
<1>4. CASE log # <<>>
  <2>1. Appended(l, <<p>>) = [lineage EXCEPT ![l] = (log \o <<s>>) \o <<p>>]
    BY <1>1, <1>2, <1>4 DEF Appended
  <2>2. /\ (log \o <<s>>) \o <<p>> \in Seq(PieceOf)
        /\ Torn((log \o <<s>>) \o <<p>>) <=> p.kind = "torn"
        /\ RecordsOf((log \o <<s>>) \o <<p>>) = RecordsOf(log) \cup
             (IF p.kind = "record" /\ ~Torn(log) THEN {p.id} ELSE {})
    BY <1>2, <1>4, NextPiece
  <2> QED BY <1>1, <2>1, <2>2
<1> QED BY <1>3, <1>4

\* ... and where a kill leaves nothing but the separator.
LEMMA AppendsNothing ==
    ASSUME lineage \in [Lists -> Seq(PieceOf)], NEW l \in Lists
    PROVE  \E log \in Seq(PieceOf) :
              /\ Appended(l, <<>>) = [lineage EXCEPT ![l] = log]
              /\ ~Torn(log)
              /\ RecordsOf(log) = RecordsOf(lineage[l])
<1>1. PICK log \in Seq(PieceOf) : log = lineage[l]
  OBVIOUS
<1>2. PICK s \in PieceOf : s = Piece("sep", 0) /\ s.kind = "sep"
  BY Separator
<1>3. CASE log = <<>>
  <2>1. Appended(l, <<>>) = [lineage EXCEPT ![l] = log]
    <3>1. (log \o <<>>) \o <<>> = log
      BY <1>3
    <3> QED BY <1>1, <1>3, <3>1 DEF Appended
  <2>2. ~Torn(log)
    BY <1>3 DEF Torn
  <2> QED BY <1>1, <2>1, <2>2
<1>4. CASE log # <<>>
  <2>1. /\ log \o <<s>> \in Seq(PieceOf) /\ ~Torn(log \o <<s>>)
        /\ RecordsOf(log \o <<s>>) = RecordsOf(log)
    BY <1>2, <1>4, NextPiece
  <2>2. (log \o <<s>>) \o <<>> = log \o <<s>>
    BY <2>1, ConcatEmptySeq
  <2>3. Appended(l, <<>>) = [lineage EXCEPT ![l] = (log \o <<s>>) \o <<>>]
    BY <1>1, <1>2, <1>4 DEF Appended
  <2> QED BY <1>1, <2>1, <2>2, <2>3
<1> QED BY <1>3, <1>4

\* What the files of a list hold when the last of them changes.
LEMMA KeptLast ==
    ASSUME NEW f \in Seq(File), Len(f) > 0, f[Len(f)].state = "open",
           NEW h \in File, NEW S, Range(h.rows) = Range(f[Len(f)].rows) \cup S,
           NEW g, g = [f EXCEPT ![Len(f)] = h]
    PROVE  /\ KeptOf(g) \subseteq KeptOf(f) \cup S
           /\ DoneOf(f) \subseteq DoneOf(g)
<1>1. /\ Len(f) \in 1 .. Len(f) /\ DOMAIN f = 1 .. Len(f)
      /\ DOMAIN g = 1 .. Len(f)
      /\ \A j \in 1 .. Len(f) : g[j] = IF j = Len(f) THEN h ELSE f[j]
  BY LenProperties, ExceptSeq
<1>2. KeptOf(g) \subseteq KeptOf(f) \cup S
  BY <1>1 DEF KeptOf
<1>3. DoneOf(f) \subseteq DoneOf(g)
  BY <1>1 DEF DoneOf
<1> QED BY <1>2, <1>3

LEMMA KeptNew ==
    ASSUME NEW f \in Seq(File), NEW h \in File, NEW g, g = Append(f, h)
    PROVE  /\ KeptOf(g) \subseteq KeptOf(f) \cup Range(h.rows)
           /\ DoneOf(f) \subseteq DoneOf(g)
<1>1. /\ Len(f) \in Nat /\ DOMAIN f = 1 .. Len(f) /\ DOMAIN g = 1 .. Len(f) + 1
      /\ \A i \in 1 .. Len(f) : g[i] = f[i]
      /\ g[Len(f) + 1] = h
  BY AppendProperties, LenProperties
<1>2. \A j \in DOMAIN g : (j \in DOMAIN f /\ g[j] = f[j]) \/ g[j] = h
  BY <1>1
<1>3. \A j \in DOMAIN f : j \in DOMAIN g /\ g[j] = f[j]
  BY <1>1
<1>4. KeptOf(g) \subseteq KeptOf(f) \cup Range(h.rows)
  BY <1>2 DEF KeptOf
<1>5. DoneOf(f) \subseteq DoneOf(g)
  BY <1>3 DEF DoneOf
<1> QED BY <1>4, <1>5

\* A dead file that is deleted holds none of them.
LEMMA KeptRemoved ==
    ASSUME NEW f \in Seq(File), NEW k \in 1 .. Len(f), f[k].state = "dead",
           NEW g, g = [f EXCEPT ![k] = NoFile]
    PROVE  /\ g \in Seq(File)
           /\ KeptOf(g) \subseteq KeptOf(f) /\ DoneOf(f) \subseteq DoneOf(g)
<1>1. NoFile \in File /\ Range(NoFile.rows) = {}
  BY DEF NoFile, File, Range
<1>2. /\ g \in Seq(File) /\ Len(g) = Len(f)
      /\ \A i \in 1 .. Len(f) : g[i] = IF i = k THEN NoFile ELSE f[i]
  BY <1>1, ExceptSeq
<1>3. DOMAIN g = 1 .. Len(f) /\ DOMAIN f = 1 .. Len(f)
  BY <1>2, LenProperties
<1>4. KeptOf(g) \subseteq KeptOf(f)
  <2>1. \A j \in DOMAIN g : g[j] = f[j] \/ Range(g[j].rows) = {}
    BY <1>1, <1>2, <1>3
  <2> QED BY <1>3, <2>1 DEF KeptOf
<1>5. \A j \in DOMAIN f : f[j].state = "done" => g[j] = f[j]
  BY <1>2, <1>3
<1>6. DoneOf(f) \subseteq DoneOf(g)
  BY <1>3, <1>5 DEF DoneOf
<1> QED BY <1>2, <1>4, <1>6

-----------------------------------------------------------------------------
\* The sizes of sets that grow by an element or two.
LEMMA CardLess ==
    ASSUME NEW S, IsFiniteSet(S), NEW T, T \subseteq S
    PROVE  IsFiniteSet(T) /\ Cardinality(T) <= Cardinality(S)
           /\ Cardinality(T) \in Nat /\ Cardinality(S) \in Nat
<1>1. IsFiniteSet(T) /\ Cardinality(T) <= Cardinality(S)
  BY FS_Subset
<1> QED BY <1>1, FS_CardinalityType

LEMMA CardAdd ==
    ASSUME NEW S, IsFiniteSet(S), NEW x
    PROVE  IsFiniteSet(S \cup {x}) /\ Cardinality(S \cup {x}) <= Cardinality(S) + 1
           /\ Cardinality(S) \in Nat
<1>1. /\ IsFiniteSet(S \cup {x})
      /\ Cardinality(S \cup {x}) = IF x \in S THEN Cardinality(S) ELSE Cardinality(S) + 1
  BY FS_AddElement
<1>2. Cardinality(S) \in Nat
  BY FS_CardinalityType
<1>3. \A n \in Nat : n <= n + 1 /\ n + 1 <= n + 1
  OBVIOUS
<1> QED BY <1>1, <1>2, <1>3

LEMMA CardTwo ==
    ASSUME NEW S, IsFiniteSet(S), NEW x, NEW y, NEW T, T \subseteq S \cup {x, y}
    PROVE  IsFiniteSet(T) /\ Cardinality(T) <= Cardinality(S) + 2
           /\ Cardinality(T) \in Nat /\ Cardinality(S) \in Nat
<1>1. /\ IsFiniteSet(S \cup {x}) /\ Cardinality(S) \in Nat
      /\ Cardinality(S \cup {x}) <= Cardinality(S) + 1
  BY CardAdd
<1>2. /\ IsFiniteSet((S \cup {x}) \cup {y}) /\ Cardinality(S \cup {x}) \in Nat
      /\ Cardinality((S \cup {x}) \cup {y}) <= Cardinality(S \cup {x}) + 1
  <2>1. PICK U : U = S \cup {x}
    OBVIOUS
  <2>2. IsFiniteSet(U)
    BY <1>1, <2>1
  <2>3. IsFiniteSet(U \cup {y}) /\ Cardinality(U \cup {y}) <= Cardinality(U) + 1
        /\ Cardinality(U) \in Nat
    BY <2>2, CardAdd
  <2> QED BY <2>1, <2>3
<1>3. T \subseteq (S \cup {x}) \cup {y}
  OBVIOUS
<1>4. /\ IsFiniteSet(T) /\ Cardinality(T) <= Cardinality((S \cup {x}) \cup {y})
      /\ Cardinality(T) \in Nat /\ Cardinality((S \cup {x}) \cup {y}) \in Nat
  BY <1>2, <1>3, CardLess
<1> QED BY <1>1, <1>2, <1>4

LEMMA CardSwap ==
    ASSUME NEW S, IsFiniteSet(S), NEW x \in S, NEW y, NEW T, T \subseteq (S \ {x}) \cup {y}
    PROVE  IsFiniteSet(T) /\ Cardinality(T) <= Cardinality(S)
           /\ Cardinality(T) \in Nat /\ Cardinality(S) \in Nat
<1>1. PICK U : U = S \ {x}
  OBVIOUS
<1>2. IsFiniteSet(U) /\ Cardinality(U) = Cardinality(S) - 1
  BY <1>1, FS_RemoveElement
<1>3. /\ IsFiniteSet(U \cup {y}) /\ Cardinality(U \cup {y}) <= Cardinality(U) + 1
      /\ Cardinality(U) \in Nat /\ Cardinality(S) \in Nat
  BY <1>2, CardAdd
<1>4. IsFiniteSet(T) /\ Cardinality(T) <= Cardinality(U \cup {y})
      /\ Cardinality(T) \in Nat /\ Cardinality(U \cup {y}) \in Nat
  BY <1>1, <1>3, CardLess
<1> QED BY <1>2, <1>3, <1>4

\* A step on list m adds to Gone what is added there.
LEMMA GoneOne ==
    ASSUME NEW m \in Lists,
           \A l \in Lists : l # m =>
             files'[l] = files[l] /\ lineage'[l] = lineage[l] /\ owed'[l] = owed[l],
           NEW S,
           GoneOf(files'[m], lineage'[m], owed'[m]) \subseteq
             GoneOf(files[m], lineage[m], owed[m]) \cup S
    PROVE  \A p \in Gone' : p \in Gone \/ (p[2] \in S /\ p = <<m, p[2]>>)
<1> TAKE p \in Gone'
<1>1. p \in Lists \X Nat /\ p[2] \in GoneOf(files'[p[1]], lineage'[p[1]], owed'[p[1]])
  BY DEF Gone
<1>2. p[1] \in Lists /\ p = <<p[1], p[2]>>
  BY <1>1
<1>3. CASE p[1] = m
  <2>1. p[2] \in GoneOf(files[p[1]], lineage[p[1]], owed[p[1]]) \/ p[2] \in S
    BY <1>1, <1>3
  <2> QED BY <1>1, <1>2, <1>3, <2>1 DEF Gone
<1>4. CASE p[1] # m
  BY <1>1, <1>2, <1>4 DEF Gone
<1> QED BY <1>3, <1>4

\* What the proofs about lineage use of the types.
LEMMA LineageHere ==
    ASSUME Inv, FewGone, NEW m \in Lists
    PROVE  \E f \in Seq(File), log \in Seq(PieceOf) :
              /\ f = files[m] /\ log = lineage[m]
              /\ files = [files EXCEPT ![m] = f] /\ lineage = [lineage EXCEPT ![m] = log]
              /\ owed = [owed EXCEPT ![m] = owed[m]]
              /\ owed[m] \in Nat /\ next[m] \in Num
              /\ Writing(m) => /\ Len(f) > 0 /\ f[Len(f)].state = "open"
                               /\ f[Len(f)] \in File /\ f[Len(f)].rows \in Seq(Num)
<1>1. /\ files \in [Lists -> Seq(File)] /\ lineage \in [Lists -> Seq(PieceOf)]
      /\ owed \in [Lists -> Nat] /\ next \in [Lists -> Num]
  BY DEF Inv, Types, TypeOK, FewGone
<1>2. PICK f \in Seq(File) : f = files[m]
  BY <1>1
<1>3. PICK log \in Seq(PieceOf) : log = lineage[m]
  BY <1>1
<1>4. ASSUME Writing(m)
      PROVE  /\ Len(f) > 0 /\ f[Len(f)].state = "open"
             /\ f[Len(f)] \in File /\ f[Len(f)].rows \in Seq(Num)
  <2>1. Len(f) \in Nat /\ Len(f) # 0 /\ f[Len(f)].state = "open"
    BY <1>2, <1>4, EmptySeq, LenProperties DEF Writing, Last
  <2>2. f[Len(f)] \in File
    BY <2>1, LenProperties
  <2> QED BY <2>1, <2>2 DEF File
<1>5. /\ files = [files EXCEPT ![m] = f] /\ lineage = [lineage EXCEPT ![m] = log]
      /\ owed = [owed EXCEPT ![m] = owed[m]]
      /\ owed[m] \in Nat /\ next[m] \in Num
  BY <1>1, <1>2, <1>3
<1> QED BY <1>2, <1>3, <1>4, <1>5

\* A step on list m that adds nothing there.
LEMMA NothingGone ==
    ASSUME Inv, FewGone, NEW m \in Lists,
           NEW g \in Seq(File), NEW log \in Seq(PieceOf), NEW o \in Nat,
           files' = [files EXCEPT ![m] = g],
           lineage' = [lineage EXCEPT ![m] = log],
           owed' = [owed EXCEPT ![m] = o],
           faults' = faults,
           DoneOf(files[m]) \subseteq DoneOf(g),
           GoneOf(g, log, o) \subseteq GoneOf(files[m], lineage[m], owed[m])
    PROVE  /\ FewGone'
           /\ \A l \in Lists : DoneOf(files[l]) \subseteq DoneOf(files'[l])
<1>1. /\ files \in [Lists -> Seq(File)] /\ lineage \in [Lists -> Seq(PieceOf)]
      /\ owed \in [Lists -> Nat]
  BY DEF Inv, Types, TypeOK, FewGone
<1>2. /\ files'[m] = g /\ lineage'[m] = log /\ owed'[m] = o
      /\ \A l \in Lists : l # m =>
           files'[l] = files[l] /\ lineage'[l] = lineage[l] /\ owed'[l] = owed[l]
  BY <1>1
<1>n. PICK none : none = {}
  OBVIOUS
<1>3. GoneOf(files'[m], lineage'[m], owed'[m]) \subseteq
        GoneOf(files[m], lineage[m], owed[m]) \cup none
  BY <1>2
<1>4. \A p \in Gone' : p \in Gone \/ (p[2] \in none /\ p = <<m, p[2]>>)
  BY <1>2, <1>3, GoneOne
<1>5. Gone' \subseteq Gone
  BY <1>n, <1>4
<1>6. IsFiniteSet(Gone') /\ Cardinality(Gone') <= Cardinality(Gone)
      /\ Cardinality(Gone') \in Nat /\ Cardinality(Gone) \in Nat
  BY <1>5, CardLess DEF FewGone
<1>7. lineage' \in [Lists -> Seq(PieceOf)]
  BY <1>1
<1>8. Cardinality(Gone') <= 2 * faults'
  <2>1. faults \in Nat
    BY ParserAssumption DEF Inv, Types, TypeOK
  <2> QED BY <1>6, <2>1 DEF FewGone
<1>9. \A l \in Lists : DoneOf(files[l]) \subseteq DoneOf(files'[l])
  BY <1>2
<1> QED BY <1>6, <1>7, <1>8, <1>9 DEF FewGone

LEMMA GoneStore ==
    ASSUME Inv, FewGone, NEW m \in Lists, Store(m)
    PROVE  /\ FewGone'
           /\ \A l \in Lists : DoneOf(files[l]) \subseteq DoneOf(files'[l])
<1>1. PICK f \in Seq(File), log \in Seq(PieceOf) :
         /\ f = files[m] /\ log = lineage[m]
         /\ files = [files EXCEPT ![m] = f] /\ lineage = [lineage EXCEPT ![m] = log]
         /\ owed = [owed EXCEPT ![m] = owed[m]]
         /\ owed[m] \in Nat /\ next[m] \in Num
         /\ Writing(m) => /\ Len(f) > 0 /\ f[Len(f)].state = "open"
                          /\ f[Len(f)] \in File /\ f[Len(f)].rows \in Seq(Num)
  BY LineageHere
<1>2. /\ owed[m] = 0 /\ owed' = [owed EXCEPT ![m] = next[m]]
      /\ lineage' = [lineage EXCEPT ![m] = log] /\ faults' = faults
  BY <1>1 DEF Store
<1>3. PICK n \in Num : n = next[m] /\ n \in Nat
  BY <1>1 DEF Num
<1>4. \E g \in Seq(File) :
         /\ files' = [files EXCEPT ![m] = g]
         /\ KeptOf(g) \subseteq KeptOf(f) \cup {n}
         /\ DoneOf(f) \subseteq DoneOf(g)
  <2>1. Range(<<n>>) = {n} /\ <<n>> \in Seq(Num)
    BY DEF Range
  <2>2. CASE Writing(m)
    <3>1. PICK r \in Seq(Num) : r = f[Len(f)].rows
      BY <1>1, <2>2
    <3>a. PICK z : z = <<n>>
      OBVIOUS
    <3>b. Append(r, n) = r \o z /\ z \in Seq(Num) /\ Range(z) = {n}
      BY <2>1, <3>a, AppendIsConcat
    <3>c. r \o z \in Seq(Num) /\ Range(r \o z) = Range(r) \cup Range(z)
      BY <3>b, RangeConcatenation, ConcatProperties, SMTT(60)
    <3> DEFINE h == [f[Len(f)] EXCEPT !.rows = Append(@, n)]
               g == [f EXCEPT ![Len(f)] = h]
    <3>2. h.rows = r \o z /\ h \in File
      BY <1>1, <2>2, <3>1, <3>b, <3>c DEF File
    <3>3. Range(h.rows) = Range(f[Len(f)].rows) \cup {n}
      <4> HIDE DEF h
      <4> QED BY <3>1, <3>2, <3>b, <3>c
    <3>4. files' = [files EXCEPT ![m] = g]
      BY <1>1, <1>3, <2>2 DEF Store
    <3> HIDE DEF h
    <3>5. g \in Seq(File)
      BY <1>1, <2>2, <3>2, LastFile
    <3>6. KeptOf(g) \subseteq KeptOf(f) \cup {n} /\ DoneOf(f) \subseteq DoneOf(g)
      <4> HIDE DEF g
      <4>1. g = [f EXCEPT ![Len(f)] = h]
        BY DEF g
      <4>2. Len(f) > 0 /\ f[Len(f)].state = "open"
        BY <1>1, <2>2
      <4>3. h \in File
        BY <3>2
      <4>4. PICK S : S = {n}
        OBVIOUS
      <4>5. Range(h.rows) = Range(f[Len(f)].rows) \cup S
        BY <3>3, <4>4
      <4>6. KeptOf(g) \subseteq KeptOf(f) \cup S /\ DoneOf(f) \subseteq DoneOf(g)
        BY <4>1, <4>2, <4>3, <4>5, KeptLast, ZenonT(20)
      <4> QED BY <4>4, <4>6
    <3> HIDE DEF g
    <3> QED BY <3>4, <3>5, <3>6
  <2>3. CASE ~Writing(m)
    <3> DEFINE h == [rows |-> <<n>>, state |-> "open"]
               g == Append(f, h)
    <3>1. h \in File /\ Range(h.rows) = {n}
      BY <2>1 DEF File
    <3>2. files' = [files EXCEPT ![m] = g]
      BY <1>1, <1>3, <2>3 DEF Store
    <3> HIDE DEF h
    <3>3. g \in Seq(File)
      BY <3>1, NewFile
    <3>4. KeptOf(g) \subseteq KeptOf(f) \cup {n} /\ DoneOf(f) \subseteq DoneOf(g)
      BY <3>1, KeptNew
    <3> HIDE DEF g
    <3> QED BY <3>2, <3>3, <3>4
  <2> QED BY <2>2, <2>3
<1>5. PICK g \in Seq(File) :
         /\ files' = [files EXCEPT ![m] = g]
         /\ KeptOf(g) \subseteq KeptOf(f) \cup {n}
         /\ DoneOf(f) \subseteq DoneOf(g)
  BY <1>4
<1>6. GoneOf(g, log, n) \subseteq GoneOf(f, log, 0)
  <2>1. \A i \in KeptOf(g) : i # n => i \in KeptOf(f) /\ i # 0
    BY <1>5 DEF KeptOf, Num, Unreadable
  <2> QED BY <2>1 DEF GoneOf
<1> QED BY <1>1, <1>2, <1>3, <1>5, <1>6, NothingGone

LEMMA GoneFinish ==
    ASSUME Inv, FewGone, NEW m \in Lists, Finish(m)
    PROVE  /\ FewGone'
           /\ \A l \in Lists : DoneOf(files[l]) \subseteq DoneOf(files'[l])
<1>1. PICK f \in Seq(File), log \in Seq(PieceOf) :
         /\ f = files[m] /\ log = lineage[m]
         /\ files = [files EXCEPT ![m] = f] /\ lineage = [lineage EXCEPT ![m] = log]
         /\ owed = [owed EXCEPT ![m] = owed[m]]
         /\ owed[m] \in Nat /\ next[m] \in Num
         /\ Writing(m) => /\ Len(f) > 0 /\ f[Len(f)].state = "open"
                          /\ f[Len(f)] \in File /\ f[Len(f)].rows \in Seq(Num)
  BY LineageHere
<1>2. /\ Writing(m) /\ owed' = [owed EXCEPT ![m] = owed[m]]
      /\ lineage' = [lineage EXCEPT ![m] = log] /\ faults' = faults
  BY <1>1 DEF Finish
<1> DEFINE h == [f[Len(f)] EXCEPT !.state = "done"]
           g == [f EXCEPT ![Len(f)] = h]
<1>3. files' = [files EXCEPT ![m] = g]
  <2>1. files \in [Lists -> Seq(File)]
    BY DEF Inv, Types
  <2> QED BY <1>1, <2>1 DEF Finish
<1>4. h \in File /\ h.rows = f[Len(f)].rows
  BY <1>1, <1>2 DEF File
<1>n. PICK none : none = {}
  OBVIOUS
<1>5. Range(h.rows) = Range(f[Len(f)].rows) \cup none
  BY <1>4, <1>n
<1> HIDE DEF h
<1>6. g \in Seq(File)
  BY <1>1, <1>2, <1>4, LastFile
<1>7. g = [f EXCEPT ![Len(f)] = h]
  OBVIOUS
<1> HIDE DEF g
<1>8. KeptOf(g) \subseteq KeptOf(f) \cup none /\ DoneOf(f) \subseteq DoneOf(g)
  <2>1. Len(f) > 0 /\ f[Len(f)].state = "open"
    BY <1>1, <1>2
  <2>2. h \in File
    BY <1>4
  <2> QED BY <1>5, <1>7, <2>1, <2>2, KeptLast, ZenonT(20)
<1>9. GoneOf(g, log, owed[m]) \subseteq GoneOf(f, log, owed[m])
  BY <1>n, <1>8 DEF GoneOf
<1> QED BY <1>1, <1>2, <1>3, <1>6, <1>8, <1>9, NothingGone

LEMMA GoneRemoved ==
    ASSUME Inv, FewGone, NEW m \in Lists, RemoveDead(m)
    PROVE  /\ FewGone'
           /\ \A l \in Lists : DoneOf(files[l]) \subseteq DoneOf(files'[l])
<1>1. PICK f \in Seq(File), log \in Seq(PieceOf) :
         /\ f = files[m] /\ log = lineage[m]
         /\ files = [files EXCEPT ![m] = f] /\ lineage = [lineage EXCEPT ![m] = log]
         /\ owed = [owed EXCEPT ![m] = owed[m]]
         /\ owed[m] \in Nat
  BY LineageHere
<1>2. PICK k \in DOMAIN files[m] :
         files[m][k].state = "dead" /\ files' = [files EXCEPT ![m][k] = NoFile]
  BY DEF RemoveDead
<1>3. /\ owed' = [owed EXCEPT ![m] = owed[m]]
      /\ lineage' = [lineage EXCEPT ![m] = log] /\ faults' = faults
  BY <1>1 DEF RemoveDead
<1>4. k \in 1 .. Len(f) /\ f[k].state = "dead"
  BY <1>1, <1>2, LenProperties
<1>5. PICK g : g = [f EXCEPT ![k] = NoFile]
  OBVIOUS
<1>6. /\ g \in Seq(File)
      /\ KeptOf(g) \subseteq KeptOf(f) /\ DoneOf(f) \subseteq DoneOf(g)
  BY <1>4, <1>5, KeptRemoved
<1>7. files' = [files EXCEPT ![m] = g]
  <2>1. files \in [Lists -> Seq(File)]
    BY DEF Inv, Types
  <2> QED BY <1>1, <1>2, <1>5, <2>1
<1>8. GoneOf(g, log, owed[m]) \subseteq GoneOf(f, log, owed[m])
  BY <1>6 DEF GoneOf
<1> QED BY <1>1, <1>3, <1>6, <1>7, <1>8, NothingGone

LEMMA Pieces ==
    ASSUME NEW k \in {"record", "cut", "torn"}, NEW i \in Nat
    PROVE  \E p \in PieceOf : p = Piece(k, i) /\ p.kind = k /\ p.id = i /\ p.kind # "sep"
<1>1. /\ Piece(k, i) \in PieceOf
      /\ Piece(k, i).kind = k /\ Piece(k, i).id = i /\ k # "sep"
  BY DEF Piece, PieceOf
<1> QED BY <1>1

\* A record of the lineage file; one behind a torn record is lost with it.
LEMMA GoneRecord ==
    ASSUME Inv, FewGone, NEW m \in Lists, RecordLineage(m)
    PROVE  /\ FewGone'
           /\ \A l \in Lists : DoneOf(files[l]) \subseteq DoneOf(files'[l])
<1>1. PICK f \in Seq(File), log \in Seq(PieceOf) :
         /\ f = files[m] /\ log = lineage[m]
         /\ files = [files EXCEPT ![m] = f] /\ lineage = [lineage EXCEPT ![m] = log]
         /\ owed = [owed EXCEPT ![m] = owed[m]]
         /\ owed[m] \in Nat
  BY LineageHere
<1>2. PICK o \in Nat : o = owed[m] /\ o # 0
  BY <1>1 DEF RecordLineage
<1>3. /\ lineage' = Appended(m, <<Piece("record", o)>>) /\ owed' = [owed EXCEPT ![m] = 0]
      /\ files' = files /\ faults' = faults
  BY <1>2 DEF RecordLineage
<1>4. PICK p \in PieceOf : p = Piece("record", o) /\ p.kind = "record" /\ p.id = o /\ p.kind # "sep"
  BY Pieces
<1>t. lineage \in [Lists -> Seq(PieceOf)] /\ files \in [Lists -> Seq(File)]
      /\ owed \in [Lists -> Nat]
  BY DEF FewGone, Inv, Types, TypeOK
<1>5. PICK g \in Seq(PieceOf) :
         /\ Appended(m, <<p>>) = [lineage EXCEPT ![m] = g]
         /\ Torn(g) <=> p.kind = "torn"
         /\ RecordsOf(g) = RecordsOf(lineage[m]) \cup
              (IF p.kind = "record" /\ ~Torn(lineage[m]) THEN {p.id} ELSE {})
  BY <1>4, <1>t, AppendsPiece
<1>6. /\ lineage' = [lineage EXCEPT ![m] = g] /\ ~Torn(g)
      /\ RecordsOf(g) = RecordsOf(log) \cup (IF Torn(log) THEN {} ELSE {o})
  BY <1>1, <1>3, <1>4, <1>5
<1>7. files' = [files EXCEPT ![m] = f] /\ DoneOf(files[m]) \subseteq DoneOf(f)
  BY <1>1, <1>3
<1>8. CASE ~Torn(log)
  <2>1. GoneOf(f, g, 0) \subseteq GoneOf(f, log, o)
    BY <1>6, <1>8 DEF GoneOf
  <2>2. GoneOf(f, g, 0) \subseteq GoneOf(files[m], lineage[m], owed[m])
    BY <1>1, <1>2, <2>1
  <2> QED BY <1>3, <1>6, <1>7, <2>2, NothingGone
<1>9. CASE Torn(log)
  <2>1. PICK S : S = {o}
    OBVIOUS
  <2>2. GoneOf(f, g, 0) \subseteq GoneOf(f, log, o) \cup S
    BY <1>6, <1>9, <2>1 DEF GoneOf
  <2>3. 0 \notin GoneOf(f, g, 0)
    BY <1>6 DEF GoneOf, KeptOf, Num
  <2>4. 0 \in GoneOf(f, log, o)
    BY <1>9 DEF GoneOf
  <2>5. /\ files'[m] = f /\ lineage'[m] = g /\ owed'[m] = 0
        /\ \A l \in Lists : l # m =>
             files'[l] = files[l] /\ lineage'[l] = lineage[l] /\ owed'[l] = owed[l]
    BY <1>1, <1>3, <1>6, <1>t
  <2>6. GoneOf(files'[m], lineage'[m], owed'[m]) \subseteq
          GoneOf(files[m], lineage[m], owed[m]) \cup S
    BY <1>1, <1>2, <2>2, <2>5
  <2>7. \A q \in Gone' : q \in Gone \/ (q[2] \in S /\ q = <<m, q[2]>>)
    BY <2>5, <2>6, GoneOne
  <2>8. <<m, 0>> \in Gone
    BY <1>1, <1>2, <2>4 DEF Gone
  <2>9. <<m, 0>> \notin Gone'
    BY <2>3, <2>5 DEF Gone
  <2>10. PICK x \in Gone : x = <<m, 0>>
    BY <2>8
  <2>11. PICK y : y = <<m, o>>
    OBVIOUS
  <2>12. Gone' \subseteq (Gone \ {x}) \cup {y}
    BY <2>1, <2>7, <2>9, <2>10, <2>11
  <2>13. /\ IsFiniteSet(Gone') /\ Cardinality(Gone') <= Cardinality(Gone)
         /\ Cardinality(Gone') \in Nat /\ Cardinality(Gone) \in Nat
    <3>1. IsFiniteSet(Gone)
      BY DEF FewGone
    <3> QED BY <2>12, <3>1, CardSwap
  <2>14. lineage' \in [Lists -> Seq(PieceOf)]
    BY <1>6, <1>t
  <2>15. Cardinality(Gone') <= 2 * faults'
    <3>1. faults \in Nat
      BY ParserAssumption DEF Inv, Types, TypeOK
    <3> QED BY <1>3, <2>13, <3>1 DEF FewGone
  <2>16. \A l \in Lists : DoneOf(files[l]) \subseteq DoneOf(files'[l])
    BY <1>3
  <2> QED BY <2>13, <2>14, <2>15, <2>16 DEF FewGone
<1> QED BY <1>8, <1>9

\* A kill: at most the record being written and the one after it are lost.
LEMMA GoneKilled ==
    ASSUME Inv, FewGone, NEW m \in Lists, ArchiverKilled(m)
    PROVE  /\ FewGone'
           /\ \A l \in Lists : DoneOf(files[l]) \subseteq DoneOf(files'[l])
<1>1. PICK f \in Seq(File), log \in Seq(PieceOf) :
         /\ f = files[m] /\ log = lineage[m]
         /\ files = [files EXCEPT ![m] = f] /\ lineage = [lineage EXCEPT ![m] = log]
         /\ owed = [owed EXCEPT ![m] = owed[m]]
         /\ owed[m] \in Nat /\ next[m] \in Num
         /\ Writing(m) => /\ Len(f) > 0 /\ f[Len(f)].state = "open"
                          /\ f[Len(f)] \in File /\ f[Len(f)].rows \in Seq(Num)
  BY LineageHere
<1>t. lineage \in [Lists -> Seq(PieceOf)] /\ files \in [Lists -> Seq(File)]
      /\ owed \in [Lists -> Nat]
  BY DEF FewGone, Inv, Types, TypeOK
<1>2. owed' = [owed EXCEPT ![m] = 0] /\ faults' = faults + 1 /\ faults \in Nat
  BY ParserAssumption DEF ArchiverKilled, Fault, Inv, Types, TypeOK
<1>3. PICK g \in Seq(File) :
         /\ files' = [files EXCEPT ![m] = g]
         /\ KeptOf(g) \subseteq KeptOf(f)
         /\ DoneOf(f) \subseteq DoneOf(g)
  <2>1. CASE ~Writing(m)
    <3>1. files' = files
      BY <2>1 DEF ArchiverKilled
    <3> QED BY <1>1, <3>1
  <2>2. CASE Writing(m)
    <3> DEFINE h == [f[Len(f)] EXCEPT !.state = "dead"]
               g == [f EXCEPT ![Len(f)] = h]
    <3>1. files' = [files EXCEPT ![m] = g]
      BY <1>1, <1>t, <2>2 DEF ArchiverKilled
    <3>2. h \in File /\ h.rows = f[Len(f)].rows
      BY <1>1, <2>2 DEF File
    <3>n. PICK none : none = {}
      OBVIOUS
    <3>3. Range(h.rows) = Range(f[Len(f)].rows) \cup none
      BY <3>2, <3>n
    <3> HIDE DEF h
    <3>4. g \in Seq(File)
      BY <1>1, <2>2, <3>2, LastFile
    <3>5. g = [f EXCEPT ![Len(f)] = h]
      OBVIOUS
    <3> HIDE DEF g
    <3>6. KeptOf(g) \subseteq KeptOf(f) \cup none /\ DoneOf(f) \subseteq DoneOf(g)
      <4>1. Len(f) > 0 /\ f[Len(f)].state = "open"
        BY <1>1, <2>2
      <4>2. h \in File
        BY <3>2
      <4> QED BY <3>3, <3>5, <4>1, <4>2, KeptLast, ZenonT(20)
    <3> QED BY <3>1, <3>4, <3>6, <3>n
  <2> QED BY <2>1, <2>2
<1>4. PICK s \in Seq(PieceOf) :
         /\ lineage' = [lineage EXCEPT ![m] = s]
         /\ RecordsOf(log) \subseteq RecordsOf(s)
  <2>1. CASE lineage' = lineage
    BY <1>1, <2>1
  <2>2. CASE lineage' = Appended(m, <<>>)
    <3>1. PICK s \in Seq(PieceOf) :
             /\ Appended(m, <<>>) = [lineage EXCEPT ![m] = s]
             /\ ~Torn(s)
             /\ RecordsOf(s) = RecordsOf(lineage[m])
      BY <1>t, AppendsNothing
    <3> QED BY <1>1, <2>2, <3>1
  <2>3. ASSUME NEW kind \in {"cut", "torn"}, lineage' = Appended(m, <<Piece(kind, 0)>>)
        PROVE  \E s \in Seq(PieceOf) : /\ lineage' = [lineage EXCEPT ![m] = s]
                                       /\ RecordsOf(log) \subseteq RecordsOf(s)
    <3>1. PICK p \in PieceOf : p = Piece(kind, 0) /\ p.kind = kind /\ p.id = 0 /\ p.kind # "sep"
      BY Pieces
    <3>2. p.kind # "sep"
      BY <3>1
    <3>3. PICK s \in Seq(PieceOf) :
             /\ Appended(m, <<p>>) = [lineage EXCEPT ![m] = s]
             /\ Torn(s) <=> p.kind = "torn"
             /\ RecordsOf(s) = RecordsOf(lineage[m]) \cup
                  (IF p.kind = "record" /\ ~Torn(lineage[m]) THEN {p.id} ELSE {})
      BY <1>t, <3>2, AppendsPiece
    <3> QED BY <1>1, <2>3, <3>1, <3>3
  <2>4. \/ lineage' = lineage
        \/ lineage' = Appended(m, <<>>)
        \/ \E kind \in {"cut", "torn"} : lineage' = Appended(m, <<Piece(kind, 0)>>)
    BY DEF ArchiverKilled
  <2> QED BY <2>1, <2>2, <2>3, <2>4
<1>5. PICK S : S = {owed[m], 0}
  OBVIOUS
<1>6. GoneOf(g, s, 0) \subseteq GoneOf(f, log, owed[m]) \cup S
  BY <1>3, <1>4, <1>5 DEF GoneOf
<1>7. /\ files'[m] = g /\ lineage'[m] = s /\ owed'[m] = 0
      /\ \A l \in Lists : l # m =>
           files'[l] = files[l] /\ lineage'[l] = lineage[l] /\ owed'[l] = owed[l]
  BY <1>2, <1>3, <1>4, <1>t
<1>8. GoneOf(files'[m], lineage'[m], owed'[m]) \subseteq
        GoneOf(files[m], lineage[m], owed[m]) \cup S
  BY <1>1, <1>6, <1>7
<1>9. \A q \in Gone' : q \in Gone \/ (q[2] \in S /\ q = <<m, q[2]>>)
  BY <1>7, <1>8, GoneOne
<1>10. PICK x, y : x = <<m, owed[m]>> /\ y = <<m, 0>>
  OBVIOUS
<1>11. Gone' \subseteq Gone \cup {x, y}
  BY <1>5, <1>9, <1>10
<1>12. /\ IsFiniteSet(Gone') /\ Cardinality(Gone') <= Cardinality(Gone) + 2
       /\ Cardinality(Gone') \in Nat /\ Cardinality(Gone) \in Nat
  <2>1. IsFiniteSet(Gone)
    BY DEF FewGone
  <2> QED BY <1>11, <2>1, CardTwo
<1>13. Cardinality(Gone') <= 2 * faults'
  BY <1>2, <1>12 DEF FewGone
<1>14. lineage' \in [Lists -> Seq(PieceOf)]
  BY <1>4, <1>t
<1>15. \A l \in Lists : DoneOf(files[l]) \subseteq DoneOf(files'[l])
  BY <1>1, <1>3, <1>t
<1> QED BY <1>12, <1>13, <1>14, <1>15 DEF FewGone

-----------------------------------------------------------------------------
\* A function's values are no more than its arguments.
LEMMA CardValues ==
    ASSUME NEW S, IsFiniteSet(S), NEW f, DOMAIN f = S, NEW T,
           \A y \in T : \E x \in S : y = f[x], \A x \in S : f[x] \in T
    PROVE  IsFiniteSet(T) /\ Cardinality(T) <= Cardinality(S)
<1>1. PICK g \in [S -> T] : \A x \in S : g[x] = f[x]
  <2> DEFINE g == [x \in S |-> f[x]]
  <2>1. g \in [S -> T] /\ \A x \in S : g[x] = f[x]
    OBVIOUS
  <2> QED BY <2>1
<1>2. g \in Surjection(S, T)
  BY <1>1 DEF Surjection
<1> QED BY <1>2, FS_Surjection

\* What the writers at work on the lists still owe.
LEMMA Owing ==
    ASSUME Inv
    PROVE  \E S : /\ S = {<<l, owed[l]>> : l \in Lists}
                  /\ IsFiniteSet(S) /\ Cardinality(S) <= Cardinality(Lists)
                  /\ Cardinality(S) \in Nat /\ Cardinality(Lists) \in Nat
<1>1. PICK S : S = {<<l, owed[l]>> : l \in Lists}
  OBVIOUS
<1>2. PICK f : f = [l \in Lists |-> <<l, owed[l]>>]
  OBVIOUS
<1>3. /\ DOMAIN f = Lists /\ \A y \in S : \E x \in Lists : y = f[x]
      /\ \A x \in Lists : f[x] \in S
  BY <1>1, <1>2
<1>4. IsFiniteSet(S) /\ Cardinality(S) <= Cardinality(Lists)
  BY <1>3, ListsAssumption, CardValues
<1>5. Cardinality(S) \in Nat /\ Cardinality(Lists) \in Nat
  BY <1>4, ListsAssumption, FS_CardinalityType
<1> QED BY <1>1, <1>4, <1>5

\* The good e-mails of a batch are e-mails of the batch.
LEMMA GoodRows ==
    ASSUME NEW l, NEW rows \in Seq(Num)
    PROVE  Range(Good(l, rows)) \subseteq Range(rows)
<1> DEFINE T == {n \in Nat : \A s \in Seq(Num) :
                    Len(s) = n => Range(Good(l, s)) \subseteq Range(s)}
<1>1. 0 \in T
  <2>1. ASSUME NEW s \in Seq(Num), Len(s) = 0 PROVE Range(Good(l, s)) \subseteq Range(s)
    <3>1. s = <<>>
      BY <2>1, EmptySeq
    <3>2. Good(l, s) = s
      BY <3>1, SieveConcat
    <3> QED BY <3>2
  <2> QED BY <2>1
<1>2. ASSUME NEW n \in Nat, n \in T PROVE n + 1 \in T
  <2>1. ASSUME NEW s \in Seq(Num), Len(s) = n + 1
        PROVE  Range(Good(l, s)) \subseteq Range(s)
    <3>1. PICK t \in Seq(Num), i \in Num : s = Append(t, i)
      <4>1. s # <<>>
        BY <2>1
      <4> QED BY <4>1, SequenceEmptyOrAppend
    <3>2. s = t \o <<i>> /\ Len(t) = n /\ <<i>> \in Seq(Num)
      <4>1. Len(Append(t, i)) = Len(t) + 1 /\ Len(t) \in Nat
        BY AppendProperties, LenProperties
      <4> QED BY <2>1, <3>1, <4>1, AppendIsConcat
    <3>3. PICK u \in Seq(Num) : u = <<i>>
      BY <3>2
    <3>4. /\ Good(l, t \o u) = Good(l, t) \o Good(l, u)
          /\ Good(l, t) \in Seq(Nat)
      BY SieveConcat
    <3>5. Good(l, u) \in Seq(Nat)
      BY SieveConcat
    <3>6. Range(Good(l, u)) \subseteq Range(u)
      <4>1. Good(l, u) = <<>> \/ Good(l, u) = u
        <5>1. /\ <<l, i>> \in Bad => Good(l, <<i>>) = <<>>
              /\ <<l, i>> \notin Bad => Good(l, <<i>>) = <<i>>
          BY SieveConcat
        <5> QED BY <3>3, <5>1
      <4>2. Range(<<>>) = {}
        BY DEF Range
      <4> QED BY <4>1, <4>2
    <3>7. Range(Good(l, t)) \subseteq Range(t)
      BY <1>2, <3>2
    <3>8. /\ Range(Good(l, t) \o Good(l, u)) = Range(Good(l, t)) \cup Range(Good(l, u))
          /\ Range(t \o u) = Range(t) \cup Range(u)
      BY <3>4, <3>5, RangeConcatenation
    <3> QED BY <3>2, <3>3, <3>4, <3>6, <3>7, <3>8
  <2> QED BY <2>1
<1>3. Nat \subseteq T
  <2> HIDE DEF T
  <2> QED BY <1>1, <1>2, SetInduction
<1>4. Len(rows) \in T
  <2> HIDE DEF T
  <2> QED BY <1>3, LenProperties
<1> QED BY <1>4

\* The rows of finished files are e-mails that are done.
LEMMA RowsDone ==
    ASSUME NEW f \in Seq(File), NEW n \in 0 .. Len(f)
    PROVE  Rows(f, n) \in Seq(Num) /\ Range(Rows(f, n)) \subseteq DoneOf(f)
<1> DEFINE T == {k \in Nat : k <= Len(f) =>
                    Rows(f, k) \in Seq(Num) /\ Range(Rows(f, k)) \subseteq DoneOf(f)}
<1>0. Len(f) \in Nat /\ DOMAIN f = 1 .. Len(f)
  BY LenProperties
<1>1. 0 \in T
  <2>1. 0 \in 0 .. Len(f)
    BY <1>0
  <2>2. Rows(f, 0) = <<>>
    <3>1. SubSeq(f, 1, 0) = <<>>
      BY <2>1, FirstFiles
    <3>2. RowsOf(<<>>) = <<>>
      BY RowsOfConcat
    <3> QED BY <3>1, <3>2 DEF Rows
  <2>3. <<>> \in Seq(Num) /\ Range(<<>>) = {}
    BY DEF Range
  <2> QED BY <2>2, <2>3
<1>2. ASSUME NEW k \in Nat, k \in T PROVE k + 1 \in T
  <2>1. ASSUME k + 1 <= Len(f)
        PROVE  Rows(f, k + 1) \in Seq(Num) /\ Range(Rows(f, k + 1)) \subseteq DoneOf(f)
    <3>1. k + 1 \in 1 .. Len(f) /\ k \in 0 .. Len(f) /\ k + 1 \in 0 .. Len(f)
      BY <1>0, <2>1
    <3>2. PICK x \in File : x = f[k + 1]
      BY <3>1, LenProperties
    <3>3. /\ SubSeq(f, 1, k) \in Seq(File)
          /\ SubSeq(f, 1, k + 1) = SubSeq(f, 1, k) \o <<x>>
      <4>1. SubSeq(f, 1, k) \in Seq(File)
        BY <3>1, FirstFiles
      <4>2. PICK c \in 0 .. Len(f) : c = k + 1 /\ c > 0 /\ c - 1 = k
        BY <1>2, <3>1
      <4>3. SubSeq(f, 1, c) = SubSeq(f, 1, c - 1) \o <<f[c]>>
        BY <4>2, FirstFiles
      <4> QED BY <3>2, <4>1, <4>2, <4>3
    <3>4. PICK a \in Seq(File), b \in Seq(File) : a = SubSeq(f, 1, k) /\ b = <<x>>
      <4>1. <<x>> \in Seq(File)
        OBVIOUS
      <4> QED BY <3>3, <4>1
    <3>5. /\ RowsOf(a) \in Seq(Num) /\ RowsOf(b) \in Seq(Num)
          /\ RowsOf(a \o b) = RowsOf(a) \o RowsOf(b)
      BY RowsOfConcat
    <3>6. RowsOf(b) = IF x.state = "done" THEN x.rows ELSE <<>>
      BY <3>4, RowsOfConcat
    <3>7. Range(RowsOf(b)) \subseteq DoneOf(f)
      <4>1. CASE x.state = "done"
        <5>1. x.rows \in Seq(Num)
          BY DEF File
        <5>2. Range(x.rows) \subseteq Num
          BY <5>1, LenProperties DEF Range
        <5>3. k + 1 \in DOMAIN f
          BY <1>0, <3>1
        <5> QED BY <3>2, <3>6, <4>1, <5>2, <5>3 DEF DoneOf
      <4>2. CASE x.state # "done"
        BY <3>6, <4>2 DEF Range
      <4> QED BY <4>1, <4>2
    <3>8. Range(RowsOf(a)) \subseteq DoneOf(f)
      BY <1>2, <3>1, <3>4 DEF Rows
    <3>9. Rows(f, k + 1) = RowsOf(a) \o RowsOf(b)
      BY <3>3, <3>4, <3>5 DEF Rows
    <3>10. /\ RowsOf(a) \o RowsOf(b) \in Seq(Num)
           /\ Range(RowsOf(a) \o RowsOf(b)) = Range(RowsOf(a)) \cup Range(RowsOf(b))
      BY <3>5, ConcatProperties, RangeConcatenation
    <3> QED BY <3>7, <3>8, <3>9, <3>10
  <2> QED BY <2>1
<1>3. Nat \subseteq T
  <2> HIDE DEF T
  <2> QED BY <1>1, <1>2, SetInduction
<1>4. n \in Nat /\ n <= Len(f) /\ n \in T
  <2> HIDE DEF T
  <2> QED BY <1>0, <1>3
<1> QED BY <1>4

\* Nothing that is missing is found again by more faults.
LEMMA StillFew ==
    ASSUME Inv, FewMissing, UNCHANGED <<dataset, provenance>>,
           faults' = faults \/ faults' = faults + 1,
           run' = "idle" /\ exit' = "ok" => run = "idle" /\ exit = "ok"
    PROVE  FewMissing'
<1>1. faults \in Nat
  BY ParserAssumption DEF Inv, Types, TypeOK
<1>2. Missing' = Missing
  BY DEF Missing, Parsed
<1>3. SUFFICES ASSUME run' = "idle", exit' = "ok"
               PROVE  /\ IsFiniteSet(Missing)
                      /\ Cardinality(Missing) <= 2 * faults' + Cardinality(Lists)
  BY <1>2 DEF FewMissing
<1>4. /\ IsFiniteSet(Missing) /\ Cardinality(Missing) <= 2 * faults + Cardinality(Lists)
  BY <1>3 DEF FewMissing
<1>5. Cardinality(Missing) \in Nat /\ Cardinality(Lists) \in Nat
  BY <1>4, ListsAssumption, FS_CardinalityType
<1> QED BY <1>1, <1>4, <1>5

\* A step of one of the two other programs.
LEMMA ProvSame ==
    ASSUME ProvInv, UNCHANGED archive,
           faults' = faults \/ faults' = faults + 1
    PROVE  FewGone' /\ (UNCHANGED dataset => Sourced')
<1>1. UNCHANGED <<files, lineage, owed>>
  BY DEF archive
<1>2. Gone' = Gone
  BY <1>1 DEF Gone
<1>3. faults \in Nat
  BY ParserAssumption DEF ProvInv, Inv, Types, TypeOK
<1>4. IsFiniteSet(Gone) /\ Cardinality(Gone) <= 2 * faults /\ Cardinality(Gone) \in Nat
  BY FS_CardinalityType DEF ProvInv, FewGone
<1>5. FewGone'
  <2>1. Cardinality(Gone) <= 2 * faults'
    BY <1>3, <1>4
  <2> QED BY <1>1, <1>2, <1>4, <2>1 DEF ProvInv, FewGone
<1>6. UNCHANGED dataset => Sourced'
  BY <1>1 DEF ProvInv, Sourced
<1> QED BY <1>5, <1>6

\* A batch is made of e-mails in finished files.
LEMMA BatchDone ==
    ASSUME Inv, NEW m \in Lists, task[m].phase \in {"batch", "flush"}
    PROVE  /\ task[m].batch \in Seq(Num)
           /\ Range(Good(m, task[m].batch)) \subseteq DoneOf(files[m])
<1>1. PICK h \in Seq(File), f \in Seq(File), t \in Task, d \in OutFiles, e \in Seq(Nat) :
         /\ h = files[m] /\ t = task[m] /\ d = dataset[m] /\ e = errors[m]
         /\ f = Seen(files[m], t.missed)
         /\ TaskOf(m, f, t, d, e, failOnError)
  BY Here
<1>2. /\ t.listed \in 0 .. Len(f) /\ StepsMatch(m, f, t, d, e, failOnError)
      /\ t.batch \in Seq(Num)
  BY <1>1, LenProperties DEF TaskOf, Walk, Task
<1>3. PICK b \in Seq(Num) : b = t.batch
  BY <1>2
<1>4. PICK j \in 0 .. t.listed, seen \in Seq(Num), rest \in Seq(Num) :
         Rows(f, j) = (seen \o b) \o rest
  BY <1>2, <1>3 DEF StepsMatch
<1>5. Range((seen \o b) \o rest) = (Range(seen) \cup Range(b)) \cup Range(rest)
  <2>1. seen \o b \in Seq(Num) /\ Range(seen \o b) = Range(seen) \cup Range(b)
    BY ConcatProperties, RangeConcatenation
  <2>2. PICK c \in Seq(Num) : c = seen \o b
    BY <2>1
  <2>3. Range(c \o rest) = Range(c) \cup Range(rest)
    BY RangeConcatenation
  <2> QED BY <2>1, <2>2, <2>3
<1>6. Range(Rows(f, j)) \subseteq DoneOf(f)
  <2>1. j \in 0 .. Len(f)
    BY <1>2, LenProperties
  <2> QED BY <2>1, RowsDone
<1>7. Range(Good(m, b)) \subseteq Range(b)
  BY GoodRows
<1>8. Range(Good(m, b)) \subseteq DoneOf(f)
  BY <1>4, <1>5, <1>6, <1>7
<1>9. DoneOf(f) \subseteq DoneOf(h)
  <2>1. /\ DOMAIN f = 1 .. Len(h) /\ DOMAIN h = 1 .. Len(h)
        /\ \A k \in 1 .. Len(h) : f[k] = IF k \in t.missed THEN NoFile ELSE h[k]
    BY <1>1, SeenFiles, LenProperties
  <2>2. Range(NoFile.rows) = {}
    BY DEF NoFile, Range
  <2>3. \A k \in DOMAIN f : f[k] = h[k] \/ Range(f[k].rows) = {}
    BY <2>1, <2>2
  <2> QED BY <2>1, <2>3 DEF DoneOf
<1> QED BY <1>1, <1>2, <1>3, <1>8, <1>9

\* What a task writes comes from finished files.
LEMMA SourcedStep ==
    ASSUME Inv, Sourced, UNCHANGED files, NEW m \in Lists, NEW d,
           dataset' = [dataset EXCEPT ![m] = d],
           Range(d.rows) \subseteq DoneOf(files[m])
    PROVE  Sourced'
<1>1. dataset \in [Lists -> OutFiles]
  BY TypesOf DEF Inv
<1> QED BY <1>1 DEF Sourced

LEMMA SourcedFlush ==
    ASSUME Inv, Sourced, NEW m \in Lists, FlushBatch(m)
    PROVE  Sourced'
<1>1. PICK d \in OutFiles : d = dataset[m]
  BY TypesOf DEF Inv
<1>2. task[m].phase = "flush" /\ UNCHANGED files
  BY DEF FlushBatch, archive
<1>3. PICK good \in Seq(Nat) : good = Good(m, task[m].batch)
  BY <1>2, BatchDone, SieveConcat
<1>4. Range(good) \subseteq DoneOf(files[m])
  BY <1>2, <1>3, BatchDone
<1>5. CASE good = <<>>
  <2>1. dataset' = dataset
    BY <1>3, <1>5 DEF FlushBatch
  <2> QED BY <1>2, <2>1 DEF Sourced
<1>6. CASE good # <<>>
  <2>1. PICK old \in Seq(Nat) :
           /\ old = IF task[m].opened THEN d.rows ELSE <<>>
           /\ Range(old) \subseteq DoneOf(files[m])
    <3>1. d.rows \in Seq(Nat) /\ <<>> \in Seq(Nat)
      BY DEF OutFiles
    <3>2. Range(d.rows) \subseteq DoneOf(files[m]) /\ Range(<<>>) = {}
      BY <1>1 DEF Sourced, Range
    <3> QED BY <3>1, <3>2
  <2>2. dataset' = [dataset EXCEPT ![m] = [Opened EXCEPT !.rows = old \o good]]
    BY <1>1, <1>3, <1>6, <2>1 DEF FlushBatch
  <2>3. Range(old \o good) = Range(old) \cup Range(good)
    BY RangeConcatenation
  <2>4. PICK new : new = [Opened EXCEPT !.rows = old \o good] /\ new.rows = old \o good
    <3>1. [Opened EXCEPT !.rows = old \o good].rows = old \o good
      BY DEF Opened
    <3> QED BY <3>1
  <2>5. Range(new.rows) \subseteq DoneOf(files[m])
    BY <1>4, <2>1, <2>3, <2>4
  <2>6. dataset' = [dataset EXCEPT ![m] = new]
    BY <2>2, <2>4
  <2> QED BY <1>2, <2>5, <2>6, SourcedStep
<1> QED BY <1>5, <1>6

LEMMA SourcedClose ==
    ASSUME Inv, Sourced, NEW m \in Lists, CloseDataset(m)
    PROVE  Sourced'
<1>1. PICK d \in OutFiles : d = dataset[m]
  BY TypesOf DEF Inv
<1>2. UNCHANGED files /\ dataset' = [dataset EXCEPT ![m] = [d EXCEPT !.state = "done"]]
  BY <1>1 DEF CloseDataset, archive
<1>3. PICK new : new = [d EXCEPT !.state = "done"] /\ new.rows = d.rows
  <2>1. [d EXCEPT !.state = "done"].rows = d.rows
    BY DEF OutFiles
  <2> QED BY <2>1
<1>4. Range(new.rows) \subseteq DoneOf(files[m])
  BY <1>1, <1>3 DEF Sourced
<1> QED BY <1>2, <1>3, <1>4, SourcedStep

LEMMA SourcedFails ==
    ASSUME Inv, Sourced, NEW m \in Lists, TaskFails(m)
    PROVE  Sourced'
<1>1. UNCHANGED files
  BY DEF TaskFails, archive
<1>2. CASE dataset' = dataset
  BY <1>1, <1>2 DEF Sourced
<1>3. CASE dataset' = [dataset EXCEPT ![m] = Opened]
  <2>1. Range(Opened.rows) \subseteq DoneOf(files[m])
    BY DEF Opened, Range
  <2> QED BY <1>1, <1>3, <2>1, SourcedStep
<1>4. dataset' = dataset \/ dataset' = [dataset EXCEPT ![m] = Opened]
  BY DEF TaskFails, outputs
<1> QED BY <1>2, <1>3, <1>4

-----------------------------------------------------------------------------
\* The archiver and the operator leave what the parser wrote.
LEMMA ProvArchives ==
    ASSUME ProvInv, NEW m \in Lists, Archives(m) \/ RemoveDead(m)
    PROVE  FewGone' /\ Sourced' /\ FewMissing'
<1>1. Inv /\ FewGone /\ Sourced /\ FewMissing
  BY DEF ProvInv
<1>2. /\ FewGone'
      /\ \A l \in Lists : DoneOf(files[l]) \subseteq DoneOf(files'[l])
  <2>1. CASE Store(m)
    BY <1>1, <2>1, GoneStore
  <2>2. CASE RecordLineage(m)
    BY <1>1, <2>2, GoneRecord
  <2>3. CASE Finish(m)
    BY <1>1, <2>3, GoneFinish
  <2>4. CASE ArchiverKilled(m)
    BY <1>1, <2>4, GoneKilled
  <2>5. CASE RemoveDead(m)
    BY <1>1, <2>5, GoneRemoved
  <2> QED BY <2>1, <2>2, <2>3, <2>4, <2>5 DEF Archives
<1>3. /\ UNCHANGED <<run, exit, dataset, provenance>>
      /\ faults' = faults \/ faults' = faults + 1
  BY DEF Archives, Store, RecordLineage, Finish, ArchiverKilled, RemoveDead, Fault, outputs
<1>4. Sourced'
  BY <1>1, <1>2, <1>3 DEF Sourced
<1>5. FewMissing'
  BY <1>1, <1>3, StillFew
<1> QED BY <1>2, <1>4, <1>5

\* lineage.parquet holds what the lineage files hold: what is missing then is
\* gone for good or still owed.
LEMMA ProvLineage ==
    ASSUME ProvInv, ParseLineage
    PROVE  FewMissing'
<1>1. /\ UNCHANGED <<files, lineage, owed, dataset>> /\ faults' = faults
      /\ provenance' = IF Readable = {} THEN provenance
                       ELSE [state |-> "done", records |-> Readable]
  BY DEF ParseLineage, archive
<1>2. /\ Sourced /\ IsFiniteSet(Gone) /\ Cardinality(Gone) <= 2 * faults
      /\ dataset \in [Lists -> OutFiles]
  BY TypesOf DEF ProvInv, FewGone, Inv
<1>3. PICK S : /\ S = {<<l, owed[l]>> : l \in Lists}
               /\ IsFiniteSet(S) /\ Cardinality(S) <= Cardinality(Lists)
               /\ Cardinality(S) \in Nat /\ Cardinality(Lists) \in Nat
  BY Owing DEF ProvInv
<1>4. Missing' \subseteq Parsed \ Readable
  <2>1. Missing' = Parsed \ provenance'.records
    BY <1>1 DEF Missing, Parsed
  <2>2. CASE Readable = {}
    BY <2>1, <2>2
  <2>3. CASE Readable # {}
    <3>1. provenance'.records = Readable
      BY <1>1, <2>3
    <3> QED BY <2>1, <3>1
  <2> QED BY <2>2, <2>3
<1>5. ASSUME NEW l \in Lists, NEW i \in Range(dataset[l].rows),
             i \notin RecordsOf(lineage[l])
      PROVE  <<l, i>> \in Gone \cup S
  <2>1. i \in DoneOf(files[l])
    BY <1>2 DEF Sourced
  <2>2. i \in KeptOf(files[l]) /\ i \in Nat
    BY <2>1 DEF DoneOf, KeptOf, Num
  <2>3. CASE i = owed[l]
    BY <1>3, <2>3
  <2>4. CASE i # owed[l]
    <3>1. i \in GoneOf(files[l], lineage[l], owed[l])
      BY <1>5, <2>2, <2>4 DEF GoneOf
    <3> QED BY <2>2, <3>1 DEF Gone
  <2> QED BY <2>3, <2>4
<1>6. ASSUME NEW p \in Parsed, p \notin Readable PROVE p \in Gone \cup S
  <2>1. PICK l \in Lists : p \in {l} \X Range(dataset[l].rows)
    BY DEF Parsed
  <2>2. PICK i \in Range(dataset[l].rows) : p = <<l, i>>
    BY <2>1
  <2>3. i \notin RecordsOf(lineage[l])
    BY <1>6, <2>2 DEF Readable
  <2> QED BY <1>5, <2>2, <2>3
<1>7. Missing' \subseteq Gone \cup S
  BY <1>4, <1>6
<1>8. /\ IsFiniteSet(Gone \cup S)
      /\ Cardinality(Gone \cup S) <= Cardinality(Gone) + Cardinality(S)
  <2>1. /\ IsFiniteSet(Gone \cup S)
        /\ Cardinality(Gone \cup S) =
             Cardinality(Gone) + Cardinality(S) - Cardinality(Gone \cap S)
    BY <1>2, <1>3, FS_Union
  <2>2. Cardinality(Gone \cap S) \in Nat /\ Cardinality(Gone) \in Nat
    <3>1. IsFiniteSet(Gone \cap S)
      BY <1>2, FS_Subset
    <3> QED BY <1>2, <3>1, FS_CardinalityType
  <2>3. \A a, b, c \in Nat : a + b - c <= a + b
    OBVIOUS
  <2> QED BY <1>3, <2>1, <2>2, <2>3
<1>9. /\ IsFiniteSet(Missing') /\ Cardinality(Missing') <= Cardinality(Gone \cup S)
      /\ Cardinality(Missing') \in Nat /\ Cardinality(Gone \cup S) \in Nat
  <2>1. PICK U : U = Gone \cup S
    OBVIOUS
  <2>2. IsFiniteSet(U) /\ Missing' \subseteq U
    BY <1>7, <1>8, <2>1
  <2>3. /\ IsFiniteSet(Missing') /\ Cardinality(Missing') <= Cardinality(U)
        /\ Cardinality(Missing') \in Nat /\ Cardinality(U) \in Nat
    BY <2>2, CardLess
  <2> QED BY <2>1, <2>3
<1>10. Cardinality(Missing') <= 2 * faults' + Cardinality(Lists)
  <2>1. faults \in Nat /\ Cardinality(Gone) \in Nat
    BY <1>2, ParserAssumption, FS_CardinalityType DEF ProvInv, Inv, Types, TypeOK
  <2> QED BY <1>1, <1>2, <1>3, <1>8, <1>9, <2>1
<1> QED BY <1>9, <1>10 DEF FewMissing

\* The parser's other steps, and those of the anonymizer.
LEMMA ProvParser ==
    ASSUME ProvInv,
           StartParser \/ JoinLists \/ ParseLineage \/ LineageFails \/ ParserKilled
    PROVE  FewGone' /\ Sourced' /\ FewMissing'
<1>1. /\ UNCHANGED <<archive, dataset>>
      /\ faults' = faults \/ faults' = faults + 1
  BY DEF StartParser, JoinLists, ParseLineage, LineageFails, ParserKilled, Fault, outputs
<1>2. FewGone' /\ Sourced'
  BY <1>1, ProvSame
<1>3. CASE ParseLineage
  BY <1>2, <1>3, ProvLineage
<1>4. CASE StartParser \/ LineageFails \/ ParserKilled
  BY <1>2, <1>4 DEF StartParser, LineageFails, ParserKilled, FewMissing
<1>5. CASE JoinLists
  BY <1>2, <1>5 DEF JoinLists, FewMissing
<1> QED BY <1>3, <1>4, <1>5

LEMMA ProvTask ==
    ASSUME ProvInv, NEW m \in Lists, ListStep(m) \/ TaskFails(m)
    PROVE  FewGone' /\ Sourced' /\ FewMissing'
<1>1. Inv /\ Sourced
  BY SMTT(60) DEF ProvInv
<1>2. task[m].phase \in Walk \cup {"spawned"}
  BY DEF ListStep, TaskFails, CollectFiles, TakeBatch, RecordErrors, FlushBatch,
         EndOfInput, CloseDataset, ReturnOk, Walk
<1>3. run = "lists"
  BY <1>1, <1>2 DEF Inv, ListInv, RunOf
<1>4. /\ UNCHANGED <<archive, run>>
      /\ faults' = faults \/ faults' = faults + 1
  BY DEF ListStep, TaskFails, CollectFiles, TakeBatch, RecordErrors, FlushBatch,
         EndOfInput, CloseDataset, ReturnOk, DropWriter, Fault
<1>5. FewMissing'
  BY <1>3, <1>4 DEF FewMissing
<1>6. CASE FlushBatch(m)
  BY <1>1, <1>4, <1>5, <1>6, ProvSame, SourcedFlush
<1>7. CASE CloseDataset(m)
  BY <1>1, <1>4, <1>5, <1>7, ProvSame, SourcedClose
<1>8. CASE TaskFails(m)
  BY <1>1, <1>4, <1>5, <1>8, ProvSame, SourcedFails
<1>9. CASE \/ CollectFiles(m) \/ TakeBatch(m) \/ RecordErrors(m)
           \/ EndOfInput(m) \/ ReturnOk(m)
  <2>1. UNCHANGED dataset
    BY <1>9 DEF CollectFiles, TakeBatch, RecordErrors, EndOfInput, ReturnOk, outputs
  <2> QED BY <1>4, <1>5, <2>1, ProvSame
<1> QED BY <1>6, <1>7, <1>8, <1>9 DEF ListStep

LEMMA ProvOthers ==
    ASSUME ProvInv, UNCHANGED <<archive, run, exit, outputs>>,
           faults' = faults \/ faults' = faults + 1
    PROVE  FewGone' /\ Sourced' /\ FewMissing'
<1>1. UNCHANGED <<dataset, provenance>>
  BY DEF outputs
<1>2. FewGone' /\ Sourced'
  BY <1>1, ProvSame
<1>3. FewMissing'
  BY <1>1, StillFew DEF ProvInv
<1> QED BY <1>2, <1>3

LEMMA ProvStep == ProvInv /\ [Next]_vars => ProvInv'
<1> SUFFICES ASSUME ProvInv, [Next]_vars PROVE FewGone' /\ Sourced' /\ FewMissing'
  BY InvStep DEF ProvInv
<1>1. CASE UNCHANGED vars
  BY <1>1, ProvOthers DEF vars, pvars
<1>2. CASE ParserNext /\ UNCHANGED avars
  <2>1. CASE StartParser \/ JoinLists \/ ParseLineage \/ LineageFails \/ ParserKilled
    BY <2>1, ProvParser
  <2>2. ASSUME NEW l \in Lists,
               Store(l) \/ RecordLineage(l) \/ Finish(l) \/ ArchiverKilled(l) \/ RemoveDead(l)
        PROVE  FewGone' /\ Sourced' /\ FewMissing'
    BY <2>2, ProvArchives DEF Archives
  <2>3. ASSUME NEW l \in Lists, ListStep(l) \/ TaskFails(l)
        PROVE  FewGone' /\ Sourced' /\ FewMissing'
    BY <2>3, ProvTask
  <2> QED BY <1>2, <2>1, <2>2, <2>3 DEF ParserNext
<1>3. CASE StartAnonymizer
  BY <1>3, ProvOthers DEF StartAnonymizer, pvars
<1>4. CASE AnonymizerKilled
  BY <1>4, ProvOthers DEF AnonymizerKilled, Fault
<1>5. ASSUME NEW l \in Lists, AnonStep(l)
      PROVE  FewGone' /\ Sourced' /\ FewMissing'
  <2>1. UNCHANGED pvars
    BY <1>5 DEF AnonStep, CountRows, AnonymizeSlice, FinishData, FinishMap
  <2> QED BY <2>1, ProvOthers DEF pvars
<1>6. ASSUME NEW l \in Lists, SliceFails(l)
      PROVE  FewGone' /\ Sourced' /\ FewMissing'
  BY <1>6, ProvOthers DEF SliceFails, Fault
<1> QED BY <1>1, <1>2, <1>3, <1>4, <1>5, <1>6 DEF Next

\* The lineage of the e-mails of the finished file every list begins with.
LEMMA FirstLineage ==
    ASSUME NEW s, s = [k \in 1 .. 2 * Held - 1 |->
             IF k % 2 = 0 THEN Piece("sep", 0) ELSE Piece("record", (k + 1) \div 2)]
    PROVE  /\ s \in Seq(PieceOf) /\ ~Torn(s)
           /\ 1 .. Held \subseteq RecordsOf(s)
<1>1. Held \in Nat
  BY ParserAssumption
<1>2. PICK n \in Nat : 1 .. 2 * Held - 1 = 1 .. n
  <2>1. CASE Held = 0
    <3>1. 2 * Held - 1 < 1 /\ 2 * Held - 1 \in Int
      BY <2>1
    <3>2. \A j \in Int : j < 1 => 1 .. j = 1 .. 0
      OBVIOUS
    <3>3. 1 .. 2 * Held - 1 = 1 .. 0
      BY <3>1, <3>2
    <3>4. 0 \in Nat
      OBVIOUS
    <3> QED BY <3>3, <3>4, Zenon
  <2>2. CASE Held # 0
    <3>1. 2 * Held - 1 \in Nat
      BY <1>1, <2>2
    <3> QED BY <3>1, Zenon
  <2> QED BY <2>1, <2>2
<1>3. /\ DOMAIN s = 1 .. n
      /\ \A k \in 1 .. n :
           /\ s[k] \in PieceOf /\ s[k].kind # "torn"
           /\ k % 2 # 0 => s[k].kind = "record" /\ s[k].id = (k + 1) \div 2
  <2>1. DOMAIN s = 1 .. n
    BY <1>2
  <2>2. ASSUME NEW k \in 1 .. n
        PROVE  /\ s[k] \in PieceOf /\ s[k].kind # "torn"
               /\ k % 2 # 0 => s[k].kind = "record" /\ s[k].id = (k + 1) \div 2
    <3>1. PICK i \in Nat : i = (k + 1) \div 2
      OBVIOUS
    <3>2. CASE k % 2 = 0
      <4>1. s[k] = Piece("sep", 0)
        BY <1>2, <3>2
      <4> QED BY <3>2, <4>1, Separator
    <3>3. CASE k % 2 # 0
      <4>1. s[k] = Piece("record", i)
        BY <1>2, <3>1, <3>3
      <4>2. PICK p \in PieceOf : p = Piece("record", i) /\ p.kind = "record" /\ p.id = i
        BY Pieces
      <4> QED BY <3>1, <4>1, <4>2
    <3> QED BY <3>2, <3>3
  <2> QED BY <2>1, <2>2
<1>4. s \in Seq(PieceOf) /\ Len(s) = n
  <2>1. s = [k \in 1 .. n |-> s[k]]
    BY <1>2, <1>3
  <2>2. s \in [1 .. n -> PieceOf]
    BY <1>3, <2>1
  <2>3. \A f \in [1 .. n -> PieceOf] : f \in Seq(PieceOf) /\ Len(f) = n
    OBVIOUS
  <2> QED BY <2>2, <2>3
<1>5. ~Torn(s)
  <2>1. n > 0 => n \in 1 .. n
    OBVIOUS
  <2>2. n > 0 => s[n].kind # "torn"
    BY <1>3, <2>1
  <2> QED BY <1>4, <2>2 DEF Torn
<1>6. ASSUME NEW i \in 1 .. Held PROVE i \in RecordsOf(s)
  <2>1. PICK k : k = 2 * i - 1
    OBVIOUS
  <2>2. k \in 1 .. n /\ k % 2 # 0 /\ (k + 1) \div 2 = i
    <3>1. k \in 1 .. 2 * Held - 1
      BY <1>1, <2>1
    <3>2. k % 2 # 0 /\ (k + 1) \div 2 = i
      <4>1. \A a \in Nat : a > 0 => (2 * a - 1) % 2 = 1 /\ (2 * a) \div 2 = a
        OBVIOUS
      <4>2. k + 1 = 2 * i /\ i \in Nat /\ i > 0
        BY <1>1, <2>1
      <4> QED BY <2>1, <4>1, <4>2
    <3> QED BY <1>2, <3>1, <3>2
  <2>3. s[k].kind = "record" /\ s[k].id = i
    BY <1>3, <2>2
  <2>4. ~(k > 2 /\ s[k - 2].kind = "torn")
    <3>1. k > 2 => k - 2 \in 1 .. n
      BY <2>2
    <3> QED BY <1>3, <3>1
  <2> QED BY <1>3, <2>2, <2>3, <2>4 DEF RecordsOf
<1> QED BY <1>4, <1>5, <1>6

LEMMA ProvInit == Init => ProvInv
<1> SUFFICES ASSUME Init PROVE FewGone /\ Sourced /\ FewMissing
  BY InvInit DEF ProvInv
<1>1. PICK s : s = [k \in 1 .. 2 * Held - 1 |->
         IF k % 2 = 0 THEN Piece("sep", 0) ELSE Piece("record", (k + 1) \div 2)]
  OBVIOUS
<1>2. s \in Seq(PieceOf) /\ ~Torn(s) /\ 1 .. Held \subseteq RecordsOf(s)
  BY <1>1, FirstLineage
<1>3. /\ lineage = [l \in Lists |-> s] /\ owed = [l \in Lists |-> 0]
      /\ run = "idle" /\ exit = "none" /\ faults = 0
      /\ dataset = [l \in Lists |-> Absent]
      /\ files = [l \in Lists |-> IF Held = 0 THEN <<>>
           ELSE <<[state |-> "done", rows |-> [k \in 1 .. Held |-> k]]>>]
  BY <1>1 DEF Init, ParserInit
<1>4. ASSUME NEW l \in Lists PROVE KeptOf(files[l]) \subseteq 1 .. Held
  <2>1. Held \in Nat
    BY ParserAssumption
  <2>2. CASE Held = 0
    <3>1. files[l] = <<>>
      BY <1>3, <2>2
    <3> QED BY <3>1 DEF KeptOf
  <2>3. CASE Held # 0
    <3>1. PICK r : r = [k \in 1 .. Held |-> k]
      OBVIOUS
    <3>2. Range(r) \subseteq 1 .. Held
      BY <3>1 DEF Range
    <3>3. files[l] = <<[state |-> "done", rows |-> r]>>
      BY <1>3, <2>3, <3>1
    <3> QED BY <3>2, <3>3 DEF KeptOf
  <2> QED BY <2>2, <2>3
<1>5. Gone = {}
  <2> SUFFICES ASSUME NEW p \in Gone PROVE FALSE
    OBVIOUS
  <2>1. PICK l \in Lists, i \in Nat : i \in GoneOf(files[l], lineage[l], owed[l])
    BY DEF Gone
  <2>2. i \in KeptOf(files[l]) /\ i \notin RecordsOf(s)
    BY <1>2, <1>3, <2>1 DEF GoneOf
  <2> QED BY <1>2, <1>4, <2>2
<1>6. FewGone
  <2>1. IsFiniteSet(Gone) /\ Cardinality(Gone) = 0
    BY <1>5, FS_EmptySet
  <2>2. lineage \in [Lists -> Seq(PieceOf)]
    BY <1>2, <1>3
  <2> QED BY <1>3, <2>1, <2>2 DEF FewGone
<1>7. Sourced
  BY <1>3 DEF Sourced, Absent, Range
<1>8. FewMissing
  BY <1>3 DEF FewMissing
<1> QED BY <1>6, <1>7, <1>8

\* What a run that ended well has in its datasets and not in lineage.parquet
\* is bounded by what the kills took: for any number of lists, files and
\* e-mails, and with the archiver at work.
THEOREM ProvenanceKept == Spec => []ProvenanceLossBounded
<1>1. ProvInv => ProvenanceLossBounded
  BY DEF ProvInv, FewMissing, Missing, Parsed, ProvenanceLossBounded
<1> QED BY <1>1, ProvInit, ProvStep, PTL DEF Spec
=============================================================================
