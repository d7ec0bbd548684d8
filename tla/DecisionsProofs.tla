---------------------------- MODULE DecisionsProofs ----------------------------
(***************************************************************************)
(* Proofs about the functions of Inboxes, Selection and Identity, for      *)
(* whatever input, and with them of the invariants of Decisions.           *)
(*                                                                         *)
(* A loop of the code is a fold or a filter in the model: each is first    *)
(* shown to be the fold of a step that is a function, or the map to        *)
(* sequences of one element or none, and then followed element by element  *)
(* (FoldSteps, ChosenSteps and SeqInduction of Induction).                 *)
(***************************************************************************)
EXTENDS Decisions, ParsingProofs, Induction, TLAPS

-----------------------------------------------------------------------------
(***************************************************************************)
(* Public inboxes on disk.                                                 *)
(***************************************************************************)
Dirs == [git : BOOLEAN, epochs : Seq(Epochs), all : Repos, self : Repos,
         alternates : {"none", "dead", "outside", "epochs"}]

\* What find_epochs keeps.
Complete == {e \in Epochs : e.repo.objects /\ e.repo.master /\ e.repo.opens}

LEMMA FirstValid ==
    ASSUME NEW dir \in Dirs, HasValidEpoch(dir)
    PROVE  \E k \in DOMAIN dir.epochs : HasMaster(dir.epochs[k].repo)
<1> DEFINE I == {i \in 1 .. Len(dir.epochs) : HasMaster(dir.epochs[i].repo)}
<1>1. dir.epochs \in Seq(Epochs)
  BY DEF Dirs
<1>2. DOMAIN dir.epochs = 1 .. Len(dir.epochs)
  BY <1>1, LenProperties
<1>3. I # {}
  BY DEF HasValidEpoch, SelectInSeq
<1> QED BY <1>2, <1>3

LEMMA EpochsChosen ==
    ASSUME NEW dir \in Dirs
    PROVE  /\ EpochsOf(dir) = IF DetectInbox(dir).git_dir = "git"
                              THEN Chosen(Epochs, Complete, dir.epochs) ELSE <<>>
           /\ Chosen(Epochs, Complete, dir.epochs) \in Seq(Complete)
           /\ Chosen(Epochs, Complete, dir.epochs) = <<>> =>
                \A k \in DOMAIN dir.epochs : dir.epochs[k] \notin Complete
<1> DEFINE kept == Chosen(Epochs, Complete, dir.epochs)
<1>1. dir.epochs \in Seq(Epochs) /\ \A k \in DOMAIN dir.epochs : dir.epochs[k] \in Epochs
  <2>1. dir.epochs \in Seq(Epochs)
    BY DEF Dirs
  <2> QED BY <2>1, LenProperties
<1>2. Filter(dir.epochs, LAMBDA e : e.repo.objects /\ e.repo.master /\ e.repo.opens) = kept
  <2>1. \A k \in DOMAIN dir.epochs :
           OneOrNone(Epochs, Complete)[dir.epochs[k]] =
             IF dir.epochs[k].repo.objects /\ dir.epochs[k].repo.master /\ dir.epochs[k].repo.opens
             THEN <<dir.epochs[k]>> ELSE <<>>
    BY <1>1 DEF OneOrNone, Complete
  <2> QED BY <2>1 DEF Filter, Chosen, FlatMap, Mapped
<1>3. kept \in Seq(Complete)
  <2>1. kept \in Seq(Epochs \cap Complete)
    BY <1>1, ChosenSteps
  <2>2. Epochs \cap Complete = Complete
    BY DEF Complete
  <2> QED BY <2>1, <2>2
<1>4. kept = <<>> => \A k \in DOMAIN dir.epochs : dir.epochs[k] \notin Complete
  <2>1. Range(kept) = Range(dir.epochs) \cap Complete
    BY <1>1, RangeChosen
  <2>2. Range(<<>>) = {}
    BY DEF Range
  <2> QED BY <2>1, <2>2 DEF Range
<1> HIDE DEF kept
<1>5. EpochsOf(dir) = IF DetectInbox(dir).git_dir = "git" THEN kept ELSE <<>>
  BY <1>2 DEF EpochsOf
<1> QED BY <1>3, <1>4, <1>5 DEF kept

\* The repositories of a directory have these types.
LEMMA DirFields ==
    ASSUME NEW dir \in Dirs
    PROVE  /\ dir.all \in Repos /\ dir.self \in Repos /\ dir.git \in BOOLEAN
           /\ dir.alternates \in {"none", "dead", "outside", "epochs"}
           /\ \A k \in DOMAIN dir.epochs : dir.epochs[k] \in Epochs /\ dir.epochs[k].repo \in Repos
<1>1. dir.epochs \in Seq(Epochs)
  BY DEF Dirs
<1>2. \A k \in DOMAIN dir.epochs : dir.epochs[k] \in Epochs
  BY <1>1, LenProperties
<1> QED BY <1>2 DEF Dirs, Epochs

\* Where a visit reads the epochs, some epoch has a master branch, or all.git
\* has, or the lister does not offer the inbox.
LEMMA WhereDetected ==
    ASSUME NEW dir \in Dirs, Listed(dir), dir.alternates # "outside"
    PROVE  \/ /\ DetectInbox(dir).git_dir = "git"
              /\ \E k \in DOMAIN dir.epochs : HasMaster(dir.epochs[k].repo)
           \/ DetectInbox(dir).git_dir = "all" /\ dir.all.master
           \/ DetectInbox(dir).git_dir = "self" /\ dir.self.master
<1>1. CASE dir.git
  <2>1. DetectInbox(dir) = DetectV2(dir) /\ DetectV2(dir).version \notin
           {"none", "V2 (incomplete)", "V2 (empty)", "V1 (empty)"}
    BY <1>1 DEF Listed, DetectInbox
  <2>2. CASE HasValidEpoch(dir)
    <3>1. DetectV2(dir).git_dir = "git"
      BY <2>2 DEF DetectV2, Found
    <3> QED BY <2>1, <2>2, <3>1, FirstValid
  <2>3. CASE ~HasValidEpoch(dir) /\ IsGitRepo(dir.all) /\ AlternatesGood(dir)
    <3>1. DetectV2(dir).git_dir = "git"
      BY <2>3 DEF DetectV2, Found
    <3>2. \E k \in DOMAIN dir.epochs : HasMaster(dir.epochs[k].repo)
      BY <2>3 DEF AlternatesGood
    <3> QED BY <2>1, <3>1, <3>2
  <2>4. CASE ~HasValidEpoch(dir) /\ ~(IsGitRepo(dir.all) /\ AlternatesGood(dir))
    <3>1. DetectV2(dir).git_dir = "all" /\ dir.all.master
      BY <2>1, <2>4 DEF DetectV2, Found, NoInbox
    <3> QED BY <2>1, <3>1
  <2> QED BY <2>2, <2>3, <2>4
<1>2. CASE ~dir.git
  <2>1. DetectInbox(dir) = DetectV1(dir) /\ DetectV1(dir).version \notin
           {"none", "V2 (incomplete)", "V2 (empty)", "V1 (empty)"}
    BY <1>2 DEF Listed, DetectInbox
  <2>2. \/ DetectV1(dir).git_dir = "all" /\ dir.all.master
        \/ DetectV1(dir).git_dir = "self" /\ dir.self.master
    BY <2>1 DEF DetectV1, Found, NoInbox
  <2> QED BY <2>1, <2>2
<1> QED BY <1>1, <1>2

(***************************************************************************)
(* public_inbox_lister.rs, pi_worker.rs: of whatever directory the lister  *)
(* offers, and however far its mirror has come, a visit finds repositories *)
(* to read, and can read each.                                             *)
(***************************************************************************)
THEOREM OfferedIsReadable == \A dir \in Dirs : ListedIsReadable(dir)
<1> SUFFICES ASSUME NEW dir \in Dirs, Listed(dir), dir.alternates # "outside",
                    dir.all.master => dir.all.opens, dir.self.master => dir.self.opens,
                    NEW k \in DOMAIN ReposToRead(dir)
             PROVE  Readable(ReposToRead(dir)[k])
  BY DEF ListedIsReadable
<1> DEFINE kept == Chosen(Epochs, Complete, dir.epochs)
<1>1. /\ EpochsOf(dir) = IF DetectInbox(dir).git_dir = "git" THEN kept ELSE <<>>
      /\ kept \in Seq(Complete)
      /\ kept = <<>> => \A j \in DOMAIN dir.epochs : dir.epochs[j] \notin Complete
  BY EpochsChosen
<1> HIDE DEF kept
<1>2. CASE EpochsOf(dir) # <<>>
  <2>1. EpochsOf(dir) \in Seq(Complete)
    BY <1>1, <1>2
  <2>2. ReposToRead(dir) = [j \in DOMAIN EpochsOf(dir) |-> EpochsOf(dir)[j].repo]
    BY <1>2 DEF ReposToRead
  <2>3. k \in DOMAIN EpochsOf(dir)
    BY <2>2
  <2>4. EpochsOf(dir)[k] \in Complete
    BY <2>1, <2>3, LenProperties
  <2> QED BY <2>2, <2>3, <2>4 DEF Readable, Complete
<1>3. CASE EpochsOf(dir) = <<>>
  <2>1. k = 1 /\ ReposToRead(dir)[1] =
           [git |-> Missing, all |-> dir.all, self |-> dir.self, none |-> Missing]
             [DetectInbox(dir).git_dir]
    BY <1>3 DEF ReposToRead
  <2>2. CASE /\ DetectInbox(dir).git_dir = "git"
             /\ \E j \in DOMAIN dir.epochs : HasMaster(dir.epochs[j].repo)
    <3>1. PICK j \in DOMAIN dir.epochs : HasMaster(dir.epochs[j].repo)
      BY <2>2
    <3>2. dir.epochs[j] \in Complete
      BY <3>1, DirFields DEF Complete, HasMaster, IsGitRepo
    <3> QED BY <1>1, <1>3, <2>2, <3>2
  <2>3. CASE DetectInbox(dir).git_dir = "all" /\ dir.all.master
    BY <2>1, <2>3 DEF Readable
  <2>4. CASE DetectInbox(dir).git_dir = "self" /\ dir.self.master
    BY <2>1, <2>4 DEF Readable
  <2> QED BY <2>2, <2>3, <2>4, WhereDetected
<1> QED BY <1>2, <1>3

-----------------------------------------------------------------------------
\* What makes a directory an inbox, without the order detect_inbox asks in.
Seen(dir) ==
    IF dir.git
    THEN dir.all.objects \/ \E k \in DOMAIN dir.epochs : dir.epochs[k].repo.objects
    ELSE dir.all.objects \/ (dir.self.head /\ dir.self.objects /\ dir.self.master)

LEMMA SeenIsDetected ==
    ASSUME NEW dir \in Dirs
    PROVE  DetectInbox(dir) # NoInbox <=> Seen(dir)
<1>1. /\ dir.all \in Repos /\ dir.self \in Repos /\ dir.git \in BOOLEAN
      /\ dir.alternates \in {"none", "dead", "outside", "epochs"}
  BY DirFields
<1>2. CASE dir.git
  <2>1. HasValidEpoch(dir) => \E k \in DOMAIN dir.epochs : dir.epochs[k].repo.objects
    BY FirstValid DEF HasMaster, IsGitRepo
  <2>2. DetectV2(dir) # NoInbox <=>
          HasValidEpoch(dir) \/ dir.all.objects \/ \E k \in DOMAIN dir.epochs : dir.epochs[k].repo.objects
    BY <1>1 DEF DetectV2, Found, NoInbox, IsGitRepo, HasObjects
  <2> QED BY <1>2, <2>1, <2>2 DEF DetectInbox, Seen
<1>3. CASE ~dir.git
  <2>1. DetectV1(dir) # NoInbox <=>
          dir.all.objects \/ (dir.self.head /\ dir.self.objects /\ dir.self.master)
    BY <1>1 DEF DetectV1, Found, NoInbox, IsGitRepo
  <2> QED BY <1>3, <2>1 DEF DetectInbox, Seen
<1> QED BY <1>2, <1>3

LEMMA GrownKeeps ==
    ASSUME NEW repo \in Repos, NEW later \in Grown(repo)
    PROVE  /\ later \in Repos
           /\ repo.objects => later.objects
           /\ repo.head => later.head
           /\ repo.master => later.master
BY DEF Grown, Repos

LEMMA GrowthKeeps ==
    ASSUME NEW dir \in Dirs, NEW later \in Growth(dir), Seen(dir)
    PROVE  later \in Dirs /\ Seen(later)
<1>1. /\ dir.all \in Repos /\ dir.self \in Repos /\ dir.git \in BOOLEAN
      /\ dir.alternates \in {"none", "dead", "outside", "epochs"}
      /\ \A k \in DOMAIN dir.epochs : dir.epochs[k] \in Epochs /\ dir.epochs[k].repo \in Repos
  BY DirFields
<1>2. dir.epochs \in Seq(Epochs)
  BY DEF Dirs
<1>3. CASE later = [dir EXCEPT !.git = dir.git \/ ~dir.self.head]
  <2>1. later \in Dirs
    BY <1>1, <1>2, <1>3 DEF Dirs
  <2>2. /\ later.all = dir.all /\ later.epochs = dir.epochs /\ later.self = dir.self
        /\ later.git = (dir.git \/ ~dir.self.head)
    BY <1>3 DEF Dirs
  <2> QED BY <1>1, <2>1, <2>2 DEF Seen
<1>4. ASSUME NEW repo \in Grown(dir.all), later = [dir EXCEPT !.all = repo]
      PROVE  later \in Dirs /\ Seen(later)
  <2>1. repo \in Repos /\ (dir.all.objects => repo.objects)
    BY <1>1, GrownKeeps
  <2>2. later \in Dirs
    BY <1>1, <1>2, <1>4, <2>1 DEF Dirs
  <2>3. /\ later.all = repo /\ later.epochs = dir.epochs /\ later.self = dir.self
        /\ later.git = dir.git
    BY <1>4 DEF Dirs
  <2> QED BY <2>1, <2>2, <2>3 DEF Seen
<1>5. ASSUME NEW repo \in Grown(dir.self), later = [dir EXCEPT !.self = repo]
      PROVE  later \in Dirs /\ Seen(later)
  <2>1. /\ repo \in Repos
        /\ dir.self.objects => repo.objects
        /\ dir.self.head => repo.head
        /\ dir.self.master => repo.master
    BY <1>1, GrownKeeps
  <2>2. later \in Dirs
    BY <1>1, <1>2, <1>5, <2>1 DEF Dirs
  <2>3. /\ later.all = dir.all /\ later.epochs = dir.epochs /\ later.self = repo
        /\ later.git = dir.git
    BY <1>5 DEF Dirs
  <2> QED BY <1>1, <2>1, <2>2, <2>3 DEF Seen
<1>6. ASSUME NEW k \in DOMAIN dir.epochs, NEW repo \in Grown(dir.epochs[k].repo),
             later = [dir EXCEPT !.epochs[k].repo = repo]
      PROVE  later \in Dirs /\ Seen(later)
  <2> DEFINE epochs == [dir.epochs EXCEPT ![k] = [dir.epochs[k] EXCEPT !.repo = repo]]
  <2>1. repo \in Repos /\ (dir.epochs[k].repo.objects => repo.objects)
    BY <1>1, GrownKeeps
  <2>2. [dir.epochs[k] EXCEPT !.repo = repo] \in Epochs
        /\ [dir.epochs[k] EXCEPT !.repo = repo].repo = repo
    BY <1>1, <2>1 DEF Epochs
  <2>3. /\ epochs \in Seq(Epochs) /\ DOMAIN epochs = DOMAIN dir.epochs
        /\ epochs[k].repo = repo
        /\ \A j \in DOMAIN dir.epochs : j # k => epochs[j] = dir.epochs[j]
    BY <1>2, <2>2
  <2>4. later = [dir EXCEPT !.epochs = epochs]
    BY <1>6
  <2> HIDE DEF epochs
  <2>5. later \in Dirs
    BY <1>1, <2>3, <2>4 DEF Dirs
  <2>6. /\ later.all = dir.all /\ later.epochs = epochs /\ later.self = dir.self
        /\ later.git = dir.git
    BY <2>4 DEF Dirs
  <2>7. (\E j \in DOMAIN dir.epochs : dir.epochs[j].repo.objects) =>
           \E j \in DOMAIN epochs : epochs[j].repo.objects
    BY <2>1, <2>3
  <2> QED BY <2>5, <2>6, <2>7 DEF Seen
<1> QED BY <1>3, <1>4, <1>5, <1>6 DEF Growth

(***************************************************************************)
(* pi_worker.rs: whatever the lister detected as an inbox is one still     *)
(* when a visit detects it again, one step of its mirror later.            *)
(***************************************************************************)
THEOREM InboxesStayDetected == \A dir \in Dirs : StaysDetected(dir)
<1> SUFFICES ASSUME NEW dir \in Dirs, DetectInbox(dir) # NoInbox, NEW later \in Growth(dir)
             PROVE  DetectInbox(later) # NoInbox
  BY DEF StaysDetected
<1>1. Seen(dir)
  BY SeenIsDetected
<1>2. later \in Dirs /\ Seen(later)
  BY <1>1, GrowthKeeps
<1> QED BY <1>2, SeenIsDetected

-----------------------------------------------------------------------------
(***************************************************************************)
(* The numbers of range mode.                                              *)
(***************************************************************************)
NumbersOf == [part \in RangeParts |-> PartNumbers(part)]

\* The parts parse_sequence reads.
WellFormed == {part \in RangeParts : part.kind \in {"number", "range"} /\ part.first <= part.last}

LEMMA NumbersOfParts ==
    /\ NumbersOf \in Maps(RangeParts, Nat)
    /\ \A part \in WellFormed : Range(NumbersOf[part]) = part.first .. part.last
    /\ \A part \in RangeParts : PartError(part) # "none" <=> part \notin WellFormed
<1>1. ASSUME NEW part \in RangeParts PROVE PartNumbers(part) \in Seq(Nat)
  <2>1. part.first \in Nat /\ part.last \in Nat
    BY DEF RangeParts
  <2>2. CASE part.kind = "number"
    BY <2>1, <2>2 DEF PartNumbers
  <2>3. CASE part.kind = "range"
    <3> DEFINE n == part.last - part.first + 1
    <3>1. \A k \in 1 .. n : part.first + k - 1 \in Nat
      BY <2>1
    <3>2. [k \in 1 .. n |-> part.first + k - 1] \in Seq(Nat)
      <4>1. CASE n \in Nat
        <5>1. [k \in 1 .. n |-> part.first + k - 1] \in [1 .. n -> Nat]
          BY <3>1
        <5> QED BY <4>1, <5>1
      <4>2. CASE n \notin Nat
        <5>1. 1 .. n = 1 .. 0
          BY <2>1, <4>2
        <5>2. [k \in 1 .. n |-> part.first + k - 1] \in [1 .. 0 -> Nat]
          BY <3>1, <5>1
        <5>3. \A f \in [1 .. 0 -> Nat] : f \in Seq(Nat)
          OBVIOUS
        <5> QED BY <5>2, <5>3
      <4> QED BY <4>1, <4>2
    <3>3. PartNumbers(part) = [k \in 1 .. n |-> part.first + k - 1]
      BY <2>3 DEF PartNumbers
    <3> QED BY <3>2, <3>3
  <2>4. CASE part.kind \notin {"number", "range"}
    <3>1. PartNumbers(part) = <<>>
      BY <2>4 DEF PartNumbers
    <3> QED BY <3>1
  <2> QED BY <2>2, <2>3, <2>4
<1>2. NumbersOf \in Maps(RangeParts, Nat)
  BY <1>1 DEF NumbersOf, Maps
<1>3. ASSUME NEW part \in WellFormed
      PROVE  Range(NumbersOf[part]) = part.first .. part.last
  <2>1. /\ part \in RangeParts /\ part.first \in Nat /\ part.last \in Nat
        /\ part.first <= part.last
        /\ part.kind = "number" => part.first = part.last
        /\ part.kind = "number" \/ part.kind = "range"
    BY DEF WellFormed, RangeParts
  <2>2. CASE part.kind = "number"
    <3>1. NumbersOf[part] = <<part.first>>
      BY <2>1, <2>2 DEF NumbersOf, PartNumbers
    <3>2. Range(<<part.first>>) = {part.first}
      BY RangeOne
    <3>3. \A m : m \in part.first .. part.last <=> m = part.first
      BY <2>1, <2>2
    <3> QED BY <3>1, <3>2, <3>3
  <2>3. CASE part.kind = "range"
    <3> DEFINE n == part.last - part.first + 1
               s == [k \in 1 .. n |-> part.first + k - 1]
    <3>1. NumbersOf[part] = s
      BY <2>1, <2>3 DEF NumbersOf, PartNumbers
    <3>2. DOMAIN s = 1 .. n /\ \A k \in 1 .. n : s[k] = part.first + k - 1
      OBVIOUS
    <3> HIDE DEF s
    <3>3. ASSUME NEW m \in part.first .. part.last PROVE m \in Range(s)
      <4>1. m - part.first + 1 \in 1 .. n /\ part.first + (m - part.first + 1) - 1 = m
        BY <2>1
      <4>2. s[m - part.first + 1] = m
        BY <3>2, <4>1
      <4> QED BY <3>2, <4>1, <4>2 DEF Range
    <3>4. ASSUME NEW m \in Range(s) PROVE m \in part.first .. part.last
      <4>1. PICK k \in 1 .. n : m = part.first + k - 1
        BY <3>2 DEF Range
      <4> QED BY <2>1, <4>1
    <3> QED BY <3>1, <3>3, <3>4
  <2> QED BY <2>1, <2>2, <2>3
<1>4. ASSUME NEW part \in RangeParts PROVE PartError(part) # "none" <=> part \notin WellFormed
  <2>1. /\ part.first \in Nat /\ part.last \in Nat
        /\ part.kind \in {"number", "range", "empty", "word", "wordrange"}
        /\ part.kind = "number" => part.first = part.last
    BY DEF RangeParts
  <2>2. CASE part.kind = "empty" \/ part.kind = "word" \/ part.kind = "wordrange"
    <3>1. part \notin WellFormed
      BY <2>2 DEF WellFormed
    <3>2. PartError(part) # "none"
      BY <2>2 DEF PartError
    <3> QED BY <3>1, <3>2
  <2>3. CASE part.kind = "number"
    <3>1. part \in WellFormed
      BY <2>1, <2>3 DEF WellFormed
    <3>2. PartError(part) = "none"
      BY <2>3 DEF PartError
    <3> QED BY <3>1, <3>2
  <2>4. CASE part.kind = "range"
    <3>1. part \in WellFormed <=> ~(part.first > part.last)
      BY <2>1, <2>4 DEF WellFormed
    <3>2. PartError(part) # "none" <=> part.first > part.last
      BY <2>4 DEF PartError
    <3> QED BY <3>1, <3>2
  <2> QED BY <2>1, <2>2, <2>3, <2>4
<1> QED BY <1>2, <1>3, <1>4

\* parse_sequence of parts one of which is malformed, and of others.
LEMMA ParseSequenceIs ==
    ASSUME NEW parts \in Seq(RangeParts)
    PROVE  /\ parts = <<>> \/ ~(Range(parts) \subseteq WellFormed) =>
                ParseSequence(parts).error # "none" /\ ParseSequence(parts).numbers = <<>>
           /\ parts # <<>> /\ Range(parts) \subseteq WellFormed =>
                /\ ParseSequence(parts).error = "none"
                /\ ParseSequence(parts).numbers = FlatMap(NumbersOf, parts)
<1> DEFINE k == SelectInSeq(parts, LAMBDA part : PartError(part) # "none")
           I == {i \in 1 .. Len(parts) : PartError(parts[i]) # "none"}
<1>1. DOMAIN parts = 1 .. Len(parts) /\ Len(parts) \in Nat /\ \A i \in DOMAIN parts : parts[i] \in RangeParts
  BY LenProperties
<1>2. k = IF I # {} THEN Min(I) ELSE 0
  BY DEF SelectInSeq
<1>3. I # {} => Min(I) \in I
  <2>1. I \in SUBSET Nat
    OBVIOUS
  <2> HIDE DEF I
  <2> QED BY <2>1, MinOf
<1>4. ~(Range(parts) \subseteq WellFormed) <=> I # {}
  <2>1. \A i \in DOMAIN parts : PartError(parts[i]) # "none" <=> parts[i] \notin WellFormed
    BY <1>1, NumbersOfParts
  <2> QED BY <1>1, <2>1 DEF Range
<1>5. ParseSequence(parts) =
         IF parts = <<>> THEN [error |-> "EmptyPart", numbers |-> <<>>]
         ELSE IF k # 0 THEN [error |-> PartError(parts[k]), numbers |-> <<>>]
         ELSE [error |-> "none",
               numbers |-> FlattenSeq([j \in DOMAIN parts |-> PartNumbers(parts[j])])]
  <2>1. parts = <<>> => k = 0
    <3>1. parts = <<>> => 1 .. Len(parts) = {}
      OBVIOUS
    <3> QED BY <1>2, <3>1
  <2> HIDE DEF k
  <2>2. CASE parts = <<>>
    BY <2>1, <2>2 DEF ParseSequence, k
  <2>3. CASE parts # <<>> /\ k # 0
    BY <2>3 DEF ParseSequence, k
  <2>4. CASE parts # <<>> /\ k = 0
    BY <2>4 DEF ParseSequence, k
  <2> QED BY <2>2, <2>3, <2>4
<1> HIDE DEF k
<1>6. CASE parts = <<>>
  BY <1>5, <1>6
<1>7. CASE parts # <<>> /\ I # {}
  <2>1. k \in I /\ k # 0 /\ PartError(parts[k]) # "none"
    BY <1>2, <1>3, <1>7
  <2> QED BY <1>4, <1>5, <1>7, <2>1
<1>8. CASE parts # <<>> /\ I = {}
  <2>1. k = 0
    BY <1>2, <1>8
  <2>2. [j \in DOMAIN parts |-> PartNumbers(parts[j])] = Mapped(NumbersOf, parts)
    BY <1>1 DEF Mapped, NumbersOf
  <2> QED BY <1>4, <1>5, <1>8, <2>1, <2>2 DEF FlatMap
<1> QED BY <1>6, <1>7, <1>8

(***************************************************************************)
(* range_inputs.rs, parse_sequence: whatever stands between the commas, it *)
(* is read as a whole, in order, or not at all.                            *)
(***************************************************************************)
THEOREM RangesWhole == \A parts \in Seq(RangeParts) : AllOrNothing(parts)
<1> SUFFICES ASSUME NEW parts \in Seq(RangeParts) PROVE AllOrNothing(parts)
  OBVIOUS
<1> DEFINE malformed == \/ parts = <<>>
                        \/ \E k \in DOMAIN parts :
                             \/ parts[k].kind \notin {"number", "range"}
                             \/ parts[k].first > parts[k].last
<1>1. /\ DOMAIN parts = 1 .. Len(parts) /\ Len(parts) \in Nat
      /\ \A k \in DOMAIN parts : /\ parts[k] \in RangeParts
                                 /\ parts[k].first \in Nat /\ parts[k].last \in Nat
  BY LenProperties DEF RangeParts
<1>2. malformed <=> parts = <<>> \/ ~(Range(parts) \subseteq WellFormed)
  <2>1. \A k \in DOMAIN parts :
           parts[k] \notin WellFormed <=> \/ parts[k].kind \notin {"number", "range"}
                                          \/ parts[k].first > parts[k].last
    BY <1>1 DEF WellFormed
  <2> QED BY <2>1 DEF Range
<1>3. CASE malformed
  BY <1>2, <1>3, ParseSequenceIs DEF AllOrNothing
<1>4. CASE ~malformed
  <2> DEFINE numbers == ParseSequence(parts).numbers
  <2>1. parts # <<>> /\ Range(parts) \subseteq WellFormed
    BY <1>2, <1>4
  <2>2. numbers = FlatMap(NumbersOf, parts)
    BY <2>1, ParseSequenceIs
  <2>3. Range(numbers) = Wanted(parts)
    <3>1. Range(numbers) = UNION {Range(NumbersOf[x]) : x \in Range(parts)}
      BY <2>2, RangeFlatMap, NumbersOfParts
    <3>2. \A x \in Range(parts) : Range(NumbersOf[x]) = x.first .. x.last
      BY <2>1, NumbersOfParts
    <3>3. \A k \in DOMAIN parts :
             (IF parts[k].kind \in {"number", "range"} THEN parts[k].first .. parts[k].last ELSE {})
               = parts[k].first .. parts[k].last
      BY <2>1 DEF WellFormed, Range
    <3>4. Wanted(parts) = UNION {x.first .. x.last : x \in Range(parts)}
      BY <3>3 DEF Wanted, Range
    <3> QED BY <3>1, <3>2, <3>4
  <2>4. ASSUME NEW k \in DOMAIN parts
        PROVE  IsPrefix(ParseSequence(SubSeq(parts, 1, k)).numbers, numbers)
    <3> DEFINE a == SubSeq(parts, 1, k)
               c == SubSeq(parts, k + 1, Len(parts))
    <3>1. /\ a \in Seq(RangeParts) /\ Len(a) = k
          /\ c \in Seq(RangeParts)
          /\ parts = a \o c
          /\ \A j \in 1 .. k : a[j] = parts[j]
      <4>1. k \in 0 .. Len(parts)
        BY <1>1
      <4> QED BY <4>1, SeqParts, ZenonT(60)
    <3> HIDE DEF a, c
    <3>2. Range(a) \subseteq Range(parts)
      <4>1. Range(a \o c) = Range(a) \cup Range(c)
        BY <3>1, RangeConcat
      <4> QED BY <3>1, <4>1
    <3>3. a # <<>>
      <4>1. k # 0
        BY <1>1
      <4> QED BY <3>1, <4>1
    <3>4. ParseSequence(a).numbers = FlatMap(NumbersOf, a)
      BY <2>1, <3>1, <3>2, <3>3, ParseSequenceIs
    <3>5. /\ FlatMap(NumbersOf, a) \in Seq(Nat) /\ FlatMap(NumbersOf, c) \in Seq(Nat)
          /\ numbers = FlatMap(NumbersOf, a) \o FlatMap(NumbersOf, c)
      <4>1. NumbersOf \in Maps(RangeParts, Nat)
        BY NumbersOfParts
      <4>2. /\ FlatMap(NumbersOf, a) \in Seq(Nat) /\ FlatMap(NumbersOf, c) \in Seq(Nat)
            /\ FlatMap(NumbersOf, a \o c) = FlatMap(NumbersOf, a) \o FlatMap(NumbersOf, c)
        BY <3>1, <4>1, FlatMapConcat
      <4> QED BY <2>2, <3>1, <4>2
    <3>6. IsPrefix(FlatMap(NumbersOf, a), FlatMap(NumbersOf, a) \o FlatMap(NumbersOf, c))
      BY <3>5, PrefixOfConcat
    <3> QED BY <3>4, <3>5, <3>6 DEF a
  <2> QED BY <1>4, <2>3, <2>4 DEF AllOrNothing
<1> QED BY <1>3, <1>4

-----------------------------------------------------------------------------
(***************************************************************************)
(* A server's address, and how many workers there are.                     *)
(***************************************************************************)
ServerAddresses == [scheme : {"", "nntp", "nntps"}, host : STRING,
                    port : {"none", "119", "text", "large"}]

(***************************************************************************)
(* check_nntp: a server is addressed as typed.                             *)
(***************************************************************************)
THEOREM AddressesAsTyped == \A typed \in ServerAddresses : AddressAsTyped(typed)
<1> SUFFICES ASSUME NEW typed \in ServerAddresses, ~ParseServerUrl(typed).error
             PROVE  /\ ServerAddress(ParseServerUrl(typed).hostname, ParseServerUrl(typed).port) = typed
                    /\ ParseServerUrl(typed).use_tls <=> typed.scheme = "nntps"
  BY DEF AddressAsTyped
<1> DEFINE cfg == ParseServerUrl(typed)
<1>1. cfg = [error    |-> FALSE,
             hostname |-> IF typed.port = "text" THEN typed ELSE [typed EXCEPT !.port = "none"],
             port     |-> IF typed.port = "text" THEN "none" ELSE typed.port,
             use_tls  |-> typed.scheme = "nntps"]
  BY DEF ParseServerUrl
<1> SUFFICES ServerAddress(cfg.hostname, cfg.port) = typed /\ (cfg.use_tls <=> typed.scheme = "nntps")
  OBVIOUS
<1> HIDE DEF cfg
<1>2. CASE typed.port = "text"
  BY <1>1, <1>2 DEF ServerAddress
<1>3. CASE typed.port = "none"
  <2>1. [typed EXCEPT !.port = "none"] = typed
    BY <1>3 DEF ServerAddresses
  <2> QED BY <1>1, <1>3, <2>1 DEF ServerAddress
<1>4. CASE typed.port \notin {"text", "none"}
  <2>1. [[typed EXCEPT !.port = "none"] EXCEPT !.port = typed.port] = typed
    BY DEF ServerAddresses
  <2> QED BY <1>1, <1>4, <2>1 DEF ServerAddress
<1> QED BY <1>2, <1>3, <1>4

-----------------------------------------------------------------------------
(***************************************************************************)
(* The selection of lists.                                                 *)
(***************************************************************************)
ListNames == STRING
Selections == [name : ListNames, matches : SUBSET ListNames]

ExpandStates == [matched : Seq(ListNames), unmatched : Seq(Selections)]

Nothing == [matched |-> <<>>, unmatched |-> <<>>]

Expanding(available) ==
    [p \in ExpandStates \X Selections |-> ExpandOne(p[1], p[2], available)]

LEMMA TakenIs ==
    ASSUME NEW pattern \in Selections, NEW available \in Seq(ListNames), NEW matched \in Seq(ListNames)
    PROVE  /\ Taken(pattern, available, matched) =
                Chosen(ListNames, pattern.matches \ Range(matched), available)
           /\ Taken(pattern, available, matched) \in Seq(ListNames)
           /\ Range(Taken(pattern, available, matched)) =
                Range(available) \cap (pattern.matches \ Range(matched))
<1> DEFINE P == pattern.matches \ Range(matched)
<1>1. \A k \in DOMAIN available : available[k] \in ListNames
  BY LenProperties
<1>2. Taken(pattern, available, matched) = Chosen(ListNames, P, available)
  <2>1. \A k \in DOMAIN available :
           OneOrNone(ListNames, P)[available[k]] =
             IF available[k] \in pattern.matches /\ available[k] \notin Range(matched)
             THEN <<available[k]>> ELSE <<>>
    BY <1>1 DEF OneOrNone
  <2> QED BY <2>1 DEF Taken, Filter, Chosen, FlatMap, Mapped
<1> HIDE DEF P
<1>3. /\ Chosen(ListNames, P, available) \in Seq(ListNames \cap P)
      /\ Range(Chosen(ListNames, P, available)) = Range(available) \cap P
  BY ChosenSteps, RangeChosen
<1>4. \A c \in Seq(ListNames \cap P) : c \in Seq(ListNames)
  OBVIOUS
<1> QED BY <1>2, <1>3, <1>4 DEF P

LEMMA ExpandingType ==
    ASSUME NEW available \in Seq(ListNames)
    PROVE  /\ Expanding(available) \in StepsOf(ExpandStates, Selections)
           /\ \A acc \in ExpandStates, pattern \in Selections :
                Expanding(available)[<<acc, pattern>>] = ExpandOne(acc, pattern, available)
           /\ Nothing \in ExpandStates
<1>1. ASSUME NEW acc \in ExpandStates, NEW pattern \in Selections
      PROVE  ExpandOne(acc, pattern, available) \in ExpandStates
  <2> DEFINE taken == Taken(pattern, available, acc.matched)
  <2>1. acc.matched \in Seq(ListNames) /\ acc.unmatched \in Seq(Selections)
    BY DEF ExpandStates
  <2>2. taken \in Seq(ListNames)
    <3>1. PICK matched \in Seq(ListNames) : matched = acc.matched
      BY <2>1
    <3> QED BY <3>1, TakenIs
  <2>3. ExpandOne(acc, pattern, available) =
           [matched   |-> acc.matched \o taken,
            unmatched |-> IF taken = <<>> THEN Append(acc.unmatched, pattern) ELSE acc.unmatched]
    BY DEF ExpandOne
  <2> HIDE DEF taken
  <2>4. acc.matched \o taken \in Seq(ListNames) /\ Append(acc.unmatched, pattern) \in Seq(Selections)
    BY <2>1, <2>2
  <2> QED BY <2>1, <2>3, <2>4 DEF ExpandStates
<1>2. Nothing \in ExpandStates
  <2>1. <<>> \in Seq(ListNames) /\ <<>> \in Seq(Selections)
    OBVIOUS
  <2> QED BY <2>1 DEF Nothing, ExpandStates
<1>3. Expanding(available) \in StepsOf(ExpandStates, Selections)
  <2>1. \A p \in ExpandStates \X Selections :
           /\ p[1] \in ExpandStates /\ p[2] \in Selections
           /\ ExpandOne(p[1], p[2], available) \in ExpandStates
    BY <1>1
  <2> QED BY <2>1 DEF Expanding, StepsOf
<1>4. \A acc \in ExpandStates, pattern \in Selections :
         Expanding(available)[<<acc, pattern>>] = ExpandOne(acc, pattern, available)
  BY DEF Expanding
<1> QED BY <1>2, <1>3, <1>4

LEMMA ExpandIsFold ==
    ASSUME NEW available \in Seq(ListNames), NEW q \in Seq(Selections)
    PROVE  ExpandGlobPatterns(q, available) = Fold(Expanding(available), Nothing, q)
<1> DEFINE F == Expanding(available)
           E(g) == g = [s \in SUBSET (1 .. Len(q)) |->
                          IF s = {} THEN Nothing
                          ELSE ExpandOne(g[s \ {Max(s)}], q[Max(s)], available)]
           h == CHOOSE g : E(g)
<1>1. /\ DOMAIN q = 1 .. Len(q) /\ Len(q) \in Nat
      /\ \A s \in SUBSET (1 .. Len(q)) : s # {} => q[Max(s)] \in Selections
  <2>1. DOMAIN q = 1 .. Len(q) /\ Len(q) \in Nat /\ \A k \in 1 .. Len(q) : q[k] \in Selections
    BY LenProperties
  <2>2. \A s \in SUBSET (1 .. Len(q)) : s # {} => Max(s) \in s
    BY <2>1, MaxOf
  <2> QED BY <2>1, <2>2
<1>2. /\ F \in StepsOf(ExpandStates, Selections) /\ Nothing \in ExpandStates
      /\ \A acc \in ExpandStates, pattern \in Selections :
           F[<<acc, pattern>>] = ExpandOne(acc, pattern, available)
  BY ExpandingType
<1>3. ExpandGlobPatterns(q, available) = h[1 .. Len(q)]
  BY <1>1 DEF ExpandGlobPatterns, FoldLeft, MapThenFoldSet, Nothing
<1> HIDE DEF F
<1>4. PICK f \in Runs(ExpandStates, F, Nothing, q) : TRUE
  BY <1>2, FoldExists
<1>5. E(f)
  <2>1. \A s \in SUBSET (1 .. Len(q)) :
           f[s] = IF s = {} THEN Nothing
                  ELSE ExpandOne(f[s \ {Max(s)}], q[Max(s)], available)
    BY <1>1, <1>2 DEF Runs
  <2> QED BY <2>1 DEF Runs
<1>6. E(h)
  <2> HIDE DEF E
  <2> QED BY <1>5
<1> HIDE DEF h
<1>7. Follows(h, ExpandStates, F, Nothing, q)
  <2>1. h[{}] = Nothing
    BY <1>6
  <2>2. ASSUME NEW s \in SUBSET (1 .. Len(q)), s # {}, h[s \ {Max(s)}] \in ExpandStates
        PROVE  h[s] = F[<<h[s \ {Max(s)}], q[Max(s)]>>]
    <3>1. h[s] = ExpandOne(h[s \ {Max(s)}], q[Max(s)], available)
      BY <1>6, <2>2
    <3> QED BY <1>1, <1>2, <2>2, <3>1
  <2> QED BY <2>1, <2>2 DEF Follows
<1>8. h[1 .. Len(q)] = Fold(F, Nothing, q)
  BY <1>2, <1>7, FoldMeets
<1> QED BY <1>3, <1>8 DEF F

LEMMA ExpandSteps ==
    ASSUME NEW available \in Seq(ListNames)
    PROVE  /\ ExpandGlobPatterns(<<>>, available) = Nothing
           /\ \A q \in Seq(Selections) : ExpandGlobPatterns(q, available) \in ExpandStates
           /\ \A q \in Seq(Selections), x \in Selections :
                ExpandGlobPatterns(Append(q, x), available) =
                  ExpandOne(ExpandGlobPatterns(q, available), x, available)
<1> DEFINE F == Expanding(available)
<1>1. /\ F \in StepsOf(ExpandStates, Selections) /\ Nothing \in ExpandStates
      /\ \A acc \in ExpandStates, pattern \in Selections :
           F[<<acc, pattern>>] = ExpandOne(acc, pattern, available)
  BY ExpandingType
<1>2. \A q \in Seq(Selections) : ExpandGlobPatterns(q, available) = Fold(F, Nothing, q)
  BY ExpandIsFold
<1> HIDE DEF F
<1>3. /\ Fold(F, Nothing, <<>>) = Nothing
      /\ \A q \in Seq(Selections) : Fold(F, Nothing, q) \in ExpandStates
      /\ \A q \in Seq(Selections), x \in Selections :
           Fold(F, Nothing, Append(q, x)) = F[<<Fold(F, Nothing, q), x>>]
  BY <1>1, FoldSteps
<1>4. /\ <<>> \in Seq(Selections)
      /\ \A q \in Seq(Selections), x \in Selections : Append(q, x) \in Seq(Selections)
  BY AppendProperties
<1>5. ExpandGlobPatterns(<<>>, available) = Nothing
  BY <1>2, <1>3, <1>4
<1>6. \A q \in Seq(Selections) : ExpandGlobPatterns(q, available) \in ExpandStates
  BY <1>2, <1>3
<1>7. ASSUME NEW q \in Seq(Selections), NEW x \in Selections
      PROVE  ExpandGlobPatterns(Append(q, x), available) =
               ExpandOne(ExpandGlobPatterns(q, available), x, available)
  <2>1. ExpandGlobPatterns(Append(q, x), available) = F[<<Fold(F, Nothing, q), x>>]
    BY <1>2, <1>3, <1>4
  <2> QED BY <1>1, <1>2, <1>3, <2>1
<1> QED BY <1>5, <1>6, <1>7

\* The lists some pattern matches, in terms of the patterns and of their order.
Matching(q, available) == {list \in Range(available) : \E p \in Range(q) : list \in p.matches}

\* What expand_glob_patterns has collected: the lists, each once if the server
\* has each once, and the patterns that match nothing.
Expanded(q, available) ==
    /\ Range(ExpandGlobPatterns(q, available).matched) = Matching(q, available)
    /\ NoRepeats(available) => NoRepeats(ExpandGlobPatterns(q, available).matched)
    /\ \A p \in Range(q) : p.matches \cap Range(available) = {} =>
         p \in Range(ExpandGlobPatterns(q, available).unmatched)

LEMMA ConcatNoRepeats ==
    ASSUME NEW S, NEW a \in Seq(S), NEW q \in Seq(S),
           NoRepeats(a), NoRepeats(q), Range(a) \cap Range(q) = {}
    PROVE  NoRepeats(a \o q)
<1> DEFINE T == {r \in Seq(S) : NoRepeats(r) /\ Range(a) \cap Range(r) = {} => NoRepeats(a \o r)}
<1>1. <<>> \in T
  <2>1. <<>> \in Seq(S) /\ a \o <<>> = a
    BY ConcatEmptySeq
  <2> QED BY <2>1
<1>2. ASSUME NEW r \in Seq(S), NEW x \in S, r \in T PROVE Append(r, x) \in T
  <2>1. Append(r, x) \in Seq(S) /\ a \o Append(r, x) = Append(a \o r, x)
    BY AppendProperties, AppendInside
  <2>2. Range(Append(r, x)) = Range(r) \cup {x}
    BY RangeAppend
  <2>3. Range(a \o r) = Range(a) \cup Range(r)
    BY RangeConcat
  <2>4. NoRepeats(Append(r, x)) <=> NoRepeats(r) /\ x \notin Range(r)
    BY DistinctAppend
  <2>5. NoRepeats(Append(a \o r, x)) <=> NoRepeats(a \o r) /\ x \notin Range(a \o r)
    <3>1. PICK c \in Seq(S) : c = a \o r
      BY ConcatProperties
    <3>2. NoRepeats(Append(c, x)) <=> NoRepeats(c) /\ x \notin Range(c)
      BY DistinctAppend
    <3> QED BY <3>1, <3>2
  <2> QED BY <1>2, <2>1, <2>2, <2>3, <2>4, <2>5
<1> HIDE DEF T
<1>3. Seq(S) \subseteq T
  BY <1>1, <1>2, SeqInduction
<1> QED BY <1>3 DEF T

LEMMA EverythingExpanded ==
    ASSUME NEW available \in Seq(ListNames), NEW q \in Seq(Selections)
    PROVE  Expanded(q, available)
<1> DEFINE T == {r \in Seq(Selections) : Expanded(r, available)}
<1>1. <<>> \in T
  <2>1. <<>> \in Seq(Selections) /\ Range(<<>>) = {} /\ DOMAIN <<>> = {}
    BY RangeNone
  <2>2. ExpandGlobPatterns(<<>>, available).matched = <<>>
    BY ExpandSteps DEF Nothing
  <2> QED BY <2>1, <2>2 DEF Expanded, Matching, NoRepeats
<1>2. ASSUME NEW r \in Seq(Selections), NEW x \in Selections, r \in T PROVE Append(r, x) \in T
  <2>1. PICK acc \in ExpandStates : acc = ExpandGlobPatterns(r, available)
    BY ExpandSteps
  <2>2. PICK matched \in Seq(ListNames) : matched = acc.matched
    BY DEF ExpandStates
  <2>3. PICK unmatched \in Seq(Selections) : unmatched = acc.unmatched
    BY DEF ExpandStates
  <2>4. PICK taken \in Seq(ListNames) :
          /\ taken = Taken(x, available, matched)
          /\ Range(taken) = Range(available) \cap (x.matches \ Range(matched))
          /\ NoRepeats(available) => NoRepeats(taken)
    <3>1. /\ Taken(x, available, matched) =
                Chosen(ListNames, x.matches \ Range(matched), available)
          /\ Taken(x, available, matched) \in Seq(ListNames)
          /\ Range(Taken(x, available, matched)) =
                Range(available) \cap (x.matches \ Range(matched))
      BY TakenIs, ZenonT(60)
    <3>2. NoRepeats(available) => NoRepeats(Chosen(ListNames, x.matches \ Range(matched), available))
      BY DistinctChosen
    <3> QED BY <3>1, <3>2
  <2>5. ExpandGlobPatterns(Append(r, x), available) =
          [matched   |-> matched \o taken,
           unmatched |-> IF taken = <<>> THEN Append(unmatched, x) ELSE unmatched]
    <3>1. ExpandGlobPatterns(Append(r, x), available) = ExpandOne(acc, x, available)
      BY <2>1, ExpandSteps
    <3> QED BY <2>2, <2>3, <2>4, <3>1 DEF ExpandOne
  <2>6. Range(Append(r, x)) = Range(r) \cup {x}
    BY RangeAppend
  <2>7. Range(matched \o taken) = Range(matched) \cup Range(taken)
    BY RangeConcat
  <2>8. /\ Range(matched) = Matching(r, available)
        /\ NoRepeats(available) => NoRepeats(matched)
        /\ \A p \in Range(r) : p.matches \cap Range(available) = {} => p \in Range(unmatched)
    BY <1>2, <2>1, <2>2, <2>3 DEF Expanded
  <2>9. Range(matched \o taken) = Matching(Append(r, x), available)
    BY <2>4, <2>6, <2>7, <2>8 DEF Matching
  <2>10. NoRepeats(available) => NoRepeats(matched \o taken)
    <3>1. Range(matched) \cap Range(taken) = {}
      BY <2>4
    <3> QED BY <2>4, <2>8, <3>1, ConcatNoRepeats
  <2>11. Range(Append(unmatched, x)) = Range(unmatched) \cup {x}
    BY RangeAppend
  <2>12. ASSUME NEW p \in Range(Append(r, x)), p.matches \cap Range(available) = {}
         PROVE  p \in Range(IF taken = <<>> THEN Append(unmatched, x) ELSE unmatched)
    <3>1. CASE p \in Range(r)
      BY <2>8, <2>11, <2>12, <3>1
    <3>2. CASE p = x
      <4>1. Range(taken) = {}
        BY <2>4, <2>12, <3>2
      <4>2. taken = <<>>
        <5> SUFFICES ASSUME taken # <<>> PROVE FALSE
          OBVIOUS
        <5>1. 1 \in DOMAIN taken
          BY EmptySeq, LenProperties
        <5> QED BY <4>1, <5>1 DEF Range
      <4> QED BY <2>11, <3>2, <4>2
    <3> QED BY <2>6, <3>1, <3>2
  <2>13. Append(r, x) \in Seq(Selections)
    BY AppendProperties
  <2>14. PICK e : e = ExpandGlobPatterns(Append(r, x), available)
    OBVIOUS
  <2>15. /\ e.matched = matched \o taken
         /\ e.unmatched = IF taken = <<>> THEN Append(unmatched, x) ELSE unmatched
    BY <2>5, <2>14, SMTT(60)
  <2>16. Expanded(Append(r, x), available)
    BY <2>9, <2>10, <2>12, <2>14, <2>15 DEF Expanded
  <2> QED BY <2>13, <2>16
<1> HIDE DEF T
<1>3. Seq(Selections) \subseteq T
  BY <1>1, <1>2, SeqInduction
<1> QED BY <1>3 DEF T

-----------------------------------------------------------------------------
(* Vec::dedup *)
DedupOne(acc, x) == IF acc # <<>> /\ Last(acc) = x THEN acc ELSE Append(acc, x)

Deduping(S) == [p \in Seq(S) \X S |-> DedupOne(p[1], p[2])]

LEMMA DedupingType ==
    ASSUME NEW S
    PROVE  /\ Deduping(S) \in StepsOf(Seq(S), S)
           /\ \A acc \in Seq(S), x \in S : Deduping(S)[<<acc, x>>] = DedupOne(acc, x)
           /\ <<>> \in Seq(S)
<1>1. ASSUME NEW acc \in Seq(S), NEW x \in S PROVE DedupOne(acc, x) \in Seq(S)
  BY AppendProperties DEF DedupOne
<1>2. \A p \in Seq(S) \X S : p[1] \in Seq(S) /\ p[2] \in S /\ DedupOne(p[1], p[2]) \in Seq(S)
  BY <1>1
<1>3. Deduping(S) \in StepsOf(Seq(S), S)
  BY <1>2 DEF Deduping, StepsOf
<1>4. \A acc \in Seq(S), x \in S : Deduping(S)[<<acc, x>>] = DedupOne(acc, x)
  BY DEF Deduping
<1>5. <<>> \in Seq(S)
  OBVIOUS
<1> QED BY <1>3, <1>4, <1>5

LEMMA DedupIsFold ==
    ASSUME NEW S, NEW q \in Seq(S)
    PROVE  Dedup(q) = Fold(Deduping(S), <<>>, q)
<1> DEFINE F == Deduping(S)
           b == <<>>
           E(g) == g = [s \in SUBSET (1 .. Len(q)) |->
                          IF s = {} THEN b ELSE DedupOne(g[s \ {Max(s)}], q[Max(s)])]
           h == CHOOSE g : E(g)
<1>1. /\ DOMAIN q = 1 .. Len(q) /\ Len(q) \in Nat
      /\ \A s \in SUBSET (1 .. Len(q)) : s # {} => q[Max(s)] \in S
  <2>1. DOMAIN q = 1 .. Len(q) /\ Len(q) \in Nat /\ \A k \in 1 .. Len(q) : q[k] \in S
    BY LenProperties
  <2>2. \A s \in SUBSET (1 .. Len(q)) : s # {} => Max(s) \in s
    BY <2>1, MaxOf
  <2> QED BY <2>1, <2>2
<1>2. /\ F \in StepsOf(Seq(S), S) /\ b \in Seq(S)
      /\ \A acc \in Seq(S), x \in S : F[<<acc, x>>] = DedupOne(acc, x)
  BY DedupingType
<1>3. Dedup(q) = h[1 .. Len(q)]
  BY <1>1 DEF Dedup, FoldLeft, MapThenFoldSet, DedupOne
<1> HIDE DEF F, b
<1>4. PICK f \in Runs(Seq(S), F, b, q) : TRUE
  BY <1>2, FoldExists
<1>5. E(f)
  <2>1. \A s \in SUBSET (1 .. Len(q)) :
           f[s] = IF s = {} THEN b ELSE DedupOne(f[s \ {Max(s)}], q[Max(s)])
    BY <1>1, <1>2 DEF Runs
  <2> QED BY <2>1 DEF Runs
<1>6. E(h)
  <2> HIDE DEF E
  <2> QED BY <1>5
<1> HIDE DEF h
<1>7. Follows(h, Seq(S), F, b, q)
  <2>1. h[{}] = b
    BY <1>6
  <2>2. ASSUME NEW s \in SUBSET (1 .. Len(q)), s # {}, h[s \ {Max(s)}] \in Seq(S)
        PROVE  h[s] = F[<<h[s \ {Max(s)}], q[Max(s)]>>]
    <3>1. h[s] = DedupOne(h[s \ {Max(s)}], q[Max(s)])
      BY <1>6, <2>2
    <3> QED BY <1>1, <1>2, <2>2, <3>1
  <2> QED BY <2>1, <2>2 DEF Follows
<1>8. h[1 .. Len(q)] = Fold(F, b, q)
  BY <1>2, <1>7, FoldMeets
<1> QED BY <1>3, <1>8 DEF F, b

LEMMA DedupSteps ==
    ASSUME NEW S
    PROVE  /\ Dedup(<<>>) = <<>>
           /\ \A q \in Seq(S) : Dedup(q) \in Seq(S)
           /\ \A q \in Seq(S), x \in S : Dedup(Append(q, x)) = DedupOne(Dedup(q), x)
<1> DEFINE F == Deduping(S)
<1>1. PICK b \in Seq(S) : b = <<>>
  BY DedupingType
<1>2. /\ F \in StepsOf(Seq(S), S)
      /\ \A acc \in Seq(S), x \in S : F[<<acc, x>>] = DedupOne(acc, x)
  BY DedupingType
<1>3. \A q \in Seq(S) : Dedup(q) = Fold(F, b, q)
  BY <1>1, DedupIsFold
<1> HIDE DEF F
<1>4. /\ Fold(F, b, <<>>) = b
      /\ \A q \in Seq(S) : Fold(F, b, q) \in Seq(S)
      /\ \A q \in Seq(S), x \in S : Fold(F, b, Append(q, x)) = F[<<Fold(F, b, q), x>>]
  BY <1>2, FoldSteps
<1>5. Dedup(<<>>) = <<>>
  BY <1>1, <1>3, <1>4
<1>6. \A q \in Seq(S) : Dedup(q) \in Seq(S)
  BY <1>3, <1>4
<1>7. ASSUME NEW q \in Seq(S), NEW x \in S PROVE Dedup(Append(q, x)) = DedupOne(Dedup(q), x)
  <2>1. Append(q, x) \in Seq(S)
    BY AppendProperties
  <2>2. Dedup(Append(q, x)) = F[<<Fold(F, b, q), x>>]
    BY <1>3, <1>4, <2>1
  <2> QED BY <1>2, <1>3, <1>4, <2>2
<1> QED BY <1>5, <1>6, <1>7

LEMMA DedupKeeps ==
    ASSUME NEW S, NEW q \in Seq(S)
    PROVE  /\ Dedup(q) \in Seq(S) /\ Range(Dedup(q)) = Range(q)
           /\ NoRepeats(q) => Dedup(q) = q
<1> DEFINE T == {r \in Seq(S) : Range(Dedup(r)) = Range(r) /\ (NoRepeats(r) => Dedup(r) = r)}
<1>1. <<>> \in T
  BY DedupSteps
<1>2. ASSUME NEW r \in Seq(S), NEW x \in S, r \in T PROVE Append(r, x) \in T
  <2>1. PICK acc \in Seq(S) : acc = Dedup(r)
    BY DedupSteps
  <2>2. Dedup(Append(r, x)) = DedupOne(acc, x)
    BY <2>1, DedupSteps
  <2>3. /\ Append(r, x) \in Seq(S)
        /\ Range(Append(r, x)) = Range(r) \cup {x}
        /\ NoRepeats(Append(r, x)) <=> NoRepeats(r) /\ x \notin Range(r)
    BY AppendProperties, RangeAppend, DistinctAppend
  <2>4. Range(Append(acc, x)) = Range(acc) \cup {x}
    BY RangeAppend
  <2>5. Range(acc) = Range(r) /\ (NoRepeats(r) => acc = r)
    BY <1>2, <2>1
  <2>6. CASE acc # <<>> /\ Last(acc) = x
    <3>1. x \in Range(acc)
      <4>1. Len(acc) \in DOMAIN acc
        <5>1. Len(acc) \in Nat /\ DOMAIN acc = 1 .. Len(acc) /\ Len(acc) # 0
          BY <2>6, EmptySeq, LenProperties
        <5> QED BY <5>1
      <4> QED BY <2>6, <4>1 DEF Last, Range
    <3>2. DedupOne(acc, x) = acc
      BY <2>6 DEF DedupOne
    <3> QED BY <2>2, <2>3, <2>5, <3>1, <3>2
  <2>7. CASE ~(acc # <<>> /\ Last(acc) = x)
    <3>1. DedupOne(acc, x) = Append(acc, x)
      BY <2>7 DEF DedupOne
    <3> QED BY <2>2, <2>3, <2>4, <2>5, <3>1
  <2> QED BY <2>6, <2>7
<1> HIDE DEF T
<1>3. Seq(S) \subseteq T
  BY <1>1, <1>2, SeqInduction
<1> QED BY <1>3, DedupSteps DEF T

-----------------------------------------------------------------------------
\* What a selection gives, whether or not the server has each list once.
LEMMA ConfiguredGives ==
    ASSUME NEW patterns \in Seq(Selections), NEW available \in Seq(ListNames)
    PROVE  /\ Configured(patterns, available).lists \in Seq(ListNames)
           /\ Range(Configured(patterns, available).lists) = Matching(patterns, available)
           /\ NoRepeats(available) => NoRepeats(Configured(patterns, available).lists)
           /\ Configured(patterns, available).kind = "lists" <=>
                Matching(patterns, available) # {} \/ patterns = <<Star(available)>>
           /\ \A p \in Range(patterns) : p.matches \cap Range(available) = {} =>
                p \in Range(ExpandGlobPatterns(Dedup(patterns), available).unmatched)
<1>1. PICK q \in Seq(Selections) : q = Dedup(patterns) /\ Range(q) = Range(patterns)
  BY DedupKeeps
<1>2. PICK e \in ExpandStates : e = ExpandGlobPatterns(q, available)
  BY ExpandSteps
<1>3. PICK matched \in Seq(ListNames) : matched = e.matched
  BY DEF ExpandStates
<1>4. Expanded(q, available)
  BY EverythingExpanded
<1>5. /\ Range(matched) = Matching(patterns, available)
      /\ NoRepeats(available) => NoRepeats(matched)
      /\ \A p \in Range(patterns) : p.matches \cap Range(available) = {} => p \in Range(e.unmatched)
  BY <1>1, <1>2, <1>3, <1>4 DEF Expanded, Matching
<1>6. Configured(patterns, available) =
         IF patterns = <<Star(available)>> THEN Lists(available)
         ELSE IF matched = <<>> THEN Stops("AllListsUnavailable") ELSE Lists(matched)
  BY <1>1, <1>2, <1>3 DEF Configured
<1>7. CASE patterns = <<Star(available)>>
  <2>1. Configured(patterns, available) = [kind |-> "lists", lists |-> available]
    BY <1>6, <1>7 DEF Lists
  <2>2. Matching(patterns, available) = Range(available)
    <3>1. PICK p : p = Star(available)
      OBVIOUS
    <3>2. Range(<<p>>) = {p}
      BY RangeOne
    <3>3. p.matches = Range(available)
      BY <3>1 DEF Star
    <3> QED BY <1>7, <3>1, <3>2, <3>3 DEF Matching
  <2> QED BY <1>1, <1>2, <1>5, <1>7, <2>1, <2>2
<1>8. CASE patterns # <<Star(available)>> /\ matched = <<>>
  <2>1. Configured(patterns, available) = [kind |-> "AllListsUnavailable", lists |-> matched]
    BY <1>6, <1>8 DEF Stops
  <2>2. Matching(patterns, available) = {}
    BY <1>5, <1>8, RangeNone
  <2> QED BY <1>1, <1>2, <1>5, <1>8, <2>1, <2>2
<1>9. CASE patterns # <<Star(available)>> /\ matched # <<>>
  <2>1. Configured(patterns, available) = [kind |-> "lists", lists |-> matched]
    BY <1>6, <1>9 DEF Lists
  <2>2. Matching(patterns, available) # {}
    <3>1. 1 \in DOMAIN matched
      BY <1>9, EmptySeq, LenProperties
    <3> QED BY <1>5, <3>1, ZenonT(60) DEF Range
  <2> QED BY <1>1, <1>2, <1>5, <1>9, <2>1, <2>2
<1> QED BY <1>7, <1>8, <1>9

(***************************************************************************)
(* config.rs, get_read_lists: of the lists of a server that has each once, *)
(* whatever selection yields those it matches, each once.                  *)
(***************************************************************************)
THEOREM ListsOnce ==
    ASSUME NEW patterns \in Seq(Selections), NEW available \in Seq(ListNames), NoRepeats(available)
    PROVE  EachListOnce(patterns, available)
<1> DEFINE result == Configured(patterns, available)
           some == {list \in Range(available) :
                      \E k \in DOMAIN patterns : list \in patterns[k].matches}
<1>1. some = Matching(patterns, available)
  BY DEF Matching, Range
<1>2. /\ result.lists \in Seq(ListNames)
      /\ Range(result.lists) = some
      /\ NoRepeats(result.lists)
      /\ result.kind = "lists" <=> some # {} \/ patterns = <<Star(available)>>
      /\ \A p \in Range(patterns) : p.matches \cap Range(available) = {} =>
           p \in Range(ExpandGlobPatterns(Dedup(patterns), available).unmatched)
  BY <1>1, ConfiguredGives
<1>3. Len(result.lists) = Cardinality(some)
  <2>1. PICK lists \in Seq(ListNames) : lists = result.lists
    BY <1>2
  <2>2. NoRepeats(lists) /\ Range(lists) = some
    BY <1>2, <2>1
  <2>3. Cardinality(Range(lists)) = Len(lists)
    BY <2>2, LenIsCardinality
  <2> QED BY <2>1, <2>2, <2>3
<1>4. \A k \in DOMAIN patterns : patterns[k] \in Range(patterns)
  BY DEF Range
<1> QED BY <1>2, <1>3, <1>4 DEF EachListOnce

\* Of the configured sources.
SourceTypes == [mode : {"NNTP", "PublicInbox"}, valid : BOOLEAN, reachable : BOOLEAN,
                available : Seq(ListNames), patterns : Seq(Selections)]

(***************************************************************************)
(* worker.rs, start: every source that is started has a worker, and lists  *)
(* of its own only.                                                        *)
(***************************************************************************)
THEOREM SourcesServed ==
    \A sources \in Seq(SourceTypes), nthreads \in Nat : EverySourceServed(sources, nthreads)
<1> SUFFICES ASSUME NEW sources \in Seq(SourceTypes), NEW nthreads \in Nat,
                    Start(sources, nthreads) # <<>>
             PROVE  /\ DOMAIN Start(sources, nthreads) = DOMAIN sources
                    /\ \A k \in DOMAIN sources :
                         /\ Start(sources, nthreads)[k].workers >= 1
                         /\ Range(Start(sources, nthreads)[k].tasks) \subseteq Range(sources[k].available)
  BY DEF EverySourceServed
<1>1. Start(sources, nthreads) = [k \in DOMAIN sources |-> CreateWorkers(sources[k], nthreads)]
  BY DEF Start
<1>2. ASSUME NEW k \in DOMAIN sources
      PROVE  /\ CreateWorkers(sources[k], nthreads).workers >= 1
             /\ Range(CreateWorkers(sources[k], nthreads).tasks) \subseteq Range(sources[k].available)
  <2>1. sources[k] \in SourceTypes
    BY LenProperties
  <2>2. PICK patterns \in Seq(Selections) : patterns = sources[k].patterns
    BY <2>1 DEF SourceTypes
  <2>3. PICK available \in Seq(ListNames) : available = sources[k].available
    BY <2>1 DEF SourceTypes
  <2>4. Range(Configured(patterns, available).lists) = Matching(patterns, available)
    BY ConfiguredGives
  <2>5. Matching(patterns, available) \subseteq Range(available)
    BY DEF Matching
  <2>6. NumWorkers(nthreads) >= 1
    BY DEF NumWorkers
  <2> QED BY <2>2, <2>3, <2>4, <2>5, <2>6 DEF CreateWorkers
<1> QED BY <1>1, <1>2

-----------------------------------------------------------------------------
\* A filter looks at the elements of the sequence only.
LEMMA ChosenSame ==
    ASSUME NEW S, NEW P, NEW Q, NEW q \in Seq(S), Range(q) \cap P = Range(q) \cap Q
    PROVE  Chosen(S, P, q) = Chosen(S, Q, q)
<1> DEFINE T == {r \in Seq(S) : Range(r) \cap P = Range(r) \cap Q => Chosen(S, P, r) = Chosen(S, Q, r)}
<1> HIDE DEF T
<1>p. \A r \in Seq(S), x \in S :
         /\ x \in P => Chosen(S, P, Append(r, x)) = Append(Chosen(S, P, r), x)
         /\ x \notin P => Chosen(S, P, Append(r, x)) = Chosen(S, P, r)
  BY ChosenSteps
<1>q. \A r \in Seq(S), x \in S :
         /\ x \in Q => Chosen(S, Q, Append(r, x)) = Append(Chosen(S, Q, r), x)
         /\ x \notin Q => Chosen(S, Q, Append(r, x)) = Chosen(S, Q, r)
  BY ChosenSteps
<1> USE DEF T
<1>1. <<>> \in T
  <2>1. <<>> \in Seq(S)
    OBVIOUS
  <2> QED BY <2>1, ChosenSteps
<1>2. ASSUME NEW r \in Seq(S), NEW x \in S, r \in T PROVE Append(r, x) \in T
  <2>1. Append(r, x) \in Seq(S) /\ Range(Append(r, x)) = Range(r) \cup {x}
    BY AppendProperties, RangeAppend
  <2> SUFFICES ASSUME Range(Append(r, x)) \cap P = Range(Append(r, x)) \cap Q
               PROVE  Chosen(S, P, Append(r, x)) = Chosen(S, Q, Append(r, x))
    BY <2>1
  <2>2. Range(r) \cap P = Range(r) \cap Q /\ (x \in P <=> x \in Q)
    BY <2>1
  <2>3. Chosen(S, P, r) = Chosen(S, Q, r)
    BY <1>2, <2>2
  <2>4. /\ x \in P => Chosen(S, P, Append(r, x)) = Append(Chosen(S, P, r), x)
        /\ x \notin P => Chosen(S, P, Append(r, x)) = Chosen(S, P, r)
    BY <1>p
  <2>5. /\ x \in Q => Chosen(S, Q, Append(r, x)) = Append(Chosen(S, Q, r), x)
        /\ x \notin Q => Chosen(S, Q, Append(r, x)) = Chosen(S, Q, r)
    BY <1>q
  <2> QED BY <2>2, <2>3, <2>4, <2>5
<1> HIDE DEF T
<1>3. Seq(S) \subseteq T
  BY <1>1, <1>2, SeqInduction
<1> QED BY <1>3 DEF T

LEMMA ChosenSingle ==
    ASSUME NEW S, NEW q \in Seq(S), NoRepeats(q), NEW x \in Range(q)
    PROVE  Chosen(S, {x}, q) = <<x>>
<1>1. PICK c \in Seq(S \cap {x}) : c = Chosen(S, {x}, q)
  BY ChosenSteps
<1>2. Range(c) = {x} /\ NoRepeats(c)
  <2>1. Range(c) = Range(q) \cap {x} /\ NoRepeats(c)
    BY <1>1, RangeChosen, DistinctChosen
  <2> QED BY <2>1
<1>3. Cardinality({x}) = 1
  BY FS_Singleton
<1>4. Len(c) = 1
  <2>1. Cardinality(Range(c)) = Len(c)
    BY <1>2, LenIsCardinality
  <2> QED BY <1>2, <1>3, <2>1
<1>5. c[1] = x
  <2>1. 1 \in DOMAIN c
    BY <1>4, LenProperties
  <2> QED BY <1>2, <2>1 DEF Range
<1>6. c = <<x>>
  <2>1. x \in S
    <3>1. \A k \in DOMAIN q : q[k] \in S
      BY LenProperties
    <3> QED BY <3>1 DEF Range
  <2>2. <<x>> \in Seq(S) /\ c \in Seq(S) /\ Len(<<x>>) = 1 /\ <<x>>[1] = x
    BY <1>1, <2>1
  <2>3. \A k \in 1 .. 1 : c[k] = <<x>>[k]
    BY <1>5, <2>2
  <2> QED BY <1>4, <2>2, <2>3, SeqEqual
<1> QED BY <1>1, <1>6

LEMMA SavedSteps ==
    /\ Saved(<<>>) = <<>>
    /\ \A r \in Seq(ListNames) : Saved(r) \in Seq(Selections) /\ Len(Saved(r)) = Len(r)
    /\ \A r \in Seq(ListNames), x \in ListNames : Saved(Append(r, x)) = Append(Saved(r), Exactly(x))
<1>1. \A x \in ListNames : Exactly(x) \in Selections
  BY DEF Exactly, Selections
<1>2. Saved(<<>>) = <<>>
  BY DEF Saved
<1>3. ASSUME NEW r \in Seq(ListNames)
      PROVE  /\ Saved(r) \in Seq(Selections) /\ Len(Saved(r)) = Len(r)
             /\ \A k \in 1 .. Len(r) : Saved(r)[k] = Exactly(r[k])
  <2>1. DOMAIN r = 1 .. Len(r) /\ Len(r) \in Nat /\ \A k \in 1 .. Len(r) : r[k] \in ListNames
    BY LenProperties
  <2>2. Saved(r) = [k \in 1 .. Len(r) |-> Exactly(r[k])]
    BY <2>1 DEF Saved
  <2>3. Saved(r) \in [1 .. Len(r) -> Selections]
    BY <1>1, <2>1, <2>2
  <2>4. \A n \in Nat : \A f \in [1 .. n -> Selections] : f \in Seq(Selections) /\ Len(f) = n
    OBVIOUS
  <2> QED BY <2>1, <2>2, <2>3, <2>4
<1>4. ASSUME NEW r \in Seq(ListNames), NEW x \in ListNames
      PROVE  Saved(Append(r, x)) = Append(Saved(r), Exactly(x))
  <2>1. PICK t \in Seq(ListNames) : t = Append(r, x)
    BY AppendProperties
  <2>2. /\ Len(t) = Len(r) + 1 /\ Len(r) \in Nat
        /\ \A k \in 1 .. Len(r) : t[k] = r[k]
        /\ t[Len(r) + 1] = x
    <3>1. /\ Len(Append(r, x)) = Len(r) + 1
          /\ \A k \in 1 .. Len(r) : Append(r, x)[k] = r[k]
          /\ Append(r, x)[Len(r) + 1] = x
      BY AppendProperties
    <3>2. Len(r) \in Nat
      BY LenProperties
    <3> QED BY <2>1, <3>1, <3>2
  <2>3. PICK u \in Seq(Selections) : u = Saved(t) /\ Len(u) = Len(t)
                                     /\ \A k \in 1 .. Len(t) : u[k] = Exactly(t[k])
    BY <1>3
  <2>4. PICK v \in Seq(Selections) : v = Saved(r) /\ Len(v) = Len(r)
                                     /\ \A k \in 1 .. Len(r) : v[k] = Exactly(r[k])
    BY <1>3
  <2>5. PICK y \in Selections : y = Exactly(x)
    BY <1>1
  <2>6. /\ Append(v, y) \in Seq(Selections) /\ Len(Append(v, y)) = Len(v) + 1
        /\ \A k \in 1 .. Len(v) : Append(v, y)[k] = v[k]
        /\ Append(v, y)[Len(v) + 1] = y
    BY AppendProperties
  <2>7. \A k \in 1 .. Len(t) : u[k] = Append(v, y)[k]
    <3> SUFFICES ASSUME NEW k \in 1 .. Len(t) PROVE u[k] = Append(v, y)[k]
      OBVIOUS
    <3>1. CASE k \in 1 .. Len(r)
      BY <2>2, <2>3, <2>4, <2>6, <3>1
    <3>2. CASE k = Len(r) + 1
      BY <2>2, <2>3, <2>4, <2>5, <2>6, <3>2
    <3>3. \A n \in Nat : \A i \in 1 .. n + 1 : i \in 1 .. n \/ i = n + 1
      OBVIOUS
    <3> QED BY <2>2, <3>1, <3>2, <3>3
  <2>8. u = Append(v, y)
    BY <2>2, <2>3, <2>4, <2>6, <2>7, SeqEqual
  <2> QED BY <2>1, <2>3, <2>4, <2>5, <2>8
<1> QED BY <1>2, <1>3, <1>4

LEMMA ExactlyApart ==
    \A x, y : Exactly(x) = Exactly(y) => x = y
<1>1. \A x : Exactly(x).name = x
  BY DEF Exactly
<1> QED BY <1>1

LEMMA RangeSaved ==
    ASSUME NEW r \in Seq(ListNames)
    PROVE  /\ Range(Saved(r)) = {Exactly(x) : x \in Range(r)}
           /\ NoRepeats(r) => NoRepeats(Saved(r))
<1>1. DOMAIN Saved(r) = DOMAIN r /\ \A k \in DOMAIN r : Saved(r)[k] = Exactly(r[k])
  BY DEF Saved
<1> QED BY <1>1, ExactlyApart DEF Range, NoRepeats

\* The lists a saved selection matches are the lists saved that the server
\* still has, in the order they were saved in.
LEMMA SavedMatches ==
    ASSUME NEW later \in Seq(ListNames), NoRepeats(later), NEW r \in Seq(ListNames), NoRepeats(r)
    PROVE  ExpandGlobPatterns(Saved(r), later).matched = Chosen(ListNames, Range(later), r)
<1> DEFINE Left(q) == Chosen(ListNames, Range(later), q)
           T == {q \in Seq(ListNames) : NoRepeats(q) =>
                    ExpandGlobPatterns(Saved(q), later).matched = Left(q)}
<1> HIDE DEF T, Left
<1>l. /\ Left(<<>>) = <<>>
      /\ \A q \in Seq(ListNames) :
           Left(q) \in Seq(ListNames \cap Range(later)) /\ Range(Left(q)) = Range(q) \cap Range(later)
      /\ \A q \in Seq(ListNames), x \in ListNames :
           /\ x \in Range(later) => Left(Append(q, x)) = Append(Left(q), x)
           /\ x \notin Range(later) => Left(Append(q, x)) = Left(q)
  <2>1. PICK L : L = Range(later)
    OBVIOUS
  <2>2. \A q : Left(q) = Chosen(ListNames, L, q)
    BY <2>1 DEF Left
  <2>3. Chosen(ListNames, L, <<>>) = <<>>
    BY ChosenSteps
  <2>4. \A q \in Seq(ListNames) : Chosen(ListNames, L, q) \in Seq(ListNames \cap L)
    BY ChosenSteps
  <2>5. \A q \in Seq(ListNames) : Range(Chosen(ListNames, L, q)) = Range(q) \cap L
    BY RangeChosen
  <2>6. \A q \in Seq(ListNames), x \in ListNames :
          /\ x \in L => Chosen(ListNames, L, Append(q, x)) = Append(Chosen(ListNames, L, q), x)
          /\ x \notin L => Chosen(ListNames, L, Append(q, x)) = Chosen(ListNames, L, q)
    BY ChosenSteps
  <2> QED BY <2>1, <2>2, <2>3, <2>4, <2>5, <2>6
<1> USE DEF T
<1>1. <<>> \in T
  <2>1. <<>> \in Seq(ListNames)
    OBVIOUS
  <2>2. ExpandGlobPatterns(Saved(<<>>), later).matched = <<>>
    BY SavedSteps, ExpandSteps DEF Nothing
  <2> QED BY <2>1, <2>2, <1>l
<1>2. ASSUME NEW q \in Seq(ListNames), NEW x \in ListNames, q \in T PROVE Append(q, x) \in T
  <2>1. Append(q, x) \in Seq(ListNames)
    BY AppendProperties
  <2> SUFFICES ASSUME NoRepeats(Append(q, x))
               PROVE  ExpandGlobPatterns(Saved(Append(q, x)), later).matched = Left(Append(q, x))
    BY <2>1
  <2>2. NoRepeats(q) /\ x \notin Range(q)
    BY DistinctAppend
  <2>3. PICK c \in Seq(ListNames) : c = Left(q) /\ x \notin Range(c)
    <3>1. Left(q) \in Seq(ListNames \cap Range(later)) /\ Range(Left(q)) = Range(q) \cap Range(later)
      BY <1>l
    <3>2. Left(q) \in Seq(ListNames)
      <4>1. \A e \in Seq(ListNames \cap Range(later)) : e \in Seq(ListNames)
        OBVIOUS
      <4> QED BY <3>1, <4>1
    <3> QED BY <2>2, <3>1, <3>2
  <2>4. PICK saved \in Seq(Selections) : saved = Saved(q)
    BY SavedSteps
  <2>5. PICK pattern \in Selections : pattern = Exactly(x)
    BY DEF Exactly, Selections
  <2>6. PICK acc \in ExpandStates : acc = ExpandGlobPatterns(saved, later)
    BY ExpandSteps
  <2>7. acc.matched = c
    BY <1>2, <2>2, <2>3, <2>4, <2>6
  <2>8. ExpandGlobPatterns(Saved(Append(q, x)), later) = ExpandOne(acc, pattern, later)
    <3>1. Saved(Append(q, x)) = Append(saved, pattern)
      BY <2>4, <2>5, SavedSteps
    <3>2. ExpandGlobPatterns(Append(saved, pattern), later) =
            ExpandOne(ExpandGlobPatterns(saved, later), pattern, later)
      BY ExpandSteps
    <3> QED BY <2>6, <3>1, <3>2
  <2>9. Taken(pattern, later, c) = IF x \in Range(later) THEN <<x>> ELSE <<>>
    <3>1. Taken(pattern, later, c) = Chosen(ListNames, pattern.matches \ Range(c), later)
      BY TakenIs
    <3>2. pattern.matches \ Range(c) = {x}
      BY <2>3, <2>5 DEF Exactly
    <3>3. x \in Range(later) => Chosen(ListNames, {x}, later) = <<x>>
      BY ChosenSingle
    <3>4. x \notin Range(later) => Chosen(ListNames, {x}, later) = <<>>
      <4>1. x \notin Range(later) => Range(later) \cap {x} = {}
        OBVIOUS
      <4> QED BY <4>1, ChosenAllOrNone
    <3> QED BY <3>1, <3>2, <3>3, <3>4
  <2>10. ExpandOne(acc, pattern, later).matched = c \o (IF x \in Range(later) THEN <<x>> ELSE <<>>)
    BY <2>7, <2>9 DEF ExpandOne
  <2>11. c \o <<x>> = Append(c, x) /\ c \o <<>> = c
    BY AppendIsConcat, ConcatEmptySeq
  <2>12. Left(Append(q, x)) = IF x \in Range(later) THEN Append(c, x) ELSE c
    BY <2>3, <1>l
  <2> QED BY <2>8, <2>10, <2>11, <2>12
<1> HIDE DEF T
<1>3. Seq(ListNames) \subseteq T
  BY <1>1, <1>2, SeqInduction
<1> QED BY <1>3 DEF T, Left

LEMMA SavedRestores ==
    ASSUME NEW later \in Seq(ListNames), NoRepeats(later), NEW r \in Seq(ListNames),
           NoRepeats(r), r # <<>>, "*" \notin Range(r)
    PROVE  Configured(Saved(r), later) =
             IF Chosen(ListNames, Range(later), r) = <<>> THEN Stops("AllListsUnavailable")
             ELSE Lists(Chosen(ListNames, Range(later), r))
<1>1. PICK saved \in Seq(Selections) : saved = Saved(r) /\ Len(saved) = Len(r)
  BY SavedSteps
<1>2. Dedup(saved) = saved
  BY <1>1, RangeSaved, DedupKeeps
<1>3. ExpandGlobPatterns(saved, later).matched = Chosen(ListNames, Range(later), r)
  BY <1>1, SavedMatches
<1>4. saved # <<Star(later)>>
  <2>1. 1 \in DOMAIN r
    BY EmptySeq, LenProperties
  <2>2. saved[1] = Exactly(r[1]) /\ r[1] \in Range(r)
    BY <1>1, <2>1 DEF Saved, Range
  <2>3. Exactly(r[1]).name # "*"
    BY <2>2 DEF Exactly
  <2>4. <<Star(later)>>[1].name = "*"
    BY DEF Star
  <2> QED BY <2>2, <2>3, <2>4
<1> QED BY <1>1, <1>2, <1>3, <1>4 DEF Configured

LEMMA WithoutIs ==
    ASSUME NEW seq \in Seq(ListNames), NEW gone
    PROVE  Without(seq, gone) = Chosen(ListNames, ListNames \ gone, seq)
<1>1. \A k \in DOMAIN seq : seq[k] \in ListNames
  BY LenProperties
<1>2. \A k \in DOMAIN seq :
         OneOrNone(ListNames, ListNames \ gone)[seq[k]] =
           IF seq[k] \notin gone THEN <<seq[k]>> ELSE <<>>
  BY <1>1 DEF OneOrNone
<1> QED BY <1>2 DEF Without, Filter, Chosen, FlatMap, Mapped

(***************************************************************************)
(* config.rs: what was chosen from the lists of a server, "*" at most as   *)
(* the first choice, is what the next run reads as far as the server still *)
(* has it, whatever lists it has lost or has more by then.                 *)
(***************************************************************************)
THEOREM ChoicesRestored ==
    ASSUME NEW available \in Seq(ListNames), NEW more \in Seq(ListNames),
           NoRepeats(available \o more), NoRepeats(available), "*" \notin Range(available),
           NEW picks \in Seq({"*"} \cup Range(available)), NoRepeats(picks),
           \A k \in DOMAIN picks : picks[k] = "*" => k = 1
    PROVE  SelectionRestored(picks, available, more)
<1> DEFINE answer == IF picks[1] = "*" THEN available ELSE picks
<1> SUFFICES ASSUME Interactive(picks, available).kind = "lists",
                    NEW gone \in SUBSET Range(available)
             PROVE  Configured(Saved(Interactive(picks, available).lists),
                               Without(available \o more, gone)) =
                      IF Without(answer, gone) = <<>> THEN Stops("AllListsUnavailable")
                      ELSE Lists(Without(answer, gone))
  BY DEF SelectionRestored
<1>1. picks # <<>> /\ answer # <<>> /\ Interactive(picks, available).lists = answer
  BY DEF Interactive, Stops, Lists
<1>2. PICK all \in Seq(ListNames) : all = available \o more
  BY ConcatProperties
<1>3. Range(all) = Range(available) \cup Range(more)
  BY <1>2, RangeConcat
<1>4. DOMAIN picks = 1 .. Len(picks) /\ Len(picks) \in Nat
      /\ \A k \in 1 .. Len(picks) : picks[k] \in {"*"} \cup Range(available)
  BY LenProperties
<1>5. Range(available) \subseteq ListNames
  <2>1. \A k \in DOMAIN available : available[k] \in ListNames
    BY LenProperties
  <2> QED BY <2>1 DEF Range
<1>6. /\ answer \in Seq(ListNames) /\ NoRepeats(answer)
      /\ Range(answer) \subseteq Range(available) /\ "*" \notin Range(answer)
  <2>1. CASE picks[1] = "*"
    BY <2>1
  <2>2. CASE picks[1] # "*"
    <3>1. \A k \in 1 .. Len(picks) : picks[k] \in Range(available) /\ picks[k] # "*"
      BY <1>4, <2>2
    <3>2. picks \in Seq(ListNames)
      <4>1. picks \in [1 .. Len(picks) -> ListNames]
        <5>1. picks = [k \in 1 .. Len(picks) |-> picks[k]]
          BY <1>4
        <5> QED BY <1>5, <3>1, <5>1
      <4>2. \A n \in Nat : \A f \in [1 .. n -> ListNames] : f \in Seq(ListNames)
        OBVIOUS
      <4> QED BY <1>4, <4>1, <4>2
    <3>3. Range(picks) \subseteq Range(available) /\ "*" \notin Range(picks)
      BY <1>4, <3>1 DEF Range
    <3> QED BY <2>2, <3>2, <3>3
  <2> QED BY <2>1, <2>2
<1> HIDE DEF answer
<1>7. PICK later \in Seq(ListNames) :
        /\ later = Without(all, gone) /\ NoRepeats(later)
        /\ Range(later) = Range(all) \ gone
  <2> DEFINE c == Chosen(ListNames, ListNames \ gone, all)
  <2>1. c \in Seq(ListNames \cap (ListNames \ gone)) /\ Range(c) = Range(all) \cap (ListNames \ gone)
    BY ChosenSteps, RangeChosen
  <2>2. NoRepeats(c)
    BY <1>2, DistinctChosen
  <2>3. c = Without(all, gone)
    BY WithoutIs
  <2> HIDE DEF c
  <2>4. \A e \in Seq(ListNames \cap (ListNames \ gone)) : e \in Seq(ListNames)
    OBVIOUS
  <2>5. Range(all) \subseteq ListNames
    <3>1. \A k \in DOMAIN all : all[k] \in ListNames
      BY LenProperties
    <3> QED BY <3>1 DEF Range
  <2> QED BY <2>1, <2>2, <2>3, <2>4, <2>5
<1>8. Chosen(ListNames, Range(later), answer) = Without(answer, gone)
  <2>1. Range(answer) \cap Range(later) = Range(answer) \cap (ListNames \ gone)
    BY <1>3, <1>5, <1>6, <1>7
  <2>2. Chosen(ListNames, Range(later), answer) = Chosen(ListNames, ListNames \ gone, answer)
    <3>1. PICK L, K : L = Range(later) /\ K = ListNames \ gone
      OBVIOUS
    <3>2. answer \in Seq(ListNames) /\ Range(answer) \cap L = Range(answer) \cap K
      BY <1>6, <2>1, <3>1
    <3>3. Chosen(ListNames, L, answer) = Chosen(ListNames, K, answer)
      BY <3>2, ChosenSame
    <3> QED BY <3>1, <3>3
  <2> QED BY <1>6, <2>2, WithoutIs
<1> QED BY <1>1, <1>2, <1>6, <1>7, <1>8, SavedRestores

-----------------------------------------------------------------------------
(***************************************************************************)
(* The batch mode of check_nntp.                                           *)
(***************************************************************************)
GroupTypes == [name : ListNames, rank : Nat, selectable : BOOLEAN, articles : SUBSET Nat]

\* No two groups of a sequence have one rank.
RanksApart(q) == \A i, j \in DOMAIN q : q[i].rank = q[j].rank => i = j

RankOf == [g \in GroupTypes |-> g.rank]

LEMMA RankOfType == RankOf \in [GroupTypes -> Nat] /\ \A g \in GroupTypes : RankOf[g] = g.rank
BY DEF RankOf, GroupTypes

LEMMA FilterByGlobType ==
    ASSUME NEW groups \in Seq(GroupTypes), RanksApart(groups), NEW pattern \in Selections
    PROVE  FilterByGlob(groups, pattern) \in Seq(GroupTypes)
<1> DEFINE P == {g \in GroupTypes : g.name \in pattern.matches}
           Sorted(c, t) == /\ t \in [DOMAIN c -> Range(c)]
                           /\ Range(t) = Range(c)
                           /\ \A i, j \in DOMAIN t : i < j => t[i].rank < t[j].rank
<1>1. \A k \in DOMAIN groups : groups[k] \in GroupTypes
  BY LenProperties
<1>2. Filter(groups, LAMBDA g : g.name \in pattern.matches) = Chosen(GroupTypes, P, groups)
  <2>1. \A k \in DOMAIN groups :
           OneOrNone(GroupTypes, P)[groups[k]] =
             IF groups[k].name \in pattern.matches THEN <<groups[k]>> ELSE <<>>
    BY <1>1 DEF OneOrNone
  <2> QED BY <2>1 DEF Filter, Chosen, FlatMap, Mapped
<1>3. \A a, b \in Range(groups) : a.rank = b.rank => a = b
  BY DEF RanksApart, Range
<1>4. NoRepeats(groups)
  BY DEF RanksApart, NoRepeats
<1>5. PICK c \in Seq(GroupTypes) : c = Chosen(GroupTypes, P, groups)
  <2>1. Chosen(GroupTypes, P, groups) \in Seq(GroupTypes \cap P)
    BY ChosenSteps
  <2>2. \A c \in Seq(GroupTypes \cap P) : c \in Seq(GroupTypes)
    OBVIOUS
  <2> QED BY <2>1, <2>2
<1>6. NoRepeats(c) /\ Range(c) \subseteq Range(groups)
  <2>1. Range(c) = Range(groups) \cap P
    BY <1>5, RangeChosen
  <2>2. NoRepeats(c)
    BY <1>4, <1>5, DistinctChosen
  <2> QED BY <2>1, <2>2
<1>7. /\ DOMAIN c = 1 .. Len(c) /\ Len(c) \in Nat
      /\ \A k \in DOMAIN c : c[k] \in GroupTypes /\ c[k] \in Range(c)
  BY LenProperties DEF Range
<1>8. Ranked(RankOf, c)
  BY <1>3, <1>6, <1>7, RankOfType, SMTT(60) DEF Ranked, NoRepeats
<1>9. PICK t : Arranges(RankOf, c, t)
  BY <1>8, RankOfType, ArrangementExists
<1>10. Range(c) \subseteq GroupTypes
  BY <1>7 DEF Range
<1>11. Sorted(c, t)
  <2>1. /\ t \in [DOMAIN c -> Range(c)] /\ Range(t) = Range(c)
        /\ \A i, j \in DOMAIN t : i < j => RankOf[t[i]] < RankOf[t[j]]
    BY <1>9 DEF Arranges
  <2>2. \A i \in DOMAIN t : RankOf[t[i]] = t[i].rank
    BY <1>10, <2>1, RankOfType
  <2> QED BY <2>1, <2>2
<1>12. FilterByGlob(groups, pattern) =
          CHOOSE u \in [DOMAIN c -> Range(c)] :
            Range(u) = Range(c) /\ \A i, j \in DOMAIN u : i < j => u[i].rank < u[j].rank
  BY <1>2, <1>5 DEF FilterByGlob, SortBy
<1>13. Sorted(c, FilterByGlob(groups, pattern))
  BY <1>11, <1>12
<1>14. \A n \in Nat : \A f \in [1 .. n -> GroupTypes] : f \in Seq(GroupTypes)
  OBVIOUS
<1>15. FilterByGlob(groups, pattern) \in [1 .. Len(c) -> GroupTypes]
  BY <1>7, <1>10, <1>13
<1> QED BY <1>7, <1>14, <1>15

ShownStates == [connected : BOOLEAN, shown : Seq(Nat)]

Unshown == [connected |-> TRUE, shown |-> <<>>]

Showing(ids) == [p \in ShownStates \X GroupTypes |-> ShowGroup(p[1], p[2], ids)]

ShownOf(ids) == [g \in GroupTypes |-> Chosen(Nat, g.articles, ids)]

LEMMA ShownOfIs ==
    ASSUME NEW ids \in Seq(Nat)
    PROVE  /\ ShownOf(ids) \in Maps(GroupTypes, Nat)
           /\ \A g \in GroupTypes : Filter(ids, LAMBDA id : id \in g.articles) = ShownOf(ids)[g]
<1>1. ASSUME NEW g \in GroupTypes
      PROVE  /\ Chosen(Nat, g.articles, ids) \in Seq(Nat)
             /\ Filter(ids, LAMBDA id : id \in g.articles) = Chosen(Nat, g.articles, ids)
  <2>1. PICK P \in SUBSET Nat : P = g.articles
    BY DEF GroupTypes
  <2>2. Chosen(Nat, P, ids) \in Seq(Nat \cap P)
    BY ChosenSteps
  <2>3. \A c \in Seq(Nat \cap P) : c \in Seq(Nat)
    OBVIOUS
  <2>4. Filter(ids, LAMBDA id : id \in g.articles) = Chosen(Nat, P, ids)
    <3>1. \A k \in DOMAIN ids : ids[k] \in Nat
      BY LenProperties
    <3>2. \A k \in DOMAIN ids :
             OneOrNone(Nat, P)[ids[k]] = IF ids[k] \in g.articles THEN <<ids[k]>> ELSE <<>>
      BY <2>1, <3>1 DEF OneOrNone
    <3> QED BY <3>2 DEF Filter, Chosen, FlatMap, Mapped
  <2> QED BY <2>1, <2>2, <2>3, <2>4
<1>2. ShownOf(ids) \in Maps(GroupTypes, Nat)
  BY <1>1 DEF ShownOf, Maps
<1> QED BY <1>1, <1>2 DEF ShownOf

\* fetch_and_display_articles
LEMMA ShowGroupIs ==
    ASSUME NEW ids \in Seq(Nat), NEW acc \in ShownStates, NEW g \in GroupTypes
    PROVE  /\ ShowGroup(acc, g, ids) \in ShownStates
           /\ acc.connected /\ g.selectable =>
                ShowGroup(acc, g, ids) =
                  [connected |-> TRUE, shown |-> acc.shown \o ShownOf(ids)[g]]
           /\ ~(acc.connected /\ g.selectable) =>
                ShowGroup(acc, g, ids) = [connected |-> FALSE, shown |-> acc.shown]
<1>1. acc.connected \in BOOLEAN /\ acc.shown \in Seq(Nat) /\ g.selectable \in BOOLEAN
      /\ acc = [connected |-> acc.connected, shown |-> acc.shown]
  BY DEF ShownStates, GroupTypes
<1>2. PICK more \in Seq(Nat) : more = ShownOf(ids)[g]
  BY ShownOfIs DEF Maps
<1>3. Filter(ids, LAMBDA id : id \in g.articles) = more
  BY <1>2, ShownOfIs
<1>4. CASE acc.connected /\ g.selectable
  <2>1. ShowGroup(acc, g, ids) = [acc EXCEPT !.shown = @ \o more]
    BY <1>3, <1>4 DEF ShowGroup
  <2>2. ShowGroup(acc, g, ids) = [connected |-> TRUE, shown |-> acc.shown \o more]
    BY <1>1, <1>4, <2>1
  <2>3. acc.shown \o more \in Seq(Nat)
    BY <1>1
  <2> QED BY <1>2, <1>4, <2>2, <2>3 DEF ShownStates
<1>5. CASE ~(acc.connected /\ g.selectable)
  <2>1. ShowGroup(acc, g, ids) = [acc EXCEPT !.connected = FALSE]
    BY <1>5 DEF ShowGroup
  <2>2. ShowGroup(acc, g, ids) = [connected |-> FALSE, shown |-> acc.shown]
    BY <1>1, <2>1
  <2> QED BY <1>1, <1>5, <2>2 DEF ShownStates
<1> QED BY <1>4, <1>5

LEMMA ShowingType ==
    ASSUME NEW ids \in Seq(Nat)
    PROVE  /\ Showing(ids) \in StepsOf(ShownStates, GroupTypes)
           /\ \A acc \in ShownStates, g \in GroupTypes : Showing(ids)[<<acc, g>>] = ShowGroup(acc, g, ids)
           /\ Unshown \in ShownStates
<1>1. \A p \in ShownStates \X GroupTypes :
         p[1] \in ShownStates /\ p[2] \in GroupTypes /\ ShowGroup(p[1], p[2], ids) \in ShownStates
  BY ShowGroupIs
<1>2. Showing(ids) \in StepsOf(ShownStates, GroupTypes)
  BY <1>1 DEF Showing, StepsOf
<1>3. \A acc \in ShownStates, g \in GroupTypes : Showing(ids)[<<acc, g>>] = ShowGroup(acc, g, ids)
  BY DEF Showing
<1>4. Unshown \in ShownStates
  BY DEF Unshown, ShownStates
<1> QED BY <1>2, <1>3, <1>4

LEMMA BatchIsFold ==
    ASSUME NEW ids \in Seq(Nat), NEW q \in Seq(GroupTypes)
    PROVE  FoldLeft(LAMBDA acc, group : ShowGroup(acc, group, ids), Unshown, q) =
             Fold(Showing(ids), Unshown, q)
<1> DEFINE F == Showing(ids)
           E(g) == g = [s \in SUBSET (1 .. Len(q)) |->
                          IF s = {} THEN Unshown ELSE ShowGroup(g[s \ {Max(s)}], q[Max(s)], ids)]
           h == CHOOSE g : E(g)
<1>1. /\ DOMAIN q = 1 .. Len(q) /\ Len(q) \in Nat
      /\ \A s \in SUBSET (1 .. Len(q)) : s # {} => q[Max(s)] \in GroupTypes
  <2>1. DOMAIN q = 1 .. Len(q) /\ Len(q) \in Nat /\ \A k \in 1 .. Len(q) : q[k] \in GroupTypes
    BY LenProperties
  <2>2. \A s \in SUBSET (1 .. Len(q)) : s # {} => Max(s) \in s
    BY <2>1, MaxOf
  <2> QED BY <2>1, <2>2
<1>2. /\ F \in StepsOf(ShownStates, GroupTypes) /\ Unshown \in ShownStates
      /\ \A acc \in ShownStates, g \in GroupTypes : F[<<acc, g>>] = ShowGroup(acc, g, ids)
  BY ShowingType
<1>3. FoldLeft(LAMBDA acc, group : ShowGroup(acc, group, ids), Unshown, q) = h[1 .. Len(q)]
  BY <1>1 DEF FoldLeft, MapThenFoldSet
<1> HIDE DEF F
<1>4. PICK f \in Runs(ShownStates, F, Unshown, q) : TRUE
  BY <1>2, FoldExists
<1>5. E(f)
  <2>1. \A s \in SUBSET (1 .. Len(q)) :
           f[s] = IF s = {} THEN Unshown ELSE ShowGroup(f[s \ {Max(s)}], q[Max(s)], ids)
    BY <1>1, <1>2 DEF Runs
  <2> QED BY <2>1 DEF Runs
<1>6. E(h)
  <2> HIDE DEF E
  <2> QED BY <1>5
<1> HIDE DEF h
<1>7. Follows(h, ShownStates, F, Unshown, q)
  <2>1. h[{}] = Unshown
    BY <1>6
  <2>2. ASSUME NEW s \in SUBSET (1 .. Len(q)), s # {}, h[s \ {Max(s)}] \in ShownStates
        PROVE  h[s] = F[<<h[s \ {Max(s)}], q[Max(s)]>>]
    <3>1. h[s] = ShowGroup(h[s \ {Max(s)}], q[Max(s)], ids)
      BY <1>6, <2>2
    <3> QED BY <1>1, <1>2, <2>2, <3>1
  <2> QED BY <2>1, <2>2 DEF Follows
<1>8. h[1 .. Len(q)] = Fold(F, Unshown, q)
  BY <1>2, <1>7, FoldMeets
<1> QED BY <1>3, <1>8 DEF F

\* The groups of a sequence that cannot be selected.
Closed(q) == {i \in 1 .. Len(q) : ~q[i].selectable}

\* What is before the first of them.
Open(q) == IF Closed(q) = {} THEN q ELSE SubSeq(q, 1, Min(Closed(q)) - 1)

LEMMA OpenAppend ==
    ASSUME NEW q \in Seq(GroupTypes), NEW g \in GroupTypes
    PROVE  /\ Closed(q) # {} => Closed(Append(q, g)) # {} /\ Open(Append(q, g)) = Open(q)
           /\ Closed(q) = {} /\ ~g.selectable => Closed(Append(q, g)) # {} /\ Open(Append(q, g)) = q
           /\ Closed(q) = {} /\ g.selectable => Closed(Append(q, g)) = {}
<1> DEFINE n == Len(q)
<1>1. n \in Nat /\ \A k \in 1 .. n : q[k] \in GroupTypes
  BY LenProperties
<1>2. PICK t \in Seq(GroupTypes) : /\ t = Append(q, g) /\ Len(t) = n + 1
                                   /\ \A k \in 1 .. n : t[k] = q[k]
                                   /\ t[n + 1] = g
  BY AppendProperties
<1>3. <<g>> \in Seq(GroupTypes) /\ t = q \o <<g>>
  BY <1>2, AppendIsConcat
<1> HIDE DEF n
<1>4. \A k \in 1 .. n + 1 : k \in 1 .. n \/ k = n + 1
  BY <1>1
<1>5. \A k \in 1 .. n : k \in 1 .. n + 1 /\ k # n + 1
  BY <1>1
<1>6. n + 1 \in 1 .. n + 1
  BY <1>1
<1>7. Closed(t) = IF g.selectable THEN Closed(q) ELSE Closed(q) \cup {n + 1}
  BY <1>2, <1>4, <1>5, <1>6 DEF Closed, n
<1>8. Closed(q) \in SUBSET (1 .. n) /\ Closed(t) \in SUBSET Nat /\ Closed(q) \in SUBSET Nat
  BY <1>1, <1>7 DEF Closed, n
<1>9. ASSUME NEW m \in 0 .. n PROVE SubSeq(t, 1, m) = SubSeq(q, 1, m) /\ SubSeq(q, 1, m) \in Seq(GroupTypes)
  <2>1. m \in 0 .. Len(q)
    BY <1>9 DEF n
  <2>2. SubSeq(q \o <<g>>, 1, m) = SubSeq(q, 1, m)
    BY <1>3, <2>1, PartOfBeginning
  <2>3. SubSeq(q, 1, m) \in Seq(GroupTypes)
    BY <2>1, SeqParts
  <2> QED BY <1>3, <2>2, <2>3
<1>10. SubSeq(q, 1, n) = q
  <2>1. Len(q) \in 0 .. Len(q)
    BY <1>1 DEF n
  <2>2. /\ SubSeq(q, 1, Len(q)) \in Seq(GroupTypes) /\ Len(SubSeq(q, 1, Len(q))) = Len(q)
        /\ \A k \in 1 .. Len(q) : SubSeq(q, 1, Len(q))[k] = q[k]
    BY <2>1, SeqParts
  <2> QED BY <2>2, SeqEqual DEF n
<1>11. CASE Closed(q) # {}
  <2>1. Min(Closed(q)) \in Closed(q) /\ \A y \in Closed(q) : Min(Closed(q)) <= y
    BY <1>8, <1>11, MinOf
  <2>2. Closed(t) # {} /\ Min(Closed(q)) \in Closed(t)
    BY <1>7, <2>1
  <2>3. Min(Closed(t)) \in Closed(t) /\ \A y \in Closed(t) : Min(Closed(t)) <= y
    BY <1>8, <2>2, MinOf
  <2>4. Min(Closed(t)) = Min(Closed(q))
    <3>1. Min(Closed(q)) \in 1 .. n
      BY <1>8, <2>1
    <3>2. Min(Closed(t)) # n + 1
      BY <1>1, <2>2, <2>3, <3>1
    <3>3. Min(Closed(t)) \in Closed(q)
      BY <1>7, <2>3, <3>2
    <3>4. Min(Closed(q)) <= Min(Closed(t)) /\ Min(Closed(t)) <= Min(Closed(q))
      BY <2>1, <2>2, <2>3, <3>3
    <3> QED BY <1>8, <3>1, <3>3, <3>4
  <2>5. Min(Closed(q)) - 1 \in 0 .. n
    BY <1>1, <1>8, <2>1
  <2> QED BY <1>2, <1>9, <1>11, <2>2, <2>4, <2>5 DEF Open
<1>12. CASE Closed(q) = {} /\ ~g.selectable
  <2>1. Closed(t) = {n + 1}
    BY <1>7, <1>12
  <2>2. Min(Closed(t)) = n + 1
    <3>1. Min(Closed(t)) \in Closed(t)
      BY <1>8, <2>1, MinOf
    <3> QED BY <2>1, <3>1
  <2>3. n + 1 - 1 = n /\ n \in 0 .. n
    BY <1>1
  <2>4. Open(t) = SubSeq(t, 1, n)
    <3>1. Open(t) = SubSeq(t, 1, Min(Closed(t)) - 1)
      BY <2>1 DEF Open
    <3>2. Min(Closed(t)) - 1 = n
      BY <2>2, <2>3
    <3> QED BY <3>1, <3>2
  <2>5. SubSeq(t, 1, n) = q
    BY <1>9, <1>10, <2>3
  <2> QED BY <1>2, <1>12, <2>1, <2>4, <2>5
<1>13. CASE Closed(q) = {} /\ g.selectable
  BY <1>2, <1>7, <1>13 DEF Open
<1>14. g.selectable \in BOOLEAN
  BY DEF GroupTypes
<1> QED BY <1>11, <1>12, <1>13, <1>14

LEMMA OpenType ==
    ASSUME NEW q \in Seq(GroupTypes)
    PROVE  Open(q) \in Seq(GroupTypes)
<1>1. CASE Closed(q) = {}
  BY <1>1 DEF Open
<1>2. CASE Closed(q) # {}
  <2>1. Closed(q) \in SUBSET Nat /\ Closed(q) \in SUBSET (1 .. Len(q)) /\ Len(q) \in Nat
    BY LenProperties DEF Closed
  <2>2. Min(Closed(q)) - 1 \in 0 .. Len(q)
    <3>1. Min(Closed(q)) \in Closed(q)
      BY <1>2, <2>1, MinOf
    <3> QED BY <2>1, <3>1
  <2>3. SubSeq(q, 1, Min(Closed(q)) - 1) \in Seq(GroupTypes)
    BY <2>2, SeqParts
  <2> QED BY <1>2, <2>3 DEF Open
<1> QED BY <1>1, <1>2

\* What a batch has shown after some groups.
ShownBy(ids, q) ==
    LET e == Fold(Showing(ids), Unshown, q)
    IN  e.connected = (Closed(q) = {}) /\ e.shown = FlatMap(ShownOf(ids), Open(q))

LEMMA ShownSoFar ==
    ASSUME NEW ids \in Seq(Nat), NEW q \in Seq(GroupTypes)
    PROVE  ShownBy(ids, q)
<1> DEFINE F == Showing(ids)
           G == ShownOf(ids)
           T == {r \in Seq(GroupTypes) : ShownBy(ids, r)}
<1>1. /\ F \in StepsOf(ShownStates, GroupTypes) /\ Unshown \in ShownStates
      /\ \A acc \in ShownStates, g \in GroupTypes : F[<<acc, g>>] = ShowGroup(acc, g, ids)
      /\ G \in Maps(GroupTypes, Nat)
  BY ShowingType, ShownOfIs
<1> HIDE DEF F, G
<1>2. /\ Fold(F, Unshown, <<>>) = Unshown
      /\ \A r \in Seq(GroupTypes) : Fold(F, Unshown, r) \in ShownStates
      /\ \A r \in Seq(GroupTypes), g \in GroupTypes :
           Fold(F, Unshown, Append(r, g)) = F[<<Fold(F, Unshown, r), g>>]
  BY <1>1, FoldSteps
<1>3. \A r \in Seq(GroupTypes), y \in Seq(GroupTypes) :
         /\ FlatMap(G, r) \in Seq(Nat)
         /\ FlatMap(G, r \o y) = FlatMap(G, r) \o FlatMap(G, y)
         /\ FlatMap(G, <<>>) = <<>>
         /\ \A g \in GroupTypes : FlatMap(G, <<g>>) = G[g]
  BY <1>1, FlatMapConcat, SMTT(60)
<1>4. <<>> \in T
  <2>1. PICK e \in Seq(GroupTypes) : e = <<>> /\ Len(e) = 0
    <3>1. <<>> \in Seq(GroupTypes) /\ Len(<<>>) = 0
      OBVIOUS
    <3> QED BY <3>1
  <2>2. Closed(e) = {} /\ Open(e) = e
    BY <2>1 DEF Closed, Open
  <2>3. Fold(F, Unshown, e).connected = TRUE /\ Fold(F, Unshown, e).shown = <<>>
    BY <1>2, <2>1 DEF Unshown
  <2>4. FlatMap(G, e) = <<>>
    BY <1>3, <2>1
  <2>5. ShownBy(ids, e)
    BY <2>2, <2>3, <2>4 DEF ShownBy, F, G
  <2> QED BY <2>1, <2>5
<1>5. ASSUME NEW r \in Seq(GroupTypes), NEW g \in GroupTypes, r \in T PROVE Append(r, g) \in T
  <2>1. PICK t \in Seq(GroupTypes) : t = Append(r, g)
    BY AppendProperties
  <2>2. PICK acc \in ShownStates : acc = Fold(F, Unshown, r)
    BY <1>2
  <2>3. acc.connected = (Closed(r) = {}) /\ acc.shown = FlatMap(G, Open(r))
    BY <1>5, <2>2 DEF ShownBy, F, G
  <2>4. PICK e : e = Fold(F, Unshown, t) /\ e = ShowGroup(acc, g, ids)
    BY <1>1, <1>2, <2>1, <2>2
  <2>5. CASE Closed(r) # {}
    <3>1. e = [connected |-> FALSE, shown |-> acc.shown]
      BY <2>3, <2>4, <2>5, ShowGroupIs
    <3>2. Closed(t) # {} /\ Open(t) = Open(r)
      BY <2>1, <2>5, OpenAppend
    <3>3. e.connected = (Closed(t) = {}) /\ e.shown = FlatMap(G, Open(t))
      BY <2>3, <3>1, <3>2
    <3> QED BY <2>1, <2>4, <3>3 DEF ShownBy, F, G
  <2>6. CASE Closed(r) = {} /\ ~g.selectable
    <3>1. e = [connected |-> FALSE, shown |-> acc.shown]
      BY <2>4, <2>6, ShowGroupIs
    <3>2. Closed(t) # {} /\ Open(t) = r /\ Open(r) = r
      BY <2>1, <2>6, OpenAppend DEF Open
    <3>3. e.connected = (Closed(t) = {}) /\ e.shown = FlatMap(G, Open(t))
      BY <2>3, <3>1, <3>2
    <3> QED BY <2>1, <2>4, <3>3 DEF ShownBy, F, G
  <2>7. CASE Closed(r) = {} /\ g.selectable
    <3>1. e = [connected |-> TRUE, shown |-> acc.shown \o G[g]]
      BY <2>3, <2>4, <2>7, ShowGroupIs DEF G
    <3>2. Closed(t) = {} /\ Open(t) = t /\ Open(r) = r
      BY <2>1, <2>7, OpenAppend DEF Open
    <3>3. FlatMap(G, t) = FlatMap(G, r) \o G[g]
      <4>1. <<g>> \in Seq(GroupTypes) /\ t = r \o <<g>>
        BY <2>1, AppendIsConcat
      <4> QED BY <1>3, <4>1, ZenonT(60)
    <3>4. e.connected = (Closed(t) = {}) /\ e.shown = FlatMap(G, Open(t))
      BY <2>3, <3>1, <3>2, <3>3
    <3> QED BY <2>1, <2>4, <3>4 DEF ShownBy, F, G
  <2>8. g.selectable \in BOOLEAN
    BY DEF GroupTypes
  <2> QED BY <2>5, <2>6, <2>7, <2>8
<1> HIDE DEF T
<1>6. Seq(GroupTypes) \subseteq T
  BY <1>4, <1>5, SeqInduction
<1> QED BY <1>6 DEF T

(***************************************************************************)
(* check_nntp, batch_mode: of whatever groups and numbers, the articles    *)
(* are shown of the groups before the first that cannot be selected.       *)
(***************************************************************************)
THEOREM BatchesStop ==
    ASSUME NEW groups \in Seq(GroupTypes), RanksApart(groups), NEW pattern \in Selections,
           NEW parts \in Seq(RangeParts)
    PROVE  BatchStopsAtFailure(groups, pattern, parts)
<1>1. PICK chosen \in Seq(GroupTypes) : chosen = FilterByGlob(groups, pattern)
  BY FilterByGlobType
<1>2. PICK ids \in Seq(Nat) : ids = ParseSequence(parts).numbers
  <2>1. \/ ParseSequence(parts).numbers = <<>>
        \/ ParseSequence(parts).numbers = FlatMap(NumbersOf, parts)
    BY ParseSequenceIs
  <2>2. FlatMap(NumbersOf, parts) \in Seq(Nat)
    BY NumbersOfParts, FlatMapConcat
  <2>3. <<>> \in Seq(Nat)
    OBVIOUS
  <2> QED BY <2>1, <2>2, <2>3
<1>3. ParseSequence(parts).error # "none" => ids = <<>>
  BY <1>2, ParseSequenceIs
<1> DEFINE G == ShownOf(ids)
           k == SelectInSeq(chosen, LAMBDA g : ~g.selectable)
           good == IF k = 0 THEN chosen ELSE SubSeq(chosen, 1, k - 1)
<1>4. good = Open(chosen) /\ good \in Seq(GroupTypes)
  <2>1. k = IF Closed(chosen) # {} THEN Min(Closed(chosen)) ELSE 0
    BY DEF SelectInSeq, Closed
  <2>2. Closed(chosen) # {} => Min(Closed(chosen)) # 0
    <3>1. Closed(chosen) \in SUBSET Nat /\ 0 \notin Closed(chosen)
      BY DEF Closed
    <3> QED BY <3>1, MinOf
  <2>3. good = Open(chosen)
    BY <2>1, <2>2 DEF Open
  <2>4. Open(chosen) \in Seq(GroupTypes)
    BY OpenType
  <2> QED BY <2>3, <2>4
<1>5. FlattenSeq([j \in DOMAIN good |-> Filter(ids, LAMBDA id : id \in good[j].articles)])
         = FlatMap(G, good)
  <2> HIDE DEF good
  <2>1. \A j \in DOMAIN good : good[j] \in GroupTypes
    BY <1>4, LenProperties
  <2>2. \A j \in DOMAIN good : Filter(ids, LAMBDA id : id \in good[j].articles) = G[good[j]]
    BY <2>1, ShownOfIs
  <2>3. [j \in DOMAIN good |-> Filter(ids, LAMBDA id : id \in good[j].articles)] = Mapped(G, good)
    BY <2>2 DEF Mapped
  <2> QED BY <2>3 DEF FlatMap
<1>6. BatchMode(groups, pattern, parts).shown = FlatMap(G, good)
  <2>1. CASE ParseSequence(parts).error = "none"
    <3>1. BatchMode(groups, pattern, parts) = Fold(Showing(ids), Unshown, chosen)
      <4>1. BatchMode(groups, pattern, parts) =
              FoldLeft(LAMBDA acc, group : ShowGroup(acc, group, ids), Unshown, chosen)
        BY <1>1, <1>2, <2>1 DEF BatchMode, Unshown
      <4> QED BY <4>1, BatchIsFold
    <3>2. ShownBy(ids, chosen)
      BY ShownSoFar
    <3> QED BY <1>4, <3>1, <3>2 DEF ShownBy
  <2>2. CASE ParseSequence(parts).error # "none"
    <3>1. PICK none \in Seq(GroupTypes) : none = <<>>
      <4>1. <<>> \in Seq(GroupTypes)
        OBVIOUS
      <4> QED BY <4>1
    <3>2. BatchMode(groups, pattern, parts) = Fold(Showing(ids), Unshown, none)
      <4>1. BatchMode(groups, pattern, parts) =
              FoldLeft(LAMBDA acc, group : ShowGroup(acc, group, ids), Unshown, none)
        BY <1>1, <1>2, <2>2, <3>1 DEF BatchMode, Unshown
      <4> QED BY <4>1, BatchIsFold
    <3>3. BatchMode(groups, pattern, parts).shown = <<>>
      BY <3>1, <3>2, ShowingType, FoldSteps DEF Unshown
    <3>4. FlatMap(G, good) = <<>>
      <4>1. ASSUME NEW g \in GroupTypes PROVE G[g] = <<>>
        <5>1. Chosen(Nat, g.articles, <<>>) = <<>>
          BY ChosenSteps
        <5> QED BY <1>3, <2>2, <5>1 DEF ShownOf
      <4>2. Range(good) \subseteq GroupTypes
        <5> HIDE DEF good
        <5>1. \A j \in DOMAIN good : good[j] \in GroupTypes
          BY <1>4, LenProperties
        <5> QED BY <5>1 DEF Range
      <4>3. G \in Maps(GroupTypes, Nat)
        BY ShownOfIs
      <4> HIDE DEF G, good
      <4> QED BY <1>4, <4>1, <4>2, <4>3, FlatMapNothing
    <3> QED BY <3>3, <3>4
  <2> QED BY <2>1, <2>2
<1>7. BatchMode(groups, pattern, parts).shown =
         FlattenSeq([j \in DOMAIN good |-> Filter(ids, LAMBDA id : id \in good[j].articles)])
  BY <1>5, <1>6
<1> HIDE DEF G
<1> QED BY <1>1, <1>2, <1>7 DEF BatchStopsAtFailure

-----------------------------------------------------------------------------
(***************************************************************************)
(* The order of epochs.                                                    *)
(***************************************************************************)
EpochNames == DOMAIN TextOrder
EpochTypes == [name : EpochNames, size : Nat]

\* No two epochs of a sequence have one name.
NamesApart(q) == \A i, j \in DOMAIN q : q[i].name = q[j].name => i = j

\* The order of find_epochs, as the places of the names in it.
PlaceOf == [e0 |-> 1, e0_old |-> 2, e1 |-> 3, e9 |-> 4, e10 |-> 5, all |-> 6]

EpochRank == [e \in EpochTypes |-> PlaceOf[e.name]]

LEMMA NamesAre ==
    /\ EpochNames = {"e0", "e0_old", "e1", "e10", "e9", "all"}
    /\ DOMAIN NumberOf = {"e0", "e1", "e9", "e10"}
    /\ DOMAIN PlaceOf = EpochNames
BY DEF EpochNames, TextOrder, NumberOf, PlaceOf

LEMMA PrecedesIsRank ==
    ASSUME NEW a \in EpochTypes, NEW e \in EpochTypes, a.name # e.name
    PROVE  /\ Precedes(a, e) <=> EpochRank[a] < EpochRank[e]
           /\ EpochRank[a] # EpochRank[e]
<1>1. a.name \in {"e0", "e0_old", "e1", "e10", "e9", "all"}
      /\ e.name \in {"e0", "e0_old", "e1", "e10", "e9", "all"}
  BY NamesAre DEF EpochTypes
<1>2. EpochRank[a] = PlaceOf[a.name] /\ EpochRank[e] = PlaceOf[e.name]
  BY DEF EpochRank
<1>3. CASE a.name = "all" \/ e.name = "all"
  BY <1>1, <1>2, <1>3 DEF Precedes, PlaceOf
<1>4. CASE a.name # "all" /\ e.name # "all" /\ IsNumber(a.name) /\ IsNumber(e.name)
  <2>1. Precedes(a, e) <=> NumberOf[a.name] < NumberOf[e.name]
    BY <1>4 DEF Precedes
  <2>2. a.name \in {"e0", "e1", "e9", "e10"} /\ e.name \in {"e0", "e1", "e9", "e10"}
    BY <1>4, NamesAre DEF IsNumber
  <2> QED BY <1>2, <2>1, <2>2 DEF PlaceOf, NumberOf
<1>5. CASE a.name # "all" /\ e.name # "all" /\ ~(IsNumber(a.name) /\ IsNumber(e.name))
  <2>1. Precedes(a, e) <=> TextOrder[a.name] < TextOrder[e.name]
    BY <1>5 DEF Precedes
  <2>2. a.name = "e0_old" \/ e.name = "e0_old"
    BY <1>1, <1>5, NamesAre DEF IsNumber
  <2> QED BY <1>1, <1>2, <1>5, <2>1, <2>2 DEF PlaceOf, TextOrder
<1> QED BY <1>3, <1>4, <1>5

LEMMA EpochRankType == EpochRank \in [EpochTypes -> Nat]
<1>1. \A n \in EpochNames : PlaceOf[n] \in Nat
  BY NamesAre DEF PlaceOf
<1> QED BY <1>1 DEF EpochRank, EpochTypes

\* Ordered(epochs) is the same epochs in this order.
LEMMA OrderedIs ==
    ASSUME NEW epochs \in Seq(EpochTypes), NamesApart(epochs)
    PROVE  /\ Ordered(epochs) \in Seq(EpochTypes)
           /\ Len(Ordered(epochs)) = Len(epochs)
           /\ Range(Ordered(epochs)) = Range(epochs)
           /\ \A i, j \in 1 .. Len(epochs) : i < j =>
                EpochRank[Ordered(epochs)[i]] < EpochRank[Ordered(epochs)[j]]
           /\ NamesApart(Ordered(epochs))
<1> DEFINE Sorted(t) == /\ t \in [DOMAIN epochs -> Range(epochs)]
                        /\ Range(t) = Range(epochs)
                        /\ \A i, j \in DOMAIN t : i < j => Precedes(t[i], t[j])
<1>1. /\ DOMAIN epochs = 1 .. Len(epochs) /\ Len(epochs) \in Nat
      /\ \A k \in 1 .. Len(epochs) : epochs[k] \in EpochTypes
  BY LenProperties
<1>2. Range(epochs) \subseteq EpochTypes
  BY <1>1 DEF Range
<1>3. \A a, e \in Range(epochs) : a.name = e.name => a = e
  BY DEF NamesApart, Range
<1>4. Ranked(EpochRank, epochs)
  <2>1. ASSUME NEW i \in DOMAIN epochs, NEW j \in DOMAIN epochs,
               EpochRank[epochs[i]] = EpochRank[epochs[j]]
        PROVE  i = j
    <3>1. epochs[i].name = epochs[j].name
      BY <1>1, <2>1, PrecedesIsRank
    <3> QED BY <3>1 DEF NamesApart
  <2> QED BY <2>1 DEF Ranked
<1>5. PICK t : Arranges(EpochRank, epochs, t)
  BY <1>4, EpochRankType, ArrangementExists
<1>6. /\ t \in [1 .. Len(epochs) -> Range(epochs)] /\ Range(t) = Range(epochs)
      /\ \A i, j \in 1 .. Len(epochs) : i < j => EpochRank[t[i]] < EpochRank[t[j]]
  BY <1>1, <1>5 DEF Arranges
<1>7. Sorted(t)
  <2>1. ASSUME NEW i \in 1 .. Len(epochs), NEW j \in 1 .. Len(epochs), i < j
        PROVE  Precedes(t[i], t[j])
    <3>1. t[i] \in EpochTypes /\ t[j] \in EpochTypes /\ EpochRank[t[i]] < EpochRank[t[j]]
      BY <1>2, <1>6, <2>1
    <3>2. EpochRank[t[i]] \in Nat /\ EpochRank[t[j]] \in Nat
      BY <3>1, EpochRankType
    <3>3. t[i].name # t[j].name
      <4>1. t[i].name = t[j].name => EpochRank[t[i]] = EpochRank[t[j]]
        BY <3>1 DEF EpochRank
      <4> QED BY <3>1, <3>2, <4>1
    <3> QED BY <3>1, <3>3, PrecedesIsRank
  <2> QED BY <1>1, <1>6, <2>1
<1>8. Ordered(epochs) = CHOOSE u \in [DOMAIN epochs -> Range(epochs)] :
                          /\ Range(u) = Range(epochs)
                          /\ \A i, j \in DOMAIN u : i < j => Precedes(u[i], u[j])
  BY DEF Ordered, SortBy
<1>9. Sorted(Ordered(epochs))
  BY <1>7, <1>8
<1>10. PICK o : o = Ordered(epochs)
  OBVIOUS
<1>11. /\ o \in [1 .. Len(epochs) -> Range(epochs)] /\ Range(o) = Range(epochs)
       /\ \A i, j \in 1 .. Len(epochs) : i < j => Precedes(o[i], o[j])
  BY <1>1, <1>9, <1>10
<1>12. o \in Seq(EpochTypes) /\ Len(o) = Len(epochs)
  <2>1. \A n \in Nat : \A f \in [1 .. n -> EpochTypes] : f \in Seq(EpochTypes) /\ Len(f) = n
    OBVIOUS
  <2>2. o \in [1 .. Len(epochs) -> EpochTypes]
    BY <1>2, <1>11
  <2> QED BY <1>1, <2>1, <2>2
<1>13. \A i \in 1 .. Len(epochs) : \A j \in 1 .. Len(epochs) : i < j => o[i].name # o[j].name
  <2> SUFFICES ASSUME NEW i \in 1 .. Len(epochs), NEW j \in 1 .. Len(epochs), i < j,
                      o[i].name = o[j].name
               PROVE  FALSE
    OBVIOUS
  <2>1. o[i] \in Range(epochs) /\ o[j] \in Range(epochs) /\ Precedes(o[i], o[j])
    BY <1>11
  <2>2. o[i].name \in EpochNames
    BY <1>2, <2>1 DEF EpochTypes
  <2>3. ~Precedes(o[i], o[j])
    <3>1. CASE o[i].name = "all"
      BY <3>1 DEF Precedes
    <3>2. CASE o[i].name # "all" /\ IsNumber(o[i].name)
      <4>1. NumberOf[o[i].name] \in Nat
        BY <3>2 DEF IsNumber, NumberOf
      <4> QED BY <3>2, <4>1 DEF Precedes
    <3>3. CASE o[i].name # "all" /\ ~IsNumber(o[i].name)
      <4>1. TextOrder[o[i].name] \in Nat
        BY <2>2, NamesAre DEF TextOrder
      <4> QED BY <3>3, <4>1 DEF Precedes
    <3> QED BY <3>1, <3>2, <3>3
  <2> QED BY <2>1, <2>3
<1>14. \A i, j \in 1 .. Len(epochs) : i < j => EpochRank[o[i]] < EpochRank[o[j]]
  <2>1. \A i \in 1 .. Len(epochs) : o[i] \in EpochTypes
    BY <1>2, <1>11
  <2> QED BY <1>11, <1>13, <2>1, PrecedesIsRank
<1>15. NamesApart(o)
  <2>1. DOMAIN o = 1 .. Len(epochs)
    BY <1>11
  <2>2. \A i, j \in 1 .. Len(epochs) : i < j \/ i = j \/ j < i
    BY <1>1
  <2> QED BY <1>13, <2>1, <2>2 DEF NamesApart
<1> QED BY <1>10, <1>11, <1>12, <1>14, <1>15

-----------------------------------------------------------------------------
(***************************************************************************)
(* The commits of epochs, and the numbers they get.                        *)
(***************************************************************************)
CommitTypes == [epoch : EpochNames, place : Nat]

CommitsOf == [e \in EpochTypes |-> EpochCommits(e)]

LEMMA EpochCommitsAre ==
    ASSUME NEW e \in EpochTypes
    PROVE  /\ EpochCommits(e) \in Seq(CommitTypes)
           /\ Len(EpochCommits(e)) = e.size
           /\ \A k \in 1 .. e.size : EpochCommits(e)[k] = [epoch |-> e.name, place |-> k]
           /\ Range(EpochCommits(e)) = {[epoch |-> e.name, place |-> k] : k \in 1 .. e.size}
           /\ NoRepeats(EpochCommits(e))
<1>1. e.name \in EpochNames /\ e.size \in Nat
  BY DEF EpochTypes
<1>2. PICK c : c = EpochCommits(e)
  OBVIOUS
<1>3. c = [k \in 1 .. e.size |-> [epoch |-> e.name, place |-> k]]
  BY <1>2 DEF EpochCommits
<1>4. c \in [1 .. e.size -> CommitTypes]
  BY <1>1, <1>3 DEF CommitTypes
<1>5. c \in Seq(CommitTypes) /\ Len(c) = e.size
  <2>1. \A n \in Nat : \A f \in [1 .. n -> CommitTypes] : f \in Seq(CommitTypes) /\ Len(f) = n
    OBVIOUS
  <2> QED BY <1>1, <1>4, <2>1
<1>6. Range(c) = {[epoch |-> e.name, place |-> k] : k \in 1 .. e.size}
  BY <1>3 DEF Range
<1>7. NoRepeats(c)
  BY <1>3 DEF NoRepeats
<1> QED BY <1>2, <1>3, <1>5, <1>6, <1>7

LEMMA CommitsSteps ==
    /\ \A q \in Seq(EpochTypes) : Commits(q) \in Seq(CommitTypes)
    /\ Commits(<<>>) = <<>>
    /\ \A e \in EpochTypes : Commits(<<e>>) = EpochCommits(e)
    /\ \A q, r \in Seq(EpochTypes) : Commits(q \o r) = Commits(q) \o Commits(r)
    /\ \A q \in Seq(EpochTypes), e \in EpochTypes :
         Commits(Append(q, e)) = Commits(q) \o EpochCommits(e)
    /\ \A q \in Seq(EpochTypes) :
         Range(Commits(q)) = UNION {Range(EpochCommits(e)) : e \in Range(q)}
<1> DEFINE F == CommitsOf
<1>1. F \in Maps(EpochTypes, CommitTypes) /\ \A e \in EpochTypes : F[e] = EpochCommits(e)
  BY EpochCommitsAre DEF CommitsOf, Maps
<1>2. ASSUME NEW q \in Seq(EpochTypes) PROVE Commits(q) = FlatMap(F, q)
  <2>1. \A k \in DOMAIN q : q[k] \in EpochTypes
    BY LenProperties
  <2>2. [k \in DOMAIN q |-> EpochCommits(q[k])] = [k \in DOMAIN q |-> F[q[k]]]
    BY <1>1, <2>1
  <2> QED BY <2>2 DEF Commits, FlatMap, Mapped
<1> HIDE DEF F
<1>3. \A q \in Seq(EpochTypes) : Commits(q) \in Seq(CommitTypes)
  BY <1>1, <1>2, FlatMapConcat
<1>4. Commits(<<>>) = <<>>
  <2>1. <<>> \in Seq(EpochTypes)
    OBVIOUS
  <2> QED BY <1>1, <1>2, <2>1, FlatMapConcat, ZenonT(60)
<1>5. ASSUME NEW e \in EpochTypes PROVE Commits(<<e>>) = EpochCommits(e)
  <2>1. <<e>> \in Seq(EpochTypes)
    OBVIOUS
  <2>2. PICK q \in Seq(EpochTypes) : q = <<e>>
    BY <2>1
  <2>3. FlatMap(F, q \o q) = FlatMap(F, q) \o FlatMap(F, q) /\ FlatMap(F, <<e>>) = F[e]
    BY <1>1, FlatMapConcat
  <2> QED BY <1>1, <1>2, <2>1, <2>3
<1>6. ASSUME NEW q \in Seq(EpochTypes), NEW r \in Seq(EpochTypes)
      PROVE  Commits(q \o r) = Commits(q) \o Commits(r)
  <2>1. q \o r \in Seq(EpochTypes)
    BY ConcatProperties
  <2>2. FlatMap(F, q \o r) = FlatMap(F, q) \o FlatMap(F, r)
    BY <1>1, FlatMapConcat
  <2> QED BY <1>2, <2>1, <2>2
<1>7. ASSUME NEW q \in Seq(EpochTypes), NEW e \in EpochTypes
      PROVE  Commits(Append(q, e)) = Commits(q) \o EpochCommits(e)
  <2>1. <<e>> \in Seq(EpochTypes) /\ Append(q, e) = q \o <<e>>
    BY AppendIsConcat
  <2> QED BY <1>5, <1>6, <2>1
<1>8. ASSUME NEW q \in Seq(EpochTypes)
      PROVE  Range(Commits(q)) = UNION {Range(EpochCommits(e)) : e \in Range(q)}
  <2>1. Range(FlatMap(F, q)) = UNION {Range(F[e]) : e \in Range(q)}
    BY <1>1, RangeFlatMap
  <2>2. \A e \in Range(q) : e \in EpochTypes
    BY LenProperties DEF Range
  <2> QED BY <1>1, <1>2, <2>1, <2>2
<1> QED BY <1>3, <1>4, <1>5, <1>6, <1>7, <1>8

\* No commit is met twice.
LEMMA CommitsApart ==
    ASSUME NEW q \in Seq(EpochTypes), NamesApart(q)
    PROVE  NoRepeats(Commits(q))
<1> DEFINE T == {r \in Seq(EpochTypes) : NamesApart(r) => NoRepeats(Commits(r))}
<1>1. <<>> \in T
  <2>1. <<>> \in Seq(EpochTypes) /\ Commits(<<>>) = <<>> /\ DOMAIN <<>> = {}
    BY CommitsSteps
  <2> QED BY <2>1 DEF NoRepeats
<1>2. ASSUME NEW r \in Seq(EpochTypes), NEW e \in EpochTypes, r \in T PROVE Append(r, e) \in T
  <2>1. /\ Append(r, e) \in Seq(EpochTypes) /\ Len(Append(r, e)) = Len(r) + 1
        /\ Len(r) \in Nat /\ DOMAIN r = 1 .. Len(r)
        /\ \A k \in 1 .. Len(r) : Append(r, e)[k] = r[k]
        /\ Append(r, e)[Len(r) + 1] = e
    BY AppendProperties, LenProperties
  <2>2. ASSUME NamesApart(Append(r, e)) PROVE NoRepeats(Commits(Append(r, e)))
    <3>1. PICK a \in Seq(EpochTypes) : a = Append(r, e)
      BY <2>1
    <3>2. /\ DOMAIN a = 1 .. Len(r) + 1
          /\ \A k \in 1 .. Len(r) : a[k] = r[k]
          /\ a[Len(r) + 1] = e /\ NamesApart(a)
      <4>1. DOMAIN a = 1 .. Len(a)
        BY LenProperties
      <4> QED BY <2>1, <2>2, <3>1, <4>1
    <3>3. NamesApart(r)
      <4>1. \A k \in 1 .. Len(r) : k \in DOMAIN a
        BY <2>1, <3>2
      <4> QED BY <2>1, <3>2, <4>1 DEF NamesApart
    <3>4. \A f \in Range(r) : f.name # e.name /\ f \in EpochTypes
      <4>1. ASSUME NEW k \in 1 .. Len(r) PROVE r[k].name # e.name /\ r[k] \in EpochTypes
        <5>1. k \in DOMAIN a /\ Len(r) + 1 \in DOMAIN a /\ k # Len(r) + 1
          BY <2>1, <3>2
        <5>2. a[k].name # a[Len(r) + 1].name
          BY <3>2, <5>1 DEF NamesApart
        <5> QED BY <3>2, <5>2
      <4> QED BY <2>1, <4>1 DEF Range
    <3>5. NoRepeats(Commits(r)) /\ Commits(r) \in Seq(CommitTypes)
      BY <1>2, <3>3, CommitsSteps
    <3>6. /\ NoRepeats(EpochCommits(e)) /\ EpochCommits(e) \in Seq(CommitTypes)
          /\ \A f \in EpochTypes : \A c \in Range(EpochCommits(f)) : c.epoch = f.name
      BY EpochCommitsAre
    <3>7. Range(Commits(r)) \cap Range(EpochCommits(e)) = {}
      <4>1. Range(Commits(r)) = UNION {Range(EpochCommits(f)) : f \in Range(r)}
        BY CommitsSteps
      <4> QED BY <3>4, <3>6, <4>1
    <3>8. NoRepeats(Commits(r) \o EpochCommits(e))
      BY <3>5, <3>6, <3>7, ConcatNoRepeats
    <3> QED BY <3>8, CommitsSteps
  <2> QED BY <2>1, <2>2
<1> HIDE DEF T
<1>3. Seq(EpochTypes) \subseteq T
  BY <1>1, <1>2, SeqInduction
<1> QED BY <1>3 DEF T

EmailIds == [num : Nat, epoch : EpochNames, sha : CommitTypes]

Counts == [index : Nat, remaining : Nat, found : Seq(EmailIds)]

\* Before the first epoch, and the loop as a function.
Uncounted(index) == [index |-> index, remaining |-> index, found |-> <<>>]

Counting == [p \in Counts \X EpochTypes |-> CountDown(p[1], p[2])]

CountedDown(q, index) == FoldLeft(CountDown, Uncounted(index), q)

LEMMA CountingType ==
    /\ Counting \in StepsOf(Counts, EpochTypes)
    /\ \A acc \in Counts, e \in EpochTypes : Counting[<<acc, e>>] = CountDown(acc, e)
    /\ \A index \in Nat : Uncounted(index) \in Counts
<1>1. ASSUME NEW acc \in Counts, NEW e \in EpochTypes
      PROVE  CountDown(acc, e) \in Counts
  <2>1. /\ acc.index \in Nat /\ acc.remaining \in Nat /\ acc.found \in Seq(EmailIds)
        /\ e.name \in EpochNames /\ e.size \in Nat
        /\ acc = [index |-> acc.index, remaining |-> acc.remaining, found |-> acc.found]
    BY DEF Counts, EpochTypes
  <2>2. CASE acc.found # <<>>
    BY <2>2 DEF CountDown
  <2>3. CASE acc.found = <<>> /\ acc.remaining <= e.size
    <3>1. EmailId(acc.index, e.name, acc.remaining) \in EmailIds
      BY <2>1 DEF EmailId, EmailIds, CommitTypes
    <3>2. PICK f \in Seq(EmailIds) : f = <<EmailId(acc.index, e.name, acc.remaining)>>
      <4>1. \A x \in EmailIds : <<x>> \in Seq(EmailIds)
        OBVIOUS
      <4> HIDE DEF EmailId
      <4> QED BY <3>1, <4>1
    <3>3. CountDown(acc, e) = [acc EXCEPT !.found = f]
      BY <2>3, <3>2 DEF CountDown
    <3> QED BY <2>1, <3>3 DEF Counts
  <2>4. CASE acc.found = <<>> /\ ~(acc.remaining <= e.size)
    <3>1. CountDown(acc, e) = [acc EXCEPT !.remaining = acc.remaining - e.size]
      BY <2>4 DEF CountDown
    <3>2. acc.remaining - e.size \in Nat
      BY <2>1, <2>4
    <3> QED BY <2>1, <3>1, <3>2 DEF Counts
  <2> QED BY <2>2, <2>3, <2>4
<1>2. Counting \in StepsOf(Counts, EpochTypes)
  BY <1>1 DEF Counting, StepsOf
<1>3. \A index \in Nat : Uncounted(index) \in Counts
  <2>1. <<>> \in Seq(EmailIds)
    OBVIOUS
  <2> QED BY <2>1 DEF Uncounted, Counts
<1>4. \A acc \in Counts, e \in EpochTypes : Counting[<<acc, e>>] = CountDown(acc, e)
  BY DEF Counting
<1> QED BY <1>2, <1>3, <1>4

LEMMA CountIsFold ==
    ASSUME NEW index \in Nat, NEW q \in Seq(EpochTypes)
    PROVE  CountedDown(q, index) = Fold(Counting, Uncounted(index), q)
<1> DEFINE F == Counting
           b == Uncounted(index)
           E(g) == g = [s \in SUBSET (1 .. Len(q)) |->
                          IF s = {} THEN b
                          ELSE CountDown(g[s \ {Max(s)}], q[Max(s)])]
           h == CHOOSE g : E(g)
<1>1. /\ DOMAIN q = 1 .. Len(q) /\ Len(q) \in Nat
      /\ \A s \in SUBSET (1 .. Len(q)) : s # {} => q[Max(s)] \in EpochTypes
  <2>1. DOMAIN q = 1 .. Len(q) /\ Len(q) \in Nat /\ \A k \in 1 .. Len(q) : q[k] \in EpochTypes
    BY LenProperties
  <2>2. \A s \in SUBSET (1 .. Len(q)) : s # {} => Max(s) \in s
    BY <2>1, MaxOf
  <2> QED BY <2>1, <2>2
<1>2. /\ F \in StepsOf(Counts, EpochTypes) /\ b \in Counts
      /\ \A acc \in Counts, e \in EpochTypes : F[<<acc, e>>] = CountDown(acc, e)
  BY CountingType
<1>3. CountedDown(q, index) = h[1 .. Len(q)]
  BY <1>1 DEF CountedDown, FoldLeft, MapThenFoldSet
<1> HIDE DEF F, b
<1>4. PICK f \in Runs(Counts, F, b, q) : TRUE
  BY <1>2, FoldExists
<1>5. E(f)
  <2>1. \A s \in SUBSET (1 .. Len(q)) :
           f[s] = IF s = {} THEN b
                  ELSE CountDown(f[s \ {Max(s)}], q[Max(s)])
    BY <1>1, <1>2 DEF Runs
  <2> QED BY <2>1 DEF Runs
<1>6. E(h)
  <2> HIDE DEF E
  <2> QED BY <1>5
<1> HIDE DEF h
<1>7. Follows(h, Counts, F, b, q)
  <2>1. h[{}] = b
    BY <1>6
  <2>2. ASSUME NEW s \in SUBSET (1 .. Len(q)), s # {}, h[s \ {Max(s)}] \in Counts
        PROVE  h[s] = F[<<h[s \ {Max(s)}], q[Max(s)]>>]
    <3>1. h[s] = CountDown(h[s \ {Max(s)}], q[Max(s)])
      BY <1>6, <2>2
    <3> QED BY <1>1, <1>2, <2>2, <3>1
  <2> QED BY <2>1, <2>2 DEF Follows
<1>8. h[1 .. Len(q)] = Fold(F, b, q)
  BY <1>2, <1>7, FoldMeets
<1> QED BY <1>3, <1>8 DEF F, b

LEMMA CountSteps ==
    ASSUME NEW index \in Nat
    PROVE  /\ CountedDown(<<>>, index) = Uncounted(index)
           /\ \A q \in Seq(EpochTypes) : CountedDown(q, index) \in Counts
           /\ \A q \in Seq(EpochTypes), e \in EpochTypes :
                CountedDown(Append(q, e), index) = CountDown(CountedDown(q, index), e)
<1> DEFINE F == Counting
           b == Uncounted(index)
<1>1. /\ F \in StepsOf(Counts, EpochTypes) /\ b \in Counts
      /\ \A acc \in Counts, e \in EpochTypes : F[<<acc, e>>] = CountDown(acc, e)
  BY CountingType
<1>2. \A q \in Seq(EpochTypes) : CountedDown(q, index) = Fold(F, b, q)
  BY CountIsFold
<1> HIDE DEF F, b
<1>3. /\ Fold(F, b, <<>>) = b
      /\ \A q \in Seq(EpochTypes) : Fold(F, b, q) \in Counts
      /\ \A q \in Seq(EpochTypes), e \in EpochTypes :
           Fold(F, b, Append(q, e)) = F[<<Fold(F, b, q), e>>]
  BY <1>1, FoldSteps
<1>4. /\ <<>> \in Seq(EpochTypes)
      /\ \A q \in Seq(EpochTypes), e \in EpochTypes : Append(q, e) \in Seq(EpochTypes)
  BY AppendProperties
<1>5. CountedDown(<<>>, index) = b
  BY <1>2, <1>3, <1>4
<1>6. \A q \in Seq(EpochTypes) : CountedDown(q, index) \in Counts
  BY <1>2, <1>3
<1>7. ASSUME NEW q \in Seq(EpochTypes), NEW e \in EpochTypes
      PROVE  CountedDown(Append(q, e), index) = CountDown(CountedDown(q, index), e)
  <2>1. CountedDown(Append(q, e), index) = F[<<Fold(F, b, q), e>>]
    BY <1>2, <1>3, <1>4
  <2> QED BY <1>1, <1>2, <1>3, <2>1
<1> QED BY <1>5, <1>6, <1>7 DEF b

\* The n-th e-mail of the epochs, if they have one; if not, what is left to count.
NthIs(q, n) ==
    LET acc     == CountedDown(q, n)
        commits == Commits(q)
    IN  /\ acc.index = n
        /\ n <= Len(commits) =>
             acc.found = <<EmailId(n, commits[n].epoch, commits[n].place)>>
        /\ n > Len(commits) => acc.found = <<>> /\ acc.remaining = n - Len(commits)

LEMMA NthFound ==
    ASSUME NEW n \in Nat \ {0}, NEW q \in Seq(EpochTypes)
    PROVE  NthIs(q, n)
<1> DEFINE T == {r \in Seq(EpochTypes) : NthIs(r, n)}
<1>1. <<>> \in T
  <2>1. /\ <<>> \in Seq(EpochTypes) /\ Commits(<<>>) = <<>> /\ Len(<<>>) = 0
        /\ CountedDown(<<>>, n) = Uncounted(n)
    BY CommitsSteps, CountSteps
  <2> QED BY <2>1 DEF NthIs, Uncounted
<1>2. ASSUME NEW r \in Seq(EpochTypes), NEW e \in EpochTypes, r \in T PROVE Append(r, e) \in T
  <2>1. PICK acc \in Counts : acc = CountedDown(r, n)
    BY CountSteps
  <2>2. PICK c \in Seq(CommitTypes) : c = Commits(r)
    BY CommitsSteps
  <2>3. PICK m \in Seq(CommitTypes) : m = EpochCommits(e)
    BY EpochCommitsAre
  <2>4. /\ Len(m) = e.size /\ e.size \in Nat /\ e.name \in EpochNames
        /\ \A k \in 1 .. e.size : m[k] = [epoch |-> e.name, place |-> k]
    BY <2>3, EpochCommitsAre DEF EpochTypes
  <2>5. PICK d \in Seq(CommitTypes) : d = c \o m
    BY ConcatProperties
  <2>6. /\ Len(d) = Len(c) + Len(m) /\ Len(c) \in Nat
        /\ \A k \in 1 .. Len(c) + Len(m) : d[k] = IF k <= Len(c) THEN c[k] ELSE m[k - Len(c)]
    BY <2>5, ConcatProperties, LenProperties
  <2>7. Commits(Append(r, e)) = d /\ CountedDown(Append(r, e), n) = CountDown(acc, e)
        /\ Append(r, e) \in Seq(EpochTypes)
    BY <2>1, <2>2, <2>3, <2>5, CommitsSteps, CountSteps, AppendProperties
  <2>8. /\ acc.index = n
        /\ n <= Len(c) => acc.found = <<EmailId(n, c[n].epoch, c[n].place)>>
        /\ n > Len(c) => acc.found = <<>> /\ acc.remaining = n - Len(c)
    BY <1>2, <2>1, <2>2 DEF NthIs
  <2>9. CASE n <= Len(c)
    <3>1. acc.found # <<>>
      <4>1. PICK x : x = EmailId(n, c[n].epoch, c[n].place)
        OBVIOUS
      <4>2. acc.found = <<x>>
        BY <2>8, <2>9, <4>1
      <4> QED BY <4>2
    <3>2. CountDown(acc, e) = acc
      BY <3>1 DEF CountDown
    <3>3. d[n] = c[n] /\ n <= Len(d)
      BY <2>4, <2>6, <2>9
    <3> QED BY <2>7, <2>8, <2>9, <3>2, <3>3 DEF NthIs
  <2>10. CASE n > Len(c) /\ n <= Len(d)
    <3>1. n - Len(c) \in 1 .. e.size /\ acc.remaining <= e.size
      BY <2>4, <2>6, <2>8, <2>10
    <3>2. CountDown(acc, e) = [acc EXCEPT !.found = <<EmailId(n, e.name, n - Len(c))>>]
      BY <2>8, <2>10, <3>1 DEF CountDown
    <3>3. d[n] = m[n - Len(c)]
      BY <2>4, <2>6, <2>10
    <3>4. d[n].epoch = e.name /\ d[n].place = n - Len(c)
      <4>1. PICK k \in 1 .. e.size : k = n - Len(c)
        BY <3>1
      <4>2. d[n] = [epoch |-> e.name, place |-> k]
        BY <2>4, <3>3, <4>1
      <4> QED BY <4>1, <4>2
    <3>5. PICK a : a = CountDown(acc, e)
      OBVIOUS
    <3>6. a.index = n /\ a.found = <<EmailId(n, d[n].epoch, d[n].place)>>
      <4>1. acc = [index |-> acc.index, remaining |-> acc.remaining, found |-> acc.found]
        BY DEF Counts
      <4> HIDE DEF EmailId
      <4> QED BY <2>8, <3>2, <3>4, <3>5, <4>1
    <3> QED BY <2>6, <2>7, <2>10, <3>5, <3>6 DEF NthIs
  <2>11. CASE n > Len(d)
    <3>1. acc.found = <<>> /\ acc.remaining = n - Len(c) /\ ~(acc.remaining <= e.size)
      BY <2>4, <2>6, <2>8, <2>11
    <3>2. CountDown(acc, e) = [acc EXCEPT !.remaining = (n - Len(c)) - e.size]
      BY <3>1 DEF CountDown
    <3>3. PICK a : a = CountDown(acc, e)
      OBVIOUS
    <3>4. a.index = n /\ a.found = <<>> /\ a.remaining = n - Len(d)
      <4>1. acc = [index |-> acc.index, remaining |-> acc.remaining, found |-> acc.found]
        BY DEF Counts
      <4>2. (n - Len(c)) - e.size = n - Len(d)
        BY <2>4, <2>6
      <4> QED BY <2>8, <3>1, <3>2, <3>3, <4>1, <4>2
    <3>5. ~(n <= Len(d))
      BY <2>6, <2>11
    <3> QED BY <2>7, <2>11, <3>3, <3>4, <3>5 DEF NthIs
  <2>12. n <= Len(c) \/ (n > Len(c) /\ n <= Len(d)) \/ n > Len(d)
    BY <2>6
  <2>13. NthIs(Append(r, e), n)
    BY <2>9, <2>10, <2>11, <2>12
  <2> QED BY <2>7, <2>13
<1> HIDE DEF T
<1>3. Seq(EpochTypes) \subseteq T
  BY <1>1, <1>2, SeqInduction
<1> QED BY <1>3 DEF T

LEMMA WalkIs ==
    ASSUME NEW epochs \in Seq(EpochTypes), epochs # <<>>, NEW own
    PROVE  /\ DOMAIN Walk(epochs, own) = DOMAIN Commits(Ordered(epochs))
           /\ \A n \in DOMAIN Walk(epochs, own) :
                Walk(epochs, own)[n] = EmailId(n, Commits(Ordered(epochs))[n].epoch,
                                                  Commits(Ordered(epochs))[n].place)
<1>1. EpochsToUse(epochs, own, "all") = Ordered(epochs)
  BY DEF EpochsToUse
<1>2. PICK c : c = Commits(Ordered(epochs))
  OBVIOUS
<1>3. PICK w : w = Walk(epochs, own)
  OBVIOUS
<1>4. w = [n \in DOMAIN c |-> EmailId(n, c[n].epoch, c[n].place)]
  BY <1>1, <1>2, <1>3 DEF Walk
<1> QED BY <1>2, <1>3, <1>4

(***************************************************************************)
(* Range mode archives the n-th e-mail of a complete first walk, under its *)
(* identifier, however many epochs there are and however they are listed   *)
(* (read_email_by_index and process_inbox).                                *)
(***************************************************************************)
THEOREM IndicesFollowWalk ==
    ASSUME NEW epochs \in Seq(EpochTypes), NamesApart(epochs), NEW own
    PROVE  IndexIsWalk(epochs, own)
<1> SUFFICES ASSUME epochs # <<>> PROVE IndexIsWalk(epochs, own)
  BY DEF IndexIsWalk
<1>1. PICK o \in Seq(EpochTypes) : o = Ordered(epochs)
  BY OrderedIs
<1>2. PICK c \in Seq(CommitTypes) : c = Commits(o)
  BY CommitsSteps
<1>3. DOMAIN c = 1 .. Len(c) /\ Len(c) \in Nat
  BY LenProperties
<1>4. PICK w : w = Walk(epochs, own)
  OBVIOUS
<1>5. /\ DOMAIN w = 1 .. Len(c)
      /\ \A n \in 1 .. Len(c) : w[n] = EmailId(n, c[n].epoch, c[n].place)
  BY <1>1, <1>2, <1>3, <1>4, WalkIs
<1>6. Len(w) = Len(c)
  BY <1>3, <1>5
<1>7. EmailByIndex(epochs, own, 0) = <<>>
  BY DEF EmailByIndex
<1>8. ASSUME NEW n \in Nat \ {0}
      PROVE  EmailByIndex(epochs, own, n) = CountedDown(o, n).found
  BY <1>1 DEF EmailByIndex, EpochsToUse, CountedDown, Uncounted
<1>9. ASSUME NEW n \in 0 .. Len(w) + 1
      PROVE  EmailByIndex(epochs, own, n) = IF n \in DOMAIN w THEN <<w[n]>> ELSE <<>>
  <2>1. CASE n = 0
    <3>1. n \notin DOMAIN w
      BY <1>5, <2>1
    <3> QED BY <1>7, <2>1, <3>1
  <2>2. CASE n \in 1 .. Len(c)
    <3>1. NthIs(o, n) /\ n <= Len(Commits(o)) /\ n \in Nat \ {0}
      BY <1>2, <1>3, <2>2, NthFound
    <3>2. CountedDown(o, n).found = <<w[n]>>
      BY <1>2, <1>5, <2>2, <3>1 DEF NthIs
    <3> QED BY <1>5, <1>8, <2>2, <3>1, <3>2
  <2>3. CASE n = Len(c) + 1
    <3>1. NthIs(o, n) /\ n > Len(Commits(o)) /\ n \in Nat \ {0}
      BY <1>2, <1>3, <2>3, NthFound
    <3>2. CountedDown(o, n).found = <<>>
      BY <3>1 DEF NthIs
    <3>3. n \notin DOMAIN w
      BY <1>3, <1>5, <2>3
    <3> QED BY <1>8, <3>1, <3>2, <3>3
  <2>4. n = 0 \/ n \in 1 .. Len(c) \/ n = Len(c) + 1
    BY <1>3, <1>6
  <2> QED BY <2>1, <2>2, <2>3, <2>4
<1> QED BY <1>4, <1>9 DEF IndexIsWalk

(***************************************************************************)
(* Every identifier of a walk leads check_git back to its commit and to no *)
(* other, unless an epoch has a dash in its name (find_email_by_id).       *)
(***************************************************************************)
THEOREM IdentifiersLeadBack ==
    ASSUME NEW epochs \in Seq(EpochTypes), NamesApart(epochs), NEW own
    PROVE  LookupFinds(epochs, own)
<1> SUFFICES ASSUME epochs # <<>>, \A k \in DOMAIN epochs : epochs[k].name # "e0_old",
                    NEW n \in DOMAIN Walk(epochs, own)
             PROVE  FindEmailById(epochs, Walk(epochs, own)[n]) = <<Walk(epochs, own)[n].sha>>
  BY DEF LookupFinds
<1>1. PICK o \in Seq(EpochTypes) : o = Ordered(epochs) /\ NamesApart(o) /\ Range(o) = Range(epochs)
  BY OrderedIs
<1>2. PICK c \in Seq(CommitTypes) : c = Commits(o)
  BY CommitsSteps
<1>3. PICK id : id = Walk(epochs, own)[n]
  OBVIOUS
<1>4. n \in DOMAIN c /\ id = EmailId(n, c[n].epoch, c[n].place)
  BY <1>1, <1>2, <1>3, WalkIs
<1>5. \A k \in DOMAIN c : c[k] \in CommitTypes /\ c[k] = [epoch |-> c[k].epoch, place |-> c[k].place]
  <2>1. \A k \in DOMAIN c : c[k] \in CommitTypes
    BY LenProperties
  <2> QED BY <2>1 DEF CommitTypes
<1>6. id.sha = c[n] /\ id.epoch = c[n].epoch
  BY <1>4, <1>5 DEF EmailId
<1>7. c[n].epoch # "e0_old"
  <2>1. c[n] \in Range(c) /\ Range(c) = UNION {Range(EpochCommits(e)) : e \in Range(o)}
    <3>1. Range(c) = UNION {Range(EpochCommits(e)) : e \in Range(o)}
      BY <1>2, CommitsSteps
    <3>2. c[n] \in Range(c)
      BY <1>4 DEF Range
    <3> QED BY <3>1, <3>2
  <2>2. PICK e \in Range(o) : c[n] \in Range(EpochCommits(e))
    BY <2>1
  <2>3. e \in EpochTypes
    BY <2>2, LenProperties DEF Range
  <2>4. c[n].epoch = e.name
    BY <2>2, <2>3, EpochCommitsAre
  <2>5. e.name # "e0_old"
    BY <1>1, <2>2 DEF Range
  <2> QED BY <2>4, <2>5
<1>8. ParseEmailId(id) = id
  BY <1>6, <1>7 DEF ParseEmailId
<1>9. FindEmailById(epochs, id) = Chosen(CommitTypes, {c[n]}, c)
  <2>1. FindEmailById(epochs, id) =
          FlattenSeq([k \in DOMAIN c |->
            IF c[k].epoch = c[n].epoch /\ c[k] = c[n] THEN <<c[k]>> ELSE <<>>])
    BY <1>1, <1>2, <1>6, <1>8 DEF FindEmailById, Filter
  <2>2. \A k \in DOMAIN c : OneOrNone(CommitTypes, {c[n]})[c[k]] =
            IF c[k].epoch = c[n].epoch /\ c[k] = c[n] THEN <<c[k]>> ELSE <<>>
    <3>1. \A x \in CommitTypes : OneOrNone(CommitTypes, {c[n]})[x] = IF x \in {c[n]} THEN <<x>> ELSE <<>>
      BY OneOrNoneType
    <3>2. \A x : x = c[n] => x.epoch = c[n].epoch
      OBVIOUS
    <3> QED BY <1>5, <3>1, <3>2
  <2> QED BY <2>1, <2>2 DEF Chosen, FlatMap, Mapped
<1>10. Chosen(CommitTypes, {c[n]}, c) = <<c[n]>>
  <2>1. NoRepeats(c) /\ c[n] \in Range(c)
    BY <1>1, <1>2, <1>4, CommitsApart DEF Range
  <2> QED BY <2>1, ChosenSingle
<1> QED BY <1>3, <1>6, <1>9, <1>10

\* The commits the pages show, and those of the newest epoch before them.
LEMMA CollectIs ==
    ASSUME NEW epochs \in Seq(EpochTypes), NamesApart(epochs), NEW own \in Nat
    PROVE  CollectCommits(epochs, own) \in Seq(CommitTypes)
<1>1. PICK u \in Seq(EpochTypes) : u = EpochsToUse(epochs, own, "all")
  <2>1. CASE epochs = <<>>
    <3>1. PICK e \in EpochTypes : e = [name |-> "all", size |-> own]
      <4>1. "all" \in EpochNames
        BY NamesAre
      <4> QED BY <4>1 DEF EpochTypes
    <3>2. <<e>> \in Seq(EpochTypes)
      OBVIOUS
    <3> QED BY <2>1, <3>1, <3>2 DEF EpochsToUse
  <2>2. CASE epochs # <<>>
    BY <2>2, OrderedIs DEF EpochsToUse
  <2> QED BY <2>1, <2>2
<1>2. Reverse(u) \in Seq(EpochTypes)
  <2>1. PICK r : r = Reverse(u)
    OBVIOUS
  <2>2. DOMAIN u = 1 .. Len(u) /\ Len(u) \in Nat /\ \A k \in 1 .. Len(u) : u[k] \in EpochTypes
    BY LenProperties
  <2>3. r \in [1 .. Len(u) -> EpochTypes]
    BY <2>1, <2>2 DEF Reverse
  <2>4. \A n \in Nat : \A f \in [1 .. n -> EpochTypes] : f \in Seq(EpochTypes) /\ Len(f) = n
    OBVIOUS
  <2> QED BY <2>1, <2>2, <2>3, <2>4
<1> QED BY <1>1, <1>2, CommitsSteps DEF CollectCommits

(***************************************************************************)
(* Numbered epochs are read in the order of their numbers, and every       *)
(* identifier resumes without a panic (find_epochs, process_inbox).        *)
(***************************************************************************)
THEOREM NumbersAreOrder ==
    ASSUME NEW epochs \in Seq(EpochTypes), NamesApart(epochs), NEW own
    PROVE  NumbersOrderEpochs(epochs, own)
<1> SUFFICES ASSUME epochs # <<>>,
                    \A k \in DOMAIN epochs : IsNumber(epochs[k].name) /\ epochs[k].size > 0
             PROVE  /\ \A k \in DOMAIN epochs :
                         NumberOf[epochs[k].name] <= NumberOf[CollectCommits(epochs, own)[1].epoch]
                    /\ \A id \in Range(Walk(epochs, own)) : ~ResumePanics(epochs, own, id.epoch)
  BY DEF NumbersOrderEpochs
<1>1. PICK o \in Seq(EpochTypes) :
        /\ o = Ordered(epochs) /\ Len(o) = Len(epochs) /\ Range(o) = Range(epochs)
        /\ \A i, j \in 1 .. Len(epochs) : i < j => EpochRank[o[i]] < EpochRank[o[j]]
  BY OrderedIs
<1>2. /\ DOMAIN o = 1 .. Len(o) /\ Len(o) \in Nat /\ \A k \in 1 .. Len(o) : o[k] \in EpochTypes
      /\ DOMAIN epochs = 1 .. Len(epochs) /\ Len(epochs) >= 1
  BY <1>1, LenProperties, EmptySeq
<1>3. EpochsToUse(epochs, own, "all") = o
  BY <1>1 DEF EpochsToUse
<1>4. \A e \in Range(o) : IsNumber(e.name) /\ e.size > 0 /\ e \in EpochTypes
  <2>1. \A e \in Range(epochs) : IsNumber(e.name) /\ e.size > 0
    BY DEF Range
  <2>2. \A e \in Range(o) : e \in EpochTypes
    BY <1>2 DEF Range
  <2> QED BY <1>1, <2>1, <2>2
<1>5. PICK top \in EpochTypes : top = o[Len(o)] /\ top \in Range(o)
  BY <1>1, <1>2 DEF Range
<1>6. CollectCommits(epochs, own)[1].epoch = top.name
  <2>1. PICK r \in [1 .. Len(o) -> EpochTypes] : r = Reverse(o) /\ r[1] = top
    <3>1. \A i \in 1 .. Len(o) : (Len(o) - i) + 1 \in 1 .. Len(o)
      BY <1>2
    <3>2. PICK r : r = [i \in 1 .. Len(o) |-> o[(Len(o) - i) + 1]]
      OBVIOUS
    <3>3. r \in [1 .. Len(o) -> EpochTypes]
      BY <1>2, <3>1, <3>2
    <3>4. 1 \in 1 .. Len(o) /\ (Len(o) - 1) + 1 = Len(o)
      BY <1>1, <1>2
    <3>5. r[1] = top
      BY <1>5, <3>2, <3>4
    <3> QED BY <3>2, <3>3, <3>5 DEF Reverse
  <2>2. r \in Seq(EpochTypes) /\ Len(r) = Len(o)
    <3>1. \A n \in Nat : \A f \in [1 .. n -> EpochTypes] : f \in Seq(EpochTypes) /\ Len(f) = n
      OBVIOUS
    <3> QED BY <1>2, <2>1, <3>1
  <2>3. PICK b \in Seq(EpochTypes), t \in Seq(EpochTypes) :
          r = b \o t /\ Len(b) = 1 /\ b[1] = r[1]
    <3>1. 1 \in 0 .. Len(r)
      BY <1>1, <1>2, <2>2
    <3>2. /\ SubSeq(r, 1, 1) \in Seq(EpochTypes) /\ Len(SubSeq(r, 1, 1)) = 1
          /\ SubSeq(r, 1 + 1, Len(r)) \in Seq(EpochTypes)
          /\ r = SubSeq(r, 1, 1) \o SubSeq(r, 1 + 1, Len(r))
          /\ \A k \in 1 .. 1 : SubSeq(r, 1, 1)[k] = r[k]
      BY <2>2, <3>1, SeqParts
    <3>3. SubSeq(r, 1, 1)[1] = r[1]
      BY <3>2
    <3> QED BY <3>2, <3>3
  <2>4. b = <<top>>
    <3>1. <<top>> \in Seq(EpochTypes) /\ Len(<<top>>) = 1 /\ <<top>>[1] = top
      OBVIOUS
    <3>2. \A k \in 1 .. 1 : b[k] = <<top>>[k]
      BY <2>1, <2>3
    <3> QED BY <2>3, <3>1, <3>2, SeqEqual
  <2>5. PICK m \in Seq(CommitTypes) :
          /\ m = EpochCommits(top) /\ Len(m) = top.size
          /\ \A k \in 1 .. top.size : m[k] = [epoch |-> top.name, place |-> k]
    BY EpochCommitsAre
  <2>6. PICK n \in Seq(CommitTypes) : n = Commits(t)
    BY CommitsSteps
  <2>7. Commits(r) = m \o n
    <3>1. Commits(r) = Commits(b) \o Commits(t)
      BY <2>3, CommitsSteps
    <3>2. Commits(b) = m
      BY <2>4, <2>5, CommitsSteps
    <3> QED BY <2>6, <3>1, <3>2
  <2>8. (m \o n)[1] = m[1] /\ m[1] = [epoch |-> top.name, place |-> 1]
    <3>1. top.size \in Nat /\ top.size > 0
      BY <1>4, <1>5 DEF EpochTypes
    <3>2. 1 \in 1 .. top.size
      BY <3>1
    <3>3. Len(n) \in Nat
      BY LenProperties
    <3>4. (m \o n)[1] = m[1]
      BY <2>5, <3>1, <3>3, ConcatProperties
    <3> QED BY <2>5, <3>2, <3>4
  <2> QED BY <1>3, <2>1, <2>7, <2>8, SMTT(60) DEF CollectCommits
<1>7. ASSUME NEW k \in DOMAIN epochs
      PROVE  NumberOf[epochs[k].name] <= NumberOf[top.name]
  <2>1. epochs[k] \in Range(o)
    BY <1>1 DEF Range
  <2>2. PICK j \in 1 .. Len(o) : o[j] = epochs[k]
    BY <1>2, <2>1 DEF Range
  <2>3. CASE j = Len(o)
    <3>1. NumberOf[top.name] \in Nat
      BY <1>4, <1>5 DEF IsNumber, NumberOf
    <3> QED BY <1>5, <2>2, <2>3, <3>1
  <2>4. CASE j < Len(o)
    <3>1. EpochRank[o[j]] < EpochRank[top]
      BY <1>1, <1>2, <1>5, <2>4
    <3>2. o[j] \in EpochTypes /\ IsNumber(o[j].name) /\ IsNumber(top.name)
      BY <1>2, <1>4, <1>5, <2>1, <2>2
    <3>3. PlaceOf[o[j].name] < PlaceOf[top.name]
      BY <3>1, <3>2 DEF EpochRank
    <3>4. o[j].name \in {"e0", "e1", "e9", "e10"} /\ top.name \in {"e0", "e1", "e9", "e10"}
      BY <3>2, NamesAre DEF IsNumber
    <3>5. \A x, y \in {"e0", "e1", "e9", "e10"} :
            PlaceOf[x] < PlaceOf[y] => NumberOf[x] <= NumberOf[y]
      BY SMTT(60) DEF PlaceOf, NumberOf
    <3> QED BY <2>2, <3>3, <3>4, <3>5
  <2>5. PICK l \in Nat : l = Len(o)
    BY <1>2
  <2>6. j = l \/ j < l
    BY <2>5
  <2> QED BY <2>3, <2>4, <2>5, <2>6
<1>8. ASSUME NEW id \in Range(Walk(epochs, own))
      PROVE  ~ResumePanics(epochs, own, id.epoch)
  <2>1. PICK n \in DOMAIN Walk(epochs, own) : id = Walk(epochs, own)[n]
    BY DEF Range
  <2>2. PICK c \in Seq(CommitTypes) : c = Commits(o)
    BY CommitsSteps
  <2>3. id = EmailId(n, c[n].epoch, c[n].place) /\ n \in DOMAIN c
    BY <1>1, <2>1, <2>2, WalkIs
  <2>4. id.epoch = c[n].epoch
    BY <2>3 DEF EmailId
  <2>5. c[n] \in Range(c) /\ Range(c) = UNION {Range(EpochCommits(e)) : e \in Range(o)}
    <3>1. Range(c) = UNION {Range(EpochCommits(e)) : e \in Range(o)}
      BY <2>2, CommitsSteps
    <3>2. c[n] \in Range(c)
      BY <2>3 DEF Range
    <3> QED BY <3>1, <3>2
  <2>6. PICK e \in Range(o) : c[n] \in Range(EpochCommits(e))
    BY <2>5
  <2>7. c[n].epoch = e.name
    BY <1>4, <2>6, EpochCommitsAre
  <2>8. IsNumber(id.epoch)
    BY <1>4, <2>4, <2>6, <2>7
  <2> QED BY <1>3, <1>4, <2>8 DEF ResumePanics
<1> QED BY <1>6, <1>7, <1>8

-----------------------------------------------------------------------------
(***************************************************************************)
(* The pages of check_git.                                                 *)
(***************************************************************************)
\* Pieces that follow on each other, cut out of a sequence.
IsCut(c, ends, pieces) ==
    \A i \in 1 .. Len(pieces) : pieces[i] = SubSeq(c, ends[i - 1] + 1, ends[i])

LEMMA PiecesMakeWhole ==
    ASSUME NEW S, NEW c \in Seq(S), NEW ends \in [Nat -> 0 .. Len(c)], ends[0] = 0,
           \A i \in Nat : ends[i] <= ends[i + 1],
           NEW pieces \in Seq(Seq(S)), IsCut(c, ends, pieces)
    PROVE  FlattenSeq(pieces) = SubSeq(c, 1, ends[Len(pieces)])
<1> DEFINE T == {q \in Seq(Seq(S)) : IsCut(c, ends, q) => FlattenSeq(q) = SubSeq(c, 1, ends[Len(q)])}
<1>1. <<>> \in T
  <2>1. <<>> \in Seq(Seq(S)) /\ FlattenSeq(<<>>) = <<>> /\ Len(<<>>) = 0
    BY FlattenType
  <2>2. SubSeq(c, 1, 0) = <<>>
    <3>1. SubSeq(c, 1, 0) \in Seq(S) /\ Len(SubSeq(c, 1, 0)) = 0
      BY LenProperties, SubSeqProperties
    <3> QED BY <3>1, EmptySeq
  <2> QED BY <2>1, <2>2
<1>2. ASSUME NEW q \in Seq(Seq(S)), NEW s \in Seq(S), q \in T PROVE Append(q, s) \in T
  <2>1. PICK a \in Seq(Seq(S)) :
          /\ a = Append(q, s) /\ Len(a) = Len(q) + 1 /\ Len(q) \in Nat
          /\ \A k \in 1 .. Len(q) : a[k] = q[k]
          /\ a[Len(q) + 1] = s
    BY AppendProperties, LenProperties, ZenonT(60)
  <2>2. ASSUME IsCut(c, ends, a) PROVE FlattenSeq(a) = SubSeq(c, 1, ends[Len(a)])
    <3>1. \A i \in 1 .. Len(q) + 1 : a[i] = SubSeq(c, ends[i - 1] + 1, ends[i])
      BY <2>1, <2>2 DEF IsCut
    <3>2. IsCut(c, ends, q)
      <4>1. \A i \in 1 .. Len(q) : i \in 1 .. Len(q) + 1
        BY <2>1
      <4> QED BY <2>1, <3>1, <4>1 DEF IsCut
    <3>3. s = SubSeq(c, ends[Len(q)] + 1, ends[Len(q) + 1])
      <4>1. Len(q) + 1 \in 1 .. Len(q) + 1 /\ (Len(q) + 1) - 1 = Len(q)
        BY <2>1
      <4> QED BY <2>1, <3>1, <4>1
    <3>4. FlattenSeq(q \o <<s>>) = FlattenSeq(q) \o s /\ a = q \o <<s>>
      BY <2>1, FlattenAppend, AppendIsConcat
    <3>5. FlattenSeq(q) = SubSeq(c, 1, ends[Len(q)])
      BY <1>2, <3>2
    <3>6. PICK d \in 0 .. Len(c), e \in 0 .. Len(c) :
            d = ends[Len(q)] /\ e = ends[Len(q) + 1] /\ d <= e
      <4>1. ends[Len(q)] <= ends[Len(q) + 1] /\ Len(q) + 1 \in Nat
        BY <2>1
      <4> QED BY <2>1, <4>1
    <3>7. SubSeq(c, 1, d) \o SubSeq(c, d + 1, e) = SubSeq(c, 1, e)
      <4>1. /\ 1 \in 1 .. Len(c) + 1 /\ d \in 1 - 1 .. Len(c) /\ e \in d .. Len(c)
        BY <3>6, LenProperties
      <4> QED BY <4>1, ConcatAdjacentSubSeq
    <3> QED BY <2>1, <3>3, <3>4, <3>5, <3>6, <3>7
  <2> QED BY <2>1, <2>2
<1> HIDE DEF T
<1>3. Seq(Seq(S)) \subseteq T
  BY <1>1, <1>2, SeqInduction
<1> QED BY <1>3 DEF T

LEMMA Division ==
    ASSUME NEW a \in Nat, NEW d \in Nat \ {0}
    PROVE  a = d * (a \div d) + (a % d)
BY SMTT(30)

LEMMA Multiples ==
    ASSUME NEW a \in Nat, NEW e \in Nat, NEW d \in Nat, a <= e
    PROVE  a * d <= e * d /\ a * d \in Nat
BY SMTT(30)

\* As many pages as it takes, the last one not empty.
LEMMA PagesEnough ==
    ASSUME NEW n \in Nat, NEW size \in Nat \ {0}, NEW p, p = (n + size - 1) \div size
    PROVE  p \in Nat /\ p * size >= n /\ (p > 0 => (p - 1) * size < n)
<1>1. PICK a \in Nat : a = n + size - 1
  OBVIOUS
<1>2. p = a \div size
  BY <1>1
<1>3. PICK r : r = a % size
  OBVIOUS
<1>4. p \in Nat /\ r \in 0 .. size - 1
  BY <1>2, <1>3
<1>5. a = size * p + r
  BY <1>2, <1>3, Division, Zenon
<1>6. p * size = size * p /\ (p - 1) * size = size * p - size
  BY <1>4
<1>7. PICK m \in Int : m = size * p
  BY <1>4
<1>8. a = m + r /\ p * size = m /\ (p - 1) * size = m - size
  BY <1>5, <1>6, <1>7
<1> QED BY <1>1, <1>4, <1>8

(***************************************************************************)
(* The pages of check_git show every commit once and in order, and none of *)
(* them is empty (browse_inbox).                                           *)
(***************************************************************************)
THEOREM PagesAreWhole ==
    ASSUME NEW epochs \in Seq(EpochTypes), NamesApart(epochs), NEW own \in Nat,
           NEW size \in Nat \ {0}
    PROVE  PagesPartition(epochs, own, size)
<1>1. PICK c \in Seq(CommitTypes) : c = CollectCommits(epochs, own)
  BY CollectIs
<1>2. PICK n \in Nat : n = Len(c)
  BY LenProperties
<1>3. PICK p \in Nat : p = Pages(c, size) /\ p * size >= n /\ (p > 0 => (p - 1) * size < n)
  BY <1>2, PagesEnough DEF Pages
<1>4. PICK pages : pages = [k \in 1 .. p |-> Page(c, size, k - 1)]
  OBVIOUS
<1>5. PICK ends : ends = [m \in Nat |-> IF m * size > n THEN n ELSE m * size]
  OBVIOUS
<1>6. \A m \in Nat : m * size \in Nat /\ m * size <= (m + 1) * size
  BY Multiples
<1>7. /\ ends \in [Nat -> 0 .. n] /\ ends[0] = 0 /\ ends[p] = n
      /\ \A m \in Nat : ends[m] <= ends[m + 1]
  <2>1. \A m \in Nat : ends[m] = IF m * size > n THEN n ELSE m * size
    BY <1>5
  <2>2. ends \in [Nat -> 0 .. n]
    BY <1>5, <1>6
  <2>3. ends[0] = 0
    BY <2>1
  <2>4. ends[p] = n
    BY <1>3, <1>6, <2>1, SMTT(60)
  <2>5. ASSUME NEW m \in Nat PROVE ends[m] <= ends[m + 1]
    <3>1. PICK x \in Nat : x = m * size
      BY <1>6
    <3>2. PICK y \in Nat : y = (m + 1) * size /\ x <= y
      BY <1>6, <3>1
    <3>3. ends[m] = (IF x > n THEN n ELSE x) /\ ends[m + 1] = IF y > n THEN n ELSE y
      BY <2>1, <3>1, <3>2
    <3> QED BY <3>2, <3>3
  <2> QED BY <2>2, <2>3, <2>4, <2>5
<1>8. ASSUME NEW k \in 1 .. p
      PROVE  /\ pages[k] = SubSeq(c, ends[k - 1] + 1, ends[k])
             /\ ends[k - 1] < ends[k]
  <2>1. PICK x \in Nat : x = (k - 1) * size /\ x < n
    <3>1. (k - 1) * size <= (p - 1) * size /\ (k - 1) * size \in Nat
      <4>1. k - 1 \in Nat /\ p - 1 \in Nat /\ k - 1 <= p - 1
        BY <1>3
      <4> QED BY <4>1, Multiples
    <3>2. PICK z : z = (p - 1) * size /\ z < n /\ z \in Int
      BY <1>3
    <3> QED BY <3>1, <3>2
  <2>2. PICK y \in Nat : y = k * size /\ x < y
    <3>1. k * size \in Nat
      BY <1>6
    <3>2. k * size = (k - 1) * size + size
      OBVIOUS
    <3> QED BY <2>1, <3>1, <3>2
  <2>3. ends[k - 1] = x /\ ends[k] = IF y > n THEN n ELSE y
    <3>1. \A m \in Nat : ends[m] = IF m * size > n THEN n ELSE m * size
      BY <1>5
    <3>2. k - 1 \in Nat /\ k \in Nat
      OBVIOUS
    <3>3. ends[k - 1] = IF x > n THEN n ELSE x
      BY <2>1, <3>1, <3>2
    <3> QED BY <2>1, <2>2, <3>1, <3>2, <3>3
  <2>4. Page(c, size, k - 1) = SubSeq(c, x + 1, IF y > n THEN n ELSE y)
    <3>1. ((k - 1) + 1) * size = y
      <4>1. (k - 1) + 1 = k
        OBVIOUS
      <4> QED BY <2>2, <4>1
    <3> QED BY <1>2, <2>1, <3>1 DEF Page
  <2> QED BY <1>4, <2>1, <2>2, <2>3, <2>4
<1>9. ASSUME NEW k \in 1 .. p
      PROVE  pages[k] \in Seq(CommitTypes) /\ pages[k] # <<>>
  <2>1. PICK a \in 0 .. n, e \in 0 .. n : a = ends[k - 1] /\ e = ends[k] /\ a < e
    <3>1. k - 1 \in Nat /\ k \in Nat
      OBVIOUS
    <3> QED BY <1>7, <1>8, <3>1
  <2>2. /\ SubSeq(c, a + 1, e) \in Seq(CommitTypes)
        /\ Len(SubSeq(c, a + 1, e)) = IF a + 1 <= e THEN e - (a + 1) + 1 ELSE 0
    <3>1. /\ a + 1 \in Int /\ e \in Int
          /\ \A i \in a + 1 .. e : c[i] \in CommitTypes
      BY <1>2, LenProperties
    <3> QED BY <3>1, SubSeqProperties
  <2>3. PICK page \in Seq(CommitTypes) : page = pages[k] /\ page = SubSeq(c, a + 1, e)
    BY <1>8, <2>1, <2>2
  <2>4. Len(page) > 0
    <3>1. a + 1 <= e /\ e - (a + 1) + 1 > 0
      BY <2>1, SMTT(60)
    <3> QED BY <2>2, <2>3, <3>1
  <2>5. page # <<>>
    BY <2>4
  <2> QED BY <2>3, <2>5
<1>10. pages \in Seq(Seq(CommitTypes)) /\ Len(pages) = p
  <2>1. \A m \in Nat : \A f \in [1 .. m -> Seq(CommitTypes)] : f \in Seq(Seq(CommitTypes)) /\ Len(f) = m
    OBVIOUS
  <2>2. pages \in [1 .. p -> Seq(CommitTypes)]
    BY <1>4, <1>9
  <2> QED BY <1>3, <2>1, <2>2
<1>11. FlattenSeq(pages) = c
  <2>1. IsCut(c, ends, pages)
    BY <1>8, <1>10 DEF IsCut
  <2>2. FlattenSeq(pages) = SubSeq(c, 1, ends[Len(pages)])
    BY <1>2, <1>7, <1>10, <2>1, PiecesMakeWhole, ZenonT(60)
  <2>3. SubSeq(c, 1, Len(c)) = c
    BY SubSeqFull
  <2> QED BY <1>2, <1>7, <1>10, <2>2, <2>3
<1>12. DOMAIN pages = 1 .. p
  BY <1>4
<1> QED BY <1>1, <1>3, <1>4, <1>9, <1>11, <1>12 DEF PagesPartition

-----------------------------------------------------------------------------
(***************************************************************************)
(* The mailmap.                                                            *)
(***************************************************************************)
Ids == STRING \ {""}
Typed == Addresses \cup {NoAddress}
MapLines == [pairs : Seq(Addresses), bytes : {"ascii", "shifts", "panics"}]

\* The lines that name an address behind their first pair.
NamesAddress(line, addr) ==
    /\ line.bytes = "ascii"
    /\ \E j \in 2 .. Len(line.pairs) : line.pairs[j].id = addr.id

LinesNaming(lines, addr) == {k \in DOMAIN lines : NamesAddress(lines[k], addr)}

CanonicalOf(lines, addr) ==
    IF LinesNaming(lines, addr) = {} THEN NoAddress
    ELSE lines[Max(LinesNaming(lines, addr))].pairs[1]

LEMMA AddressParts ==
    /\ \A a \in Addresses : a.id # "" /\ a # NoAddress
    /\ \A a, e \in Typed : Lower(a) = Lower(e) <=> a.id = e.id
<1>1. NoAddress = [id |-> "", upper |-> FALSE]
  BY DEF NoAddress
<1>2. \A x \in Ids : x # ""
  BY Zenon DEF Ids
<1>3. ASSUME NEW a \in Addresses PROVE a.id # "" /\ a # NoAddress
  <2>1. a.id \in Ids
    BY Zenon DEF Addresses, Ids
  <2>2. a.id # ""
    BY <1>2, <2>1
  <2>3. NoAddress.id = ""
    BY <1>1
  <2> QED BY <2>2, <2>3
<1>4. ASSUME NEW a \in Typed PROVE Lower(a) = [id |-> a.id, upper |-> FALSE]
  <2>1. \E O : a \in [id : O, upper : BOOLEAN]
    <3>1. CASE a \in Addresses
      <4>1. PICK O : O = STRING \ {""}
        OBVIOUS
      <4>2. a \in [id : O, upper : BOOLEAN]
        BY <3>1, <4>1, Zenon DEF Addresses
      <4> QED BY <4>2
    <3>2. CASE a = NoAddress
      <4>1. a \in [id : {""}, upper : BOOLEAN]
        BY <1>1, <3>2
      <4> QED BY <4>1
    <3> QED BY <3>1, <3>2 DEF Typed
  <2>2. PICK O : a \in [id : O, upper : BOOLEAN]
    BY <2>1
  <2>3. PICK x : x = Lower(a)
    OBVIOUS
  <2>4. x \in [id : O, upper : BOOLEAN] /\ x.id = a.id /\ x.upper = FALSE
    BY <2>2, <2>3 DEF Lower
  <2> QED BY <2>3, <2>4
<1>5. ASSUME NEW a \in Typed, NEW e \in Typed
      PROVE  Lower(a) = Lower(e) <=> a.id = e.id
  <2>1. PICK x, y : x = Lower(a) /\ y = Lower(e)
    OBVIOUS
  <2>2. x = [id |-> a.id, upper |-> FALSE] /\ y = [id |-> e.id, upper |-> FALSE]
    BY <1>4, <2>1
  <2>3. x.id = a.id /\ y.id = e.id
    BY <2>2
  <2> QED BY <2>1, <2>2, <2>3
<1> QED BY <1>3, <1>5

LEMMA AliasesNamed ==
    ASSUME NEW line \in MapLines, NEW addr \in Typed
    PROVE  Lower(addr) \in Aliases(line) <=> NamesAddress(line, addr)
<1>1. PICK pairs \in Seq(Addresses) : pairs = line.pairs
  BY DEF MapLines
<1>2. /\ Len(pairs) \in Nat
      /\ \A k \in 2 .. Len(pairs) : pairs[k] \in Typed
      /\ pairs = <<>> => Len(pairs) = 0
  BY LenProperties DEF Typed
<1>3. \A k \in 2 .. Len(pairs) : Lower(addr) = Lower(pairs[k]) <=> pairs[k].id = addr.id
  BY <1>2, AddressParts
<1>4. CASE line.bytes # "ascii" \/ pairs = <<>>
  BY <1>1, <1>2, <1>4 DEF Aliases, NamesAddress
<1>5. CASE ~(line.bytes # "ascii" \/ pairs = <<>>)
  <2>1. Aliases(line) = {Lower(pairs[k]) : k \in 2 .. Len(pairs)}
    BY <1>1, <1>5 DEF Aliases
  <2> HIDE DEF Lower
  <2> QED BY <1>1, <1>3, <1>5, <2>1 DEF NamesAddress
<1> QED BY <1>4, <1>5

LEMMA ResolveIs ==
    ASSUME NEW lines \in Seq(MapLines), NEW addr \in Typed
    PROVE  /\ Resolve(lines, addr) = CanonicalOf(lines, addr)
           /\ LinesNaming(lines, addr) # {} => CanonicalOf(lines, addr) # NoAddress
<1> DEFINE N == LinesNaming(lines, addr)
<1>1. DOMAIN lines = 1 .. Len(lines) /\ Len(lines) \in Nat
      /\ \A k \in 1 .. Len(lines) : lines[k] \in MapLines
  BY LenProperties
<1>2. N = {k \in 1 .. Len(lines) : Lower(addr) \in Aliases(lines[k])}
  BY <1>1, AliasesNamed DEF LinesNaming
<1>3. N \in SUBSET (1 .. Len(lines))
  BY <1>2
<1>4. PICK last : last = SelectLastInSeq(lines, LAMBDA line : Lower(addr) \in Aliases(line))
  OBVIOUS
<1>5. last = IF N = {} THEN 0 ELSE Max(N)
  BY <1>2, <1>4 DEF SelectLastInSeq
<1>6. Resolve(lines, addr) =
        IF last = 0 \/ addr = NoAddress THEN NoAddress ELSE Head(lines[last].pairs)
  BY <1>4 DEF Resolve
<1>7. CASE N = {}
  BY <1>5, <1>6, <1>7 DEF CanonicalOf
<1>8. CASE N # {}
  <2>1. last \in N /\ last = Max(N)
    <3> HIDE DEF N
    <3> QED BY <1>1, <1>3, <1>5, <1>8, MaxOf
  <2>2. last \in 1 .. Len(lines) /\ NamesAddress(lines[last], addr)
    BY <1>1, <2>1 DEF LinesNaming
  <2>3. PICK pairs \in Seq(Addresses) : pairs = lines[last].pairs
    BY <1>1, <2>2 DEF MapLines
  <2>4. PICK j \in 2 .. Len(pairs) : pairs[j].id = addr.id
    BY <2>2, <2>3 DEF NamesAddress
  <2>5. pairs[j] \in Addresses /\ pairs[1] \in Addresses /\ Head(pairs) = pairs[1]
    BY <2>4, LenProperties
  <2>6. addr # NoAddress
    <3>1. pairs[j].id # ""
      BY <2>5, AddressParts
    <3>2. NoAddress.id = ""
      BY DEF NoAddress
    <3> QED BY <2>4, <3>1, <3>2
  <2>7. CanonicalOf(lines, addr) = pairs[1]
    BY <1>8, <2>1, <2>3 DEF CanonicalOf
  <2>8. last # 0
    BY <1>1, <2>2, SMTT(60)
  <2> QED BY <1>6, <2>3, <2>5, <2>6, <2>7, <2>8, AddressParts
<1> QED BY <1>7, <1>8

(***************************************************************************)
(* A canonical address stands at the position of its trailer, taken from   *)
(* the last line that names it (mailmap.rs, parse_email).                  *)
(***************************************************************************)
THEOREM CanonicalsInPlace ==
    ASSUME NEW lines \in Seq(MapLines), NEW trailers \in Seq(Typed)
    PROVE  CanonicalAtPosition(lines, trailers)
<1>1. \A k \in DOMAIN trailers : trailers[k] \in Typed
  BY LenProperties
<1>2. PICK resolved : resolved = [k \in DOMAIN trailers |-> CanonicalOf(lines, trailers[k])]
  OBVIOUS
<1>3. resolved = [k \in DOMAIN trailers |-> Resolve(lines, trailers[k])]
  BY <1>1, <1>2, ResolveIs
<1>4. PICK canonical : canonical = CanonicalTrailers(lines, trailers)
  OBVIOUS
<1>5. canonical = IF \E k \in DOMAIN resolved : resolved[k] # NoAddress THEN resolved ELSE <<>>
  BY <1>3, <1>4 DEF CanonicalTrailers
<1>6. canonical \in {<<>>, resolved}
  BY <1>5
<1>7. ASSUME canonical = <<>>, NEW k \in DOMAIN trailers
      PROVE  LinesNaming(lines, trailers[k]) = {}
  <2>1. CASE \E j \in DOMAIN resolved : resolved[j] # NoAddress
    <3>1. resolved = <<>>
      BY <1>5, <1>7, <2>1
    <3>2. DOMAIN resolved = {}
      BY <3>1
    <3> QED BY <2>1, <3>2
  <2>2. CASE ~ \E j \in DOMAIN resolved : resolved[j] # NoAddress
    <3>1. CanonicalOf(lines, trailers[k]) = NoAddress
      BY <1>2, <2>2
    <3> QED BY <1>1, <3>1, ResolveIs
  <2> QED BY <2>1, <2>2
<1> QED BY <1>2, <1>4, <1>6, <1>7
      DEF CanonicalAtPosition, CanonicalOf, LinesNaming, NamesAddress

-----------------------------------------------------------------------------
(***************************************************************************)
(* The anonymizer.  What items are of is left open: O.                     *)
(***************************************************************************)
Kinds == {"sep", "word", "bare", "box", "loose", "hash", "hashbox"}

Items(O)  == [kind : Kinds, of : O]
Hashed(O) == O \cup Seq(O)

\* Where a name starts: behind the last separator.
LEMMA NameStartIs ==
    ASSUME NEW S, NEW q \in Seq(S)
    PROVE  /\ NameStart(q) \in 1 .. Len(q) + 1
           /\ NameStart(q) > 1 => IsSep(q[NameStart(q) - 1])
           /\ \A i \in NameStart(q) .. Len(q) : ~IsSep(q[i])
           /\ \A m \in 1 .. Len(q) + 1 :
                /\ m > 1 => IsSep(q[m - 1])
                /\ \A i \in m .. Len(q) : ~IsSep(q[i])
                => NameStart(q) = m
<1> DEFINE I == {i \in 1 .. Len(q) : IsSep(q[i])}
<1>1. Len(q) \in Nat /\ I \in SUBSET (1 .. Len(q))
  BY LenProperties
<1>2. NameStart(q) = (IF I # {} THEN Max(I) ELSE 0) + 1
  BY DEF NameStart, SelectLastInSeq
<1>3. CASE I = {}
  <2>1. NameStart(q) = 1 /\ \A i \in 1 .. Len(q) : ~IsSep(q[i])
    BY <1>2, <1>3
  <2>2. ASSUME NEW m \in 1 .. Len(q) + 1, m > 1 => IsSep(q[m - 1])
        PROVE  m = 1
    <3>1. m > 1 => m - 1 \in 1 .. Len(q)
      BY <1>1
    <3> QED BY <2>1, <2>2, <3>1
  <2> QED BY <1>1, <2>1, <2>2
<1>4. CASE I # {}
  <2>1. PICK last \in I : last = Max(I) /\ \A i \in I : last >= i
    <3> HIDE DEF I
    <3> QED BY <1>1, <1>4, MaxOf
  <2>2. NameStart(q) = last + 1 /\ last \in 1 .. Len(q) /\ IsSep(q[last])
    BY <1>2, <1>4, <2>1
  <2>3. \A i \in last + 1 .. Len(q) : ~IsSep(q[i])
    <3>1. ASSUME NEW i \in last + 1 .. Len(q), IsSep(q[i]) PROVE FALSE
      <4>1. i \in I /\ ~(last >= i)
        BY <1>1, <2>2, <3>1
      <4> QED BY <2>1, <4>1
    <3> QED BY <3>1
  <2>4. ASSUME NEW m \in 1 .. Len(q) + 1, m > 1 => IsSep(q[m - 1]),
               \A i \in m .. Len(q) : ~IsSep(q[i])
        PROVE  m = last + 1
    <3>1. ~(m <= last)
      BY <1>1, <2>2, <2>4
    <3>2. ~(m > last + 1)
      <4>1. m > last + 1 => m - 1 \in last + 1 .. Len(q)
        BY <1>1, <2>2
      <4> QED BY <2>2, <2>3, <2>4, <4>1
    <3> QED BY <2>2, <3>1, <3>2
  <2> QED BY <1>1, <2>2, <2>3, <2>4
<1> QED BY <1>3, <1>4

\* Ends with a separator if there is anything; and has none.
Closes(x) == x = <<>> \/ IsSep(x[Len(x)])
Plain(y)  == \A i \in 1 .. Len(y) : ~IsSep(y[i])

\* What is in front of the name, and the name.
LEMMA SplitIs ==
    ASSUME NEW S, NEW x \in Seq(S), NEW y \in Seq(S), Closes(x), Plain(y)
    PROVE  PrefixOf(x \o y) = x /\ NameOf(x \o y) = y
<1>0. PICK q \in Seq(S) : q = x \o y
  BY ConcatProperties
<1>1. /\ q = x \o y /\ Len(q) = Len(x) + Len(y) /\ Len(x) \in Nat /\ Len(y) \in Nat
      /\ \A i \in 1 .. Len(x) + Len(y) : q[i] = IF i <= Len(x) THEN x[i] ELSE y[i - Len(x)]
  BY <1>0, ConcatProperties, LenProperties
<1>2. NameStart(q) = Len(x) + 1
  <2>1. Len(x) + 1 \in 1 .. Len(q) + 1
    BY <1>1
  <2>2. Len(x) + 1 > 1 => IsSep(q[(Len(x) + 1) - 1])
    <3>1. ASSUME Len(x) > 0 PROVE IsSep(q[Len(x)])
      <4>1. x # <<>> /\ q[Len(x)] = x[Len(x)]
        BY <1>1, <3>1
      <4> QED BY <4>1 DEF Closes
    <3>2. (Len(x) + 1) - 1 = Len(x)
      BY <1>1
    <3> QED BY <1>1, <3>1, <3>2
  <2>3. ASSUME NEW i \in Len(x) + 1 .. Len(q) PROVE ~IsSep(q[i])
    <3>1. i - Len(x) \in 1 .. Len(y) /\ q[i] = y[i - Len(x)]
      BY <1>1
    <3> QED BY <3>1 DEF Plain
  <2> QED BY <2>1, <2>2, <2>3, NameStartIs
<1>3. NameOf(q) = y
  <2>1. SubSeq(x \o y, Len(x) + 1, Len(x \o y)) = y
    BY Behind
  <2> QED BY <1>1, <1>2, <2>1 DEF NameOf
<1>4. PrefixOf(q) = x
  <2>1. (Len(x) + 1) - 1 = Len(x) /\ Len(x) \in 0 .. Len(x)
    BY <1>1
  <2>2. SubSeq(x \o y, 1, Len(x)) = SubSeq(x, 1, Len(x))
    BY <2>1, PartOfBeginning
  <2>3. SubSeq(x, 1, Len(x)) = x
    BY SubSeqFull
  <2> QED BY <1>1, <1>2, <2>1, <2>2, <2>3 DEF PrefixOf
<1> QED BY <1>1, <1>3, <1>4

LEMMA SplitExists ==
    ASSUME NEW S, NEW q \in Seq(S)
    PROVE  /\ PrefixOf(q) \in Seq(S) /\ NameOf(q) \in Seq(S)
           /\ q = PrefixOf(q) \o NameOf(q)
           /\ Closes(PrefixOf(q)) /\ Plain(NameOf(q))
<1>1. PICK m : /\ m = NameStart(q) /\ m \in 1 .. Len(q) + 1
               /\ m > 1 => IsSep(q[m - 1])
               /\ \A i \in m .. Len(q) : ~IsSep(q[i])
  BY NameStartIs
<1>2. Len(q) \in Nat /\ m - 1 \in 0 .. Len(q) /\ (m - 1) + 1 = m
  BY <1>1, LenProperties
<1>3. PICK x \in Seq(S), y \in Seq(S) :
        /\ x = PrefixOf(q) /\ y = NameOf(q) /\ q = x \o y
        /\ Len(x) = m - 1 /\ Len(y) = Len(q) - (m - 1)
        /\ \A i \in 1 .. m - 1 : x[i] = q[i]
  <2>1. /\ SubSeq(q, 1, m - 1) \in Seq(S) /\ Len(SubSeq(q, 1, m - 1)) = m - 1
        /\ SubSeq(q, (m - 1) + 1, Len(q)) \in Seq(S)
        /\ Len(SubSeq(q, (m - 1) + 1, Len(q))) = Len(q) - (m - 1)
        /\ q = SubSeq(q, 1, m - 1) \o SubSeq(q, (m - 1) + 1, Len(q))
        /\ \A k \in 1 .. m - 1 : SubSeq(q, 1, m - 1)[k] = q[k]
    BY <1>2, SeqParts
  <2> QED BY <1>1, <1>2, <2>1 DEF PrefixOf, NameOf
<1>4. Closes(x)
  <2>1. CASE m = 1
    BY <1>3, <2>1, EmptySeq DEF Closes
  <2>2. CASE m > 1
    <3>1. x[m - 1] = q[m - 1]
      BY <1>2, <1>3, <2>2, SMTT(60)
    <3> QED BY <1>1, <1>3, <2>2, <3>1 DEF Closes
  <2> QED BY <1>1, <2>1, <2>2
<1>5. Plain(y)
  <2>1. ASSUME NEW i \in 1 .. Len(y) PROVE ~IsSep(y[i])
    <3>1. (m - 1) + i \in m .. Len(q)
      BY <1>2, <1>3
    <3>2. q[(m - 1) + i] = y[i]
      <4>1. /\ \A j \in 1 .. Len(x) + Len(y) :
                 (x \o y)[j] = IF j <= Len(x) THEN x[j] ELSE y[j - Len(x)]
            /\ Len(y) \in Nat
        BY ConcatProperties, LenProperties
      <4>2. (m - 1) + i \in 1 .. Len(x) + Len(y) /\ ~((m - 1) + i <= Len(x))
            /\ ((m - 1) + i) - Len(x) = i
        BY <1>2, <1>3, <4>1, SMTT(60)
      <4> QED BY <1>3, <4>1, <4>2
    <3> QED BY <1>1, <3>1, <3>2
  <2> QED BY <2>1 DEF Plain
<1> QED BY <1>3, <1>4, <1>5

LEMMA Reassociate ==
    ASSUME NEW S
    PROVE  \A x, y, z \in Seq(S) : (x \o y) \o z = x \o (y \o z)
BY ConcatAssociative

LEMMA ReassociateAs ==
    ASSUME NEW S, NEW x \in Seq(S), NEW y \in Seq(S), NEW z \in Seq(S),
           NEW xy, xy = x \o y, NEW yz, yz = y \o z
    PROVE  xy \o z = x \o yz
BY ConcatAssociative, SMTT(60)

\* A name is not looked for in front of a separator.
LEMMA SplitBehind ==
    ASSUME NEW S, NEW p \in Seq(S), p # <<>>, Closes(p), NEW q \in Seq(S)
    PROVE  PrefixOf(p \o q) = p \o PrefixOf(q) /\ NameOf(p \o q) = NameOf(q)
<1>1. PICK x \in Seq(S), y \in Seq(S) :
        x = PrefixOf(q) /\ y = NameOf(q) /\ q = x \o y /\ Closes(x) /\ Plain(y)
  BY SplitExists
<1>6. PICK z \in Seq(S) : z = p \o x
  BY ConcatProperties
<1>2. /\ z = p \o x /\ Len(z) = Len(p) + Len(x) /\ Len(p) \in Nat /\ Len(x) \in Nat
      /\ \A i \in 1 .. Len(p) + Len(x) : z[i] = IF i <= Len(p) THEN p[i] ELSE x[i - Len(p)]
  BY <1>6, ConcatProperties, LenProperties
<1>3. p \o q = z \o y
  <2>1. (p \o x) \o y = p \o (x \o y)
    BY Reassociate, SMTT(60)
  <2> QED BY <1>1, <1>6, <2>1
<1>4. Closes(z)
  <2>1. CASE x = <<>>
    <3>1. z = p
      BY <1>2, <2>1, ConcatEmptySeq
    <3> QED BY <3>1
  <2>2. CASE x # <<>>
    <3>1. Len(x) > 0
      BY <1>2, <2>2, EmptySeq
    <3>2. z[Len(z)] = x[Len(x)]
      BY <1>2, <3>1
    <3> QED BY <1>1, <2>2, <3>2 DEF Closes
  <2> QED BY <2>1, <2>2
<1>5. PrefixOf(z \o y) = z /\ NameOf(z \o y) = y
  BY <1>1, <1>4, SplitIs
<1> QED BY <1>1, <1>2, <1>3, <1>5

\* What both loops of the anonymizer do with an item, as one step: the one
\* that looks for addresses in brackets and the one that looks for bare ones
\* differ in the kind of item, in what F makes of an address without a name,
\* and in whether one with nothing before it stays.
Substitute(before, item, F, stay) ==
    IF stay /\ before = <<>> THEN <<item>>
    ELSE IF NameOf(before) = <<>> THEN Append(before, F[item])
    ELSE PrefixOf(before) \o <<Hash(NameOf(before)), HashBox(item)>>

ReplaceOne(acc, item, kind, F, stay) ==
    IF item.kind # kind
    THEN [out |-> acc.out, before |-> Append(acc.before, item)]
    ELSE [out |-> acc.out \o Substitute(acc.before, item, F, stay), before |-> <<>>]

States(O) == [out : Seq(Items(Hashed(O))), before : Seq(Items(O))]

Untouched == [out |-> <<>>, before |-> <<>>]

HashItems(O) == {i \in Items(Hashed(O)) : i.kind \in {"hash", "hashbox"}}
Edits(O)     == [Items(O) -> HashItems(O)]

Replacing(O, kind, F, stay) ==
    [p \in States(O) \X Items(O) |-> ReplaceOne(p[1], p[2], kind, F, stay)]

\* The state after q, and what has become of q.
Reached(O, kind, F, stay, q) == Fold(Replacing(O, kind, F, stay), Untouched, q)

Outcome(O, kind, F, stay, q) ==
    Reached(O, kind, F, stay, q).out \o Reached(O, kind, F, stay, q).before

LEMMA ItemsGrow ==
    ASSUME NEW O
    PROVE  /\ Items(O) \subseteq Items(Hashed(O))
           /\ \A q \in Seq(Items(O)) : q \in Seq(Items(Hashed(O)))
           /\ HashItems(O) \subseteq Items(Hashed(O))
<1>1. Items(O) \subseteq Items(Hashed(O))
  BY DEF Items, Hashed
<1>2. \A S, V : S \subseteq V => \A q \in Seq(S) : q \in Seq(V)
  OBVIOUS
<1>3. HashItems(O) \subseteq Items(Hashed(O))
  BY DEF HashItems
<1> HIDE DEF Items, HashItems
<1> QED BY <1>1, <1>2, <1>3

LEMMA HashesAre ==
    ASSUME NEW O
    PROVE  /\ \A q \in Seq(Items(O)) : Hash(q) \in HashItems(O)
           /\ \A i \in Items(O) : HashBox(i) \in HashItems(O)
<1>1. ASSUME NEW q \in Seq(Items(O)) PROVE Hash(q) \in HashItems(O)
  <2>1. DOMAIN q = 1 .. Len(q) /\ Len(q) \in Nat /\ \A k \in 1 .. Len(q) : q[k].of \in O
    <3>1. DOMAIN q = 1 .. Len(q) /\ Len(q) \in Nat /\ \A k \in 1 .. Len(q) : q[k] \in Items(O)
      BY LenProperties
    <3> QED BY <3>1 DEF Items
  <2>2. PICK f : f = [k \in DOMAIN q |-> q[k].of]
    OBVIOUS
  <2>3. f \in [1 .. Len(q) -> O]
    BY <2>1, <2>2
  <2>4. f \in Seq(O)
    <3>1. \A n \in Nat : \A g \in [1 .. n -> O] : g \in Seq(O)
      OBVIOUS
    <3> QED BY <2>1, <2>3, <3>1
  <2>5. Hash(q) = [kind |-> "hash", of |-> f]
    BY <2>2 DEF Hash, Item
  <2> QED BY <2>4, <2>5 DEF HashItems, Items, Hashed, Kinds
<1>2. ASSUME NEW i \in Items(O) PROVE HashBox(i) \in HashItems(O)
  <2>1. PICK o \in O : o = i.of
    BY DEF Items
  <2>2. PICK f \in Seq(O) : f = <<o>>
    <3>1. \A x \in O : <<x>> \in Seq(O)
      OBVIOUS
    <3> QED BY <3>1
  <2>3. HashBox(i) = [kind |-> "hashbox", of |-> f]
    BY <2>1, <2>2 DEF HashBox, Item
  <2> QED BY <2>3 DEF HashItems, Items, Hashed, Kinds
<1> QED BY <1>1, <1>2

\* What an address is replaced by.
Substitution(O, before, item, stay, sub) ==
    \/ stay /\ before = <<>> /\ sub = <<item>>
    \/ ~(stay /\ before = <<>>) /\ \E h \in HashItems(O) : sub = Append(before, h)
    \/ /\ ~(stay /\ before = <<>>)
       /\ \E h, g \in HashItems(O) : sub = Append(Append(PrefixOf(before), h), g)

LEMMA SubstituteIs ==
    ASSUME NEW O, NEW F \in Edits(O), NEW stay \in BOOLEAN,
           NEW before \in Seq(Items(O)), NEW item \in Items(O)
    PROVE  /\ Substitute(before, item, F, stay) \in Seq(Items(Hashed(O)))
           /\ Substitution(O, before, item, stay, Substitute(before, item, F, stay))
<1> DEFINE S == Items(Hashed(O))
<1>1. /\ Items(O) \subseteq S /\ HashItems(O) \subseteq S
      /\ before \in Seq(S) /\ item \in S
  BY ItemsGrow
<1>2. F[item] \in HashItems(O)
  BY DEF Edits
<1> HIDE DEF S
<1>3. CASE stay /\ before = <<>>
  <2>1. Substitute(before, item, F, stay) = <<item>> /\ <<item>> \in Seq(S)
    BY <1>1, <1>3 DEF Substitute
  <2> QED BY <1>3, <2>1 DEF S, Substitution
<1>4. CASE ~(stay /\ before = <<>>) /\ NameOf(before) = <<>>
  <2>1. PICK h \in HashItems(O) : Substitute(before, item, F, stay) = Append(before, h)
    BY <1>2, <1>4 DEF Substitute
  <2>2. Append(before, h) \in Seq(S)
    BY <1>1, AppendProperties
  <2> QED BY <1>4, <2>1, <2>2 DEF S, Substitution
<1>5. CASE ~(stay /\ before = <<>>) /\ NameOf(before) # <<>>
  <2>1. PICK h \in HashItems(O) : h = Hash(NameOf(before))
    BY SplitExists, HashesAre
  <2>2. PICK g \in HashItems(O) : g = HashBox(item)
    BY HashesAre
  <2>3. PICK p \in Seq(S) : p = PrefixOf(before)
    BY <1>1, SplitExists
  <2>4. Substitute(before, item, F, stay) = p \o <<h, g>>
    BY <1>5, <2>1, <2>2, <2>3 DEF Substitute
  <2>5. p \o <<h, g>> = Append(Append(p, h), g)
    BY <1>1
  <2>6. Append(Append(p, h), g) \in Seq(S)
    BY <1>1
  <2> QED BY <1>5, <2>3, <2>4, <2>5, <2>6 DEF S, Substitution
<1> QED BY <1>3, <1>4, <1>5

LEMMA UntouchedType == \A O : Untouched \in States(O)
<1>1. ASSUME NEW O PROVE Untouched \in States(O)
  <2>1. <<>> \in Seq(Items(Hashed(O))) /\ <<>> \in Seq(Items(O))
    OBVIOUS
  <2> QED BY <2>1 DEF Untouched, States
<1> QED BY <1>1

LEMMA ReplacingType ==
    ASSUME NEW O, NEW kind, NEW F \in Edits(O), NEW stay \in BOOLEAN
    PROVE  /\ Replacing(O, kind, F, stay) \in StepsOf(States(O), Items(O))
           /\ \A acc \in States(O), item \in Items(O) :
                Replacing(O, kind, F, stay)[<<acc, item>>] = ReplaceOne(acc, item, kind, F, stay)
<1>1. ASSUME NEW acc \in States(O), NEW item \in Items(O)
      PROVE  ReplaceOne(acc, item, kind, F, stay) \in States(O)
  <2>1. PICK out \in Seq(Items(Hashed(O))) : out = acc.out
    BY DEF States
  <2>2. PICK before \in Seq(Items(O)) : before = acc.before
    BY DEF States
  <2>3. PICK sub \in Seq(Items(Hashed(O))) : sub = Substitute(before, item, F, stay)
    BY SubstituteIs
  <2>4. ReplaceOne(acc, item, kind, F, stay) =
          IF item.kind # kind THEN [out |-> out, before |-> Append(before, item)]
          ELSE [out |-> out \o sub, before |-> <<>>]
    BY <2>1, <2>2, <2>3 DEF ReplaceOne
  <2>5. /\ out \o sub \in Seq(Items(Hashed(O))) /\ <<>> \in Seq(Items(O))
        /\ Append(before, item) \in Seq(Items(O))
    BY ConcatProperties, AppendProperties
  <2> QED BY <2>4, <2>5 DEF States
<1>2. Replacing(O, kind, F, stay) \in StepsOf(States(O), Items(O))
  BY <1>1 DEF Replacing, StepsOf
<1>3. \A acc \in States(O), item \in Items(O) :
        Replacing(O, kind, F, stay)[<<acc, item>>] = ReplaceOne(acc, item, kind, F, stay)
  BY DEF Replacing
<1> QED BY <1>2, <1>3

LEMMA ReachedSteps ==
    ASSUME NEW O, NEW kind, NEW F \in Edits(O), NEW stay \in BOOLEAN
    PROVE  /\ Reached(O, kind, F, stay, <<>>) = Untouched
           /\ \A q \in Seq(Items(O)) : Reached(O, kind, F, stay, q) \in States(O)
           /\ \A q \in Seq(Items(O)), x \in Items(O) :
                Reached(O, kind, F, stay, Append(q, x)) =
                  ReplaceOne(Reached(O, kind, F, stay, q), x, kind, F, stay)
<1> DEFINE R == Replacing(O, kind, F, stay)
<1>1. /\ R \in StepsOf(States(O), Items(O)) /\ Untouched \in States(O)
      /\ \A acc \in States(O), x \in Items(O) : R[<<acc, x>>] = ReplaceOne(acc, x, kind, F, stay)
  BY ReplacingType, UntouchedType
<1>2. \A q : Reached(O, kind, F, stay, q) = Fold(R, Untouched, q)
  BY DEF Reached
<1> HIDE DEF R
<1>3. /\ Fold(R, Untouched, <<>>) = Untouched
      /\ \A q \in Seq(Items(O)) : Fold(R, Untouched, q) \in States(O)
      /\ \A q \in Seq(Items(O)), x \in Items(O) :
           Fold(R, Untouched, Append(q, x)) = R[<<Fold(R, Untouched, q), x>>]
  BY <1>1, FoldSteps
<1> QED BY <1>1, <1>2, <1>3, ZenonT(60)

\* The two loops are this one.
Boxed(O)    == [i \in Items(O) |-> HashBox(i)]
Digested(O) == [i \in Items(O) |-> Hash(<<i>>)]

LEMMA EditsAre ==
    ASSUME NEW O
    PROVE  Boxed(O) \in Edits(O) /\ Digested(O) \in Edits(O)
<1>1. Boxed(O) \in Edits(O)
  BY HashesAre DEF Boxed, Edits
<1>2. Digested(O) \in Edits(O)
  <2>1. \A i \in Items(O) : <<i>> \in Seq(Items(O))
    OBVIOUS
  <2>2. \A i \in Items(O) : Hash(<<i>>) \in HashItems(O)
    BY <2>1, HashesAre
  <2> QED BY <2>2 DEF Digested, Edits
<1> QED BY <1>1, <1>2

BoxStep(acc, item) ==
    IF item.kind # "box" THEN [acc EXCEPT !.before = Append(@, item)]
    ELSE [out |-> acc.out \o Replaced(acc.before, item, HashBox), before |-> <<>>]

LEMMA BoxStepIs ==
    ASSUME NEW O, NEW acc \in States(O), NEW item \in Items(O)
    PROVE  BoxStep(acc, item) = ReplaceOne(acc, item, "box", Boxed(O), FALSE)
<1>1. CASE item.kind # "box"
  <2>1. PICK out \in Seq(Items(Hashed(O))), before \in Seq(Items(O)) :
          acc = [out |-> out, before |-> before]
    BY DEF States
  <2>2. PICK c : c = Append(before, item)
    OBVIOUS
  <2>3. BoxStep(acc, item) = [acc EXCEPT !.before = c]
    BY <1>1, <2>1, <2>2 DEF BoxStep
  <2>4. ReplaceOne(acc, item, "box", Boxed(O), FALSE) = [out |-> out, before |-> c]
    BY <1>1, <2>1, <2>2 DEF ReplaceOne
  <2> QED BY <2>1, <2>3, <2>4
<1>2. CASE item.kind = "box"
  <2>1. Boxed(O)[item] = HashBox(item)
    BY DEF Boxed
  <2>2. Replaced(acc.before, item, HashBox) = Substitute(acc.before, item, Boxed(O), FALSE)
    BY <2>1 DEF Replaced, Substitute
  <2> QED BY <1>2, <2>2 DEF BoxStep, ReplaceOne
<1> QED BY <1>1, <1>2

LEMMA BoxingType ==
    ASSUME NEW O
    PROVE  /\ Replacing(O, "box", Boxed(O), FALSE) \in StepsOf(States(O), Items(O))
           /\ \A acc \in States(O), x \in Items(O) :
                Replacing(O, "box", Boxed(O), FALSE)[<<acc, x>>] = BoxStep(acc, x)
<1>1. PICK edit \in Edits(O) : edit = Boxed(O)
  BY EditsAre
<1>2. Replacing(O, "box", edit, FALSE) \in StepsOf(States(O), Items(O))
  BY ReplacingType
<1>3. ASSUME NEW acc \in States(O), NEW x \in Items(O)
      PROVE  Replacing(O, "box", edit, FALSE)[<<acc, x>>] = BoxStep(acc, x)
  <2>1. Replacing(O, "box", edit, FALSE)[<<acc, x>>] = ReplaceOne(acc, x, "box", edit, FALSE)
    BY DEF Replacing
  <2>2. BoxStep(acc, x) = ReplaceOne(acc, x, "box", edit, FALSE)
    BY <1>1, BoxStepIs
  <2> QED BY <2>1, <2>2
<1> QED BY <1>1, <1>2, <1>3

LEMMA BoxesAre ==
    ASSUME NEW O, NEW q \in Seq(Items(O))
    PROVE  ReplaceBoxes(q) = Outcome(O, "box", Boxed(O), FALSE, q)
<1> DEFINE F == Replacing(O, "box", Boxed(O), FALSE)
           A == States(O)
           V == Items(O)
           E(g) == g = [s \in SUBSET (1 .. Len(q)) |->
                          IF s = {} THEN Untouched
                          ELSE BoxStep(g[s \ {Max(s)}], q[Max(s)])]
           h == CHOOSE g : E(g)
<1>1. /\ DOMAIN q = 1 .. Len(q) /\ Len(q) \in Nat
      /\ \A s \in SUBSET (1 .. Len(q)) : s # {} => q[Max(s)] \in V
  <2>1. DOMAIN q = 1 .. Len(q) /\ Len(q) \in Nat /\ \A k \in 1 .. Len(q) : q[k] \in V
    BY LenProperties
  <2>2. \A s \in SUBSET (1 .. Len(q)) : s # {} => Max(s) \in s
    BY <2>1, MaxOf
  <2> QED BY <2>1, <2>2
<1>2. /\ F \in StepsOf(A, V) /\ Untouched \in A
      /\ \A acc \in A, x \in V : F[<<acc, x>>] = BoxStep(acc, x)
  BY BoxingType, UntouchedType
<1>3. ReplaceBoxes(q) = h[1 .. Len(q)].out \o h[1 .. Len(q)].before
  BY <1>1 DEF ReplaceBoxes, FoldLeft, MapThenFoldSet, BoxStep, Untouched
<1> HIDE DEF F, A, V
<1>4. PICK f \in Runs(A, F, Untouched, q) : TRUE
  <2>1. q \in Seq(V)
    BY DEF V
  <2> QED BY <1>2, <2>1, FoldExists
<1>5. E(f)
  <2>1. \A s \in SUBSET (1 .. Len(q)) :
           f[s] = IF s = {} THEN Untouched ELSE BoxStep(f[s \ {Max(s)}], q[Max(s)])
    BY <1>1, <1>2 DEF Runs
  <2> QED BY <2>1 DEF Runs
<1>6. E(h)
  <2> HIDE DEF E
  <2> QED BY <1>5
<1> HIDE DEF h
<1>7. Follows(h, A, F, Untouched, q)
  <2>1. h[{}] = Untouched
    BY <1>6
  <2>2. ASSUME NEW s \in SUBSET (1 .. Len(q)), s # {}, h[s \ {Max(s)}] \in A
        PROVE  h[s] = F[<<h[s \ {Max(s)}], q[Max(s)]>>]
    <3>1. h[s] = BoxStep(h[s \ {Max(s)}], q[Max(s)])
      BY <1>6, <2>2
    <3> QED BY <1>1, <1>2, <2>2, <3>1
  <2> QED BY <2>1, <2>2 DEF Follows
<1>8. h[1 .. Len(q)] = Fold(F, Untouched, q)
  <2>1. q \in Seq(V)
    BY DEF V
  <2> QED BY <1>2, <1>7, <2>1, FoldMeets
<1> QED BY <1>3, <1>8 DEF F, Outcome, Reached

BareStep(acc, item, multiline) ==
    IF item.kind # "bare" THEN [acc EXCEPT !.before = Append(@, item)]
    ELSE [out |-> acc.out \o IF Keeps(acc.before, multiline) THEN <<item>>
                             ELSE Replaced(acc.before, item, LAMBDA i : Hash(<<i>>)),
          before |-> <<>>]

LEMMA BareStepIs ==
    ASSUME NEW O, NEW acc \in States(O), NEW item \in Items(O), NEW multiline \in BOOLEAN
    PROVE  BareStep(acc, item, multiline) = ReplaceOne(acc, item, "bare", Digested(O), multiline)
<1>1. CASE item.kind # "bare"
  <2>1. PICK out \in Seq(Items(Hashed(O))), before \in Seq(Items(O)) :
          acc = [out |-> out, before |-> before]
    BY DEF States
  <2>2. PICK c : c = Append(before, item)
    OBVIOUS
  <2>3. BareStep(acc, item, multiline) = [acc EXCEPT !.before = c]
    BY <1>1, <2>1, <2>2 DEF BareStep
  <2>4. ReplaceOne(acc, item, "bare", Digested(O), multiline) = [out |-> out, before |-> c]
    BY <1>1, <2>1, <2>2 DEF ReplaceOne
  <2> QED BY <2>1, <2>3, <2>4
<1>2. CASE item.kind = "bare"
  <2>1. Digested(O)[item] = Hash(<<item>>)
    BY DEF Digested
  <2>2. (IF Keeps(acc.before, multiline) THEN <<item>>
         ELSE Replaced(acc.before, item, LAMBDA i : Hash(<<i>>))) =
          Substitute(acc.before, item, Digested(O), multiline)
    BY <2>1 DEF Replaced, Substitute, Keeps
  <2> QED BY <1>2, <2>2 DEF BareStep, ReplaceOne
<1> QED BY <1>1, <1>2

LEMMA BaringType ==
    ASSUME NEW O, NEW multiline \in BOOLEAN
    PROVE  /\ Replacing(O, "bare", Digested(O), multiline) \in StepsOf(States(O), Items(O))
           /\ \A acc \in States(O), x \in Items(O) :
                Replacing(O, "bare", Digested(O), multiline)[<<acc, x>>] = BareStep(acc, x, multiline)
<1>1. PICK edit \in Edits(O) : edit = Digested(O)
  BY EditsAre
<1>2. Replacing(O, "bare", edit, multiline) \in StepsOf(States(O), Items(O))
  BY ReplacingType
<1>3. ASSUME NEW acc \in States(O), NEW x \in Items(O)
      PROVE  Replacing(O, "bare", edit, multiline)[<<acc, x>>] = BareStep(acc, x, multiline)
  <2>1. Replacing(O, "bare", edit, multiline)[<<acc, x>>] = ReplaceOne(acc, x, "bare", edit, multiline)
    BY ReplacingType
  <2>2. BareStep(acc, x, multiline) = ReplaceOne(acc, x, "bare", edit, multiline)
    BY <1>1, BareStepIs
  <2> QED BY <2>1, <2>2
<1> QED BY <1>1, <1>2, <1>3

LEMMA BaresAre ==
    ASSUME NEW O, NEW q \in Seq(Items(O)), NEW multiline \in BOOLEAN
    PROVE  ReplaceBare(q, multiline) = Outcome(O, "bare", Digested(O), multiline, q)
<1> DEFINE F == Replacing(O, "bare", Digested(O), multiline)
           A == States(O)
           V == Items(O)
           E(g) == g = [s \in SUBSET (1 .. Len(q)) |->
                          IF s = {} THEN Untouched
                          ELSE BareStep(g[s \ {Max(s)}], q[Max(s)], multiline)]
           h == CHOOSE g : E(g)
<1>1. /\ DOMAIN q = 1 .. Len(q) /\ Len(q) \in Nat
      /\ \A s \in SUBSET (1 .. Len(q)) : s # {} => q[Max(s)] \in V
  <2>1. DOMAIN q = 1 .. Len(q) /\ Len(q) \in Nat /\ \A k \in 1 .. Len(q) : q[k] \in V
    BY LenProperties
  <2>2. \A s \in SUBSET (1 .. Len(q)) : s # {} => Max(s) \in s
    BY <2>1, MaxOf
  <2> QED BY <2>1, <2>2
<1>2. /\ F \in StepsOf(A, V) /\ Untouched \in A
      /\ \A acc \in A, x \in V : F[<<acc, x>>] = BareStep(acc, x, multiline)
  BY BaringType, UntouchedType
<1>3. ReplaceBare(q, multiline) = h[1 .. Len(q)].out \o h[1 .. Len(q)].before
  BY <1>1 DEF ReplaceBare, FoldLeft, MapThenFoldSet, BareStep, Untouched
<1> HIDE DEF F, A, V
<1>4. PICK f \in Runs(A, F, Untouched, q) : TRUE
  <2>1. q \in Seq(V)
    BY DEF V
  <2> QED BY <1>2, <2>1, FoldExists
<1>5. E(f)
  <2>1. \A s \in SUBSET (1 .. Len(q)) :
           f[s] = IF s = {} THEN Untouched ELSE BareStep(f[s \ {Max(s)}], q[Max(s)], multiline)
    BY <1>1, <1>2 DEF Runs
  <2> QED BY <2>1 DEF Runs
<1>6. E(h)
  <2> HIDE DEF E
  <2> QED BY <1>5
<1> HIDE DEF h
<1>7. Follows(h, A, F, Untouched, q)
  <2>1. h[{}] = Untouched
    BY <1>6
  <2>2. ASSUME NEW s \in SUBSET (1 .. Len(q)), s # {}, h[s \ {Max(s)}] \in A
        PROVE  h[s] = F[<<h[s \ {Max(s)}], q[Max(s)]>>]
    <3>1. h[s] = BareStep(h[s \ {Max(s)}], q[Max(s)], multiline)
      BY <1>6, <2>2
    <3> QED BY <1>1, <1>2, <2>2, <3>1
  <2> QED BY <2>1, <2>2 DEF Follows
<1>8. h[1 .. Len(q)] = Fold(F, Untouched, q)
  <2>1. q \in Seq(V)
    BY DEF V
  <2> QED BY <1>2, <1>7, <2>1, FoldMeets
<1> QED BY <1>3, <1>8 DEF F, Outcome, Reached

OfKinds(K, q) == \A x \in Range(q) : x.kind \in K

LEMMA OfKindsSteps ==
    ASSUME NEW S, NEW K
    PROVE  /\ OfKinds(K, <<>>)
           /\ \A q \in Seq(S), x \in S : OfKinds(K, Append(q, x)) <=> OfKinds(K, q) /\ x.kind \in K
           /\ \A q, r \in Seq(S) : OfKinds(K, q \o r) <=> OfKinds(K, q) /\ OfKinds(K, r)
<1>1. OfKinds(K, <<>>)
  BY RangeNone DEF OfKinds
<1>2. ASSUME NEW q \in Seq(S), NEW x \in S
      PROVE  OfKinds(K, Append(q, x)) <=> OfKinds(K, q) /\ x.kind \in K
  <2>1. Range(Append(q, x)) = Range(q) \cup {x}
    BY RangeAppend
  <2> QED BY <2>1 DEF OfKinds
<1>3. ASSUME NEW q \in Seq(S), NEW r \in Seq(S)
      PROVE  OfKinds(K, q \o r) <=> OfKinds(K, q) /\ OfKinds(K, r)
  <2>1. Range(q \o r) = Range(q) \cup Range(r)
    BY RangeConcat
  <2> QED BY <2>1 DEF OfKinds
<1> QED BY <1>1, <1>2, <1>3

\* No address of the kind that is looked for is left.
LEMMA NoneLeft ==
    ASSUME NEW O, NEW kind \in {"box", "bare"}, NEW F \in Edits(O), NEW stay \in BOOLEAN, ~stay,
           NEW K, NEW q \in Seq(Items(O)), OfKinds(K, q)
    PROVE  /\ OfKinds((K \ {kind}) \cup {"hash", "hashbox"}, Outcome(O, kind, F, stay, q))
           /\ Outcome(O, kind, F, stay, q) \in Seq(Items(Hashed(O)))
<1> DEFINE S == Items(Hashed(O))
           M == (K \ {kind}) \cup {"hash", "hashbox"}
           R(r) == Reached(O, kind, F, stay, r)
           T == {r \in Seq(Items(O)) : OfKinds(K, r) => OfKinds(M, R(r).out) /\ OfKinds(M, R(r).before)}
<1>1. <<>> \in T
  <2>1. <<>> \in Seq(Items(O)) /\ R(<<>>).out = <<>> /\ R(<<>>).before = <<>>
    BY ReachedSteps DEF Untouched
  <2>2. OfKinds(M, <<>>)
    <3> HIDE DEF M
    <3> QED BY OfKindsSteps
  <2> HIDE DEF M, R
  <2> QED BY <2>1, <2>2
<1>2. ASSUME NEW r \in Seq(Items(O)), NEW x \in Items(O), r \in T PROVE Append(r, x) \in T
  <2>1. Append(r, x) \in Seq(Items(O))
    BY AppendProperties
  <2>2. ASSUME OfKinds(K, Append(r, x))
        PROVE  OfKinds(M, R(Append(r, x)).out) /\ OfKinds(M, R(Append(r, x)).before)
    <3>1. OfKinds(K, r) /\ x.kind \in K
      BY <2>2, OfKindsSteps
    <3>2. PICK acc \in States(O) : acc = R(r)
      BY ReachedSteps
    <3>3. PICK out \in Seq(S) : out = acc.out /\ OfKinds(M, out)
      <4>1. OfKinds(M, acc.out)
        BY <1>2, <3>1, <3>2
      <4> QED BY <4>1 DEF States
    <3>4. PICK before \in Seq(Items(O)) : before = acc.before /\ OfKinds(M, before)
      <4>1. OfKinds(M, acc.before)
        BY <1>2, <3>1, <3>2
      <4> QED BY <4>1 DEF States
    <3>5. R(Append(r, x)) = ReplaceOne(acc, x, kind, F, stay)
      BY <3>2, ReachedSteps
    <3>6. Items(O) \subseteq S /\ before \in Seq(S) /\ HashItems(O) \subseteq S
      BY ItemsGrow
    <3>7. \A h \in HashItems(O) : h.kind \in M
      BY DEF HashItems
    <3> HIDE DEF M, S
    <3>8. CASE x.kind # kind
      <4>1. x.kind \in M
        BY <3>1, <3>8 DEF M
      <4>2. OfKinds(M, Append(before, x))
        BY <3>4, <4>1, OfKindsSteps
      <4>3. PICK c : c = Append(before, x)
        OBVIOUS
      <4>4. ReplaceOne(acc, x, kind, F, stay) = [out |-> out, before |-> c]
        BY <3>3, <3>4, <3>8, <4>3 DEF ReplaceOne
      <4>5. R(Append(r, x)).out = out /\ R(Append(r, x)).before = c
        <5> HIDE DEF R
        <5> QED BY <3>5, <4>4
      <4> HIDE DEF R
      <4> QED BY <3>3, <4>2, <4>3, <4>5
    <3>9. CASE x.kind = kind
      <4>1. PICK sub \in Seq(S) :
              sub = Substitute(before, x, F, stay) /\ Substitution(O, before, x, stay, sub)
        BY SubstituteIs DEF S
      <4>2. \/ \E h \in HashItems(O) : sub = Append(before, h)
            \/ \E h, g \in HashItems(O) : sub = Append(Append(PrefixOf(before), h), g)
        BY <4>1 DEF Substitution
      <4>3. OfKinds(M, sub)
        <5>1. ASSUME NEW h \in HashItems(O), sub = Append(before, h) PROVE OfKinds(M, sub)
          <6>1. h \in S /\ h.kind \in M
            BY <3>6, <3>7
          <6> QED BY <3>4, <3>6, <5>1, <6>1, OfKindsSteps
        <5>2. ASSUME NEW h \in HashItems(O), NEW g \in HashItems(O),
                     sub = Append(Append(PrefixOf(before), h), g)
              PROVE  OfKinds(M, sub)
          <6>1. h \in S /\ h.kind \in M /\ g \in S /\ g.kind \in M
            BY <3>6, <3>7
          <6>2. PICK p \in Seq(S), n \in Seq(S) : p = PrefixOf(before) /\ before = p \o n
            BY <3>6, SplitExists
          <6>3. OfKinds(M, p)
            <7>1. OfKinds(M, p \o n)
              BY <3>4, <6>2
            <7> QED BY <7>1, OfKindsSteps
          <6>4. PICK m \in Seq(S) : m = Append(p, h)
            BY <6>1, AppendProperties
          <6>5. OfKinds(M, m)
            BY <6>1, <6>3, <6>4, OfKindsSteps
          <6>6. OfKinds(M, Append(m, g))
            BY <6>1, <6>5, OfKindsSteps
          <6> QED BY <5>2, <6>2, <6>4, <6>6
        <5> QED BY <4>2, <5>1, <5>2
      <4>4. OfKinds(M, out \o sub)
        BY <3>3, <4>3, OfKindsSteps
      <4>5. PICK c : c = out \o sub
        OBVIOUS
      <4>6. ReplaceOne(acc, x, kind, F, stay) = [out |-> c, before |-> <<>>]
        BY <3>3, <3>4, <3>9, <4>1, <4>5 DEF ReplaceOne
      <4>7. R(Append(r, x)).out = c /\ R(Append(r, x)).before = <<>>
        <5> HIDE DEF R
        <5> QED BY <3>5, <4>6
      <4>8. OfKinds(M, <<>>)
        BY OfKindsSteps
      <4> HIDE DEF R
      <4> QED BY <4>4, <4>5, <4>7, <4>8
    <3> QED BY <3>8, <3>9
  <2> HIDE DEF M, R
  <2> QED BY <2>1, <2>2
<1> HIDE DEF T
<1>3. q \in T
  BY <1>1, <1>2, SeqInduction
<1>4. OfKinds(M, R(q).out) /\ OfKinds(M, R(q).before)
  BY <1>3 DEF T
<1>5. PICK acc \in States(O) : acc = R(q)
  BY ReachedSteps
<1>6. PICK out \in Seq(S) : out = acc.out
  BY DEF States
<1>7. PICK before \in Seq(S) : before = acc.before
  <2>1. acc.before \in Seq(Items(O))
    BY DEF States
  <2> QED BY <2>1, ItemsGrow
<1> HIDE DEF M
<1>8. OfKinds(M, out \o before) /\ out \o before \in Seq(S)
  <2> HIDE DEF S
  <2> QED BY <1>4, <1>5, <1>6, <1>7, OfKindsSteps, ConcatProperties
<1> QED BY <1>5, <1>6, <1>7, <1>8 DEF Outcome, M

\* The items of a line, of what is left open.
LineTexts == STRING
LineItems == {Sep} \cup [kind : {"word", "bare", "box", "loose"}, of : LineTexts]
Open0 == LineTexts \cup {<<>>}

LEMMA LineItemsAre ==
    /\ LineItems \subseteq Items(Open0)
    /\ Sep \in Items(Open0) /\ IsSep(Sep)
    /\ \A x \in LineItems : IsSep(x) => x = Sep
    /\ \A q \in Seq(LineItems) : q \in Seq(Items(Open0))
<1>1. PICK V, none : V = LineTexts /\ none = <<>>
  OBVIOUS
<1>2. Sep = [kind |-> "sep", of |-> none] /\ Open0 = V \cup {none}
  BY <1>1 DEF Sep, Item, Open0
<1>3. LineItems = {[kind |-> "sep", of |-> none]} \cup [kind : {"word", "bare", "box", "loose"}, of : V]
  BY <1>1, <1>2 DEF LineItems
<1>4. LineItems \subseteq Items(Open0)
  BY <1>2, <1>3 DEF Items, Kinds
<1>5. Sep \in Items(Open0) /\ IsSep(Sep)
  BY <1>2 DEF Items, Kinds, IsSep
<1>6. \A x \in LineItems : IsSep(x) => x = Sep
  BY <1>2, <1>3 DEF IsSep
<1>7. \A S, W : S \subseteq W => \A q \in Seq(S) : q \in Seq(W)
  OBVIOUS
<1> QED BY <1>4, <1>5, <1>6, <1>7

\* What the anonymizer makes of a line of its own.
Anonymous(line) == ReplaceBare(ReplaceBoxes(line), FALSE)

LEMMA AnonymousIs ==
    ASSUME NEW O, NEW q \in Seq(Items(O)), NEW stay \in BOOLEAN, ~stay
    PROVE  /\ ReplaceBoxes(q) \in Seq(Items(Hashed(O)))
           /\ ReplaceBoxes(q) = Outcome(O, "box", Boxed(O), stay, q)
           /\ Anonymous(q) =
                Outcome(Hashed(O), "bare", Digested(Hashed(O)), stay, ReplaceBoxes(q))
<1>1. stay = FALSE
  OBVIOUS
<1>2. ReplaceBoxes(q) = Outcome(O, "box", Boxed(O), stay, q)
  BY <1>1, BoxesAre
<1>3. ReplaceBoxes(q) \in Seq(Items(Hashed(O)))
  <2>1. PICK edit \in Edits(O), kind \in {"box", "bare"} : edit = Boxed(O) /\ kind = "box"
    BY EditsAre
  <2>2. OfKinds(Kinds, q)
    <3>1. \A k \in DOMAIN q : q[k] \in Items(O)
      BY LenProperties
    <3> QED BY <3>1 DEF OfKinds, Range, Items
  <2>3. Outcome(O, kind, edit, stay, q) \in Seq(Items(Hashed(O)))
    BY <2>2, NoneLeft
  <2> QED BY <1>2, <2>1, <2>3
<1>4. PICK b \in Seq(Items(Hashed(O))) : b = ReplaceBoxes(q)
  BY <1>3
<1>5. ReplaceBare(b, stay) = Outcome(Hashed(O), "bare", Digested(Hashed(O)), stay, b)
  BY BaresAre
<1> QED BY <1>1, <1>2, <1>3, <1>4, <1>5 DEF Anonymous

LEMMA NoAddressLeft ==
    ASSUME NEW O, NEW q \in Seq(Items(O))
    PROVE  \A k \in DOMAIN Anonymous(q) : Anonymous(q)[k].kind \notin {"bare", "box"}
<1>1. PICK stay \in BOOLEAN : ~stay
  OBVIOUS
<1>2. PICK b \in Seq(Items(Hashed(O))) :
        b = ReplaceBoxes(q) /\ b = Outcome(O, "box", Boxed(O), stay, q)
  BY <1>1, AnonymousIs
<1>3. PICK a : /\ a = Anonymous(q)
               /\ a = Outcome(Hashed(O), "bare", Digested(Hashed(O)), stay, b)
  BY <1>1, <1>2, AnonymousIs, ZenonT(60)
<1>4. OfKinds(Kinds, q)
  <2>1. \A k \in DOMAIN q : q[k] \in Items(O)
    BY LenProperties
  <2> QED BY <2>1 DEF OfKinds, Range, Items
<1>5. PICK K : K = (Kinds \ {"box"}) \cup {"hash", "hashbox"} /\ OfKinds(K, b)
  <2>1. PICK edit \in Edits(O), kind \in {"box", "bare"} : edit = Boxed(O) /\ kind = "box"
    BY EditsAre
  <2>2. OfKinds((Kinds \ {kind}) \cup {"hash", "hashbox"}, Outcome(O, kind, edit, stay, q))
    BY <1>1, <1>4, NoneLeft
  <2> QED BY <1>2, <2>1, <2>2
<1>6. OfKinds((K \ {"bare"}) \cup {"hash", "hashbox"}, a)
  <2>1. PICK edit \in Edits(Hashed(O)), kind \in {"box", "bare"} :
          edit = Digested(Hashed(O)) /\ kind = "bare"
    BY EditsAre
  <2>2. PICK V : V = Hashed(O)
    OBVIOUS
  <2>3. b \in Seq(Items(V)) /\ edit \in Edits(V)
    BY <2>2
  <2>4. OfKinds((K \ {kind}) \cup {"hash", "hashbox"}, Outcome(V, kind, edit, stay, b))
    BY <1>1, <1>5, <2>3, NoneLeft
  <2> QED BY <1>3, <2>1, <2>2, <2>4
<1>7. ASSUME NEW k \in DOMAIN a PROVE a[k].kind \notin {"bare", "box"}
  <2>1. a[k].kind \in (K \ {"bare"}) \cup {"hash", "hashbox"}
    BY <1>6 DEF OfKinds, Range
  <2> QED BY <1>5, <2>1 DEF Kinds
<1> QED BY <1>3, <1>7

\* A text of one line is anonymized as this line.
LEMMA OneLineIs ==
    ASSUME NEW line
    PROVE  DOMAIN AnonymizeString(<<line>>) = 1 .. 1
           /\ AnonymizeString(<<line>>)[1] = Anonymous(line)
<1>1. PICK lines : lines = <<line>>
  OBVIOUS
<1>2. Len(lines) = 1 /\ DOMAIN lines = 1 .. 1 /\ lines[1] = line
  BY <1>1
<1>3. PICK one : one = [k \in DOMAIN lines |-> ReplaceBare(ReplaceBoxes(lines[k]), Len(lines) > 1)]
  OBVIOUS
<1>4. (Len(lines) > 1) = FALSE
  BY <1>2
<1>5. one = [k \in 1 .. 1 |-> ReplaceBare(ReplaceBoxes(lines[k]), FALSE)]
  BY <1>2, <1>3, <1>4
<1>6. DOMAIN one = 1 .. 1 /\ one[1] = ReplaceBare(ReplaceBoxes(lines[1]), FALSE)
  BY <1>5
<1>7. one = AnonymizeString(<<line>>)
  BY <1>1, <1>3 DEF AnonymizeString
<1> QED BY <1>2, <1>6, <1>7 DEF Anonymous

(***************************************************************************)
(* No address that is bare or in brackets is left in the identity columns  *)
(* of an anonymized row, and the identity map holds the value of the data  *)
(* (anonymize_dataframe).                                                  *)
(***************************************************************************)
THEOREM RowsAnonymous == \A line \in Seq(LineItems) : RowAnonymous(line)
<1> SUFFICES ASSUME NEW line \in Seq(LineItems) PROVE RowAnonymous(line)
  OBVIOUS
<1>1. \A k \in DOMAIN Anonymous(line) : Anonymous(line)[k].kind \notin {"bare", "box"}
  <2>1. line \in Seq(Items(Open0))
    BY LineItemsAre
  <2> QED BY <2>1, NoAddressLeft
<1>2. PICK one : one = AnonymizeString(<<line>>)
  OBVIOUS
<1>3. DOMAIN one = 1 .. 1 /\ one[1] = Anonymous(line)
  BY <1>2, OneLineIs
<1>4. ~HasAddress(one)
  <2>1. \A k \in DOMAIN one : one[k] = Anonymous(line)
    BY <1>3
  <2> QED BY <1>1, <2>1 DEF HasAddress
<1>5. ~HasAddress(AnonymizeString(<<>>))
  <2>1. DOMAIN AnonymizeString(<<>>) = {}
    BY DEF AnonymizeString
  <2> QED BY <2>1 DEF HasAddress
<1>6. PICK row : row = AnonymizeRow(RowOf(<<line>>))
  OBVIOUS
<1>11. PICK lines : lines = <<line>>
  OBVIOUS
<1>12. PICK both : both = <<lines, Null>>
  OBVIOUS
<1>13. PICK trailer : trailer = [attribution |-> "signed-off-by", identification |-> lines]
  OBVIOUS
<1>14. PICK trailers : trailers = <<trailer>>
  OBVIOUS
<1>15. PICK old : old = [from |-> lines, raw_body |-> lines, to |-> both, trailers |-> trailers]
  OBVIOUS
<1>16. RowOf(lines) = old
  BY <1>12, <1>13, <1>14, <1>15 DEF RowOf
<1>17. row = [old EXCEPT !.from = AnonymizeString(@),
                         !.raw_body = AnonymizeString(@),
                         !.to = [k \in DOMAIN @ |-> AnonymizeString(@[k])],
                         !.trailers = [k \in DOMAIN @ |-> AnonymizeTrailer(@[k])]]
  BY <1>6, <1>11, <1>16 DEF AnonymizeRow
<1>7. /\ row.from = one
      /\ row.to = [k \in DOMAIN both |-> AnonymizeString(both[k])]
      /\ row.trailers = [k \in DOMAIN trailers |-> AnonymizeTrailer(trailers[k])]
  <2>1. /\ old.from = lines /\ old.raw_body = lines /\ old.to = both /\ old.trailers = trailers
        /\ DOMAIN old = {"from", "raw_body", "to", "trailers"}
    BY <1>15
  <2>2. PICK from, body, to, rest :
          /\ from = AnonymizeString(old.from)
          /\ body = AnonymizeString(old.raw_body)
          /\ to = [k \in DOMAIN old.to |-> AnonymizeString(old.to[k])]
          /\ rest = [k \in DOMAIN old.trailers |-> AnonymizeTrailer(old.trailers[k])]
    OBVIOUS
  <2>3. row = [old EXCEPT !.from = from, !.raw_body = body, !.to = to, !.trailers = rest]
    BY <1>17, <2>2
  <2>4. row.from = from /\ row.to = to /\ row.trailers = rest
    BY <2>1, <2>3
  <2>5. from = one
    BY <1>2, <1>11, <2>1, <2>2
  <2>6. to = [k \in DOMAIN both |-> AnonymizeString(both[k])]
    BY <2>1, <2>2
  <2>7. rest = [k \in DOMAIN trailers |-> AnonymizeTrailer(trailers[k])]
    BY <2>1, <2>2
  <2> QED BY <2>4, <2>5, <2>6, <2>7
<1>8. \A k \in DOMAIN row.to : ~HasAddress(row.to[k])
  <2>1. DOMAIN both = 1 .. 2 /\ both[1] = lines /\ both[2] = <<>>
    BY <1>12 DEF Null
  <2>2. row.to[1] = one /\ row.to[2] = AnonymizeString(<<>>) /\ DOMAIN row.to = 1 .. 2
    BY <1>2, <1>7, <1>11, <2>1
  <2> QED BY <1>4, <1>5, <2>2
<1>9. \A k \in DOMAIN row.trailers : ~HasAddress(row.trailers[k].identification)
  <2>1. DOMAIN trailers = 1 .. 1 /\ trailers[1] = trailer
    BY <1>14
  <2>2. row.trailers[1] = AnonymizeTrailer(trailer)
        /\ DOMAIN row.trailers = 1 .. 1
    BY <1>7, <2>1
  <2>3. row.trailers[1].identification = one
    <3>1. trailer.identification = lines /\ "identification" \in DOMAIN trailer
      BY <1>13
    <3>2. one = AnonymizeString(trailer.identification)
      BY <1>2, <1>11, <3>1
    <3>3. row.trailers[1] = [trailer EXCEPT !.identification = one]
      BY <2>2, <3>2 DEF AnonymizeTrailer
    <3> QED BY <3>1, <3>3
  <2>4. \A k \in DOMAIN row.trailers : k = 1
    BY <2>2
  <2>5. ~HasAddress(row.trailers[1].identification)
    BY <1>4, <2>3
  <2> QED BY <2>4, <2>5
<1>10. IdMapRow(RowOf(<<line>>)).from = row.from
  BY <1>2, <1>7 DEF IdMapRow, RowOf
<1> QED BY <1>4, <1>6, <1>7, <1>8, <1>9, <1>10 DEF RowAnonymous

\* What an address is replaced by does not depend on what stands in front of
\* a separator.
LEMMA SubstituteBehind ==
    ASSUME NEW O, NEW F \in Edits(O), NEW stay \in BOOLEAN, ~stay,
           NEW p \in Seq(Items(O)), p # <<>>, Closes(p),
           NEW before \in Seq(Items(O)), NEW item \in Items(O)
    PROVE  Substitute(p \o before, item, F, stay) = p \o Substitute(before, item, F, stay)
<1> DEFINE S == Items(Hashed(O))
<1>1. p \in Seq(S) /\ before \in Seq(S) /\ item \in S /\ HashItems(O) \subseteq S
  BY ItemsGrow
<1>2. PICK z \in Seq(Items(O)) : z = p \o before
  BY ConcatProperties
<1>3. PrefixOf(z) = p \o PrefixOf(before) /\ NameOf(z) = NameOf(before)
  BY <1>2, SplitBehind
<1>4. PICK x \in Seq(S), y \in Seq(Items(O)) : x = PrefixOf(before) /\ y = NameOf(before)
  <2>1. PrefixOf(before) \in Seq(Items(O)) /\ NameOf(before) \in Seq(Items(O))
    BY SplitExists
  <2> QED BY <2>1, ItemsGrow
<1>5. PICK h \in S, g \in S, e \in S : h = Hash(y) /\ g = HashBox(item) /\ e = F[item]
  <2>1. Hash(y) \in HashItems(O) /\ HashBox(item) \in HashItems(O)
    BY HashesAre
  <2>2. F[item] \in HashItems(O)
    BY DEF Edits
  <2> QED BY <1>1, <2>1, <2>2
<1> HIDE DEF S
<1>6. PICK hg \in Seq(S) : hg = <<h, g>>
  <2>1. <<h, g>> \in Seq(S)
    OBVIOUS
  <2> QED BY <2>1
<1>7. CASE y = <<>>
  <2>1. /\ Substitute(z, item, F, stay) = Append(z, e)
        /\ Substitute(before, item, F, stay) = Append(before, e)
    BY <1>3, <1>4, <1>5, <1>7 DEF Substitute
  <2>2. p \o Append(before, e) = Append(p \o before, e)
    BY <1>1, AppendInside
  <2> QED BY <1>2, <2>1, <2>2
<1>8. CASE y # <<>>
  <2>1. /\ Substitute(z, item, F, stay) = (p \o x) \o hg
        /\ Substitute(before, item, F, stay) = x \o hg
    BY <1>3, <1>4, <1>5, <1>6, <1>8 DEF Substitute
  <2>2. (p \o x) \o hg = p \o (x \o hg)
    BY <1>1, Reassociate, SMTT(60)
  <2> QED BY <1>2, <2>1, <2>2
<1> QED BY <1>7, <1>8

\* The states behind a line and a separator, w, and behind nothing, v, after
\* the same items: op and b are what the line and the separator have left.
Abreast(op, b, w, v) ==
    \/ v.out = <<>> /\ w.out = op /\ w.before = b \o v.before
    \/ w.out = op \o (b \o v.out) /\ w.before = v.before

LEMMA AbreastStep ==
    ASSUME NEW O, NEW kind, NEW F \in Edits(O), NEW stay \in BOOLEAN, ~stay,
           NEW op \in Seq(Items(Hashed(O))), NEW b \in Seq(Items(O)), b # <<>>, Closes(b),
           NEW w \in States(O), NEW v \in States(O), NEW x \in Items(O), Abreast(op, b, w, v)
    PROVE  Abreast(op, b, ReplaceOne(w, x, kind, F, stay), ReplaceOne(v, x, kind, F, stay))
<1> DEFINE S == Items(Hashed(O))
<1>1. PICK wo \in Seq(S), wb \in Seq(Items(O)) : wo = w.out /\ wb = w.before
  BY DEF States
<1>2. PICK vo \in Seq(S), vb \in Seq(Items(O)) : vo = v.out /\ vb = v.before
  BY DEF States
<1>3. b \in Seq(S)
  BY ItemsGrow
<1>4. CASE x.kind # kind
  <2>1. PICK wc, vc : wc = Append(wb, x) /\ vc = Append(vb, x)
    OBVIOUS
  <2>2. /\ ReplaceOne(w, x, kind, F, stay) = [out |-> wo, before |-> wc]
        /\ ReplaceOne(v, x, kind, F, stay) = [out |-> vo, before |-> vc]
    BY <1>1, <1>2, <1>4, <2>1 DEF ReplaceOne
  <2>3. b \o Append(vb, x) = Append(b \o vb, x)
    BY AppendInside, SMTT(60)
  <2>4. \/ vo = <<>> /\ wo = op /\ wc = b \o vc
        \/ wo = op \o (b \o vo) /\ wc = vc
    BY <1>1, <1>2, <2>1, <2>3 DEF Abreast
  <2>5. /\ ReplaceOne(w, x, kind, F, stay).out = wo
        /\ ReplaceOne(w, x, kind, F, stay).before = wc
        /\ ReplaceOne(v, x, kind, F, stay).out = vo
        /\ ReplaceOne(v, x, kind, F, stay).before = vc
    BY <2>2
  <2> HIDE DEF S
  <2>6. PICK rw, rv : rw = ReplaceOne(w, x, kind, F, stay) /\ rv = ReplaceOne(v, x, kind, F, stay)
    OBVIOUS
  <2>7. Abreast(op, b, rw, rv)
    BY <2>4, <2>5, <2>6 DEF Abreast
  <2> QED BY <2>6, <2>7
<1>5. CASE x.kind = kind
  <2>1. PICK ws \in Seq(S), vs \in Seq(S) :
          /\ ws = Substitute(wb, x, F, stay) /\ vs = Substitute(vb, x, F, stay)
    BY SubstituteIs
  <2>2. PICK wc, vc : wc = wo \o ws /\ vc = vo \o vs
    OBVIOUS
  <2>3. /\ ReplaceOne(w, x, kind, F, stay) = [out |-> wc, before |-> <<>>]
        /\ ReplaceOne(v, x, kind, F, stay) = [out |-> vc, before |-> <<>>]
    <3> HIDE DEF S
    <3> QED BY <1>1, <1>2, <1>5, <2>1, <2>2, Zenon DEF ReplaceOne
  <2>6. /\ ReplaceOne(w, x, kind, F, stay).out = wc
        /\ ReplaceOne(v, x, kind, F, stay).out = vc
        /\ ReplaceOne(w, x, kind, F, stay).before = ReplaceOne(v, x, kind, F, stay).before
    BY <2>3
  <2>4. CASE vo = <<>> /\ wo = op /\ wb = b \o vb
    <3>1. Substitute(b \o vb, x, F, stay) = b \o Substitute(vb, x, F, stay)
      BY SubstituteBehind, SMTT(60)
    <3>5. ws = b \o vs
      BY <2>1, <2>4, <3>1
    <3>2. vc = vs
      BY <2>1, <2>2, <2>4, ConcatEmptySeq
    <3>3. wc = op \o (b \o vc)
      BY <2>2, <2>4, <3>5, <3>2
    <3> QED BY <2>6, <3>3 DEF Abreast
  <2>5. CASE wo = op \o (b \o vo) /\ wb = vb
    <3> HIDE DEF S
    <3>1. PICK bv \in Seq(S) : bv = b \o vo
      BY <1>3, ConcatProperties
    <3>2. (op \o bv) \o vs = op \o (bv \o vs)
      BY Reassociate, SMTT(60)
    <3>3. (b \o vo) \o vs = b \o (vo \o vs)
      BY <1>3, Reassociate, SMTT(60)
    <3>4. wc = op \o (b \o vc)
      BY <2>1, <2>2, <2>5, <3>1, <3>2, <3>3
    <3> QED BY <2>6, <3>4 DEF Abreast
  <2> QED BY <1>1, <1>2, <2>4, <2>5 DEF Abreast
<1> QED BY <1>4, <1>5

LEMMA OutcomeApart ==
    ASSUME NEW O, NEW kind, NEW F \in Edits(O), NEW stay \in BOOLEAN, ~stay,
           NEW p \in Seq(Items(O)), NEW s \in Items(O), IsSep(s), s.kind # kind,
           NEW r \in Seq(Items(O))
    PROVE  /\ Outcome(O, kind, F, stay, Append(p, s) \o r) =
                Append(Outcome(O, kind, F, stay, p), s) \o Outcome(O, kind, F, stay, r)
           /\ Outcome(O, kind, F, stay, p) \in Seq(Items(Hashed(O)))
<1> DEFINE S == Items(Hashed(O))
           R(q) == Reached(O, kind, F, stay, q)
<1>1. PICK op \in Seq(S), bp \in Seq(Items(O)) : op = R(p).out /\ bp = R(p).before
  <2>1. R(p) \in States(O)
    BY ReachedSteps
  <2> QED BY <2>1 DEF States
<1>2. PICK b \in Seq(Items(O)) : b = Append(bp, s)
  BY AppendProperties
<1>3. b # <<>> /\ Closes(b)
  <2>1. Len(b) = Len(bp) + 1 /\ Len(bp) \in Nat /\ b[Len(bp) + 1] = s
    BY <1>2, AppendProperties, LenProperties
  <2>2. b # <<>>
    BY <1>2, AppendProperties
  <2> QED BY <2>1, <2>2 DEF Closes
<1>4. PICK ps \in Seq(Items(O)) : ps = Append(p, s)
  BY AppendProperties
<1>5. R(ps) = [out |-> op, before |-> b]
  <2>1. R(ps) = ReplaceOne(R(p), s, kind, F, stay)
    BY <1>4, ReachedSteps
  <2> HIDE DEF R
  <2> QED BY <1>1, <1>2, <2>1 DEF ReplaceOne
<1> DEFINE T == {q \in Seq(Items(O)) : Abreast(op, b, R(ps \o q), R(q))}
<1>6. <<>> \in T
  <2>1. R(<<>>).out = <<>> /\ R(<<>>).before = <<>>
    <3>1. R(<<>>) = Untouched
      BY ReachedSteps
    <3> HIDE DEF R
    <3> QED BY <3>1 DEF Untouched
  <2>2. ps \o <<>> = ps /\ b \o <<>> = b /\ <<>> \in Seq(Items(O))
    BY ConcatEmptySeq
  <2>3. R(ps \o <<>>).out = op /\ R(ps \o <<>>).before = b
    <3> HIDE DEF R
    <3> QED BY <1>5, <2>2
  <2> HIDE DEF R
  <2>4. Abreast(op, b, R(ps \o <<>>), R(<<>>))
    BY <2>1, <2>2, <2>3 DEF Abreast
  <2> QED BY <2>2, <2>4
<1>7. ASSUME NEW q \in Seq(Items(O)), NEW x \in Items(O), q \in T PROVE Append(q, x) \in T
  <2>1. PICK pq \in Seq(Items(O)) : pq = ps \o q
    BY ConcatProperties
  <2>2. PICK qx \in Seq(Items(O)) : qx = Append(q, x)
    BY AppendProperties
  <2>3. ps \o qx = Append(pq, x)
    BY <2>1, <2>2, AppendInside, SMTT(60)
  <2>4. PICK w \in States(O), v \in States(O) : w = R(pq) /\ v = R(q)
    BY ReachedSteps
  <2>5. Abreast(op, b, w, v)
    <3> HIDE DEF R
    <3> QED BY <1>7, <2>1, <2>4
  <2>6. /\ R(Append(pq, x)) = ReplaceOne(w, x, kind, F, stay)
        /\ R(Append(q, x)) = ReplaceOne(v, x, kind, F, stay)
    BY <2>4, ReachedSteps
  <2>7. Abreast(op, b, ReplaceOne(w, x, kind, F, stay), ReplaceOne(v, x, kind, F, stay))
    BY <1>3, <2>5, AbreastStep
  <2> HIDE DEF R
  <2> QED BY <2>2, <2>3, <2>6, <2>7
<1> HIDE DEF T
<1>8. r \in T
  BY <1>6, <1>7, SeqInduction
<1>9. PICK ro \in Seq(S), rb \in Seq(S) : ro = R(r).out /\ rb = R(r).before
  <2>1. R(r) \in States(O)
    BY ReachedSteps
  <2>2. R(r).out \in Seq(S) /\ R(r).before \in Seq(Items(O))
    BY <2>1 DEF States
  <2> QED BY <2>2, ItemsGrow
<1>10. b \in Seq(S) /\ bp \in Seq(S) /\ s \in S
  BY ItemsGrow
<1>11. PICK w \in States(O) : w = R(ps \o r)
  <2>1. ps \o r \in Seq(Items(O))
    BY ConcatProperties
  <2> QED BY <2>1, ReachedSteps
<1>12. Abreast(op, b, w, R(r))
  BY <1>8, <1>11 DEF T
<1> HIDE DEF S, R
<1>13. PICK rr \in Seq(S) : rr = ro \o rb
  BY ConcatProperties
<1>14. PICK ob \in Seq(S) : ob = op \o b
  BY <1>10, ConcatProperties
<1>15. w.out \o w.before = ob \o rr
  <2>1. CASE ro = <<>> /\ w.out = op /\ w.before = b \o rb
    <3>1. rr = rb
      BY <1>13, <2>1, ConcatEmptySeq
    <3>2. (op \o b) \o rb = op \o (b \o rb)
      BY <1>10, Reassociate, SMTT(60)
    <3> QED BY <1>14, <2>1, <3>1, <3>2
  <2>2. CASE w.out = op \o (b \o ro) /\ w.before = rb
    <3>1. (op \o b) \o ro = op \o (b \o ro)
      BY <1>10, Reassociate, SMTT(60)
    <3>2. (ob \o ro) \o rb = ob \o (ro \o rb)
      BY Reassociate, SMTT(60)
    <3> QED BY <1>13, <1>14, <2>2, <3>1, <3>2
  <2> QED BY <1>9, <1>12, <2>1, <2>2 DEF Abreast
<1>16. PICK opb \in Seq(S) : opb = op \o bp
  BY <1>10, ConcatProperties
<1>17. ob = Append(opb, s)
  BY <1>2, <1>10, <1>14, <1>16, AppendInside, SMTT(60)
<1> QED BY <1>1, <1>4, <1>9, <1>11, <1>13, <1>15, <1>16, <1>17 DEF Outcome, R, S

LEMMA AnonymousApart ==
    ASSUME NEW O, NEW p \in Seq(Items(O)), NEW s \in Items(O), IsSep(s), NEW r \in Seq(Items(O))
    PROVE  Anonymous(Append(p, s) \o r) = Append(Anonymous(p), s) \o Anonymous(r)
<1>1. PICK stay \in BOOLEAN : ~stay
  OBVIOUS
<1>2. PICK q \in Seq(Items(O)) : q = Append(p, s) \o r
  BY ConcatProperties, AppendProperties
<1>3. PICK V : V = Hashed(O)
  OBVIOUS
<1>4. PICK pb \in Seq(Items(V)), rb \in Seq(Items(V)), qb \in Seq(Items(V)) :
        pb = ReplaceBoxes(p) /\ rb = ReplaceBoxes(r) /\ qb = ReplaceBoxes(q)
  BY <1>1, <1>3, AnonymousIs
<1>5. s.kind # "box" /\ s.kind # "bare" /\ s \in Items(V)
  <2>1. s \in Items(Hashed(O))
    BY ItemsGrow
  <2> QED BY <1>3, <2>1 DEF IsSep
<1>6. qb = Append(pb, s) \o rb
  <2>1. PICK edit \in Edits(O), kind \in {"box", "bare"} : edit = Boxed(O) /\ kind = "box"
    BY EditsAre
  <2>2. Outcome(O, kind, edit, stay, Append(p, s) \o r) =
          Append(Outcome(O, kind, edit, stay, p), s) \o Outcome(O, kind, edit, stay, r)
    <3>1. s.kind # kind
      BY <1>5, <2>1
    <3> QED BY <1>1, <3>1, OutcomeApart, ZenonT(60)
  <2>3. /\ ReplaceBoxes(q) = Outcome(O, kind, edit, stay, q)
        /\ ReplaceBoxes(p) = Outcome(O, kind, edit, stay, p)
        /\ ReplaceBoxes(r) = Outcome(O, kind, edit, stay, r)
    BY <1>1, <2>1, AnonymousIs
  <2> QED BY <1>2, <1>4, <2>2, <2>3
<1>7. PICK edit \in Edits(V), kind \in {"box", "bare"} : edit = Digested(V) /\ kind = "bare"
  BY EditsAre
<1>8. Outcome(V, kind, edit, stay, Append(pb, s) \o rb) =
        Append(Outcome(V, kind, edit, stay, pb), s) \o Outcome(V, kind, edit, stay, rb)
  <2>1. s.kind # kind /\ s \in Items(V)
    BY <1>5, <1>7
  <2> QED BY <1>1, <2>1, OutcomeApart, ZenonT(60)
<1>9. /\ Anonymous(q) = Outcome(V, kind, edit, stay, qb)
      /\ Anonymous(p) = Outcome(V, kind, edit, stay, pb)
      /\ Anonymous(r) = Outcome(V, kind, edit, stay, rb)
  BY <1>1, <1>3, <1>4, <1>7, AnonymousIs
<1> QED BY <1>2, <1>6, <1>8, <1>9

(***************************************************************************)
(* An identity has the same hashes wherever it stands in a list of         *)
(* recipients: a line is anonymized entry by entry (replace_all's and the  *)
(* EMAIL_RE loop of anonymize_string).                                     *)
(***************************************************************************)
THEOREM ListsEntryByEntry == \A line \in Seq(LineItems) : EntriesApart(line)
<1> SUFFICES ASSUME NEW line \in Seq(LineItems), NEW k \in DOMAIN line, IsSep(line[k])
    PROVE  AnonymizeString(<<line>>)[1] =
             AnonymizeString(<<SubSeq(line, 1, k - 1)>>)[1] \o <<Sep>>
             \o AnonymizeString(<<SubSeq(line, k + 1, Len(line))>>)[1]
  BY DEF EntriesApart
<1>1. PICK O : O = Open0
  OBVIOUS
<1>2. /\ line \in Seq(Items(O)) /\ Sep \in Items(O) /\ IsSep(Sep) /\ line[k] = Sep
  <2>1. line[k] \in LineItems
    BY LenProperties
  <2> QED BY <1>1, <2>1, LineItemsAre
<1>3. Len(line) \in Nat /\ k \in 1 .. Len(line) /\ k - 1 \in 0 .. Len(line)
      /\ k \in 0 .. Len(line) /\ (k - 1) + 1 = k
  <2>1. Len(line) \in Nat /\ DOMAIN line = 1 .. Len(line)
    BY LenProperties
  <2> QED BY <2>1
<1>4. PICK p \in Seq(Items(O)) : p = SubSeq(line, 1, k - 1) /\ Len(p) = k - 1
                                  /\ \A i \in 1 .. k - 1 : p[i] = line[i]
  <2>1. PICK n \in 0 .. Len(line) : n = k - 1
    BY <1>3
  <2>2. /\ SubSeq(line, 1, n) \in Seq(Items(O)) /\ Len(SubSeq(line, 1, n)) = n
        /\ \A i \in 1 .. n : SubSeq(line, 1, n)[i] = line[i]
    BY <1>2, SeqParts
  <2> QED BY <2>1, <2>2
<1>5. PICK r \in Seq(Items(O)) : r = SubSeq(line, k + 1, Len(line))
  BY <1>2, <1>3, SeqParts
<1>6. SubSeq(line, 1, k) = Append(p, Sep)
  <2>1. PICK f \in Seq(Items(O)) : f = SubSeq(line, 1, k) /\ Len(f) = k
                                   /\ \A i \in 1 .. k : f[i] = line[i]
    <3>1. PICK n \in 0 .. Len(line) : n = k
      BY <1>3
    <3>2. /\ SubSeq(line, 1, n) \in Seq(Items(O)) /\ Len(SubSeq(line, 1, n)) = n
          /\ \A i \in 1 .. n : SubSeq(line, 1, n)[i] = line[i]
      BY <1>2, SeqParts
    <3> QED BY <3>1, <3>2
  <2>3. PICK ps \in Seq(Items(O)) :
          /\ ps = Append(p, Sep) /\ Len(ps) = Len(p) + 1
          /\ \A i \in 1 .. Len(p) : ps[i] = p[i]
          /\ ps[Len(p) + 1] = Sep
    BY <1>2, AppendProperties, ZenonT(60)
  <2>4. Len(ps) = k /\ \A i \in 1 .. k : ps[i] = line[i]
    <3>1. \A i \in 1 .. k : i \in 1 .. k - 1 \/ i = k
      BY <1>3
    <3> QED BY <1>2, <1>3, <1>4, <2>3, <3>1
  <2>5. ps = f
    BY <1>3, <2>1, <2>4, SeqEqual
  <2> QED BY <2>1, <2>3, <2>5
<1>7. line = Append(p, Sep) \o r
  <2>1. line = SubSeq(line, 1, k) \o SubSeq(line, k + 1, Len(line))
    BY <1>2, <1>3, SeqParts
  <2> QED BY <1>5, <1>6, <2>1
<1>8. Anonymous(line) = Append(Anonymous(p), Sep) \o Anonymous(r)
  BY <1>2, <1>7, AnonymousApart, SMTT(60)
<1>9. PICK V : Sep \in Items(V) /\ \A q \in Seq(Items(O)) : Anonymous(q) \in Seq(Items(V))
  <2>1. PICK stay \in BOOLEAN : ~stay
    OBVIOUS
  <2>2. PICK U : U = Hashed(O)
    OBVIOUS
  <2>3. PICK edit \in Edits(U), kind \in {"box", "bare"} : edit = Digested(U) /\ kind = "bare"
    BY EditsAre
  <2>4. ASSUME NEW q \in Seq(Items(O)) PROVE Anonymous(q) \in Seq(Items(Hashed(U)))
    <3>1. PICK b \in Seq(Items(U)) : b = ReplaceBoxes(q)
      BY <2>1, <2>2, AnonymousIs
    <3>2. Anonymous(q) = Outcome(U, kind, edit, stay, b)
      BY <2>1, <2>2, <2>3, <3>1, AnonymousIs
    <3>3. OfKinds(Kinds, b)
      <4>1. \A i \in DOMAIN b : b[i] \in Items(U)
        BY LenProperties
      <4> QED BY <4>1 DEF OfKinds, Range, Items
    <3> QED BY <2>1, <3>2, <3>3, NoneLeft
  <2>5. Sep \in Items(Hashed(U))
    BY <1>2, <2>2, ItemsGrow
  <2> QED BY <2>4, <2>5
<1>10. Append(Anonymous(p), Sep) = Anonymous(p) \o <<Sep>>
  <2>1. Anonymous(p) \in Seq(Items(V))
    BY <1>9
  <2> QED BY <1>9, <2>1, AppendIsConcat
<1>11. /\ AnonymizeString(<<line>>)[1] = Anonymous(line)
       /\ AnonymizeString(<<SubSeq(line, 1, k - 1)>>)[1] = Anonymous(p)
       /\ AnonymizeString(<<SubSeq(line, k + 1, Len(line))>>)[1] = Anonymous(r)
  BY <1>4, <1>5, OneLineIs
<1> QED BY <1>8, <1>10, <1>11

\* The bare addresses at the start of a line or directly behind another one.
Free(q) == {k \in DOMAIN q : q[k].kind = "bare" /\ (k = 1 \/ q[k - 1].kind = "bare")}

\* One that came next would be such an address.
Opens(q) == q = <<>> \/ q[Len(q)].kind = "bare"

LEMMA FreeFinite ==
    ASSUME NEW S, NEW q \in Seq(S)
    PROVE  IsFiniteSet(Free(q)) /\ Cardinality(Free(q)) \in Nat
           /\ \A k \in Free(q) : k \in 1 .. Len(q)
<1>1. Len(q) \in Nat /\ DOMAIN q = 1 .. Len(q)
  BY LenProperties
<1>2. Free(q) \in SUBSET (1 .. Len(q))
  BY <1>1 DEF Free
<1>3. IsFiniteSet(1 .. Len(q))
  BY <1>1, FS_Interval
<1> QED BY <1>2, <1>3, FS_Subset, FS_CardinalityType

LEMMA FreeSteps ==
    ASSUME NEW S, NEW q \in Seq(S), NEW x \in S
    PROVE  /\ Opens(Append(q, x)) <=> x.kind = "bare"
           /\ x.kind = "bare" /\ Opens(q) => Cardinality(Free(Append(q, x))) = Cardinality(Free(q)) + 1
           /\ ~(x.kind = "bare" /\ Opens(q)) => Free(Append(q, x)) = Free(q)
<1>1. PICK n \in Nat : n = Len(q) /\ DOMAIN q = 1 .. n
  BY LenProperties
<1>0. PICK qx \in Seq(S) : qx = Append(q, x)
  BY AppendProperties
<1>2. /\ qx = Append(q, x) /\ Len(qx) = n + 1 /\ DOMAIN qx = 1 .. n + 1
      /\ \A k \in 1 .. n : qx[k] = q[k]
      /\ qx[n + 1] = x
  BY <1>0, <1>1, AppendProperties, LenProperties
<1>3. qx # <<>>
  BY <1>2, EmptySeq
<1>4. Opens(qx) <=> x.kind = "bare"
  BY <1>2, <1>3 DEF Opens
<1>5. Opens(q) <=> n = 0 \/ q[n].kind = "bare"
  BY <1>1, EmptySeq DEF Opens
<1>6. \A k \in 1 .. n : k \in Free(qx) <=> k \in Free(q)
  <2>1. ASSUME NEW k \in 1 .. n PROVE k \in Free(qx) <=> k \in Free(q)
    <3>1. k \in 1 .. n + 1 /\ qx[k] = q[k]
      BY <1>1, <1>2
    <3>2. k # 1 => qx[k - 1] = q[k - 1]
      <4>1. k # 1 => k - 1 \in 1 .. n
        BY <1>1
      <4> QED BY <1>2, <4>1
    <3> QED BY <1>1, <1>2, <3>1, <3>2 DEF Free
  <2> QED BY <2>1
<1>7. n + 1 \in Free(qx) <=> x.kind = "bare" /\ Opens(q)
  <2>1. CASE n = 0
    BY <1>2, <1>5, <2>1 DEF Free
  <2>2. CASE n # 0
    <3>1. n \in 1 .. n /\ (n + 1) - 1 = n /\ n + 1 # 1 /\ n + 1 \in 1 .. n + 1
      BY <2>2
    <3>2. qx[(n + 1) - 1] = q[n]
      BY <1>2, <3>1
    <3> QED BY <1>2, <1>5, <2>2, <3>1, <3>2 DEF Free
  <2> QED BY <2>1, <2>2
<1>8. /\ \A k \in Free(qx) : k \in 1 .. n \/ k = n + 1
      /\ \A k \in Free(q) : k \in 1 .. n
      /\ n + 1 \notin Free(q)
  <2>1. \A k \in Free(qx) : k \in 1 .. n + 1
    BY <1>2, FreeFinite
  <2>2. \A k \in Free(q) : k \in 1 .. n
    BY <1>1, FreeFinite
  <2> QED BY <2>1, <2>2
<1>9. IsFiniteSet(Free(q))
  BY FreeFinite
<1>10. n + 1 \in Free(qx) => Free(qx) = Free(q) \cup {n + 1}
  BY <1>6, <1>8
<1>11. n + 1 \notin Free(qx) => Free(qx) = Free(q)
  BY <1>6, <1>8
<1>12. Cardinality(Free(q) \cup {n + 1}) = Cardinality(Free(q)) + 1
  BY <1>8, <1>9, FS_AddElement
<1> QED BY <1>2, <1>4, <1>7, <1>10, <1>11, <1>12

\* What follows frees no address.
LEMMA FreeMore ==
    ASSUME NEW S, NEW p \in Seq(S), NEW q \in Seq(S)
    PROVE  Cardinality(Free(p)) <= Cardinality(Free(p \o q))
<1>1. PICK pq \in Seq(S) :
        /\ pq = p \o q /\ Len(pq) = Len(p) + Len(q) /\ Len(p) \in Nat /\ Len(q) \in Nat
        /\ DOMAIN pq = 1 .. Len(p) + Len(q) /\ DOMAIN p = 1 .. Len(p)
        /\ \A i \in 1 .. Len(p) + Len(q) : i <= Len(p) => pq[i] = p[i]
  <2>1. PICK pq \in Seq(S) : pq = p \o q
    BY ConcatProperties
  <2>2. /\ Len(pq) = Len(p) + Len(q) /\ Len(p) \in Nat /\ Len(q) \in Nat
        /\ DOMAIN pq = 1 .. Len(pq) /\ DOMAIN p = 1 .. Len(p)
        /\ \A i \in 1 .. Len(p) + Len(q) : pq[i] = IF i <= Len(p) THEN p[i] ELSE q[i - Len(p)]
    BY <2>1, ConcatProperties, LenProperties
  <2> QED BY <2>1, <2>2
<1>2. ASSUME NEW k \in Free(p) PROVE k \in Free(pq)
  <2>1. k \in 1 .. Len(p) /\ p[k].kind = "bare" /\ (k = 1 \/ p[k - 1].kind = "bare")
    BY <1>1, <1>2 DEF Free
  <2>2. k \in 1 .. Len(p) + Len(q) /\ pq[k] = p[k]
    BY <1>1, <2>1
  <2>3. k # 1 => pq[k - 1] = p[k - 1]
    <3>1. k # 1 => k - 1 \in 1 .. Len(p) + Len(q) /\ k - 1 <= Len(p)
      BY <1>1, <2>1
    <3> QED BY <1>1, <3>1
  <2> QED BY <1>1, <2>1, <2>2, <2>3 DEF Free
<1>3. IsFiniteSet(Free(pq)) /\ Free(p) \in SUBSET Free(pq)
  BY <1>2, FreeFinite
<1> QED BY <1>1, <1>3, FS_Subset

LEMMA FreeBefore ==
    ASSUME NEW S, NEW out \in Seq(S), NEW before \in Seq(S)
    PROVE  Cardinality(Free(out \o PrefixOf(before))) <= Cardinality(Free(out \o before))
<1>1. PICK p \in Seq(S), n \in Seq(S) : p = PrefixOf(before) /\ before = p \o n
  BY SplitExists
<1>2. PICK op \in Seq(S) : op = out \o p
  BY ConcatProperties
<1>3. op \o n = out \o before
  BY <1>1, <1>2, ReassociateAs, SMTT(60)
<1>4. Cardinality(Free(op)) <= Cardinality(Free(op \o n))
  BY FreeMore
<1> QED BY <1>1, <1>2, <1>3, <1>4

\* The brackets are gone: no other address stands at a start than before.
LEMMA BoxesFreeNone ==
    ASSUME NEW O, NEW kind, kind = "box", NEW F \in Edits(O), NEW stay \in BOOLEAN, ~stay,
           NEW q \in Seq(Items(O))
    PROVE  Cardinality(Free(Outcome(O, kind, F, stay, q))) <= Cardinality(Free(q))
<1> DEFINE S == Items(Hashed(O))
           R(r) == Reached(O, kind, F, stay, r)
           C(r) == R(r).out \o R(r).before
           T == {r \in Seq(Items(O)) :
                   /\ Opens(C(r)) <=> Opens(r)
                   /\ Cardinality(Free(C(r))) <= Cardinality(Free(r))}
<1>1. <<>> \in T
  <2>1. R(<<>>).out = <<>> /\ R(<<>>).before = <<>>
    <3>1. R(<<>>) = Untouched
      BY ReachedSteps
    <3> HIDE DEF R
    <3> QED BY <3>1 DEF Untouched
  <2>2. C(<<>>) = <<>>
    <3>1. <<>> \o <<>> = <<>>
      OBVIOUS
    <3> HIDE DEF R
    <3> QED BY <2>1, <3>1
  <2>3. Cardinality(Free(<<>>)) \in Nat /\ <<>> \in Seq(Items(O))
    <3>1. <<>> \in Seq(Items(O))
      OBVIOUS
    <3> QED BY <3>1, FreeFinite
  <2>4. Cardinality(Free(<<>>)) <= Cardinality(Free(<<>>))
    BY <2>3
  <2> HIDE DEF C
  <2> QED BY <2>2, <2>3, <2>4
<1>2. ASSUME NEW r \in Seq(Items(O)), NEW x \in Items(O), r \in T PROVE Append(r, x) \in T
  <2>1. PICK acc \in States(O) : acc = R(r)
    BY ReachedSteps
  <2>2. PICK out \in Seq(S), before \in Seq(Items(O)) : out = acc.out /\ before = acc.before
    BY DEF States
  <2>3. before \in Seq(S) /\ x \in S /\ HashItems(O) \subseteq S
    BY ItemsGrow
  <2>4. PICK c \in Seq(S) : c = out \o before
    BY <2>3, ConcatProperties
  <2>5. PICK rx \in Seq(Items(O)) : rx = Append(r, x)
    BY AppendProperties
  <2>6. R(rx) = ReplaceOne(acc, x, kind, F, stay)
    BY <2>1, <2>5, ReachedSteps
  <2>7. (Opens(c) <=> Opens(r)) /\ Cardinality(Free(c)) <= Cardinality(Free(r))
    <3> HIDE DEF R
    <3> QED BY <1>2, <2>1, <2>2, <2>4
  <2>8. Cardinality(Free(c)) \in Nat /\ Cardinality(Free(r)) \in Nat
    BY FreeFinite
  <2> HIDE DEF R, S
  <2>9. \A h \in HashItems(O) : h.kind # "bare" /\ h \in S
    BY <2>3 DEF HashItems
  <2>12. \A a, b \in Seq(S), i \in S : a \o Append(b, i) = Append(a \o b, i)
    BY AppendInside, SMTT(60)
  <2>10. CASE x.kind # kind
    <3>1. PICK b : b = Append(before, x)
      OBVIOUS
    <3>2. R(rx) = [out |-> out, before |-> b]
      BY <2>2, <2>6, <2>10, <3>1 DEF ReplaceOne
    <3>3. R(rx).out = out /\ R(rx).before = b
      BY <3>2
    <3>4. C(rx) = Append(c, x)
      <4>1. out \o Append(before, x) = Append(out \o before, x)
        BY <2>3, AppendInside, SMTT(60)
      <4> QED BY <2>4, <3>1, <3>3, <4>1
    <3>5. Opens(Append(c, x)) <=> Opens(rx)
      BY <2>3, <2>5, FreeSteps
    <3>6. Cardinality(Free(Append(c, x))) <= Cardinality(Free(rx))
      <4>1. CASE x.kind = "bare" /\ Opens(r)
        <5>1. /\ Cardinality(Free(Append(c, x))) = Cardinality(Free(c)) + 1
              /\ Cardinality(Free(rx)) = Cardinality(Free(r)) + 1
          BY <2>3, <2>5, <2>7, <4>1, FreeSteps
        <5> QED BY <2>7, <2>8, <5>1
      <4>2. CASE ~(x.kind = "bare" /\ Opens(r))
        <5>1. Free(Append(c, x)) = Free(c) /\ Free(rx) = Free(r)
          BY <2>3, <2>5, <2>7, <4>2, FreeSteps
        <5> QED BY <2>7, <5>1
      <4> QED BY <4>1, <4>2
    <3> HIDE DEF C
    <3> QED BY <2>5, <3>4, <3>5, <3>6
  <2>11. CASE x.kind = kind
    <3>1. PICK sub \in Seq(S) :
            /\ sub = Substitute(before, x, F, stay)
            /\ Substitution(O, before, x, stay, sub)
      BY SubstituteIs DEF S
    <3>2. PICK d \in Seq(S) : d = out \o sub
      BY ConcatProperties
    <3>3. R(rx) = [out |-> d, before |-> <<>>]
      BY <2>2, <2>6, <2>11, <3>1, <3>2 DEF ReplaceOne
    <3>4. R(rx).out = d /\ R(rx).before = <<>>
      BY <3>3
    <3>5. C(rx) = d
      <4>1. d \o <<>> = d
        BY ConcatEmptySeq
      <4> QED BY <3>4, <4>1
    <3>6. ~Opens(rx) /\ Free(rx) = Free(r)
      <4>1. x.kind # "bare"
        BY <2>11
      <4> QED BY <2>5, <4>1, FreeSteps
    <3>7. ~Opens(d) /\ Cardinality(Free(d)) <= Cardinality(Free(c))
      <4>1. ASSUME NEW h \in HashItems(O), sub = Append(before, h)
            PROVE  ~Opens(d) /\ Cardinality(Free(d)) <= Cardinality(Free(c))
        <5>1. h \in S /\ h.kind # "bare"
          BY <2>9
        <5>2. out \o Append(before, h) = Append(out \o before, h)
          BY <2>3, <5>1, AppendInside, SMTT(60)
        <5>3. d = Append(c, h)
          BY <2>4, <3>2, <4>1, <5>2
        <5>4. ~Opens(d) /\ Free(d) = Free(c)
          BY <5>1, <5>3, FreeSteps
        <5> QED BY <2>8, <5>4
      <4>2. ASSUME NEW h \in HashItems(O), NEW g \in HashItems(O),
                   sub = Append(Append(PrefixOf(before), h), g)
            PROVE  ~Opens(d) /\ Cardinality(Free(d)) <= Cardinality(Free(c))
        <5>1. h \in S /\ h.kind # "bare" /\ g \in S /\ g.kind # "bare"
          BY <2>9
        <5>2. PICK p \in Seq(S) : p = PrefixOf(before)
          BY <2>3, SplitExists
        <5>3. PICK op \in Seq(S) : op = out \o p
          BY ConcatProperties
        <5>4. PICK ph \in Seq(S), oph \in Seq(S) : ph = Append(p, h) /\ oph = Append(op, h)
          BY <5>1, AppendProperties
        <5>5. out \o ph = oph
          <6>1. out \o Append(p, h) = Append(out \o p, h)
            BY <2>12, <5>1, <5>2, ZenonT(60)
          <6> QED BY <5>3, <5>4, <6>1
        <5>6. out \o Append(ph, g) = Append(oph, g)
          <6>1. out \o Append(ph, g) = Append(out \o ph, g)
            BY <2>12, <5>1, <5>4, ZenonT(60)
          <6> QED BY <5>5, <6>1
        <5>7. d = Append(oph, g)
          BY <3>2, <4>2, <5>2, <5>4, <5>6
        <5>8. Free(oph) = Free(op)
          BY <5>1, <5>4, FreeSteps
        <5>9. ~Opens(d) /\ Free(d) = Free(oph)
          BY <5>1, <5>7, FreeSteps
        <5>11. Cardinality(Free(op)) <= Cardinality(Free(c))
          <6>1. Cardinality(Free(out \o PrefixOf(before))) <= Cardinality(Free(out \o before))
            BY <2>3, FreeBefore
          <6> QED BY <2>4, <5>2, <5>3, <6>1
        <5> QED BY <5>8, <5>9, <5>11
      <4>3. \/ \E h \in HashItems(O) : sub = Append(before, h)
            \/ \E h, g \in HashItems(O) : sub = Append(Append(PrefixOf(before), h), g)
        BY <3>1 DEF Substitution
      <4> QED BY <4>1, <4>2, <4>3
    <3>8. Cardinality(Free(d)) \in Nat
      BY FreeFinite
    <3>9. Cardinality(Free(d)) <= Cardinality(Free(rx))
      BY <2>7, <2>8, <3>6, <3>7, <3>8
    <3> HIDE DEF C
    <3> QED BY <2>5, <3>5, <3>6, <3>7, <3>9
  <2> QED BY <2>10, <2>11
<1> HIDE DEF T
<1>3. q \in T
  BY <1>1, <1>2, SeqInduction
<1> QED BY <1>3 DEF T, Outcome

BareItems(S)    == {i \in S : i.kind = "bare"}
StillBare(S, q) == Len(Chosen(S, BareItems(S), q))

LEMMA StillBareSteps ==
    ASSUME NEW S
    PROVE  /\ StillBare(S, <<>>) = 0
           /\ \A q \in Seq(S) : StillBare(S, q) \in Nat
           /\ \A q \in Seq(S), x \in S :
                /\ x.kind = "bare" => StillBare(S, Append(q, x)) = StillBare(S, q) + 1
                /\ x.kind # "bare" => StillBare(S, Append(q, x)) = StillBare(S, q)
           /\ \A q, r \in Seq(S) : StillBare(S, q \o r) = StillBare(S, q) + StillBare(S, r)
<1> DEFINE P == BareItems(S)
<1>1. \A x \in S : x \in P <=> x.kind = "bare"
  BY DEF BareItems
<1> HIDE DEF P
<1>2. /\ Chosen(S, P, <<>>) = <<>>
      /\ \A q \in Seq(S) : Chosen(S, P, q) \in Seq(S \cap P)
      /\ \A q \in Seq(S), x \in S :
           /\ x \in P => Chosen(S, P, Append(q, x)) = Append(Chosen(S, P, q), x)
           /\ x \notin P => Chosen(S, P, Append(q, x)) = Chosen(S, P, q)
      /\ \A q, r \in Seq(S) : Chosen(S, P, q \o r) = Chosen(S, P, q) \o Chosen(S, P, r)
  BY ChosenSteps
<1>3. Len(Chosen(S, P, <<>>)) = 0
  BY <1>2, EmptySeq
<1>4. \A q \in Seq(S) : Len(Chosen(S, P, q)) \in Nat
  BY <1>2, LenProperties
<1>5. ASSUME NEW q \in Seq(S), NEW x \in S
      PROVE  /\ x \in P => Len(Chosen(S, P, Append(q, x))) = Len(Chosen(S, P, q)) + 1
             /\ x \notin P => Chosen(S, P, Append(q, x)) = Chosen(S, P, q)
  <2>1. PICK c \in Seq(S \cap P) : c = Chosen(S, P, q)
    BY <1>2
  <2>2. ASSUME x \in P PROVE Len(Chosen(S, P, Append(q, x))) = Len(c) + 1
    <3>1. x \in S \cap P
      BY <2>2
    <3>2. Len(Append(c, x)) = Len(c) + 1
      BY <3>1, AppendProperties
    <3> QED BY <1>2, <2>1, <2>2, <3>2
  <2> QED BY <1>2, <2>1, <2>2
<1>6. ASSUME NEW q \in Seq(S), NEW r \in Seq(S)
      PROVE  Len(Chosen(S, P, q \o r)) = Len(Chosen(S, P, q)) + Len(Chosen(S, P, r))
  <2>1. PICK c \in Seq(S \cap P), d \in Seq(S \cap P) : c = Chosen(S, P, q) /\ d = Chosen(S, P, r)
    BY <1>2
  <2>2. Len(c \o d) = Len(c) + Len(d)
    BY ConcatProperties
  <2> QED BY <1>2, <2>1, <2>2
<1> QED BY <1>1, <1>3, <1>4, <1>5, <1>6 DEF StillBare, P

\* What the filter of the property counts.
LEMMA StillBareIs ==
    ASSUME NEW S, NEW q \in Seq(S)
    PROVE  Len(Filter(q, LAMBDA item : item.kind = "bare")) = StillBare(S, q)
<1> DEFINE P == BareItems(S)
<1>1. \A k \in DOMAIN q : q[k] \in S
  BY LenProperties
<1>2. Filter(q, LAMBDA item : item.kind = "bare") = Chosen(S, P, q)
  <2>1. \A k \in DOMAIN q :
           OneOrNone(S, P)[q[k]] = IF q[k].kind = "bare" THEN <<q[k]>> ELSE <<>>
    BY <1>1 DEF OneOrNone, BareItems
  <2> QED BY <2>1 DEF Filter, Chosen, FlatMap, Mapped
<1> QED BY <1>2 DEF StillBare

LEMMA StillBareBefore ==
    ASSUME NEW S, NEW out \in Seq(S), NEW before \in Seq(S),
           StillBare(S, out \o before) = StillBare(S, out)
    PROVE  StillBare(S, out \o PrefixOf(before)) = StillBare(S, out)
<1>1. PICK p \in Seq(S), n \in Seq(S) : p = PrefixOf(before) /\ before = p \o n
  BY SplitExists
<1>2. PICK op \in Seq(S) : op = out \o p
  BY ConcatProperties
<1>3. op \o n = out \o before
  BY <1>1, <1>2, ReassociateAs, SMTT(60)
<1>4. PICK i \in Nat, j \in Nat, m \in Nat :
        i = StillBare(S, out) /\ j = StillBare(S, p) /\ m = StillBare(S, n)
  BY StillBareSteps
<1>5. StillBare(S, op) = i + j
  BY <1>2, <1>4, StillBareSteps
<1>6. StillBare(S, op \o n) = StillBare(S, op) + m
  BY <1>4, StillBareSteps
<1>7. i = (i + j) + m
  BY <1>3, <1>4, <1>5, <1>6
<1>8. i + j = i
  BY <1>7
<1> QED BY <1>1, <1>2, <1>4, <1>5, <1>8

\* Where an address may stay, the free ones do and no other.
LEMMA FreeStay ==
    ASSUME NEW O, NEW kind, kind = "bare", NEW F \in Edits(O), NEW stay \in BOOLEAN, stay,
           NEW q \in Seq(Items(O))
    PROVE  StillBare(Items(Hashed(O)), Outcome(O, kind, F, stay, q)) = Cardinality(Free(q))
<1> DEFINE S == Items(Hashed(O))
           R(r) == Reached(O, kind, F, stay, r)
           C(r) == R(r).out \o R(r).before
           T == {r \in Seq(Items(O)) :
                   /\ R(r).before = <<>> <=> Opens(r)
                   /\ StillBare(S, R(r).out) = Cardinality(Free(r))
                   /\ StillBare(S, C(r)) = Cardinality(Free(r))}
<1>1. <<>> \in T
  <2>1. R(<<>>).out = <<>> /\ R(<<>>).before = <<>>
    <3>1. R(<<>>) = Untouched
      BY ReachedSteps
    <3> HIDE DEF R
    <3> QED BY <3>1 DEF Untouched
  <2>2. C(<<>>) = <<>>
    <3>1. <<>> \o <<>> = <<>>
      OBVIOUS
    <3> HIDE DEF R
    <3> QED BY <2>1, <3>1
  <2>3. Cardinality(Free(<<>>)) = 0 /\ <<>> \in Seq(Items(O)) /\ Opens(<<>>)
    <3>1. Free(<<>>) = {}
      BY DEF Free
    <3>2. Cardinality({}) = 0
      BY FS_EmptySet
    <3>3. Opens(<<>>)
      BY DEF Opens
    <3>4. <<>> \in Seq(Items(O))
      OBVIOUS
    <3> QED BY <3>1, <3>2, <3>3, <3>4
  <2> HIDE DEF C, R, S
  <2> QED BY <2>1, <2>2, <2>3, StillBareSteps
<1>2. ASSUME NEW r \in Seq(Items(O)), NEW x \in Items(O), r \in T PROVE Append(r, x) \in T
  <2>1. PICK acc \in States(O) : acc = R(r)
    BY ReachedSteps
  <2>2. PICK out \in Seq(S), before \in Seq(Items(O)) : out = acc.out /\ before = acc.before
    BY DEF States
  <2>3. before \in Seq(S) /\ x \in S /\ HashItems(O) \subseteq S
    BY ItemsGrow
  <2>4. PICK c \in Seq(S) : c = out \o before
    BY <2>3, ConcatProperties
  <2>5. PICK rx \in Seq(Items(O)) : rx = Append(r, x)
    BY AppendProperties
  <2>6. R(rx) = ReplaceOne(acc, x, kind, F, stay)
    BY <2>1, <2>5, ReachedSteps, ZenonT(60)
  <2>7. /\ before = <<>> <=> Opens(r)
        /\ StillBare(S, out) = Cardinality(Free(r))
        /\ StillBare(S, c) = Cardinality(Free(r))
    <3> HIDE DEF R, S
    <3> QED BY <1>2, <2>1, <2>2, <2>4
  <2>8. Cardinality(Free(r)) \in Nat
    BY FreeFinite
  <2> HIDE DEF R, S
  <2>9. \A h \in HashItems(O) : h.kind # "bare" /\ h \in S
    BY <2>3 DEF HashItems
  <2>10. \A a, b \in Seq(S), i \in S : a \o Append(b, i) = Append(a \o b, i)
    BY AppendInside, SMTT(60)
  <2>11. CASE x.kind # kind
    <3>1. PICK b : b = Append(before, x)
      OBVIOUS
    <3>2. R(rx) = [out |-> out, before |-> b]
      BY <2>2, <2>6, <2>11, <3>1 DEF ReplaceOne
    <3>3. R(rx).out = out /\ R(rx).before = b
      BY <3>2
    <3>4. C(rx) = Append(c, x)
      BY <2>3, <2>4, <2>10, <3>1, <3>3, SMTT(60)
    <3>5. ~Opens(rx) /\ Free(rx) = Free(r)
      BY <2>5, <2>11, FreeSteps
    <3>6. b # <<>>
      BY <2>3, <3>1, AppendProperties
    <3>7. StillBare(S, Append(c, x)) = StillBare(S, c)
      BY <2>3, <2>11, StillBareSteps
    <3> HIDE DEF C
    <3> QED BY <2>5, <2>7, <3>3, <3>4, <3>5, <3>6, <3>7
  <2>12. CASE x.kind = kind
    <3>1. PICK sub \in Seq(S) :
            /\ sub = Substitute(before, x, F, stay)
            /\ Substitution(O, before, x, stay, sub)
      BY SubstituteIs DEF S
    <3>2. PICK d \in Seq(S) : d = out \o sub
      BY ConcatProperties
    <3>3. R(rx) = [out |-> d, before |-> <<>>]
      BY <2>2, <2>6, <2>12, <3>1, <3>2 DEF ReplaceOne
    <3>4. R(rx).out = d /\ R(rx).before = <<>>
      BY <3>3
    <3>5. C(rx) = d
      <4>1. d \o <<>> = d
        BY ConcatEmptySeq
      <4> QED BY <3>4, <4>1
    <3>6. Opens(rx)
      BY <2>5, <2>12, FreeSteps
    <3>7. StillBare(S, d) = Cardinality(Free(rx))
      <4>1. CASE before = <<>>
        <5>1. sub = <<x>>
          BY <3>1, <4>1 DEF Substitute
        <5>2. d = Append(out, x)
          BY <2>3, <3>2, <5>1, AppendIsConcat
        <5>3. StillBare(S, d) = StillBare(S, out) + 1
          <6>1. x \in S /\ x.kind = "bare"
            BY <2>3, <2>12
          <6>2. StillBare(S, Append(out, x)) = StillBare(S, out) + 1
            BY <6>1, StillBareSteps
          <6> QED BY <5>2, <6>2
        <5>4. Cardinality(Free(rx)) = Cardinality(Free(r)) + 1
          BY <2>5, <2>7, <2>12, <4>1, FreeSteps
        <5> QED BY <2>7, <5>3, <5>4
      <4>2. CASE before # <<>>
        <5>1. Free(rx) = Free(r)
          BY <2>5, <2>7, <4>2, FreeSteps
        <5>2. ASSUME NEW h \in HashItems(O), sub = Append(before, h)
              PROVE  StillBare(S, d) = StillBare(S, c)
          <6>1. h \in S /\ h.kind # "bare"
            BY <2>9
          <6>2. d = Append(c, h)
            BY <2>3, <2>4, <2>10, <3>2, <5>2, <6>1, SMTT(60)
          <6> QED BY <6>1, <6>2, StillBareSteps
        <5>3. ASSUME NEW h \in HashItems(O), NEW g \in HashItems(O),
                     sub = Append(Append(PrefixOf(before), h), g)
              PROVE  StillBare(S, d) = StillBare(S, c)
          <6>1. h \in S /\ h.kind # "bare" /\ g \in S /\ g.kind # "bare"
            BY <2>9
          <6>2. PICK p \in Seq(S) : p = PrefixOf(before)
            BY <2>3, SplitExists
          <6>3. PICK op \in Seq(S) : op = out \o p
            BY ConcatProperties
          <6>4. PICK ph \in Seq(S), oph \in Seq(S) : ph = Append(p, h) /\ oph = Append(op, h)
            BY <6>1, AppendProperties
          <6>5. out \o ph = oph
            <7>1. out \o Append(p, h) = Append(out \o p, h)
              BY <2>10, <6>1, <6>2, SMTT(60)
            <7> QED BY <6>3, <6>4, <7>1
          <6>6. d = Append(oph, g)
            <7>1. out \o Append(ph, g) = Append(out \o ph, g)
              BY <2>10, <6>1, <6>4, ZenonT(60)
            <7> QED BY <3>2, <5>3, <6>2, <6>4, <6>5, <7>1
          <6>7. StillBare(S, d) = StillBare(S, oph) /\ StillBare(S, oph) = StillBare(S, op)
            BY <6>1, <6>4, <6>6, StillBareSteps, ZenonT(60)
          <6>8. StillBare(S, op) = StillBare(S, out)
            <7>1. StillBare(S, out \o before) = StillBare(S, out)
              BY <2>4, <2>7
            <7>2. StillBare(S, out \o PrefixOf(before)) = StillBare(S, out)
              BY <2>3, <7>1, StillBareBefore
            <7> QED BY <6>2, <6>3, <7>2
          <6> QED BY <2>7, <6>7, <6>8
        <5>4. \/ \E h \in HashItems(O) : sub = Append(before, h)
              \/ \E h, g \in HashItems(O) : sub = Append(Append(PrefixOf(before), h), g)
          BY <3>1, <4>2 DEF Substitution
        <5> QED BY <2>7, <5>1, <5>2, <5>3, <5>4
      <4> QED BY <4>1, <4>2
    <3> HIDE DEF C
    <3> QED BY <2>5, <3>4, <3>5, <3>6, <3>7
  <2> QED BY <2>11, <2>12
<1> HIDE DEF T
<1>3. q \in T
  BY <1>1, <1>2, SeqInduction
<1> QED BY <1>3 DEF T, Outcome

LEMMA OutcomeType ==
    ASSUME NEW O, NEW kind, NEW F \in Edits(O), NEW stay \in BOOLEAN, NEW q \in Seq(Items(O))
    PROVE  Outcome(O, kind, F, stay, q) \in Seq(Items(Hashed(O)))
<1>1. PICK acc \in States(O) : acc = Reached(O, kind, F, stay, q)
  BY ReachedSteps
<1>2. acc.out \in Seq(Items(Hashed(O))) /\ acc.before \in Seq(Items(Hashed(O)))
  <2>1. acc.out \in Seq(Items(Hashed(O))) /\ acc.before \in Seq(Items(O))
    BY DEF States
  <2> QED BY <2>1, ItemsGrow
<1>3. acc.out \o acc.before \in Seq(Items(Hashed(O)))
  BY <1>2, ConcatProperties
<1> QED BY <1>1, <1>3 DEF Outcome

(***************************************************************************)
(* In a text of several lines no more addresses are left than stand at the *)
(* start of a line or directly behind another one (keep_original in        *)
(* anonymize_string).                                                      *)
(***************************************************************************)
THEOREM LeftOnlyAtStarts == \A line \in Seq(LineItems) : LeftOnlyInRow(line)
<1> SUFFICES ASSUME NEW line \in Seq(LineItems) PROVE LeftOnlyInRow(line)
  OBVIOUS
<1>1. PICK O : O = Open0 /\ line \in Seq(Items(O))
  BY LineItemsAre
<1>2. PICK V : V = Hashed(O)
  OBVIOUS
<1>3. PICK stay \in BOOLEAN : stay
  OBVIOUS
<1>4. PICK not \in BOOLEAN : ~not
  OBVIOUS
<1>5. PICK b \in Seq(Items(V)) : b = ReplaceBoxes(line) /\ Cardinality(Free(b)) <= Cardinality(Free(line))
  <2>1. PICK edit \in Edits(O), kind \in {"box", "bare"} : edit = Boxed(O) /\ kind = "box"
    BY EditsAre
  <2>2. /\ ReplaceBoxes(line) \in Seq(Items(V))
        /\ ReplaceBoxes(line) = Outcome(O, kind, edit, not, line)
    BY <1>1, <1>2, <1>4, <2>1, AnonymousIs
  <2>3. Cardinality(Free(Outcome(O, kind, edit, not, line))) <= Cardinality(Free(line))
    BY <1>1, <1>4, <2>1, BoxesFreeNone
  <2> QED BY <2>2, <2>3
<1>6. PICK a \in Seq(Items(Hashed(V))) :
        /\ a = ReplaceBare(b, stay)
        /\ StillBare(Items(Hashed(V)), a) = Cardinality(Free(b))
  <2>1. PICK edit \in Edits(V), kind \in {"box", "bare"} : edit = Digested(V) /\ kind = "bare"
    BY EditsAre
  <2>2. ReplaceBare(b, stay) = Outcome(V, kind, edit, stay, b)
    BY <2>1, BaresAre
  <2>3. Outcome(V, kind, edit, stay, b) \in Seq(Items(Hashed(V)))
    BY OutcomeType
  <2>4. StillBare(Items(Hashed(V)), Outcome(V, kind, edit, stay, b)) = Cardinality(Free(b))
    BY <1>3, <2>1, FreeStay
  <2> QED BY <2>2, <2>3, <2>4
<1>7. AnonymizeString(<<line, <<>>>>)[1] = a
  <2>1. PICK lines : lines = <<line, <<>>>>
    OBVIOUS
  <2>2. Len(lines) = 2 /\ DOMAIN lines = 1 .. 2 /\ lines[1] = line
    BY <2>1
  <2>3. PICK two : two = [k \in DOMAIN lines |-> ReplaceBare(ReplaceBoxes(lines[k]), Len(lines) > 1)]
    OBVIOUS
  <2>4. (Len(lines) > 1) = TRUE
    BY <2>2
  <2>7. two[1] = ReplaceBare(ReplaceBoxes(line), TRUE)
    <3>1. two = [k \in 1 .. 2 |-> ReplaceBare(ReplaceBoxes(lines[k]), TRUE)]
      BY <2>2, <2>3, <2>4
    <3>2. two[1] = ReplaceBare(ReplaceBoxes(lines[1]), TRUE)
      BY <3>1
    <3> QED BY <2>2, <3>2
  <2>5. two[1] = ReplaceBare(ReplaceBoxes(line), stay)
    BY <1>3, <2>7
  <2>6. two = AnonymizeString(<<line, <<>>>>)
    BY <2>1, <2>3 DEF AnonymizeString
  <2> QED BY <1>5, <1>6, <2>5, <2>6
<1>8. Len(Filter(a, LAMBDA item : item.kind = "bare")) = Cardinality(Free(b))
  <2>1. Len(Filter(a, LAMBDA item : item.kind = "bare")) = StillBare(Items(Hashed(V)), a)
    BY StillBareIs
  <2> QED BY <1>6, <2>1
<1> QED BY <1>5, <1>7, <1>8 DEF LeftOnlyInRow, Free

\* The name in front of an address is all that stands there in an entry, and
\* is hashed with it.
LEMMA SubstituteHashes ==
    ASSUME NEW O, NEW F \in Edits(O), NEW stay \in BOOLEAN, ~stay,
           NEW before \in Seq(Items(O)), NEW item \in Items(O), OfKinds(Kinds \ {"sep"}, before)
    PROVE  OfKinds({"hash", "hashbox"}, Substitute(before, item, F, stay))
<1>1. PrefixOf(before) = <<>> /\ NameOf(before) = before
  <2>1. PICK none \in Seq(Items(O)) : none = <<>>
    BY EmptySeq
  <2>2. none \o before = before
    BY <2>1, ConcatEmptySeq
  <2>3. Closes(none) /\ Plain(before)
    <3>1. DOMAIN before = 1 .. Len(before)
      BY LenProperties
    <3> QED BY <2>1, <3>1 DEF Closes, Plain, OfKinds, Range, IsSep
  <2>4. PrefixOf(none \o before) = none /\ NameOf(none \o before) = before
    BY <2>3, SplitIs
  <2> QED BY <2>1, <2>2, <2>4
<1>2. \A h \in HashItems(O) : h.kind \in {"hash", "hashbox"}
  BY DEF HashItems
<1>3. PICK S : S = HashItems(O) /\ <<>> \in Seq(S)
  OBVIOUS
<1>4. \A h \in S : Append(<<>>, h) \in Seq(S) /\ OfKinds({"hash", "hashbox"}, Append(<<>>, h))
  BY <1>2, <1>3, OfKindsSteps, AppendProperties
<1>5. CASE before = <<>>
  <2>1. PICK h \in S : h = F[item]
    BY <1>3 DEF Edits
  <2>2. Substitute(before, item, F, stay) = Append(<<>>, h)
    BY <1>1, <1>5, <2>1 DEF Substitute
  <2> QED BY <1>4, <2>2
<1>6. CASE before # <<>>
  <2>1. PICK h \in S, g \in S : h = Hash(before) /\ g = HashBox(item)
    BY <1>3, HashesAre
  <2>2. Substitute(before, item, F, stay) = <<>> \o <<h, g>>
    BY <1>1, <1>6, <2>1 DEF Substitute
  <2>3. <<>> \o <<h, g>> = Append(Append(<<>>, h), g)
    OBVIOUS
  <2>4. PICK a \in Seq(S) : a = Append(<<>>, h) /\ OfKinds({"hash", "hashbox"}, a)
    BY <1>4
  <2>5. OfKinds({"hash", "hashbox"}, Append(a, g))
    BY <1>2, <1>3, <2>4, OfKindsSteps
  <2> QED BY <2>2, <2>3, <2>4, <2>5
<1> QED BY <1>5, <1>6

\* What is behind the last address of an entry stays, and the rest is hashes.
Cut(kind, p, s, out, q) ==
    /\ q = p \o s
    /\ OfKinds({"hash", "hashbox"}, out)
    /\ OfKinds(Kinds \ {"sep", kind}, s)
    /\ p = <<>> \/ p[Len(p)].kind = kind

LEMMA TailStays ==
    ASSUME NEW O, NEW kind \in {"box", "bare"}, NEW F \in Edits(O), NEW stay \in BOOLEAN, ~stay,
           NEW q \in Seq(Items(O)), OfKinds(Kinds \ {"sep"}, q)
    PROVE  \E p \in Seq(Items(O)), s \in Seq(Items(O)), out \in Seq(Items(Hashed(O))) :
             Cut(kind, p, s, out, q) /\ Outcome(O, kind, F, stay, q) = out \o s
<1> DEFINE S == Items(Hashed(O))
           N == Kinds \ {"sep"}
           H == {"hash", "hashbox"}
           R(r) == Reached(O, kind, F, stay, r)
           T == {r \in Seq(Items(O)) :
                   OfKinds(N, r) => \E p \in Seq(Items(O)) : Cut(kind, p, R(r).before, R(r).out, r)}
<1>1. <<>> \in T
  <2>1. PICK none \in Seq(Items(O)) : none = <<>>
    BY EmptySeq
  <2>2. R(<<>>).out = none /\ R(<<>>).before = none
    <3>1. R(<<>>) = Untouched
      BY ReachedSteps
    <3> HIDE DEF R
    <3> QED BY <2>1, <3>1 DEF Untouched
  <2>3. none \o none = none
    BY <2>1, ConcatEmptySeq
  <2>4. OfKinds(H, <<>>) /\ OfKinds(Kinds \ {"sep", kind}, <<>>)
    <3> HIDE DEF H
    <3> QED BY OfKindsSteps
  <2>5. Cut(kind, none, none, none, none)
    BY <2>1, <2>3, <2>4 DEF Cut
  <2> HIDE DEF R
  <2> QED BY <2>1, <2>2, <2>5
<1>2. ASSUME NEW r \in Seq(Items(O)), NEW x \in Items(O), r \in T PROVE Append(r, x) \in T
  <2>1. PICK rx \in Seq(Items(O)) : rx = Append(r, x)
    BY AppendProperties
  <2>2. SUFFICES ASSUME OfKinds(N, rx)
                 PROVE  \E p \in Seq(Items(O)) : Cut(kind, p, R(rx).before, R(rx).out, rx)
    <3> HIDE DEF N, R
    <3> QED BY <2>1, <2>2
  <2>3. OfKinds(N, r) /\ x.kind \in N
    <3> HIDE DEF N
    <3> QED BY <2>1, <2>2, OfKindsSteps
  <2>4. PICK acc \in States(O) : acc = R(r)
    BY ReachedSteps
  <2>5. PICK out \in Seq(S), before \in Seq(Items(O)) : out = acc.out /\ before = acc.before
    BY DEF States
  <2>6. PICK p \in Seq(Items(O)) : Cut(kind, p, before, out, r)
    <3> HIDE DEF R, N
    <3> QED BY <1>2, <2>3, <2>4, <2>5
  <2>7. R(rx) = ReplaceOne(acc, x, kind, F, stay)
    BY <2>1, <2>4, ReachedSteps
  <2> HIDE DEF R, S
  <2>8. CASE x.kind # kind
    <3>1. PICK b \in Seq(Items(O)) : b = Append(before, x)
      BY AppendProperties
    <3>2. R(rx) = [out |-> out, before |-> b]
      BY <2>5, <2>7, <2>8, <3>1 DEF ReplaceOne
    <3>3. R(rx).out = out /\ R(rx).before = b
      BY <3>2
    <3>4. rx = p \o b
      <4>1. p \o Append(before, x) = Append(p \o before, x)
        BY AppendInside
      <4> QED BY <2>1, <2>6, <3>1, <4>1 DEF Cut
    <3>5. OfKinds(Kinds \ {"sep", kind}, b)
      <4>1. PICK M : M = Kinds \ {"sep", kind} /\ x.kind \in M
        BY <2>3, <2>8
      <4> QED BY <2>6, <3>1, <4>1, OfKindsSteps DEF Cut
    <3>6. Cut(kind, p, b, out, rx)
      BY <2>6, <3>4, <3>5 DEF Cut
    <3> QED BY <3>3, <3>6
  <2>9. CASE x.kind = kind
    <3>1. PICK sub \in Seq(S) : sub = Substitute(before, x, F, stay)
      BY SubstituteIs DEF S
    <3>2. PICK d \in Seq(S) : d = out \o sub
      BY ConcatProperties
    <3>3. R(rx) = [out |-> d, before |-> <<>>]
      BY <2>5, <2>7, <2>9, <3>1, <3>2 DEF ReplaceOne
    <3>4. R(rx).out = d /\ R(rx).before = <<>>
      BY <3>3
    <3>5. OfKinds(N, before)
      <4>1. OfKinds(N, p \o before)
        BY <2>3, <2>6 DEF Cut
      <4> HIDE DEF N
      <4> QED BY <4>1, OfKindsSteps
    <3>6. OfKinds(H, sub)
      BY <3>1, <3>5, SubstituteHashes
    <3>7. OfKinds(H, d)
      <4>1. OfKinds(H, out)
        BY <2>6 DEF Cut
      <4> HIDE DEF H
      <4> QED BY <3>2, <3>6, <4>1, OfKindsSteps
    <3>8. rx = rx \o <<>>
      BY ConcatEmptySeq
    <3>9. OfKinds(Kinds \ {"sep", kind}, <<>>)
      BY OfKindsSteps
    <3>10. rx[Len(rx)].kind = kind
      BY <2>1, <2>9, AppendProperties
    <3>11. Cut(kind, rx, <<>>, d, rx)
      BY <3>7, <3>8, <3>9, <3>10 DEF Cut
    <3> QED BY <3>4, <3>11
  <2> QED BY <2>8, <2>9
<1> HIDE DEF T
<1>3. q \in T
  BY <1>1, <1>2, SeqInduction
<1>4. PICK acc \in States(O) : acc = R(q)
  BY ReachedSteps
<1>5. PICK out \in Seq(S), s \in Seq(Items(O)) : out = acc.out /\ s = acc.before
  BY DEF States
<1>6. PICK p \in Seq(Items(O)) : Cut(kind, p, s, out, q)
  <2> HIDE DEF R
  <2> QED BY <1>3, <1>4, <1>5 DEF T
<1>7. Outcome(O, kind, F, stay, q) = out \o s
  BY <1>4, <1>5 DEF Outcome
<1> QED BY <1>5, <1>6, <1>7

LooseItems(S)   == {i \in S : i.kind = "loose"}
LooseOf(S, q)   == Chosen(S, LooseItems(S), q)

LEMMA LooseIs ==
    ASSUME NEW S, NEW q \in Seq(S)
    PROVE  Filter(q, LAMBDA item : item.kind = "loose") = LooseOf(S, q)
<1>1. \A k \in DOMAIN q : q[k] \in S
  BY LenProperties
<1>2. \A k \in DOMAIN q :
        OneOrNone(S, LooseItems(S))[q[k]] = IF q[k].kind = "loose" THEN <<q[k]>> ELSE <<>>
  BY <1>1 DEF OneOrNone, LooseItems
<1> QED BY <1>2 DEF LooseOf, Filter, Chosen, FlatMap, Mapped

\* Behind hashes all the loose addresses are in the rest.
LEMMA LooseBehind ==
    ASSUME NEW S, NEW out \in Seq(S), NEW s \in Seq(S), OfKinds({"hash", "hashbox"}, out)
    PROVE  LooseOf(S, out \o s) = LooseOf(S, s)
<1>1. Range(out) \cap LooseItems(S) = {}
  BY DEF OfKinds, LooseItems
<1>2. LooseOf(S, out) = <<>>
  BY <1>1, ChosenAllOrNone DEF LooseOf
<1>3. LooseOf(S, out \o s) = LooseOf(S, out) \o LooseOf(S, s)
  BY ChosenSteps DEF LooseOf
<1>4. LooseOf(S, s) \in Seq(S \cap LooseItems(S))
  BY ChosenSteps DEF LooseOf
<1> QED BY <1>2, <1>3, <1>4, ConcatEmptySeq

\* y is what stands behind the last whole address of a line.
BehindWhole(line, y) ==
    \E last \in 0 .. Len(line) :
      /\ last = 0 \/ line[last].kind \in {"bare", "box"}
      /\ \A k \in last + 1 .. Len(line) : line[k].kind \notin {"bare", "box"}
      /\ SubSeq(line, last + 1, Len(line)) = y

LEMMA LastWhole ==
    ASSUME NEW S, NEW line \in Seq(S), NEW x \in Seq(S), NEW y \in Seq(S), line = x \o y,
           x = <<>> \/ x[Len(x)].kind \in {"bare", "box"}, OfKinds(Kinds \ {"bare", "box"}, y)
    PROVE  BehindWhole(line, y)
<1>1. PICK n \in Nat : n = Len(x)
  BY LenProperties
<1>2. /\ Len(line) = n + Len(y) /\ Len(y) \in Nat
      /\ \A i \in 1 .. n + Len(y) : line[i] = IF i <= n THEN x[i] ELSE y[i - n]
  BY <1>1, ConcatProperties, LenProperties
<1>3. n = 0 \/ line[n].kind \in {"bare", "box"}
  <2>1. n # 0 => x # <<>> /\ n \in 1 .. n + Len(y) /\ n <= n
    BY <1>1, <1>2, EmptySeq
  <2> QED BY <1>1, <1>2, <2>1
<1>4. ASSUME NEW k \in n + 1 .. Len(line) PROVE line[k].kind \notin {"bare", "box"}
  <2>1. k \in 1 .. n + Len(y) /\ ~(k <= n) /\ k - n \in 1 .. Len(y)
    BY <1>2, <1>4
  <2>2. line[k] = y[k - n] /\ y[k - n] \in Range(y)
    <3>1. DOMAIN y = 1 .. Len(y)
      BY LenProperties
    <3> QED BY <1>2, <2>1, <3>1 DEF Range
  <2> QED BY <2>2 DEF OfKinds
<1>5. SubSeq(line, n + 1, Len(line)) = y
  BY <1>1, Behind
<1>6. n \in 0 .. Len(line)
  BY <1>2
<1> QED BY <1>3, <1>4, <1>5, <1>6 DEF BehindWhole

\* One sequence in two parts in two ways.
Overlaps(S, p, q, x, y) == \E t \in Seq(S) : x = p \o t /\ q = t \o y

LEMMA Overlap ==
    ASSUME NEW S, NEW p \in Seq(S), NEW q \in Seq(S), NEW x \in Seq(S), NEW y \in Seq(S),
           p \o q = x \o y, Len(p) <= Len(x)
    PROVE  Overlaps(S, p, q, x, y)
<1>1. PICK t \in Seq(S) : x = p \o t
  <2>1. /\ x = p \o SubSeq(x, Len(p) + 1, Len(x))
        /\ SubSeq(x, Len(p) + 1, Len(x)) \in Seq(S)
    BY Beginnings
  <2> QED BY <2>1
<1>2. PICK ty \in Seq(S) : ty = t \o y
  BY ConcatProperties
<1>3. x \o y = p \o ty
  BY <1>1, <1>2, ReassociateAs, SMTT(60)
<1>4. /\ SubSeq(p \o ty, Len(p) + 1, Len(p \o ty)) = ty
      /\ SubSeq(p \o q, Len(p) + 1, Len(p \o q)) = q
  BY Behind
<1>5. q = ty
  BY <1>3, <1>4
<1> QED BY <1>1, <1>2, <1>5 DEF Overlaps

(***************************************************************************)
(* An entry keeps the loose addresses behind its last whole one, in clear  *)
(* text, and no others (anonymize_line's skipped matches).                 *)
(***************************************************************************)
THEOREM StraysStay == \A line \in Seq(LineItems) : StraysLeft(line)
<1> SUFFICES ASSUME NEW line \in Seq(LineItems), \A k \in DOMAIN line : ~IsSep(line[k])
    PROVE  StraysLeft(line)
  BY DEF StraysLeft
<1>1. PICK O : line \in Seq(Items(O))
  <2>1. line \in Seq(Items(Open0))
    BY LineItemsAre
  <2> QED BY <2>1
<1>2. PICK V : V = Hashed(O)
  OBVIOUS
<1>3. PICK stay \in BOOLEAN : ~stay
  OBVIOUS
<1>4. PICK S : S = Items(Hashed(V)) /\ Seq(Items(O)) \subseteq Seq(S) /\ Seq(Items(V)) \subseteq Seq(S)
  BY <1>2, ItemsGrow
<1>5. OfKinds(Kinds \ {"sep"}, line)
  <2>1. \A k \in DOMAIN line : line[k] \in Items(O)
    BY <1>1, LenProperties
  <2> QED BY <2>1 DEF OfKinds, Range, Items, IsSep
<1>6. PICK p1 \in Seq(Items(O)), s1 \in Seq(Items(O)), o1 \in Seq(Items(V)), b \in Seq(Items(V)) :
        Cut("box", p1, s1, o1, line) /\ b = o1 \o s1 /\ b = ReplaceBoxes(line)
  <2>1. PICK edit \in Edits(O), kind \in {"box", "bare"} : edit = Boxed(O) /\ kind = "box"
    BY EditsAre
  <2>2. /\ ReplaceBoxes(line) \in Seq(Items(V))
        /\ ReplaceBoxes(line) = Outcome(O, kind, edit, stay, line)
    BY <1>1, <1>2, <1>3, <2>1, AnonymousIs
  <2>3. \E p \in Seq(Items(O)), s \in Seq(Items(O)), out \in Seq(Items(V)) :
          Cut(kind, p, s, out, line) /\ Outcome(O, kind, edit, stay, line) = out \o s
    <3>1. \E p \in Seq(Items(O)), s \in Seq(Items(O)), out \in Seq(Items(Hashed(O))) :
            Cut(kind, p, s, out, line) /\ Outcome(O, kind, edit, stay, line) = out \o s
      BY <1>1, <1>3, <1>5, TailStays
    <3> QED BY <1>2, <3>1
  <2> QED BY <2>1, <2>2, <2>3
<1>7. s1 \in Seq(Items(V))
  BY <1>2, ItemsGrow
<1>8. OfKinds(Kinds \ {"sep"}, b)
  <2>1. PICK N : N = Kinds \ {"sep"}
    OBVIOUS
  <2>2. OfKinds(N, o1) /\ OfKinds(N, s1)
    BY <1>6, <2>1 DEF Cut, OfKinds, Kinds
  <2>3. OfKinds(N, o1 \o s1)
    BY <1>7, <2>2, OfKindsSteps
  <2> QED BY <1>6, <2>1, <2>3
<1>9. PICK p2 \in Seq(Items(V)), s2 \in Seq(Items(V)), o2 \in Seq(S) :
        Cut("bare", p2, s2, o2, b) /\ Anonymous(line) = o2 \o s2
  <2>1. PICK edit \in Edits(V), kind \in {"box", "bare"} : edit = Digested(V) /\ kind = "bare"
    BY EditsAre
  <2>2. Anonymous(line) = Outcome(V, kind, edit, stay, b)
    BY <1>1, <1>2, <1>3, <1>6, <2>1, AnonymousIs
  <2>3. \E p \in Seq(Items(V)), s \in Seq(Items(V)), out \in Seq(S) :
          Cut(kind, p, s, out, b) /\ Outcome(V, kind, edit, stay, b) = out \o s
    <3>1. \E p \in Seq(Items(V)), s \in Seq(Items(V)), out \in Seq(Items(Hashed(V))) :
            Cut(kind, p, s, out, b) /\ Outcome(V, kind, edit, stay, b) = out \o s
      BY <1>3, <1>8, TailStays
    <3> QED BY <1>4, <3>1
  <2> QED BY <2>1, <2>2, <2>3
<1>10. Filter(AnonymizeString(<<line>>)[1], LAMBDA item : item.kind = "loose") = LooseOf(S, s2)
  <2>1. PICK a \in Seq(S) : a = o2 \o s2 /\ a = AnonymizeString(<<line>>)[1]
    BY <1>4, <1>9, OneLineIs, ConcatProperties
  <2>2. Filter(a, LAMBDA item : item.kind = "loose") = LooseOf(S, a)
    BY LooseIs
  <2>3. LooseOf(S, a) = LooseOf(S, s2)
    BY <1>4, <1>9, <2>1, LooseBehind DEF Cut
  <2> QED BY <2>1, <2>2, <2>3
\* What the line ends with behind its last whole address.
<1>11. \E x \in Seq(S), y \in Seq(S) :
         /\ line = x \o y /\ LooseOf(S, y) = LooseOf(S, s2)
         /\ x = <<>> \/ x[Len(x)].kind \in {"bare", "box"}
         /\ OfKinds(Kinds \ {"bare", "box"}, y)
  <2>1. CASE p2 = <<>>
    <3>1. s2 = b
      BY <1>9, <2>1, ConcatEmptySeq DEF Cut
    <3>2. LooseOf(S, s2) = LooseOf(S, s1)
      BY <1>4, <1>6, <1>7, <3>1, LooseBehind DEF Cut
    <3>3. OfKinds(Kinds \ {"bare", "box"}, s1)
      <4>1. OfKinds(Kinds \ {"sep", "bare"}, o1 \o s1)
        BY <1>6, <1>9, <3>1 DEF Cut
      <4>2. OfKinds(Kinds \ {"sep", "bare"}, s1)
        BY <1>7, <4>1, OfKindsSteps
      <4> QED BY <1>6, <4>2 DEF Cut, OfKinds
    <3> QED BY <1>4, <1>6, <3>2, <3>3 DEF Cut
  <2>2. CASE p2 # <<>>
    <3>1. p2[Len(p2)].kind = "bare" /\ b = p2 \o s2 /\ OfKinds(Kinds \ {"sep", "bare"}, s2)
      BY <1>9, <2>2 DEF Cut
    <3>2. Len(p2) \in Nat \ {0} /\ Len(o1) \in Nat /\ Len(s1) \in Nat
      BY <2>2, LenProperties, EmptySeq
    <3>3. Len(o1) < Len(p2)
      <4>1. ASSUME Len(p2) <= Len(o1) PROVE FALSE
        <5>1. PICK n \in 1 .. Len(o1) : n = Len(p2)
          BY <3>2, <4>1
        <5>2. b[n] = p2[n]
          <6>1. n \in 1 .. Len(p2) + Len(s2) /\ n <= Len(p2)
            BY <3>2, <5>1, LenProperties
          <6> QED BY <3>1, <6>1, ConcatProperties
        <5>3. b[n] = o1[n]
          <6>1. n \in 1 .. Len(o1) + Len(s1) /\ n <= Len(o1)
            BY <3>2
          <6> QED BY <1>6, <1>7, <6>1, ConcatProperties
        <5>4. o1[n] \in Range(o1)
          BY LenProperties DEF Range
        <5>5. o1[n].kind \in {"hash", "hashbox"}
          BY <1>6, <5>4 DEF Cut, OfKinds
        <5> QED BY <3>1, <5>1, <5>2, <5>3, <5>5
      <4> QED BY <3>2, <4>1
    <3>4. PICK t \in Seq(Items(V)) : p2 = o1 \o t /\ s1 = t \o s2
      <4>1. o1 \o s1 = p2 \o s2 /\ Len(o1) <= Len(p2)
        BY <1>6, <3>1, <3>2, <3>3
      <4>2. Overlaps(Items(V), o1, s1, p2, s2)
        BY <1>7, <4>1, Overlap
      <4> QED BY <4>2 DEF Overlaps
    <3>5. PICK ts : ts = t \o s2
      OBVIOUS
    <3>6. s1 = ts
      BY <3>4, <3>5
    <3>7. OfKinds(Kinds \ {"bare", "box"}, s2)
      <4>1. OfKinds(Kinds \ {"sep", "box"}, t \o s2)
        BY <1>6, <3>5, <3>6 DEF Cut
      <4>2. OfKinds(Kinds \ {"sep", "box"}, s2)
        BY <4>1, OfKindsSteps
      <4> QED BY <3>1, <4>2 DEF OfKinds
    <3>8. t # <<>> /\ t[Len(t)].kind = "bare"
      <4>1. Len(p2) = Len(o1) + Len(t) /\ Len(t) \in Nat
            /\ \A i \in 1 .. Len(o1) + Len(t) : p2[i] = IF i <= Len(o1) THEN o1[i] ELSE t[i - Len(o1)]
        BY <3>4, ConcatProperties, LenProperties
      <4>2. Len(t) \in Nat \ {0} /\ ~(Len(p2) <= Len(o1)) /\ Len(p2) - Len(o1) = Len(t)
        BY <3>2, <3>3, <4>1
      <4>3. p2[Len(p2)] = t[Len(t)]
        <5>1. PICK m \in 1 .. Len(o1) + Len(t) : m = Len(p2)
          BY <3>2, <4>1
        <5> QED BY <4>1, <4>2, <5>1
      <4> QED BY <3>1, <4>2, <4>3, EmptySeq
    <3>9. PICK x \in Seq(S) : x = p1 \o t
      BY <1>4, ConcatProperties
    <3>10. line = x \o s2
      <4>1. line = p1 \o ts
        BY <1>6, <3>6 DEF Cut
      <4>2. p1 \in Seq(S) /\ t \in Seq(S) /\ s2 \in Seq(S)
        BY <1>4
      <4>3. x \o s2 = p1 \o ts
        BY <3>5, <3>9, <4>2, ReassociateAs, SMTT(60)
      <4> QED BY <4>1, <4>3
    <3>11. x[Len(x)] = t[Len(t)]
      <4>1. Len(p1) \in Nat /\ Len(t) \in Nat \ {0}
        BY <3>8, LenProperties, EmptySeq
      <4>2. /\ Len(x) = Len(p1) + Len(t)
            /\ \A i \in 1 .. Len(p1) + Len(t) : x[i] = IF i <= Len(p1) THEN p1[i] ELSE t[i - Len(p1)]
        <5>1. p1 \in Seq(S) /\ t \in Seq(S)
          BY <1>4
        <5> QED BY <3>9, <5>1, ConcatProperties
      <4>3. PICK m \in 1 .. Len(p1) + Len(t) : m = Len(x) /\ ~(m <= Len(p1)) /\ m - Len(p1) = Len(t)
        <5>1. PICK i \in Nat, j \in Nat \ {0} : i = Len(p1) /\ j = Len(t)
          BY <4>1
        <5>2. i + j \in 1 .. i + j /\ ~(i + j <= i) /\ (i + j) - i = j
          OBVIOUS
        <5>3. Len(x) = i + j
          BY <4>2, <5>1
        <5> QED BY <5>1, <5>2, <5>3
      <4> QED BY <4>2, <4>3
    <3> QED BY <1>4, <3>7, <3>8, <3>9, <3>10, <3>11
  <2> QED BY <2>1, <2>2
<1>12. PICK x \in Seq(S), y \in Seq(S) :
         /\ line = x \o y /\ LooseOf(S, y) = LooseOf(S, s2)
         /\ x = <<>> \/ x[Len(x)].kind \in {"bare", "box"}
         /\ OfKinds(Kinds \ {"bare", "box"}, y)
  BY <1>11
<1>13. Filter(y, LAMBDA item : item.kind = "loose") = LooseOf(S, s2)
  BY <1>12, LooseIs
<1>14. PICK last \in 0 .. Len(line) :
         /\ last = 0 \/ line[last].kind \in {"bare", "box"}
         /\ \A k \in last + 1 .. Len(line) : line[k].kind \notin {"bare", "box"}
         /\ SubSeq(line, last + 1, Len(line)) = y
  <2>1. line \in Seq(S)
    BY <1>1, <1>4
  <2>2. BehindWhole(line, y)
    BY <1>12, <2>1, LastWhole
  <2> QED BY <2>2 DEF BehindWhole
<1>15. Filter(AnonymizeString(<<line>>)[1], LAMBDA item : item.kind = "loose")
         = Filter(SubSeq(line, last + 1, Len(line)), LAMBDA item : item.kind = "loose")
  BY <1>10, <1>13, <1>14
<1> QED BY <1>14, <1>15 DEF StraysLeft

\* The first part of a sequence in which nothing comes twice.
LEMMA BeginningNoRepeats ==
    ASSUME NEW S, NEW p \in Seq(S), NEW q \in Seq(S), NoRepeats(p \o q)
    PROVE  NoRepeats(p)
<1>1. PICK pq \in Seq(S) : pq = p \o q
  BY ConcatProperties
<1>2. /\ Len(pq) = Len(p) + Len(q) /\ Len(p) \in Nat /\ Len(q) \in Nat
      /\ DOMAIN pq = 1 .. Len(pq) /\ DOMAIN p = 1 .. Len(p)
      /\ \A i \in 1 .. Len(p) + Len(q) : pq[i] = IF i <= Len(p) THEN p[i] ELSE q[i - Len(p)]
  BY <1>1, ConcatProperties, LenProperties
<1>3. \A i \in 1 .. Len(p) : i \in 1 .. Len(pq) /\ pq[i] = p[i]
  BY <1>2
<1>4. \A i, j \in 1 .. Len(pq) : pq[i] = pq[j] => i = j
  BY <1>1, <1>2 DEF NoRepeats
<1>5. \A i, j \in 1 .. Len(p) : p[i] = p[j] => i = j
  BY <1>3, <1>4
<1> QED BY <1>2, <1>5 DEF NoRepeats

-----------------------------------------------------------------------------
(***************************************************************************)
(* The inputs of the topics are as the theorems above take them: no two    *)
(* epochs or groups have one name, and the choices are in order.           *)
(***************************************************************************)
NamesDistinct == \A i, j \in DOMAIN input : input[i].name = input[j].name => i = j
ChoicesInOrder == \A i, j \in DOMAIN input : i < j => input[i] < input[j]

Fed ==
    /\ topic \in DOMAIN InputsOf
    /\ input \in Seq(InputsOf[topic])
    /\ topic \in {"epochs", "batch"} => NamesDistinct
    /\ topic = "picks" => ChoicesInOrder

LEMMA FedInit == Init => Fed
<1> SUFFICES ASSUME Init PROVE Fed
  OBVIOUS
<1>1. topic \in DOMAIN InputsOf /\ input = <<>>
  BY DEF Init
<1>2. \A S : <<>> \in Seq(S)
  OBVIOUS
<1>3. DOMAIN input = {}
  BY <1>1
<1> QED BY <1>1, <1>2, <1>3 DEF Fed, NamesDistinct, ChoicesInOrder

LEMMA FedNext == Fed /\ [Next]_<<topic, input>> => Fed'
<1> SUFFICES ASSUME Fed, [Next]_<<topic, input>> PROVE Fed'
  OBVIOUS
<1>1. CASE UNCHANGED <<topic, input>>
  BY <1>1 DEF Fed, NamesDistinct, ChoicesInOrder, InputsOf, Options
<1>2. CASE Next
  <2>1. PICK item \in InputsOf[topic] :
          Fits(item) /\ input' = Append(input, item) /\ topic' = topic
    BY <1>2 DEF Next
  <2>2. InputsOf' = InputsOf
    BY DEF InputsOf, Options
  <2>3. PICK S : S = InputsOf[topic]
    OBVIOUS
  <2>4. PICK n \in Nat : n = Len(input) /\ DOMAIN input = 1 .. n
    <3>1. input \in Seq(S)
      BY <2>3 DEF Fed
    <3> QED BY <3>1, LenProperties
  <2>5. /\ input' \in Seq(S) /\ DOMAIN input' = 1 .. n + 1
        /\ \A k \in 1 .. n : input'[k] = input[k]
        /\ input'[n + 1] = item
    <3>1. input \in Seq(S) /\ item \in S
      BY <2>1, <2>3 DEF Fed
    <3>2. PICK more \in Seq(S) : more = Append(input, item)
      BY <3>1, AppendProperties
    <3>3. /\ Len(more) = n + 1 /\ DOMAIN more = 1 .. n + 1
          /\ \A k \in 1 .. n : more[k] = input[k]
          /\ more[n + 1] = item
      BY <2>4, <3>1, <3>2, AppendProperties, LenProperties
    <3> QED BY <2>1, <3>2, <3>3
  <2>6. topic' \in DOMAIN InputsOf' /\ input' \in Seq(InputsOf'[topic'])
    <3>1. topic' \in DOMAIN InputsOf'
      BY <2>1, <2>2 DEF Fed
    <3>2. InputsOf'[topic'] = S
      BY <2>1, <2>2, <2>3
    <3> QED BY <2>5, <3>1, <3>2
  <2>7. ASSUME topic' \in {"epochs", "batch"} PROVE NamesDistinct'
    <3>1. topic \in {"epochs", "batch"} /\ NamesDistinct
      BY <2>1, <2>7 DEF Fed
    <3>2. \A k \in 1 .. n : input[k].name # item.name
      BY <2>1, <2>4, <3>1 DEF Fits
    <3>3. \A i \in 1 .. n + 1 : i \in 1 .. n \/ i = n + 1
      OBVIOUS
    <3>4. \A i, j \in 1 .. n + 1 : input'[i].name = input'[j].name => i = j
      BY <2>4, <2>5, <3>1, <3>2, <3>3 DEF NamesDistinct
    <3> QED BY <2>5, <3>4 DEF NamesDistinct
  <2>8. ASSUME topic' = "picks" PROVE ChoicesInOrder'
    <3>1. topic = "picks" /\ ChoicesInOrder
      BY <2>1, <2>8 DEF Fed
    <3>2. \A k \in 1 .. n : input[k] < item
      BY <2>1, <2>4, <3>1 DEF Fits
    <3>3. \A i, j \in 1 .. n + 1 : i < j => i \in 1 .. n /\ (j \in 1 .. n \/ j = n + 1)
      OBVIOUS
    <3>4. \A i, j \in 1 .. n + 1 : i < j => input'[i] < input'[j]
      BY <2>4, <2>5, <3>1, <3>2, <3>3 DEF ChoicesInOrder
    <3> QED BY <2>5, <3>4 DEF ChoicesInOrder
  <2> QED BY <2>6, <2>7, <2>8 DEF Fed
<1> QED BY <1>1, <1>2

LEMMA InputsAre ==
    /\ InputsOf["directory"] = Directories /\ InputsOf["epochs"] = EpochSizes
    /\ InputsOf["range"] = Parts /\ InputsOf["selection"] = Patterns
    /\ InputsOf["picks"] = DOMAIN Options /\ InputsOf["sources"] = Sources
    /\ InputsOf["server"] = Servers /\ InputsOf["batch"] = Groups
    /\ InputsOf["mailmap"] = MailmapLines /\ InputsOf["line"] = Texts
    /\ InputsOf["subject"] = SubjectTokens
    /\ InputsOf["body"] = BodyLines /\ InputsOf["patches"] = PatchLines
    /\ InputsOf["dates"] = DateHeaders /\ InputsOf["sender"] = Candidates
    /\ InputsOf["boxes"] = Boxes
BY DEF InputsOf

LEMMA InputElements ==
    ASSUME Fed
    PROVE  \A V : InputsOf[topic] \subseteq V => input \in Seq(V)
<1>1. \A S, V : S \subseteq V => \A q \in Seq(S) : q \in Seq(V)
  OBVIOUS
<1> QED BY <1>1 DEF Fed

(***************************************************************************)
(* The inputs the runs put together are of the kinds, and in the order,    *)
(* that the theorems on the functions suppose.                             *)
(***************************************************************************)
THEOREM InputsFit == Spec => []Fed
<1>1. Init => Fed
  BY FedInit
<1>2. Fed /\ [Next]_<<topic, input>> => Fed'
  BY FedNext
<1> QED BY <1>1, <1>2, PTL DEF Spec

(***************************************************************************)
(* detect_inbox, find_epochs: what the lister offers a visit can read,     *)
(* also if the mirror has gone on between the two.                         *)
(***************************************************************************)
THEOREM InboxesAreReadable == Spec => []InboxesReadable
<1>1. Fed => InboxesReadable
  <2> SUFFICES ASSUME Fed, topic = "directory", NEW k \in DOMAIN input
               PROVE  ListedIsReadable(input[k]) /\ StaysDetected(input[k])
    BY DEF InboxesReadable
  <2>1. Directories \subseteq Dirs
    BY InboxesAssumption DEF Dirs
  <2>2. input \in Seq(Dirs)
    BY <2>1, InputsAre, InputElements
  <2>3. input[k] \in Dirs
    BY <2>2, LenProperties
  <2> QED BY <2>3, OfferedIsReadable, InboxesStayDetected
<1> QED BY <1>1, InputsFit, PTL

(***************************************************************************)
(* pi_worker.rs, pi_utils.rs, check_git: range mode and the walk give an   *)
(* e-mail one identifier, which leads back to its commit; epochs are read  *)
(* in the order of their numbers; the pages show every commit once.        *)
(***************************************************************************)
THEOREM EmailsAreNumbered == Spec => []EmailsNumbered
<1>1. Fed => EmailsNumbered
  <2> SUFFICES ASSUME Fed, topic = "epochs"
               PROVE  /\ IndexIsWalk(input, OwnCommits) /\ LookupFinds(input, OwnCommits)
                      /\ NumbersOrderEpochs(input, OwnCommits)
                      /\ PagesPartition(input, OwnCommits, PageSize)
    BY DEF EmailsNumbered
  <2>1. EpochSizes \subseteq EpochTypes
    BY InboxesAssumption DEF EpochTypes, EpochNames, TextOrder
  <2>2. input \in Seq(EpochTypes)
    BY <2>1, InputsAre, InputElements
  <2>3. NamesApart(input)
    BY DEF Fed, NamesDistinct, NamesApart
  <2>4. OwnCommits \in Nat /\ PageSize \in Nat \ {0}
    BY InboxesAssumption
  <2> QED BY <2>2, <2>3, <2>4, IndicesFollowWalk, IdentifiersLeadBack, NumbersAreOrder, PagesAreWhole
<1> QED BY <1>1, InputsFit, PTL

(***************************************************************************)
(* mailmap.rs and the anonymizer: a canonical address stands at the        *)
(* position of its trailer; an anonymized row holds no address in its      *)
(* identity columns but the loose ones behind the last whole one of their  *)
(* entry, and of a text in lines keeps no whole one behind a name; an      *)
(* identity has one hash wherever it stands in a list.                     *)
(***************************************************************************)
THEOREM IdentitiesAreKept == Spec => []IdentitiesKept
<1>1. Fed => IdentitiesKept
  <2> SUFFICES ASSUME Fed PROVE IdentitiesKept
    OBVIOUS
  <2>1. ASSUME topic = "mailmap" PROVE CanonicalAtPosition(input, Trailers)
    <3>1. MailmapLines \subseteq MapLines /\ Trailers \in Seq(Typed)
      BY TextsAssumption DEF MapLines, Typed
    <3>2. input \in Seq(MapLines)
      BY <2>1, <3>1, InputsAre, InputElements
    <3> QED BY <3>1, <3>2, CanonicalsInPlace
  <2>2. ASSUME topic = "line"
        PROVE  /\ RowAnonymous(input) /\ StraysLeft(input)
               /\ LeftOnlyInRow(input) /\ EntriesApart(input)
    <3>1. Texts \subseteq LineItems
      BY TextsAssumption DEF LineItems, LineTexts
    <3>2. input \in Seq(LineItems)
      BY <2>2, <3>1, InputsAre, InputElements
    <3> QED BY <3>2, RowsAnonymous, StraysStay, LeftOnlyAtStarts, ListsEntryByEntry
  <2> QED BY <2>1, <2>2 DEF IdentitiesKept
<1> QED BY <1>1, InputsFit, PTL

\* What is chosen is in order, and "*" comes first.
LEMMA PicksAre ==
    ASSUME Fed, topic = "picks"
    PROVE  /\ Picks \in Seq({"*"} \cup Range(Available)) /\ NoRepeats(Picks)
           /\ \A k \in DOMAIN Picks : Picks[k] = "*" => k = 1
<1>1. PICK star : star = "*"
  OBVIOUS
<1>2. Available \in Seq(ListNames) /\ star \notin Range(Available)
      /\ \A i, j \in DOMAIN Available : Available[i] = Available[j] => i = j
  <2>1. Available \in Seq(ListNames) /\ More \in Seq(ListNames)
    BY ListsAssumption DEF ListNames
  <2>2. NoRepeats(Available \o More)
    BY ListsAssumption DEF NoRepeats
  <2>3. NoRepeats(Available)
    BY <2>1, <2>2, BeginningNoRepeats
  <2> QED BY <1>1, <2>1, <2>3, ListsAssumption DEF NoRepeats
<1>3. PICK m \in Nat : m = Len(Available) /\ DOMAIN Available = 1 .. m
  BY <1>2, LenProperties
<1>4. PICK S : S = {star} \cup Range(Available)
  OBVIOUS
<1>5. /\ DOMAIN Options = 1 .. m + 1 /\ Options[1] = star
      /\ \A i \in 2 .. m + 1 : Options[i] = Available[i - 1] /\ i - 1 \in 1 .. m
  <2>1. Available \in Seq(S) /\ star \in S
    <3>1. Available \in Seq(Range(Available))
      <4>1. \A q \in Seq(ListNames) : q \in Seq(Range(q))
        <5>1. ASSUME NEW q \in Seq(ListNames) PROVE q \in Seq(Range(q))
          BY DEF Range
        <5> QED BY <5>1
      <4> QED BY <1>2, <4>1
    <3>2. \A V, W : V \subseteq W => \A q \in Seq(V) : q \in Seq(W)
      OBVIOUS
    <3> QED BY <1>4, <3>1, <3>2
  <2>2. PICK one \in Seq(S) : one = <<star>> /\ Len(one) = 1 /\ one[1] = star
    <3>1. <<star>> \in Seq(S)
      BY <2>1
    <3> QED BY <3>1
  <2>3. Options = one \o Available
    BY <1>1, <2>2 DEF Options
  <2>4. PICK all \in Seq(S) : all = one \o Available
    BY <2>1, ConcatProperties
  <2>5. /\ Len(all) = 1 + m /\ DOMAIN all = 1 .. Len(all)
        /\ \A i \in 1 .. 1 + m : all[i] = IF i <= 1 THEN one[i] ELSE Available[i - 1]
    BY <1>3, <2>1, <2>2, <2>4, ConcatProperties, LenProperties
  <2> QED BY <1>3, <2>2, <2>3, <2>4, <2>5
<1>6. /\ input \in Seq(1 .. m + 1) /\ Picks = [k \in DOMAIN input |-> Options[input[k]]]
      /\ ChoicesInOrder
  <2>1. input \in Seq(DOMAIN Options)
    BY InputsAre DEF Fed
  <2> QED BY <1>5, <2>1 DEF Fed, Picks
<1>7. PICK n \in Nat : n = Len(input) /\ DOMAIN input = 1 .. n /\ \A k \in 1 .. n : input[k] \in 1 .. m + 1
  BY <1>6, LenProperties
<1>8. \A i \in 1 .. m + 1 : Options[i] \in S /\ (Options[i] = star => i = 1)
  <2>1. \A i \in 2 .. m + 1 : Options[i] \in Range(Available)
    BY <1>3, <1>5 DEF Range
  <2>2. \A i \in 1 .. m + 1 : i = 1 \/ i \in 2 .. m + 1
    OBVIOUS
  <2> QED BY <1>2, <1>4, <1>5, <2>1, <2>2
<1>9. \A i, j \in 1 .. m + 1 : Options[i] = Options[j] => i = j
  <2>1. ASSUME NEW i \in 1 .. m + 1, NEW j \in 1 .. m + 1, Options[i] = Options[j] PROVE i = j
    <3>1. CASE i = 1 \/ j = 1
      BY <1>5, <1>8, <2>1, <3>1
    <3>2. CASE i # 1 /\ j # 1
      <4>1. i \in 2 .. m + 1 /\ j \in 2 .. m + 1
        BY <3>2
      <4>2. Available[i - 1] = Available[j - 1] /\ i - 1 \in 1 .. m /\ j - 1 \in 1 .. m
        BY <1>5, <2>1, <4>1
      <4>3. i - 1 = j - 1
        BY <1>2, <1>3, <4>2
      <4> QED BY <4>3
    <3> QED BY <3>1, <3>2
  <2> QED BY <2>1
<1>10. DOMAIN Picks = 1 .. n /\ \A k \in 1 .. n : Picks[k] = Options[input[k]]
  BY <1>6, <1>7
<1>11. Picks \in Seq(S)
  <2>1. PICK f : f = Picks
    OBVIOUS
  <2>2. f \in [1 .. n -> S]
    BY <1>6, <1>7, <1>8, <2>1
  <2>3. \A k \in Nat : \A g \in [1 .. k -> S] : g \in Seq(S)
    OBVIOUS
  <2> QED BY <2>1, <2>2, <2>3
<1>12. \A i, j \in 1 .. n : i < j => input[i] < input[j]
  BY <1>6, <1>7 DEF ChoicesInOrder
<1>13. NoRepeats(Picks)
  <2>1. ASSUME NEW i \in 1 .. n, NEW j \in 1 .. n, Picks[i] = Picks[j] PROVE i = j
    <3>1. input[i] = input[j]
      BY <1>7, <1>9, <1>10, <2>1
    <3>2. ~(i < j) /\ ~(j < i)
      BY <1>7, <1>12, <3>1
    <3> QED BY <3>2
  <2> QED BY <1>10, <2>1 DEF NoRepeats
<1>14. ASSUME NEW k \in 1 .. n, Picks[k] = star PROVE k = 1
  <2>1. input[k] = 1
    BY <1>7, <1>8, <1>10, <1>14
  <2>2. k # 1 => 1 \in 1 .. n /\ 1 < k
    OBVIOUS
  <2>3. k # 1 => input[1] < 1 /\ input[1] \in 1 .. m + 1
    BY <1>7, <1>12, <2>1, <2>2
  <2> QED BY <2>3
<1> QED BY <1>1, <1>4, <1>10, <1>11, <1>13, <1>14

(***************************************************************************)
(* config.rs, range_inputs.rs, worker.rs, check_nntp: a range is read as a *)
(* whole or not at all, a selection names each of its lists once and can   *)
(* be saved, every source gets workers and its own lists, a server is      *)
(* addressed as typed, and a batch goes on to the first failure.           *)
(***************************************************************************)
THEOREM SelectionIsSound == Spec => []SelectionSound
<1>1. Fed => SelectionSound
  <2> SUFFICES ASSUME Fed PROVE SelectionSound
    OBVIOUS
  <2>1. /\ Available \in Seq(ListNames) /\ More \in Seq(ListNames)
        /\ NoRepeats(Available \o More) /\ NoRepeats(Available)
        /\ "*" \notin Range(Available)
    <3>1. Available \in Seq(ListNames) /\ More \in Seq(ListNames) /\ "*" \notin Range(Available)
      BY ListsAssumption DEF ListNames
    <3>2. NoRepeats(Available \o More)
      BY ListsAssumption DEF NoRepeats
    <3> QED BY <3>1, <3>2, BeginningNoRepeats
  <2>2. ASSUME topic = "range" PROVE AllOrNothing(input)
    <3>1. input \in Seq(RangeParts)
      BY <2>2, RangesAssumption, InputsAre, InputElements
    <3> QED BY <3>1, RangesWhole
  <2>3. ASSUME topic = "selection" PROVE EachListOnce(input, Available)
    <3>1. Patterns \subseteq Selections
      BY ListsAssumption DEF Selections, ListNames
    <3>2. input \in Seq(Selections)
      BY <2>3, <3>1, InputsAre, InputElements
    <3> QED BY <2>1, <3>2, ListsOnce
  <2>4. ASSUME topic = "picks" PROVE SelectionRestored(Picks, Available, More)
    BY <2>1, <2>4, PicksAre, ChoicesRestored
  <2>5. ASSUME topic = "sources", NEW nthreads \in Threads PROVE EverySourceServed(input, nthreads)
    <3>1. Sources \subseteq SourceTypes /\ nthreads \in Nat
      BY SourcesAssumption DEF SourceTypes, Selections, ListNames
    <3>2. input \in Seq(SourceTypes)
      BY <2>5, <3>1, InputsAre, InputElements
    <3> QED BY <3>1, <3>2, SourcesServed
  <2>6. ASSUME topic = "server", NEW k \in DOMAIN input PROVE AddressAsTyped(input[k])
    <3>1. Servers \subseteq ServerAddresses
      BY SourcesAssumption DEF ServerAddresses
    <3>2. input \in Seq(ServerAddresses)
      BY <2>6, <3>1, InputsAre, InputElements
    <3>3. input[k] \in ServerAddresses
      BY <3>2, LenProperties
    <3> QED BY <3>3, AddressesAsTyped
  <2>7. ASSUME topic = "batch" PROVE BatchStopsAtFailure(input, ChosenGroups, ChosenParts)
    <3>1. /\ Groups \subseteq GroupTypes /\ ChosenGroups \in Selections
          /\ ChosenParts \in Seq(RangeParts)
      BY RangesAssumption DEF GroupTypes, Selections, ListNames
    <3>2. input \in Seq(GroupTypes)
      BY <2>7, <3>1, InputsAre, InputElements
    <3>3. RanksApart(input)
      <4>1. input \in Seq(Groups)
        BY <2>7, InputsAre DEF Fed
      <4>2. \A i \in DOMAIN input : input[i] \in Groups
        BY <4>1, LenProperties
      <4>3. \A i, j \in DOMAIN input : input[i].rank = input[j].rank => input[i].name = input[j].name
        BY <4>2, RangesAssumption
      <4>4. NamesDistinct
        BY <2>7 DEF Fed
      <4> QED BY <4>3, <4>4 DEF NamesDistinct, RanksApart
    <3> QED BY <3>1, <3>2, <3>3, BatchesStop
  <2> QED BY <2>2, <2>3, <2>4, <2>5, <2>6, <2>7 DEF SelectionSound
<1> QED BY <1>1, InputsFit, PTL

(***************************************************************************)
(* email_parser.rs, address_parser.rs: wrong clocks in a minority of the   *)
(* headers do not move an e-mail; its sender is the best named one of the  *)
(* headers and the text; no recipient is lost, doubled or moved, whichever *)
(* way the header is read.                                                 *)
(***************************************************************************)
THEOREM HeadersAreKept == Spec => []HeadersKept
<1>1. Fed => HeadersKept
  <2> SUFFICES ASSUME Fed PROVE HeadersKept
    OBVIOUS
  <2>1. ASSUME topic = "dates" PROVE MajorityWins(input)
    <3>1. input \in Seq(DateTexts)
      BY <2>1, ParsingAssumption, InputsAre, InputElements
    <3> QED BY <3>1, MajorityDoesWin
  <2>2. ASSUME topic = "sender", NEW k \in 0 .. Len(input)
        PROVE  SenderIsNamed(SubSeq(input, 1, k), SubSeq(input, k + 1, Len(input)))
    <3>1. Candidates \subseteq Senders
      BY ParsingAssumption DEF Senders
    <3>2. PICK S : S = Senders
      OBVIOUS
    <3>3. PICK q \in Seq(S) : q = input
      BY <2>2, <3>1, <3>2, InputsAre, InputElements
    <3>4. k \in 0 .. Len(q) /\ Len(q) \in Nat
      BY <2>2, <3>3, LenProperties
    <3>5. SubSeq(q, 1, k) \in Seq(S) /\ SubSeq(q, k + 1, Len(q)) \in Seq(S)
      BY <3>4, SubSeqProperties
    <3>6. SenderIsNamed(SubSeq(q, 1, k), SubSeq(q, k + 1, Len(q)))
      BY <3>2, <3>5, SendersAreNamed
    <3> QED BY <3>3, <3>6
  <2>3. ASSUME topic = "boxes" PROVE AddressesKept(input) /\ PathsAgree(input)
    <3>1. Boxes \subseteq {box \in BoxTypes : box.name \/ box.addr}
      BY ParsingAssumption DEF BoxTypes
    <3>2. PICK S : S = {box \in BoxTypes : box.name \/ box.addr}
      OBVIOUS
    <3>3. input \in Seq(S)
      BY <2>3, <3>1, <3>2, InputsAre, InputElements
    <3>4. input \in Seq(BoxTypes)
      <4>1. \A q \in Seq(S) : q \in Seq(BoxTypes)
        BY <3>2
      <4> QED BY <3>3, <4>1
    <3>5. \A k \in DOMAIN input : input[k] \in S
      BY <3>3, LenProperties
    <3> QED BY <3>2, <3>4, <3>5, AddressesAreKept, PathsDoAgree
  <2> QED BY <2>1, <2>2, <2>3 DEF HeadersKept
<1> QED BY <1>1, InputsFit, PTL

(***************************************************************************)
(* The extractors: of an e-mail of any length, put together of any tokens  *)
(* and lines, the tags of the subject are the run at its start and a reply *)
(* only adds its own; every Fixes: tag and every trailer of the body is    *)
(* found once; every diff is in exactly one patch.                         *)
(***************************************************************************)
THEOREM ExtractorsAreExact == Spec => []ExtractorsExact
<1>1. Fed => ExtractorsExact
  <2> SUFFICES ASSUME Fed PROVE ExtractorsExact
    OBVIOUS
  <2>1. ASSUME topic = "subject" PROVE TagsAreLeadingRun(input) /\ ReplyKeepsTags(input)
    <3>1. input \in Seq(Tokens)
      BY <2>1, ParsingAssumption, InputsAre, InputElements
    <3> QED BY <3>1, TagsDoLeadRun, RepliesKeepTags
  <2>2. ASSUME NEW kinds \in Seq(LineKinds)
        PROVE  Lines(kinds) \in Seq(LineTypes) /\ Numbered(Lines(kinds))
    <3>1. PICK n \in Nat, lines \in Seq(LineTypes) :
             lines = Lines(kinds) /\ n = Len(lines) /\ \A k \in 1 .. n : lines[k].at = k
      BY <2>2, LinesAre, LenProperties
    <3>2. DOMAIN lines = 1 .. n
      BY <3>1, LenProperties
    <3> QED BY <3>1, <3>2 DEF Numbered
  <2>3. ASSUME topic = "body" PROVE FixesExact(Lines(input)) /\ TrailersExact(Lines(input))
    <3>1. input \in Seq(LineKinds)
      BY <2>3, ParsingAssumption, InputsAre, InputElements
    <3> QED BY <2>2, <3>1, FixesAreFound, TrailersAreFound
  <2>4. ASSUME topic = "patches" PROVE PatchesPartition(Lines(input))
    <3>1. input \in Seq(LineKinds)
      BY <2>4, ParsingAssumption, InputsAre, InputElements
    <3> QED BY <2>2, <3>1, PatchesDoPartition
  <2> QED BY <2>1, <2>3, <2>4 DEF ExtractorsExact
<1> QED BY <1>1, InputsFit, PTL
===============================================================================
