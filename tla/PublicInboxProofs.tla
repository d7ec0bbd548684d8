-------------------------- MODULE PublicInboxProofs --------------------------
(***************************************************************************)
(* The walk over a public-inbox list, for any number of epochs, commits    *)
(* and runs, any batch size, and stops and kills anywhere: its types, that *)
(* e-mail numbers are unique, and that in a list of one epoch the first    *)
(* run and an update after it archive every commit, and none twice.        *)
(***************************************************************************)
EXTENDS PublicInbox, SequenceTheorems, FiniteSetTheorems, Induction

(***************************************************************************)
(* Numbers.  The argument is about three counters.  Between two epochs no  *)
(* number is above global_position; in an epoch, none reaches              *)
(* next_email_num, which is global_position plus the commits archived so   *)
(* far plus one; and an epoch is left with global_position advanced by     *)
(* commit_count, which counts at least those.  What the process holds in   *)
(* memory is above the saved progress, so losing it frees only numbers     *)
(* that nobody has seen.                                                   *)
(***************************************************************************)
\* The types of the variables that numbers depend on.
NumberTypes ==
    /\ size \in [EpochIds -> 0 .. MaxCommits]
    /\ stored \subseteq Identifiers
    /\ progress \in Identifiers \cup {NoProgress}
    /\ pending \in Seq(Identifiers)
    /\ run \in {"idle", "epochs", "walk"}
    /\ run = "epochs" => epoch \in 1 .. MaxEpochs + 1
    /\ run = "walk" => epoch \in EpochIds /\ at \in 0 .. MaxCommits
    /\ position \in Nat /\ commitCount \in Nat
    /\ processedNew \in Nat /\ nextNum \in Nat

\* The buffered e-mails are numbered upwards, above the saved progress.
PendingAbove ==
    /\ run = "idle" => pending = <<>>
    /\ \A i \in DOMAIN pending : progress.num < pending[i].num
    /\ \A i, j \in DOMAIN pending : i < j => pending[i].num < pending[j].num

\* The counters of the walk are ahead of every number given out.
CountersAhead ==
    /\ run = "epochs" => /\ progress.num <= position
                         /\ \A i \in DOMAIN pending : pending[i].num <= position
    /\ run = "walk" => /\ processedNew <= commitCount
                       /\ nextNum = position + 1 + processedNew
                       /\ progress.num < nextNum
                       /\ \A i \in DOMAIN pending : pending[i].num < nextNum

NumberInv == NumberTypes /\ NumbersUnique /\ PendingAbove /\ CountersAhead

-----------------------------------------------------------------------------
\* The newest epoch is one of the epochs a list can have.
LEMMA NewestBound == Newest \in Nat /\ Newest <= MaxEpochs
<1>1. IsFiniteSet(EpochIds) /\ Cardinality(EpochIds) = MaxEpochs
  BY FS_Interval, InboxAssumption DEF EpochIds
<1>2. Existing \subseteq EpochIds
  BY DEF Existing
<1> QED
  BY <1>1, <1>2, FS_Subset, FS_CardinalityType DEF Newest

LEMMA NumberOfIdentifier ==
    ASSUME NEW n \in Nat, NEW e \in EpochIds, NEW a \in 1 .. MaxCommits
    PROVE  /\ Identifier(n, e, a) \in Identifiers
           /\ Identifier(n, e, a).num = n
BY DEF Identifier, Identifiers

\* Identifiers carry natural numbers, and so does the missing progress.
LEMMA NumbersAreNatural ==
    ASSUME NumberTypes
    PROVE  /\ \A i \in stored : i.num \in Nat
           /\ progress.num \in Nat
           /\ \A i \in DOMAIN pending : pending[i] \in Identifiers
                                        /\ pending[i].num \in Nat
           /\ DOMAIN pending = 1 .. Len(pending) /\ Len(pending) \in Nat
<1>1. \A i \in Identifiers : i.num \in Nat
  BY DEF Identifiers
<1>2. NoProgress.num = 0
  BY DEF NoProgress, Identifier
<1>3. /\ DOMAIN pending = 1 .. Len(pending) /\ Len(pending) \in Nat
      /\ \A i \in DOMAIN pending : pending[i] \in Identifiers
  BY ElementOfSeq DEF NumberTypes
<1> QED
  BY <1>1, <1>2, <1>3 DEF NumberTypes

\* Committing what is pending keeps the numbers unique: it is above the saved
\* progress, and its last number becomes the progress.
LEMMA CommitKeepsNumbers ==
    ASSUME NumberTypes, NumbersUnique, PendingAbove, CommitPending
    PROVE  /\ stored' \subseteq Identifiers
           /\ progress' \in Identifiers \cup {NoProgress}
           /\ pending' = <<>>
           /\ NumbersUnique'
<1>n. /\ \A i \in stored : i.num \in Nat
      /\ progress.num \in Nat
      /\ \A i \in DOMAIN pending : pending[i] \in Identifiers /\ pending[i].num \in Nat
      /\ DOMAIN pending = 1 .. Len(pending) /\ Len(pending) \in Nat
  BY NumbersAreNatural
<1>c. /\ stored' = stored \cup {pending[i] : i \in DOMAIN pending}
      /\ progress' = IF pending = <<>> THEN progress ELSE pending[Len(pending)]
      /\ pending' = <<>>
  BY DEF CommitPending
<1>1. CASE pending = <<>>
  <2>1. DOMAIN pending = {}
    BY <1>1
  <2> QED
    BY <1>1, <1>c, <2>1 DEF NumberTypes, NumbersUnique
<1>2. CASE pending # <<>>
  <2>1. Len(pending) \in DOMAIN pending
    BY <1>2, <1>n, EmptySeq DEF NumberTypes
  <2>2. \A i \in DOMAIN pending : pending[i].num <= pending[Len(pending)].num
    BY <2>1, <1>n DEF PendingAbove
  <2>3. \A i \in stored' : i.num <= progress'.num
    <3> SUFFICES ASSUME NEW i \in stored' PROVE i.num <= progress'.num
      OBVIOUS
    <3>1. progress' = pending[Len(pending)] /\ progress.num < progress'.num
      BY <1>2, <1>c, <2>1 DEF PendingAbove
    <3>2. CASE i \in stored
      BY <3>1, <3>2, <1>n, <2>1 DEF NumbersUnique
    <3>3. CASE \E k \in DOMAIN pending : i = pending[k]
      BY <3>1, <3>3, <2>2
    <3> QED
      BY <3>2, <3>3, <1>c
  <2>4. \A i, j \in stored' : i.num = j.num => i = j
    <3>1. \A i \in stored : \A k \in DOMAIN pending : i.num < pending[k].num
      BY <1>n DEF NumbersUnique, PendingAbove
    <3>2. \A k, l \in DOMAIN pending :
             pending[k].num = pending[l].num => pending[k] = pending[l]
      BY <1>n DEF PendingAbove
    <3>3. \A i, j \in stored : i.num = j.num => i = j
      BY DEF NumbersUnique
    <3>4. \A i \in stored' : i \in stored \/ \E k \in DOMAIN pending : i = pending[k]
      BY <1>c
    <3> QED
      BY <3>1, <3>2, <3>3, <3>4, <1>n
  <2> QED
    BY <1>2, <1>c, <1>n, <2>1, <2>3, <2>4 DEF NumberTypes, NumbersUnique
<1> QED
  BY <1>1, <1>2

\* Archiving under the next number keeps what is stored, pending and saved in
\* order, whether the batch is full or not.
LEMMA ArchiveKeepsNumbers ==
    ASSUME NumberTypes, NumbersUnique, PendingAbove,
           NEW id \in Identifiers, id.num \in Nat,
           progress.num < id.num,
           \A i \in DOMAIN pending : pending[i].num < id.num,
           Archive(id)
    PROVE  /\ stored' \subseteq Identifiers
           /\ progress' \in Identifiers \cup {NoProgress}
           /\ pending' \in Seq(Identifiers)
           /\ NumbersUnique'
           /\ progress'.num <= id.num
           /\ \A i \in DOMAIN pending' :
                 progress'.num < pending'[i].num /\ pending'[i].num <= id.num
           /\ \A i, j \in DOMAIN pending' : i < j => pending'[i].num < pending'[j].num
<1>n. /\ \A i \in stored : i.num \in Nat
      /\ progress.num \in Nat
      /\ \A i \in DOMAIN pending : pending[i] \in Identifiers /\ pending[i].num \in Nat
      /\ DOMAIN pending = 1 .. Len(pending) /\ Len(pending) \in Nat
  BY NumbersAreNatural
<1>u. /\ \A i, j \in stored : i.num = j.num => i = j
      /\ \A i \in stored : i.num <= progress.num
  BY DEF NumbersUnique
<1>1. CASE Len(pending) + 1 >= BatchSize
  <2>1. /\ stored' = stored \cup {pending[i] : i \in DOMAIN pending} \cup {id}
        /\ progress' = id /\ pending' = <<>>
    BY <1>1 DEF Archive
  <2>2. \A i \in stored' :
           i \in stored \/ i = id \/ \E k \in DOMAIN pending : i = pending[k]
    BY <2>1
  <2>3. \A i \in stored : i.num < id.num /\ \A k \in DOMAIN pending : i.num < pending[k].num
    BY <1>n, <1>u DEF PendingAbove
  <2>4. \A k, l \in DOMAIN pending :
           pending[k].num = pending[l].num => pending[k] = pending[l]
    BY <1>n DEF PendingAbove
  <2>5. \A i, j \in stored' : i.num = j.num => i = j
    BY <2>2, <2>3, <2>4, <1>n, <1>u
  <2>6. \A i \in stored' : i.num <= progress'.num
    BY <2>1, <2>2, <2>3, <1>n
  <2>7. pending' \in Seq(Identifiers) /\ DOMAIN pending' = {}
    BY <2>1, EmptySeq
  <2>8. stored' \subseteq Identifiers
    BY <2>2, <1>n DEF NumberTypes
  <2> QED
    BY <2>1, <2>5, <2>6, <2>7, <2>8 DEF NumbersUnique
<1>2. CASE ~(Len(pending) + 1 >= BatchSize)
  <2>1. pending' = Append(pending, id) /\ stored' = stored /\ progress' = progress
    BY <1>2 DEF Archive
  <2>2. /\ pending' \in Seq(Identifiers)
        /\ DOMAIN pending' = 1 .. Len(pending) + 1
        /\ \A i \in 1 .. Len(pending) : pending'[i] = pending[i]
        /\ pending'[Len(pending) + 1] = id
    BY <2>1, AppendProperties DEF NumberTypes
  <2>3. \A i \in DOMAIN pending' :
           progress'.num < pending'[i].num /\ pending'[i].num <= id.num
    BY <2>1, <2>2, <1>n DEF PendingAbove
  <2>4. \A i, j \in DOMAIN pending' : i < j => pending'[i].num < pending'[j].num
    BY <2>2, <1>n, SMTT(30) DEF PendingAbove
  <2> QED
    BY <2>1, <2>2, <2>3, <2>4, <1>n, <1>u DEF NumberTypes, NumbersUnique
<1> QED
  BY <1>1, <1>2

-----------------------------------------------------------------------------
\* The counters stay ahead of the numbers in every step.
LEMMA NumberStep == NumberInv /\ [Next]_vars => NumberInv'
<1> SUFFICES ASSUME NumberInv, [Next]_vars PROVE NumberInv'
  OBVIOUS
<1> USE DEF NumberInv
<1>n. /\ progress.num \in Nat
      /\ \A i \in DOMAIN pending : pending[i].num \in Nat
      /\ DOMAIN pending = 1 .. Len(pending) /\ Len(pending) \in Nat
  BY NumbersAreNatural
<1>e. DOMAIN <<>> = {} /\ <<>> \in Seq(Identifiers)
  BY EmptySeq
<1>1. CASE Push \/ NewEpoch
  <2>1. size' \in [EpochIds -> 0 .. MaxCommits]
    BY <1>1, InboxAssumption DEF Push, NewEpoch, NumberTypes
  <2>2. UNCHANGED <<archive, runVars>>
    BY <1>1 DEF Push, NewEpoch
  <2> QED
    BY <2>1, <2>2 DEF archive, runVars, walkVars, NumberTypes, NumbersUnique,
                      PendingAbove, CountersAhead
<1>2. CASE StartRun
  <2>1. /\ run = "idle" /\ run' = "epochs" /\ position' = progress.num
        /\ epoch' = IF progress = NoProgress THEN 1 ELSE progress.epoch
        /\ UNCHANGED <<repo, archive, pending, walkVars>>
    BY <1>2 DEF StartRun
  <2>2. epoch' \in 1 .. MaxEpochs + 1
    BY <2>1, InboxAssumption DEF NumberTypes, Identifiers, EpochIds
  <2>3. pending = <<>>
    BY <2>1 DEF PendingAbove
  <2> QED
    BY <2>1, <2>2, <2>3, <1>n, <1>e
    DEF repo, archive, walkVars, NumberTypes, NumbersUnique, PendingAbove, CountersAhead
<1>3. CASE SkipEpoch
  <2>1. /\ run = "epochs" /\ epoch <= Newest /\ epoch' = epoch + 1
        /\ UNCHANGED <<repo, archive, pending, run, position, walkVars>>
    BY <1>3 DEF SkipEpoch
  <2>2. epoch' \in 1 .. MaxEpochs + 1
    BY <2>1, NewestBound, InboxAssumption DEF NumberTypes
  <2> QED
    BY <2>1, <2>2
    DEF repo, archive, walkVars, NumberTypes, NumbersUnique, PendingAbove, CountersAhead
<1>4. CASE EnterEpoch
  <2>1. /\ run = "epochs" /\ epoch <= Newest /\ run' = "walk"
        /\ processedNew' = 0 /\ commitCount' = 0 /\ nextNum' = position + 1
        /\ at' = size[epoch]
        /\ UNCHANGED <<repo, archive, pending, epoch, position>>
    BY <1>4 DEF EnterEpoch
  <2>2. epoch \in EpochIds
    BY <2>1, NewestBound, InboxAssumption DEF NumberTypes, EpochIds
  <2>3. at' \in 0 .. MaxCommits
    BY <2>1, <2>2 DEF NumberTypes
  <2> QED
    BY <2>1, <2>2, <2>3, <1>n
    DEF repo, archive, NumberTypes, NumbersUnique, PendingAbove, CountersAhead
<1>5. CASE FinishRun \/ StopRun
  <2>1. /\ CommitPending /\ run' = "idle"
        /\ UNCHANGED <<repo, position, walkVars>>
    BY <1>5 DEF FinishRun, StopRun
  <2>2. /\ stored' \subseteq Identifiers
        /\ progress' \in Identifiers \cup {NoProgress}
        /\ pending' = <<>>
        /\ NumbersUnique'
    BY <2>1, CommitKeepsNumbers
  <2> QED
    BY <2>1, <2>2, <1>e DEF repo, walkVars, NumberTypes, PendingAbove, CountersAhead
<1>6. CASE Crash
  <2>1. /\ pending' = <<>> /\ run' = "idle"
        /\ UNCHANGED <<repo, archive, position, walkVars>>
    BY <1>6 DEF Crash
  <2> QED
    BY <2>1, <1>e
    DEF repo, archive, walkVars, NumberTypes, NumbersUnique, PendingAbove, CountersAhead
<1>7. CASE ReachResume \/ PassOld
  <2>1. /\ run = "walk" /\ at > 0 /\ at' \in {at - 1, 0}
        /\ commitCount' \in {commitCount, commitCount + 1}
        /\ UNCHANGED <<repo, archive, pending, run, epoch, position, processedNew, nextNum>>
    BY <1>7 DEF ReachResume, PassOld
  <2>2. at' \in 0 .. MaxCommits
    BY <2>1, InboxAssumption DEF NumberTypes
  <2> QED
    BY <2>1, <2>2
    DEF repo, archive, NumberTypes, NumbersUnique, PendingAbove, CountersAhead
<1>8. CASE ProcessCommit
  <2>1. /\ run = "walk" /\ at > 0 /\ at' = at - 1 /\ commitCount' = commitCount + 1
        /\ processedNew' = processedNew + 1 /\ nextNum' = nextNum + 1
        /\ UNCHANGED <<repo, run, epoch, position>>
    BY <1>8 DEF ProcessCommit
  <2>2. epoch \in EpochIds /\ at \in 1 .. MaxCommits /\ at' \in 0 .. MaxCommits
    BY <2>1, InboxAssumption DEF NumberTypes
  <2> DEFINE id == Identifier(nextNum, epoch, at)
  <2>3. id \in Identifiers /\ id.num = nextNum /\ nextNum \in Nat
    BY <2>2, NumberOfIdentifier DEF NumberTypes
  <2>4. progress.num < nextNum /\ \A i \in DOMAIN pending : pending[i].num < nextNum
    BY <2>1 DEF CountersAhead
  <2>5. CASE <<epoch, at>> \in Broken
    <3>1. UNCHANGED <<stored, progress, pending>>
      BY <1>8, <2>5 DEF ProcessCommit
    <3> QED
      BY <3>1, <2>1, <2>2, <2>4, <1>n
      DEF repo, NumberTypes, NumbersUnique, PendingAbove, CountersAhead
  <2>6. CASE <<epoch, at>> \notin Broken
    <3>1. Archive(id)
      BY <1>8, <2>6 DEF ProcessCommit
    <3> HIDE DEF id
    <3>2. /\ stored' \subseteq Identifiers
          /\ progress' \in Identifiers \cup {NoProgress}
          /\ pending' \in Seq(Identifiers)
          /\ NumbersUnique'
          /\ progress'.num <= nextNum
          /\ \A i \in DOMAIN pending' :
                progress'.num < pending'[i].num /\ pending'[i].num <= nextNum
          /\ \A i, j \in DOMAIN pending' : i < j => pending'[i].num < pending'[j].num
      BY <3>1, <2>3, <2>4, ArchiveKeepsNumbers
    <3>3. NumberTypes'
      BY <3>2, <2>1, <2>2 DEF repo, NumberTypes
    <3>4. /\ progress'.num \in Nat
          /\ \A i \in DOMAIN pending' : pending'[i].num \in Nat
      <4>1. NoProgress.num = 0
        BY DEF NoProgress, Identifier
      <4>2. \A i \in DOMAIN pending' : pending'[i] \in Identifiers
        BY <3>2, ElementOfSeq
      <4> QED
        BY <3>2, <4>1, <4>2 DEF Identifiers
    <3>5. PendingAbove'
      BY <3>2, <2>1 DEF PendingAbove
    <3>6. CountersAhead'
      <4>1. /\ processedNew <= commitCount /\ processedNew \in Nat /\ commitCount \in Nat
            /\ nextNum = position + 1 + processedNew /\ position \in Nat
        BY <2>1 DEF CountersAhead, NumberTypes
      <4>2. /\ processedNew' <= commitCount'
            /\ nextNum' = position' + 1 + processedNew'
        BY <4>1, <2>1
      <4>3. /\ progress'.num < nextNum'
            /\ \A i \in DOMAIN pending' : pending'[i].num < nextNum'
        BY <3>2, <3>4, <2>1, <2>3
      <4> QED
        BY <4>2, <4>3, <2>1 DEF CountersAhead
    <3> QED
      BY <3>2, <3>3, <3>5, <3>6
  <2> QED
    BY <2>5, <2>6
<1>9. CASE LeaveEpoch
  <2>1. /\ run = "walk" /\ run' = "epochs" /\ epoch' = epoch + 1
        /\ position' = position + commitCount
        /\ UNCHANGED <<repo, archive, pending, walkVars>>
    BY <1>9 DEF LeaveEpoch
  <2>2. epoch' \in 1 .. MaxEpochs + 1
    BY <2>1, InboxAssumption DEF NumberTypes, EpochIds
  <2>3. nextNum <= position' + 1 /\ position' \in Nat /\ nextNum \in Nat
    BY <2>1 DEF NumberTypes, CountersAhead
  <2> QED
    BY <2>1, <2>2, <2>3, <1>n
    DEF repo, archive, walkVars, NumberTypes, NumbersUnique, PendingAbove, CountersAhead
<1>10. CASE UNCHANGED vars
  BY <1>10 DEF vars, repo, archive, runVars, walkVars, NumberTypes, NumbersUnique,
               PendingAbove, CountersAhead
<1> QED
  BY <1>1, <1>2, <1>3, <1>4, <1>5, <1>6, <1>7, <1>8, <1>9, <1>10 DEF Next

LEMMA NumberInit == Init => NumberInv
<1> SUFFICES ASSUME Init PROVE NumberInv
  OBVIOUS
<1>1. NoProgress.num = 0
  BY DEF NoProgress, Identifier
<1>2. DOMAIN pending = {} /\ pending \in Seq(Identifiers)
  BY EmptySeq DEF Init
<1> QED
  BY <1>1, <1>2
  DEF Init, NumberInv, NumberTypes, NumbersUnique, PendingAbove, CountersAhead

\* No two archived e-mails of a list ever get the same number, and the progress
\* has the largest: over epochs, broken commits, stops, kills and the runs that
\* resume after them.
THEOREM UniqueNumbers == Spec => []NumbersUnique
<1>1. NumberInv => NumbersUnique
  BY DEF NumberInv
<1> QED
  BY NumberInit, NumberStep, <1>1, PTL DEF Spec

-----------------------------------------------------------------------------
(***************************************************************************)
(* Types.  The ones left are inductive with the fact that what the archive *)
(* names exists: epochs only grow, so a resume point is a commit of the    *)
(* epoch it is looked for in, and what is newer can be counted.            *)
(***************************************************************************)
RestTypes ==
    /\ errors \subseteq Broken
    /\ epoch \in 0 .. MaxEpochs + 1
    /\ resume \in 0 .. MaxCommits /\ at \in 0 .. MaxCommits
    /\ cumulative \in Nat /\ beforeResume \in Nat /\ newCommits \in Nat /\ runs \in Nat
    /\ seen \in [EpochIds -> 0 .. MaxCommits]
    /\ outcome \in {"none", "complete", "stopped"}
    /\ plain \in BOOLEAN

Exists(id) == id.age <= size[id.epoch]

Sized ==
    /\ Newest >= 1
    /\ \A e \in EpochIds : size[e] > 0 <=> e <= Newest
    /\ \A e \in EpochIds : seen[e] <= size[e]
    /\ progress = NoProgress \/ Exists(progress)
    /\ \A i \in DOMAIN pending : Exists(pending[i])
    /\ run # "idle" /\ resume # 0 => epoch \in EpochIds /\ resume <= size[epoch]
    /\ run = "walk" => at <= size[epoch]

TypesInv == NumberInv /\ RestTypes /\ Sized

\* The commits of some epochs can be counted, and there are none before the
\* first epoch.
LEMMA CommitsCounted ==
    ASSUME size \in [EpochIds -> 0 .. MaxCommits], NEW e \in Nat, e <= MaxEpochs + 1
    PROVE  CommitsBefore(e) \in Nat /\ CommitsBefore(1) = 0
<1> DEFINE upTo == CHOOSE f : f = [i \in 0 .. MaxEpochs |->
                                     IF i = 0 THEN 0 ELSE f[i - 1] + size[i]]
<1>1. MaxEpochs \in Nat /\ size \in [1 .. MaxEpochs -> Nat]
  BY InboxAssumption DEF EpochIds
<1>2. \E f : f = [i \in 0 .. MaxEpochs |-> IF i = 0 THEN 0 ELSE f[i - 1] + size[i]]
  <2>1. \E f \in [0 .. MaxEpochs -> Nat] :
           f = [i \in 0 .. MaxEpochs |-> IF i = 0 THEN 0 ELSE f[i - 1] + size[i]]
    BY <1>1, PrefixSumsExist, Zenon
  <2> QED BY <2>1, Zenon
<1>3. upTo = [i \in 0 .. MaxEpochs |-> IF i = 0 THEN 0 ELSE upTo[i - 1] + size[i]]
  BY <1>2
<1>4. \A x : CommitsBefore(x) = upTo[Minus(x, 1)]
  BY DEF CommitsBefore
<1> HIDE DEF upTo
<1> DEFINE T == {n \in Nat : n <= MaxEpochs => upTo[n] \in Nat}
<1>5. 0 \in T
  BY <1>1, <1>3
<1>6. ASSUME NEW n \in Nat, n \in T PROVE n + 1 \in T
  BY <1>1, <1>3, <1>6, SMTT(60)
<1>7. Nat \subseteq T
  <2> HIDE DEF T
  <2> QED BY <1>5, <1>6, SetInduction
<1>8. Minus(e, 1) \in 0 .. MaxEpochs /\ Minus(1, 1) = 0
  BY <1>1 DEF Minus
<1>9. upTo[0] = 0
  BY <1>1, <1>3
<1> QED BY <1>4, <1>7, <1>8, <1>9

\* The epochs a list has are the first ones, up to the newest.
LEMMA FirstEpochs ==
    ASSUME NEW n \in EpochIds, NEW f, \A e \in EpochIds : f[e] > 0 <=> e <= n
    PROVE  Cardinality({e \in EpochIds : f[e] > 0}) = n
<1>1. {e \in EpochIds : f[e] > 0} = 1 .. n
  BY InboxAssumption DEF EpochIds
<1>2. n \in Nat /\ n >= 1
  BY InboxAssumption DEF EpochIds
<1>3. Cardinality(1 .. n) = n
  BY <1>2, FS_Interval
<1> QED BY <1>1, <1>3, Zenon

\* A mirror that is updated has at least the commits it had.
LEMMA EpochsGrow ==
    ASSUME size \in [EpochIds -> 0 .. MaxCommits], Sized, Push \/ NewEpoch
    PROVE  /\ size' \in [EpochIds -> 0 .. MaxCommits]
           /\ \A e \in EpochIds : size[e] <= size'[e]
           /\ Newest' >= 1 /\ \A e \in EpochIds : size'[e] > 0 <=> e <= Newest'
<1>0. MaxCommits \in Nat /\ MaxEpochs \in Nat /\ Newest \in 1 .. MaxEpochs
  BY InboxAssumption, NewestBound DEF Sized
<1>1. CASE Push
  <2>1. PICK k \in 1 .. MaxCommits : /\ size[Newest] + k <= MaxCommits
                                    /\ size' = [size EXCEPT ![Newest] = @ + k]
    BY <1>1 DEF Push
  <2>2. \A e \in EpochIds : size'[e] = IF e = Newest THEN size[e] + k ELSE size[e]
    BY <2>1
  <2>3. size' \in [EpochIds -> 0 .. MaxCommits]
    BY <1>0, <2>1 DEF EpochIds
  <2>4. \A e \in EpochIds : size[e] <= size'[e] /\ (size'[e] > 0 <=> e <= Newest)
    BY <1>0, <2>2 DEF Sized, EpochIds
  <2>5. Existing' = Existing
    BY <2>4 DEF Existing, Sized
  <2> QED BY <1>0, <2>3, <2>4, <2>5 DEF Newest
<1>2. CASE NewEpoch
  <2>1. PICK k \in 1 .. MaxCommits : size' = [size EXCEPT ![Newest + 1] = k]
    BY <1>2 DEF NewEpoch
  <2>2. Newest + 1 \in EpochIds
    BY <1>0, <1>2 DEF NewEpoch, EpochIds
  <2>3. \A e \in EpochIds : size'[e] = IF e = Newest + 1 THEN k ELSE size[e]
    BY <2>1
  <2>4. size' \in [EpochIds -> 0 .. MaxCommits]
    <3>1. k \in 0 .. MaxCommits
      BY <1>0
    <3> QED BY <2>1, <3>1
  <2>5. \A e \in EpochIds : size[e] <= size'[e] /\ (size'[e] > 0 <=> e <= Newest + 1)
    BY <1>0, <2>2, <2>3 DEF Sized, EpochIds
  <2>6. Newest' = Newest + 1
    BY <2>2, <2>5, FirstEpochs DEF Newest, Existing
  <2> QED BY <1>0, <2>4, <2>5, <2>6
<1> QED BY <1>1, <1>2

\* Identifiers of the archive exist, and go on existing.
LEMMA ExistsMore ==
    ASSUME NEW id \in Identifiers, Exists(id), size \in [EpochIds -> 0 .. MaxCommits],
           size' \in [EpochIds -> 0 .. MaxCommits],
           \A e \in EpochIds : size[e] <= size'[e]
    PROVE  Exists(id)'
<1>1. id.epoch \in EpochIds /\ id.age \in Nat /\ MaxCommits \in Nat
  BY InboxAssumption DEF Identifiers
<1>2. size[id.epoch] \in Nat /\ size'[id.epoch] \in Nat /\ size[id.epoch] <= size'[id.epoch]
  BY <1>1
<1> QED BY <1>1, <1>2 DEF Exists

\* What newCommits is computed from exists, and so it is a number.
LEMMA TypesStep ==
    ASSUME TypesInv, [Next]_vars
    PROVE  TypesInv'
<1> USE DEF TypesInv, RestTypes
<1>0. /\ NumberInv' /\ MaxEpochs \in Nat /\ MaxCommits \in Nat
      /\ size \in [EpochIds -> 0 .. MaxCommits] /\ size' \in [EpochIds -> 0 .. MaxCommits]
      /\ run = "epochs" => epoch \in 1 .. MaxEpochs + 1
      /\ run = "walk" => epoch \in EpochIds
      /\ position \in Nat
      /\ \A i \in DOMAIN pending : pending[i] \in Identifiers
  BY NumberStep, NumbersAreNatural, InboxAssumption DEF NumberInv, NumberTypes
<1>p. /\ run = "idle" => pending = <<>>
      /\ progress \in Identifiers \cup {NoProgress}
  BY DEF NumberInv, NumberTypes, PendingAbove
<1>n. Newest \in 1 .. MaxEpochs
  BY <1>0, NewestBound DEF Sized
<1>e. DOMAIN <<>> = {}
  OBVIOUS
<1>s. UNCHANGED repo => UNCHANGED <<size, Newest>>
  BY DEF repo, Newest, Existing
<1>1. CASE Push \/ NewEpoch
  <2>1. /\ UNCHANGED <<archive, runVars, history>> /\ run = "idle"
    BY <1>1 DEF Push, NewEpoch
  <2>2. \A e \in EpochIds : seen[e] <= size'[e]
    BY <1>0, <1>1, EpochsGrow DEF Sized
  <2>3. progress = NoProgress \/ Exists(progress)'
    <3>1. progress' = progress
      BY <2>1 DEF archive
    <3>2. ASSUME NEW id \in Identifiers, Exists(id) PROVE Exists(id)'
      BY <1>0, <1>1, <3>2, EpochsGrow, ExistsMore
    <3> QED BY <1>p, <3>1, <3>2 DEF Sized, Exists
  <2> QED BY <1>0, <1>1, <1>e, <1>p, <2>1, <2>2, <2>3, EpochsGrow
          DEF Sized, Exists, archive, runVars, walkVars, history
<1>2. CASE StartRun
  <2>1. /\ run = "idle" /\ run' = "epochs"
        /\ epoch' = IF progress = NoProgress THEN 1 ELSE progress.epoch
        /\ resume' = progress.age /\ cumulative' = CommitsBefore(epoch')
        /\ runs' = runs + 1 /\ seen' = size
        /\ UNCHANGED <<repo, archive, pending, walkVars, outcome>>
    BY <1>2 DEF StartRun
  <2>2. plain' \in BOOLEAN
    BY <1>2, Zenon DEF StartRun
  <2>3. /\ progress # NoProgress => epoch' \in EpochIds /\ resume' \in 1 .. MaxCommits
        /\ progress = NoProgress => epoch' = 1 /\ resume' = 0
    BY <2>1, <1>p DEF Identifiers, NoProgress, Identifier
  <2>4. cumulative' \in Nat
    BY <1>0, <2>1, <2>3, CommitsCounted DEF EpochIds
  <2>5. Sized'
    <3>1. UNCHANGED <<size, Newest, progress, pending>> /\ seen' = size
      BY <1>s, <2>1 DEF archive, repo
    <3>2. \A e \in EpochIds : seen'[e] <= size'[e]
      BY <1>0, <3>1
    <3>3. resume' # 0 => epoch' \in EpochIds /\ resume' <= size'[epoch']
      BY <2>1, <2>3, <3>1 DEF Sized, Exists
    <3> QED BY <2>1, <3>1, <3>2, <3>3 DEF Sized, Exists
  <2>6. /\ errors' \subseteq Broken /\ at' \in 0 .. MaxCommits
        /\ UNCHANGED <<beforeResume, newCommits, outcome>>
    BY <2>1 DEF archive, walkVars
  <2>7. /\ epoch' \in 0 .. MaxEpochs + 1 /\ resume' \in 0 .. MaxCommits
        /\ runs' \in Nat /\ seen' \in [EpochIds -> 0 .. MaxCommits]
    <3>1. epoch' \in 0 .. MaxEpochs + 1 /\ resume' \in 0 .. MaxCommits
      BY <1>0, <2>3 DEF EpochIds
    <3>2. runs' \in Nat
      BY <2>1
    <3>3. seen' \in [EpochIds -> 0 .. MaxCommits]
      BY <1>0, <2>1
    <3> QED BY <3>1, <3>2, <3>3
  <2> QED BY <1>0, <2>2, <2>4, <2>5, <2>6, <2>7
<1>3. CASE SkipEpoch
  <2>1. /\ run = "epochs" /\ epoch \in EpochIds /\ epoch' = epoch + 1 /\ resume' = 0
        /\ cumulative' = cumulative + size[epoch] /\ run' = "epochs"
        /\ UNCHANGED <<repo, archive, pending, walkVars, history>>
    BY <1>0, <1>3, <1>n DEF SkipEpoch, EpochIds
  <2>2. UNCHANGED <<size, Newest, seen, progress, pending>>
    BY <1>s, <2>1 DEF repo, archive, history
  <2>3. Sized'
    BY <2>1, <2>2 DEF Sized, Exists
  <2>4. RestTypes'
    BY <1>0, <2>1, SMTT(60) DEF archive, walkVars, history, EpochIds
  <2> QED BY <1>0, <2>3, <2>4
<1>4. CASE EnterEpoch
  <2>1. /\ run = "epochs" /\ epoch \in EpochIds /\ at' = size[epoch] /\ run' = "walk"
        /\ cumulative' = cumulative + size[epoch]
        /\ beforeResume' = IF resume = 0 THEN size[epoch] ELSE size[epoch] - resume
        /\ newCommits' = NewCommits(beforeResume')
        /\ UNCHANGED <<repo, archive, pending, epoch, resume, history>>
    BY <1>0, <1>4, <1>n DEF EnterEpoch, EpochIds
  <2>2. beforeResume' \in Nat
    BY <1>0, <2>1 DEF Sized
  <2>3. newCommits' \in Nat
    BY <1>0, <2>1, <2>2 DEF NewCommits, Minus
  <2> QED BY <1>0, <1>s, <2>1, <2>2, <2>3 DEF Sized, Exists, repo, archive, history
<1>5. CASE FinishRun \/ StopRun
  <2>1. /\ CommitPending /\ run' = "idle" /\ outcome' \in {"complete", "stopped"}
        /\ UNCHANGED <<repo, errors, epoch, resume, cumulative, walkVars, runs, seen, plain>>
    BY <1>5 DEF FinishRun, StopRun
  <2>2. progress' = progress \/ \E i \in DOMAIN pending : progress' = pending[i]
    <3>1. pending \in Seq(Identifiers) /\ (pending = <<>> \/ Len(pending) \in DOMAIN pending)
      BY EmptySeq DEF NumberInv, NumberTypes
    <3> QED BY <2>1, <3>1 DEF CommitPending
  <2>3. pending' = <<>>
    BY <2>1 DEF CommitPending
  <2> QED BY <1>0, <1>e, <1>s, <2>1, <2>2, <2>3 DEF Sized, Exists, repo, walkVars
<1>6. CASE Crash
  BY <1>0, <1>e, <1>s, <1>6 DEF Crash, Sized, Exists, repo, archive, walkVars
<1>7. CASE ReachResume \/ PassOld
  <2>1. /\ run = "walk" /\ at > 0 /\ at' \in {at - 1, 0}
        /\ UNCHANGED <<repo, archive, pending, run, epoch, resume, cumulative,
                       beforeResume, newCommits, history>>
    BY <1>7 DEF ReachResume, PassOld
  <2> QED BY <1>0, <1>s, <2>1 DEF Sized, Exists, repo, archive, history
<1>8. CASE ProcessCommit
  <2>1. /\ run = "walk" /\ at > 0 /\ at' = at - 1
        /\ UNCHANGED <<repo, run, epoch, resume, cumulative, beforeResume, newCommits, history>>
    BY <1>8 DEF ProcessCommit
  <2>2. Exists(Identifier(nextNum, epoch, at))
    BY <1>0, <2>1 DEF Sized, Exists, Identifier
  <2>3. CASE UNCHANGED <<stored, progress, pending>> /\ errors' = errors \cup {<<epoch, at>>}
             /\ <<epoch, at>> \in Broken
    BY <1>0, <1>s, <2>1, <2>3 DEF Sized, Exists, repo, history
  <2>4. ASSUME NEW id, id = Identifier(nextNum, epoch, at), Archive(id), UNCHANGED errors
        PROVE  RestTypes' /\ Sized'
    <3>1. \/ progress' = id /\ pending' = <<>>
          \/ UNCHANGED progress /\ pending' = Append(pending, id)
      BY <2>4 DEF Archive
    <3>2. \A i \in DOMAIN pending' :
             pending'[i] = id \/ \E j \in DOMAIN pending : pending'[i] = pending[j]
      <4>1. pending \in Seq(Identifiers) /\ id \in Identifiers
        BY <1>0, <2>1, <2>4, NumberOfIdentifier DEF NumberInv, NumberTypes
      <4> QED BY <3>1, <4>1, <1>e, AppendProperties
    <3>3. size' = size /\ Newest' = Newest /\ UNCHANGED <<epoch, resume, seen>>
      BY <1>s, <2>1 DEF repo, history
    <3>4. progress' = NoProgress \/ progress'.age <= size'[progress'.epoch]
      BY <2>2, <2>4, <3>1, <3>3 DEF Sized, Exists
    <3>5. \A i \in DOMAIN pending' : pending'[i].age <= size'[pending'[i].epoch]
      BY <2>2, <2>4, <3>2, <3>3 DEF Sized, Exists
    <3>6. run' = "walk" /\ at' <= size'[epoch'] /\ (resume' # 0 => resume' <= size'[epoch'])
      BY <1>0, <2>1, <3>3 DEF Sized
    <3>7. Sized'
      BY <1>0, <2>1, <3>3, <3>4, <3>5, <3>6 DEF Sized, Exists
    <3> QED BY <1>0, <2>1, <2>4, <3>7 DEF history
  <2> QED BY <1>0, <1>8, <2>3, <2>4 DEF ProcessCommit
<1>9. CASE LeaveEpoch
  <2>1. /\ run = "walk" /\ epoch' = epoch + 1 /\ resume' = 0 /\ run' = "epochs"
        /\ UNCHANGED <<repo, archive, pending, cumulative, walkVars, history>>
    BY <1>9 DEF LeaveEpoch
  <2>2. UNCHANGED <<size, Newest, seen, progress, pending>>
    BY <1>s, <2>1 DEF repo, archive, history
  <2>3. Sized'
    BY <2>1, <2>2 DEF Sized, Exists
  <2>4. RestTypes'
    BY <1>0, <2>1 DEF archive, walkVars, history, EpochIds
  <2> QED BY <1>0, <2>3, <2>4
<1>10. CASE UNCHANGED vars
  BY <1>0, <1>10, <1>s DEF vars, Sized, Exists, repo, archive, runVars, walkVars, history
<1> QED
  BY <1>1, <1>2, <1>3, <1>4, <1>5, <1>6, <1>7, <1>8, <1>9, <1>10 DEF Next

LEMMA TypesInit == Init => TypesInv
<1> SUFFICES ASSUME Init PROVE RestTypes /\ Sized
  BY NumberInit DEF TypesInv
<1>0. MaxEpochs \in Nat /\ MaxCommits \in Nat
  BY InboxAssumption
<1>1. RestTypes
  BY <1>0 DEF Init, RestTypes
<1>2. PICK n \in EpochIds : \A e \in EpochIds : size[e] > 0 <=> e <= n
  BY DEF Init
<1>3. Newest = n
  BY <1>2, FirstEpochs DEF Newest, Existing
<1>4. size \in [EpochIds -> 0 .. MaxCommits] /\ n \in Nat /\ n >= 1
  BY <1>0 DEF Init, EpochIds
<1>5. Sized
  BY <1>0, <1>2, <1>3, <1>4 DEF Init, Sized
<1> QED BY <1>1, <1>5

\* The variables keep their types, the progress and the buffered e-mails being
\* commits of the list; counting the commits before an epoch and those newer
\* than the resume point gives numbers, for any epochs, runs, stops and kills.
THEOREM InboxTypes == Spec => []TypeOK
<1>1. TypesInv => TypeOK
  BY InboxAssumption DEF TypesInv, NumberInv, NumberTypes, RestTypes, TypeOK
<1> QED BY TypesInit, TypesStep, <1>1, PTL DEF Spec


-----------------------------------------------------------------------------
(***************************************************************************)
(* A list of one epoch.  A run knows the commits of earlier runs only as   *)
(* the number and the age in its resume point.  Old is what they add up    *)
(* to: the age of the newest commit an earlier run has taken.  The walk    *)
(* goes from HEAD down; what it has passed is taken, and so are the old    *)
(* ones.  While it is above them it has counted every commit it passed,    *)
(* and stops counting just when it comes to them: newCommits is right.     *)
(***************************************************************************)
\* The e-mails of a finished file or of the buffer.
Emails == stored \cup {pending[i] : i \in DOMAIN pending}

Taken(a) == (\E id \in Emails : id.epoch = 1 /\ id.age = a) \/ <<1, a>> \in errors

Count == size[1]
Old   == IF resume = 0 THEN 0 ELSE position + resume - 1

\* As the first run numbers it: from HEAD down.
FirstNum(id) ==
    id.epoch = 1 /\ id.age <= seen[1] /\ id.num = seen[1] - id.age + 1

\* What is true of every run while plain holds.
PlainRuns ==
    /\ \A e \in EpochIds : e # 1 => seen[e] = 0
    /\ runs <= 2
    /\ run # "idle" => runs >= 1 /\ seen = size /\ Newest = 1
    /\ runs = 0 => /\ progress = NoProgress /\ stored = {} /\ errors = {}
                   /\ outcome = "none"

FirstRun ==
    runs = 1 => /\ progress = NoProgress \/ FirstNum(progress)
                /\ \A id \in Emails : FirstNum(id)
                /\ run # "idle" => resume = 0

\* A run before its epoch, after it, and when it is over.
AroundEpoch ==
    /\ run = "epochs" /\ epoch = 1 =>
          /\ pending = <<>> /\ cumulative = 0
          /\ resume = 0 => position = 0
          /\ resume # 0 => position > 0 /\ Old <= Count /\ Count # Old + 1
          /\ \A a \in 1 .. Old : Taken(a)
    /\ run = "epochs" /\ epoch # 1 => \A a \in 1 .. Count : Taken(a)
    /\ run = "idle" /\ outcome = "complete" => \A a \in 1 .. seen[1] : Taken(a)

InEpoch ==
    run = "walk" =>
        /\ epoch = 1
        /\ IF resume = 0 THEN position = 0 ELSE position > 0
        /\ \A a \in 1 .. Count : a > at \/ a <= Old => Taken(a)
        /\ at > Old => processedNew = Count - at /\ newCommits = Count - Old

Plain == plain => PlainRuns /\ FirstRun /\ AroundEpoch /\ InEpoch

\* No commit twice: the walk archives above the old ones only.
Distinct ==
    /\ \A i, j \in Emails : i.age = j.age => i = j
    /\ \A i \in Emails : i.epoch = 1

NoneTwice ==
    /\ Distinct
    /\ run # "idle" => resume \in {0, 1}
    /\ run = "epochs" /\ epoch = 1 => \A id \in Emails : id.age <= Old
    /\ run = "walk" => /\ \A id \in Emails : id.age > at \/ id.age <= Old
                       /\ resume # 0 => beforeResume > 0
                       /\ at <= Old => processedNew >= newCommits

Once == plain /\ <<1, 1>> \notin Broken => NoneTwice

PlainInv == TypesInv /\ Plain /\ Once

\* What the invariants say of the types of a plain run.
LEMMA PlainTypes ==
    ASSUME TypesInv
    PROVE  /\ size \in [EpochIds -> 0 .. MaxCommits] /\ seen \in [EpochIds -> 0 .. MaxCommits]
           /\ 1 \in EpochIds /\ Count \in Nat /\ Count >= 1 /\ seen[1] \in Nat
           /\ seen[1] <= Count
           /\ position \in Nat /\ resume \in Nat /\ at \in Nat /\ Old \in Nat
           /\ processedNew \in Nat /\ newCommits \in Nat /\ beforeResume \in Nat
           /\ epoch \in Nat /\ runs \in Nat /\ cumulative \in Nat
           /\ Emails \subseteq Identifiers
           /\ \A id \in Identifiers : id.age \in Nat /\ id.age >= 1 /\ id.num \in Nat
           /\ run = "idle" => pending = <<>>
           /\ progress \in Identifiers \cup {NoProgress}
<1>1. /\ MaxEpochs \in Nat /\ MaxCommits \in Nat /\ 1 \in EpochIds
  BY InboxAssumption DEF EpochIds
<1>2. /\ size \in [EpochIds -> 0 .. MaxCommits] /\ stored \subseteq Identifiers
      /\ \A i \in DOMAIN pending : pending[i] \in Identifiers
      /\ progress \in Identifiers \cup {NoProgress}
      /\ position \in Nat /\ processedNew \in Nat
  BY NumbersAreNatural DEF TypesInv, NumberInv, NumberTypes
<1>3. /\ seen \in [EpochIds -> 0 .. MaxCommits] /\ resume \in Nat /\ at \in Nat
      /\ newCommits \in Nat /\ beforeResume \in Nat /\ runs \in Nat /\ epoch \in Nat
      /\ cumulative \in Nat
  BY <1>1 DEF TypesInv, RestTypes
<1>4. Count \in Nat /\ Count >= 1 /\ seen[1] \in Nat /\ seen[1] <= Count
  BY <1>1, <1>2, <1>3 DEF Count, TypesInv, Sized
<1>5. Old \in Nat
  BY <1>2, <1>3 DEF Old
<1>6. \A id \in Identifiers : id.age \in Nat /\ id.age >= 1 /\ id.num \in Nat
  BY <1>1 DEF Identifiers
<1>7. run = "idle" => pending = <<>>
  BY DEF TypesInv, NumberInv, PendingAbove
<1> QED BY <1>1, <1>2, <1>3, <1>4, <1>5, <1>6, <1>7 DEF Emails

\* A list with one epoch has no other.
LEMMA OneEpoch ==
    ASSUME TypesInv, Newest = 1
    PROVE  \A e \in EpochIds : e # 1 => size[e] = 0
<1>1. \A e \in EpochIds : size[e] > 0 <=> e <= 1
  BY DEF TypesInv, Sized
<1>2. ASSUME NEW e \in EpochIds, e # 1 PROVE size[e] = 0
  <2>1. ~(e <= 1)
    BY <1>2, InboxAssumption DEF EpochIds
  <2>2. size[e] \in 0 .. MaxCommits /\ MaxCommits \in Nat
    BY PlainTypes, InboxAssumption
  <2> QED BY <1>1, <2>1, <2>2
<1> QED BY <1>2

\* Committing leaves the e-mails what they are.
LEMMA EmailsCommitted ==
    ASSUME TypesInv, CommitPending
    PROVE  /\ Emails' = Emails /\ stored' = Emails
           /\ progress' = progress \/ progress' \in Emails
<1>1. /\ stored' = Emails /\ pending' = <<>>
      /\ progress' = IF pending = <<>> THEN progress ELSE pending[Len(pending)]
  BY DEF CommitPending, Emails
<1>2. pending = <<>> \/ Len(pending) \in DOMAIN pending
  BY EmptySeq DEF TypesInv, NumberInv, NumberTypes
<1>3. DOMAIN pending' = {}
  BY <1>1
<1> QED BY <1>1, <1>2, <1>3 DEF Emails

\* archive_email adds one, wherever it puts it.
LEMMA EmailsArchived ==
    ASSUME TypesInv, NEW id \in Identifiers, Archive(id)
    PROVE  /\ Emails' = Emails \cup {id}
           /\ progress' = progress \/ progress' = id
<1>0. pending \in Seq(Identifiers)
  BY DEF TypesInv, NumberInv, NumberTypes
<1>1. CASE Len(pending) + 1 >= BatchSize
  <2>1. /\ stored' = Emails \cup {id} /\ progress' = id /\ pending' = <<>>
    BY <1>1 DEF Archive, Emails
  <2>2. DOMAIN pending' = {}
    BY <2>1
  <2> QED BY <2>1, <2>2 DEF Emails
<1>2. CASE ~(Len(pending) + 1 >= BatchSize)
  <2>1. pending' = Append(pending, id) /\ stored' = stored /\ progress' = progress
    BY <1>2 DEF Archive
  <2>2. /\ DOMAIN pending' = 1 .. Len(pending) + 1 /\ DOMAIN pending = 1 .. Len(pending)
        /\ \A i \in 1 .. Len(pending) : pending'[i] = pending[i]
        /\ pending'[Len(pending) + 1] = id /\ Len(pending) \in Nat
    BY <1>0, <2>1, AppendProperties
  <2>3. {pending'[i] : i \in DOMAIN pending'} = {pending[i] : i \in DOMAIN pending} \cup {id}
    BY <2>2
  <2> QED BY <2>1, <2>3 DEF Emails
<1> QED BY <1>1, <1>2

\* The first run finishes with all commits taken, and the progress says how
\* many those are: the resume point of the next run.
LEMMA PlainStart ==
    ASSUME PlainInv, StartRun, plain'
    PROVE  PlainRuns' /\ FirstRun' /\ AroundEpoch' /\ InEpoch'
<1> USE DEF PlainInv
<1>1. /\ run = "idle" /\ run' = "epochs" /\ Newest = 1 /\ runs' = runs + 1
      /\ epoch' = IF progress = NoProgress THEN 1 ELSE progress.epoch
      /\ resume' = progress.age /\ position' = progress.num
      /\ cumulative' = CommitsBefore(epoch') /\ seen' = size
      /\ UNCHANGED <<size, stored, errors, progress, pending, outcome>>
      /\ runs = 0 \/ (runs = 1 /\ outcome = "complete" /\ Count # seen[1] + 1)
  BY DEF StartRun, repo, archive, Count
<1>2. plain
  BY DEF StartRun
<1>3. PlainRuns /\ FirstRun /\ AroundEpoch
  BY <1>2 DEF Plain
<1>4. pending = <<>> /\ Emails' = Emails /\ Newest' = 1
  BY <1>1, PlainTypes DEF Emails, Newest, Existing
<1>5. PlainRuns'
  <2>1. \A e \in EpochIds : e # 1 => seen'[e] = 0
    BY <1>1, OneEpoch
  <2> QED BY <1>1, <1>4, <2>1, PlainTypes, SMTT(30) DEF PlainRuns
<1>6. /\ progress = NoProgress => epoch' = 1 /\ resume' = 0 /\ position' = 0
      /\ progress # NoProgress => /\ resume' # 0 /\ runs = 1 /\ epoch' = 1
                                  /\ FirstNum(progress)
  BY <1>1, <1>3, PlainTypes, SMTT(30) DEF NoProgress, Identifier, PlainRuns, FirstRun, FirstNum
<1>7. epoch' = 1 /\ cumulative' = 0
  <2>1. CommitsBefore(1) = 0
    <3>1. 1 \in Nat /\ 1 <= MaxEpochs + 1
      BY InboxAssumption
    <3> QED BY <3>1, PlainTypes, CommitsCounted
  <2> QED BY <1>1, <1>6, <2>1
<1>8. FirstRun'
  <2>1. CASE runs = 0
    <3>1. progress' = NoProgress /\ Emails' = {}
      BY <1>1, <1>3, <1>4, <2>1 DEF PlainRuns, Emails
    <3> QED BY <1>6, <2>1, <3>1, <1>1 DEF FirstRun, PlainRuns
  <2>2. CASE runs = 1
    BY <1>1, <2>2 DEF FirstRun
  <2> QED BY <1>1, <2>1, <2>2
<1>9. AroundEpoch'
  <2>1. CASE progress = NoProgress
    <3>1. Old' = 0
      BY <1>6, <2>1 DEF Old
    <3> QED BY <1>1, <1>4, <1>6, <1>7, <2>1, <3>1 DEF AroundEpoch
  <2>2. CASE progress # NoProgress
    <3>1. /\ progress.age \in Nat /\ progress.age >= 1 /\ progress.num \in Nat
          /\ progress.num = seen[1] - progress.age + 1 /\ progress.age <= seen[1]
      BY <1>6, <2>2, PlainTypes DEF FirstNum
    <3>2. Old' = seen[1] /\ position' > 0
      <4>1. resume' = progress.age /\ position' = progress.num
        BY <1>1
      <4>2. Old' = IF resume' = 0 THEN 0 ELSE position' + resume' - 1
        BY DEF Old
      <4>3. seen[1] \in Nat
        BY PlainTypes
      <4>4. resume' # 0 /\ position' = seen[1] - resume' + 1 /\ resume' <= seen[1]
            /\ resume' \in Nat
        BY <3>1, <4>1
      <4> QED BY <4>2, <4>3, <4>4
    <3>3. Count' = Count /\ Old' <= Count' /\ Count' # Old' + 1
      BY <1>1, <1>6, <2>2, <3>2, PlainTypes DEF Count
    <3>4. \A a \in 1 .. Old' : Taken(a)'
      <4>1. \A a : Taken(a) => Taken(a)'
        BY <1>1, <1>4 DEF Taken
      <4>2. \A a \in 1 .. seen[1] : Taken(a)
        BY <1>1, <1>3, <1>6, <2>2 DEF AroundEpoch
      <4> QED BY <3>2, <4>1, <4>2
    <3> QED BY <1>1, <1>4, <1>6, <1>7, <2>2, <3>2, <3>3, <3>4 DEF AroundEpoch
  <2> QED BY <2>1, <2>2
<1>10. InEpoch'
  BY <1>1 DEF InEpoch
<1> QED BY <1>5, <1>8, <1>9, <1>10

\* The walk's steps that leave the e-mails alone keep what they leave alone.
LEMMA PlainSame ==
    ASSUME PlainInv, plain,
           UNCHANGED <<size, stored, errors, progress, pending, runs, seen, outcome,
                       plain, resume, position>>
    PROVE  /\ Emails' = Emails /\ Count' = Count /\ Old' = Old /\ Newest' = Newest
           /\ \A a : Taken(a)' <=> Taken(a)
           /\ run # "idle" \/ run' = "idle" => PlainRuns' /\ FirstRun'
<1>1. Emails' = Emails /\ Count' = Count /\ Old' = Old /\ Newest' = Newest
  BY DEF Emails, Count, Old, Newest, Existing
<1>2. \A a : Taken(a)' <=> Taken(a)
  BY <1>1 DEF Taken
<1>3. PlainRuns /\ FirstRun
  BY DEF PlainInv, Plain
<1>4. run # "idle" \/ run' = "idle" => PlainRuns'
  BY <1>1, <1>3 DEF PlainRuns
<1>5. run # "idle" \/ run' = "idle" => FirstRun'
  BY <1>1, <1>3 DEF FirstRun, FirstNum
<1> QED BY <1>1, <1>2, <1>4, <1>5

\* An epoch is skipped only when the resume point is past all of it.
LEMMA PlainSkip ==
    ASSUME PlainInv, SkipEpoch, plain
    PROVE  PlainRuns' /\ FirstRun' /\ AroundEpoch' /\ InEpoch'
<1>1. /\ run = "epochs" /\ run' = "epochs" /\ epoch <= Newest
      /\ position >= cumulative + size[epoch] /\ epoch' = epoch + 1 /\ resume' = 0
      /\ UNCHANGED <<size, stored, errors, progress, pending, position, runs, seen,
                     outcome, plain>>
  BY DEF SkipEpoch, repo, archive, history
<1>2. PlainRuns /\ FirstRun /\ AroundEpoch /\ TypesInv
  BY DEF PlainInv, Plain
<1>3. epoch = 1
  <2>1. epoch \in 1 .. MaxEpochs + 1 /\ Newest = 1
    BY <1>1, <1>2 DEF TypesInv, NumberInv, NumberTypes, PlainRuns
  <2> QED BY <1>1, <2>1, InboxAssumption
<1>4. Count <= Old /\ Count \in Nat /\ Old \in Nat
  <2>1. cumulative = 0 /\ (resume = 0 => position = 0) /\ position >= 0 + Count
    BY <1>1, <1>2, <1>3, PlainTypes DEF AroundEpoch, Count
  <2>2. Count \in Nat /\ Count >= 1 /\ position \in Nat /\ resume \in Nat /\ Old \in Nat
    BY <1>2, PlainTypes
  <2> QED BY <2>1, <2>2 DEF Old
<1>5. \A a \in 1 .. Count : Taken(a)
  BY <1>1, <1>2, <1>3, <1>4 DEF AroundEpoch
<1>6. Emails' = Emails /\ Count' = Count /\ Newest' = Newest
  BY <1>1 DEF Emails, Count, Newest, Existing
<1>7. \A a : Taken(a) => Taken(a)'
  BY <1>1, <1>6 DEF Taken
<1>8. PlainRuns'
  BY <1>1, <1>2, <1>6 DEF PlainRuns
<1>9. FirstRun'
  BY <1>1, <1>2, <1>6 DEF FirstRun, FirstNum
<1>10. epoch' # 1
  BY <1>1, <1>3
<1>11. AroundEpoch'
  BY <1>1, <1>5, <1>6, <1>7, <1>10 DEF AroundEpoch
<1> QED BY <1>1, <1>8, <1>9, <1>11 DEF InEpoch

\* newCommits is right: the commits above the old ones.
LEMMA PlainEnter ==
    ASSUME PlainInv, EnterEpoch, plain
    PROVE  PlainRuns' /\ FirstRun' /\ AroundEpoch' /\ InEpoch'
<1>1. /\ run = "epochs" /\ run' = "walk" /\ epoch <= Newest
      /\ position < cumulative + size[epoch]
      /\ beforeResume' = IF resume = 0 THEN size[epoch] ELSE size[epoch] - resume
      /\ newCommits' = NewCommits(beforeResume') /\ processedNew' = 0
      /\ at' = size[epoch]
      /\ UNCHANGED <<size, stored, errors, progress, pending, runs, seen, outcome,
                     plain, resume, position, epoch>>
  BY DEF EnterEpoch, repo, archive, history
<1>2. PlainRuns /\ FirstRun /\ AroundEpoch /\ TypesInv
  BY DEF PlainInv, Plain
<1>3. epoch = 1
  <2>1. epoch \in 1 .. MaxEpochs + 1 /\ Newest = 1
    BY <1>1, <1>2 DEF TypesInv, NumberInv, NumberTypes, PlainRuns
  <2> QED BY <1>1, <2>1, InboxAssumption
<1>4. /\ Emails' = Emails /\ Count' = Count /\ Old' = Old
      /\ \A a : Taken(a)' <=> Taken(a)
      /\ PlainRuns' /\ FirstRun'
  BY <1>1, PlainSame
<1>5. /\ Count \in Nat /\ Count >= 1 /\ position \in Nat /\ resume \in Nat /\ Old \in Nat
      /\ at' = Count /\ size[epoch] = Count
  BY <1>1, <1>2, <1>3, PlainTypes DEF Count
<1>6. /\ cumulative = 0 /\ position < Count
      /\ resume = 0 => position = 0
      /\ resume # 0 => position > 0 /\ Old <= Count /\ Count # Old + 1
      /\ \A a \in 1 .. Old : Taken(a)
  <2>1. /\ cumulative = 0
        /\ resume = 0 => position = 0
        /\ resume # 0 => position > 0 /\ Old <= Count /\ Count # Old + 1
        /\ \A a \in 1 .. Old : Taken(a)
    BY <1>1, <1>2, <1>3 DEF AroundEpoch
  <2> QED BY <1>1, <1>5, <2>1
<1>7. Count > Old => newCommits' = Count - Old
  <2>1. CASE resume = 0
    <3>1. beforeResume' = Count /\ position = 0 /\ Old = 0
      BY <1>1, <1>5, <1>6, <2>1 DEF Old
    <3>2. newCommits' = Minus(Count, IF Count > 0 THEN Minus(0, 1) ELSE 0)
      BY <1>1, <1>5, <3>1, <2>1 DEF NewCommits
    <3> QED BY <1>5, <3>1, <3>2 DEF Minus
  <2>2. CASE resume # 0
    <3>1. Old = position + resume - 1 /\ beforeResume' = Count - resume
      BY <1>1, <1>5, <2>2 DEF Old
    <3>2. ASSUME Count > Old PROVE newCommits' = Count - Old
      <4>1. Count - resume > position /\ position > 0 /\ Count - resume # 0
        BY <1>5, <1>6, <2>2, <3>1, <3>2
      <4>2. newCommits' = Minus(Count - resume, Minus(position, 1))
        BY <1>1, <3>1, <4>1 DEF NewCommits
      <4>3. Minus(position, 1) = position - 1
        BY <1>5, <4>1 DEF Minus
      <4>4. newCommits' = (Count - resume) - (position - 1)
        BY <1>5, <4>1, <4>2, <4>3 DEF Minus
      <4> QED BY <1>5, <3>1, <4>4
    <3> QED BY <3>2
  <2> QED BY <2>1, <2>2
<1>8. InEpoch'
  <2>1. \A a \in 1 .. Count : a > Count \/ a <= Old => Taken(a)
    BY <1>5, <1>6
  <2>2. IF resume = 0 THEN position = 0 ELSE position > 0
    BY <1>6
  <2>3. 0 = Count - Count
    BY <1>5
  <2> QED BY <1>1, <1>3, <1>4, <1>5, <1>7, <2>1, <2>2, <2>3 DEF InEpoch
<1> QED BY <1>1, <1>4, <1>8 DEF AroundEpoch

\* The walk comes to the resume point only among the old commits, and passes
\* over old commits only.
LEMMA PlainPass ==
    ASSUME PlainInv, ReachResume \/ PassOld, plain
    PROVE  PlainRuns' /\ FirstRun' /\ AroundEpoch' /\ InEpoch'
<1>1. /\ run = "walk" /\ run' = "walk" /\ at > 0
      /\ UNCHANGED <<size, stored, errors, progress, pending, runs, seen, outcome,
                     plain, resume, position, epoch, processedNew, newCommits, beforeResume>>
  BY DEF ReachResume, PassOld, repo, archive, history
<1>2. InEpoch /\ TypesInv
  BY DEF PlainInv, Plain
<1>3. /\ Count' = Count /\ Old' = Old /\ PlainRuns' /\ FirstRun'
      /\ \A a : Taken(a)' <=> Taken(a)
  BY <1>1, PlainSame
<1>4. /\ Count \in Nat /\ position \in Nat /\ resume \in Nat /\ Old \in Nat /\ at \in Nat
      /\ at <= Count
  BY <1>1, <1>2, PlainTypes DEF InEpoch, TypesInv, Sized, Count
<1>5. /\ epoch = 1 /\ IF resume = 0 THEN position = 0 ELSE position > 0
      /\ \A a \in 1 .. Count : a > at \/ a <= Old => Taken(a)
      /\ at > Old => processedNew = Count - at /\ newCommits = Count - Old
  BY <1>1, <1>2 DEF InEpoch
<1>6. at <= Old /\ (at' = at - 1 \/ at' = 0)
  <2>1. CASE ReachResume
    <3>1. at = resume /\ resume # 0 /\ (at' = at - 1 \/ at' = 0)
      BY <2>1 DEF ReachResume, AtResume
    <3> QED BY <1>4, <1>5, <3>1 DEF Old
  <2>2. CASE PassOld
    <3>1. processedNew >= newCommits /\ at' = at - 1
      BY <2>2 DEF PassOld
    <3> QED BY <1>4, <1>5, <3>1
  <2> QED BY <2>1, <2>2
<1>7. ~(at' > Old)
  BY <1>1, <1>4, <1>6
<1>8. \A a \in 1 .. Count : a > at' \/ a <= Old => Taken(a)
  BY <1>1, <1>4, <1>5, <1>6
<1>9. InEpoch'
  BY <1>1, <1>3, <1>5, <1>7, <1>8 DEF InEpoch
<1> QED BY <1>1, <1>3, <1>9 DEF AroundEpoch

\* A commit is taken where the walk stands; the first run numbers it by its
\* place below HEAD.
LEMMA PlainProcess ==
    ASSUME PlainInv, ProcessCommit, plain
    PROVE  PlainRuns' /\ FirstRun' /\ AroundEpoch' /\ InEpoch'
<1> DEFINE id == Identifier(nextNum, epoch, at)
<1>1. /\ run = "walk" /\ run' = "walk" /\ at > 0 /\ at' = at - 1
      /\ processedNew' = processedNew + 1
      /\ UNCHANGED <<size, runs, seen, outcome, plain, resume, position, epoch, newCommits>>
  BY DEF ProcessCommit, repo, history
<1>2. InEpoch /\ TypesInv /\ PlainRuns /\ FirstRun
  BY DEF PlainInv, Plain
<1>3. /\ Count' = Count /\ Old' = Old /\ Newest' = Newest
  BY <1>1 DEF Count, Old, Newest, Existing
<1>4. /\ Count \in Nat /\ position \in Nat /\ resume \in Nat /\ Old \in Nat /\ at \in Nat
      /\ processedNew \in Nat /\ at <= Count /\ nextNum \in Nat /\ 1 \in EpochIds
      /\ nextNum = position + 1 + processedNew /\ at \in 0 .. MaxCommits /\ MaxCommits \in Nat
  <2>1. nextNum \in Nat /\ at \in 0 .. MaxCommits /\ MaxCommits \in Nat
    BY <1>2, InboxAssumption DEF TypesInv, NumberInv, NumberTypes, RestTypes
  <2>2. nextNum = position + 1 + processedNew
    BY <1>1, <1>2 DEF TypesInv, NumberInv, CountersAhead
  <2>3. at <= Count
    BY <1>1, <1>2 DEF TypesInv, Sized, InEpoch, Count
  <2> QED BY <1>2, <2>1, <2>2, <2>3, PlainTypes
<1>5. /\ epoch = 1 /\ IF resume = 0 THEN position = 0 ELSE position > 0
      /\ \A a \in 1 .. Count : a > at \/ a <= Old => Taken(a)
      /\ at > Old => processedNew = Count - at /\ newCommits = Count - Old
  BY <1>1, <1>2 DEF InEpoch
<1>6. id \in Identifiers /\ id.epoch = 1 /\ id.age = at /\ id.num = nextNum
  BY <1>1, <1>4, <1>5 DEF Identifiers, Identifier
<1>7. \/ /\ errors' = errors \cup {<<1, at>>} /\ Emails' = Emails /\ progress' = progress
      \/ /\ errors' = errors /\ Emails' = Emails \cup {id}
         /\ progress' = progress \/ progress' = id
  <2>1. CASE <<epoch, at>> \in Broken
    BY <1>5, <2>1 DEF ProcessCommit, Emails
  <2>2. CASE <<epoch, at>> \notin Broken
    <3>1. Archive(id) /\ errors' = errors
      BY <2>2 DEF ProcessCommit
    <3> HIDE DEF id
    <3> QED BY <1>2, <1>6, <3>1, EmailsArchived
  <2> QED BY <2>1, <2>2
<1> HIDE DEF id
<1>8. \A a : Taken(a) \/ a = at => Taken(a)'
  BY <1>6, <1>7 DEF Taken
<1>9. PlainRuns'
  <2>1. run = "walk" => runs # 0
    BY <1>2, PlainTypes DEF PlainRuns
  <2> QED BY <1>1, <1>2, <1>3, <2>1 DEF PlainRuns
<1>10. FirstRun'
  <2>1. ASSUME runs = 1 PROVE FirstNum(id) /\ resume = 0
    <3>1. resume = 0 /\ seen = size
      BY <1>1, <1>2, <2>1 DEF FirstRun, PlainRuns
    <3>2. position = 0 /\ Old = 0 /\ processedNew = Count - at
      BY <1>1, <1>4, <1>5, <3>1 DEF Old
    <3> QED BY <1>4, <1>6, <3>1, <3>2 DEF FirstNum, Count
  <2>2. ASSUME runs' = 1
        PROVE  /\ progress' = NoProgress \/ FirstNum(progress')
               /\ \A i \in Emails' : FirstNum(i)
    BY <1>1, <1>2, <1>7, <2>1, <2>2 DEF FirstRun
  <2>3. \A i : FirstNum(i) => FirstNum(i)'
    BY <1>1 DEF FirstNum
  <2> QED BY <1>1, <2>1, <2>2, <2>3 DEF FirstRun, FirstNum
<1>11. \A a \in 1 .. Count : a > at' \/ a <= Old => Taken(a)'
  BY <1>1, <1>4, <1>5, <1>8
<1>12. at' > Old => processedNew' = Count - at' /\ newCommits' = Count - Old
  BY <1>1, <1>4, <1>5
<1>13. InEpoch'
  BY <1>1, <1>3, <1>5, <1>11, <1>12 DEF InEpoch
<1> QED BY <1>1, <1>9, <1>10, <1>13 DEF AroundEpoch

\* A run leaves its epoch with every commit taken.
LEMMA PlainLeave ==
    ASSUME PlainInv, LeaveEpoch, plain
    PROVE  PlainRuns' /\ FirstRun' /\ AroundEpoch' /\ InEpoch'
<1>1. /\ run = "walk" /\ run' = "epochs" /\ at = 0 /\ epoch' = epoch + 1 /\ resume' = 0
      /\ UNCHANGED <<size, stored, errors, progress, pending, runs, seen, outcome, plain>>
  BY DEF LeaveEpoch, repo, archive, history
<1>2. InEpoch /\ TypesInv /\ PlainRuns /\ FirstRun
  BY DEF PlainInv, Plain
<1>3. Emails' = Emails /\ Count' = Count /\ Newest' = Newest
  BY <1>1 DEF Emails, Count, Newest, Existing
<1>4. \A a : Taken(a) => Taken(a)'
  BY <1>1, <1>3 DEF Taken
<1>5. epoch = 1 /\ \A a \in 1 .. Count : Taken(a)
  BY <1>1, <1>2, PlainTypes DEF InEpoch
<1>6. PlainRuns'
  BY <1>1, <1>2, <1>3 DEF PlainRuns
<1>7. FirstRun'
  BY <1>1, <1>2, <1>3 DEF FirstRun, FirstNum
<1>8. epoch' # 1
  BY <1>1, <1>5
<1>9. AroundEpoch'
  BY <1>1, <1>3, <1>4, <1>5, <1>8 DEF AroundEpoch
<1> QED BY <1>1, <1>6, <1>7, <1>9 DEF InEpoch

\* However a run ends, it keeps only e-mails it has; and it is complete only
\* after its epoch.
LEMMA PlainEnd ==
    ASSUME PlainInv, FinishRun \/ StopRun \/ Crash, plain
    PROVE  PlainRuns' /\ FirstRun' /\ AroundEpoch' /\ InEpoch'
<1>1. /\ run # "idle" /\ run' = "idle"
      /\ UNCHANGED <<size, errors, runs, seen, plain>>
      /\ outcome' = "complete" => FinishRun
      /\ outcome' # "none"
  BY DEF FinishRun, StopRun, Crash, repo, archive
<1>2. TypesInv /\ PlainRuns /\ FirstRun /\ AroundEpoch
  BY DEF PlainInv, Plain
<1>3. /\ Emails' \subseteq Emails
      /\ FinishRun => Emails' = Emails
      /\ progress' = progress \/ progress' \in Emails
  <2>1. CASE CommitPending
    BY <1>2, <2>1, EmailsCommitted
  <2>2. CASE Crash
    <3>1. stored' = stored /\ progress' = progress /\ pending' = <<>> /\ DOMAIN pending' = {}
          /\ outcome' = "stopped"
      BY <2>2 DEF Crash, archive
    <3>2. Emails' \subseteq Emails
      BY <3>1 DEF Emails
    <3>3. ~FinishRun
      BY <3>1 DEF FinishRun
    <3> QED BY <3>1, <3>2, <3>3
  <2> QED BY <2>1, <2>2 DEF FinishRun, StopRun
<1>4. PlainRuns'
  <2>1. runs # 0
    BY <1>1, <1>2, PlainTypes DEF PlainRuns
  <2> QED BY <1>1, <1>2, <2>1 DEF PlainRuns
<1>5. FirstRun'
  BY <1>1, <1>2, <1>3 DEF FirstRun, FirstNum
<1>6. AroundEpoch'
  <2>1. ASSUME FinishRun PROVE \A a \in 1 .. seen[1] : Taken(a)'
    <3>1. run = "epochs" /\ epoch > Newest
      BY <2>1 DEF FinishRun
    <3>2. Newest = 1 /\ seen[1] = Count /\ epoch # 1
      <4>1. Newest = 1 /\ seen[1] = Count
        BY <1>1, <1>2 DEF PlainRuns, Count
      <4> QED BY <3>1, <4>1
    <3>3. \A a \in 1 .. Count : Taken(a)
      BY <1>2, <3>1, <3>2 DEF AroundEpoch
    <3>4. \A a : Taken(a) => Taken(a)'
      BY <1>1, <1>3, <2>1 DEF Taken
    <3> QED BY <3>2, <3>3, <3>4
  <2> QED BY <1>1, <2>1 DEF AroundEpoch
<1> QED BY <1>1, <1>4, <1>5, <1>6 DEF InEpoch

\* The mirror grows between two runs only.
LEMMA PlainIdle ==
    ASSUME PlainInv, plain, run = "idle", run' = "idle", runs > 0,
           UNCHANGED <<stored, errors, progress, pending, runs, seen, outcome>>
    PROVE  PlainRuns' /\ FirstRun' /\ AroundEpoch' /\ InEpoch'
<1>1. PlainRuns /\ FirstRun /\ AroundEpoch /\ TypesInv
  BY DEF PlainInv, Plain
<1>2. Emails' = Emails
  BY DEF Emails
<1>3. \A a : Taken(a) => Taken(a)'
  BY <1>2 DEF Taken
<1>4. PlainRuns'
  <2>1. runs # 0
    OBVIOUS
  <2> QED BY <1>1, <2>1 DEF PlainRuns
<1>5. FirstRun'
  BY <1>1, <1>2 DEF FirstRun, FirstNum
<1>6. AroundEpoch'
  BY <1>1, <1>3 DEF AroundEpoch
<1> QED BY <1>4, <1>5, <1>6 DEF InEpoch

LEMMA PlainStep == PlainInv /\ [Next]_vars => Plain'
<1> SUFFICES ASSUME PlainInv, [Next]_vars, plain'
             PROVE  PlainRuns' /\ FirstRun' /\ AroundEpoch' /\ InEpoch'
  BY DEF Plain
<1>1. CASE StartRun
  BY <1>1, PlainStart
<1>2. ~StartRun => plain
  BY DEF Next, vars, history, Push, NewEpoch, SkipEpoch, EnterEpoch, FinishRun, ReachResume,
         PassOld, ProcessCommit, LeaveEpoch, StopRun, Crash
<1>3. CASE ~StartRun
  <2>1. CASE Push \/ NewEpoch
    <3>1. /\ run = "idle" /\ run' = "idle" /\ runs > 0
          /\ UNCHANGED <<stored, errors, progress, pending, runs, seen, outcome>>
      BY <2>1 DEF Push, NewEpoch, archive, runVars, history
    <3> QED BY <1>2, <1>3, <3>1, PlainIdle
  <2>2. CASE SkipEpoch
    BY <1>2, <1>3, <2>2, PlainSkip
  <2>3. CASE EnterEpoch
    BY <1>2, <1>3, <2>3, PlainEnter
  <2>4. CASE ReachResume \/ PassOld
    BY <1>2, <1>3, <2>4, PlainPass
  <2>5. CASE ProcessCommit
    BY <1>2, <1>3, <2>5, PlainProcess
  <2>6. CASE LeaveEpoch
    BY <1>2, <1>3, <2>6, PlainLeave
  <2>7. CASE FinishRun \/ StopRun \/ Crash
    BY <1>2, <1>3, <2>7, PlainEnd
  <2>8. CASE UNCHANGED vars
    <3>1. UNCHANGED <<size, stored, errors, progress, pending, run, epoch, resume, position,
                      cumulative, newCommits, processedNew, at, runs, seen, outcome, plain>>
      BY <2>8 DEF vars, repo, archive, walkVars, runVars, history
    <3>2. Emails' = Emails /\ Count' = Count /\ Old' = Old /\ Newest' = Newest
      BY <3>1 DEF Emails, Count, Old, Newest, Existing
    <3>3. \A a : Taken(a)' <=> Taken(a)
      BY <3>1, <3>2 DEF Taken
    <3>4. PlainRuns /\ FirstRun /\ AroundEpoch /\ InEpoch
      BY <1>2, <1>3 DEF PlainInv, Plain
    <3>5. PlainRuns'
      BY <3>1, <3>2, <3>4 DEF PlainRuns
    <3>6. FirstRun'
      BY <3>1, <3>2, <3>4 DEF FirstRun, FirstNum
    <3>7. AroundEpoch'
      BY <3>1, <3>2, <3>3, <3>4 DEF AroundEpoch
    <3>8. InEpoch'
      BY <3>1, <3>2, <3>3, <3>4 DEF InEpoch
    <3> QED BY <3>5, <3>6, <3>7, <3>8
  <2> QED BY <1>3, <2>1, <2>2, <2>3, <2>4, <2>5, <2>6, <2>7, <2>8 DEF Next
<1> QED BY <1>1, <1>3

\* Where the oldest commit holds an e-mail it is the last the first run
\* archives: the next run resumes from age 1, at the size it then had.
LEMMA OnceStart ==
    ASSUME PlainInv, StartRun, plain', <<1, 1>> \notin Broken
    PROVE  NoneTwice'
<1>1. /\ run = "idle" /\ run' = "epochs" /\ plain
      /\ resume' = progress.age /\ position' = progress.num
      /\ UNCHANGED <<stored, errors, progress, pending>>
      /\ runs = 0 \/ (runs = 1 /\ outcome = "complete")
  BY DEF StartRun, archive
<1>2. /\ TypesInv /\ PlainRuns /\ FirstRun /\ AroundEpoch /\ NoneTwice
      /\ \A i \in stored : i.num <= progress.num
  BY <1>1 DEF PlainInv, Plain, Once, TypesInv, NumberInv, NumbersUnique
<1>3. pending = <<>> /\ DOMAIN pending = {} /\ Emails = stored /\ Emails' = Emails
  BY <1>1, <1>2, PlainTypes DEF Emails
<1>4. Distinct'
  BY <1>2, <1>3 DEF NoneTwice, Distinct
<1>5. Old' = IF resume' = 0 THEN 0 ELSE position' + resume' - 1
  BY DEF Old
<1>6. CASE progress = NoProgress
  <2>1. Emails = {}
    <3>1. CASE runs = 0
      BY <1>2, <1>3, <3>1 DEF PlainRuns
    <3>2. CASE runs = 1
      <4>1. SUFFICES ASSUME NEW i \in Emails PROVE FALSE
        OBVIOUS
      <4>2. i.num <= 0
        BY <1>2, <1>3, <1>6 DEF NoProgress, Identifier
      <4>3. i.num = seen[1] - i.age + 1 /\ i.age <= seen[1]
        BY <1>2, <3>2 DEF FirstRun, FirstNum
      <4>4. i.age \in Nat /\ seen[1] \in Nat
        BY <1>2, PlainTypes
      <4> QED BY <4>2, <4>3, <4>4
    <3> QED BY <1>1, <3>1, <3>2
  <2>2. resume' = 0
    BY <1>1, <1>6 DEF NoProgress, Identifier
  <2> QED BY <1>1, <1>3, <1>4, <2>1, <2>2 DEF NoneTwice
<1>7. CASE progress # NoProgress
  <2>1. runs = 1 /\ outcome = "complete"
    BY <1>1, <1>2, <1>7 DEF PlainRuns
  <2>2. /\ progress.num = seen[1] - progress.age + 1 /\ progress.age <= seen[1]
        /\ progress.age \in Nat /\ progress.age >= 1 /\ seen[1] \in Nat
    BY <1>2, <1>7, <2>1, PlainTypes DEF FirstRun, FirstNum
  <2>3. PICK first \in Emails : first.age = 1
    <3>1. Taken(1)
      BY <1>1, <1>2, <2>1, <2>2 DEF AroundEpoch
    <3>2. <<1, 1>> \notin errors
      BY <1>2 DEF TypesInv, RestTypes
    <3> QED BY <3>1, <3>2 DEF Taken
  <2>4. first.num = seen[1] /\ first.num <= progress.num
    BY <1>2, <1>3, <2>1, <2>2, <2>3 DEF FirstRun, FirstNum
  <2>5. progress.age = 1 /\ progress.num = seen[1]
    BY <2>2, <2>4
  <2>6. resume' = 1 /\ Old' = seen[1]
    BY <1>1, <1>5, <2>2, <2>5
  <2>7. \A id \in Emails : id.age <= seen[1]
    BY <1>2, <2>1 DEF FirstRun, FirstNum
  <2> QED BY <1>1, <1>3, <1>4, <2>6, <2>7 DEF NoneTwice
<1> QED BY <1>6, <1>7

\* The walk counts every commit above the old ones and archives no other.
LEMMA OnceWalk ==
    ASSUME PlainInv, EnterEpoch \/ ReachResume \/ PassOld, plain, <<1, 1>> \notin Broken
    PROVE  NoneTwice'
<1>1. /\ run' = "walk" /\ UNCHANGED <<stored, errors, progress, pending, resume, position>>
  BY DEF EnterEpoch, ReachResume, PassOld, archive
<1>2. TypesInv /\ PlainRuns /\ AroundEpoch /\ InEpoch /\ NoneTwice
  BY DEF PlainInv, Plain, Once
<1>3. Emails' = Emails /\ Old' = Old
  BY <1>1 DEF Emails, Old
<1>4. Distinct'
  BY <1>2, <1>3 DEF NoneTwice, Distinct
<1>5. /\ Count \in Nat /\ position \in Nat /\ resume \in Nat /\ Old \in Nat /\ at \in Nat
      /\ \A id \in Emails : id.age \in Nat /\ id.age >= 1
  BY <1>2, PlainTypes
<1>6. SUFFICES /\ resume \in {0, 1}
               /\ \A id \in Emails : id.age > at' \/ id.age <= Old
               /\ resume # 0 => beforeResume' > 0
               /\ at' <= Old => processedNew' >= newCommits'
  BY <1>1, <1>3, <1>4 DEF NoneTwice
<1>7. CASE EnterEpoch
  <2>1. /\ run = "epochs" /\ epoch <= Newest /\ position < cumulative + size[epoch]
        /\ beforeResume' = IF resume = 0 THEN size[epoch] ELSE size[epoch] - resume
        /\ at' = size[epoch]
    BY <1>7 DEF EnterEpoch
  <2>2. epoch = 1
    <3>1. epoch \in 1 .. MaxEpochs + 1 /\ Newest = 1
      BY <2>1, <1>2 DEF TypesInv, NumberInv, NumberTypes, PlainRuns
    <3> QED BY <2>1, <3>1, InboxAssumption
  <2>3. /\ cumulative = 0 /\ size[epoch] = Count
        /\ resume = 0 => position = 0
        /\ resume # 0 => position > 0
    BY <1>2, <2>1, <2>2 DEF AroundEpoch, Count
  <2>4. resume \in {0, 1} /\ \A id \in Emails : id.age <= Old
    BY <1>2, <2>1, <2>2 DEF NoneTwice
  <2>5. position < Count
    BY <1>5, <2>1, <2>3
  <2>6. Old = position
    BY <1>5, <2>3, <2>4 DEF Old
  <2> QED BY <1>5, <2>1, <2>3, <2>4, <2>5, <2>6
<1>8. CASE ReachResume \/ PassOld
  <2>1. /\ run = "walk" /\ at > 0
        /\ UNCHANGED <<beforeResume, processedNew, newCommits>>
    BY <1>8 DEF ReachResume, PassOld
  <2>2. /\ resume \in {0, 1}
        /\ resume # 0 => beforeResume > 0
        /\ \A id \in Emails : id.age > at \/ id.age <= Old
        /\ at <= Old => processedNew >= newCommits
    BY <1>2, <2>1 DEF NoneTwice
  <2>3. CASE ReachResume
    <3>1. at = resume /\ resume # 0 /\ at' = IF beforeResume = 0 THEN at - 1 ELSE 0
      BY <2>3 DEF ReachResume, AtResume
    <3>2. at = 1 /\ at' = 0
      BY <2>2, <3>1
    <3>3. position > 0 /\ at <= Old
      BY <1>2, <1>5, <2>1, <3>1, <3>2 DEF InEpoch, Old
    <3> QED BY <1>5, <2>1, <2>2, <3>2, <3>3
  <2>4. CASE PassOld
    <3>1. at' = at - 1 /\ processedNew >= newCommits
      BY <2>4 DEF PassOld
    <3> QED BY <1>5, <2>1, <2>2, <3>1
  <2> QED BY <1>8, <2>3, <2>4
<1> QED BY <1>7, <1>8

LEMMA OnceProcess ==
    ASSUME PlainInv, ProcessCommit, plain, <<1, 1>> \notin Broken
    PROVE  NoneTwice'
<1> DEFINE id == Identifier(nextNum, epoch, at)
<1>1. /\ run = "walk" /\ run' = "walk" /\ at > 0 /\ at' = at - 1
      /\ processedNew' = processedNew + 1
      /\ processedNew < newCommits \/ beforeResume = 0
      /\ UNCHANGED <<resume, position, newCommits, beforeResume>>
  BY DEF ProcessCommit
<1>2. InEpoch /\ TypesInv /\ NoneTwice
  BY DEF PlainInv, Plain, Once
<1>3. Old' = Old
  BY <1>1 DEF Old
<1>4. /\ Count \in Nat /\ Old \in Nat /\ at \in Nat /\ processedNew \in Nat
      /\ newCommits \in Nat /\ beforeResume \in Nat /\ Emails \subseteq Identifiers
      /\ nextNum \in Nat /\ at \in 0 .. MaxCommits /\ MaxCommits \in Nat /\ 1 \in EpochIds
      /\ \A i \in Identifiers : i.age \in Nat
  BY <1>2, PlainTypes, InboxAssumption DEF TypesInv, NumberInv, NumberTypes, RestTypes
<1>5. /\ epoch = 1
      /\ at > Old => processedNew = Count - at /\ newCommits = Count - Old
  BY <1>1, <1>2 DEF InEpoch
<1>6. /\ Distinct /\ resume \in {0, 1}
      /\ resume # 0 => beforeResume > 0
      /\ \A i \in Emails : i.age > at \/ i.age <= Old
      /\ at <= Old => processedNew >= newCommits
  BY <1>1, <1>2 DEF NoneTwice
<1>7. at > Old
  <2>1. CASE processedNew < newCommits
    BY <1>4, <1>6, <2>1
  <2>2. CASE beforeResume = 0
    <3>1. resume = 0
      BY <1>6, <2>2
    <3> QED BY <1>1, <3>1 DEF Old
  <2> QED BY <1>1, <2>1, <2>2
<1>8. id \in Identifiers /\ id.epoch = 1 /\ id.age = at
  BY <1>1, <1>4, <1>5 DEF Identifiers, Identifier
<1>9. Emails' = Emails \/ Emails' = Emails \cup {id}
  <2>1. CASE <<epoch, at>> \in Broken
    BY <2>1 DEF ProcessCommit, Emails
  <2>2. CASE <<epoch, at>> \notin Broken
    <3>1. Archive(id)
      BY <2>2 DEF ProcessCommit
    <3> HIDE DEF id
    <3> QED BY <1>2, <1>8, <3>1, EmailsArchived
  <2> QED BY <2>1, <2>2
<1> HIDE DEF id
<1>10. \A i \in Emails : i.age # at
  BY <1>4, <1>6, <1>7
<1>11. Distinct'
  BY <1>6, <1>8, <1>9, <1>10 DEF Distinct
<1>12. \A i \in Emails' : i.age > at' \/ i.age <= Old
  BY <1>1, <1>4, <1>6, <1>8, <1>9
<1>13. at' <= Old => processedNew' >= newCommits'
  BY <1>1, <1>4, <1>5, <1>7
<1> QED BY <1>1, <1>3, <1>6, <1>11, <1>12, <1>13 DEF NoneTwice

LEMMA OnceStep == PlainInv /\ [Next]_vars => Once'
<1> SUFFICES ASSUME PlainInv, [Next]_vars, plain', <<1, 1>> \notin Broken
             PROVE  NoneTwice'
  BY DEF Once
<1>1. CASE StartRun
  BY <1>1, OnceStart
<1>2. ~StartRun => plain
  BY DEF Next, vars, history, Push, NewEpoch, SkipEpoch, EnterEpoch, FinishRun, ReachResume,
         PassOld, ProcessCommit, LeaveEpoch, StopRun, Crash
<1>3. CASE ~StartRun
  <2>0. NoneTwice /\ TypesInv /\ Plain
    BY <1>2, <1>3 DEF PlainInv, Once
  <2>1. CASE Push \/ NewEpoch
    <3>1. run' = "idle" /\ UNCHANGED <<stored, pending>>
      BY <2>1 DEF Push, NewEpoch, archive, runVars
    <3>2. Emails' = Emails
      BY <3>1 DEF Emails
    <3> QED BY <2>0, <3>1, <3>2 DEF NoneTwice, Distinct
  <2>2. CASE EnterEpoch \/ ReachResume \/ PassOld
    BY <1>2, <1>3, <2>2, OnceWalk
  <2>3. CASE ProcessCommit
    BY <1>2, <1>3, <2>3, OnceProcess
  <2>4. CASE SkipEpoch \/ LeaveEpoch
    <3>1. run' = "epochs" /\ resume' = 0 /\ epoch' = epoch + 1 /\ UNCHANGED <<stored, pending>>
      BY <2>4 DEF SkipEpoch, LeaveEpoch, archive
    <3>2. Emails' = Emails
      BY <3>1 DEF Emails
    <3>3. epoch \in Nat /\ epoch # 0
      BY <2>0, <2>4, InboxAssumption
         DEF SkipEpoch, LeaveEpoch, TypesInv, NumberInv, NumberTypes, EpochIds
    <3>4. epoch' # 1
      BY <3>1, <3>3
    <3> QED BY <2>0, <3>1, <3>2, <3>4 DEF NoneTwice, Distinct
  <2>5. CASE FinishRun \/ StopRun \/ Crash
    <3>1. run' = "idle"
      BY <2>5 DEF FinishRun, StopRun, Crash
    <3>2. Emails' \subseteq Emails
      <4>1. CASE CommitPending
        BY <2>0, <4>1, EmailsCommitted
      <4>2. CASE Crash
        <5>1. stored' = stored /\ pending' = <<>> /\ DOMAIN pending' = {}
          BY <4>2 DEF Crash, archive
        <5> QED BY <5>1 DEF Emails
      <4> QED BY <2>5, <4>1, <4>2 DEF FinishRun, StopRun
    <3> QED BY <2>0, <3>1, <3>2 DEF NoneTwice, Distinct
  <2>6. CASE UNCHANGED vars
    <3>1. UNCHANGED <<stored, pending, run, epoch, resume, position, processedNew, newCommits,
                      beforeResume, at>>
      BY <2>6 DEF vars, archive, walkVars, runVars
    <3>2. Emails' = Emails /\ Old' = Old
      BY <3>1 DEF Emails, Old
    <3>3. Distinct'
      BY <2>0, <3>2 DEF NoneTwice, Distinct
    <3> QED BY <2>0, <3>1, <3>2, <3>3 DEF NoneTwice
  <2> QED BY <1>3, <2>1, <2>2, <2>3, <2>4, <2>5, <2>6 DEF Next
<1> QED BY <1>1, <1>3

LEMMA PlainInit == Init => PlainInv
<1> SUFFICES ASSUME Init PROVE PlainInv
  OBVIOUS
<1>1. TypesInv
  BY TypesInit
<1>2. /\ stored = {} /\ errors = {} /\ progress = NoProgress /\ pending = <<>> /\ run = "idle"
      /\ runs = 0 /\ seen = [e \in EpochIds |-> 0] /\ outcome = "none" /\ plain = TRUE
  BY DEF Init
<1>3. Emails = {}
  <2>1. DOMAIN pending = {}
    BY <1>2
  <2> QED BY <1>2, <2>1 DEF Emails
<1>4. Plain
  BY <1>2, <1>3 DEF Plain, PlainRuns, FirstRun, AroundEpoch, InEpoch
<1>5. Once
  BY <1>2, <1>3 DEF Once, NoneTwice, Distinct
<1> QED BY <1>1, <1>4, <1>5 DEF PlainInv

LEMMA PlainHolds == Spec => []PlainInv
<1>1. PlainInv /\ [Next]_vars => PlainInv'
  <2>1. PlainInv => TypesInv
    BY DEF PlainInv
  <2> QED BY <2>1, TypesStep, PlainStep, OnceStep DEF PlainInv
<1> QED BY PlainInit, <1>1, PTL DEF Spec

\* In a list of one epoch, the first run and an update after it that finds
\* other than one new commit archive each commit they find or list it in
\* __errors.csv: what process_epoch takes for the number of new commits, from
\* nothing but the resume point's number and age, is exact.
THEOREM PlainComplete == Spec => []PlainRunComplete
<1>1. PlainInv => PlainRunComplete
  <2>1. SUFFICES ASSUME PlainInv, plain, run = "idle", outcome = "complete",
                        NEW e \in EpochIds, NEW a \in 1 .. seen[e]
                 PROVE  Holds(e, a) \/ <<e, a>> \in errors
    BY DEF PlainRunComplete, CompleteRun
  <2>2. PlainRuns /\ AroundEpoch /\ TypesInv
    BY <2>1 DEF PlainInv, Plain
  <2>3. e = 1
    BY <2>1, <2>2 DEF PlainRuns
  <2>4. Emails = stored
    <3>1. pending = <<>> /\ DOMAIN pending = {}
      BY <2>1, <2>2, PlainTypes
    <3> QED BY <3>1 DEF Emails
  <2> QED BY <2>1, <2>2, <2>3, <2>4 DEF AroundEpoch, Taken, Holds
<1> QED BY PlainHolds, <1>1, PTL

\* In those runs no commit is archived twice, if the list's oldest commit
\* holds an e-mail: the update skips the epoch, or stops counting commits as
\* new where the first run began.
THEOREM PlainOnce == Spec => []PlainRunOnce
<1>1. PlainInv => PlainRunOnce
  BY DEF PlainInv, PlainRunOnce, Once, NoneTwice, Distinct, Emails
<1> QED BY PlainHolds, <1>1, PTL

=============================================================================
