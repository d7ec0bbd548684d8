-------------------------- MODULE NntpWorkerProofs --------------------------
(***************************************************************************)
(* Proofs about ArchiveWriter: its types, and that the saved progress      *)
(* always names an e-mail that can be read from a finished file.  Proofs   *)
(* about NntpWorker: its types, that the saved progress only moves         *)
(* forward, that no article is lost, how many a fault can cost, that a     *)
(* stop is clean, and that the worker implements the abstract archive.     *)
(***************************************************************************)
EXTENDS NntpWorker, SequenceTheorems, FiniteSetTheorems, TLAPS

(***************************************************************************)
(* Sequences: the range of the ones the writer builds.                     *)
(***************************************************************************)
\* Appending an e-mail to the buffer adds it to the buffer's e-mails.
LEMMA RngAppend ==
    ASSUME NEW S, NEW s \in Seq(S), NEW x \in S
    PROVE  /\ Append(s, x) \in Seq(S)
           /\ Rng(Append(s, x)) = Rng(s) \cup {x}
<1> DEFINE t == Append(s, x)
<1>1. t \in Seq(S) /\ Len(t) = Len(s) + 1 /\ t[Len(s) + 1] = x
  OBVIOUS
<1>2. \A i \in 1 .. Len(s) : t[i] = s[i]
  OBVIOUS
<1>3. DOMAIN s = 1 .. Len(s) /\ DOMAIN t = 1 .. Len(s) + 1 /\ Len(s) \in Nat
  BY <1>1
<1>4. Rng(t) \subseteq Rng(s) \cup {x}
  BY <1>1, <1>2, <1>3 DEF Rng
<1>5. Rng(s) \subseteq Rng(t)
  BY <1>2, <1>3 DEF Rng
<1>6. x \in Rng(t)
  BY <1>1, <1>3 DEF Rng
<1> QED BY <1>1, <1>4, <1>5, <1>6

\* Handing the buffer to the ArrowWriter adds its e-mails to the open file.
LEMMA RngConcat ==
    ASSUME NEW S, NEW s \in Seq(S), NEW t \in Seq(S)
    PROVE  /\ s \o t \in Seq(S)
           /\ Rng(s \o t) = Rng(s) \cup Rng(t)
<1> DEFINE u == s \o t
<1>1. u \in Seq(S) /\ Len(u) = Len(s) + Len(t)
  OBVIOUS
<1>2. \A i \in 1 .. Len(s) : u[i] = s[i]
  OBVIOUS
<1>3. \A i \in 1 .. Len(t) : u[Len(s) + i] = t[i]
  OBVIOUS
<1>4. /\ Len(s) \in Nat /\ Len(t) \in Nat
      /\ DOMAIN s = 1 .. Len(s) /\ DOMAIN t = 1 .. Len(t)
      /\ DOMAIN u = 1 .. Len(s) + Len(t)
  BY <1>1
<1> HIDE DEF u
<1>5. Rng(u) \subseteq Rng(s) \cup Rng(t)
  <2> SUFFICES ASSUME NEW i \in 1 .. Len(s) + Len(t)
               PROVE  u[i] \in Rng(s) \cup Rng(t)
    BY <1>4 DEF Rng
  <2>1. CASE i <= Len(s)
    BY <2>1, <1>2, <1>4 DEF Rng
  <2>2. CASE i > Len(s)
    <3>1. i - Len(s) \in 1 .. Len(t) /\ Len(s) + (i - Len(s)) = i
      BY <2>2, <1>4
    <3> QED BY <3>1, <1>3, <1>4 DEF Rng
  <2> QED BY <2>1, <2>2, <1>4
<1>6. Rng(s) \subseteq Rng(u)
  BY <1>2, <1>4 DEF Rng
<1>7. Rng(t) \subseteq Rng(u)
  <2> SUFFICES ASSUME NEW i \in 1 .. Len(t) PROVE t[i] \in Rng(u)
    BY <1>4 DEF Rng
  <2>1. Len(s) + i \in DOMAIN u /\ u[Len(s) + i] = t[i]
    BY <1>3, <1>4
  <2> QED BY <2>1 DEF Rng
<1> QED BY <1>1, <1>5, <1>6, <1>7 DEF u

\* A batch of committed e-mails is its first e-mail and the others.
LEMMA RngHeadTail ==
    ASSUME NEW S, NEW s \in Seq(S), s # <<>>
    PROVE  /\ Head(s) \in S /\ Tail(s) \in Seq(S)
           /\ Head(s) \in Rng(s) /\ Rng(Tail(s)) \subseteq Rng(s)
BY DEF Rng

\* The last e-mail of a batch is in the batch.
LEMMA RngLast ==
    ASSUME NEW S, NEW s \in Seq(S), s # <<>>
    PROVE  Last(s) \in S /\ Last(s) \in Rng(s)
BY DEF Rng, Last

\* All e-mails of a batch are e-mails.
LEMMA RngType ==
    ASSUME NEW S, NEW s \in Seq(S)
    PROVE  Rng(s) \subseteq S
BY DEF Rng

\* A batch of no e-mails is empty.
LEMMA LenZero ==
    ASSUME NEW S, NEW s \in Seq(S), Len(s) = 0
    PROVE  s = <<>>
BY EmptySeq

\* After the last e-mail of a batch there is none.
LEMMA TailOfOne ==
    ASSUME NEW S, NEW s \in Seq(S), Len(s) = 1
    PROVE  Tail(s) = <<>>
<1>1. s # <<>>
  BY EmptySeq
<1>2. Len(Tail(s)) = 0 /\ Tail(s) \in Seq(S)
  BY <1>1, HeadTailProperties
<1> QED BY <1>2, LenZero

\* An empty buffer holds no e-mail.
LEMMA RngEmpty == Rng(<<>>) = {}
BY DEF Rng

-----------------------------------------------------------------------------
(***************************************************************************)
(* Types.  TypeOK is inductive together with two facts about a call under  *)
(* way: the e-mail it archives exists, and a commit has e-mails to commit. *)
(***************************************************************************)
TypeInv ==
    /\ TypeOK
    /\ call \in InCall => cur \in Ids
    /\ call \in {"rotate", "commit"} => synced # <<>>

\* The sequences the writer starts from.
LEMMA SmallSeqs ==
    ASSUME NEW S
    PROVE  <<>> \in Seq(S) /\ \A x \in S : <<x>> \in Seq(S) /\ <<x>> # <<>>
OBVIOUS

\* A row group holds at least one e-mail, so a flush that is due has one.
LEMMA FlushDueNotEmpty ==
    ASSUME TypeOK, FlushDue
    PROVE  buffer # <<>>
<1>1. RowGroupSize >= 1
  BY SizesAssumption DEF RowGroupSize
<1>2. Len(<<>>) = 0
  OBVIOUS
<1> QED BY <1>1, <1>2, SizesAssumption DEF FlushDue, RowGroupSize

\* A writer that is released keeps nothing in memory.
LEMMA ReleaseType ==
    ASSUME Release, stored' \subseteq Ids,
           lineage' \subseteq Ids, errors' \subseteq Ids, leftover' \in BOOLEAN,
           progress' \in 0 .. MaxId, faults' \in 0 .. MaxFaults
    PROVE  TypeInv'
<1>1. <<>> \in Seq(Ids)
  BY SmallSeqs
<1>2. "none" \in Calls /\ "none" \notin InCall \cup {"rotate", "commit"}
  BY DEF Calls, InCall
<1>3. 0 \in 0 .. MaxId
  BY SizesAssumption
<1> QED BY <1>1, <1>2, <1>3 DEF TypeInv, TypeOK, Release

\* Counting a fault stays within the bound.
LEMMA FaultType ==
    ASSUME TypeOK, NEW kind, Fault(kind)
    PROVE  faults' \in 0 .. MaxFaults
BY SizesAssumption DEF TypeOK, Fault

\* The rows of a finished file are e-mails.
LEMMA FinishFileType ==
    ASSUME TypeOK, FinishFile
    PROVE  /\ stored' \subseteq Ids
           /\ open' = FALSE /\ arrow' \in Seq(Ids)
<1>1. Rng(arrow) \subseteq Ids
  BY RngType DEF TypeOK
<1> QED BY <1>1, SmallSeqs DEF FinishFile, TypeOK

\* A flushed batch is in the file, the buffer is empty.
LEMMA FlushBatchType ==
    ASSUME TypeInv, NEW next \in {"rotate", "commit", "footer"}, FlushBatch(next),
           buffer # <<>>, next \in {"rotate", "commit"} => call \in InCall
    PROVE  TypeInv'
<1>1. arrow \o buffer \in Seq(Ids) /\ <<>> \in Seq(Ids)
  BY RngConcat, SmallSeqs DEF TypeInv, TypeOK
<1>2. next \in Calls /\ (next \in InCall => call \in InCall)
  BY DEF Calls, InCall, InDrop
<1> QED BY <1>1, <1>2 DEF FlushBatch, TypeInv, TypeOK, disk

\* Every step of a writer, and its end by a kill, keeps the types.
LEMMA TypeInvStep ==
    ASSUME TypeInv, AWNext \/ Crash
    PROVE  TypeInv'
<1> USE DEF TypeInv
<1>0. <<>> \in Seq(Ids)
  BY SmallSeqs
<1>1. CASE New
  BY <1>1 DEF New, TypeOK, disk, Calls, InCall
<1>2. ASSUME NEW id \in Ids, AddEmail(id) PROVE TypeInv'
  <2>1. id \in 0 .. MaxId
    BY SizesAssumption DEF Ids
  <2>2. Append(buffer, id) \in Seq(Ids)
    BY RngAppend DEF TypeOK
  <2>3. {"add", "rawwrite"} \subseteq Calls
    BY DEF Calls, InCall
  <2>4. CASE WriteMode = "parquet"
    <3>1. /\ call' = "add" /\ cur' = id /\ buffer' = Append(buffer, id)
          /\ emailsInFile' = emailsInFile + 1
          /\ UNCHANGED <<stored, leftover, progress, lineage,
                          errors, arrow, open, synced, faults>>
      BY <1>2, <2>4 DEF AddEmail
    <3> QED BY <2>1, <2>2, <2>3, <3>1 DEF TypeOK
  <2>5. CASE WriteMode = "raw"
    <3>1. /\ call' = "rawwrite" /\ cur' = id /\ stored' = stored \ {id}
          /\ UNCHANGED <<buffer, emailsInFile, leftover, progress, lineage,
                          errors, arrow, open, synced, faults>>
      BY <1>2, <2>5 DEF AddEmail
    <3> QED BY <2>1, <2>3, <3>1 DEF TypeOK
  <2> QED BY <2>4, <2>5, ModesAssumption
<1>3. CASE WriteRaw
  <2>1. cur \in Ids
    BY <1>3 DEF WriteRaw, InCall
  <2>2. <<cur>> \in Seq(Ids) /\ <<cur>> # <<>>
    BY <2>1, SmallSeqs
  <2>3. faults' \in 0 .. MaxFaults
    BY <1>3, FaultType DEF WriteRaw, TypeOK
  <2>4. {"commit", "failed"} \subseteq Calls /\ "failed" \notin InCall
    BY DEF Calls, InCall
  <2> QED BY <1>3, <2>1, <2>2, <2>3, <2>4 DEF WriteRaw, TypeOK
<1>4. CASE KeepBuffered
  BY <1>4 DEF KeepBuffered, TypeOK, disk, Calls, InCall
<1>5. CASE Flush
  <2>1. buffer # <<>>
    BY <1>5, FlushDueNotEmpty DEF Flush
  <2>2. ASSUME NEW next \in {"rotate", "commit"}, FlushBatch(next) PROVE TypeInv'
    BY <1>5, <2>1, <2>2, FlushBatchType DEF Flush, InCall
  <2>3. CASE ~\E next \in {"rotate", "commit"} : FlushBatch(next)
    <3>1. call' = "failed" /\ faults' \in 0 .. MaxFaults
      BY <1>5, <2>3, FaultType DEF Flush, RotationDue
    <3>2. "failed" \in Calls /\ "failed" \notin InCall
      BY DEF Calls, InCall
    <3> QED BY <1>5, <1>0, <2>3, <3>1, <3>2 DEF Flush, RotationDue, TypeOK, disk
  <2> QED BY <2>2, <2>3
<1>6. CASE Rotate
  <2>1. faults' \in 0 .. MaxFaults
    BY <1>6, FaultType DEF Rotate, TypeOK
  <2>2. call \in InCall /\ synced # <<>>
    BY <1>6 DEF Rotate, InCall
  <2>3. {"commit", "failed"} \subseteq Calls /\ "failed" \notin InCall
    BY DEF Calls, InCall
  <2>4. CASE call' = "commit"
    <3>1. /\ FinishFile /\ emailsInFile' = 0
          /\ UNCHANGED <<leftover, synced, faults, progress, lineage, errors, cur, buffer>>
      BY <1>6, <2>4 DEF Rotate
    <3>2. /\ stored' \subseteq Ids
          /\ open' \in BOOLEAN /\ arrow' \in Seq(Ids)
      BY <3>1, FinishFileType
    <3> QED BY <2>1, <2>2, <2>3, <2>4, <3>1, <3>2 DEF TypeOK
  <2>5. CASE call' # "commit"
    <3>1. /\ call' = "failed" /\ leftover' = TRUE /\ open' = FALSE
          /\ arrow' = <<>> /\ synced' = <<>>
          /\ UNCHANGED <<stored, emailsInFile, progress, lineage, errors, cur, buffer>>
      BY <1>6, <2>5 DEF Rotate
    <3> QED BY <2>1, <2>3, <3>1, <1>0 DEF TypeOK
  <2> QED BY <2>4, <2>5
<1>7. CASE CommitProgress
  <2>1. Head(synced) \in Ids /\ Tail(synced) \in Seq(Ids)
    BY <1>7, RngHeadTail DEF CommitProgress, TypeOK
  <2>2. Len(synced) # 1 => Tail(synced) # <<>>
    <3>1. synced # <<>> /\ synced \in Seq(Ids)
      BY <1>7 DEF CommitProgress, TypeOK
    <3>2. Len(Tail(synced)) = Len(synced) - 1
      BY <3>1, HeadTailProperties
    <3>3. Len(synced) \in Nat /\ Len(synced) # 0
      BY <3>1
    <3>4. Tail(synced) = <<>> => Len(Tail(synced)) = 0
      BY <2>1, EmptySeq
    <3> QED BY <3>2, <3>3, <3>4
  <2>3. Head(synced) \in 0 .. MaxId
    BY <2>1, SizesAssumption DEF Ids
  <2>4. faults' \in 0 .. MaxFaults /\ cur \in Ids
    BY <1>7, FaultType DEF CommitProgress, TypeOK, InCall
  <2>5. /\ {"lineage", "commit", "failed"} \subseteq Calls
        /\ "failed" \notin InCall
    BY DEF Calls, InCall
  <2> QED BY <1>7, <1>0, <2>1, <2>2, <2>3, <2>4, <2>5
          DEF CommitProgress, SaveProgress, TypeOK
<1>8. CASE AppendLineage
  <2>1. cur \in Ids /\ 0 \in 0 .. MaxId
    BY <1>8, SizesAssumption DEF AppendLineage, InCall
  <2>2. faults' \in 0 .. MaxFaults
    BY <1>8, FaultType DEF AppendLineage, TypeOK
  <2> QED BY <1>8, <2>1, <2>2 DEF AppendLineage, TypeOK, Calls, InCall
<1>9. ASSUME NEW id \in Ids, LogError(id) PROVE TypeInv'
  <2>1. faults' \in 0 .. MaxFaults
    BY <1>9, FaultType DEF LogError, TypeOK
  <2> QED BY <1>9, <2>1 DEF LogError, memory, TypeOK
<1>10. CASE BeginDrop
  BY <1>10, SizesAssumption DEF BeginDrop, TypeOK, disk, Calls, InCall, InDrop
<1>11. CASE CloseFlush
  <2>1. ASSUME buffer # <<>>, FlushBatch("footer") PROVE TypeInv'
    BY <2>1, FlushBatchType
  <2>2. CASE Release
    <3>1. faults' \in 0 .. MaxFaults
      BY <1>11, <2>2, FaultType DEF CloseFlush, TypeOK, FlushBatch, Release
    <3> QED BY <1>11, <2>2, <3>1, ReleaseType DEF CloseFlush, TypeOK, FlushBatch, disk
  <2>3. ASSUME UNCHANGED <<disk, cur, buffer, arrow, open, emailsInFile, synced, faults>>,
               call' = "footer"
        PROVE  TypeInv'
    BY <2>3 DEF TypeOK, disk, Calls, InCall, InDrop
  <2> QED BY <1>11, <2>1, <2>2, <2>3 DEF CloseFlush
<1>12. CASE CloseFooter
  <2>1. CASE FinishFile
    <3>1. CASE call' = "save" /\ UNCHANGED <<leftover, cur, buffer, emailsInFile, synced, faults>>
      BY <1>12, <2>1, <3>1, FinishFileType DEF CloseFooter, TypeOK, Calls, InCall, InDrop
    <3>2. CASE Fault("close") /\ leftover' = TRUE /\ Release /\ UNCHANGED <<stored>>
      BY <1>12, <3>2, FaultType, ReleaseType DEF CloseFooter, TypeOK
    <3> QED BY <1>12, <2>1, <3>1, <3>2 DEF CloseFooter
  <2>2. CASE ~FinishFile
    <3>1. faults' \in 0 .. MaxFaults
      BY <1>12, <2>2, FaultType DEF CloseFooter
    <3> QED BY <1>12, <2>2, <3>1, ReleaseType DEF CloseFooter, TypeOK
  <2> QED BY <2>1, <2>2
<1>13. CASE SaveLast
  <2>1. faults' \in 0 .. MaxFaults
    BY <1>13, FaultType DEF SaveLast, TypeOK
  <2>2. progress' \in 0 .. MaxId
    <3>1. synced # <<>> => Last(synced) \in 0 .. MaxId
      BY RngLast, SizesAssumption DEF TypeOK, Ids
    <3> QED BY <1>13, <3>1 DEF SaveLast, SaveProgress, TypeOK
  <2> QED BY <1>13, <2>1, <2>2, ReleaseType DEF SaveLast, TypeOK
<1>14. CASE Crash
  <2>1. faults' \in 0 .. MaxFaults
    BY <1>14, FaultType DEF Crash
  <2> QED BY <1>14, <2>1, ReleaseType DEF Crash, TypeOK
<1> QED
  BY <1>1, <1>2, <1>3, <1>4, <1>5, <1>6, <1>7, <1>8, <1>9, <1>10, <1>11, <1>12,
     <1>13, <1>14 DEF AWNext, WriterStep

\* Stuttering keeps the types.
LEMMA TypeInvStutter ==
    ASSUME TypeInv, UNCHANGED awVars
    PROVE  TypeInv'
BY DEF TypeInv, TypeOK, awVars, disk, memory

\* The types hold of an archive nothing was written to.
LEMMA TypeInvInit ==
    ASSUME AWInit
    PROVE  TypeInv
<1>1. <<>> \in Seq(Ids) /\ 0 \in 0 .. MaxId /\ 0 \in 0 .. MaxFaults
  BY SizesAssumption, SmallSeqs
<1> QED BY <1>1 DEF AWInit, TypeInv, TypeOK, Calls, InCall

\* The variables of the storage facade keep their types for every number of
\* e-mails, every write mode, every file size and all faults.
THEOREM WriterTypes == AWSpec => []TypeOK
<1>1. AWInit => TypeInv
  BY TypeInvInit
<1>2. TypeInv /\ [AWNext]_awVars => TypeInv'
  BY TypeInvStep, TypeInvStutter
<1>3. TypeInv => TypeOK
  BY DEF TypeInv
<1> QED BY <1>1, <1>2, <1>3, PTL DEF AWSpec

-----------------------------------------------------------------------------
(***************************************************************************)
(* Batches.  When a batch and its file end together, what the writer holds *)
(* at each point of a call is determined: rows are in an open file only    *)
(* until the footer that follows them at once, and an e-mail is in synced  *)
(* only with its row in a finished file, or in the file about to be.       *)
(***************************************************************************)
Between == {"none", "idle", "add", "rawwrite", "lineage"}

Batches ==
    /\ WriteMode = "raw" => buffer = <<>> /\ call # "add"
    /\ call \in {"none", "rawwrite"} => buffer = <<>>
    /\ call \in Between =>
          arrow = <<>> /\ open = FALSE /\ synced = <<>> /\ emailsInFile = Len(buffer)
    /\ call = "rotate" => buffer = <<>> /\ arrow = synced
    /\ call = "commit" =>
          /\ buffer = <<>> /\ arrow = <<>> /\ open = FALSE /\ emailsInFile = 0
          /\ Rng(synced) \subseteq stored
    /\ call \in {"failed", "closing"} =>
          arrow = <<>> /\ synced = <<>> /\ (open => buffer = <<>>)
    /\ call = "footer" => buffer = <<>> /\ arrow = synced
    /\ call = "save" => Rng(synced) \subseteq stored

\* A flush in add_email always fills the file, which is then rotated.
LEMMA FlushFillsFile ==
    ASSUME FilePerBatch, TypeInv, Batches, call = "add", FlushDue
    PROVE  RotationDue
<1>1. WriteMode # "raw" /\ RowGroupSize = MaxPerFile /\ MaxPerFile > 0
  BY SizesAssumption DEF FilePerBatch, Batches, RowGroupSize
<1>2. emailsInFile = Len(buffer)
  BY DEF Batches, Between
<1> QED BY <1>1, <1>2 DEF FlushDue, RotationDue

\* Handing over the buffer when no rows are in the file.
LEMMA FlushToEmptyFile ==
    ASSUME TypeOK, arrow = <<>>, NEW next, FlushBatch(next)
    PROVE  arrow' = buffer /\ synced' = buffer /\ buffer' = <<>>
BY ConcatEmptySeq DEF TypeOK, FlushBatch

\* Dropping the writer, or losing it with the process, leaves no batch.
LEMMA ReleaseBatches ==
    ASSUME Release
    PROVE  Batches'
<1>1. Len(<<>>) = 0
  OBVIOUS
<1> QED BY <1>1 DEF Release, Batches, Between

\* Every step of a writer keeps its batches and its files together.
LEMMA BatchesStep ==
    ASSUME FilePerBatch, TypeInv, Batches, AWNext \/ Crash
    PROVE  Batches'
<1> USE DEF Between
<1>1. CASE New
  BY <1>1 DEF New, Batches, disk
<1>2. ASSUME NEW id \in Ids, AddEmail(id) PROVE Batches'
  <2>1. Len(Append(buffer, id)) = Len(buffer) + 1
    BY DEF TypeInv, TypeOK
  <2>2. CASE WriteMode = "parquet"
    BY <1>2, <2>1, <2>2 DEF AddEmail, Batches
  <2>3. CASE WriteMode = "raw"
    BY <1>2, <2>3 DEF AddEmail, Batches
  <2> QED BY <2>2, <2>3, ModesAssumption
<1>3. CASE WriteRaw
  <2>1. Rng(<<cur>>) = {cur}
    BY DEF Rng
  <2>2. Len(<<>>) = 0
    OBVIOUS
  <2> QED BY <1>3, <2>1, <2>2 DEF WriteRaw, Batches
<1>4. CASE KeepBuffered
  BY <1>4 DEF KeepBuffered, Batches, disk
<1>5. CASE Flush
  <2>1. RotationDue /\ arrow = <<>> /\ WriteMode # "raw"
    BY <1>5, FlushFillsFile DEF Flush, Batches
  <2>2. CASE FlushBatch("rotate")
    <3>1. call' = "rotate"
      BY <2>2 DEF FlushBatch
    <3> QED BY <2>1, <2>2, <3>1, FlushToEmptyFile DEF TypeInv, Batches
  <2>3. CASE call' = "failed"
    <3>1. /\ UNCHANGED <<arrow, synced>> /\ synced = <<>>
          /\ (UNCHANGED <<open, buffer>> /\ open = FALSE) \/ buffer' = <<>>
      BY <1>5, <2>1, <2>3 DEF Flush, FlushBatch, Batches, disk
    <3> QED BY <2>1, <2>3, <3>1 DEF Batches
  <2> QED BY <1>5, <2>1, <2>2, <2>3 DEF Flush
<1>6. CASE Rotate
  <2>1. CASE call' = "commit"
    BY <1>6, <2>1 DEF Rotate, FinishFile, Batches
  <2>2. CASE call' # "commit"
    BY <1>6, <2>2 DEF Rotate, Batches
  <2> QED BY <2>1, <2>2
<1>7. CASE CommitProgress
  <2>1. Rng(Tail(synced)) \subseteq Rng(synced)
    BY <1>7, RngHeadTail DEF CommitProgress, TypeInv, TypeOK
  <2>2. Len(synced) = 1 => Tail(synced) = <<>>
    BY <1>7, TailOfOne DEF CommitProgress, TypeInv, TypeOK
  <2>3. Len(<<>>) = 0
    OBVIOUS
  <2> QED BY <1>7, <2>1, <2>2, <2>3 DEF CommitProgress, Batches
<1>8. CASE AppendLineage
  BY <1>8 DEF AppendLineage, Batches
<1>9. ASSUME NEW id \in Ids, LogError(id) PROVE Batches'
  BY <1>9 DEF LogError, memory, Batches
<1>10. CASE BeginDrop
  BY <1>10 DEF BeginDrop, disk, Batches
<1>11. CASE CloseFlush
  <2>1. CASE FlushBatch("footer")
    <3>1. call' = "footer" /\ arrow = <<>>
      BY <1>11, <2>1 DEF FlushBatch, CloseFlush, Batches
    <3> QED BY <2>1, <3>1, FlushToEmptyFile DEF TypeInv, Batches
  <2>2. CASE Release
    BY <2>2, ReleaseBatches
  <2>3. CASE buffer = <<>> /\ call' = "footer"
             /\ UNCHANGED <<disk, cur, buffer, arrow, open, emailsInFile, synced, faults>>
    BY <1>11, <2>3 DEF CloseFlush, Batches, disk
  <2> QED BY <1>11, <2>1, <2>2, <2>3 DEF CloseFlush
<1>12. CASE CloseFooter
  <2>1. CASE Release
    BY <2>1, ReleaseBatches
  <2>2. CASE FinishFile /\ call' = "save" /\ UNCHANGED <<buffer, synced>>
    BY <1>12, <2>2 DEF CloseFooter, FinishFile, Batches
  <2> QED BY <1>12, <2>1, <2>2 DEF CloseFooter
<1>13. CASE SaveLast
  BY <1>13, ReleaseBatches DEF SaveLast
<1>14. CASE Crash
  BY <1>14, ReleaseBatches DEF Crash
<1> QED
  BY <1>1, <1>2, <1>3, <1>4, <1>5, <1>6, <1>7, <1>8, <1>9, <1>10, <1>11, <1>12,
     <1>13, <1>14 DEF AWNext, WriterStep

\* A step that changes neither the disk nor the writer keeps Batches.
LEMMA BatchesStutter ==
    ASSUME Batches, UNCHANGED <<disk, memory>>
    PROVE  Batches'
BY DEF Batches, Between, disk, memory

\* No batch is under way before the first writer exists.
LEMMA BatchesInit ==
    ASSUME AWInit
    PROVE  Batches
<1>1. Len(<<>>) = 0
  OBVIOUS
<1> QED BY <1>1 DEF AWInit, Batches, Between

\* Progress is saved only for e-mails of a finished file.
LEMMA ProgressStoredStep ==
    ASSUME TypeInv, Batches, ProgressStored, WriteMode = "parquet", AWNext \/ Crash
    PROVE  ProgressStored'
<1>1. CASE UNCHANGED progress /\ stored \subseteq stored'
  BY <1>1 DEF ProgressStored
<1>2. CASE CommitProgress
  <2>1. synced # <<>> => Head(synced) \in Rng(synced)
    BY RngHeadTail DEF TypeInv, TypeOK
  <2>2. synced # <<>>
    BY <1>2 DEF CommitProgress, TypeInv
  <2> QED BY <1>2, <2>1, <2>2 DEF CommitProgress, SaveProgress, Batches, ProgressStored
<1>3. CASE SaveLast
  <2>1. synced # <<>> => Last(synced) \in Rng(synced)
    BY RngLast DEF TypeInv, TypeOK
  <2> QED BY <1>3, <2>1 DEF SaveLast, SaveProgress, Batches, ProgressStored
<1>4. ASSUME NEW id \in Ids, AddEmail(id)
      PROVE  UNCHANGED progress /\ stored \subseteq stored'
  BY <1>4 DEF AddEmail
<1>5. ASSUME New \/ WriteRaw \/ KeepBuffered \/ Flush \/ Rotate \/ AppendLineage
             \/ BeginDrop \/ CloseFlush \/ CloseFooter \/ Crash
             \/ \E id \in Ids : LogError(id)
      PROVE  UNCHANGED progress /\ stored \subseteq stored'
  BY <1>5 DEF New, WriteRaw, KeepBuffered, Flush, FlushBatch, Rotate, FinishFile,
     AppendLineage, BeginDrop, CloseFlush, CloseFooter, Crash, LogError, disk
<1> QED BY <1>1, <1>2, <1>3, <1>4, <1>5 DEF AWNext, WriterStep

\* __progress.yaml never names an e-mail that cannot be read back, whatever is
\* killed or fails, for every parquet file size up to the row group cap.
THEOREM ProgressNamesStored ==
    ASSUME WriteMode = "parquet", FilePerBatch
    PROVE  AWSpec => []ProgressStored
<1> DEFINE Inv == TypeInv /\ Batches /\ ProgressStored
<1>1. AWInit => Inv
  BY TypeInvInit, BatchesInit DEF AWInit, ProgressStored
<1>2. Inv /\ [AWNext]_awVars => Inv'
  <2>1. ASSUME Inv, AWNext PROVE Inv'
    BY <2>1, TypeInvStep, BatchesStep, ProgressStoredStep
  <2>2. ASSUME Inv, UNCHANGED awVars PROVE Inv'
    BY <2>2, TypeInvStutter, BatchesStutter DEF awVars, disk, ProgressStored
  <2> QED BY <2>1, <2>2
<1>3. Inv => ProgressStored
  OBVIOUS
<1> QED BY <1>1, <1>2, <1>3, PTL DEF AWSpec

-----------------------------------------------------------------------------

(***************************************************************************)
(* What a step of the worker is to its writer.                             *)
(***************************************************************************)
\* The steps of the worker and its environment that leave the writer alone.
Elsewhere ==
    \/ Post \/ Expire \/ CtrlC \/ Restart
    \/ CheckShutdown \/ Reconnect \/ WaitForList \/ RecvClosed
    \/ QueryGroup \/ EndOfGroup \/ FetchFails \/ Archived \/ ReturnFromGroup

\* Only the fault counter of the writer's variables can change elsewhere.
LEMMA ElsewhereQuiet ==
    ASSUME Elsewhere
    PROVE  /\ UNCHANGED <<disk, memory>>
           /\ UNCHANGED faults \/ Fault("network")
BY DEF Elsewhere, Post, Expire, CtrlC, Restart, CheckShutdown, Reconnect, WaitForList,
   RecvClosed, QueryGroup, EndOfGroup, FetchFails, Archived, ReturnFromGroup, awVars

\* The next-state relation, sorted by what the writer does.
LEMMA NextCases ==
    ASSUME Next
    PROVE  Elsewhere \/ Recv \/ FetchArticle \/ ArticleUnavailable \/ InWriter
           \/ DropWriter \/ Kill
BY DEF Next, WorkerNext, Environment, Elsewhere

-----------------------------------------------------------------------------
(***************************************************************************)
(* Types.  An article number that reaches the writer is one of the group,  *)
(* as the loop of read_new_mails starts at 1 or later and ends at high.    *)
(***************************************************************************)
WorkerTypes ==
    /\ high \in 0 .. MaxId /\ low \in 1 .. MaxId + 1 /\ low <= high + 1
    /\ pc \in Places
    /\ nextMail \in 0 .. MaxId + 1 /\ groupHigh \in 0 .. MaxId
    /\ failed \in BOOLEAN /\ needsReconnection \in BOOLEAN
    /\ shutdown \in BOOLEAN
    /\ pc = "fetch" => nextMail >= 1
    /\ pc = "archive" => nextMail \in Ids

NntpTypeInv == TypeInv /\ WorkerTypes

\* The article the loop is at, when it may still be fetched.
LEMMA FetchingId ==
    ASSUME NntpTypeInv, Fetching
    PROVE  nextMail \in Ids
BY SizesAssumption DEF NntpTypeInv, WorkerTypes, Fetching, Ids

\* To the writer, the worker is one of its clients.
LEMMA WorkerIsClient ==
    ASSUME NntpTypeInv, Next
    PROVE  \/ AWNext \/ Crash
           \/ UNCHANGED <<disk, memory>> /\ faults' \in 0 .. MaxFaults
<1>1. CASE Elsewhere
  BY <1>1, ElsewhereQuiet, FaultType DEF NntpTypeInv, TypeInv, TypeOK
<1>2. CASE Recv
  BY <1>2 DEF Recv, AWNext
<1>3. CASE FetchArticle
  BY <1>3, FetchingId DEF FetchArticle, AWNext
<1>4. CASE ArticleUnavailable
  BY <1>4, FetchingId DEF ArticleUnavailable, AWNext
<1>5. CASE InWriter \/ DropWriter \/ Kill
  BY <1>5 DEF InWriter, DropWriter, Kill, AWNext
<1> QED BY <1>1, <1>2, <1>3, <1>4, <1>5, NextCases

\* Every step of the worker, the server or the operator keeps the types.
LEMMA NntpTypeInvStep ==
    ASSUME NntpTypeInv, Next
    PROVE  NntpTypeInv'
<1>1. TypeInv'
  <2>1. CASE AWNext \/ Crash
    BY <2>1, TypeInvStep DEF NntpTypeInv
  <2>2. CASE UNCHANGED <<disk, memory>> /\ faults' \in 0 .. MaxFaults
    BY <2>2 DEF NntpTypeInv, TypeInv, TypeOK, disk, memory
  <2> QED BY <2>1, <2>2, WorkerIsClient
<1>2. WorkerTypes'
  <2> USE SizesAssumption DEF NntpTypeInv, WorkerTypes, Places, Stopped
  <2>1. CASE Post \/ Expire \/ CtrlC \/ Restart
    <3>1. /\ high' \in 0 .. MaxId /\ low' \in 1 .. MaxId + 1 /\ low' <= high' + 1
          /\ UNCHANGED <<nextMail, groupHigh>>
      BY <2>1 DEF Post, Expire, CtrlC, Restart, worker, server
    <3>2. /\ pc' \in Places /\ failed' \in BOOLEAN /\ needsReconnection' \in BOOLEAN
          /\ shutdown' \in BOOLEAN /\ pc' \in {pc, "check"}
      BY <2>1 DEF Post, Expire, CtrlC, Restart, worker, server
    <3> QED BY <3>1, <3>2
  <2>2. CASE CheckShutdown \/ Reconnect \/ WaitForList \/ RecvClosed \/ EndOfGroup
             \/ FetchFails \/ ReturnFromGroup
    <3>1. UNCHANGED <<high, low, nextMail, groupHigh, shutdown>>
      BY <2>2 DEF CheckShutdown, Reconnect, WaitForList, RecvClosed, EndOfGroup,
         FetchFails, ReturnFromGroup, server
    <3>2. pc' \in {"done", "dead", "recv", "return", "check"}
      BY <2>2 DEF CheckShutdown, Reconnect, WaitForList, RecvClosed, EndOfGroup,
         FetchFails, ReturnFromGroup
    <3>3. failed' \in BOOLEAN /\ needsReconnection' \in BOOLEAN
      BY <2>2 DEF CheckShutdown, Reconnect, WaitForList, RecvClosed, EndOfGroup,
         FetchFails, ReturnFromGroup
    <3> QED BY <3>1, <3>2, <3>3
  <2>3. CASE QueryGroup
    <3>1. Larger(progress, low) \in 1 .. MaxId + 1
      BY DEF Larger, TypeInv, TypeOK
    <3>2. CASE pc' = "fetch"
      BY <2>3, <3>1, <3>2 DEF QueryGroup, FirstMail, server
    <3>3. CASE pc' # "fetch"
      <4>1. /\ pc' = "return" /\ failed' \in BOOLEAN
            /\ UNCHANGED <<high, low, nextMail, groupHigh, needsReconnection, shutdown>>
        BY <2>3, <3>3 DEF QueryGroup, server
      <4> QED BY <4>1
    <3> QED BY <3>2, <3>3
  <2>4. CASE Archived
    <3>1. nextMail \in 1 .. MaxId
      BY <2>4 DEF Archived, Ids
    <3>2. /\ UNCHANGED <<high, low, groupHigh, needsReconnection, shutdown>>
          /\ failed' \in BOOLEAN /\ pc' \in {"fetch", "return"}
          /\ nextMail' \in {nextMail, nextMail + 1}
      BY <2>4 DEF Archived, server
    <3> QED BY <3>1, <3>2
  <2>5. CASE Recv \/ Kill
    BY <2>5 DEF Recv, Kill, server
  <2>6. CASE FetchArticle
    BY <2>6, FetchingId DEF FetchArticle, server
  <2>7. CASE ArticleUnavailable
    BY <2>7, FetchingId DEF ArticleUnavailable, server, Fetching, Ids
  <2>8. CASE InWriter \/ DropWriter
    BY <2>8 DEF InWriter, DropWriter, server, worker
  <2> QED BY <2>1, <2>2, <2>3, <2>4, <2>5, <2>6, <2>7, <2>8, NextCases DEF Elsewhere
<1> QED BY <1>1, <1>2 DEF NntpTypeInv

\* ... and so does a step that changes nothing.
LEMMA NntpTypeInvStutter ==
    ASSUME NntpTypeInv, UNCHANGED vars
    PROVE  NntpTypeInv'
BY TypeInvStutter DEF NntpTypeInv, WorkerTypes, vars, worker, server

\* The types hold before the first run of the archiver.
LEMMA NntpTypeInvInit ==
    ASSUME Init
    PROVE  NntpTypeInv
<1>1. TypeInv
  BY TypeInvInit DEF Init
<1>2. 0 \in 0 .. MaxId /\ 1 \in 1 .. MaxId + 1 /\ 0 \in 0 .. MaxId + 1
  BY SizesAssumption
<1>3. /\ high \in 0 .. MaxId /\ low \in 1 .. MaxId + 1 /\ low <= high + 1
      /\ nextMail \in 0 .. MaxId + 1 /\ groupHigh \in 0 .. MaxId
  BY <1>2 DEF Init
<1>4. /\ pc \in Places /\ pc \notin {"fetch", "archive"}
      /\ failed \in BOOLEAN /\ needsReconnection \in BOOLEAN /\ shutdown \in BOOLEAN
  BY DEF Init, Places
<1> QED BY <1>1, <1>3, <1>4 DEF NntpTypeInv, WorkerTypes

\* The variables of worker and writer keep their types in every behaviour.
THEOREM NntpTypes == Spec => []NntpTypeOK
<1>1. NntpTypeInv /\ [Next]_vars => NntpTypeInv'
  BY NntpTypeInvStep, NntpTypeInvStutter
<1>2. NntpTypeInv => NntpTypeOK
  BY DEF NntpTypeInv, TypeInv, WorkerTypes, NntpTypeOK
<1> QED BY NntpTypeInvInit, <1>1, <1>2, PTL DEF Spec

-----------------------------------------------------------------------------
(***************************************************************************)
(* Order.  The loop of read_new_mails starts at the saved progress or      *)
(* later and counts up, so the e-mails in the writer's memory are in       *)
(* increasing order, none before the progress, none after the loop.        *)
(***************************************************************************)
\* Where the worker is while its writer is in a call.
Together ==
    /\ pc \in {"check", "recv"} \cup Stopped => call = "none"
    /\ pc = "group" => call = "idle" /\ buffer = <<>>
    /\ pc = "fetch" => call = "idle"
    /\ pc = "archive" => call \in InCall \cup {"idle", "failed"}
    /\ call \in InCall => pc = "archive" /\ cur = nextMail
    /\ call \in {"none", "rawwrite", "rotate", "commit", "footer", "save"}
          => buffer = <<>>
    /\ WriteMode = "raw" => buffer = <<>>
    /\ call \notin {"rotate", "commit", "footer", "save"} => synced = <<>>

Increasing(s) == \A i, j \in DOMAIN s : i < j => s[i] < s[j]

AllFrom(s, n) == \A x \in Rng(s) : n <= x
AllUpTo(s, n) == \A x \in Rng(s) : x <= n

Order ==
    /\ Increasing(buffer) /\ Increasing(synced)
    /\ AllFrom(buffer, progress) /\ AllFrom(synced, progress)
    /\ pc \in {"fetch", "archive"} => progress <= nextMail
    /\ pc = "fetch" => AllUpTo(buffer, nextMail - 1)
    /\ pc = "archive" => AllUpTo(buffer, nextMail) /\ AllUpTo(synced, nextMail)

\* The order facts hold of the empty buffer, file and batch.
LEMMA EmptyOrder ==
    ASSUME NEW n
    PROVE  Increasing(<<>>) /\ AllFrom(<<>>, n) /\ AllUpTo(<<>>, n)
BY DEF Increasing, AllFrom, AllUpTo, Rng

\* A batch stays in order when a later e-mail is appended.
LEMMA AppendOrder ==
    ASSUME NEW s \in Seq(Ids), NEW id \in Ids, NEW n \in 0 .. id,
           Increasing(s), AllUpTo(s, id - 1), AllFrom(s, n)
    PROVE  /\ Increasing(Append(s, id))
           /\ AllUpTo(Append(s, id), id)
           /\ AllFrom(Append(s, id), n)
<1>1. Rng(Append(s, id)) = Rng(s) \cup {id} /\ Rng(s) \subseteq Ids
  BY RngAppend, RngType
<1>2. id \in Nat /\ n \in Nat /\ n <= id
  BY SizesAssumption DEF Ids
<1>4. \A x \in Rng(s) : x \in Nat /\ x < id /\ n <= x
  <2> SUFFICES ASSUME NEW x \in Rng(s) PROVE x \in Nat /\ x < id /\ n <= x
    OBVIOUS
  <2>1. x \in Nat
    BY <1>1, SizesAssumption DEF Ids
  <2>2. x <= id - 1 /\ n <= x
    BY DEF AllUpTo, AllFrom
  <2> QED BY <2>1, <2>2, <1>2
<1>3. Increasing(Append(s, id))
  <2> DEFINE t == Append(s, id)
  <2>1. /\ Len(s) \in Nat /\ DOMAIN s = 1 .. Len(s) /\ DOMAIN t = 1 .. Len(s) + 1
        /\ t[Len(s) + 1] = id /\ \A i \in 1 .. Len(s) : t[i] = s[i] /\ s[i] \in Rng(s)
    BY DEF Rng
  <2> HIDE DEF t
  <2> SUFFICES ASSUME NEW i \in 1 .. Len(s) + 1, NEW j \in 1 .. Len(s) + 1, i < j
               PROVE  t[i] < t[j]
    BY <2>1 DEF Increasing, t
  <2>2. CASE j \in 1 .. Len(s)
    BY <2>1, <2>2 DEF Increasing
  <2>3. CASE j = Len(s) + 1
    <3>1. t[i] \in Rng(s) /\ t[j] = id
      BY <2>1, <2>3
    <3> QED BY <3>1, <1>4
  <2> QED BY <2>1, <2>2, <2>3
<1>5. \A x \in Rng(Append(s, id)) : x <= id /\ n <= x
  BY <1>1, <1>2, <1>4
<1> QED BY <1>3, <1>5 DEF AllUpTo, AllFrom

\* The e-mails after the first of a batch come after it.
LEMMA TailOrder ==
    ASSUME NEW s \in Seq(Ids), s # <<>>, Increasing(s)
    PROVE  /\ Increasing(Tail(s))
           /\ AllFrom(Tail(s), Head(s))
           /\ \A n : AllUpTo(s, n) => AllUpTo(Tail(s), n)
<1> DEFINE t == Tail(s)
<1>1. /\ t \in Seq(Ids) /\ Len(t) = Len(s) - 1
      /\ \A i \in 1 .. Len(t) : t[i] = s[i + 1]
  BY HeadTailProperties
<1>2. /\ Len(s) \in Nat \ {0} /\ Head(s) = s[1]
      /\ DOMAIN s = 1 .. Len(s) /\ DOMAIN t = 1 .. Len(s) - 1
  BY <1>1, EmptySeq
<1>3. \A i \in 1 .. Len(s) : s[i] \in Ids
  BY <1>2
<1> HIDE DEF t
<1>4. Increasing(t)
  <2> SUFFICES ASSUME NEW i \in 1 .. Len(s) - 1, NEW j \in 1 .. Len(s) - 1, i < j
               PROVE  t[i] < t[j]
    BY <1>2 DEF Increasing
  <2>1. t[i] = s[i + 1] /\ t[j] = s[j + 1]
    BY <1>1
  <2>2. i + 1 \in DOMAIN s /\ j + 1 \in DOMAIN s /\ i + 1 < j + 1
    BY <1>2
  <2> QED BY <2>1, <2>2 DEF Increasing
<1>5. AllFrom(t, Head(s))
  <2> SUFFICES ASSUME NEW i \in 1 .. Len(s) - 1 PROVE s[1] <= t[i]
    BY <1>2 DEF AllFrom, Rng
  <2>1. t[i] = s[i + 1] /\ 1 \in DOMAIN s /\ i + 1 \in DOMAIN s /\ 1 < i + 1
    BY <1>1, <1>2
  <2>2. s[1] < s[i + 1]
    BY <2>1 DEF Increasing
  <2>3. s[1] \in Nat /\ s[i + 1] \in Nat
    <3>1. s[1] \in Ids /\ s[i + 1] \in Ids
      BY <2>1, <1>2, <1>3
    <3> QED BY <3>1, SizesAssumption DEF Ids
  <2> QED BY <2>1, <2>2, <2>3
<1>6. \A n : AllUpTo(s, n) => AllUpTo(t, n)
  BY RngHeadTail DEF AllUpTo, t
<1> QED BY <1>4, <1>5, <1>6 DEF t

\* Every step keeps the worker's place and the writer's call in agreement.
LEMMA TogetherStep ==
    ASSUME NntpTypeInv, Together, Next
    PROVE  Together'
<1> USE DEF Together, Stopped, InCall
<1>1. CASE Elsewhere
  <2>1. UNCHANGED <<call, cur, buffer, synced>>
    BY <1>1, ElsewhereQuiet DEF memory
  <2>2. CASE Post \/ Expire \/ CtrlC \/ Restart
    BY <2>1, <2>2 DEF Post, Expire, CtrlC, Restart, worker, Stopped
  <2>3. CASE CheckShutdown \/ Reconnect \/ WaitForList \/ RecvClosed \/ EndOfGroup
             \/ FetchFails \/ ReturnFromGroup
    BY <2>1, <2>3 DEF CheckShutdown, Reconnect, WaitForList, RecvClosed, EndOfGroup,
       FetchFails, ReturnFromGroup, Fetching
  <2>4. CASE QueryGroup \/ Archived
    BY <2>1, <2>4 DEF QueryGroup, Archived
  <2> QED BY <1>1, <2>2, <2>3, <2>4 DEF Elsewhere
<1>2. CASE Recv
  BY <1>2 DEF Recv, New
<1>3. CASE FetchArticle
  BY <1>3 DEF FetchArticle, AddEmail, Fetching
<1>4. CASE ArticleUnavailable
  BY <1>4 DEF ArticleUnavailable, LogError, memory, Fetching
<1>5. CASE InWriter
  <2>1. UNCHANGED <<pc, nextMail>>
    BY <1>5 DEF InWriter, worker
  <2>2. CASE WriteRaw \/ KeepBuffered \/ CommitProgress \/ AppendLineage
    <3>1. pc = "archive" /\ call \in InCall
      BY <2>2 DEF WriteRaw, KeepBuffered, CommitProgress, AppendLineage
    <3>2. UNCHANGED buffer /\ call' \in {"commit", "failed", "lineage", "idle"}
      BY <2>2 DEF WriteRaw, KeepBuffered, CommitProgress, AppendLineage, disk
    <3>3. call' \in InCall => UNCHANGED cur
      BY <2>2 DEF WriteRaw, KeepBuffered, CommitProgress, AppendLineage
    <3>4. call' = "commit" => call \in {"rawwrite", "commit"}
      BY <2>2 DEF WriteRaw, KeepBuffered, CommitProgress, AppendLineage
    <3>5. call' # "commit" => synced' = <<>>
      <4>1. CASE CommitProgress
        BY <4>1, TailOfOne DEF CommitProgress, NntpTypeInv, TypeInv, TypeOK
      <4>2. CASE WriteRaw \/ KeepBuffered \/ AppendLineage
        BY <4>2 DEF WriteRaw, KeepBuffered, AppendLineage
      <4> QED BY <2>2, <4>1, <4>2
    <3> QED BY <2>1, <3>1, <3>2, <3>3, <3>4, <3>5
  <2>3. CASE Flush \/ Rotate
    BY <2>1, <2>3 DEF Flush, FlushBatch, Rotate
  <2>4. CASE CloseFlush \/ CloseFooter \/ SaveLast
    <3>1. call \in {"closing", "footer", "save"} /\ pc = "return"
      BY <2>4 DEF CloseFlush, CloseFooter, SaveLast, NntpTypeInv, WorkerTypes, Places
    <3>2. /\ call' \in {"footer", "save", "none"}
          /\ buffer' = <<>> /\ (call' = "none" => synced' = <<>>)
      BY <2>4, <3>1 DEF CloseFlush, CloseFooter, SaveLast, FlushBatch, Release
    <3> QED BY <2>1, <3>1, <3>2
  <2> QED BY <1>5, <2>2, <2>3, <2>4 DEF InWriter, WriterStep
<1>6. CASE DropWriter
  BY <1>6 DEF DropWriter, BeginDrop, worker
<1>7. CASE Kill
  BY <1>7 DEF Kill, Crash, Release
<1> QED BY <1>1, <1>2, <1>3, <1>4, <1>5, <1>6, <1>7, NextCases

\* The progress and the order of the batches, over one step of the writer.
WriterOrder ==
    /\ Increasing(buffer) /\ Increasing(synced)
    /\ AllFrom(buffer, progress) /\ AllFrom(synced, progress)
    /\ pc = "archive" =>
          progress <= nextMail /\ AllUpTo(buffer, nextMail) /\ AllUpTo(synced, nextMail)

\* The writer moves e-mails on without changing their order.
LEMMA WriterOrderStep ==
    ASSUME NntpTypeInv, Together, WriterOrder, InWriter
    PROVE  WriterOrder' /\ progress' >= progress
<1> USE DEF WriterOrder
<1>0. /\ buffer \in Seq(Ids) /\ synced \in Seq(Ids) /\ progress \in Nat
      /\ pc = "archive" => nextMail \in Nat
      /\ UNCHANGED <<pc, nextMail>>
  BY SizesAssumption DEF NntpTypeInv, TypeInv, TypeOK, WorkerTypes, InWriter, worker
<1>1. CASE /\ UNCHANGED progress
           /\ buffer' \in {buffer, <<>>} /\ synced' \in {synced, buffer, <<>>}
  BY <1>0, <1>1, EmptyOrder
<1>2. CASE WriteRaw
  <2>1. CASE call' = "commit"
    <3>1. synced' = <<nextMail>> /\ UNCHANGED <<progress, buffer>> /\ pc = "archive"
      BY <1>2, <2>1 DEF WriteRaw, Together, InCall
    <3>2. /\ Increasing(<<nextMail>>)
          /\ AllFrom(<<nextMail>>, progress) /\ AllUpTo(<<nextMail>>, nextMail)
      BY <1>0, <3>1 DEF Increasing, AllFrom, AllUpTo, Rng
    <3> QED BY <1>0, <3>1, <3>2
  <2>2. CASE call' # "commit"
    BY <1>1, <1>2, <2>2 DEF WriteRaw
  <2> QED BY <2>1, <2>2
<1>3. CASE CommitProgress
  <2>1. synced # <<>> /\ buffer = <<>> /\ UNCHANGED buffer /\ pc = "archive"
    BY <1>3 DEF CommitProgress, NntpTypeInv, TypeInv, Together, InCall
  <2>2. CASE progress' = Head(synced) /\ synced' = Tail(synced)
    <3>1. Head(synced) \in Rng(synced)
      BY <2>1, <1>0, RngHeadTail
    <3>2. Increasing(Tail(synced)) /\ AllFrom(Tail(synced), Head(synced))
          /\ AllUpTo(Tail(synced), nextMail)
      BY <2>1, <1>0, TailOrder
    <3>3. progress <= Head(synced) /\ Head(synced) <= nextMail
      BY <3>1, <2>1 DEF AllFrom, AllUpTo
    <3> QED BY <1>0, <2>1, <2>2, <3>2, <3>3, EmptyOrder
  <2>3. CASE UNCHANGED progress /\ synced' = <<>>
    BY <1>1, <2>1, <2>3
  <2> QED BY <1>3, <2>2, <2>3 DEF CommitProgress, SaveProgress
<1>4. CASE SaveLast
  <2>1. pc # "archive" /\ buffer' = <<>> /\ synced' = <<>>
    BY <1>4 DEF SaveLast, Together, InCall, Release
  <2>2. progress' >= progress
    <3>1. synced # <<>> => Last(synced) \in Rng(synced)
      BY <1>0, RngLast
    <3> QED BY <1>0, <1>4, <3>1 DEF SaveLast, SaveProgress, AllFrom
  <2> QED BY <1>0, <2>1, <2>2, EmptyOrder
<1>5. ASSUME KeepBuffered \/ Flush \/ Rotate \/ AppendLineage \/ CloseFlush \/ CloseFooter
      PROVE  /\ UNCHANGED progress
             /\ buffer' \in {buffer, <<>>} /\ synced' \in {synced, buffer, <<>>}
  BY <1>5 DEF KeepBuffered, Flush, FlushBatch, Rotate, AppendLineage, CloseFlush,
     CloseFooter, Release, disk
<1> QED BY <1>1, <1>2, <1>3, <1>4, <1>5 DEF InWriter, WriterStep

\* The order is kept, and the progress does not move back.
LEMMA OrderStep ==
    ASSUME NntpTypeInv, Together, Order, Next
    PROVE  Order' /\ progress' >= progress
<1>0. /\ buffer \in Seq(Ids) /\ synced \in Seq(Ids) /\ progress \in Nat
      /\ nextMail \in Nat /\ low \in Nat
  BY SizesAssumption DEF NntpTypeInv, TypeInv, TypeOK, WorkerTypes
<1>1. CASE Elsewhere
  <2>1. UNCHANGED <<call, buffer, synced, progress>>
    BY <1>1, ElsewhereQuiet DEF memory, disk
  <2>2. CASE pc' \notin {"fetch", "archive"} \/ UNCHANGED <<pc, nextMail>>
    BY <1>0, <2>1, <2>2 DEF Order
  <2>3. CASE QueryGroup
    <3>1. CASE pc' = "fetch"
      <4>1. buffer = <<>> /\ synced = <<>> /\ nextMail' = Larger(progress, low)
        BY <2>3, <3>1 DEF QueryGroup, FirstMail, Together
      <4>2. progress <= Larger(progress, low)
        BY <1>0 DEF Larger
      <4> QED BY <1>0, <2>1, <3>1, <4>1, <4>2, EmptyOrder DEF Order
    <3>2. CASE pc' # "fetch"
      BY <2>2, <2>3, <3>2 DEF QueryGroup
    <3> QED BY <3>1, <3>2
  <2>4. CASE Archived
    <3>1. CASE pc' = "fetch"
      <4>1. nextMail' = nextMail + 1 /\ pc = "archive"
        BY <2>4, <3>1 DEF Archived
      <4>2. nextMail' - 1 = nextMail /\ progress <= nextMail'
        BY <1>0, <4>1 DEF Order
      <4> QED BY <1>0, <2>1, <3>1, <4>1, <4>2 DEF Order
    <3>2. CASE pc' # "fetch"
      BY <2>2, <2>4, <3>2 DEF Archived
    <3> QED BY <3>1, <3>2
  <2>5. CASE Post \/ Expire \/ CtrlC \/ Restart
    BY <2>2, <2>5 DEF Post, Expire, CtrlC, Restart, worker
  <2>6. CASE CheckShutdown \/ Reconnect \/ WaitForList \/ RecvClosed \/ EndOfGroup
             \/ FetchFails \/ ReturnFromGroup
    BY <2>2, <2>6 DEF CheckShutdown, Reconnect, WaitForList, RecvClosed, EndOfGroup,
       FetchFails, ReturnFromGroup
  <2> QED BY <1>1, <2>3, <2>4, <2>5, <2>6 DEF Elsewhere
<1>2. CASE Recv
  BY <1>0, <1>2 DEF Recv, New, disk, Order
<1>3. CASE FetchArticle
  <2>1. /\ pc = "fetch" /\ nextMail \in Ids /\ pc' = "archive"
        /\ UNCHANGED <<nextMail, progress, synced>>
        /\ buffer' \in {buffer, Append(buffer, nextMail)}
    BY <1>3, FetchingId DEF FetchArticle, AddEmail, Fetching
  <2>2. /\ Increasing(buffer) /\ AllUpTo(buffer, nextMail - 1) /\ AllFrom(buffer, progress)
        /\ progress \in 0 .. nextMail
    BY <1>0, <2>1 DEF Order
  <2>3. /\ Increasing(Append(buffer, nextMail)) /\ AllFrom(Append(buffer, nextMail), progress)
        /\ AllUpTo(Append(buffer, nextMail), nextMail)
    BY <1>0, <2>1, <2>2, AppendOrder
  <2>4. AllUpTo(buffer, nextMail)
    <3> SUFFICES ASSUME NEW x \in Rng(buffer) PROVE x <= nextMail
      BY DEF AllUpTo
    <3>1. x \in Nat /\ x <= nextMail - 1
      BY <1>0, <2>2, RngType, SizesAssumption DEF AllUpTo, Ids
    <3> QED BY <1>0, <3>1
  <2>5. /\ Increasing(synced') /\ AllFrom(synced', progress') /\ AllUpTo(synced', nextMail')
    BY <2>1, EmptyOrder DEF Together
  <2>6. /\ Increasing(buffer') /\ AllFrom(buffer', progress') /\ AllUpTo(buffer', nextMail')
    BY <2>1, <2>2, <2>3, <2>4
  <2> QED BY <1>0, <2>1, <2>2, <2>5, <2>6 DEF Order
<1>4. CASE ArticleUnavailable
  <2>1. /\ pc = "fetch" /\ UNCHANGED <<pc, call, buffer, synced, progress>>
        /\ nextMail' = nextMail + 1
    BY <1>4 DEF ArticleUnavailable, LogError, memory, Fetching
  <2>2. AllUpTo(buffer, nextMail' - 1)
    <3> SUFFICES ASSUME NEW x \in Rng(buffer) PROVE x <= nextMail
      BY <1>0, <2>1 DEF AllUpTo
    <3>1. x \in Nat /\ x <= nextMail - 1
      BY <1>0, <2>1, RngType, SizesAssumption DEF AllUpTo, Ids, Order
    <3> QED BY <1>0, <3>1
  <2> QED BY <1>0, <2>1, <2>2 DEF Order
<1>5. CASE InWriter
  <2>1. WriterOrder /\ (pc = "fetch" => call = "idle")
    BY DEF Order, WriterOrder, Together
  <2>2. UNCHANGED <<pc, nextMail>> /\ pc # "fetch"
    BY <1>5, <2>1 DEF InWriter, worker, WriterStep, WriteRaw, KeepBuffered, Flush, Rotate,
       CommitProgress, AppendLineage, CloseFlush, CloseFooter, SaveLast
  <2> QED BY <1>5, <2>1, <2>2, WriterOrderStep DEF WriterOrder, Order
<1>6. CASE DropWriter
  BY <1>0, <1>6 DEF DropWriter, BeginDrop, disk, worker, Order
<1>7. CASE Kill
  BY <1>0, <1>7, EmptyOrder DEF Kill, Crash, Release, Order
<1> QED BY <1>1, <1>2, <1>3, <1>4, <1>5, <1>6, <1>7, NextCases

\* A step that changes nothing keeps the order facts.
LEMMA OrderStutter ==
    ASSUME Together, Order, UNCHANGED vars
    PROVE  Together' /\ Order'
BY DEF Together, Order, vars, awVars, disk, memory, worker

\* The order facts hold before the first run.
LEMMA OrderInit ==
    ASSUME Init
    PROVE  Together /\ Order
BY EmptyOrder DEF Init, AWInit, Together, Order, Stopped, InCall

\* The saved progress never moves back, for every write mode, every file size
\* and all faults: a resumed worker never starts before where it was.
THEOREM ProgressNeverBack == Spec => ProgressMonotone
<1> DEFINE Inv == NntpTypeInv /\ Together /\ Order
<1>1. Init => Inv
  BY NntpTypeInvInit, OrderInit
<1>2. Inv /\ [Next]_vars => Inv'
  BY NntpTypeInvStep, NntpTypeInvStutter, TogetherStep, OrderStep, OrderStutter
<1>3. Inv /\ [Next]_vars => [progress' >= progress]_vars
  BY OrderStep
<1> QED BY <1>1, <1>2, <1>3, PTL DEF Spec, ProgressMonotone

-----------------------------------------------------------------------------
(***************************************************************************)
(* No gap.  Every article before the loop is settled, or in the memory of  *)
(* the writer, and what is in memory leaves no article behind.             *)
(***************************************************************************)
\* All articles up to n are settled or still with the writer.
Accounted(n) ==
    \A a \in 1 .. n : Settled(a) \/ a \in Rng(buffer) \/ a \in Rng(arrow)

\* A batch leaves no article behind.
Gapless(s) == \A x \in Rng(s) : \A a \in 1 .. x : Settled(a) \/ a \in Rng(s)

NoGap ==
    /\ Gapless(buffer)
    /\ call \in {"rotate", "footer"} => Gapless(synced)
    /\ call \in {"commit", "save"} =>
          \A x \in Rng(synced) : \A a \in 1 .. x : Settled(a)
    /\ pc = "fetch" => Accounted(nextMail - 1)
    /\ pc = "archive" /\ call = "rawwrite" => Accounted(nextMail - 1)
    /\ pc = "archive" /\ call \notin {"rawwrite", "failed"} => Accounted(nextMail)
    /\ NoLostEmail

\* What is settled stays settled, unless a raw file is truncated.
LEMMA SettledGrows ==
    ASSUME low \in Nat, low' \in Nat, low <= low',
           stored \subseteq stored', errors \subseteq errors'
    PROVE  \A a \in Nat : Settled(a) => Settled(a)'
BY DEF Settled

\* A step that settles articles and leaves the writer's memory alone.
LEMMA NoGapQuiet ==
    ASSUME NntpTypeInv, NoGap, \A a \in Nat : Settled(a) => Settled(a)',
           UNCHANGED <<call, buffer, arrow, synced, progress>>,
           pc' \notin {"fetch", "archive"} \/ UNCHANGED <<pc, nextMail>>
    PROVE  NoGap'
<1>0. /\ progress \in Nat /\ nextMail \in Nat
      /\ Rng(buffer) \subseteq Nat /\ Rng(synced) \subseteq Nat
  BY RngType, SizesAssumption DEF NntpTypeInv, TypeInv, TypeOK, WorkerTypes, Ids
<1>1. Gapless(buffer)' /\ (call \in {"rotate", "footer"} => Gapless(synced)')
  BY <1>0 DEF NoGap, Gapless
<1>2. call \in {"commit", "save"} =>
         \A x \in Rng(synced) : \A a \in 1 .. x : Settled(a)'
  BY <1>0 DEF NoGap
<1>3. \A n \in Int : Accounted(n) => Accounted(n)'
  BY DEF Accounted
<1>4. NoLostEmail'
  BY <1>0 DEF NoGap, NoLostEmail
<1> QED BY <1>0, <1>1, <1>2, <1>3, <1>4 DEF NoGap

\* A finished file settles the e-mails of its batch and all before them.
LEMMA FileSettlesBatch ==
    ASSUME NntpTypeInv, Gapless(synced), FinishFile, arrow = synced, UNCHANGED <<errors, low>>
    PROVE  \A x \in Rng(synced) : \A a \in 1 .. x : Settled(a)'
BY DEF FinishFile, Gapless, Settled

\* No step of the writer alone opens a gap below the e-mails it holds.
LEMMA NoGapWriter ==
    ASSUME FilePerBatch, NntpTypeInv, Batches, Together, NoGap, InWriter
    PROVE  NoGap'
<1>0. /\ progress \in Nat /\ nextMail \in Nat /\ low \in Nat
      /\ buffer \in Seq(Ids) /\ synced \in Seq(Ids)
      /\ Rng(buffer) \subseteq Nat /\ Rng(synced) \subseteq Nat
      /\ UNCHANGED <<pc, nextMail, low>>
  BY RngType, SizesAssumption
     DEF NntpTypeInv, TypeInv, TypeOK, WorkerTypes, Ids, InWriter, worker, server
<1>1. /\ pc # "fetch" /\ (pc = "archive" <=> call \in InCall)
      /\ stored \subseteq stored' /\ UNCHANGED <<errors>>
  BY DEF InWriter, WriterStep, WriteRaw, KeepBuffered, Flush, FlushBatch, Rotate,
     CommitProgress, AppendLineage, CloseFlush, CloseFooter, SaveLast, FinishFile, disk,
     Together, InCall
<1>2. \A a \in Nat : Settled(a) => Settled(a)'
  BY <1>0, <1>1, SettledGrows
<1>3. /\ buffer' \in {buffer, <<>>}
      /\ call' # "rawwrite" /\ (call' # "failed" /\ pc = "archive" => call # "failed")
  BY <1>1 DEF InWriter, WriterStep, WriteRaw, KeepBuffered, Flush, FlushBatch, Rotate,
     CommitProgress, AppendLineage, CloseFlush, CloseFooter, SaveLast, Release, disk, InCall
<1>kept. Gapless(buffer)'
  <2>1. Gapless(buffer) /\ Rng(<<>>) = {}
    BY RngEmpty DEF NoGap
  <2> QED BY <1>0, <1>2, <1>3, <2>1 DEF Gapless
<1>4. CASE WriteRaw
  <2>1. /\ pc = "archive" /\ cur = nextMail /\ Rng(buffer) = {} /\ Rng(arrow) = {}
        /\ UNCHANGED <<progress, arrow, buffer>>
    BY <1>4, RngEmpty DEF WriteRaw, Together, InCall, Batches, Between
  <2>2. \A a \in 1 .. nextMail - 1 : Settled(a)'
    BY <1>0, <1>2, <1>4, <2>1 DEF NoGap, Accounted, WriteRaw
  <2>3. NoLostEmail'
    BY <1>0, <1>2, <2>1 DEF NoGap, NoLostEmail
  <2>4. CASE call' = "commit"
    <3>1. Settled(nextMail)' /\ Rng(synced') = {nextMail}
      <4>1. synced' = <<nextMail>> /\ stored' = stored \cup {nextMail}
        BY <1>4, <2>1, <2>4 DEF WriteRaw
      <4>2. Rng(<<nextMail>>) = {nextMail}
        BY DEF Rng
      <4>3. Settled(nextMail)'
        BY <1>0, <4>1 DEF Settled
      <4> QED BY <4>1, <4>2, <4>3
    <3>2. \A a \in 1 .. nextMail : Settled(a)'
      BY <1>0, <2>2, <3>1
    <3> QED BY <1>0, <1>1, <1>kept, <2>3, <2>4, <3>1, <3>2 DEF NoGap, Accounted
  <2>5. CASE call' # "commit"
    BY <1>0, <1>1, <1>4, <1>kept, <2>3, <2>5 DEF NoGap, WriteRaw
  <2> QED BY <2>4, <2>5
<1>5. CASE Flush
  <2>1. /\ pc = "archive" /\ call = "add" /\ RotationDue /\ UNCHANGED progress
    BY <1>5, FlushFillsFile DEF Flush, FlushBatch, disk, NntpTypeInv, Together, InCall
  <2>2. NoLostEmail'
    BY <1>0, <1>2, <2>1 DEF NoGap, NoLostEmail
  <2>3. CASE FlushBatch("rotate")
    <3>1. call' = "rotate" /\ arrow' = buffer /\ synced' = buffer /\ arrow = <<>>
      BY <2>1, <2>3, FlushToEmptyFile DEF FlushBatch, NntpTypeInv, TypeInv, Batches, Between
    <3>2. Gapless(synced)'
      BY <1>0, <1>2, <3>1 DEF NoGap, Gapless
    <3>3. Accounted(nextMail)'
      BY <1>0, <1>2, <2>1, <3>1, RngEmpty DEF NoGap, Accounted
    <3> QED BY <1>0, <1>1, <1>kept, <2>2, <3>1, <3>2, <3>3 DEF NoGap
  <2>4. CASE call' = "failed"
    BY <1>0, <1>1, <1>kept, <2>2, <2>4 DEF NoGap
  <2> QED BY <1>5, <2>1, <2>3, <2>4 DEF Flush
<1>6. CASE Rotate
  <2>1. /\ pc = "archive" /\ call = "rotate" /\ UNCHANGED progress
        /\ arrow = synced /\ buffer = <<>>
    BY <1>6 DEF Rotate, Together, InCall, Batches
  <2>2. NoLostEmail'
    BY <1>0, <1>2, <2>1 DEF NoGap, NoLostEmail
  <2>3. CASE call' = "commit"
    <3>1. FinishFile /\ UNCHANGED synced
      BY <1>6, <2>3 DEF Rotate
    <3>2. \A x \in Rng(synced') : \A a \in 1 .. x : Settled(a)'
      BY <1>0, <1>1, <2>1, <3>1, FileSettlesBatch DEF NoGap
    <3>3. Accounted(nextMail)'
      BY <1>0, <1>2, <2>1, <3>1, RngEmpty DEF NoGap, Accounted, FinishFile, Settled
    <3> QED BY <1>0, <1>1, <1>kept, <2>2, <2>3, <3>2, <3>3 DEF NoGap
  <2>4. CASE call' # "commit"
    <3>1. call' = "failed"
      BY <1>6, <2>4 DEF Rotate
    <3> QED BY <1>0, <1>1, <1>kept, <2>2, <3>1 DEF NoGap
  <2> QED BY <2>3, <2>4
<1>7. CASE CommitProgress
  <2>1. /\ pc = "archive" /\ call = "commit" /\ synced # <<>> /\ UNCHANGED <<buffer, arrow>>
    BY <1>7 DEF CommitProgress, NntpTypeInv, TypeInv, Together, InCall
  <2>2. Head(synced) \in Rng(synced) /\ Rng(Tail(synced)) \subseteq Rng(synced)
    BY <1>0, <2>1, RngHeadTail
  <2>3. /\ progress' \in {progress, Head(synced)} /\ synced' \in {<<>>, Tail(synced)}
        /\ call' \in {"commit", "lineage", "failed"}
    BY <1>7 DEF CommitProgress, SaveProgress
  <2>4. \A x \in Rng(synced) : \A a \in 1 .. x : Settled(a)'
    BY <1>0, <1>2, <2>1 DEF NoGap
  <2>5. NoLostEmail'
    BY <1>0, <1>2, <2>2, <2>3, <2>4 DEF NoGap, NoLostEmail
  <2>6. \A x \in Rng(synced') : \A a \in 1 .. x : Settled(a)'
    BY <2>2, <2>3, <2>4, RngEmpty
  <2>7. Accounted(nextMail)'
    BY <1>0, <1>2, <2>1 DEF NoGap, Accounted
  <2> QED BY <1>0, <1>1, <1>kept, <2>3, <2>5, <2>6, <2>7 DEF NoGap
<1>8. CASE KeepBuffered \/ AppendLineage
  <2>1. /\ call \in {"add", "lineage"} /\ call' \in {"idle", "lineage", "failed"}
        /\ UNCHANGED <<progress, buffer, arrow>>
    BY <1>8 DEF KeepBuffered, AppendLineage, disk
  <2>2. NoLostEmail'
    BY <1>0, <1>2, <2>1 DEF NoGap, NoLostEmail
  <2>3. pc = "archive" => Accounted(nextMail)'
    BY <1>0, <1>2, <2>1 DEF NoGap, Accounted
  <2> QED BY <1>0, <1>1, <1>kept, <2>1, <2>2, <2>3 DEF NoGap
<1>9. CASE CloseFlush
  <2>1. /\ call = "closing" /\ pc # "archive" /\ call' \in {"footer", "none"}
        /\ arrow = <<>> /\ synced = <<>> /\ UNCHANGED progress
    BY <1>9 DEF CloseFlush, FlushBatch, Release, disk, Batches, Together, InCall
  <2>2. NoLostEmail'
    BY <1>0, <1>2, <2>1 DEF NoGap, NoLostEmail
  <2>3. call' = "footer" => synced' \in {buffer, <<>>}
    BY <1>9, <2>1 DEF CloseFlush, FlushBatch, Release
  <2>4. call' = "footer" => Gapless(synced)'
    BY <1>0, <1>2, <2>3, RngEmpty DEF NoGap, Gapless
  <2> QED BY <1>0, <1>1, <1>kept, <2>1, <2>2, <2>4 DEF NoGap
<1>10. CASE CloseFooter
  <2>1. /\ call = "footer" /\ pc # "archive" /\ call' \in {"save", "none"}
        /\ arrow = synced /\ UNCHANGED progress
        /\ call' = "save" => FinishFile /\ UNCHANGED synced
    BY <1>10 DEF CloseFooter, Release, Batches, Together, InCall
  <2>2. NoLostEmail'
    BY <1>0, <1>2, <2>1 DEF NoGap, NoLostEmail
  <2>3. call' = "save" => \A x \in Rng(synced') : \A a \in 1 .. x : Settled(a)'
    BY <1>0, <1>1, <2>1, FileSettlesBatch DEF NoGap
  <2> QED BY <1>0, <1>1, <1>kept, <2>1, <2>2, <2>3 DEF NoGap
<1>11. CASE SaveLast
  <2>1. /\ call = "save" /\ pc # "archive" /\ call' = "none"
    BY <1>11 DEF SaveLast, Release, Together, InCall
  <2>2. synced # <<>> => Last(synced) \in Rng(synced)
    BY <1>0, RngLast
  <2>3. \A x \in Rng(synced) : \A a \in 1 .. x : Settled(a)'
    BY <1>0, <1>2, <2>1 DEF NoGap
  <2>4. progress' = progress \/ (synced # <<>> /\ progress' = Last(synced))
    BY <1>11 DEF SaveLast, SaveProgress
  <2>5. NoLostEmail'
    BY <1>0, <1>2, <2>2, <2>3, <2>4 DEF NoGap, NoLostEmail
  <2> QED BY <1>0, <1>1, <1>kept, <2>1, <2>5 DEF NoGap
<1> QED
  BY <1>4, <1>5, <1>6, <1>7, <1>8, <1>9, <1>10, <1>11 DEF InWriter, WriterStep

\* No step opens a gap below the progress or the e-mails held.
LEMMA NoGapStep ==
    ASSUME FilePerBatch, "errorlog" \notin Faults,
           NntpTypeInv, Batches, Together, Order, NoGap, Next
    PROVE  NoGap'
<1>0. /\ progress \in Nat /\ nextMail \in Nat /\ low \in Nat
      /\ buffer \in Seq(Ids) /\ Rng(buffer) \subseteq Nat
  BY RngType, SizesAssumption DEF NntpTypeInv, TypeInv, TypeOK, WorkerTypes, Ids
<1>1. CASE Elsewhere
  <2>1. UNCHANGED <<call, buffer, arrow, synced, progress, stored, errors>>
    BY <1>1, ElsewhereQuiet DEF memory, disk
  <2>2. low' \in Nat /\ low <= low'
    BY <1>0, <1>1 DEF Elsewhere, Post, Expire, CtrlC, Restart, CheckShutdown, Reconnect,
       WaitForList, RecvClosed, QueryGroup, EndOfGroup, FetchFails, Archived,
       ReturnFromGroup, server
  <2>3. \A a \in Nat : Settled(a) => Settled(a)'
    BY <1>0, <2>1, <2>2, SettledGrows
  <2>4. CASE pc' \notin {"fetch", "archive"} \/ UNCHANGED <<pc, nextMail>>
    BY <2>1, <2>3, <2>4, NoGapQuiet
  <2>5. CASE pc' = "fetch" /\ ~UNCHANGED <<pc, nextMail>>
    <3>1. Accounted(nextMail' - 1)
      <4>1. CASE QueryGroup
        <5>1. nextMail' = Larger(progress, low)
          BY <2>5, <4>1 DEF QueryGroup, FirstMail
        <5>2. \A a \in 1 .. nextMail' - 1 : a < progress \/ a < low
          BY <1>0, <5>1 DEF Larger
        <5>3. \A a \in 1 .. progress - 1 : Settled(a)
          BY <1>0 DEF NoGap, NoLostEmail
        <5> QED BY <1>0, <5>2, <5>3 DEF Accounted, Settled
      <4>2. CASE Archived
        <5>1. pc = "archive" /\ call = "idle" /\ nextMail' - 1 = nextMail
          BY <1>0, <2>5, <4>2 DEF Archived
        <5> QED BY <5>1 DEF NoGap
      <4> QED
        BY <1>1, <2>5, <4>1, <4>2 DEF Elsewhere, Post, Expire, CtrlC, Restart,
           CheckShutdown, Reconnect, WaitForList, RecvClosed, EndOfGroup, FetchFails,
           ReturnFromGroup, worker
    <3>2. /\ Gapless(buffer)' /\ NoLostEmail'
          /\ call' \in {"rotate", "footer"} => Gapless(synced)'
          /\ call' \in {"commit", "save"} =>
                \A x \in Rng(synced') : \A a \in 1 .. x : Settled(a)'
      <4>1. Rng(synced) \subseteq Nat
        BY RngType, SizesAssumption DEF NntpTypeInv, TypeInv, TypeOK, Ids
      <4> QED BY <1>0, <2>1, <2>3, <4>1 DEF NoGap, Gapless, NoLostEmail
    <3>3. Accounted(nextMail - 1)'
      BY <1>0, <2>1, <2>3, <3>1 DEF Accounted
    <3> QED BY <2>5, <3>2, <3>3 DEF NoGap
  <2>6. pc' = "archive" => UNCHANGED <<pc, nextMail>>
    BY <1>1 DEF Elsewhere, Post, Expire, CtrlC, Restart, CheckShutdown, Reconnect,
       WaitForList, RecvClosed, QueryGroup, EndOfGroup, FetchFails, Archived,
       ReturnFromGroup, worker
  <2> QED BY <2>4, <2>5, <2>6
<1>2. CASE Recv
  BY <1>2, NoGapQuiet DEF Recv, New, disk, server, Settled, NoGap, Gapless, Accounted,
     NoLostEmail
<1>3. CASE FetchArticle
  <2>1. /\ pc = "fetch" /\ call = "idle" /\ nextMail \in Ids /\ pc' = "archive"
        /\ AddEmail(nextMail) /\ Rng(arrow) = {}
        /\ UNCHANGED <<nextMail, progress, synced, arrow, errors, low>>
    BY <1>3, FetchingId, RngEmpty
       DEF FetchArticle, AddEmail, Fetching, Batches, Between, server
  <2>2. Accounted(nextMail - 1) /\ progress <= nextMail
    BY <2>1 DEF NoGap, Order
  <2>3. CASE WriteMode = "parquet"
    <3>1. call' = "add" /\ UNCHANGED stored /\ Rng(buffer') = Rng(buffer) \cup {nextMail}
      <4>1. call' = "add" /\ UNCHANGED stored /\ buffer' = Append(buffer, nextMail)
        BY <2>1, <2>3 DEF AddEmail
      <4>2. Rng(Append(buffer, nextMail)) = Rng(buffer) \cup {nextMail}
        BY <1>0, <2>1, RngAppend
      <4> QED BY <4>1, <4>2
    <3>2. \A a \in Nat : Settled(a) => Settled(a)'
      BY <1>0, <2>1, <3>1 DEF Settled
    <3>3. Accounted(nextMail)'
      BY <1>0, <2>1, <2>2, <3>1, <3>2 DEF Accounted
    <3>4. Gapless(buffer)'
      <4> SUFFICES ASSUME NEW x \in Rng(buffer'), NEW a \in 1 .. x
                   PROVE  Settled(a)' \/ a \in Rng(buffer')
        BY DEF Gapless
      <4>1. CASE x \in Rng(buffer)
        BY <1>0, <3>1, <3>2, <4>1 DEF NoGap, Gapless
      <4>2. CASE x = nextMail
        BY <2>1, <3>3, <4>2 DEF Accounted
      <4> QED BY <3>1, <4>1, <4>2
    <3>5. NoLostEmail'
      BY <1>0, <2>1, <3>2 DEF NoGap, NoLostEmail
    <3> QED BY <2>1, <3>1, <3>3, <3>4, <3>5 DEF NoGap
  <2>4. CASE WriteMode = "raw"
    <3>1. call' = "rawwrite" /\ stored' = stored \ {nextMail} /\ UNCHANGED buffer
      BY <2>1, <2>4 DEF AddEmail
    <3>2. buffer = <<>> /\ Rng(buffer) = {}
      BY <2>4, RngEmpty DEF Together
    <3>3. \A a \in Nat : a # nextMail /\ Settled(a) => Settled(a)'
      BY <1>0, <2>1, <3>1 DEF Settled
    <3>4. Accounted(nextMail - 1)'
      BY <1>0, <2>1, <2>2, <3>1, <3>3 DEF Accounted
    <3>5. NoLostEmail'
      BY <1>0, <2>1, <2>2, <2>4, <3>3 DEF NoGap, NoLostEmail
    <3>6. Gapless(buffer)'
      BY <3>1, <3>2 DEF Gapless
    <3> QED BY <2>1, <3>1, <3>4, <3>5, <3>6 DEF NoGap
  <2> QED BY <2>3, <2>4, ModesAssumption
<1>4. CASE ArticleUnavailable
  <2>1. /\ pc = "fetch" /\ UNCHANGED <<pc, call, buffer, arrow, synced, progress, stored, low>>
        /\ nextMail' = nextMail + 1 /\ errors' = errors \cup {nextMail} /\ call = "idle"
    BY <1>4 DEF ArticleUnavailable, LogError, memory, Fetching, Fault, server
  <2>2. \A a \in Nat : Settled(a) => Settled(a)'
    BY <1>0, <2>1, SettledGrows
  <2>3. Accounted(nextMail - 1)'
    <3>1. Accounted(nextMail - 1)
      BY <2>1 DEF NoGap
    <3>2. \A a \in Nat : a = nextMail => Settled(a)'
      BY <2>1 DEF Settled
    <3> QED BY <1>0, <2>1, <2>2, <3>1, <3>2 DEF Accounted
  <2>4. Gapless(buffer)' /\ NoLostEmail'
    BY <1>0, <2>1, <2>2 DEF NoGap, Gapless, NoLostEmail
  <2> QED BY <2>1, <2>3, <2>4 DEF NoGap
<1>5. CASE InWriter
  BY <1>5, NoGapWriter
<1>6. CASE DropWriter
  <2>1. /\ pc = "return" /\ UNCHANGED pc /\ call' = "closing"
        /\ UNCHANGED <<buffer, stored, errors, low, progress>>
    BY <1>6 DEF DropWriter, BeginDrop, disk, worker, server
  <2>2. \A a \in Nat : Settled(a) => Settled(a)'
    BY <1>0, <2>1, SettledGrows
  <2>3. Gapless(buffer)' /\ NoLostEmail'
    BY <1>0, <2>1, <2>2 DEF NoGap, Gapless, NoLostEmail
  <2> QED BY <2>1, <2>3 DEF NoGap
<1>7. CASE Kill
  <2>1. /\ pc' = "dead" /\ call' = "none" /\ buffer' = <<>>
        /\ UNCHANGED <<stored, errors, low, progress>>
    BY <1>7 DEF Kill, Crash, Release, server
  <2>2. \A a \in Nat : Settled(a) => Settled(a)'
    BY <1>0, <2>1, SettledGrows
  <2>3. Gapless(buffer)' /\ NoLostEmail'
    BY <1>0, <2>1, <2>2, RngEmpty DEF NoGap, Gapless, NoLostEmail
  <2> QED BY <2>1, <2>3 DEF NoGap
<1> QED BY <1>1, <1>2, <1>3, <1>4, <1>5, <1>6, <1>7, NextCases

\* There is no gap before the first run.
LEMMA NoGapInit ==
    ASSUME Init
    PROVE  NoGap
BY RngEmpty DEF Init, AWInit, NoGap, Gapless, NoLostEmail

\* The inductive invariant.
Safe == NntpTypeInv /\ Batches /\ Together /\ Order /\ NoGap

\* The inductive invariant holds before the first run.
LEMMA SafeInit ==
    ASSUME Init
    PROVE  Safe
BY NntpTypeInvInit, BatchesInit, OrderInit, NoGapInit DEF Init, Safe

\* The inductive invariant is kept by every step.
LEMMA SafeStep ==
    ASSUME FilePerBatch, "errorlog" \notin Faults, Safe, [Next]_vars
    PROVE  Safe'
<1>1. CASE Next
  <2>1. Batches'
    BY <1>1, WorkerIsClient, BatchesStep, BatchesStutter DEF Safe, NntpTypeInv
  <2> QED BY <1>1, <2>1, NntpTypeInvStep, TogetherStep, OrderStep, NoGapStep DEF Safe
<1>2. CASE UNCHANGED vars
  <2>1. Batches'
    BY <1>2, BatchesStutter DEF Safe, vars, awVars
  <2>2. NoGap'
    BY <1>2 DEF Safe, NoGap, Gapless, Accounted, NoLostEmail, Settled, vars, awVars, disk,
       memory, worker, server
  <2> QED BY <1>2, <2>1, <2>2, NntpTypeInvStutter, OrderStutter DEF Safe
<1> QED BY <1>1, <1>2

\* When a batch and its file end together and __errors.csv can be written, no
\* article is ever left behind the saved progress without being in a finished
\* file, listed as unavailable, or expired: whatever the list, the file size,
\* the server's answers, the kills and the I/O errors.
THEOREM NothingLost ==
    ASSUME FilePerBatch, "errorlog" \notin Faults
    PROVE  Spec => []NoLostEmail
<1>1. Safe => NoLostEmail
  BY DEF Safe, NoGap
<1> QED BY SafeInit, SafeStep, <1>1, PTL DEF Spec

-----------------------------------------------------------------------------
(***************************************************************************)
(* The worker implements Archive: a step stores a file, gives an article   *)
(* up, moves the resume point, or changes nothing a reader sees.           *)
(***************************************************************************)
LEMMA ArchiveInit ==
    ASSUME Init
    PROVE  AbstractArchive!Init
BY DEF Init, AWInit, AbstractArchive!Init

\* Every step of the worker is a step of the abstract archive or changes
\* nothing a reader of the archive can see.
LEMMA ArchiveStep ==
    ASSUME WriteMode = "parquet", Safe, Safe', [Next]_vars
    PROVE  [AbstractArchive!Next]_AbstractArchive!vars
<1> DEFINE unavailable == errors \cup 1 .. (low - 1)
<1>0. /\ progress \in Nat /\ progress' \in 0 .. MaxId /\ MaxId \in Nat
      /\ stored \subseteq Ids /\ stored' \subseteq Ids /\ low \in Nat
      /\ high \in 0 .. MaxId /\ synced \in Seq(Ids)
  BY SizesAssumption, SMTT(60) DEF Safe, NntpTypeInv, TypeInv, TypeOK, WorkerTypes
<1>1. CASE UNCHANGED <<stored, errors, low>>
  <2>1. progress' \in progress .. MaxId
    BY <1>0, OrderStep DEF Safe, vars, awVars, disk
  <2>2. 1 .. progress' \subseteq stored \cup unavailable
    <3> SUFFICES ASSUME NEW a \in 1 .. progress' PROVE a \in stored \cup unavailable
      OBVIOUS
    <3>1. NoLostEmail'
      BY DEF Safe, NoGap
    <3>2. Settled(a)'
      BY <3>1 DEF NoLostEmail
    <3>3. a \in stored \/ a \in errors \/ a < low
      BY <1>1, <3>2 DEF Settled
    <3> QED BY <1>0, <3>3
  <2> QED BY <1>1, <2>1, <2>2 DEF AbstractArchive!Next, AbstractArchive!Advance
<1>2. CASE UNCHANGED <<progress, errors, low>> /\ stored \subseteq stored'
  <2>1. stored' \in SUBSET (1 .. MaxId) /\ stored' = stored \cup stored'
    BY <1>0, <1>2 DEF Ids
  <2> QED BY <1>2, <2>1 DEF AbstractArchive!Next, AbstractArchive!Store
<1>3. ASSUME NEW id \in 1 .. MaxId, UNCHANGED <<progress, stored>>,
             unavailable' = unavailable \cup {id}
      PROVE  AbstractArchive!Next
  BY <1>3 DEF AbstractArchive!Next, AbstractArchive!GiveUp
<1>4. CASE Elsewhere
  <2>1. UNCHANGED <<progress, stored, errors>>
    BY <1>4, ElsewhereQuiet DEF disk
  <2>2. CASE Expire
    <3>1. low \in 1 .. MaxId /\ low' = low + 1
      BY <1>0, <2>2 DEF Expire, Safe, NntpTypeInv, WorkerTypes
    <3>2. 1 .. (low' - 1) = 1 .. (low - 1) \cup {low}
      BY <1>0, <3>1
    <3> QED BY <1>3, <2>1, <3>1, <3>2
  <2>3. CASE ~Expire
    <3>1. UNCHANGED low
      BY <1>4, <2>3 DEF Elsewhere, Post, CtrlC, Restart, CheckShutdown, Reconnect,
         WaitForList, RecvClosed, QueryGroup, EndOfGroup, FetchFails, Archived,
         ReturnFromGroup, server
    <3> QED BY <1>1, <2>1, <3>1
  <2> QED BY <2>2, <2>3
<1>5. CASE Recv \/ FetchArticle \/ DropWriter \/ Kill
  BY <1>1, <1>5 DEF Recv, New, FetchArticle, AddEmail, DropWriter, BeginDrop, Kill, Crash,
     disk, server
<1>6. CASE ArticleUnavailable
  <2>1. nextMail \in 1 .. MaxId
    BY <1>6, FetchingId DEF ArticleUnavailable, Ids, Safe
  <2>2. UNCHANGED <<progress, stored, low>>
        /\ (errors' = errors \cup {nextMail} \/ UNCHANGED errors)
    BY <1>6 DEF ArticleUnavailable, LogError, server
  <2>3. CASE UNCHANGED errors
    BY <1>1, <2>2, <2>3
  <2>4. CASE errors' = errors \cup {nextMail}
    BY <1>3, <2>1, <2>2, <2>4
  <2> QED BY <2>2, <2>3, <2>4
<1>7. CASE InWriter
  <2>1. UNCHANGED <<errors, low>>
    BY <1>7 DEF InWriter, WriterStep, WriteRaw, KeepBuffered, Flush, FlushBatch, Rotate,
       CommitProgress, AppendLineage, CloseFlush, CloseFooter, SaveLast, FinishFile, disk,
       server
  <2>2. CASE CommitProgress \/ SaveLast
    BY <1>1, <2>1, <2>2 DEF CommitProgress, SaveLast
  <2>3. CASE ~(CommitProgress \/ SaveLast)
    BY <1>2, <1>7, <2>1, <2>3 DEF InWriter, WriterStep, WriteRaw, KeepBuffered, Flush,
       FlushBatch, Rotate, AppendLineage, CloseFlush, CloseFooter, FinishFile, disk
  <2> QED BY <2>2, <2>3
<1>8. CASE UNCHANGED vars
  BY <1>8 DEF vars, awVars, disk, server, AbstractArchive!vars
<1> QED BY <1>4, <1>5, <1>6, <1>7, <1>8, NextCases

\* For a reader of a list's directory the worker is the abstract archive: what
\* it finds only grows, and the resume point moves forward over settled
\* articles only.
THEOREM WorkerImplementsArchive ==
    ASSUME WriteMode = "parquet", FilePerBatch, "errorlog" \notin Faults
    PROVE  Spec => ImplementsArchive
<1>1. Safe /\ Safe' /\ [Next]_vars => [AbstractArchive!Next]_AbstractArchive!vars
  BY ArchiveStep
<1> QED
  BY SafeInit, SafeStep, ArchiveInit, <1>1, PTL
     DEF Spec, ImplementsArchive, AbstractArchive!Spec

-----------------------------------------------------------------------------
(***************************************************************************)
(* What a worker leaves on the disk.  First the undisturbed one: CleanStop *)
(* and RefetchOnlyLast; then, after faults, what is lost of files of any   *)
(* number of row groups: LossVisible and LossBounded.                      *)
(*                                                                         *)
(* The lineage is written before an e-mail is in a finished file, and the  *)
(* progress after it, so CleanStop and RefetchOnlyLast are not inductive.  *)
(* Clean relates both to what the writer still has: the e-mails on their   *)
(* way to a file are those the lineage names, up to the one in hand, and   *)
(* those beyond the progress are in the buffer or in the batch being       *)
(* committed.                                                              *)
(***************************************************************************)

\* The e-mails in a finished file, or in the one that is open.
Written == stored \cup Rng(arrow)

\* And those still in the buffer.
Held == Written \cup Rng(buffer)

\* The e-mail archive_email is called with.
InHand == IF call \in InCall THEN {cur} ELSE {}

Clean ==
    faults = 0 =>
      /\ ~leftover /\ call # "failed"
      /\ Held \cup InHand = lineage \cup InHand
      /\ call \in InCall \ {"rawwrite"} => cur \in Held
      /\ Rng(synced) \subseteq Written
      /\ \A a \in Held : a <= progress \/ a \in Rng(buffer) \/ a \in Rng(synced)
      /\ progress # 0 => progress \in Written \/ (call = "rawwrite" /\ progress = cur)
      /\ ~open \/ call \in {"none", "save"} => arrow = <<>>

CleanSafe == NntpTypeInv /\ Together /\ Order /\ Clean

\* A fault ends what Clean is about.
LEMMA FaultCounts ==
    ASSUME NntpTypeInv, NEW kind, Fault(kind)
    PROVE  faults' # 0
BY SizesAssumption DEF NntpTypeInv, TypeInv, TypeOK, Fault

\* The e-mails of a batch are its first one and those of its tail.
LEMMA RngSplit ==
    ASSUME NEW S, NEW s \in Seq(S), s # <<>>
    PROVE  Rng(s) = {Head(s)} \cup Rng(Tail(s))
<1>1. /\ Tail(s) \in Seq(S) /\ Len(Tail(s)) = Len(s) - 1
      /\ \A i \in 1 .. Len(s) - 1 : Tail(s)[i] = s[i + 1]
  BY HeadTailProperties
<1>2. /\ Len(s) \in Nat \ {0} /\ Head(s) = s[1] /\ DOMAIN s = 1 .. Len(s)
      /\ DOMAIN Tail(s) = 1 .. Len(s) - 1
  BY <1>1, EmptySeq
<1>3. ASSUME NEW i \in 1 .. Len(s), i # 1 PROVE s[i] \in Rng(Tail(s))
  <2>1. i - 1 \in 1 .. Len(s) - 1 /\ (i - 1) + 1 = i
    BY <1>2, <1>3
  <2>2. Tail(s)[i - 1] = s[i]
    BY <1>1, <2>1
  <2> QED BY <1>2, <2>1, <2>2 DEF Rng
<1>4. Rng(s) \subseteq {Head(s)} \cup Rng(Tail(s))
  BY <1>2, <1>3 DEF Rng
<1> QED BY <1>4, RngHeadTail

\* No e-mail of a batch is behind its last one.
LEMMA LastIsLargest ==
    ASSUME NEW s \in Seq(Ids), s # <<>>, Increasing(s)
    PROVE  AllUpTo(s, Last(s))
<1>1. Len(s) \in Nat \ {0} /\ DOMAIN s = 1 .. Len(s) /\ Last(s) = s[Len(s)]
  BY EmptySeq DEF Last
<1> SUFFICES ASSUME NEW i \in 1 .. Len(s) PROVE s[i] <= s[Len(s)]
  BY <1>1 DEF AllUpTo, Rng
<1>2. s[i] \in Nat /\ s[Len(s)] \in Nat
  <2>1. s[i] \in Ids /\ s[Len(s)] \in Ids
    BY <1>1
  <2> QED BY <2>1, SizesAssumption DEF Ids
<1>3. CASE i = Len(s)
  BY <1>2, <1>3
<1>4. CASE i < Len(s)
  <2>1. s[i] < s[Len(s)]
    BY <1>1, <1>4 DEF Increasing
  <2> QED BY <1>2, <2>1
<1>5. i = Len(s) \/ i < Len(s)
  <2>1. i \in Nat /\ i <= Len(s) /\ Len(s) \in Nat
    BY <1>1
  <2> QED BY <2>1
<1> QED BY <1>3, <1>4, <1>5

\* The steps of archive_email keep Clean.
LEMMA CleanCall ==
    ASSUME CleanSafe, faults = 0, faults' = 0,
           WriteRaw \/ KeepBuffered \/ Flush \/ Rotate \/ CommitProgress \/ AppendLineage
    PROVE  Clean'
<1>0. /\ buffer \in Seq(Ids) /\ arrow \in Seq(Ids) /\ synced \in Seq(Ids)
      /\ progress \in Nat /\ stored \subseteq Nat /\ Ids \subseteq Nat
  BY SizesAssumption DEF CleanSafe, NntpTypeInv, TypeInv, TypeOK, Ids
<1>c. /\ ~leftover /\ call # "failed"
      /\ Held \cup InHand = lineage \cup InHand
      /\ call \in InCall \ {"rawwrite"} => cur \in Held
      /\ Rng(synced) \subseteq Written
      /\ \A a \in Held : a <= progress \/ a \in Rng(buffer) \/ a \in Rng(synced)
      /\ progress # 0 => progress \in Written \/ (call = "rawwrite" /\ progress = cur)
      /\ ~open \/ call \in {"none", "save"} => arrow = <<>>
  BY DEF CleanSafe, Clean
<1>f. \A kind : ~Fault(kind)
  BY FaultCounts DEF CleanSafe
<1>t. call \notin {"rotate", "commit", "footer", "save"} => synced = <<>>
  BY DEF CleanSafe, Together
<1>1. CASE WriteRaw
  <2>1. /\ call = "rawwrite" /\ call' = "commit" /\ cur' = cur
        /\ stored' = stored \cup {cur} /\ synced' = <<cur>>
        /\ UNCHANGED <<leftover, progress, lineage, buffer, arrow, open>>
    BY <1>1, <1>f DEF WriteRaw
  <2>2. Rng(synced') = {cur}
    BY <2>1 DEF Rng
  <2>3. Written' = Written \cup {cur} /\ Held' = Held \cup {cur}
    BY <2>1 DEF Written, Held
  <2>4. InHand = {cur} /\ InHand' = {cur}
    BY <2>1 DEF InHand, InCall
  <2> QED BY <1>c, <1>t, <2>1, <2>2, <2>3, <2>4, RngEmpty DEF Clean
<1>2. CASE KeepBuffered
  <2>1. /\ call = "add" /\ call' = "lineage"
        /\ UNCHANGED <<stored, leftover, progress, lineage, cur, buffer, arrow, open, synced>>
    BY <1>2 DEF KeepBuffered, disk
  <2>2. Written' = Written /\ Held' = Held /\ InHand' = InHand
    BY <2>1 DEF Written, Held, InHand, InCall
  <2> QED BY <1>c, <2>1, <2>2 DEF Clean, InCall
<1>3. CASE Flush
  <2>1. /\ call = "add" /\ call' \in {"rotate", "commit"}
        /\ open' = TRUE /\ arrow' = arrow \o buffer /\ synced' = buffer /\ buffer' = <<>>
        /\ UNCHANGED <<stored, leftover, progress, lineage, cur>>
    BY <1>3, <1>f DEF Flush, FlushBatch, disk
  <2>2. Rng(arrow') = Rng(arrow) \cup Rng(buffer) /\ Rng(buffer') = {}
    BY <1>0, <2>1, RngConcat, RngEmpty
  <2>3. Written' = Written \cup Rng(buffer) /\ Held' = Held /\ InHand' = InHand
    BY <2>1, <2>2 DEF Written, Held, InHand, InCall
  <2> QED BY <1>c, <1>t, <2>1, <2>2, <2>3, RngEmpty DEF Clean, InCall
<1>4. CASE Rotate
  <2>1. /\ call = "rotate" /\ call' = "commit"
        /\ stored' = stored \cup Rng(arrow) /\ arrow' = <<>>
        /\ UNCHANGED <<leftover, progress, lineage, cur, buffer, synced>>
    BY <1>4, <1>f DEF Rotate, FinishFile
  <2>2. Written' = Written /\ Held' = Held /\ InHand' = InHand
    BY <2>1, RngEmpty DEF Written, Held, InHand, InCall
  <2> QED BY <1>c, <2>1, <2>2 DEF Clean, InCall
<1>5. CASE CommitProgress
  <2>1. /\ call = "commit" /\ call' \in {"lineage", "commit"}
        /\ progress' = Head(synced) /\ synced' = Tail(synced)
        /\ UNCHANGED <<stored, leftover, lineage, cur, buffer, arrow, open>>
    BY <1>5, <1>f DEF CommitProgress, SaveProgress
  <2>2. synced # <<>>
    BY <2>1 DEF CleanSafe, NntpTypeInv, TypeInv
  <2>3. Rng(synced) = {progress'} \cup Rng(synced') /\ progress' \in Ids
    BY <1>0, <2>1, <2>2, RngSplit
  <2>4. progress <= progress' /\ progress' \in Nat
    BY <1>0, <2>3 DEF CleanSafe, Order, AllFrom
  <2>5. Written' = Written /\ Held' = Held /\ InHand' = InHand
    BY <2>1 DEF Written, Held, InHand, InCall
  <2>6. Held \subseteq Nat
    BY <1>0, RngType DEF Held, Written
  <2>7. ASSUME NEW a \in Held PROVE a <= progress' \/ a \in Rng(buffer') \/ a \in Rng(synced')
    BY <1>0, <1>c, <2>1, <2>3, <2>4, <2>6
  <2> QED BY <1>c, <2>1, <2>3, <2>5, <2>7 DEF Clean, InCall
<1>6. CASE AppendLineage
  <2>1. /\ call = "lineage" /\ call' = "idle" /\ lineage' = lineage \cup {cur}
        /\ UNCHANGED <<stored, leftover, progress, buffer, arrow, open, synced>>
    BY <1>6, <1>f DEF AppendLineage
  <2>2. Written' = Written /\ Held' = Held /\ InHand = {cur} /\ InHand' = {}
    BY <2>1 DEF Written, Held, InHand, InCall
  <2>3. Held = lineage'
    BY <1>c, <2>1, <2>2 DEF InCall
  <2> QED BY <1>c, <2>1, <2>2, <2>3 DEF Clean, InCall
<1> QED BY <1>1, <1>2, <1>3, <1>4, <1>5, <1>6

\* And so do those of Drop.
LEMMA CleanDrop ==
    ASSUME CleanSafe, faults = 0, faults' = 0, CloseFlush \/ CloseFooter \/ SaveLast
    PROVE  Clean'
<1>0. /\ buffer \in Seq(Ids) /\ arrow \in Seq(Ids) /\ synced \in Seq(Ids)
      /\ progress \in Nat /\ stored \subseteq Nat /\ Ids \subseteq Nat
  BY SizesAssumption DEF CleanSafe, NntpTypeInv, TypeInv, TypeOK, Ids
<1>c. /\ ~leftover
      /\ Held \cup InHand = lineage \cup InHand
      /\ Rng(synced) \subseteq Written
      /\ \A a \in Held : a <= progress \/ a \in Rng(buffer) \/ a \in Rng(synced)
      /\ progress # 0 => progress \in Written \/ (call = "rawwrite" /\ progress = cur)
      /\ ~open \/ call \in {"none", "save"} => arrow = <<>>
  BY DEF CleanSafe, Clean
<1>f. \A kind : ~Fault(kind)
  BY FaultCounts DEF CleanSafe
<1>t. /\ call \notin {"rotate", "commit", "footer", "save"} => synced = <<>>
      /\ call \in {"footer", "save"} => buffer = <<>>
  BY DEF CleanSafe, Together
<1>d. call \in {"closing", "footer", "save"} => InHand = {}
  BY DEF InHand, InCall
<1>e. call' \in {"footer", "save", "none"} => InHand' = {}
  BY DEF InHand, InCall
<1>1. CASE CloseFlush
  <2>1. CASE FlushBatch("footer")
    <3>1. /\ call = "closing" /\ call' = "footer"
          /\ open' = TRUE /\ arrow' = arrow \o buffer /\ synced' = buffer /\ buffer' = <<>>
          /\ UNCHANGED <<stored, leftover, progress, lineage>>
      BY <1>1, <2>1 DEF CloseFlush, FlushBatch, disk
    <3>2. Rng(arrow') = Rng(arrow) \cup Rng(buffer) /\ Rng(buffer') = {}
      BY <1>0, <3>1, RngConcat, RngEmpty
    <3>3. Written' = Written \cup Rng(buffer) /\ Held' = Held
      BY <3>1, <3>2 DEF Written, Held
    <3> QED BY <1>c, <1>t, <1>d, <1>e, <3>1, <3>2, <3>3, RngEmpty DEF Clean, InCall
  <2>2. CASE /\ call = "closing" /\ call' = "footer" /\ open
             /\ UNCHANGED <<disk, buffer, arrow, open, synced>>
    <3>1. Written' = Written /\ Held' = Held
      BY <2>2 DEF Written, Held, disk
    <3> QED BY <1>c, <1>d, <1>e, <2>2, <3>1 DEF Clean, InCall, disk
  <2>3. CASE call = "closing" /\ buffer = <<>> /\ ~open /\ Release /\ UNCHANGED disk
    <3>1. /\ Rng(arrow') = {} /\ Rng(buffer') = {} /\ Rng(synced') = {} /\ call' = "none"
          /\ arrow' = <<>> /\ Rng(arrow) = {} /\ Rng(buffer) = {} /\ Rng(synced) = {}
      BY <1>c, <1>t, <2>3, RngEmpty DEF Release
    <3>2. Written' = Written /\ Held' = Held
      BY <2>3, <3>1 DEF Written, Held, disk
    <3> QED BY <1>c, <1>d, <1>e, <2>3, <3>1, <3>2 DEF Clean, InCall, disk
  <2> QED BY <1>1, <1>f, <2>1, <2>2, <2>3 DEF CloseFlush
<1>2. CASE CloseFooter
  <2>1. /\ call = "footer" /\ call' = "save"
        /\ stored' = stored \cup Rng(arrow) /\ arrow' = <<>>
        /\ UNCHANGED <<leftover, progress, lineage, buffer, synced>>
    BY <1>2, <1>f DEF CloseFooter, FinishFile
  <2>2. Written' = Written /\ Held' = Held
    BY <2>1, RngEmpty DEF Written, Held
  <2> QED BY <1>c, <1>d, <1>e, <2>1, <2>2 DEF Clean, InCall
<1>3. CASE SaveLast
  <2>1. /\ call = "save" /\ call' = "none" /\ Release
        /\ UNCHANGED <<stored, leftover, lineage>>
    BY <1>3 DEF SaveLast, Release
  <2>2. /\ Rng(arrow') = {} /\ Rng(buffer') = {} /\ Rng(synced') = {}
        /\ arrow' = <<>> /\ Rng(arrow) = {} /\ Rng(buffer) = {}
    BY <1>c, <1>t, <2>1, RngEmpty DEF Release
  <2>3. Written' = Written /\ Held' = Held /\ Held = Written
    BY <2>1, <2>2 DEF Written, Held
  <2>4. Held \subseteq Nat
    BY <1>0, RngType DEF Held, Written
  <2>5. CASE synced = <<>>
    <3>1. progress' = progress /\ Rng(synced) = {}
      BY <1>3, <1>f, <2>5, RngEmpty DEF SaveLast
    <3> QED BY <1>c, <1>d, <1>e, <2>1, <2>2, <2>3, <3>1 DEF Clean, InCall
  <2>6. CASE synced # <<>>
    <3>1. progress' = Last(synced) /\ progress' \in Rng(synced) /\ progress' \in Nat
      BY <1>0, <1>3, <1>f, <2>6, RngLast DEF SaveLast, SaveProgress
    <3>2. progress <= progress' /\ AllUpTo(synced, progress')
      BY <1>0, <2>6, <3>1, LastIsLargest DEF CleanSafe, Order, AllFrom
    <3>3. ASSUME NEW a \in Held PROVE a <= progress'
      BY <1>0, <1>c, <2>2, <2>4, <3>1, <3>2 DEF AllUpTo
    <3> QED BY <1>c, <1>d, <1>e, <2>1, <2>2, <2>3, <3>1, <3>3 DEF Clean, InCall
  <2> QED BY <2>5, <2>6
<1> QED BY <1>1, <1>2, <1>3

\* Clean is kept by every step of the worker and of its environment.
LEMMA CleanStep ==
    ASSUME CleanSafe, Next
    PROVE  Clean'
<1> SUFFICES ASSUME faults' = 0 PROVE Clean'
  BY DEF Clean
<1>f. \A kind : ~Fault(kind)
  BY FaultCounts DEF CleanSafe
<1>0. /\ faults \in Nat /\ buffer \in Seq(Ids) /\ nextMail \in Nat
  BY SizesAssumption DEF CleanSafe, NntpTypeInv, TypeInv, TypeOK, WorkerTypes
<1>1. CASE Elsewhere
  <2>1. UNCHANGED <<disk, memory, faults>>
    BY <1>1, <1>f, ElsewhereQuiet
  <2> QED BY <2>1 DEF CleanSafe, Clean, Held, Written, InHand, disk, memory
<1>2. CASE Recv
  <2>1. /\ call = "none" /\ call' = "idle" /\ UNCHANGED <<disk, buffer, arrow, open, synced, faults>>
        /\ UNCHANGED cur
    BY <1>2 DEF Recv, New
  <2>2. InHand = {} /\ InHand' = {}
    BY <2>1 DEF InHand, InCall
  <2> QED BY <2>1, <2>2 DEF CleanSafe, Clean, Held, Written, InCall, disk
<1>3. CASE FetchArticle
  <2>0. /\ call = "idle" /\ cur' = nextMail /\ nextMail \in Ids /\ UNCHANGED faults
        /\ UNCHANGED <<leftover, progress, lineage, arrow, open, synced>>
    BY <1>3, FetchingId DEF FetchArticle, AddEmail, CleanSafe
  <2>1. InHand = {}
    BY <2>0 DEF InHand, InCall
  <2>2. CASE call' = "add"
    <3>1. buffer' = Append(buffer, nextMail) /\ UNCHANGED stored
      BY <1>3, <2>2 DEF FetchArticle, AddEmail
    <3>2. Rng(buffer') = Rng(buffer) \cup {nextMail}
      BY <1>0, <2>0, <3>1, RngAppend
    <3>3. Written' = Written /\ Held' = Held \cup {nextMail} /\ InHand' = {nextMail}
      BY <2>0, <2>2, <3>1, <3>2 DEF Written, Held, InHand, InCall
    <3> QED BY <2>0, <2>1, <2>2, <3>2, <3>3 DEF CleanSafe, Clean, InCall
  <2>3. CASE call' = "rawwrite"
    <3>1. stored' = stored \ {nextMail} /\ UNCHANGED buffer /\ buffer = <<>> /\ synced = <<>>
      BY <1>3, <2>3, <2>0 DEF FetchArticle, AddEmail, CleanSafe, Together
    <3>2. Rng(synced) = {} /\ Rng(synced') = {}
      BY <2>0, <3>1, RngEmpty
    <3>3. /\ Written' \cup {nextMail} = Written \cup {nextMail} /\ InHand' = {nextMail}
          /\ Held' \cup {nextMail} = Held \cup {nextMail} /\ Held' \subseteq Held
      BY <2>0, <2>3, <3>1 DEF Written, Held, InHand, InCall
    <3> QED BY <2>0, <2>1, <2>3, <3>1, <3>2, <3>3 DEF CleanSafe, Clean, InCall
  <2> QED BY <1>3, <2>2, <2>3 DEF FetchArticle, AddEmail
<1>4. CASE ArticleUnavailable
  <2>1. UNCHANGED <<stored, leftover, progress, lineage, memory, faults>>
    BY <1>4, <1>f DEF ArticleUnavailable, LogError
  <2> QED BY <2>1 DEF CleanSafe, Clean, Held, Written, InHand, memory
<1>5. CASE InWriter
  <2>1. faults = 0
    BY <1>5, <1>f, <1>0 DEF InWriter, WriterStep, WriteRaw, KeepBuffered, Flush, FlushBatch,
       Rotate, CommitProgress, AppendLineage, CloseFlush, CloseFooter, SaveLast
  <2> QED BY <1>5, <2>1, CleanCall, CleanDrop DEF InWriter, WriterStep
<1>6. CASE DropWriter
  <2>1. /\ call \in {"idle", "failed"} /\ call' = "closing"
        /\ UNCHANGED <<disk, buffer, arrow, open, synced, faults>>
    BY <1>6 DEF DropWriter, BeginDrop
  <2>2. InHand = {} /\ InHand' = {}
    BY <2>1 DEF InHand, InCall
  <2> QED BY <2>1, <2>2 DEF CleanSafe, Clean, Held, Written, InCall, disk
<1>7. CASE Kill
  BY <1>7, <1>f DEF Kill, Crash
<1> QED BY <1>1, <1>2, <1>3, <1>4, <1>5, <1>6, <1>7, NextCases

\* The invariant holds at the start and is kept.
LEMMA CleanSafeInv ==
    /\ Init => CleanSafe
    /\ CleanSafe /\ [Next]_vars => CleanSafe'
<1>1. ASSUME Init PROVE CleanSafe
  <2>1. Clean
    BY <1>1, RngEmpty DEF Init, AWInit, Clean, Held, Written, InHand, InCall
  <2> QED BY <1>1, <2>1, NntpTypeInvInit, OrderInit DEF CleanSafe
<1>2. ASSUME CleanSafe, Next PROVE CleanSafe'
  BY <1>2, CleanStep, NntpTypeInvStep, TogetherStep, OrderStep DEF CleanSafe
<1>3. ASSUME CleanSafe, UNCHANGED vars PROVE CleanSafe'
  <2>1. Clean'
    BY <1>3 DEF CleanSafe, Clean, Held, Written, InHand, vars, awVars, disk, memory
  <2> QED BY <1>3, <2>1, NntpTypeInvStutter, OrderStutter DEF CleanSafe
<1> QED BY <1>1, <1>2, <1>3

\* An undisturbed worker that was stopped with Ctrl+C leaves lineage, files
\* and progress agreeing: every store and Drop is complete, for any sizes.
THEOREM CleanAtStop == Spec => []CleanStop
<1>1. ASSUME CleanSafe, pc = "done", faults = 0
      PROVE  /\ lineage = stored /\ ~leftover
             /\ IF lineage = {} THEN progress = 0
                ELSE progress \in lineage /\ \A a \in lineage : a <= progress
  <2>1. call = "none" /\ buffer = <<>> /\ synced = <<>> /\ arrow = <<>>
    BY <1>1 DEF CleanSafe, Together, Stopped, Clean
  <2>2. Written = stored /\ Held = stored /\ InHand = {} /\ Rng(buffer) = {} /\ Rng(synced) = {}
    BY <2>1, RngEmpty DEF Written, Held, InHand, InCall
  <2>3. /\ stored = lineage /\ ~leftover /\ \A a \in stored : a <= progress
        /\ progress # 0 => progress \in stored
    BY <1>1, <2>1, <2>2 DEF CleanSafe, Clean
  <2>4. stored \subseteq Nat \ {0}
    BY <1>1, SizesAssumption DEF CleanSafe, NntpTypeInv, TypeInv, TypeOK, Ids
  <2>5. progress = 0 => stored = {}
    BY <2>3, <2>4
  <2> QED BY <2>3, <2>5
<1>2. CleanSafe => CleanStop
  BY <1>1 DEF CleanStop
<1> QED BY CleanSafeInv, <1>2, PTL DEF Spec

\* A visit fetches again only the article the progress names, and after a
\* fault articles beyond it: FirstMail never goes further back.
THEOREM OnlyLastAgain == Spec => RefetchOnlyLast
<1>1. ASSUME CleanSafe, Next, NEW a \in stored, cur # a, cur' = a
      PROVE  a = progress \/ (faults > 0 /\ a > progress)
  <2>0. /\ a \in Nat \ {0} /\ progress \in Nat /\ faults \in Nat /\ nextMail \in Nat
        /\ buffer \in Seq(Ids) /\ Ids \subseteq Nat
    BY <1>1, SizesAssumption DEF CleanSafe, NntpTypeInv, TypeInv, TypeOK, WorkerTypes, Ids
  <2>1. FetchArticle
    <3>1. ~Elsewhere
      BY <1>1, ElsewhereQuiet DEF memory
    <3>2. ~Recv /\ ~ArticleUnavailable /\ ~DropWriter /\ ~Kill
      BY <1>1, <2>0 DEF Recv, New, ArticleUnavailable, LogError, memory, DropWriter, BeginDrop,
         Kill, Crash, Release
    <3>3. ~InWriter
      BY <1>1, <2>0 DEF InWriter, WriterStep, WriteRaw, KeepBuffered, Flush, FlushBatch, Rotate,
         CommitProgress, AppendLineage, CloseFlush, CloseFooter, SaveLast, Release
    <3> QED BY <1>1, <3>1, <3>2, <3>3, NextCases
  <2>2. a = nextMail /\ pc = "fetch" /\ progress <= a
    BY <1>1, <2>1 DEF FetchArticle, AddEmail, Fetching, CleanSafe, Order
  <2>3. ASSUME faults = 0 PROVE a <= progress
    <3>1. synced = <<>> /\ Rng(synced) = {} /\ AllUpTo(buffer, nextMail - 1)
      BY <1>1, <2>2, RngEmpty DEF CleanSafe, Together, Order
    <3>2. a \notin Rng(buffer)
      BY <2>0, <2>2, <3>1 DEF AllUpTo
    <3> QED BY <1>1, <2>3, <3>1, <3>2 DEF CleanSafe, Clean, Held, Written
  <2> QED BY <2>0, <2>2, <2>3
<1>2. CleanSafe /\ [Next]_vars =>
        [\A a \in stored : cur # a /\ cur' = a =>
            a = progress \/ (faults > 0 /\ a > progress)]_vars
  BY <1>1
<1> QED BY CleanSafeInv, <1>2, PTL DEF Spec, RefetchOnlyLast

-----------------------------------------------------------------------------
(***************************************************************************)
(* Losses, for files of any number of row groups, where NoLostEmail does   *)
(* not hold: an article below the progress may still be in a file that is  *)
(* open, and is lost if that is never finished.                            *)
(*                                                                         *)
(* Traced is NoGap with the rows of the open file counted as there, and    *)
(* asks nothing of what is below the progress: those that are nowhere are  *)
(* Gone.  A step keeps what is filed, or is a Loss: it counts as a fault   *)
(* and leaves an unfinished file.  Rows says how many of the rows of that  *)
(* file may be below the progress.                                         *)
(***************************************************************************)
\* Settled, or a row of the open file.
Filed(a) == Settled(a) \/ a \in Rng(arrow)

Gone == {a \in 1 .. progress : ~Filed(a)}

Reached(n) == \A a \in 1 .. n : a <= progress \/ Filed(a) \/ a \in Rng(buffer)

FileOpen ==
    /\ call # "rawwrite"
    /\ ~open \/ call \in {"none", "save"} => arrow = <<>>

Traced ==
    /\ \A x \in Rng(buffer) : Reached(x)
    /\ \A x \in Rng(synced) : \A a \in 1 .. x : a <= progress \/ Filed(a)
    /\ pc = "fetch" => Reached(nextMail - 1)
    /\ pc = "archive" /\ call # "failed" => Reached(nextMail)

TracedSafe == NntpTypeInv /\ Together /\ Order /\ FileOpen /\ Traced

\* A step after which the rows of the open file are nowhere.
Loss ==
    /\ leftover' /\ faults' = faults + 1
    /\ UNCHANGED <<stored, errors, low, progress>>
    /\ buffer' = <<>> /\ arrow' = <<>> /\ synced' = <<>>
    /\ call' \in {"none", "failed"} /\ pc' # "fetch"
    /\ call # "save"

\* What the steps of the writer do to the files, in parquet mode.
LEMMA WriterFiles ==
    ASSUME FileOpen, Together, InWriter
    PROVE  \/ stored \cup Rng(arrow) \subseteq stored' \cup Rng(arrow')
           \/ arrow' = arrow \o buffer /\ UNCHANGED stored
           \/ Loss
<1> USE DEF FileOpen, Together
<1>1. Rng(<<>>) = {} /\ UNCHANGED <<high, low, pc>>
  BY RngEmpty DEF InWriter, server, worker
<1>2. CASE WriteRaw
  BY <1>2 DEF WriteRaw
<1>3. CASE KeepBuffered \/ CommitProgress \/ AppendLineage
  BY <1>1, <1>3 DEF KeepBuffered, CommitProgress, AppendLineage, disk
<1>4. CASE Flush
  <2>1. ASSUME NEW next, FlushBatch(next) PROVE arrow' = arrow \o buffer /\ UNCHANGED stored
    BY <2>1 DEF FlushBatch, disk
  <2>2. (\E next \in Calls : FlushBatch(next)) \/ UNCHANGED <<stored, arrow>>
    BY <1>4 DEF Flush, FlushBatch, disk, Calls, InCall
  <2> QED BY <2>1, <2>2
<1>5. CASE Rotate
  BY <1>1, <1>5 DEF Rotate, FinishFile, Fault, Loss, InCall
<1>6. CASE CloseFlush
  <2>0. call = "closing" /\ pc' # "fetch"
    BY <1>1, <1>6 DEF CloseFlush
  <2>1. UNCHANGED <<stored, errors, progress>>
    BY <1>6 DEF CloseFlush, FlushBatch, Release, disk
  <2>2. \/ arrow' = arrow \o buffer
        \/ UNCHANGED arrow
        \/ ~open
        \/ leftover' = TRUE /\ Release /\ Fault("write")
    BY <1>6 DEF CloseFlush, FlushBatch
  <2>3. CASE leftover' = TRUE /\ Release /\ Fault("write")
    BY <1>1, <2>0, <2>1, <2>3 DEF Release, Fault, Loss
  <2> QED BY <1>1, <2>1, <2>2, <2>3
<1>7. CASE CloseFooter
  <2>1. CASE FinishFile
    BY <1>1, <2>1 DEF FinishFile
  <2>2. CASE ~FinishFile
    <3>1. call = "footer" /\ pc' # "fetch"
      BY <1>1, <1>7 DEF CloseFooter
    <3> QED BY <1>1, <1>7, <2>2, <3>1 DEF CloseFooter, Release, Fault, Loss
  <2> QED BY <2>1, <2>2
<1>8. CASE SaveLast
  BY <1>1, <1>8 DEF SaveLast
<1> QED BY <1>2, <1>3, <1>4, <1>5, <1>6, <1>7, <1>8 DEF InWriter, WriterStep

\* The other variables of a step of the writer.
LEMMA WriterElse ==
    ASSUME InWriter
    PROVE  UNCHANGED <<errors, low, pc, nextMail>> /\ (leftover => leftover')
<1>1. UNCHANGED <<low, pc, nextMail>>
  BY DEF InWriter, server, worker
<1>2. UNCHANGED errors
  BY DEF InWriter, WriterStep, WriteRaw, KeepBuffered, Flush, FlushBatch, Rotate,
     CommitProgress, AppendLineage, CloseFlush, CloseFooter, SaveLast, disk
<1>3. leftover' \in {leftover, TRUE}
  BY DEF InWriter, WriterStep, WriteRaw, KeepBuffered, Flush, FlushBatch, Rotate,
     CommitProgress, AppendLineage, CloseFlush, CloseFooter, SaveLast, disk
<1>4. leftover => leftover'
  BY <1>3, Zenon
<1> QED BY <1>1, <1>2, <1>4

\* What is in the files stays there, and what is listed as unavailable or
\* expired stays so, but for a loss.
LEMMA FiledStays ==
    ASSUME WriteMode = "parquet", NntpTypeInv, Together, FileOpen, Next
    PROVE  (\A a \in Nat : Filed(a) => Filed(a)') \/ Loss
<1>0. low \in Nat /\ buffer \in Seq(Ids) /\ arrow \in Seq(Ids)
  BY SizesAssumption DEF NntpTypeInv, TypeInv, TypeOK, WorkerTypes
<1>q. ASSUME errors \subseteq errors', low' \in Nat, low <= low',
             stored \cup Rng(arrow) \subseteq stored' \cup Rng(arrow')
      PROVE  \A a \in Nat : Filed(a) => Filed(a)'
  BY <1>0, <1>q DEF Filed, Settled
<1>1. CASE Elsewhere
  <2>1. UNCHANGED <<stored, errors, arrow>>
    BY <1>1, ElsewhereQuiet DEF disk, memory
  <2>2. low' \in Nat /\ low <= low'
    BY <1>0, <1>1 DEF Elsewhere, Post, Expire, CtrlC, Restart, CheckShutdown, Reconnect,
       WaitForList, RecvClosed, QueryGroup, EndOfGroup, FetchFails, Archived,
       ReturnFromGroup, server
  <2> QED BY <1>q, <2>1, <2>2
<1>2. CASE Recv \/ FetchArticle \/ ArticleUnavailable \/ DropWriter
  <2>1. UNCHANGED <<stored, arrow, low>> /\ errors \subseteq errors'
    BY <1>2 DEF Recv, New, FetchArticle, AddEmail, ArticleUnavailable, LogError, DropWriter,
       BeginDrop, disk, memory, server
  <2> QED BY <1>0, <1>q, <2>1
<1>3. CASE InWriter
  <2>1. CASE arrow' = arrow \o buffer /\ UNCHANGED stored
    <3>1. Rng(arrow') = Rng(arrow) \cup Rng(buffer)
      BY <1>0, <2>1, RngConcat
    <3> QED BY <1>0, <1>3, <1>q, <2>1, <3>1, WriterElse
  <2> QED BY <1>0, <1>3, <1>q, <2>1, WriterFiles, WriterElse
<1>4. CASE Kill
  <2>1. /\ UNCHANGED <<stored, errors, low, progress>> /\ faults' = faults + 1
        /\ buffer' = <<>> /\ arrow' = <<>> /\ synced' = <<>>
        /\ call' = "none" /\ pc' = "dead"
    BY <1>4 DEF Kill, Crash, Release, Fault, server
  <2>2. CASE arrow = <<>>
    BY <1>0, <1>q, <2>1, <2>2
  <2>3. CASE arrow # <<>>
    <3>1. leftover' = TRUE /\ call # "save"
      <4>1. open /\ call # "save"
        BY <2>3 DEF FileOpen
      <4> QED BY <1>4, <4>1 DEF Kill, Crash
    <3> QED BY <2>1, <3>1 DEF Loss
  <2> QED BY <2>2, <2>3
<1> QED BY <1>1, <1>2, <1>3, <1>4, NextCases

\* An unfinished file stays.
LEMMA LeftoverStays ==
    ASSUME Next, leftover
    PROVE  leftover'
<1>1. CASE Elsewhere
  BY <1>1, ElsewhereQuiet DEF disk
<1>2. CASE Recv \/ FetchArticle \/ ArticleUnavailable \/ DropWriter
  BY <1>2 DEF Recv, New, FetchArticle, AddEmail, ArticleUnavailable, LogError, DropWriter,
     BeginDrop, disk
<1>3. CASE Kill
  BY <1>3, Zenon DEF Kill, Crash
<1> QED BY <1>1, <1>2, <1>3, NextCases, WriterElse

\* There is an open file, or no rows outside of files.
LEMMA FileOpenStep ==
    ASSUME WriteMode = "parquet", FileOpen, Next
    PROVE  FileOpen'
<1> USE DEF FileOpen
<1>1. CASE Elsewhere
  BY <1>1, ElsewhereQuiet DEF memory
<1>2. CASE Recv \/ FetchArticle \/ ArticleUnavailable \/ DropWriter \/ Kill
  BY <1>2, ModesAssumption DEF Recv, New, FetchArticle, AddEmail, ArticleUnavailable, LogError,
     DropWriter, BeginDrop, Kill, Crash, Release, memory
<1>3. CASE InWriter
  <2>1. CASE KeepBuffered \/ Flush \/ Rotate
    BY <2>1 DEF KeepBuffered, Flush, FlushBatch, Rotate, FinishFile
  <2>2. CASE WriteRaw \/ CommitProgress \/ AppendLineage
    BY <2>2 DEF WriteRaw, CommitProgress, AppendLineage
  <2>3. CASE CloseFlush \/ CloseFooter \/ SaveLast
    BY <2>3 DEF CloseFlush, FlushBatch, CloseFooter, FinishFile, SaveLast, Release
  <2> QED BY <1>3, <2>1, <2>2, <2>3 DEF InWriter, WriterStep
<1> QED BY <1>1, <1>2, <1>3, NextCases

\* Where the progress, the buffer and the batch come from.
LEMMA MemoryMoves ==
    ASSUME NntpTypeInv, FileOpen, Next
    PROVE  /\ progress' = progress \/ progress' \in Rng(synced)
           /\ buffer' \in {buffer, <<>>} \/ (FetchArticle /\ buffer' = Append(buffer, nextMail))
           /\ \/ Rng(synced') \subseteq Rng(synced)
              \/ synced' = buffer /\ arrow' = arrow \o buffer
<1> USE RngEmpty DEF NntpTypeInv, TypeInv, TypeOK, FileOpen
<1>1. CASE Elsewhere
  BY <1>1, ElsewhereQuiet DEF memory, disk
<1>2. CASE Recv \/ ArticleUnavailable \/ DropWriter \/ Kill
  BY <1>2 DEF Recv, New, ArticleUnavailable, LogError, DropWriter, BeginDrop, Kill, Crash,
     Release, memory, disk
<1>3. CASE FetchArticle
  BY <1>3 DEF FetchArticle, AddEmail
<1>4. CASE InWriter
  <2>1. CASE CommitProgress
    <3>1. synced # <<>>
      BY <2>1 DEF CommitProgress
    <3>2. Head(synced) \in Rng(synced) /\ Rng(Tail(synced)) \subseteq Rng(synced)
      BY <3>1, RngHeadTail
    <3> QED BY <2>1, <3>2 DEF CommitProgress, SaveProgress
  <2>2. CASE SaveLast
    <3>1. synced # <<>> => Last(synced) \in Rng(synced)
      BY RngLast
    <3> QED BY <2>2, <3>1 DEF SaveLast, SaveProgress, Release
  <2>3. CASE KeepBuffered \/ Flush \/ Rotate \/ AppendLineage
    BY <2>3 DEF KeepBuffered, Flush, FlushBatch, Rotate, AppendLineage, disk
  <2>4. CASE CloseFlush \/ CloseFooter
    BY <2>4 DEF CloseFlush, FlushBatch, CloseFooter, Release, disk
  <2>5. ~WriteRaw
    BY DEF WriteRaw
  <2> QED BY <1>4, <2>1, <2>2, <2>3, <2>4, <2>5 DEF InWriter, WriterStep
<1> QED BY <1>1, <1>2, <1>3, <1>4, NextCases

\* What was reached stays reached, if the buffer is kept, grows, or is now
\* in the open file.
LEMMA ReachedStays ==
    ASSUME NEW n \in Int, Reached(n), \A a \in Nat : Filed(a) => Filed(a)',
           progress \in Nat, progress' \in Nat, progress <= progress',
           Rng(buffer) \subseteq Rng(buffer') \cup Rng(arrow')
    PROVE  Reached(n)'
BY DEF Reached, Filed

\* Every step keeps Traced.
LEMMA TracedStep ==
    ASSUME WriteMode = "parquet", "errorlog" \notin Faults, TracedSafe, Next
    PROVE  Traced'
<1> USE DEF TracedSafe
<1>l. CASE Loss
  <2>1. pc' = "archive" => call' = "failed"
    BY <1>l, TogetherStep DEF Loss, Together, InCall
  <2> QED BY <1>l, <2>1, RngEmpty DEF Loss, Traced
<1> SUFFICES ASSUME ~Loss PROVE Traced'
  BY <1>l
<1>f. \A a \in Nat : Filed(a) => Filed(a)'
  BY FiledStays
<1>0. /\ progress \in Nat /\ nextMail \in Nat /\ low \in Nat
      /\ buffer \in Seq(Ids) /\ arrow \in Seq(Ids)
      /\ Rng(buffer) \subseteq Nat /\ Rng(synced) \subseteq Nat
  BY RngType, SizesAssumption DEF NntpTypeInv, TypeInv, TypeOK, WorkerTypes, Ids
<1>m. /\ progress' = progress \/ progress' \in Rng(synced)
      /\ buffer' \in {buffer, <<>>} \/ (FetchArticle /\ buffer' = Append(buffer, nextMail))
      /\ \/ Rng(synced') \subseteq Rng(synced)
         \/ synced' = buffer /\ arrow' = arrow \o buffer
  BY MemoryMoves
<1>v. /\ \A x \in Rng(buffer) : Reached(x)
      /\ \A x \in Rng(synced) : \A a \in 1 .. x : a <= progress \/ Filed(a)
      /\ pc = "fetch" => Reached(nextMail - 1)
      /\ pc = "archive" /\ call # "failed" => Reached(nextMail)
  BY DEF Traced
<1>p. progress' \in Nat /\ progress <= progress'
  BY <1>0, <1>m DEF Order, AllFrom
<1>a. FetchArticle => /\ pc = "fetch" /\ nextMail \in Ids /\ UNCHANGED nextMail
                      /\ buffer' = Append(buffer, nextMail)
                      /\ Rng(buffer') = Rng(buffer) \cup {nextMail}
  <2>1. FetchArticle => /\ pc = "fetch" /\ nextMail \in Ids /\ UNCHANGED nextMail
                        /\ buffer' = Append(buffer, nextMail)
    BY FetchingId, ModesAssumption DEF FetchArticle, AddEmail, Fetching
  <2>2. ASSUME NEW id \in Ids PROVE Rng(Append(buffer, id)) = Rng(buffer) \cup {id}
    BY <1>0, RngAppend
  <2> QED BY <2>1, <2>2
<1>2. FetchArticle => Reached(nextMail)'
  BY <1>0, <1>a, <1>f, <1>p, <1>v DEF Reached
<1>3. ASSUME NEW x \in Rng(buffer') PROVE Reached(x)'
  <2>1. CASE x \in Rng(buffer)
    <3>1. Rng(buffer) \subseteq Rng(buffer')
      BY <1>a, <1>m, <1>3, RngEmpty
    <3> QED BY <1>0, <1>f, <1>p, <1>v, <2>1, <3>1, ReachedStays
  <2>2. CASE x \notin Rng(buffer)
    BY <1>2, <1>3, <1>a, <1>m, <2>2, RngEmpty
  <2> QED BY <2>1, <2>2
<1>4. \A x \in Rng(synced') : \A a \in 1 .. x : a <= progress' \/ Filed(a)'
  <2>1. CASE synced' = buffer /\ arrow' = arrow \o buffer
    <3>1. Rng(arrow') = Rng(arrow) \cup Rng(buffer)
      BY <1>0, <2>1, RngConcat
    <3> QED BY <1>0, <1>f, <1>p, <1>v, <2>1, <3>1 DEF Reached, Filed
  <2>2. CASE Rng(synced') \subseteq Rng(synced)
    BY <1>0, <1>f, <1>p, <1>v, <2>2
  <2> QED BY <1>m, <2>1, <2>2
<1>5. ASSUME pc' = "fetch" PROVE Reached(nextMail - 1)'
  <2>0. /\ UNCHANGED buffer
        /\ \/ UNCHANGED <<pc, nextMail>>
           \/ QueryGroup \/ Archived \/ ArticleUnavailable
    BY <1>5, NextCases, ElsewhereQuiet
       DEF Elsewhere, Post, Expire, CtrlC, Restart, CheckShutdown, Reconnect, WaitForList,
           RecvClosed, QueryGroup, EndOfGroup, FetchFails, Archived, ReturnFromGroup, worker,
           Recv, FetchArticle, ArticleUnavailable, LogError, InWriter, WriterStep, DropWriter,
           BeginDrop, Kill, memory, Together, InCall, WriteRaw, KeepBuffered, Flush,
           Rotate, CommitProgress, AppendLineage, CloseFlush, CloseFooter, SaveLast
  <2>1. CASE UNCHANGED <<pc, nextMail>>
    BY <1>0, <1>5, <1>f, <1>p, <1>v, <2>0, <2>1, ReachedStays
  <2>2. CASE QueryGroup
    <3>1. nextMail' = Larger(progress, low) /\ UNCHANGED <<arrow, low, stored, errors>>
      BY <1>5, <2>2 DEF QueryGroup, FirstMail, memory, disk, server
    <3>2. \A a \in 1 .. nextMail' - 1 : a \in 1 .. progress \/ a < low
      BY <1>0, <3>1 DEF Larger
    <3> QED BY <1>0, <1>p, <1>v, <3>1, <3>2 DEF Reached, Filed, Settled
  <2>3. CASE Archived
    <3>1. pc = "archive" /\ call = "idle" /\ nextMail' - 1 = nextMail
      BY <1>0, <1>5, <2>3 DEF Archived
    <3> QED BY <1>0, <1>f, <1>p, <1>v, <2>0, <3>1 DEF Reached
  <2>4. CASE ArticleUnavailable
    <3>1. pc = "fetch" /\ nextMail' = nextMail + 1 /\ errors' = errors \cup {nextMail}
      BY <2>4 DEF ArticleUnavailable, LogError, Fetching, Fault
    <3>2. \A a \in 1 .. nextMail : a = nextMail \/ a \in 1 .. nextMail - 1
      BY <1>0
    <3>3. nextMail \in errors'
      BY <3>1
    <3> QED BY <1>0, <1>f, <1>p, <1>v, <2>0, <3>1, <3>2, <3>3 DEF Reached, Filed, Settled
  <2> QED BY <2>0, <2>1, <2>2, <2>3, <2>4
<1>6. ASSUME pc' = "archive", call' # "failed" PROVE Reached(nextMail)'
  <2>1. CASE FetchArticle
    BY <1>2, <2>1
  <2>2. CASE InWriter
    <3>1. pc = "archive" /\ UNCHANGED nextMail /\ call \in InCall \ {"rawwrite"}
      BY <1>6, <2>2 DEF InWriter, worker, Together, FileOpen, WriterStep, WriteRaw,
         KeepBuffered, Flush, Rotate, CommitProgress, AppendLineage, CloseFlush, CloseFooter,
         SaveLast, InCall
    <3>2. UNCHANGED buffer \/ (buffer' = <<>> /\ arrow' = arrow \o buffer)
      BY <1>6, <2>2, <3>1 DEF InWriter, WriterStep, WriteRaw, KeepBuffered, Flush, FlushBatch,
         Rotate, CommitProgress, AppendLineage, CloseFlush, CloseFooter, SaveLast, InCall
    <3>3. Rng(arrow \o buffer) = Rng(arrow) \cup Rng(buffer)
      BY <1>0, RngConcat
    <3>4. Rng(buffer) \subseteq Rng(buffer') \cup Rng(arrow')
      BY <3>2, <3>3
    <3> QED BY <1>0, <1>f, <1>p, <1>v, <3>1, <3>4, ReachedStays DEF InCall
  <2>3. CASE ~FetchArticle /\ ~InWriter
    <3>1. UNCHANGED <<pc, nextMail, call, buffer>>
      BY <1>6, <2>3, NextCases, ElsewhereQuiet
         DEF Elsewhere, Post, Expire, CtrlC, Restart, CheckShutdown, Reconnect, WaitForList,
             RecvClosed, QueryGroup, EndOfGroup, FetchFails, Archived, ReturnFromGroup, worker,
             Recv, ArticleUnavailable, Fetching, DropWriter, Kill, memory
    <3> QED BY <1>0, <1>6, <1>f, <1>p, <1>v, <3>1, ReachedStays
  <2> QED BY <2>1, <2>2, <2>3
<1> QED BY <1>3, <1>4, <1>5, <1>6 DEF Traced

\* The invariant of the two theorems.
LEMMA TracedSafeInv ==
    ASSUME WriteMode = "parquet", "errorlog" \notin Faults
    PROVE  /\ Init => TracedSafe
           /\ TracedSafe /\ [Next]_vars => TracedSafe'
<1>1. ASSUME Init PROVE TracedSafe
  <2>1. FileOpen /\ Traced
    BY <1>1, RngEmpty DEF Init, AWInit, FileOpen, Traced
  <2> QED BY <1>1, <2>1, NntpTypeInvInit, OrderInit DEF TracedSafe
<1>2. ASSUME TracedSafe, Next PROVE TracedSafe'
  BY <1>2, TracedStep, FileOpenStep, NntpTypeInvStep, TogetherStep, OrderStep DEF TracedSafe
<1>3. ASSUME TracedSafe, UNCHANGED vars PROVE TracedSafe'
  <2>1. FileOpen' /\ Traced'
    BY <1>3 DEF TracedSafe, FileOpen, Traced, Reached, Filed, Settled, vars, awVars,
       disk, memory, worker, server
  <2> QED BY <1>3, <2>1, NntpTypeInvStutter, OrderStutter DEF TracedSafe
<1> QED BY <1>1, <1>2, <1>3

\* What is gone was gone, or was in the open file when it was lost.
LEMMA GoneGrows ==
    ASSUME WriteMode = "parquet", TracedSafe, Next
    PROVE  \/ Gone' \subseteq Gone
           \/ Loss /\ Gone' \subseteq Gone \cup {a \in Rng(arrow) : a <= progress}
<1> USE DEF TracedSafe
<1>0. /\ progress \in Nat /\ progress' \in Nat
      /\ Rng(synced) \subseteq Nat /\ Rng(arrow) \subseteq Nat
  <2>1. progress \in 0 .. MaxId /\ synced \in Seq(Ids) /\ arrow \in Seq(Ids)
    BY DEF NntpTypeInv, TypeInv, TypeOK
  <2>2. progress' \in 0 .. MaxId
    BY NntpTypeInvStep DEF NntpTypeInv, TypeInv, TypeOK
  <2> QED BY <2>1, <2>2, RngType, SizesAssumption DEF Ids
<1>1. CASE \A a \in Nat : Filed(a) => Filed(a)'
  <2>1. progress' = progress \/ progress' \in Rng(synced)
    BY MemoryMoves
  <2>2. ASSUME NEW a \in 1 .. progress', ~Filed(a)' PROVE a \in Gone
    BY <1>0, <1>1, <2>1, <2>2 DEF Traced, Gone
  <2> QED BY <2>2 DEF Gone
<1>2. CASE Loss
  <2>1. ASSUME NEW a \in 1 .. progress', ~Filed(a)'
        PROVE  a \in Gone \/ (a \in Rng(arrow) /\ a <= progress)
    BY <1>0, <1>2, <2>1 DEF Loss, Gone, Filed, Settled
  <2> QED BY <1>2, <2>1 DEF Gone
<1> QED BY <1>1, <1>2, FiledStays

\* A writer that is gone has no open file: what is lost then is gone.
LEMMA LostIsGone ==
    ASSUME FileOpen, call = "none"
    PROVE  Lost = Gone
BY RngEmpty DEF FileOpen, Lost, Gone, Filed

\* An unfinished file in the directory is the sign of a loss: without one
\* every article up to the progress is accounted for, whatever failed, for
\* any sizes of file and row group, in parquet mode, if every article that is
\* unavailable could be listed in __errors.csv.
THEOREM LossLeavesFile ==
    ASSUME WriteMode = "parquet", "errorlog" \notin Faults
    PROVE  Spec => []LossVisible
<1> DEFINE Inv == TracedSafe /\ (~leftover => Gone = {})
<1>1. Init => Inv
  <2>1. Init => progress = 0 /\ 1 .. 0 = {}
    BY DEF Init, AWInit
  <2>2. Init => Gone = {}
    BY <2>1 DEF Gone
  <2> QED BY <2>2, TracedSafeInv
<1>2. ASSUME Inv, [Next]_vars PROVE Inv'
  <2>1. CASE Next
    <3>1. ASSUME ~leftover' PROVE Gone' = {}
      BY <1>2, <2>1, <3>1, GoneGrows, LeftoverStays DEF Loss
    <3> QED BY <1>2, <2>1, <3>1, TracedSafeInv
  <2>2. CASE UNCHANGED vars
    <3>1. UNCHANGED <<leftover, Gone>>
      BY <2>2 DEF Gone, Filed, Settled, vars, awVars, disk, memory, server
    <3> QED BY <1>2, <3>1, TracedSafeInv
  <2> QED BY <1>2, <2>1, <2>2
<1>3. Inv => LossVisible
  BY LostIsGone DEF LossVisible, TracedSafe
<1> QED BY <1>1, <1>2, <1>3, PTL DEF Spec

(***************************************************************************)
(* How much is lost.                                                       *)
(***************************************************************************)
Groups(n) == \E q \in Nat : n = q * RowGroupSize

\* Room for the e-mail of a call is there when it begins.
Room == IF call = "add" THEN 0 ELSE 1

\* Rows handed over before the batch that is not committed yet.
Before(pre) ==
    /\ arrow = pre \o synced
    /\ Groups(Len(pre)) /\ Len(pre) < MaxPerFile
    /\ pre # <<>> /\ synced # <<>> => progress \in Rng(pre)

Rows ==
    /\ call = "none" => emailsInFile = 0
    /\ call = "add" => buffer # <<>>
    /\ call \in {"idle", "add", "lineage", "commit"} =>
          /\ emailsInFile = Len(arrow) + Len(buffer)
          /\ emailsInFile + Room <= MaxPerFile
          /\ Len(buffer) + Room <= RowGroupSize
    /\ call \notin {"rotate", "footer", "save"} =>
          Groups(Len(arrow)) /\ Len(arrow) < MaxPerFile
    /\ call \in {"idle", "add", "lineage"} => arrow = <<>> \/ progress \in Rng(arrow)
    /\ call \in {"failed", "closing"} /\ buffer # <<>> =>
          arrow = <<>> \/ progress \in Rng(arrow)
    /\ call = "commit" => arrow = <<>> \/ Rng(synced) \subseteq Rng(arrow)
    /\ call \in {"rotate", "footer"} => \E pre \in Seq(Ids) : Before(pre)

\* The row groups complete before the last row of a file are UnsafeRows.
LEMMA WholeGroups ==
    ASSUME NEW n \in Nat, Groups(n), n < MaxPerFile
    PROVE  n <= UnsafeRows
<1>1. RowGroupSize \in Nat \ {0}
  BY SizesAssumption DEF RowGroupSize
<1>2. PICK q \in Nat : n = q * RowGroupSize
  BY DEF Groups
<1> DEFINE d == (MaxPerFile - 1) \div RowGroupSize
<1>3. d \in Nat /\ MaxPerFile - 1 < (d + 1) * RowGroupSize
  BY <1>1, SizesAssumption
<1>4. q <= d
  <2>1. ASSUME q >= d + 1 PROVE FALSE
    <3>1. q * RowGroupSize >= (d + 1) * RowGroupSize
      BY <1>1, <1>3, <2>1
    <3> QED BY <1>1, <1>2, <1>3, <3>1, SizesAssumption
  <2> QED BY <1>3, <2>1
<1>5. q * RowGroupSize <= d * RowGroupSize
  BY <1>1, <1>3, <1>4
<1> QED BY <1>2, <1>5 DEF UnsafeRows

\* No file is open when a writer starts, and none is in it when it ends.
LEMMA NoRows ==
    ASSUME MaxPerFile # 0
    PROVE  /\ Groups(0) /\ 0 < MaxPerFile /\ Len(<<>>) = 0
           /\ RowGroupSize \in Nat \ {0} /\ RowGroupSize <= MaxPerFile
<1>1. RowGroupSize \in Nat \ {0} /\ RowGroupSize <= MaxPerFile
  BY SizesAssumption DEF RowGroupSize
<1> QED BY <1>1, SizesAssumption DEF Groups

\* A whole buffer is one more row group.
LEMMA OneMoreGroup ==
    ASSUME NEW n \in Nat, Groups(n), MaxPerFile # 0
    PROVE  Groups(n + RowGroupSize)
<1>1. PICK q \in Nat : n = q * RowGroupSize
  BY DEF Groups
<1>2. n + RowGroupSize = (q + 1) * RowGroupSize
  BY <1>1, NoRows
<1> QED BY <1>2 DEF Groups

\* A batch handed over to complete row groups leaves Before true.
LEMMA HandedOver ==
    ASSUME arrow \in Seq(Ids), arrow' = arrow \o synced',
           Groups(Len(arrow)), Len(arrow) < MaxPerFile,
           arrow # <<>> /\ synced' # <<>> => progress' \in Rng(arrow)
    PROVE  \E pre \in Seq(Ids) : Before(pre)'
<1>1. ASSUME NEW pre \in Seq(Ids), pre = arrow PROVE Before(pre)'
  BY <1>1 DEF Before, Groups
<1> QED BY <1>1

\* The steps of archive_email keep Rows.
LEMMA RowsCall ==
    ASSUME WriteMode = "parquet", MaxPerFile # 0, NntpTypeInv, Together, Rows,
           KeepBuffered \/ Flush \/ Rotate \/ CommitProgress \/ AppendLineage
    PROVE  Rows'
<1> USE DEF Rows, Room
<1>0. /\ buffer \in Seq(Ids) /\ arrow \in Seq(Ids) /\ synced \in Seq(Ids)
      /\ emailsInFile \in Nat /\ Len(buffer) \in Nat /\ Len(arrow) \in Nat
      /\ call = "commit" => synced # <<>>
  BY DEF NntpTypeInv, TypeInv, TypeOK
<1>z. /\ Groups(0) /\ 0 < MaxPerFile /\ Len(<<>>) = 0 /\ MaxPerFile \in Nat
      /\ RowGroupSize \in Nat \ {0} /\ RowGroupSize <= MaxPerFile
  BY NoRows, SizesAssumption
<1>1. CASE KeepBuffered
  <2>1. emailsInFile < MaxPerFile /\ Len(buffer) < RowGroupSize
    BY <1>0, <1>1, <1>z DEF KeepBuffered, FlushDue, RotationDue
  <2> QED BY <1>0, <1>1, <1>z, <2>1 DEF KeepBuffered, disk
<1>2. CASE Flush
  <2>0. call = "add" /\ Len(buffer) > 0
    BY <1>0, <1>2, EmptySeq DEF Flush
  <2>1. CASE FlushBatch("rotate")
    <3>1. \E pre \in Seq(Ids) : Before(pre)'
      BY <1>0, <2>0, <2>1, HandedOver DEF FlushBatch, disk
    <3> QED BY <1>0, <1>z, <2>0, <2>1, <3>1 DEF FlushBatch, disk
  <2>2. CASE ~RotationDue /\ FlushBatch("commit")
    <3>1. Len(buffer) = RowGroupSize /\ emailsInFile < MaxPerFile
      BY <1>0, <1>2, <1>z, <2>0, <2>2 DEF Flush, FlushDue, RotationDue
    <3>2. /\ Len(arrow') = Len(arrow) + RowGroupSize
          /\ Rng(arrow') = Rng(arrow) \cup Rng(buffer)
      BY <1>0, <2>2, <3>1, RngConcat DEF FlushBatch
    <3>3. Groups(Len(arrow'))
      BY <1>0, <2>0, <3>2, OneMoreGroup
    <3> QED BY <1>0, <1>z, <2>0, <2>2, <3>1, <3>2, <3>3 DEF FlushBatch, disk
  <2>3. CASE call' = "failed" /\ UNCHANGED <<arrow, progress>>
    BY <2>0, <2>3
  <2> QED BY <1>2, <2>1, <2>2, <2>3 DEF Flush, disk
<1>3. CASE Rotate
  BY <1>0, <1>3, <1>z, RngEmpty DEF Rotate, FinishFile, Together
<1>4. CASE CommitProgress
  <2>0. call = "commit" /\ buffer = <<>> /\ UNCHANGED <<arrow, buffer, emailsInFile>>
    BY <1>4 DEF CommitProgress, Together
  <2>1. CASE /\ SaveProgress(Head(synced)) /\ synced' = Tail(synced)
             /\ call' \in {"lineage", "commit"}
    <3>1. Head(synced) \in Rng(synced) /\ Rng(Tail(synced)) \subseteq Rng(synced)
      BY <1>0, <2>0, RngHeadTail
    <3>2. arrow = <<>> \/ (progress' \in Rng(arrow) /\ Rng(synced') \subseteq Rng(arrow))
      BY <2>0, <2>1, <3>1 DEF SaveProgress
    <3> QED BY <1>0, <2>0, <2>1, <3>2
  <2>2. CASE call' = "failed"
    BY <1>0, <2>0, <2>2
  <2> QED BY <1>4, <2>1, <2>2 DEF CommitProgress
<1>5. CASE AppendLineage
  BY <1>0, <1>5 DEF AppendLineage
<1> QED BY <1>1, <1>2, <1>3, <1>4, <1>5

\* Every step keeps Rows.
LEMMA RowsStep ==
    ASSUME WriteMode = "parquet", MaxPerFile # 0,
           NntpTypeInv, Together, FileOpen, Rows, Next
    PROVE  Rows'
<1> USE DEF Rows, Room
<1>0. /\ buffer \in Seq(Ids) /\ arrow \in Seq(Ids) /\ synced \in Seq(Ids)
      /\ emailsInFile \in Nat /\ Len(buffer) \in Nat /\ Len(arrow) \in Nat
  BY DEF NntpTypeInv, TypeInv, TypeOK
<1>z. /\ Groups(0) /\ 0 < MaxPerFile /\ Len(<<>>) = 0 /\ MaxPerFile \in Nat
      /\ RowGroupSize \in Nat \ {0} /\ RowGroupSize <= MaxPerFile
  BY NoRows, SizesAssumption
<1>r. ASSUME Release PROVE Rows'
  BY <1>z, <1>r DEF Release
<1>1. CASE Elsewhere
  <2>1. UNCHANGED <<call, buffer, arrow, synced, emailsInFile, progress>>
    BY <1>1, ElsewhereQuiet DEF memory, disk
  <2> QED BY <2>1 DEF Before
<1>2. CASE Recv \/ Kill
  <2>1. CASE Recv
    <3>1. call = "none" /\ call' = "idle" /\ buffer = <<>> /\ arrow = <<>>
      BY <2>1 DEF Recv, New, Together, FileOpen
    <3>2. UNCHANGED <<buffer, arrow, emailsInFile, synced, progress>>
      BY <2>1 DEF Recv, New, disk
    <3> QED BY <1>z, <3>1, <3>2
  <2> QED BY <1>2, <1>r, <2>1 DEF Kill, Crash
<1>3. CASE FetchArticle
  <2>1. nextMail \in Ids /\ call = "idle" /\ call' = "add"
    BY <1>3, FetchingId, ModesAssumption DEF FetchArticle, AddEmail, Fetching
  <2>2. /\ buffer' = Append(buffer, nextMail) /\ emailsInFile' = emailsInFile + 1
        /\ UNCHANGED <<arrow, progress>>
    BY <1>3, ModesAssumption DEF FetchArticle, AddEmail
  <2>3. Len(buffer') = Len(buffer) + 1
    BY <1>0, <2>1, <2>2
  <2>4. buffer' # <<>>
    BY <1>0, <1>z, <2>3
  <2> QED BY <1>0, <1>z, <2>1, <2>2, <2>3, <2>4
<1>4. CASE ArticleUnavailable
  BY <1>4 DEF ArticleUnavailable, LogError, memory
<1>5. CASE DropWriter
  BY <1>0, <1>5 DEF DropWriter, BeginDrop, disk
<1>6. CASE InWriter
  <2>1. CASE CloseFlush
    <3>0. call = "closing" /\ synced = <<>>
      BY <2>1 DEF CloseFlush, Together
    <3>1. CASE FlushBatch("footer") /\ buffer # <<>>
      <4>1. \E pre \in Seq(Ids) : Before(pre)'
        BY <1>0, <3>0, <3>1, HandedOver DEF FlushBatch, disk
      <4> QED BY <1>0, <3>1, <4>1 DEF FlushBatch
    <3>2. CASE call' = "footer" /\ UNCHANGED <<disk, buffer, arrow, synced>>
      <4>1. arrow' = arrow \o synced' /\ synced' = <<>>
        BY <1>0, <3>0, <3>2
      <4>2. \E pre \in Seq(Ids) : Before(pre)'
        BY <1>0, <3>0, <3>2, <4>1, HandedOver DEF disk
      <4> QED BY <1>0, <3>2, <4>2
    <3> QED BY <1>r, <2>1, <3>1, <3>2 DEF CloseFlush
  <2>2. CASE CloseFooter \/ SaveLast
    BY <1>r, <2>2 DEF CloseFooter, SaveLast
  <2>3. ~WriteRaw
    BY DEF WriteRaw, FileOpen
  <2> QED BY <1>6, <2>1, <2>2, <2>3, RowsCall DEF InWriter, WriterStep
<1> QED BY <1>1, <1>2, <1>3, <1>4, <1>5, <1>6, NextCases

\* A sequence has at most as many e-mails as rows.
LEMMA RngCount ==
    ASSUME NEW S, NEW s \in Seq(S)
    PROVE  IsFiniteSet(Rng(s)) /\ Cardinality(Rng(s)) <= Len(s)
<1>1. Len(s) \in Nat /\ DOMAIN s = 1 .. Len(s)
  OBVIOUS
<1> DEFINE f == [i \in 1 .. Len(s) |-> s[i]]
<1>2. f \in Surjection(1 .. Len(s), Rng(s))
  BY <1>1 DEF Rng, Surjection
<1>3. IsFiniteSet(1 .. Len(s)) /\ Cardinality(1 .. Len(s)) = Len(s)
  BY <1>1, FS_Interval, SMTT(30)
<1> HIDE DEF f
<1> QED BY <1>2, <1>3, FS_Surjection

\* The rows of the open file whose progress is saved.
AtRisk == {a \in Rng(arrow) : a <= progress}

\* They are rows of the complete row groups before the last one.
LEMMA AtRiskBound ==
    ASSUME MaxPerFile > RowGroupCap, NntpTypeInv, Order, Rows, call # "save"
    PROVE  IsFiniteSet(AtRisk) /\ Cardinality(AtRisk) <= UnsafeRows
<1>0. /\ arrow \in Seq(Ids) /\ synced \in Seq(Ids) /\ progress \in Nat
      /\ Rng(synced) \subseteq Nat /\ Rng(arrow) \subseteq Nat
  BY RngType, SizesAssumption DEF NntpTypeInv, TypeInv, TypeOK, Ids
<1>1. UnsafeRows \in Nat /\ 1 <= UnsafeRows
  <2>1. RowGroupSize \in Nat \ {0} /\ RowGroupSize <= MaxPerFile - 1 /\ MaxPerFile \in Nat
    BY SizesAssumption DEF RowGroupSize
  <2> DEFINE d == (MaxPerFile - 1) \div RowGroupSize
  <2>2. d \in Nat /\ d >= 1
    BY <2>1
  <2> HIDE DEF d
  <2>3. d * RowGroupSize \in Nat /\ d * RowGroupSize >= 1
    BY <2>1, <2>2
  <2> QED BY <2>3 DEF UnsafeRows, d
<1>2. ASSUME NEW pre \in Seq(Ids), Groups(Len(pre)), Len(pre) < MaxPerFile,
             AtRisk \subseteq Rng(pre)
      PROVE  IsFiniteSet(AtRisk) /\ Cardinality(AtRisk) <= UnsafeRows
  <2>1. Len(pre) \in Nat /\ Len(pre) <= UnsafeRows
    BY <1>2, WholeGroups
  <2>2. IsFiniteSet(Rng(pre)) /\ Cardinality(Rng(pre)) <= Len(pre)
    BY RngCount
  <2>3. /\ IsFiniteSet(AtRisk) /\ Cardinality(AtRisk) <= Cardinality(Rng(pre))
        /\ Cardinality(AtRisk) \in Nat /\ Cardinality(Rng(pre)) \in Nat
    BY <1>2, <2>2, FS_Subset, FS_CardinalityType
  <2> QED BY <1>1, <2>1, <2>2, <2>3
<1>3. CASE call \notin {"rotate", "footer"}
  BY <1>0, <1>2, <1>3 DEF Rows, AtRisk
<1>4. CASE call \in {"rotate", "footer"}
  <2>1. PICK pre \in Seq(Ids) : Before(pre)
    BY <1>4 DEF Rows
  <2>2. Rng(arrow) = Rng(pre) \cup Rng(synced)
    BY <1>0, <2>1, RngConcat DEF Before
  <2>3. ASSUME NEW a \in AtRisk PROVE a \in Rng(pre) \/ (a = progress /\ synced # <<>>)
    BY <1>0, <2>2, <2>3, RngEmpty DEF AtRisk, Order, AllFrom
  <2>4. CASE pre # <<>>
    BY <1>2, <2>1, <2>3, <2>4 DEF Before
  <2>5. CASE pre = <<>>
    <3>1. AtRisk \subseteq {progress}
      BY <2>3, <2>5, RngEmpty
    <3>2. /\ IsFiniteSet(AtRisk) /\ Cardinality(AtRisk) <= 1
          /\ Cardinality(AtRisk) \in Nat
      <4>1. IsFiniteSet({progress}) /\ Cardinality({progress}) = 1
        BY FS_Singleton
      <4> QED BY <3>1, <4>1, FS_Subset, FS_CardinalityType
    <3> QED BY <1>1, <3>2
  <2> QED BY <2>4, <2>5
<1> QED BY <1>3, <1>4

\* Faults are only counted up.
LEMMA FaultsGrow ==
    ASSUME NntpTypeInv, Next
    PROVE  faults \in Nat /\ faults' \in Nat /\ faults <= faults'
<1>1. faults \in Nat
  BY SizesAssumption DEF NntpTypeInv, TypeInv, TypeOK
<1>2. faults' \in {faults, faults + 1}
  <2>1. CASE Elsewhere
    BY <2>1, ElsewhereQuiet DEF Fault
  <2>2. CASE Recv \/ FetchArticle \/ ArticleUnavailable \/ DropWriter \/ Kill
    BY <2>2 DEF Recv, New, FetchArticle, AddEmail, ArticleUnavailable, LogError, DropWriter,
       BeginDrop, Kill, Crash, Fault
  <2>3. CASE InWriter
    BY <2>3 DEF InWriter, WriterStep, WriteRaw, KeepBuffered, Flush, FlushBatch, Rotate,
       CommitProgress, AppendLineage, CloseFlush, CloseFooter, SaveLast, Fault
  <2> QED BY <2>1, <2>2, <2>3, NextCases
<1> QED BY <1>1, <1>2

\* More faults leave room for more losses.
LEMMA TimesMonotone ==
    ASSUME NEW m \in Nat, NEW n \in Nat, m <= n, NEW k \in Nat
    PROVE  m * k \in Nat /\ n * k \in Nat /\ m * k <= n * k
OBVIOUS

Bounded == Cardinality(Gone) <= faults * UnsafeRows

\* A loss adds the rows at risk and a fault, another step adds neither.
LEMMA BoundedStep ==
    ASSUME WriteMode = "parquet", MaxPerFile > RowGroupCap,
           TracedSafe, Rows, Bounded, Next
    PROVE  Bounded'
<1>0. /\ IsFiniteSet(Gone) /\ Cardinality(Gone) \in Nat
      /\ faults \in Nat /\ faults' \in Nat /\ faults <= faults'
      /\ IsFiniteSet(1 .. progress)
  <2>1. progress \in Int
    BY SizesAssumption DEF TracedSafe, NntpTypeInv, TypeInv, TypeOK
  <2>2. IsFiniteSet(1 .. progress)
    BY <2>1, FS_Interval
  <2>3. IsFiniteSet(Gone)
    BY <2>2, FS_Subset DEF Gone
  <2> QED BY <2>2, <2>3, FaultsGrow, FS_CardinalityType DEF TracedSafe
<1>1. UnsafeRows \in Nat
  <2>1. RowGroupSize \in Nat \ {0} /\ MaxPerFile - 1 \in Nat
    BY SizesAssumption DEF RowGroupSize
  <2> QED BY <2>1 DEF UnsafeRows
<1>2. CASE Gone' \subseteq Gone
  <2>1. Cardinality(Gone') <= Cardinality(Gone) /\ Cardinality(Gone') \in Nat
    BY <1>0, <1>2, FS_Subset, FS_CardinalityType
  <2>2. /\ faults * UnsafeRows \in Nat /\ faults' * UnsafeRows \in Nat
        /\ faults * UnsafeRows <= faults' * UnsafeRows
    BY <1>0, <1>1, TimesMonotone
  <2> QED BY <1>0, <2>1, <2>2 DEF Bounded, UnsafeRows, RowGroupSize
<1>3. CASE Loss /\ Gone' \subseteq Gone \cup AtRisk
  <2>1. /\ IsFiniteSet(AtRisk) /\ Cardinality(AtRisk) <= UnsafeRows
        /\ Cardinality(AtRisk) \in Nat
    BY <1>3, AtRiskBound, FS_CardinalityType DEF Loss, TracedSafe
  <2>2. /\ IsFiniteSet(Gone \cup AtRisk)
        /\ Cardinality(Gone \cup AtRisk) <= Cardinality(Gone) + Cardinality(AtRisk)
    <3>1. IsFiniteSet(Gone \cap AtRisk) /\ Cardinality(Gone \cap AtRisk) \in Nat
      BY <1>0, FS_Subset, FS_CardinalityType
    <3>2. IsFiniteSet(Gone \cup AtRisk)
          /\ Cardinality(Gone \cup AtRisk)
               = Cardinality(Gone) + Cardinality(AtRisk) - Cardinality(Gone \cap AtRisk)
      BY <1>0, <2>1, FS_Union
    <3> QED BY <1>0, <2>1, <3>1, <3>2
  <2>3. /\ Cardinality(Gone') <= Cardinality(Gone \cup AtRisk)
        /\ Cardinality(Gone') \in Nat /\ Cardinality(Gone \cup AtRisk) \in Nat
    BY <1>3, <2>2, FS_Subset, FS_CardinalityType
  <2>4. faults' = faults + 1
    BY <1>3 DEF Loss
  <2>5. faults' * UnsafeRows = faults * UnsafeRows + UnsafeRows /\ faults * UnsafeRows \in Nat
    BY <1>0, <1>1, <2>4
  <2> QED BY <1>0, <1>1, <2>1, <2>2, <2>3, <2>5, SMTT(60) DEF Bounded, UnsafeRows, RowGroupSize
<1> QED BY <1>2, <1>3, GoneGrows DEF AtRisk

\* However often the process is killed or a write fails, each fault costs at
\* most the complete row groups of one file, and none if a file is a single
\* row group: in parquet mode, for any sizes of file (but one that is never
\* rotated) and row group, if every article that is unavailable could be
\* listed in __errors.csv.
THEOREM LossPerFault ==
    ASSUME WriteMode = "parquet", MaxPerFile # 0, "errorlog" \notin Faults
    PROVE  Spec => []LossBounded
<1>1. CASE FilePerBatch
  <2>1. Safe /\ NoLostEmail => LossBounded
    <3> SUFFICES ASSUME Safe, NoLostEmail PROVE LossBounded
      OBVIOUS
    <3>1. Lost = {}
      BY DEF NoLostEmail, Lost
    <3>2. RowGroupSize = MaxPerFile /\ MaxPerFile \in Nat \ {0}
      BY <1>1, SizesAssumption DEF FilePerBatch, RowGroupSize
    <3>3. (MaxPerFile - 1) \div MaxPerFile = 0
      BY <3>2
    <3>4. UnsafeRows = 0 /\ faults \in Nat
      BY <3>2, <3>3, SizesAssumption DEF UnsafeRows, Safe, NntpTypeInv, TypeInv, TypeOK
    <3> QED BY <3>1, <3>4, FS_EmptySet DEF LossBounded
  <2> QED BY <1>1, <2>1, NothingLost, SafeInit, SafeStep, PTL DEF Spec
<1>2. CASE ~FilePerBatch
  <2>0. MaxPerFile > RowGroupCap
    BY <1>2, SizesAssumption DEF FilePerBatch
  <2> DEFINE Inv == TracedSafe /\ Rows /\ Bounded
  <2>1. Init => Inv
    <3> SUFFICES ASSUME Init PROVE Rows /\ Bounded
      BY TracedSafeInv
    <3>1. Rows
      BY NoRows DEF Init, AWInit, Rows
    <3>2. Gone = {}
      BY DEF Init, AWInit, Gone
    <3>3. UnsafeRows \in Int /\ faults = 0
      BY NoRows, SizesAssumption DEF UnsafeRows, Init, AWInit
    <3> QED BY <3>1, <3>2, <3>3, FS_EmptySet DEF Bounded
  <2>2. ASSUME Inv, [Next]_vars PROVE Inv'
    <3>1. CASE Next
      BY <2>0, <2>2, <3>1, TracedSafeInv, RowsStep, BoundedStep DEF TracedSafe
    <3>2. CASE UNCHANGED vars
      <4>1. Rows' /\ Bounded'
        BY <2>2, <3>2 DEF Rows, Room, Before, Groups, Bounded, Gone, Filed, Settled,
           vars, awVars, disk, memory, server
      <4> QED BY <2>2, <4>1, TracedSafeInv
    <3> QED BY <2>2, <3>1, <3>2
  <2>3. Inv => LossBounded
    BY LostIsGone DEF LossBounded, Bounded, TracedSafe
  <2> QED BY <2>1, <2>2, <2>3, PTL DEF Spec
<1> QED BY <1>1, <1>2

=============================================================================
