--------------------------- MODULE RangeModeProofs ---------------------------
(***************************************************************************)
(* Range mode for any number of workers, indexes, broken connections and   *)
(* second starts: what is stored is lost only where two workers created    *)
(* one file, the progress names what is stored, and no index is left out.  *)
(*                                                                         *)
(* FileInv says who created a file and what is in it; from it follows that *)
(* an e-mail once Kept (in a file, or in one that two workers created) is  *)
(* kept by every step, whatever the other workers do.                      *)
(***************************************************************************)
EXTENDS RangeMode, SequenceTheorems, TLAPS

Busy == {"group", "fetch", "write", "commit", "lineage",
         "resolve", "create", "footer", "save"}
Archiving == Busy \ {"group", "fetch"}

\* A worker knows its index, which is one the source has once it archives.
TasksKnown ==
    \A w \in Workers :
      /\ pc[w] \in Busy => task[w] \in Indexes
      /\ pc[w] \in Archiving => task[w] \in available
      /\ pc[w] \in {"write", "commit"} => mode = "raw"
      /\ pc[w] \in {"resolve", "create", "footer", "save"} => mode = "parquet"
      /\ pc[w] # "exit" => w \in active

TypeInv == TypeOK /\ TasksKnown

\* The files are numbered without a gap, and a number that was resolved is
\* the next one at most.
Contiguous ==
    \E k \in Numbers \cup {0} :
      /\ \A n \in Numbers : files[n].exists <=> n <= k
      /\ \A w \in Workers : pc[w] = "create" => path[w] <= k + 1

Kept(i) == i \in Readable \cup torn \/ Collided(i)

\* What is in a file was put there by a worker that created it; a file that
\* was open twice at a time was created twice; nobody creates one again.
FileInv ==
    /\ \A n \in Numbers :
         /\ takers[n] # {} => files[n].exists
         /\ \A i \in files[n].rows : \E w \in Workers : <<w, i>> \in takers[n]
         /\ files[n].shared => \E x, y \in takers[n] : x # y
    /\ \A w \in Workers :
         /\ pc[w] = "create" => \A i \in available : <<w, i>> \notin takers[path[w]]
         /\ pc[w] = "footer" => <<w, task[w]>> \in takers[path[w]]

\* The e-mail a worker has just written, the stored ones and the last one of
\* the progress are kept.
KeptInv ==
    /\ \A i \in stored : Kept(i)
    /\ progress # 0 => Kept(progress)
    /\ progress = 0 /\ longest # 0 =>
         source = "nntp" /\ \E i \in available : Width[i] + 1 < longest
    /\ source # "nntp" => longest <= 1
    /\ \A w \in Workers : pc[w] = "save" => Kept(task[w])
    /\ \A w \in Workers : mode = "raw" /\ pc[w] \in {"commit", "lineage"} =>
         task[w] \in raw \cup torn

Single == \A v, w \in active : v = w

\* Files are created only in parquet mode, and by a single worker only once.
Uncollided ==
    /\ mode = "raw" => \A n \in Numbers : takers[n] = {}
    /\ Single => /\ \A n \in Numbers : \A x, y \in takers[n] : x = y
                 /\ \A w \in Workers : pc[w] = "create" => takers[path[w]] = {}

IInv == TypeInv /\ Contiguous /\ FileInv /\ KeptInv /\ Uncollided

-----------------------------------------------------------------------------
\* Facts about the constants.
LEMMA Constants ==
    /\ Numbers \subseteq Nat \ {0}
    /\ Indexes \subseteq Nat \ {0}
    /\ Tasks \in Seq(Indexes)
    /\ 0 \notin Indexes
<1>1. Tasks \in Seq(Nat \ {0})
  BY RangeAssumption
<1>2. Indexes \subseteq Nat \ {0}
  BY <1>1, RangeOfSeq, Zenon DEF Indexes
<1>4. Tasks \in Seq(Indexes)
  BY <1>1, SeqOfRange, Zenon DEF Indexes
<1>3. Numbers \subseteq Nat \ {0}
  BY DEF Numbers
<1> QED BY <1>2, <1>3, <1>4

\* The first message and the rest of the channel.
LEMMA QueueTail ==
    ASSUME NEW S, NEW q \in Seq(S), q # <<>>
    PROVE  /\ Tail(q) \in Seq(S) /\ Head(q) \in S
           /\ Range(q) = {Head(q)} \cup Range(Tail(q))
<1>1. /\ Tail(q) \in Seq(S) /\ Len(q) \in Nat \ {0}
      /\ Len(Tail(q)) = Len(q) - 1
      /\ \A i \in 1 .. Len(q) - 1 : Tail(q)[i] = q[i + 1]
      /\ Head(q) = q[1] /\ q[1] \in S
  BY HeadTailProperties, EmptySeq
<1>2. /\ Range(q) = {q[i] : i \in 1 .. Len(q)}
      /\ Range(Tail(q)) = {Tail(q)[i] : i \in 1 .. Len(q) - 1}
  BY <1>1, RangeEquality, ZenonT(60)
<1>3. \A i \in 1 .. Len(q) : i = 1 \/ (i - 1 \in 1 .. Len(q) - 1 /\ q[i] = Tail(q)[i - 1])
  BY <1>1
<1>4. ASSUME NEW x \in Range(q) PROVE x \in {Head(q)} \cup Range(Tail(q))
  <2>1. PICK i \in 1 .. Len(q) : x = q[i]
    BY <1>2
  <2> QED BY <2>1, <1>1, <1>2, <1>3
<1>5. ASSUME NEW x \in {Head(q)} \cup Range(Tail(q)) PROVE x \in Range(q)
  <2>1. CASE x = Head(q)
    BY <2>1, <1>1, <1>2
  <2>2. CASE x \in Range(Tail(q))
    <3>1. PICK i \in 1 .. Len(q) - 1 : x = Tail(q)[i]
      BY <2>2, <1>2
    <3>2. i + 1 \in 1 .. Len(q) /\ x = q[i + 1]
      BY <3>1, <1>1
    <3> QED BY <3>2, <1>2
  <2> QED BY <2>1, <2>2
<1> QED BY <1>1, <1>4, <1>5

\* Where the files have no gap, the next number is behind all of them.
LEMMA NextIsNew ==
    ASSUME NEW k \in Numbers \cup {0}, \A n \in Numbers : files[n].exists <=> n <= k
    PROVE  NextNumber = k + 1
<1> DEFINE E == {0} \cup {n \in Numbers : files[n].exists}
<1>1. k \in E /\ \A y \in E : k >= y
  BY Constants
<1>2. \A y \in E : y \in Nat
  BY Constants
<1>3. Max(E) \in E /\ \A y \in E : Max(E) >= y
  <2> HIDE DEF E
  <2> QED BY <1>1 DEF Max
<1>4. Max(E) = k
  <2> HIDE DEF E
  <2>1. Max(E) \in Nat /\ k \in Nat /\ Max(E) >= k /\ k >= Max(E)
    BY <1>1, <1>2, <1>3
  <2> QED BY <2>1
<1> QED BY <1>4, Constants DEF NextNumber

\* The configuration never changes; the actions by name.
LEMMA StepCases ==
    ASSUME [Next]_vars
    PROVE  /\ source' = source /\ mode' = mode /\ available' = available /\ active' = active
           /\ \/ \E w \in Workers : Step(w) \/ ConnectionBreaks(w) \/ IoError(w)
              \/ CtrlC \/ StartAgain \/ UNCHANGED vars
<1>1. \/ \E w \in Workers : Step(w) \/ ConnectionBreaks(w) \/ IoError(w)
      \/ CtrlC \/ StartAgain \/ UNCHANGED vars
  BY DEF Next
<1>2. config' = config
  <2>1. ASSUME NEW w \in Workers, Step(w) PROVE config' = config
    BY <2>1 DEF Step, Recv, RecvClosed, SelectGroup, PassOver, NotAvailable, Archive,
       WriteRaw, CommitProgress, AppendLineage, Resolve, Create, WriteFooter, SaveLast
  <2>2. ASSUME NEW w \in Workers, ConnectionBreaks(w) PROVE config' = config
    BY <2>2 DEF ConnectionBreaks
  <2>3. ASSUME NEW w \in Workers, IoError(w) PROVE config' = config
    BY <2>3 DEF IoError, ArchiveFails, LogFails, CloseFails, SaveFails
  <2>4. CtrlC \/ StartAgain \/ UNCHANGED vars => config' = config
    BY DEF CtrlC, StartAgain, vars
  <2> QED BY <1>1, <2>1, <2>2, <2>3, <2>4
<1> QED BY <1>1, <1>2 DEF config

-----------------------------------------------------------------------------
\* The types, with what a worker knows at each step, are inductive.
LEMMA TypeStep == TypeInv /\ [Next]_vars => TypeInv'
<1> SUFFICES ASSUME TypeInv, [Next]_vars PROVE TypeInv'
  OBVIOUS
<1> USE DEF TypeInv, TypeOK, TasksKnown, Busy, Archiving, Steps, config, disk, ended,
        Goto, Return, Fail
<1>s. /\ source' = source /\ mode' = mode /\ available' = available /\ active' = active
      /\ \/ \E w \in Workers : Step(w) \/ ConnectionBreaks(w) \/ IoError(w)
         \/ CtrlC \/ StartAgain \/ UNCHANGED vars
  BY StepCases
<1>f. Fault => faults' \in 0 .. MaxFaults
  BY RangeAssumption DEF Fault
<1>1. ASSUME NEW w \in Workers, Recv(w) PROVE TypeInv'
  <2>1. queue' \in Seq(Indexes) /\ Head(queue) \in Indexes
    BY <1>1, QueueTail DEF Recv
  <2> QED BY <1>1, <1>s, <2>1 DEF Recv
<1>2. ASSUME NEW w \in Workers, RecvClosed(w) PROVE TypeInv'
  BY <1>2, <1>s DEF RecvClosed
<1>3. ASSUME NEW w \in Workers, SelectGroup(w) PROVE TypeInv'
  <2>1. CASE Goto(w, "fetch") /\ UNCHANGED <<queue, disk, ended>>
    BY <1>3, <2>1, <1>s DEF SelectGroup
  <2>2. CASE Return(w) /\ Fail(w)
    <3>1. pc[w] = "group" /\ task[w] \in Indexes /\ UNCHANGED <<connected, shutdown, faults, restarts>>
      BY <1>3 DEF SelectGroup
    <3> QED BY <2>2, <3>1, <1>s
  <2> QED BY <1>3, <2>1, <2>2 DEF SelectGroup
<1>4. ASSUME NEW w \in Workers, ConnectionBreaks(w) PROVE TypeInv'
  BY <1>4, <1>s, <1>f DEF ConnectionBreaks
<1>5. ASSUME NEW w \in Workers, PassOver(w) PROVE TypeInv'
  BY <1>5, <1>s DEF PassOver
<1>6. ASSUME NEW w \in Workers, NotAvailable(w) PROVE TypeInv'
  BY <1>6, <1>s DEF NotAvailable, Fetching, RecordMissing
<1>7. ASSUME NEW w \in Workers, Archive(w) PROVE TypeInv'
  BY <1>7, <1>s, SMTT(60) DEF Archive, Fetching
<1>8. ASSUME NEW w \in Workers, WriteRaw(w) PROVE TypeInv'
  BY <1>8, <1>s DEF WriteRaw
<1>p. ASSUME NEW i \in available, SaveProgress(i)
      PROVE  progress' \in available \cup {0} /\ longest' \in Nat
  <2>1. Width[i] \in Nat
    BY RangeAssumption DEF Indexes
  <2> QED BY <1>p, <2>1 DEF SaveProgress
<1>9. ASSUME NEW w \in Workers, CommitProgress(w) PROVE TypeInv'
  <2>1. pc[w] = "commit" /\ task[w] \in available
    BY <1>9 DEF CommitProgress
  <2>2. progress' \in available \cup {0} /\ longest' \in Nat
    BY <1>9, <1>p, <2>1 DEF CommitProgress
  <2> QED BY <1>9, <1>s, <2>1, <2>2 DEF CommitProgress
<1>10. ASSUME NEW w \in Workers, AppendLineage(w) PROVE TypeInv'
  <2>1. /\ pc[w] = "lineage" /\ task[w] \in available
        /\ lineage' = lineage \cup {task[w]}
        /\ UNCHANGED <<queue, connected, shutdown, raw, torn, files, progress, longest,
                       errors, failed, skipped, lost, takers, faults, restarts>>
    BY <1>10 DEF AppendLineage
  <2>2. CASE Return(w) /\ Done(w)
    BY <2>1, <2>2, <1>s DEF Done
  <2>3. CASE mode = "parquet" /\ Goto(w, "resolve") /\ UNCHANGED stored
    BY <2>1, <2>3, <1>s
  <2> QED BY <1>10, <2>2, <2>3 DEF AppendLineage
<1>11. ASSUME NEW w \in Workers, Resolve(w) PROVE TypeInv'
  BY <1>11, <1>s, Constants DEF Resolve
<1>12. ASSUME NEW w \in Workers, Create(w) PROVE TypeInv'
  <2>1. path[w] \in Numbers /\ task[w] \in available /\ OpenElsewhere(w) \in BOOLEAN
    BY <1>12 DEF Create, OpenElsewhere
  <2>2. files' \in [Numbers -> [exists : BOOLEAN, shared : BOOLEAN, rows : SUBSET available]]
    BY <1>12, <2>1 DEF Create
  <2>3. takers' \in [Numbers -> SUBSET (Workers \X available)]
    BY <1>12, <2>1 DEF Create
  <2>4. UNCHANGED <<queue, task, path, connected, shutdown, raw, torn, progress, longest,
                    lineage, errors, failed, skipped, stored, lost, faults, restarts>>
    BY <1>12 DEF Create
  <2>5. pc' = [pc EXCEPT ![w] = "footer"] /\ pc[w] = "create"
    BY <1>12 DEF Create
  <2> QED BY <1>s, <2>1, <2>2, <2>3, <2>4, <2>5
<1>13. ASSUME NEW w \in Workers, WriteFooter(w) PROVE TypeInv'
  <2>1. path[w] \in Numbers /\ task[w] \in available
    BY <1>13 DEF WriteFooter
  <2>2. files' \in [Numbers -> [exists : BOOLEAN, shared : BOOLEAN, rows : SUBSET available]]
    BY <1>13, <2>1 DEF WriteFooter
  <2>3. UNCHANGED <<queue, task, path, connected, shutdown, raw, torn, progress, longest,
                    lineage, errors, failed, skipped, stored, lost, takers, faults, restarts>>
    BY <1>13 DEF WriteFooter
  <2>4. pc' = [pc EXCEPT ![w] = "save"] /\ pc[w] = "footer"
    BY <1>13 DEF WriteFooter
  <2> QED BY <1>s, <2>1, <2>2, <2>3, <2>4
<1>14. ASSUME NEW w \in Workers, SaveLast(w) PROVE TypeInv'
  <2>1. pc[w] = "save" /\ task[w] \in available
    BY <1>14 DEF SaveLast
  <2>2. progress' \in available \cup {0} /\ longest' \in Nat
    BY <1>14, <1>p, <2>1 DEF SaveLast
  <2> QED BY <1>14, <1>s, <2>1, <2>2 DEF SaveLast, Done
<1>18. ASSUME NEW w \in Workers, ArchiveFails(w) PROVE TypeInv'
  <2>1. /\ pc[w] \in {"fetch", "write", "commit", "lineage"} /\ task[w] \in Indexes
        /\ faults' \in 0 .. MaxFaults
        /\ failed' = failed \cup {task[w]}
        /\ UNCHANGED <<queue, connected, shutdown, raw, torn, files, progress, longest, lineage,
                       errors, skipped, stored, lost, takers, restarts>>
    BY <1>18, <1>f DEF ArchiveFails, Fetching
  <2>2. CASE Return(w)
    BY <2>1, <2>2, <1>s
  <2>3. CASE mode = "parquet" /\ Goto(w, "resolve")
    <3>1. pc[w] = "lineage"
      BY <1>18, <2>1, <2>3 DEF ArchiveFails
    <3> QED BY <2>1, <2>3, <3>1, <1>s
  <2> QED BY <1>18, <2>2, <2>3 DEF ArchiveFails
<1>19. ASSUME NEW w \in Workers, LogFails(w) PROVE TypeInv'
  BY <1>19, <1>s, <1>f DEF LogFails, Fetching
<1>20. ASSUME NEW w \in Workers, CloseFails(w) PROVE TypeInv'
  <2>1. /\ pc[w] \in {"resolve", "create", "footer"} /\ task[w] \in available
        /\ available \subseteq Indexes
    BY <1>20 DEF CloseFails
  <2>2. files' \in [Numbers -> [exists : BOOLEAN, shared : BOOLEAN, rows : SUBSET available]]
    <3>1. CASE files' = files
      BY <3>1
    <3>2. CASE files' # files
      <4>1. pc[w] = "footer" /\ path[w] \in Numbers
        BY <1>20, <3>2 DEF CloseFails
      <4>2. PICK rows \in {files[path[w]].rows} \cup (IF files[path[w]].shared THEN {{}} ELSE {}) :
              files' = [files EXCEPT ![path[w]] = [exists |-> TRUE, shared |-> files[path[w]].shared,
                                                   rows |-> rows]]
        BY <1>20, <3>2, ZenonT(60) DEF CloseFails
      <4>3. rows \in SUBSET available /\ files[path[w]].shared \in BOOLEAN
        BY <4>1, <4>2
      <4> QED BY <4>1, <4>2, <4>3
    <3> QED BY <3>1, <3>2
  <2>3. /\ UNCHANGED <<queue, connected, shutdown, raw, torn, progress, longest,
                        lineage, errors, failed, skipped, stored, takers, restarts>>
        /\ lost' = lost \cup {task[w]} /\ faults' \in 0 .. MaxFaults /\ Return(w)
    BY <1>20, <1>f DEF CloseFails
  <2> QED BY <1>s, <2>1, <2>2, <2>3
<1>21. ASSUME NEW w \in Workers, SaveFails(w) PROVE TypeInv'
  <2>1. pc[w] = "save" /\ task[w] \in available
    BY <1>21 DEF SaveFails
  <2> QED BY <1>21, <1>s, <1>f, <2>1 DEF SaveFails, Done
<1>15. ASSUME CtrlC PROVE TypeInv'
  BY <1>15, <1>s DEF CtrlC
<1>16. ASSUME StartAgain PROVE TypeInv'
  <2>1. /\ queue' \in Seq(Indexes) /\ restarts' \in 0 .. MaxRestarts /\ faults' \in 0 .. MaxFaults
        /\ failed' = {} /\ skipped' = {} /\ lost' = {}
    BY <1>16, <1>f, Constants, RangeAssumption DEF StartAgain
  <2>2. /\ pc' = [w \in Workers |-> IF w \in active THEN "recv" ELSE "exit"]
        /\ task' = [w \in Workers |-> 0] /\ path' = [w \in Workers |-> 0]
        /\ connected' \in [Workers -> BOOLEAN] /\ shutdown' \in BOOLEAN
        /\ UNCHANGED <<raw, torn, files, progress, longest, lineage, errors, stored, takers>>
    BY <1>16 DEF StartAgain
  <2>3. \A w \in Workers : pc'[w] \in {"recv", "exit"} /\ (pc'[w] # "exit" => w \in active)
    BY <2>2
  <2>4. TypeOK'
    BY <1>s, <2>1, <2>2, <2>3
  <2>5. TasksKnown'
    BY <1>s, <2>3
  <2> QED BY <2>4, <2>5
<1>17. ASSUME UNCHANGED vars PROVE TypeInv'
  BY <1>17 DEF vars
<1> QED
  BY <1>s, <1>1, <1>2, <1>3, <1>4, <1>5, <1>6, <1>7, <1>8, <1>9, <1>10, <1>11, <1>12,
     <1>13, <1>14, <1>15, <1>16, <1>17, <1>18, <1>19, <1>20, <1>21 DEF Step, IoError

LEMMA TypeInit == Init => TypeInv
<1> SUFFICES ASSUME Init PROVE TypeInv
  OBVIOUS
<1>1. \A w \in Workers : pc[w] \in {"recv", "exit"} /\ (pc[w] # "exit" => w \in active)
  BY DEF Init
<1>2. queue \in Seq(Indexes) /\ 0 \in 0 .. MaxFaults /\ 0 \in 0 .. MaxRestarts
  BY Constants, RangeAssumption DEF Init
<1>3. files \in [Numbers -> [exists : BOOLEAN, shared : BOOLEAN, rows : SUBSET available]]
  BY DEF Init, NoFile
<1>4. /\ pc \in [Workers -> Steps] /\ task \in [Workers -> Indexes \cup {0}]
      /\ path \in [Workers -> Nat] /\ connected \in [Workers -> BOOLEAN]
      /\ takers \in [Numbers -> SUBSET (Workers \X available)]
  BY DEF Init, Steps
<1>5. /\ source \in Sources /\ mode \in Modes /\ available \subseteq Indexes
      /\ active \subseteq Workers /\ active # {} /\ shutdown \in BOOLEAN
  BY DEF Init
<1>8. /\ raw = {} /\ torn = {} /\ lineage = {} /\ errors = {} /\ failed = {}
      /\ skipped = {} /\ stored = {} /\ lost = {} /\ progress = 0 /\ longest = 0
      /\ faults = 0 /\ restarts = 0
  BY DEF Init
<1>6. \A w \in Workers : pc[w] \in {"create", "footer"} => path[w] \in Numbers
  BY <1>1
<1>7. TypeOK
  BY <1>2, <1>3, <1>4, <1>5, <1>6, <1>8 DEF TypeOK
<1> QED BY <1>1, <1>7 DEF TypeInv, TasksKnown, Busy, Archiving

\* A step that neither resolves nor creates nor closes a file.
QuietStep ==
    /\ UNCHANGED <<files, takers>>
    /\ \A w \in Workers :
         /\ pc'[w] \in {"create", "footer"} =>
              pc[w] = pc'[w] /\ path'[w] = path[w] /\ task'[w] = task[w]
         /\ pc'[w] = "save" => pc[w] = "save" /\ task'[w] = task[w]

\* A worker is done with its file: it wrote its footer or failed to.
Closing(w) ==
    /\ pc[w] = "footer" /\ pc'[w] \notin {"create", "footer"}
    /\ UNCHANGED takers
    /\ \A v \in Workers : v # w => pc'[v] = pc[v] /\ path'[v] = path[v] /\ task'[v] = task[v]
    /\ LET file == files[path[w]]
       IN  \E rows \in {{task[w]}, file.rows} \cup (IF file.shared THEN {{}} ELSE {}) :
             files' = [files EXCEPT ![path[w]] = [exists |-> TRUE, shared |-> file.shared,
                                                  rows |-> rows]]

\* Every step is one of these.
LEMMA FileCases ==
    ASSUME TypeInv, [Next]_vars
    PROVE  \/ QuietStep
           \/ \E w \in Workers : Resolve(w) \/ Create(w) \/ Closing(w)
<1> USE DEF TypeInv, TypeOK, config, disk, ended, Goto, Return, Fail, QuietStep
<1>s. \/ \E w \in Workers : Step(w) \/ ConnectionBreaks(w) \/ IoError(w)
      \/ CtrlC \/ StartAgain \/ UNCHANGED vars
  BY StepCases
<1>1. ASSUME NEW w \in Workers, Recv(w) PROVE QuietStep
  BY <1>1 DEF Recv
<1>2. ASSUME NEW w \in Workers, RecvClosed(w) PROVE QuietStep
  BY <1>2 DEF RecvClosed
<1>3. ASSUME NEW w \in Workers, SelectGroup(w) PROVE QuietStep
  BY <1>3 DEF SelectGroup
<1>4. ASSUME NEW w \in Workers, ConnectionBreaks(w) PROVE QuietStep
  BY <1>4 DEF ConnectionBreaks
<1>5. ASSUME NEW w \in Workers, PassOver(w) PROVE QuietStep
  BY <1>5 DEF PassOver
<1>6. ASSUME NEW w \in Workers, NotAvailable(w) PROVE QuietStep
  BY <1>6 DEF NotAvailable, RecordMissing
<1>7. ASSUME NEW w \in Workers, Archive(w) PROVE QuietStep
  BY <1>7 DEF Archive
<1>8. ASSUME NEW w \in Workers, WriteRaw(w) PROVE QuietStep
  BY <1>8 DEF WriteRaw
<1>9. ASSUME NEW w \in Workers, CommitProgress(w) PROVE QuietStep
  BY <1>9 DEF CommitProgress
<1>10. ASSUME NEW w \in Workers, AppendLineage(w) PROVE QuietStep
  BY <1>10 DEF AppendLineage
<1>11. ASSUME NEW w \in Workers, SaveLast(w) PROVE QuietStep
  BY <1>11 DEF SaveLast
<1>15. ASSUME NEW w \in Workers, WriteFooter(w) PROVE Closing(w)
  <2>1. PICK rows \in {{task[w]}} \cup
                        (IF files[path[w]].shared THEN {files[path[w]].rows, {}} ELSE {}) :
          files' = [files EXCEPT ![path[w]] = [exists |-> TRUE, shared |-> files[path[w]].shared,
                                               rows |-> rows]]
    BY <1>15, ZenonT(60) DEF WriteFooter
  <2>2. rows \in {{task[w]}, files[path[w]].rows} \cup (IF files[path[w]].shared THEN {{}} ELSE {})
    OBVIOUS
  <2>3. /\ pc[w] = "footer" /\ pc'[w] = "save" /\ UNCHANGED takers
        /\ \A v \in Workers : v # w => pc'[v] = pc[v] /\ path'[v] = path[v] /\ task'[v] = task[v]
    BY <1>15 DEF WriteFooter
  <2> HIDE DEF QuietStep
  <2> QED BY <2>1, <2>2, <2>3 DEF Closing
<1>16. ASSUME NEW w \in Workers, ArchiveFails(w) \/ LogFails(w) \/ SaveFails(w) PROVE QuietStep
  BY <1>16 DEF ArchiveFails, LogFails, SaveFails
<1>17. ASSUME NEW w \in Workers, CloseFails(w) PROVE QuietStep \/ Closing(w)
  <2>1. /\ pc'[w] = "recv" /\ UNCHANGED takers
        /\ \A v \in Workers : v # w => pc'[v] = pc[v] /\ path'[v] = path[v] /\ task'[v] = task[v]
    BY <1>17 DEF CloseFails
  <2>2. CASE UNCHANGED files
    BY <2>1, <2>2
  <2>3. CASE ~ UNCHANGED files
    <3>1. PICK rows \in {files[path[w]].rows} \cup (IF files[path[w]].shared THEN {{}} ELSE {}) :
            files' = [files EXCEPT ![path[w]] = [exists |-> TRUE, shared |-> files[path[w]].shared,
                                                 rows |-> rows]]
      BY <1>17, <2>3, ZenonT(60) DEF CloseFails
    <3>2. rows \in {{task[w]}, files[path[w]].rows} \cup (IF files[path[w]].shared THEN {{}} ELSE {})
      OBVIOUS
    <3>3. pc[w] = "footer"
      BY <1>17, <2>3 DEF CloseFails
    <3> HIDE DEF QuietStep
    <3> QED BY <2>1, <3>1, <3>2, <3>3 DEF Closing
  <2> QED BY <2>2, <2>3
<1>12. ASSUME CtrlC PROVE QuietStep
  BY <1>12 DEF CtrlC
<1>13. ASSUME StartAgain PROVE QuietStep
  <2>1. \A w \in Workers : pc'[w] \in {"recv", "exit"}
    BY <1>13 DEF StartAgain
  <2> QED BY <1>13, <2>1 DEF StartAgain
<1>14. ASSUME UNCHANGED vars PROVE QuietStep
  BY <1>14 DEF vars
<1> QED
  BY <1>s, <1>1, <1>2, <1>3, <1>4, <1>5, <1>6, <1>7, <1>8, <1>9, <1>10, <1>11, <1>12,
     <1>13, <1>14, <1>15, <1>16, <1>17 DEF Step, IoError

\* The files stay numbered without a gap.
LEMMA ContiguousStep ==
    ASSUME TypeInv, Contiguous, FileInv, [Next]_vars
    PROVE  Contiguous'
<1> USE DEF TypeInv, TypeOK, disk, ended, Goto
<1>k. PICK k \in Numbers \cup {0} :
        /\ \A n \in Numbers : files[n].exists <=> n <= k
        /\ \A w \in Workers : pc[w] = "create" => path[w] <= k + 1
  BY DEF Contiguous
<1>1. CASE QuietStep
  BY <1>1, <1>k DEF QuietStep, Contiguous
<1>2. ASSUME NEW w \in Workers, Resolve(w) PROVE Contiguous'
  <2>1. NextNumber = k + 1
    BY <1>k, NextIsNew
  <2>2. \A v \in Workers : pc'[v] = "create" => path'[v] <= k + 1
    BY <1>2, <2>1, <1>k, Constants DEF Resolve
  <2> QED BY <1>2, <1>k, <2>2 DEF Resolve, Contiguous
<1>3. ASSUME NEW w \in Workers, Create(w) PROVE Contiguous'
  <2>1. path[w] \in Numbers /\ path[w] <= k + 1 /\ UNCHANGED path
    BY <1>3, <1>k DEF Create
  <2>2. /\ \A n \in Numbers : n # path[w] => files'[n] = files[n]
        /\ files'[path[w]].exists
        /\ \A v \in Workers : pc'[v] = "create" => pc[v] = "create"
    BY <1>3, <2>1 DEF Create
  <2>3. CASE path[w] <= k
    BY <1>k, <2>1, <2>2, <2>3 DEF Contiguous
  <2>4. CASE path[w] = k + 1
    <3>1. \A n \in Numbers : files'[n].exists <=> n <= path[w]
      BY <1>k, <2>1, <2>2, <2>4, Constants
    <3>2. \A v \in Workers : pc'[v] = "create" => path'[v] <= path[w] + 1
      BY <1>k, <2>1, <2>2, <2>4, Constants
    <3> QED BY <2>1, <3>1, <3>2 DEF Contiguous
  <2> QED BY <1>k, <2>1, <2>3, <2>4, Constants
<1>4. ASSUME NEW w \in Workers, Closing(w) PROVE Contiguous'
  <2>1. path[w] \in Numbers /\ \A v \in Workers : v # w => path'[v] = path[v]
    BY <1>4 DEF Closing
  <2>2. \A n \in Numbers : n # path[w] => files'[n] = files[n]
    BY <1>4, <2>1 DEF Closing
  <2>3. files'[path[w]].exists /\ files[path[w]].exists
    <3>1. pc[w] = "footer" /\ takers[path[w]] # {}
      BY <1>4 DEF Closing, FileInv
    <3>2. files[path[w]].exists
      BY <2>1, <3>1 DEF FileInv
    <3>3. PICK rows : files' = [files EXCEPT ![path[w]] =
                        [exists |-> TRUE, shared |-> files[path[w]].shared, rows |-> rows]]
      BY <1>4, ZenonT(60) DEF Closing
    <3>4. files'[path[w]].exists
      BY <2>1, <3>3
    <3> QED BY <3>2, <3>4
  <2>4. \A v \in Workers : pc'[v] = "create" => pc[v] = "create" /\ path'[v] = path[v]
    BY <1>4, <2>1 DEF Closing
  <2> QED BY <1>k, <2>1, <2>2, <2>3, <2>4 DEF Contiguous
<1> QED BY <1>1, <1>2, <1>3, <1>4, FileCases

\* Who created a file and what it holds.
LEMMA FileStep ==
    ASSUME TypeInv, Contiguous, FileInv, [Next]_vars
    PROVE  FileInv'
<1> USE DEF TypeInv, TypeOK, disk, ended, Goto
<1>a. available' = available
  BY StepCases
<1>f. /\ \A n \in Numbers : takers[n] # {} => files[n].exists
      /\ \A n \in Numbers : \A i \in files[n].rows : \E w \in Workers : <<w, i>> \in takers[n]
      /\ \A n \in Numbers : files[n].shared => \E x, y \in takers[n] : x # y
      /\ \A w \in Workers : pc[w] = "create" => \A i \in available : <<w, i>> \notin takers[path[w]]
      /\ \A w \in Workers : pc[w] = "footer" => <<w, task[w]>> \in takers[path[w]]
  BY DEF FileInv
<1>1. CASE QuietStep
  <2>1. UNCHANGED <<files, takers>>
    BY <1>1 DEF QuietStep
  <2>2. \A w \in Workers :
          /\ pc'[w] = "create" => pc[w] = "create" /\ path'[w] = path[w]
          /\ pc'[w] = "footer" => pc[w] = "footer" /\ path'[w] = path[w] /\ task'[w] = task[w]
    BY <1>1 DEF QuietStep
  <2>3. ASSUME NEW n \in Numbers
        PROVE  /\ takers'[n] # {} => files'[n].exists
               /\ \A i \in files'[n].rows : \E v \in Workers : <<v, i>> \in takers'[n]
               /\ files'[n].shared => \E x, y \in takers'[n] : x # y
    <3>1. takers'[n] # {} => files'[n].exists
      BY <1>f, <2>1
    <3>2. \A i \in files'[n].rows : \E v \in Workers : <<v, i>> \in takers'[n]
      BY <1>f, <2>1
    <3>3. files'[n].shared => \E x, y \in takers'[n] : x # y
      BY <1>f, <2>1
    <3> QED BY <3>1, <3>2, <3>3
  <2>4. \A w \in Workers :
          /\ pc'[w] = "create" => \A i \in available : <<w, i>> \notin takers[path'[w]]
          /\ pc'[w] = "footer" => <<w, task'[w]>> \in takers[path'[w]]
    BY <1>f, <2>2
  <2> QED BY <1>a, <2>1, <2>3, <2>4 DEF FileInv
<1>2. ASSUME NEW w \in Workers, Resolve(w) PROVE FileInv'
  <2>1. PICK k \in Numbers \cup {0} : \A n \in Numbers : files[n].exists <=> n <= k
    BY DEF Contiguous
  <2>2. NextNumber = k + 1 /\ NextNumber \in Numbers
    BY <1>2, <2>1, NextIsNew DEF Resolve
  <2>3. takers[NextNumber] = {}
    BY <2>1, <2>2, Constants DEF FileInv
  <2>4. /\ UNCHANGED <<files, takers, task>>
        /\ \A v \in Workers :
             /\ pc'[v] \in {"create", "footer"} /\ v # w =>
                  pc[v] = pc'[v] /\ path'[v] = path[v]
             /\ pc'[w] = "create" /\ path'[w] = NextNumber
    BY <1>2 DEF Resolve
  <2>5. ASSUME NEW v \in Workers
        PROVE  /\ pc'[v] = "create" => \A i \in available : <<v, i>> \notin takers[path'[v]]
               /\ pc'[v] = "footer" => <<v, task[v]>> \in takers[path'[v]]
    BY <1>f, <2>3, <2>4
  <2>6. ASSUME NEW n \in Numbers
        PROVE  /\ takers'[n] # {} => files'[n].exists
               /\ \A i \in files'[n].rows : \E v \in Workers : <<v, i>> \in takers'[n]
               /\ files'[n].shared => \E x, y \in takers'[n] : x # y
    <3>1. takers'[n] # {} => files'[n].exists
      BY <1>f, <2>4
    <3>2. \A i \in files'[n].rows : \E v \in Workers : <<v, i>> \in takers'[n]
      BY <1>f, <2>4
    <3>3. files'[n].shared => \E x, y \in takers'[n] : x # y
      BY <1>f, <2>4
    <3> QED BY <3>1, <3>2, <3>3
  <2> QED BY <1>a, <2>4, <2>5, <2>6 DEF FileInv
<1>3. ASSUME NEW w \in Workers, Create(w) PROVE FileInv'
  <2> DEFINE p == path[w]
  <2>1. /\ p \in Numbers /\ pc[w] = "create" /\ UNCHANGED <<path, task>>
        /\ files'[p] = [exists |-> TRUE, shared |-> OpenElsewhere(w), rows |-> {}]
        /\ takers'[p] = takers[p] \cup {<<w, task[w]>>}
        /\ \A n \in Numbers : n # p => files'[n] = files[n] /\ takers'[n] = takers[n]
        /\ pc'[w] = "footer" /\ \A v \in Workers : v # w => pc'[v] = pc[v]
    BY <1>3 DEF Create
  <2>2. OpenElsewhere(w) => \E x, y \in takers'[p] : x # y
    <3>1. ASSUME NEW v \in Workers \ {w}, pc[v] = "footer", path[v] = p
          PROVE  \E x, y \in takers'[p] : x # y
      <4>1. <<v, task[v]>> \in takers'[p] /\ <<w, task[w]>> \in takers'[p]
        BY <1>f, <2>1, <3>1
      <4>2. <<v, task[v]>> # <<w, task[w]>>
        OBVIOUS
      <4> QED BY <4>1, <4>2, Zenon
    <3> QED BY <3>1 DEF OpenElsewhere
  <2>3. ASSUME NEW n \in Numbers
        PROVE  /\ takers'[n] # {} => files'[n].exists
               /\ \A i \in files'[n].rows : \E v \in Workers : <<v, i>> \in takers'[n]
               /\ files'[n].shared => \E x, y \in takers'[n] : x # y
    <3>1. CASE n = p
      BY <2>1, <2>2, <3>1
    <3>2. CASE n # p
      <4>1. files'[n] = files[n] /\ takers'[n] = takers[n]
        BY <2>1, <3>2
      <4>2. takers'[n] # {} => files'[n].exists
        BY <1>f, <4>1
      <4>3. \A i \in files'[n].rows : \E v \in Workers : <<v, i>> \in takers'[n]
        BY <1>f, <4>1
      <4>4. files'[n].shared => \E x, y \in takers'[n] : x # y
        BY <1>f, <4>1
      <4> QED BY <4>2, <4>3, <4>4
    <3> QED BY <3>1, <3>2
  <2>4. ASSUME NEW v \in Workers
        PROVE  /\ pc'[v] = "create" => \A i \in available : <<v, i>> \notin takers'[path[v]]
               /\ pc'[v] = "footer" => <<v, task[v]>> \in takers'[path[v]]
    <3>1. CASE v = w
      BY <2>1, <3>1
    <3>2. CASE v # w
      <4>1. ASSUME pc[v] = "create", NEW i \in available PROVE <<v, i>> \notin takers'[path[v]]
        <5>1. <<v, i>> \notin takers[path[v]] /\ <<v, i>> # <<w, task[w]>> /\ path[v] \in Numbers
          BY <1>f, <3>2, <4>1
        <5> QED BY <5>1, <2>1
      <4>2. ASSUME pc[v] = "footer" PROVE <<v, task[v]>> \in takers'[path[v]]
        <5>1. <<v, task[v]>> \in takers[path[v]] /\ path[v] \in Numbers
          BY <1>f, <4>2
        <5> QED BY <5>1, <2>1
      <4> QED BY <2>1, <3>2, <4>1, <4>2
    <3> QED BY <3>1, <3>2
  <2> QED BY <1>a, <2>1, <2>3, <2>4 DEF FileInv
<1>4. ASSUME NEW w \in Workers, Closing(w) PROVE FileInv'
  <2> DEFINE p == path[w]
  <2>1. /\ p \in Numbers /\ pc[w] = "footer" /\ UNCHANGED takers
        /\ \A n \in Numbers : n # p => files'[n] = files[n]
        /\ pc'[w] \notin {"create", "footer"}
        /\ \A v \in Workers : v # w => pc'[v] = pc[v] /\ path'[v] = path[v] /\ task'[v] = task[v]
    BY <1>4 DEF Closing
  <2>2. PICK rows \in {{task[w]}, files[p].rows} \cup (IF files[p].shared THEN {{}} ELSE {}) :
          files'[p] = [exists |-> TRUE, shared |-> files[p].shared, rows |-> rows]
    BY <1>4, <2>1, ZenonT(60) DEF Closing
  <2>3. <<w, task[w]>> \in takers[p]
    BY <1>f, <2>1
  <2>4. \A i \in rows : i = task[w] \/ i \in files[p].rows
    BY <2>2
  <2>5. ASSUME NEW n \in Numbers
        PROVE  /\ takers'[n] # {} => files'[n].exists
               /\ \A i \in files'[n].rows : \E v \in Workers : <<v, i>> \in takers'[n]
               /\ files'[n].shared => \E x, y \in takers'[n] : x # y
    <3>1. CASE n = p
      <4>1. files'[p].exists /\ files'[p].rows = rows /\ files'[p].shared = files[p].shared
        BY <2>2
      <4>2. files[p].shared => \E x, y \in takers[p] : x # y
        BY <1>f, <2>1
      <4>3. \A i \in rows : \E v \in Workers : <<v, i>> \in takers[p]
        BY <1>f, <2>1, <2>3, <2>4
      <4> QED BY <2>1, <3>1, <4>1, <4>2, <4>3, Zenon
    <3>2. CASE n # p
      <4>1. files'[n] = files[n] /\ takers'[n] = takers[n]
        BY <2>1, <3>2
      <4>2. takers'[n] # {} => files'[n].exists
        BY <1>f, <4>1
      <4>3. \A i \in files'[n].rows : \E v \in Workers : <<v, i>> \in takers'[n]
        BY <1>f, <4>1
      <4>4. files'[n].shared => \E x, y \in takers'[n] : x # y
        BY <1>f, <4>1
      <4> QED BY <4>2, <4>3, <4>4
    <3> QED BY <3>1, <3>2
  <2>6. ASSUME NEW v \in Workers
        PROVE  pc'[v] \in {"create", "footer"} =>
                 pc'[v] = pc[v] /\ path'[v] = path[v] /\ task'[v] = task[v]
    BY <2>1
  <2>7. \A v \in Workers :
          /\ pc'[v] = "create" => \A i \in available : <<v, i>> \notin takers[path'[v]]
          /\ pc'[v] = "footer" => <<v, task'[v]>> \in takers[path'[v]]
    BY <1>f, <2>6
  <2> QED BY <1>a, <2>1, <2>5, <2>7 DEF FileInv
<1> QED BY <1>1, <1>2, <1>3, <1>4, FileCases

\* An .eml file is never deleted; it is complete or being rewritten.
LEMMA RawStays ==
    ASSUME TypeInv, [Next]_vars
    PROVE  raw \cup torn \subseteq raw' \cup torn'
<1> USE DEF config, disk, ended, Goto, Return, Fail
<1>1. ASSUME NEW w \in Workers, Archive(w) \/ WriteRaw(w) PROVE raw \cup torn \subseteq raw' \cup torn'
  BY <1>1 DEF Archive, WriteRaw
<1>2. ASSUME NEW w \in Workers, Step(w), ~ (Archive(w) \/ WriteRaw(w)) PROVE UNCHANGED <<raw, torn>>
  BY <1>2 DEF Step, Recv, RecvClosed, SelectGroup, PassOver, NotAvailable, RecordMissing,
     CommitProgress, AppendLineage, Resolve, Create, WriteFooter, SaveLast
<1>3. ASSUME NEW w \in Workers, ConnectionBreaks(w) PROVE UNCHANGED <<raw, torn>>
  BY <1>3 DEF ConnectionBreaks
<1>4. ASSUME NEW w \in Workers, IoError(w) PROVE UNCHANGED <<raw, torn>>
  BY <1>4 DEF IoError, ArchiveFails, LogFails, CloseFails, SaveFails
<1>5. CtrlC \/ StartAgain \/ UNCHANGED vars => UNCHANGED <<raw, torn>>
  BY DEF CtrlC, StartAgain, vars
<1> QED BY <1>1, <1>2, <1>3, <1>4, <1>5, StepCases

\* An e-mail is in a parquet file, or in one that two workers created.
InFile(i) == (\E n \in Numbers : i \in files[n].rows) \/ Collided(i)

\* It stays so by every step of every worker.
LEMMA FileKept ==
    ASSUME TypeInv, FileInv, [Next]_vars, NEW i \in available, InFile(i)
    PROVE  InFile(i)'
<1> USE DEF TypeInv, TypeOK, disk, ended, Goto
<1>a. available' = available
  BY StepCases
<1>1. \A n \in Numbers : takers[n] \subseteq takers'[n]
  <2>1. QuietStep => takers' = takers
    BY DEF QuietStep
  <2>2. ASSUME NEW w \in Workers, Resolve(w) \/ Closing(w) PROVE takers' = takers
    BY <2>2 DEF Resolve, Closing
  <2>3. ASSUME NEW w \in Workers, Create(w) PROVE \A n \in Numbers : takers[n] \subseteq takers'[n]
    BY <2>3 DEF Create
  <2> QED BY <2>1, <2>2, <2>3, FileCases
<1>4. CASE Collided(i)
  <2>1. PICK n \in Numbers, v \in Workers : <<v, i>> \in takers[n] /\ takers[n] # {<<v, i>>}
    BY <1>4 DEF Collided
  <2>2. <<v, i>> \in takers'[n] /\ takers'[n] # {<<v, i>>}
    BY <1>1, <2>1
  <2> QED BY <2>2 DEF InFile, Collided
<1>5. ASSUME NEW n \in Numbers, i \in files[n].rows PROVE InFile(i)'
  <2>1. PICK v \in Workers : <<v, i>> \in takers[n]
    BY <1>5 DEF FileInv
  <2>2. <<v, i>> \in takers'[n]
    BY <1>1, <2>1
  <2>3. ASSUME NEW x \in takers'[n], x # <<v, i>> PROVE InFile(i)'
    <3>1. takers'[n] # {<<v, i>>}
      BY <2>3
    <3> QED BY <2>2, <3>1 DEF InFile, Collided
  <2>4. ASSUME i \in files'[n].rows PROVE InFile(i)'
    BY <2>4 DEF InFile
  <2>5. CASE files'[n] = files[n]
    BY <1>5, <2>4, <2>5
  <2>6. ASSUME NEW w \in Workers, Create(w), path[w] = n PROVE InFile(i)'
    <3>1. <<w, i>> \notin takers[n] /\ task[w] \in available
      BY <2>6 DEF Create, FileInv, TasksKnown, Busy, Archiving
    <3>2. v # w /\ <<w, task[w]>> \in takers'[n]
      BY <2>1, <2>6, <3>1 DEF Create
    <3>3. <<w, task[w]>> # <<v, i>>
      BY <3>2
    <3> QED BY <2>3, <3>2, <3>3
  <2>7. ASSUME NEW w \in Workers, Closing(w), path[w] = n PROVE InFile(i)'
    <3>1. <<w, task[w]>> \in takers[n]
      BY <2>7 DEF Closing, FileInv
    <3>2. PICK rows \in {{task[w]}, files[n].rows} \cup (IF files[n].shared THEN {{}} ELSE {}) :
            files'[n] = [exists |-> TRUE, shared |-> files[n].shared, rows |-> rows]
      BY <2>7 DEF Closing
    <3>3. CASE rows = {task[w]}
      <4>1. CASE i = task[w]
        BY <2>4, <3>2, <3>3, <4>1
      <4>2. CASE i # task[w]
        <5>1. <<w, task[w]>> # <<v, i>>
          BY <4>2
        <5> QED BY <1>1, <2>3, <3>1, <5>1
      <4> QED BY <4>1, <4>2
    <3>4. CASE rows = files[n].rows
      BY <1>5, <2>4, <3>2, <3>4
    <3>5. CASE files[n].shared
      <4>1. PICK x \in takers[n], y \in takers[n] : x # y
        BY <3>5 DEF FileInv
      <4> QED BY <1>1, <2>3, <4>1
    <3> QED BY <3>2, <3>3, <3>4, <3>5
  <2>8. QuietStep => files' = files
    BY DEF QuietStep
  <2>9. ASSUME NEW w \in Workers, Resolve(w) PROVE files' = files
    BY <2>9 DEF Resolve
  <2>10. ASSUME NEW w \in Workers, Create(w) \/ Closing(w), path[w] # n PROVE files'[n] = files[n]
    BY <2>10 DEF Create, Closing
  <2> QED BY <2>5, <2>6, <2>7, <2>8, <2>9, <2>10, FileCases
<1> QED BY <1>4, <1>5 DEF InFile

\* An e-mail that is kept is kept by every step of every worker.
LEMMA KeptStays ==
    ASSUME TypeInv, FileInv, [Next]_vars, NEW i \in available, Kept(i)
    PROVE  Kept(i)'
<1>1. raw \cup torn \subseteq raw' \cup torn'
  BY RawStays
<1>2. InFile(i) => InFile(i)'
  BY FileKept
<1> QED BY <1>1, <1>2 DEF Kept, InFile, Readable

\* The stored e-mails and the last one of the progress are kept.
LEMMA KeptStep ==
    ASSUME TypeInv, FileInv, KeptInv, [Next]_vars
    PROVE  KeptInv'
<1> USE DEF TypeInv, TypeOK, config, disk, ended, Goto, Return, Fail
<1>s. /\ mode' = mode /\ available' = available /\ source' = source
      /\ \/ \E w \in Workers : Step(w) \/ ConnectionBreaks(w) \/ IoError(w)
         \/ CtrlC \/ StartAgain \/ UNCHANGED vars
  BY StepCases
<1>r. raw \cup torn \subseteq raw' \cup torn'
  BY RawStays
<1>i. 0 \notin available /\ available \subseteq Indexes
  BY Constants
<1>k. ASSUME NEW i \in available, Kept(i) PROVE Kept(i)'
  BY <1>k, KeptStays
<1>l. \A w \in Workers : pc[w] \in {"commit", "lineage", "footer", "save"} => task[w] \in available
  BY DEF TasksKnown, Busy, Archiving
\* What a step adds to the stored e-mails and to the progress is kept.
<1>1. ASSUME \A i \in stored' \ stored : Kept(i)',
             UNCHANGED <<progress, longest>>
               \/ \E i \in available : SaveProgress(i) /\ Kept(i)',
             \A w \in Workers : pc'[w] = "save" /\ ~ (pc[w] = "save" /\ task'[w] = task[w]) => Kept(task[w])',
             \A w \in Workers :
               mode = "raw" /\ pc'[w] \in {"commit", "lineage"} => task'[w] \in raw' \cup torn'
      PROVE  KeptInv'
  <2>1. \A i \in stored' : Kept(i)'
    BY <1>1, <1>k DEF KeptInv
  <2>2. /\ progress' # 0 => Kept(progress)'
        /\ progress' = 0 /\ longest' # 0 =>
             source = "nntp" /\ \E i \in available : Width[i] + 1 < longest'
        /\ source # "nntp" => longest' <= 1
    <3>1. CASE UNCHANGED <<progress, longest>>
      BY <1>1, <1>k, <3>1 DEF KeptInv
    <3>2. ASSUME NEW i \in available, SaveProgress(i), Kept(i)'
          PROVE  /\ progress' # 0 => Kept(progress)'
                 /\ progress' = 0 /\ longest' # 0 =>
                      source = "nntp" /\ \E j \in available : Width[j] + 1 < longest'
                 /\ source # "nntp" => longest' <= 1
      <4>1. progress' \in {0, i}
        BY <3>2 DEF SaveProgress
      <4>2. progress' # 0 => Kept(progress)'
        BY <3>2, <4>1
      <4>3. ASSUME progress' = 0 PROVE source = "nntp" /\ Width[i] + 1 < longest'
        <5>1. i # 0 /\ Width[i] \in Nat
          BY <1>i, RangeAssumption DEF Indexes
        <5> QED BY <3>2, <4>3, <5>1 DEF SaveProgress, KeptInv
      <4>4. source # "nntp" => longest' <= 1
        BY <3>2 DEF SaveProgress, KeptInv
      <4> QED BY <4>2, <4>3, <4>4
    <3> QED BY <1>1, <3>1, <3>2
  <2>3. ASSUME NEW w \in Workers, pc'[w] = "save" PROVE Kept(task[w])'
    BY <1>1, <1>k, <1>l, <2>3 DEF KeptInv
  <2> QED BY <1>1, <1>s, <2>1, <2>2, <2>3 DEF KeptInv
<1>o. ASSUME UNCHANGED <<stored, progress, longest>>,
             \A w \in Workers : pc'[w] \in {"save", "commit", "lineage"} =>
               pc'[w] = pc[w] /\ task'[w] = task[w]
      PROVE  KeptInv'
  BY <1>o, <1>1, <1>r DEF KeptInv
<1>2. ASSUME NEW w \in Workers, Recv(w) \/ RecvClosed(w) PROVE KeptInv'
  BY <1>2, <1>o DEF Recv, RecvClosed
<1>3. ASSUME NEW w \in Workers, SelectGroup(w) PROVE KeptInv'
  BY <1>3, <1>o DEF SelectGroup
<1>4. ASSUME NEW w \in Workers, ConnectionBreaks(w) PROVE KeptInv'
  BY <1>4, <1>o DEF ConnectionBreaks
<1>5. ASSUME NEW w \in Workers, PassOver(w) \/ NotAvailable(w) PROVE KeptInv'
  BY <1>5, <1>o DEF PassOver, NotAvailable, RecordMissing
<1>6. ASSUME NEW w \in Workers, Resolve(w) \/ Create(w) PROVE KeptInv'
  BY <1>6, <1>o DEF Resolve, Create
<1>15. ASSUME NEW w \in Workers, ArchiveFails(w) \/ LogFails(w) \/ CloseFails(w) PROVE KeptInv'
  BY <1>15, <1>o DEF ArchiveFails, LogFails, CloseFails
<1>16. ASSUME NEW w \in Workers, SaveFails(w) PROVE KeptInv'
  <2>1. /\ stored' = stored \cup {task[w]} /\ UNCHANGED <<progress, longest>> /\ pc[w] = "save"
        /\ pc'[w] = "recv"
        /\ \A v \in Workers : v # w => pc'[v] = pc[v] /\ task'[v] = task[v]
    BY <1>16 DEF SaveFails, Done
  <2>2. ASSUME NEW i \in available, i = task[w] PROVE Kept(i)'
    BY <2>1, <2>2, <1>k DEF KeptInv
  <2>3. \A i \in stored' \ stored : Kept(i)'
    BY <2>1, <2>2, <1>l
  <2> QED BY <2>1, <2>3, <1>1, <1>r DEF KeptInv
<1>7. CtrlC \/ UNCHANGED vars => KeptInv'
  BY <1>o DEF CtrlC, vars
<1>8. ASSUME StartAgain PROVE KeptInv'
  <2>1. \A w \in Workers : pc'[w] \in {"recv", "exit"}
    BY <1>8 DEF StartAgain
  <2> QED BY <1>8, <2>1, <1>o DEF StartAgain
<1>9. ASSUME NEW w \in Workers, Archive(w) PROVE KeptInv'
  <2>1. UNCHANGED <<stored, progress, longest, task>>
    BY <1>9 DEF Archive
  <2>2. /\ \A v \in Workers : v # w => pc'[v] = pc[v]
        /\ pc'[w] = "write" \/ (pc'[w] = "lineage" /\ mode = "parquet")
    BY <1>9 DEF Archive
  <2> QED BY <2>1, <2>2, <1>1, <1>r DEF KeptInv
<1>10. ASSUME NEW w \in Workers, WriteRaw(w) PROVE KeptInv'
  <2>1. UNCHANGED <<stored, progress, longest, task>> /\ task[w] \in raw'
    BY <1>10 DEF WriteRaw
  <2>2. pc'[w] = "commit" /\ \A v \in Workers : v # w => pc'[v] = pc[v]
    BY <1>10 DEF WriteRaw
  <2> QED BY <2>1, <2>2, <1>1, <1>r DEF KeptInv
<1>11. ASSUME NEW w \in Workers, CommitProgress(w) PROVE KeptInv'
  <2>1. /\ UNCHANGED <<stored, task>> /\ SaveProgress(task[w]) /\ pc[w] = "commit"
        /\ pc'[w] = "lineage" /\ \A v \in Workers : v # w => pc'[v] = pc[v]
    BY <1>11 DEF CommitProgress
  <2>2. task[w] \in raw' \cup torn'
    BY <2>1, <1>r DEF KeptInv, TasksKnown
  <2>3. \E i \in available : SaveProgress(i) /\ Kept(i)'
    BY <2>1, <2>2, <1>l DEF Kept, Readable
  <2> QED BY <2>1, <2>2, <2>3, <1>1, <1>r DEF KeptInv
<1>12. ASSUME NEW w \in Workers, AppendLineage(w) PROVE KeptInv'
  <2>1. CASE mode = "raw" /\ Return(w) /\ Done(w)
    <3>1. /\ UNCHANGED <<progress, longest>> /\ stored' = stored \cup {task[w]} /\ pc[w] = "lineage"
          /\ pc'[w] = "recv"
          /\ \A v \in Workers : v # w => pc'[v] = pc[v] /\ task'[v] = task[v]
      BY <1>12, <2>1 DEF AppendLineage, Done
    <3>2. task[w] \in raw' \cup torn'
      BY <2>1, <3>1, <1>r DEF KeptInv
    <3>3. \A i \in stored' \ stored : Kept(i)'
      BY <3>1, <3>2 DEF Kept, Readable
    <3> QED BY <3>1, <3>3, <1>1, <1>r DEF KeptInv
  <2>2. CASE Goto(w, "resolve") /\ UNCHANGED stored
    BY <1>12, <2>2, <1>o DEF AppendLineage
  <2> QED BY <1>12, <2>1, <2>2 DEF AppendLineage
<1>13. ASSUME NEW w \in Workers, WriteFooter(w) PROVE KeptInv'
  <2> DEFINE p == path[w]
  <2>1. /\ p \in Numbers /\ pc[w] = "footer" /\ UNCHANGED <<task, takers, stored, progress, longest>>
        /\ pc'[w] = "save" /\ \A v \in Workers : v # w => pc'[v] = pc[v]
    BY <1>13 DEF WriteFooter
  <2>2. PICK rows \in {{task[w]}} \cup (IF files[p].shared THEN {files[p].rows, {}} ELSE {}) :
          files'[p] = [exists |-> TRUE, shared |-> files[p].shared, rows |-> rows]
    BY <1>13, <2>1 DEF WriteFooter
  <2>3. CASE rows = {task[w]}
    <3>1. task[w] \in files'[p].rows
      BY <2>2, <2>3
    <3>2. Kept(task[w])'
      BY <2>1, <3>1 DEF Kept, Readable
    <3> QED BY <2>1, <3>2, <1>1, <1>r DEF KeptInv
  <2>4. CASE files[p].shared
    <3>1. <<w, task[w]>> \in takers[p]
      BY <2>1 DEF FileInv
    <3>2. PICK x \in takers[p], y \in takers[p] : x # y
      BY <2>1, <2>4 DEF FileInv
    <3>3. takers[p] # {<<w, task[w]>>}
      <4>1. ASSUME takers[p] = {<<w, task[w]>>} PROVE FALSE
        <5>1. x = <<w, task[w]>> /\ y = <<w, task[w]>>
          BY <3>2, <4>1
        <5> QED BY <3>2, <5>1
      <4> QED BY <4>1
    <3>4. task'[w] = task[w] /\ takers' = takers
      BY <2>1
    <3>5. <<w, task'[w]>> \in takers'[p] /\ takers'[p] # {<<w, task'[w]>>}
      BY <3>1, <3>3, <3>4
    <3>6. Kept(task[w])'
      BY <2>1, <3>5 DEF Kept, Collided
    <3> QED BY <2>1, <3>6, <1>1, <1>r DEF KeptInv
  <2> QED BY <2>2, <2>3, <2>4
<1>14. ASSUME NEW w \in Workers, SaveLast(w) PROVE KeptInv'
  <2>1. /\ stored' = stored \cup {task[w]} /\ SaveProgress(task[w]) /\ pc[w] = "save"
        /\ pc'[w] = "recv"
        /\ \A v \in Workers : v # w => pc'[v] = pc[v] /\ task'[v] = task[v]
    BY <1>14 DEF SaveLast, Done
  <2>2. ASSUME NEW i \in available, i = task[w] PROVE Kept(i)'
    BY <2>1, <2>2, <1>k DEF KeptInv
  <2>3. \E i \in available : SaveProgress(i) /\ Kept(i)'
    BY <2>1, <2>2, <1>l
  <2>4. \A i \in stored' \ stored : Kept(i)'
    BY <2>1, <2>2, <1>l
  <2> QED BY <2>1, <2>3, <2>4, <1>1, <1>r DEF KeptInv
<1> QED
  BY <1>s, <1>2, <1>3, <1>4, <1>5, <1>6, <1>7, <1>8, <1>9, <1>10, <1>11, <1>12, <1>13, <1>14,
     <1>15, <1>16 DEF Step, IoError

\* A worker alone never meets a file of its own.
LEMMA UncollidedStep ==
    ASSUME TypeInv, Contiguous, FileInv, Uncollided, [Next]_vars
    PROVE  Uncollided'
<1> USE DEF TypeInv, TypeOK, disk, ended, Goto, Single
<1>s. mode' = mode /\ active' = active
  BY StepCases
<1>1. CASE QuietStep
  BY <1>1, <1>s DEF QuietStep, Uncollided
<1>2. ASSUME NEW w \in Workers, Resolve(w) PROVE Uncollided'
  <2>1. PICK k \in Numbers \cup {0} : \A n \in Numbers : files[n].exists <=> n <= k
    BY DEF Contiguous
  <2>2. NextNumber = k + 1 /\ NextNumber \in Numbers
    BY <1>2, <2>1, NextIsNew DEF Resolve
  <2>3. takers[NextNumber] = {}
    BY <2>1, <2>2, Constants DEF FileInv
  <2>4. /\ takers' = takers /\ pc'[w] = "create" /\ path'[w] = NextNumber
        /\ \A v \in Workers : v # w => pc'[v] = pc[v] /\ path'[v] = path[v]
    BY <1>2 DEF Resolve
  <2>5. \A v \in Workers : Single /\ pc'[v] = "create" => takers'[path'[v]] = {}
    BY <2>3, <2>4 DEF Uncollided
  <2> QED BY <1>s, <2>4, <2>5, ZenonT(60) DEF Uncollided
<1>3. ASSUME NEW w \in Workers, Create(w) PROVE Uncollided'
  <2> DEFINE p == path[w]
  <2>1. /\ p \in Numbers /\ pc[w] = "create" /\ path' = path /\ pc'[w] = "footer"
        /\ takers'[p] = takers[p] \cup {<<w, task[w]>>}
        /\ \A n \in Numbers : n # p => takers'[n] = takers[n]
        /\ \A v \in Workers : v # w => pc'[v] = pc[v]
    BY <1>3 DEF Create
  <2>2. mode = "parquet" /\ mode # "raw"
    BY <2>1 DEF TasksKnown
  <2>3. ASSUME Single
        PROVE  /\ \A n \in Numbers : \A x, y \in takers'[n] : x = y
               /\ \A v \in Workers : pc'[v] = "create" => takers'[path'[v]] = {}
    <3>1. takers'[p] = {<<w, task[w]>>}
      BY <2>1, <2>3 DEF Uncollided
    <3>2. ASSUME NEW n \in Numbers, NEW x \in takers'[n], NEW y \in takers'[n] PROVE x = y
      <4>1. CASE n = p
        <5>1. x \in {<<w, task[w]>>} /\ y \in {<<w, task[w]>>}
          BY <3>1, <4>1
        <5> QED BY <5>1
      <4>2. CASE n # p
        <5>1. x \in takers[n] /\ y \in takers[n]
          BY <2>1, <4>2
        <5> QED BY <2>3, <5>1 DEF Uncollided
      <4> QED BY <4>1, <4>2
    <3>3. \A v \in Workers : pc'[v] # "create"
      <4>1. ASSUME NEW v \in Workers, v # w, pc[v] = "create" PROVE FALSE
        <5>1. v \in active /\ w \in active
          BY <2>1, <4>1 DEF TasksKnown
        <5> QED BY <2>3, <4>1, <5>1
      <4> QED BY <2>1, <4>1
    <3> QED BY <3>2, <3>3
  <2> QED BY <1>s, <2>2, <2>3 DEF Uncollided
<1>4. ASSUME NEW w \in Workers, Closing(w) PROVE Uncollided'
  <2>1. takers' = takers
    BY <1>4 DEF Closing
  <2>2. \A v \in Workers : pc'[v] = "create" => pc[v] = "create" /\ path'[v] = path[v]
    BY <1>4 DEF Closing
  <2> QED BY <1>s, <2>1, <2>2 DEF Uncollided
<1> QED BY <1>1, <1>2, <1>3, <1>4, FileCases

-----------------------------------------------------------------------------
LEMMA Inductive ==
    /\ Init => IInv
    /\ IInv /\ [Next]_vars => IInv'
<1>1. ASSUME Init PROVE IInv
  <2>1. TypeInv
    BY <1>1, TypeInit
  <2>2. \A w \in Workers : pc[w] \in {"recv", "exit"}
    BY <1>1 DEF Init
  <2>3. \A n \in Numbers : ~ files[n].exists /\ ~ files[n].shared /\ files[n].rows = {} /\ takers[n] = {}
    BY <1>1 DEF Init, NoFile
  <2>4. Contiguous
    BY <2>2, <2>3, Constants DEF Contiguous
  <2>5. FileInv
    BY <2>2, <2>3 DEF FileInv
  <2>6. KeptInv
    BY <1>1, <2>2 DEF Init, KeptInv
  <2>7. Uncollided
    BY <2>2, <2>3 DEF Uncollided
  <2> QED BY <2>1, <2>4, <2>5, <2>6, <2>7 DEF IInv
<1>2. IInv /\ [Next]_vars => IInv'
  BY TypeStep, ContiguousStep, FileStep, KeptStep, UncollidedStep DEF IInv
<1> QED BY <1>1, <1>2

LEMMA SpecIInv == Spec => []IInv
BY Inductive, PTL DEF Spec

(***************************************************************************)
(* The workers of range mode keep their types: an index is fetched before  *)
(* it is archived, and a writer that has a file open has its number.       *)
(***************************************************************************)
THEOREM RangeTypes == Spec => []TypeOK
<1>1. IInv => TypeOK
  BY DEF IInv, TypeInv
<1> QED BY <1>1, SpecIInv, PTL

(***************************************************************************)
(* Whatever the number of workers and indexes and however often range mode *)
(* is started again, an e-mail archived by a call that returned is lost    *)
(* only in parquet mode with several workers, and only where another one   *)
(* created the file its writer had resolved.                               *)
(***************************************************************************)
THEOREM LossNeedsCollision == Spec => []StoredReadable
<1>1. ASSUME IInv PROVE StoredReadable
  <2> SUFFICES ASSUME NEW i \in stored \ (Readable \cup torn)
               PROVE  /\ mode = "parquet" /\ Collided(i)
                      /\ \E v, w \in active : v # w
    BY DEF StoredReadable
  <2>1. Collided(i)
    BY <1>1 DEF IInv, KeptInv, Kept
  <2>2. PICK n \in Numbers, w \in Workers : <<w, i>> \in takers[n] /\ takers[n] # {<<w, i>>}
    BY <2>1 DEF Collided
  <2>3. mode = "parquet"
    BY <1>1, <2>2, RangeAssumption DEF IInv, TypeInv, TypeOK, Uncollided
  <2>4. \E v, u \in active : v # u
    <3>1. PICK x \in takers[n] : x # <<w, i>>
      BY <2>2
    <3>2. ~ Single
      BY <1>1, <2>2, <3>1 DEF IInv, Uncollided
    <3> QED BY <3>2 DEF Single
  <2> QED BY <2>1, <2>3, <2>4
<1> QED BY <1>1, SpecIInv, PTL

\* The progress names an e-mail that was archived: one a reader finds, or
\* whose file another worker created too; and it is unreadable only after
\* a much shorter NNTP index was saved.
THEOREM ProgressNamesStored == Spec => []ProgressStored
<1>1. IInv => ProgressStored
  BY DEF IInv, KeptInv, Kept, ProgressStored
<1> QED BY <1>1, SpecIInv, PTL

-----------------------------------------------------------------------------
(* No index is left out. *)

\* Where an index was recorded as not stored.
Marked == errors \cup failed \cup skipped \cup lost

\* The e-mail can be read, or is in a file that two workers created.
Sure(i) == i \in raw \/ InFile(i)

Writing(i) == \E w \in Workers : pc[w] = "write" /\ task[w] = i

Held(i) == i \in Marked \/ Sure(i) \/ \E w \in Workers : pc[w] \in Busy /\ task[w] = i

(***************************************************************************)
(* Every index waits, is in work, can be read or was recorded; a worker    *)
(* ends only behind an empty channel; without an I/O error or a kill an    *)
(* .eml is truncated only while a worker writes it; what this worker has   *)
(* written is complete, unless another one writes it again or failed to.   *)
(***************************************************************************)
TraceInv ==
    /\ \A i \in Indexes : i \in Range(queue) \/ Held(i)
    /\ \A w \in active : pc[w] = "exit" => queue = <<>>
    /\ faults = 0 => \A i \in torn : Writing(i)
    /\ mode = "parquet" => torn = {}
    /\ skipped # {} => shutdown
    /\ lost # {} => faults > 0
    /\ \A w \in Workers : mode = "raw" /\ pc[w] \in {"commit", "lineage"} =>
         task[w] \in raw \cup Marked \/ Writing(task[w])

\* A complete .eml stays so, or is being written again.
LEMMA RawKept ==
    ASSUME TypeInv, [Next]_vars, NEW i \in raw
    PROVE  i \in raw' \/ Writing(i)'
<1> USE DEF TypeInv, TypeOK, config, disk, ended, Goto, Return, Fail
<1>1. ASSUME NEW w \in Workers, Archive(w) PROVE i \in raw' \/ Writing(i)'
  <2>1. CASE pc'[w] = "write" /\ task'[w] = task[w] /\ raw' = raw \ {task[w]}
    BY <2>1 DEF Writing
  <2>2. CASE raw' = raw
    BY <2>2
  <2> QED BY <1>1, <2>1, <2>2 DEF Archive
<1>2. ASSUME NEW w \in Workers, Step(w), ~ Archive(w) PROVE raw \subseteq raw'
  BY <1>2 DEF Step, Recv, RecvClosed, SelectGroup, PassOver, NotAvailable, RecordMissing, WriteRaw,
     CommitProgress, AppendLineage, Resolve, Create, WriteFooter, SaveLast
<1>3. ASSUME NEW w \in Workers, ConnectionBreaks(w) \/ IoError(w) PROVE raw \subseteq raw'
  BY <1>3 DEF ConnectionBreaks, IoError, ArchiveFails, LogFails, CloseFails, SaveFails
<1>4. CtrlC \/ StartAgain \/ UNCHANGED vars => raw \subseteq raw'
  BY DEF CtrlC, StartAgain, vars
<1> QED BY <1>1, <1>2, <1>3, <1>4, StepCases

LEMMA TraceStep ==
    ASSUME TypeInv, FileInv, KeptInv, TraceInv, [Next]_vars
    PROVE  TraceInv'
<1> USE DEF TypeInv, TypeOK, config, disk, ended, Goto, Return, Fail
<1>s. /\ active' = active /\ mode' = mode /\ available' = available /\ Indexes' = Indexes
      /\ \/ \E w \in Workers : Step(w) \/ ConnectionBreaks(w) \/ IoError(w)
         \/ CtrlC \/ StartAgain \/ UNCHANGED vars
  BY StepCases DEF Indexes
<1>h. ASSUME NEW i, Sure(i) PROVE Held(i)'
  <2>1. CASE i \in raw
    BY <2>1, RawKept DEF Held, Sure, Writing, Busy
  <2>2. CASE InFile(i)
    <3>1. i \in available
      <4>1. ASSUME NEW n \in Numbers, i \in files[n].rows PROVE i \in available
        BY <4>1
      <4>2. ASSUME NEW n \in Numbers, NEW w \in Workers, <<w, i>> \in takers[n]
            PROVE  i \in available
        <5>1. <<w, i>> \in Workers \X available
          BY <4>2
        <5> QED BY <5>1
      <4> QED BY <2>2, <4>1, <4>2 DEF InFile, Collided
    <3>2. InFile(i)'
      BY <2>2, <3>1, FileKept
    <3> QED BY <3>2 DEF Held, Sure
  <2> QED BY <1>h, <2>1, <2>2 DEF Sure
\* Worker w alone moves.
<1>o. ASSUME NEW w \in Workers,
             UNCHANGED <<queue, shutdown>>, Marked \subseteq Marked',
             \A v \in Workers : v # w => pc'[v] = pc[v] /\ task'[v] = task[v],
             \A i \in Indexes : pc[w] \in Busy /\ task[w] = i => Held(i)',
             pc'[w] = "exit" => pc[w] = "exit" \/ queue = <<>>,
             faults' = faults \/ (faults' # 0 /\ faults' > 0),
             faults' = 0 => \A i \in torn' : i \in torn \/ (pc'[w] = "write" /\ task'[w] = i),
             pc[w] = "write" => task[w] \notin torn' \/ faults' # 0,
             mode = "parquet" => torn' = torn,
             skipped' = skipped \/ shutdown,
             lost' = lost \/ faults' > 0,
             pc[w] = "write" => task[w] \in raw' \cup Marked' \/ (pc'[w] = "write" /\ task'[w] = task[w]),
             pc'[w] \in {"commit", "lineage"} =>
               \/ mode # "raw" \/ task'[w] \in raw'
               \/ pc[w] \in {"commit", "lineage"} /\ task'[w] = task[w]
      PROVE  TraceInv'
  <2>1. ASSUME NEW i \in Indexes PROVE i \in Range(queue') \/ Held(i)'
    <3>1. CASE i \in Range(queue)
      BY <1>o, <3>1
    <3>2. CASE i \in Marked
      BY <1>o, <3>2 DEF Held
    <3>3. CASE Sure(i)
      BY <1>h, <3>3
    <3>4. ASSUME NEW v \in Workers, pc[v] \in Busy, task[v] = i PROVE Held(i)'
      <4>1. CASE v = w
        BY <1>o, <3>4, <4>1
      <4>2. CASE v # w
        <5>1. pc'[v] \in Busy /\ task'[v] = i
          BY <1>o, <3>4, <4>2
        <5> QED BY <5>1 DEF Held, Busy
      <4> QED BY <4>1, <4>2
    <3> QED BY <3>1, <3>2, <3>3, <3>4 DEF TraceInv, Held
  <2>2. \A v \in active : pc'[v] = "exit" => queue' = <<>>
    BY <1>o DEF TraceInv
  <2>3. ASSUME faults' = 0, NEW i \in torn' PROVE Writing(i)'
    <3>1. CASE i \in torn
      <4>1. PICK v \in Workers : pc[v] = "write" /\ task[v] = i
        BY <1>o, <2>3, <3>1 DEF TraceInv, Writing
      <4>2. v # w
        BY <1>o, <2>3, <4>1
      <4> QED BY <1>o, <4>1, <4>2 DEF Writing
    <3>2. CASE i \notin torn
      BY <1>o, <2>3, <3>2 DEF Writing
    <3> QED BY <3>1, <3>2
  <2>4. mode = "parquet" => torn' = {}
    BY <1>o DEF TraceInv
  <2>5. skipped' # {} => shutdown'
    BY <1>o DEF TraceInv
  <2>6. lost' # {} => faults' > 0
    BY <1>o DEF TraceInv
  <2>7. ASSUME NEW i \in available, i \in raw \cup Marked \/ Writing(i)
        PROVE  i \in raw' \cup Marked' \/ Writing(i)'
    <3>1. CASE i \in Marked
      BY <1>o, <3>1
    <3>2. CASE i \in raw
      BY <3>2, RawKept
    <3>3. ASSUME NEW v \in Workers, pc[v] = "write", task[v] = i
          PROVE  i \in raw' \cup Marked' \/ Writing(i)'
      <4>1. CASE v = w
        BY <1>o, <3>3, <4>1 DEF Writing
      <4>2. CASE v # w
        BY <1>o, <3>3, <4>2 DEF Writing
      <4> QED BY <4>1, <4>2
    <3> QED BY <2>7, <3>1, <3>2, <3>3 DEF Writing
  <2>8. ASSUME NEW v \in Workers, mode = "raw", pc'[v] \in {"commit", "lineage"}
        PROVE  task'[v] \in raw' \cup Marked' \/ Writing(task[v])'
    <3>1. CASE pc[v] \in {"commit", "lineage"} /\ task'[v] = task[v]
      <4>1. task[v] \in available /\ (task[v] \in raw \cup Marked \/ Writing(task[v]))
        BY <2>8, <3>1 DEF TraceInv, TasksKnown, Busy, Archiving
      <4>2. ASSUME NEW i \in available, i = task[v]
            PROVE  i \in raw' \cup Marked' \/ Writing(i)'
        BY <2>7, <4>1, <4>2
      <4> QED BY <3>1, <4>1, <4>2
    <3>2. CASE task'[v] \in raw'
      BY <3>2
    <3> QED BY <1>o, <2>8, <3>1, <3>2
  <2> QED BY <1>s, <2>1, <2>2, <2>3, <2>4, <2>5, <2>6, <2>8 DEF TraceInv

\* It stays at work with its index, or leaves it recorded.
<1>b. ASSUME NEW w \in Workers,
             \/ pc'[w] \in Busy /\ task'[w] = task[w]
             \/ task[w] \in Marked'
      PROVE  \A i \in Indexes : pc[w] \in Busy /\ task[w] = i => Held(i)'
  BY <1>b DEF Held, Busy
<1>f. Fault => faults' # 0 /\ faults' > 0
  BY RangeAssumption DEF Fault
<1>1. ASSUME NEW w \in Workers, Recv(w) PROVE TraceInv'
  <2>1. /\ queue # <<>> /\ queue' = Tail(queue) /\ pc'[w] = "group" /\ task'[w] = Head(queue)
        /\ \A v \in Workers : v # w => pc'[v] = pc[v] /\ task'[v] = task[v]
        /\ pc[w] = "recv"
        /\ UNCHANGED <<raw, errors, failed, skipped, lost, torn, shutdown, faults>>
    BY <1>1 DEF Recv
  <2>2. Range(queue) = {task'[w]} \cup Range(queue') /\ Marked' = Marked
    BY <2>1, QueueTail DEF Marked
  <2>3. ASSUME NEW i, Writing(i) PROVE Writing(i)'
    <3>1. PICK v \in Workers : pc[v] = "write" /\ task[v] = i
      BY <2>3 DEF Writing
    <3>2. v # w
      BY <2>1, <3>1
    <3> QED BY <2>1, <3>1, <3>2 DEF Writing
  <2>4. ASSUME NEW i \in Indexes PROVE i \in Range(queue') \/ Held(i)'
    <3>1. CASE i \in Range(queue)
      BY <2>1, <2>2, <3>1 DEF Held, Busy
    <3>2. CASE i \in Marked \/ Sure(i)
      BY <1>h, <2>2, <3>2 DEF Held
    <3>3. ASSUME NEW v \in Workers, pc[v] \in Busy, task[v] = i PROVE Held(i)'
      BY <2>1, <3>3 DEF Held, Busy
    <3> QED BY <3>1, <3>2, <3>3 DEF TraceInv, Held
  <2>5. \A v \in active : pc'[v] # "exit"
    BY <2>1 DEF TraceInv
  <2>6. ASSUME NEW v \in Workers, mode = "raw", pc'[v] \in {"commit", "lineage"}
        PROVE  task'[v] \in raw' \cup Marked' \/ Writing(task[v])'
    <3>1. v # w /\ pc'[v] = pc[v] /\ task'[v] = task[v]
      BY <2>1, <2>6
    <3>2. ASSUME NEW i, i = task[v] PROVE i \in raw' \cup Marked' \/ Writing(i)'
      BY <2>1, <2>2, <2>3, <2>6, <3>1, <3>2 DEF TraceInv
    <3> QED BY <3>1, <3>2
  <2> QED BY <1>s, <2>1, <2>3, <2>4, <2>5, <2>6 DEF TraceInv
<1>2. ASSUME NEW w \in Workers, RecvClosed(w) PROVE TraceInv'
  BY <1>2, <1>o DEF RecvClosed, Busy, Marked
<1>3. ASSUME NEW w \in Workers, SelectGroup(w) PROVE TraceInv'
  <2>1. /\ pc[w] = "group"
        /\ UNCHANGED <<queue, shutdown, torn, errors, skipped, lost, faults>>
    BY <1>3 DEF SelectGroup
  <2>2. \A v \in Workers : v # w => pc'[v] = pc[v] /\ task'[v] = task[v]
    BY <1>3 DEF SelectGroup
  <2>3. \/ pc'[w] = "fetch" /\ task'[w] = task[w] /\ failed' = failed
        \/ pc'[w] = "recv" /\ failed' = failed \cup {task[w]}
    BY <1>3 DEF SelectGroup
  <2>4. \A i \in Indexes : pc[w] \in Busy /\ task[w] = i => Held(i)'
    BY <2>3, <1>b DEF Busy, Marked
  <2> QED BY <2>1, <2>2, <2>3, <2>4, <1>o DEF Busy, Marked
<1>4. ASSUME NEW w \in Workers, ConnectionBreaks(w) PROVE TraceInv'
  <2>1. /\ pc[w] \in {"group", "fetch"} /\ pc'[w] = "recv" /\ faults' # 0 /\ faults' > 0
        /\ failed' = failed \cup {task[w]}
        /\ UNCHANGED <<queue, shutdown, torn, errors, skipped, lost>>
        /\ \A v \in Workers : v # w => pc'[v] = pc[v] /\ task'[v] = task[v]
    BY <1>4, <1>f DEF ConnectionBreaks
  <2>2. Marked' = Marked \cup {task[w]}
    BY <2>1 DEF Marked
  <2>3. \A i \in Indexes : pc[w] \in Busy /\ task[w] = i => Held(i)'
    BY <2>2, <1>b
  <2> QED BY <2>1, <2>2, <2>3, <1>o
<1>5. ASSUME NEW w \in Workers, PassOver(w) PROVE TraceInv'
  <2>1. /\ pc[w] = "fetch" /\ pc'[w] = "recv" /\ shutdown
        /\ skipped' = skipped \cup {task[w]}
        /\ UNCHANGED <<queue, shutdown, torn, errors, failed, lost, faults>>
        /\ \A v \in Workers : v # w => pc'[v] = pc[v] /\ task'[v] = task[v]
    BY <1>5 DEF PassOver
  <2>2. Marked' = Marked \cup {task[w]}
    BY <2>1 DEF Marked
  <2>3. \A i \in Indexes : pc[w] \in Busy /\ task[w] = i => Held(i)'
    BY <2>2, <1>b
  <2> QED BY <2>1, <2>2, <2>3, <1>o
<1>6. ASSUME NEW w \in Workers, NotAvailable(w) PROVE TraceInv'
  <2>1. /\ pc[w] = "fetch" /\ pc'[w] = "recv"
        /\ \/ errors' = errors \cup {task[w]} /\ failed' = failed
           \/ failed' = failed \cup {task[w]} /\ errors' = errors
        /\ UNCHANGED <<queue, shutdown, torn, skipped, lost, faults>>
        /\ \A v \in Workers : v # w => pc'[v] = pc[v] /\ task'[v] = task[v]
    BY <1>6 DEF NotAvailable, Fetching, RecordMissing
  <2>2. Marked' = Marked \cup {task[w]}
    BY <2>1 DEF Marked
  <2>3. \A i \in Indexes : pc[w] \in Busy /\ task[w] = i => Held(i)'
    BY <2>2, <1>b
  <2> QED BY <2>1, <2>2, <2>3, <1>o
<1>7. ASSUME NEW w \in Workers, Archive(w) PROVE TraceInv'
  <2>1. /\ pc[w] = "fetch" /\ task' = task
        /\ \/ mode = "raw" /\ pc'[w] = "write" /\ torn' = torn \cup {task[w]}
           \/ mode = "parquet" /\ pc'[w] = "lineage" /\ torn' = torn
        /\ UNCHANGED <<queue, shutdown, errors, failed, skipped, lost, faults>>
        /\ \A v \in Workers : v # w => pc'[v] = pc[v]
    BY <1>7 DEF Archive, Fetching
  <2>2. Marked' = Marked
    BY <2>1 DEF Marked
  <2>3. \A i \in Indexes : pc[w] \in Busy /\ task[w] = i => Held(i)'
    BY <2>1, <1>b DEF Busy
  <2> QED BY <2>1, <2>2, <2>3, <1>o
<1>8. ASSUME NEW w \in Workers, WriteRaw(w) PROVE TraceInv'
  <2>1. /\ pc[w] = "write" /\ task' = task /\ pc'[w] = "commit" /\ mode = "raw"
        /\ raw' = raw \cup {task[w]} /\ torn' = torn \ {task[w]}
        /\ UNCHANGED <<queue, shutdown, errors, failed, skipped, lost, faults>>
        /\ \A v \in Workers : v # w => pc'[v] = pc[v]
    BY <1>8 DEF WriteRaw, TasksKnown
  <2>2. Marked' = Marked
    BY <2>1 DEF Marked
  <2>3. \A i \in Indexes : pc[w] \in Busy /\ task[w] = i => Held(i)'
    BY <2>1, <1>b DEF Busy
  <2> QED BY <2>1, <2>2, <2>3, <1>o
<1>9. ASSUME NEW w \in Workers, CommitProgress(w) \/ Resolve(w) PROVE TraceInv'
  <2>1. /\ \/ pc[w] = "commit" /\ pc'[w] = "lineage"
           \/ pc[w] = "resolve" /\ pc'[w] = "create"
        /\ UNCHANGED <<queue, task, shutdown, torn, errors, failed, skipped, lost, faults>>
        /\ \A v \in Workers : v # w => pc'[v] = pc[v]
    BY <1>9 DEF CommitProgress, Resolve
  <2>2. Marked' = Marked
    BY <2>1 DEF Marked
  <2>3. \A i \in Indexes : pc[w] \in Busy /\ task[w] = i => Held(i)'
    BY <2>1, <1>b DEF Busy
  <2> QED BY <2>1, <2>2, <2>3, <1>o
<1>10. ASSUME NEW w \in Workers, AppendLineage(w) PROVE TraceInv'
  <2>1. /\ pc[w] = "lineage"
        /\ UNCHANGED <<queue, shutdown, raw, torn, errors, failed, skipped, lost, faults>>
        /\ \A v \in Workers : v # w => pc'[v] = pc[v] /\ task'[v] = task[v]
    BY <1>10 DEF AppendLineage
  <2>2. \/ mode = "parquet" /\ pc'[w] = "resolve" /\ task'[w] = task[w]
        \/ mode = "raw" /\ pc'[w] = "recv"
    BY <1>10 DEF AppendLineage
  <2>3. Marked' = Marked
    BY <2>1 DEF Marked
  <2>4. ASSUME NEW i \in Indexes, task[w] = i PROVE Held(i)'
    <3>1. CASE pc'[w] = "resolve" /\ task'[w] = task[w]
      BY <2>4, <3>1 DEF Held, Busy
    <3>2. CASE mode = "raw"
      <4>1. i \in raw \cup Marked \/ Writing(i)
        BY <2>1, <2>4, <3>2 DEF TraceInv
      <4>2. ASSUME NEW v \in Workers, pc[v] = "write", task[v] = i PROVE Held(i)'
        <5>1. pc'[v] = "write" /\ task'[v] = i
          BY <2>1, <4>2
        <5> QED BY <5>1 DEF Held, Busy
      <4>3. i \in raw \cup Marked => Held(i)'
        BY <2>1, <2>3 DEF Held, Sure
      <4> QED BY <4>1, <4>2, <4>3 DEF Writing
    <3> QED BY <2>2, <3>1, <3>2
  <2> QED BY <2>1, <2>2, <2>3, <2>4, <1>o
<1>11. ASSUME NEW w \in Workers, Create(w) \/ WriteFooter(w) PROVE TraceInv'
  <2>1. /\ pc[w] \in {"create", "footer"} /\ pc'[w] \in {"footer", "save"}
        /\ UNCHANGED <<queue, task, shutdown, torn, errors, failed, skipped, lost, faults>>
        /\ \A v \in Workers : v # w => pc'[v] = pc[v]
    BY <1>11 DEF Create, WriteFooter
  <2>2. Marked' = Marked
    BY <2>1 DEF Marked
  <2>3. \A i \in Indexes : pc[w] \in Busy /\ task[w] = i => Held(i)'
    BY <2>1, <1>b DEF Busy
  <2> QED BY <2>1, <2>2, <2>3, <1>o
<1>12. ASSUME NEW w \in Workers, SaveLast(w) \/ SaveFails(w) PROVE TraceInv'
  <2>1. /\ pc[w] = "save" /\ pc'[w] = "recv"
        /\ UNCHANGED <<queue, shutdown, torn, errors, failed, skipped, lost>>
        /\ faults' = faults \/ (faults' # 0 /\ faults' > 0)
        /\ \A v \in Workers : v # w => pc'[v] = pc[v] /\ task'[v] = task[v]
    BY <1>12, <1>f DEF SaveLast, SaveFails
  <2>2. Marked' = Marked
    BY <2>1 DEF Marked
  <2>3. Sure(task[w])
    <3>1. mode = "parquet" /\ Kept(task[w])
      BY <2>1 DEF KeptInv, TasksKnown
    <3> QED BY <3>1 DEF TraceInv, Kept, Readable, Sure, InFile
  <2>4. \A i \in Indexes : pc[w] \in Busy /\ task[w] = i => Held(i)'
    BY <2>3, <1>h
  <2> QED BY <2>1, <2>2, <2>4, <1>o
<1>15. ASSUME NEW w \in Workers, ArchiveFails(w) PROVE TraceInv'
  <2>1. /\ pc[w] \in {"fetch", "write", "commit", "lineage"}
        /\ pc'[w] \in {"recv", "resolve"} /\ faults' # 0 /\ faults' > 0
        /\ failed' = failed \cup {task[w]}
        /\ UNCHANGED <<queue, shutdown, torn, errors, skipped, lost>>
        /\ \A v \in Workers : v # w => pc'[v] = pc[v] /\ task'[v] = task[v]
    BY <1>15, <1>f DEF ArchiveFails, Fetching
  <2>2. Marked' = Marked \cup {task[w]}
    BY <2>1 DEF Marked
  <2>3. \A i \in Indexes : pc[w] \in Busy /\ task[w] = i => Held(i)'
    BY <2>2, <1>b
  <2> QED BY <2>1, <2>2, <2>3, <1>o
<1>16. ASSUME NEW w \in Workers, LogFails(w) \/ CloseFails(w) PROVE TraceInv'
  <2>1. /\ pc[w] \in {"fetch", "resolve", "create", "footer"}
        /\ pc'[w] = "recv" /\ faults' # 0 /\ faults' > 0
        /\ lost' = lost \cup {task[w]}
        /\ UNCHANGED <<queue, shutdown, torn, errors, failed, skipped>>
        /\ \A v \in Workers : v # w => pc'[v] = pc[v] /\ task'[v] = task[v]
    BY <1>16, <1>f DEF LogFails, CloseFails, Fetching
  <2>2. Marked' = Marked \cup {task[w]}
    BY <2>1 DEF Marked
  <2>3. \A i \in Indexes : pc[w] \in Busy /\ task[w] = i => Held(i)'
    BY <2>2, <1>b
  <2> QED BY <2>1, <2>2, <2>3, <1>o
<1>13. ASSUME StartAgain PROVE TraceInv'
  <2>1. /\ queue' = Tasks /\ torn' = torn /\ skipped' = {} /\ lost' = {}
        /\ \A w \in Workers : pc'[w] \in {"recv", "exit"}
        /\ \A w \in active : pc'[w] # "exit"
    BY <1>13 DEF StartAgain
  <2>2. Indexes' \subseteq Range(queue')
    BY <1>s, <2>1 DEF Indexes
  <2>3. faults' = 0 => torn' = {}
    <3>1. CASE Quiet /\ faults' = faults
      BY <2>1, <3>1 DEF TraceInv, Writing, Quiet
    <3>2. CASE Fault
      BY <1>f, <3>2
    <3> QED BY <1>13, <3>1, <3>2 DEF StartAgain
  <2> QED BY <1>s, <2>1, <2>2, <2>3 DEF TraceInv
<1>14. CASE CtrlC \/ UNCHANGED vars
  <2>1. /\ UNCHANGED <<queue, pc, task, raw, torn, files, takers, errors, failed, skipped, lost, faults>>
        /\ shutdown' = shutdown \/ shutdown'
    BY <1>14 DEF CtrlC, vars
  <2>2. Marked' = Marked
    BY <2>1 DEF Marked
  <2>3. \A i : Held(i)' = Held(i) /\ Writing(i)' = Writing(i)
    BY <2>1, <2>2 DEF Held, Sure, InFile, Collided, Writing
  <2>4. \A i \in Indexes : i \in Range(queue') \/ Held(i)'
    BY <2>1, <2>3 DEF TraceInv
  <2>5. \A w \in Workers : mode = "raw" /\ pc'[w] \in {"commit", "lineage"} =>
          task'[w] \in raw' \cup Marked' \/ Writing(task[w])'
    BY <2>1, <2>2 DEF TraceInv, Writing
  <2>6. faults' = 0 => \A i \in torn' : Writing(i)'
    BY <2>1, <2>3 DEF TraceInv
  <2> QED BY <1>s, <2>1, <2>4, <2>5, <2>6 DEF TraceInv
<1> QED
  BY <1>s, <1>1, <1>2, <1>3, <1>4, <1>5, <1>6, <1>7, <1>8, <1>9, <1>10, <1>11, <1>12,
     <1>13, <1>14, <1>15, <1>16 DEF Step, IoError

(***************************************************************************)
(* When the workers of range mode have ended, each index of email_range is *)
(* in a file a reader can open, in __errors.csv, or was given up by a call *)
(* that failed; but for a shutdown, an I/O error that was swallowed, and a *)
(* parquet file that two workers created.  Without a kill and an I/O error *)
(* no .eml is left truncated.                                              *)
(***************************************************************************)
THEOREM NoIndexIsMissed == Spec => []NoSilentMiss
<1>1. Init => TraceInv
  <2> SUFFICES ASSUME Init PROVE TraceInv
    OBVIOUS
  <2>1. /\ queue = Tasks /\ torn = {} /\ skipped = {} /\ lost = {}
        /\ \A w \in active : pc[w] # "exit"
        /\ \A w \in Workers : pc[w] \in {"recv", "exit"}
    BY DEF Init
  <2> QED BY <2>1 DEF TraceInv, Indexes
<1>2. IInv /\ TraceInv /\ [Next]_vars => TraceInv'
  BY TraceStep DEF IInv
<1>3. IInv /\ TraceInv => NoSilentMiss
  <2> SUFFICES ASSUME IInv, TraceInv, Quiet PROVE NoSilentMiss
    BY DEF NoSilentMiss
  <2>1. queue = <<>>
    BY DEF IInv, TypeInv, TypeOK, Quiet, TraceInv
  <2>2. Range(queue) = {}
    BY <2>1 DEF Range
  <2>3. \A w \in Workers : pc[w] \notin Busy /\ pc[w] # "write"
    BY DEF Quiet, Busy
  <2>4. faults = 0 => torn = {}
    BY <2>3 DEF TraceInv, Writing
  <2>5. ASSUME NEW i \in Indexes \ (Readable \cup errors \cup failed)
        PROVE  \/ i \in skipped /\ shutdown
               \/ i \in lost /\ faults > 0
               \/ mode = "parquet" /\ Collided(i)
    <3>1. i \in Marked \/ Sure(i)
      BY <2>2, <2>3 DEF TraceInv, Held
    <3>2. CASE i \in Marked
      BY <2>5, <3>2 DEF Marked, TraceInv
    <3>3. CASE Sure(i)
      <4>1. Collided(i)
        BY <2>5, <3>3 DEF Sure, InFile, Readable
      <4>2. mode # "raw"
        BY <4>1 DEF Collided, IInv, Uncollided
      <4>3. mode \in {"raw", "parquet"}
        BY RangeAssumption DEF IInv, TypeInv, TypeOK
      <4> QED BY <4>1, <4>2, <4>3
    <3> QED BY <3>1, <3>2, <3>3
  <2> QED BY <2>4, <2>5 DEF NoSilentMiss
<1> QED BY <1>1, <1>2, <1>3, SpecIInv, PTL DEF Spec
=============================================================================
