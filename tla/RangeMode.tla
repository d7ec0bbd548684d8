------------------------------- MODULE RangeMode -------------------------------
(***************************************************************************)
(* Range mode: the workers of a source share the e-mail indexes of one     *)
(* list, and each call of read_email_by_index makes an ArchiveWriter of    *)
(* its own for one e-mail.  Nothing keeps these writers apart, so a call   *)
(* is split wherever it touches the directory of the list.                 *)
(*                                                                         *)
(* The producer has sent all its messages; MCScheduler checks that part.   *)
(* A parquet file holds the one e-mail of its writer: buffer_size is above *)
(* one, so the e-mail is written when the writer is dropped.               *)
(***************************************************************************)
EXTENDS Naturals, Sequences, FiniteSets, SequencesExt, FiniteSetsExt

CONSTANTS
    Workers,     \* the workers there may be; a run has some of them
    Tasks,       \* the indexes of email_range, in the order of the text
    Width,       \* for every index, the number of its digits
    Sources,     \* the run modes to look at
    Modes,       \* the write modes to look at
    MaxFaults,   \* broken connections, I/O errors and kills in a behaviour (bound)
    MaxRestarts  \* times range mode may be started again (bound)

ASSUME RangeAssumption ==
    /\ Workers # {} /\ IsFiniteSet(Workers)
    /\ Tasks \in Seq(Nat \ {0})
    /\ Width \in [Range(Tasks) -> Nat \ {0}]
    /\ Sources \subseteq {"nntp", "pi"} /\ Modes \subseteq {"raw", "parquet"}
    /\ MaxFaults \in Nat /\ MaxRestarts \in Nat

VARIABLES
    source, mode, \* the configuration
    available,    \* the indexes the source can deliver
    active,       \* the workers of this configuration (nthreads)
    queue,        \* the messages in the channel
    pc, task,     \* where a worker is, and with which index
    path,         \* the number its parquet writer resolved
    connected,    \* its connection, kept from one call to the next
    shutdown,     \* Ctrl+C was pressed
    raw, torn,    \* the complete .eml files, and those truncated so far
    files,        \* data_NNN.parquet: what a reader finds in it
    progress,     \* what a reader finds in __progress.yaml, 0 for nothing
    longest,      \* the digits of the longest index ever written to it
    lineage,      \* __lineage.yaml
    errors,       \* __errors.csv
    failed,       \* indexes whose call returned an error in this start, which is logged
    skipped,      \* indexes a worker passed over at the shutdown of this start
    stored,       \* indexes a call archived; close() of its writer gave no error
    lost,         \* indexes an I/O error of this start left without a trace
    takers,       \* for every file, the workers that created it, with their index
    faults, restarts

config == <<source, mode, available, active>>
disk   == <<raw, torn, files, progress, longest, lineage, errors>>
ended  == <<failed, skipped, stored, lost, takers>>
vars   == <<config, queue, pc, task, path, connected, shutdown, disk, ended, faults, restarts>>

Indexes == Range(Tasks)

\* The data_NNN numbers of this model (bound), one for each message of each
\* start, so that none is missing.
Numbers == 1 .. Len(Tasks) * (MaxRestarts + 1)

NoFile == [exists |-> FALSE, shared |-> FALSE, rows |-> {}]

Steps == {"recv", "group", "fetch", "write", "commit", "lineage",
          "resolve", "create", "footer", "save", "exit"}

\* What a reader of the directory finds: files without a footer are empty.
Readable == raw \cup UNION {files[n].rows : n \in Numbers}

\* The file an e-mail was written to is one that two workers created.
Collided(i) ==
    \E n \in Numbers, w \in Workers : <<w, i>> \in takers[n] /\ takers[n] # {<<w, i>>}

Quiet == \A w \in Workers : pc[w] = "exit"

Goto(w, step) == pc' = [pc EXCEPT ![w] = step] /\ UNCHANGED <<task, path>>

\* The call has returned and its ArchiveWriter is gone.
Return(w) ==
    /\ pc' = [pc EXCEPT ![w] = "recv"]
    /\ task' = [task EXCEPT ![w] = 0]
    /\ path' = [path EXCEPT ![w] = 0]

Fault == faults < MaxFaults /\ faults' = faults + 1

-----------------------------------------------------------------------------
Init ==
    /\ source \in Sources /\ mode \in Modes
    /\ available \in SUBSET Indexes
    /\ active \in (SUBSET Workers) \ {{}}
    /\ queue = Tasks
    /\ pc = [w \in Workers |-> IF w \in active THEN "recv" ELSE "exit"]
    /\ task = [w \in Workers |-> 0] /\ path = [w \in Workers |-> 0]
    /\ connected = [w \in Workers |-> TRUE]
    /\ shutdown = FALSE
    /\ raw = {} /\ torn = {} /\ files = [n \in Numbers |-> NoFile]
    /\ progress = 0 /\ longest = 0 /\ lineage = {} /\ errors = {}
    /\ failed = {} /\ skipped = {} /\ stored = {} /\ lost = {}
    /\ takers = [n \in Numbers |-> {}]
    /\ faults = 0 /\ restarts = 0

\* The loop of spawn_worker_to_read_email_by_index; the flag is not read.
Recv(w) ==
    /\ pc[w] = "recv" /\ queue # <<>>
    /\ queue' = Tail(queue)
    /\ pc' = [pc EXCEPT ![w] = "group"]
    /\ task' = [task EXCEPT ![w] = Head(queue)]
    /\ UNCHANGED <<config, path, connected, shutdown, disk, ended, faults, restarts>>

\* RecvError: the channel is empty and the producer has gone.
RecvClosed(w) ==
    /\ pc[w] = "recv" /\ queue = <<>>
    /\ Goto(w, "exit")
    /\ UNCHANGED <<config, queue, connected, shutdown, disk, ended, faults, restarts>>

\* Faulty variant: an index whose call failed is sent again.
FailRequeued(w) ==
    /\ queue' = Append(queue, task[w])
    /\ UNCHANGED <<disk, ended>>

\* The call returns an error, which the scheduler only logs.
Fail(w) ==
    /\ failed' = failed \cup {task[w]}
    /\ UNCHANGED <<queue, disk, skipped, stored, lost, takers>>

\* NNTP: group() on a connection that broke in an earlier call fails, as
\* only consumme_list connects again.
SelectGroup(w) ==
    /\ pc[w] = "group"
    /\ \/ /\ source = "pi" \/ connected[w]
          /\ Goto(w, "fetch")
          /\ UNCHANGED <<queue, disk, ended>>
       \/ source = "nntp" /\ ~connected[w] /\ Return(w) /\ Fail(w)
    /\ UNCHANGED <<config, connected, shutdown, faults, restarts>>

\* NNTP: the connection breaks in group() or in all four tries of a fetch.
ConnectionBreaks(w) ==
    /\ source = "nntp" /\ pc[w] \in {"group", "fetch"} /\ connected[w]
    /\ Fault
    /\ connected' = [connected EXCEPT ![w] = FALSE]
    /\ Return(w)
    /\ Fail(w)
    /\ UNCHANGED <<config, shutdown, restarts>>

\* read_new_mails looks at the flag before it fetches; nothing is recorded.
PassOver(w) ==
    /\ pc[w] = "fetch" /\ shutdown
    /\ Return(w)
    /\ skipped' = skipped \cup {task[w]}
    /\ UNCHANGED <<config, queue, connected, shutdown, disk,
                   failed, stored, lost, takers, faults, restarts>>

Fetching(w) == pc[w] = "fetch" /\ ~shutdown

\* Faulty variant: the missing article is only shown to the user.
RecordMissingNot(w) == UNCHANGED <<disk, failed>>

\* NNTP lists the article in __errors.csv; an index beyond the last e-mail
\* of a public inbox is an error of the call.
RecordMissing(w) ==
    \/ /\ source = "nntp"
       /\ errors' = errors \cup {task[w]}
       /\ UNCHANGED <<raw, torn, files, progress, longest, lineage, failed>>
    \/ /\ source = "pi"
       /\ failed' = failed \cup {task[w]}
       /\ UNCHANGED disk

NotAvailable(w) ==
    /\ Fetching(w) /\ task[w] \notin available
    /\ Return(w)
    /\ RecordMissing(w)
    /\ UNCHANGED <<config, queue, connected, shutdown,
                   skipped, stored, lost, takers, faults, restarts>>

\* archive_email: the .eml is truncated, or the e-mail is buffered.
Archive(w) ==
    /\ Fetching(w) /\ task[w] \in available
    /\ \/ mode = "raw" /\ Goto(w, "write") /\ raw' = raw \ {task[w]} /\ torn' = torn \cup {task[w]}
       \/ mode = "parquet" /\ Goto(w, "lineage") /\ UNCHANGED <<raw, torn>>
    /\ UNCHANGED <<config, queue, connected, shutdown, files, progress, longest,
                   lineage, errors, ended, faults, restarts>>

WriteRaw(w) ==
    /\ pc[w] = "write"
    /\ raw' = raw \cup {task[w]}
    /\ torn' = torn \ {task[w]}
    /\ Goto(w, "commit")
    /\ UNCHANGED <<config, queue, connected, shutdown, files, progress, longest,
                   lineage, errors, ended, faults, restarts>>

(***************************************************************************)
(* ProgressTracker::update.  write_yaml does not truncate: behind a text   *)
(* shorter than an earlier one the rest of that stays, and more than its   *)
(* line end is an error to a reader.  The NNTP indexes are written as they *)
(* are, the numbers of a public inbox are padded.                          *)
(***************************************************************************)
SaveProgress(i) ==
    LET width == IF source = "nntp" THEN Width[i] ELSE 1
    IN  /\ progress' = IF width + 1 < longest THEN 0 ELSE i
        /\ longest' = IF width < longest THEN longest ELSE width

CommitProgress(w) ==
    /\ pc[w] = "commit"
    /\ SaveProgress(task[w])
    /\ Goto(w, "lineage")
    /\ UNCHANGED <<config, queue, connected, shutdown, raw, torn, files,
                   lineage, errors, ended, faults, restarts>>

Done(w) == stored' = stored \cup {task[w]}

\* Faulty variant: a buffered e-mail is taken for a stored one.
AppendLineageSaving(w) ==
    /\ pc[w] = "lineage"
    /\ lineage' = lineage \cup {task[w]}
    /\ SaveProgress(task[w])
    /\ Goto(w, "resolve")
    /\ UNCHANGED <<config, queue, connected, shutdown, raw, torn, files, errors,
                   ended, faults, restarts>>

\* The end of archive_email, and in raw mode of the call.
AppendLineage(w) ==
    /\ pc[w] = "lineage"
    /\ lineage' = lineage \cup {task[w]}
    /\ \/ mode = "raw" /\ Return(w) /\ Done(w)
       \/ mode = "parquet" /\ Goto(w, "resolve") /\ UNCHANGED stored
    /\ UNCHANGED <<config, queue, connected, shutdown, raw, torn, files, progress, longest,
                   errors, failed, skipped, lost, takers, faults, restarts>>

\* Faulty variant: the highest number in the directory is taken itself.
NextNumberHighest ==
    Max({1} \cup {n \in Numbers : files[n].exists})

\* resolve_path: one above the highest number in the directory.
NextNumber == 1 + Max({0} \cup {n \in Numbers : files[n].exists})

Resolve(w) ==
    /\ pc[w] = "resolve"
    /\ NextNumber \in Numbers
    /\ pc' = [pc EXCEPT ![w] = "create"]
    /\ path' = [path EXCEPT ![w] = NextNumber]
    /\ UNCHANGED <<config, queue, task, connected, shutdown, disk, ended, faults, restarts>>

\* Another worker has the file of this one open.
OpenElsewhere(w) ==
    \E v \in Workers \ {w} : pc[v] = "footer" /\ path[v] = path[w]

\* init_writer: File::create truncates a file that exists.
Create(w) ==
    /\ pc[w] = "create"
    /\ files' = [files EXCEPT ![path[w]] =
                   [exists |-> TRUE, shared |-> OpenElsewhere(w), rows |-> {}]]
    /\ takers' = [takers EXCEPT ![path[w]] = @ \cup {<<w, task[w]>>}]
    /\ Goto(w, "footer")
    /\ UNCHANGED <<config, queue, connected, shutdown, raw, torn, progress, longest,
                   lineage, errors, failed, skipped, stored, lost, faults, restarts>>

\* Faulty variant: the ArrowWriter is dropped without close().
WriteFooterNot(w) ==
    /\ pc[w] = "footer"
    /\ Goto(w, "save")
    /\ UNCHANGED <<config, queue, connected, shutdown, disk, ended, faults, restarts>>

\* close: what two writers of one file leave is one's rows or no file a
\* reader can open.
WriteFooter(w) ==
    /\ pc[w] = "footer"
    /\ LET file == files[path[w]]
       IN  \E rows \in {{task[w]}} \cup (IF file.shared THEN {file.rows, {}} ELSE {}) :
             files' = [files EXCEPT ![path[w]] = [exists |-> TRUE, shared |-> file.shared,
                                                  rows |-> rows]]
    /\ Goto(w, "save")
    /\ UNCHANGED <<config, queue, connected, shutdown, raw, torn, progress, longest,
                   lineage, errors, ended, faults, restarts>>

\* The end of ArchiveWriter::drop.
SaveLast(w) ==
    /\ pc[w] = "save"
    /\ SaveProgress(task[w])
    /\ Return(w)
    /\ Done(w)
    /\ UNCHANGED <<config, queue, connected, shutdown, raw, torn, files, lineage,
                   errors, failed, skipped, lost, takers, faults, restarts>>

-----------------------------------------------------------------------------
(* I/O errors of the writers. *)

\* archive_email passes an error of fs::write, of the progress or of the
\* lineage on, and the call fails; what was truncated stays so.  The e-mail
\* in the buffer of a parquet writer is still written when it is dropped.
ArchiveFails(w) ==
    /\ \/ Fetching(w) /\ task[w] \in available /\ mode = "raw"
       \/ pc[w] \in {"write", "commit", "lineage"}
    /\ Fault
    /\ \/ mode = "raw" /\ Return(w)
       \/ mode = "parquet" /\ Goto(w, "resolve")
    /\ Fail(w)
    /\ UNCHANGED <<config, connected, shutdown, restarts>>

\* ErrorLogger::log only warns of an error, and the call goes on.
LogFails(w) ==
    /\ Fetching(w) /\ task[w] \notin available /\ source = "nntp"
    /\ Fault
    /\ lost' = lost \cup {task[w]}
    /\ Return(w)
    /\ UNCHANGED <<config, queue, connected, shutdown, disk,
                   failed, skipped, stored, takers, restarts>>

\* ArchiveWriter::drop ignores an error of close(): the file was not
\* created, or the e-mail or the footer could not be written to it, and
\* nobody learns of it, for the call returns what it had decided before.
CloseFails(w) ==
    /\ pc[w] \in {"resolve", "create", "footer"}
    /\ Fault
    /\ \/ pc[w] # "footer" /\ UNCHANGED files
       \/ /\ pc[w] = "footer"
          /\ LET file == files[path[w]]
             IN  \E rows \in {file.rows} \cup (IF file.shared THEN {{}} ELSE {}) :
                   files' = [files EXCEPT ![path[w]] = [exists |-> TRUE, shared |-> file.shared,
                                                        rows |-> rows]]
    /\ lost' = lost \cup {task[w]}
    /\ Return(w)
    /\ UNCHANGED <<config, queue, connected, shutdown, raw, torn, progress, longest,
                   lineage, errors, failed, skipped, stored, takers, restarts>>

\* Drop ignores an error of the progress too.
SaveFails(w) ==
    /\ pc[w] = "save"
    /\ Fault
    /\ Done(w)
    /\ Return(w)
    /\ UNCHANGED <<config, queue, connected, shutdown, disk,
                   failed, skipped, lost, takers, restarts>>

IoError(w) == ArchiveFails(w) \/ LogFails(w) \/ CloseFails(w) \/ SaveFails(w)

-----------------------------------------------------------------------------
\* In range mode only read_new_mails of an NNTP worker reads the flag.
CtrlC ==
    /\ source = "nntp" /\ ~shutdown /\ ~Quiet
    /\ shutdown' = TRUE
    /\ UNCHANGED <<config, queue, pc, task, path, connected, disk, ended, faults, restarts>>

\* The process has ended, or is killed, and range mode is started again.
StartAgain ==
    /\ restarts < MaxRestarts
    /\ restarts' = restarts + 1
    /\ (Quiet /\ UNCHANGED faults) \/ (~Quiet /\ Fault)
    /\ queue' = Tasks
    /\ pc' = [w \in Workers |-> IF w \in active THEN "recv" ELSE "exit"]
    /\ connected' = [w \in Workers |-> TRUE]
    /\ task' = [w \in Workers |-> 0] /\ path' = [w \in Workers |-> 0]
    /\ shutdown' = FALSE
    /\ failed' = {} /\ skipped' = {} /\ lost' = {}
    /\ UNCHANGED <<config, disk, stored, takers>>

Step(w) ==
    \/ Recv(w) \/ RecvClosed(w) \/ SelectGroup(w) \/ PassOver(w) \/ NotAvailable(w)
    \/ Archive(w) \/ WriteRaw(w) \/ CommitProgress(w) \/ AppendLineage(w)
    \/ Resolve(w) \/ Create(w) \/ WriteFooter(w) \/ SaveLast(w)

Next ==
    \/ \E w \in Workers : Step(w) \/ ConnectionBreaks(w) \/ IoError(w)
    \/ CtrlC
    \/ StartAgain
    \/ Quiet /\ UNCHANGED vars

Spec == Init /\ [][Next]_vars

\* The operating system runs every thread that can take a step.
FairSpec == Spec /\ \A w \in Workers : WF_vars(Step(w))

-----------------------------------------------------------------------------
(* Properties. *)

\* The variables keep their types, and a worker that has a file open knows
\* its number (Option<ArrowWriter> in ParquetEmailStore).
TypeOK ==
    /\ source \in Sources /\ mode \in Modes
    /\ available \subseteq Indexes /\ active \subseteq Workers /\ active # {}
    /\ queue \in Seq(Indexes)
    /\ pc \in [Workers -> Steps]
    /\ task \in [Workers -> Indexes \cup {0}]
    /\ path \in [Workers -> Nat]
    /\ \A w \in Workers : pc[w] \in {"create", "footer"} => path[w] \in Numbers
    /\ connected \in [Workers -> BOOLEAN] /\ shutdown \in BOOLEAN
    /\ raw \subseteq available /\ torn \subseteq available /\ lineage \subseteq available
    /\ files \in [Numbers -> [exists : BOOLEAN, shared : BOOLEAN, rows : SUBSET available]]
    /\ progress \in available \cup {0} /\ longest \in Nat
    /\ errors \subseteq Indexes /\ failed \subseteq Indexes
    /\ skipped \subseteq Indexes /\ stored \subseteq available /\ lost \subseteq Indexes
    /\ takers \in [Numbers -> SUBSET (Workers \X available)]
    /\ faults \in 0 .. MaxFaults /\ restarts \in 0 .. MaxRestarts

(***************************************************************************)
(* An e-mail that a call archived, its writer dropped without an error,    *)
(* can be read, or another call has truncated its .eml and is writing it,  *)
(* was killed then, or met an error.  With several workers in parquet      *)
(* mode, and only then, it may be lost: if another writer created the file *)
(* its own writer had resolved.  No other race of the shared directory,    *)
(* and no I/O error of another call, loses one.                            *)
(***************************************************************************)
StoredReadable ==
    \A i \in stored \ (Readable \cup torn) :
      /\ mode = "parquet" /\ Collided(i)
      /\ \E v, w \in active : v # w

(***************************************************************************)
(* The e-mail the progress names was archived, and not only fetched; in    *)
(* parquet mode its file has a footer or is shared with another writer.    *)
(* Once saved, the progress is unreadable only where an NNTP index was     *)
(* saved after one with at least two digits more.                          *)
(***************************************************************************)
ProgressStored ==
    /\ progress # 0 => progress \in Readable \cup torn \/ Collided(progress)
    /\ progress = 0 /\ longest # 0 =>
         source = "nntp" /\ \E i \in available : Width[i] + 1 < longest

(***************************************************************************)
(* When the workers have ended, every index of email_range is in a file a  *)
(* reader can open or in __errors.csv, or the log of this start says that  *)
(* its call failed.  Three things leave an index out without a trace: a    *)
(* shutdown, which passes it over; an I/O error that the drop of the       *)
(* writer or the error log swallows, though the call returns Ok; and, in   *)
(* parquet mode, another worker that created the file it was written to.   *)
(* A truncated .eml is left behind only by a kill or an I/O error.         *)
(***************************************************************************)
NoSilentMiss ==
    Quiet =>
      /\ \A i \in Indexes \ (Readable \cup errors \cup failed) :
           \/ i \in skipped /\ shutdown
           \/ i \in lost /\ faults > 0
           \/ mode = "parquet" /\ Collided(i)
      /\ faults = 0 => torn = {}

\* A run ends: a broken connection fails the indexes its worker takes, and
\* neither blocks the others nor tries them again.
RunEnds == <>Quiet
=============================================================================
