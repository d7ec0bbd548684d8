---------------------------- MODULE ArchiveWriter ----------------------------
(***************************************************************************)
(* The storage facade of the archiver for one mailing list directory:      *)
(* archive_writer/mod.rs and the four parts it drives, the e-mail store    *)
(* (parquet or raw .eml files), __progress.yaml, __lineage.yaml and        *)
(* __errors.csv.                                                           *)
(*                                                                         *)
(* One ArchiveWriter at a time works in the directory; it may be dropped   *)
(* and created again (each visit of a list does), and the process may be   *)
(* killed between any two steps.  A call of archive_email and the Drop of  *)
(* the writer are split at every point where they change the disk, because *)
(* that is where a crash or an I/O error separates one file from another.  *)
(*                                                                         *)
(* Simplifications: an e-mail is its number (its content plays no part);   *)
(* a parquet file is the rows it will hold once its footer is written, as  *)
(* rows handed to the ArrowWriter are not readable before; data_NNN names  *)
(* are left out, a single writer always takes a fresh one (resolve_path).  *)
(* Writing __progress.yaml is one step: within one process crash the file  *)
(* holds the old or the new value.                                         *)
(***************************************************************************)
EXTENDS Naturals, Sequences

CONSTANTS
    MaxId,        \* e-mails are numbered 1 .. MaxId (bound of the model)
    WriteMode,    \* "parquet" or "raw", the configured WriteMode
    MaxPerFile,   \* buffer_size of WriteMode::Parquet, max_emails_per_file
    RowGroupCap,  \* the cap on row_group_size, 2048 in the code
    Faults,       \* the kinds of fault that may happen
    MaxFaults     \* how many of them may happen in a behaviour (bound)

FaultKinds == {"crash", "create", "write", "close", "progress", "lineage",
               "errorlog", "network"}

ASSUME SizesAssumption ==
    /\ MaxId \in Nat
    /\ MaxPerFile \in Nat
    /\ RowGroupCap \in Nat \ {0}
    /\ MaxFaults \in Nat

ASSUME ModesAssumption ==
    /\ WriteMode \in {"parquet", "raw"}
    /\ Faults \subseteq FaultKinds

VARIABLES
    stored,       \* e-mails in a file a reader can open
    leftover,     \* an unfinished data_NNN.parquet was left in the directory
    progress,     \* last_email of __progress.yaml, 0 when there is no file
    lineage,      \* e-mails listed in __lineage.yaml
    errors,       \* e-mails listed in __errors.csv
    call,         \* where the writer is, see Calls
    cur,          \* the e-mail being archived, 0 outside archive_email
    buffer,       \* ParquetEmailStore.buffer
    arrow,        \* rows handed to the open ArrowWriter
    open,         \* ParquetEmailStore.writer is Some
    emailsInFile, \* ParquetEmailStore.emails_in_current_file
    synced,       \* synced_items whose progress is still to be written
    faults        \* faults so far

disk   == <<stored, leftover, progress, lineage, errors>>
memory == <<call, cur, buffer, arrow, open, emailsInFile, synced>>
awVars == <<disk, memory, faults>>

Ids == 1 .. MaxId

(***************************************************************************)
(* "none": no writer exists; "idle": between two calls; "add", "rawwrite", *)
(* "rotate", "commit", "lineage": inside archive_email; "failed": it       *)
(* returned an error; "closing", "footer", "save": inside Drop.            *)
(***************************************************************************)
InCall == {"add", "rawwrite", "rotate", "commit", "lineage"}
InDrop == {"closing", "footer", "save"}
Calls  == {"none", "idle", "failed"} \cup InCall \cup InDrop

Rng(s) == {s[i] : i \in DOMAIN s}
Last(s) == s[Len(s)]

\* Faulty variant: every e-mail is a row group of its own.
RowGroupOfOne == 1

\* max_emails_per_file.clamp(1, 2048)
RowGroupSize ==
    IF MaxPerFile = 0 THEN 1
    ELSE IF MaxPerFile > RowGroupCap THEN RowGroupCap ELSE MaxPerFile

\* The file is full once this e-mail is in it (0 means: never rotate).
RotationDue == MaxPerFile > 0 /\ emailsInFile >= MaxPerFile

FlushDue == Len(buffer) >= RowGroupSize \/ (RotationDue /\ buffer # <<>>)

Fault(kind) ==
    /\ kind \in Faults
    /\ faults < MaxFaults
    /\ faults' = faults + 1

\* Faulty variant: the new file takes the name of an earlier one.
FinishFileOverwriting ==
    /\ stored' = Rng(arrow)
    /\ open'  = FALSE
    /\ arrow' = <<>>

\* The rows of a finished file become readable.
FinishFile ==
    /\ stored' = stored \cup Rng(arrow)
    /\ open'  = FALSE
    /\ arrow' = <<>>

\* The writer's memory is gone: dropped, or lost with the process.
Release ==
    /\ call' = "none"
    /\ cur' = 0
    /\ buffer' = <<>>
    /\ arrow' = <<>>
    /\ open' = FALSE
    /\ emailsInFile' = 0
    /\ synced' = <<>>

\* Faulty variant: the number saved is that of the e-mail to fetch next.
SaveNextNumber(id) == progress' = id + 1

\* ProgressTracker::update
SaveProgress(id) == progress' = id

-----------------------------------------------------------------------------
AWInit ==
    /\ stored = {} /\ leftover = FALSE
    /\ progress = 0 /\ lineage = {} /\ errors = {}
    /\ call = "none" /\ cur = 0
    /\ buffer = <<>> /\ arrow = <<>> /\ open = FALSE
    /\ emailsInFile = 0 /\ synced = <<>>
    /\ faults = 0

\* ArchiveWriter::new: nothing on disk is touched.
New ==
    /\ call = "none"
    /\ call' = "idle"
    /\ UNCHANGED <<disk, cur, buffer, arrow, open, emailsInFile, synced, faults>>

\* archive_email(id) up to the first effect on the disk.
AddEmail(id) ==
    /\ call = "idle"
    /\ cur' = id
    /\ \/ /\ WriteMode = "parquet"
          /\ call' = "add"
          /\ buffer' = Append(buffer, id)
          /\ emailsInFile' = emailsInFile + 1
          /\ UNCHANGED stored
       \/ /\ WriteMode = "raw"          \* std::fs::write truncates {id}.eml
          /\ call' = "rawwrite"
          /\ stored' = stored \ {id}
          /\ UNCHANGED <<buffer, emailsInFile>>
    /\ UNCHANGED <<leftover, progress, lineage, errors,
                   arrow, open, synced, faults>>

\* RawEmailStore::add_email has written the whole file, or failed.
WriteRaw ==
    /\ call = "rawwrite"
    /\ \/ /\ stored' = stored \cup {cur}
          /\ synced' = <<cur>>
          /\ call' = "commit"
          /\ UNCHANGED faults
       \/ /\ Fault("write")
          /\ call' = "failed"
          /\ UNCHANGED <<stored, synced>>
    /\ UNCHANGED <<leftover, progress, lineage, errors,
                   cur, buffer, arrow, open, emailsInFile>>

\* add_email below both limits: the e-mail stays in memory.
KeepBuffered ==
    /\ call = "add"
    /\ ~FlushDue
    /\ call' = "lineage"
    /\ UNCHANGED <<disk, cur, buffer, arrow, open, emailsInFile, synced, faults>>

\* flush: create the file if none is open, drain the buffer into it.
FlushBatch(next) ==
    /\ open' = TRUE
    /\ arrow' = arrow \o buffer
    /\ synced' = buffer
    /\ buffer' = <<>>
    /\ call' = next
    /\ UNCHANGED <<disk, cur, emailsInFile, faults>>

Flush ==
    /\ call = "add"
    /\ FlushDue
    /\ \/ FlushBatch(IF RotationDue THEN "rotate" ELSE "commit")
       \/ /\ ~open                  \* init_writer fails, the buffer is kept
          /\ Fault("create")
          /\ leftover' \in {leftover, TRUE}
          /\ call' = "failed"
          /\ UNCHANGED <<stored, progress, lineage, errors,
                         cur, buffer, arrow, open, emailsInFile, synced>>
       \/ /\ Fault("write")         \* the drained batch is lost
          /\ open' = TRUE
          /\ buffer' = <<>>
          /\ call' = "failed"
          /\ UNCHANGED <<disk, cur, arrow, emailsInFile, synced>>

\* rotate_file: the footer is written and the next flush opens a new file.
Rotate ==
    /\ call = "rotate"
    /\ \/ /\ FinishFile
          /\ emailsInFile' = 0
          /\ call' = "commit"
          /\ UNCHANGED <<leftover, synced, faults>>
       \/ /\ Fault("close")         \* the ArrowWriter was taken: rows are lost
          /\ leftover' = TRUE
          /\ open' = FALSE
          /\ arrow' = <<>>
          /\ synced' = <<>>
          /\ call' = "failed"
          /\ UNCHANGED <<stored, emailsInFile>>
    /\ UNCHANGED <<progress, lineage, errors, cur, buffer>>

\* One turn of the loop over the committed e-mails: progress.update(id)?.
CommitProgress ==
    /\ call = "commit"
    /\ \/ /\ SaveProgress(Head(synced))
          /\ synced' = Tail(synced)
          /\ call' = IF Len(synced) = 1 THEN "lineage" ELSE "commit"
          /\ UNCHANGED faults
       \/ /\ Fault("progress")
          /\ synced' = <<>>
          /\ call' = "failed"
          /\ UNCHANGED progress
    /\ UNCHANGED <<stored, leftover, lineage, errors,
                   cur, buffer, arrow, open, emailsInFile>>

\* data_lineage.update(email_id), the end of archive_email.
AppendLineage ==
    /\ call = "lineage"
    /\ \/ /\ lineage' = lineage \cup {cur}
          /\ call' = "idle"
          /\ UNCHANGED faults
       \/ /\ Fault("lineage")
          /\ call' = "failed"
          /\ UNCHANGED lineage
    /\ cur' = 0
    /\ UNCHANGED <<stored, leftover, progress, errors,
                   buffer, arrow, open, emailsInFile, synced>>

\* Faulty variant: the failure is shown to the user and not recorded.
ShowError(id) ==
    /\ call = "idle" /\ id \in Ids
    /\ UNCHANGED awVars

\* log_error(id): a failure to append is only logged.
LogError(id) ==
    /\ call = "idle"
    /\ \/ errors' = errors \cup {id} /\ UNCHANGED faults
       \/ Fault("errorlog") /\ UNCHANGED errors
    /\ UNCHANGED <<stored, leftover, progress, lineage, memory>>

-----------------------------------------------------------------------------
\* Drop: email_store.close(), then the progress of the last e-mail it flushed.
BeginDrop ==
    /\ call \in {"idle", "failed"}
    /\ call' = "closing"
    /\ cur' = 0
    /\ UNCHANGED <<disk, buffer, arrow, open, emailsInFile, synced, faults>>

\* Faulty variant: the store is dropped without close().
DropUnclosed ==
    /\ call = "closing"
    /\ leftover' = (leftover \/ open)
    /\ Release
    /\ UNCHANGED <<stored, progress, lineage, errors, faults>>

CloseFlush ==
    /\ call = "closing"
    /\ \/ buffer # <<>> /\ FlushBatch("footer")
       \/ /\ buffer = <<>> /\ open
          /\ call' = "footer"
          /\ UNCHANGED <<disk, cur, buffer, arrow, open, emailsInFile, synced, faults>>
       \/ buffer = <<>> /\ ~open /\ Release /\ UNCHANGED <<disk, faults>>
       \/ /\ buffer # <<>>
          /\ \/ ~open /\ Fault("create") /\ leftover' \in {leftover, TRUE}
             \/ Fault("write") /\ leftover' = TRUE
          /\ Release
          /\ UNCHANGED <<stored, progress, lineage, errors>>

CloseFooter ==
    /\ call = "footer"
    /\ \/ /\ FinishFile
          /\ call' = "save"
          /\ UNCHANGED <<leftover, cur, buffer, emailsInFile, synced, faults>>
       \/ /\ Fault("close")
          /\ leftover' = TRUE
          /\ Release
          /\ UNCHANGED <<stored>>
    /\ UNCHANGED <<progress, lineage, errors>>

SaveLast ==
    /\ call = "save"
    /\ \/ /\ synced # <<>>
          /\ SaveProgress(Last(synced))
          /\ UNCHANGED faults
       \/ synced = <<>> /\ UNCHANGED <<progress, faults>>
       \/ /\ synced # <<>>          \* "let _ =" drops the error
          /\ Fault("progress")
          /\ UNCHANGED progress
    /\ Release
    /\ UNCHANGED <<stored, leftover, lineage, errors>>

\* The process is killed: an open file stays behind without its footer.
Crash ==
    /\ Fault("crash")
    /\ leftover' = (leftover \/ open)
    /\ Release
    /\ UNCHANGED <<stored, progress, lineage, errors>>

\* The steps a writer takes by itself once a call or its Drop has begun.
WriterStep ==
    \/ WriteRaw \/ KeepBuffered \/ Flush \/ Rotate
    \/ CommitProgress \/ AppendLineage
    \/ CloseFlush \/ CloseFooter \/ SaveLast

\* Any caller: e-mails in any order, a drop or a crash at any point.
AWNext ==
    \/ New
    \/ \E id \in Ids : AddEmail(id)
    \/ \E id \in Ids : LogError(id)
    \/ BeginDrop
    \/ WriterStep
    \/ call # "none" /\ Crash

AWSpec == AWInit /\ [][AWNext]_awVars

-----------------------------------------------------------------------------
(* Properties *)

\* The variables keep their types; the progress is the number of an e-mail
\* or 0, whatever a fault interrupts.
TypeOK ==
    /\ stored \subseteq Ids /\ lineage \subseteq Ids /\ errors \subseteq Ids
    /\ leftover \in BOOLEAN /\ open \in BOOLEAN
    /\ progress \in 0 .. MaxId /\ cur \in 0 .. MaxId
    /\ call \in Calls
    /\ buffer \in Seq(Ids) /\ arrow \in Seq(Ids) /\ synced \in Seq(Ids)
    /\ emailsInFile \in Nat
    /\ faults \in 0 .. MaxFaults

\* A batch is committed together with its file: a raw e-mail is a file, and a
\* parquet file of at most the cap is a single row group.
FilePerBatch == WriteMode = "raw" \/ MaxPerFile \in 1 .. RowGroupCap

\* The e-mail __progress.yaml names can be read from a finished file, after
\* a kill or an I/O error too (archive_email and Drop order the file before
\* the progress).  It takes FilePerBatch to hold, and parquet mode, as
\* fetching an e-mail again in raw mode truncates its file first.
ProgressStored == progress # 0 => progress \in stored

=============================================================================
