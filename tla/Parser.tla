-------------------------------- MODULE Parser --------------------------------
(***************************************************************************)
(* mlh_parser: one run reads the directory of every list, parses the       *)
(* e-mails batch by batch and writes, per list, dataset/list=L/            *)
(* list_data.parquet and errors/list=L/errors.csv, and at the end          *)
(* lineage/lineage.parquet from all __lineage.yaml files.                  *)
(*                                                                         *)
(* The archiver works in the same directories, at the same time if the     *)
(* operator wants so; it is here only what the parser sees of it: data     *)
(* files that appear and are finished later or never (ArchiveWriter models *)
(* how), and the __lineage.yaml file, a sequence of pieces of text.  Any   *)
(* of the two programs may be killed, any write may fail; the operator may *)
(* delete an unfinished file and run the parser again.                     *)
(*                                                                         *)
(* An e-mail is its number in its list; Bad are those parse_email refuses. *)
(* File names sort in the order of creation: true of data_000 .. data_999, *)
(* and of N.eml below ten.  collect_email_files and the BufWriter of       *)
(* errors.csv swallow their errors; these are faults of their own here.    *)
(***************************************************************************)
EXTENDS Integers, Sequences, SequencesExt, FiniteSets

CONSTANTS
    Lists,
    Count,        \* e-mails the source has of each list (bound)
    Held,         \* how many are in a finished file when the behaviour begins
    Bad,          \* set of <<list, number>>: parse_email returns an error
    MaxBatch,     \* BATCH_MAX_RECORDS
    MaxFaults     \* kills and I/O errors in a behaviour (bound)

ASSUME ParserAssumption ==
    /\ Count \in [Lists -> Nat]
    /\ Held \in Nat
    /\ Bad \subseteq Lists \X Nat
    /\ MaxBatch \in Nat \ {0}
    /\ MaxFaults \in Nat

\* A list is a subdirectory of the input directory.
ASSUME ListsAssumption == IsFiniteSet(Lists)

VARIABLES
    files,      \* the data files of each list, in the order of their names
    lineage,    \* __lineage.yaml of each list, a sequence of pieces
    next,       \* the next e-mail the archiver fetches
    owed,       \* the e-mail stored whose lineage is still to be written, or 0
    failOnError,\* fail_on_parsing_error of the last run
    run,        \* "idle", "lists" (the rayon scope) or "lineage"
    exit,       \* exit status of the last run: "none" yet, "ok" or "failed"
    task,       \* process_mailing_list of each list
    partial,    \* ghost: lists of which some listing has missed a file
    dataset,    \* list_data.parquet of each list
    errors,     \* the lines of errors.csv of each list
    provenance, \* lineage.parquet
    faults      \* faults so far

archive == <<files, lineage, next, owed>>
outputs == <<dataset, errors, provenance>>
pvars   == <<archive, failOnError, run, exit, task, partial, outputs, faults>>

\* Stands among the e-mails for a file that cannot be read.
Unreadable == 0

\* A piece of __lineage.yaml.
Piece(kind, id) == [kind |-> kind, id |-> id]
Absent  == [state |-> "absent", rows |-> <<>>]
Opened  == [state |-> "open", rows |-> <<>>]

\* A file opened for writing that can be read once it is closed.
OutFiles == [state : {"absent", "open", "done"}, rows : Seq(Nat)]

\* missed are the files the listing did not show, pending the lines in the
\* BufWriter of errors.csv, and after the return those it never wrote.
NoTask == [phase |-> "off", listed |-> 0, missed |-> {}, taken |-> 0, batch |-> <<>>,
           pending |-> <<>>, opened |-> FALSE, errOpened |-> FALSE]

\* Faulty variant: a list that failed is waited for.
EndedWell(l) == task[l].phase \in {"ok", "empty"}

Ended(l) == task[l].phase \in {"ok", "empty", "failed"}

Fault == faults < MaxFaults /\ faults' = faults + 1

(***************************************************************************)
(* The archiver, as the parser sees it.                                    *)
(***************************************************************************)

\* The file the archiver is writing to is the last one, if unfinished.
Writing(l) == files[l] # <<>> /\ Last(files[l]).state = "open"

\* flush: into the open data file or a new one (an .eml file is one that is
\* finished with its first e-mail).
Store(l) ==
    /\ owed[l] = 0
    /\ next[l] <= Count[l]
    /\ files' = [files EXCEPT ![l] =
         IF Writing(l)
           THEN [files[l] EXCEPT ![Len(files[l])].rows = Append(@, next[l])]
           ELSE Append(@, [rows |-> <<next[l]>>, state |-> "open"])]
    /\ owed' = [owed EXCEPT ![l] = next[l]]
    /\ next' = [next EXCEPT ![l] = @ + 1]
    /\ UNCHANGED <<lineage, failOnError, run, exit, task, partial, outputs, faults>>

\* append_yaml_to_file: the separator only if the file is not empty.
Appended(l, piece) ==
    [lineage EXCEPT ![l] = @ \o (IF @ = <<>> THEN <<>> ELSE <<Piece("sep", 0)>>) \o piece]

\* DataLineageWriter::update
RecordLineage(l) ==
    /\ owed[l] # 0
    /\ lineage' = Appended(l, <<Piece("record", owed[l])>>)
    /\ owed' = [owed EXCEPT ![l] = 0]
    /\ UNCHANGED <<files, next, failOnError, run, exit, task, partial, outputs, faults>>

\* rotate_file and close: the footer makes the file readable.
Finish(l) ==
    /\ Writing(l)
    /\ files' = [files EXCEPT ![l][Len(files[l])].state = "done"]
    /\ UNCHANGED <<lineage, next, owed, failOnError, run, exit, task, partial, outputs, faults>>

\* Killed on the list: the file being written is never finished, its rows
\* are fetched again as far as the progress file does not cover them, and
\* the record being written is missing, cut at a line end, or torn.
ArchiverKilled(l) ==
    /\ Fault
    /\ Writing(l) \/ owed[l] # 0
    /\ files' = IF Writing(l)
         THEN [files EXCEPT ![l][Len(files[l])].state = "dead"] ELSE files
    /\ \/ UNCHANGED lineage
       \/ /\ owed[l] # 0
          /\ \E rest \in {<<>>, <<Piece("cut", 0)>>, <<Piece("torn", 0)>>} :
               lineage' = Appended(l, rest)
    /\ \E n \in {next[l]} \cup Range(Last(files[l]).rows) :
         next' = [next EXCEPT ![l] = n]
    /\ owed' = [owed EXCEPT ![l] = 0]
    /\ UNCHANGED <<failOnError, run, exit, task, partial, outputs>>

\* What a reader has of a file that is not there.
NoFile == [state |-> "done", rows |-> <<>>]

\* The operator deletes the file a killed archiver left, between two runs;
\* its place stays, so that the others keep theirs.
RemoveDead(l) ==
    /\ run = "idle"
    /\ \E k \in DOMAIN files[l] :
         /\ files[l][k].state = "dead"
         /\ files' = [files EXCEPT ![l][k] = NoFile]
    /\ UNCHANGED <<lineage, next, owed, failOnError, run, exit, task, partial, outputs, faults>>

(***************************************************************************)
(* Reading: MultiFileEmailReader yields the rows of the files one after    *)
(* the other, and one error for a file without footer.                     *)
(***************************************************************************)
ItemsOf(f) == IF f.state = "done" THEN f.rows ELSE <<Unreadable>>

Items(fs) == FlattenSeq([k \in DOMAIN fs |-> ItemsOf(fs[k])])

Seen(fs, missed) == [k \in DOMAIN fs |-> IF k \in missed THEN NoFile ELSE fs[k]]

\* The items of the files the task of the list knows of.
Listed(l) == Items(SubSeq(Seen(files[l], task[l].missed), 1, task[l].listed))

Remaining(l) == LET items == Listed(l) IN SubSeq(items, task[l].taken + 1, Len(items))

\* The e-mails of rows that parse, and those that do not, in their order.
Good(l, rows) ==
    FlattenSeq([k \in DOMAIN rows |-> IF <<l, rows[k]>> \in Bad THEN <<>> ELSE <<rows[k]>>])
Refused(l, rows) ==
    FlattenSeq([k \in DOMAIN rows |-> IF <<l, rows[k]>> \in Bad THEN <<rows[k]>> ELSE <<>>])

(***************************************************************************)
(* The parser.                                                             *)
(***************************************************************************)
StartParser ==
    /\ run = "idle"
    /\ run' = "lists"
    /\ failOnError' \in BOOLEAN
    /\ exit' = "none"
    /\ task' = [l \in Lists |-> [NoTask EXCEPT !.phase = "spawned"]]
    /\ UNCHANGED <<archive, partial, outputs, faults>>

\* collect_email_files: the names, not yet the files.  An error of read_dir,
\* of an entry or of is_file is swallowed: what it hides is not listed.
CollectFiles(l) ==
    /\ task[l].phase = "spawned"
    /\ \E missed \in SUBSET DOMAIN files[l] :
         /\ task' = [task EXCEPT ![l].phase = "reading", ![l].listed = Len(files[l]),
                                 ![l].missed = missed]
         /\ IF missed = {} THEN UNCHANGED <<partial, faults>>
                           ELSE Fault /\ partial' = partial \cup {l}
    /\ UNCHANGED <<archive, failOnError, run, exit, outputs>>

\* Faulty variant: what was written so far is closed before the error.
FailClosing(l) == task' = [task EXCEPT ![l].phase = "closing", ![l].batch = <<>>]

Fail(l) == task' = [task EXCEPT ![l] = [NoTask EXCEPT !.phase = "failed"]]

\* error_writer is dropped: the BufWriter writes out its k first lines; a
\* write error behind them is swallowed.
DropWriter(l, k) ==
    /\ k \in 0 .. Len(task[l].pending)
    /\ errors' = [errors EXCEPT ![l] = @ \o SubSeq(task[l].pending, 1, k)]
    /\ IF k = Len(task[l].pending) THEN UNCHANGED faults ELSE Fault

\* Faulty variant: only the first item of a batch is looked at.
HasErrorFirst(batch) == batch[1] = Unreadable

HasError(batch) == Contains(batch, Unreadable)

\* take(max_records_per_batch), then rows.push(r?)
TakeBatch(l) ==
    LET rest  == Remaining(l)
        batch == SubSeq(rest, 1, IF Len(rest) < MaxBatch THEN Len(rest) ELSE MaxBatch)
    IN  /\ task[l].phase = "reading"
        /\ batch # <<>>
        /\ IF HasError(batch)
             THEN Fail(l) /\ \E k \in 0 .. Len(task[l].pending) : DropWriter(l, k)
             ELSE /\ task' = [task EXCEPT ![l].phase = "batch",
                                          ![l].batch = batch,
                                          ![l].taken = @ + Len(batch)]
                  /\ UNCHANGED <<errors, faults>>
        /\ UNCHANGED <<archive, failOnError, partial, run, exit, dataset, provenance>>

\* Faulty variant: the list ends only when a whole batch does not parse.
StopsAtAll(l, refused) == failOnError /\ refused = task[l].batch

\* Faulty variant: the lines of the last run are kept.
LinesKept(l) == errors[l]

LinesSoFar(l) == IF task[l].errOpened THEN errors[l] ELSE <<>>

StopsAt(l, refused) == failOnError /\ refused # <<>>

\* An e-mail that does not parse ends the list, or is a line for errors.csv,
\* which the first line of a run truncates; as many lines are written as no
\* longer fit the buffer.
RecordErrors(l) ==
    LET refused == Refused(l, task[l].batch)
        lines   == task[l].pending \o refused
    IN  /\ task[l].phase = "batch"
        /\ \/ StopsAt(l, refused) /\ Fail(l) /\ UNCHANGED errors
           \/ /\ refused = <<>>
              /\ task' = [task EXCEPT ![l].phase = "flush"]
              /\ UNCHANGED errors
           \/ /\ refused # <<>> /\ ~StopsAt(l, refused)
              /\ \E k \in 0 .. Len(lines) :
                   /\ errors' = [errors EXCEPT ![l] = LinesSoFar(l) \o SubSeq(lines, 1, k)]
                   /\ task' = [task EXCEPT ![l].phase = "flush", ![l].errOpened = TRUE,
                                           ![l].pending = SubSeq(lines, k + 1, Len(lines))]
        /\ UNCHANGED <<archive, failOnError, partial, run, exit, dataset, provenance, faults>>

\* flush_batch: the first one truncates list_data.parquet.
FlushBatch(l) ==
    LET good == Good(l, task[l].batch)
    IN  /\ task[l].phase = "flush"
        /\ dataset' = IF good = <<>> THEN dataset
              ELSE [dataset EXCEPT ![l] =
                      [Opened EXCEPT !.rows =
                         (IF task[l].opened THEN dataset[l].rows ELSE <<>>) \o good]]
        /\ task' = [task EXCEPT ![l].phase = "reading", ![l].batch = <<>>,
                                ![l].opened = @ \/ good # <<>>]
        /\ UNCHANGED <<archive, failOnError, partial, run, exit, errors, provenance, faults>>

EndOfInput(l) ==
    /\ task[l].phase = "reading"
    /\ Remaining(l) = <<>>
    /\ task' = [task EXCEPT ![l].phase = IF task[l].opened THEN "closing" ELSE "leaving"]
    /\ UNCHANGED <<archive, failOnError, partial, run, exit, outputs, faults>>

CloseDataset(l) ==
    /\ task[l].phase = "closing"
    /\ dataset' = [dataset EXCEPT ![l].state = "done"]
    /\ task' = [task EXCEPT ![l].phase = "leaving"]
    /\ UNCHANGED <<archive, failOnError, partial, run, exit, errors, provenance, faults>>

LinesLost(l, k) == SubSeq(task[l].pending, k + 1, Len(task[l].pending))

\* process_mailing_list returns Ok, with or without a dataset, and nobody
\* looks at what became of the lines.
ReturnOk(l) ==
    /\ task[l].phase = "leaving"
    /\ \E k \in 0 .. Len(task[l].pending) :
         /\ DropWriter(l, k)
         /\ task' = [task EXCEPT ![l].phase = IF task[l].opened THEN "ok" ELSE "empty",
                                 ![l].pending = LinesLost(l, k)]
    /\ UNCHANGED <<archive, failOnError, partial, run, exit, dataset, provenance>>

\* The lines of errors.csv when a list fails on its way: k of those that
\* were in the buffer or on their way into it.
LinesLeft(l) ==
    LET refused == Refused(l, task[l].batch)
        lines   == task[l].pending \o refused
    IN  {errors[l] \o SubSeq(task[l].pending, 1, k) : k \in 0 .. Len(task[l].pending)} \cup
        (IF task[l].phase = "batch" /\ ~failOnError /\ refused # <<>>
           THEN {LinesSoFar(l) \o SubSeq(lines, 1, k) : k \in 0 .. Len(lines)} ELSE {})

\* An I/O error: the files the list was writing stay as they are, and the
\* file it was about to create may exist, empty.
TaskFails(l) ==
    /\ Fault
    /\ task[l].phase \in {"reading", "batch", "flush", "closing"}
    /\ Fail(l)
    /\ \E lines \in LinesLeft(l) : errors' = [errors EXCEPT ![l] = lines]
    /\ \/ UNCHANGED dataset
       \/ /\ task[l].phase = "flush" /\ ~task[l].opened
          /\ Good(l, task[l].batch) # <<>>
          /\ dataset' = [dataset EXCEPT ![l] = Opened]
    /\ UNCHANGED <<archive, failOnError, partial, run, exit, provenance>>

\* The scope ends when every task has; a panic in one is raised only now.
JoinLists ==
    /\ run = "lists"
    /\ \A l \in Lists : Ended(l)
    /\ IF failOnError /\ \E l \in Lists : task[l].phase = "failed"
         THEN run' = "idle" /\ exit' = "failed"
         ELSE run' = "lineage" /\ UNCHANGED exit
    /\ UNCHANGED <<archive, failOnError, task, partial, outputs, faults>>

\* Faulty variant: the file is read as one document.
FirstRecord(log) == IF log = <<>> THEN {} ELSE {log[1].id}

\* split("\n---\n"): a torn record swallows the separator and the record
\* behind it, and serde refuses the two together.
RecordsOf(log) ==
    {log[k].id : k \in {j \in DOMAIN log :
        log[j].kind = "record" /\ ~(j > 2 /\ log[j - 2].kind = "torn")}}

Readable == UNION {{l} \X RecordsOf(lineage[l]) : l \in Lists}

ParseLineage ==
    /\ run = "lineage"
    /\ provenance' = IF Readable = {} THEN provenance
                     ELSE [state |-> "done", records |-> Readable]
    /\ run' = "idle"
    /\ exit' = "ok"
    /\ UNCHANGED <<archive, failOnError, task, partial, dataset, errors, faults>>

\* lineage.parquet is truncated at the first record.
LineageFails ==
    /\ Fault
    /\ run = "lineage"
    /\ Readable # {}
    /\ provenance' = [state |-> "open", records |-> {}]
    /\ run' = "idle"
    /\ exit' = "failed"
    /\ UNCHANGED <<archive, failOnError, task, partial, dataset, errors>>

\* The lines of errors.csv still in a BufWriter are lost with the task.
ParserKilled ==
    /\ Fault
    /\ run # "idle"
    /\ run' = "idle"
    /\ exit' = "failed"
    /\ task' = [l \in Lists |-> NoTask]
    /\ \/ UNCHANGED provenance
       \/ /\ run = "lineage" /\ Readable # {}
          /\ provenance' = [state |-> "open", records |-> {}]
    /\ UNCHANGED <<archive, failOnError, partial, dataset, errors>>

ParserInit ==
    /\ files = [l \in Lists |-> IF Held = 0 THEN <<>>
         ELSE <<[state |-> "done", rows |-> [k \in 1 .. Held |-> k]]>>]
    /\ lineage = [l \in Lists |-> [k \in 1 .. 2 * Held - 1 |->
         IF k % 2 = 0 THEN Piece("sep", 0) ELSE Piece("record", (k + 1) \div 2)]]
    /\ next = [l \in Lists |-> Held + 1]
    /\ owed = [l \in Lists |-> 0]
    /\ failOnError = FALSE
    /\ run = "idle"
    /\ exit = "none"
    /\ task = [l \in Lists |-> NoTask]
    /\ partial = {}
    /\ dataset = [l \in Lists |-> Absent]
    /\ errors = [l \in Lists |-> <<>>]
    /\ provenance = [state |-> "absent", records |-> {}]
    /\ faults = 0

ListStep(l) ==
    \/ CollectFiles(l) \/ TakeBatch(l) \/ RecordErrors(l) \/ FlushBatch(l)
    \/ EndOfInput(l) \/ CloseDataset(l) \/ ReturnOk(l)

ParserNext ==
    \/ StartParser \/ JoinLists \/ ParseLineage \/ LineageFails \/ ParserKilled
    \/ \E l \in Lists :
         \/ Store(l) \/ RecordLineage(l) \/ Finish(l) \/ ArchiverKilled(l)
         \/ RemoveDead(l) \/ ListStep(l) \/ TaskFails(l)
=============================================================================
