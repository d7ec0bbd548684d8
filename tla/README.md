# MailingListsHeritage in TLA+

TLA+ models of the programs of this repository: the mailing list archiver
(`src/mlh_archiver`), the parser (`src/mlh_parser`), the anonymizer
(`src/anonymizer`) and the decisions of the check tools (`src/scripts`); the TLC
configurations that check them on small instances; and TLAPS proofs of what
matters most for every instance. Source paths below are relative to
`src/mlh_archiver/src/` unless they say otherwise.

## Inventory of the system

The pipeline is archiver → parser → anonymizer → analysis; each stage reads
the directory the stage before it wrote. The archiver runs for long, is stopped
and resumed, and has threads that share a channel and, in range mode, a
directory. Parser and anonymizer are started by hand, work on one list per
thread, and share nothing but directories with each other and the archiver;
nothing keeps two of the programs from running at the same time.

| Component | State | Operations | Who it talks to |
|---|---|---|---|
| Archive writer (`archive_writer/`) | on disk: `data_NNN.parquet` or `{id}.eml`, `__progress.yaml`, `__lineage.yaml`, `__errors.csv`; in memory: buffer, open ArrowWriter, e-mail count | `new`, `archive_email`, `log_error`, `last_processed_id`, `Drop` | owned by one worker per visit of a list |
| NNTP worker (`nntp_source/nntp_worker.rs`) | connection, `needs_reconnection`, the article loop | `consumme_list`, `handle_group`, `read_new_mails`, `read_email_by_index` | channel, news server, archive writer, shutdown flag |
| Public-inbox worker (`public_inbox_source/pi_worker.rs`, `pi_utils.rs`) | the counters of one walk over the epochs | `process_inbox`, `process_epoch`, `read_email_by_index`, `detect_inbox`, `find_epochs`, `find_email_by_id` | channel, git repositories, archive writer, shutdown flag |
| Scheduler (`scheduler.rs`, `lib.rs`, `main.rs`) | bounded channel, threads, shutdown flag | `run`, two producers, two worker loops, Ctrl+C | all workers |
| Configuration, list selection, listers (`config.rs`, `range_inputs.rs`, `worker.rs`, `*_lister.rs`) | the saved selection | `get_read_lists`, `expand_glob_patterns`, `parse_sequence`, `start` | user, source |
| Parser (`src/mlh_parser/src/lib.rs`, `email_file_reader.rs`, `dataset_writer.rs`) | per list: current batch, the open dataset and error file | `start`, `process_mailing_list` | archive directory, dataset |
| Lineage parser (`src/mlh_parser/src/lineage_parser.rs`) | `lineage.parquet` | `parse_lineage` | the `__lineage.yaml` of all lists |
| E-mail parsing (`extractors.rs`, `email_parser.rs`, `date_parser.rs`, `address_parser.rs`, `mailmap.rs` of the parser) | none | tags, trailers, patches, date, sender, recipients, canonical addresses of one e-mail | parser |
| Anonymizer (`src/anonymizer`) | per list: place in the dataset, two output files | `process_mailing_list`, `anonymize_dataframe` | dataset |
| `check_git`, `check_nntp` (`src/scripts`) | page, connection | `browse_inbox`, `batch_mode` | mirror, news server, user |
| Analysis (`src/analysis`), telemetry, deployment files | none | queries, logging | dataset |

What is hard here, and which properties answer it:

* **Crashes and I/O errors between two files.** An e-mail, the progress and the
  lineage are different files, written one after the other, with rows buffered
  in memory and in a parquet file that is unreadable until its footer is
  written. → `ProgressStored`, `NoLostEmail`, `LossBounded`, `LossVisible`,
  `CleanStop`.
* **Resuming.** A run starts from a number saved by an earlier one, on a server
  that grew and expired articles meanwhile, or in git epochs that grew.
  → `NoLostEmail`, `ProgressMonotone`, `RefetchOnlyLast`,
  `EventuallySettled`, `PlainRunComplete`, `PlainRunOnce`, `NumbersUnique`.
* **Threads.** A blocking bounded channel, workers that die, a flag that is
  polled. → `ShutdownTerminates`, `OneShotTerminates`, `AllStarted`,
  `AtMostOnce`, `LateWorkBounded`, `OneWorkerPerList`, `ListsApart`.

* **Several writers in one directory.** In range mode every worker makes a
  writer of its own, for one e-mail, in the same directory: file names are
  chosen before they are taken, `.eml` files are truncated before they are
  written, and the progress file is overwritten by whoever comes last, without
  truncation. → `StoredReadable`, `ProgressStored`, `NoSilentMiss`, `RunEnds`.
* **Programs that overlap.** The parser lists and reads files the archiver is
  still adding to, or never finished; the anonymizer opens a dataset again and
  again while the parser may replace it. → `Accounted`, `OutputsAreSnapshots`,
  `MapMatchesData`, `ProvenanceLossBounded`, `RunsEnd`.
* **Errors that are only logged.** Of a list, of a batch, of an index.
  → `ExitTellsTruth`, `NoSilentMiss`, `SelectionSound`.
* **Errors that are swallowed.** By `Drop` of a writer, by a `BufWriter` nobody
  flushes, by the listing of a directory: the return value says Ok, and the
  properties say what may be missing then and nothing else. → `NoSilentMiss`,
  `Accounted`, `ExitTellsTruth`, `OutputsAreSnapshots`.
* **Text and numbers that meet in every order.** Wrapped tags, addresses that
  lost their brackets, wrong clocks, epochs of different lengths, patterns that
  overlap. → `ExtractorsExact`, `HeadersKept`, `IdentitiesKept`,
  `EmailsNumbered`, `InboxesReadable`, `SelectionSound`.

`PROJECT.json` lists these hazards one by one at their lines, and the
components, modelled or not.

## Modules

| Module | Models | State |
|---|---|---|
| `Archive` | what a reader of a list's directory may rely on (abstract) | archived, unavailable, frontier |
| `ArchiveWriter` | `archive_writer/*` | the files, the writer's memory, its place in a call |
| `NntpWorker` (extends `ArchiveWriter`) | `nntp_worker.rs` and the news server | the visit, the group's high and low mark, the flag |
| `Scheduler`, `MCScheduler` | `scheduler.rs`, the workers' receive loops | threads, channel, flag |
| `PublicInbox`, `MCPublicInbox` | `pi_worker.rs` | epochs, the walk's counters, the archive |
| `RangeMode`, `MCRange` | `read_email_by_index` of both workers, with the writers it makes | workers and the one directory they share |
| `Parser` (extends nothing of the archiver; it has what is seen of it) | `mlh_parser`: runs, lists, batches, output files, lineage | archive directory, tasks, outputs |
| `Pipeline` (extends `Parser`), `MCPipeline` | the anonymizer beside the parser | its tasks and two output files |
| `Subject`, `Body` | `extractors.rs`, `email_reader.rs` | – (operators) |
| `Headers` | `email_parser.rs`, `date_parser.rs`, `address_parser.rs` | – (operators) |
| `Identity` | `mailmap.rs`, `src/anonymizer/src/anonymizer.rs` | – (operators) |
| `Inboxes` | `pi_utils.rs`, `pi_lister.rs`, index arithmetic of `pi_worker.rs`, `check_git` | – (operators) |
| `Selection` | `config.rs`, `range_inputs.rs`, `worker.rs`, `nntp_utils.rs`, `check_nntp` | – (operators) |
| `Iterators` | what `filter`, `sort_by`, `sort` and `enumerate` do to a sequence, for the modules above | – (operators) |
| `Decisions`, `MCDecisions` | the inputs of the six modules above, over constants | topic, input |
| `NntpWorkerProofs` (with the writer's theorems), `SchedulerProofs`, `PublicInboxProofs`, `RangeModeProofs`, `PipelineProofs` | proofs about these modules | – |
| `ParsingProofs` | proofs about `Subject`, `Body` and `Headers` | – |
| `DecisionsProofs` (extends `ParsingProofs`) | proofs about `Identity`, `Inboxes`, `Selection`, and the theorems of `Decisions` | – |
| `Induction` | lemmas on sequences, folds and orderings that the proofs share | – |

### ArchiveWriter

`call` is the writer's place inside `archive_email` (`add`, `rawwrite`,
`rotate`, `commit`, `lineage`) or inside `Drop` (`closing`, `footer`, `save`).
A call is split exactly where it changes the disk, because that is where a kill
(`Crash`) or an I/O error (`Fault(kind)`) separates one file from another;
everything between two effects is one step:

| Code | Action |
|---|---|
| `ArchiveWriter::new` | `New` |
| `archive_email`: `add_email` pushes to the buffer / truncates `{id}.eml` | `AddEmail` |
| `std::fs::write` of the raw store | `WriteRaw` |
| `add_email` below both limits | `KeepBuffered` |
| `flush` with `init_writer` | `Flush` |
| `rotate_file` | `Rotate` |
| the loop of `progress.update(id)?` | `CommitProgress`, one e-mail per step |
| `data_lineage.update` | `AppendLineage` |
| `log_error` | `LogError` |
| `Drop`: `close()` (flush, footer), last `progress.update` | `BeginDrop`, `CloseFlush`, `CloseFooter`, `SaveLast` |

The errors are those of the code: a failed `init_writer` keeps the buffer, a
failed write loses the drained batch, a failed `close` of a file loses the
file, `Drop` swallows errors, an error of `__errors.csv` is only logged. The
fault kinds are the constant `Faults`, their number is bounded by `MaxFaults`.

Abstracted: the content of e-mails, the names `data_NNN` (one writer always
takes a fresh one), and the bytes of `__progress.yaml` (a kill leaves the old or
the new value; that `write_yaml` does not truncate is harmless as long as the
number never gets shorter, which `ProgressMonotone` says of a looping worker.
`RangeMode` models the file where the number does get shorter).

`AWSpec` is the writer under any caller, e-mails in any order and drops at any
point. The theorems about the writer alone are stated for it; the runs check the
writer under its real caller, `NntpWorker`.

### NntpWorker

The worker of a looping archiver: its list comes back whenever it waits for one
(`Recv`). `QueryGroup` is `handle_group` up to the article loop, one
`FetchArticle`/`ArticleUnavailable`/`FetchFails` is one turn of the loop of
`read_new_mails` with all retries of the fetch, `Archived` is the return of
`archive_email`, `DropWriter` and `ReturnFromGroup` the end of the visit. The
writer's own steps are `InWriter`. The environment posts articles (`Post`),
expires them (`Expire`), presses Ctrl+C (`CtrlC`), kills the process (`Kill`)
and starts it again (`Restart`). The server may also refuse an article it has
(`ArticleUnavailable` has no guard on `low`), as NNTP servers do.

### Archive, and the refinement

`Archive` says in three actions what a reader may rely on: e-mails are only
added; the resume point only moves forward, and only over e-mails that are in
the archive or known to be unavailable. `NntpWorker` implements it with
`archived <- stored`, `unavailable <- errors ∪ 1..low-1`,
`frontier <- progress` (`ImplementsArchive`).

### Scheduler

The main thread (`SpawnWorker`, `SpawnProducer`, `JoinAll`), the producer
(`ProducerCheck`, `Send`, `SendFails`, `Rescan`), the workers (`WorkerCheck`,
`Recv`, `RecvClosed`, `FinishTask`, `ReconnectFails`, `Panic`) and Ctrl+C
(`RequestShutdown`) over one bounded channel. A setting (the variable `setting`,
one of the constant `Settings`, never changed) is a configuration: the mode,
`loop_groups`, and the messages of one sweep, each with its list. Normal mode is
`consumme_list` (the flag is read at the top of each turn), range mode the loop
over indexes (it is not). `AllSettings` in `MCScheduler` lists a one-shot run, a
looping run and a range run, so that one run of TLC covers all three. A channel
whose receivers are all gone fails `send`, also one that is blocked; `run` keeps
a receiver of its own until the last worker is spawned. `started` and `late` are
history variables that saturate at 2, which is one more than what is allowed.

### PublicInbox

One commit per e-mail; a commit is its epoch and its age in it. `StartRun` is
`process_inbox` up to the loop over the epochs, `SkipEpoch`/`EnterEpoch` the
two branches at its top (the latter with the first pass of `process_epoch` and
the computation of `new_commits`), `ReachResume`, `PassOld` and `ProcessCommit`
the branches of the second pass, `LeaveEpoch` its end. `StopRun` is Ctrl+C,
`Crash` a kill. The mirror grows between runs (`Push`, `NewEpoch`). The
writer's part is what `ArchiveWriter` shows of it: batches become durable
together with the progress, and what is buffered is lost with the process.

`plain` is a history variable that delimits where the counting of
`process_epoch` is right: a list of one epoch, a complete first run, and at most
one more run that did not find exactly one new commit. `CompleteRun` is the
property as the code intends it; `PlainRunComplete` is the part of it that holds,
and `PI_epochs` and `PI_resume` show two ways in which the rest does not.

### RangeMode

The producer's messages are in `queue`, the indexes of `email_range` in the order
of the text, one of them twice in the instance. A worker takes one (`Recv`), and
`read_email_by_index` runs through `SelectGroup`, `Archive`, the steps of its own
`ArchiveWriter` and `SaveLast`. A call is split wherever it touches the
directory, because nothing keeps the writers of two workers apart: the truncation
and the write of an `.eml`, the choice of a `data_NNN` name and its creation, the
footer, the progress, the lineage. Both sources and both write modes are initial
states of one run, with every set of available indexes and every set of workers.

`files[n].shared` says that two workers had the file open at once; what they
leave is one's rows or an unreadable file (`WriteFooter`). `takers` remembers who
created a file, so that `Collided` can name the e-mails in danger. `SaveProgress`
is `write_yaml` with the tail it leaves: an index shorter by two digits or more
than the longest one ever written makes the file unreadable, and `progress` 0.
The numbers of a public inbox are padded to one width. `ConnectionBreaks`
fails the current index, and every later index of the same worker, as only
`consumme_list` connects again; `PassOver` is what Ctrl+C does to an index.
The I/O errors are in `IoError`: what `archive_email` passes on fails the call
(`ArchiveFails`); an error of `__errors.csv` is only logged as a warning
(`LogFails`); and an error of `close()` or of the last progress update is
swallowed by `Drop`, after the call has decided to return Ok (`CloseFails`,
`SaveFails`). `stored` is an index whose writer met no such error, and `lost`, a
history variable, one that such an error left without a trace. In parquet mode the
e-mail is still in the buffer when `archive_email` fails, so that its drop writes
it although the call reports an error. `StartAgain` is a second run over the same
range, after the end of the first or after a kill, which is a fault. One thing is
left out: `resolve_path` would count from 0 if `read_dir` failed.

### Parser and Pipeline

`Parser` has three parts. *The archive as the parser sees it*: data files of
which the last may be open, finished later (`Finish`) or never (`ArchiverKilled`,
`RemoveDead`), and `__lineage.yaml` as a sequence of records, separators and what
a kill leaves of one. *A run*: `StartParser` starts one task per list, `CollectFiles`
takes the names, `TakeBatch`, `RecordErrors` and `FlushBatch` are one turn of the
loop of `process_mailing_list`, `EndOfInput`, `CloseDataset` and `ReturnOk` its end; an error
of a list is `Fail`. Two errors are swallowed by the code. `CollectFiles` may miss any
files (an error of `read_dir`, of an entry or of `is_file` hides them; an empty listing
is one that missed all): they are in `missed`, and `partial` remembers the list. And
the lines of `errors.csv` go through a `BufWriter` nobody flushes: `pending` are those
in its buffer, of which a batch may write any number, and the drop at the end of the
task (`DropWriter`) writes the rest, or by a fault a part of it, while the task
returns Ok all the same (`LinesLost`). `JoinLists` is the end of the rayon scope and
decides with `fail_on_parsing_error` whether `ParseLineage` still runs. *Failures*:
`TaskFails` (any read or write), `LineageFails`, `ParserKilled`. A deleted file keeps
its place in `files`, with nothing in it (`NoFile`).

A row of a dataset is the number of its e-mail; an e-mail parses or does not
(`Bad`). An output file is `absent`, `open` (no footer) or `done`; the first flush
of a run truncates the one of the run before.

`Pipeline` adds the anonymizer: `CountRows`, then `AnonymizeSlice` until the count
is reached, each opening the dataset as it is *now*, then `FinishData` and
`FinishMap`. Its `Next` interleaves the three programs freely.

### The modules of operators

These model text and number functions by the *kinds* of things they tell apart:
a subject is a sequence of tokens, a body a sequence of kinds of lines, a date
header its style, digits and zone, an address list boxes with or without a name,
an address and a stray bracket. What a regular expression matches is a
statement about kinds, what the code then keeps, joins, drops or picks is
translated. The properties are reference definitions that do not follow the code's
path; where the code departs from a comment of its own they say what it does, name
the case in their comment, and the divergences below quote the line.

`Inboxes.Walk` is a complete walk, of a list no run has archived anything of and
without the cut by `new_commits`; that the cut leaves out too much is what
`PublicInbox` models and `PI_epochs` shows. The identifiers a real run writes are
those of `Walk` with the same numbers, or fewer.

`Decisions` feeds them their inputs: a behaviour picks a topic (a function and what
it reads) and appends one item after the other, so that its states are the inputs.
Items and lengths are constants. TLC takes those of `MCDecisions` and so sees every
input up to a length; the theorems hold for all values of the constants that
satisfy the assumptions of `Decisions`, which say what an item of each topic is and
nothing about how many there are. (Of the names of epochs there are only those of
`TextOrder`, because "the epoch's number" and "the order of the names" are tables
there; how many commits an epoch has is free.)

| Module | Properties (conjuncts of the run's invariants) |
|---|---|
| `Subject` | the tags are exactly the leading run of tags; `Re:` in front changes nothing but the response flag |
| `Body` | every trailer and `Fixes:` tag above the signature once, wrapped or not, but for the wrapped ones the code loses (`LostWrapped`); every diff in one patch |
| `Headers` | how far a wrong clock moves a date most clocks agree on; the sender has a name if anyone has; no recipient lost, doubled or moved, on either way the header is read |
| `Identity` | canonical addresses at the position of their trailer; no address that is bare or in brackets left in the identity columns, exactly which others stay (`StraysLeft`), and how many may be left in a text of lines; one hash per identity |
| `Inboxes` | what the lister offers can be read, also after the mirror went on; range mode and walk number alike; identifiers lead back; pages are a partition |
| `Selection` | a range text is all or nothing; each available list once, and the patterns without one named; a saved choice is restored as far as the server still has it; every source gets a worker; `check_nntp` addresses and batches |

## Runs

TLC checks deadlock except in the `PI_*` runs, where the number of runs over a
list is bounded and the system stops after the last one, and in `Decisions`,
where an input of full length has no successor. The main thread of
`Scheduler` loops in `Terminated` once everything is joined, so that any other
standstill is reported as a deadlock; in `NntpWorker` a stopped worker can always
be restarted.

| Run | Instance | Shows |
|---|---|---|
| `Nntp_parquet` | 3 articles, 2 per file, one fault of any kind, except in writing `__errors.csv` | the progress names a readable e-mail, no article is passed over, a clean stop leaves the files agreeing, the progress never moves back, the refinement of `Archive`, and with a fair worker every article is settled in the end |
| `Nntp_raw` | 3 articles, two faults | no article is passed over and a stop is clean in raw mode |
| `Nntp_batched` | 4 articles, 3 per file over row groups of 2, one fault | how much a fault can lose when a file has several row groups, that a loss leaves an unfinished file, and what is fetched again |
| `Nntp_ahead` (violation of `ProgressStored`) | 3 per file, row groups of 1, a kill | the progress is ahead of the files |
| `Sched_all` | 3 workers of which all may die, 3 settings, channel of 2 | once each, none forgotten, one worker per list, Ctrl+C noticed, termination |
| `Sched_rescan` (violation of `ListsApart`) | 2 workers, a looping run | two workers in one list's directory |
| `PI_walk` | 2 epochs of up to 5 commits, 3 runs, stops and kills, a broken commit | numbers are unique and the progress has the largest; in the plain case a run is complete and archives nothing twice |
| `PI_epochs` (violation of `CompleteRun`) | 2 epochs of up to 4 commits, one undisturbed run | commits of the second epoch are missed |
| `PI_resume` (violation of `CompleteRun`) | 1 epoch of up to 4 commits, 2 runs, one of them stopped | the commits below the resume point are missed |
| `Range` | 1 or 2 workers, messages 100, 100 and 9, both sources and write modes, one broken connection, I/O error or kill, Ctrl+C, one second start | an archived e-mail is lost only if two writers created one file, in parquet mode; the progress names an archived e-mail, and is unreadable only behind a longer NNTP index; an index without a trace was passed over at a shutdown, met an error that is swallowed, or shared its file; the run ends |
| `Pipeline` | 1 list, 4 e-mails of which 3 are there at the start and one does not parse, batches and slices of 2, one fault anywhere, a file missed by a listing and a lost line of `errors.csv` among them | a dataset that can be opened is a whole snapshot, as long as no listing missed a file; a list that ended well is accounted for to the last e-mail it listed, in `errors.csv` or among the lines its drop lost; data and identity map agree; the exit status is true of what was listed; few lineage records are lost; every run ends |
| `Decisions` | every input of items of `MCDecisions` up to the length `MCMaxLength` gives its topic | the reference definitions of the six modules of operators |

`Nntp_batched` was also explored with two faults, with the same result; the
instance of the run is the one that ends within minutes.

### What the violations say

Each violated property is a sentence of the repository; `PROJECT.json`
("findings") quotes it.

* `Nntp_ahead`: with the default `buffer_size` 10000 over row groups of 2048, a
  kill leaves `__progress.yaml` ahead of the readable files. `LossBounded` and
  `LossVisible` say how far, and how an operator can tell.
* `Sched_rescan`: with `loop_groups`, a rescan lets two workers write one list's
  directory. Range mode does so too, by construction of its messages.
* `PI_epochs`, `PI_resume`: the public-inbox walk misses commits in the second
  epoch, and after a stopped run.

Observations made while modelling that have no run of their own, because the
models show them in the shape of an action or of a guarded property:

* `archive_email` writes three files one after the other and its doc calls that
  atomic; the lineage has a buffered e-mail before any file does.
* A visit starts at the last article instead of the one after it
  (`FirstMail`); `RefetchOnlyLast` says that nothing else is fetched twice.
* Range workers never read the shutdown flag (`TopOfLoop`, and the condition of
  `LateWorkBounded`), and a worker's panic is logged but `run` returns Ok.
* After a push of exactly one commit the public-inbox walk archives old commits
  again (excluded by `plain`).

### Divergences noticed in the newer modules

The models follow the code here; where a property would say otherwise it carries
the condition, and the comment of the property names it.

* Range mode: the workers share a directory, although `src/mlh_archiver/README.md:395`
  says no concurrency control is needed. `StoredReadable` confines the damage to parquet
  mode with two writers that took one name, `Sched_rescan` is the counterexample
  of normal mode.
* Range mode: an index taken after Ctrl+C is passed over with Ok and without an
  entry anywhere (`skipped` in `NoSilentMiss`), and after one broken connection a
  worker fails every index it takes.
* Range mode: the one e-mail of a call is written when its writer is dropped, and
  `Drop` swallows the error (`archive_writer/mod.rs:197`): the call has returned Ok,
  and the index is in no file and no log (`lost` in `NoSilentMiss`). So is one whose
  entry in `__errors.csv` could not be written, but for a warning.
* `write_yaml` is documented to append; it overwrites without truncating.
* Public-inbox range mode splits an e-mail into lines and drops the line ends
  (`public_inbox_source/pi_worker.rs:187`).
* An identifier is looked up by an epoch cut at the first `-`, and compared with
  directory names, so that inboxes without epochs, and epochs with a `-` in their
  names, are never found (`LookupFinds`); the epoch "all" panics in the next run
  (`NumbersOrderEpochs`).
* An inbox whose alternates lie outside `git/` is offered and then read as one
  without epochs; a repository of the first layout is not opened before it is
  offered (`ListedIsReadable`).
* Positions of `check_git` are counted from the newest commit over all epochs, not
  as the archiver numbers them.
* Choosing nothing in the prompt of the first run indexes an empty vector
  (`config.rs:507`); a pattern whose lists an earlier pattern took is reported as
  matching nothing (`config.rs:303`).
* If more than half of the dates of an e-mail are equal the median deviation is
  zero, the filter of `select_date` is off (`src/mlh_parser/src/email_parser.rs:302`),
  and the earliest date is chosen, however wrong its clock was (`FilterOff` in
  `MajorityWins`). With the filter on, dates are dropped from 3.5 deviations on, and
  not "farther than 2 days from the median" as the comment at line 271 says: a date
  nearly six days off may still be the one chosen.
* "If found, the two parts are joined" (`src/mlh_parser/src/extractors.rs:455`, of a
  wrapped `Fixes:` tag that `")` closes on the next line): the code searches that line
  for `)"` (line 499). A wrapped tag with a lower-case commit is found all the same,
  because `RE_COPYPASTE` has joined its lines before; one with an upper-case commit is
  lost (`LostWrapped` in `FixesExact`).
* `get_read_lists` is documented to return `ConfiguredListsNotAvailable` if some
  configured lists are invalid (`config.rs:483`). It only warns (lines 535-541) and
  reads the others; it fails only if none is left (`EachListOnce`,
  `SelectionRestored`).
* `anonymize_line` skips an address with a bracket on one side only
  (`src/anonymizer/src/anonymizer.rs:89-94`), as in `Foo <foo@bar.com`. It stays in
  clear text, in the identity columns of the anonymized dataset too, unless a later
  address of the same entry takes it for part of a name (`StraysLeft`).
* `errors.csv` may lack lines of a list that ended well: its `BufWriter` is dropped
  without a flush (`src/mlh_parser/src/lib.rs:170`), and the drop swallows the write
  error (`Accounted`). `collect_email_files` (line 280) swallows the errors of the
  listing: the dataset of such a run lacks e-mails, and with
  `fail_on_parsing_error` too the run exits with 0 (`partial`, `missed`).
* An `errors.csv` of an earlier run stays if this run refuses nothing of the list
  (lines 216-219 create it with the first line): wrong only where one of the two runs
  missed a file (`Accounted`).
* `mailmap.rs` counts characters and slices bytes: an address behind a name
  outside ASCII is cut wrongly, or the parser panics (`bytes` in `Identity`).
* In a text of several lines the anonymizer leaves an address that stands at the
  start of a line, or directly behind another (`LeftOnlyInRow`).
* A group that `check_nntp` cannot select ends the connection, and with it the rest
  of the batch (`BatchStopsAtFailure`).

### Bounds

* Three e-mails with two per file give a full file, a partly filled one and an
  empty buffer; four with three per file over row groups of two give a row
  group that is committed in an open file, which is what the default sizes do.
* One fault is enough to separate any two files; two (raw mode) let a second
  one hit the recovery from the first. `LossBounded` states its bound per fault.
* The channel is smaller than the sweep for every setting, so that the producer
  blocks; three workers that may all die give the cases "some left" and "none
  left" in every state of the producer. `started` and `late` count to 2 only.
* Five commits an epoch give new and old commits before, at and after the
  resume point, and pushes of one to four; two epochs are the least that has a
  commit count to carry over, three runs the least that resumes from a resumed
  run.
* In `Range` one index comes twice, so that two workers write one `.eml` at a
  time, and another is two digits shorter, the least `write_yaml` trips over. A
  race of the directory is between two writers; a third message lets a writer
  come after the race. `Numbers` has a number for each message of each start, so
  no call is refused one. The fault may be of any kind and anywhere, the kill too;
  one is enough, as the properties are about what a single index met.
* In `Pipeline` two batches and two slices are the least with something between
  them, three finished e-mails of which the second is bad give a batch with an
  error and one without, and the fourth is what a live archiver adds. Lists share
  no state in parser and anonymizer but `lineage.parquet` and the exit status,
  which is a conjunction over lists; the constants admit any set of lists. One
  fault separates any two files.
* `MaxLength` in `MCDecisions` is, for each topic, above the reach of its function:
  wrapped lines join two neighbours, merged recipients are two neighbours, a
  majority needs three dates, and one more or two are around them.

### Fairness

`Nntp_parquet` assumes weak fairness of the worker as a whole: its thread runs.
Nothing is assumed of the server, the operator or the faults. Looping mode
brings the list back. `Sched_all` assumes weak fairness of the main thread, of
the producer and of each worker: operating system threads are scheduled, a visit
of a list takes finite time (every wait in it polls the flag or is bounded by
a timeout), and the rescan pause is a bounded sleep. Failures are never fair.

`Pipeline` assumes weak fairness of the steps of a parser or anonymizer that was
started, per list: rayon's threads run. Nobody has to start one, and nothing is
assumed of the archiver. `Range` assumes it of each worker's thread; Ctrl+C, a
broken connection, an I/O error and a second start may happen or not.

## Proofs

TLAPS proves, for every number of e-mails, file size, row group size, number
and kind of faults, every number of workers, list of messages and channel
capacity, every number of epochs, commits and runs, every range with indexes of
any width, every set of lists, batch and slice size, and every subject, body,
header, mailmap, range text and selection of any length, that every invariant
and every action property of every run holds:

| Theorem | Says | Assumes |
|---|---|---|
| `WriterTypes` | `AWSpec => []TypeOK` | – |
| `ProgressNamesStored` | `AWSpec => []ProgressStored` | parquet mode, `FilePerBatch` |
| `NntpTypes` | `Spec => []NntpTypeOK` | – |
| `ProgressNeverBack` | `Spec => ProgressMonotone` | – |
| `NothingLost` | `Spec => []NoLostEmail` | `FilePerBatch`, no fault of `__errors.csv` |
| `WorkerImplementsArchive` | `Spec => ImplementsArchive` | parquet mode and the two above |
| `CleanAtStop` | `Spec => []CleanStop` | – |
| `OnlyLastAgain` | `Spec => RefetchOnlyLast` | – |
| `LossLeavesFile` | `Spec => []LossVisible` | parquet mode, no fault of `__errors.csv` |
| `LossPerFault` | `Spec => []LossBounded` | the same, and files that are rotated |
| `SchedulerTypes` | `Spec => []TypeOK` | – |
| `BegunOnce` | `Spec => []AtMostOnce` | – |
| `NoneForgotten` | `Spec => []AllStarted` | – |
| `OneVisitPerList` | `Spec => []OneWorkerPerList` | `ListsNamedOnce` |
| `OneLateList` | `Spec => []LateWorkBounded` | – |
| `UniqueNumbers` | `Spec => []NumbersUnique` | – |
| `InboxTypes` | `Spec => []TypeOK` of `PublicInbox` | – |
| `PlainComplete` | `Spec => []PlainRunComplete` | – |
| `PlainOnce` | `Spec => []PlainRunOnce` | – |
| `RangeTypes` | `Spec => []TypeOK` of `RangeMode` | – |
| `LossNeedsCollision` | `Spec => []StoredReadable` | – |
| `ProgressNamesStored` (range mode) | `Spec => []ProgressStored` | – |
| `NoIndexIsMissed` | `Spec => []NoSilentMiss` | – |
| `PipelineTypes` | `Spec => []TypeOK` of `Pipeline` | – |
| `ParserAccounts` | `Spec => []Accounted` | – |
| `ExitIsTrue` | `Spec => []ExitTellsTruth` | – |
| `OutputsWhole` | `Spec => []OutputsAreSnapshots` | – |
| `ProvenanceKept` | `Spec => []ProvenanceLossBounded` | – |
| `PairMatches` | `Spec => []MapMatchesData` | – |
| `InboxesAreReadable` | `Spec => []InboxesReadable` of `Decisions` | – |
| `EmailsAreNumbered` | `Spec => []EmailsNumbered` | – |
| `IdentitiesAreKept` | `Spec => []IdentitiesKept` | – |
| `SelectionIsSound` | `Spec => []SelectionSound` | – |
| `HeadersAreKept` | `Spec => []HeadersKept` | – |
| `ExtractorsAreExact` | `Spec => []ExtractorsExact` | – |
| `SendersAreNamed`, `AddressesAreKept`, `PathsDoAgree`, `MajorityDoesWin` | a conjunct of `HeadersKept` each, of every sequence of candidates, parts of a header, dates | – |
| `TagsDoLeadRun`, `RepliesKeepTags`, `FixesAreFound`, `TrailersAreFound`, `PatchesDoPartition` | a conjunct of `ExtractorsExact` each, of every subject and every body | – |
| `RangesWhole`, `ListsOnce`, `ChoicesRestored`, `BatchesStop`, `IndicesFollowWalk`, `IdentifiersLeadBack`, `PagesAreWhole`, `CanonicalsInPlace`, `RowsAnonymous`, `StraysStay`, `ListsEntryByEntry`, `LeftOnlyAtStarts` | the conjuncts of the other invariants of `Decisions` | – |

The theorems of `Decisions` assume only its ASSUMEs, which say of what type the items
are. Some properties carry a condition of their own, which the run has too:
`PathsAgree` that the brackets of the header are balanced, `FixesExact` and
`TrailersExact` that a summary that is broken off ends on the next line,
`MajorityWins` that more than half of three or more dates lie within a day,
`ReplyKeepsTags` that the subject does not start with the bare word patch. The
code does something else without them.

`FilePerBatch` (raw mode, or `buffer_size` of 1 to 2048) is necessary:
`Nntp_ahead` is the counterexample without it. So is a writable
`__errors.csv`: an unavailable article that could not be listed is passed over
and nothing says so. Raw mode is left out of the refinement because fetching the
last article again truncates its file, so `stored` shrinks for a moment. That
the articles are settled in the end is not part of `Archive`, which states safety
only.

`ListsNamedOnce` says that a sweep of normal mode does not name a list twice;
nothing in the scheduler would keep two workers from one list otherwise.

*The archive.* `TypeInv` adds to the types that a call in progress has an e-mail
and a commit has e-mails to commit. `Batches` ties the writer's memory to the
disk: with one row group per file, the ArrowWriter holds rows only between a
flush and the end of the file, and exactly those of `synced`; so when the
progress is saved its e-mails are in a finished file. `Together` ties the
worker's place to the writer's call, which the worker needs to know that a
writer it gets is empty. `Order` says that the loop starts at the progress or
later and counts up, so that buffer and batch are increasing and at or above the
progress: `ProgressMonotone` follows, as each saved number comes from the batch.
`NoGap` strengthens `NoLostEmail` to the memory: every article up to the loop's
is settled or still with the writer, and buffer and batch leave none of theirs
behind; when a batch's file is finished everything up to its last e-mail is
settled, and saving that e-mail's number keeps `NoLostEmail`. The conjunction
`Safe` is inductive. The refinement needs nothing else: a step that changes
`stored` is `Store`, one that lists or expires an article is `GiveUp`, one that
saves the progress is `Advance` by `NoLostEmail'` and `Order`.

Two more invariants stand beside `Safe`, as they need no `FilePerBatch`. `Clean`,
which a fault ends, says that the e-mails on their way to a file are those
of the lineage, up to the one in hand, that those beyond the progress are in
the buffer or in the batch being committed, and that no file is left open: with
the writer gone, lineage, files and progress agree, and a fetch, which is never
below the progress by `Order`, can meet only one stored article, that of the
progress. `Traced` is `NoGap` with the rows of the open file counted as there
(`Filed`); what is at or below the progress and nowhere is `Gone`. No step takes
an article out of the finished and open files (`FiledStays`) except a kill or
error that counts as a fault and leaves the file unfinished (`Loss`), so nothing is
`Gone` while no file was left: that is `LossVisible`. For `LossBounded`, `Rows` counts:
between two calls the open file holds complete row groups, fewer rows than a file
may have, and the progress is among them; only with a batch in progress are there
others, and those are above the progress. What a `Loss` can add to `Gone` are then
the rows of the complete row groups before the last of the file (`AtRisk`), at most
`UnsafeRows`, and `Gone` never grows otherwise: `Bounded` is inductive.

*The scheduler.* `NextInSweep` places the producer in its sweep. `Once` follows a
message in a single sweep: it is ahead of the producer's counter, or queued
once and not begun, or begun once; `Owned` adds that it is with the worker that
took it. `None` is about what is behind the counter: it is queued or begun, and
before Ctrl+C a worker returns only when the producer is done and the channel
empty, which together with `SendFails` (no receiver is left, so all workers
have failed) gives `AllStarted`. `LateInv` is one sentence: who has begun a list
after Ctrl+C is not waiting for another.

*The public-inbox numbers.* `PendingAbove` says that what the process holds is
numbered upwards from the saved progress, so that a kill frees only numbers
nobody has seen; `CountersAhead` that no number is above `global_position`
between two epochs, and none reaches `next_email_num` in one. `commit_count` is at
least the number of e-mails archived in the epoch, so leaving it keeps
`global_position` ahead.

*A plain public-inbox run.* All a run knows of earlier ones is a number and an age,
those of its resume point. `Old` is what they add up to, the age of the newest commit
an earlier run has taken. `Plain` says that the walk, which goes down from the newest
commit, has taken whatever it has passed and whatever is old (`InEpoch`), and that
while it is above the old ones it has counted every commit it passed, so that it stops
counting just where they begin. `FirstRun` is where the sum is right: every e-mail of a
first run is numbered from the newest commit down. `Once` adds that the e-mails are
above the walk or old, and that below `Old` the count is exhausted. The proof
showed what `PlainRunOnce` has to leave out: if the oldest commit holds no e-mail the
last number is one less than the epoch's size, the next run does not skip the epoch,
and it takes the commits above the resume point a second time. (TLC had not met it:
the instance of `PI_walk` has its broken commit elsewhere.)

*Range mode.* `Contiguous` says that the numbers of the files have no gap and that a
name a writer resolved is at most one above them. `FileInv` ties a file to the writers
that created it: its rows are of these, a file two had open was created twice, no writer
creates one again, and who has one open created it. `KeptInv` is then what
`StoredReadable` needs of one e-mail (`Kept`): it is in a finished file or its `.eml`,
or the `.eml` is being written, or its file collided; no step of any worker takes it out
of these (`KeptStays`). `Uncollided` is the case with one worker, where no file is ever
created twice. `TraceInv` says where an index can be: in the queue, with a worker, among
those some step recorded as not stored (`Marked`), in a complete `.eml`, or in a parquet
file or one that collided (`InFile`, which no step ends, the failed `close` of another
writer included: `FileKept`). It also says that before a fault a truncated `.eml`
belongs to a worker that is writing it, and that in raw mode the e-mail of a worker past
the write is complete, marked, or being written again by another. When all workers have
ended these places are those of `NoSilentMiss`. `RangeAssumption`, which the theorems
rest on, says only what the constants are.

*The parser.* `Inv` says of each list, phase by phase, what its files, task and outputs
have to do with each other, and rests on three facts about the archive: files only grow
at the end or lose a dead one, a finished file never changes (`Grows`), and a dead one
is never among those a task got through (`AllDone`). `RunOf` ties the phases of the
lists to the run and its exit status. `StepsMatch` is the loop of
`process_mailing_list`: what a task has taken are the first rows of files that are
finished, `seen` is written, the batch is in hand; the dataset is what parses of `seen`,
and the error lines, those in the buffer among them (`ErrorsAre`), are what does not, of
`seen` and, once they are noted, of the batch. `ToldOf` is the same at the end of the
input, where `Accounted` and, with `fail_on_parsing_error`, `ExitTellsTruth` follow.
`OldOf` is needed because an empty error list is not written: lines of an earlier run
may stay only if this run will write some too, which is so because what was refused once
is still in the archive, and `RemoveDead` waits for the run to end.

A task that missed a file reads the list as if that file were empty (`Seen`), and so does
the argument; what it cannot have is `OldOf` and the next paragraph, which are kept for
the lists outside `partial` (`WholeOf`).

*The datasets.* `SnapOf` says which snapshots the outputs are, and `SlicesOf` what the
anonymizer relies on when the parser replaces the dataset between two slices: snapshots
of a list are beginnings of one another, so whatever file the next slice is read from
continues the last one, if it has as many rows as were counted. It has: `Reach` bounds the
snapshot that was counted by the files the running task has listed, so the dataset
this task will close is not the shorter one: finished files never go away, and a task that
met a dead file closes nothing.

*The lineage.* What a run misses is known only when it reads the lineage files, and the
bound has to hold whenever that is. `Gone` is what can never be found again: the e-mails
of the files that are or may be finished whose record is not readable and not owed any
more, and, as number 0, a torn record at the end of the file, which will swallow the
next one. A kill adds at most two to it (the e-mail it interrupts and that mark); a record
written behind a torn one exchanges the mark for its own e-mail; no other step adds any
(`FewGone`). `Sourced` says that the rows of every dataset, finished or not, are e-mails of
finished files, through `StepsMatch`; so what is missing when the lineage is read is `Gone`,
or the e-mail an archiver has just stored, one per list. That there are finitely many
lists is an assumption of its own (`ListsAssumption`: they are directory entries).

*The anonymizer's two files.* `PairInv` ties both files to the place in the list:
from its first slice on the two are open and hold the same rows, and the data is
closed first. An error between the two writers or a kill ends the run with one of
them open; the next run truncates both before it closes either. As both writers
get the same slice, nothing about the dataset is used, which the parser may have
replaced.

*The functions, in general.* What a function does to inputs of any length is no invariant
of a transition system, and induction over data is not at hand as a theorem with an
operator parameter. The proofs therefore turn each loop into a *function* on states: the
step of a fold becomes a function from states and elements (`StepsOf`), a test becomes a
set, a map a function to sequences (`Maps`); a lemma per loop (`…IsFold`) shows that the
model's fold is the fold of that function, and the lemmas of `Induction` hold for all
functions. What is then left of a loop is an invariant over its states, as in a
transition system. `InputsFit` carries the results over to `Decisions`: its inductive
invariant `Fed` says that an input is a sequence of items of its topic in which no two
epochs, groups or sources have one name.

*Ranges, lists, batches, pages.* `RangesWhole` follows the parts of a text: the fold's
state is the expansion of the parts before it, or the refusal, which is final. For
`ListsOnce` the lists collected after some patterns are exactly those one of them
matches, each once if the server has each once, and a pattern that matches nothing is
kept as unmatched (`Expanded`); for `ChoicesRestored` the exact names of a saved choice
take their own lists, those of them the server still has, and nothing else, and the
sequence that is left does not depend on whether a list is taken out before the choice
or after it. `BatchesStop`: after some groups the batch has shown the matching articles
of those before the first that cannot be selected (`Open`), and is still connected if
there is none (`ShownBy`). The pages of check_git are the quotients of division by the
page size (`Division`, `PagesEnough`), and the pieces in a row are the whole
(`PiecesMakeWhole`). `IndicesFollowWalk` counts commits from both ends of an epoch, over
the sums of the epochs before it; `EpochRank` makes the order of the epochs' names a
comparison of numbers.

*Identities.* The anonymizer's two passes over a line, one for boxes and one for bare
addresses, are folds of one step (`ReplaceOne`).
`ListsEntryByEntry` cuts a line at a separator: the name before an address starts behind
the last one (`NameStartIs`, `SplitBehind`), and `Abreast` runs a pass over the whole line and
over the part behind the separator at the same time and says how the two states correspond.
`LeftOnlyAtStarts` counts the bare addresses left so far (`StillBare`): after each item they
are as many as those read at the start of the line or directly behind another one (`Free`).
`StraysStay` follows each pass over an entry and cuts it behind the last address of the
pass's kind (`Cut`): what is out before the cut is hashes, what is in hand behind it stays.

*Recipients.* Both loops of the address parser, the one that merges neighbours and the one
that cuts the header at commas, keep the invariant that the addresses of what is out
and of what is in hand are those of the parts read: `AddressesKept`. With balanced
brackets the depth is 0 exactly between two boxes, where both loops cut (`PathsDoAgree`).

*Dates.* `Sort` is described by ranks: as many numbers are below or equal to the k-th as
its rank says. If of more than two safe dates more than half lie in the day after t, the
middle one does too (`MiddleInWindow`), so more than half of the distances from it are
at most a day, and so is their median, the deviation (`DeviationIsBounded`). Half of the
dates at least are no further from the middle than that and are kept by the filter; so
at least two are, one of them of the majority, and all that is kept is less than 125
hours before t (`CoreHasMajority`). The least that is kept is the date the e-mail is
given (the least of all, if no two are more than a day apart): it lies between these two
bounds. Without a deviation the filter is off and the least of all is taken, which may
be before both: then more than half of the distances are 0, so more than half of the
dates are the middle one, which is `FilterOff`.

*The body.* `BodyIs` says what `email_reader.rs` makes of the lines: the body's lines
are the lines at which none before is open (`Standing`), in ascending order, and a
joined line is a full one. Fixes and trailers are found in ascending order, the
reference definition lists ascending positions, and two ascending sequences of the same
numbers are equal (`AscendingUnique`); so it is enough to compare two *sets* of lines. A
wrapped tag is taken by its own line if the next one has the `)"` the code looks for;
the others of them are `LostWrapped`. The same argument numbers the sections of
`extract_patches`; a diff line belongs to the greatest start not after it.

*The subject.* `ColonsAre` says that the nested searches of `process_colon_tags` amount to the
longest run of colon tags. From its end on, `ScanIs` follows the loop over the brackets: after
k tokens the tags end at `EndAt(e, l, k)`, with the zone open as long as the run
goes on, and what is found is what the tokens up to there hold. `LongestRun` shows that
this end is the maximum the property takes over all ways to split the beginning of a
subject in colon tags and brackets. For `RepliesKeepTags` the loop is run over the subject
and over its reply, one token ahead (`Ahead`), and `Replied` commutes with every step.

*The shared lemmas.* `FlattenSeq` and `FoldLeft` of the community modules are recursive
functions, and the induction theorems of the library take the statement as an operator,
which no installed prover instantiates. `Induction` states induction for the *set* of numbers,
index sets or sequences a fact holds for (`SetInduction`, `IndexInduction`, `SeqInduction`)
and proves from it that the recursions exist, what concatenation and appending do to
them (`FlattenConcat`, `FlatMapConcat`, `FoldSteps`), what a filter keeps
(`RangeChosen`, `ChosenAscends` in `ParsingProofs`) and that a finite number of
elements can be brought in order (`ArrangementExists`). `Parser` and the modules of
operators write their filters with `FlattenSeq` (`Filter` in `Iterators`) and their
sorting with `SortBy` and `Sort`, not with `SelectSeq` and `SortSeq`, which have local
recursive functions no proof can name; they mean the same.

Only model-checked is everything about liveness (`EventuallySettled`,
`ShutdownTerminates`, `OneShotTerminates`, `RunEnds`, `RunsEnd`): the prover has no
ENABLED, and so no fairness.

## Not modelled

* Telemetry, error types, the analysis queries, container files and the
  Makefile: there is no state of theirs the data depends on.
* Reading YAML, command line arguments and defaults (`config.rs`): serde and clap do
  it. What is done with the values is in `Selection`.
* The network protocol of the news server, git's object store, parquet's format:
  libraries. A file is readable from its footer on, which is all the models use.
* Decoding of MIME parts and character sets (`mail-parser`), and the characters
  inside a token or line: the kinds stand for what the regular expressions
  tell apart.
* A repository whose HEAD is not on its branch `master` (`push_head`,
  `public_inbox_source/pi_worker.rs:460`): a walk is of the commits below HEAD.
* An append to `__lineage.yaml` that fails without the archiver being killed, in
  `Parser`: a kill leaves the same pieces. (In `ArchiveWriter` it is a fault.)
* Prompts, colours and printing of `check_git` and `check_nntp`; and of `check_nntp`
  the interactive loop, which keeps nothing from one question to the next but the
  connection.
* The lists of two `Pipeline` runs at once over different archives; they share no
  file.

What could still be added: a proof that `ArchiveWriter` commits batches the way
`PublicInbox` assumes, and two writers of a looping archiver in one directory beyond
the counterexample of `Sched_rescan`; `RangeMode` shows what they may do to each
other's files.
