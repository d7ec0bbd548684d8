------------------------------- MODULE Pipeline -------------------------------
(***************************************************************************)
(* Archiver, parser and anonymizer on the directories they share.  The     *)
(* anonymizer reads the dataset of each list slice by slice, opening the   *)
(* file again for each, and writes two files: the anonymized dataset and   *)
(* the map from the hashed identities back to the real ones.  Nothing      *)
(* keeps the operator from starting it while the parser runs, or the       *)
(* parser while it runs.                                                   *)
(***************************************************************************)
EXTENDS Parser

CONSTANT MaxSlice   \* BATCH_MAX_RECORDS of the anonymizer

ASSUME SliceAssumption == MaxSlice \in Nat \ {0}

VARIABLES
    anon,     \* process_mailing_list of the anonymizer, for each list
    anonData, \* dataset/list=L/list_data.parquet in its output directory
    idMap     \* id_map_from/list=L/list_data.parquet

avars == <<anon, anonData, idMap>>
vars  == <<pvars, avars>>

AnonAt(phase, offset, total, opened) ==
    [phase |-> phase, offset |-> offset, total |-> total, opened |-> opened]

NoAnon == AnonAt("off", 0, 0, FALSE)

AnonPhases == {"off", "spawned", "slices", "map"}

AnonBusy(l) == anon[l].phase # "off"

StartAnonymizer ==
    /\ \A l \in Lists : ~AnonBusy(l)
    /\ anon' = [l \in Lists |-> AnonAt("spawned", 0, 0, FALSE)]
    /\ UNCHANGED <<pvars, anonData, idMap>>

AnonEnds(l) == anon' = [anon EXCEPT ![l] = NoAnon]

\* No parquet file, or one without footer, is an error; one without rows
\* is left alone.
CountRows(l) ==
    /\ anon[l].phase = "spawned"
    /\ IF dataset[l].state = "done" /\ Len(dataset[l].rows) > 0
         THEN anon' = [anon EXCEPT ![l] = AnonAt("slices", 0, Len(dataset[l].rows), FALSE)]
         ELSE AnonEnds(l)
    /\ UNCHANGED <<pvars, anonData, idMap>>

Least(a, b) == IF a < b THEN a ELSE b

SliceEnd(l) == Least(anon[l].offset + MaxSlice, anon[l].total)

\* Faulty variant: a slice begins with the last row of the one before.
SliceOverlapping(l) ==
    SubSeq(dataset[l].rows, IF anon[l].offset = 0 THEN 1 ELSE anon[l].offset,
           Least(SliceEnd(l), Len(dataset[l].rows)))

\* What with_slice(offset, len) finds in the file as it is now.
Slice(l) ==
    SubSeq(dataset[l].rows, anon[l].offset + 1,
           Least(SliceEnd(l), Len(dataset[l].rows)))

\* Faulty variant: the file of the last run is not truncated.
WrittenBehind(l, file) == [state |-> "open", rows |-> file.rows \o Slice(l)]

\* A writer created at the first slice truncates the file of the last run.
Written(l, file) ==
    [state |-> "open", rows |-> (IF anon[l].opened THEN file.rows ELSE <<>>) \o Slice(l)]

AnonymizeSlice(l) ==
    /\ anon[l].phase = "slices"
    /\ anon[l].offset < anon[l].total
    /\ IF dataset[l].state = "done"
         THEN /\ anonData' = [anonData EXCEPT ![l] = Written(l, anonData[l])]
              /\ idMap' = [idMap EXCEPT ![l] = Written(l, idMap[l])]
              /\ anon' = [anon EXCEPT ![l] = AnonAt("slices", SliceEnd(l), anon[l].total, TRUE)]
         ELSE AnonEnds(l) /\ UNCHANGED <<anonData, idMap>>
    /\ UNCHANGED pvars

\* An I/O error before, at or between the two writers.
SliceFails(l) ==
    /\ Fault
    /\ anon[l].phase = "slices"
    /\ anon[l].offset < anon[l].total
    /\ dataset[l].state = "done"
    /\ AnonEnds(l)
    /\ \/ UNCHANGED <<anonData, idMap>>
       \/ anonData' = [anonData EXCEPT ![l] = Written(l, anonData[l])] /\ UNCHANGED idMap
    /\ UNCHANGED <<archive, failOnError, partial, run, exit, task, outputs>>

Closed(file) == [state |-> "done", rows |-> file.rows]

\* main_writer.finish, then id_map_writer.finish
FinishData(l) ==
    /\ anon[l].phase = "slices"
    /\ anon[l].offset = anon[l].total
    /\ anonData' = [anonData EXCEPT ![l] = Closed(anonData[l])]
    /\ anon' = [anon EXCEPT ![l] = AnonAt("map", anon[l].offset, anon[l].total, TRUE)]
    /\ UNCHANGED <<pvars, idMap>>

FinishMap(l) ==
    /\ anon[l].phase = "map"
    /\ idMap' = [idMap EXCEPT ![l] = Closed(idMap[l])]
    /\ AnonEnds(l)
    /\ UNCHANGED <<pvars, anonData>>

AnonymizerKilled ==
    /\ Fault
    /\ \E l \in Lists : AnonBusy(l)
    /\ anon' = [l \in Lists |-> NoAnon]
    /\ UNCHANGED <<archive, failOnError, partial, run, exit, task, outputs, anonData, idMap>>

AnonStep(l) == CountRows(l) \/ AnonymizeSlice(l) \/ FinishData(l) \/ FinishMap(l)

Init ==
    /\ ParserInit
    /\ anon = [l \in Lists |-> NoAnon]
    /\ anonData = [l \in Lists |-> Absent]
    /\ idMap = [l \in Lists |-> Absent]

Next ==
    \/ ParserNext /\ UNCHANGED avars
    \/ StartAnonymizer \/ AnonymizerKilled
    \/ \E l \in Lists : AnonStep(l) \/ SliceFails(l)

Spec == Init /\ [][Next]_vars

\* The steps of a program that was started; nobody has to start one.
FairSpec ==
    /\ Spec
    /\ WF_vars((JoinLists \/ ParseLineage) /\ UNCHANGED avars)
    /\ \A l \in Lists : WF_vars(ListStep(l) /\ UNCHANGED avars)
    /\ \A l \in Lists : WF_vars(AnonStep(l))

-----------------------------------------------------------------------------
(***************************************************************************)
(* Properties.                                                             *)
(***************************************************************************)
TaskPhases == {"off", "spawned", "reading", "batch", "flush", "closing",
               "leaving", "ok", "empty", "failed"}

TypeOK ==
    /\ next \in [Lists -> Nat]
    /\ owed \in [Lists -> Nat]
    /\ run \in {"idle", "lists", "lineage"}
    /\ exit \in {"none", "ok", "failed"}
    /\ task \in [Lists -> [phase : TaskPhases, listed : Nat, missed : SUBSET Nat,
                           taken : Nat, batch : Seq(Nat \ {Unreadable}),
                           pending : Seq(Nat), opened : BOOLEAN, errOpened : BOOLEAN]]
    /\ partial \subseteq Lists
    /\ dataset \in [Lists -> OutFiles]
    /\ errors \in [Lists -> Seq(Nat)]
    /\ anon \in [Lists -> [phase : AnonPhases, offset : Nat, total : Nat, opened : BOOLEAN]]
    /\ anonData \in [Lists -> OutFiles]
    /\ idMap \in [Lists -> OutFiles]
    /\ faults \in 0 .. MaxFaults

(***************************************************************************)
(* When process_mailing_list returns Ok, list_data.parquet holds exactly   *)
(* the e-mails of the files it listed that parse, in their order, and      *)
(* errors.csv the others; nothing is skipped, nothing is there twice,      *)
(* whatever the batches, earlier runs, kills and failures.  Two errors the *)
(* code swallows are the exceptions.  Of the lines of errors.csv the last  *)
(* ones may be missing, if the drop of the BufWriter could not write them; *)
(* the return value says nothing of it.  And a list of which nothing is    *)
(* refused keeps the errors.csv of an earlier run, which is wrong only if  *)
(* one of the two has missed a file.                                       *)
(***************************************************************************)
Accounted ==
    \A l \in Lists : task[l].phase \in {"ok", "empty"} =>
      LET refused == Refused(l, Listed(l))
      IN  /\ task[l].phase = "ok" =>
               dataset[l] = [state |-> "done", rows |-> Good(l, Listed(l))]
          /\ task[l].phase = "empty" => Good(l, Listed(l)) = <<>>
          /\ refused # <<>> \/ l \notin partial => errors[l] \o task[l].pending = refused
          /\ task[l].pending # <<>> => faults > 0

\* What can be read of files: the rows of the finished ones.
RowsOf(fs) ==
    FlattenSeq([k \in DOMAIN fs |-> IF fs[k].state = "done" THEN fs[k].rows ELSE <<>>])

\* The e-mails that parse in the finished ones of the list's first n files.
Snapshot(l, n) == Good(l, RowsOf(SubSeq(files[l], 1, n)))

IsSnapshot(l, rows) ==
    \E n \in 0 .. Len(files[l]) : rows = Snapshot(l, n)

(***************************************************************************)
(* A dataset that can be opened is the whole archive of the list as it was *)
(* at some time: a run that fails or is killed half-way leaves the old one *)
(* or one that cannot be opened, never a part that looks complete.  The    *)
(* same of the anonymized dataset, also when the parser replaces its input *)
(* between two slices.  This is so until collect_email_files has missed a  *)
(* file of the list: it reports nothing, and the dataset of such a run is  *)
(* a part that looks complete.                                             *)
(***************************************************************************)
OutputsAreSnapshots ==
    \A l \in Lists \ partial : \A file \in {dataset[l], anonData[l]} :
      file.state = "done" => IsSnapshot(l, file.rows)

\* With both files readable, row k of the map is about row k of the data:
\* they never come from two different runs of the anonymizer.
MapMatchesData ==
    \A l \in Lists :
      anonData[l].state = "done" /\ idMap[l].state = "done" =>
        anonData[l].rows = idMap[l].rows

(***************************************************************************)
(* With fail_on_parsing_error a run that ends well has every e-mail of     *)
(* every file it listed in the datasets: no refused e-mail, no unreadable  *)
(* file, no failed list.  Files that collect_email_files did not list,     *)
(* because of an error it swallows, the exit status does not tell of; a    *)
(* list with nothing listed ends well with the dataset of an earlier run   *)
(* or none.                                                                *)
(***************************************************************************)
ExitTellsTruth ==
    run = "idle" /\ exit = "ok" /\ failOnError =>
      \A l \in Lists :
        \/ task[l].phase = "ok" /\ dataset[l] = [state |-> "done", rows |-> Listed(l)]
        \/ task[l].phase = "empty" /\ Listed(l) = <<>>

(***************************************************************************)
(* After a run that ended well, the e-mails of the datasets that have no   *)
(* row in lineage.parquet are few: for each kill the record being written  *)
(* and, if it was torn, the next one, and for each list the e-mail the     *)
(* archiver was at when lineage was read.                                  *)
(***************************************************************************)
ProvenanceLossBounded ==
    run = "idle" /\ exit = "ok" =>
      LET parsed == UNION {{l} \X Range(dataset[l].rows) : l \in Lists}
      IN  Cardinality(parsed \ provenance.records) <= 2 * faults + Cardinality(Lists)

\* Every run of the parser and of the anonymizer ends, also while the
\* archiver keeps adding files.
RunsEnd ==
    /\ run # "idle" ~> run = "idle"
    /\ \A l \in Lists : AnonBusy(l) ~> ~AnonBusy(l)

=============================================================================
