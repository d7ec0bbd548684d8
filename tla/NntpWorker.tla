----------------------------- MODULE NntpWorker -----------------------------
(***************************************************************************)
(* One NNTP worker keeping the archive of one mailing list up to date:     *)
(* nntp_worker.rs (consumme_list, handle_group, read_new_mails) driving    *)
(* the ArchiveWriter, against a news server whose list grows and expires   *)
(* old articles.                                                           *)
(*                                                                         *)
(* The worker runs in looping mode: its list comes back on the channel     *)
(* after every rescan interval, so Recv is always possible.  The archiver  *)
(* may be stopped with Ctrl+C, may be killed, and may be started again.    *)
(*                                                                         *)
(* Simplifications: the four attempts of                                   *)
(* get_raw_article_by_number_retryable are one fetch, and a fault of kind  *)
(* "network" is the failure of all of them; waits are left out, the        *)
(* shutdown flag they poll is the one CheckShutdown reads.                 *)
(***************************************************************************)
EXTENDS ArchiveWriter, FiniteSets

VARIABLES
    high,      \* highest article number of the group on the server
    low,       \* lowest article number the server still has
    pc,        \* where the worker is, see Places
    nextMail,  \* current_mail of the loop of read_new_mails
    groupHigh, \* the end of that loop: group.high when the visit began
    failed,    \* handle_group is about to return an error
    needsReconnection,
    shutdown   \* the flag Ctrl+C sets

server == <<high, low>>
worker == <<pc, nextMail, groupHigh, failed, needsReconnection>>
vars   == <<awVars, server, worker, shutdown>>

(***************************************************************************)
(* "check": top of the loop; "recv": waiting for a list; "group": the      *)
(* writer exists, asking for the group; "fetch": top of the article loop;  *)
(* "archive": inside archive_email; "return": handle_group drops its       *)
(* writer; "done": returned Ok; "dead": returned an error, or killed.      *)
(***************************************************************************)
Stopped == {"done", "dead"}
Places  == {"check", "recv", "group", "fetch", "archive", "return"} \cup Stopped

Larger(a, b) == IF a > b THEN a ELSE b

Init ==
    /\ AWInit
    /\ high = 0 /\ low = 1
    /\ pc = "check" /\ nextMail = 0 /\ groupHigh = 0
    /\ failed = FALSE /\ needsReconnection = FALSE
    /\ shutdown = FALSE

-----------------------------------------------------------------------------
(* The server and the operator *)

Post ==
    /\ high < MaxId
    /\ high' = high + 1
    /\ UNCHANGED <<awVars, low, worker, shutdown>>

Expire ==
    /\ low <= high
    /\ low' = low + 1
    /\ UNCHANGED <<awVars, high, worker, shutdown>>

CtrlC ==
    /\ ~shutdown /\ pc \notin Stopped
    /\ shutdown' = TRUE
    /\ UNCHANGED <<awVars, server, worker>>

Kill ==
    /\ pc \notin Stopped
    /\ Crash
    /\ pc' = "dead"
    /\ UNCHANGED <<server, nextMail, groupHigh, failed, needsReconnection, shutdown>>

Restart ==
    /\ pc \in Stopped
    /\ pc' = "check"
    /\ needsReconnection' = FALSE
    /\ failed' = FALSE
    /\ shutdown' = FALSE
    /\ UNCHANGED <<awVars, server, nextMail, groupHigh>>

-----------------------------------------------------------------------------
(* consumme_list *)

CheckShutdown ==
    /\ pc = "check" /\ shutdown
    /\ pc' = "done"
    /\ UNCHANGED <<awVars, server, nextMail, groupHigh, failed, needsReconnection, shutdown>>

\* re_connect: a failure ends the worker with an error.
Reconnect ==
    /\ pc = "check" /\ ~shutdown /\ needsReconnection
    /\ \/ pc' = "recv" /\ needsReconnection' = FALSE /\ UNCHANGED faults
       \/ pc' = "dead" /\ Fault("network") /\ UNCHANGED needsReconnection
    /\ UNCHANGED <<disk, memory, server, nextMail, groupHigh, failed, shutdown>>

WaitForList ==
    /\ pc = "check" /\ ~shutdown /\ ~needsReconnection
    /\ pc' = "recv"
    /\ UNCHANGED <<awVars, server, nextMail, groupHigh, failed, needsReconnection, shutdown>>

\* receiver.recv() yields the list; handle_group creates its writer.
Recv ==
    /\ pc = "recv"
    /\ New
    /\ pc' = "group"
    /\ UNCHANGED <<server, nextMail, groupHigh, failed, needsReconnection, shutdown>>

\* The producer has seen the flag and dropped the sender.
RecvClosed ==
    /\ pc = "recv" /\ shutdown
    /\ pc' = "done"
    /\ UNCHANGED <<awVars, server, nextMail, groupHigh, failed, needsReconnection, shutdown>>

\* The writer is gone: an error forces a reconnection before the next list.
ReturnFromGroup ==
    /\ pc = "return" /\ call = "none"
    /\ needsReconnection' = (needsReconnection \/ failed)
    /\ failed' = FALSE
    /\ pc' = "check"
    /\ UNCHANGED <<awVars, server, nextMail, groupHigh, shutdown>>

-----------------------------------------------------------------------------
(* handle_group and read_new_mails *)

\* Faulty variant: a visit starts at the oldest article of the server.
FirstMailOfGroup == low

\* The loop starts at the last processed article itself, not after it.
FirstMail == Larger(progress, low)

\* Faulty variant: the last article is never seen as new.
HasOlderNews == progress + 1 < high

HasNews == progress < high

QueryGroup ==
    /\ pc = "group"
    /\ \/ /\ HasNews
          /\ nextMail' = FirstMail
          /\ groupHigh' = high
          /\ pc' = "fetch"
          /\ UNCHANGED <<faults, failed>>
       \/ /\ ~HasNews                            \* NoNews
          /\ pc' = "return"
          /\ UNCHANGED <<faults, failed, nextMail, groupHigh>>
       \/ /\ Fault("network")
          /\ pc' = "return"
          /\ failed' = TRUE
          /\ UNCHANGED <<nextMail, groupHigh>>
    /\ UNCHANGED <<disk, memory, server, needsReconnection, shutdown>>

EndOfGroup ==
    /\ pc = "fetch"
    /\ nextMail > groupHigh \/ shutdown
    /\ pc' = "return"
    /\ UNCHANGED <<awVars, server, nextMail, groupHigh, failed, needsReconnection, shutdown>>

Fetching == pc = "fetch" /\ nextMail <= groupHigh /\ ~shutdown

FetchArticle ==
    /\ Fetching
    /\ nextMail >= low
    /\ AddEmail(nextMail)
    /\ pc' = "archive"
    /\ UNCHANGED <<server, nextMail, groupHigh, failed, needsReconnection, shutdown>>

\* ArticleUnavailable: expired, cancelled, or refused by the server this time.
ArticleUnavailable ==
    /\ Fetching
    /\ LogError(nextMail)
    /\ nextMail' = nextMail + 1
    /\ UNCHANGED <<server, pc, groupHigh, failed, needsReconnection, shutdown>>

FetchFails ==
    /\ Fetching
    /\ Fault("network")
    /\ failed' = TRUE
    /\ pc' = "return"
    /\ UNCHANGED <<disk, memory, server, nextMail, groupHigh, needsReconnection, shutdown>>

\* archive_email returned.
Archived ==
    /\ pc = "archive"
    /\ \/ /\ call = "idle"
          /\ nextMail' = nextMail + 1
          /\ pc' = "fetch"
          /\ UNCHANGED failed
       \/ /\ call = "failed"
          /\ failed' = TRUE
          /\ pc' = "return"
          /\ UNCHANGED nextMail
    /\ UNCHANGED <<awVars, server, groupHigh, needsReconnection, shutdown>>

\* archive_email or Drop at work.
InWriter ==
    /\ WriterStep
    /\ UNCHANGED <<server, worker, shutdown>>

DropWriter ==
    /\ pc = "return"
    /\ BeginDrop
    /\ UNCHANGED <<server, worker, shutdown>>

-----------------------------------------------------------------------------
WorkerNext ==
    \/ CheckShutdown \/ Reconnect \/ WaitForList \/ Recv \/ RecvClosed
    \/ QueryGroup \/ EndOfGroup \/ FetchArticle \/ ArticleUnavailable \/ FetchFails
    \/ Archived \/ InWriter \/ DropWriter \/ ReturnFromGroup

Environment == Post \/ Expire \/ CtrlC \/ Kill \/ Restart

Next == WorkerNext \/ Environment

Spec == Init /\ [][Next]_vars

\* The worker's thread keeps running.
FairSpec == Spec /\ WF_vars(WorkerNext)

-----------------------------------------------------------------------------
(* Properties *)

\* The variables keep their types: no visit leaves the numbers of the group.
NntpTypeOK ==
    /\ TypeOK
    /\ high \in 0 .. MaxId /\ low \in 1 .. MaxId + 1
    /\ pc \in Places
    /\ nextMail \in 0 .. MaxId + 1 /\ groupHigh \in 0 .. MaxId
    /\ failed \in BOOLEAN /\ needsReconnection \in BOOLEAN
    /\ shutdown \in BOOLEAN

\* Articles that need no further visit.
Settled(a) == a \in stored \/ a \in errors \/ a < low

\* Articles a resumed run will skip although no file holds them.
Lost == {a \in 1 .. progress : ~Settled(a)}

\* A resumed run starts at the saved progress, so every article below it must
\* be in a finished file, listed in __errors.csv, or expired; at any time,
\* after any kill or error.  (Raw mode fetches the last one again, truncating
\* its file first, and will start at it once more.)
NoLostEmail ==
    \A a \in 1 .. progress :
        Settled(a) \/ (WriteMode = "raw" /\ a = progress)

\* Rows of an open file whose progress may already be saved.
UnsafeRows == ((MaxPerFile - 1) \div RowGroupSize) * RowGroupSize

\* With files larger than a row group (the default, 10000 over 2048), progress
\* is saved for rows whose file has no footer yet.  One kill or I/O error
\* loses at most the complete row groups of one file.
LossBounded == call = "none" => Cardinality(Lost) <= faults * UnsafeRows

\* An unfinished file in the directory is the sign of a loss: without one every
\* article up to the progress is accounted for, whatever failed before.
LossVisible == call = "none" /\ ~leftover => Lost = {}

\* A worker that met no fault and was stopped with Ctrl+C leaves lineage,
\* files and progress agreeing ("progress preservation").
CleanStop ==
    pc = "done" /\ faults = 0 =>
        /\ lineage = stored
        /\ ~leftover
        /\ IF lineage = {} THEN progress = 0
           ELSE progress \in lineage /\ \A a \in lineage : a <= progress

\* The saved progress never moves back: not when the server renumbers its low
\* mark, not after a fault, not over a restart.
ProgressMonotone == [][progress' >= progress]_vars

\* Of the articles that are in a file already only the one the progress names
\* is fetched again, and after a fault those whose progress was not saved.
RefetchOnlyLast ==
    [][\A a \in stored : cur # a /\ cur' = a =>
          a = progress \/ (faults > 0 /\ a > progress)]_vars

\* Every article the group ever held is archived, listed as unavailable or
\* expired in the end, unless the worker stops for good.
EventuallySettled ==
    \A a \in Ids : (a <= high) ~> (Settled(a) \/ pc \in Stopped)

\* The worker implements the abstract archive.
AbstractArchive == INSTANCE Archive WITH
    archived    <- stored,
    unavailable <- errors \cup 1 .. (low - 1),
    frontier    <- progress

\* To a reader the archive of a list is the abstract one: e-mails are only
\* added, and the resume point only moves forward, over nothing unsettled.
ImplementsArchive == AbstractArchive!Spec

=============================================================================
