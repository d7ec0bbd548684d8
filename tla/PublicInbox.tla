----------------------------- MODULE PublicInbox -----------------------------
(***************************************************************************)
(* The public-inbox worker's incremental walk over a list's git epochs:    *)
(* process_inbox and process_epoch of pi_worker.rs.                        *)
(*                                                                         *)
(* A list is a sequence of epochs, each a git repository with one commit   *)
(* per e-mail; only the newest epoch still grows.  A commit is <<e, a>>,   *)
(* a its age in epoch e: 1 is the oldest, size[e] is HEAD.  A run walks    *)
(* the epochs in order and each epoch from HEAD down, as git's revwalk     *)
(* does, and numbers the e-mails it archives.  The next run resumes from   *)
(* the last committed identifier, "{num}-e{epoch}-{sha}".                  *)
(*                                                                         *)
(* Simplifications: the writer is one that makes e-mails and progress      *)
(* durable together in batches of BatchSize and at its drop (what          *)
(* ArchiveWriter shows of raw mode, 1, and of parquet mode up to 2048);    *)
(* the repositories grow between runs (a commit that arrives during a run  *)
(* is one that arrived before or after, as each epoch is counted when the  *)
(* run enters it); a V1 inbox is a list with one epoch.                    *)
(***************************************************************************)
EXTENDS Naturals, Sequences, FiniteSets

CONSTANTS
    MaxEpochs,  \* epochs a list can have (bound)
    MaxCommits, \* commits an epoch can have (bound)
    MaxRuns,    \* runs of the archiver over the list (bound)
    BatchSize,  \* e-mails the writer commits together
    Broken,     \* commits without the 'm' blob that holds the e-mail
    MayStop     \* whether Ctrl+C or a crash can end a run early

ASSUME InboxAssumption ==
    /\ MaxEpochs \in Nat \ {0} /\ MaxCommits \in Nat \ {0}
    /\ MaxRuns \in Nat /\ BatchSize \in Nat \ {0}
    /\ Broken \subseteq (Nat \X Nat)
    /\ MayStop \in BOOLEAN

VARIABLES
    size,         \* commits of each epoch, 0: the epoch does not exist yet
    stored,       \* archived e-mails, as identifiers
    errors,       \* commits listed in __errors.csv
    progress,     \* the last committed identifier
    pending,      \* e-mails in the writer's buffer
    run,          \* "idle", "epochs" (between epochs), "walk" (in an epoch)
    epoch,        \* the epoch to enter next, or being walked
    resume,       \* skip_until_sha as an age, 0 for None
    position,     \* global_position
    cumulative,   \* cumulative_emails_total
    beforeResume, \* total_before_resume
    newCommits,   \* new_commits
    processedNew, \* processed_new
    commitCount,  \* commit_count
    nextNum,      \* next_email_num
    at,           \* age of the next commit of the walk, 0 at its end
    runs,         \* runs so far
    seen,         \* history: size when the current or last run began
    outcome,      \* history: "none", "complete" or "stopped", the last run
    plain         \* history: one epoch, a complete first run, and at most one
                  \*   more that did not find exactly one new commit

repo     == <<size>>
archive  == <<stored, errors, progress>>
walkVars == <<beforeResume, newCommits, processedNew, commitCount, nextNum, at>>
runVars  == <<pending, run, epoch, resume, position, cumulative, walkVars>>
history  == <<runs, seen, outcome, plain>>
vars     == <<repo, archive, runVars, history>>

EpochIds == 1 .. MaxEpochs
Existing == {e \in EpochIds : size[e] > 0}
Newest   == Cardinality(Existing)

\* Faulty variant: two fields change places.
SwappedIdentifier(num, e, a) == [num |-> num, epoch |-> a, age |-> e]

Identifier(num, e, a) == [num |-> num, epoch |-> e, age |-> a]
NoProgress == Identifier(0, 0, 0)

\* saturating_sub
Minus(a, b) == IF a > b THEN a - b ELSE 0

\* Commits of the epochs before e.
CommitsBefore(e) ==
    LET upTo[i \in 0 .. MaxEpochs] == IF i = 0 THEN 0 ELSE upTo[i - 1] + size[i]
    IN  upTo[Minus(e, 1)]

-----------------------------------------------------------------------------
Init ==
    /\ \E n \in EpochIds :
          size \in {f \in [EpochIds -> 0 .. MaxCommits] :
                       \A e \in EpochIds : f[e] > 0 <=> e <= n}
    /\ stored = {} /\ errors = {} /\ progress = NoProgress
    /\ pending = <<>> /\ run = "idle" /\ epoch = 0 /\ resume = 0
    /\ position = 0 /\ cumulative = 0
    /\ beforeResume = 0 /\ newCommits = 0 /\ processedNew = 0
    /\ commitCount = 0 /\ nextNum = 0 /\ at = 0
    /\ runs = 0 /\ seen = [e \in EpochIds |-> 0] /\ outcome = "none"
    /\ plain = TRUE

(* The mirror is updated between two runs. *)

Push ==
    /\ run = "idle" /\ runs > 0
    /\ \E k \in 1 .. MaxCommits :
          /\ size[Newest] + k <= MaxCommits
          /\ size' = [size EXCEPT ![Newest] = @ + k]
    /\ UNCHANGED <<archive, runVars, history>>

NewEpoch ==
    /\ run = "idle" /\ runs > 0
    /\ Newest < MaxEpochs
    /\ \E k \in 1 .. MaxCommits : size' = [size EXCEPT ![Newest + 1] = k]
    /\ UNCHANGED <<archive, runVars, history>>

-----------------------------------------------------------------------------
(* process_inbox *)

\* Read the progress, drop the epochs before the one it names.
StartRun ==
    /\ run = "idle" /\ runs < MaxRuns
    /\ run' = "epochs"
    /\ epoch' = IF progress = NoProgress THEN 1 ELSE progress.epoch
    /\ resume' = progress.age
    /\ position' = progress.num
    /\ cumulative' = CommitsBefore(epoch')
    /\ runs' = runs + 1
    /\ seen' = size
    /\ plain' = (plain /\ Newest = 1 /\
                    \/ runs = 0
                    \/ runs = 1 /\ outcome = "complete" /\ size[1] # seen[1] + 1)
    /\ UNCHANGED <<repo, archive, pending, walkVars, outcome>>

\* All commits of the epoch are at or before the resume point.
SkipEpoch ==
    /\ run = "epochs" /\ epoch <= Newest
    /\ position >= cumulative + size[epoch]
    /\ cumulative' = cumulative + size[epoch]
    /\ epoch' = epoch + 1
    /\ resume' = 0
    /\ UNCHANGED <<repo, archive, pending, run, position, walkVars, history>>

\* Faulty variants: one old commit too many, or no old commit, is left out.
NewCommitsMissingOne(n) ==
    IF n = 0 /\ resume # 0 THEN size[epoch]
    ELSE Minus(n, IF n > position THEN position ELSE 0)

NewCommitsAll(n) == IF n = 0 /\ resume # 0 THEN size[epoch] ELSE n

\* The number of commits of the epoch that the walk is to archive, when n
\* of them are newer than the resume point.
NewCommits(n) ==
    IF n = 0 /\ resume # 0 THEN size[epoch]
    ELSE Minus(n, IF n > position THEN Minus(position, 1) ELSE 0)

\* process_epoch up to the second pass.
EnterEpoch ==
    /\ run = "epochs" /\ epoch <= Newest
    /\ position < cumulative + size[epoch]
    /\ cumulative' = cumulative + size[epoch]
    /\ beforeResume' = IF resume = 0 THEN size[epoch] ELSE size[epoch] - resume
    /\ newCommits' = NewCommits(beforeResume')
    /\ processedNew' = 0
    /\ commitCount' = 0
    /\ nextNum' = position + 1
    /\ at' = size[epoch]
    /\ run' = "walk"
    /\ UNCHANGED <<repo, archive, pending, epoch, resume, position, history>>

\* The writer is dropped: what it still holds is committed.
CommitPending ==
    /\ stored' = stored \cup {pending[i] : i \in DOMAIN pending}
    /\ progress' = IF pending = <<>> THEN progress ELSE pending[Len(pending)]
    /\ pending' = <<>>

FinishRun ==
    /\ run = "epochs" /\ epoch > Newest
    /\ CommitPending
    /\ run' = "idle"
    /\ outcome' = "complete"
    /\ UNCHANGED <<repo, errors, epoch, resume, position, cumulative,
                   walkVars, runs, seen, plain>>

\* Ctrl+C is noticed between two commits or two epochs.
StopRun ==
    /\ MayStop /\ run # "idle"
    /\ CommitPending
    /\ run' = "idle"
    /\ outcome' = "stopped"
    /\ UNCHANGED <<repo, errors, epoch, resume, position, cumulative,
                   walkVars, runs, seen, plain>>

\* The process is killed: the buffered e-mails are gone.
Crash ==
    /\ MayStop /\ run # "idle"
    /\ pending' = <<>>
    /\ run' = "idle"
    /\ outcome' = "stopped"
    /\ UNCHANGED <<repo, archive, epoch, resume, position, cumulative,
                   walkVars, runs, seen, plain>>

-----------------------------------------------------------------------------
(* process_epoch: the second pass, one commit per step *)

AtResume == resume # 0 /\ at = resume

\* The resume point: HEAD itself is passed over, else the walk ends here.
ReachResume ==
    /\ run = "walk" /\ at > 0 /\ AtResume
    /\ at' = IF beforeResume = 0 THEN at - 1 ELSE 0
    /\ UNCHANGED <<repo, archive, pending, run, epoch, resume, position, cumulative,
                   beforeResume, newCommits, processedNew, commitCount, nextNum, history>>

\* Taken for commits of an earlier run; only counted.
PassOld ==
    /\ run = "walk" /\ at > 0 /\ ~AtResume
    /\ processedNew >= newCommits /\ beforeResume > 0
    /\ commitCount' = commitCount + 1
    /\ at' = at - 1
    /\ UNCHANGED <<repo, archive, pending, run, epoch, resume, position, cumulative,
                   beforeResume, newCommits, processedNew, nextNum, history>>

\* archive_email: a full batch is committed at once.
Archive(id) ==
    IF Len(pending) + 1 >= BatchSize
    THEN /\ stored' = stored \cup {pending[i] : i \in DOMAIN pending} \cup {id}
         /\ progress' = id
         /\ pending' = <<>>
    ELSE /\ pending' = Append(pending, id)
         /\ UNCHANGED <<stored, progress>>

ProcessCommit ==
    /\ run = "walk" /\ at > 0 /\ ~AtResume
    /\ processedNew < newCommits \/ beforeResume = 0
    /\ IF <<epoch, at>> \in Broken
       THEN /\ errors' = errors \cup {<<epoch, at>>}
            /\ UNCHANGED <<stored, progress, pending>>
       ELSE /\ Archive(Identifier(nextNum, epoch, at))
            /\ UNCHANGED errors
    /\ commitCount' = commitCount + 1
    /\ processedNew' = processedNew + 1
    /\ nextNum' = nextNum + 1
    /\ at' = at - 1
    /\ UNCHANGED <<repo, run, epoch, resume, position, cumulative,
                   beforeResume, newCommits, history>>

\* Faulty variant: the position is not carried over to the next epoch.
LeaveEpochUncounted ==
    /\ run = "walk" /\ at = 0
    /\ resume' = 0
    /\ epoch' = epoch + 1
    /\ run' = "epochs"
    /\ UNCHANGED <<repo, archive, pending, position, cumulative, walkVars, history>>

LeaveEpoch ==
    /\ run = "walk" /\ at = 0
    /\ position' = position + commitCount
    /\ resume' = 0
    /\ epoch' = epoch + 1
    /\ run' = "epochs"
    /\ UNCHANGED <<repo, archive, pending, cumulative, walkVars, history>>

Next ==
    \/ Push \/ NewEpoch
    \/ StartRun \/ SkipEpoch \/ EnterEpoch \/ FinishRun
    \/ ReachResume \/ PassOld \/ ProcessCommit \/ LeaveEpoch
    \/ StopRun \/ Crash

Spec == Init /\ [][Next]_vars

-----------------------------------------------------------------------------
(* Properties *)

Identifiers ==
    [num : Nat, epoch : EpochIds, age : 1 .. MaxCommits]

\* The variables keep their types; progress is an identifier of the list.
TypeOK ==
    /\ size \in [EpochIds -> 0 .. MaxCommits]
    /\ stored \subseteq Identifiers
    /\ errors \subseteq Broken
    /\ progress \in Identifiers \cup {NoProgress}
    /\ pending \in Seq(Identifiers)
    /\ run \in {"idle", "epochs", "walk"}
    /\ epoch \in 0 .. MaxEpochs + 1
    /\ resume \in 0 .. MaxCommits /\ at \in 0 .. MaxCommits
    /\ {position, cumulative, beforeResume, newCommits, processedNew,
        commitCount, nextNum, runs} \subseteq Nat
    /\ seen \in [EpochIds -> 0 .. MaxCommits]
    /\ outcome \in {"none", "complete", "stopped"}
    /\ plain \in BOOLEAN

Holds(e, a) == \E id \in stored : id.epoch = e /\ id.age = a

\* A run that was not stopped leaves no commit it found unarchived, except
\* those listed in __errors.csv.
CompleteRun ==
    run = "idle" /\ outcome = "complete" =>
        \A e \in EpochIds : \A a \in 1 .. seen[e] :
            Holds(e, a) \/ <<e, a>> \in errors

\* The incremental walk is complete where its counting is right: in a list of
\* one epoch, in the first run and in an update after it.
PlainRunComplete == plain => CompleteRun

\* ... and there no commit is archived twice: the archived ones among the
\* commits newer than the resume point are told apart by counting.  (After
\* exactly one new commit they are not: it takes more than global_position.
\* Nor are they if the oldest commit holds no e-mail: the last number is then
\* less than the size of the epoch, which is never skipped.)
PlainRunOnce ==
    plain /\ <<1, 1>> \notin Broken =>
        \A i, j \in stored : i.epoch = j.epoch /\ i.age = j.age => i = j

\* No two archived e-mails have the same number, and the progress has the
\* largest one, over epochs, stops, kills and resumed runs.
NumbersUnique ==
    /\ \A i, j \in stored : i.num = j.num => i = j
    /\ \A i \in stored : i.num <= progress.num

=============================================================================
