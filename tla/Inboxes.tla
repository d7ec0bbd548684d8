-------------------------------- MODULE Inboxes --------------------------------
(***************************************************************************)
(* Public inboxes on disk: which directories the lister offers, which      *)
(* repositories a visit reads, and how e-mails are numbered, named and     *)
(* found again by the archiver and by check_git.                           *)
(***************************************************************************)
EXTENDS Integers, Sequences, SequencesExt, Iterators

(***************************************************************************)
(* A directory: whether git/ is there, its *.git subdirectories in the     *)
(* order read_dir gives them, the repository all.git, what the alternates  *)
(* of all.git name ("none": no file, "dead", "outside": a good repository  *)
(* elsewhere, "epochs": those in git/), and the directory itself taken as  *)
(* a repository.                                                           *)
(***************************************************************************)
Repo(head, objects, filled, master, opens) ==
    [head |-> head, objects |-> objects, filled |-> filled,
     master |-> master, opens |-> opens]

Missing == Repo(FALSE, FALSE, FALSE, FALSE, FALSE)

Repos == [head : BOOLEAN, objects : BOOLEAN, filled : BOOLEAN, master : BOOLEAN, opens : BOOLEAN]

IsGitRepo(repo)  == repo.head /\ repo.objects
HasObjects(repo) == repo.objects /\ repo.filled

Found(version, where) == [version |-> version, git_dir |-> where]
NoInbox == Found("none", "none")

HasMaster(repo) == IsGitRepo(repo) /\ repo.master /\ repo.opens

\* find_epoch_repo_with_master and has_objects: only the first one counts.
HasValidEpoch(dir) ==
    LET k == SelectInSeq(dir.epochs, LAMBDA e : HasMaster(e.repo))
    IN  k # 0 /\ HasObjects(dir.epochs[k].repo)

AlternatesGood(dir) ==
    \/ dir.alternates = "outside"
    \/ /\ dir.alternates = "epochs"
       /\ \E k \in DOMAIN dir.epochs :
            HasMaster(dir.epochs[k].repo) /\ HasObjects(dir.epochs[k].repo)

\* Faulty variant: what has no master branch yet is no inbox.
DetectV2Filled(dir) ==
    IF HasValidEpoch(dir) THEN Found("V2", "git")
    ELSE IF IsGitRepo(dir.all) /\ dir.all.master THEN Found("V1", "all") ELSE NoInbox

\* detect_inbox where git/ exists.
DetectV2(dir) ==
    LET all     == dir.all
        usesAll == IsGitRepo(all)
        full    == HasObjects(all) /\ all.master
    IN  IF HasValidEpoch(dir) \/ (usesAll /\ AlternatesGood(dir)) THEN Found("V2", "git")
        ELSE IF usesAll /\ dir.alternates # "none"
             THEN Found(IF full THEN "V2 (combined)" ELSE "V2 (incomplete)", "all")
        ELSE IF usesAll /\ full THEN Found("V1", "all")
        ELSE IF usesAll /\ HasObjects(all) THEN Found("V1 (empty)", "all")
        ELSE IF \E k \in DOMAIN dir.epochs : dir.epochs[k].repo.objects
             THEN Found("V2 (empty)", "git")
        ELSE IF all.objects THEN Found("V1 (empty)", "all") ELSE NoInbox

\* and where it does not.
DetectV1(dir) ==
    IF IsGitRepo(dir.all) /\ dir.all.master THEN Found("V1", "all")
    ELSE IF IsGitRepo(dir.self) /\ dir.self.master THEN Found("V1 (bare)", "self")
    ELSE IF dir.all.objects THEN Found("V1 (empty)", "all") ELSE NoInbox

DetectInbox(dir) == IF dir.git THEN DetectV2(dir) ELSE DetectV1(dir)

\* retrieve_lists
Listed(dir) ==
    DetectInbox(dir).version \notin
      {"none", "V2 (incomplete)", "V2 (empty)", "V1 (empty)"}

\* Faulty variant: epochs without a master branch are kept.
EpochsOfAny(dir) ==
    IF DetectInbox(dir).git_dir # "git" THEN <<>>
    ELSE Filter(dir.epochs, LAMBDA e : e.repo.objects)

\* find_epochs, before it sorts.
EpochsOf(dir) ==
    IF DetectInbox(dir).git_dir # "git" THEN <<>>
    ELSE Filter(dir.epochs, LAMBDA e :
                     e.repo.objects /\ e.repo.master /\ e.repo.opens)

\* The repositories process_inbox opens: an inbox without epochs is one.
ReposToRead(dir) ==
    LET epochs == EpochsOf(dir)
        single == [git |-> Missing, all |-> dir.all, self |-> dir.self, none |-> Missing]
    IN  IF epochs = <<>> THEN <<single[DetectInbox(dir).git_dir]>>
        ELSE [k \in DOMAIN epochs |-> epochs[k].repo]

Readable(repo) == repo.opens /\ repo.master

(***************************************************************************)
(* Epochs and e-mails.  An epoch is its name and its number of commits; a  *)
(* commit is the epoch it is in and its place from HEAD, 1 is the newest.  *)
(***************************************************************************)
NumberOf == [e0 |-> 0, e1 |-> 1, e9 |-> 9, e10 |-> 10]

\* The order of the names 0, 0-old, 1, 10, 9 and all as texts.
TextOrder == [e0 |-> 1, e0_old |-> 2, e1 |-> 3, e10 |-> 4, e9 |-> 5, all |-> 6]

\* The subdirectories of git/.
Epochs == [name : DOMAIN TextOrder, repo : Repos]

IsNumber(name) == name \in DOMAIN NumberOf

\* Faulty variant: names are compared as texts.
ByText(a, b) == TextOrder[a.name] < TextOrder[b.name]

\* The comparison of find_epochs.
Precedes(a, b) ==
    IF "all" \in {a.name, b.name} THEN b.name = "all" /\ a.name # "all"
    ELSE IF IsNumber(a.name) /\ IsNumber(b.name) THEN NumberOf[a.name] < NumberOf[b.name]
    ELSE TextOrder[a.name] < TextOrder[b.name]

Ordered(epochs) == SortBy(epochs, Precedes)

\* epochs_to_use: an inbox without epochs is one, of its own commits.
EpochsToUse(epochs, own, name) ==
    IF epochs = <<>> THEN <<[name |-> name, size |-> own]>> ELSE Ordered(epochs)

EpochCommits(epoch) == [place \in 1 .. epoch.size |-> [epoch |-> epoch.name, place |-> place]]

Commits(epochs) == FlattenSeq([k \in DOMAIN epochs |-> EpochCommits(epochs[k])])

EmailId(num, epoch, place) ==
    [num |-> num, epoch |-> epoch, sha |-> [epoch |-> epoch, place |-> place]]

\* The complete walk: process_epoch cuts off commits of later epochs that it
\* takes for old ones (PublicInbox models that), so that a real walk writes
\* some of these identifiers, each with the same number.
Walk(epochs, own) ==
    LET commits == Commits(EpochsToUse(epochs, own, "all"))
    IN  [n \in DOMAIN commits |-> EmailId(n, commits[n].epoch, commits[n].place)]

\* Faulty variant: the commits of earlier epochs are not subtracted.
CountDownUnreduced(acc, epoch) ==
    IF acc.found # <<>> \/ acc.index > epoch.size THEN acc
    ELSE [acc EXCEPT !.found = <<EmailId(acc.index, epoch.name, acc.remaining)>>]

\* One epoch of the loop of read_email_by_index.
CountDown(acc, epoch) ==
    IF acc.found # <<>> THEN acc
    ELSE IF acc.remaining <= epoch.size
         THEN [acc EXCEPT !.found = <<EmailId(acc.index, epoch.name, acc.remaining)>>]
    ELSE [acc EXCEPT !.remaining = @ - epoch.size]

\* read_email_by_index: what it archives, <<>> for an error.
EmailByIndex(epochs, own, index) ==
    IF index = 0 THEN <<>>
    ELSE FoldLeft(CountDown, [index |-> index, remaining |-> index, found |-> <<>>],
                  EpochsToUse(epochs, own, "e1")).found

\* parse_email_id: the epoch ends at the first dash.
ParseEmailId(id) ==
    IF id.epoch = "e0_old" THEN [num |-> id.num, epoch |-> "e0", sha |-> "old"] ELSE id

\* Faulty variant: every epoch is searched up to the one that is named.
FindEmailByIdFirst(epochs, id) ==
    Filter(SubSeq(Commits(Ordered(epochs)), 1, 1), LAMBDA commit :
                commit.place = ParseEmailId(id).sha.place)

\* find_email_by_id, as check_git --email-id uses it.
FindEmailById(epochs, id) ==
    Filter(Commits(Ordered(epochs)), LAMBDA commit :
                /\ commit.epoch = ParseEmailId(id).epoch
                /\ commit = ParseEmailId(id).sha)

\* collect_inbox_commits: the positions of check_git, newest epoch first.
CollectCommits(epochs, own) == Commits(Reverse(EpochsToUse(epochs, own, "all")))

\* Faulty variant: the last page is left out unless it is full.
PagesFloor(commits, size) == Len(commits) \div size

\* browse_inbox: the number of pages, and the page at start.
Pages(commits, size) == (Len(commits) + size - 1) \div size

Page(commits, size, page) ==
    LET end == (page + 1) * size
    IN  SubSeq(commits, page * size + 1, IF end > Len(commits) THEN Len(commits) ELSE end)

\* process_inbox unwraps the parse of every epoch's name when it resumes.
ResumePanics(epochs, own, resume) ==
    /\ resume # "all"
    /\ \E epoch \in Range(EpochsToUse(epochs, own, "all")) :
         ~IsNumber(epoch.name) \/ ~IsNumber(resume)

-----------------------------------------------------------------------------
(* Properties. *)

(***************************************************************************)
(* A visit of an inbox the lister offers finds repositories it can read,   *)
(* however many of its epochs are half mirrored; what detect_inbox never   *)
(* looks at is whether a single repository opens, and where alternates     *)
(* that lead outside would have to be followed to.                         *)
(***************************************************************************)
ListedIsReadable(dir) ==
    /\ Listed(dir)
    /\ dir.alternates # "outside"
    /\ dir.all.master => dir.all.opens
    /\ dir.self.master => dir.self.opens
    => \A k \in DOMAIN ReposToRead(dir) : Readable(ReposToRead(dir)[k])

\* What a mirror does next: git/ appears, or a repository grows.
Grown(repo) ==
    {[repo EXCEPT !.objects = TRUE, !.filled = TRUE],
     [repo EXCEPT !.head = TRUE, !.opens = @ \/ repo.objects],
     [repo EXCEPT !.master = @ \/ (repo.head /\ repo.objects)]}

Growth(dir) ==
    {[dir EXCEPT !.git = dir.git \/ ~dir.self.head]}
    \cup {[dir EXCEPT !.all = repo] : repo \in Grown(dir.all)}
    \cup {[dir EXCEPT !.self = repo] : repo \in Grown(dir.self)}
    \cup UNION {{[dir EXCEPT !.epochs[k].repo = repo] : repo \in Grown(dir.epochs[k].repo)} :
                  k \in DOMAIN dir.epochs}

(***************************************************************************)
(* process_inbox expects to detect again what the lister detected: a       *)
(* mirror that goes on between the two never makes it panic.               *)
(***************************************************************************)
StaysDetected(dir) ==
    DetectInbox(dir) # NoInbox => \A later \in Growth(dir) : DetectInbox(later) # NoInbox

(***************************************************************************)
(* Range mode archives e-mail n of an inbox with epochs under the          *)
(* identifier of the n-th e-mail of a complete first walk, so a retry      *)
(* replaces the file instead of adding a second one under another name,    *)
(* and an index beyond the last e-mail archives nothing.                   *)
(***************************************************************************)
IndexIsWalk(epochs, own) ==
    epochs # <<>> =>
      \A n \in 0 .. Len(Walk(epochs, own)) + 1 :
        EmailByIndex(epochs, own, n) =
          IF n \in DOMAIN Walk(epochs, own) THEN <<Walk(epochs, own)[n]>> ELSE <<>>

(***************************************************************************)
(* Of an inbox with epochs, none of them with a dash in its name, every    *)
(* identifier of a walk leads back to the commit the e-mail was read from, *)
(* and to no other.                                                        *)
(***************************************************************************)
LookupFinds(epochs, own) ==
    (epochs # <<>> /\ \A k \in DOMAIN epochs : epochs[k].name # "e0_old") =>
      \A n \in DOMAIN Walk(epochs, own) :
        FindEmailById(epochs, Walk(epochs, own)[n]) = <<Walk(epochs, own)[n].sha>>

(***************************************************************************)
(* Numbered epochs are read in the order of their numbers, however the     *)
(* directory lists them: the first position of check_git is the newest     *)
(* commit of the highest epoch, and a walk resumes without a panic from    *)
(* every identifier either mode wrote.                                     *)
(***************************************************************************)
NumbersOrderEpochs(epochs, own) ==
    (epochs # <<>> /\ \A k \in DOMAIN epochs : IsNumber(epochs[k].name) /\ epochs[k].size > 0) =>
      /\ \A k \in DOMAIN epochs :
           NumberOf[epochs[k].name] <= NumberOf[CollectCommits(epochs, own)[1].epoch]
      /\ \A id \in Range(Walk(epochs, own)) : ~ResumePanics(epochs, own, id.epoch)

\* The pages of check_git show every commit once, in order, none empty.
PagesPartition(epochs, own, size) ==
    LET commits == CollectCommits(epochs, own)
        pages   == [p \in 1 .. Pages(commits, size) |-> Page(commits, size, p - 1)]
    IN  FlattenSeq(pages) = commits /\ \A p \in DOMAIN pages : pages[p] # <<>>
=============================================================================
