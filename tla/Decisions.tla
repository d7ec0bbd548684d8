------------------------------- MODULE Decisions -------------------------------
(***************************************************************************)
(* Feeds the functions that decide what the archiver, the check tools, the *)
(* parser and the anonymizer read, write or keep every input that can be   *)
(* put together of some items, which an action per topic appends one by    *)
(* one.                                                                    *)
(***************************************************************************)
EXTENDS Inboxes, Selection, Identity, Subject, Body, Headers

CONSTANTS
    MaxLength,    \* items of an input, by topic (bound)
    Directories,  \* directories of public inboxes
    EpochSizes,   \* epochs as their names and numbers of commits
    OwnCommits,   \* commits of an inbox without epochs
    PageSize,     \* commits on a page of check_git
    Parts,        \* what can stand between the commas of a range
    Available,    \* the lists of a server
    More,         \* the lists it has besides when it is asked again
    Patterns,     \* what a selection of lists consists of
    Sources,      \* configured sources
    Threads,      \* values of nthreads
    Servers,      \* server addresses as typed
    Groups,       \* the groups check_nntp finds
    ChosenGroups, \* the pattern
    ChosenParts,  \* and the range its user chose
    MailmapLines, \* lines of the mailmap
    Trailers,     \* the addresses of an e-mail's trailers
    Texts,        \* what the line of a text consists of
    SubjectTokens, \* tokens of a subject
    BodyLines,    \* lines of a body
    PatchLines,   \* and of one that is looked through for patches
    DateHeaders,  \* Date and Received headers
    Candidates,   \* possible senders
    Boxes         \* parts of a header of recipients

ASSUME InboxesAssumption ==
    /\ Directories \subseteq [git : BOOLEAN, epochs : Seq(Epochs), all : Repos, self : Repos,
                              alternates : {"none", "dead", "outside", "epochs"}]
    /\ EpochSizes \subseteq [name : DOMAIN TextOrder, size : Nat]
    /\ OwnCommits \in Nat /\ PageSize \in Nat \ {0}

\* No server offers a list twice, or one with the name the code gives to all.
ASSUME ListsAssumption ==
    /\ Available \in Seq(STRING) /\ More \in Seq(STRING)
    /\ \A i, j \in DOMAIN (Available \o More) :
         (Available \o More)[i] = (Available \o More)[j] => i = j
    /\ "*" \notin Range(Available)
    /\ Patterns \subseteq [name : STRING, matches : SUBSET STRING]

ASSUME SourcesAssumption ==
    /\ Threads \subseteq Nat
    /\ Sources \subseteq [mode : {"NNTP", "PublicInbox"}, valid : BOOLEAN, reachable : BOOLEAN,
                          available : Seq(STRING), patterns : Seq([name : STRING, matches : SUBSET STRING])]
    /\ Servers \subseteq [scheme : {"", "nntp", "nntps"}, host : STRING,
                          port : {"none", "119", "text", "large"}]

\* A number is written as itself.
ASSUME RangesAssumption ==
    /\ Parts \subseteq RangeParts /\ ChosenParts \in Seq(RangeParts)
    /\ ChosenGroups \in [name : STRING, matches : SUBSET STRING]
    /\ Groups \subseteq [name : STRING, rank : Nat, selectable : BOOLEAN, articles : SUBSET Nat]
    /\ \A g, h \in Groups : g.rank = h.rank => g.name = h.name

ASSUME TextsAssumption ==
    /\ MailmapLines \subseteq [pairs : Seq(Addresses), bytes : {"ascii", "shifts", "panics"}]
    /\ Trailers \in Seq(Addresses \cup {NoAddress})
    /\ Texts \subseteq {Sep} \cup [kind : {"word", "bare", "box", "loose"}, of : STRING]

ASSUME ParsingAssumption ==
    /\ SubjectTokens \subseteq Tokens
    /\ BodyLines \subseteq LineKinds /\ PatchLines \subseteq LineKinds
    /\ DateHeaders \subseteq DateTexts
    /\ Candidates \subseteq [name : BOOLEAN, form : Forms]
    /\ Boxes \subseteq {box \in [name : BOOLEAN, addr : BOOLEAN, stray : Int] :
                          box.name \/ box.addr}

VARIABLES topic, input

\* "*" is the first of the lists the user is asked to choose from.
Options == <<"*">> \o Available

Picks == [k \in DOMAIN input |-> Options[input[k]]]

InputsOf ==
    [directory |-> Directories, epochs |-> EpochSizes, range |-> Parts,
     selection |-> Patterns, picks |-> DOMAIN Options, sources |-> Sources,
     server |-> Servers, batch |-> Groups, mailmap |-> MailmapLines, line |-> Texts,
     subject |-> SubjectTokens, body |-> BodyLines, patches |-> PatchLines,
     dates |-> DateHeaders, sender |-> Candidates, boxes |-> Boxes]

ASSUME LengthsAssumption == MaxLength \in [DOMAIN InputsOf -> Nat]

Init == topic \in DOMAIN InputsOf /\ input = <<>>

\* No two epochs, groups or sources of one name; choices in their order.
Fits(item) ==
    \A k \in DOMAIN input :
      CASE topic \in {"epochs", "batch"} -> input[k].name # item.name
        [] topic = "sources" -> input[k].mode = "NNTP" /\ item.mode = "PublicInbox"
        [] topic = "picks" -> input[k] < item
        [] OTHER -> TRUE

Next ==
    /\ Len(input) < MaxLength[topic]
    /\ \E item \in InputsOf[topic] : Fits(item) /\ input' = Append(input, item)
    /\ UNCHANGED topic

Spec == Init /\ [][Next]_<<topic, input>>

-----------------------------------------------------------------------------
(* The properties of the functions, of the inputs of their topics.         *)

(***************************************************************************)
(* mailmap.rs and the anonymizer: a canonical address stands at the        *)
(* position of its trailer; an anonymized row holds no address in its      *)
(* identity columns but the loose ones behind the last whole one of their  *)
(* entry, and of a text in lines keeps no whole one behind a name; an      *)
(* identity has one hash wherever it stands in a list.                     *)
(***************************************************************************)
IdentitiesKept ==
    /\ topic = "mailmap" => CanonicalAtPosition(input, Trailers)
    /\ topic = "line" => /\ RowAnonymous(input) /\ StraysLeft(input)
                         /\ LeftOnlyInRow(input) /\ EntriesApart(input)

\* detect_inbox, find_epochs: what the lister offers a visit can read, also
\* if the mirror has gone on between the two.
InboxesReadable ==
    topic = "directory" => \A k \in DOMAIN input :
      ListedIsReadable(input[k]) /\ StaysDetected(input[k])

(***************************************************************************)
(* pi_worker.rs, pi_utils.rs, check_git: range mode and the walk give an   *)
(* e-mail one identifier, which leads back to its commit; epochs are read  *)
(* in the order of their numbers; the pages show every commit once.        *)
(***************************************************************************)
EmailsNumbered ==
    topic = "epochs" =>
      /\ IndexIsWalk(input, OwnCommits) /\ LookupFinds(input, OwnCommits)
      /\ NumbersOrderEpochs(input, OwnCommits)
      /\ PagesPartition(input, OwnCommits, PageSize)

(***************************************************************************)
(* config.rs, range_inputs.rs, worker.rs, check_nntp: a range is read as a *)
(* whole or not at all, a selection names each of its lists once and can   *)
(* be saved, every source gets workers and its own lists, a server is      *)
(* addressed as typed, and a batch goes on to the first failure.           *)
(***************************************************************************)
SelectionSound ==
    /\ topic = "range" => AllOrNothing(input)
    /\ topic = "selection" => EachListOnce(input, Available)
    /\ topic = "picks" => SelectionRestored(Picks, Available, More)
    /\ topic = "sources" => \A nthreads \in Threads : EverySourceServed(input, nthreads)
    /\ topic = "server" => \A k \in DOMAIN input : AddressAsTyped(input[k])
    /\ topic = "batch" => BatchStopsAtFailure(input, ChosenGroups, ChosenParts)

(***************************************************************************)
(* extractors.rs: the tags of a subject are the run at its start and Re:   *)
(* in front adds only itself; every Fixes: tag and every trailer of a body *)
(* is found once, wrapped or not; every diff is in exactly one patch.      *)
(***************************************************************************)
ExtractorsExact ==
    /\ topic = "subject" => TagsAreLeadingRun(input) /\ ReplyKeepsTags(input)
    /\ topic = "body" => FixesExact(Lines(input)) /\ TrailersExact(Lines(input))
    /\ topic = "patches" => PatchesPartition(Lines(input))

(***************************************************************************)
(* email_parser.rs, address_parser.rs: wrong clocks in a minority of the   *)
(* headers do not move an e-mail; its sender is the best named one of the  *)
(* headers and the text; no recipient is lost, doubled or moved, whichever *)
(* way the header is read.                                                 *)
(***************************************************************************)
HeadersKept ==
    /\ topic = "dates" => MajorityWins(input)
    /\ topic = "sender" => \A k \in 0 .. Len(input) :
         SenderIsNamed(SubSeq(input, 1, k), SubSeq(input, k + 1, Len(input)))
    /\ topic = "boxes" => AddressesKept(input) /\ PathsAgree(input)
=============================================================================
