------------------------------- MODULE Selection -------------------------------
(***************************************************************************)
(* What a run is about: the lists it reads, the e-mail numbers of range    *)
(* mode, and the workers it starts; and the same choices in check_nntp.    *)
(***************************************************************************)
EXTENDS Integers, Sequences, FiniteSets, SequencesExt, Iterators

(***************************************************************************)
(* range_inputs.  A part between two commas is a number, a range, or       *)
(* malformed in one of the ways parse_sequence tells apart.                *)
(***************************************************************************)
RangeParts ==
    {part \in [kind : {"number", "range", "empty", "word", "wordrange"}, first : Nat, last : Nat] :
       part.kind = "number" => part.first = part.last}

PartNumbers(part) ==
    CASE part.kind = "number" -> <<part.first>>
      [] part.kind = "range"  -> [k \in 1 .. part.last - part.first + 1 |-> part.first + k - 1]
      [] OTHER                -> <<>>

PartError(part) ==
    CASE part.kind = "empty"     -> "EmptyPart"
      [] part.kind = "word"      -> "InvalidNumber"
      [] part.kind = "wordrange" -> "InvalidRange"
      [] part.kind = "range" /\ part.first > part.last -> "DescendingRange"
      [] OTHER                   -> "none"

\* Faulty variant: the parts before a malformed one are used.
ParseSequenceLazy(parts) ==
    [error |-> IF parts = <<>> THEN "EmptyPart" ELSE PartError(parts[1]),
     numbers |-> FlattenSeq([k \in DOMAIN parts |-> PartNumbers(parts[k])])]

\* The text "" has one part, an empty one.
ParseSequence(parts) ==
    LET k == SelectInSeq(parts, LAMBDA part : PartError(part) # "none")
    IN  CASE parts = <<>> -> [error |-> "EmptyPart", numbers |-> <<>>]
          [] k # 0        -> [error |-> PartError(parts[k]), numbers |-> <<>>]
          [] OTHER        ->
               [error |-> "none",
                numbers |-> FlattenSeq([j \in DOMAIN parts |-> PartNumbers(parts[j])])]

(***************************************************************************)
(* The selection of lists.  A pattern is its name and the lists it matches *)
(* (one that does not compile as a glob matches none).                     *)
(***************************************************************************)
\* Faulty variant: a list two patterns match is taken twice.
TakenUnseen(pattern, available, matched) ==
    Filter(available, LAMBDA list : list \in pattern.matches)

\* The lists a pattern adds; expand_glob_patterns keeps those seen apart.
Taken(pattern, available, matched) ==
    Filter(available, LAMBDA list :
                list \in pattern.matches /\ list \notin Range(matched))

ExpandOne(acc, pattern, available) ==
    LET taken == Taken(pattern, available, acc.matched)
    IN  [matched   |-> acc.matched \o taken,
         unmatched |-> IF taken = <<>> THEN Append(acc.unmatched, pattern) ELSE acc.unmatched]

ExpandGlobPatterns(patterns, available) ==
    FoldLeft(LAMBDA acc, pattern : ExpandOne(acc, pattern, available),
             [matched |-> <<>>, unmatched |-> <<>>], patterns)

\* Vec::dedup drops what equals its predecessor.
Dedup(seq) ==
    FoldLeft(LAMBDA acc, x : IF acc # <<>> /\ Last(acc) = x THEN acc ELSE Append(acc, x),
             <<>>, seq)

Star(available) == [name |-> "*", matches |-> Range(available)]
Exactly(list)   == [name |-> list, matches |-> {list}]

Lists(seq)    == [kind |-> "lists", lists |-> seq]
Stops(reason) == [kind |-> reason, lists |-> <<>>]

\* get_read_lists where a selection is configured.
Configured(patterns, available) ==
    LET matched == ExpandGlobPatterns(Dedup(patterns), available).matched
    IN  IF patterns = <<Star(available)>> THEN Lists(available)
        ELSE IF matched = <<>> THEN Stops("AllListsUnavailable")
        ELSE Lists(matched)

\* Faulty variant: the choices are saved before "*" is looked at.
InteractiveFirst(picks, available) ==
    IF picks = <<>> THEN Stops("panic")
    ELSE Lists(Filter(picks, LAMBDA pick : pick # "*"))

\* and where there is none: answer[0] is looked at first.
Interactive(picks, available) ==
    LET answer == IF picks[1] = "*" THEN available ELSE picks
    IN  IF picks = <<>> THEN Stops("panic")
        ELSE IF answer = <<>> THEN Stops("ListSelectionEmpty")
        ELSE Lists(answer)

\* set_list_selection keeps the lists by their names.
Saved(answer) == [k \in DOMAIN answer |-> Exactly(answer[k])]

(***************************************************************************)
(* start.  A source is its run mode, whether its configuration is valid,   *)
(* the lists its lister finds and the patterns selected.                   *)
(***************************************************************************)
\* Faulty variant: nthreads is taken as it is.
NumWorkersZero(nthreads) == nthreads

NumWorkers(nthreads) == IF nthreads > 1 THEN nthreads ELSE 1

\* retrieve_nntp_lists and retrieve_lists validate, and fail with the source.
Retrieved(source) == source.valid /\ source.reachable

CreateWorkers(source, nthreads) ==
    [mode |-> source.mode, workers |-> NumWorkers(nthreads),
     tasks |-> Configured(source.patterns, source.available).lists]

\* The groups the scheduler gets, or none: the first error ends start.
Start(sources, nthreads) ==
    IF \E k \in DOMAIN sources :
         \/ ~Retrieved(sources[k])
         \/ Configured(sources[k].patterns, sources[k].available).kind # "lists"
    THEN <<>>
    ELSE [k \in DOMAIN sources |-> CreateWorkers(sources[k], nthreads)]

(***************************************************************************)
(* check_nntp.                                                             *)
(***************************************************************************)
\* Faulty variant: the text behind the last colon is cut off.
ParseServerUrlCut(input) ==
    [error |-> input.port = "large", hostname |-> [input EXCEPT !.port = "none"],
     port |-> IF input.port = "text" THEN "none" ELSE input.port,
     use_tls |-> input.scheme = "nntps"]

\* A server as typed: port is what stands behind its last colon.
ParseServerUrl(input) ==
    IF input.port = "large" \/ (input.scheme = "" /\ input.host = "" /\ input.port # "text")
    THEN [error |-> TRUE]
    ELSE [error    |-> FALSE,
          hostname |-> IF input.port = "text" THEN input ELSE [input EXCEPT !.port = "none"],
          port     |-> IF input.port = "text" THEN "none" ELSE input.port,
          use_tls  |-> input.scheme = "nntps"]

ServerAddress(hostname, port) ==
    IF port = "none" THEN hostname ELSE [hostname EXCEPT !.port = port]

\* filter_by_glob: sorted by name.
FilterByGlob(groups, pattern) ==
    SortBy(Filter(groups, LAMBDA g : g.name \in pattern.matches), LAMBDA g, h : g.rank < h.rank)

\* Faulty variant: the connection is kept when a group cannot be selected.
ShowGroupKept(acc, group, ids) ==
    IF group.selectable
    THEN [acc EXCEPT !.shown = @ \o Filter(ids, LAMBDA id : id \in group.articles)]
    ELSE acc

\* fetch_and_display_articles: a group that cannot be selected ends the
\* connection, and on an ended connection none can.
ShowGroup(acc, group, ids) ==
    IF ~acc.connected \/ ~group.selectable THEN [acc EXCEPT !.connected = FALSE]
    ELSE [acc EXCEPT !.shown = @ \o Filter(ids, LAMBDA id : id \in group.articles)]

\* batch_mode, the user going on to every list; parse_id_range reads ".."
\* as "-" and stops the tool at an error.
BatchMode(groups, pattern, parts) ==
    FoldLeft(LAMBDA acc, group : ShowGroup(acc, group, ParseSequence(parts).numbers),
             [connected |-> TRUE, shown |-> <<>>],
             IF ParseSequence(parts).error = "none" THEN FilterByGlob(groups, pattern) ELSE <<>>)

-----------------------------------------------------------------------------
(* Properties. *)

\* The numbers between the commas, read one part at a time.
Wanted(parts) ==
    UNION {IF parts[k].kind \in {"number", "range"} THEN parts[k].first .. parts[k].last ELSE {} :
             k \in DOMAIN parts}

(***************************************************************************)
(* A range that is accepted gives all the numbers of all its parts, in the *)
(* order of the text; one malformed part anywhere gives none of them, so a *)
(* run never archives half of what its configuration says.                 *)
(***************************************************************************)
AllOrNothing(parts) ==
    LET result    == ParseSequence(parts)
        malformed == \/ parts = <<>>
                     \/ \E k \in DOMAIN parts :
                          \/ parts[k].kind \notin {"number", "range"}
                          \/ parts[k].first > parts[k].last
    IN  IF malformed THEN result.error # "none" /\ result.numbers = <<>>
        ELSE /\ Range(result.numbers) = Wanted(parts)
             /\ \A k \in DOMAIN parts :
                  IsPrefix(ParseSequence(SubSeq(parts, 1, k)).numbers, result.numbers)

(***************************************************************************)
(* A selection yields the available lists some pattern matches, each once: *)
(* two tasks of one list would put two workers in one directory.  It fails *)
(* only if there is none: a selection that is matched in part is read in   *)
(* part, though the comment of get_read_lists promises an error then, and  *)
(* the patterns that match nothing are named in a warning.                 *)
(***************************************************************************)
EachListOnce(patterns, available) ==
    LET result == Configured(patterns, available)
        some   == {list \in Range(available) :
                     \E k \in DOMAIN patterns : list \in patterns[k].matches}
    IN  /\ Range(result.lists) = some
        /\ Len(result.lists) = Cardinality(some)
        /\ result.kind = "lists" <=> some # {} \/ patterns = <<Star(available)>>
        /\ \A k \in DOMAIN patterns : patterns[k].matches \cap Range(available) = {} =>
             patterns[k] \in Range(ExpandGlobPatterns(Dedup(patterns), available).unmatched)

\* The lists of a server once some are gone.
Without(seq, gone) == Filter(seq, LAMBDA list : list \notin gone)

(***************************************************************************)
(* What was chosen interactively and saved is what the next run reads, in  *)
(* the same order, as far as the server still has it, whatever else it     *)
(* offers by then; the run fails if nothing of it is left.                 *)
(***************************************************************************)
SelectionRestored(picks, available, more) ==
    LET chosen == Interactive(picks, available)
        wanted == IF picks[1] = "*" THEN available ELSE picks
    IN  chosen.kind = "lists" =>
          \A gone \in SUBSET Range(available) :
            Configured(Saved(chosen.lists), Without(available \o more, gone)) =
              IF Without(wanted, gone) = <<>> THEN Stops("AllListsUnavailable")
              ELSE Lists(Without(wanted, gone))

(***************************************************************************)
(* Either nothing is started, or every configured source has a worker and  *)
(* its own lists: with no worker the producer would wait for ever.         *)
(***************************************************************************)
EverySourceServed(sources, nthreads) ==
    LET groups == Start(sources, nthreads)
    IN  groups = <<>> \/
          /\ DOMAIN groups = DOMAIN sources
          /\ \A k \in DOMAIN groups :
               /\ groups[k].workers >= 1
               /\ Range(groups[k].tasks) \subseteq Range(sources[k].available)

\* The port typed is the port used, on the host typed, and TLS is for nntps.
AddressAsTyped(input) ==
    LET cfg == ParseServerUrl(input)
    IN  ~cfg.error => /\ ServerAddress(cfg.hostname, cfg.port) = input
                      /\ cfg.use_tls <=> input.scheme = "nntps"

(***************************************************************************)
(* The batch mode of check_nntp shows the chosen articles of the lists     *)
(* before the first one that cannot be selected, and of no list behind it. *)
(***************************************************************************)
BatchStopsAtFailure(groups, pattern, parts) ==
    LET chosen == FilterByGlob(groups, pattern)
        k      == SelectInSeq(chosen, LAMBDA g : ~g.selectable)
        good   == IF k = 0 THEN chosen ELSE SubSeq(chosen, 1, k - 1)
        ids    == ParseSequence(parts).numbers
    IN  BatchMode(groups, pattern, parts).shown =
          FlattenSeq([j \in DOMAIN good |->
                        Filter(ids, LAMBDA id : id \in good[j].articles)])
=============================================================================
