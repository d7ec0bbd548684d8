------------------------------- MODULE Headers -------------------------------
(***************************************************************************)
(* What the parser makes of the headers of an e-mail: its date, its sender *)
(* and its recipients.  Times are in hours, a year has 360 days; a date    *)
(* written in some format is its parts, an address the fact that it is     *)
(* there, so that only what is kept and what is chosen matters.            *)
(***************************************************************************)
EXTENDS Integers, Sequences, SequencesExt, FiniteSetsExt, Iterators

CONSTANTS
    Now,     \* the time of the run
    Oldest   \* OLDEST_MAIL_DATE_CUTOFF, a year

ASSUME HeadersAssumption == Now \in Nat /\ Oldest \in Nat

Day       == 24
YearHours == 360 * Day

YearOf(t) == t \div YearHours

NoDate == -1

(***************************************************************************)
(* Dates.  A date text has a style (mail: 5 Jun 2012 10:00:00 +0200, iso,  *)
(* ctime, dash: 5-Jun-2012 10:00:00 GMT, or junk), the local time as the   *)
(* year is written, the number of digits of the year and a zone:           *)
(* [kind |-> "num", "name", "none" or "absurd", offset |-> hours].         *)
(***************************************************************************)

DateTexts ==
    [style : {"mail", "iso", "ctime", "dash", "junk"}, digits : {2, 4}, read : BOOLEAN, local : Int,
     zone : [kind : {"num", "name", "none", "absurd"}, offset : Int]]

\* Zones chrono reads from the text DATE_REGEX cuts out: with a year of two
\* digits the cut ends before the zone, and names are dropped by
\* TZ_STRIP_REGEX unless the format is that of RFC 2822.
ZoneIsRead(text) ==
    \/ text.style = "mail" /\ text.digits = 4 /\ text.zone.kind \in {"num", "name"}
    \/ text.style = "iso" /\ text.zone.kind = "num"

\* No date at all, or east_opt refuses the offset.
NotADate(text) ==
    \/ text.style = "junk"
    \/ text.style = "dash" /\ text.zone.kind # "name"
    \/ text.style = "mail" /\ text.digits = 4 /\ text.zone.kind = "absurd"
    \/ text.style = "iso" /\ text.zone.kind = "absurd"

ParseDateString(text) ==
    IF NotADate(text) THEN NoDate
    ELSE IF ZoneIsRead(text) THEN text.local - text.zone.offset
    ELSE text.local

\* mail_datetime_to_chrono, when mail_parser has read the header.
MailDate(text) ==
    IF text.zone.kind = "absurd" THEN NoDate ELSE text.local - text.zone.offset

\* One of them: what mail_parser has read, or else what the text gives.
DateOption(text) ==
    IF text.read /\ MailDate(text) # NoDate THEN MailDate(text) ELSE ParseDateString(text)

\* The Date and Received headers of collect_header_data.
DateOptions(headers) ==
    Filter([k \in DOMAIN headers |-> DateOption(headers[k])], LAMBDA t : t # NoDate)

\* fix_millennium_date: the year 95 is 1995, 12 is 2012.
FixMillennium(t) ==
    LET year     == YearOf(t)
        adjusted == year + (IF year < 50 THEN 2000 ELSE 1900)
    IN  IF year > 1000 \/ adjusted > YearOf(Now) THEN t
        ELSE t + (adjusted - year) * YearHours

\* check_date_issues
IsSafe(t) == YearOf(t) >= Oldest /\ t <= Now + 3 * Day

SafeDates(options) ==
    Sort(Filter([k \in DOMAIN options |-> FixMillennium(options[k])], IsSafe))

\* Twice the median of a sorted sequence.
Median2(s) ==
    LET mid == Len(s) \div 2
    IN  IF Len(s) % 2 = 1 THEN 2 * s[mid + 1] ELSE s[mid] + s[mid + 1]

Distance2(t, median2) == IF 2 * t > median2 THEN 2 * t - median2 ELSE median2 - 2 * t

\* Four times the median absolute deviation.
Mad4(safe) ==
    Median2(Sort([k \in DOMAIN safe |-> Distance2(safe[k], Median2(safe))]))

\* Faulty variant: the deviation is compared the wrong way round.
IsCoreWrong(t, safe) == 1349 * Distance2(t, Median2(safe)) >= 3500 * Mad4(safe)

\* modified_z_score <= 3.5
IsCore(t, safe) == 1349 * Distance2(t, Median2(safe)) <= 3500 * Mad4(safe)

SelectDate(options) ==
    LET safe == SafeDates(options)
        core == Filter(safe, LAMBDA t : IsCore(t, safe))
    IN  IF safe = <<>> THEN NoDate
        ELSE IF \/ Len(safe) <= 2
                \/ safe[Len(safe)] - safe[1] <= Day
                \/ Mad4(safe) = 0
                \/ Len(core) < 2
               THEN safe[1] ELSE core[1]

(***************************************************************************)
(* The sender.  A candidate has a name or not, and its address is written  *)
(* the standard way, obfuscated with (a) or with at, or is missing.        *)
(***************************************************************************)
Forms == {"none", "at", "a", "std"}

HasName(c) == c.name /\ c.form # "none"

\* Faulty variant: a standard address counts more than a name.
AddressFirst(c) == (IF c.form = "std" THEN 8 ELSE 0) + (IF HasName(c) THEN 4 ELSE 0)

\* The derived order of AddressScore: name, standard, kind of obfuscation.
Score(c) ==
    (IF HasName(c) THEN 8 ELSE 0)
    + (CASE c.form = "std" -> 4 [] c.form = "a" -> 2 [] c.form = "at" -> 1
         [] OTHER -> 0)

\* The first of the best (sort_by_key is stable).
BestOf(candidates) ==
    candidates[SelectInSeq(candidates, LAMBDA c :
      \A k \in DOMAIN candidates : Score(candidates[k]) <= Score(c))]

\* From: lines of the whole text are candidates if no header has a name.
FromCandidates(header, body) ==
    IF \E k \in DOMAIN header : HasName(header[k]) THEN header ELSE header \o body

\* select_best_from_header
SelectFrom(header, body) == BestOf(FromCandidates(header, body))

(***************************************************************************)
(* Recipients.  A header value is a sequence of boxes between commas, each *)
(* with a name, an address or both, and a stray bracket or none: +1 for a  *)
(* < that is not closed, -1 for a > that is not open.                      *)
(***************************************************************************)
Entry(names, addrs) == [names |-> names, addrs |-> addrs]

BoxEntry(boxes, k) ==
    Entry(IF boxes[k].name THEN <<k>> ELSE <<>>, IF boxes[k].addr THEN <<k>> ELSE <<>>)

Both(e, f) == Entry(e.names \o f.names, e.addrs \o f.addrs)

\* Each entry stays, but one of partial becomes one with the next, unless
\* it is taken by the one before.
MergeStep(entries, partial, acc, k) ==
    IF acc.skip THEN [acc EXCEPT !.skip = FALSE]
    ELSE IF k \in partial
      THEN [out |-> Append(acc.out, Both(entries[k], entries[k + 1])), skip |-> TRUE]
      ELSE [out |-> Append(acc.out, entries[k]), skip |-> FALSE]

MergeNeighbours(entries, partial) ==
    FoldLeft(LAMBDA acc, k : MergeStep(entries, partial, acc, k),
             [out |-> <<>>, skip |-> FALSE], Positions(entries)).out

\* normalize_address_list, of a header mail_parser has split.
NormalizeAddressList(boxes) ==
    LET entries == [k \in DOMAIN boxes |-> BoxEntry(boxes, k)]
    IN  MergeNeighbours(entries, {k \in 1 .. Len(entries) - 1 :
          /\ entries[k].names # <<>> /\ entries[k].addrs = <<>>
          /\ entries[k + 1].names # <<>> /\ entries[k + 1].addrs # <<>>})

\* Every comma is read as a separator where the brackets before it are
\* balanced; quotes around a name do not shield the commas in it.
Depth(boxes) == FoldLeft(LAMBDA depth, box : depth + box.stray, 0, boxes)
Splits(boxes, k) == Depth(SubSeq(boxes, 1, k)) = 0

\* Faulty variant: what follows the last comma that separates is lost.
RawPartsUnflushed(boxes) ==
    LET last == SelectLastInSeq([k \in DOMAIN boxes |-> Splits(boxes, k)],
                                LAMBDA splits : splits)
    IN  [k \in 1 .. last |-> BoxEntry(boxes, k)]

\* The parts normalize_raw_address_header cuts the text into.
AddBox(boxes, parts, k) ==
    IF k = 1 \/ Splits(boxes, k - 1) THEN Append(parts, BoxEntry(boxes, k))
    ELSE [parts EXCEPT ![Len(parts)] = Both(@, BoxEntry(boxes, k))]

RawParts(boxes) ==
    FoldLeft(LAMBDA parts, k : AddBox(boxes, parts, k), <<>>, Positions(boxes))

\* Faulty variant: the name in front of a merged part is dropped with it.
NormalizeRawDropping(boxes) ==
    Filter(RawParts(boxes), LAMBDA e : e.addrs # <<>>)

\* normalize_raw_address_header and merge_incomplete_parts, where the text
\* has an obfuscated address.
NormalizeRaw(boxes) ==
    LET parts == RawParts(boxes)
    IN  MergeNeighbours(parts, {k \in 1 .. Len(parts) - 1 :
                                  parts[k].addrs = <<>> /\ parts[k + 1].addrs # <<>>})

-----------------------------------------------------------------------------
(* Properties. *)

\* More than half of the dates lie within a day of each other.
HasMajority(safe, t) ==
    2 * Cardinality({k \in DOMAIN safe : t <= safe[k] /\ safe[k] <= t + Day}) > Len(safe)

\* More than half of the dates are the same one.
FilterOff(safe) ==
    \E t \in ToSet(safe) : 2 * Cardinality({k \in DOMAIN safe : safe[k] = t}) > Len(safe)

(***************************************************************************)
(* How far wrong clocks move an e-mail if most of the dates of its headers *)
(* agree within a day.  They never make it later than the six days that a  *)
(* deviation of 3.5 spans (the two days of the comment in the code are not *)
(* what it computes), nor earlier, with one exception: if more than half   *)
(* of the dates are the same, the median deviation is 0 and the filter is  *)
(* off, and the earliest date is chosen, however wrong it is.              *)
(***************************************************************************)
MajorityWins(headers) ==
    LET safe == SafeDates(DateOptions(headers))
        date == SelectDate(DateOptions(headers))
    IN  Len(safe) > 2 =>
          \A t \in ToSet(safe) : HasMajority(safe, t) =>
            /\ date < t + 6 * Day
            /\ t - 6 * Day < date \/ (FilterOff(safe) /\ date = safe[1])

\* The sender chosen has a name if any candidate has one, of the headers
\* rather than of the text, and an address if any candidate has one.
SenderIsNamed(header, body) ==
    LET all    == header \o body
        sender == SelectFrom(header, body)
    IN  all # <<>> =>
          /\ HasName(sender) <=> \E k \in DOMAIN all : HasName(all[k])
          /\ (\E k \in DOMAIN header : HasName(header[k])) => sender \in ToSet(header)
          /\ sender.form = "none" => \A k \in DOMAIN all : all[k].form = "none"

AddressesOf(entries) == FlattenSeq([k \in DOMAIN entries |-> entries[k].addrs])

\* On either path every address of the header comes out once and in order,
\* also after a bracket that is never closed or was never open.
AddressesKept(boxes) ==
    LET addresses == Filter(Positions(boxes), LAMBDA k : boxes[k].addr)
    IN  /\ AddressesOf(NormalizeAddressList(boxes)) = addresses
        /\ AddressesOf(NormalizeRaw(boxes)) = addresses

(***************************************************************************)
(* Whether " at " occurs somewhere in the header decides which path it     *)
(* takes; for balanced brackets, and where no name is followed by a bare   *)
(* address, both paths give the same recipients with the same names.       *)
(***************************************************************************)
PathsAgree(boxes) ==
    /\ \A k \in DOMAIN boxes : boxes[k].stray = 0
    /\ \A k \in 2 .. Len(boxes) : ~boxes[k - 1].addr /\ boxes[k].addr => boxes[k].name
    => NormalizeAddressList(boxes) = NormalizeRaw(boxes)
=============================================================================
