--------------------------------- MODULE Body ---------------------------------
(***************************************************************************)
(* What the parser finds in the text of an e-mail: trailers, Fixes: tags   *)
(* and patches.  A body is a sequence of lines, each of a kind:            *)
(*   full      Fixes: sha ("summary")                                      *)
(*   bare      Fixes: sha                                                  *)
(*   open      Fixes: sha ("summary, broken off at the end of the line     *)
(*   openup    the same with a digit of the sha in upper case              *)
(*   close     ...summary")      odd   ...summary)"                        *)
(*   trailer   Some-by: Name <address>                                     *)
(*   name      Some-by: Name     addr  <address>                           *)
(*   dashes    ---               diff  diff --git ...                      *)
(*   sig       the line "-- "    text  anything else, without parentheses  *)
(* at is the number of the line in the e-mail.                             *)
(***************************************************************************)
EXTENDS Naturals, Sequences, SequencesExt, FiniteSets, Iterators

LineKinds == {"full", "bare", "open", "openup", "close", "odd", "trailer", "name", "addr",
              "dashes", "diff", "sig", "text"}

Lines(kinds) == [k \in DOMAIN kinds |-> [kind |-> kinds[k], at |-> k]]

\* get_body: the plain text parts, or else the HTML ones, joined.
GetBody(plain, html) ==
    LET kept(parts) == Filter(parts, LAMBDA part : part # <<>>)
    IN  FlattenSeq(IF kept(plain) # <<>> THEN kept(plain) ELSE kept(html))

\* Faulty variant: the text ends at the first separator.
CutAtDashes(lines) ==
    LET k == SelectInSeq(lines, LAMBDA line : line.kind = "dashes")
    IN  IF k = 0 THEN lines ELSE SubSeq(lines, 1, k - 1)

\* split("\n-- \n"): a signature mark is not the first line.
CutSignature(lines) ==
    LET k == SelectInSeq(Tail(lines), LAMBDA line : line.kind = "sig")
    IN  IF lines = <<>> \/ k = 0 THEN lines ELSE SubSeq(lines, 1, k)

Closing == {"full", "close", "odd"}   \* the kinds with a parenthesis closed

\* What two lines are once they are one.
Joined(first, second) ==
    [first EXCEPT !.kind =
       CASE @ = "open" /\ second.kind = "close" -> "full"
         [] @ \in {"trailer", "name"}           -> @
         [] OTHER                               -> "text"]

\* RE_COPYPASTE: from an open parenthesis, the last line break before the
\* next closed one is taken for a wrapped line and replaced by a blank.
CopypasteStep(acc, line) ==
    IF acc.open /\ line.kind \in Closing
      THEN [out |-> [acc.out EXCEPT ![Len(acc.out)] = Joined(@, line)], open |-> FALSE]
      ELSE [out |-> Append(acc.out, line), open |-> acc.open \/ line.kind = "open"]

JoinCopypaste(lines) ==
    FoldLeft(CopypasteStep, [out |-> <<>>, open |-> FALSE], lines).out

\* What both kinds of tags are looked for in.
Scanned(lines) == JoinCopypaste(CutSignature(lines))

\* RE_WRAPPED_SIGNATURE and RE_SIGNATURE: the numbers of the lines that are
\* trailers, the address on the same line or alone on the next.
ExtractAttributions(lines) ==
    LET body == Scanned(lines)
        IsTrailer(k) == \/ body[k].kind = "trailer"
                        \/ /\ body[k].kind = "name"
                           /\ k < Len(body) /\ body[k + 1].kind = "addr"
        found == Filter(Positions(body), IsTrailer)
    IN  [j \in DOMAIN found |-> body[found[j]].at]

\* Faulty variant: the line behind a tag without summary is not looked at.
SkipsBehindBare(body, k) == body[k].kind = "bare"

\* RE_FIXES_OPEN takes the next line, too, if the summary ends in it.
SkipsNext(body, k) ==
    body[k].kind \in {"open", "openup"} /\ k < Len(body) /\ body[k + 1].kind = "odd"

\* The while loop of extract_fixes_body_tags_from_body.
FixesStep(body, acc, k) ==
    IF acc.skip THEN [acc EXCEPT !.skip = FALSE]
    ELSE [found |-> IF body[k].kind \in {"full", "bare"} \/ SkipsNext(body, k)
                      THEN Append(acc.found, body[k].at) ELSE acc.found,
          skip  |-> SkipsNext(body, k)]

ExtractFixes(lines) ==
    LET body == Scanned(lines)
    IN  FoldLeft(LAMBDA acc, k : FixesStep(body, acc, k),
                 [found |-> <<>>, skip |-> FALSE], Positions(body)).found

IsDiff(line) == line.kind = "diff"
IsDashes(line) == line.kind = "dashes"

\* Faulty variant: a patch begins at a separator.
StartsAtDashes(lines) == {k \in DOMAIN lines : IsDashes(lines[k])}

\* A patch begins at a separator, and at the start of the body if there is
\* a diff before the first one.
PatchStarts(lines) ==
    LET dashes == {k \in DOMAIN lines : IsDashes(lines[k])}
        first  == SelectInSeq(lines, IsDashes)
        before == SubSeq(lines, 1, IF first = 0 THEN Len(lines) ELSE first - 1)
    IN  dashes \cup (IF first = 0 \/ SelectInSeq(before, IsDiff) # 0 THEN {1} ELSE {})

\* extract_patches: the sections that contain a diff, as intervals of lines.
ExtractPatches(lines) ==
    LET starts == Filter(Positions(lines), LAMBDA k : k \in PatchStarts(lines))
        End(k) == IF k < Len(starts) THEN starts[k + 1] - 1 ELSE Len(lines)
        HasDiff(section) == \E i \in section.from .. section.to : IsDiff(lines[i])
    IN  Filter([k \in DOMAIN starts |-> [from |-> starts[k], to |-> End(k)]], HasDiff)

-----------------------------------------------------------------------------
(* Properties. *)

\* Every summary that is broken off goes on, and ends, on the next line.
WellWrapped(lines) ==
    \A k \in DOMAIN lines : lines[k].kind = "open" =>
      k < Len(lines) /\ lines[k + 1].kind = "close"

\* Above the signature mark, which is not the first line.
Above(lines, k) == k \in DOMAIN lines /\ \A j \in 2 .. k : lines[j].kind # "sig"

\* The numbers of the lines above the signature with the property.
Numbers(lines, Test(_)) ==
    Filter(Positions(lines), LAMBDA k : Above(lines, k) /\ Test(k))

\* The tag of line k, whose sha has a digit in upper case, ends on the next
\* line: as the rules of the function ask, with ", or the other way round.
WrapsOn(lines, k) ==
    lines[k].kind = "openup" /\ Above(lines, k + 1) /\ lines[k + 1].kind \in {"close", "odd"}

(***************************************************************************)
(* The wrapped tags the code loses although the rules above the function   *)
(* say that they are found: RE_COPYPASTE joins lines only behind a sha in  *)
(* lower case, and what is left to RE_FIXES_OPEN is looked through for a   *)
(* parenthesis and a quotation mark in the wrong order.                    *)
(***************************************************************************)
LostWrapped(lines, k) == WrapsOn(lines, k) /\ lines[k + 1].kind = "close"

(***************************************************************************)
(* Where no summary is left open, the Fixes: tags above the signature are  *)
(* found once and in order, whatever stands between them: all that are on  *)
(* one line, and all that are wrapped except those of LostWrapped.         *)
(***************************************************************************)
FixesExact(lines) ==
    WellWrapped(lines) =>
      ExtractFixes(lines) = Numbers(lines, LAMBDA k :
        \/ lines[k].kind \in {"full", "bare", "open"}
        \/ WrapsOn(lines, k) /\ ~LostWrapped(lines, k))

\* And so is every trailer, its address on the same line or on the next.
TrailersExact(lines) ==
    WellWrapped(lines) =>
      ExtractAttributions(lines) = Numbers(lines, LAMBDA k :
        \/ lines[k].kind = "trailer"
        \/ lines[k].kind = "name" /\ Above(lines, k + 1)
           /\ lines[k + 1].kind = "addr")

(***************************************************************************)
(* Every diff line is in exactly one patch, and no patch runs over the     *)
(* separator in front of the next one.                                     *)
(***************************************************************************)
PatchesPartition(lines) ==
    LET patches == ExtractPatches(lines)
        Within(p, i) == p.from <= i /\ i <= p.to
    IN  /\ \A i \in DOMAIN lines : IsDiff(lines[i]) =>
             Cardinality({k \in DOMAIN patches : Within(patches[k], i)}) = 1
        /\ \A k \in DOMAIN patches, i \in DOMAIN lines :
             Within(patches[k], i) /\ IsDashes(lines[i]) => i = patches[k].from
=============================================================================
