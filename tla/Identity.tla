------------------------------- MODULE Identity -------------------------------
(***************************************************************************)
(* What becomes of identities: the parser's mailmap, which gives a sender  *)
(* its canonical address, and the anonymizer, which replaces names and     *)
(* addresses by hashes.                                                    *)
(***************************************************************************)
EXTENDS Naturals, Sequences, SequencesExt, FiniteSets, Iterators

(***************************************************************************)
(* The mailmap.  An address is [id, upper]: upper tells two spellings of   *)
(* it apart.  A line is its <...> pairs in order, and what the bytes of    *)
(* its names do: the code counts characters and slices bytes, so a name    *)
(* outside ASCII shifts the addresses it cuts out, or panics.  A shifted   *)
(* address holds a bracket or a blank and has lost its end: no address of  *)
(* a trailer is one, and such a line names nobody.                         *)
(***************************************************************************)
NoAddress == [id |-> "", upper |-> FALSE]
Addresses == [id : STRING \ {""}, upper : BOOLEAN]
Lower(addr) == [addr EXCEPT !.upper = FALSE]

Panics(lines) == \E k \in DOMAIN lines : lines[k].bytes = "panics"

\* The aliases a line puts into the map: all pairs but the first, without
\* those a shift has spoiled.
Aliases(line) ==
    IF line.bytes # "ascii" \/ line.pairs = <<>> THEN {}
    ELSE {Lower(line.pairs[k]) : k \in 2 .. Len(line.pairs)}

\* parse_mailmap_content and resolve: a later line overwrites.
Resolve(lines, addr) ==
    LET k == SelectLastInSeq(lines, LAMBDA line : Lower(addr) \in Aliases(line))
    IN  IF k = 0 \/ addr = NoAddress THEN NoAddress ELSE Head(lines[k].pairs)

\* Faulty variant: only the trailers that resolve are kept.
CanonicalTrailersFiltered(lines, trailers) ==
    Filter([k \in DOMAIN trailers |-> Resolve(lines, trailers[k])],
              LAMBDA addr : addr # NoAddress)

\* parse_email: from_canonical_addr and trailers_canonical_addr.
CanonicalTrailers(lines, trailers) ==
    LET resolved == [k \in DOMAIN trailers |-> Resolve(lines, trailers[k])]
    IN  IF \E k \in DOMAIN resolved : resolved[k] # NoAddress THEN resolved ELSE <<>>

(***************************************************************************)
(* The anonymizer.  A line of a text is a sequence of items: a word, a     *)
(* separator (comma, colon or semicolon), an address that is bare, in      *)
(* brackets (box: all that BRACKET_IDENTITY_RE takes from a bracket to the *)
(* one that closes it) or loose (a bracket stands on one side of it only,  *)
(* and the expression finds no pair), and what these become: the hash of a *)
(* sequence of items, bare or in brackets (hashbox).                       *)
(***************************************************************************)
Item(kind, of) == [kind |-> kind, of |-> of]
Sep == Item("sep", <<>>)

Hash(items) == Item("hash", [k \in DOMAIN items |-> items[k].of])
HashBox(item) == Item("hashbox", <<item.of>>)

IsSep(item) == item.kind = "sep"

\* Faulty variant: the first separator instead of the last (find, not rfind).
FirstNameStart(items) == SelectInSeq(items, IsSep) + 1

\* extract_name_and_prefix: the name starts behind the last separator.
NameStart(items) == SelectLastInSeq(items, IsSep) + 1

NameOf(items) == SubSeq(items, NameStart(items), Len(items))
PrefixOf(items) == SubSeq(items, 1, NameStart(items) - 1)

\* An identity and the text before it, with the name hashed if there is one.
Replaced(before, address, Bare(_)) ==
    IF NameOf(before) = <<>> THEN Append(before, Bare(address))
    ELSE PrefixOf(before) \o <<Hash(NameOf(before)), HashBox(address)>>

\* BRACKET_IDENTITY_RE.replace_all
ReplaceBoxes(line) ==
    LET Step(acc, item) ==
          IF item.kind # "box" THEN [acc EXCEPT !.before = Append(@, item)]
          ELSE [out |-> acc.out \o Replaced(acc.before, item, HashBox), before |-> <<>>]
        end == FoldLeft(Step, [out |-> <<>>, before |-> <<>>], line)
    IN  end.out \o end.before

\* Faulty variant: an address stays wherever it stands in a line.
KeepsAnywhere(before, multiline) == multiline

\* In a text of several lines an address stays if nothing stands before it.
Keeps(before, multiline) == multiline /\ before = <<>>

\* Faulty variant: a loose address moves last_end as one that is hashed does.
ReplaceBareSkipping(line, multiline) ==
    LET Digest(item) == Hash(<<item>>)
        Step(acc, item) ==
          CASE item.kind = "bare" ->
                 [out |-> acc.out \o IF Keeps(acc.before, multiline) THEN <<item>>
                                     ELSE Replaced(acc.before, item, Digest),
                  before |-> <<>>]
            [] item.kind = "loose" ->
                 [out |-> acc.out \o Append(acc.before, item), before |-> <<>>]
            [] OTHER -> [acc EXCEPT !.before = Append(@, item)]
        end == FoldLeft(Step, [out |-> <<>>, before |-> <<>>], line)
    IN  end.out \o end.before

\* The loop over EMAIL_RE's matches.  It skips a loose address and leaves
\* last_end where it is: to the next address it is text that stands before it,
\* as it is to the brackets.
ReplaceBare(line, multiline) ==
    LET Digest(item) == Hash(<<item>>)
        Step(acc, item) ==
          IF item.kind # "bare" THEN [acc EXCEPT !.before = Append(@, item)]
          ELSE [out |-> acc.out \o IF Keeps(acc.before, multiline) THEN <<item>>
                                   ELSE Replaced(acc.before, item, Digest),
                before |-> <<>>]
        end == FoldLeft(Step, [out |-> <<>>, before |-> <<>>], line)
    IN  end.out \o end.before

\* anonymize_string, of a text in lines.
AnonymizeString(lines) ==
    [k \in DOMAIN lines |-> ReplaceBare(ReplaceBoxes(lines[k]), Len(lines) > 1)]

\* anonymize_dataframe: a row, its columns texts, lists of texts, and the
\* trailers; a null in a list becomes an empty text.
Null == <<>>

\* Faulty variant: the trailers are forgotten.
AnonymizeRowPart(row) ==
    [row EXCEPT !.from = AnonymizeString(@),
                !.raw_body = AnonymizeString(@),
                !.to = [k \in DOMAIN @ |-> AnonymizeString(@[k])]]

AnonymizeTrailer(trailer) == [trailer EXCEPT !.identification = AnonymizeString(@)]

AnonymizeRow(row) ==
    [row EXCEPT !.from = AnonymizeString(@),
                !.raw_body = AnonymizeString(@),
                !.to = [k \in DOMAIN @ |-> AnonymizeString(@[k])],
                !.trailers = [k \in DOMAIN @ |-> AnonymizeTrailer(@[k])]]

\* build_id_map
IdMapRow(row) == [original |-> row.from, from |-> AnonymizeString(row.from)]

-----------------------------------------------------------------------------
(* Properties. *)

(***************************************************************************)
(* A trailer's canonical address stands at the trailer's position: the     *)
(* first pair of the last line that names its address behind the first     *)
(* pair, in whatever spelling, or nothing.  A name outside ASCII loses its *)
(* own line only, and the list is empty only if no trailer is named.       *)
(***************************************************************************)
CanonicalAtPosition(lines, trailers) ==
    LET Names(k, addr) ==
          /\ lines[k].bytes = "ascii"
          /\ \E j \in 2 .. Len(lines[k].pairs) : lines[k].pairs[j].id = addr.id
        Named(addr)    == {k \in DOMAIN lines : Names(k, addr)}
        Expected(addr) == IF Named(addr) = {} THEN NoAddress
                          ELSE lines[Max(Named(addr))].pairs[1]
        canonical      == CanonicalTrailers(lines, trailers)
    IN  ~Panics(lines) =>
          /\ canonical \in {<<>>, [k \in DOMAIN trailers |-> Expected(trailers[k])]}
          /\ canonical = <<>> => \A k \in DOMAIN trailers : Named(trailers[k]) = {}

HasAddress(lines) ==
    \E k \in DOMAIN lines : \E j \in DOMAIN lines[k] : lines[k][j].kind \in {"bare", "box"}

\* A row whose columns hold the text everywhere.
RowOf(lines) ==
    [from |-> lines, raw_body |-> lines, to |-> <<lines, Null>>,
     trailers |-> <<[attribution |-> "signed-off-by", identification |-> lines]>>]

(***************************************************************************)
(* No address that is bare or in brackets is left in the identity columns  *)
(* of an anonymized row, which are texts of one line, in whatever order    *)
(* names, separators and addresses come; the identity map holds the value  *)
(* of the data.  It says nothing of the loose ones: see StraysLeft.        *)
(***************************************************************************)
RowAnonymous(line) ==
    LET row == AnonymizeRow(RowOf(<<line>>))
    IN  /\ ~HasAddress(row.from)
        /\ \A k \in DOMAIN row.to : ~HasAddress(row.to[k])
        /\ \A k \in DOMAIN row.trailers : ~HasAddress(row.trailers[k].identification)
        /\ IdMapRow(RowOf(<<line>>)).from = row.from

(***************************************************************************)
(* A loose address is not anonymized by the code: it stays in clear text,  *)
(* in the identity columns too, unless another address stands behind it in *)
(* its entry, whose name it is then hashed with.  So an entry keeps the    *)
(* loose addresses behind its last whole one and no others.                *)
(***************************************************************************)
StraysLeft(line) ==
    LET Loose(items) == Filter(items, LAMBDA item : item.kind = "loose")
        Whole(k)     == line[k].kind \in {"bare", "box"}
    IN  (\A k \in DOMAIN line : ~IsSep(line[k])) =>
          \E last \in 0 .. Len(line) :
            /\ last = 0 \/ Whole(last)
            /\ \A k \in last + 1 .. Len(line) : ~Whole(k)
            /\ Loose(AnonymizeString(<<line>>)[1]) = Loose(SubSeq(line, last + 1, Len(line)))

(***************************************************************************)
(* In a text of several lines no more whole addresses are left than stand  *)
(* at the start of a line or directly behind another address: one behind a *)
(* name, a separator or brackets never stays.  Loose ones stay wherever    *)
(* they do in a text of one line.                                          *)
(***************************************************************************)
LeftOnlyInRow(line) ==
    LET Bare(items) == Filter(items, LAMBDA item : item.kind = "bare")
        free == {k \in DOMAIN line : line[k].kind = "bare"
                                     /\ (k = 1 \/ line[k - 1].kind = "bare")}
    IN  Len(Bare(AnonymizeString(<<line, <<>>>>)[1])) <= Cardinality(free)

(***************************************************************************)
(* An identity has the same hashes wherever it stands in a list of         *)
(* recipients: a list is anonymized entry by entry, so the sender of one   *)
(* e-mail can be found among the recipients of another.                    *)
(***************************************************************************)
EntriesApart(line) ==
    LET Anonymized(part) == AnonymizeString(<<part>>)[1]
    IN  \A k \in DOMAIN line : IsSep(line[k]) =>
          Anonymized(line) = Anonymized(SubSeq(line, 1, k - 1)) \o <<Sep>>
                             \o Anonymized(SubSeq(line, k + 1, Len(line)))
=============================================================================
