------------------------------- MODULE Subject -------------------------------
(***************************************************************************)
(* extract_tags_from_subject: the tags of a subject line such as           *)
(* Re: [PATCH v2 1/3] net: fix it.                                         *)
(*                                                                         *)
(* A subject is a sequence of tokens separated by blanks:                  *)
(*   re, fwd     the words Re: and Fwd: (and their other spellings)        *)
(*   patch       the bare word patch                                       *)
(*   word, colon any other word, without and with a colon                  *)
(*   quote       a double quote, glued to the token behind it              *)
(*   bracket     [...], whose tokens are in tags                           *)
(*   glued       a bracket right behind a letter, as in ath[59]k           *)
(***************************************************************************)
EXTENDS Naturals, Sequences, SequencesExt, Iterators

Token(kind, tags) == [kind |-> kind, tags |-> tags]

Tokens == [kind : {"re", "fwd", "patch", "word", "colon", "quote", "bracket", "glued"},
           tags : Seq(STRING)]

None == 0

\* u16: the number of v99999 is no version.
VersionOf == [v2 |-> 2, v3 |-> 3, v99999 |-> None]

NoTags == [tags |-> <<>>, patch |-> FALSE, rfc |-> FALSE, response |-> FALSE,
           forward |-> FALSE, version |-> None, sequence |-> None]

SplitGlued(tag) ==
    IF tag = "PATCHv3" THEN <<"patch", "v3">>
    ELSE IF tag = "PATCH/RFC" THEN <<"patch", "rfc">> ELSE <<tag>>

PushTag(state, tag) ==
    [state EXCEPT !.tags = Append(@, tag),
                  !.patch = @ \/ tag = "patch",
                  !.rfc = @ \/ tag = "rfc",
                  !.response = @ \/ tag = "re",
                  !.forward = @ \/ tag = "fwd",
                  !.version = IF tag \in DOMAIN VersionOf THEN VersionOf[tag] ELSE @,
                  !.sequence = IF tag = "1/2" THEN tag ELSE @]

PushAll(state, tags) ==
    FoldLeft(PushTag, state, FlattenSeq([k \in DOMAIN tags |-> SplitGlued(tags[k])]))

IsColonTag(token) == token.kind \in {"re", "fwd"}
HasBracket(token) == token.kind \in {"bracket", "glued"}

\* The part before the first element with the property, or all of it.
Before(s, Test(_)) ==
    LET k == SelectInSeq(s, Test) IN IF k = 0 THEN s ELSE SubSeq(s, 1, k - 1)

\* The part of the subject colon tags are looked for in.
Prefix(s) ==
    Before(Before(s, HasBracket), LAMBDA token : token.kind = "quote")

\* process_colon_tags: the chain at the very start.
ColonTags(s) == Before(Prefix(s), LAMBDA token : ~IsColonTag(token))

StartsWithPatch(s) == Prefix(s) # <<>> /\ Prefix(s)[1].kind = "patch"

\* Faulty variant: brackets are expected at the very start only.
LeadingAtStart(s) ==
    [state |-> FoldLeft(PushTag, NoTags,
                        [k \in DOMAIN ColonTags(s) |-> ColonTags(s)[k].kind]),
     end |-> IF StartsWithPatch(s) THEN 1 ELSE 0]

\* Colon tags and a bare patch, and where the tags end so far.
Leading(s) ==
    LET colons == ColonTags(s)
        kinds  == [k \in DOMAIN colons |-> colons[k].kind]
        state  == FoldLeft(PushTag, NoTags, kinds)
        bare   == SelectInSeq(s, HasBracket) = 0
    IN  IF ~StartsWithPatch(s) THEN [state |-> state, end |-> Len(colons)]
        ELSE [state |-> IF bare THEN PushTag(state, "patch")
                                ELSE [state EXCEPT !.patch = TRUE],
              end |-> 1]

\* Faulty variant: a bracket counts wherever it stands.
InZoneAnywhere(s, scan, k) == s[k].kind = "bracket" /\ scan.zone

\* A bracket counts while nothing but tags came before it.
InZone(s, scan, k) ==
    s[k].kind = "bracket" /\ scan.zone /\ scan.end = k - 1

ScanBracket(s, scan, k) ==
    IF ~InZone(s, scan, k) THEN scan
    ELSE [state |-> PushAll(scan.state, s[k].tags),
          end   |-> k,
          zone  |-> k < Len(s) /\ s[k + 1].kind = "bracket"]

ScanBrackets(s) ==
    FoldLeft(LAMBDA scan, k : ScanBracket(s, scan, k),
             [state |-> Leading(s).state, end |-> Leading(s).end, zone |-> TRUE],
             Positions(s))

IsQuote(token) == token.kind = "quote"

\* trim_start_matches('"')
DropQuotes(s) ==
    LET k == SelectInSeq(s, LAMBDA token : ~IsQuote(token))
    IN  IF k = 0 THEN <<>> ELSE SubSeq(s, k, Len(s))

\* extract_tags_from_subject
ExtractTags(s) ==
    LET scan == ScanBrackets(s)
    IN  [found    |-> scan.state,
         untagged |-> ColonTags(s) \o DropQuotes(SubSeq(s, scan.end + 1, Len(s)))]

-----------------------------------------------------------------------------
(* Properties. *)

\* s[1..k] is a chain of colon tags or the bare word patch, and s[k+1..n]
\* are brackets.
TagsUpTo(s, k, n) ==
    /\ \/ \A i \in 1 .. k : IsColonTag(s[i])
       \/ k = 1 /\ s[1].kind = "patch"
    /\ \A i \in k + 1 .. n : s[i].kind = "bracket"

(***************************************************************************)
(* The tags are the longest run at the start of the subject that consists  *)
(* of colon tags (or a bare patch) and then of brackets only; the rest of  *)
(* the subject, down to its last word, is the untagged subject.            *)
(***************************************************************************)
TagsAreLeadingRun(s) ==
    LET n == Max({m \in 0 .. Len(s) : \E k \in 0 .. m : TagsUpTo(s, k, m)})
        TagsOf(token) ==
          CASE IsColonTag(token)       -> <<token.kind>>
            [] token.kind = "bracket"  ->
                 FlattenSeq([k \in DOMAIN token.tags |-> SplitGlued(token.tags[k])])
            [] OTHER -> IF \E k \in DOMAIN s : HasBracket(s[k]) THEN <<>> ELSE <<"patch">>
    IN  /\ ExtractTags(s).found.tags = FlattenSeq([k \in 1 .. n |-> TagsOf(s[k])])
        /\ ExtractTags(s).untagged =
             ColonTags(s) \o DropQuotes(SubSeq(s, n + 1, Len(s)))

(***************************************************************************)
(* A reply to a patch carries the patch's tags: Re: in front of a subject  *)
(* adds the response tag and changes neither the patch and RFC flags nor   *)
(* version and sequence number, by which replies are joined to the series. *)
(* (A subject that starts with the bare word patch is the exception.)      *)
(***************************************************************************)
ReplyKeepsTags(s) ==
    LET tagged == ExtractTags(s).found
        reply  == ExtractTags(<<Token("re", <<>>)>> \o s).found
    IN  ~StartsWithPatch(s) =>
          reply = [tagged EXCEPT !.tags = <<"re">> \o @, !.response = TRUE]
=============================================================================
