------------------------------ MODULE MCDecisions ------------------------------
(***************************************************************************)
(* The items of the topics of Decisions, and how many of them an input     *)
(* has.                                                                    *)
(***************************************************************************)
EXTENDS Decisions

MCMaxLength == [directory |-> 1, epochs |-> 3, range |-> 4, selection |-> 4, picks |-> 4,
                sources |-> 2, server |-> 1, batch |-> 3, mailmap |-> 3, line |-> 5,
                subject |-> 5, body |-> 5, patches |-> 7, dates |-> 5, sender |-> 4, boxes |-> 4]

\* How far a mirror of a repository has come; the last one is damaged.
Stages == {Missing, Repo(FALSE, TRUE, FALSE, FALSE, FALSE), Repo(TRUE, TRUE, FALSE, FALSE, TRUE),
           Repo(TRUE, TRUE, TRUE, FALSE, TRUE), Repo(TRUE, TRUE, TRUE, TRUE, TRUE),
           Repo(TRUE, TRUE, TRUE, TRUE, FALSE)}

EpochDirs == {<<>>} \cup {<<[name |-> "e0", repo |-> r]>> : r \in Stages}
             \cup {<<[name |-> "e1", repo |-> r], [name |-> "e0", repo |-> q]>> : r, q \in Stages}

MCDirectories ==
    {dir \in [git : BOOLEAN, epochs : EpochDirs, all : Stages, self : Stages,
               alternates : {"none", "dead", "outside", "epochs"}] :
       /\ dir.git \/ dir.epochs = <<>>
       /\ dir.all.objects \/ dir.alternates = "none"
       /\ dir.self.head => dir.all = Missing /\ ~dir.git}

MCEpochSizes == [name : DOMAIN TextOrder, size : 0 .. 2]

MCParts == [kind : {"empty", "word", "wordrange"}, first : {0}, last : {0}]
           \cup {[kind |-> "number", first |-> n, last |-> n] : n \in {0, 2}}
           \cup [kind : {"range"}, first : 1 .. 3, last : 1 .. 3]

MCAvailable == <<"a", "b", "c">>
MCMore == <<"d">>
MCPatterns == {Star(MCAvailable), Exactly("a"), Exactly("c"), Exactly("gone"),
               [name |-> "?", matches |-> {"a", "b"}], [name |-> "x*", matches |-> {}]}

MCSources == [mode : {"NNTP", "PublicInbox"}, valid : BOOLEAN, reachable : BOOLEAN,
              available : {<<>>, MCAvailable},
              patterns : {<<Star(MCAvailable)>>, <<Star(<<>>)>>, <<Exactly("a"), Exactly("gone")>>}]

MCServers == [scheme : {"", "nntp", "nntps"}, host : {"", "host"},
              port : {"none", "119", "text", "large"}]

GroupRank == [a |-> 1, b |-> 2, c |-> 3, other |-> 4]
MCGroups == {g \in [name : DOMAIN GroupRank, rank : 1 .. 4, selectable : BOOLEAN,
                    articles : {{1, 2}, {2, 3}}] : g.rank = GroupRank[g.name]}
MCChosenGroups == [name |-> "?", matches |-> {"a", "b", "c"}]
MCChosenParts == <<[kind |-> "number", first |-> 3, last |-> 3],
                   [kind |-> "range", first |-> 1, last |-> 2]>>

Addr(id) == [id |-> id, upper |-> FALSE]
Pairs == {<<>>, <<Addr("a")>>, <<Addr("a"), [id |-> "b", upper |-> TRUE]>>,
          <<Addr("b"), Addr("c")>>, <<Addr("c"), Addr("a"), Addr("b")>>}
MCMailmapLines == [pairs : Pairs, bytes : {"ascii", "shifts", "panics"}]
MCTrailers == <<[id |-> "a", upper |-> TRUE], Addr("b"), NoAddress, Addr("c")>>

MCTexts == {Sep} \cup [kind : {"word", "bare", "box"}, of : {"x", "y"}]
           \cup {[kind |-> "loose", of |-> "x"]}

MCNow == 2012 * YearHours + 160 * Day

MCSubjectTokens ==
    {Token(kind, <<>>) : kind \in {"re", "fwd", "patch", "word", "quote", "glued"}}
    \cup {Token("bracket", tags) :
            tags \in {<<"patch", "v2">>, <<"PATCHv3", "1/2">>, <<"other", "v99999">>}}

MCBodyLines == {"full", "bare", "open", "openup", "close", "odd", "trailer", "name",
              "addr", "sig", "dashes", "text"}

MCPatchLines == {"dashes", "diff", "text"}

Date(style, digits, read, local, kind, offset) ==
    [style |-> style, digits |-> digits, read |-> read, local |-> local,
     zone |-> [kind |-> kind, offset |-> offset]]

Sent == 2005 * YearHours + 100 * Day

\* One moment in several spellings, dates near it, and wrong clocks.
MCDateHeaders ==
    {Date("mail", 4, TRUE, Sent, "num", 2),
     Date("mail", 4, FALSE, Sent + 1, "num", 2),
     Date("ctime", 4, FALSE, Sent + 7, "name", 7),
     Date("iso", 4, FALSE, Sent + 10, "none", 0),
     Date("mail", 4, TRUE, Sent + Day, "num", 0),
     Date("mail", 2, FALSE, Sent - 2000 * YearHours, "num", 9),
     Date("mail", 4, TRUE, Sent + 5 * Day, "num", 0),
     Date("mail", 4, TRUE, 1970 * YearHours, "num", 0),
     Date("dash", 4, FALSE, 2004 * YearHours, "name", 0),
     Date("mail", 4, TRUE, MCNow + 4 * Day, "num", 0),
     Date("mail", 4, TRUE, 2011 * YearHours, "absurd", 0)}

MCCandidates == [name : BOOLEAN, form : Forms] \ {[name |-> FALSE, form |-> "none"]}

MCBoxes == {box \in [name : BOOLEAN, addr : BOOLEAN, stray : {-1, 0, 1}] :
            box.name \/ box.addr}
=============================================================================
