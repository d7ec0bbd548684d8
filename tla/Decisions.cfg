\* Every input of the deciding functions up to the lengths of MCMaxLength.
CONSTANTS
    MaxLength <- MCMaxLength
    Directories <- MCDirectories
    EpochSizes <- MCEpochSizes
    Parts <- MCParts
    Available <- MCAvailable
    More <- MCMore
    Patterns <- MCPatterns
    Sources <- MCSources
    Servers <- MCServers
    Groups <- MCGroups
    ChosenGroups <- MCChosenGroups
    ChosenParts <- MCChosenParts
    MailmapLines <- MCMailmapLines
    Trailers <- MCTrailers
    Texts <- MCTexts
    SubjectTokens <- MCSubjectTokens
    BodyLines <- MCBodyLines
    PatchLines <- MCPatchLines
    DateHeaders <- MCDateHeaders
    Candidates <- MCCandidates
    Boxes <- MCBoxes
    Now <- MCNow
    Oldest = 1986
    OwnCommits = 2
    PageSize = 2
    Threads = {0, 1, 2}
SPECIFICATION Spec
CHECK_DEADLOCK FALSE
INVARIANTS
    IdentitiesKept
    InboxesReadable
    EmailsNumbered
    SelectionSound
    ExtractorsExact
    HeadersKept
