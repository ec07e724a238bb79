SPECIFICATION InputSpec
CONSTANTS
    Actions = {build, push}
    WindowEntries = 5
    WindowBatches = 2
    RepeatThreshold = 2
    FailureThreshold = 2
    MaxBytes = 12
    MaxLocators = 3
    TrustEpsilon = 5
    RecencyWeight = 2
    RecallLimitMax = 2
    Models = {1, 2, 3}
    PricedModels = {1, 2}
    UsageMax = 5
    Scalars <- MCScalars
    LengthMax = 3
    Tree <- MCTree
    Locators <- MCLocators
    PageMax = 8
    Paragraphs <- MCParagraphs
    Names <- MCNames
    Props <- MCProps
    Stored <- MCStored
    Tokens = {0, 2, 3}
    OverlapMin = 2
    CandidatesMax = 2
    ReviewFloor = 45
    GateTau = 55
    ScoreMax = 3
    RecallWide = 2
    ElicitLimit = 1
    TextMax = 3
    Letters = {"a", "b"}
    InputMax = 2
    Declared <- MCDeclared
    Sources = 2
    Fixtures = {"FIXTURE"}
    TestNames = {"FIXTURE"}
    Mentions <- MCMentions
    Exclusions = {"ALIAS"}
    Standing <- MCStanding
    Reads <- MCReads
    HelpLines <- MCHelpLines
    Statements <- MCStatements
    CitationSpan = 4
    GapsMax = 3
    GapCharsMax = 2
    QuestionsMax = 2
    Requests <- MCRequests
    Configured = 8
    Hits <- MCHits
    Domains <- MCDomains
    Marking = {"[", "]", "s", "S", "1", "2"}
    Fetched <- MCFetched
    Verified <- MCVerified
    Gaps <- MCGaps
    Hosts <- MCHosts
    Entries <- MCEntries
    Finals <- MCFinals
    Remembered <- MCRemembered
    Characters = {"a", "A", " ", ".", "||"}
    Heads = {"(assert", "( assert", "(declare-const", "(push", "( reset"}
    Writes <- MCWrites
    GlobTokens <- MCGlobTokens
    PathMax = 3
    MaxItems <- MCMaxItems
SYMMETRY ActionsAlike
INVARIANTS
    FlagsMatchTranscript
    EvidenceIsFaithful
    GrammarAdmitsAnswers
    RecallIsLawful
    MetersCommute
    CandidatesAreFair
    AnswersAreComputed
    PromptsAreVerbatim
    DocumentsAreTrue
    RowsRoundTrip
CHECK_DEADLOCK FALSE
