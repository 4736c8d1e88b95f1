SPECIFICATION APISpec
CONSTANTS
    v1 = v1
    v2 = v2
    bad = bad
    NoPrompt = NoPrompt
    Uri = {"p", "q"}
    Version = {v1, v2, bad}
    Malformed = {bad}
    Branch = {"main", "exp"}
    Author = {"ci-bot", "acme", "anonymous", "priompt"}
    Org = {"", "acme", "beta"}
    OrgOf <- MCOrgOf
    Call = {"c1", "c2", "c3"}
    ScopeOf <- MCScope
    SubjectOf <- MCSubject
    Writes = {"c1"}
    File <- MCFile
    Loaded <- MCLoaded
    Rate = 1
    Unit = 1
    RateBurst = 1
    MaxTime = 1
    MaxCommits = 3
    MaxMoves = 2
    MaxImports = 2
CONSTRAINT ImportsInTheFirstTick
INVARIANTS
    WithinBudget
    AnswersAreOfThePrompt
    ReadsAgree
    ImportAddsNoTwin
    RefusedWhole
    ImportTookEffect
    CommitsAreAccountedFor
PROPERTIES
    RefusedForItsOwn
    PromptsApart
CHECK_DEADLOCK FALSE
