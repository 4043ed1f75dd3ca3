SPECIFICATION ScenarioSpec
CONSTANTS
    editor = editor
    janitor = janitor
    agent = agent
    hook = hook
    s1 = s1
    s2 = s2
    bash = bash
    read = read
    edit = edit
    project = project
    module = module
    Caller <- Callers
    Session <- Sessions
    Key <- Keys
    SessionOf <- SessionOfKey
    Scope <- Scopes
    ScopeOf <- ScopeOfKey
    Below <- Subtrees
    Promoting <- PromotedKeys
    Works <- WorksOf
    Scenarios <- BothScenarios
    Window = 1
    Limit = 2
    MaxTime = 2
    MaxCalls = 3
    MaxFacts = 3
INVARIANTS
    TypeOK
    PromotedHasFact
    ContextsShowCheckpoint
PROPERTY
    PromotionSticks
