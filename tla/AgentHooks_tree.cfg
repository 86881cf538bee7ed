\* Two hooks at a time, of two sessions of one harness.
SPECIFICATION HooksSpec
CONSTANTS
    None = None
    Nothing = Nothing
    Hooks = {h1, h2}
    Sessions = {"s1", "s2"}
    Harnesses = {"codex", "antigravity"}
    HarnessOf <- MCOneHarness
    Paths <- MCPaths
    PyFiles <- MCPy
    ImplFiles <- MCPy
    GovernorFiles <- MCRules
    FoundationFiles <- MCRules
    StructureFiles <- MCPy
    CosmeticFiles <- MCRules
    LogEntries = {}
    LogPr <- MCLogPr
    Prompts <- MCPrompts
    Commands <- MCCommands
    Skills <- MCSkills
    Files <- MCFiles
    MaxEvents = 2
    MaxFaults = 1
INVARIANTS
    FailureIsShown
PROPERTIES
    UpdatesBuildOnEachOther
    EveryHookEnds
    RefusedIsTold
CHECK_DEADLOCK FALSE
