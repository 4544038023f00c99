SPECIFICATION Spec
CONSTANTS
    Scenes <- MCScenes
    GapTools <- MCGapTools
    LLMCalls <- MCLLMCalls
    MaxSteps = 5
    MaxReflectionSteps = 1
    MaxReflectionRounds = 2
    MaxToolCallsPerTool = 2
    MaxRunbookSearches = 1
INVARIANT AgentTypeOK
INVARIANT PinnedBatch
PROPERTY LoopEndsInBudget
INVARIANT EvidenceFirst
