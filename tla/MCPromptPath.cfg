\* Four prompts of two callers, budgets of one.
SPECIFICATION FairSpec
CONSTANTS
    operator = operator
    agent = agent
    Callers = {operator, agent}
    Operator = operator
    MaxAttempts = 1
    MaxPrompts = 4
INVARIANTS
    TypeOK
    ServersAreKept
    PromptsAreSettled
PROPERTIES
    EveryPromptEnds
CHECK_DEADLOCK FALSE
