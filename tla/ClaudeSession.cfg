SPECIFICATION Spec
CONSTANTS
    Tools = {c1}
    FirstPrompt = p0
    Prompts = {}
    ModeSets = {m1}
    Interrupts = {i1}
    PipeBound = 1
    Workload = 2
CHECK_DEADLOCK FALSE
INVARIANT RefusedIsStopped
PROPERTIES HookFindsGate Implements QuestionsAnswered
