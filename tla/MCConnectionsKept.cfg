CONSTANTS
    Flows = {f1, f2}
    Callbacks = {c1, c2}
    Refreshers = {r1}
    NoFlow = NoFlow
    MaxTokens = 3
SPECIFICATION Spec
INVARIANTS
    NothingKept
CHECK_DEADLOCK FALSE
