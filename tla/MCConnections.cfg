CONSTANTS
    Flows = {f1, f2}
    Callbacks = {c1, c2}
    Refreshers = {r1}
    NoFlow = NoFlow
    MaxTokens = 3
SPECIFICATION FairSpec
INVARIANTS
    TypeOK
    StateOnce
    SecretThere
    OwnToken
PROPERTIES
    StaysGone
    TokenKept
    DeadTokenNoticed
CHECK_DEADLOCK FALSE
