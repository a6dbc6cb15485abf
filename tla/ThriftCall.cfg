SPECIFICATION Spec
CONSTANTS
    VarLists <- AllVarLists
    ContentSizes = {0, 1, 2}
    Modifiers = {0, 1}
    Base = 2
    HeaderSize = 2
    ResponseSizes = {0, 1, 2}
    MaxCalls = 2
INVARIANTS SeenAsSent ReplyIsOurs
PROPERTIES CallReturns
\* The application may call no more, and the exceptions of CallReturns leave
\* both sides waiting.
CHECK_DEADLOCK FALSE
