SPECIFICATION Spec
CONSTANTS
    Block = 6
    Slack = 1
    HeaderSize = 2
    RequestSizes = {0, 1}
    Layouts <- AllLayouts
    Lengths = {0, 4, 6}
    MaxRequests = 2
INVARIANTS HandledAsSent InBounds NotLost
PROPERTIES Answered
\* The application may stop sending, and the task may have ended.
CHECK_DEADLOCK FALSE
