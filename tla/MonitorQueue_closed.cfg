SPECIFICATION Spec
CONSTANTS
    Thread = {t1, t2}
    Value = {v1, v2, v3}
    MaxSize = 1
    NoValue = NoValue
PROPERTIES ClosedQueueAcceptsNothing
\* Every thread may be blocked for good when nobody calls the queue again.
CHECK_DEADLOCK FALSE
