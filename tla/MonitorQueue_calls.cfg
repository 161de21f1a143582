SPECIFICATION Spec
CONSTANTS
    Thread = {t1, t2, t3}
    Value = {v1, v2, v3, v4}
    MaxSize = 2
    NoValue = NoValue
INVARIANTS TypeOK NoLostWakeup FIFO
PROPERTIES CloseReleasesPop ImplementsBoundedFifo
\* Every thread may be blocked for good when nobody calls the queue again.
CHECK_DEADLOCK FALSE
