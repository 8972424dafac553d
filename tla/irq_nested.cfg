\* Late ticks nest on every stack.  After an exception, or once a NULL context has
\* been loaded, the system has stopped.
SPECIFICATION FairSpec
CONSTANTS
    USER_TASKS = 1
    MAX_DEPTH = 2
    NESTING <- FullNesting
    FAULTS = TRUE
INVARIANT InService
PROPERTY TimerGoesOn
CHECK_DEADLOCK FALSE
