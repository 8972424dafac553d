\* Late ticks nest where they do no harm.  After an exception the system has
\* stopped.
SPECIFICATION Spec
CONSTANTS
    USER_TASKS = 2
    MAX_DEPTH = 2
    NESTING <- OwnNesting
    FAULTS = TRUE
INVARIANT TypeOK
INVARIANT BootCompletes
PROPERTY ImplementsTaskSwitch
CHECK_DEADLOCK FALSE
