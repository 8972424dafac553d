\* Is a tick a millisecond, as the comment in process.c says?
SPECIFICATION Spec
CONSTANTS
    MAX_PROCESSES = 3
    USER_TASKS = 1
    QUANTUM = 2
    SLEEP_MS <- MCOneSleep
    SLEPT_MAX = 15
    CALLS = {"sleep"}
    YIELDERS = {}
    CALLS_AFTER_YIELD = {}
PROPERTY TicksAreMilliseconds
