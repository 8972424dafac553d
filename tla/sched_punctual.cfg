\* Three sleeping tasks; ticks find the CPU halted or in a task.  SLEPT_MAX is
\* one above the bound of OversleepBounded, so the counter does not hide a
\* longer sleep.
SPECIFICATION PunctualSpec
CONSTANTS
    MAX_PROCESSES = 5
    USER_TASKS = 3
    QUANTUM = 2
    SLEEP_MS <- MCLongSleep
    SLEPT_MAX = 9
    CALLS = {"sleep"}
    YIELDERS = {}
    CALLS_AFTER_YIELD = {}
PROPERTY OversleepBounded
