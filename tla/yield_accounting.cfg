\* Three tasks, two of which yield, again and again before a tick, in a ring of five slots
\* that they can fill.
SPECIFICATION Spec
CONSTANTS
    MAX_PROCESSES = 5
    USER_TASKS = 3
    QUANTUM = 2
    SLEEP_MS = {}
    SLEPT_MAX = 2
    CALLS = {"yield"}
    YIELDERS = {1, 2}
    CALLS_AFTER_YIELD = {"yield"}
PROPERTY LostOnlyByYield
