\* Does a task that yields get the CPU back?
SPECIFICATION FairSpec
CONSTANTS
    MAX_PROCESSES = 4
    USER_TASKS = 2
    QUANTUM = 2
    SLEEP_MS = {}
    SLEPT_MAX = 2
    CALLS = {"yield"}
    YIELDERS = {1, 2}
    CALLS_AFTER_YIELD = {}
PROPERTY YieldReturns
