\* Three tasks that sleep, halt and compute, in a ring of five slots, under the
\* fairness of the timer and of the CPU.
SPECIFICATION FairSpec
CONSTANTS
    MAX_PROCESSES = 5
    USER_TASKS = 3
    QUANTUM = 2
    SLEEP_MS <- MCSleepMs
    SLEPT_MAX = 2
    CALLS = {"sleep", "hlt"}
    YIELDERS = {}
    CALLS_AFTER_YIELD = {}
INVARIANT Accounted
INVARIANT ContextIntegrity
INVARIANT QueueFits
INVARIANT QuantumPositive
INVARIANT SchedInv
PROPERTY IdleNeverReturns
PROPERTY ImplementsRoundRobin
PROPERTY SleepReturns
PROPERTY EveryTaskRuns
PROPERTY ImplementsFairRoundRobin
