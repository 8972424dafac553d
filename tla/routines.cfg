\* A heap of eight units of two, which holds fewer processes than there are pids;
\* four processes and four times; all pairs of five-bit integers; four cells to a
\* block, eight inodes in four blocks, files from the shortest that holds them; a disk
\* of three chunks of two cells, the kernel's file from cell 2 on; integers of three
\* to six bits, and a buffer of five characters, which holds all digits of an int but
\* not of a long; registers of five bits and ticks of three milliseconds; three entries
\* to a page table.  A behaviour ends when there is nothing more to call.
SPECIFICATION RoutinesSpec
CONSTANTS
    MODULUS = 32
    ALIGN = 2
    HEAP_START = 8
    HEAP_SIZE = 16
    SIZES <- MCSizes
    MAX_PIDS = 4
    NODE = 1
    CONTEXT = 1
    STACK = 3
    CREATIONS = 6
    ENTRIES = 3
    MAX_PROCESSES = 6
    PIDS = {1, 2, 3, 4}
    TIMES = {1, 2, 3, 4}
    WIDTH = 5
    NUM_INODES = 8
    INODE_CELLS = 2
    PER_BLOCK = 4
    NUM_BLOCKS = {4, 5, 6, 7, 8, 9, 10, 15, 20, 25}
    CHUNKS = 3
    CHUNK = 2
    FILE_START = 2
    E_PH = {0}
    VIDEO = {1}
    KERNEL = 4
    LAYOUTS <- MCLayouts
    CHAR_BITS = 3
    SHORT_BITS = 4
    INT_BITS = 5
    LONG_BITS = 6
    NTOA_BUFFER = 5
    POINTER_WIDTH = 2
    WORD_BITS = 5
    MS_PER_TICK = 3
    LINES = {0, 1, 7, 8, 15}
INVARIANT BlocksApart
INVARIANT BlocksSuffice
INVARIANT ShortestAtAnEnd
INVARIANT Divides
INVARIANT ListsWhole
INVARIANT KernelLoaded
INVARIANT ImageOfDisk
INVARIANT FormatsAsC
INVARIANT SnprintfBounded
INVARIANT CallKept
INVARIANT SleepsLongEnough
INVARIANT ProcessesApart
INVARIANT FrameKept
INVARIANT IdentityMapped
INVARIANT LinesServed
PROPERTY SortedWhenShorter
CHECK_DEADLOCK FALSE
