--------------------------- MODULE ProcessMemory ----------------------------
(***************************************************************************)
(* Who gets the heap: setup_pit's handler node, then a context and a stack *)
(* for every process_create, each a malloc of Heap.  setup_pit tests what  *)
(* malloc returns; process_create tests neither that nor the number of     *)
(* free pids.                                                              *)
(***************************************************************************)
EXTENDS Heap

CONSTANTS
    MAX_PIDS,         \* MAX_PROCESSES, the entries of process_table and free_queue (128)
    NODE,             \* sizeof(irq_handler_t)
    CONTEXT,          \* sizeof(process_context_t)
    STACK,            \* 4096
    CREATIONS         \* bound: calls of process_create

\* What is allocated is something, and not so long that rounding it up wraps.
ASSUME ProcessMemoryAssumption ==
    /\ MAX_PIDS \in Nat \ {0}
    /\ {NODE, CONTEXT, STACK} \subseteq SIZES \ {0}
    /\ \A size \in {NODE, CONTEXT, STACK} : size <= MODULUS - ALIGN
    /\ CREATIONS \in Nat

VARIABLES
    step,             \* what is allocated next
    node,             \* setup_pit's handler
    free_queue_head,
    created,          \* calls of process_create so far
    process_table     \* context and initial rsp, 0 before process_create

ownerVars  == <<step, node, free_queue_head, created, process_table>>
memoryVars == <<vars, ownerVars>>

NULL == 0

\* free_queue is the identity.
free_queue == [i \in 0 .. MAX_PIDS - 1 |-> i]

MemoryInit ==
    /\ Init
    /\ step = "node"
    /\ node = NULL
    /\ free_queue_head = 0
    /\ created = 0
    /\ process_table = [p \in 0 .. MAX_PIDS - 1 |-> [context |-> NULL, rsp |-> NULL]]

\* malloc, or nothing when it returns 0; what it returns.
Fails(size) == size = 0 \/ Rounded(size) > heap_size
Try(size)   == malloc(size) \/ (Fails(size) /\ UNCHANGED vars)
Returned(size) == IF Fails(size) THEN NULL ELSE heap

\* setup_pit: without a node, no handler is installed (node stays NULL).
SetupPit ==
    /\ step = "node"
    /\ Try(NODE)
    /\ node' = Returned(NODE)
    /\ step' = "context"
    /\ UNCHANGED <<free_queue_head, created, process_table>>

\* Faulty variant of StackTop: the stack grows down from its lower end.
StackBottom(stack) == stack

\* (uint64_t)malloc(4096) + 4096
StackTop(stack) == stack + STACK

\* process_create, with interrupts disabled: the next pid and its context ...
NewContextBlock ==
    /\ step = "context"
    /\ created < CREATIONS
    /\ Try(CONTEXT)
    /\ process_table' = [process_table EXCEPT ![free_queue[free_queue_head]] =
           [context |-> Returned(CONTEXT), rsp |-> @.rsp]]
    /\ step' = "stack"
    /\ UNCHANGED <<node, free_queue_head, created>>

\* ... and its stack.
NewStack ==
    /\ step = "stack"
    /\ Try(STACK)
    /\ process_table' = [process_table EXCEPT ![free_queue[free_queue_head]].rsp =
           StackTop(Returned(STACK))]
    /\ free_queue_head' = (free_queue_head + 1) % MAX_PIDS
    /\ created' = created + 1
    /\ step' = "context"
    /\ UNCHANGED node

MemoryNext == SetupPit \/ NewContextBlock \/ NewStack

MemorySpec == MemoryInit /\ [][MemoryNext]_memoryVars

-----------------------------------------------------------------------------
(* Property.                                                               *)

\* What the kernel writes to on behalf of somebody: first address, and the one behind.
Region(first, size) == [first |-> first, end |-> first + size]

NodeRegion == IF node = NULL THEN {} ELSE {Region(node, NODE)}

RegionsOf(p) ==
    {Region(process_table[p].context, CONTEXT), Region(process_table[p].rsp - STACK, STACK)}

Disjoint(r, s) == r.end <= s.first \/ s.end <= r.first

InHeap(r) == HEAP_START <= r.first /\ r.end <= HeapEnd

\* So many processes have a pid each and room for what is allocated.
Supported(n) ==
    /\ n <= MAX_PIDS
    /\ Rounded(NODE) + n * (Rounded(CONTEXT) + Rounded(STACK)) <= HEAP_SIZE

\* As long as the pids and the heap suffice, every context and every stack lies in the
\* heap and none reaches into another or into the timer's handler: a process that is
\* saved, or that pushes down to the end of its stack, spoils nobody.
ProcessesApart ==
    step = "context" /\ Supported(created) =>
        LET owners == 0 .. created - 1 IN
        /\ \A p \in owners : \A r \in RegionsOf(p) :
               InHeap(r) /\ \A s \in NodeRegion : Disjoint(r, s)
        /\ \A p, q \in owners : \A r \in RegionsOf(p), s \in RegionsOf(q) :
               (p = q /\ r = s) \/ Disjoint(r, s)

\* The inductive invariant of HeapProof: while there is room, the node is followed by
\* a context and a stack for every pid, in the order of their creation.
Place(p) == HEAP_START + Rounded(NODE) + p * (Rounded(CONTEXT) + Rounded(STACK))

Placed(n) ==
    /\ node = HEAP_START
    /\ \A p \in 0 .. n - 1 :
           process_table[p] = [context |-> Place(p), rsp |-> Place(p) + Rounded(CONTEXT) + STACK]

MemoryInv ==
    /\ heap \in HEAP_START .. HeapEnd /\ heap_size \in Nat /\ heap + heap_size = HeapEnd
    /\ step \in {"node", "context", "stack"}
    /\ created \in Nat /\ free_queue_head \in 0 .. MAX_PIDS - 1
    /\ created < MAX_PIDS => free_queue_head = created
    /\ process_table \in [0 .. MAX_PIDS - 1 -> [context : Nat, rsp : Nat]]
    /\ step = "node" => created = 0 /\ heap = HEAP_START
    /\ step = "context" /\ Supported(created) => Placed(created) /\ heap = Place(created)
    /\ step = "stack" /\ Supported(created + 1) =>
           /\ Placed(created)
           /\ heap = Place(created) + Rounded(CONTEXT)
           /\ process_table[created].context = Place(created)

=============================================================================
