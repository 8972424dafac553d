----------------------------- MODULE HeapProof ------------------------------
(***************************************************************************)
(* Blocks never overlap and are long enough, for every width, region and   *)
(* sequence of requests; and so the processes have their memory to         *)
(* themselves.                                                             *)
(***************************************************************************)
EXTENDS ProcessMemory, TLAPS

\* Rounding up gives at least the size, unless it wraps to 0 within the last
\* ALIGN values.
LEMMA RoundedBounds ==
    ASSUME NEW size \in 0 .. MODULUS - 1
    PROVE  /\ Rounded(size) \in Nat
           /\ size <= Rounded(size) \/ size > MODULUS - ALIGN
<1> DEFINE r == size % ALIGN
<1>1. ALIGN \in Nat \ {0} /\ MODULUS \in Nat /\ size \in Nat
  BY HeapAssumption
<1>2. r \in 0 .. ALIGN - 1
  BY <1>1
<1>3. Rounded(size) = IF r = 0 THEN size
                      ELSE IF size + (ALIGN - r) = MODULUS THEN 0
                      ELSE size + (ALIGN - r)
  BY DEF Rounded
<1> HIDE DEF r
<1> QED
  BY <1>1, <1>2, <1>3

LEMMA HeapInit == Init => HeapInv
BY HeapAssumption DEF Init, HeapInv, TypeOK, BlocksApart, BlocksSuffice, HeapEnd

\* One call: the new block starts where the last one ended at the latest.
LEMMA HeapMalloc ==
    ASSUME HeapInv, NEW size \in SIZES, malloc(size)
    PROVE  HeapInv'
<1> DEFINE new == [start |-> heap, asked |-> size, size |-> Rounded(size)]
<1>1. /\ size \in 0 .. MODULUS - 1
      /\ HEAP_START \in Nat /\ HEAP_SIZE \in Nat /\ MODULUS \in Nat /\ ALIGN \in Nat
  BY HeapAssumption
<1>2. /\ Rounded(size) \in Nat
      /\ size <= Rounded(size) \/ size > MODULUS - ALIGN
  BY <1>1, RoundedBounds
<1>3. /\ heap \in HEAP_START .. HeapEnd /\ heap_size \in 0 .. HEAP_SIZE
      /\ blocks \subseteq Block
      /\ heap + heap_size = HeapEnd
      /\ \A b \in blocks : b.start + b.size <= heap
      /\ BlocksApart /\ BlocksSuffice
  BY DEF HeapInv, TypeOK
<1>4. /\ Rounded(size) <= heap_size
      /\ heap' = heap + Rounded(size)
      /\ heap_size' = heap_size - Rounded(size)
      /\ blocks' = blocks \cup {new}
  BY DEF malloc
<1>5. heap' \in HEAP_START .. HeapEnd /\ heap_size' \in 0 .. HEAP_SIZE
      /\ heap' + heap_size' = HeapEnd
  BY <1>1, <1>2, <1>3, <1>4 DEF HeapEnd
<1>6. new \in Block
  BY <1>1, <1>2, <1>3, <1>4 DEF Block
<1>7. blocks' \subseteq Block
  BY <1>3, <1>4, <1>6
<1>8. \A b \in blocks' : b.start + b.size <= heap'
  <2> SUFFICES ASSUME NEW b \in blocks' PROVE b.start + b.size <= heap'
    OBVIOUS
  <2>1. CASE b = new
    BY <1>4, <2>1
  <2>2. CASE b \in blocks
    <3>1. b.start + b.size <= heap /\ b.start \in Nat /\ b.size \in Nat
      BY <1>1, <1>3, <2>2 DEF Block, HeapEnd
    <3> QED
      BY <1>1, <1>2, <1>3, <1>4, <3>1 DEF HeapEnd
  <2> QED
    BY <1>4, <2>1, <2>2
<1>9. BlocksApart'
  <2> SUFFICES ASSUME NEW a \in blocks', NEW b \in blocks'
               PROVE  a = b \/ a.start + a.size <= b.start \/ b.start + b.size <= a.start
    BY DEF BlocksApart
  <2>1. CASE a \in blocks /\ b \in blocks
    BY <1>3, <2>1 DEF BlocksApart
  <2>2. CASE a \in blocks /\ b = new
    BY <1>3, <2>2
  <2>3. CASE a = new /\ b \in blocks
    BY <1>3, <2>3
  <2> QED
    BY <1>4, <2>1, <2>2, <2>3
<1>10. BlocksSuffice'
  BY <1>2, <1>3, <1>4 DEF BlocksSuffice
<1> QED
  BY <1>5, <1>7, <1>8, <1>9, <1>10 DEF HeapInv, TypeOK

\* The blocks given out lie side by side in the part of the region that is used
\* up, and are long enough.
THEOREM HeapCorrect == Spec => []HeapInv
<1>1. HeapInv /\ [Next]_vars => HeapInv'
  <2>1. ASSUME HeapInv, UNCHANGED vars PROVE HeapInv'
    BY <2>1 DEF vars, HeapInv, TypeOK, BlocksApart, BlocksSuffice
  <2> QED
    BY <2>1, HeapMalloc DEF Next
<1> QED
  BY <1>1, HeapInit, PTL DEF Spec

\* Blocks never overlap.
THEOREM NoOverlap == Spec => []BlocksApart
<1>1. HeapInv => BlocksApart
  BY DEF HeapInv
<1> QED
  BY <1>1, HeapCorrect, PTL

\* A block is as long as what was asked for, but where rounding up wraps.
THEOREM BlocksLongEnough == Spec => []BlocksSuffice
<1>1. HeapInv => BlocksSuffice
  BY DEF HeapInv
<1> QED
  BY <1>1, HeapCorrect, PTL

-----------------------------------------------------------------------------
(* Who gets the blocks.                                                    *)

\* A context with its stack takes this much of the heap.
Pair == Rounded(CONTEXT) + Rounded(STACK)

\* The sizes that the kernel asks for are rounded up.
LEMMA KernelSizes ==
    /\ NODE \in Nat /\ CONTEXT \in Nat /\ STACK \in Nat
    /\ NODE # 0 /\ CONTEXT # 0 /\ STACK # 0
    /\ Rounded(NODE) \in Nat /\ Rounded(CONTEXT) \in Nat /\ Rounded(STACK) \in Nat
    /\ Pair \in Nat
    /\ NODE <= Rounded(NODE) /\ CONTEXT <= Rounded(CONTEXT) /\ STACK <= Rounded(STACK)
    /\ HEAP_START \in Nat /\ HEAP_SIZE \in Nat
<1>1. /\ \A size \in {NODE, CONTEXT, STACK} : size \in 0 .. MODULUS - 1 /\ size # 0
      /\ MODULUS \in Nat /\ ALIGN \in Nat
  BY HeapAssumption, ProcessMemoryAssumption
<1>2. \A size \in {NODE, CONTEXT, STACK} :
          size \in Nat /\ Rounded(size) \in Nat /\ size <= Rounded(size)
  <2>1. TAKE size \in {NODE, CONTEXT, STACK}
  <2>2. size \in 0 .. MODULUS - 1 /\ size <= MODULUS - ALIGN
    BY <1>1, ProcessMemoryAssumption
  <2> QED
    BY <1>1, <2>2, RoundedBounds
<1> QED
  BY <1>1, <1>2, HeapAssumption DEF Pair

\* The pairs lie one behind the other.
LEMMA Places ==
    /\ Place(0) = HEAP_START + Rounded(NODE)
    /\ \A p \in Nat : Place(p) \in Nat /\ Place(p + 1) = Place(p) + Pair
    /\ \A p \in Nat : HEAP_START + Rounded(NODE) <= Place(p)
    /\ \A p, q \in Nat : p < q => Place(p) + Pair <= Place(q)
<1>1. \A p \in Nat : p * Pair \in Nat /\ (p + 1) * Pair = p * Pair + Pair
  BY KernelSizes
<1>2. ASSUME NEW p \in Nat, NEW q \in Nat, p < q
      PROVE  p * Pair + Pair <= q * Pair
  <2>1. PICK k \in Nat : q = p + 1 + k
    BY <1>2
  <2>2. q * Pair = p * Pair + Pair + k * Pair
    BY <2>1, KernelSizes
  <2> QED
    BY <1>1, <2>2, KernelSizes
<1> HIDE DEF Pair
<1>3. \A p \in Nat : Place(p) = HEAP_START + Rounded(NODE) + p * Pair
  BY DEF Place, Pair
<1>4. 0 * Pair = 0 /\ Pair \in Nat
  BY KernelSizes
<1>5. Place(0) = HEAP_START + Rounded(NODE)
  BY <1>3, <1>4, KernelSizes
<1>6. \A p \in Nat : /\ Place(p) \in Nat /\ Place(p + 1) = Place(p) + Pair
                     /\ HEAP_START + Rounded(NODE) <= Place(p)
  <2>1. TAKE p \in Nat
  <2>2. /\ Place(p) = HEAP_START + Rounded(NODE) + p * Pair
        /\ Place(p + 1) = HEAP_START + Rounded(NODE) + (p + 1) * Pair
    BY <1>3
  <2>3. p * Pair \in Nat /\ (p + 1) * Pair = p * Pair + Pair
    BY <1>1
  <2> QED
    BY <1>4, <2>2, <2>3, KernelSizes
<1>7. ASSUME NEW p \in Nat, NEW q \in Nat, p < q
      PROVE  Place(p) + Pair <= Place(q)
  <2>1. p * Pair + Pair <= q * Pair /\ p * Pair \in Nat /\ q * Pair \in Nat
    BY <1>1, <1>2, <1>7
  <2>2. /\ Place(p) = HEAP_START + Rounded(NODE) + p * Pair
        /\ Place(q) = HEAP_START + Rounded(NODE) + q * Pair
    BY <1>3
  <2> QED
    BY <1>4, <2>1, <2>2, KernelSizes
<1> QED
  BY <1>5, <1>6, <1>7

\* What is supported has its place in the heap, and so has whatever is less.
LEMMA SupportedPlaces ==
    ASSUME NEW n \in Nat, Supported(n)
    PROVE  /\ n <= MAX_PIDS
           /\ Place(n) <= HeapEnd
           /\ n > 0 => Supported(n - 1)
<1>1. /\ Rounded(NODE) + n * Pair <= HEAP_SIZE /\ n <= MAX_PIDS
      /\ n * Pair \in Nat
  BY KernelSizes DEF Supported, Pair
<1>2. Place(n) = HEAP_START + Rounded(NODE) + n * Pair
  BY DEF Place, Pair
<1>3. ASSUME n > 0
      PROVE  Supported(n - 1)
  <2>1. (n - 1) * Pair <= n * Pair /\ (n - 1) * Pair \in Nat
    <3>1. n * Pair = (n - 1) * Pair + Pair
      BY KernelSizes
    <3>2. (n - 1) * Pair \in Nat
      BY <1>3, KernelSizes
    <3> QED
      BY <3>1, <3>2, KernelSizes
  <2> HIDE DEF Pair
  <2>2. Rounded(NODE) + (n - 1) * Pair <= HEAP_SIZE /\ n - 1 <= MAX_PIDS
    BY <1>1, <2>1, KernelSizes, ProcessMemoryAssumption
  <2> QED
    BY <2>2 DEF Supported, Pair
<1> HIDE DEF Pair
<1> QED
  BY <1>1, <1>2, <1>3, KernelSizes DEF HeapEnd

\* malloc gives what is asked for where there is room, and keeps within the heap.
LEMMA Tried ==
    ASSUME heap \in HEAP_START .. HeapEnd, heap_size \in Nat, heap + heap_size = HeapEnd,
           NEW size \in {NODE, CONTEXT, STACK}, Try(size)
    PROVE  /\ heap' \in HEAP_START .. HeapEnd /\ heap_size' \in Nat /\ heap' + heap_size' = HeapEnd
           /\ Returned(size) \in Nat
           /\ heap + Rounded(size) <= HeapEnd =>
                  Returned(size) = heap /\ heap' = heap + Rounded(size)
<1>1. /\ size \in Nat /\ size # 0 /\ Rounded(size) \in Nat
      /\ HEAP_START \in Nat /\ HeapEnd \in Nat /\ heap \in Nat
  BY KernelSizes DEF HeapEnd
<1>2. CASE Fails(size)
  BY <1>1, <1>2 DEF Fails, Returned, NULL, Try, malloc, vars
<1>3. CASE ~Fails(size)
  BY <1>1, <1>3 DEF Fails, Returned, Try, malloc
<1> QED
  BY <1>2, <1>3

LEMMA MemoryInitially == MemoryInit => MemoryInv
<1> SUFFICES ASSUME MemoryInit PROVE MemoryInv
  OBVIOUS
<1>1. heap = HEAP_START /\ heap_size = HEAP_SIZE /\ heap + heap_size = HeapEnd
  BY DEF MemoryInit, Init, HeapEnd
<1>2. HEAP_START \in Nat /\ HEAP_SIZE \in Nat /\ 0 \in 0 .. MAX_PIDS - 1
  BY KernelSizes, ProcessMemoryAssumption
<1>3. HEAP_START \in HEAP_START .. HeapEnd
  BY <1>2 DEF HeapEnd
<1> QED
  BY <1>1, <1>2, <1>3 DEF MemoryInit, MemoryInv, NULL

\* setup_pit's node.
LEMMA MemorySetupPit == MemoryInv /\ SetupPit => MemoryInv'
<1> SUFFICES ASSUME MemoryInv, SetupPit PROVE MemoryInv'
  OBVIOUS
<1>1. /\ created = 0 /\ heap = HEAP_START /\ Try(NODE)
      /\ node' = Returned(NODE) /\ step' = "context"
      /\ UNCHANGED <<free_queue_head, created, process_table>>
  BY DEF MemoryInv, SetupPit
<1>2. /\ heap' \in HEAP_START .. HeapEnd /\ heap_size' \in Nat /\ heap' + heap_size' = HeapEnd
      /\ heap + Rounded(NODE) <= HeapEnd =>
             Returned(NODE) = heap /\ heap' = heap + Rounded(NODE)
  BY <1>1, Tried DEF MemoryInv
<1>3. ASSUME Supported(0)
      PROVE  node' = HEAP_START /\ heap' = Place(0)
  <2>1. Place(0) <= HeapEnd
    BY <1>3, SupportedPlaces
  <2> QED
    BY <1>1, <1>2, <2>1, Places
<1>4. Supported(created)' => Placed(created)' /\ heap' = Place(created')
  BY <1>1, <1>3 DEF Placed
<1> QED
  BY <1>1, <1>2, <1>4 DEF MemoryInv

\* The pid at the head of free_queue.
LEMMA NextPid ==
    ASSUME MemoryInv
    PROVE  /\ free_queue_head \in 0 .. MAX_PIDS - 1
           /\ free_queue[free_queue_head] = free_queue_head
           /\ created < MAX_PIDS => free_queue_head = created
  BY DEF MemoryInv, free_queue

\* process_create's context.
LEMMA MemoryContext == MemoryInv /\ NewContextBlock => MemoryInv'
<1> SUFFICES ASSUME MemoryInv, NewContextBlock PROVE MemoryInv'
  OBVIOUS
<1> DEFINE pid == free_queue[free_queue_head]
           entry == [context |-> Returned(CONTEXT), rsp |-> process_table[pid].rsp]
<1>1. /\ step = "context" /\ Try(CONTEXT)
      /\ process_table' = [process_table EXCEPT ![pid] = entry]
      /\ step' = "stack"
      /\ UNCHANGED <<node, free_queue_head, created>>
  BY DEF NewContextBlock
<1>2. /\ heap \in HEAP_START .. HeapEnd /\ created \in Nat
      /\ free_queue_head \in 0 .. MAX_PIDS - 1
      /\ created < MAX_PIDS => free_queue_head = created
      /\ process_table \in [0 .. MAX_PIDS - 1 -> [context : Nat, rsp : Nat]]
      /\ Supported(created) => Placed(created) /\ heap = Place(created)
  BY <1>1 DEF MemoryInv
<1>3. /\ heap' \in HEAP_START .. HeapEnd /\ heap_size' \in Nat /\ heap' + heap_size' = HeapEnd
      /\ Returned(CONTEXT) \in Nat
      /\ heap + Rounded(CONTEXT) <= HeapEnd =>
             Returned(CONTEXT) = heap /\ heap' = heap + Rounded(CONTEXT)
  BY <1>1, Tried DEF MemoryInv
<1>4. pid \in 0 .. MAX_PIDS - 1 /\ (created < MAX_PIDS => pid = created)
  BY NextPid
<1>5. entry \in [context : Nat, rsp : Nat]
  BY <1>2, <1>3, <1>4
<1> HIDE DEF pid
<1>6. process_table' \in [0 .. MAX_PIDS - 1 -> [context : Nat, rsp : Nat]]
  BY <1>1, <1>2, <1>4, <1>5
<1>7. ASSUME Supported(created + 1)
      PROVE  /\ Placed(created)'
             /\ heap' = Place(created) + Rounded(CONTEXT)
             /\ process_table'[created].context = Place(created)
  <2>1. created + 1 <= MAX_PIDS /\ Place(created + 1) <= HeapEnd /\ Supported(created)
    BY <1>2, <1>7, SupportedPlaces
  <2>2. created < MAX_PIDS /\ pid = created
    BY <1>2, <1>4, <2>1, ProcessMemoryAssumption
  <2>3. Placed(created) /\ heap = Place(created)
    BY <1>2, <2>1
  <2>4. heap + Rounded(CONTEXT) <= HeapEnd
    <3>1. Place(created) + Pair <= HeapEnd /\ Place(created) \in Nat
      BY <1>2, <2>1, Places
    <3> QED
      BY <2>3, <3>1, KernelSizes DEF Pair, HeapEnd
  <2>5. process_table'[created].context = Place(created)
    BY <1>1, <1>2, <1>3, <1>4, <2>2, <2>3, <2>4
  <2>6. \A p \in 0 .. created - 1 : process_table'[p] = process_table[p]
    BY <1>1, <1>2, <2>2
  <2> QED
    BY <1>1, <1>3, <2>3, <2>4, <2>5, <2>6 DEF Placed
<1> QED
  BY <1>1, <1>2, <1>3, <1>6, <1>7 DEF MemoryInv

\* A counter below its limit does not wrap.
LEMMA Unwrapped ==
    ASSUME NEW a \in Nat, NEW m \in Nat \ {0}, a < m
    PROVE  a % m = a
OBVIOUS

\* ... and its stack.
LEMMA MemoryStack == MemoryInv /\ NewStack => MemoryInv'
<1> SUFFICES ASSUME MemoryInv, NewStack PROVE MemoryInv'
  OBVIOUS
<1> DEFINE pid == free_queue[free_queue_head]
           top == Returned(STACK) + STACK
<1>1. /\ step = "stack" /\ Try(STACK)
      /\ process_table' = [process_table EXCEPT ![pid].rsp = top]
      /\ free_queue_head' = (free_queue_head + 1) % MAX_PIDS
      /\ created' = created + 1
      /\ step' = "context"
      /\ UNCHANGED node
  BY DEF NewStack, StackTop
<1>2. /\ heap \in HEAP_START .. HeapEnd /\ created \in Nat
      /\ free_queue_head \in 0 .. MAX_PIDS - 1
      /\ created < MAX_PIDS => free_queue_head = created
      /\ process_table \in [0 .. MAX_PIDS - 1 -> [context : Nat, rsp : Nat]]
      /\ Supported(created + 1) =>
             /\ Placed(created)
             /\ heap = Place(created) + Rounded(CONTEXT)
             /\ process_table[created].context = Place(created)
  BY <1>1 DEF MemoryInv
<1>3. /\ heap' \in HEAP_START .. HeapEnd /\ heap_size' \in Nat /\ heap' + heap_size' = HeapEnd
      /\ Returned(STACK) \in Nat
      /\ heap + Rounded(STACK) <= HeapEnd =>
             Returned(STACK) = heap /\ heap' = heap + Rounded(STACK)
  BY <1>1, Tried DEF MemoryInv
<1>4. pid \in 0 .. MAX_PIDS - 1 /\ (created < MAX_PIDS => pid = created)
  BY NextPid
<1>5. top \in Nat
  BY <1>3, KernelSizes
<1> HIDE DEF pid, top
<1>6. process_table' \in [0 .. MAX_PIDS - 1 -> [context : Nat, rsp : Nat]]
  BY <1>1, <1>2, <1>4, <1>5
<1>7. /\ free_queue_head' \in 0 .. MAX_PIDS - 1
      /\ created' < MAX_PIDS => free_queue_head' = created'
  <2>1. free_queue_head' \in 0 .. MAX_PIDS - 1
    BY <1>1, <1>2, ProcessMemoryAssumption
  <2>2. ASSUME created + 1 < MAX_PIDS
        PROVE  (created + 1) % MAX_PIDS = created + 1 /\ created < MAX_PIDS
    <3>1. created + 1 \in Nat /\ created \in Nat /\ MAX_PIDS \in Nat \ {0}
      BY <1>2, ProcessMemoryAssumption
    <3> QED
      BY <2>2, <3>1, Unwrapped
  <2> QED
    BY <1>1, <1>2, <2>1, <2>2
<1>8. ASSUME Supported(created + 1)
      PROVE  Placed(created)' /\ heap' = Place(created + 1)
  <2>1. created + 1 <= MAX_PIDS /\ Place(created + 1) <= HeapEnd
    BY <1>2, <1>8, SupportedPlaces
  <2>2. created < MAX_PIDS /\ pid = created
    BY <1>2, <1>4, <2>1, ProcessMemoryAssumption
  <2>3. /\ Placed(created)
        /\ heap = Place(created) + Rounded(CONTEXT)
        /\ process_table[created].context = Place(created)
    BY <1>2, <1>8
  <2>4. Place(created + 1) = heap + Rounded(STACK) /\ heap \in Nat
    <3>1. Place(created + 1) = Place(created) + Pair /\ Place(created) \in Nat
      BY <1>2, Places
    <3> QED
      BY <2>3, <3>1, KernelSizes DEF Pair
  <2>5. Returned(STACK) = heap /\ heap' = heap + Rounded(STACK)
    BY <1>3, <2>1, <2>4
  <2>6. process_table'[created] =
            [context |-> Place(created), rsp |-> Place(created) + Rounded(CONTEXT) + STACK]
    BY <1>1, <1>2, <1>4, <2>2, <2>3, <2>5 DEF top
  <2>7. \A p \in 0 .. created' - 1 :
            process_table'[p] = IF p = created THEN process_table'[created] ELSE process_table[p]
    BY <1>1, <1>2, <1>4, <2>2
  <2>8. \A p \in 0 .. created' - 1 : p # created => p \in 0 .. created - 1
    BY <1>1, <1>2
  <2> QED
    BY <1>1, <2>3, <2>4, <2>5, <2>6, <2>7, <2>8 DEF Placed
<1>9. created' \in Nat
  BY <1>1, <1>2
<1> QED
  BY <1>1, <1>3, <1>6, <1>7, <1>8, <1>9 DEF MemoryInv

LEMMA MemoryStep == MemoryInv /\ [MemoryNext]_memoryVars => MemoryInv'
<1>1. MemoryInv /\ UNCHANGED memoryVars => MemoryInv'
  BY DEF memoryVars, vars, ownerVars, MemoryInv, Placed
<1> QED
  BY <1>1, MemorySetupPit, MemoryContext, MemoryStack DEF MemoryNext

\* Where they were put, nobody's memory reaches into anybody else's.
LEMMA PlacedApart == MemoryInv => ProcessesApart
<1> SUFFICES ASSUME MemoryInv, step = "context", Supported(created)
             PROVE  LET owners == 0 .. created - 1 IN
                    /\ \A p \in owners : \A r \in RegionsOf(p) :
                           InHeap(r) /\ \A s \in NodeRegion : Disjoint(r, s)
                    /\ \A p, q \in owners : \A r \in RegionsOf(p), s \in RegionsOf(q) :
                           (p = q /\ r = s) \/ Disjoint(r, s)
  BY DEF ProcessesApart
<1> DEFINE C(p) == Region(Place(p), CONTEXT)
           S(p) == Region(Place(p) + Rounded(CONTEXT), STACK)
<1>1. created \in Nat /\ Placed(created)
  BY DEF MemoryInv
<1>2. \A p \in 0 .. created - 1 :
          p \in Nat /\ Place(p) \in Nat /\ RegionsOf(p) = {C(p), S(p)}
  <2>1. TAKE p \in 0 .. created - 1
  <2>2. p \in Nat /\ Place(p) \in Nat
    BY <1>1, Places
  <2>3. process_table[p] =
            [context |-> Place(p), rsp |-> Place(p) + Rounded(CONTEXT) + STACK]
    BY <1>1 DEF Placed
  <2>4. /\ process_table[p].context = Place(p)
        /\ process_table[p].rsp = Place(p) + Rounded(CONTEXT) + STACK
    BY <2>3
  <2>5. process_table[p].rsp - STACK = Place(p) + Rounded(CONTEXT)
    <3> HIDE DEF C, S
    <3> QED
      BY <2>2, <2>4, KernelSizes
  <2> QED
    BY <2>2, <2>4, <2>5 DEF RegionsOf
<1>3. \A p \in 0 .. created - 1 : \A r \in {C(p), S(p)} :
          /\ r.first \in Nat /\ r.end \in Nat
          /\ Place(p) <= r.first /\ r.end <= Place(p) + Pair
  BY <1>2, KernelSizes DEF Region, Pair
<1>4. \A p \in 0 .. created - 1 : Disjoint(C(p), S(p)) /\ Disjoint(S(p), C(p))
  BY <1>2, KernelSizes DEF Region, Disjoint
<1>5. Place(created) <= HeapEnd /\ Place(created) \in Nat
  BY <1>1, SupportedPlaces, Places
<1>6. \A p \in 0 .. created - 1 : Place(p) + Pair <= Place(created)
  BY <1>1, Places
<1>7. \A p, q \in 0 .. created - 1 : p < q => Place(p) + Pair <= Place(q)
  BY <1>2, Places
<1> HIDE DEF C, S
<1>8. \A p \in 0 .. created - 1 : \A r \in {C(p), S(p)} :
          InHeap(r) /\ \A s \in NodeRegion : Disjoint(r, s)
  <2>1. TAKE p \in 0 .. created - 1
  <2>2. TAKE r \in {C(p), S(p)}
  <2>3. /\ r.first \in Nat /\ r.end \in Nat /\ Place(p) \in Nat
        /\ HEAP_START + Rounded(NODE) <= r.first
    <3>1. p \in Nat /\ Place(p) \in Nat /\ HEAP_START + Rounded(NODE) <= Place(p)
      BY <1>2, Places
    <3>2. r.first \in Nat /\ r.end \in Nat /\ Place(p) <= r.first
      BY <1>3
    <3> QED
      BY <3>1, <3>2, KernelSizes
  <2>4. r.end <= HeapEnd
    BY <1>2, <1>3, <1>5, <1>6, KernelSizes DEF HeapEnd
  <2>5. \A s \in NodeRegion : s.end <= r.first
    BY <1>1, <2>3, KernelSizes DEF NodeRegion, Region, Placed
  <2> QED
    BY <2>3, <2>4, <2>5, KernelSizes DEF InHeap, Disjoint
<1>9. \A p, q \in 0 .. created - 1 : \A r \in {C(p), S(p)}, s \in {C(q), S(q)} :
          (p = q /\ r = s) \/ Disjoint(r, s)
  <2>1. TAKE p, q \in 0 .. created - 1
  <2>2. TAKE r \in {C(p), S(p)}, s \in {C(q), S(q)}
  <2>3. CASE p = q
    BY <1>4, <2>3
  <2>4. CASE p < q
    BY <1>2, <1>3, <1>7, <2>4, KernelSizes DEF Disjoint
  <2>5. CASE q < p
    BY <1>2, <1>3, <1>7, <2>5, KernelSizes DEF Disjoint
  <2> QED
    BY <1>1, <2>3, <2>4, <2>5
<1> QED
  BY <1>2, <1>8, <1>9

\* As long as the pids and the heap suffice no process's context or stack reaches
\* into another's or into the timer's handler.
THEOREM MemoryApart == MemorySpec => []ProcessesApart
BY MemoryInitially, MemoryStep, PlacedApart, PTL DEF MemorySpec

=============================================================================
