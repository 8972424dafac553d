-------------------------------- MODULE Heap --------------------------------
(***************************************************************************)
(* FrogOS's heap, mem.c: malloc cuts aligned blocks off the front of one   *)
(* region and nothing is ever given back.  The contexts and the stacks of  *)
(* the processes are such blocks.  size_t arithmetic is modulo MODULUS.    *)
(***************************************************************************)
EXTENDS Integers

CONSTANTS
    MODULUS,      \* 2^64
    ALIGN,        \* what sizes are rounded up to (8)
    HEAP_START,   \* 0x300000
    HEAP_SIZE,    \* 0x100000
    SIZES         \* the sizes asked for

ASSUME HeapAssumption ==
    /\ ALIGN \in Nat \ {0}
    /\ MODULUS \in Nat
    /\ MODULUS % ALIGN = 0
    /\ HEAP_START \in Nat
    /\ HEAP_START % ALIGN = 0
    /\ HEAP_SIZE \in Nat
    /\ HEAP_START + HEAP_SIZE < MODULUS
    /\ SIZES \subseteq 0 .. MODULUS - 1

HeapEnd == HEAP_START + HEAP_SIZE

VARIABLES
    heap,         \* where the rest of the region starts
    heap_size,    \* how long it is
    blocks        \* the blocks given out: where they start, how much was asked
                  \* for, how much cut off

vars == <<heap, heap_size, blocks>>

Block == [start : HEAP_START .. HeapEnd, asked : SIZES, size : 0 .. HEAP_SIZE]

Init ==
    /\ heap = HEAP_START
    /\ heap_size = HEAP_SIZE
    /\ blocks = {}

\* Faulty variant of Rounded: down instead of up.
RoundedDown(size) == size - (size % ALIGN)

\* if (size % 8 != 0) size += 8 - (size % 8): wraps to 0 just below MODULUS.
Rounded(size) ==
    IF size % ALIGN = 0 THEN size
    ELSE IF size + (ALIGN - (size % ALIGN)) = MODULUS THEN 0
    ELSE size + (ALIGN - (size % ALIGN))

\* Faulty variant of malloc: the rest is not moved up by what is cut off.
mallocMovesAsked(size) ==
    /\ size # 0
    /\ Rounded(size) <= heap_size
    /\ heap' = heap + size - (size % ALIGN)
    /\ heap_size' = heap_size - Rounded(size)
    /\ blocks' = blocks \cup {[start |-> heap, asked |-> size, size |-> Rounded(size)]}

\* malloc(size), when it does not return 0.
malloc(size) ==
    /\ size # 0
    /\ Rounded(size) <= heap_size
    /\ heap' = heap + Rounded(size)
    /\ heap_size' = heap_size - Rounded(size)
    /\ blocks' = blocks \cup {[start |-> heap, asked |-> size, size |-> Rounded(size)]}

Next == \E size \in SIZES : malloc(size)

Spec == Init /\ [][Next]_vars

-----------------------------------------------------------------------------
(* Properties.                                                             *)

\* Every variable stays within its range.
TypeOK ==
    /\ heap \in HEAP_START .. HeapEnd
    /\ heap_size \in 0 .. HEAP_SIZE
    /\ blocks \subseteq Block

\* Blocks never overlap, whatever has been asked for: no process's stack lies in
\* another's, nor in anybody's context.
BlocksApart ==
    \A a, b \in blocks :
        a = b \/ a.start + a.size <= b.start \/ b.start + b.size <= a.start

\* A block is as long as was asked for, but for sizes so near to 2^64 that
\* rounding up wraps: those succeed and get nothing.
BlocksSuffice == \A b \in blocks : b.asked <= b.size \/ b.asked > MODULUS - ALIGN

\* The inductive invariant of HeapProof: the blocks lie in what has been cut off,
\* and that and the rest make up the region.
HeapInv ==
    /\ TypeOK
    /\ heap + heap_size = HeapEnd
    /\ \A b \in blocks : b.start + b.size <= heap
    /\ BlocksApart
    /\ BlocksSuffice

=============================================================================
