------------------------------ MODULE RunQueue ------------------------------
(***************************************************************************)
(* The ring buffer of process.c: an array of MAX_PROCESSES pids with a     *)
(* head and a tail index.  run_queue and sleep_queue have this shape.  The *)
(* code keeps no length: head = tail is read as "empty", so a ring that is *)
(* filled completely is indistinguishable from an empty one.               *)
(***************************************************************************)
EXTENDS Integers, Sequences

CONSTANT MAX_PROCESSES    \* slots of a ring and of the process table (128)

\* The ring arithmetic needs two slots to tell an element from "empty".
ASSUME MaxProcessesAssumption == MAX_PROCESSES \in Nat /\ MAX_PROCESSES > 1

Slot == 0 .. MAX_PROCESSES - 1

\* (i + 1) % MAX_PROCESSES: the slot that follows slot i.
Advance(i) == (i + 1) % MAX_PROCESSES

\* The slots that hold elements when the indices are head and tail.
Occupied(head, tail) ==
    IF head <= tail
    THEN head .. (tail - 1)
    ELSE (head .. (MAX_PROCESSES - 1)) \cup (0 .. (tail - 1))

\* The number of elements, and the elements from the oldest to the newest.
QueueLength(head, tail) ==
    IF head <= tail THEN tail - head ELSE MAX_PROCESSES - head + tail

Contents(q, head, tail) ==
    [k \in 1 .. QueueLength(head, tail) |-> q[(head + k - 1) % MAX_PROCESSES]]

\* The ring holds every member of S in exactly one slot, and nothing else.
HoldsOnce(q, head, tail, S) ==
    /\ \A i \in Occupied(head, tail) : q[i] \in S
    /\ \A i, j \in Occupied(head, tail) : q[i] = q[j] => i = j
    /\ \A p \in S : \E i \in Occupied(head, tail) : q[i] = p

\* Every slot but one is taken: the next insertion would make the ring look
\* empty.
IsFull(head, tail) == Advance(tail) = head

=============================================================================
