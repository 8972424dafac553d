----------------------------- MODULE SleepQueue -----------------------------
(***************************************************************************)
(* sleep_process of process.c: a process is put at the end of the ring     *)
(* sleep_queue, which is then to be sorted by the time that remains.       *)
(* System call 1 has its call commented out; nothing takes a process out   *)
(* of the ring again and nothing counts its time down.                     *)
(*                                                                         *)
(* A ring is a record: queue is sleep_queue, tail is sleep_queue_tail (the *)
(* head stays at 0), time is time_remaining of the process table.          *)
(***************************************************************************)
EXTENDS Integers

CONSTANTS
    MAX_PROCESSES,    \* length of the ring (128)
    PIDS,             \* the processes that sleep
    TIMES             \* the times they sleep for

\* With one process less than entries the ring never looks empty.
ASSUME SleepQueueAssumption ==
    /\ MAX_PROCESSES \in Nat \ {0}
    /\ PIDS \subseteq 0 .. MAX_PROCESSES - 2
    /\ TIMES \subseteq Nat

NoSleepers ==
    [queue |-> [i \in 0 .. MAX_PROCESSES - 1 |-> 0], tail |-> 0, time |-> [p \in PIDS |-> 0]]

Entries(ring)  == 0 .. ring.tail - 1
Sleepers(ring) == {ring.queue[i] : i \in Entries(ring)}
Time(ring, i)  == ring.time[ring.queue[i]]

\* Faulty variants of Exchange: downwards; without temp.
ExchangeDown(ring, i, j) ==
    IF i <= j /\ Time(ring, i) < Time(ring, j)
    THEN [ring EXCEPT !.queue[i] = ring.queue[j], !.queue[j] = ring.queue[i]]
    ELSE ring

ExchangeNoTemp(ring, i, j) ==
    IF i <= j /\ Time(ring, i) > Time(ring, j)
    THEN [ring EXCEPT !.queue[i] = ring.queue[j]]
    ELSE ring

\* The body of the inner loop.
Exchange(ring, i, j) ==
    IF i <= j /\ Time(ring, i) > Time(ring, j)
    THEN [ring EXCEPT !.queue[i] = ring.queue[j], !.queue[j] = ring.queue[i]]
    ELSE ring

\* The two nested loops.
Exchanged(ring) ==
    LET n == ring.tail
        after[s \in 0 .. n * n] ==
            IF s = 0 THEN ring ELSE Exchange(after[s - 1], (s - 1) \div n, (s - 1) % n)
    IN after[n * n]

\* The test for `sorted': is an entry shorter than the new one?  The new one is
\* among them.
Shorter(ring, pid) == \E i \in Entries(ring) : Time(ring, i) < ring.time[pid]

Queued(ring, pid, t) ==
    [queue |-> [ring.queue EXCEPT ![ring.tail] = pid],
     tail  |-> (ring.tail + 1) % MAX_PROCESSES,
     time  |-> [ring.time EXCEPT ![pid] = t]]

sleep_process(ring, pid, t) ==
    LET q == Queued(ring, pid, t) IN IF Shorter(q, pid) THEN Exchanged(q) ELSE q

=============================================================================
