----------------------------- MODULE RoundRobin -----------------------------
(***************************************************************************)
(* What FrogOS's scheduler promises: tasks take the CPU in turn.  The      *)
(* waiting tasks form a queue, the CPU always goes to the one that has     *)
(* waited longest, and the task that has the CPU keeps it for a quantum of *)
(* ticks unless it gives the rest away.  Module Scheduler implements this  *)
(* with a ring of pids, a table of process states and saved contexts.      *)
(***************************************************************************)
EXTENDS Integers, Sequences

CONSTANTS Tasks,     \* how many tasks there are: 1 .. Tasks
          Quantum    \* ticks a task may keep the CPU

Task   == 1 .. Tasks
NoTask == -1         \* before the first tick
Idle   == 0

VARIABLES queue,     \* the tasks waiting for the CPU, longest waiting first
          running,   \* who has the CPU
          left       \* ticks left to it

rrVars == <<queue, running, left>>

Waiting == {queue[i] : i \in DOMAIN queue}

RRInit ==
    /\ queue = [i \in 1 .. Tasks |-> i]
    /\ running = NoTask
    /\ left = 0

\* The CPU goes to the head of q.
Grant(q) ==
    /\ q # <<>>
    /\ running' = Head(q)
    /\ queue' = Tail(q)
    /\ left' = Quantum

\* The first tick starts the idle process.
StartIdle ==
    /\ running = NoTask
    /\ running' = Idle
    /\ left' = Quantum
    /\ UNCHANGED queue

\* The running task lines up again; it loses the CPU at the next tick.
GiveUp ==
    /\ running \in Task \ Waiting
    /\ queue' = Append(queue, running)
    /\ UNCHANGED <<running, left>>

UseTick ==
    /\ running \in Task \ Waiting
    /\ left > 1
    /\ left' = left - 1
    /\ UNCHANGED <<queue, running>>

Expire ==
    /\ running \in Task \ Waiting
    /\ left = 1
    /\ Grant(Append(queue, running))

Switch ==
    /\ running = Idle \/ running \in Waiting
    /\ Grant(queue)

OnTick == StartIdle \/ UseTick \/ Expire \/ Switch

RRNext == OnTick \/ GiveUp

RRSpec == RRInit /\ [][RRNext]_rrVars

FairRRSpec == RRSpec /\ WF_rrVars(OnTick)

=============================================================================
