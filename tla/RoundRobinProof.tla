--------------------------- MODULE RoundRobinProof ---------------------------
(***************************************************************************)
(* The scheduler of process.c implements RoundRobin, for every number of   *)
(* tasks, quantum and size of the process table: the ring of pids, the     *)
(* states of the process table and the saved contexts behave as a queue of *)
(* tasks that take the CPU in turn.  Every step of Scheduler is a step of  *)
(* RoundRobin under the mapping RR, or leaves the mapped state unchanged.  *)
(* The proof rests on SchedInv and on what the ring does as a sequence.    *)
(* The last part counts, with the same sequence, how long a sleeper waits: *)
(* the tasks ahead of it in the ring, one quantum each.                    *)
(***************************************************************************)
EXTENDS SchedulerProof

\* The abstract state of a running scheduler, and the tasks in its queue.
LEMMA MappedState ==
    ASSUME SchedInv, phase = "running"
    PROVE  /\ RR!Task = User
           /\ RR!Waiting = Ready
  <1>1. /\ run_queue_head \in Slot /\ run_queue_tail \in Slot
        /\ HoldsOnce(run_queue, run_queue_head, run_queue_tail, Ready)
    BY DEF SchedInv, BaseInv, TypeOK, QueueInv, Ready
  <1>2. \A x : x \in Ready <=> InRing(run_queue, run_queue_head, run_queue_tail, x)
    BY <1>1 DEF HoldsOnce, InRing
  <1>3. RR!Waiting = Ready
    <2> DEFINE c == Contents(run_queue, run_queue_head, run_queue_tail)
    <2>1. \A x : Holds(c, x) <=> InRing(run_queue, run_queue_head, run_queue_tail, x)
      BY <1>1, ContentsMembers
    <2>2. RR!Waiting = {c[k] : k \in DOMAIN c}
      BY DEF RR!Waiting
    <2> HIDE DEF c
    <2>3. \A x : x \in RR!Waiting <=> Holds(c, x)
      BY <2>2 DEF Holds
    <2>4. QED
      BY <1>2, <2>1, <2>3
  <1>4. QED
    BY <1>3 DEF RR!Task, User

\* While setup_process runs, the abstract queue already holds every task.
LEMMA MappedInit == Init => RR!RRInit
  BY DEF Init, RR!RRInit, RR!NoTask

\* enable() finds in the ring what the abstract queue has held all along.
LEMMA MappedSetup == SchedInv /\ Setup => UNCHANGED RR!rrVars
  <1> SUFFICES ASSUME SchedInv, Setup PROVE UNCHANGED RR!rrVars
    OBVIOUS
  <1>1. /\ phase # "running" /\ SetupInv /\ current_pid = -1 /\ current_pid' = -1
    BY DEF SchedInv, BaseInv, SetupInv, Setup, CreateInit, DropInit, CreateUser, Enable,
           process_create, tableVars
  <1>2. CASE Enable
    <2>1. /\ phase = "enable" /\ phase' = "running" /\ UNCHANGED ringVars
          /\ free_queue_head = USER_TASKS + 1
          /\ run_queue_head = 1 /\ run_queue_tail = USER_TASKS + 1
          /\ \A p \in 0 .. (USER_TASKS + 1) - 1 : run_queue[p] = p
      BY <1>1, <1>2 DEF Enable, SetupInv
    <2>2. QueueLength(1, USER_TASKS + 1) = USER_TASKS
      BY SchedulerAssumption DEF QueueLength
    <2>3. \A k \in 1 .. USER_TASKS : run_queue[(1 + k - 1) % MAX_PROCESSES] = k
      <3> SUFFICES ASSUME NEW k \in 1 .. USER_TASKS
                   PROVE  run_queue[(1 + k - 1) % MAX_PROCESSES] = k
        OBVIOUS
      <3>1. k \in 1 .. MAX_PROCESSES /\ 1 \in Slot /\ k < MAX_PROCESSES
        BY SchedulerAssumption, MaxProcessesAssumption DEF Slot
      <3>2. (1 + k - 1) % MAX_PROCESSES = 1 + k - 1 /\ 1 + k - 1 = k
        BY <3>1, SlotAt, MaxProcessesAssumption
      <3>3. k \in 0 .. (USER_TASKS + 1) - 1
        BY SchedulerAssumption
      <3>4. QED
        BY <2>1, <3>2, <3>3
    <2>4. Contents(run_queue', run_queue_head', run_queue_tail')
              = [i \in 1 .. USER_TASKS |-> i]
      BY <2>1, <2>2, <2>3 DEF Contents, ringVars
    <2>5. QED
      BY <1>1, <2>1, <2>4 DEF RR!rrVars
  <1>3. CASE CreateInit \/ DropInit \/ CreateUser
    <2>1. phase' # "running"
      BY <1>3 DEF CreateInit, DropInit, CreateUser
    <2>2. QED
      BY <1>1, <2>1 DEF RR!rrVars
  <1>4. QED
    BY <1>2, <1>3 DEF Setup

\* start_next gives the CPU to the head of the queue it is called with.
LEMMA MappedGrant ==
    ASSUME SchedInv, phase = "running", phase' = "running", current_pid \in Pid,
           NEW states \in [Slot -> {RUNNING, READY}],
           NEW remaining \in [Slot -> 0 .. QUANTUM],
           NEW queue \in [Slot -> Pid], NEW tail \in Slot,
           \A p \in User : states[p] = READY,
           HoldsOnce(queue, run_queue_head, tail, User),
           start_next(Interrupted, states, remaining, queue, tail)
    PROVE  RR!Grant(Contents(queue, run_queue_head, tail))
  <1>1. BaseInv /\ run_queue_head \in Slot
    BY DEF SchedInv, BaseInv, TypeOK
  <1>2. /\ current_pid' \in User /\ run_queue_head # tail
        /\ current_pid' = queue[run_queue_head]
    BY QueueSwitch
  <1>3. PICK pid \in Pid :
          /\ start_process(pid, Interrupted, states, remaining)
          /\ run_queue' = queue /\ run_queue_tail' = tail
          /\ run_queue_head' = Advance(run_queue_head)
    BY <1>1, <1>2, StartNextStep
  <1>4. current_pid' = pid /\ time_remaining'[pid] = QUANTUM
    BY <1>1, <1>3, StartProcessStep
  <1>5. current_pid' # -1
    BY <1>2, SchedulerAssumption DEF User
  <1>6. /\ Contents(queue, run_queue_head, tail) # << >>
        /\ Head(Contents(queue, run_queue_head, tail)) = queue[run_queue_head]
        /\ Tail(Contents(queue, run_queue_head, tail))
               = Contents(queue, Advance(run_queue_head), tail)
    BY <1>1, <1>2, ContentsPop
  <1>7. QED
    BY <1>2, <1>3, <1>4, <1>5, <1>6 DEF RR!Grant

\* What start_next is called with when the quantum has expired: every task is READY and
\* in the ring, the current one last.
PreemptWith(states, remaining, queue, tail) ==
    /\ \A p \in User : states[p] = READY
    /\ HoldsOnce(queue, run_queue_head, tail, User)
    /\ start_next(Interrupted, states, remaining, queue, tail)
    /\ tail = Advance(run_queue_tail)
    /\ Adds(run_queue, run_queue_tail, current_pid, queue)

LEMMA PreemptRing ==
    ASSUME SchedInv, phase = "running", Preempt(Interrupted)
    PROVE  \E states \in [Slot -> {RUNNING, READY}], remaining \in [Slot -> 0 .. QUANTUM],
              queue \in [Slot -> Pid], tail \in Slot :
                  PreemptWith(states, remaining, queue, tail)
  <1> DEFINE states == [state EXCEPT ![current_pid] = READY]
             remaining == [time_remaining EXCEPT ![current_pid] = 0]
             queue == [run_queue EXCEPT ![run_queue_tail] = current_pid]
             tail == Advance(run_queue_tail)
  <1>1. BaseInv /\ TypeOK /\ QueueInv
    BY DEF SchedInv, BaseInv
  <1>2. /\ Pid = User \cup {0} /\ 0 \notin User /\ -1 \notin Pid /\ User \subseteq Slot
    BY SchedulerAssumption, MaxProcessesAssumption DEF User, Pid, Slot
  <1>3. /\ HoldsOnce(run_queue, run_queue_head, run_queue_tail, Ready)
        /\ \A p \in User \ {current_pid} : state[p] = READY
    BY <1>1 DEF QueueInv, Ready, TypeOK
  <1>4. /\ current_pid \in User /\ state[current_pid] = RUNNING
        /\ start_next(Interrupted, states, remaining, queue, tail)
    BY <1>1, <1>2 DEF Preempt, TypeOK
  <1>5. /\ states \in [Slot -> {RUNNING, READY}]
        /\ queue \in [Slot -> Pid]
        /\ \A p \in User : states[p] = READY
    BY <1>1, <1>2, <1>3, <1>4 DEF TypeOK
  <1>6. remaining \in [Slot -> 0 .. QUANTUM]
    <2>1. 0 \in 0 .. QUANTUM
      BY SchedulerAssumption
    <2> QED
      BY <1>1, <2>1 DEF TypeOK
  <1>7. tail \in Slot
    BY <1>1, AdvanceValue DEF TypeOK
  <1>8. current_pid \notin Ready /\ Ready \cup {current_pid} = User
    BY <1>2, <1>3, <1>4 DEF Ready, RUNNING, READY
  <1>9. /\ run_queue \in [Slot -> Pid] /\ current_pid \in Pid
        /\ run_queue_head \in Slot /\ run_queue_tail \in Slot
        /\ ~IsFull(run_queue_head, run_queue_tail)
    BY <1>1, <1>2, <1>4, RingNotFull DEF TypeOK
  <1>10. HoldsOnce(queue, run_queue_head, tail, User)
    <2>1. HoldsOnce(queue, run_queue_head, tail, Ready \cup {current_pid})
      BY <1>3, <1>8, <1>9, HoldsOncePush
    <2> QED
      BY <1>8, <2>1
  <1>11. Adds(run_queue, run_queue_tail, current_pid, queue)
    BY <1>9 DEF Adds
  <1>12. tail = Advance(run_queue_tail)
    OBVIOUS
  <1> HIDE DEF states, remaining, queue, tail
  <1>13. PreemptWith(states, remaining, queue, tail)
    BY <1>4, <1>5, <1>10, <1>11, <1>12 DEF PreemptWith
  <1> QED
    BY <1>5, <1>6, <1>7, <1>13

\* Every tick grants the CPU, counts down the running task's quantum, or finds
\* that it has expired.  The idle process never finds the ring empty.
LEMMA MappedTick == SchedInv /\ Tick => RR!OnTick
  <1> SUFFICES ASSUME SchedInv, Tick PROVE RR!OnTick
    OBVIOUS
  <1>1. /\ phase = "running" /\ phase' = "running" /\ BaseInv /\ TypeOK /\ QueueInv
        /\ schedule_process(Interrupted)
    BY DEF Tick, setupVars, SchedInv, BaseInv
  <1>2. /\ Pid = User \cup {0} /\ 0 \notin User /\ -1 \notin Pid /\ 0 \in Pid
        /\ User \subseteq Slot
    BY SchedulerAssumption, MaxProcessesAssumption DEF User, Pid, Slot
  <1>3. /\ HoldsOnce(run_queue, run_queue_head, run_queue_tail, Ready)
        /\ \A p \in User \ {current_pid} : state[p] = READY
        /\ \A p \in User : state[p] = READY \/ state[p] = RUNNING
    BY <1>1, <1>2 DEF QueueInv, Ready, TypeOK
  <1>4. RR!Task = User /\ RR!Waiting = Ready
    BY <1>1, MappedState
  <1>5. CASE FirstTick(Interrupted)
    <2>1. /\ current_pid = -1 /\ UNCHANGED ringVars
          /\ start_process(0, Interrupted, state, time_remaining)
      BY <1>5 DEF FirstTick
    <2>2. current_pid' = 0 /\ time_remaining'[0] = QUANTUM
      BY <1>1, <1>2, <2>1, StartProcessStep DEF TypeOK
    <2>3. RR!StartIdle
      BY <1>1, <2>1, <2>2 DEF RR!StartIdle, RR!NoTask, RR!Idle, ringVars
    <2>4. QED
      BY <2>3 DEF RR!OnTick
  <1>6. CASE StayIdle(Interrupted)
    <2>1. current_pid = 0 /\ run_queue_head = run_queue_tail
      BY <1>6 DEF StayIdle
    <2>2. Ready = User
      BY <1>2, <1>3, <2>1 DEF Ready
    <2>3. run_queue_head # run_queue_tail
      BY <1>1, <1>3, <2>2, TasksFit, HoldsOnceNonEmpty DEF TypeOK
    <2>4. QED
      BY <2>1, <2>3
  <1>7. CASE LeaveIdle(Interrupted)
    <2>1. current_pid = 0
          /\ start_next(Interrupted, state, time_remaining, run_queue, run_queue_tail)
      BY <1>7 DEF LeaveIdle
    <2>2. Ready = User /\ \A p \in User : state[p] = READY
      BY <1>2, <1>3, <2>1 DEF Ready
    <2>3. RR!Grant(Contents(run_queue, run_queue_head, run_queue_tail))
      <3>1. /\ state \in [Slot -> {RUNNING, READY}]
            /\ time_remaining \in [Slot -> 0 .. QUANTUM]
            /\ run_queue \in [Slot -> Pid] /\ run_queue_tail \in Slot
            /\ current_pid \in Pid
            /\ HoldsOnce(run_queue, run_queue_head, run_queue_tail, User)
        BY <1>1, <1>2, <1>3, <2>1, <2>2 DEF TypeOK
      <3>2. QED
        BY <1>1, <2>1, <2>2, <3>1, MappedGrant DEF RR!Grant
    <2>4. RR!Switch
      BY <1>1, <2>1, <2>3 DEF RR!Switch, RR!Idle, RR!Grant
    <2>5. QED
      BY <2>4 DEF RR!OnTick
  <1>8. CASE CountDown(Interrupted)
    <2>1. /\ current_pid \in User /\ current_pid \in Slot /\ state[current_pid] = RUNNING
          /\ UNCHANGED <<ringVars, current_pid>>
          /\ time_remaining[current_pid] # 1
          /\ time_remaining' =
                 [time_remaining EXCEPT ![current_pid] = time_remaining[current_pid] - 1]
      BY <1>1, <1>2, <1>8 DEF CountDown, return_to, TypeOK
    <2>2. time_remaining[current_pid] \in 1 .. QUANTUM
      BY <1>1, <2>1 DEF BaseInv, QuantumPositive
    <2>3. time_remaining[current_pid] > 1
      BY <2>1, <2>2, SchedulerAssumption
    <2>4. time_remaining'[current_pid] = time_remaining[current_pid] - 1
      BY <1>1, <2>1 DEF TypeOK
    <2>5. current_pid \notin Ready /\ current_pid # -1
      BY <1>2, <2>1 DEF Ready, RUNNING, READY
    <2>6. RR!UseTick
      BY <1>1, <1>4, <2>1, <2>3, <2>4, <2>5 DEF RR!UseTick, ringVars
    <2>7. QED
      BY <2>6 DEF RR!OnTick
  <1>9. CASE Preempt(Interrupted)
    <2>1. /\ current_pid \in User /\ state[current_pid] = RUNNING
          /\ time_remaining[current_pid] = 1
          /\ ~IsFull(run_queue_head, run_queue_tail)
      BY <1>1, <1>2, <1>9, RingNotFull DEF Preempt, TypeOK
    <2>2. PICK states \in [Slot -> {RUNNING, READY}], remaining \in [Slot -> 0 .. QUANTUM],
               queue \in [Slot -> Pid], tail \in Slot :
                   PreemptWith(states, remaining, queue, tail)
      BY <1>1, <1>9, PreemptRing
    <2>3. /\ \A p \in User : states[p] = READY
          /\ HoldsOnce(queue, run_queue_head, tail, User)
          /\ start_next(Interrupted, states, remaining, queue, tail)
          /\ tail = Advance(run_queue_tail)
          /\ Adds(run_queue, run_queue_tail, current_pid, queue)
      BY <2>2 DEF PreemptWith
    <2>4. current_pid \notin Ready /\ current_pid \in Pid
      BY <1>2, <2>1 DEF Ready, RUNNING, READY
    <2>5. Contents(queue, run_queue_head, tail)
              = Append(Contents(run_queue, run_queue_head, run_queue_tail), current_pid)
      <3>1. run_queue_head \in Slot /\ run_queue_tail \in Slot
        BY <1>1 DEF TypeOK
      <3> QED
        BY <2>1, <2>3, <3>1, ContentsPush
    <2>6. RR!Grant(Contents(queue, run_queue_head, tail))
      BY <1>1, <2>3, <2>4, MappedGrant
    <2>7. RR!Expire
      BY <1>1, <1>2, <1>4, <2>1, <2>4, <2>5, <2>6 DEF RR!Expire, RR!Grant
    <2>8. QED
      BY <2>7 DEF RR!OnTick
  <1>10. CASE SwitchOut(Interrupted)
    <2>1. /\ current_pid \in User /\ state[current_pid] = READY
          /\ start_next(Interrupted, state, time_remaining, run_queue, run_queue_tail)
      BY <1>1, <1>2, <1>3, <1>10 DEF SwitchOut, TypeOK
    <2>2. Ready = User /\ \A p \in User : state[p] = READY
      BY <1>3, <2>1 DEF Ready
    <2>3. RR!Grant(Contents(run_queue, run_queue_head, run_queue_tail))
      <3>1. /\ state \in [Slot -> {RUNNING, READY}]
            /\ time_remaining \in [Slot -> 0 .. QUANTUM]
            /\ run_queue \in [Slot -> Pid] /\ run_queue_tail \in Slot
            /\ current_pid \in Pid
            /\ HoldsOnce(run_queue, run_queue_head, run_queue_tail, User)
        BY <1>1, <1>2, <1>3, <2>1, <2>2 DEF TypeOK
      <3>2. QED
        BY <1>1, <2>1, <2>2, <3>1, MappedGrant DEF RR!Grant
    <2>4. RR!Switch
      BY <1>1, <1>4, <2>1, <2>2, <2>3 DEF RR!Switch, RR!Grant
    <2>5. QED
      BY <2>4 DEF RR!OnTick
  <1>11. QED
    BY <1>1, <1>5, <1>6, <1>7, <1>8, <1>9, <1>10 DEF schedule_process

\* SYSCALL_SLEEP queues the caller, which keeps the CPU until the next tick.
LEMMA MappedSleep ==
    ASSUME SchedInv, SleepQueue
    PROVE  RR!GiveUp
  <1> USE DEF Place, KernelCode, SleepCode
  <1>1. /\ Goto("sleep_queue", "sleep_hlt") /\ BaseInv /\ TypeOK /\ QueueInv
        /\ UNCHANGED <<setupVars, run_queue_head, current_pid, time_remaining>>
        /\ add_to_run_queue(current_pid)
    BY DEF SleepQueue, SchedInv, BaseInv
  <1>2. phase = "running" /\ phase' = "running" /\ cpu.at = "sleep_queue"
    BY <1>1, GotoStep DEF setupVars
  <1>3. current_pid \in User /\ current_pid \in Pid /\ current_pid # -1
    BY QueueSleep, SchedulerAssumption DEF User, Pid
  <1>4. state[current_pid] = RUNNING /\ current_pid \notin Ready
    BY <1>1, <1>2, <1>3 DEF QueueInv, WaitsForTick, Ready, RUNNING, READY
  <1>5. RR!Task = User /\ RR!Waiting = Ready
    BY <1>2, MappedState
  <1>6. /\ run_queue \in [Slot -> Pid]
        /\ run_queue_head \in Slot /\ run_queue_tail \in Slot
        /\ ~IsFull(run_queue_head, run_queue_tail)
    BY <1>1, <1>2, RingNotFull DEF TypeOK
  <1>7. Contents(run_queue', run_queue_head', run_queue_tail')
            = Append(Contents(run_queue, run_queue_head, run_queue_tail), current_pid)
    <2>1. /\ run_queue' = [run_queue EXCEPT ![run_queue_tail] = current_pid]
          /\ run_queue_head' = run_queue_head /\ run_queue_tail' = Advance(run_queue_tail)
      BY <1>1 DEF add_to_run_queue
    <2>2. Adds(run_queue, run_queue_tail, current_pid, run_queue')
      BY <1>6, <2>1 DEF Adds
    <2>3. Contents(run_queue', run_queue_head, Advance(run_queue_tail))
              = Append(Contents(run_queue, run_queue_head, run_queue_tail), current_pid)
      BY <1>6, <2>2, ContentsPush
    <2>4. QED
      BY <2>1, <2>3
  <1>8. QED
    BY <1>1, <1>2, <1>3, <1>4, <1>5, <1>7 DEF RR!GiveUp

\* The other steps of a task that does not yield leave the ring and the quantum.
LEMMA MappedTask ==
    ASSUME "yield" \notin CALLS, SchedInv, UserStep \/ KernelStep
    PROVE  RR!GiveUp \/ UNCHANGED RR!rrVars
  <1>1. CASE UNCHANGED <<setupVars, ringVars, current_pid, time_remaining>>
    BY <1>1 DEF RR!rrVars, setupVars, ringVars
  <1>2. CASE SleepQueue
    BY <1>2, MappedSleep
  <1>3. ~Yield /\ ~YieldLoad /\ ~YieldSlot /\ ~YieldTail
    <2>1. ~Yield
      BY DEF Yield, UserCall
    <2>2. ~(YieldLoad \/ YieldSlot \/ YieldTail)
      BY NoYield DEF YieldLoad, YieldSlot, YieldTail, Goto, YieldCode
    <2>3. QED
      BY <2>1, <2>2
  <1>4. QED
    BY <1>1, <1>2, <1>3
    DEF UserStep, KernelStep, Sleep, Hlt, SleepMore, SleepReturn, Halt, tableVars

\* Every step of the scheduler is a step of the round robin or leaves it alone.
LEMMA MappedStep ==
    ASSUME "yield" \notin CALLS
    PROVE  SchedInv /\ [Next]_vars => [RR!RRNext]_RR!rrVars
  <1>1. UNCHANGED vars => UNCHANGED RR!rrVars
    BY DEF vars, setupVars, ringVars, tableVars, RR!rrVars
  <1>2. QED
    BY <1>1, MappedSetup, MappedTick, MappedTask DEF Next, RR!RRNext

\* The ring, the process states and the saved contexts behave as a queue of
\* tasks that take the CPU in turn for a quantum, when no task yields.
THEOREM RoundRobinImplemented ==
    ASSUME "yield" \notin CALLS
    PROVE  Spec => ImplementsRoundRobin
  <1>1. SchedInv /\ [Next]_vars => [RR!RRNext]_RR!rrVars
    BY MappedStep
  <1>2. QED
    BY <1>1, MappedInit, RunQueueCorrect, PTL
    DEF Spec, ImplementsRoundRobin, RR!RRSpec

-----------------------------------------------------------------------------
(* How long a sleeper waits for its turn.                                  *)

\* The multiples of the quantum that the bound is made of.
LEMMA Quanta ==
    ASSUME NEW k \in 0 .. USER_TASKS - 1
    PROVE  /\ k * QUANTUM \in Nat /\ (USER_TASKS - 1) * QUANTUM \in Nat
           /\ k * QUANTUM <= (USER_TASKS - 1) * QUANTUM
           /\ QUANTUM + (k - 1) * QUANTUM = k * QUANTUM
  <1>1. k \in Nat /\ USER_TASKS - 1 \in Nat /\ QUANTUM \in Nat /\ USER_TASKS - 1 - k \in Nat
    BY SchedulerAssumption
  <1>2. \A a, b \in Nat : a * b \in Nat
    OBVIOUS
  <1>3. \A a, b, q \in Nat : (a + b) * q = a * q + b * q
    OBVIOUS
  <1>4. (USER_TASKS - 1) * QUANTUM = k * QUANTUM + (USER_TASKS - 1 - k) * QUANTUM
    BY <1>1, <1>3
  <1>5. QUANTUM + (k - 1) * QUANTUM = k * QUANTUM
    BY <1>1
  <1>6. k * QUANTUM \in Nat /\ (USER_TASKS - 1 - k) * QUANTUM \in Nat
    BY <1>1, <1>2
  <1> DEFINE a == k * QUANTUM
             b == (USER_TASKS - 1 - k) * QUANTUM
             c == (USER_TASKS - 1) * QUANTUM
  <1>7. a \in Nat /\ b \in Nat /\ c = a + b
    BY <1>4, <1>6
  <1> HIDE DEF a, b, c
  <1>8. c \in Nat /\ a <= c
    BY <1>7
  <1> QED
    BY <1>5, <1>7, <1>8 DEF a, c

\* A queued task has fewer than USER_TASKS entries before it.
LEMMA TurnComes ==
    ASSUME SchedInv, phase = "running", NEW p, NEW i \in SlotsOf(p)
    PROVE  /\ i \in Slot
           /\ QueueLength(run_queue_head, i) \in 0 .. USER_TASKS - 1
  <1>1. /\ run_queue_head \in Slot /\ run_queue_tail \in Slot
        /\ HoldsOnce(run_queue, run_queue_head, run_queue_tail, Ready)
        /\ Ready \subseteq User
    BY DEF SchedInv, BaseInv, TypeOK, QueueInv, Ready
  <1>2. IsFiniteSet(User) /\ Cardinality(User) = USER_TASKS
    BY FS_Interval, SchedulerAssumption DEF User
  <1>3. IsFiniteSet(Ready) /\ Cardinality(Ready) <= USER_TASKS /\ Cardinality(Ready) \in Nat
    BY <1>1, <1>2, FS_Subset, FS_CardinalityType
  <1>4. /\ QueueLength(run_queue_head, run_queue_tail) <= Cardinality(Ready)
        /\ QueueLength(run_queue_head, run_queue_tail) \in Nat
    BY <1>1, <1>3, HoldsOnceLength, OccupiedCount
  <1>5. i \in Occupied(run_queue_head, run_queue_tail)
    BY DEF SlotsOf
  <1>6. /\ i \in Slot
        /\ QueueLength(run_queue_head, i)
               \in 0 .. QueueLength(run_queue_head, run_queue_tail) - 1
    BY <1>1, <1>5, BehindHead
  <1> HIDE DEF SchedInv
  <1> QED
    BY <1>3, <1>4, <1>6, SchedulerAssumption

\* A tick that comes when the CPU is halted or in a task leaves a task that sleeps at
\* the test of SYSCALL_SLEEP, and any other in its own code.
Landed(at) == IF at \in SleepCode THEN "sleep_check" ELSE "user"

LEMMA LandsAtTest ==
    ASSUME TypeOK, AtRest, cpu.at \in TaskCode
    PROVE  /\ Interrupted.at = Landed(cpu.at)
           /\ cpu.at \in SleepCode => cpu.at = "sleep_halted"
  BY DEF TypeOK, Stream, AtRest, Interrupted, Landed, TaskCode, UserCode, SleepCode, HltCode

\* What a tick adds to the clock of a sleeper, and what the clock is compared with.
LEMMA ClockValues ==
    ASSUME TypeOK, NEW p \in User
    PROVE  /\ slept[p] \in Nat /\ SleepTicks(rdi[p]) \in Nat
           /\ Latest(p) \in Nat /\ SleepTicks(rdi[p]) <= Latest(p)
           /\ SleepOver(p) <=> slept[p] >= SleepTicks(rdi[p])
           /\ CountTick => /\ slept'[p] \in Nat /\ slept'[p] <= slept[p] + 1
                           /\ Where(p) \notin SleepCode => slept'[p] = slept[p]
  <1>1. slept[p] \in Nat /\ rdi[p] \in Nat
    <2>1. slept[p] \in 0 .. SLEPT_MAX /\ rdi[p] \in {0} \cup SLEEP_MS
      BY DEF TypeOK
    <2>2. slept[p] \in Nat
      BY <2>1, SchedulerAssumption
    <2>3. \A ms \in SLEEP_MS : ms \in Nat
      BY SchedulerAssumption
    <2> DEFINE ms == rdi[p]
    <2>4. ms = 0 \/ ms \in SLEEP_MS
      BY <2>1
    <2> HIDE DEF ms
    <2>5. ms \in Nat
      BY <2>3, <2>4
    <2> QED
      BY <2>2, <2>5 DEF ms
  <1>2. SleepTicks(rdi[p]) \in Nat
    BY <1>1 DEF SleepTicks
  <1>3. (USER_TASKS - 1) * QUANTUM \in Nat
    <2>1. 0 \in 0 .. USER_TASKS - 1
      BY SchedulerAssumption
    <2> QED
      BY <2>1, Quanta
  <1>4. Latest(p) \in Nat /\ SleepTicks(rdi[p]) <= Latest(p)
    BY <1>2, <1>3 DEF Latest
  <1>5. CountTick => slept'[p] = IF Where(p) \in SleepCode /\ slept[p] < SLEPT_MAX
                                 THEN slept[p] + 1 ELSE slept[p]
    BY DEF CountTick
  <1> QED
    BY <1>1, <1>2, <1>4, <1>5 DEF SleepOver

\* start_process keeps every task at its place, but for the task that was interrupted.
LEMMA WhereStarted ==
    ASSUME BaseInv, phase = "running", current_pid \in Pid, NEW pid \in Pid,
           NEW states \in [Slot -> {RUNNING, READY}],
           NEW remaining \in [Slot -> 0 .. QUANTUM],
           start_process(pid, Interrupted, states, remaining), NEW p \in User
    PROVE  /\ Where(p) = IF p = current_pid THEN cpu.at ELSE context[p].at
           /\ Where(p)' = IF p = current_pid THEN Interrupted.at ELSE context[p].at
           /\ cpu'.pid = pid
           /\ p = pid => cpu'.at = Where(p)'
           /\ p # pid => context'[p].at = Where(p)'
  <1>1. /\ cpu'.pid = pid
        /\ cpu' = IF pid = current_pid THEN Interrupted ELSE context[pid]
        /\ context' = [context EXCEPT ![current_pid] = Interrupted]
    BY StartProcessStep, SchedulerAssumption DEF Pid
  <1>2. cpu.pid = current_pid /\ p \in Slot /\ context \in [Slot -> Stream]
    BY SchedulerAssumption, MaxProcessesAssumption
    DEF BaseInv, ContextIntegrity, TypeOK, User, Slot
  <1>3. context'[p] = IF p = current_pid THEN Interrupted ELSE context[p]
    BY <1>1, <1>2
  <1> QED
    BY <1>1, <1>2, <1>3 DEF Where

\* Once the head of the ring has been given the CPU, the others wait for its quantum and
\* for those before them, of whom there is one less.
LEMMA TurnTaken ==
    ASSUME BaseInv, phase = "running",
           NEW states \in [Slot -> {RUNNING, READY}],
           NEW remaining \in [Slot -> 0 .. QUANTUM],
           NEW queue \in [Slot -> Pid], NEW tail \in Slot, run_queue_head # tail,
           start_next(Interrupted, states, remaining, queue, tail),
           NEW p \in User, p # queue[run_queue_head], NEW i \in SlotsOf(p)'
    PROVE  /\ i \in Occupied(run_queue_head, tail) /\ queue[i] = p
           /\ QueueLength(run_queue_head, i) \in Nat
           /\ TicksTo(i)' = QUANTUM + (QueueLength(run_queue_head, i) - 1) * QUANTUM
  <1>1. PICK pid \in Pid :
          /\ start_process(pid, Interrupted, states, remaining)
          /\ run_queue' = queue /\ run_queue_tail' = tail
          /\ run_queue_head' = Advance(run_queue_head)
    BY StartNextStep
  <1>2. current_pid' = pid /\ state'[pid] = RUNNING /\ time_remaining'[pid] = QUANTUM
    <2>1. /\ current_pid' = pid /\ time_remaining'[pid] = QUANTUM
          /\ state' = [states EXCEPT ![pid] = RUNNING]
      BY <1>1, StartProcessStep
    <2>2. pid \in Slot
      BY SchedulerAssumption, MaxProcessesAssumption DEF Pid, Slot
    <2> QED
      BY <2>1, <2>2
  <1>3. run_queue_head \in Slot
    BY DEF BaseInv, TypeOK
  <1>4. i \in Occupied(Advance(run_queue_head), tail) /\ queue[i] = p
    BY <1>1 DEF SlotsOf
  <1>5. i \in Occupied(run_queue_head, tail) /\ i # run_queue_head
    BY <1>3, <1>4, OccupiedPop
  <1>6. QueueLength(Advance(run_queue_head), i) = QueueLength(run_queue_head, i) - 1
        /\ QueueLength(run_queue_head, i) \in Nat
    BY <1>3, <1>5, BehindHead
  <1>7. TicksLeft' = QUANTUM
    BY <1>2 DEF TicksLeft
  <1> QED
    BY <1>1, <1>4, <1>5, <1>6, <1>7 DEF TicksTo

\* A switch leaves every task in time, if all that wait have reckoned with it.
LEMMA SwitchInTime ==
    ASSUME SchedInv, PunctualInv, phase = "running", AtRest, current_pid \in Pid,
           CountTick, UNCHANGED <<setupVars, rdi, tail_read>>,
           NEW states \in [Slot -> {RUNNING, READY}],
           NEW remaining \in [Slot -> 0 .. QUANTUM],
           NEW queue \in [Slot -> Pid], NEW tail \in Slot,
           \A p \in User : states[p] = READY,
           HoldsOnce(queue, run_queue_head, tail, User),
           start_next(Interrupted, states, remaining, queue, tail),
           current_pid \in User => TicksLeft = 1,
           \A p \in User, i \in Occupied(run_queue_head, tail) :
               queue[i] = p /\ (p = current_pid => state[p] = READY) => i \in SlotsOf(p)
    PROVE  PunctualInv'
  <1>1. /\ BaseInv /\ TypeOK /\ QueueInv /\ run_queue_head \in Slot /\ cpu.pid = current_pid
        /\ \A p \in User : InTime(p)
        /\ \A p \in User \ {current_pid} : context[p].at \in {"user", "sleep_check"}
        /\ current_pid \notin User => \A p \in User : context[p].at = "user"
        /\ cpu.at \in WaitsForTick => state[current_pid] = READY
    BY DEF SchedInv, BaseInv, ContextIntegrity, TypeOK, PunctualInv
  <1>2. /\ current_pid' \in User /\ run_queue_head # tail
        /\ current_pid' = queue[run_queue_head]
    BY QueueSwitch
  <1>3. PICK pid \in Pid : start_process(pid, Interrupted, states, remaining)
    BY <1>1, <1>2, StartNextStep
  <1>4. pid = current_pid'
    BY <1>1, <1>3, StartProcessStep
  <1>5. ASSUME NEW p \in User
        PROVE  /\ Where(p) = IF p = current_pid THEN cpu.at ELSE context[p].at
               /\ Where(p)' = Landed(Where(p))
               /\ cpu'.pid = current_pid'
               /\ p = current_pid' => cpu'.at = Where(p)'
               /\ p # current_pid' => context'[p].at = Where(p)'
    <2>1. /\ Where(p) = IF p = current_pid THEN cpu.at ELSE context[p].at
          /\ Where(p)' = IF p = current_pid THEN Interrupted.at ELSE context[p].at
          /\ cpu'.pid = pid
          /\ p = pid => cpu'.at = Where(p)'
          /\ p # pid => context'[p].at = Where(p)'
      BY <1>1, <1>3, WhereStarted
    <2>2. CASE p = current_pid
      <3>1. cpu.at \in TaskCode
        BY <1>1, <2>2 DEF QueueInv
      <3> QED
        BY <1>1, <1>4, <2>1, <2>2, <3>1, LandsAtTest
    <2>3. CASE p # current_pid
      <3>1. context[p].at = Landed(context[p].at)
        BY <1>1, <2>3 DEF Landed, SleepCode
      <3> QED
        BY <1>4, <2>1, <2>3, <3>1
    <2> QED
      BY <2>2, <2>3
  <1>6. ASSUME NEW p \in User PROVE InTime(p)'
    <2>1. /\ slept[p] \in Nat /\ SleepTicks(rdi[p]) \in Nat
          /\ Latest(p) \in Nat /\ SleepTicks(rdi[p]) <= Latest(p)
          /\ SleepOver(p) <=> slept[p] >= SleepTicks(rdi[p])
          /\ slept'[p] \in Nat /\ slept'[p] <= slept[p] + 1
          /\ Where(p) \notin SleepCode => slept'[p] = slept[p]
          /\ Latest(p)' = Latest(p)
      <3>1. Latest(p)' = Latest(p)
        BY DEF Latest
      <3> QED
        BY <1>1, <3>1, ClockValues
    <2>2. CASE Where(p) \notin SleepCode
      <3>1. slept[p] = 0
        BY <1>1, <2>2 DEF InTime
      <3>2. Where(p)' = "user"
        BY <1>5, <2>2 DEF Landed
      <3>3. Where(p)' \notin SleepCode
        BY <3>2 DEF SleepCode
      <3>4. slept'[p] = 0
        BY <2>1, <2>2, <3>1
      <3> QED
        BY <3>3, <3>4 DEF InTime
    <2>3. CASE Where(p) \in SleepCode
      <3>1. Where(p)' = "sleep_check" /\ TicksLeft = 1
        <4>1. current_pid \in User
          BY <1>1, <1>5, <2>3 DEF SleepCode
        <4> QED
          BY <1>5, <2>3, <4>1 DEF Landed
      <3>2. p = current_pid => /\ slept'[p] <= SleepTicks(rdi[p])
                               /\ state[p] = READY
        <4> SUFFICES ASSUME p = current_pid
                     PROVE  slept'[p] <= SleepTicks(rdi[p]) /\ state[p] = READY
          OBVIOUS
        <4>1. cpu.at = "sleep_halted"
          <5>1. cpu.at \in TaskCode /\ cpu.at \in SleepCode
            BY <1>1, <1>5, <2>3 DEF QueueInv
          <5> QED
            BY <1>1, <5>1, LandsAtTest
        <4>2. ~SleepOver(p) /\ state[p] = READY
          BY <1>1, <2>3, <4>1 DEF InTime, WaitsForTick
        <4> QED
          BY <2>1, <4>2
      <3>3. p # current_pid =>
                /\ context[p].at = "sleep_check"
                /\ \A i \in SlotsOf(p) :
                       slept[p] + (1 + QueueLength(run_queue_head, i) * QUANTUM) <= Latest(p)
        <4> SUFFICES ASSUME p # current_pid
                     PROVE  /\ context[p].at = "sleep_check"
                            /\ \A i \in SlotsOf(p) :
                                   slept[p] + (1 + QueueLength(run_queue_head, i) * QUANTUM)
                                       <= Latest(p)
          OBVIOUS
        <4>1. context[p].at = "sleep_check" /\ cpu.pid # p
          BY <1>1, <1>5, <2>3 DEF SleepCode
        <4>2. \A i \in SlotsOf(p) : slept[p] + TicksTo(i) <= Latest(p)
          BY <1>1, <2>3, <4>1 DEF InTime, SleepCode
        <4> QED
          BY <3>1, <4>1, <4>2 DEF TicksTo
      <3>4. CASE p = current_pid'
        <4>1. slept'[p] <= Latest(p)
          <5>1. CASE p = current_pid
            BY <2>1, <3>2, <5>1
          <5>2. CASE p # current_pid
            <6>1. run_queue_head \in SlotsOf(p)
              <7>1. run_queue_head \in Occupied(run_queue_head, tail)
                BY <1>1, <1>2, OccupiedPop
              <7> QED
                BY <1>2, <3>4, <5>2, <7>1
            <6> DEFINE k == QueueLength(run_queue_head, run_queue_head)
            <6>2. k \in 0 .. USER_TASKS - 1
              BY <6>1, TurnComes
            <6>3. k * QUANTUM \in Nat
              BY <6>2, Quanta
            <6>4. slept[p] + (1 + k * QUANTUM) <= Latest(p)
              BY <3>3, <5>2, <6>1
            <6> DEFINE w == k * QUANTUM
            <6>5. w \in Nat /\ slept[p] + (1 + w) <= Latest(p)
              BY <6>3, <6>4
            <6> HIDE DEF w, k
            <6> QED
              BY <2>1, <6>5
          <5> QED
            BY <5>1, <5>2
        <4>2. cpu'.pid = p /\ cpu'.at = "sleep_check"
          BY <1>5, <3>1, <3>4
        <4> QED
          BY <2>1, <3>1, <4>1, <4>2 DEF InTime, SleepCode
      <3>5. CASE p # current_pid'
        <4>1. ASSUME NEW i \in SlotsOf(p)' PROVE slept'[p] + TicksTo(i)' <= Latest(p)
          <5> DEFINE k == QueueLength(run_queue_head, i)
          <5>1. /\ i \in Occupied(run_queue_head, tail) /\ queue[i] = p
                /\ TicksTo(i)' = QUANTUM + (k - 1) * QUANTUM
            BY <1>1, <1>2, <3>5, TurnTaken
          <5>2. i \in SlotsOf(p)
            BY <3>2, <5>1
          <5>3. k \in 0 .. USER_TASKS - 1
            BY <5>2, TurnComes
          <5> DEFINE w == k * QUANTUM
                     u == (USER_TASKS - 1) * QUANTUM
          <5>4. w \in Nat /\ u \in Nat /\ w <= u /\ TicksTo(i)' = w
            BY <5>1, <5>3, Quanta
          <5>5. Latest(p) = SleepTicks(rdi[p]) + u
            BY DEF Latest
          <5>6. p # current_pid => slept[p] + (1 + w) <= Latest(p)
            BY <3>3, <5>2
          <5> HIDE DEF k, w, u
          <5>7. CASE p = current_pid
            BY <2>1, <3>2, <5>4, <5>5, <5>7
          <5>8. CASE p # current_pid
            BY <2>1, <5>4, <5>6, <5>8
          <5> QED
            BY <5>7, <5>8
        <4>2. cpu'.pid # p /\ context'[p].at \in SleepCode
          BY <1>5, <3>1, <3>5 DEF SleepCode
        <4> QED
          BY <2>1, <3>1, <4>1, <4>2 DEF InTime, SleepCode
      <3> QED
        BY <3>4, <3>5
    <2> QED
      BY <2>2, <2>3
  <1>7. phase' = "running"
    BY DEF setupVars
  <1>8. /\ \A p \in User \ {current_pid'} : context'[p].at \in {"user", "sleep_check"}
        /\ cpu'.at \in {"user", "sleep_check"}
    BY <1>2, <1>5 DEF Landed
  <1> QED
    BY <1>2, <1>6, <1>7, <1>8 DEF PunctualInv, WaitsForTick

\* Before a task has had the CPU, nobody sleeps.
LEMMA NobodySleeps ==
    ASSUME TypeOK, CountTick, NEW p \in User, InTime(p), Where(p) = "user", Where(p)' = "user"
    PROVE  InTime(p)'
  <1>1. Where(p) \notin SleepCode /\ Where(p)' \notin SleepCode
    BY DEF SleepCode
  <1>2. slept'[p] = 0
    BY <1>1, ClockValues DEF InTime
  <1> QED
    BY <1>1, <1>2 DEF InTime

LEMMA PunctualTick == SchedInv /\ PunctualInv /\ AtRest /\ Tick => PunctualInv'
  <1> SUFFICES ASSUME SchedInv, PunctualInv, AtRest, Tick PROVE PunctualInv'
    OBVIOUS
  <1>1. /\ phase = "running" /\ phase' = "running" /\ BaseInv /\ TypeOK /\ QueueInv
        /\ CountTick /\ UNCHANGED <<setupVars, rdi, tail_read>>
        /\ schedule_process(Interrupted)
        /\ cpu.pid = current_pid
    BY DEF Tick, setupVars, SchedInv, BaseInv, ContextIntegrity
  <1>2. /\ Pid = User \cup {0} /\ 0 \notin User /\ -1 \notin Pid /\ 0 \in Pid
        /\ User \subseteq Slot
    BY SchedulerAssumption, MaxProcessesAssumption DEF User, Pid, Slot
  <1>3. /\ HoldsOnce(run_queue, run_queue_head, run_queue_tail, Ready)
        /\ \A p \in User \ {current_pid} : state[p] = READY
        /\ \A p \in User : state[p] = READY \/ state[p] = RUNNING
    BY <1>1, <1>2 DEF QueueInv, Ready, TypeOK
  <1>4. /\ \A p \in User : InTime(p)
        /\ \A p \in User \ {current_pid} : context[p].at \in {"user", "sleep_check"}
        /\ current_pid \notin User => \A p \in User : context[p].at = "user"
        /\ cpu.at \in WaitsForTick => state[current_pid] = READY
    BY <1>1 DEF PunctualInv
  <1>5. CASE FirstTick(Interrupted)
    <2>1. current_pid = -1 /\ start_process(0, Interrupted, state, time_remaining)
      BY <1>5 DEF FirstTick
    <2>2. /\ current_pid' = 0 /\ cpu'.pid = 0 /\ cpu' = context[0]
          /\ context' = context
      BY <1>1, <1>2, <2>1, StartProcessStep DEF TypeOK
    <2>3. cpu'.at = "init"
      BY <1>1, <2>1, <2>2 DEF QueueInv
    <2>4. \A p \in User : Where(p) = "user" /\ Where(p)' = "user"
      BY <1>1, <1>2, <1>4, <2>1, <2>2 DEF Where
    <2>5. \A p \in User : InTime(p)'
      BY <1>1, <1>4, <2>4, NobodySleeps
    <2> QED
      BY <1>1, <1>2, <1>4, <2>1, <2>2, <2>3, <2>5 DEF PunctualInv, WaitsForTick
  <1>6. CASE StayIdle(Interrupted)
    <2>1. current_pid = 0 /\ run_queue_head = run_queue_tail
      BY <1>6 DEF StayIdle
    <2>2. Ready = User
      BY <1>2, <1>3, <2>1 DEF Ready
    <2>3. run_queue_head # run_queue_tail
      BY <1>1, <1>3, <2>2, TasksFit, HoldsOnceNonEmpty DEF TypeOK
    <2> QED
      BY <2>1, <2>3
  <1>7. CASE LeaveIdle(Interrupted) \/ SwitchOut(Interrupted)
    <2>1. /\ current_pid \in Pid
          /\ current_pid \in User => state[current_pid] # RUNNING
          /\ start_next(Interrupted, state, time_remaining, run_queue, run_queue_tail)
      BY <1>1, <1>2, <1>7 DEF LeaveIdle, SwitchOut, TypeOK
    <2>2. Ready = User /\ \A p \in User : state[p] = READY
      BY <1>2, <1>3, <2>1 DEF Ready
    <2>3. current_pid \in User => TicksLeft = 1
      BY <2>1 DEF TicksLeft
    <2>4. \A p \in User, i \in Occupied(run_queue_head, run_queue_tail) :
              run_queue[i] = p /\ (p = current_pid => state[p] = READY) => i \in SlotsOf(p)
      BY DEF SlotsOf
    <2>5. /\ state \in [Slot -> {RUNNING, READY}]
          /\ time_remaining \in [Slot -> 0 .. QUANTUM]
          /\ run_queue \in [Slot -> Pid] /\ run_queue_tail \in Slot
          /\ HoldsOnce(run_queue, run_queue_head, run_queue_tail, User)
      BY <1>1, <1>3, <2>2 DEF TypeOK
    <2> QED
      BY <1>1, <2>1, <2>2, <2>3, <2>4, <2>5, SwitchInTime
  <1>8. CASE CountDown(Interrupted)
    <2>1. /\ current_pid \in User /\ current_pid \in Slot /\ state[current_pid] = RUNNING
          /\ UNCHANGED <<ringVars, current_pid, context, state>> /\ cpu' = Interrupted
          /\ time_remaining[current_pid] # 1
          /\ time_remaining' =
                 [time_remaining EXCEPT ![current_pid] = time_remaining[current_pid] - 1]
      BY <1>1, <1>2, <1>8 DEF CountDown, return_to, TypeOK
    <2>2. /\ time_remaining[current_pid] \in 2 .. QUANTUM
          /\ time_remaining'[current_pid] = time_remaining[current_pid] - 1
      <3>1. time_remaining[current_pid] \in 1 .. QUANTUM
        BY <1>1, <2>1 DEF BaseInv, QuantumPositive
      <3>2. time_remaining'[current_pid] = time_remaining[current_pid] - 1
        BY <1>1, <2>1 DEF TypeOK
      <3> QED
        BY <2>1, <3>1, <3>2, SchedulerAssumption
    <2>3. TicksLeft' = TicksLeft - 1 /\ TicksLeft \in Nat
      BY <2>1, <2>2, SchedulerAssumption DEF TicksLeft
    <2>4. cpu.at \notin SleepCode /\ cpu'.at = "user" /\ cpu'.pid = current_pid
      <3>1. cpu.at \in TaskCode /\ cpu.at \notin WaitsForTick
        BY <1>1, <1>4, <2>1 DEF QueueInv, RUNNING, READY
      <3>2. cpu.at # "sleep_halted"
        BY <3>1 DEF WaitsForTick
      <3>3. cpu.at \notin SleepCode /\ Interrupted.at = Landed(cpu.at)
        BY <1>1, <3>1, <3>2, LandsAtTest
      <3>4. Interrupted.pid = cpu.pid
        BY <1>1, InterruptedFrame
      <3> QED
        BY <1>1, <2>1, <3>3, <3>4 DEF Landed
    <2>5. ASSUME NEW p \in User PROVE InTime(p)'
      <3>1. /\ slept[p] \in Nat /\ Latest(p) \in Nat
            /\ slept'[p] \in Nat /\ slept'[p] <= slept[p] + 1
            /\ Where(p) \notin SleepCode => slept'[p] = slept[p]
            /\ Latest(p)' = Latest(p)
        <4>1. Latest(p)' = Latest(p)
          BY <1>1 DEF Latest
        <4> QED
          BY <1>1, <4>1, ClockValues
      <3>2. CASE p = current_pid
        <4>1. Where(p) \notin SleepCode /\ Where(p)' = "user"
          BY <1>1, <2>4, <3>2 DEF Where
        <4>2. slept'[p] = 0
          BY <1>4, <3>1, <4>1 DEF InTime
        <4> QED
          BY <4>1, <4>2 DEF InTime, SleepCode
      <3>3. CASE p # current_pid
        <4>1. Where(p) = context[p].at /\ Where(p)' = Where(p) /\ cpu.pid # p /\ cpu'.pid # p
          BY <1>1, <2>1, <2>4, <3>3 DEF Where
        <4>2. SlotsOf(p)' = SlotsOf(p)
          BY <2>1 DEF SlotsOf, ringVars
        <4>3. ASSUME Where(p) \in SleepCode, NEW i \in SlotsOf(p)
              PROVE  slept'[p] + TicksTo(i)' <= Latest(p)
          <5>1. slept[p] + TicksTo(i) <= Latest(p)
            BY <1>4, <4>1, <4>3 DEF InTime
          <5> DEFINE w == QueueLength(run_queue_head, i) * QUANTUM
          <5>2. TicksTo(i) = TicksLeft + w /\ TicksTo(i)' = TicksLeft' + w
            BY <2>1 DEF TicksTo, ringVars
          <5>3. w \in Nat
            BY <1>1, TurnComes, Quanta
          <5> HIDE DEF w
          <5> QED
            BY <2>3, <3>1, <5>1, <5>2, <5>3
        <4>4. Where(p) \notin SleepCode => slept'[p] = 0
          BY <1>4, <3>1 DEF InTime
        <4> QED
          BY <3>1, <4>1, <4>2, <4>3, <4>4 DEF InTime
      <3> QED
        BY <3>2, <3>3
    <2> QED
      BY <1>1, <1>4, <2>1, <2>4, <2>5 DEF PunctualInv, WaitsForTick
  <1>9. CASE Preempt(Interrupted)
    <2>1. /\ current_pid \in User /\ current_pid \in Pid /\ state[current_pid] = RUNNING
          /\ time_remaining[current_pid] = 1
          /\ ~IsFull(run_queue_head, run_queue_tail)
      BY <1>1, <1>2, <1>9, RingNotFull DEF Preempt, TypeOK
    <2>2. PICK states \in [Slot -> {RUNNING, READY}], remaining \in [Slot -> 0 .. QUANTUM],
               queue \in [Slot -> Pid], tail \in Slot :
                   PreemptWith(states, remaining, queue, tail)
      BY <1>1, <1>9, PreemptRing
    <2>3. /\ \A p \in User : states[p] = READY
          /\ HoldsOnce(queue, run_queue_head, tail, User)
          /\ start_next(Interrupted, states, remaining, queue, tail)
          /\ tail = Advance(run_queue_tail)
          /\ Adds(run_queue, run_queue_tail, current_pid, queue)
      BY <2>2 DEF PreemptWith
    <2>4. TicksLeft = 1
      BY <2>1 DEF TicksLeft
    <2>5. ASSUME NEW p \in User, NEW i \in Occupied(run_queue_head, tail),
                 queue[i] = p, p = current_pid => state[p] = READY
          PROVE  i \in SlotsOf(p)
      <3>1. p # current_pid
        BY <2>1, <2>5 DEF RUNNING, READY
      <3>2. /\ Occupied(run_queue_head, tail)
                   = Occupied(run_queue_head, run_queue_tail) \cup {run_queue_tail}
            /\ Occupied(run_queue_head, run_queue_tail) \subseteq Slot
        BY <1>1, <2>1, <2>3, OccupiedPush, OccupiedSlots DEF TypeOK
      <3>3. queue[run_queue_tail] = current_pid
            /\ \A j \in Slot \ {run_queue_tail} : queue[j] = run_queue[j]
        BY <2>3 DEF Adds
      <3> QED
        BY <2>5, <3>1, <3>2, <3>3 DEF SlotsOf
    <2> QED
      BY <1>1, <2>1, <2>3, <2>4, <2>5, SwitchInTime
  <1> QED
    BY <1>1, <1>5, <1>6, <1>7, <1>8, <1>9 DEF schedule_process

\* A step of the current task makes nobody else wait longer.
LEMMA OthersInTime ==
    ASSUME SchedInv, PunctualInv, NEW from \in TaskCode, NEW to \in TaskCode, Goto(from, to),
           UNCHANGED <<setupVars, run_queue_head, current_pid, context>>,
           \A p \in User \ {current_pid} :
               slept'[p] = slept[p] /\ rdi'[p] = rdi[p] /\ SlotsOf(p)' = SlotsOf(p),
           TicksLeft \in Nat, TicksLeft' \in Nat, TicksLeft' <= TicksLeft,
           to \in WaitsForTick => state'[current_pid] = READY,
           NEW c, c = current_pid, InTime(c)'
    PROVE  PunctualInv'
  <1> USE DEF Place, KernelCode, TaskCode, UserCode, SleepCode, HltCode
  <1>1. /\ phase = "running" /\ phase' = "running" /\ TypeOK
        /\ cpu.pid = current_pid /\ cpu'.pid = current_pid /\ cpu'.at = to
    BY GotoStep DEF SchedInv, BaseInv, setupVars
  <1>2. current_pid \in User
    <2>1. current_pid \in Pid /\ cpu.at # "init"
      BY GotoStep DEF SchedInv
    <2> QED
      BY <1>1, <2>1 DEF SchedInv, QueueInv, Pid, User
  <1>3. /\ \A p \in User : InTime(p)
        /\ \A p \in User \ {current_pid} : context[p].at \in {"user", "sleep_check"}
    BY <1>1 DEF PunctualInv
  <1>4. ASSUME NEW p \in User, p # current_pid PROVE InTime(p)'
    <2>1. Where(p) = context[p].at /\ Where(p)' = Where(p) /\ cpu.pid # p /\ cpu'.pid # p
      BY <1>1, <1>4 DEF Where
    <2>2. /\ slept'[p] = slept[p] /\ Latest(p)' = Latest(p) /\ SlotsOf(p)' = SlotsOf(p)
          /\ slept[p] \in Nat /\ Latest(p) \in Nat
      <3>1. slept'[p] = slept[p] /\ rdi'[p] = rdi[p] /\ SlotsOf(p)' = SlotsOf(p)
        BY <1>4
      <3>2. Latest(p)' = Latest(p)
        BY <3>1 DEF Latest
      <3> QED
        BY <1>1, <3>1, <3>2, ClockValues
    <2>3. ASSUME Where(p) \in SleepCode, NEW i \in SlotsOf(p)
          PROVE  slept[p] + TicksTo(i)' <= Latest(p)
      <3>1. slept[p] + TicksTo(i) <= Latest(p)
        BY <1>3, <2>1, <2>3 DEF InTime
      <3> DEFINE w == QueueLength(run_queue_head, i) * QUANTUM
      <3>2. TicksTo(i) = TicksLeft + w /\ TicksTo(i)' = TicksLeft' + w
        BY DEF TicksTo
      <3>3. w \in Nat
        BY <1>1, TurnComes, Quanta
      <3> HIDE DEF w
      <3> QED
        BY <2>2, <3>1, <3>2, <3>3
    <2>4. Where(p) \notin SleepCode => slept[p] = 0
      BY <1>3 DEF InTime
    <2> HIDE DEF SleepCode
    <2> QED
      BY <2>1, <2>2, <2>3, <2>4 DEF InTime
  <1>5. \A p \in User : InTime(p)'
    BY <1>4
  <1> QED
    BY <1>1, <1>2, <1>3, <1>5 DEF PunctualInv

\* The quantum that the current task has left.
LEMMA TicksLeftValue ==
    ASSUME SchedInv, current_pid \in User, phase = "running"
    PROVE  TicksLeft \in Nat /\ TicksLeft >= 1
  <1>1. state[current_pid] = RUNNING => time_remaining[current_pid] \in 1 .. QUANTUM
    BY DEF SchedInv, BaseInv, QuantumPositive
  <1> QED
    BY <1>1, SchedulerAssumption DEF TicksLeft

LEMMA PunctualTask ==
    ASSUME "yield" \notin CALLS, SchedInv, PunctualInv, UserStep \/ KernelStep
    PROVE  PunctualInv'
  <1>1. /\ BaseInv /\ TypeOK /\ current_pid \in User /\ current_pid' = current_pid
        /\ cpu.pid = current_pid /\ phase = "running"
    <2>1. current_pid \in User /\ current_pid' = current_pid
      BY QueueTask
    <2>2. phase = "running"
      BY <2>1, SchedulerAssumption DEF SchedInv, BaseInv, SetupInv, User
    <2> QED
      BY <2>1, <2>2 DEF SchedInv, BaseInv, ContextIntegrity
  <1>0. PICK c : c = current_pid
    OBVIOUS
  <1>2. /\ InTime(c) /\ TicksLeft \in Nat /\ TicksLeft >= 1
        /\ slept[c] \in Nat /\ Latest(c) \in Nat
        /\ slept \in [User -> 0 .. SLEPT_MAX] /\ rdi \in [User -> {0} \cup SLEEP_MS]
        /\ cpu.at \in WaitsForTick => state[c] = READY
    BY <1>0, <1>1, TicksLeftValue, ClockValues DEF PunctualInv, TypeOK
  <1>3. cpu \in Stream /\ c \in Pid /\ c # -1
    BY <1>0, <1>1, SchedulerAssumption DEF TypeOK, User, Pid
  <1>4. ASSUME NEW from, NEW to, Goto(from, to)
        PROVE  /\ cpu.at = from /\ cpu'.at = to /\ cpu'.pid = c
               /\ Where(c) = from /\ Where(c)' = to
    BY <1>0, <1>1, <1>3, <1>4 DEF Goto, Stream, Where
  <1>5. ASSUME UNCHANGED <<ringVars, tableVars>>
        PROVE  /\ UNCHANGED <<run_queue_head, current_pid, context>>
               /\ TicksLeft' = TicksLeft /\ state' = state
               /\ \A p \in User : SlotsOf(p)' = SlotsOf(p)
    BY <1>5 DEF ringVars, tableVars, TicksLeft, SlotsOf
  <1>6. ASSUME NEW ms \in SLEEP_MS, Sleep(ms) PROVE PunctualInv'
    <2>1. /\ Goto("user", "sleep_check") /\ rdi' = [rdi EXCEPT ![c] = ms]
          /\ UNCHANGED <<setupVars, ringVars, tableVars, slept>>
      BY <1>0, <1>1, <1>6 DEF Sleep, UserCall
    <2>2. /\ cpu.at = "user" /\ cpu'.at = "sleep_check" /\ cpu'.pid = c
          /\ Where(c) = "user" /\ Where(c)' = "sleep_check"
      BY <1>4, <2>1
    <2>3. slept'[c] = 0
      BY <1>2, <2>1, <2>2 DEF InTime, SleepCode
    <2>4. Latest(c)' \in Nat
      <3>1. rdi'[c] = ms /\ ms \in Nat
        BY <1>0, <1>1, <1>2, <1>6, <2>1, SchedulerAssumption
      <3>2. SleepTicks(ms) \in Nat /\ (USER_TASKS - 1) * QUANTUM \in Nat
        <4>1. 0 \in 0 .. USER_TASKS - 1
          BY SchedulerAssumption
        <4> QED
          BY <3>1, <4>1, Quanta DEF SleepTicks
      <3> QED
        BY <3>1, <3>2 DEF Latest
    <2>5. InTime(c)'
      BY <2>2, <2>3, <2>4 DEF InTime, SleepCode
    <2> QED
      BY <1>0, <1>1, <1>2, <1>5, <2>1, <2>2, <2>5, OthersInTime
      DEF TaskCode, UserCode, SleepCode, WaitsForTick
  <1>7. CASE Hlt
    <2>1. Goto("user", "sys_hlt") /\ UNCHANGED <<setupVars, ringVars, tableVars, localVars>>
      BY <1>7 DEF Hlt, UserCall
    <2>2. Where(c) = "user" /\ Where(c)' = "sys_hlt"
      BY <1>4, <2>1
    <2>3. InTime(c)'
      BY <1>2, <2>1, <2>2 DEF InTime, SleepCode, localVars
    <2> QED
      BY <1>0, <1>1, <1>2, <1>5, <2>1, <2>3, OthersInTime
      DEF TaskCode, UserCode, HltCode, WaitsForTick, localVars
  <1>8. CASE SleepMore
    <2>1. /\ Goto("sleep_check", "sleep_queue") /\ ~SleepOver(c)
          /\ UNCHANGED <<setupVars, ringVars, tableVars, localVars>>
      BY <1>0, <1>1, <1>8 DEF SleepMore
    <2>2. Where(c)' = "sleep_queue" /\ cpu'.at = "sleep_queue" /\ cpu'.pid = c
      BY <1>4, <2>1
    <2>3. ~SleepOver(c)'
      BY <1>0, <1>1, <2>1 DEF SleepOver, localVars
    <2>4. InTime(c)'
      BY <2>2, <2>3 DEF InTime, SleepCode
    <2> QED
      BY <1>0, <1>1, <1>2, <1>5, <2>1, <2>4, OthersInTime
      DEF TaskCode, SleepCode, WaitsForTick, localVars
  <1>9. CASE SleepReturn
    <2>1. /\ Goto("sleep_check", "user")
          /\ slept' = [slept EXCEPT ![c] = 0] /\ rdi' = [rdi EXCEPT ![c] = 0]
          /\ UNCHANGED <<setupVars, ringVars, tableVars>>
      BY <1>0, <1>1, <1>9 DEF SleepReturn
    <2>2. Where(c)' = "user" /\ slept'[c] = 0
      BY <1>0, <1>1, <1>2, <1>4, <2>1
    <2>3. InTime(c)'
      BY <2>2 DEF InTime, SleepCode
    <2> QED
      BY <1>0, <1>1, <1>2, <1>5, <2>1, <2>3, OthersInTime
      DEF TaskCode, UserCode, SleepCode, WaitsForTick
  <1>10. CASE SleepQueue
    <2>1. /\ Goto("sleep_queue", "sleep_hlt")
          /\ run_queue' = [run_queue EXCEPT ![run_queue_tail] = c]
          /\ run_queue_tail' = Advance(run_queue_tail)
          /\ state' = [state EXCEPT ![c] = READY]
          /\ UNCHANGED <<setupVars, run_queue_head, current_pid, context, localVars>>
      BY <1>0, <1>10 DEF SleepQueue, add_to_run_queue
    <2>2. /\ cpu.at = "sleep_queue" /\ Where(c) = "sleep_queue"
          /\ Where(c)' = "sleep_hlt" /\ cpu'.at = "sleep_hlt" /\ cpu'.pid = c
      BY <1>4, <2>1
    <2>3. ~SleepOver(c) /\ SleepOver(c)' = SleepOver(c)
      BY <1>0, <1>1, <1>2, <2>1, <2>2 DEF InTime, SleepCode, SleepOver, localVars
    <2>4. InTime(c)'
      BY <2>2, <2>3 DEF InTime, SleepCode
    <2>5. state'[c] = READY /\ TicksLeft' = 1
      <3>1. c \in Slot
        BY <1>0, <1>1, SchedulerAssumption, MaxProcessesAssumption DEF User, Slot
      <3>2. state'[c] = READY
        BY <1>0, <1>1, <2>1, <3>1 DEF TypeOK
      <3> QED
        BY <1>0, <1>1, <3>2 DEF TicksLeft, RUNNING, READY
    <2>6. ASSUME NEW p \in User \ {c} PROVE SlotsOf(p)' = SlotsOf(p)
      <3>1. ~IsFull(run_queue_head, run_queue_tail)
        BY <1>0, <1>1, RingNotFull
      <3>2. /\ run_queue_tail \notin Occupied(run_queue_head, run_queue_tail)
            /\ Occupied(run_queue_head, run_queue_tail')
                   = Occupied(run_queue_head, run_queue_tail) \cup {run_queue_tail}
            /\ Occupied(run_queue_head, run_queue_tail) \subseteq Slot
        BY <1>0, <1>1, <2>1, <3>1, OccupiedPush, OccupiedSlots DEF TypeOK
      <3>3. /\ run_queue'[run_queue_tail] = c
            /\ \A i \in Slot \ {run_queue_tail} : run_queue'[i] = run_queue[i]
        BY <1>0, <1>1, <2>1 DEF TypeOK
      <3> QED
        BY <2>1, <2>6, <3>2, <3>3 DEF SlotsOf
    <2> QED
      BY <1>0, <1>1, <1>2, <2>1, <2>4, <2>5, <2>6, OthersInTime
      DEF TaskCode, SleepCode, localVars
  <1>11. CASE Halt
    <2>1. /\ Goto("sleep_hlt", "sleep_halted") \/ Goto("sys_hlt", "sys_halted")
          /\ UNCHANGED <<setupVars, ringVars, tableVars, localVars>>
      BY <1>11 DEF Halt
    <2>2. CASE Goto("sleep_hlt", "sleep_halted")
      <3>1. /\ cpu.at = "sleep_hlt" /\ Where(c) = "sleep_hlt"
            /\ Where(c)' = "sleep_halted" /\ cpu'.at = "sleep_halted" /\ cpu'.pid = c
        BY <1>4, <2>2
      <3>2. ~SleepOver(c) /\ SleepOver(c)' = SleepOver(c)
        BY <1>0, <1>1, <1>2, <2>1, <3>1 DEF InTime, SleepCode, SleepOver, localVars
      <3>3. InTime(c)'
        BY <3>1, <3>2 DEF InTime, SleepCode
      <3>4. state[c] = READY
        BY <1>2, <3>1 DEF WaitsForTick
      <3> QED
        BY <1>0, <1>1, <1>2, <1>5, <2>1, <2>2, <3>3, <3>4, OthersInTime
        DEF TaskCode, SleepCode, localVars
    <2>3. CASE Goto("sys_hlt", "sys_halted")
      <3>1. Where(c) = "sys_hlt" /\ Where(c)' = "sys_halted"
        BY <1>4, <2>3
      <3>2. InTime(c)'
        BY <1>2, <2>1, <3>1 DEF InTime, SleepCode, localVars
      <3> QED
        BY <1>0, <1>1, <1>2, <1>5, <2>1, <2>3, <3>2, OthersInTime
        DEF TaskCode, HltCode, WaitsForTick, localVars
    <2> QED
      BY <2>1, <2>2, <2>3
  <1>12. ~Yield /\ ~YieldLoad /\ ~YieldSlot /\ ~YieldTail
    <2>1. ~Yield
      BY DEF Yield, UserCall
    <2>2. ~(YieldLoad \/ YieldSlot \/ YieldTail)
      BY NoYield DEF YieldLoad, YieldSlot, YieldTail, Goto, YieldCode
    <2> QED
      BY <2>1, <2>2
  <1> QED
    BY <1>6, <1>7, <1>8, <1>9, <1>10, <1>11, <1>12 DEF UserStep, KernelStep

LEMMA PunctualSetup == SchedInv /\ PunctualInv /\ Setup => PunctualInv'
  <1> SUFFICES ASSUME SchedInv, PunctualInv, Setup PROVE PunctualInv'
    OBVIOUS
  <1>1. /\ phase # "running" /\ SetupInv /\ current_pid = -1 /\ current_pid' = -1
        /\ cpu = BootLoop /\ cpu' = BootLoop /\ slept' = slept
        /\ \A p \in User : slept[p] = 0
    BY DEF SchedInv, BaseInv, SetupInv, Setup, CreateInit, DropInit, CreateUser, Enable,
           process_create, tableVars, localVars, PunctualInv
  <1>2. ASSUME phase' = "running"
        PROVE  /\ \A p \in User : InTime(p)'
               /\ \A p \in User : context'[p].at = "user"
    <2>1. Enable
      BY <1>2 DEF Setup, CreateInit, DropInit, CreateUser
    <2>2. context' = context /\ free_queue_head = USER_TASKS + 1
      BY <1>1, <2>1 DEF Enable, SetupInv, tableVars
    <2>3. ASSUME NEW p \in User PROVE context'[p].at = "user"
      <3>1. p \in 0 .. free_queue_head - 1 /\ p # 0
        BY <2>2, SchedulerAssumption DEF User
      <3>2. context[p] = [pid |-> p, at |-> IF p = 0 THEN "init" ELSE "user"]
        BY <1>1, <3>1 DEF SetupInv
      <3> QED
        BY <2>2, <3>1, <3>2
    <2>4. ASSUME NEW p \in User PROVE InTime(p)'
      <3>1. Where(p)' = "user"
        BY <1>1, <2>3, SchedulerAssumption DEF Where, BootLoop, User
      <3> QED
        BY <1>1, <3>1 DEF InTime, SleepCode
    <2> QED
      BY <2>3, <2>4
  <1> QED
    BY <1>1, <1>2, SchedulerAssumption DEF PunctualInv, WaitsForTick, BootLoop, User

\* A sleeper polls the clock once in a round of the others' quanta: when ticks find the CPU
\* halted or in a task, SYSCALL_SLEEP is late by no more than that.
THEOREM SleepersOnTime ==
    ASSUME "yield" \notin CALLS
    PROVE  PunctualSpec => OversleepBounded
  <1> DEFINE PunctualNext == Setup \/ (AtRest /\ Tick) \/ UserStep \/ KernelStep
  <1>1. Init => SchedInv /\ PunctualInv
    BY SchedInit, SchedulerAssumption DEF Init, PunctualInv
  <1>2. SchedInv /\ PunctualInv /\ [PunctualNext]_vars => (SchedInv /\ PunctualInv)'
    <2>1. SchedInv /\ [PunctualNext]_vars => SchedInv'
      BY SchedStep DEF Next
    <2>2. SchedInv /\ PunctualInv /\ PunctualNext => PunctualInv'
      BY PunctualSetup, PunctualTick, PunctualTask
    <2>3. PunctualInv /\ UNCHANGED vars => PunctualInv'
      BY DEF vars, setupVars, ringVars, tableVars, localVars, PunctualInv, InTime, Where,
             SleepOver, Latest, SlotsOf, TicksTo, TicksLeft
    <2> QED
      BY <2>1, <2>2, <2>3
  <1>3. SchedInv /\ PunctualInv =>
            \A p \in User : Wakes(p) =>
                slept[p] <= SleepTicks(rdi[p]) + (USER_TASKS - 1) * QUANTUM
    <2> SUFFICES ASSUME SchedInv, PunctualInv, NEW p \in User, Wakes(p)
                 PROVE  slept[p] <= Latest(p)
      BY DEF Latest
    <2>1. cpu.pid = p /\ cpu.at = "sleep_check" /\ BaseInv
      BY DEF Wakes, SleepReturn, Goto, SchedInv
    <2>2. phase = "running"
      BY <2>1 DEF BaseInv, SetupInv, BootLoop
    <2> QED
      BY <2>1, <2>2 DEF PunctualInv, InTime, Where, SleepCode
  <1> QED
    BY <1>1, <1>2, <1>3, PTL DEF PunctualSpec, OversleepBounded

=============================================================================
