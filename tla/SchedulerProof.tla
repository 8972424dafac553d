--------------------------- MODULE SchedulerProof ---------------------------
(***************************************************************************)
(* Proofs about Scheduler, for every size of the process table, number of  *)
(* tasks, quantum and set of sleeping times.                               *)
(*                                                                         *)
(* BaseInv holds whatever system calls the tasks make.  QueueInv, and with *)
(* it the accounting of the tasks, holds when no task yields: SYSCALL_SLEEP*)
(* and the preemption of schedule_process queue a process with interrupts  *)
(* disabled, system call 4 does not.                                       *)
(***************************************************************************)
EXTENDS Scheduler, RunQueueProof

-----------------------------------------------------------------------------
(* BaseInv.                                                                *)

LEMMA BaseInit == Init => BaseInv
  BY SchedulerAssumption, MaxProcessesAssumption
  DEF Init, BaseInv, TypeOK, SetupInv, QuantumPositive, ContextIntegrity,
      BootLoop, NoContext, Stream, Place, Slot, Pid, User

\* process_create, given the pid that is due: pid n goes to slot n.
LEMMA CreateStep ==
    ASSUME BaseInv, phase \in {"create_init", "create_users"},
           NEW entry \in {"init", "user"},
           entry = IF free_queue_head = 0 THEN "init" ELSE "user",
           process_create(entry)
    PROVE  /\ free_queue_head \in Pid
           /\ free_queue_head' = free_queue_head + 1
           /\ state' = [state EXCEPT ![free_queue_head] = READY]
           /\ context' = [context EXCEPT ![free_queue_head] =
                             [pid |-> free_queue_head, at |-> entry]]
           /\ run_queue' = [run_queue EXCEPT ![free_queue_head] = free_queue_head]
           /\ run_queue_tail' = free_queue_head + 1
           /\ UNCHANGED <<current_pid, time_remaining, cpu, localVars>>
  <1>1. free_queue_head \in Pid /\ run_queue_tail = free_queue_head
    BY SchedulerAssumption DEF BaseInv, SetupInv, Pid, User
  <1>2. free_queue_head \in Slot /\ free_queue[free_queue_head] = free_queue_head
    BY DEF BaseInv, TypeOK, free_queue
  <1>3. Advance(free_queue_head) = free_queue_head + 1
    BY <1>1, <1>2, AdvanceValue, SchedulerAssumption, MaxProcessesAssumption
    DEF Pid
  <1>4. QED
    BY <1>1, <1>2, <1>3 DEF process_create, add_to_run_queue

\* Only setup_process changes phase, and the boot stack stays on the CPU.
LEMMA BaseSetup == BaseInv /\ Setup => BaseInv'
  <1> SUFFICES ASSUME BaseInv, Setup PROVE BaseInv'
    OBVIOUS
  <1> USE SchedulerAssumption, MaxProcessesAssumption
  <1>1. /\ TypeOK /\ SetupInv
        /\ phase # "running" /\ current_pid = -1 /\ cpu = BootLoop
        /\ current_pid' = -1 /\ cpu' = BootLoop
        /\ UNCHANGED <<time_remaining, rdi, slept, tail_read>>
    BY DEF BaseInv, SetupInv, Setup, CreateInit, DropInit, CreateUser, Enable,
           process_create, tableVars, localVars
  <1>2. Pid \subseteq Slot /\ User \subseteq Pid /\ USER_TASKS + 1 \in Slot
    BY DEF Pid, User, Slot
  <1>3. CASE CreateInit \/ CreateUser
    <2> DEFINE n == free_queue_head
               entry == IF n = 0 THEN "init" ELSE "user"
               created == [pid |-> n, at |-> entry]
    <2>1. /\ process_create(entry)
          /\ phase \in {"create_init", "create_users"}
          /\ UNCHANGED run_queue_head
          /\ phase' = IF phase = "create_init" THEN "drop_init"
                      ELSE IF n = USER_TASKS THEN "enable" ELSE "create_users"
      BY <1>1, <1>3 DEF SetupInv, CreateInit, CreateUser, User
    <2>2. /\ n \in Pid /\ n' = n + 1
          /\ state' = [state EXCEPT ![n] = READY]
          /\ context' = [context EXCEPT ![n] = created]
          /\ run_queue' = [run_queue EXCEPT ![n] = n]
          /\ run_queue_tail' = n + 1
      BY <2>1, CreateStep
    <2>3. created \in Stream /\ n' \in Slot /\ n \in Slot
      BY <1>2, <2>2 DEF Stream, Place, UserCode, Pid, Slot
    <2>4. TypeOK'
      BY <1>1, <2>1, <2>2, <2>3 DEF TypeOK
    <2>5. SetupInv'
      <3>1. free_queue_head' \in CASE phase' = "create_init"  -> {0}
                                 [] phase' = "drop_init"    -> {1}
                                 [] phase' = "create_users" -> User
                                 [] OTHER                  -> {USER_TASKS + 1}
        BY <1>1, <2>1, <2>2 DEF SetupInv, User, Pid
      <3>2. run_queue_head' =
              IF phase' \in {"create_init", "drop_init"} THEN 0 ELSE 1
        BY <1>1, <2>1 DEF SetupInv
      <3>3. ASSUME NEW p \in 0 .. n' - 1
            PROVE  /\ state'[p] = READY
                   /\ run_queue'[p] = p
                   /\ context'[p] = [pid |-> p, at |-> IF p = 0 THEN "init" ELSE "user"]
        <4>1. p \in Slot /\ (p = n \/ p \in 0 .. n - 1)
          BY <2>2, <2>3, <1>2 DEF Pid, Slot
        <4>2. CASE p = n
          BY <4>2, <2>2, <2>3, <1>1 DEF TypeOK
        <4>3. CASE p \in 0 .. n - 1
          <5>1. p # n
            BY <4>3, <2>2 DEF Pid
          <5>2. QED
            BY <4>1, <4>3, <5>1, <2>2, <1>1 DEF TypeOK, SetupInv
        <4>4. QED
          BY <4>1, <4>2, <4>3
      <3>4. QED
        BY <1>1, <2>2, <3>1, <3>2, <3>3 DEF SetupInv
    <2>6. phase' # "running"
      BY <2>1
    <2>7. QED
      BY <1>1, <2>4, <2>5, <2>6 DEF BaseInv, QuantumPositive, ContextIntegrity,
         BootLoop
  <1>4. CASE DropInit
    <2>1. run_queue_head = 0 /\ run_queue_head' = 1 /\ free_queue_head = 1
      BY <1>1, <1>2, <1>4, AdvanceValue DEF DropInit, SetupInv, Slot
    <2>2. TypeOK'
      BY <1>1, <1>4, <2>1, <1>2 DEF DropInit, TypeOK, tableVars, Slot
    <2>3. SetupInv'
      BY <1>1, <1>4, <2>1 DEF DropInit, SetupInv, tableVars, User
    <2>4. QED
      BY <1>1, <1>4, <2>2, <2>3
      DEF DropInit, BaseInv, QuantumPositive, ContextIntegrity, BootLoop
  <1>5. CASE Enable
    <2>1. TypeOK' /\ SetupInv'
      BY <1>1, <1>5 DEF Enable, TypeOK, SetupInv, ringVars, tableVars
    <2>2. ASSUME NEW p \in Pid PROVE context[p].pid = p
      <3>1. free_queue_head = USER_TASKS + 1 /\ p \in 0 .. (USER_TASKS + 1) - 1
        BY <1>1, <1>5 DEF Enable, SetupInv, Pid
      <3>2. context[p] = [pid |-> p, at |-> IF p = 0 THEN "init" ELSE "user"]
        BY <1>1, <3>1 DEF SetupInv
      <3>3. QED
        BY <3>2
    <2>3. QuantumPositive' /\ ContextIntegrity'
      BY <1>1, <1>5, <2>2
      DEF Enable, QuantumPositive, ContextIntegrity, BootLoop, User, tableVars
    <2>4. QED
      BY <1>1, <2>1, <2>3 DEF BaseInv
  <1>6. QED
    BY <1>3, <1>4, <1>5 DEF Setup

\* The frame a tick pushes carries the interrupted process.
LEMMA InterruptedFrame ==
    ASSUME TypeOK
    PROVE  /\ Interrupted \in Stream
           /\ Interrupted.pid = cpu.pid
           /\ cpu = BootLoop => Interrupted = BootLoop
  BY DEF TypeOK, Stream, Place, UserCode, KernelCode, SleepCode, Interrupted,
         BootLoop

\* start_process puts pid on the CPU with a full quantum, and keeps every
\* stream with its process.
LEMMA StartProcessStep ==
    ASSUME BaseInv, phase = "running", NEW pid \in Pid,
           NEW states \in [Slot -> {RUNNING, READY}],
           NEW remaining \in [Slot -> 0 .. QUANTUM],
           start_process(pid, Interrupted, states, remaining)
    PROVE  /\ current_pid' = pid
           /\ state' = [states EXCEPT ![pid] = RUNNING]
           /\ state' \in [Slot -> {RUNNING, READY}]
           /\ time_remaining' \in [Slot -> 0 .. QUANTUM]
           /\ time_remaining'[pid] = QUANTUM
           /\ context' \in [Slot -> Stream]
           /\ cpu' \in Stream
           /\ cpu'.pid = pid
           /\ \A p \in Pid \ {pid} : context'[p].pid = p
           /\ cpu' = IF pid = current_pid THEN Interrupted ELSE context[pid]
           /\ context' = IF current_pid = -1 THEN context
                         ELSE [context EXCEPT ![current_pid] = Interrupted]
  <1>1. Pid \subseteq Slot /\ QUANTUM \in 0 .. QUANTUM /\ -1 \notin Pid
    BY SchedulerAssumption, MaxProcessesAssumption DEF Pid, Slot
  <1>2. /\ Interrupted \in Stream /\ Interrupted.pid = current_pid
        /\ context \in [Slot -> Stream]
        /\ current_pid \in {-1} \cup Pid
        /\ \A p \in Pid \ {current_pid} : context[p].pid = p
    BY InterruptedFrame DEF BaseInv, TypeOK, ContextIntegrity
  <1>3. QED
    BY <1>1, <1>2 DEF start_process

\* The process that start_next starts is one that setup_process created.
LEMMA StartNextStep ==
    ASSUME BaseInv, phase = "running",
           NEW states \in [Slot -> {RUNNING, READY}],
           NEW remaining \in [Slot -> 0 .. QUANTUM],
           NEW queue \in [Slot -> Pid], NEW tail \in Slot,
           start_next(Interrupted, states, remaining, queue, tail)
    PROVE  \E pid \in Pid :
               /\ start_process(pid, Interrupted, states, remaining)
               /\ run_queue' = queue
               /\ run_queue_tail' = tail
               /\ run_queue_head' \in Slot
               /\ IF run_queue_head = tail
                  THEN pid = 0 /\ run_queue_head' = run_queue_head
                  ELSE /\ pid = queue[run_queue_head]
                       /\ run_queue_head' = Advance(run_queue_head)
  <1>1. run_queue_head \in Slot /\ 0 \in Pid
    BY SchedulerAssumption DEF BaseInv, TypeOK, Pid
  <1>2. Advance(run_queue_head) \in Slot
    BY <1>1, AdvanceValue
  <1>3. CASE run_queue_head = tail
    BY <1>1, <1>3 DEF start_next
  <1>4. CASE run_queue_head # tail
    <2>1. queue[run_queue_head] \in Pid
      BY <1>1
    <2>2. QED
      BY <1>2, <1>4, <2>1 DEF start_next
  <1>5. QED
    BY <1>3, <1>4

\* Every way out of schedule_process that starts a process keeps BaseInv.
LEMMA BaseStart ==
    ASSUME BaseInv, phase = "running", NEW pid \in Pid,
           NEW states \in [Slot -> {RUNNING, READY}],
           NEW remaining \in [Slot -> 0 .. QUANTUM],
           start_process(pid, Interrupted, states, remaining),
           CountTick, UNCHANGED <<setupVars, rdi, tail_read>>,
           run_queue' \in [Slot -> Pid],
           run_queue_head' \in Slot, run_queue_tail' \in Slot
    PROVE  BaseInv'
  <1>1. /\ current_pid' = pid /\ cpu'.pid = pid
        /\ state' \in [Slot -> {RUNNING, READY}]
        /\ time_remaining' \in [Slot -> 0 .. QUANTUM]
        /\ time_remaining'[pid] = QUANTUM
        /\ context' \in [Slot -> Stream] /\ cpu' \in Stream
        /\ \A p \in Pid \ {pid} : context'[p].pid = p
    BY StartProcessStep
  <1>2. slept' \in [User -> 0 .. SLEPT_MAX]
    BY SchedulerAssumption DEF BaseInv, TypeOK, CountTick
  <1>3. TypeOK'
    BY <1>1, <1>2 DEF BaseInv, TypeOK, setupVars
  <1>4. SetupInv' /\ (current_pid' = -1 => cpu' = BootLoop')
    BY <1>1 DEF SetupInv, setupVars, Pid
  <1>5. QuantumPositive' /\ ContextIntegrity'
    BY <1>1, SchedulerAssumption DEF QuantumPositive, ContextIntegrity
  <1>6. QED
    BY <1>3, <1>4, <1>5 DEF BaseInv

LEMMA BaseTick == BaseInv /\ Tick => BaseInv'
  <1> SUFFICES ASSUME BaseInv, Tick PROVE BaseInv'
    OBVIOUS
  <1>1. /\ phase = "running" /\ CountTick
        /\ schedule_process(Interrupted)
        /\ UNCHANGED <<setupVars, rdi, tail_read>>
    BY DEF Tick
  <1>2. /\ TypeOK
        /\ Interrupted \in Stream /\ Interrupted.pid = cpu.pid
        /\ cpu = BootLoop => Interrupted = BootLoop
    BY InterruptedFrame DEF BaseInv
  <1>3. 0 \in Pid /\ Pid \subseteq Slot
    BY SchedulerAssumption, MaxProcessesAssumption DEF Pid, Slot
  <1>4. slept' \in [User -> 0 .. SLEPT_MAX]
    BY <1>1, <1>2, SchedulerAssumption DEF TypeOK, CountTick
  <1>5. CASE FirstTick(Interrupted)
    <2>1. /\ start_process(0, Interrupted, state, time_remaining)
          /\ UNCHANGED ringVars
      BY <1>5 DEF FirstTick
    <2>2. QED
      BY <1>1, <1>2, <1>3, <2>1, BaseStart DEF TypeOK, ringVars
  <1>6. CASE StayIdle(Interrupted)
    <2>1. TypeOK'
      BY <1>1, <1>2, <1>4, <1>6 DEF StayIdle, return_to, TypeOK, setupVars, ringVars
    <2>2. ContextIntegrity' /\ QuantumPositive'
      BY <1>1, <1>2, <1>6
      DEF StayIdle, return_to, BaseInv, ContextIntegrity, QuantumPositive, User
    <2>3. QED
      BY <1>1, <1>6, <2>1, <2>2 DEF StayIdle, return_to, BaseInv, SetupInv, setupVars
  <1>7. CASE LeaveIdle(Interrupted)
    <2>1. start_next(Interrupted, state, time_remaining, run_queue, run_queue_tail)
      BY <1>7 DEF LeaveIdle
    <2>2. QED
      BY <1>1, <1>2, <2>1, StartNextStep, BaseStart DEF TypeOK
  <1>8. CASE CountDown(Interrupted)
    <2>1. /\ current_pid \in User
          /\ time_remaining[current_pid] \in 2 .. QUANTUM
      <3>1. /\ current_pid > 0 /\ state[current_pid] = RUNNING
            /\ time_remaining[current_pid] # 1
        BY <1>8 DEF CountDown
      <3>2. current_pid \in User
        BY <1>1, <1>2, <3>1, SchedulerAssumption DEF BaseInv, TypeOK, Pid, User
      <3>3. time_remaining[current_pid] \in 0 .. QUANTUM /\ time_remaining[current_pid] > 0
        BY <1>1, <1>2, <3>1, <3>2, SchedulerAssumption, MaxProcessesAssumption
        DEF BaseInv, TypeOK, QuantumPositive, Slot, User
      <3> QED
        BY <3>1, <3>2, <3>3, SchedulerAssumption
    <2>2. /\ time_remaining' \in [Slot -> 0 .. QUANTUM]
          /\ time_remaining'[current_pid] \in 1 .. QUANTUM
      <3> DEFINE n == time_remaining[current_pid] - 1
      <3>1. /\ time_remaining' = [time_remaining EXCEPT ![current_pid] = n]
            /\ time_remaining \in [Slot -> 0 .. QUANTUM]
            /\ current_pid' = current_pid
        BY <1>2, <1>8 DEF CountDown, return_to, TypeOK
      <3>2. n \in 1 .. QUANTUM /\ n \in 0 .. QUANTUM
        BY <2>1, SchedulerAssumption
      <3>3. current_pid \in Slot
        BY <1>3, <2>1 DEF Pid, User
      <3> HIDE DEF n
      <3>4. QED
        BY <3>1, <3>2, <3>3
    <2>3. TypeOK'
      BY <1>1, <1>2, <1>4, <1>8, <2>2
      DEF CountDown, return_to, TypeOK, setupVars, ringVars
    <2>4. ContextIntegrity' /\ QuantumPositive'
      BY <1>1, <1>2, <1>8, <2>2
      DEF CountDown, return_to, BaseInv, ContextIntegrity, QuantumPositive
    <2>5. QED
      BY <1>1, <1>8, <2>1, <2>3, <2>4
      DEF CountDown, return_to, BaseInv, SetupInv, setupVars, User
  <1>9. CASE Preempt(Interrupted)
    <2>1. current_pid \in Pid
      BY <1>2, <1>9 DEF Preempt, TypeOK
    <2>2. /\ [state EXCEPT ![current_pid] = READY] \in [Slot -> {RUNNING, READY}]
          /\ [time_remaining EXCEPT ![current_pid] = 0] \in [Slot -> 0 .. QUANTUM]
          /\ [run_queue EXCEPT ![run_queue_tail] = current_pid] \in [Slot -> Pid]
          /\ Advance(run_queue_tail) \in Slot
      <3>1. 0 \in 0 .. QUANTUM
        BY SchedulerAssumption
      <3>2. Advance(run_queue_tail) \in Slot
        BY <1>2, AdvanceValue DEF TypeOK
      <3>3. QED
        BY <1>2, <2>1, <3>1, <3>2 DEF TypeOK
    <2>3. start_next(Interrupted,
                     [state EXCEPT ![current_pid] = READY],
                     [time_remaining EXCEPT ![current_pid] = 0],
                     [run_queue EXCEPT ![run_queue_tail] = current_pid],
                     Advance(run_queue_tail))
      BY <1>9 DEF Preempt
    <2>4. QED
      BY <1>1, <2>2, <2>3, StartNextStep, BaseStart
  <1>10. CASE SwitchOut(Interrupted)
    <2>1. start_next(Interrupted, state, time_remaining, run_queue, run_queue_tail)
      BY <1>10 DEF SwitchOut
    <2>2. QED
      BY <1>1, <1>2, <2>1, StartNextStep, BaseStart, SMTT(30) DEF TypeOK
  <1>11. QED
    BY <1>1, <1>5, <1>6, <1>7, <1>8, <1>9, <1>10 DEF schedule_process

\* What a task's own step does, in its code or in a system call: its stream
\* moves on, and nothing is saved or loaded.
LEMMA GotoStep ==
    ASSUME BaseInv, NEW from \in Place \ {"boot"}, NEW to \in Place, Goto(from, to)
    PROVE  /\ phase = "running" /\ current_pid \in Pid
           /\ cpu.at = from /\ cpu.pid = current_pid
           /\ cpu' \in Stream /\ cpu'.pid = cpu.pid /\ cpu'.at = to
  <1>1. cpu \in Stream /\ cpu.at = from /\ cpu' = [cpu EXCEPT !.at = to]
    BY DEF BaseInv, TypeOK, Goto
  <1>2. current_pid # -1
    BY <1>1 DEF BaseInv, BootLoop
  <1>3. phase = "running" /\ current_pid \in Pid
    BY <1>2 DEF BaseInv, SetupInv, TypeOK
  <1>4. cpu' \in Stream /\ cpu'.pid = cpu.pid /\ cpu'.at = to
    BY <1>1 DEF Stream
  <1>5. QED
    BY <1>1, <1>3, <1>4 DEF BaseInv, ContextIntegrity

\* BaseInv survives such a step if it leaves the table to the scheduler and
\* marks nobody RUNNING.
LEMMA BaseGoto ==
    ASSUME BaseInv, NEW from \in Place \ {"boot"}, NEW to \in Place, Goto(from, to),
           UNCHANGED <<setupVars, run_queue_head, current_pid, time_remaining, context>>,
           run_queue' \in [Slot -> Pid], run_queue_tail' \in Slot,
           state' = state \/ state' = [state EXCEPT ![current_pid] = READY],
           rdi' \in [User -> {0} \cup SLEEP_MS], slept' \in [User -> 0 .. SLEPT_MAX],
           tail_read' \in [Pid -> Slot]
    PROVE  BaseInv'
  <1>1. /\ phase = "running" /\ current_pid \in Pid
        /\ cpu.pid = current_pid /\ cpu' \in Stream /\ cpu'.pid = cpu.pid
    BY GotoStep
  <1>2. state' \in [Slot -> {RUNNING, READY}]
    BY DEF BaseInv, TypeOK
  <1>3. TypeOK'
    BY <1>1, <1>2 DEF BaseInv, TypeOK, setupVars
  <1>4. current_pid' \in Pid /\ -1 \notin Pid
    BY <1>1 DEF Pid
  <1>5. SetupInv' /\ (current_pid' = -1 => cpu' = BootLoop')
    BY <1>1, <1>4 DEF SetupInv, setupVars
  <1>6. ContextIntegrity'
    BY <1>1 DEF BaseInv, ContextIntegrity
  <1>7. QuantumPositive'
    <2>1. state'[current_pid] = RUNNING => state[current_pid] = RUNNING
      <3>1. current_pid \in Slot
        BY <1>1, SchedulerAssumption, MaxProcessesAssumption DEF Pid, Slot
      <3>2. state \in [Slot -> {RUNNING, READY}] /\ RUNNING # READY
        BY DEF BaseInv, TypeOK, RUNNING, READY
      <3>3. [state EXCEPT ![current_pid] = READY][current_pid] = READY
        BY <3>1, <3>2
      <3> QED
        BY <3>2, <3>3
    <2>2. QED
      BY <1>1, <2>1 DEF BaseInv, QuantumPositive
  <1>8. QED
    BY <1>3, <1>5, <1>6, <1>7 DEF BaseInv

LEMMA BaseTask == BaseInv /\ (UserStep \/ KernelStep) => BaseInv'
  <1> SUFFICES ASSUME BaseInv, UserStep \/ KernelStep PROVE BaseInv'
    OBVIOUS
  <1> USE DEF Place, UserCode, KernelCode, SleepCode, HltCode, YieldCode
  <1>1. TypeOK /\ Advance(run_queue_tail) \in Slot
    BY AdvanceValue DEF BaseInv, TypeOK
  <1>2. ASSUME NEW ms \in SLEEP_MS, Sleep(ms) PROVE BaseInv'
    <2>1. rdi' \in [User -> {0} \cup SLEEP_MS]
      BY <1>1, <1>2 DEF Sleep, TypeOK
    <2>2. QED
      BY <1>1, <1>2, <2>1, BaseGoto
      DEF Sleep, UserCall, TypeOK, setupVars, ringVars, tableVars
  <1>3. CASE Hlt
    BY <1>1, <1>3, BaseGoto
    DEF Hlt, UserCall, TypeOK, setupVars, ringVars, tableVars, localVars
  <1>4. CASE Yield
    BY <1>1, <1>4, BaseGoto
    DEF Yield, UserCall, TypeOK, setupVars, ringVars, localVars
  <1>5. CASE SleepMore
    BY <1>1, <1>5, BaseGoto
    DEF SleepMore, TypeOK, setupVars, ringVars, tableVars, localVars
  <1>6. CASE SleepReturn
    <2>1. rdi' \in [User -> {0} \cup SLEEP_MS]
      BY <1>1, <1>6 DEF SleepReturn, TypeOK
    <2>2. 0 \in 0 .. SLEPT_MAX
      BY SchedulerAssumption
    <2>3. slept' \in [User -> 0 .. SLEPT_MAX]
      BY <1>1, <1>6, <2>2 DEF SleepReturn, TypeOK
    <2>4. QED
      BY <1>1, <1>6, <2>1, <2>3, BaseGoto
      DEF SleepReturn, TypeOK, setupVars, ringVars, tableVars
  <1>7. CASE SleepQueue
    <2>1. Goto("sleep_queue", "sleep_hlt") /\ current_pid \in Pid
      BY <1>7, GotoStep DEF SleepQueue
    <2>2. run_queue' \in [Slot -> Pid] /\ run_queue_tail' \in Slot
      BY <1>1, <1>7, <2>1 DEF SleepQueue, add_to_run_queue, TypeOK
    <2>3. QED
      BY <1>1, <1>7, <2>1, <2>2, BaseGoto
      DEF SleepQueue, TypeOK, setupVars, localVars
  <1>8. CASE Halt
    BY <1>1, <1>8, BaseGoto
    DEF Halt, TypeOK, setupVars, ringVars, tableVars, localVars
  <1>9. CASE YieldSlot
    <2>1. Goto("yield_slot", "yield_tail") /\ current_pid \in Pid
      BY <1>9, GotoStep DEF YieldSlot
    <2>2. run_queue' \in [Slot -> Pid]
      BY <1>1, <1>9, <2>1 DEF YieldSlot, TypeOK
    <2>3. QED
      BY <1>1, <1>9, <2>1, <2>2, BaseGoto
      DEF YieldSlot, TypeOK, setupVars, tableVars, localVars
  <1>10. CASE YieldTail
    <2>1. Goto("yield_tail", "user")
      BY <1>10 DEF YieldTail
    <2>2. cpu.pid \in Pid /\ 0 \in Slot
      BY <2>1, GotoStep, MaxProcessesAssumption DEF Slot
    <2>3. tail_read[cpu.pid] \in Slot
      BY <1>1, <2>2 DEF TypeOK
    <2>4. run_queue_tail' \in Slot /\ tail_read' \in [Pid -> Slot]
      BY <1>1, <1>10, <2>2, <2>3, AdvanceValue DEF YieldTail, TypeOK
    <2>5. QED
      BY <1>1, <1>10, <2>1, <2>4, BaseGoto DEF YieldTail, TypeOK, setupVars, tableVars
  <1>11. CASE YieldLoad
    <2>1. tail_read' \in [Pid -> Slot]
      BY <1>1, <1>11 DEF YieldLoad, TypeOK
    <2>2. QED
      BY <1>1, <1>11, <2>1, BaseGoto
      DEF YieldLoad, TypeOK, setupVars, ringVars, tableVars
  <1>12. QED
    BY <1>2, <1>3, <1>4, <1>5, <1>6, <1>7, <1>8, <1>9, <1>10, <1>11 DEF UserStep, KernelStep

LEMMA BaseStep == BaseInv /\ [Next]_vars => BaseInv'
  <1>1. BaseInv /\ UNCHANGED vars => BaseInv'
    BY DEF vars, setupVars, ringVars, tableVars, localVars, BaseInv, TypeOK, SetupInv,
           QuantumPositive, ContextIntegrity
  <1>2. QED
    BY <1>1, BaseSetup, BaseTick, BaseTask DEF Next

LEMMA BaseAlways == Spec => []BaseInv
  BY BaseInit, BaseStep, PTL DEF Spec

\* Every variable keeps its type, whatever system calls the tasks make.
THEOREM TypeCorrect == Spec => []TypeOK
  <1>1. BaseInv => TypeOK
    BY DEF BaseInv
  <1>2. QED
    BY <1>1, BaseAlways, PTL

\* start_process never mixes up two processes' stacks and registers, however
\* the ticks fall and whatever system calls the tasks make.
THEOREM ContextsNeverMix == Spec => []ContextIntegrity
  <1>1. BaseInv => ContextIntegrity
    BY DEF BaseInv
  <1>2. QED
    BY <1>1, BaseAlways, PTL

\* schedule_process never decrements time_remaining of the running task below
\* zero, whatever system calls the tasks make.
THEOREM QuantumNeverUnderflows == Spec => []QuantumPositive
  <1>1. BaseInv => QuantumPositive
    BY DEF BaseInv
  <1>2. QED
    BY <1>1, BaseAlways, PTL

-----------------------------------------------------------------------------
(* QueueInv, when no task yields.                                          *)

\* The tasks that wait in the run queue.
Ready == {p \in User : state[p] = READY}

\* There are fewer tasks than a ring has room for.
LEMMA TasksFit ==
    IsFiniteSet(User) /\ Cardinality(User) < MAX_PROCESSES - 1 /\ User # {}
  <1>1. IsFiniteSet(User) /\ Cardinality(User) = USER_TASKS
    BY FS_Interval, SchedulerAssumption DEF User
  <1>2. 1 \in User
    BY SchedulerAssumption DEF User
  <1>3. QED
    BY <1>1, <1>2, SchedulerAssumption, MaxProcessesAssumption

LEMMA RingNotFull ==
    ASSUME SchedInv, phase = "running"
    PROVE  ~IsFull(run_queue_head, run_queue_tail)
  <1>1. Ready \subseteq User /\ HoldsOnce(run_queue, run_queue_head, run_queue_tail, Ready)
    BY DEF SchedInv, QueueInv, Ready
  <1>2. IsFiniteSet(Ready) /\ Cardinality(Ready) <= Cardinality(User)
    BY <1>1, TasksFit, FS_Subset
  <1>3. IsFiniteSet(User) => Cardinality(User) \in Nat /\ Cardinality(Ready) \in Nat
    BY <1>2, FS_CardinalityType
  <1>4. Cardinality(Ready) < MAX_PROCESSES - 1
    BY <1>2, <1>3, TasksFit, MaxProcessesAssumption
  <1>5. QED
    BY <1>1, <1>2, <1>4, HoldsOnceNotFull DEF SchedInv, BaseInv, TypeOK

\* The end of setup_process: the ring holds tasks 1 .. USER_TASKS in that order.
LEMMA QueueSetup == SchedInv /\ Setup => QueueInv'
  <1> SUFFICES ASSUME SchedInv, Setup, phase' = "running" PROVE QueueInv'
    BY DEF QueueInv
  <1>1. Enable
    BY DEF Setup, CreateInit, DropInit, CreateUser
  <1>2. /\ phase = "enable" /\ SetupInv /\ cpu = BootLoop
        /\ UNCHANGED <<ringVars, tableVars, cpu>>
    BY <1>1 DEF Enable, SchedInv, BaseInv, SetupInv
  <1>3. /\ current_pid = -1 /\ run_queue_head = 1 /\ run_queue_tail = USER_TASKS + 1
        /\ \A p \in Pid :
               /\ state[p] = READY /\ run_queue[p] = p
               /\ context[p] = [pid |-> p, at |-> IF p = 0 THEN "init" ELSE "user"]
    <2>1. /\ free_queue_head = USER_TASKS + 1
          /\ \A p \in 0 .. (USER_TASKS + 1) - 1 : p \in Pid
          /\ \A p \in Pid : p \in 0 .. (USER_TASKS + 1) - 1
      BY <1>2, SchedulerAssumption DEF SetupInv, Pid
    <2>2. QED
      BY <1>2, <2>1 DEF SetupInv
  <1>4. Occupied(1, USER_TASKS + 1) = User /\ User \subseteq Pid /\ 0 \in Pid
    BY SchedulerAssumption DEF Occupied, User, Pid
  <1>5. HoldsOnce(run_queue, 1, USER_TASKS + 1, User)
    BY <1>3, <1>4 DEF HoldsOnce
  <1>6. ASSUME NEW p \in User PROVE context[p].at \in TaskCode
    <2>1. p \in Pid /\ p # 0
      BY <1>4, SchedulerAssumption DEF User
    <2>2. context[p] = [pid |-> p, at |-> "user"]
      BY <1>3, <2>1
    <2>3. QED
      BY <2>2 DEF TaskCode, UserCode
  <1>7. context[0].at = "init"
    <2>1. context[0] = [pid |-> 0, at |-> "init"]
      BY <1>3, <1>4
    <2>2. QED
      BY <2>1
  <1>8. /\ run_queue' = run_queue /\ run_queue_head' = 1
        /\ run_queue_tail' = USER_TASKS + 1
        /\ current_pid' = -1 /\ context' = context /\ state' = state
    BY <1>2, <1>3 DEF ringVars, tableVars
  <1>9. \A p \in User : state'[p] = READY
    BY <1>3, <1>4, <1>8
  <1>10. {p \in User : state'[p] = READY} = User
    BY <1>9
  <1>11. -1 \notin User /\ 0 # -1
    BY SchedulerAssumption DEF User
  <1>12. QED
    BY <1>5, <1>6, <1>7, <1>8, <1>9, <1>10, <1>11 DEF QueueInv

\* A tick leaves an interrupted process in the code it was in.
LEMMA InterruptedPlace ==
    ASSUME TypeOK
    PROVE  /\ cpu.at \in TaskCode => Interrupted.at \in TaskCode
           /\ cpu.at = "init" => Interrupted.at = "init"
           /\ cpu.at \notin WaitsForTick => Interrupted.at \notin WaitsForTick
  BY DEF TypeOK, Stream, TaskCode, UserCode, SleepCode, HltCode, Interrupted,
         WaitsForTick

\* When every task is in the ring, the oldest one gets the CPU.
LEMMA QueueSwitch ==
    ASSUME SchedInv, phase = "running", current_pid \in Pid,
           NEW states \in [Slot -> {RUNNING, READY}],
           NEW remaining \in [Slot -> 0 .. QUANTUM],
           NEW queue \in [Slot -> Pid], NEW tail \in Slot,
           \A p \in User : states[p] = READY,
           HoldsOnce(queue, run_queue_head, tail, User),
           start_next(Interrupted, states, remaining, queue, tail)
    PROVE  /\ QueueInv' /\ current_pid' \in User
           /\ run_queue_head # tail /\ current_pid' = queue[run_queue_head]
  <1>1. BaseInv /\ TypeOK /\ run_queue_head \in Slot
    BY DEF SchedInv, BaseInv, TypeOK
  <1>2. run_queue_head # tail
    BY <1>1, TasksFit, HoldsOnceNonEmpty
  <1>3. PICK pid \in Pid :
          /\ start_process(pid, Interrupted, states, remaining)
          /\ run_queue' = queue /\ run_queue_tail' = tail
          /\ pid = queue[run_queue_head]
          /\ run_queue_head' = Advance(run_queue_head)
    BY <1>1, <1>2, StartNextStep
  <1>4. pid \in User /\ HoldsOnce(queue, run_queue_head', tail, User \ {pid})
    BY <1>1, <1>2, <1>3, HoldsOncePop
  <1>5. /\ current_pid' = pid
        /\ state' = [states EXCEPT ![pid] = RUNNING]
        /\ cpu' = IF pid = current_pid THEN Interrupted ELSE context[pid]
        /\ context' = [context EXCEPT ![current_pid] = Interrupted]
    BY <1>1, <1>3, StartProcessStep DEF Pid
  <1>6. User \subseteq Slot /\ Pid = User \cup {0} /\ 0 \notin User /\ Pid \subseteq Slot
    BY SchedulerAssumption, MaxProcessesAssumption DEF User, Pid, Slot
  <1>7. /\ state'[pid] = RUNNING
        /\ \A p \in User \ {pid} : state'[p] = READY
    BY <1>4, <1>5, <1>6
  <1>8. {p \in User : state'[p] = READY} = User \ {pid}
    BY <1>7 DEF RUNNING, READY
  <1>9. /\ context \in [Slot -> Stream] /\ QueueInv
        /\ current_pid \in User => Interrupted.at \in TaskCode
        /\ current_pid = 0 => Interrupted.at = "init"
    BY <1>1, InterruptedPlace DEF SchedInv, QueueInv, TypeOK
  <1>10. cpu'.at \in TaskCode
    BY <1>4, <1>5, <1>9 DEF QueueInv
  <1>11. \A p \in User \ {pid} : context'[p].at \in TaskCode
    BY <1>5, <1>6, <1>9 DEF QueueInv
  <1>12. context'[0].at = "init"
    BY <1>5, <1>6, <1>9 DEF QueueInv
  <1>13. QueueInv'
    BY <1>3, <1>4, <1>5, <1>6, <1>7, <1>8, <1>10, <1>11, <1>12
    DEF QueueInv, User, Pid
  <1>14. QED
    BY <1>2, <1>3, <1>4, <1>5, <1>13

LEMMA QueueTick ==
    SchedInv /\ Tick => QueueInv' /\ (current_pid \in User => current_pid' \in User)
  <1> SUFFICES ASSUME SchedInv, Tick
               PROVE  QueueInv' /\ (current_pid \in User => current_pid' \in User)
    OBVIOUS
  <1>1. /\ phase = "running" /\ BaseInv /\ TypeOK
        /\ schedule_process(Interrupted)
        /\ QueueInv
    BY DEF Tick, SchedInv, BaseInv
  <1>2. Pid = User \cup {0} /\ 0 \notin User /\ -1 \notin Pid /\ User \subseteq Slot
    BY SchedulerAssumption, MaxProcessesAssumption DEF User, Pid, Slot
  <1>3. /\ HoldsOnce(run_queue, run_queue_head, run_queue_tail, Ready)
        /\ \A p \in User \ {current_pid} : state[p] = READY
        /\ \A p \in User : state[p] = READY \/ state[p] = RUNNING
    BY <1>1, <1>2 DEF QueueInv, Ready, TypeOK
  <1>4. CASE FirstTick(Interrupted)
    <2>1. /\ current_pid = -1 /\ UNCHANGED ringVars
          /\ start_process(0, Interrupted, state, time_remaining)
      BY <1>4 DEF FirstTick
    <2>2. /\ current_pid' = 0 /\ context' = context /\ cpu' = context[0]
          /\ state' = [state EXCEPT ![0] = RUNNING]
      BY <1>1, <1>2, <2>1, StartProcessStep DEF TypeOK
    <2>3. state' \in [Slot -> {RUNNING, READY}] /\ \A p \in User : state'[p] = state[p]
      BY <1>1, <1>2, <2>2 DEF TypeOK
    <2>4. {p \in User : state'[p] = READY} = Ready
      BY <2>3 DEF Ready
    <2>5. QED
      BY <1>1, <1>2, <1>3, <2>1, <2>2, <2>3, <2>4 DEF QueueInv, ringVars
  <1>5. CASE StayIdle(Interrupted)
    <2>1. current_pid = 0 /\ Interrupted.at = "init"
      BY <1>1, <1>5, InterruptedPlace DEF StayIdle, QueueInv
    <2>2. UNCHANGED <<state, ringVars, context, current_pid>> /\ cpu' = Interrupted
      BY <1>5 DEF StayIdle, return_to
    <2>3. QED
      BY <1>1, <1>2, <2>1, <2>2 DEF QueueInv, ringVars
  <1>6. CASE LeaveIdle(Interrupted)
    <2>1. current_pid = 0
          /\ start_next(Interrupted, state, time_remaining, run_queue, run_queue_tail)
      BY <1>6 DEF LeaveIdle
    <2>2. Ready = User /\ \A p \in User : state[p] = READY
      BY <1>2, <1>3, <2>1 DEF Ready
    <2>3. QED
      BY <1>1, <1>2, <1>3, <2>1, <2>2, QueueSwitch DEF TypeOK
  <1>7. CASE CountDown(Interrupted)
    <2>1. /\ current_pid \in User /\ state[current_pid] = RUNNING
          /\ UNCHANGED <<state, ringVars, context, current_pid>> /\ cpu' = Interrupted
      BY <1>1, <1>2, <1>7 DEF CountDown, return_to, TypeOK
    <2>2. Interrupted.at \in TaskCode
      BY <1>1, <2>1, InterruptedPlace DEF QueueInv
    <2>3. QED
      BY <1>1, <1>2, <2>1, <2>2 DEF QueueInv, ringVars
  <1>8. CASE Preempt(Interrupted)
    <2> DEFINE states == [state EXCEPT ![current_pid] = READY]
               remaining == [time_remaining EXCEPT ![current_pid] = 0]
               queue == [run_queue EXCEPT ![run_queue_tail] = current_pid]
               tail == Advance(run_queue_tail)
    <2>1. /\ current_pid \in User /\ state[current_pid] = RUNNING
          /\ start_next(Interrupted, states, remaining, queue, tail)
      BY <1>1, <1>2, <1>8 DEF Preempt, TypeOK
    <2>2. /\ states \in [Slot -> {RUNNING, READY}]
          /\ queue \in [Slot -> Pid]
          /\ \A p \in User : states[p] = READY
      BY <1>1, <1>2, <1>3, <2>1 DEF TypeOK
    <2>3. remaining \in [Slot -> 0 .. QUANTUM]
      <3>1. 0 \in 0 .. QUANTUM
        BY SchedulerAssumption
      <3>2. QED
        BY <1>1, <3>1 DEF TypeOK
    <2>4. tail \in Slot
      BY <1>1, AdvanceValue DEF TypeOK
    <2>5. current_pid \notin Ready /\ Ready \cup {current_pid} = User
      BY <1>2, <1>3, <2>1 DEF Ready, RUNNING, READY
    <2>6. HoldsOnce(queue, run_queue_head, tail, User)
      <3>1. /\ run_queue \in [Slot -> Pid]
            /\ run_queue_head \in Slot /\ run_queue_tail \in Slot
            /\ ~IsFull(run_queue_head, run_queue_tail)
        BY <1>1, RingNotFull DEF TypeOK
      <3>2. HoldsOnce(queue, run_queue_head, tail, Ready \cup {current_pid})
        BY <1>3, <2>5, <3>1, HoldsOncePush
      <3>3. QED
        BY <2>5, <3>2
    <2> HIDE DEF states, remaining, queue, tail
    <2>7. current_pid \in Pid
      BY <1>2, <2>1
    <2>8. QED
      BY <1>1, <2>1, <2>2, <2>3, <2>4, <2>6, <2>7, QueueSwitch
  <1>9. CASE SwitchOut(Interrupted)
    <2>1. /\ current_pid \in User /\ state[current_pid] = READY
          /\ start_next(Interrupted, state, time_remaining, run_queue, run_queue_tail)
      BY <1>1, <1>2, <1>3, <1>9 DEF SwitchOut, TypeOK
    <2>2. Ready = User /\ \A p \in User : state[p] = READY
      BY <1>3, <2>1 DEF Ready
    <2>3. QED
      BY <1>1, <1>2, <1>3, <2>1, <2>2, QueueSwitch DEF TypeOK
  <1>10. QED
    BY <1>1, <1>4, <1>5, <1>6, <1>7, <1>8, <1>9 DEF schedule_process

\* A step of the current task that changes neither the ring nor a state.
LEMMA QueueGoto ==
    ASSUME SchedInv, NEW from \in TaskCode, NEW to \in TaskCode, Goto(from, to),
           from \in WaitsForTick => to \in WaitsForTick,
           UNCHANGED <<setupVars, ringVars, tableVars>>
    PROVE  QueueInv' /\ current_pid \in User /\ current_pid' = current_pid
  <1> USE DEF Place, KernelCode, TaskCode, UserCode, SleepCode, HltCode
  <1>1. /\ phase = "running" /\ current_pid \in Pid
        /\ cpu.at = from /\ cpu'.at = to /\ QueueInv
    BY GotoStep DEF SchedInv, QueueInv
  <1>2. current_pid \in User
    BY <1>1 DEF QueueInv, Pid, User
  <1>3. QED
    BY <1>1, <1>2 DEF QueueInv, setupVars, ringVars, tableVars, User

\* SYSCALL_SLEEP queues the task that is about to halt.
LEMMA QueueSleep ==
    ASSUME SchedInv, SleepQueue
    PROVE  QueueInv' /\ current_pid \in User /\ current_pid' = current_pid
  <1> USE DEF Place, KernelCode, TaskCode, UserCode, SleepCode, HltCode
  <1>1. Goto("sleep_queue", "sleep_hlt") /\ BaseInv /\ TypeOK /\ QueueInv
    BY DEF SleepQueue, SchedInv, BaseInv
  <1>2. /\ phase = "running" /\ current_pid \in Pid
        /\ cpu.at = "sleep_queue" /\ cpu'.at = "sleep_hlt"
    BY <1>1, GotoStep
  <1>3. current_pid \in User /\ state[current_pid] = RUNNING
    BY <1>1, <1>2 DEF QueueInv, WaitsForTick, Pid, User
  <1>4. User \subseteq Slot /\ -1 \notin User /\ 0 \notin User
    BY SchedulerAssumption, MaxProcessesAssumption DEF User, Slot
  <1>5. /\ HoldsOnce(run_queue, run_queue_head, run_queue_tail, Ready)
        /\ current_pid \notin Ready
        /\ \A p \in User \ {current_pid} : state[p] = READY
    BY <1>1, <1>2, <1>3 DEF QueueInv, Ready, RUNNING, READY
  <1>6. /\ \A p \in User : state'[p] = READY
        /\ {p \in User : state'[p] = READY} = Ready \cup {current_pid}
    <2>1. state \in [Slot -> {RUNNING, READY}]
          /\ state' = [state EXCEPT ![current_pid] = READY]
      BY <1>1 DEF SleepQueue, TypeOK
    <2>2. \A p \in User : state'[p] = READY
      BY <1>3, <1>4, <1>5, <2>1
    <2>3. Ready \cup {current_pid} = User
      BY <1>3, <1>5 DEF Ready
    <2>4. QED
      BY <2>2, <2>3
  <1>7. HoldsOnce(run_queue', run_queue_head', run_queue_tail', Ready \cup {current_pid})
    <2>1. /\ run_queue \in [Slot -> Pid] /\ run_queue_head \in Slot
          /\ run_queue_tail \in Slot /\ ~IsFull(run_queue_head, run_queue_tail)
      BY <1>1, <1>2, RingNotFull DEF TypeOK
    <2>2. QED
      BY <1>5, <2>1, HoldsOncePush DEF SleepQueue, add_to_run_queue
  <1>8. current_pid' = current_pid /\ context' = context
    BY DEF SleepQueue
  <1>9. QED
    BY <1>1, <1>2, <1>3, <1>4, <1>6, <1>7, <1>8 DEF QueueInv, WaitsForTick

\* No task is inside system call 4.
LEMMA NoYield == SchedInv => cpu.at \notin YieldCode
  <1> SUFFICES ASSUME SchedInv, cpu.at \in YieldCode PROVE FALSE
    OBVIOUS
  <1>1. /\ BaseInv /\ QueueInv
        /\ cpu.at \notin TaskCode /\ cpu.at # "init" /\ cpu.at # "boot"
    BY DEF SchedInv, YieldCode, TaskCode, UserCode, SleepCode, HltCode
  <1>2. current_pid # -1
    BY <1>1 DEF BaseInv, BootLoop
  <1>3. phase = "running" /\ current_pid \in User \cup {0}
    BY <1>1, <1>2, SchedulerAssumption DEF BaseInv, SetupInv, TypeOK, Pid, User
  <1>4. QED
    BY <1>1, <1>3 DEF QueueInv

LEMMA QueueTask ==
    ASSUME "yield" \notin CALLS, SchedInv, UserStep \/ KernelStep
    PROVE  QueueInv' /\ current_pid \in User /\ current_pid' = current_pid
  <1> USE DEF TaskCode, UserCode, SleepCode, HltCode, WaitsForTick
  <1>1. ASSUME NEW ms \in SLEEP_MS, Sleep(ms)
        PROVE  QueueInv' /\ current_pid \in User /\ current_pid' = current_pid
    BY <1>1, QueueGoto DEF Sleep, UserCall, tableVars
  <1>2. CASE Hlt
    BY <1>2, QueueGoto DEF Hlt, UserCall, tableVars
  <1>3. CASE SleepMore
    BY <1>3, QueueGoto DEF SleepMore, tableVars
  <1>4. CASE SleepReturn
    BY <1>4, QueueGoto DEF SleepReturn, tableVars
  <1>5. CASE Halt
    BY <1>5, QueueGoto DEF Halt, tableVars
  <1>6. ~Yield
    BY DEF Yield, UserCall
  <1>7. ~YieldLoad /\ ~YieldSlot /\ ~YieldTail
    BY NoYield DEF YieldLoad, YieldSlot, YieldTail, YieldCode, Goto
  <1>8. QED
    BY <1>1, <1>2, <1>3, <1>4, <1>5, <1>6, <1>7, QueueSleep DEF UserStep, KernelStep

LEMMA SchedInit == Init => SchedInv
  BY BaseInit DEF SchedInv, QueueInv, Init

LEMMA SchedStep ==
    ASSUME "yield" \notin CALLS, SchedInv, [Next]_vars
    PROVE  SchedInv' /\ (current_pid \in User => current_pid' \in User)
  <1>1. BaseInv'
    BY BaseStep DEF SchedInv
  <1>2. QueueInv' /\ (current_pid \in User => current_pid' \in User)
    <2>1. CASE Setup
      <3>1. phase # "running"
        BY <2>1 DEF Setup, CreateInit, DropInit, CreateUser, Enable
      <3>2. current_pid = -1 /\ -1 \notin User
        BY <3>1, SchedulerAssumption DEF SchedInv, BaseInv, SetupInv, User
      <3>3. QED
        BY <2>1, <3>2, QueueSetup
    <2>2. CASE Tick
      BY <2>2, QueueTick
    <2>3. CASE UserStep \/ KernelStep
      BY <2>3, QueueTask
    <2>4. CASE UNCHANGED vars
      BY <2>4 DEF SchedInv, QueueInv, vars, setupVars, ringVars, tableVars
    <2>5. QED
      BY <2>1, <2>2, <2>3, <2>4 DEF Next
  <1>3. QED
    BY <1>1, <1>2 DEF SchedInv

\* When no task yields, the ring holds each READY task once and nothing else,
\* and the only task that is not READY has the CPU: the invariant the
\* following theorems rest on.
THEOREM RunQueueCorrect ==
    ASSUME "yield" \notin CALLS
    PROVE  Spec => []SchedInv
  <1>1. SchedInv /\ [Next]_vars => SchedInv'
    BY SchedStep
  <1>2. QED
    BY <1>1, SchedInit, PTL DEF Spec

\* process.c's and SYSCALL_SLEEP's queueing never loses a task, never queues
\* one twice, and never brings init back into the run queue.
THEOREM TasksAccounted ==
    ASSUME "yield" \notin CALLS
    PROVE  Spec => []Accounted
  <1>1. SchedInv => Accounted
    <2> SUFFICES ASSUME SchedInv, phase = "running"
                 PROVE  (\A p \in User : TaskAccounted(p)) /\ SlotsOf(0) = {}
      BY DEF Accounted
    <2>1. /\ Occupied(run_queue_head, run_queue_tail) \subseteq Slot
          /\ HoldsOnce(run_queue, run_queue_head, run_queue_tail, Ready)
      BY OccupiedSlots DEF SchedInv, BaseInv, TypeOK, QueueInv, Ready
    <2>2. SlotsOf(0) = {}
      BY <2>1 DEF SlotsOf, HoldsOnce, Ready, User
    <2>3. ASSUME NEW p \in User PROVE TaskAccounted(p)
      <3>1. CASE p \in Ready
        <4>1. PICK i \in Occupied(run_queue_head, run_queue_tail) : run_queue[i] = p
          BY <2>1, <3>1 DEF HoldsOnce
        <4>2. SlotsOf(p) = {i}
          BY <2>1, <4>1 DEF SlotsOf, HoldsOnce
        <4>3. QED
          BY <2>1, <3>1, <4>1, <4>2 DEF TaskAccounted, Ready
      <3>2. CASE p \notin Ready
        <4>1. SlotsOf(p) = {}
          BY <2>1, <3>2 DEF SlotsOf, HoldsOnce
        <4>2. state[p] \in {RUNNING, READY}
          BY SchedulerAssumption, MaxProcessesAssumption
          DEF SchedInv, BaseInv, TypeOK, User, Slot
        <4>3. QED
          BY <3>2, <4>1, <4>2 DEF TaskAccounted, Ready, SchedInv, QueueInv
      <3>3. QED
        BY <3>1, <3>2
    <2>4. QED
      BY <2>2, <2>3
  <1>2. QED
    BY <1>1, RunQueueCorrect, PTL

\* The ring of MAX_PROCESSES slots never fills up, so head = tail always means
\* that it is empty.
THEOREM RunQueueFits ==
    ASSUME "yield" \notin CALLS
    PROVE  Spec => []QueueFits
  <1>1. SchedInv => QueueFits
    BY RingNotFull DEF QueueFits
  <1>2. QED
    BY <1>1, RunQueueCorrect, PTL

\* Once a task has had the CPU, get_next_pid never falls back to init.
THEOREM IdleStaysAway ==
    ASSUME "yield" \notin CALLS
    PROVE  Spec => IdleNeverReturns
  <1>1. SchedInv /\ [Next]_vars
          => [(current_pid \in User) => (current_pid' \in User)]_vars
    BY SchedStep
  <1>2. QED
    BY <1>1, RunQueueCorrect, PTL DEF Spec, IdleNeverReturns

-----------------------------------------------------------------------------
(* The ring when tasks do yield: how a task can be lost.                   *)

LEMMA YieldInit == Init => YieldInv
  BY BaseInit DEF YieldInv, Init, BootLoop

\* The slot at the tail is not occupied, so a store into it hides nothing.
LEMMA StoreAtTail ==
    ASSUME TypeOK, NEW x, NEW p,
           run_queue' = [run_queue EXCEPT ![run_queue_tail] = x],
           run_queue_head' = run_queue_head
    PROVE  /\ run_queue_tail' = run_queue_tail => SlotsOf(p)' = SlotsOf(p)
           /\ (/\ ~IsFull(run_queue_head, run_queue_tail)
               /\ run_queue_tail' = Advance(run_queue_tail))
                  => /\ SlotsOf(p) \subseteq SlotsOf(p)'
                     /\ x = p => SlotsOf(p)' # {}
  <1> DEFINE Occ == Occupied(run_queue_head, run_queue_tail)
  <1>1. /\ run_queue_head \in Slot /\ run_queue_tail \in Slot
        /\ run_queue \in [Slot -> Pid] /\ Occ \subseteq Slot
    BY OccupiedSlots DEF TypeOK
  <1>2. run_queue_tail \notin Occ
    BY <1>1 DEF Occupied, Slot
  <1>3. /\ run_queue'[run_queue_tail] = x
        /\ \A i \in Occ : run_queue'[i] = run_queue[i]
    BY <1>1, <1>2
  <1>4. ASSUME run_queue_tail' = run_queue_tail
        PROVE  SlotsOf(p)' = SlotsOf(p)
    BY <1>3, <1>4 DEF SlotsOf
  <1>5. ASSUME ~IsFull(run_queue_head, run_queue_tail),
               run_queue_tail' = Advance(run_queue_tail)
        PROVE  SlotsOf(p) \subseteq SlotsOf(p)' /\ (x = p => SlotsOf(p)' # {})
    <2>1. Occupied(run_queue_head, Advance(run_queue_tail)) = Occ \cup {run_queue_tail}
      BY <1>1, <1>5, OccupiedPush
    <2>2. SlotsOf(p)' = {i \in Occ \cup {run_queue_tail} : run_queue'[i] = p}
      BY <1>5, <2>1 DEF SlotsOf
    <2>3. QED
      BY <1>3, <2>2 DEF SlotsOf
  <1>6. QED
    BY <1>4, <1>5

\* Advancing the tail of a ring that is not full brings the stored pid in.
LEMMA TailAdvanced ==
    ASSUME TypeOK, UNCHANGED <<run_queue, run_queue_head>>,
           run_queue_tail' = Advance(run_queue_tail),
           ~IsFull(run_queue_head, run_queue_tail), NEW p
    PROVE  /\ SlotsOf(p) \subseteq SlotsOf(p)'
           /\ run_queue[run_queue_tail] = p => SlotsOf(p)' # {}
  <1>1. Occupied(run_queue_head, run_queue_tail') =
            Occupied(run_queue_head, run_queue_tail) \cup {run_queue_tail}
    BY OccupiedPush DEF TypeOK
  <1>2. QED
    BY <1>1 DEF SlotsOf

\* Whoever is in the ring that start_next is called with is still in it
\* afterwards, or has the CPU.
LEMMA NextKeepsHold ==
    ASSUME BaseInv, phase = "running",
           NEW states \in [Slot -> {RUNNING, READY}],
           NEW remaining \in [Slot -> 0 .. QUANTUM],
           NEW queue \in [Slot -> Pid], NEW tail \in Slot,
           start_next(Interrupted, states, remaining, queue, tail),
           NEW p \in User
    PROVE  /\ current_pid' = p => InHand(p)'
           /\ (\E i \in Occupied(run_queue_head, tail) : queue[i] = p) => InHand(p)'
           /\ (cpu.pid = p /\ cpu.at \in YieldCode)
                  => InHand(p)' \/ Where(p)' \in YieldCode
  <1>1. PICK pid \in Pid :
            /\ start_process(pid, Interrupted, states, remaining)
            /\ run_queue' = queue /\ run_queue_tail' = tail
            /\ IF run_queue_head = tail
               THEN pid = 0 /\ run_queue_head' = run_queue_head
               ELSE /\ pid = queue[run_queue_head]
                    /\ run_queue_head' = Advance(run_queue_head)
    BY StartNextStep
  <1>2. /\ current_pid' = pid /\ cpu'.pid = pid
        /\ state' = [states EXCEPT ![pid] = RUNNING]
        /\ cpu' = IF pid = current_pid THEN Interrupted ELSE context[pid]
        /\ context' = IF current_pid = -1 THEN context
                      ELSE [context EXCEPT ![current_pid] = Interrupted]
    BY <1>1, StartProcessStep
  <1>3. /\ TypeOK /\ run_queue_head \in Slot /\ cpu.pid = current_pid
        /\ p \in Slot /\ p \in Pid /\ p # -1 /\ pid \in Slot
    <2>1. TypeOK /\ run_queue_head \in Slot /\ cpu.pid = current_pid
      BY DEF BaseInv, ContextIntegrity, TypeOK
    <2>2. p \in Slot /\ p \in Pid /\ p # -1 /\ pid \in Slot
      BY SchedulerAssumption, MaxProcessesAssumption DEF User, Pid, Slot
    <2>3. QED
      BY <2>1, <2>2
  <1>4. current_pid' = p => InHand(p)'
    <2>1. state'[pid] = RUNNING
      BY <1>2, <1>3
    <2>2. QED
      BY <1>2, <2>1 DEF InHand
  <1>5. ASSUME NEW i \in Occupied(run_queue_head, tail), queue[i] = p, current_pid' # p
        PROVE  InHand(p)'
    <2>1. run_queue_head # tail
      BY <1>3, OccupiedSlots
    <2>2. Occupied(Advance(run_queue_head), tail)
              = Occupied(run_queue_head, tail) \ {run_queue_head}
      BY <1>3, <2>1, OccupiedPop
    <2>3. i # run_queue_head
      BY <1>1, <1>2, <1>5, <2>1
    <2>4. i \in SlotsOf(p)'
      BY <1>1, <1>5, <2>1, <2>2, <2>3 DEF SlotsOf
    <2>5. QED
      BY <2>4 DEF InHand
  <1>6. ASSUME cpu.pid = p, cpu.at \in YieldCode, current_pid' # p
        PROVE  Where(p)' \in YieldCode
    <2>1. Interrupted.at = cpu.at
      BY <1>3, <1>6 DEF Interrupted, TypeOK, Stream, YieldCode
    <2>2. context'[p] = Interrupted
      BY <1>2, <1>3, <1>6 DEF TypeOK
    <2>3. QED
      BY <1>2, <1>6, <2>1, <2>2 DEF Where
  <1>7. QED
    BY <1>4, <1>5, <1>6

\* What a step may do to a task that the kernel has hold of.
Held(p) == InHand(p)' \/ Where(p)' \in YieldCode \/ StoresStale \/ FillsRing

LEMMA HeldTick ==
    ASSUME BaseInv, Tick, NEW p \in User, InHand(p)
    PROVE  Held(p)
  <1>1. /\ phase = "running" /\ TypeOK /\ schedule_process(Interrupted)
        /\ cpu.pid = current_pid
    BY DEF Tick, BaseInv, ContextIntegrity
  <1>2. /\ p \in Slot /\ p \in Pid /\ p # 0 /\ p # -1 /\ 0 \in Pid
        /\ Pid = User \cup {0}
    BY SchedulerAssumption, MaxProcessesAssumption DEF User, Pid, Slot
  <1>3. CASE FirstTick(Interrupted) \/ StayIdle(Interrupted)
    <2>1. UNCHANGED ringVars /\ current_pid # p
      BY <1>2, <1>3 DEF FirstTick, StayIdle
    <2>2. SlotsOf(p) # {}
      BY <2>1 DEF InHand
    <2>3. QED
      BY <2>1, <2>2 DEF Held, InHand, SlotsOf, ringVars
  <1>4. CASE CountDown(Interrupted)
    <2>1. UNCHANGED <<ringVars, state, current_pid>> /\ state[current_pid] = RUNNING
      BY <1>4 DEF CountDown, return_to
    <2>2. SlotsOf(p) # {} \/ current_pid = p
      BY DEF InHand
    <2>3. QED
      BY <2>1, <2>2 DEF Held, InHand, SlotsOf, ringVars
  <1>5. CASE LeaveIdle(Interrupted) \/ SwitchOut(Interrupted)
    <2>1. /\ start_next(Interrupted, state, time_remaining, run_queue, run_queue_tail)
          /\ current_pid = p => state[p] # RUNNING
      BY <1>2, <1>5 DEF LeaveIdle, SwitchOut
    <2>2. /\ (\E i \in Occupied(run_queue_head, run_queue_tail) : run_queue[i] = p)
                 => InHand(p)'
          /\ (cpu.pid = p /\ cpu.at \in YieldCode) => InHand(p)' \/ Where(p)' \in YieldCode
      BY <1>1, <2>1, NextKeepsHold DEF TypeOK
    <2>3. SlotsOf(p) # {} \/ (cpu.pid = p /\ cpu.at \in YieldCode)
      BY <1>1, <2>1 DEF InHand, Where
    <2>4. QED
      BY <2>2, <2>3 DEF Held, SlotsOf
  <1>6. CASE Preempt(Interrupted)
    <2> DEFINE states == [state EXCEPT ![current_pid] = READY]
               remaining == [time_remaining EXCEPT ![current_pid] = 0]
               queue == [run_queue EXCEPT ![run_queue_tail] = current_pid]
               tail == Advance(run_queue_tail)
    <2>1. /\ state[current_pid] = RUNNING /\ current_pid \in Pid
          /\ start_next(Interrupted, states, remaining, queue, tail)
      BY <1>1, <1>6 DEF Preempt, TypeOK
    <2>2. /\ states \in [Slot -> {RUNNING, READY}]
          /\ remaining \in [Slot -> 0 .. QUANTUM]
          /\ queue \in [Slot -> Pid] /\ tail \in Slot
      <3>1. 0 \in 0 .. QUANTUM /\ tail \in Slot
        BY <1>1, SchedulerAssumption, AdvanceValue DEF TypeOK
      <3>2. QED
        BY <1>1, <2>1, <3>1 DEF TypeOK
    <2>3. run_queue_tail' = tail
      BY <2>1 DEF start_next
    <2>4. CASE IsFull(run_queue_head, run_queue_tail)
      BY <2>3, <2>4 DEF Held, FillsRing
    <2>5. CASE ~IsFull(run_queue_head, run_queue_tail)
      <3> DEFINE Occ == Occupied(run_queue_head, run_queue_tail)
      <3>1. /\ run_queue_tail \notin Occ
            /\ Occupied(run_queue_head, tail) = Occ \cup {run_queue_tail}
            /\ Occ \subseteq Slot /\ run_queue_tail \in Slot
        BY <1>1, <2>5, OccupiedPush, OccupiedSlots DEF TypeOK
      <3>2. SlotsOf(p) # {} \/ current_pid = p
        BY DEF InHand
      <3>3. queue[run_queue_tail] = current_pid /\ \A i \in Occ : queue[i] = run_queue[i]
        BY <1>1, <3>1 DEF TypeOK
      <3>4. \E i \in Occupied(run_queue_head, tail) : queue[i] = p
        BY <3>1, <3>2, <3>3 DEF SlotsOf
      <3> HIDE DEF states, remaining, queue, tail
      <3>5. InHand(p)'
        BY <1>1, <2>1, <2>2, <3>4, NextKeepsHold
      <3>6. QED
        BY <3>5 DEF Held
    <2>6. QED
      BY <2>4, <2>5
  <1>7. QED
    BY <1>1, <1>3, <1>4, <1>5, <1>6 DEF schedule_process

\* A step of the current task from `from' to `to' that touches no other task.
LEMMA HeldGoto ==
    ASSUME BaseInv, NEW from \in Place \ ({"boot"} \cup YieldCode), NEW to \in Place,
           Goto(from, to), UNCHANGED <<ringVars, tableVars>>,
           NEW p \in User, InHand(p)
    PROVE  InHand(p)'
  <1>1. cpu.at = from /\ cpu.pid = current_pid
    BY GotoStep
  <1>2. SlotsOf(p) # {} \/ (current_pid = p /\ state[p] = RUNNING)
    BY <1>1 DEF InHand, Where
  <1>3. QED
    BY <1>2 DEF InHand, SlotsOf, ringVars, tableVars

LEMMA HeldTask ==
    ASSUME YieldInv, UserStep \/ KernelStep, NEW p \in User, InHand(p)
    PROVE  Held(p)
  <1> USE DEF Place, UserCode, KernelCode, SleepCode, HltCode, YieldCode
  <1>1. BaseInv /\ TypeOK
    BY DEF YieldInv, BaseInv
  <1>2. CASE (\E ms \in SLEEP_MS : Sleep(ms)) \/ Hlt \/ SleepMore \/ SleepReturn \/ Halt
    <2>1. UNCHANGED <<ringVars, tableVars>>
      BY <1>2 DEF Sleep, Hlt, SleepMore, SleepReturn, Halt, tableVars
    <2>2. \E from \in Place \ ({"boot"} \cup YieldCode), to \in Place : Goto(from, to)
      BY <1>2 DEF Sleep, Hlt, UserCall, SleepMore, SleepReturn, Halt
    <2>3. InHand(p)'
      BY <1>1, <2>1, <2>2, HeldGoto
    <2>4. QED
      BY <2>3 DEF Held
  <1>3. CASE SleepQueue
    <2>1. /\ Goto("sleep_queue", "sleep_hlt") /\ UNCHANGED run_queue_head
          /\ run_queue' = [run_queue EXCEPT ![run_queue_tail] = current_pid]
          /\ run_queue_tail' = Advance(run_queue_tail)
      BY <1>3 DEF SleepQueue, add_to_run_queue
    <2>2. cpu.at = "sleep_queue" /\ cpu.pid = current_pid
      BY <1>1, <2>1, GotoStep
    <2>3. CASE IsFull(run_queue_head, run_queue_tail)
      BY <2>1, <2>3 DEF Held, FillsRing
    <2>4. CASE ~IsFull(run_queue_head, run_queue_tail)
      <3>1. SlotsOf(p) # {} \/ current_pid = p
        BY DEF InHand
      <3>2. SlotsOf(p)' # {}
        BY <1>1, <2>1, <2>4, <3>1, StoreAtTail
      <3>3. QED
        BY <3>2 DEF Held, InHand
    <2>5. QED
      BY <2>3, <2>4
  <1>4. CASE Yield
    <2>1. Goto("user", "yield_load") /\ UNCHANGED <<ringVars, current_pid>>
      BY <1>4 DEF Yield, UserCall
    <2>2. /\ cpu.at = "user" /\ cpu.pid = current_pid
          /\ cpu'.at = "yield_load" /\ cpu'.pid = current_pid
      BY <1>1, <2>1, GotoStep
    <2>3. CASE current_pid = p
      BY <2>2, <2>3 DEF Held, Where
    <2>4. CASE current_pid # p
      BY <2>1, <2>4 DEF Held, InHand, SlotsOf, ringVars
    <2>5. QED
      BY <2>3, <2>4
  <1>8. CASE YieldLoad
    <2>1. Goto("yield_load", "yield_slot") /\ UNCHANGED <<ringVars, tableVars>>
      BY <1>8 DEF YieldLoad
    <2>2. cpu.pid = current_pid /\ cpu'.at = "yield_slot" /\ cpu'.pid = current_pid
      BY <1>1, <2>1, GotoStep
    <2>3. CASE current_pid = p
      BY <2>2, <2>3 DEF Held, Where
    <2>4. CASE current_pid # p
      BY <2>1, <2>4 DEF Held, InHand, SlotsOf, ringVars
    <2>5. QED
      BY <2>3, <2>4
  <1>5. CASE YieldSlot
    <2>1. /\ Goto("yield_slot", "yield_tail")
          /\ UNCHANGED <<run_queue_head, run_queue_tail, current_pid>>
          /\ run_queue' = [run_queue EXCEPT ![tail_read[cpu.pid]] = current_pid]
      BY <1>5 DEF YieldSlot, tableVars
    <2>2. /\ cpu.pid = current_pid
          /\ cpu'.at = "yield_tail" /\ cpu'.pid = current_pid
      BY <1>1, <2>1, GotoStep
    <2>3. CASE current_pid = p
      BY <2>2, <2>3 DEF Held, Where
    <2>4. CASE tail_read[cpu.pid] # run_queue_tail
      BY <1>5, <2>4 DEF Held, StoresStale
    <2>5. CASE current_pid # p /\ tail_read[cpu.pid] = run_queue_tail
      <3>1. SlotsOf(p) # {} /\ SlotsOf(p)' = SlotsOf(p)
        BY <1>1, <2>1, <2>5, StoreAtTail DEF InHand
      <3>2. QED
        BY <3>1 DEF Held, InHand
    <2>6. QED
      BY <2>3, <2>4, <2>5
  <1>6. CASE YieldTail
    <2>1. /\ Goto("yield_tail", "user") /\ UNCHANGED <<run_queue, run_queue_head>>
          /\ run_queue_tail' = Advance(tail_read[cpu.pid]) /\ UNCHANGED tableVars
      BY <1>6 DEF YieldTail
    <2>2. cpu.at = "yield_tail" /\ cpu.pid = current_pid
      BY <1>1, <2>1, GotoStep
    <2>3. CASE tail_read[cpu.pid] # run_queue_tail
      BY <1>6, <2>3 DEF Held, StoresStale
    <2>6. CASE tail_read[cpu.pid] = run_queue_tail /\ IsFull(run_queue_head, run_queue_tail)
      BY <2>1, <2>6 DEF Held, FillsRing
    <2>4. CASE tail_read[cpu.pid] = run_queue_tail /\ ~IsFull(run_queue_head, run_queue_tail)
      <3>1. /\ SlotsOf(p) \subseteq SlotsOf(p)'
            /\ run_queue[run_queue_tail] = p => SlotsOf(p)' # {}
        BY <1>1, <2>1, <2>4, TailAdvanced
      <3>2. p \in Slot
        BY SchedulerAssumption, MaxProcessesAssumption DEF User, Slot
      <3>3. \/ SlotsOf(p) # {}
            \/ current_pid = p /\ state[p] = RUNNING
            \/ run_queue[run_queue_tail] = p
        BY <1>1, <2>2, <3>2 DEF InHand, YieldInv, TypeOK
      <3>4. QED
        BY <2>1, <3>1, <3>3 DEF Held, InHand, tableVars
    <2>5. QED
      BY <2>3, <2>4, <2>6
  <1>7. QED
    BY <1>2, <1>3, <1>4, <1>5, <1>6, <1>8 DEF UserStep, KernelStep

\* In a task's own step, YieldInv is kept: it is a matter of the yielding task alone.
LEMMA YieldTask == YieldInv /\ (UserStep \/ KernelStep) => YieldInv'
  <1> SUFFICES ASSUME YieldInv, UserStep \/ KernelStep PROVE YieldInv'
    OBVIOUS
  <1> USE DEF Place, UserCode, KernelCode, SleepCode, HltCode, YieldCode
  <1>1. /\ BaseInv /\ TypeOK /\ BaseInv'
        /\ cpu.at \in {"yield_slot", "yield_tail"} /\ state[current_pid] = READY
               => tail_read[current_pid] = run_queue_tail
    BY BaseTask DEF YieldInv, BaseInv
  <1>2. CASE YieldLoad
    <2>1. /\ Goto("yield_load", "yield_slot")
          /\ tail_read' = [tail_read EXCEPT ![cpu.pid] = run_queue_tail]
          /\ UNCHANGED <<run_queue_tail, current_pid>>
      BY <1>2 DEF YieldLoad, ringVars, tableVars
    <2>2. current_pid \in Pid /\ cpu.pid = current_pid /\ cpu'.at = "yield_slot"
      BY <1>1, <2>1, GotoStep
    <2>3. tail_read'[current_pid'] = run_queue_tail'
      BY <1>1, <2>1, <2>2 DEF TypeOK
    <2>4. QED
      BY <1>1, <2>2, <2>3 DEF YieldInv
  <1>3. CASE YieldSlot
    <2>1. /\ Goto("yield_slot", "yield_tail")
          /\ run_queue' = [run_queue EXCEPT ![tail_read[cpu.pid]] = current_pid]
          /\ UNCHANGED <<run_queue_tail, state, current_pid, tail_read>>
      BY <1>3 DEF YieldSlot, tableVars, localVars
    <2>2. cpu.at = "yield_slot" /\ cpu.pid = current_pid
      BY <1>1, <2>1, GotoStep
    <2>3. ASSUME state[current_pid] = READY
          PROVE  /\ tail_read[current_pid] = run_queue_tail
                 /\ run_queue'[run_queue_tail] = current_pid
      BY <1>1, <2>1, <2>2, <2>3 DEF TypeOK
    <2>4. QED
      BY <1>1, <2>1, <2>3 DEF YieldInv
  <1>4. CASE UserStep \/ (KernelStep /\ ~YieldLoad /\ ~YieldSlot)
    <2>1. cpu'.at \notin {"yield_slot", "yield_tail"}
      BY <1>1, <1>4
      DEF UserStep, Sleep, Hlt, Yield, UserCall, KernelStep, SleepMore, SleepReturn,
          SleepQueue, Halt, YieldTail, Goto, TypeOK, Stream
    <2>2. QED
      BY <1>1, <2>1 DEF YieldInv
  <1>5. QED
    BY <1>2, <1>3, <1>4

LEMMA YieldStep == YieldInv /\ [Next]_vars => YieldInv'
  <1> SUFFICES ASSUME YieldInv, Setup \/ Tick \/ UNCHANGED vars,
                      cpu'.at \in {"yield_slot", "yield_tail"},
                      state'[current_pid'] = READY
               PROVE  /\ tail_read'[current_pid'] = run_queue_tail'
                      /\ cpu'.at = "yield_tail" => run_queue'[run_queue_tail'] = current_pid'
    BY BaseStep, YieldTask DEF YieldInv, Next
  <1>1. BaseInv /\ TypeOK /\ BaseInv'
    BY BaseStep DEF YieldInv, BaseInv, Next
  <1>2. CASE Setup
    <2>1. cpu' = BootLoop
      BY <1>1, <1>2 DEF BaseInv, SetupInv, Setup, CreateInit, DropInit, CreateUser, Enable,
         process_create, tableVars
    <2>2. QED
      BY <2>1 DEF BootLoop
  <1>3. CASE Tick
    <2>1. schedule_process(Interrupted) /\ UNCHANGED tail_read
      BY <1>3 DEF Tick
    <2>2. CASE StayIdle(Interrupted) \/ CountDown(Interrupted)
      <3>1. cpu.at \in {"yield_slot", "yield_tail"} /\ cpu'.at = cpu.at
        BY <1>1, <2>2 DEF StayIdle, CountDown, return_to, Interrupted, TypeOK, Stream
      <3>2. UNCHANGED <<state, ringVars, current_pid>>
        BY <2>2 DEF StayIdle, CountDown, return_to
      <3>3. QED
        BY <2>1, <3>1, <3>2 DEF YieldInv, ringVars
    <2>3. CASE \/ FirstTick(Interrupted) \/ LeaveIdle(Interrupted)
               \/ Preempt(Interrupted) \/ SwitchOut(Interrupted)
      <3> DEFINE waiting == [state EXCEPT ![current_pid] = READY]
      <3>1. PICK pid : /\ current_pid' = pid
                       /\ \/ state' = [state EXCEPT ![pid] = RUNNING]
                          \/ state' = [waiting EXCEPT ![pid] = RUNNING]
        BY <2>3 DEF FirstTick, LeaveIdle, Preempt, SwitchOut, start_next, start_process
      <3>2. pid \in Slot
        <4>1. current_pid' # -1
          BY <1>1 DEF BaseInv, BootLoop
        <4>2. QED
          BY <1>1, <3>1, <4>1, SchedulerAssumption, MaxProcessesAssumption
          DEF BaseInv, TypeOK, Pid, Slot
      <3>3. state'[pid] = RUNNING
        BY <1>1, <3>1, <3>2 DEF TypeOK
      <3>4. QED
        BY <3>1, <3>3 DEF RUNNING, READY
    <2>4. QED
      BY <2>1, <2>2, <2>3 DEF schedule_process
  <1>4. CASE UNCHANGED vars
    BY <1>4 DEF YieldInv, vars, ringVars, tableVars, localVars
  <1>5. QED
    BY <1>2, <1>3, <1>4

\* Whatever system calls the tasks make, and however often they queue
\* themselves, a task is lost only by a tick inside system call 4, by the stores of a
\* yielding task that such a tick interrupted, or by an entry too many in the ring.
THEOREM LostByYieldOnly == Spec => LostOnlyByYield
  <1>1. YieldInv /\ [Next]_vars
          => [phase = "running" => \A p \in User :
                  InHand(p) /\ ~InHand(p)'
                      => Where(p)' \in YieldCode \/ StoresStale \/ FillsRing]_vars
    <2> SUFFICES ASSUME YieldInv, Next, phase = "running", NEW p \in User, InHand(p)
                 PROVE  Held(p)
      BY DEF Held
    <2>1. BaseInv /\ ~Setup
      BY DEF YieldInv, Setup, CreateInit, DropInit, CreateUser, Enable
    <2>2. QED
      BY <2>1, HeldTick, HeldTask DEF Next
  <1>2. QED
    BY <1>1, YieldInit, YieldStep, PTL DEF Spec, LostOnlyByYield

=============================================================================
