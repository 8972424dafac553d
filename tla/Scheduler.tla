----------------------------- MODULE Scheduler ------------------------------
(***************************************************************************)
(* FrogOS's process scheduler: process.c, the timer interrupt that drives  *)
(* it (pit.c and the stub of irq.S) and the system calls of syscall.c that *)
(* change a process's state.                                               *)
(*                                                                         *)
(* There is one CPU.  It executes one instruction stream, cpu, and the     *)
(* timer interrupt Tick may strike between any two of the steps below (a   *)
(* step is one C statement, or a stretch the code runs between disable()   *)
(* and enable(); where the yield system call shares run_queue_tail with    *)
(* others, one load or store).  A tick pushes the interrupted stream as a  *)
(* frame, and schedule_process may replace that frame with another         *)
(* process's saved context; what is in the frame at the end is what the    *)
(* CPU goes on with.                                                       *)
(*                                                                         *)
(* A stream is a record: `pid' is the process whose stack and registers    *)
(* it carries, `at' is the place in the code.  System calls run on the     *)
(* caller's stack (syscall_handler pushes on the user's rsp), so the       *)
(* locals of SYSCALL_SLEEP, state->rdi and pit_counter - start, are kept   *)
(* per stack, in rdi and slept, and so is the register in which the yield  *)
(* system call carries run_queue_tail, in tail_read.                       *)
(***************************************************************************)
EXTENDS RunQueue

CONSTANTS
    USER_TASKS,       \* how many user_task processes setup_process creates (4)
    QUANTUM,          \* ticks a process may run before it is preempted (100)
    SLEEP_MS,         \* the sleeping times, in ms, that a task may ask for
    SLEPT_MAX,        \* bound: pit_counter - start is counted up to here
    CALLS,            \* the system calls a task may issue ...
    YIELDERS,         \* ... yield, if at all, only these tasks
    CALLS_AFTER_YIELD \* those it may issue after a yield, before it is switched out

Syscalls == {"sleep", "hlt", "yield"}

\* state->rdi = (state->rdi + 9) / 10: a tick is taken for 10 ms.
SleepTicks(ms) == (ms + 9) \div 10

ASSUME SchedulerAssumption ==
    /\ USER_TASKS \in Nat \ {0}
    /\ USER_TASKS + 1 < MAX_PROCESSES
    /\ QUANTUM \in Nat \ {0}
    /\ SLEEP_MS \subseteq Nat
    /\ SLEPT_MAX \in Nat
    /\ \A ms \in SLEEP_MS : SleepTicks(ms) <= SLEPT_MAX
    /\ CALLS \subseteq Syscalls
    /\ CALLS_AFTER_YIELD \subseteq CALLS
    /\ YIELDERS \subseteq 1 .. USER_TASKS

Pid  == 0 .. USER_TASKS          \* the processes setup_process creates
User == 1 .. USER_TASKS          \* those that run user_task; 0 runs init

RUNNING == 0                     \* PROCESS_STATE_RUNNING
READY   == 3                     \* PROCESS_STATE_READY

\* Places in the code where a tick may find the CPU.
UserCode   == {"user"}
SleepCode  == {"sleep_check", "sleep_queue", "sleep_hlt", "sleep_halted"}
HltCode    == {"sys_hlt", "sys_halted"}
YieldCode  == {"yield_load", "yield_slot", "yield_tail"}
KernelCode == SleepCode \cup HltCode \cup YieldCode
Place      == {"boot", "init", "none"} \cup UserCode \cup KernelCode

Stream == [pid : {-1} \cup Pid, at : Place]

VARIABLES
    phase,            \* progress of setup_process
    free_queue_head,  \* next entry of free_queue to hand out
    run_queue,        \* the ring of runnable processes ...
    run_queue_head,   \* ... its oldest entry
    run_queue_tail,   \* ... and the slot the next entry goes to
    current_pid,      \* the process the scheduler believes is on the CPU
    state,            \* process_table[.].state
    time_remaining,   \* process_table[.].time_remaining
    context,          \* *process_table[.].context
    cpu,              \* the instruction stream the CPU executes
    rdi,              \* state->rdi of a sleeping task: the ms it asked for
    slept,            \* pit_counter - start of a sleeping task
    tail_read         \* the run_queue_tail that a yielding task has loaded

ringVars  == <<run_queue, run_queue_head, run_queue_tail>>
tableVars == <<current_pid, state, time_remaining, context>>
localVars == <<rdi, slept, tail_read>>
setupVars == <<phase, free_queue_head>>
vars == <<setupVars, ringVars, tableVars, cpu, localVars>>

NoContext == [pid |-> -1, at |-> "none"]    \* context is still NULL
BootLoop  == [pid |-> -1, at |-> "boot"]    \* cmain's for(;;) hlt

-----------------------------------------------------------------------------
(* setup_process, which runs with interrupts disabled on the boot stack.   *)

\* free_queue is filled with the identity and never written again, and
\* free_queue_tail is never used.
free_queue == [i \in Slot |-> i]

Init ==
    /\ phase = "create_init"
    /\ free_queue_head = 0
    /\ run_queue = [i \in Slot |-> 0]
    /\ run_queue_head = 0
    /\ run_queue_tail = 0
    /\ current_pid = -1
    /\ state = [p \in Slot |-> RUNNING]
    /\ time_remaining = [p \in Slot |-> 0]
    /\ context = [p \in Slot |-> NoContext]
    /\ cpu = BootLoop
    /\ rdi = [p \in User |-> 0]
    /\ slept = [p \in User |-> 0]
    /\ tail_read = [p \in Pid |-> 0]

add_to_run_queue(pid) ==
    /\ run_queue' = [run_queue EXCEPT ![run_queue_tail] = pid]
    /\ run_queue_tail' = Advance(run_queue_tail)

\* process_create(entry, kernel_task): takes the next free pid, prepares its
\* context and queues it.  The pid is passed in rdi, so the stream is pid's.
process_create(entry) ==
    LET pid == free_queue[free_queue_head] IN
    /\ free_queue_head' = Advance(free_queue_head)
    /\ state' = [state EXCEPT ![pid] = READY]
    /\ context' = [context EXCEPT ![pid] = [pid |-> pid, at |-> entry]]
    /\ add_to_run_queue(pid)
    /\ UNCHANGED <<current_pid, time_remaining, cpu, localVars>>

CreateInit ==
    /\ phase = "create_init"
    /\ process_create("init")
    /\ phase' = "drop_init"
    /\ UNCHANGED run_queue_head

\* Faulty variant of DropInit: init stays in the queue.
DropInitForgotten ==
    /\ phase = "drop_init"
    /\ phase' = "create_users"
    /\ UNCHANGED <<free_queue_head, ringVars, tableVars, cpu, localVars>>

\* "remove init from run_queue"
DropInit ==
    /\ phase = "drop_init"
    /\ run_queue_head' = Advance(run_queue_head)
    /\ phase' = "create_users"
    /\ UNCHANGED <<free_queue_head, run_queue, run_queue_tail, tableVars, cpu,
                   localVars>>

CreateUser ==
    /\ phase = "create_users"
    /\ process_create("user")
    /\ phase' = IF free_queue_head = USER_TASKS THEN "enable" ELSE "create_users"
    /\ UNCHANGED run_queue_head

\* enable(), then cmain's for(;;) asm("hlt").
Enable ==
    /\ phase = "enable"
    /\ phase' = "running"
    /\ UNCHANGED <<free_queue_head, ringVars, tableVars, cpu, localVars>>

Setup == CreateInit \/ DropInit \/ CreateUser \/ Enable

-----------------------------------------------------------------------------
(* The timer interrupt.                                                    *)

\* The stream the interrupt frame holds: a tick ends a hlt, and the saved
\* rip is that of the next instruction.
Interrupted ==
    [cpu EXCEPT !.at = CASE @ = "sleep_halted" -> "sleep_check"
                         [] @ = "sys_halted"   -> "user"
                         [] OTHER              -> @]

\* Faulty variants of start_process: the frame is overwritten before it is
\* saved; the new process is not given a quantum; it is given a tick too much.
start_process_LoadFirst(pid, frame, states, remaining) ==
    /\ context' = IF current_pid = -1 THEN context
                  ELSE [context EXCEPT ![current_pid] = context[pid]]
    /\ cpu' = context[pid]
    /\ state' = [states EXCEPT ![pid] = RUNNING]
    /\ time_remaining' = [remaining EXCEPT ![pid] = QUANTUM]
    /\ current_pid' = pid

start_process_NoQuantum(pid, frame, states, remaining) ==
    LET saved == IF current_pid = -1 THEN context
                 ELSE [context EXCEPT ![current_pid] = frame]
    IN /\ context' = saved
       /\ cpu' = saved[pid]
       /\ state' = [states EXCEPT ![pid] = RUNNING]
       /\ time_remaining' = remaining
       /\ current_pid' = pid

start_process_TickTooMuch(pid, frame, states, remaining) ==
    LET saved == IF current_pid = -1 THEN context
                 ELSE [context EXCEPT ![current_pid] = frame]
    IN /\ context' = saved
       /\ cpu' = saved[pid]
       /\ state' = [states EXCEPT ![pid] = RUNNING]
       /\ time_remaining' = [remaining EXCEPT ![pid] = QUANTUM + 1]
       /\ current_pid' = pid

\* start_process(pid, frame), given the table's states and remaining times
\* at the call: save the frame, load pid's context into it.
start_process(pid, frame, states, remaining) ==
    LET saved == IF current_pid = -1 THEN context
                 ELSE [context EXCEPT ![current_pid] = frame]
    IN /\ context' = saved
       /\ cpu' = saved[pid]
       /\ state' = [states EXCEPT ![pid] = RUNNING]
       /\ time_remaining' = [remaining EXCEPT ![pid] = QUANTUM]
       /\ current_pid' = pid

\* Faulty variant of start_next: the head is advanced before it is read.
start_next_Skips(frame, states, remaining, queue, tail) ==
    /\ IF run_queue_head = tail
       THEN /\ start_process(0, frame, states, remaining)
            /\ UNCHANGED run_queue_head
       ELSE /\ start_process(queue[Advance(run_queue_head)], frame, states, remaining)
            /\ run_queue_head' = Advance(run_queue_head)
    /\ run_queue' = queue
    /\ run_queue_tail' = tail

\* start_process(get_next_pid(), frame), given the ring at the call.  An
\* empty ring yields process 0.
start_next(frame, states, remaining, queue, tail) ==
    /\ IF run_queue_head = tail
       THEN /\ start_process(0, frame, states, remaining)
            /\ UNCHANGED run_queue_head
       ELSE /\ start_process(queue[run_queue_head], frame, states, remaining)
            /\ run_queue_head' = Advance(run_queue_head)
    /\ run_queue' = queue
    /\ run_queue_tail' = tail

return_to(frame) ==
    /\ cpu' = frame
    /\ UNCHANGED <<context, current_pid>>

\* The branches of schedule_process(context).
FirstTick(frame) ==
    /\ current_pid = -1
    /\ start_process(0, frame, state, time_remaining)
    /\ UNCHANGED ringVars

StayIdle(frame) ==
    /\ current_pid = 0
    /\ run_queue_head = run_queue_tail
    /\ return_to(frame)
    /\ UNCHANGED <<state, time_remaining, ringVars>>

LeaveIdle(frame) ==
    /\ current_pid = 0
    /\ run_queue_head # run_queue_tail
    /\ start_next(frame, state, time_remaining, run_queue, run_queue_tail)

\* Faulty variant of CountDown: the tick is not counted.
CountDownStuck(frame) ==
    /\ current_pid > 0
    /\ state[current_pid] = RUNNING
    /\ time_remaining[current_pid] # 1
    /\ return_to(frame)
    /\ UNCHANGED <<time_remaining, state, ringVars>>

CountDown(frame) ==
    /\ current_pid > 0
    /\ state[current_pid] = RUNNING
    /\ time_remaining[current_pid] # 1
    /\ time_remaining' = [time_remaining EXCEPT ![current_pid] = @ - 1]
    /\ return_to(frame)
    /\ UNCHANGED <<state, ringVars>>

\* Faulty variant of Preempt: the task is not put back into the queue.
PreemptLost(frame) ==
    /\ current_pid > 0
    /\ state[current_pid] = RUNNING
    /\ time_remaining[current_pid] = 1
    /\ start_next(frame,
                  [state EXCEPT ![current_pid] = READY],
                  [time_remaining EXCEPT ![current_pid] = 0],
                  run_queue, run_queue_tail)

Preempt(frame) ==
    /\ current_pid > 0
    /\ state[current_pid] = RUNNING
    /\ time_remaining[current_pid] = 1
    /\ start_next(frame,
                  [state EXCEPT ![current_pid] = READY],
                  [time_remaining EXCEPT ![current_pid] = 0],
                  [run_queue EXCEPT ![run_queue_tail] = current_pid],
                  Advance(run_queue_tail))

\* Faulty variant of SwitchOut: the task, which queued itself, is queued again.
SwitchOutTwice(frame) ==
    /\ current_pid > 0
    /\ state[current_pid] # RUNNING
    /\ start_next(frame, state, time_remaining,
                  [run_queue EXCEPT ![run_queue_tail] = current_pid],
                  Advance(run_queue_tail))

SwitchOut(frame) ==
    /\ current_pid > 0
    /\ state[current_pid] # RUNNING
    /\ start_next(frame, state, time_remaining, run_queue, run_queue_tail)

schedule_process(frame) ==
    \/ FirstTick(frame)
    \/ StayIdle(frame)
    \/ LeaveIdle(frame)
    \/ CountDown(frame)
    \/ Preempt(frame)
    \/ SwitchOut(frame)

\* Where process p stands: on the CPU, or in its saved context.
Where(p) == IF cpu.pid = p THEN cpu.at ELSE context[p].at

\* ++pit_counter, seen as the time since each sleeper's start.
CountTick ==
    slept' = [p \in User |-> IF Where(p) \in SleepCode /\ slept[p] < SLEPT_MAX
                             THEN slept[p] + 1
                             ELSE slept[p]]

\* IRQ 0: irq_stub, irq_handler and pit_handler, up to iretq.
Tick ==
    /\ phase = "running"
    /\ CountTick
    /\ schedule_process(Interrupted)
    /\ UNCHANGED <<setupVars, rdi, tail_read>>

-----------------------------------------------------------------------------
(* The system calls, as ksyscall runs them on the caller's stack with      *)
(* interrupts enabled.                                                     *)

Goto(from, to) == cpu.at = from /\ cpu' = [cpu EXCEPT !.at = to]

\* A task issues system call c.
UserCall(c, to) ==
    /\ Goto("user", to)
    /\ c \in CALLS
    /\ state[current_pid] # RUNNING => c \in CALLS_AFTER_YIELD

\* SYSCALL_SLEEP: start = pit_counter.
Sleep(ms) ==
    /\ UserCall("sleep", "sleep_check")
    /\ rdi' = [rdi EXCEPT ![cpu.pid] = ms]
    /\ UNCHANGED <<setupVars, ringVars, tableVars, slept, tail_read>>

\* Faulty variant of SleepOver: waits for the very tick.
SleepOverExactly(p) == slept[p] = SleepTicks(rdi[p])

\* !(pit_counter - start < state->rdi), on p's stack.
SleepOver(p) == slept[p] >= SleepTicks(rdi[p])

\* while (pit_counter - start < state->rdi): go round once more ...
SleepMore ==
    /\ Goto("sleep_check", "sleep_queue")
    /\ ~SleepOver(cpu.pid)
    /\ UNCHANGED <<setupVars, ringVars, tableVars, localVars>>

\* ... or return to the task.  The locals die here.
SleepReturn ==
    /\ Goto("sleep_check", "user")
    /\ SleepOver(cpu.pid)
    /\ slept' = [slept EXCEPT ![cpu.pid] = 0]
    /\ rdi' = [rdi EXCEPT ![cpu.pid] = 0]
    /\ UNCHANGED <<setupVars, ringVars, tableVars, tail_read>>

\* Faulty variants of SleepQueue: the task is queued but stays RUNNING; it is
\* READY but not queued.
SleepQueueRunning ==
    /\ Goto("sleep_queue", "sleep_hlt")
    /\ add_to_run_queue(current_pid)
    /\ UNCHANGED <<setupVars, run_queue_head, tableVars, localVars>>

SleepQueueMissed ==
    /\ Goto("sleep_queue", "sleep_hlt")
    /\ state' = [state EXCEPT ![current_pid] = READY]
    /\ UNCHANGED <<setupVars, ringVars, current_pid, time_remaining, context,
                   localVars>>

\* disable(); add_to_run_queue(current_pid); state = READY; enable().
SleepQueue ==
    /\ Goto("sleep_queue", "sleep_hlt")
    /\ add_to_run_queue(current_pid)
    /\ state' = [state EXCEPT ![current_pid] = READY]
    /\ UNCHANGED <<setupVars, run_queue_head, current_pid, time_remaining,
                   context, localVars>>

\* asm("hlt"), in SYSCALL_SLEEP and in SYSCALL_HLT.
Halt ==
    /\ Goto("sleep_hlt", "sleep_halted") \/ Goto("sys_hlt", "sys_halted")
    /\ UNCHANGED <<setupVars, ringVars, tableVars, localVars>>

\* SYSCALL_HLT.
Hlt ==
    /\ UserCall("hlt", "sys_hlt")
    /\ UNCHANGED <<setupVars, ringVars, tableVars, localVars>>

\* System call 4, "yield": state = READY; then add_to_run_queue with interrupts
\* enabled, which as it is compiled loads run_queue_tail once, stores into that slot
\* and stores the tail that comes after it.
Yield ==
    /\ UserCall("yield", "yield_load")
    /\ cpu.pid \in YIELDERS
    /\ state' = [state EXCEPT ![current_pid] = READY]
    /\ UNCHANGED <<setupVars, ringVars, current_pid, time_remaining, context,
                   localVars>>

YieldLoad ==
    /\ Goto("yield_load", "yield_slot")
    /\ tail_read' = [tail_read EXCEPT ![cpu.pid] = run_queue_tail]
    /\ UNCHANGED <<setupVars, ringVars, tableVars, rdi, slept>>

YieldSlot ==
    /\ Goto("yield_slot", "yield_tail")
    /\ run_queue' = [run_queue EXCEPT ![tail_read[cpu.pid]] = current_pid]
    /\ UNCHANGED <<setupVars, run_queue_head, run_queue_tail, tableVars,
                   localVars>>

\* Faulty variant of YieldTail: the new entry is left outside the queue.
YieldTailUnmoved ==
    /\ Goto("yield_tail", "user")
    /\ tail_read' = [tail_read EXCEPT ![cpu.pid] = 0]
    /\ UNCHANGED <<setupVars, ringVars, tableVars, rdi, slept>>

\* The register dies here.
YieldTail ==
    /\ Goto("yield_tail", "user")
    /\ run_queue_tail' = Advance(tail_read[cpu.pid])
    /\ tail_read' = [tail_read EXCEPT ![cpu.pid] = 0]
    /\ UNCHANGED <<setupVars, run_queue, run_queue_head, tableVars, rdi, slept>>

UserStep == (\E ms \in SLEEP_MS : Sleep(ms)) \/ Hlt \/ Yield

KernelStep ==
    \/ SleepMore \/ SleepReturn \/ SleepQueue \/ Halt
    \/ YieldLoad \/ YieldSlot \/ YieldTail

-----------------------------------------------------------------------------
Next == Setup \/ Tick \/ UserStep \/ KernelStep

(***************************************************************************)
(* The timer never stops.  Between two ticks the CPU executes many         *)
(* instructions, so a process that is given the CPU inside a system call   *)
(* again and again does get on with it: strong fairness, because each tick *)
(* may take the CPU away and disable the step.  A task is not obliged to   *)
(* make any call.                                                          *)
(***************************************************************************)
Fairness ==
    /\ WF_vars(Setup)
    /\ WF_vars(Tick)
    /\ \A p \in User : SF_vars(cpu.pid = p /\ KernelStep)

Spec == Init /\ [][Next]_vars

FairSpec == Spec /\ Fairness

\* The timing in which every tick finds the CPU waiting or in a task, never
\* inside the short kernel paths: what 10 ms between ticks make usual.
AtRest == cpu.at \in {"boot", "init", "user", "sleep_halted", "sys_halted"}

PunctualSpec == Init /\ [][Setup \/ (AtRest /\ Tick) \/ UserStep \/ KernelStep]_vars

-----------------------------------------------------------------------------
(* Properties.                                                             *)

\* Every variable stays within its range.
TypeOK ==
    /\ phase \in {"create_init", "drop_init", "create_users", "enable", "running"}
    /\ free_queue_head \in Slot
    /\ run_queue \in [Slot -> Pid]
    /\ run_queue_head \in Slot
    /\ run_queue_tail \in Slot
    /\ current_pid \in {-1} \cup Pid
    /\ state \in [Slot -> {RUNNING, READY}]
    /\ time_remaining \in [Slot -> 0 .. QUANTUM]
    /\ context \in [Slot -> Stream]
    /\ cpu \in Stream
    /\ rdi \in [User -> {0} \cup SLEEP_MS]
    /\ slept \in [User -> 0 .. SLEPT_MAX]
    /\ tail_read \in [Pid -> Slot]

\* The slots of the run queue that hold p.
SlotsOf(p) ==
    {i \in Occupied(run_queue_head, run_queue_tail) : run_queue[i] = p}

\* A task is on the CPU in state RUNNING and not queued, or it is READY and
\* queued in exactly one slot.
TaskAccounted(p) ==
    \/ current_pid = p /\ state[p] = RUNNING /\ SlotsOf(p) = {}
    \/ state[p] = READY /\ \E i \in Slot : SlotsOf(p) = {i}

\* No task is ever lost or queued twice by process.c's and SYSCALL_SLEEP's
\* hand-made queueing, and init, taken out by setup_process, never gets back
\* into the run queue.
Accounted ==
    phase = "running" => /\ \A p \in User : TaskAccounted(p)
                         /\ SlotsOf(0) = {}

\* The frame and context copies of start_process never mix two processes up:
\* the CPU carries the stack and registers of current_pid, and every other
\* process's saved context is its own.
ContextIntegrity ==
    phase = "running" => /\ cpu.pid = current_pid
                         /\ \A p \in Pid \ {current_pid} : context[p].pid = p

\* The run queue never fills up: head = tail, which get_next_pid takes for an
\* empty queue, never stands for a full one.
QueueFits ==
    phase = "running" => ~IsFull(run_queue_head, run_queue_tail)

\* The unsigned time_remaining of the running task is never decremented below
\* zero, which would give it the CPU for 2^32 ticks.
QuantumPositive ==
    (phase = "running" /\ current_pid \in User /\ state[current_pid] = RUNNING)
        => time_remaining[current_pid] \in 1 .. QUANTUM

\* Once a task has the CPU, get_next_pid never finds the queue empty: the CPU
\* does not fall back to init while tasks exist.
IdleNeverReturns == [][(current_pid \in User) => (current_pid' \in User)]_vars

\* Task p's SYSCALL_SLEEP returns in this step.
Wakes(p) == cpu.pid = p /\ SleepReturn

\* With punctual ticks, a sleeper is late by at most the quanta of the other
\* tasks: SYSCALL_SLEEP polls, so a turn missed costs a whole round.
OversleepBounded ==
    [][\A p \in User : Wakes(p) =>
        slept[p] <= SleepTicks(rdi[p]) + (USER_TASKS - 1) * QUANTUM]_vars

\* "1000 ticks = 1 second": who asks for ms milliseconds sleeps ms ticks.
TicksAreMilliseconds ==
    [][\A p \in User : Wakes(p) => slept[p] >= rdi[p]]_vars

\* Whoever calls SYSCALL_SLEEP gets back to its own code.
SleepReturns ==
    \A p \in User : (Where(p) \in SleepCode) ~> (Where(p) = "user")

\* Every task gets the CPU again and again, whatever the others do.
EveryTaskRuns == \A p \in User : []<>(current_pid = p)

\* "yield": the caller gives up the CPU and runs again later.
YieldReturns ==
    \A p \in User : (Where(p) \in YieldCode) ~> (Where(p) = "user")

\* The kernel has hold of task p: it is queued, or it is on the CPU, RUNNING or just
\* about to be queued by yield.
InHand(p) ==
    \/ SlotsOf(p) # {}
    \/ current_pid = p /\ (state[p] = RUNNING \/ Where(p) \in YieldCode)

\* This step stores into the last free slot, and the ring looks empty from then on.
FillsRing ==
    IsFull(run_queue_head, run_queue_tail) /\ run_queue_tail' = Advance(run_queue_tail)

\* A yielding task stores, into the ring or its tail, by a tail that others have moved
\* on since it was loaded: the task was interrupted in between.
StoresStale ==
    /\ YieldSlot \/ YieldTail
    /\ tail_read[cpu.pid] # run_queue_tail

\* However often tasks yield, queue themselves more than once and expose stale slots of
\* the ring, there are three ways to lose one: a tick between yield's state = READY and
\* the store of run_queue_tail; a yield that such a tick interrupted and that goes on
\* where it was, which wipes out what the others have queued since; and, for all tasks
\* at once, an entry too many.
LostOnlyByYield ==
    [][ phase = "running" => \A p \in User :
            InHand(p) /\ ~InHand(p)'
                => Where(p)' \in YieldCode \/ StoresStale \/ FillsRing ]_vars

-----------------------------------------------------------------------------
(* The inductive invariant of SchedulerProof.                              *)

\* How far setup_process has got: the processes below free_queue_head exist,
\* in the ring slots of the same number, and slot 0 is init's.
SetupInv ==
    phase # "running" =>
        /\ current_pid = -1
        /\ free_queue_head \in CASE phase = "create_init"  -> {0}
                                 [] phase = "drop_init"    -> {1}
                                 [] phase = "create_users" -> User
                                 [] OTHER                  -> {USER_TASKS + 1}
        /\ run_queue_tail = free_queue_head
        /\ run_queue_head = IF phase \in {"create_init", "drop_init"} THEN 0 ELSE 1
        /\ \A p \in 0 .. free_queue_head - 1 :
               /\ state[p] = READY
               /\ run_queue[p] = p
               /\ context[p] = [pid |-> p, at |-> IF p = 0 THEN "init" ELSE "user"]

\* What holds whatever system calls the tasks make.
BaseInv ==
    /\ TypeOK
    /\ SetupInv
    /\ current_pid = -1 => cpu = BootLoop
    /\ QuantumPositive
    /\ ContextIntegrity

\* A yielding task that is still READY has not been interrupted since it marked itself:
\* the tail is the one it has loaded, and its pid is in the slot there once it is stored.
YieldInv ==
    /\ BaseInv
    /\ cpu.at \in {"yield_slot", "yield_tail"} /\ state[current_pid] = READY
           => tail_read[current_pid] = run_queue_tail
    /\ cpu.at = "yield_tail" /\ state[current_pid] = READY
           => run_queue[run_queue_tail] = current_pid

\* Places where the current task may be READY, hence queued: it has queued
\* itself in SYSCALL_SLEEP and waits for the tick that takes the CPU away.
WaitsForTick == {"sleep_hlt", "sleep_halted"}

\* Where a task that does not yield can be.
TaskCode == UserCode \cup SleepCode \cup HltCode

\* The run queue, when no task yields: it holds each READY task once and
\* nothing else, and a task that is not READY has the CPU.
QueueInv ==
    phase = "running" =>
        /\ HoldsOnce(run_queue, run_queue_head, run_queue_tail,
                     {p \in User : state[p] = READY})
        /\ \A p \in User : state[p] # READY => current_pid = p
        /\ current_pid \in User =>
               /\ cpu.at \in WaitsForTick \/ state[current_pid] = RUNNING
               /\ cpu.at \in TaskCode
        /\ \A p \in User \ {current_pid} : context[p].at \in TaskCode
        /\ current_pid = 0 => cpu.at = "init"
        /\ current_pid # 0 => context[0].at = "init"

SchedInv == BaseInv /\ QueueInv

\* How many more ticks the task that has the CPU may keep it, and how many ticks it is
\* until slot i of the ring has its turn.
TicksLeft == IF state[current_pid] = RUNNING THEN time_remaining[current_pid] ELSE 1
TicksTo(i) == TicksLeft + QueueLength(run_queue_head, i) * QUANTUM

\* The longest that p's SYSCALL_SLEEP may take.
Latest(p) == SleepTicks(rdi[p]) + (USER_TASKS - 1) * QUANTUM

\* With punctual ticks, p's sleep will not be too long: p will look at the clock in
\* time if it waits for its turn.
InTime(p) ==
    /\ Where(p) \notin SleepCode => slept[p] = 0
    /\ Where(p) \in SleepCode =>
           /\ cpu.pid = p /\ cpu.at # "sleep_check" => ~SleepOver(p)
           /\ cpu.pid = p /\ cpu.at = "sleep_check" => slept[p] <= Latest(p)
           /\ cpu.pid # p => \A i \in SlotsOf(p) : slept[p] + TicksTo(i) <= Latest(p)

\* Nobody sleeps before a task has the CPU; a tick leaves a task in its own code or at
\* the test of SYSCALL_SLEEP, and finds none in hlt there that has not queued itself.
PunctualInv ==
    /\ phase # "running" => \A p \in User : slept[p] = 0
    /\ phase = "running" =>
           /\ \A p \in User : InTime(p)
           /\ \A p \in User \ {current_pid} : context[p].at \in {"user", "sleep_check"}
           /\ current_pid \notin User => \A p \in User : context[p].at = "user"
           /\ cpu.at \in WaitsForTick => state[current_pid] = READY

(***************************************************************************)
(* The scheduler implements RoundRobin.  While setup_process runs, the     *)
(* abstract queue already holds the tasks that are about to be created.    *)
(***************************************************************************)
RR == INSTANCE RoundRobin WITH
        Tasks   <- USER_TASKS,
        Quantum <- QUANTUM,
        queue   <- IF phase = "running"
                   THEN Contents(run_queue, run_queue_head, run_queue_tail)
                   ELSE [i \in 1 .. USER_TASKS |-> i],
        running <- current_pid,
        left    <- IF current_pid = -1 THEN 0 ELSE time_remaining[current_pid]

\* The ring, the states and the contexts together behave as a queue of tasks
\* that take the CPU in turn for a quantum.
ImplementsRoundRobin == RR!RRSpec

\* ... and a tick that is due always comes to pass in the queue too.
ImplementsFairRoundRobin == RR!FairRRSpec

=============================================================================
