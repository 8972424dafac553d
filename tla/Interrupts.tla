----------------------------- MODULE Interrupts -----------------------------
(***************************************************************************)
(* The way of a timer interrupt through FrogOS, and the boot sequence that *)
(* opens it: irq.S, idt.c, pit.c, cmain.c and syscall_handler of asm.S.    *)
(*                                                                         *)
(* Scheduler takes a tick for one atomic step.  Here it is spelled out:    *)
(* the interrupt controller and the interrupt flag, the frame on a stack   *)
(* in memory, the handler that overwrites the frame, the end-of-interrupt  *)
(* command and the return.  pit_handler leaves with interrupts enabled, so *)
(* a late tick may strike between that command and iretq and nest.         *)
(*                                                                         *)
(* A tick in user mode puts its frame at the bottom of one stack, tss.rsp0,*)
(* that all processes share; a tick in kernel mode puts it on the stack of *)
(* the process.  Which process schedule_process chooses is left open.      *)
(***************************************************************************)
EXTENDS Integers

CONSTANTS
    USER_TASKS,   \* how many user_task processes setup_process creates (4)
    MAX_DEPTH,    \* bound: frames nested on one stack
    NESTING,      \* where a late tick may nest: a set of nesting kinds, below
    FAULTS        \* whether a task may raise a CPU exception

ASSUME InterruptsAssumption ==
    /\ USER_TASKS \in Nat \ {0}
    /\ MAX_DEPTH \in Nat \ {0}
    /\ NESTING \subseteq {"own", "switched", "shared"}
    /\ FAULTS \in BOOLEAN

Pid  == 0 .. USER_TASKS      \* 0 runs init, in kernel mode
User == 1 .. USER_TASKS

\* Stacks: a process's own stack has its number.
SHARED == -2                 \* the one at tss.rsp0
BOOT   == -1                 \* cmain's
Stack  == {SHARED, BOOT} \cup Pid

\* Places in the code.
BootCode == {"setup_idt", "install", "clear_mask", "link", "install_end",
             "pit_disable", "pit_enable", "free_queue", "create", "halt"}
TaskCode == {"user", "entry", "kernel", "closed"}
IrqCode  == {"cli", "walk", "eoi", "return"}
EndCode  == {"garbage", "dead"}       \* a NULL context; an exception
Place    == BootCode \cup TaskCode \cup IrqCode \cup EndCode

\* An instruction stream: whose it is, where it is in the code, and the stack
\* pointer, as a stack and the number of interrupt frames on it.
Stream == [pid : {-1} \cup Pid, at : Place, stack : Stack, depth : 0 .. MAX_DEPTH]

VARIABLES
    cpu,          \* the stream the CPU executes
    iflag,        \* IF in rflags: interrupts are enabled
    masked,       \* IRQ 0 in the controller's mask register
    irr,          \* ... in its request register: a tick is pending
    isr,          \* ... in its in-service register
    installed,    \* irq_handlers[0] holds pit_handler's node
    frames,       \* the interrupt frames in memory
    contexts,     \* *process_table[.].context
    current_pid

picVars  == <<masked, irr, isr>>
taskVars == <<frames, contexts, current_pid>>
vars == <<cpu, iflag, picVars, installed, taskVars>>

\* What is found at a context pointer that is still NULL.
NoContext == [pid |-> 0, at |-> "garbage", stack |-> 0, depth |-> 0]

Init ==
    /\ cpu = [pid |-> -1, at |-> "setup_idt", stack |-> BOOT, depth |-> 0]
    /\ iflag = FALSE
    /\ masked = TRUE
    /\ irr = FALSE
    /\ isr = FALSE
    /\ installed = FALSE
    /\ frames = [s \in Stack |-> [d \in 1 .. MAX_DEPTH |-> NoContext]]
    /\ contexts = [p \in Pid |-> NoContext]
    /\ current_pid = -1

Goto(from, to) == cpu.at = from /\ cpu' = [cpu EXCEPT !.at = to]

-----------------------------------------------------------------------------
(* The boot sequence of cmain.                                             *)

\* setup_idt: the gates, the controller with IRQ 0 masked, enable().
SetupIdt ==
    /\ Goto("setup_idt", "install")
    /\ masked' = TRUE
    /\ iflag' = TRUE
    /\ UNCHANGED <<irr, isr, installed, taskVars>>

\* install_irq_handler(0, handler): disable() ...
InstallBegin ==
    /\ Goto("install", "clear_mask")
    /\ iflag' = FALSE
    /\ UNCHANGED <<picVars, installed, taskVars>>

\* ... irq_clear_mask(0), which ends with enable() ...
ClearMask ==
    /\ Goto("clear_mask", "link")
    /\ masked' = FALSE
    /\ iflag' = TRUE
    /\ UNCHANGED <<irr, isr, installed, taskVars>>

\* ... irq_handlers[0] = node ...
Link ==
    /\ Goto("link", "install_end")
    /\ installed' = TRUE
    /\ UNCHANGED <<iflag, picVars, taskVars>>

\* ... enable().
InstallEnd ==
    /\ Goto("install_end", "pit_disable")
    /\ iflag' = TRUE
    /\ UNCHANGED <<picVars, installed, taskVars>>

\* The rest of setup_pit: the divisor, between disable() and enable().
PitDisable ==
    /\ Goto("pit_disable", "pit_enable")
    /\ iflag' = FALSE
    /\ UNCHANGED <<picVars, installed, taskVars>>

PitEnable ==
    /\ Goto("pit_enable", "free_queue")
    /\ iflag' = TRUE
    /\ UNCHANGED <<picVars, installed, taskVars>>

\* Faulty variant: interrupts stay enabled while the processes are created.
ProcessDisableForgotten == Goto("free_queue", "create") /\ UNCHANGED <<iflag, picVars, installed, taskVars>>

\* setup_process: the free queue is filled with interrupts still enabled ...
ProcessDisable ==
    /\ Goto("free_queue", "create")
    /\ iflag' = FALSE
    /\ UNCHANGED <<picVars, installed, taskVars>>

\* ... then the processes are created, init first ...
Created == {p \in Pid : contexts[p] # NoContext}

ProcessCreate(p) ==
    /\ cpu.at = "create"
    /\ Created = 0 .. p - 1
    /\ contexts' = [contexts EXCEPT ![p] =
           [pid |-> p, at |-> IF p = 0 THEN "kernel" ELSE "user",
            stack |-> p, depth |-> 0]]
    /\ UNCHANGED <<cpu, iflag, picVars, installed, frames, current_pid>>

\* ... and cmain halts in a loop.
ProcessEnable ==
    /\ Goto("create", "halt")
    /\ Created = Pid
    /\ iflag' = TRUE
    /\ UNCHANGED <<picVars, installed, taskVars>>

Boot ==
    \/ SetupIdt
    \/ InstallBegin \/ ClearMask \/ Link \/ InstallEnd
    \/ PitDisable \/ PitEnable
    \/ ProcessDisable \/ (\E p \in Pid : ProcessCreate(p)) \/ ProcessEnable

-----------------------------------------------------------------------------
(* The processes.                                                          *)

\* syscall: FMASK was loaded from address 0x200, so IF may or may not be
\* cleared; syscall_handler goes on with the user's rsp and sets it.
Syscall ==
    /\ Goto("user", "entry")
    /\ iflag' \in {iflag, FALSE}
    /\ UNCHANGED <<picVars, installed, taskVars>>

Sti ==
    /\ Goto("entry", "kernel")
    /\ iflag' = TRUE
    /\ UNCHANGED <<picVars, installed, taskVars>>

\* A critical section of ksyscall.
Disable ==
    /\ cpu.pid \in User
    /\ Goto("kernel", "closed")
    /\ iflag' = FALSE
    /\ UNCHANGED <<picVars, installed, taskVars>>

Enable ==
    /\ Goto("closed", "kernel")
    /\ iflag' = TRUE
    /\ UNCHANGED <<picVars, installed, taskVars>>

\* sysretq, which restores rflags from r11.
Sysret ==
    /\ cpu.pid \in User
    /\ Goto("kernel", "user")
    /\ iflag' = TRUE
    /\ UNCHANGED <<picVars, installed, taskVars>>

\* An exception: irq_handler prints and halts, with interrupts disabled.
Exception ==
    /\ FAULTS
    /\ Goto("user", "dead")
    /\ iflag' = FALSE
    /\ UNCHANGED <<picVars, installed, taskVars>>

Task == Syscall \/ Sti \/ Disable \/ Enable \/ Sysret \/ Exception

-----------------------------------------------------------------------------
(* The interrupt.                                                          *)

\* The timer requests an interrupt; requests do not add up.
Raise ==
    /\ ~irr
    /\ irr' = TRUE
    /\ UNCHANGED <<cpu, iflag, masked, isr, installed, taskVars>>

\* Where the CPU pushes the frame of the stream s.
FrameStack(s) == IF s.at = "user" THEN SHARED ELSE s.stack
FrameDepth(s) == IF s.at = "user" THEN 1 ELSE s.depth + 1

\* A tick that strikes on the way out of another nests on the shared stack, on a
\* process's stack whose frame the other has replaced by another process's, or
\* on a process's stack that still holds its own frame.
NestingKind(s) ==
    IF s.stack = SHARED THEN "shared"
    ELSE IF frames[s.stack][s.depth].pid # s.pid THEN "switched"
    ELSE "own"

MayNest(s) == s.at \in IrqCode => NestingKind(s) \in NESTING

\* The CPU accepts a pending request.  The gate is a trap gate: IF stays set.
Accept ==
    /\ iflag /\ irr /\ ~masked /\ ~isr
    /\ cpu.at \notin EndCode
    /\ MayNest(cpu)
    /\ FrameDepth(cpu) <= MAX_DEPTH
    /\ irr' = FALSE
    /\ isr' = TRUE
    /\ frames' = [frames EXCEPT ![FrameStack(cpu)][FrameDepth(cpu)] = cpu]
    /\ cpu' = [pid |-> cpu.pid, at |-> "cli",
               stack |-> FrameStack(cpu), depth |-> FrameDepth(cpu)]
    /\ UNCHANGED <<iflag, masked, installed, contexts, current_pid>>

\* irq_stub: cli.
Cli ==
    /\ Goto("cli", "walk")
    /\ iflag' = FALSE
    /\ UNCHANGED <<picVars, installed, taskVars>>

\* Faulty variant: the frame is overwritten before it is saved.
start_process_LoadFirst(pid) ==
    LET loaded == contexts[pid]
    IN /\ frames' = [frames EXCEPT ![cpu.stack][cpu.depth] = loaded]
       /\ contexts' = IF current_pid = -1 THEN contexts
                      ELSE [contexts EXCEPT ![current_pid] = loaded]
       /\ current_pid' = pid

\* Faulty variant: current_pid is one too high.
start_process_WrongPid(pid) ==
    LET saved == IF current_pid = -1 THEN contexts
                 ELSE [contexts EXCEPT ![current_pid] = frames[cpu.stack][cpu.depth]]
    IN /\ contexts' = saved
       /\ frames' = [frames EXCEPT ![cpu.stack][cpu.depth] = saved[pid]]
       /\ current_pid' = pid + 1

\* start_process(pid, frame): save the frame unless no process has run yet,
\* and overwrite it with pid's context.
start_process(pid) ==
    LET saved == IF current_pid = -1 THEN contexts
                 ELSE [contexts EXCEPT ![current_pid] = frames[cpu.stack][cpu.depth]]
    IN /\ contexts' = saved
       /\ frames' = [frames EXCEPT ![cpu.stack][cpu.depth] = saved[pid]]
       /\ current_pid' = pid

\* Faulty variant: a switch returns to the new process without the
\* end-of-interrupt command.
HandleSwitchReturns ==
    /\ installed
    /\ Created # {}
    /\ \/ Goto("walk", "return") /\ \E p \in Created : start_process(p)
       \/ Goto("walk", "eoi") /\ UNCHANGED taskVars
    /\ iflag' = TRUE
    /\ UNCHANGED <<picVars, installed>>

\* irq_handler finds a handler: pit_handler calls schedule_process, which
\* starts process 0 at first and later leaves the frame alone or starts some
\* process, and then enables interrupts.
Handle ==
    /\ Goto("walk", "eoi")
    /\ installed
    /\ Created # {}
    /\ \/ current_pid = -1 /\ start_process(0)
       \/ current_pid # -1 /\ (UNCHANGED taskVars \/ \E p \in Created : start_process(p))
    /\ iflag' = TRUE
    /\ UNCHANGED <<picVars, installed>>

\* The same before process 0 exists: what is at address 0 becomes the frame.
\* Nothing is said of the system from there on.
LoadNull ==
    /\ cpu.at = "walk"
    /\ installed
    /\ Created = {}
    /\ cpu' = NoContext
    /\ current_pid' = 0
    /\ UNCHANGED <<iflag, picVars, installed, frames, contexts>>

\* Faulty variant: nothing to handle, so return at once.
IgnoreNoEoi == Goto("walk", "return") /\ ~installed /\ UNCHANGED <<iflag, picVars, installed, taskVars>>

\* irq_handler finds none.
Ignore ==
    /\ Goto("walk", "eoi")
    /\ ~installed
    /\ UNCHANGED <<iflag, picVars, installed, taskVars>>

\* outportb(0x20, 0x20): end of interrupt.
Eoi ==
    /\ Goto("eoi", "return")
    /\ isr' = FALSE
    /\ UNCHANGED <<iflag, masked, irr, installed, taskVars>>

\* The registers are popped from the frame; iretq.  Frames are pushed only with
\* IF set, and process_create sets it, so it is set again.  On a process's own
\* stack the frame is now beyond the stack pointer and is never read again: it
\* is forgotten here.
Return ==
    /\ cpu.at = "return"
    /\ cpu' = frames[cpu.stack][cpu.depth]
    /\ frames' = IF cpu.stack = SHARED THEN frames
                 ELSE [frames EXCEPT ![cpu.stack][cpu.depth] = NoContext]
    /\ iflag' = TRUE
    /\ UNCHANGED <<picVars, installed, contexts, current_pid>>

Irq == Cli \/ Handle \/ LoadNull \/ Ignore \/ Eoi \/ Return

-----------------------------------------------------------------------------
Next == Boot \/ Task \/ Raise \/ Accept \/ Irq

Spec == Init /\ [][Next]_vars

(***************************************************************************)
(* The timer ticks for ever; the CPU gets on with kernel code and accepts a*)
(* request at the first instruction boundary with IF set, so it does not   *)
(* miss every one of infinitely many chances; nor do ticks, 10 ms apart,   *)
(* keep the boot code from its next instruction.  Tasks owe nothing.       *)
(***************************************************************************)
Fairness ==
    /\ SF_vars(Boot)
    /\ WF_vars(Raise)
    /\ SF_vars(Accept)
    /\ WF_vars(Irq)
    /\ WF_vars(Sti \/ Enable)

FairSpec == Spec /\ Fairness

-----------------------------------------------------------------------------
(* Properties.                                                             *)

\* Every variable stays within its range.
TypeOK ==
    /\ cpu \in Stream
    /\ iflag \in BOOLEAN
    /\ masked \in BOOLEAN
    /\ irr \in BOOLEAN
    /\ isr \in BOOLEAN
    /\ installed \in BOOLEAN
    /\ frames \in [Stack -> [1 .. MAX_DEPTH -> Stream]]
    /\ contexts \in [Pid -> Stream]
    /\ current_pid \in {-1} \cup Pid

\* The interrupt controller waits for the end-of-interrupt command exactly
\* while irq_handler is on its way to it: replacing the frame of the process
\* that was interrupted never skips the command or gives it twice, however
\* ticks nest.
InService == cpu.at # "garbage" => (isr <=> cpu.at \in {"cli", "walk", "eoi"})

\* The first process is started when all exist: that tick abandons cmain for good,
\* so a process not created by then never will be.  The one way to go wrong is a
\* tick so early that no process exists, which loads a NULL context.
BootCompletes ==
    current_pid # -1 => IF Created = {} THEN cpu.at = "garbage" ELSE Created = Pid

\* Ticks are handled for ever, unless the system has stopped.
TimerGoesOn == []<>(cpu.at = "walk" /\ installed) \/ <>(cpu.at \in EndCode)

\* The stream that will go on when the interrupts on top of s have returned.
\* Under the frame of the last tick may lie frames of earlier ones, each
\* interrupted on its way out; the process itself is in the lowest.
Bottom(s, memory) == IF s.at \in IrqCode THEN memory[s.stack][1] ELSE s

Base(s, memory) ==
    IF s.at \in IrqCode THEN Bottom(memory[s.stack][s.depth], memory) ELSE s

\* What there is to see of a stream: whose it is and where it is.
View(s) == [pid |-> s.pid, at |-> s.at]

(***************************************************************************)
(* The promise of the whole path: a tick replaces one process by another in*)
(* one step, and a process goes on where it was interrupted.               *)
(***************************************************************************)
TS == INSTANCE TaskSwitch WITH
        Tasks    <- USER_TASKS,
        running  <- View(Base(cpu, frames)),
        saved    <- [p \in Pid |->
                        IF p = current_pid THEN View(NoContext)
                        ELSE View(Base(contexts[p], frames))],
        current  <- current_pid

\* As long as late ticks nest only on processes' own stacks, and only on ticks
\* that have not switched, every process goes on where it was interrupted.
ImplementsTaskSwitch == TS!SwitchSpec

-----------------------------------------------------------------------------
(* The inductive invariants of InterruptsProof.                            *)

\* A stream that is not on the CPU is not on its way to the end-of-interrupt
\* command, nor in the part of setup_process that runs with interrupts disabled.
Resting(s) ==
    /\ s.at \notin {"cli", "walk", "eoi", "create"}
    /\ s.at \in IrqCode => s.depth > 0

\* However ticks nest.
IrqInv ==
    /\ TypeOK
    /\ InService
    /\ BootCompletes
    /\ cpu.at = "create" => ~iflag
    /\ Created \in {{}, Pid} \/ cpu.at = "create"
    /\ \A p \in Pid : Resting(contexts[p])
    /\ \A s \in Stack, d \in 1 .. MAX_DEPTH : Resting(frames[s][d])
    /\ cpu.at \in IrqCode => cpu.depth > 0
    /\ cpu.at \in {"cli", "walk"} => frames[cpu.stack][cpu.depth].at \notin EndCode

\* A stream in its process's own code, on the process's stack ...
Plain(s) ==
    /\ s.at \in (IF s.pid = -1 THEN BootCode
                 ELSE IF s.pid = 0 THEN {"kernel"} ELSE TaskCode \cup {"dead"})
    /\ s.stack = s.pid
    /\ s.depth = 0

\* ... or on its way out of ticks that nest on that stack, none of which has
\* switched: each frame holds the stream on the frame below it.
Nested(s, memory) ==
    /\ s.at = "return"
    /\ s.stack = s.pid
    /\ s.depth > 0
    /\ Plain(memory[s.pid][1])
    /\ memory[s.pid][1].pid = s.pid
    /\ \A d \in 2 .. s.depth :
           memory[s.pid][d] =
               [pid |-> s.pid, at |-> "return", stack |-> s.pid, depth |-> d - 1]

Whole(s, memory) == Plain(s) \/ Nested(s, memory)

\* The frame that the CPU is going to return to.
Frame == frames[cpu.stack][cpu.depth]

\* Every process other than the current one is whole, and so is the current one,
\* on the CPU or in the frame.  A process that was switched out on its own stack
\* was saved as it was under the last tick.
InStep ==
    /\ \A p \in Created \ {current_pid} :
           contexts[p].pid = p /\ Whole(contexts[p], frames)
    /\ cpu.at \notin IrqCode => Plain(cpu) /\ cpu.pid = current_pid
    /\ cpu.at \in IrqCode =>
           /\ Whole(Frame, frames) /\ Frame.pid = current_pid
           /\ cpu.stack \in {SHARED, cpu.pid}
           /\ cpu.at \in {"cli", "walk"} => cpu.pid = current_pid
           /\ (cpu.stack = cpu.pid /\ cpu.pid = current_pid)
                  => Frame.depth = cpu.depth - 1
           /\ (cpu.stack = cpu.pid /\ cpu.pid \in Pid \ {current_pid})
                  => contexts[cpu.pid].depth = cpu.depth - 1

\* Where late ticks nest only where it does no harm.
SwitchInv == IrqInv /\ (cpu.at # "garbage" => InStep)

=============================================================================
