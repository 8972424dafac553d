------------------------------ MODULE Segments ------------------------------
(***************************************************************************)
(* Segments and privilege in FrogOS: gdt.c, load_gdt, setup_syscall and    *)
(* syscall_handler of asm.S, the gates of idt.c and the segment registers  *)
(* in the processes' contexts.                                             *)
(*                                                                         *)
(* The selectors are written down in five places that have to agree: the   *)
(* boot sector's table, the kernel's table, the STAR register, the gates   *)
(* and process_create.  syscall and sysret load them unchecked; mov, ltr,  *)
(* lretq, the gates and iretq check them against the table that is loaded, *)
(* and fault.  es, fs and gs always equal ds.  Ticks on ticks, and those   *)
(* before setup_process, are in Interrupts.                                *)
(***************************************************************************)
EXTENDS Integers

CONSTANT USER_TASKS          \* how many user_task processes there are (4)

ASSUME SegmentsAssumption == USER_TASKS \in Nat \ {0}

Pid == 0 .. USER_TASKS       \* 0 runs init, in kernel mode

KERNEL_CODE_SEGMENT       == \h08
KERNEL_DATA_SEGMENT       == \h10
USER_32BIT_CODE_SEGMENT   == \h18
USER_DATA_SEGMENT         == \h20
USER_CODE_SEGMENT         == \h28
KERNEL_TSS_SEGMENT        == \h30

-----------------------------------------------------------------------------
(* Descriptor tables.                                                      *)

\* The bytes of a descriptor that count: the bases are 0.
Gate(access, granularity) == [access |-> access, granularity |-> granularity]

NoGates == [num \in 0 .. 6 |-> Gate(0, 0)]

\* boot.asm: 32-bit code, data, 64-bit code, 16-bit data.
BootGdt == [NoGates EXCEPT ![1] = Gate(\h9A, \hCF), ![2] = Gate(\h92, \hCF),
                           ![3] = Gate(\h9A, \h20), ![4] = Gate(\h93, \h8F)]

\* Faulty variant of KernelGdt: user code and user data change places.
KernelGdtSwapped ==
    [NoGates EXCEPT ![1] = Gate(\h9A, \h20), ![2] = Gate(\h92, \hCF),
                    ![4] = Gate(\hFA, \h20), ![5] = Gate(\hF2, \hCF),
                    ![6] = Gate(\hE9, \h00)]

\* setup_gdt: kernel code and data, (32-bit user code,) user data and code, TSS.
KernelGdt ==
    [NoGates EXCEPT ![1] = Gate(\h9A, \h20), ![2] = Gate(\h92, \hCF),
                    ![4] = Gate(\hF2, \hCF), ![5] = Gate(\hFA, \h20),
                    ![6] = Gate(\hE9, \h00)]

Present(g) == g.access >= \h80
Dpl(g)     == (g.access \div \h20) % 4
Ordinary(g) == (g.access \div \h10) % 2 = 1      \* code or data
Code(g)    == Ordinary(g) /\ (g.access \div 8) % 2 = 1
Data(g)    == Ordinary(g) /\ (g.access \div 8) % 2 = 0
Long(g)    == (g.granularity \div \h20) % 2 = 1
FreeTss(g) == ~Ordinary(g) /\ g.access % \h10 = 9

-----------------------------------------------------------------------------

VARIABLES
    at,              \* where the CPU is
    gdt,             \* the table lgdt has loaded
    cs, ss, ds,      \* the segment registers
    iflag,           \* interrupts are enabled
    tr, idt, star,   \* the task register; the interrupt table is loaded; STAR
    frame,           \* the registers irq_stub will pop
    contexts,        \* *process_table[.].context
    current_pid

tables    == <<gdt, tr, idt, star>>
registers == <<cs, ss, ds>>
tasks     == <<frame, contexts, current_pid>>
vars == <<at, tables, registers, iflag, tasks>>

\* install_idt_handler: the same for all gates.
GateSelector == KERNEL_CODE_SEGMENT

NoContext == [at |-> "nowhere", cs |-> 0, ss |-> 0, ds |-> 0]
NoStar    == [syscall |-> 0, sysret |-> 0]

\* stage2 calls the kernel: 64-bit code of the boot sector's table.
Init ==
    /\ at = "lgdt"
    /\ gdt = BootGdt
    /\ cs = \h18 /\ ss = \h10 /\ ds = \h10
    /\ iflag = FALSE
    /\ tr = 0 /\ idt = FALSE /\ star = NoStar
    /\ frame = NoContext
    /\ contexts = [p \in Pid |-> NoContext]
    /\ current_pid = -1

Rpl(sel)  == sel % 4
Entry(sel) == gdt[sel \div 8]
Cpl       == Rpl(cs)

\* What the CPU checks when it loads a register.
CodeOk(sel, cpl) ==
    LET g == Entry(sel) IN
    Present(g) /\ Code(g) /\ Long(g) /\ Dpl(g) = Rpl(sel) /\ Rpl(sel) >= cpl

StackOk(sel, cpl) ==
    IF sel \div 8 = 0 THEN cpl # 3
    ELSE LET g == Entry(sel) IN
         Present(g) /\ Data(g) /\ Dpl(g) = cpl /\ Rpl(sel) = cpl

DataOk(sel, cpl) ==
    sel \div 8 # 0 => LET g == Entry(sel) IN
                      Present(g) /\ Data(g) /\ Dpl(g) >= cpl /\ Dpl(g) >= Rpl(sel)

\* The CPU goes on at `to', or faults if what it loads is not ok.
Goto(from, to, ok) == at = from /\ at' = IF ok THEN to ELSE "fault"

-----------------------------------------------------------------------------
(* Setting up.                                                             *)

LoadGdt ==
    /\ Goto("lgdt", "lret", TRUE)
    /\ gdt' = KernelGdt
    /\ UNCHANGED <<registers, iflag, tr, idt, star, tasks>>

\* load_gdt: lretq to .flush.
FlushCode ==
    /\ Goto("lret", "flush", CodeOk(KERNEL_CODE_SEGMENT, Cpl))
    /\ cs' = KERNEL_CODE_SEGMENT
    /\ UNCHANGED <<ss, ds, iflag, tables, tasks>>

FlushData ==
    /\ Goto("flush", "ltr", /\ DataOk(KERNEL_DATA_SEGMENT, Cpl)
                            /\ StackOk(KERNEL_DATA_SEGMENT, Cpl))
    /\ ss' = KERNEL_DATA_SEGMENT
    /\ ds' = KERNEL_DATA_SEGMENT
    /\ UNCHANGED <<cs, iflag, tables, tasks>>

LoadTask ==
    /\ Goto("ltr", "lidt", Present(Entry(KERNEL_TSS_SEGMENT)) /\ FreeTss(Entry(KERNEL_TSS_SEGMENT)))
    /\ tr' = KERNEL_TSS_SEGMENT
    /\ UNCHANGED <<gdt, idt, star, registers, iflag, tasks>>

\* setup_idt, which ends with enable().
SetupIdt ==
    /\ Goto("lidt", "wrmsr", TRUE)
    /\ idt' = TRUE
    /\ iflag' = TRUE
    /\ UNCHANGED <<gdt, tr, star, registers, tasks>>

\* Faulty variant of SetupSyscall: sysret's base is the user's data segment.
SetupSyscallData ==
    /\ Goto("wrmsr", "create", TRUE)
    /\ star' = [syscall |-> KERNEL_CODE_SEGMENT, sysret |-> USER_DATA_SEGMENT + 3]
    /\ UNCHANGED <<gdt, tr, idt, registers, iflag, tasks>>

SetupSyscall ==
    /\ Goto("wrmsr", "create", TRUE)
    /\ star' = [syscall |-> KERNEL_CODE_SEGMENT, sysret |-> USER_32BIT_CODE_SEGMENT + 3]
    /\ UNCHANGED <<gdt, tr, idt, registers, iflag, tasks>>

\* Faulty variant of NewContext: every process is a kernel task.
NewContextKernel(kernel_task) ==
    [at |-> "process", cs |-> KERNEL_CODE_SEGMENT, ss |-> KERNEL_DATA_SEGMENT, ds |-> 0]

\* process_create: memset, then cs and ss.
NewContext(kernel_task) ==
    [at |-> "process",
     cs |-> IF kernel_task THEN KERNEL_CODE_SEGMENT ELSE USER_CODE_SEGMENT + 3,
     ss |-> IF kernel_task THEN KERNEL_DATA_SEGMENT ELSE USER_DATA_SEGMENT + 3,
     ds |-> 0]

\* setup_process, then cmain halts.
SetupProcess ==
    /\ Goto("create", "halt", TRUE)
    /\ contexts' = [p \in Pid |-> NewContext(p = 0)]
    /\ UNCHANGED <<registers, iflag, tables, frame, current_pid>>

-----------------------------------------------------------------------------
(* System calls and interrupts.                                            *)

\* init does nothing but hlt, which is for kernel mode only.
Halt ==
    /\ current_pid = 0
    /\ Goto("process", "process", Cpl = 0)
    /\ UNCHANGED <<registers, iflag, tables, tasks>>

\* A user_task calls.  Whether IF stays is unknown: FMASK is loaded from memory.
Syscall ==
    /\ current_pid > 0
    /\ Goto("process", "syscall", star # NoStar)
    /\ cs' = star.syscall
    /\ ss' = star.syscall + 8
    /\ iflag' \in BOOLEAN
    /\ UNCHANGED <<ds, tables, tasks>>

\* syscall_handler: sti, for kernel mode only.
Sti ==
    /\ ~iflag
    /\ Goto("syscall", "syscall", Cpl = 0)
    /\ iflag' = TRUE
    /\ UNCHANGED <<registers, tables, tasks>>

Sysret ==
    /\ iflag
    /\ Goto("syscall", "process", TRUE)
    /\ cs' = star.sysret + 16
    /\ ss' = star.sysret + 8
    /\ UNCHANGED <<ds, iflag, tables, tasks>>

\* A tick, through gate 32 into irq_stub: registers saved, cli, ds loaded.
Tick ==
    /\ iflag
    /\ at \in {"halt", "process", "syscall"}
    /\ Goto(at, "irq_stub", /\ idt
                            /\ CodeOk(GateSelector, 0)
                            /\ Cpl # 0 => tr # 0
                            /\ DataOk(KERNEL_DATA_SEGMENT, 0))
    /\ frame' = [at |-> at, cs |-> cs, ss |-> ss, ds |-> ds]
    /\ cs' = GateSelector
    /\ ss' = IF Cpl # 0 THEN 0 ELSE ss
    /\ ds' = KERNEL_DATA_SEGMENT
    /\ iflag' = FALSE
    /\ UNCHANGED <<tables, contexts, current_pid>>

\* schedule_process and start_process: which process comes next is left open,
\* but the first is 0.
Resume ==
    /\ at = "irq_stub"
    /\ current_pid # -1
    /\ at' = "iretq"
    /\ UNCHANGED <<registers, iflag, tables, tasks>>

StartProcess(p) ==
    /\ at = "irq_stub"
    /\ current_pid = -1 => p = 0
    /\ at' = "iretq"
    /\ contexts' = IF current_pid = -1 THEN contexts
                   ELSE [contexts EXCEPT ![current_pid] = frame]
    /\ frame' = contexts'[p]
    /\ current_pid' = p
    /\ UNCHANGED <<registers, iflag, tables>>

\* irq_stub pops ds; iretq checks cs and ss, and empties a ds that is not for
\* the privilege it returns to.  A process runs with IF set.
Iret ==
    /\ at = "iretq"
    /\ at' = IF /\ DataOk(frame.ds, Cpl)
                /\ CodeOk(frame.cs, Cpl)
                /\ StackOk(frame.ss, Rpl(frame.cs))
             THEN frame.at ELSE "fault"
    /\ cs' = frame.cs
    /\ ss' = frame.ss
    /\ ds' = IF frame.ds \div 8 # 0 /\ Dpl(Entry(frame.ds)) < Rpl(frame.cs) THEN 0
             ELSE frame.ds
    /\ iflag' = TRUE
    /\ UNCHANGED <<tables, tasks>>

Next ==
    \/ LoadGdt \/ FlushCode \/ FlushData \/ LoadTask
    \/ SetupIdt \/ SetupSyscall \/ SetupProcess
    \/ Halt \/ Syscall \/ Sti \/ Sysret
    \/ Tick \/ Resume \/ Iret
    \/ \E p \in Pid : StartProcess(p)

Spec == Init /\ [][Next]_vars

-----------------------------------------------------------------------------
(* Properties.                                                             *)

\* However system calls, ticks and switches follow one another, the CPU never
\* refuses a selector and never meets a privileged instruction in user mode.
NoFault == at # "fault"

\* init's own code runs in kernel mode and a user_task's in user mode, whichever
\* way each came back to it: first start, sysret, or the return from a tick that
\* struck in its code, in a system call or in somebody else's.
PrivilegeKept ==
    /\ at = "process" => Cpl = IF current_pid = 0 THEN 0 ELSE 3
    /\ at \in {"syscall", "irq_stub", "iretq"} => Cpl = 0

\* Whenever a tick may strike, the registers it will save name segments of the
\* table in use that can be loaded again: the code that changes the table has
\* reloaded them all, and what syscall and sysret loaded unchecked is right.
SelectorsCurrent == iflag => CodeOk(cs, 0) /\ StackOk(ss, Cpl) /\ DataOk(ds, Cpl)

=============================================================================
