--------------------------- MODULE SegmentsProof ---------------------------
(***************************************************************************)
(* However many user tasks there are, no selector is refused and every     *)
(* process runs in its own privilege.  The invariant says, for each place  *)
(* the CPU can be at, what the tables and the registers hold there, and    *)
(* that whatever waits in a frame or a context fits the process it is for. *)
(***************************************************************************)
EXTENDS Segments, TLAPS

KernelStar == [syscall |-> KERNEL_CODE_SEGMENT, sysret |-> USER_32BIT_CODE_SEGMENT + 3]

\* The registers c were saved from, or made for, process p.
Fits(c, p) ==
    \/ c.at = "process" /\ p = 0 /\ c.cs = 8 /\ c.ss = 16 /\ c.ds = 0
    \/ c.at = "process" /\ p > 0 /\ c.cs = 43 /\ c.ss = 35 /\ c.ds = 0
    \/ c.at = "syscall" /\ p > 0 /\ c.cs = 8 /\ c.ss = 16 /\ c.ds = 0

Registers == [at |-> at, cs |-> cs, ss |-> ss, ds |-> ds]

\* cmain up to setup_process.
Booting ==
    /\ at \in {"lgdt", "lret", "flush", "ltr", "lidt", "wrmsr", "create"}
    /\ at # "lgdt" => gdt = KernelGdt
    /\ at \in {"lgdt", "lret"} => cs = 24
    /\ at = "flush" => cs = 8
    /\ at \in {"ltr", "lidt", "wrmsr", "create"} => cs = 8 /\ ss = 16 /\ ds = 16
    /\ at \in {"lidt", "wrmsr", "create"} => tr = 48
    /\ at \in {"wrmsr", "create"} => idt = TRUE
    /\ at \in {"lgdt", "lret", "flush", "ltr", "lidt"} => iflag = FALSE
    /\ at = "create" => star = KernelStar
    /\ current_pid = -1

TablesReady == gdt = KernelGdt /\ tr = 48 /\ idt = TRUE /\ star = KernelStar

ContextsFit ==
    /\ contexts = [p \in Pid |-> contexts[p]]
    /\ \A p \in Pid : Fits(contexts[p], p)

Halted    == at = "halt" /\ current_pid = -1 /\ cs = 8 /\ ss = 16 /\ ds = 16
InProcess == at \in {"process", "syscall"} /\ current_pid \in Pid
             /\ Fits(Registers, current_pid)
InStub    == /\ at = "irq_stub" /\ cs = 8 /\ ss \in {0, 16} /\ ds = 16
             /\ \/ current_pid = -1
                \/ current_pid \in Pid /\ Fits(frame, current_pid)
Returning == /\ at = "iretq" /\ cs = 8 /\ ss \in {0, 16} /\ ds = 16
             /\ current_pid \in Pid /\ Fits(frame, current_pid)

Running == TablesReady /\ ContextsFit /\ (Halted \/ InProcess \/ InStub \/ Returning)

SegInv == Booting \/ Running

-----------------------------------------------------------------------------
(* The kernel's table.                                                     *)

\* setup_gdt leaves these descriptors.
LEMMA KernelTable ==
    /\ KernelGdt[0] = Gate(0, 0)
    /\ KernelGdt[1] = Gate(154, 32)
    /\ KernelGdt[2] = Gate(146, 207)
    /\ KernelGdt[4] = Gate(242, 207)
    /\ KernelGdt[5] = Gate(250, 32)
    /\ KernelGdt[6] = Gate(233, 0)
  BY DEF KernelGdt, NoGates

\* With that table, every selector the kernel uses passes the CPU's checks.
LEMMA Loadable ==
    ASSUME gdt = KernelGdt
    PROVE  /\ CodeOk(8, 0)
           /\ CodeOk(43, 0)
           /\ StackOk(0, 0) /\ StackOk(16, 0) /\ StackOk(35, 3)
           /\ DataOk(0, 0) /\ DataOk(0, 3) /\ DataOk(16, 0)
           /\ FreeTss(Entry(48)) /\ Present(Entry(48))
<1> USE KernelTable DEF Entry, Rpl, Gate
<1>1. CodeOk(8, 0)
  BY DEF CodeOk, Present, Code, Ordinary, Long, Dpl
<1>2. CodeOk(43, 0)
  BY DEF CodeOk, Present, Code, Ordinary, Long, Dpl
<1>3. StackOk(0, 0) /\ StackOk(16, 0) /\ StackOk(35, 3)
  BY DEF StackOk, Present, Data, Ordinary, Dpl
<1>4. DataOk(0, 0) /\ DataOk(0, 3) /\ DataOk(16, 0)
  BY DEF DataOk, Present, Data, Ordinary, Dpl
<1>5. FreeTss(Entry(48)) /\ Present(Entry(48))
  BY DEF FreeTss, Present, Ordinary
<1> QED BY <1>1, <1>2, <1>3, <1>4, <1>5

\* lretq is the one load made by code of the boot sector's segment.
LEMMA FromBoot == Rpl(24) = 0 /\ Rpl(8) = 0 /\ Rpl(43) = 3
  BY DEF Rpl

-----------------------------------------------------------------------------
(* The invariant.                                                          *)

LEMMA InitInv == Init => SegInv
  BY DEF Init, SegInv, Booting

\* Every step of cmain leads to the next one, none to a fault.
LEMMA BootStep ==
    ASSUME Booting,
           LoadGdt \/ FlushCode \/ FlushData \/ LoadTask \/ SetupIdt \/ SetupSyscall
    PROVE  Booting'
<1> USE FromBoot DEF Booting, Goto, tables, registers, tasks
<1>1. CASE LoadGdt
  BY <1>1 DEF LoadGdt
<1>2. CASE FlushCode
  <2>1. at = "lret" /\ gdt = KernelGdt /\ Cpl = 0
    BY <1>2 DEF FlushCode, Cpl
  <2>2. CodeOk(KERNEL_CODE_SEGMENT, Cpl)
    BY <2>1, Loadable DEF KERNEL_CODE_SEGMENT
  <2> QED BY <1>2, <2>1, <2>2 DEF FlushCode, KERNEL_CODE_SEGMENT
<1>3. CASE FlushData
  <2>1. at = "flush" /\ gdt = KernelGdt /\ Cpl = 0
    BY <1>3 DEF FlushData, Cpl
  <2>2. DataOk(KERNEL_DATA_SEGMENT, Cpl) /\ StackOk(KERNEL_DATA_SEGMENT, Cpl)
    BY <2>1, Loadable DEF KERNEL_DATA_SEGMENT
  <2> QED BY <1>3, <2>1, <2>2 DEF FlushData, KERNEL_DATA_SEGMENT
<1>4. CASE LoadTask
  <2>1. at = "ltr" /\ gdt = KernelGdt
    BY <1>4 DEF LoadTask
  <2>2. Present(Entry(KERNEL_TSS_SEGMENT)) /\ FreeTss(Entry(KERNEL_TSS_SEGMENT))
    BY <2>1, Loadable DEF KERNEL_TSS_SEGMENT
  <2> QED BY <1>4, <2>1, <2>2 DEF LoadTask, KERNEL_TSS_SEGMENT
<1>5. CASE SetupIdt
  BY <1>5 DEF SetupIdt
<1>6. CASE SetupSyscall
  BY <1>6 DEF SetupSyscall, KernelStar
<1> QED BY <1>1, <1>2, <1>3, <1>4, <1>5, <1>6

\* setup_process, its contexts made.
LEMMA CreateStep == Booting /\ SetupProcess => Running'
<1> SUFFICES ASSUME Booting, SetupProcess PROVE Running'
  OBVIOUS
<1>1. /\ at = "create" /\ at' = "halt"
      /\ UNCHANGED <<cs, ss, ds, gdt, tr, idt, star, current_pid>>
      /\ contexts' = [p \in Pid |-> NewContext(p = 0)]
  BY DEF SetupProcess, Goto, registers, tables
<1>2. TablesReady' /\ Halted'
  BY <1>1 DEF Booting, TablesReady, Halted
<1>3. ContextsFit'
  <2>1. ASSUME NEW p \in Pid PROVE Fits(NewContext(p = 0), p)
    BY SegmentsAssumption DEF Fits, NewContext, Pid, KERNEL_CODE_SEGMENT,
       KERNEL_DATA_SEGMENT, USER_CODE_SEGMENT, USER_DATA_SEGMENT
  <2> QED BY <1>1, <2>1 DEF ContextsFit
<1> QED BY <1>2, <1>3 DEF Running

\* Halting, calling and returning: the process goes on as itself.
LEMMA ProcessStep ==
    ASSUME Running, Halt \/ Syscall \/ Sti \/ Sysret
    PROVE  Running'
<1>1. TablesReady' /\ ContextsFit'
  BY DEF Running, TablesReady, ContextsFit, Halt, Syscall, Sti, Sysret, tables, tasks
<1>2. InProcess /\ current_pid' = current_pid
  BY DEF Running, Halted, InProcess, InStub, Returning, Halt, Syscall, Sti, Sysret,
     Goto, tasks
<1>3. InProcess'
  <2>1. CASE Halt
    <3>1. Cpl = 0
      BY <1>2, <2>1, FromBoot DEF InProcess, Fits, Registers, Halt, Goto, Cpl, Pid
    <3> QED BY <1>2, <2>1, <3>1 DEF InProcess, Fits, Registers, Halt, Goto, registers
  <2>2. CASE Syscall
    <3>1. star = KernelStar /\ star # NoStar
      BY DEF Running, TablesReady, KernelStar, NoStar, KERNEL_CODE_SEGMENT
    <3>2. at' = "syscall" /\ cs' = 8 /\ ss' = 16 /\ ds' = ds
      BY <2>2, <3>1 DEF Syscall, Goto, KernelStar, KERNEL_CODE_SEGMENT
    <3> QED BY <1>2, <2>2, <3>2 DEF InProcess, Fits, Registers, Syscall, Goto
  <2>3. CASE Sti
    <3>1. Cpl = 0
      BY <1>2, <2>3, FromBoot DEF InProcess, Fits, Registers, Sti, Goto, Cpl
    <3> QED BY <1>2, <2>3, <3>1 DEF InProcess, Fits, Registers, Sti, Goto, registers
  <2>4. CASE Sysret
    <3>1. at' = "process" /\ cs' = 43 /\ ss' = 35 /\ ds' = ds
      BY <2>4 DEF Running, TablesReady, Sysret, Goto, KernelStar, USER_32BIT_CODE_SEGMENT
    <3> QED BY <1>2, <2>4, <3>1 DEF InProcess, Fits, Registers, Sysret, Goto
  <2> QED BY <2>1, <2>2, <2>3, <2>4
<1> QED BY <1>1, <1>3 DEF Running

\* A tick saves registers that fit the process it interrupts.
LEMMA TickStep == Running /\ Tick => Running'
<1> SUFFICES ASSUME Running, Tick PROVE Running'
  OBVIOUS
<1>1. TablesReady' /\ ContextsFit'
  BY DEF Running, TablesReady, ContextsFit, Tick, tables
<1>2. Halted \/ InProcess
  BY DEF Running, Halted, InProcess, InStub, Returning, Tick
<1>3. cs \in {8, 43} /\ Cpl \in {0, 3} /\ (Cpl = 0 => ss = 16)
  BY <1>2, FromBoot DEF Halted, InProcess, Fits, Registers, Cpl
<1>4. idt /\ tr # 0 /\ CodeOk(GateSelector, 0) /\ DataOk(KERNEL_DATA_SEGMENT, 0)
  BY Loadable DEF Running, TablesReady, GateSelector, KERNEL_CODE_SEGMENT,
     KERNEL_DATA_SEGMENT
<1>5. at' = "irq_stub" /\ frame' = Registers /\ current_pid' = current_pid
  BY <1>4 DEF Tick, Goto, Registers
<1>6. cs' = 8 /\ ss' \in {0, 16} /\ ds' = 16
  BY <1>3 DEF Tick, GateSelector, KERNEL_CODE_SEGMENT, KERNEL_DATA_SEGMENT
<1>7. InStub'
  BY <1>2, <1>5, <1>6 DEF InStub, Halted, InProcess, Fits
<1> QED BY <1>1, <1>7 DEF Running

\* The scheduler keeps every frame with its process.
LEMMA ScheduleStep ==
    ASSUME Running, Resume \/ \E p \in Pid : StartProcess(p)
    PROVE  Running'
<1>1. InStub
  BY DEF Running, Halted, InProcess, InStub, Returning, Resume, StartProcess
<1>2. TablesReady'
  BY DEF Running, TablesReady, Resume, StartProcess, tables
<1>3. CASE Resume
  <2>1. ContextsFit'
    BY <1>3 DEF Running, ContextsFit, Resume, tasks
  <2>2. Returning'
    BY <1>1, <1>3 DEF InStub, Returning, Resume, registers, tasks, Fits
  <2> QED BY <1>2, <2>1, <2>2 DEF Running
<1>4. ASSUME NEW p \in Pid, StartProcess(p) PROVE Running'
  <2>1. ContextsFit'
    <3>1. CASE current_pid = -1
      BY <1>4, <3>1 DEF Running, ContextsFit, StartProcess
    <3>2. CASE current_pid # -1
      <4>1. current_pid \in Pid /\ Fits(frame, current_pid)
        BY <1>1, <3>2 DEF InStub
      <4>2. contexts' = [contexts EXCEPT ![current_pid] = frame]
        BY <1>4, <3>2 DEF StartProcess
      <4>3. contexts' = [q \in Pid |-> contexts'[q]]
        BY <4>2 DEF Running, ContextsFit
      <4>4. ASSUME NEW q \in Pid PROVE Fits(contexts'[q], q)
        <5>1. contexts'[q] = IF q = current_pid THEN frame ELSE contexts[q]
          BY <4>1, <4>2 DEF Running, ContextsFit
        <5> QED BY <4>1, <5>1 DEF Running, ContextsFit
      <4> QED BY <4>3, <4>4 DEF ContextsFit
    <3> QED BY <3>1, <3>2
  <2>2. Returning'
    <3>1. frame' = contexts'[p] /\ current_pid' = p
      BY <1>4 DEF StartProcess
    <3>2. Fits(frame', current_pid')
      BY <2>1, <3>1 DEF ContextsFit
    <3> QED BY <1>1, <1>4, <3>1, <3>2 DEF InStub, Returning, StartProcess, registers
  <2> QED BY <1>2, <2>1, <2>2 DEF Running
<1> QED BY <1>3, <1>4

\* irq_stub and iretq load what was saved without a fault.
LEMMA IretStep == Running /\ Iret => Running'
<1> SUFFICES ASSUME Running, Iret PROVE Running'
  OBVIOUS
<1>1. TablesReady' /\ ContextsFit'
  BY DEF Running, TablesReady, ContextsFit, Iret, tables, tasks
<1>2. Returning /\ Cpl = 0
  BY FromBoot DEF Running, Halted, InProcess, InStub, Returning, Iret, Cpl
<1>3. /\ frame.cs \in {8, 43} /\ frame.ds = 0
      /\ frame.ss = IF frame.cs = 8 THEN 16 ELSE 35
  BY <1>2 DEF Returning, Fits
<1>4. /\ DataOk(frame.ds, Cpl) /\ CodeOk(frame.cs, Cpl)
      /\ StackOk(frame.ss, Rpl(frame.cs))
  BY <1>2, <1>3, Loadable, FromBoot DEF Running, TablesReady
<1>5. /\ at' = frame.at /\ cs' = frame.cs /\ ss' = frame.ss /\ ds' = frame.ds
      /\ current_pid' = current_pid
  BY <1>3, <1>4 DEF Iret, tasks
<1>6. InProcess'
  BY <1>2, <1>5 DEF Returning, InProcess, Fits, Registers
<1> QED BY <1>1, <1>6 DEF Running

\* Boot code runs only while booting, and processes only after.
LEMMA NextInv == SegInv /\ [Next]_vars => SegInv'
<1> SUFFICES ASSUME SegInv, [Next]_vars PROVE SegInv'
  OBVIOUS
<1>1. CASE LoadGdt \/ FlushCode \/ FlushData \/ LoadTask \/ SetupIdt \/ SetupSyscall
  <2>1. Booting
    BY <1>1 DEF SegInv, Running, Halted, InProcess, InStub, Returning, Goto,
       LoadGdt, FlushCode, FlushData, LoadTask, SetupIdt, SetupSyscall
  <2> QED BY <1>1, <2>1, BootStep DEF SegInv
<1>2. CASE SetupProcess
  <2>1. Booting
    BY <1>2 DEF SegInv, Running, Halted, InProcess, InStub, Returning, Goto, SetupProcess
  <2> QED BY <1>2, <2>1, CreateStep DEF SegInv
<1>3. CASE Halt \/ Syscall \/ Sti \/ Sysret \/ Tick \/ Resume \/ Iret
             \/ \E p \in Pid : StartProcess(p)
  <2>1. Running
    BY <1>3 DEF SegInv, Booting, Goto, Halt, Syscall, Sti, Sysret, Tick, Resume, Iret,
       StartProcess
  <2> QED BY <1>3, <2>1, ProcessStep, TickStep, ScheduleStep, IretStep DEF SegInv
<1>4. CASE UNCHANGED vars
  BY <1>4 DEF vars, tables, registers, tasks, SegInv, Booting, Running, TablesReady,
     ContextsFit, Halted, InProcess, InStub, Returning, Fits, Registers
<1> QED BY <1>1, <1>2, <1>3, <1>4 DEF Next

LEMMA SegInvHolds == Spec => []SegInv
  BY InitInv, NextInv, PTL DEF Spec

-----------------------------------------------------------------------------
(* What follows.                                                           *)

\* No selector of gdt.c, asm.S, idt.c or process_create is ever refused, and
\* no privileged instruction is met in user mode: load_gdt to iretq.
THEOREM NeverFaults == Spec => []NoFault
<1>1. SegInv => NoFault
  BY DEF SegInv, Booting, Running, Halted, InProcess, InStub, Returning, NoFault
<1> QED BY <1>1, SegInvHolds, PTL

\* A process's code runs in its own privilege and the kernel's code in the
\* kernel's, across syscall, sysret, ticks and start_process.
THEOREM PrivilegeSafe == Spec => []PrivilegeKept
<1>1. SegInv => PrivilegeKept
  BY FromBoot DEF SegInv, Booting, Running, Halted, InProcess, InStub, Returning,
     Fits, Registers, PrivilegeKept, Cpl, Pid
<1> QED BY <1>1, SegInvHolds, PTL

\* Whatever a tick saves can be loaded again.
THEOREM SelectorsSafe == Spec => []SelectorsCurrent
<1>1. ASSUME SegInv, iflag PROVE CodeOk(cs, 0) /\ StackOk(ss, Cpl) /\ DataOk(ds, Cpl)
  <2>1. /\ gdt = KernelGdt
        /\ \/ cs = 8 /\ ss \in {0, 16} /\ ds \in {0, 16}
           \/ cs = 43 /\ ss = 35 /\ ds = 0
    BY <1>1 DEF SegInv, Booting, Running, TablesReady, Halted, InProcess, InStub,
       Returning, Fits, Registers
  <2> QED BY <2>1, Loadable, FromBoot DEF Cpl
<1>2. SegInv => SelectorsCurrent
  BY <1>1 DEF SelectorsCurrent
<1> QED BY <1>2, SegInvHolds, PTL
=============================================================================
