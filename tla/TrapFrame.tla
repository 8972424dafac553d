----------------------------- MODULE TrapFrame ------------------------------
(***************************************************************************)
(* The words of an interrupt: what the processor and irq.S push, the two C *)
(* structures laid over them (irq.h and process.h), the context that       *)
(* process_create fills in by name, and what the stub pops into the        *)
(* registers again.  A frame is a sequence of words from rsp upwards.      *)
(***************************************************************************)
EXTENDS Integers, Sequences

LOCAL INSTANCE SequencesExt

\* Exceptions for which the processor pushes an error code.
PushesCode == {8, 10, 11, 12, 13, 14, 17, 21, 29, 30}

\* What it pushes, before that.
CpuPushes == <<"ss", "rsp", "rflags", "cs", "rip">>

\* INTERRUPT_WITH_ERROR; the other vectors up to 48 are of INTERRUPT.
WithError == {8, 10, 11, 12, 13, 14}

\* irq_stub: the order of the pushes, and of the pops.
StubPushes == <<"rax", "rbx", "rcx", "rdx", "rsi", "rdi", "rbp", "r8", "r9", "r10", "r11",
                "r12", "r13", "r14", "r15", "ds", "es", "fs", "gs">>

\* Faulty variant of StubPops: two registers the other way round.
StubPopsSwapped ==
    <<"gs", "fs", "es", "ds", "r14", "r15", "r13", "r12", "r11", "r10", "r9", "r8",
      "rbp", "rdi", "rsi", "rdx", "rcx", "rbx", "rax">>

StubPops == <<"gs", "fs", "es", "ds", "r15", "r14", "r13", "r12", "r11", "r10", "r9", "r8",
              "rbp", "rdi", "rsi", "rdx", "rcx", "rbx", "rax">>

\* struct regs and process_context_t, which has unused1 and unused2 for the two words
\* in the middle.  The four segment registers are the other way round than pushed.
struct_regs == <<"ds", "es", "fs", "gs", "r15", "r14", "r13", "r12", "r11", "r10", "r9", "r8",
                 "rbp", "rdi", "rsi", "rdx", "rcx", "rbx", "rax", "int_no", "err_code",
                 "rip", "cs", "rflags", "rsp", "ss">>

ZeroWord == "0"

FrameRegister == ToSet(StubPops) \cup ToSet(CpuPushes)

OffsetOf(field) == SelectInSeq(struct_regs, LAMBDA f : f = field)

Values(registers, names) == [k \in DOMAIN names |-> registers[names[k]]]

\* Interrupt vector, up to the call of irq_handler.
Interrupted(registers, vector, code) ==
    Reverse(Values(registers, CpuPushes)
            \o (IF vector \in PushesCode THEN <<code>> ELSE <<>>)
            \o (IF vector \in WithError THEN <<>> ELSE <<ZeroWord>>)
            \o <<vector>>
            \o Values(registers, StubPushes))

\* The pops, add $16, %rsp, and iretq.
Resumed(frame) ==
    LET n == Len(StubPops) IN
    [r \in FrameRegister |->
        IF r \in ToSet(StubPops) THEN frame[SelectInSeq(StubPops, LAMBDA p : p = r)]
        ELSE frame[n + 2 + SelectInSeq(Reverse(CpuPushes), LAMBDA p : p = r)]]

\* memset, then the fields that process_create sets.
NewContext(pid, entry_point, kernel_task, stack_top) ==
    LET set == [rip |-> entry_point, rsp |-> stack_top, rflags |-> "0x202", rdi |-> pid,
                cs |-> IF kernel_task THEN "KERNEL_CODE" ELSE "USER_CODE",
                ss |-> IF kernel_task THEN "KERNEL_DATA" ELSE "USER_DATA"]
    IN [k \in DOMAIN struct_regs |->
           IF struct_regs[k] \in DOMAIN set THEN set[struct_regs[k]] ELSE ZeroWord]

=============================================================================
