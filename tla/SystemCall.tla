----------------------------- MODULE SystemCall -----------------------------
(***************************************************************************)
(* A system call as a task sees it: the wrappers of lib/syscall.c, the     *)
(* entry and the exit of asm.S and ksyscall of syscall.c, on the registers *)
(* of the caller.  What the calls do to the run queue is in Scheduler, the *)
(* selectors are in Segments.  Registers hold WORD_BITS bits.              *)
(***************************************************************************)
EXTENDS Integers, Sequences

LOCAL INSTANCE SequencesExt

CONSTANTS
    WORD_BITS,    \* 64
    MS_PER_TICK   \* the 10 of SYSCALL_SLEEP

\* Registers hold what a tick and a few more are counted in.
ASSUME SystemCallAssumption ==
    /\ WORD_BITS \in Nat /\ 2^WORD_BITS \in Nat /\ 2^WORD_BITS > 3
    /\ MS_PER_TICK \in Nat /\ MS_PER_TICK > 1

SYSCALL_WRITE  == 0
SYSCALL_SLEEP  == 1
SYSCALL_GETPID == 2

\* The registers a C compiler takes for lost in a call, and those it does not.
CallerSaved == {"rax", "rcx", "rdx", "rsi", "rdi", "r8", "r9", "r10", "r11"}
CalleeSaved == {"rbx", "rbp", "r12", "r13", "r14", "r15"}
Register    == CallerSaved \cup CalleeSaved \cup {"rip", "rflags"}

\* A value that nobody has asked for.
Lost == -1

InWord(n) == n % 2^WORD_BITS

-----------------------------------------------------------------------------
(* Into the kernel.                                                        *)

\* syscall0 to syscall4: the number in rax, then the arguments.
Wrapper == <<"rax", "rdi", "rsi", "rdx", "rcx">>

Passed(regs, values) ==
    [r \in Register |-> IF r \in ToSet(SubSeq(Wrapper, 1, Len(values)))
                        THEN values[SelectInSeq(Wrapper, LAMBDA w : w = r)]
                        ELSE regs[r]]

\* The syscall instruction keeps rip and rflags in two registers.
Entered(regs) == [regs EXCEPT !["rcx"] = regs["rip"], !["r11"] = regs["rflags"]]

\* Faulty variant of Popped: two registers the other way round.
PoppedSwapped == <<"rax", "rbp", "rbx", "r11", "r10", "r9", "r8", "rdx", "rcx", "rsi", "rdi">>

\* syscall_handler: what is pushed, in this order, and popped.
Pushed == <<"rdi", "rsi", "rdx", "rcx", "r8", "r9", "r10", "r11", "rbx", "rbp", "rax">>
Popped == <<"rax", "rbp", "rbx", "r11", "r10", "r9", "r8", "rcx", "rdx", "rsi", "rdi">>

\* The words at rsp, from there up.
Stacked(regs) == Reverse([k \in DOMAIN Pushed |-> regs[Pushed[k]]])

\* struct syscall_state, laid over them.
syscall_state == <<"rax", "rbp", "rbx", "r11", "r10", "r9", "r8", "rcx", "rdx", "rsi", "rdi">>

Field(f) == SelectInSeq(syscall_state, LAMBDA g : g = f)

-----------------------------------------------------------------------------
(* ksyscall.  Its surroundings: the running process, the tick counter at   *)
(* the call, how many ticks it advances from one test of the loop of       *)
(* SYSCALL_SLEEP to the next, and the characters in memory.  pit_counter   *)
(* is not volatile: as the kernel is built (gcc -O2) it is read once for   *)
(* the last test and for what is returned.                                 *)

\* state->rdi = (state->rdi + 9) / 10
Ticks(ms) == InWord(ms + MS_PER_TICK - 1) \div MS_PER_TICK

\* Faulty variant of Waits: the counter itself is compared, not how far it has come.
WaitsAbsolute(start, pit_counter, ticks) == pit_counter < InWord(start + ticks)

\* pit_counter - start < state->rdi
Waits(start, pit_counter, ticks) == InWord(pit_counter - start) < ticks

\* pit_counter at the n-th test, and at the one that ends the loop.
CounterAt(around, n) == InWord(around.pit_counter + n * around.gap)

WakesAt(around, ticks) ==
    CounterAt(around,
        CHOOSE n \in 0 .. 2^WORD_BITS :
            /\ ~Waits(around.pit_counter, CounterAt(around, n), ticks)
            /\ \A m \in 0 .. n - 1 : Waits(around.pit_counter, CounterAt(around, m), ticks))

\* The state that ksyscall leaves behind.
ksyscall(stack, around) ==
    LET number == stack[Field("rax")]
        ticks  == Ticks(stack[Field("rdi")])
    IN CASE number = SYSCALL_SLEEP ->
              [stack EXCEPT ![Field("rdi")] = ticks,
                            ![Field("rax")] = InWord(MS_PER_TICK *
                                (WakesAt(around, ticks) - around.pit_counter))]
         [] number = SYSCALL_GETPID -> [stack EXCEPT ![Field("rax")] = around.pid]
         [] OTHER -> stack

\* What it hands to putch: a buffer, or the name of a call that does nothing else.
ksyscall_out(stack, around) ==
    LET number == stack[Field("rax")] IN
    CASE number = SYSCALL_WRITE ->
           [i \in 1 .. stack[Field("rsi")] |-> around.memory[InWord(stack[Field("rdi")] + i - 1)]]
      [] number \in 5 .. 29 -> <<"syscall", number>>
      [] OTHER -> <<>>

-----------------------------------------------------------------------------
(* Out of the kernel.                                                      *)

\* C code has used the registers it may use; then the pops and sysretq.
Left(regs, stack) ==
    LET popped == [r \in Register |->
            IF r \in ToSet(Popped) THEN stack[SelectInSeq(Popped, LAMBDA p : p = r)]
            ELSE IF r \in CallerSaved THEN Lost ELSE regs[r]]
    IN [popped EXCEPT !["rip"] = popped["rcx"], !["rflags"] = popped["r11"]]

\* syscallN(values): the state ksyscall is given, what it prints, the registers after.
syscall(regs, values, around) ==
    LET entered == Entered(Passed(regs, values))
        stack   == Stacked(entered)
    IN [state |-> stack,
        out   |-> ksyscall_out(stack, around),
        regs  |-> Left(entered, ksyscall(stack, around))]

=============================================================================
