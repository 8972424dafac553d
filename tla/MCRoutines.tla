----------------------------- MODULE MCRoutines -----------------------------
(***************************************************************************)
(* The sequential routines of FrogOS, called with every input of a small   *)
(* instance: malloc, process_create, sleep_process and the controllers'    *)
(* operations, which keep state, one call after the other; the division,   *)
(* mkfs, the boot loader, printf, snprintf, a system call, an interrupt's  *)
(* frame and the page tables once.                                         *)
(*                                                                         *)
(* The routines share nothing, so a behaviour calls only one kind.         *)
(***************************************************************************)
EXTENDS ProcessMemory, SleepQueue, Division, Mkfs, Loader, Printf, CFormat, SystemCall,
        TrapFrame, Paging, Pic

LOCAL INSTANCE SequencesExt

CONSTANT LINES    \* the interrupt lines that are used

\* No device has the line by which the second controller asks.
ASSUME RoutinesAssumption == LINES \subseteq Line \ {CASCADE}

-----------------------------------------------------------------------------
(* Formats.  A directive, its flags as characters, its length as the       *)
(* characters of the modifier; a width or precision of -1 is left out, and *)
(* a starred one is an argument.                                           *)

Flags == {{}, {"0"}, {"-"}, {"+"}, {" "}, {"#"}, {"0", "+"}, {"0", "-"}, {"0", " "},
          {"+", " "}, {"0", "#"}, {"-", "+"}}

Lengths == {<<>>, <<"h">>, <<"h", "h">>, <<"l">>, <<"l", "l">>, <<"z">>}

\* Every combination of flags, widths and precisions; every length; stars; strings.
Directives ==
    [specifier : {"d", "x", "o"}, flags : Flags, width : {-1, 1, 2, 4, 5, 6},
     precision : {-1, 0, 1, 2, 4, 5}, length : {<<>>}, star : {FALSE}]
    \cup [specifier : {"d", "i", "u", "x", "X", "o", "b"}, flags : {{}, {"0", "+"}},
          width : {4}, precision : {-1}, length : Lengths, star : {FALSE}]
    \cup [specifier : {"d", "x"}, flags : {{}, {"0"}}, width : {-6, 0, 4}, precision : {-1, 0, 3},
          length : {<<>>}, star : {TRUE}]
    \cup [specifier : {"c", "s"}, flags : {{}, {"-"}}, width : {-1, 1, 3},
          precision : {-1, 0, 1, 2}, length : {<<>>}, star : {FALSE}]
    \cup [specifier : {"p"}, flags : {{}}, width : {-1}, precision : {-1}, length : {<<>>},
          star : {FALSE}]

Number(n) == <<Digits[n + 1]>>

\* The directive between two characters that print themselves.
Format(d) ==
    <<"a", "%">> \o SetToSeq(d.flags)
    \o (IF d.star THEN <<"*", ".", "*">>
        ELSE (IF d.width = -1 THEN <<>> ELSE Number(d.width))
             \o (IF d.precision = -1 THEN <<>> ELSE <<".">> \o Number(d.precision)))
    \o d.length \o <<d.specifier>> \o <<"%", "%">>

Args(d, arg) == IF d.star THEN <<d.width, d.precision, arg>> ELSE <<arg>>

Texts == {<<>>, <<"x">>, <<"x", "y">>, <<"x", "y", "z">>}

ArgsOf(d) ==
    CASE d.specifier = "s" -> Texts
      [] d.specifier = "c" -> {"x"}
      [] OTHER -> {0, 1, 9, 10, 2^(INT_BITS - 1), 2^INT_BITS - 1}
                  \cup (IF d.length = <<>> THEN {} ELSE {2^(LONG_BITS - 1), 2^LONG_BITS - 1})

\* Memory before snprintf writes to it.
Old == [i \in 0 .. 4 |-> "old"]

-----------------------------------------------------------------------------
(* System calls.                                                           *)

\* Every register holds something else.
UserRegs ==
    LET names == Popped \o <<"r12", "r13", "r14", "r15", "rip", "rflags">>
    IN [r \in Register |-> CHOOSE k \in DOMAIN names : names[k] = r]

Around(pit_counter, gap) ==
    [pid |-> 2, pit_counter |-> pit_counter, gap |-> gap,
     memory |-> [i \in 0 .. 2^WORD_BITS - 1 |-> i]]

\* Every call but sleep, with none to four arguments.
SyscallValues ==
    {SubSeq(<<number, 30, 5, 21, 22>>, 1, n) :
         number \in (0 .. 30) \ {SYSCALL_SLEEP}, n \in 1 .. 5}

-----------------------------------------------------------------------------
(* Frames, page tables and interrupt lines.                                *)

\* Every register holds something else: its name.
FrameRegs == [r \in FrameRegister |-> r]

\* What the memory of the tables may have held: every half of every table the same.
Memories ==
    LET leftovers == {NoEntry, [frame |-> 1, flags |-> TableFlags],
                      [frame |-> 2, flags |-> PageFlags]}
    IN {[c \in Cell |-> left[c[1], c[3]]] :
            left \in [Table \X {"low", "high"} -> leftovers]}

-----------------------------------------------------------------------------
VARIABLES
    ring,         \* the sleep queue
    call          \* the routine, what it was called with and what it returned

NoCall == [routine |-> "none"]

RoutinesInit ==
    /\ MemoryInit
    /\ ring = NoSleepers
    /\ call = NoCall

\* Nothing has been called yet, or only this.
Only(routine) == call.routine \in {"none", routine}

CallMalloc ==
    /\ Only("malloc")
    /\ Next
    /\ call' = [routine |-> "malloc"]
    /\ UNCHANGED <<ring, ownerVars>>

CallProcessCreate ==
    /\ Only("process_create")
    /\ MemoryNext
    /\ call' = [routine |-> "process_create"]
    /\ UNCHANGED ring

CallSleep(pid, t) ==
    /\ Only("sleep_process")
    /\ pid \notin Sleepers(ring)
    /\ ring' = sleep_process(ring, pid, t)
    /\ call' = [routine |-> "sleep_process"]
    /\ UNCHANGED memoryVars

CallDivision(n, d) ==
    /\ call = NoCall
    /\ call' = [routine |-> "udivmod", n |-> n, d |-> d, result |-> udivmod(n, d)]
    /\ UNCHANGED <<memoryVars, ring>>

CallMkfs(num_blocks) ==
    /\ call = NoCall
    /\ call' = [routine |-> "mkfs", num_blocks |-> num_blocks, image |-> mkfs(num_blocks)]
    /\ UNCHANGED <<memoryVars, ring>>

CallBoot(headers) ==
    /\ call = NoCall
    /\ call' = [routine |-> "boot", headers |-> headers, memory |-> Boot(headers)]
    /\ UNCHANGED <<memoryVars, ring>>

CallPrintf(d, arg) ==
    /\ call = NoCall
    /\ call' = [routine |-> "printf", directive |-> d, arg |-> arg,
                out |-> printf(Format(d), Args(d, arg))]
    /\ UNCHANGED <<memoryVars, ring>>

CallSnprintf(count, text) ==
    /\ call = NoCall
    /\ call' = [routine |-> "snprintf", count |-> count, text |-> text,
                buffer |-> snprintf(Old, count, <<"%", "s">>, <<text>>)]
    /\ UNCHANGED <<memoryVars, ring>>

CallSystem(values, around) ==
    /\ call = NoCall
    /\ call' = [routine |-> "syscall", values |-> values, around |-> around,
                result |-> syscall(UserRegs, values, around)]
    /\ UNCHANGED <<memoryVars, ring>>

CallFrame(vector) ==
    /\ call = NoCall
    /\ call' = [routine |-> "irq_stub", vector |-> vector,
                frame |-> Interrupted(FrameRegs, vector, "code")]
    /\ UNCHANGED <<memoryVars, ring>>

CallTables(before) ==
    /\ call = NoCall
    /\ call' = [routine |-> "stage2", before |-> before, memory |-> BuildTables(before)]
    /\ UNCHANGED <<memoryVars, ring>>

\* The controllers: setup_idt, then lines that are opened and closed, and interrupts
\* that nest; active are those on their way, with the vectors they came by.
CallSetupIdt ==
    /\ call = NoCall
    /\ call' = [routine |-> "pic", pic |-> setup_idt, opened |-> {}, active |-> <<>>]
    /\ UNCHANGED <<memoryVars, ring>>

CallInstall(l) ==
    /\ call.routine = "pic"
    /\ Len(call.pic.handlers[l]) < 2
    /\ call' = [call EXCEPT !.opened = IF call.pic.handlers[l] = <<>> THEN @ \cup {l} ELSE @,
                            !.pic = install_irq_handler(@, l, <<l, Len(@.handlers[l])>>)]
    /\ UNCHANGED <<memoryVars, ring>>

CallSetMask(l) ==
    /\ call.routine = "pic"
    /\ call' = [call EXCEPT !.opened = @ \ {l}, !.pic = irq_set_mask(@, l)]
    /\ UNCHANGED <<memoryVars, ring>>

CallInterrupt(l) ==
    /\ call.routine = "pic"
    /\ Asks(call.pic, l)
    /\ call' = [call EXCEPT !.pic = Acknowledged(@, l),
                            !.active = Append(@, [line |-> l, vector |-> Vector(call.pic, l)])]
    /\ UNCHANGED <<memoryVars, ring>>

CallEnd ==
    /\ call.routine = "pic"
    /\ call.active # <<>>
    /\ call' = [call EXCEPT !.pic = EndOfInterrupt(@, Last(call.active).vector),
                            !.active = Front(@)]
    /\ UNCHANGED <<memoryVars, ring>>

RoutinesNext ==
    \/ CallMalloc
    \/ CallProcessCreate
    \/ \E pid \in PIDS, t \in TIMES : CallSleep(pid, t)
    \/ \E n \in Word, d \in Word \ {0} : CallDivision(n, d)
    \/ \E num_blocks \in NUM_BLOCKS : CallMkfs(num_blocks)
    \/ \E headers \in LAYOUTS : CallBoot(headers)
    \/ \E d \in Directives : \E arg \in ArgsOf(d) : CallPrintf(d, arg)
    \/ \E count \in DOMAIN Old, text \in Texts : CallSnprintf(count, text)
    \/ \E values \in {<<SYSCALL_SLEEP, ms>> : ms \in 0 .. 2^WORD_BITS - 1},
         pit_counter \in 0 .. 2^WORD_BITS - 1, gap \in 1 .. 3 :
           CallSystem(values, Around(pit_counter, gap))
    \/ \E values \in SyscallValues : CallSystem(values, Around(0, 1))
    \/ \E vector \in 0 .. 48 : CallFrame(vector)
    \/ \E before \in Memories : CallTables(before)
    \/ CallSetupIdt
    \/ \E l \in LINES : CallInstall(l) \/ CallSetMask(l) \/ CallInterrupt(l)
    \/ CallEnd

RoutinesSpec == RoutinesInit /\ [][RoutinesNext]_<<memoryVars, ring, call>>

-----------------------------------------------------------------------------
(* sleep_process.                                                          *)

\* A process that finds a shorter one leaves the ring sorted, also when those
\* before it did not.
SortedWhenShorter ==
    [][ \A pid \in Sleepers(ring') \ Sleepers(ring) :
            (\E i \in Entries(ring) : Time(ring, i) < ring'.time[pid])
            => \A i, j \in Entries(ring') : i < j => Time(ring', i) <= Time(ring', j) ]_ring

\* The sleepers are in the ring, each once.  The test is the wrong way round: the ring
\* is not always sorted, for the shortest sleeper of all stays at the end.  But it is
\* never anywhere in between.
ShortestAtAnEnd ==
    /\ \A i, j \in Entries(ring) : ring.queue[i] = ring.queue[j] => i = j
    /\ ring.tail > 0 => \E i \in {0, ring.tail - 1} :
           \A j \in Entries(ring) : Time(ring, i) <= Time(ring, j)

-----------------------------------------------------------------------------
(* The division, mkfs and the boot loader.                                 *)

\* __udivmoddi4 returns the quotient and the remainder, also for divisors with the
\* sign bit set and dividends of all ones: no bit that counts is shifted out.
Divides == call.routine = "udivmod" =>
    call.result = [quot |-> call.n \div call.d, rem |-> call.n % call.d]

\* From head the list visits first, first + 1, ..., last and ends.
IsList(image, head, cell(_), first, last) ==
    /\ head = first
    /\ \A k \in first .. last - 1 : image[cell(k)] = k + 1
    /\ image[cell(last)] = End

\* mkfs: if the file has a block for data, every inode but the first is on its list
\* and every block after the inodes on the other: neither list is written over.
ListsWhole == call.routine = "mkfs" /\ call.num_blocks > data_start =>
    /\ IsList(call.image, free_inode_list, free_inode, 1, NUM_INODES - 1)
    /\ IsList(call.image, free_data_list, free_data, data_start, call.num_blocks - 1)

\* The kernel is entered with every segment holding what the disk holds in the
\* file, then zeros, however the segments lie: neither the chunks nor the headers
\* nor the order of clearing and copying spoil one another's work.
KernelLoaded == call.routine = "boot" =>
    \A i \in DOMAIN call.headers : call.headers[i].load =>
        \A k \in 0 .. call.headers[i].memsz - 1 :
            call.memory[call.headers[i].paddr + k] =
                IF k < call.headers[i].filesz THEN FILE_START + call.headers[i].offset + k
                ELSE Zero

\* README.md: "Image of disk".  When the kernel is entered the image is the disk to its
\* last cell, but for the variables stage2 keeps in it: the chunks lie one behind the
\* other, and neither clearing nor copying a segment reaches into it.
ImageOfDisk == call.routine = "boot" =>
    \A i \in DiskCell : call.memory[Image(i)] = IF i \in E_PH \cup VIDEO THEN Noted ELSE i

-----------------------------------------------------------------------------
(* printf.                                                                 *)

Bits(length) ==
    CASE length = <<"h", "h">> -> CHAR_BITS
      [] length = <<"h">>      -> SHORT_BITS
      [] length = <<>>         -> INT_BITS
      [] OTHER                 -> LONG_BITS

\* The value of the argument in the type that the directive names.
Meant(d, arg) ==
    LET w == 2^Bits(d.length) IN
    CHOOSE v \in (IF d.specifier \in {"d", "i"} THEN -(w \div 2) .. (w \div 2) - 1 ELSE 0 .. w - 1) :
        (v - arg) % w = 0

Magnitude(n) == IF n < 0 THEN -n ELSE n

Radix(c) == CASE c \in {"x", "X"} -> 16 [] c = "o" -> 8 [] c = "b" -> 2 [] OTHER -> 10

\* The flags and the width that count: a negative width argument stands for "-".
FlagsOf(d) ==
    (IF d.star /\ d.width < 0 THEN d.flags \cup {"-"} ELSE d.flags)
        \ (IF d.specifier \in {"d", "i"} THEN {} ELSE {"+", " "})

WidthOf(d) == IF d.width >= 0 THEN d.width ELSE IF d.star THEN -d.width ELSE 0

CNumber(d, arg, width) ==
    CInteger(Meant(d, arg), Radix(d.specifier), FlagsOf(d), width, d.precision)

\* What the C standard says a directive prints.
AsC(d, arg) ==
    CASE d.specifier = "s" -> CText(arg, FlagsOf(d), WidthOf(d), d.precision)
      [] d.specifier = "c" -> CText(<<arg>>, FlagsOf(d), WidthOf(d), -1)
      [] d.specifier = "p" -> Capitals(CInteger(arg, 16, {"0"}, POINTER_WIDTH, -1))
      [] d.specifier = "X" -> Capitals(CNumber(d, arg, WidthOf(d)))
      [] OTHER -> CNumber(d, arg, WidthOf(d))

\* The number with its sign, prefix and zeros, which lib/printf.c puts together in a
\* buffer.
InBuffer(d, arg) ==
    CNumber(d, arg, IF "0" \in FlagsOf(d) /\ "-" \notin FlagsOf(d) /\ d.precision = -1
                    THEN WidthOf(d) ELSE 0)

\* Where lib/printf.c prints what C does not: more digits, signs and zeros than its
\* buffer holds; a precision larger than the number of digits together with "-"; a width
\* or a precision close to the number of digits together with "#"; a negative precision
\* argument.  No format of the kernel is so.
Standard(d, arg) ==
    d.specifier \notin {"c", "s", "p"} =>
        LET n == Len(Significant(Magnitude(Meant(d, arg)), Radix(d.specifier))) IN
        /\ Len(InBuffer(d, arg)) <= NTOA_BUFFER
        /\ d.star => d.precision # -1
        /\ "-" \in d.flags \/ d.width < -1 => d.precision <= n
        /\ "#" \in d.flags => d.precision = -1 /\ d.width \notin {n, n + 1}

\* lib/printf.c prints integers, characters and strings as the C standard says, for
\* every type and its extreme values and however flags, width and precision meet, except where
\* Standard says that it does not.  A text that fills the conversion buffer is right; one
\* character more, and it loses digits or its sign.
FormatsAsC ==
    call.routine = "printf" /\ Standard(call.directive, call.arg) =>
        call.out = <<"a">> \o AsC(call.directive, call.arg) \o <<"%">>

\* snprintf_ writes the first count - 1 characters and the NUL after them, and nothing
\* else: not even the NUL when count is 0, for which "maxlen - 1U" wraps.
SnprintfBounded == call.routine = "snprintf" =>
    LET shown == IF Len(call.text) < call.count THEN Len(call.text) ELSE call.count - 1 IN
    \A i \in DOMAIN Old :
        call.buffer[i] = CASE i < shown                      -> call.text[i + 1]
                           [] i = shown /\ call.count > 0    -> NUL
                           [] OTHER                          -> Old[i]

-----------------------------------------------------------------------------
(* System calls.                                                           *)

\* A system call comes back to the instruction after it with rflags and every register
\* but rax, rcx and r11 as they were, whatever C code did to them in between; only
\* SYSCALL_SLEEP leaves ticks in rdi.  The arguments arrive where ksyscall looks for
\* them, but for syscall4's last: the instruction overwrites rcx.
CallKept == call.routine = "syscall" =>
    LET before == Passed(UserRegs, call.values)
        gone   == {"rax", "rcx", "r11"}
                      \cup (IF call.values[1] = SYSCALL_SLEEP THEN {"rdi"} ELSE {})
    IN /\ \A r \in Register \ gone : call.result.regs[r] = before[r]
       /\ \A k \in DOMAIN call.values \ {5} :
              call.result.state[Field(Wrapper[k])] = call.values[k]

\* SYSCALL_SLEEP ends at the first test at which the time asked for is over, also when
\* pit_counter wraps in between, and says how long it has been: for all but the longest
\* times, whose rounding up wraps.
SleepsLongEnough ==
    call.routine = "syscall" /\ call.values[1] = SYSCALL_SLEEP =>
        LET ms == call.values[2] IN ms <= 2^WORD_BITS - MS_PER_TICK =>
            \E n \in 0 .. ms :
                LET slept == MS_PER_TICK * n * call.around.gap IN
                /\ slept >= ms
                /\ n > 0 => slept - MS_PER_TICK * call.around.gap < ms
                /\ call.result.regs["rax"] = slept % 2^WORD_BITS

-----------------------------------------------------------------------------
(* Frames, page tables and interrupt lines.                                *)

\* irq_stub restores what was interrupted, every register its own, and irq_handler finds
\* the vector; where the stub knows of the processor's error code or its absence, also
\* the code and rip.  A new context, popped as a frame, starts the process as
\* process_create asked for: the two structures agree with the pushes and the pops.
FrameKept == call.routine = "irq_stub" =>
    LET fits == call.vector \in WithError <=> call.vector \in PushesCode
        started(kernel_task) == Resumed(NewContext("pid", "entry", kernel_task, "top"))
    IN /\ call.frame[OffsetOf("int_no")] = call.vector
       /\ fits => /\ Resumed(call.frame) = FrameRegs
                  /\ call.frame[OffsetOf("rip")] = "rip"
                  /\ call.frame[OffsetOf("err_code")] =
                         IF call.vector \in PushesCode THEN "code" ELSE ZeroWord
       /\ \A kernel_task \in BOOLEAN : \A r \in FrameRegister :
              started(kernel_task)[r] =
                  CASE r = "rip" -> "entry" [] r = "rdi" -> "pid" [] r = "rsp" -> "top"
                    [] r = "rflags" -> "0x202"
                    [] r = "cs" -> IF kernel_task THEN "KERNEL_CODE" ELSE "USER_CODE"
                    [] r = "ss" -> IF kernel_task THEN "KERNEL_DATA" ELSE "USER_DATA"
                    [] OTHER -> ZeroWord

\* The first gigabyte is mapped to itself, open to user mode, and nothing else is mapped,
\* whatever memory held before: provided that the high halves of the page directory, which
\* stage2 does not write, were zero.
IdentityMapped == call.routine = "stage2" =>
    ((\A i \in 0 .. ENTRIES - 1 : call.before[<<"pd", i, "high">>] = NoEntry) =>
        \A n \in 0 .. ENTRIES * ENTRIES * ENTRIES - 1 :
            Translate(call.memory, n) = IF n < ENTRIES THEN [page |-> n, user |-> TRUE] ELSE Fault)

\* A line is open exactly if somebody opened it, of whichever controller it is; it comes in
\* by the vector under which irq_handler finds its handlers, the latest first; and when it
\* has been handled the controllers wait for those it interrupted and for nobody else.
LinesServed == call.routine = "pic" =>
    LET lines == {call.active[k].line : k \in DOMAIN call.active} IN
    /\ call.pic.masked = Line \ (call.opened \cup {CASCADE})
    /\ call.pic.service = lines \cup (IF Second(lines) # {} THEN {CASCADE} ELSE {})
    /\ \A k \in DOMAIN call.active :
           LET l == call.active[k].line IN
           Called(call.pic, call.active[k].vector) \in {<<<<l, 0>>>>, <<<<l, 1>>, <<l, 0>>>>}

-----------------------------------------------------------------------------
(* The inductive invariants of ShortestAtAnEnd and LinesServed, for        *)
(* RoutinesProof.                                                          *)

SleepRing(r) ==
    /\ r \in [queue : [0 .. MAX_PROCESSES - 1 -> Nat], tail : 0 .. MAX_PROCESSES - 1,
              time : [PIDS -> Nat]]
    /\ \A i \in Entries(r) : r.queue[i] \in PIDS
    /\ \A i, j \in Entries(r) : r.queue[i] = r.queue[j] => i = j

RingInv == SleepRing(ring) /\ ShortestAtAnEnd

\* The urgency of a line at the processor: the second controller's lines share one.
Rank(l) == IF l >= 8 THEN CASCADE ELSE l

\* What an interrupt interrupts is less urgent, and the vectors are the lines'.
Nested(active, handlers) ==
    /\ active \in Seq([line : LINES, vector : Nat])
    /\ \A k \in DOMAIN active :
           /\ active[k].vector = 32 + active[k].line
           /\ handlers[active[k].line] # <<>>
    /\ \A k, m \in DOMAIN active :
           k < m => Rank(active[m].line) < Rank(active[k].line)

LinesOf(active) == {active[k].line : k \in DOMAIN active}

\* The lines that wait for their end of interrupt.
InServiceFor(lines) == lines \cup (IF Second(lines) # {} THEN {CASCADE} ELSE {})

\* The controllers, given the lines opened, the interrupts on their way and the handlers.
PicOf(opened, active, handlers) ==
    [first |-> 32, second |-> 40, masked |-> Line \ (opened \cup {CASCADE}),
     service |-> InServiceFor(LinesOf(active)), handlers |-> handlers]

\* The lists of handlers of a line.
Lists(l) == {<<>>, <<<<l, 0>>>>, <<<<l, 1>>, <<l, 0>>>>}

PicSound(opened, active, handlers) ==
    /\ handlers = [num \in 0 .. 48 |-> handlers[num]]
    /\ \A l \in Line : handlers[l] \in Lists(l)
    /\ opened \subseteq {l \in LINES : handlers[l] # <<>>}
    /\ Nested(active, handlers)

PicInv == call.routine = "pic" =>
    /\ call = [routine |-> "pic", pic |-> PicOf(call.opened, call.active, call.pic.handlers),
               opened |-> call.opened, active |-> call.active]
    /\ PicSound(call.opened, call.active, call.pic.handlers)

-----------------------------------------------------------------------------
(* Values for the constants.                                               *)

\* None, some, all of the heap, more; sizes that wrap.
MCSizes == {0, 1, 3, 4, 5, 9, 16, 17, 30, 31}

Segments ==
    {s \in [load : {TRUE}, paddr : 0 .. KERNEL, memsz : 1 .. KERNEL,
            offset : 0 .. CHUNKS * CHUNK - FILE_START, filesz : 0 .. KERNEL] : Lies(s)}

Note == [load |-> FALSE, paddr |-> 0, memsz |-> 0, offset |-> 0, filesz |-> 0]

\* One segment and a header that is not loaded, or two segments.
MCLayouts ==
    {<<s, Note>> : s \in Segments}
    \cup {<<p[1], p[2]>> : p \in {q \in Segments \X Segments : Apart(q[1], q[2])}}

=============================================================================
