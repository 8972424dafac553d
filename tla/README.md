# FrogOS2: a verification project

FrogOS2 is a small x86-64 kernel: a boot loader, a timer interrupt, a
round-robin scheduler, a handful of system calls and four user tasks that sleep
and print. This directory holds TLA+ models of it, TLC configurations that
check them on small instances, and proofs that TLAPS checks for every value of
the constants. Source paths below are relative to `src/`.

## 1. The system

### Components

| Component | Source | State it keeps | Operations |
|---|---|---|---|
| Boot loader | `boot.asm`, `stage2.asm` | registers, page tables | load the disk to 4 MB, enter long mode, load the ELF kernel |
| Start-up | `cmain.c`, `asm.S` | IF, model-specific registers | `cmain`: GDT, IDT, syscall, timer, processes, halt |
| Segments | `gdt.c`, `asm.S` | `gdt`, `tss`, STAR | `setup_gdt` (one `rsp0` for all), `load_gdt`, `setup_syscall` |
| Interrupt dispatch | `irq.S`, `irq.h`, `idt.c` | `idt`, `irq_handlers`, the two controllers | `setup_idt`, `install_irq_handler`, `irq_set_mask`, `irq_clear_mask`, `irq_stub`, `irq_handler`, `enable`, `disable` |
| Timer | `pit.c` | `pit_counter` | `setup_pit`, `pit_handler` |
| Scheduler | `process.c`, `include/process.h` | `process_table`, `current_pid`, `free_queue`, `run_queue`, `sleep_queue` | `setup_process`, `process_create`, `add_to_run_queue`, `get_next_pid`, `start_process`, `schedule_process`, `sleep_process` (never called), `print_run_queue` |
| System calls | `syscall.c`, `include/syscall.h`, `lib/syscall.c` | the caller's stack | write, sleep, getpid, hlt, 4 (yield), stubs 5 to 29 |
| Processes | `init.c` | `seed` | `init` halts, `user_task` sleeps and prints |
| Heap | `mem.c` | `heap`, `heap_size` | `malloc` (no free) |
| Console | `lib/conio.c` | `csr_x`, `csr_y`, the screen | `cls`, `putch`, `puts`, `scroll`, `move_csr` |
| Formatted output | `lib/printf.c` | none | `printf_`, `snprintf_` and five more around `_vsnprintf` (third-party, built without floating point) |
| Runtime library | `lib/*.c` | none | `memcpy`, `memset`, `memcmp`, `strlen`, `__udivmoddi4`, `dump` |
| File system maker | `fs/mkfs.c`, `fs/fs.h` | the image | superblock and free lists, built on the host |

### How they interact

Everything after start-up happens in one of three ways.

* A **tick**: the timer raises IRQ 0; the CPU pushes a frame and enters
  `irq_stub`, which pushes the registers on top; `irq_handler` walks the handler
  list; `pit_handler` counts the tick and calls `schedule_process` with the
  address of the frame. To switch, `start_process` copies the frame into the
  current process's `context` and another process's `context` over the frame.
  `irq_handler` tells the controller that the interrupt is over, the registers
  are popped and `iretq` goes on with whatever is in the frame now.
* A **system call**: `syscall_handler` saves the registers on the *user's*
  stack, enables interrupts and calls `ksyscall`. So a system call may be
  interrupted and switched out between any two instructions except between
  `disable()` and `enable()`, and it leaves its mark on the scheduler only
  through `process_table[current_pid].state` and the run queue.
* A task **computes or prints**, in user mode. `printf` and `putch` are linked
  into the tasks, and the I/O permission map lets them drive the screen
  directly, so the cursor variables are shared by all tasks without a lock.

There is no blocking: `SYSCALL_SLEEP` queues the caller, marks it READY and
halts until a tick takes the CPU away; when the caller's turn comes it looks at
`pit_counter` and goes round again.

### What is hard here

1. Ticks strike anywhere, and the code opens and closes interrupts by hand
   (`syscall.c:39-42`, `pit.c:11-13`, `idt.c:110-114`, `process.c:131-137`).
   `disable()`/`enable()` do not nest, so an inner pair opens an outer one.
2. The same task may be put into the run queue by itself (sleep, yield) or by the
   tick (`process.c:88-89`); each must happen exactly once per switch.
3. The ring cannot tell full from empty, and `get_next_pid` turns empty into "run
   process 0".
4. Saving and restoring is a pair of copies through one frame whose owner
   changes half way.
5. Nothing wakes a sleeper; whether it returns depends on the turns it gets.
6. The first tick that finds the handler installed abandons `cmain` for good.

`PROJECT.json` lists the hazards line by line with the properties that watch them.

## 2. Modules

| Module | Models | Read it for |
|---|---|---|
| `RunQueue` | the ring of `process.c` as data | slots, occupied slots, contents, "holds each of a set once" |
| `Scheduler` | `process.c`, `pit.c`, the state-changing calls of `syscall.c`, `init.c` | one action per statement or critical section; ticks between any two |
| `RoundRobin` | what the scheduler promises | a queue, the running task, its quantum |
| `Interrupts` | `irq.S`, `idt.c`, the start of `cmain.c`, the entry in `asm.S` | the steps a tick consists of, boot, nesting |
| `TaskSwitch` | what a tick promises to the processes | one atomic switch of streams |
| `Console` | `lib/conio.c` | several tasks inside `putch` at once |
| `Terminal` | what a console promises | printing a character as one step |
| `Segments` | `gdt.c`, `load_gdt` and `setup_syscall` of `asm.S`, the selectors in `idt.c` and `process.c` | the ways between user and kernel mode |
| `Loader` | `boot.asm`, `stage2.asm` | disk to image to segments |
| `Paging` | the page tables of `stage2.asm` | what addresses mean before the kernel runs |
| `Heap` | `mem.c` | blocks cut off one region |
| `ProcessMemory` | `setup_pit` and `process_create` as users of the heap | who owns which block |
| `SystemCall` | `lib/syscall.c`, the entry and exit of `asm.S`, `ksyscall` | the caller's registers |
| `TrapFrame` | the macros and the stub of `irq.S`, `irq.h`, `process_context_t` | the words of a frame |
| `Pic` | the controllers as `idt.c` drives them | masks, vectors and ends of all sixteen lines |
| `Printf` | `lib/printf.c` | the interpreter of formats |
| `CFormat` | the C standard on integers and strings | the reference for `Printf` |
| `SleepQueue` | `sleep_process` of `process.c` | the ring that is to be sorted |
| `Division` | `lib/gcc.c` | shift and subtract |
| `Mkfs` | `fs/mkfs.c`, `fs/fs.h` | two lists in one memory |
| `RunQueueProof` | | lemmas about the ring |
| `SchedulerProof`, `RoundRobinProof` | | theorems about `Scheduler`; that it implements `RoundRobin` |
| `InterruptsProof` | | theorems about `Interrupts`; that it implements `TaskSwitch` |
| `ConsoleProof` | | theorems about `Console`, with any number of writers and with one; that the latter implements `Terminal` |
| `HeapProof` | | theorems about `Heap` and `ProcessMemory` |
| `SegmentsProof` | | theorems about `Segments` |
| `RoutinesProof` | | theorems about `Pic`, `Paging`, `Loader`, `Mkfs`, `SleepQueue` and `SystemCall`, as `MCRoutines` calls them |
| `MCScheduler`, `MCInterrupts`, `MCConsole`, `MCConsoleAlone`, `MCRoutines` | | instances for TLC |

`Scheduler` and `Interrupts` divide the work at the tick. `Scheduler` takes the
whole tick for one step and models every step of the tasks and every branch of
`schedule_process`. `Interrupts` leaves open which process `schedule_process`
chooses and splits the tick into request, frame, `cli`, handler,
end-of-interrupt and return. That the long tick looks like the short one is the
refinement `ImplementsTaskSwitch`.

### State and actions of `Scheduler`

The variables have the names of the C variables, with `process_table[.].f`
written as a function `f`. Added are: `phase` (how far `setup_process` is);
`cpu`, the instruction stream the CPU executes, which stands for all registers
(`pid`: whose stack and registers they are; `at`: the place in the code); and
`rdi`, `slept`: the locals of `SYSCALL_SLEEP`, which live on the caller's stack; and
`tail_read`, the register in which system call 4 carries `run_queue_tail`.
A `context` is a stream too.

| Code | Action |
|---|---|
| `setup_process` from `disable()` to `enable()` | `CreateInit`, `DropInit`, `CreateUser` (four times), `Enable` |
| `pit_handler`, `schedule_process` | `Tick` = `CountTick` and one of `FirstTick`, `StayIdle`, `LeaveIdle`, `CountDown`, `Preempt`, `SwitchOut` |
| `start_process`, `get_next_pid` | operators `start_process`, `start_next` |
| `SYSCALL_SLEEP` | `Sleep`, `SleepMore`, `SleepQueue`, `Halt`, `SleepReturn` |
| `SYSCALL_HLT` | `Hlt`, `Halt` |
| call 4 | `Yield`, `YieldLoad`, `YieldSlot`, `YieldTail`: no critical section, four steps |

Abstracted: a step is a C statement (or the stretch between `disable()` and
`enable()`), not an instruction; `pit_counter` and `start` appear only through
their difference, counted up to `SLEPT_MAX`; `total_ticks` is never read;
`getpid`, `write` and the stubs change no scheduler state (they are in `SystemCall`); a task may compute
for as long as it likes (no action: it stays at `"user"` while ticks pass).
`Init` is `setup_process` just after its `disable()`; what happens before is in
`Interrupts`.

Where statements run with interrupts enabled and share variables with others, a
statement is not fine enough. That is the case in call 4 only, which calls
`add_to_run_queue`: as gcc 12 compiles it (-O2) it loads `run_queue_tail` once, stores
the pid into that slot and then stores the tail that comes after the one it has loaded. So a
task that yields while it already stands in the queue, from an earlier yield, may be switched
out after the load and later store a tail that the others have long moved on. A task that
yields may go on to other calls before it is switched out, those in
`CALLS_AFTER_YIELD`, and only the tasks in `YIELDERS` yield: in `yield_accounting` two of three,
any number of times, so that the ring holds duplicates, entries are overwritten that were
stored but not yet counted, stale tails are stored, and the ring overflows.

### State and actions of `Interrupts`

`masked`, `irr` and `isr` are IRQ 0's bits in the controller, `iflag` is IF,
`installed` says whether `irq_handlers[0]` is set, `frames` is the memory the
frames are in: one slot per stack and depth. A tick in user mode puts its frame
at the bottom of the stack at `tss.rsp0`, `SHARED`, which all processes use; a
tick in kernel mode uses the process's own stack. The gates are trap gates
(0xEF), so IF stays set until `irq_stub`'s `cli`; it is the in-service bit that
keeps a second tick out there. The boot actions follow `cmain` in order;
`Accept`, `Cli`, `Handle`/`Ignore`/`LoadNull`, `Eoi`, `Return` are the tick;
`Syscall`, `Sti`, `Disable`, `Enable`, `Sysret`, `Exception` what tasks do.
Frames are pushed only with IF set and `process_create` sets it, so `Return`
sets it. A frame on a process's own stack is forgotten when it is popped.

**Nesting.** `pit_handler` ends with `enable()`, and the end-of-interrupt command
comes right after. If another tick is pending then, it strikes before `iretq`,
on top of the frame being returned from. There are three cases, named by
`NestingKind`, and the constant `NESTING` says which a run admits:

* `own`: on a process's own stack, when the first tick did not switch. Harmless:
  the half-finished return is saved and later resumed.
* `switched`: on a process's own stack, when the first tick replaced the frame.
  The second tick saves the half-finished return as the *new* process's
  context: the new process's registers, but the old one's stack.
* `shared`: a first tick from user mode. The nested frame lies on the shared
  stack and is overwritten as soon as another process is interrupted.

TLC refutes `ImplementsTaskSwitch` as soon as either of the last two is admitted
to `irq_switch.cfg`. They need a tick to be pending between the `outportb` that ends an
interrupt and its `iretq`, some twenty instructions later, 10 ms after the last:
the code makes it unlikely and does not exclude it. No document of the
repository says otherwise, so this is recorded as a hazard, not as a finding.

### State and actions of `Console`

`csr_x`, `csr_y` and `video` (linear, and longer than the screen) are the C
variables; `writer[w]` holds where task w is in `putch`, its argument and its
copies of the cursor. The two globals are not volatile, so which loads and stores
there are is the compiler's choice; the model has those of gcc 12 with the
flags of `lib/Makefile` (-O3): `csr_y` is loaded once at the start of `putch`,
`csr_x` once where it is needed, and `if(csr_x >= 80)`, `csr_y++` and `scroll`
work on the copies. One action per load or store: `Putch`, `LoadX`, `Write`,
`StoreX`, `Return`, `Wrap`, `Down`, `Scroll`, `Copy`/`Overrun`, `BlankLine`,
`LastRow`. `memcpy` and `memsetw` are one step each. `move_csr` is left out: it
writes no variable, and a task preempted in it leaves the blinking cursor
somewhere else until the next character. The character `cls` clears with (0) and
the one `scroll` clears with (space) are both `BLANK`.

Two tasks can drive `csr_y` down without bound: each loads the row the other has
stored before the other's `scroll` takes it back, and stores one more. A screen
further down, the length of `memcpy` wraps: `Overrun`, which `console_shared` reaches. It
takes two dozen preemptions in a row at the wrong instruction, and no document of the
repository says that it cannot happen, so it is a hazard without a property.
`MAX_ROW` and `MAX_COL` bound the cursor positions that are *loaded*; a writer
that finds the cursor beyond waits until it is brought back, which `Recovering`
says another writer is about to do.

### The other modules

`Segments` keeps the access bytes of both descriptor tables as the source has
them and spells out what the CPU checks when it loads a selector
(`CodeOk`, `StackOk`, `DataOk`) and where it does not (`syscall`, `sysretq`). A
refused selector, or a privileged instruction in user mode, leads to `"fault"`. A
tick is two steps, entry and return, with any process chosen in between; ticks
on ticks are the subject of `Interrupts`, which has no selectors. `es`, `fs`,
`gs` always equal `ds` (the code sets all four alike), so that `irq_stub` pushes
them in the opposite order of `process_context_t` makes no difference. Ticks
before `setup_process` are in `Interrupts`. `init` makes no system call.

The sequential routines keep no state of their own, or one that each call changes
in one go, so they are functions, and `MCRoutines` calls them with every input of a
small instance.

* `Heap` is a specification: one action, a successful `malloc`; the other calls
  return 0 and change nothing. `size_t` wraps at `MODULUS`.
* `SleepQueue` is `sleep_process` as a function of the ring and the new sleeper.
* `Division` is `__udivmoddi4` with `WIDTH` bits; its loops are recursive
  functions on the locals, and the test `(int64_t)den >= 0` is a comparison with
  2^(WIDTH-1). `PowersOfTwo` says what `^` means for the powers up to 2^WIDTH.
* `Mkfs` writes both lists in one memory of 16-byte cells: a node of the inode
  list is one cell, a block begins with its node.
* `Loader`: memory is a function from cells to values, a cell of the disk
  has its number as its value, so what is loaded shows where it came from. The
  layouts (`LAYOUTS`) are what a linker produces: segments below the image, apart
  from one another, not longer in the file than in memory. stage2 runs in the image, so
  what it stores in its variables (`e_phoff`, `e_phentsize`, `e_phnum` before the loop over
  the headers, `video` with the message after it) changes the image; these are cells before
  the kernel's file (`E_PH`, `VIDEO`). Left out: unreal,
  protected and long mode, the messages, and the read error, which
  stops the machine. The size field of the disk address packet (`boot.asm:170`
  writes decimal 10) is taken as the BIOS of the emulators takes it.

* `Paging` is the memory of the three tables after `stage2.asm`, as a function of what
  it held before, and the walk the processor makes through it. The loop over the page
  directory writes low halves only and the clearing does not reach that table, so the
  high halves are left over; `Translate` faults on any that is not zero.
* `ProcessMemory` puts `Heap`'s `malloc` under its two callers. `setup_pit` tests what it
  gets and installs no handler without a node; `process_create` takes a `NULL` for an
  address, and the pids go round.
* `SystemCall` follows the registers from the wrapper through the instruction, the
  pushes, the structure laid over them, `ksyscall`, the pops and `sysretq`; what C code
  may destroy is destroyed. `pit_counter` advances by a fixed number of ticks from one
  test of the sleeping loop to the next. The variable is not volatile; as the kernel is built
  (gcc 12, -O2) `syscall.c:45` does not read it again but uses the value of the last test.
* `TrapFrame` does the same for an interrupt, and starts a new context by popping it.
  `irq.S` pushes `ds`, `es`, `fs`, `gs` in the opposite order of the structures; a new
  context has zeros there.
* `Pic` has both controllers with their priorities; the operations of `idt.c` are called
  in any order, interrupts nest as the priorities allow and end in the opposite order.
  The kernel itself installs a handler for line 0 only, whose ticks on ticks are in
  `Interrupts`.
* `Printf` applies `Step`, the body of the loop over the format, as often as the format has
  characters, which is at least as often as the loop runs; the calls of `out`, whose `idx` only ever
  counts them, are the sequence of characters. `long` and `long long` are the same type
  in this build, so that `_ntoa_long` and `_ntoa_long_long` are one operator. `snprintf` is
  what gets into a buffer; the number returned, and a buffer of `NULL`, into which nothing is
  written and which nobody passes, are left out. Characters are strings of length one. A `%` at the very end of a format makes the code print a NUL
  and read on behind it; `Printf` stops there, and the run has no such format.

Where `lib/printf.c` departs from C, found by comparing with `CFormat` and named in
`Standard`: with `-` the zeros that a precision asks for are missing; with `#` digits are
cut off when the width is the number of digits, or with `0` one more, and an octal
number with a precision gets a zero too many; a negative precision argument counts as 0
instead of as missing; and of digits, zeros, prefix and sign what does not fit in the buffer of
32 characters (`printf.c:52`) is left out: `%lb` loses the high digits from 2^32 on, `%033d` the
sign of a negative number. The kernel's formats (`%d`, `%4d`, `%5d`, `%lu`, `%x`, `%02x`,
`%s`, `%p`) are not among them.

Noted on the way, where no property is at stake: `irq_handler` acknowledges vector 48,
although the lines end at 47; `irq_set_mask` has no test of its range (a bit beyond the
byte is lost); `memcmp` returns 1 for equal memory, and nothing calls it; the wrappers of
`lib/syscall.c` do not declare that `rcx` and `r11`, and in `SYSCALL_SLEEP` `rdi`, are
overwritten, and `syscall4`'s last argument is lost in `rcx`; `syscall_handler` pushes
below the user's `rsp` although `Makefile` does not pass `-mno-red-zone`; and `printf.h`
calls `printf` reentrant, but `putch` below it is not (see `Console`).

## 3. Runs

| Run | Question | Bounds |
|---|---|---|
| `sched_tasks` | Are tasks neither lost nor queued twice, contexts never mixed, the ring never full; is it a fair round-robin queue; does every sleeper return and every task run again and again? | 3 tasks, ring of 5, quantum 2, sleeps of 0 to 2 ticks |
| `sched_punctual` | How late can a sleeper be? | 3 tasks, quantum 2, `SLEPT_MAX` above the bound |
| `yield_accounting` | What is left with yielding tasks? | 3 tasks, two of which yield any number of times, ring of 5 |
| `yield_returns` | Does a task that yields run again? **No.** | 2 tasks |
| `sleep_unit` | Is a tick a millisecond? **No.** | 1 task |
| `irq_switch` | Does a tick look atomic; does boot complete before tasks run? | 2 tasks, 2 frames per stack, harmless nesting, exceptions |
| `irq_nested` | Is every interrupt ended exactly once, however ticks nest, and does the timer go on? | 1 task, 2 frames, all nesting, exceptions |
| `console_alone` | Does one task get a terminal? | 4 by 2, tab stops of 2, two glyphs |
| `console_shared` | Does the cursor come back? | 2 tasks, 2 by 2, cursor up to 3 rows and 2 columns away |
| `scroll_last_line` | Does `scroll` blank the last line? **Not always.** | 2 tasks, 2 by 2 |
| `segments` | Can the CPU refuse a selector, or a task run in the wrong mode? | 3 user tasks and `init` |
| `routines` | Do the sequential routines compute what they should, and keep to their memory and registers? | below |

Why the bounds are enough. The ring has two slots more than tasks, so its
indices wrap after a few switches (with 128 slots this takes 128) and "full" is
a state the run could reach. Three tasks let the queue hold two while the third
runs, so order matters; a quantum of 2 has a tick that counts down and one that
preempts. The theorems of section 5 cover all other values. In `Interrupts` two
tasks suffice for frames and contexts to be exchanged; two frames per stack
admit a tick on a tick (three per stack find nothing new).

The smallest screen that has a line to wrap and a line to scroll is 2 by 2; 4 by 2
adds tab stops inside a line. `console_alone` uses a history variable, the terminal
as it was when the task was last outside `putch`, so that a whole `putch` is
one step of `Terminal`.

In `segments` every process can be switched out in its own code and in a system
call, and a third user task adds nothing new but states.
`yield_accounting` has three tasks for a ring of five: one that is switched out with a stale
tail, one that fills the ring meanwhile, with entries of its own, and one that
never yields and is lost with the rest.
`routines` has all pairs of five-bit integers to divide and a heap of eight units of
two in five-bit arithmetic, with sizes that fit, fail and wrap: a word of a few
bits is treated as the code treats 64. That heap has room for a handler and two
processes, of the four there are pids for, and six are asked for: blocks fail one by one
and pids come round. printf is given every specifier, twelve sets of flags,
widths and precisions around the number of digits, every length, and for each
type zero, one, the largest and the least value; the buffer of five characters is, as in
the code, just long enough for an `int` in binary and too short for a `long`, and there are
widths and precisions that fill it exactly, with and without a sign, and that overfill it. A system call is
made with every time a word of five bits can hold, every value of `pit_counter` and one
to three ticks between the tests. Page tables of three entries have a first, a
middle and a last; each half of each of them starts with any of three contents. Five of the
sixteen lines are used: the first and the last of both controllers and one more.
Four sleepers with four times have every order
and every tie. Two segments are the fewest that can disturb one another; all layouts
of them in four cells are tried, and three chunks have a first, a middle and a
last; stage2's variables take one cell each. `mkfs` keeps the proportions that matter: nodes half as long as inodes, so that
the list ends in the second of four inode blocks, and files of 4 to 25 blocks,
shorter and longer than the inodes; files that do not hold the list of inodes (1 to 3 blocks of
1024 bytes), whose last nodes are stored behind the end and lost, are left out. The routines share nothing, so a behaviour calls
only one of them.

`CHECK_DEADLOCK` is off where the system may stop: in the `irq` runs (after an
exception the code halts with interrupts disabled; after a NULL context has been
loaded the model says nothing further) and in the runs with two writers (after an
overrun). It is also off in `routines`, where there is nothing
left to call in the end.

**Findings.** `yield_returns`: system call 4 sets READY and only then queues the
caller, without a critical section; a tick in between drops it from the system.
The same two steps are guarded in `SYSCALL_SLEEP`. `user_task` does not use call
4. `sleep_unit`: `process.c:29` calls 1000 ticks a second, while `SYSCALL_SLEEP`
and `setup_pit` make it 100. `scroll_last_line`: if two tasks start a new line before
either scrolls, `scroll` moves the text by two lines and blanks the last but one.

## 4. Fairness

* The timer never stops: `WF(Tick)`, and `WF(Raise)` in `Interrupts`.
* The CPU executes many instructions between ticks 10 ms apart. A tick disables
  the step a process is about to make (the CPU goes elsewhere), so a process
  that is on the CPU again and again needs strong fairness to get on:
  `SF(cpu.pid = p /\ KernelStep)`. Without it TLC finds the behaviour in which
  every tick strikes before the sleeper has read `pit_counter`, which no timing allows.
* A task owes nothing: there is no fairness on system calls, so liveness holds
  with tasks that compute for ever.
* In `Interrupts`, `SF(Accept)`: the CPU takes a request at the first instruction
  boundary with IF set, so it does not miss every one of infinitely many chances;
  `SF(Boot)`: ticks do not stop `cmain` from reaching its next instruction;
  `WF(Irq)`, `WF(Sti \/ Enable)`: the CPU goes on where nothing can interrupt it.

`sched_punctual` uses `PunctualSpec` instead, where a tick finds the CPU halted,
in a task or in the boot loop. Without it a tick may strike between the sleeper's
test and its queueing any number of times, and no bound holds.

## 5. What is proved

Every theorem is for all values of the constants that meet the named assumptions
(`ASSUME`) of the modules; the ones that matter are given below. Properties without
a theorem are listed at the end of the section.

### The scheduler

`RunQueueProof` proves the facts about the ring: what `Advance` computes, which
slots are occupied after a push and a pop, that "the queue holds each member
of S once" (`HoldsOnce`) is preserved by pushing a new member and by popping, and
what pushing and popping do to the ring read as a sequence (`Contents`).
Everything the scheduler's proofs need of modular arithmetic is in these lemmas.

`SchedulerProof` proves, for any number of tasks below `MAX_PROCESSES` - 1 (5 < 128 in
the code), any quantum, any sleeping times:

* with any system calls, yields included: `TypeCorrect`, `ContextsNeverMix`,
  `QuantumNeverUnderflows`, and `LostByYieldOnly`, the action property that says
  in which three ways a task can be lost;
* if no task yields (`"yield" \notin CALLS`, as in `init.c`): `RunQueueCorrect`,
  `TasksAccounted`, `RunQueueFits`, `IdleStaysAway`.

The argument has two layers. `BaseInv` is inductive by itself: types, how far
`setup_process` has come, whose registers the CPU carries, and the range of
`time_remaining`. `YieldInv` adds what `LostByYieldOnly` needs of yielding tasks: one that
is still READY when it stores the tail has not been interrupted since its first statement, so the
tail it has loaded is the tail, and it stands in the slot there; its store brings it
into the queue, unless the ring overflows. A tick leaves a task RUNNING when it comes back, so
one that goes on with a stale tail is no longer READY, and the theorem names its two
stores as a way of their own (`StoresStale`). `QueueInv` adds the run queue, when nobody yields: it holds
each READY task once
and nothing else, the task that is not READY has the CPU, and a task that has
queued itself is at one of the places where it only waits for the tick. The
last part is the strengthening that makes it inductive: without it a task could
be READY at `sleep_queue` and queue itself again. `Accounted` alone is not
inductive, for it does not say where in the code a READY task may be.
`QueueFits` follows by counting: `HoldsOnce` maps the occupied slots one-to-one
into the tasks, of which there are fewer than slots.

`RoundRobinProof` proves `RoundRobinImplemented`: under the same hypothesis on yields,
`Scheduler` implements `RoundRobin`. Its queue is the ring read from head to tail; while
`setup_process` still fills the ring, the queue that `RoundRobin` starts with. The steps
of `setup_process` and of the tasks leave the mapped state alone, but for the one
in `SYSCALL_SLEEP` that queues the caller; every branch of `schedule_process` is one of
`RoundRobin`'s ticks. The proof uses `QueueInv` to know that the process that is
switched out is queued exactly once, by itself or by the tick.

The module's last theorem is `SleepersOnTime`: when ticks come only where the
CPU is halted or in a task's own code (`PunctualSpec`), and nobody yields, `SYSCALL_SLEEP`
takes at most one round of the other tasks' quanta longer than it was asked for
(`OversleepBounded`), for any number of tasks and any quantum. The invariant,
`PunctualInv`, gives every sleeper a deadline and compares it with the number of ticks until
its turn: what is left of the running task's quantum, and a whole quantum for each task that
stands before it in the ring. A tick takes one from that number and adds one to the time
slept. That the sum is within the bound when the sleeper queues itself is the lemma that
the ring holds every other task at most once (`HoldsOnceLength`), and it is `SchedInv`
that says so; that no tick is spent on `init`, which leaves the queue for good, also
comes from there.

### Interrupts

`InterruptsProof` has two invariants. `IrqInv` holds however ticks nest and gives
`InterruptsTypeCorrect`, `EndOfInterruptOnce` and `BootNeverPartial` for any number of
tasks and any depth of frames. `InService` is not inductive: it counts the stream on the CPU
only, and a tick may bring back any saved one. The strengthening is that no saved
stream, in a context or on any stack, is before its end-of-interrupt command or inside
the critical section of `setup_process`.

`SwitchInv` supposes that late ticks nest only where they do no harm
(`NESTING \subseteq {"own"}`, see "Nesting" in section 2: with the other two kinds the
property is false) and gives `TaskSwitchImplemented`: from the request to `iretq` the tick
is a switch in one step. It says that every saved stream is a process's own code, or
the top of a chain of frames on that process's own stack, each of which returns to the one
below. The refinement mapping follows such a chain to its bottom, whatever its depth.
A faulty process and the boot code are streams like any other.

### The console

`ConsoleProof` proves `ConsoleCorrect` and `CursorComesBack` for any number of
writers and any screen. The inductive invariant says that the cursor is beyond the
right edge only while some task is about to set `csr_x` to 0, and below the screen
only while some task is in `scroll` with a row that makes it scroll; whoever leaves
that place has made the correction, and whoever moves the cursor off the screen
enters it. That writers work on stale copies does not matter, because the copy a
writer decides by is the one it has stored.

With one writer (`WRITERS = {w}`; with two it is false) it proves
`AloneIsTerminal`: `putch`, instruction by instruction,
is `Terminal`'s character in one step. `AloneInv` ties the writer's copies to the
variables; `ShownInv` says of every place in `putch` what is left to be done to the terminal
as it was before, so that it becomes what `Terminal` makes of the character. The lines of the
screen lie one behind the other, so this needs that `memcpy` of all but the first line and
`memsetw` of the last are what moving up by a line means.

### Memory

`HeapProof` proves `HeapCorrect`, `NoOverlap` and `BlocksLongEnough` for any heap and any sizes asked
for. `BlocksApart` alone is not inductive; that the blocks lie below `heap` and
that `heap + heap_size` never changes make it so. `MemoryApart` is the same for those
who use the heap: any number of calls of `process_create` leaves the processes'
memories apart, as long as pids and heap suffice. `MemoryInv` says where each block lies,
in the order in which `setup_pit` and `process_create` ask for them.

`SegmentsProof` proves `NoFault`, `PrivilegeKept` and `SelectorsCurrent` for any
number of user tasks. None of the three is inductive: that `iretq` does not fault
depends on what was saved in a frame, perhaps many switches ago. The invariant
therefore says what the tables and registers hold at each place of the start-up
code, and that a frame or a context fits the process it is for: kernel selectors
for `init` and for a user task that is in a system call, user selectors for its
own code. The selectors' numbers meet the descriptors' bytes in one lemma
(`Loadable`); the rest moves them from register to frame to context and back.

### The sequential routines

`RoutinesProof` proves of every routine that a call returns what it should, for all
sizes. Loops are recursive functions in the models. The library's induction theorems
take an operator as a parameter, which the installed provers cannot instantiate; but induction
on the number of iterations follows from the library's theorem that the natural numbers
are well founded, which does not. `LeastNumber`, `Induct` and `Iterated` at
the beginning of the module are that: every set of numbers has a least member, what holds at
the first number and is passed on holds up to the last, and a recursive function over an
interval exists. On these rest the loops of the loader, of `mkfs`, of the sleeping queue,
of the division and of `snprintf`.

* `EveryLineServed` (`Pic`). An invariant over any sequence of calls and interrupts:
  `PicInv` determines the controllers' state from the lines that were opened, the
  interrupts on their way and the handlers. What is on its way is ordered by urgency, so
  the controllers' "highest priority in service" is the last of them.
* `FirstGigabyteMapped` (`Paging`). For tables of any length. A page number is taken apart
  into its three indices, and the walk meets the only entries that the loop wrote.
* `KernelEntered`, `ImageKept` (`Loader`). By induction over the chunks, the image is the disk
  as far as it has been read; by induction over the headers, each segment seen so far is
  filled and the image is the disk but for the variables stage2 has stored in it, which do not
  lie in the kernel's file. The assumption on `LAYOUTS` is the linker's part:
  segments that lie below the image and apart.
* `FreeListsWhole` (`Mkfs`). Both lists are linked by the same loop; the lemma about it says
  which cells it writes. The cells of the lists are apart since a node is shorter than
  an inode (`INODE_CELLS > 1`: 16 and 32 bytes in `fs.h`). That is necessary:
  `data_start` rounds down, and with nodes as long as inodes the first block of data
  would overlap the last inode's node.
* `ShortestSleeperAtAnEnd`, `SortedByTheNext` (`SleepQueue`). When a shorter
  entry is found, two nested loops exchange entries; counted as one loop, its invariant
  is that the entries before `i` are in their final places and that entry `i` is the least of
  those the inner loop has passed. `RingInv` adds that the pids in the ring are different.
* `CallsKeepRegisters`, `SleepsInTime` (`SystemCall`). The first for any values and any
  effect of C code on the registers it may use: the pops
  find what the pushes stored, and `ksyscall`'s structure the same words. The second for
  registers of any width and ticks of any length above a millisecond: `pit_counter - start`
  is the time that has passed even when `pit_counter` has wrapped, the first test that
  fails is the first number of ticks that suffices, and the rounding up of the time asked for
  is exact. `SystemCallAssumption` asks that a register can count three ticks more than the
  longest sleep, so that a test is not missed.

* `FramesRestored` (`TrapFrame`). The words that the stub pops are those that were pushed
  (`FramePushed`, for any registers, and `FramePopped`, for any frame), and process_create's
  context, read as a frame, starts a process as asked for (`Started`). An exception
  of whose error code the stub does not know shifts the rest of the frame, so only the vector
  is where it should be; `FrameKept` says the same.
* `SnprintfStaysInside` (`Printf`). `Bounded` is for every format: whatever characters it
  puts out, the buffer holds the first `count` - 1 of them, the NUL and nothing else that is
  new. `PrintfAssumption` asks that a `size_t` can count the small buffer, which is what
  makes `maxlen - 1U` harmless: for a count of 0 it wraps to a number that is not
  below 0, and otherwise it does not wrap.
* `DivisionExact` (`Division`). For words of any width, all dividends and all divisors but 0.
  `LoopEnds` shows that a loop that comes nearer to its end with every turn is
  a function of what it starts with: the first loop doubles the divisor until it reaches the
  sign bit, the second halves the bit of the quotient. (For a divisor of 0 the
  first loop would never end; the function still exists.) `Shifting` and `Dividing` are the
  loops' invariants: the divisor is `d` times the bit, no bit has been shifted out, the
  dividend is the quotient so far times `d` plus what is left, and what is left is
  less than twice the divisor as it is shifted now. The sum `quot + qbit` never wraps, since it
  is at most the dividend. `PowersOfTwo` is assumed because the provers know nothing of
  `^`; TLC evaluates it.

### What is not proved

TLAPS cannot prove liveness: `SleepReturns`, `EveryTaskRuns`, `TimerGoesOn` and
`ImplementsFairRoundRobin`, which is `RoundRobin` with fairness, are model-checked only.
`ImplementsFairRoundRobin` without its fairness is `RoundRobinImplemented`.

Of the invariants only `FormatsAsC` is without a theorem. It compares two programs, lib/printf.c
and the C standard's words, over several thousand directives, except where `Standard` says that
lib/printf.c does not follow C. TLC tries every one of them.

## 6. Not modelled, and the plan

Not modelled: the floating-point half of `lib/printf.c`, which is not built; the CPU's
modes in the boot code; the counts `setup_pit` writes to the timer; the hardware cursor
(`move_csr`); `user_task`'s generator of random numbers (whose values, 0 to 9999, are all that
matters: any time may be slept) and what the tasks print; single-instruction library
functions; `main.S` and `test.c`, which are not part of the kernel.

Hazards without a property, each with its reason in `PROJECT.json`:

* what the models show to happen while nothing in the repository says that it must not: the
  length in `scroll` that wraps (`Overrun`), the 129th process, the heap that is used up, the
  halt after an exception, the page directory's high halves;
* what is not modelled: the hardware cursor, which the next character corrects, and the
  nodes of the list of inodes that lie inside inodes, which nothing uses yet.

Others are covered in part: `InService` watches the controller under every nesting of ticks, but
the harm that two kinds of nesting do to saved contexts is left to section 2; `BootCompletes`
is about a tick that finds half of the processes, not one that finds none;
`LostOnlyByYield` names the ways in which system call 4 loses tasks and shows that
there are no others.

What could come next: `FormatsAsC` proved for any constants, one specifier at a time; and a
model of the processor's modes in the boot code.
