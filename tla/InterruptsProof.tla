--------------------------- MODULE InterruptsProof ---------------------------
(***************************************************************************)
(* Proofs about Interrupts, for every number of tasks and every depth of   *)
(* nested frames.                                                          *)
(*                                                                         *)
(* IrqInv holds however ticks nest: the interrupt controller, the stacks   *)
(* and the boot sequence stay in step.  SwitchInv needs that late ticks    *)
(* nest only where they do no harm; with it the path of a tick through     *)
(* irq.S, idt.c and process.c is a switch of processes in one step.        *)
(***************************************************************************)
EXTENDS Interrupts, TLAPS

-----------------------------------------------------------------------------
(* IrqInv.                                                                 *)

\* No two kinds of places have one in common.
LEMMA PlacesApart ==
    /\ \A at \in BootCode \cup TaskCode :
           at \in Place /\ at \notin IrqCode /\ at \notin EndCode
    /\ \A at \in EndCode : at \in Place /\ at \notin IrqCode
    /\ IrqCode \subseteq Place
  BY DEF Place, BootCode, TaskCode, IrqCode, EndCode

\* A stream from a NULL context is a stream.
LEMMA NoContextType == NoContext \in Stream /\ Resting(NoContext)
  BY InterruptsAssumption
  DEF NoContext, Stream, Place, EndCode, Stack, Pid, Resting, IrqCode

LEMMA IrqInit == Init => IrqInv
  <1> SUFFICES ASSUME Init PROVE IrqInv
    OBVIOUS
  <1>1. cpu \in Stream /\ cpu.at = "setup_idt"
    BY InterruptsAssumption DEF Init, Stream, Place, BootCode, Stack, BOOT
  <1>2. Created = {}
    BY DEF Init, Created
  <1>3. TypeOK
    BY <1>1, NoContextType DEF Init, TypeOK
  <1>4. /\ \A p \in Pid : Resting(contexts[p])
        /\ \A s \in Stack, d \in 1 .. MAX_DEPTH : Resting(frames[s][d])
    BY NoContextType DEF Init
  <1>5. QED
    BY <1>1, <1>2, <1>3, <1>4
    DEF Init, IrqInv, InService, BootCompletes, IrqCode

\* A step of the boot code or of a process, at places that are neither in the
\* interrupt path nor at the end.
LEMMA IrqGoto ==
    ASSUME IrqInv, NEW from \in BootCode \cup TaskCode,
           NEW to \in BootCode \cup TaskCode \cup {"dead"}, Goto(from, to),
           UNCHANGED <<isr, taskVars>>,
           iflag' \in BOOLEAN, masked' \in BOOLEAN, irr' \in BOOLEAN, installed' \in BOOLEAN,
           to = "create" => ~iflag',
           from = "create" => Created = Pid
    PROVE  IrqInv'
  <1>1. /\ TypeOK /\ cpu.at = from
        /\ cpu' \in Stream /\ cpu'.at = to /\ cpu'.pid = cpu.pid
        /\ cpu'.stack = cpu.stack /\ cpu'.depth = cpu.depth
    BY DEF IrqInv, TypeOK, Goto, Stream, Place, EndCode
  <1>2. from \notin IrqCode \cup EndCode /\ to \notin IrqCode \cup {"garbage"}
    BY DEF BootCode, TaskCode, IrqCode, EndCode
  <1>3. Created' = Created /\ UNCHANGED <<frames, contexts, current_pid>>
    BY DEF Created, taskVars
  <1>4. TypeOK'
    BY <1>1, <1>3 DEF TypeOK
  <1>5. InService'
    BY <1>1, <1>2 DEF IrqInv, InService, IrqCode, EndCode
  <1>6. BootCompletes'
    BY <1>1, <1>2, <1>3 DEF IrqInv, BootCompletes, EndCode
  <1>7. Created \in {{}, Pid}
    BY <1>1 DEF IrqInv
  <1>8. QED
    BY <1>1, <1>2, <1>3, <1>4, <1>5, <1>6, <1>7 DEF IrqInv, IrqCode

\* ProcessCreate(p) makes a process of the next pid.
LEMMA IrqCreate ==
    ASSUME IrqInv, NEW p \in Pid, ProcessCreate(p)
    PROVE  IrqInv' /\ Created' = Created \cup {p} /\ p \notin Created
  <1> DEFINE new == [pid |-> p, at |-> IF p = 0 THEN "kernel" ELSE "user",
                     stack |-> p, depth |-> 0]
  <1>1. /\ TypeOK /\ cpu.at = "create" /\ Created = 0 .. p - 1
        /\ contexts' = [contexts EXCEPT ![p] = new]
        /\ UNCHANGED <<cpu, iflag, picVars, installed, frames, current_pid>>
    BY DEF IrqInv, TypeOK, ProcessCreate
  <1>2. new \in Stream /\ Resting(new) /\ new # NoContext
    BY InterruptsAssumption
    DEF Stream, Place, TaskCode, Stack, Pid, Resting, IrqCode, NoContext
  <1> HIDE DEF new
  <1>3. TypeOK'
    BY <1>1, <1>2 DEF TypeOK, picVars
  <1>4. Created' = Created \cup {p} /\ p \notin Created
    BY <1>1, <1>2 DEF TypeOK, Created, Pid
  <1>5. \A q \in Pid : Resting(contexts'[q])
    BY <1>1, <1>2 DEF IrqInv, TypeOK
  <1>6. current_pid = -1
    BY <1>1, <1>4 DEF IrqInv, BootCompletes
  <1>7. QED
    BY <1>1, <1>3, <1>4, <1>5, <1>6
    DEF IrqInv, InService, BootCompletes, picVars, IrqCode

LEMMA IrqBoot == IrqInv /\ Boot => IrqInv'
  <1> SUFFICES ASSUME IrqInv, Boot PROVE IrqInv'
    OBVIOUS
  <1> USE DEF BootCode
  <1>1. TypeOK
    BY DEF IrqInv
  <1>2. CASE SetupIdt \/ InstallBegin \/ ClearMask \/ Link \/ InstallEnd
    BY <1>1, <1>2, IrqGoto
    DEF SetupIdt, InstallBegin, ClearMask, Link, InstallEnd, TypeOK, picVars
  <1>3. CASE PitDisable \/ PitEnable \/ ProcessDisable \/ ProcessEnable
    BY <1>1, <1>3, IrqGoto
    DEF PitDisable, PitEnable, ProcessDisable, ProcessEnable, TypeOK, picVars
  <1>4. QED
    BY <1>2, <1>3, IrqCreate DEF Boot

LEMMA IrqTask == IrqInv /\ Task => IrqInv'
  <1> SUFFICES ASSUME IrqInv, Task PROVE IrqInv'
    OBVIOUS
  <1> USE DEF TaskCode
  <1>1. TypeOK
    BY DEF IrqInv
  <1>2. QED
    BY <1>1, IrqGoto
    DEF Task, Syscall, Sti, Disable, Enable, Sysret, Exception, TypeOK, picVars

\* A request is accepted where nothing is in service.
LEMMA IrqAccept ==
    ASSUME IrqInv, Accept
    PROVE  IrqInv'
  <1> DEFINE S == FrameStack(cpu)
             d == FrameDepth(cpu)
  <1>1. /\ TypeOK /\ InService /\ ~isr /\ iflag /\ cpu.at \notin EndCode
        /\ d <= MAX_DEPTH /\ irr' = FALSE /\ isr' = TRUE
        /\ frames' = [frames EXCEPT ![S][d] = cpu]
        /\ cpu' = [pid |-> cpu.pid, at |-> "cli", stack |-> S, depth |-> d]
        /\ UNCHANGED <<iflag, masked, installed, contexts, current_pid>>
    BY DEF IrqInv, Accept
  <1>2. S \in Stack /\ d \in 1 .. MAX_DEPTH
    <2>1. cpu.depth \in 0 .. MAX_DEPTH /\ cpu.stack \in Stack /\ SHARED \in Stack
      BY <1>1 DEF TypeOK, Stream, Stack
    <2>2. QED
      BY <1>1, <2>1, InterruptsAssumption DEF FrameStack, FrameDepth
  <1>3. cpu \in Stream /\ Resting(cpu)
    BY <1>1 DEF IrqInv, TypeOK, InService, Resting, EndCode
  <1> HIDE DEF S, d
  <1>4. cpu' \in Stream /\ cpu'.at = "cli" /\ cpu'.depth > 0
    BY <1>1, <1>2, InterruptsAssumption DEF TypeOK, Stream, Place, IrqCode
  <1>5. /\ frames' \in [Stack -> [1 .. MAX_DEPTH -> Stream]]
        /\ frames'[S][d] = cpu
        /\ \A s \in Stack, e \in 1 .. MAX_DEPTH :
               frames'[s][e] = cpu \/ frames'[s][e] = frames[s][e]
    BY <1>1, <1>2, <1>3 DEF TypeOK
  <1>6. TypeOK'
    BY <1>1, <1>4, <1>5 DEF TypeOK
  <1>7. \A s \in Stack, e \in 1 .. MAX_DEPTH : Resting(frames'[s][e])
    BY <1>3, <1>5 DEF IrqInv
  <1>8. Created' = Created /\ Created \in {{}, Pid}
    BY <1>1 DEF IrqInv, Created
  <1>9. current_pid # -1 => Created = Pid /\ Created # {}
    BY <1>1 DEF IrqInv, BootCompletes, EndCode
  <1>10. InService' /\ BootCompletes'
    BY <1>1, <1>4, <1>8, <1>9 DEF InService, BootCompletes
  <1>11. frames'[cpu'.stack][cpu'.depth].at \notin EndCode
    BY <1>1, <1>5
  <1>12. QED
    BY <1>1, <1>4, <1>6, <1>7, <1>8, <1>10, <1>11 DEF IrqInv, IrqCode

\* A step within the interrupt path that leaves the memory alone.
LEMMA IrqOnward ==
    ASSUME IrqInv, NEW from \in IrqCode, NEW to \in {"walk", "eoi", "return"}, Goto(from, to),
           UNCHANGED <<taskVars, masked, irr, installed>>, iflag' \in BOOLEAN,
           isr' \in BOOLEAN, isr' <=> to # "return",
           to = "walk" => from = "cli"
    PROVE  IrqInv'
  <1>1. /\ TypeOK /\ cpu.at = from
        /\ cpu' \in Stream /\ cpu'.at = to /\ cpu'.pid = cpu.pid
        /\ cpu'.stack = cpu.stack /\ cpu'.depth = cpu.depth
    BY DEF IrqInv, TypeOK, Goto, Stream, Place, IrqCode
  <1>2. Created' = Created /\ UNCHANGED <<frames, contexts, current_pid>>
    BY DEF Created, taskVars
  <1>3. TypeOK'
    BY <1>1, <1>2 DEF TypeOK
  <1>4. InService'
    BY <1>1 DEF InService
  <1>5. from # "create" /\ from # "garbage"
    BY DEF IrqCode
  <1>6. BootCompletes'
    BY <1>1, <1>2, <1>5 DEF IrqInv, BootCompletes
  <1>7. QED
    BY <1>1, <1>2, <1>3, <1>4, <1>5, <1>6 DEF IrqInv

\* At "walk" all processes exist, or none does, and so they do after
\* start_process: what it saves is the stream that was interrupted.
LEMMA IrqStart ==
    ASSUME IrqInv, cpu.at = "walk", Created # {}, NEW pid \in Created, start_process(pid),
           Goto("walk", "eoi"), iflag' = TRUE, UNCHANGED <<picVars, installed>>
    PROVE  IrqInv' /\ Created = Pid /\ Created' = Pid
  <1> DEFINE f == frames[cpu.stack][cpu.depth]
             saved == IF current_pid = -1 THEN contexts
                      ELSE [contexts EXCEPT ![current_pid] = f]
  <1>1. /\ TypeOK /\ InService /\ isr
        /\ cpu' \in Stream /\ cpu'.at = "eoi" /\ cpu'.depth = cpu.depth
    BY DEF IrqInv, TypeOK, InService, Goto, Stream, Place, IrqCode
  <1>2. /\ cpu.stack \in Stack /\ cpu.depth \in 1 .. MAX_DEPTH
    BY <1>1, InterruptsAssumption DEF IrqInv, TypeOK, Stream, IrqCode
  <1>3. f \in Stream /\ Resting(f) /\ f # NoContext
    <2>1. f \in Stream /\ Resting(f)
      BY <1>1, <1>2 DEF IrqInv, TypeOK
    <2>2. f.at \notin EndCode
      BY DEF IrqInv
    <2>3. NoContext.at \in EndCode
      BY DEF NoContext, EndCode
    <2>4. QED
      BY <2>1, <2>2, <2>3
  <1>4. Created = Pid /\ pid \in Pid /\ -1 \notin Pid
    BY DEF IrqInv, Created, Pid
  <1> HIDE DEF f
  <1>5. /\ saved \in [Pid -> Stream]
        /\ \A p \in Pid : Resting(saved[p]) /\ saved[p] # NoContext
    BY <1>1, <1>3, <1>4 DEF IrqInv, TypeOK, Created
  <1>6. /\ contexts' = saved /\ current_pid' = pid
        /\ frames' = [frames EXCEPT ![cpu.stack][cpu.depth] = saved[pid]]
    BY DEF start_process, f
  <1> HIDE DEF saved
  <1>7. /\ frames' \in [Stack -> [1 .. MAX_DEPTH -> Stream]]
        /\ \A s \in Stack, e \in 1 .. MAX_DEPTH :
               frames'[s][e] = saved[pid] \/ frames'[s][e] = frames[s][e]
    BY <1>1, <1>2, <1>4, <1>5, <1>6 DEF TypeOK
  <1>8. \A s \in Stack, e \in 1 .. MAX_DEPTH : Resting(frames'[s][e])
    BY <1>4, <1>5, <1>7 DEF IrqInv
  <1>9. TypeOK'
    BY <1>1, <1>4, <1>5, <1>6, <1>7 DEF TypeOK, picVars
  <1>10. Created' = Pid
    BY <1>5, <1>6 DEF Created
  <1>11. InService' /\ BootCompletes'
    BY <1>1, <1>4, <1>10 DEF InService, BootCompletes, picVars
  <1>12. QED
    BY <1>1, <1>2, <1>4, <1>5, <1>6, <1>8, <1>9, <1>10, <1>11 DEF IrqInv

\* The frame is popped.
LEMMA IrqReturn ==
    ASSUME IrqInv, Return
    PROVE  IrqInv'
  <1>1. /\ TypeOK /\ ~isr /\ cpu.at = "return"
        /\ cpu' = frames[cpu.stack][cpu.depth]
        /\ frames' = IF cpu.stack = SHARED THEN frames
                     ELSE [frames EXCEPT ![cpu.stack][cpu.depth] = NoContext]
        /\ iflag' = TRUE
        /\ UNCHANGED <<picVars, installed, contexts, current_pid>>
    BY DEF IrqInv, InService, Return
  <1>2. cpu.stack \in Stack /\ cpu.depth \in 1 .. MAX_DEPTH
    BY <1>1, InterruptsAssumption DEF IrqInv, TypeOK, Stream, IrqCode
  <1>3. cpu' \in Stream /\ Resting(cpu')
    BY <1>1, <1>2 DEF IrqInv, TypeOK
  <1>4. /\ frames' \in [Stack -> [1 .. MAX_DEPTH -> Stream]]
        /\ \A s \in Stack, e \in 1 .. MAX_DEPTH :
               frames'[s][e] = NoContext \/ frames'[s][e] = frames[s][e]
    BY <1>1, <1>2, NoContextType DEF TypeOK
  <1>5. \A s \in Stack, e \in 1 .. MAX_DEPTH : Resting(frames'[s][e])
    BY <1>4, NoContextType DEF IrqInv
  <1>6. TypeOK'
    BY <1>1, <1>3, <1>4 DEF TypeOK, picVars
  <1>7. Created' = Created /\ Created \in {{}, Pid}
    BY <1>1 DEF IrqInv, Created
  <1>8. current_pid # -1 => Created = Pid /\ Created # {}
    BY <1>1 DEF IrqInv, BootCompletes
  <1>9. InService' /\ BootCompletes'
    BY <1>1, <1>3, <1>7, <1>8 DEF InService, BootCompletes, Resting, picVars
  <1>10. QED
    BY <1>1, <1>3, <1>5, <1>6, <1>7, <1>9 DEF IrqInv, Resting

\* A tick before any process exists loads what is at address 0.
LEMMA IrqLoadNull ==
    ASSUME IrqInv, LoadNull
    PROVE  IrqInv'
  <1>1. /\ TypeOK /\ cpu' = NoContext /\ current_pid' = 0 /\ Created = {}
        /\ UNCHANGED <<iflag, picVars, installed, frames, contexts>>
    BY DEF IrqInv, LoadNull
  <1>2. Created' = Created /\ NoContext.at = "garbage" /\ 0 \in Pid
    BY <1>1, InterruptsAssumption DEF Created, NoContext, Pid
  <1>3. TypeOK'
    BY <1>1, <1>2, NoContextType DEF TypeOK, picVars
  <1>4. QED
    BY <1>1, <1>2, <1>3 DEF IrqInv, InService, BootCompletes, IrqCode

LEMMA IrqIrq == IrqInv /\ Irq => IrqInv'
  <1> SUFFICES ASSUME IrqInv, Irq PROVE IrqInv'
    OBVIOUS
  <1> USE DEF IrqCode
  <1>1. TypeOK /\ (cpu.at \in {"cli", "walk", "eoi"} => isr)
    BY DEF IrqInv, InService
  <1>2. CASE Cli \/ Ignore \/ Eoi
    BY <1>1, <1>2, IrqOnward DEF Cli, Ignore, Eoi, TypeOK, picVars, Goto
  <1>3. CASE Handle
    <2>1. CASE UNCHANGED taskVars
      BY <1>1, <1>3, <2>1, IrqOnward DEF Handle, TypeOK, picVars, Goto
    <2>2. CASE \E p \in Created : start_process(p)
      BY <1>3, <2>2, IrqStart DEF Handle, Goto
    <2>3. CASE start_process(0)
      <3>1. 0 \in Created
        BY <1>3, InterruptsAssumption DEF Handle, Goto, IrqInv, Pid
      <3>2. QED
        BY <1>3, <2>3, <3>1, IrqStart DEF Handle, Goto
    <2>4. QED
      BY <1>3, <2>1, <2>2, <2>3 DEF Handle
  <1>4. QED
    BY <1>2, <1>3, IrqReturn, IrqLoadNull DEF Irq

LEMMA IrqStep == IrqInv /\ [Next]_vars => IrqInv'
  <1>1. IrqInv /\ Raise => IrqInv'
    BY DEF Raise, IrqInv, TypeOK, InService, BootCompletes, Created, taskVars
  <1>2. IrqInv /\ UNCHANGED vars => IrqInv'
    BY DEF vars, picVars, IrqInv, TypeOK, InService, BootCompletes, Created, taskVars
  <1>3. QED
    BY <1>1, <1>2, IrqBoot, IrqTask, IrqAccept, IrqIrq DEF Next

LEMMA IrqAlways == Spec => []IrqInv
  BY IrqInit, IrqStep, PTL DEF Spec

\* Every variable keeps its type, however ticks nest.
THEOREM InterruptsTypeCorrect == Spec => []TypeOK
  <1>1. IrqInv => TypeOK
    BY DEF IrqInv
  <1>2. QED
    BY <1>1, IrqAlways, PTL

\* irq_handler gives the end-of-interrupt command exactly once for each tick,
\* however ticks nest and whatever frames the scheduler replaces.
THEOREM EndOfInterruptOnce == Spec => []InService
  <1>1. IrqInv => InService
    BY DEF IrqInv
  <1>2. QED
    BY <1>1, IrqAlways, PTL

\* The tick that abandons cmain finds all processes created, or none.
THEOREM BootNeverPartial == Spec => []BootCompletes
  <1>1. IrqInv => BootCompletes
    BY DEF IrqInv
  <1>2. QED
    BY <1>1, IrqAlways, PTL

-----------------------------------------------------------------------------
(* Streams that are whole.                                                 *)

Memory == [Stack -> [1 .. MAX_DEPTH -> Stream]]

\* The place of a stream in its process's own code tells whose it can be.
LEMMA PlainPlaces ==
    ASSUME NEW s \in Stream, Plain(s)
    PROVE  /\ s.at \notin IrqCode /\ s.at # "garbage"
           /\ s.at \in BootCode => s.pid = -1
           /\ s.at \in {"user", "entry", "closed", "dead"} => s.pid \in User
           /\ s.at = "kernel" => s.pid \in Pid
           /\ s.pid \in User => s.at \in TaskCode \cup {"dead"}
  BY DEF Plain, Stream, Pid, User, BootCode, TaskCode, IrqCode

\* The process under a whole stream is in the frame that the mapping finds.
LEMMA WholeBase ==
    ASSUME NEW s \in Stream, NEW memory \in Memory, Whole(s, memory)
    PROVE  /\ Base(s, memory) = Bottom(s, memory)
           /\ Plain(Bottom(s, memory))
           /\ Bottom(s, memory).pid = s.pid
           /\ s.at \notin {"cli", "walk", "eoi", "garbage"}
  <1>1. CASE Plain(s)
    BY <1>1, PlainPlaces DEF Base, Bottom, IrqCode
  <1>2. CASE Nested(s, memory)
    <2>1. /\ s.at = "return" /\ s.stack = s.pid /\ s.depth \in 1 .. MAX_DEPTH
          /\ Plain(memory[s.pid][1]) /\ memory[s.pid][1].pid = s.pid
          /\ s.pid \in Stack
      BY <1>2 DEF Nested, Stream
    <2>2. memory[s.pid][1] \in Stream
      BY <2>1, InterruptsAssumption DEF Memory
    <2>3. Bottom(memory[s.pid][s.depth], memory) = memory[s.pid][1]
      <3>1. CASE s.depth = 1
        <4>1. memory[s.pid][1].at \notin IrqCode
          BY <2>1, <2>2, PlainPlaces
        <4>2. QED
          BY <3>1, <4>1 DEF Bottom
      <3>2. CASE s.depth # 1
        <4>1. s.depth \in 2 .. s.depth
          BY <2>1, <3>2, InterruptsAssumption
        <4>2. memory[s.pid][s.depth] =
                  [pid |-> s.pid, at |-> "return", stack |-> s.pid, depth |-> s.depth - 1]
          BY <1>2, <4>1 DEF Nested
        <4>3. QED
          BY <4>2 DEF Bottom, IrqCode
      <3>3. QED
        BY <3>1, <3>2
    <2>4. QED
      BY <2>1, <2>3 DEF Base, Bottom, IrqCode
  <1>3. QED
    BY <1>1, <1>2 DEF Whole

\* A stream stays whole while the frames under it stay.
LEMMA WholeKept ==
    ASSUME NEW s \in Stream, NEW memory \in Memory, NEW other \in Memory, Whole(s, memory),
           \A d \in 1 .. s.depth : other[s.pid][d] = memory[s.pid][d]
    PROVE  Whole(s, other) /\ Bottom(s, other) = Bottom(s, memory)
  <1>1. CASE Plain(s)
    BY <1>1, PlainPlaces DEF Whole, Bottom
  <1>2. CASE Nested(s, memory)
    <2>1. 1 \in 1 .. s.depth /\ s.depth \in Nat /\ s.stack = s.pid
      BY <1>2, InterruptsAssumption DEF Nested, Stream
    <2>2. \A d \in 2 .. s.depth : d \in 1 .. s.depth
      BY <2>1
    <2>3. QED
      BY <1>2, <2>1, <2>2 DEF Whole, Nested, Bottom
  <1>3. QED
    BY <1>1, <1>2 DEF Whole

\* A tick on the way out of a tick: the stream that was interrupted is whole if
\* the frame below it holds one that is.
LEMMA WholeAbove ==
    ASSUME NEW s \in Stream, NEW memory \in Memory,
           s.at = "return", s.stack = s.pid, s.depth > 0,
           Whole(memory[s.pid][s.depth], memory),
           memory[s.pid][s.depth].pid = s.pid,
           memory[s.pid][s.depth].depth = s.depth - 1
    PROVE  Whole(s, memory) /\ Bottom(s, memory) = Bottom(memory[s.pid][s.depth], memory)
  <1> DEFINE f == memory[s.pid][s.depth]
  <1>1. s.depth \in 1 .. MAX_DEPTH /\ s.pid \in Stack /\ f \in Stream
    <2>1. s.depth \in 1 .. MAX_DEPTH /\ s.stack \in Stack
      BY InterruptsAssumption DEF Stream
    <2>2. memory[s.pid] \in [1 .. MAX_DEPTH -> Stream]
      BY <2>1 DEF Memory
    <2>3. QED
      BY <2>1, <2>2
  <1>2. Bottom(s, memory) = memory[s.pid][1]
    BY DEF Bottom, IrqCode
  <1>3. CASE Plain(f)
    <2>1. s.depth = 1
      BY <1>1, <1>3, InterruptsAssumption DEF Plain
    <2>2. Bottom(f, memory) = f
      BY <1>1, <1>3, PlainPlaces DEF Bottom
    <2>3. QED
      BY <1>2, <1>3, <2>1, <2>2 DEF Whole, Nested
  <1>4. CASE Nested(f, memory)
    <2>1. /\ f.at = "return" /\ f.stack = s.pid /\ f.depth > 0
          /\ Plain(memory[s.pid][1]) /\ memory[s.pid][1].pid = s.pid
          /\ \A d \in 2 .. f.depth :
                 memory[s.pid][d] =
                     [pid |-> s.pid, at |-> "return", stack |-> s.pid, depth |-> d - 1]
      BY <1>4 DEF Nested
    <2>2. f = [pid |-> s.pid, at |-> "return", stack |-> s.pid, depth |-> s.depth - 1]
      BY <1>1, <2>1 DEF Stream
    <2>3. \A d \in 2 .. s.depth : d = s.depth \/ d \in 2 .. f.depth
      BY <1>1, InterruptsAssumption
    <2>4. Nested(s, memory)
      BY <2>1, <2>2, <2>3 DEF Nested
    <2>5. QED
      BY <1>2, <2>1, <2>4 DEF Whole, Bottom, IrqCode
  <1>5. QED
    BY <1>3, <1>4 DEF Whole

\* ... and the other way about.
LEMMA WholeBelow ==
    ASSUME NEW s \in Stream, NEW memory \in Memory, Nested(s, memory)
    PROVE  /\ s.depth \in 1 .. MAX_DEPTH
           /\ Whole(memory[s.pid][s.depth], memory)
           /\ memory[s.pid][s.depth].pid = s.pid
           /\ memory[s.pid][s.depth].depth = s.depth - 1
  <1> DEFINE f == memory[s.pid][s.depth]
  <1>1. s.depth \in 1 .. MAX_DEPTH
    BY InterruptsAssumption DEF Nested, Stream
  <1>2. CASE s.depth = 1
    BY <1>1, <1>2, SMTT(30) DEF Nested, Whole, Plain
  <1>3. CASE s.depth # 1
    <2>1. s.depth \in 2 .. s.depth /\ s.depth - 1 > 0
      BY <1>1, <1>3, InterruptsAssumption
    <2>2. f = [pid |-> s.pid, at |-> "return", stack |-> s.pid, depth |-> s.depth - 1]
      BY <2>1 DEF Nested
    <2>3. \A d \in 2 .. f.depth : d \in 2 .. s.depth
      BY <1>1, <2>2, InterruptsAssumption
    <2>4. Nested(f, memory)
      BY <2>1, <2>2, <2>3 DEF Nested
    <2>5. QED
      BY <1>1, <2>2, <2>4 DEF Whole
  <1>4. QED
    BY <1>2, <1>3

-----------------------------------------------------------------------------
(* SwitchInv, and the step of TaskSwitch that each step is.                *)

\* The state of TaskSwitch, as Interrupts maps it.
Running == View(Base(cpu, frames))

Saved == [p \in Pid |-> IF p = current_pid THEN View(NoContext)
                        ELSE View(Base(contexts[p], frames))]

LEMMA SwitchInit == Init => SwitchInv
  <1> SUFFICES ASSUME Init PROVE SwitchInv
    OBVIOUS
  <1>1. IrqInv
    BY IrqInit
  <1>2. Created = {}
    BY DEF Init, Created
  <1>3. cpu.at \notin IrqCode /\ Plain(cpu) /\ cpu.pid = current_pid
    BY DEF Init, IrqCode, Plain, BootCode, BOOT
  <1>4. QED
    BY <1>1, <1>2, <1>3 DEF SwitchInv, InStep

LEMMA MappedInit == Init => TS!SwitchInit
  <1> SUFFICES ASSUME Init PROVE TS!SwitchInit
    OBVIOUS
  <1>1. Base(cpu, frames) = cpu
    BY DEF Init, Base, IrqCode
  <1>2. Base(NoContext, frames) = NoContext
    BY DEF Base, NoContext, IrqCode
  <1>3. View(cpu) = [pid |-> -1, at |-> "setup_idt"]
    BY DEF Init, View
  <1>4. View(NoContext) = TS!Nothing
    BY DEF View, NoContext, TS!Nothing
  <1>5. \A p \in Pid : contexts[p] = NoContext
    BY DEF Init
  <1>6. QED
    BY <1>1, <1>2, <1>3, <1>4, <1>5 DEF Init, TS!SwitchInit, TS!Process, Pid

\* What the memory under the processes' stacks can be.
LEMMA InStepTypes ==
    ASSUME IrqInv
    PROVE  /\ cpu \in Stream /\ frames \in Memory /\ contexts \in [Pid -> Stream]
           /\ current_pid \in {-1} \cup Pid
           /\ Created \subseteq Pid
           /\ cpu.at \in IrqCode =>
                  /\ cpu.stack \in Stack /\ cpu.depth \in 1 .. MAX_DEPTH
                  /\ Frame \in Stream
  <1>1. TypeOK /\ (cpu.at \in IrqCode => cpu.depth > 0)
    BY DEF IrqInv
  <1>2. /\ cpu \in Stream /\ frames \in Memory /\ contexts \in [Pid -> Stream]
        /\ current_pid \in {-1} \cup Pid /\ Created \subseteq Pid
    BY <1>1 DEF TypeOK, Memory, Created
  <1>3. ASSUME cpu.at \in IrqCode
        PROVE  cpu.stack \in Stack /\ cpu.depth \in 1 .. MAX_DEPTH
    BY <1>1, <1>2, <1>3, InterruptsAssumption DEF Stream
  <1>4. ASSUME cpu.at \in IrqCode
        PROVE  Frame \in Stream
    BY <1>2, <1>3, <1>4 DEF Frame, Memory
  <1>5. QED
    BY <1>2, <1>3, <1>4

\* A step that leaves memory alone leaves what is mapped from it alone.
LEMMA SameMemory ==
    ASSUME UNCHANGED taskVars
    PROVE  /\ UNCHANGED <<frames, contexts, current_pid>>
           /\ Created' = Created /\ Saved' = Saved
  BY DEF taskVars, Created, Saved

\* The boot code goes on.
LEMMA SwitchBootGoto ==
    ASSUME IrqInv, InStep, IrqInv', NEW from \in BootCode, NEW to \in BootCode,
           Goto(from, to), UNCHANGED taskVars
    PROVE  InStep' /\ TS!BootMoves
  <1>1. cpu \in Stream /\ cpu' \in Stream
    BY InStepTypes DEF IrqInv, TypeOK
  <1>2. /\ from \notin IrqCode /\ to \notin IrqCode
    BY DEF BootCode, IrqCode
  <1>3. cpu.at = from /\ Plain(cpu) /\ cpu.pid = current_pid /\ cpu.pid = -1
    BY <1>1, <1>2, PlainPlaces DEF Goto, InStep
  <1>4. /\ cpu' = [cpu EXCEPT !.at = to]
        /\ cpu'.at = to /\ cpu'.pid = -1 /\ cpu'.stack = cpu.stack /\ cpu'.depth = cpu.depth
    BY <1>1, <1>3 DEF Goto, Stream
  <1>5. Plain(cpu')
    BY <1>3, <1>4 DEF Plain
  <1>6. InStep'
    BY <1>2, <1>3, <1>4, <1>5, SameMemory DEF InStep
  <1>7. Base(cpu, frames) = cpu /\ Base(cpu', frames') = cpu'
    BY <1>2, <1>3, <1>4 DEF Base
  <1>8. Running.pid = -1 /\ Running' = [Running EXCEPT !.at = to]
    <2>1. Running = View(cpu) /\ Running' = View(cpu')
      BY <1>7 DEF Running
    <2>2. QED
      BY <1>3, <1>4, <2>1 DEF View
  <1>9. to \in TS!BootPlace
    BY DEF BootCode, TS!BootPlace
  <1>10. TS!BootMoves
    BY <1>8, <1>9, SameMemory DEF TS!BootMoves, Running, Saved
  <1>11. QED
    BY <1>6, <1>10

\* setup_process creates a process.
LEMMA SwitchCreate ==
    ASSUME IrqInv, InStep, IrqInv', NEW p \in Pid, ProcessCreate(p)
    PROVE  InStep' /\ TS!BootMoves
  <1> DEFINE new == [pid |-> p, at |-> IF p = 0 THEN "kernel" ELSE "user",
                     stack |-> p, depth |-> 0]
  <1>1. /\ cpu.at = "create" /\ contexts' = [contexts EXCEPT ![p] = new]
        /\ UNCHANGED <<cpu, frames, current_pid>>
    BY DEF ProcessCreate
  <1>2. /\ cpu \in Stream /\ contexts \in [Pid -> Stream]
    BY InStepTypes
  <1>3. cpu.at \notin IrqCode /\ Plain(cpu) /\ cpu.pid = current_pid /\ cpu.pid = -1
    <2>1. cpu.at \in BootCode /\ cpu.at \notin IrqCode
      BY <1>1 DEF BootCode, IrqCode
    <2>2. QED
      BY <1>2, <2>1, PlainPlaces DEF InStep
  <1>4. Created' = Created \cup {p} /\ p \notin Created
    BY IrqCreate
  <1>5. Plain(new) /\ new.pid = p /\ Base(new, frames) = new
        /\ View(new) = [pid |-> p, at |-> IF p = 0 THEN "kernel" ELSE "user"]
    BY DEF Plain, Pid, TaskCode, Base, IrqCode, View
  <1> HIDE DEF new
  <1>6. /\ contexts'[p] = new
        /\ \A q \in Pid : q # p => contexts'[q] = contexts[q]
    BY <1>1, <1>2
  <1>7. InStep'
    <2>1. \A q \in (Created \ {current_pid})' :
              contexts'[q].pid = q /\ Whole(contexts'[q], frames')
      <3>1. TAKE q \in (Created \ {current_pid})'
      <3>2. CASE q = p
        BY <1>5, <1>6, <3>2 DEF Whole
      <3>3. CASE q # p
        <4>1. q \in Created \ {current_pid} /\ q \in Pid
          BY <1>1, <1>4, <3>3, InStepTypes
        <4>2. QED
          BY <1>1, <1>6, <3>3, <4>1 DEF InStep
      <3>4. QED
        BY <3>2, <3>3
    <2>2. QED
      BY <1>1, <1>3, <2>1 DEF InStep
  <1>8. Running' = Running /\ Running.pid = -1
    BY <1>1, <1>3 DEF Running, View, Base
  <1>9. -1 \notin Pid
    BY DEF Pid
  <1>10. Saved[p] = TS!Nothing
    <2>1. contexts[p] = NoContext
      BY <1>4 DEF Created
    <2>2. View(Base(NoContext, frames)) = TS!Nothing
      BY DEF View, Base, NoContext, IrqCode, TS!Nothing
    <2>3. QED
      BY <1>3, <1>9, <2>1, <2>2 DEF Saved
  <1>11. Saved' = [Saved EXCEPT ![p] = View(new)]
    <2>1. \A q \in Pid : Saved'[q] = [Saved EXCEPT ![p] = View(new)][q]
      BY <1>1, <1>3, <1>5, <1>6, <1>9 DEF Saved
    <2>2. QED
      BY <2>1 DEF Saved
  <1>12. TS!BootMoves
    BY <1>1, <1>5, <1>8, <1>10, <1>11 DEF TS!BootMoves, TS!Process, Pid, Running, Saved
  <1>13. QED
    BY <1>7, <1>12

\* A process goes on in its own code or in the kernel's.
LEMMA SwitchTask ==
    ASSUME IrqInv, InStep, IrqInv', Task
    PROVE  InStep' /\ TS!TaskMoves
  <1> DEFINE Ways == {<<"user", "entry">>, <<"entry", "kernel">>, <<"kernel", "closed">>,
                      <<"closed", "kernel">>, <<"kernel", "user">>, <<"user", "dead">>}
  <1>1. PICK way \in Ways : Goto(way[1], way[2]) /\ (way[1] = "kernel" => cpu.pid \in User)
    BY DEF Task, Syscall, Sti, Disable, Enable, Sysret, Exception
  <1>2. UNCHANGED taskVars
    BY DEF Task, Syscall, Sti, Disable, Enable, Sysret, Exception
  <1>3. cpu \in Stream /\ cpu' \in Stream
    BY InStepTypes DEF IrqInv, TypeOK
  <1>4. /\ way[1] \notin IrqCode /\ way[2] \notin IrqCode
        /\ way[1] \in {"user", "entry", "kernel", "closed"}
        /\ way[2] \in TaskCode \cup {"dead"}
    BY DEF IrqCode, TaskCode
  <1>5. cpu.at = way[1] /\ Plain(cpu) /\ cpu.pid = current_pid /\ cpu.pid \in User
    BY <1>1, <1>3, <1>4, PlainPlaces DEF Goto, InStep
  <1>6. /\ cpu' = [cpu EXCEPT !.at = way[2]]
        /\ cpu'.at = way[2] /\ cpu'.pid = cpu.pid
        /\ cpu'.stack = cpu.stack /\ cpu'.depth = cpu.depth
    BY <1>1, <1>3 DEF Goto, Stream
  <1>7. Plain(cpu')
    BY <1>4, <1>5, <1>6 DEF Plain, User
  <1>8. InStep'
    BY <1>2, <1>4, <1>5, <1>6, <1>7, SameMemory DEF InStep
  <1>9. Base(cpu, frames) = cpu /\ Base(cpu', frames') = cpu'
    BY <1>4, <1>5, <1>6 DEF Base
  <1>10. /\ Running.pid = current_pid /\ Running.at = way[1]
         /\ Running' = [Running EXCEPT !.at = way[2]]
    <2>1. Running = View(cpu) /\ Running' = View(cpu')
      BY <1>9 DEF Running
    <2>2. QED
      BY <1>5, <1>6, <2>1 DEF View
  <1>11. TS!TaskMoves
    BY <1>2, <1>5, <1>10, SameMemory DEF TS!TaskMoves, User, Running, Saved
  <1>12. QED
    BY <1>8, <1>11

\* The processes that are not current stay as they are while the frames under
\* them do.
LEMMA OthersKept ==
    ASSUME IrqInv, InStep, IrqInv', UNCHANGED <<contexts, current_pid>>,
           \A q \in Created \ {current_pid} :
               \A d \in 1 .. contexts[q].depth : frames'[q][d] = frames[q][d]
    PROVE  /\ Created' = Created
           /\ \A q \in Created \ {current_pid} :
                  contexts[q].pid = q /\ Whole(contexts[q], frames')
           /\ Saved' = Saved
  <1>1. /\ frames \in Memory /\ frames' \in Memory /\ contexts \in [Pid -> Stream]
        /\ Created \subseteq Pid
    BY InStepTypes DEF IrqInv, TypeOK, Memory
  <1>2. Created' = Created
    BY DEF Created
  <1>3. \A q \in Created \ {current_pid} :
            /\ contexts[q].pid = q /\ Whole(contexts[q], frames')
            /\ Base(contexts[q], frames') = Base(contexts[q], frames)
    <2>1. TAKE q \in Created \ {current_pid}
    <2>2. contexts[q] \in Stream /\ contexts[q].pid = q /\ Whole(contexts[q], frames)
      BY <1>1 DEF InStep
    <2>3. /\ Whole(contexts[q], frames')
          /\ Bottom(contexts[q], frames') = Bottom(contexts[q], frames)
      BY <1>1, <2>2, WholeKept
    <2>4. QED
      BY <1>1, <2>2, <2>3, WholeBase
  <1>4. \A q \in Pid \ Created : Base(contexts[q], frames') = Base(contexts[q], frames)
    BY DEF Created, Base, NoContext, IrqCode
  <1>5. \A q \in Pid : Saved'[q] = Saved[q]
    BY <1>3, <1>4 DEF Saved
  <1>6. Saved' = Saved
    BY <1>5 DEF Saved
  <1>7. QED
    BY <1>2, <1>3, <1>6

\* A late tick nests only on the stack of a process that has not been switched.
LEMMA SwitchAccept ==
    ASSUME NESTING \subseteq {"own"}, IrqInv, InStep, IrqInv', Accept
    PROVE  InStep' /\ Running' = Running /\ Saved' = Saved
  <1> DEFINE S == FrameStack(cpu)
             d == FrameDepth(cpu)
  <1>1. /\ cpu \in Stream /\ frames \in Memory /\ frames' \in Memory /\ cpu' \in Stream
        /\ contexts \in [Pid -> Stream] /\ Created \subseteq Pid
    BY InStepTypes DEF IrqInv, TypeOK, Memory
  <1>2. /\ frames' = [frames EXCEPT ![S][d] = cpu]
        /\ cpu' = [pid |-> cpu.pid, at |-> "cli", stack |-> S, depth |-> d]
        /\ UNCHANGED <<contexts, current_pid>>
    BY DEF Accept
  <1>3. /\ Whole(cpu, frames) /\ Base(cpu, frames) = Bottom(cpu, frames)
        /\ cpu.pid = current_pid /\ S \in {SHARED, cpu.pid}
        /\ S = cpu.pid => d = cpu.depth + 1
    <2>1. cpu.pid # SHARED
      BY <1>1, InterruptsAssumption DEF Stream, SHARED, Pid
    <2>2. CASE cpu.at \notin IrqCode
      BY <2>1, <2>2 DEF InStep, Whole, Base, Bottom, FrameStack, FrameDepth, Plain
    <2>3. CASE cpu.at \in IrqCode
      <3>1. cpu.at = "return"
        BY <2>3 DEF Accept, IrqInv, InService, IrqCode
      <3>2. cpu.stack # SHARED /\ Frame.pid = cpu.pid
        BY <2>3 DEF Accept, MayNest, NestingKind, Frame
      <3>3. /\ cpu.stack = cpu.pid /\ cpu.pid = current_pid
            /\ Whole(Frame, frames) /\ Frame.depth = cpu.depth - 1
        BY <2>3, <3>2 DEF InStep
      <3>4. Frame = frames[cpu.pid][cpu.depth] /\ cpu.depth > 0
        BY <2>3, <3>3 DEF Frame, IrqInv
      <3>5. Whole(cpu, frames) /\ Bottom(cpu, frames) = Bottom(Frame, frames)
        BY <1>1, <3>1, <3>2, <3>3, <3>4, WholeAbove
      <3>6. Base(cpu, frames) = Bottom(Frame, frames)
        BY <2>3 DEF Base, Frame
      <3>7. QED
        BY <3>1, <3>3, <3>5, <3>6 DEF FrameStack, FrameDepth
    <2>4. QED
      BY <2>2, <2>3
  <1>4. S \in Stack /\ d \in 1 .. MAX_DEPTH
    <2>1. /\ cpu' \in Stream /\ cpu'.stack = S /\ cpu'.depth = d
      BY <1>1, <1>2
    <2>2. cpu'.at \in IrqCode
      BY <1>2 DEF IrqCode
    <2>3. cpu'.depth > 0
      BY <2>2 DEF IrqInv
    <2>4. QED
      BY <2>1, <2>3, InterruptsAssumption DEF Stream
  <1> HIDE DEF S, d
  <1>5. /\ frames'[S][d] = cpu
        /\ \A s \in Stack, e \in 1 .. MAX_DEPTH :
               s # S \/ e # d => frames'[s][e] = frames[s][e]
    BY <1>1, <1>2, <1>4 DEF Memory
  <1>6. \A e \in 1 .. cpu.depth : frames'[cpu.pid][e] = frames[cpu.pid][e]
    <2>1. /\ cpu.pid \in Stack /\ cpu.depth \in 0 .. MAX_DEPTH
      BY <1>1 DEF Stream, Stack, BOOT
    <2>2. \A e \in 1 .. cpu.depth : e \in 1 .. MAX_DEPTH /\ e # cpu.depth + 1
      BY <2>1, InterruptsAssumption
    <2>3. QED
      BY <1>3, <1>5, <2>1, <2>2
  <1>7. Whole(cpu, frames') /\ Bottom(cpu, frames') = Bottom(cpu, frames)
    BY <1>1, <1>3, <1>6, WholeKept
  <1>8. \A q \in Created \ {current_pid} :
            \A e \in 1 .. contexts[q].depth : frames'[q][e] = frames[q][e]
    <2>1. TAKE q \in Created \ {current_pid}
    <2>2. q \in Stack /\ q # S /\ contexts[q].depth \in 0 .. MAX_DEPTH
      BY <1>1, <1>3, InterruptsAssumption DEF Stack, SHARED, Pid, Stream
    <2>3. \A e \in 1 .. contexts[q].depth : e \in 1 .. MAX_DEPTH
      BY <2>2, InterruptsAssumption
    <2>4. QED
      BY <1>5, <2>2, <2>3
  <1>9. Frame' = cpu
    BY <1>2, <1>5 DEF Frame
  <1>10. /\ Created' = Created /\ Saved' = Saved
         /\ \A q \in Created \ {current_pid} :
                contexts[q].pid = q /\ Whole(contexts[q], frames')
    BY <1>2, <1>8, OthersKept
  <1>11. cpu.depth \in Nat
    BY <1>1, InterruptsAssumption DEF Stream
  <1>12. InStep'
    <2>1. /\ cpu'.pid = cpu.pid /\ cpu'.at = "cli" /\ cpu'.stack = S /\ cpu'.depth = d
          /\ cpu'.at \in IrqCode
      BY <1>2 DEF IrqCode
    <2>2. S = cpu.pid => cpu.depth = d - 1
      BY <1>3, <1>11
    <2>3. Whole(Frame', frames') /\ Frame'.pid = current_pid'
      BY <1>2, <1>3, <1>7, <1>9
    <2>4. (Created \ {current_pid})' = Created \ {current_pid}
      BY <1>2, <1>10
    <2>5. QED
      BY <1>2, <1>3, <1>9, <1>10, <2>1, <2>2, <2>3, <2>4 DEF InStep
  <1>13. Base(cpu', frames') = Bottom(cpu, frames')
    BY <1>2, <1>5 DEF Base, IrqCode
  <1>14. QED
    BY <1>3, <1>7, <1>10, <1>12, <1>13 DEF Running

\* Within the interrupt path nothing is seen while the memory is left alone.
LEMMA SwitchStill ==
    ASSUME IrqInv, InStep, NEW from \in IrqCode, NEW to \in IrqCode, Goto(from, to),
           UNCHANGED taskVars,
           to \in {"cli", "walk"} => from \in {"cli", "walk"}
    PROVE  InStep' /\ Running' = Running /\ Saved' = Saved
  <1>1. /\ cpu.at = from /\ cpu'.at = to /\ cpu'.pid = cpu.pid
        /\ cpu'.stack = cpu.stack /\ cpu'.depth = cpu.depth
    BY InStepTypes DEF Goto, Stream
  <1>2. /\ UNCHANGED <<frames, contexts, current_pid>> /\ Created' = Created /\ Saved' = Saved
    BY SameMemory
  <1>3. Frame' = Frame
    BY <1>1, <1>2 DEF Frame
  <1>4. InStep'
    BY <1>1, <1>2, <1>3 DEF InStep
  <1>5. Base(cpu', frames') = Base(cpu, frames)
    BY <1>1, <1>2 DEF Base
  <1>6. QED
    BY <1>2, <1>4, <1>5 DEF Running

\* The way out of a tick: the stream under it goes on.
LEMMA SwitchReturn ==
    ASSUME IrqInv, InStep, IrqInv', Return
    PROVE  InStep' /\ Running' = Running /\ Saved' = Saved
  <1> DEFINE S == cpu.stack
             d == cpu.depth
  <1>1. /\ cpu \in Stream /\ frames \in Memory /\ frames' \in Memory /\ cpu' \in Stream
        /\ contexts \in [Pid -> Stream] /\ Created \subseteq Pid
    BY InStepTypes DEF IrqInv, TypeOK, Memory
  <1>2. /\ cpu.at = "return" /\ cpu.at \in IrqCode /\ cpu' = Frame
        /\ frames' = IF S = SHARED THEN frames
                     ELSE [frames EXCEPT ![S][d] = NoContext]
        /\ UNCHANGED <<contexts, current_pid>>
    BY DEF Return, Frame, IrqCode
  <1>3. /\ Whole(Frame, frames) /\ Frame.pid = current_pid /\ S \in {SHARED, cpu.pid}
        /\ S = cpu.pid /\ cpu.pid = current_pid => Frame.depth = d - 1
        /\ S = cpu.pid /\ cpu.pid \in Pid \ {current_pid} => contexts[cpu.pid].depth = d - 1
    BY <1>2 DEF InStep
  <1>4. S \in Stack /\ d \in 1 .. MAX_DEPTH /\ Frame \in Stream
    BY <1>2, InStepTypes
  <1> HIDE DEF S, d
  <1>5. \A s \in Stack, e \in 1 .. MAX_DEPTH :
            s # S \/ e # d \/ S = SHARED => frames'[s][e] = frames[s][e]
    BY <1>1, <1>2, <1>4 DEF Memory
  <1>6. \A e \in 1 .. Frame.depth : frames'[Frame.pid][e] = frames[Frame.pid][e]
    <2>1. /\ Frame.pid \in Stack /\ Frame.depth \in 0 .. MAX_DEPTH
      BY <1>4 DEF Stream, Stack, BOOT
    <2>2. \A e \in 1 .. Frame.depth : e \in 1 .. MAX_DEPTH
      BY <2>1, InterruptsAssumption
    <2>3. \A e \in 1 .. Frame.depth : S = Frame.pid /\ S # SHARED => e # d
      BY <1>3, <1>4, <2>1, InterruptsAssumption
    <2>4. QED
      BY <1>5, <2>1, <2>2, <2>3
  <1>7. Whole(Frame, frames') /\ Bottom(Frame, frames') = Bottom(Frame, frames)
    BY <1>1, <1>3, <1>4, <1>6, WholeKept
  <1>8. \A q \in Created \ {current_pid} :
            \A e \in 1 .. contexts[q].depth : frames'[q][e] = frames[q][e]
    <2>1. TAKE q \in Created \ {current_pid}
    <2>2. q \in Pid /\ q \in Stack /\ q # SHARED /\ contexts[q].depth \in 0 .. MAX_DEPTH
      BY <1>1, InterruptsAssumption DEF Stack, SHARED, Pid, Stream
    <2>3. \A e \in 1 .. contexts[q].depth : e \in 1 .. MAX_DEPTH
      BY <2>2, InterruptsAssumption
    <2>4. \A e \in 1 .. contexts[q].depth : S = q => e # d
      BY <1>3, <1>4, <2>2, InterruptsAssumption
    <2>5. QED
      BY <1>5, <2>2, <2>3, <2>4
  <1>9. /\ Created' = Created /\ Saved' = Saved
        /\ \A q \in Created \ {current_pid} :
               contexts[q].pid = q /\ Whole(contexts[q], frames')
    BY <1>2, <1>8, OthersKept
  <1>10. /\ Base(cpu, frames) = Bottom(Frame, frames)
         /\ Base(cpu', frames') = Bottom(Frame, frames')
    BY <1>1, <1>2, <1>4, <1>7, WholeBase DEF Base, Frame
  <1>11. InStep'
    <2>1. CASE Plain(Frame)
      <3>1. cpu'.at \notin IrqCode
        BY <1>2, <1>4, <2>1, PlainPlaces
      <3>2. QED
        BY <1>2, <1>3, <1>9, <2>1, <3>1 DEF InStep
    <2>2. CASE Nested(Frame, frames')
      <3>1. /\ cpu'.at = "return" /\ cpu'.stack = cpu'.pid /\ cpu'.pid = current_pid
        BY <1>2, <1>3, <2>2 DEF Nested
      <3>2. Frame' = frames'[cpu'.pid][cpu'.depth]
        BY <3>1 DEF Frame
      <3>3. /\ Whole(frames'[cpu'.pid][cpu'.depth], frames')
            /\ frames'[cpu'.pid][cpu'.depth].pid = cpu'.pid
            /\ frames'[cpu'.pid][cpu'.depth].depth = cpu'.depth - 1
        BY <1>1, <1>2, <2>2, WholeBelow
      <3>4. QED
        BY <1>2, <1>9, <3>1, <3>2, <3>3 DEF InStep, IrqCode
    <2>3. QED
      BY <1>7, <2>1, <2>2 DEF Whole
  <1>12. QED
    BY <1>7, <1>9, <1>10, <1>11 DEF Running

\* The scheduler replaces the frame: the interrupted process is put away and the
\* one that is loaded goes on.
LEMMA SwitchStart ==
    ASSUME IrqInv, InStep, IrqInv', cpu.at = "walk", Created = Pid, Created' = Pid,
           NEW pid \in Pid, start_process(pid), Goto("walk", "eoi"),
           current_pid = -1 => pid = 0
    PROVE  InStep' /\ (TS!FirstSwitch \/ TS!Switch(pid))
  <1> DEFINE S == cpu.stack
             d == cpu.depth
             saved == IF current_pid = -1 THEN contexts
                      ELSE [contexts EXCEPT ![current_pid] = Frame]
             seen(q) == View(Bottom(saved[q], frames))
  <1>1. /\ cpu \in Stream /\ frames \in Memory /\ frames' \in Memory /\ cpu' \in Stream
        /\ contexts \in [Pid -> Stream] /\ current_pid \in {-1} \cup Pid /\ -1 \notin Pid
    BY InStepTypes DEF IrqInv, TypeOK, Memory, Pid
  <1>2. cpu.at \in IrqCode /\ S \in Stack /\ d \in 1 .. MAX_DEPTH /\ Frame \in Stream
    BY InStepTypes DEF IrqCode
  <1>3. /\ contexts' = saved /\ current_pid' = pid
        /\ frames' = [frames EXCEPT ![S][d] = saved[pid]]
    BY DEF start_process, Frame
  <1>4. /\ cpu'.at = "eoi" /\ cpu'.pid = cpu.pid /\ cpu'.stack = S /\ cpu'.depth = d
    BY <1>1 DEF Goto, Stream
  <1>5. /\ Whole(Frame, frames) /\ Frame.pid = current_pid /\ cpu.pid = current_pid
        /\ S \in {SHARED, cpu.pid}
        /\ S = cpu.pid => Frame.depth = d - 1
        /\ \A q \in Pid \ {current_pid} :
               contexts[q].pid = q /\ Whole(contexts[q], frames)
    BY <1>2 DEF InStep
  <1>6. \A q \in Pid : saved[q] = IF q = current_pid THEN Frame ELSE contexts[q]
    BY <1>1
  <1> HIDE DEF S, d, saved
  <1>7. \A q \in Pid : saved[q] \in Stream /\ saved[q].pid = q /\ Whole(saved[q], frames)
    BY <1>1, <1>2, <1>5, <1>6
  <1>8. /\ frames'[S][d] = saved[pid]
        /\ \A s \in Stack, e \in 1 .. MAX_DEPTH :
               s # S \/ e # d => frames'[s][e] = frames[s][e]
    BY <1>1, <1>2, <1>3 DEF Memory
  <1>9. \A q \in Pid : \A e \in 1 .. saved[q].depth : frames'[q][e] = frames[q][e]
    <2>1. TAKE q \in Pid
    <2>2. q \in Stack /\ q # SHARED /\ saved[q].depth \in 0 .. MAX_DEPTH
      BY <1>7, InterruptsAssumption DEF Stack, SHARED, Pid, Stream
    <2>3. \A e \in 1 .. saved[q].depth : e \in 1 .. MAX_DEPTH
      BY <2>2, InterruptsAssumption
    <2>4. \A e \in 1 .. saved[q].depth : S = q => e # d
      BY <1>2, <1>5, <1>6, <2>2, InterruptsAssumption
    <2>5. QED
      BY <1>8, <2>2, <2>3, <2>4
  <1>10. \A q \in Pid : /\ Whole(saved[q], frames')
                        /\ Bottom(saved[q], frames') = Bottom(saved[q], frames)
                        /\ Base(saved[q], frames') = Bottom(saved[q], frames)
                        /\ Base(saved[q], frames) = Bottom(saved[q], frames)
    <2>1. TAKE q \in Pid
    <2>2. /\ Whole(saved[q], frames')
          /\ Bottom(saved[q], frames') = Bottom(saved[q], frames)
      BY <1>1, <1>7, <1>9, WholeKept
    <2>3. QED
      BY <1>1, <1>7, <2>2, WholeBase
  <1>11. Frame' = saved[pid]
    BY <1>4, <1>8 DEF Frame
  <1>12. InStep'
    <2>1. \A q \in (Created \ {current_pid})' :
              contexts'[q].pid = q /\ Whole(contexts'[q], frames')
      BY <1>3, <1>7, <1>10
    <2>2. Whole(Frame', frames') /\ Frame'.pid = current_pid'
      BY <1>3, <1>7, <1>10, <1>11
    <2>3. S = cpu.pid /\ cpu.pid = pid => Frame'.depth = d - 1
      BY <1>5, <1>6, <1>11
    <2>4. S = cpu.pid /\ cpu.pid \in Pid \ {pid} => contexts'[cpu.pid].depth = d - 1
      BY <1>3, <1>5, <1>6
    <2>5. QED
      BY <1>3, <1>4, <1>5, <2>1, <2>2, <2>3, <2>4 DEF InStep, IrqCode
  <1>13. Running' = seen(pid)
    BY <1>4, <1>8, <1>10 DEF Running, Base, IrqCode
  <1>14. Running = View(Bottom(Frame, frames))
    BY <1>2 DEF Running, Base, Frame
  <1>15. \A q \in Pid : q # current_pid => Saved[q] = seen(q)
    BY <1>6, <1>10 DEF Saved
  <1>16. \A q \in Pid : Saved'[q] = IF q = pid THEN TS!Nothing ELSE seen(q)
    <2>1. View(NoContext) = TS!Nothing
      BY DEF View, NoContext, TS!Nothing
    <2>2. QED
      BY <1>3, <1>10, <2>1 DEF Saved
  <1>17. DOMAIN Saved = Pid /\ DOMAIN Saved' = Pid
    BY DEF Saved
  <1>18. CASE current_pid = -1
    <2>1. Running' = Saved[0] /\ pid = 0
      BY <1>1, <1>13, <1>15, <1>18
    <2>2. \A q \in Pid : Saved'[q] = [Saved EXCEPT ![0] = TS!Nothing][q]
      BY <1>1, <1>15, <1>16, <1>17, <1>18, <2>1
    <2>3. Saved' = [Saved EXCEPT ![0] = TS!Nothing]
      BY <1>17, <2>2 DEF Saved
    <2>4. TS!FirstSwitch
      BY <1>3, <1>18, <2>1, <2>3 DEF TS!FirstSwitch, Running, Saved
    <2>5. QED
      BY <1>12, <2>4
  <1>19. CASE current_pid # -1
    <2> DEFINE put == [Saved EXCEPT ![current_pid] = Running]
    <2>1. current_pid \in Pid
      BY <1>1, <1>19
    <2>2. \A q \in Pid : put[q] = seen(q)
      BY <1>6, <1>14, <1>15, <1>17, <2>1
    <2>3. Running' = put[pid]
      BY <1>13, <2>2
    <2>4. \A q \in Pid : Saved'[q] = [put EXCEPT ![pid] = TS!Nothing][q]
      BY <1>16, <1>17, <2>2
    <2>5. Saved' = [put EXCEPT ![pid] = TS!Nothing]
      BY <1>17, <2>4 DEF Saved
    <2>6. Running.pid = current_pid
      BY <1>1, <1>2, <1>5, <1>14, WholeBase DEF View
    <2>7. TS!Switch(pid)
      BY <1>3, <2>1, <2>3, <2>5, <2>6
      DEF TS!Switch, TS!Process, Pid, Running, Saved
    <2>8. QED
      BY <1>12, <2>7
  <1>20. QED
    BY <1>18, <1>19

\* A tick before any process exists: the first process has nothing in it.
LEMMA SwitchLoadNull ==
    ASSUME IrqInv, InStep, LoadNull
    PROVE  cpu'.at = "garbage" /\ TS!FirstSwitch
  <1>1. /\ cpu.at = "walk" /\ cpu' = NoContext /\ current_pid' = 0 /\ Created = {}
        /\ UNCHANGED <<frames, contexts>>
    BY DEF LoadNull
  <1>2. current_pid = -1
    BY <1>1 DEF IrqInv, BootCompletes
  <1>3. Base(NoContext, frames) = NoContext /\ View(NoContext) = TS!Nothing
    BY DEF Base, NoContext, IrqCode, View, TS!Nothing
  <1>4. \A p \in Pid : contexts[p] = NoContext
    BY <1>1 DEF Created
  <1>5. Saved = [p \in Pid |-> TS!Nothing] /\ Saved' = [p \in Pid |-> TS!Nothing]
    BY <1>1, <1>3, <1>4 DEF Saved
  <1>6. Running' = TS!Nothing
    BY <1>1, <1>3 DEF Running
  <1>7. 0 \in Pid
    BY InterruptsAssumption DEF Pid
  <1>8. TS!FirstSwitch
    BY <1>1, <1>2, <1>5, <1>6, <1>7 DEF TS!FirstSwitch, Running, Saved
  <1>9. QED
    BY <1>1, <1>8 DEF NoContext

\* Every step keeps the invariant, and is a step of TaskSwitch or goes unseen.
LEMMA SwitchStep ==
    ASSUME NESTING \subseteq {"own"}, SwitchInv, [Next]_vars
    PROVE  SwitchInv' /\ (TS!SwitchNext \/ (Running' = Running /\ Saved' = Saved
                                               /\ current_pid' = current_pid))
  <1>1. IrqInv /\ IrqInv' /\ (cpu.at # "garbage" => InStep)
    BY IrqStep DEF SwitchInv
  <1>2. CASE cpu.at = "garbage" /\ ~Raise
    <2>1. ~(Boot \/ Task \/ Accept \/ Irq)
      BY <1>2
      DEF Boot, SetupIdt, InstallBegin, ClearMask, Link, InstallEnd, PitDisable, PitEnable,
          ProcessDisable, ProcessCreate, ProcessEnable,
          Task, Syscall, Sti, Disable, Enable, Sysret, Exception,
          Accept, EndCode, Irq, Cli, Handle, LoadNull, Ignore, Eoi, Return, Goto
    <2>2. UNCHANGED vars
      BY <1>2, <2>1 DEF Next
    <2>3. cpu'.at = "garbage" /\ UNCHANGED <<cpu, frames, contexts, current_pid>>
      BY <1>2, <2>2 DEF vars, taskVars
    <2>4. QED
      BY <1>1, <2>3 DEF SwitchInv, Running, Saved
  <1>3. CASE Raise \/ UNCHANGED vars
    <2>1. UNCHANGED <<cpu, frames, contexts, current_pid>> /\ UNCHANGED taskVars
      BY <1>3 DEF Raise, vars, taskVars
    <2>2. InStep' <=> InStep
      BY <2>1 DEF InStep, Created, Frame
    <2>3. QED
      BY <1>1, <2>1, <2>2 DEF SwitchInv, Running, Saved
  <1>4. CASE cpu.at # "garbage" /\ Boot
    <2>1. CASE SetupIdt \/ InstallBegin \/ ClearMask \/ Link \/ InstallEnd
      BY <1>1, <1>4, <2>1, SwitchBootGoto
      DEF SetupIdt, InstallBegin, ClearMask, Link, InstallEnd, BootCode,
          SwitchInv, TS!SwitchNext
    <2>2. CASE PitDisable \/ PitEnable \/ ProcessDisable \/ ProcessEnable
      BY <1>1, <1>4, <2>2, SwitchBootGoto
      DEF PitDisable, PitEnable, ProcessDisable, ProcessEnable, BootCode,
          SwitchInv, TS!SwitchNext
    <2>3. CASE \E p \in Pid : ProcessCreate(p)
      BY <1>1, <1>4, <2>3, SwitchCreate DEF SwitchInv, TS!SwitchNext
    <2>4. QED
      BY <1>4, <2>1, <2>2, <2>3 DEF Boot
  <1>5. CASE cpu.at # "garbage" /\ Task
    BY <1>1, <1>5, SwitchTask DEF SwitchInv, TS!SwitchNext
  <1>6. CASE cpu.at # "garbage" /\ Accept
    BY <1>1, <1>6, SwitchAccept DEF SwitchInv, Accept
  <1>7. CASE cpu.at # "garbage" /\ (Cli \/ Ignore \/ Eoi)
    <2>1. UNCHANGED taskVars /\ UNCHANGED current_pid
      BY <1>7 DEF Cli, Ignore, Eoi, taskVars
    <2>2. InStep' /\ Running' = Running /\ Saved' = Saved
      BY <1>1, <1>7, <2>1, SwitchStill DEF Cli, Ignore, Eoi, IrqCode
    <2>3. QED
      BY <1>1, <2>1, <2>2 DEF SwitchInv
  <1>8. CASE cpu.at # "garbage" /\ Handle
    <2>1. Goto("walk", "eoi") /\ cpu.at = "walk"
      BY <1>8 DEF Handle, Goto
    <2>2. CASE UNCHANGED taskVars
      <3>1. InStep' /\ Running' = Running /\ Saved' = Saved
        BY <1>1, <1>8, <2>1, <2>2, SwitchStill DEF IrqCode
      <3>2. QED
        BY <1>1, <2>2, <3>1 DEF SwitchInv, taskVars
    <2>3. CASE \E pid \in Created : start_process(pid) /\ (current_pid = -1 => pid = 0)
      <3>1. PICK pid \in Created : start_process(pid) /\ (current_pid = -1 => pid = 0)
        BY <2>3
      <3>2. Created # {} /\ iflag' = TRUE /\ UNCHANGED <<picVars, installed>>
        BY <1>8 DEF Handle
      <3>3. Created = Pid /\ Created' = Pid
        BY <1>1, <2>1, <3>1, <3>2, IrqStart
      <3>4. InStep' /\ (TS!FirstSwitch \/ TS!Switch(pid))
        BY <1>1, <1>8, <2>1, <3>1, <3>3, SwitchStart
      <3>5. pid \in TS!Process
        BY <3>1, <3>3 DEF TS!Process, Pid
      <3>6. QED
        BY <1>1, <3>4, <3>5 DEF SwitchInv, TS!SwitchNext
    <2>4. 0 \in Created
      BY <1>1, <1>8, <2>1, InterruptsAssumption DEF Handle, IrqInv, Pid
    <2>5. QED
      BY <1>8, <2>2, <2>3, <2>4 DEF Handle
  <1>9. CASE cpu.at # "garbage" /\ LoadNull
    BY <1>1, <1>9, SwitchLoadNull DEF SwitchInv, TS!SwitchNext
  <1>10. CASE cpu.at # "garbage" /\ Return
    BY <1>1, <1>10, SwitchReturn DEF SwitchInv, Return
  <1>11. QED
    BY <1>2, <1>3, <1>4, <1>5, <1>6, <1>7, <1>8, <1>9, <1>10 DEF Next, Irq

\* While late ticks nest only on the stack of a process that has not been switched,
\* the path of a tick through irq.S, idt.c and process.c is a switch in one step:
\* every process goes on where it was interrupted.
THEOREM TaskSwitchImplemented ==
    ASSUME NESTING \subseteq {"own"}
    PROVE  Spec => ImplementsTaskSwitch
  <1>1. SwitchInv /\ [Next]_vars => SwitchInv'
    BY SwitchStep
  <1>2. SwitchInv /\ [Next]_vars => [TS!SwitchNext]_(TS!switchVars)
    <2> SUFFICES ASSUME SwitchInv, [Next]_vars
                 PROVE  [TS!SwitchNext]_(TS!switchVars)
      OBVIOUS
    <2>1. TS!SwitchNext \/ (Running' = Running /\ Saved' = Saved /\ current_pid' = current_pid)
      BY SwitchStep
    <2>2. QED
      BY <2>1 DEF TS!switchVars, Running, Saved
  <1>3. Spec => TS!SwitchInit
    BY MappedInit DEF Spec
  <1>4. QED
    BY <1>1, <1>2, <1>3, SwitchInit, PTL DEF Spec, ImplementsTaskSwitch, TS!SwitchSpec

=============================================================================
