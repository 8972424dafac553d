---------------------------- MODULE RoutinesProof ----------------------------
(***************************************************************************)
(* The sequential routines of MCRoutines, for all their inputs.            *)
(***************************************************************************)
EXTENDS MCRoutines, SequenceTheorems, TLAPS

LOCAL INSTANCE SequencesExt
LOCAL INSTANCE FiniteSetsExt

\* What a call returned was returned by the routine.
LEMMA Calls ==
    ASSUME RoutinesNext
    PROVE  /\ call'.routine = "mkfs" => \E num_blocks \in NUM_BLOCKS : CallMkfs(num_blocks)
           /\ call'.routine = "boot" => \E headers \in LAYOUTS : CallBoot(headers)
           /\ call'.routine = "syscall" =>
                  \/ \E ms, pit_counter \in 0 .. 2^WORD_BITS - 1, gap \in 1 .. 3 :
                         CallSystem(<<SYSCALL_SLEEP, ms>>, Around(pit_counter, gap))
                  \/ \E values \in SyscallValues : CallSystem(values, Around(0, 1))
           /\ call'.routine = "stage2" => \E before \in Memories : CallTables(before)
           /\ call'.routine = "udivmod" => \E n \in Word, d \in Word \ {0} : CallDivision(n, d)
           /\ call'.routine = "snprintf" =>
                  \E count \in DOMAIN Old, text \in Texts : CallSnprintf(count, text)
           /\ call'.routine = "irq_stub" => \E vector \in 0 .. 48 : CallFrame(vector)
           /\ call'.routine = "pic" =>
                  CallSetupIdt \/ CallEnd
                  \/ \E l \in LINES : CallInstall(l) \/ CallSetMask(l) \/ CallInterrupt(l)
           /\ UNCHANGED ring \/ \E pid \in PIDS, t \in TIMES : CallSleep(pid, t)
<1>1. CallMalloc => call'.routine = "malloc" /\ UNCHANGED ring
  BY DEF CallMalloc
<1>2. CallProcessCreate => call'.routine = "process_create" /\ UNCHANGED ring
  BY DEF CallProcessCreate
<1>3. \A pid \in PIDS, t \in TIMES : CallSleep(pid, t) => call'.routine = "sleep_process"
  BY DEF CallSleep
<1>4. \A n \in Word, d \in Word \ {0} :
          CallDivision(n, d) => call'.routine = "udivmod" /\ UNCHANGED ring
  BY DEF CallDivision
<1>5. \A num_blocks \in NUM_BLOCKS :
          CallMkfs(num_blocks) => call'.routine = "mkfs" /\ UNCHANGED ring
  BY DEF CallMkfs
<1>6. \A headers \in LAYOUTS : CallBoot(headers) => call'.routine = "boot" /\ UNCHANGED ring
  BY DEF CallBoot
<1>7. \A d \in Directives : \A arg \in ArgsOf(d) :
          CallPrintf(d, arg) => call'.routine = "printf" /\ UNCHANGED ring
  BY DEF CallPrintf
<1>8. \A count \in DOMAIN Old, text \in Texts :
          CallSnprintf(count, text) => call'.routine = "snprintf" /\ UNCHANGED ring
  BY DEF CallSnprintf
<1>9. \A values, around : CallSystem(values, around) => call'.routine = "syscall" /\ UNCHANGED ring
  BY DEF CallSystem
<1>10. \A vector \in 0 .. 48 : CallFrame(vector) => call'.routine = "irq_stub" /\ UNCHANGED ring
  BY DEF CallFrame
<1>11. \A before \in Memories : CallTables(before) => call'.routine = "stage2" /\ UNCHANGED ring
  BY DEF CallTables
<1>12. CallSetupIdt => call'.routine = "pic" /\ UNCHANGED ring
  BY DEF CallSetupIdt
<1>13. ASSUME NEW l \in LINES, CallInstall(l) \/ CallSetMask(l) \/ CallInterrupt(l)
       PROVE  call'.routine = "pic" /\ UNCHANGED ring
  <2>1. CASE CallInstall(l)
    BY <2>1 DEF CallInstall
  <2>2. CASE CallSetMask(l)
    BY <2>2 DEF CallSetMask
  <2>3. CASE CallInterrupt(l)
    BY <2>3 DEF CallInterrupt
  <2> QED
    BY <1>13, <2>1, <2>2, <2>3
<1>14. CallEnd => call'.routine = "pic" /\ UNCHANGED ring
  BY DEF CallEnd
<1> QED
  BY <1>1, <1>2, <1>3, <1>4, <1>5, <1>6, <1>7, <1>8, <1>9, <1>10, <1>11, <1>12, <1>13, <1>14
  DEF RoutinesNext

-----------------------------------------------------------------------------
(* Loops.  A loop is a recursive function of the number of its iterations. *)

Nats == INSTANCE WellFoundedInduction

LEMMA LeastNumber ==
    ASSUME NEW T \in SUBSET Nat, T # {}
    PROVE  \E x \in T : \A y \in T : x <= y
<1>1. Nats!IsWellFoundedOn(Nats!OpToRel(<, Nat), Nat)
  BY Nats!NatLessThanWellFounded
<1> DEFINE R == Nats!OpToRel(<, Nat)
<1>2. \A x, y \in Nat : <<y, x>> \in R <=> y < x
  BY DEF Nats!OpToRel
<1> HIDE DEF R
<1>3. Nats!IsWellFoundedOn(R, Nat)
  BY <1>1 DEF R
<1>4. \E x \in T : \A y \in T : ~ (<<y, x>> \in R)
  BY <1>3, Nats!WFMin
<1>5. PICK x \in T : \A y \in T : ~ (<<y, x>> \in R)
  BY <1>4
<1>6. ASSUME NEW y \in T PROVE x <= y
  <2>1. x \in Nat /\ y \in Nat /\ ~ (<<y, x>> \in R)
    BY <1>5
  <2> QED
    BY <1>2, <2>1
<1> QED
  BY <1>6

\* Induction from first to last.
LEMMA Induct ==
    ASSUME NEW first \in Nat, NEW last \in Nat, NEW T, first \in T,
           \A k \in first .. last - 1 : k \in T => k + 1 \in T
    PROVE  \A k \in first .. last : k \in T
<1> DEFINE Out == {k \in first .. last : k \notin T}
<1> SUFFICES ASSUME Out # {} PROVE FALSE
  OBVIOUS
<1>1. Out \in SUBSET Nat
  OBVIOUS
<1>2. PICK x \in Out : \A y \in Out : x <= y
  BY <1>1, LeastNumber
<1>3. x \in first .. last /\ x \notin T /\ x - 1 \in first .. last - 1
  BY <1>2
<1>4. x - 1 \in T
  BY <1>2, <1>3
<1>5. (x - 1) + 1 \in T
  BY <1>3, <1>4
<1> QED
  BY <1>3, <1>5

\* The recursive function that runs a loop: after[i] is what it leaves behind at i.
Runs(after, first, last, base, body) ==
    \A i \in first .. last : after[i] = IF i = first THEN base ELSE body[i][after[i - 1]]

LEMMA Iterated ==
    ASSUME NEW first \in Nat, NEW last \in Nat, first <= last,
           NEW V, NEW base \in V, NEW body \in [first .. last -> [V -> V]]
    PROVE  \E after \in [first .. last -> V] : Runs(after, first, last, base, body)
<1> DEFINE Solves(g, k) ==
               /\ g \in [first .. k -> V]
               /\ g[first] = base
               /\ \A i \in first + 1 .. k : g[i] = body[i][g[i - 1]]
           T == {k \in first .. last : \E g : Solves(g, k)}
<1>1. first \in T
  <2>1. Solves([i \in first .. first |-> base], first)
    OBVIOUS
  <2> HIDE DEF Solves
  <2> QED
    BY <2>1
<1>2. ASSUME NEW k \in first .. last - 1, k \in T PROVE k + 1 \in T
  <2>1. PICK g : Solves(g, k)
    BY <1>2
  <2> DEFINE new == body[k + 1][g[k]]
             h == [i \in first .. k + 1 |-> IF i = k + 1 THEN new ELSE g[i]]
  <2>2. g[k] \in V /\ new \in V
    BY <2>1
  <2>3. h \in [first .. k + 1 -> V]
    <3>1. ASSUME NEW i \in first .. k + 1 PROVE (IF i = k + 1 THEN new ELSE g[i]) \in V
      <4>1. i # k + 1 => i \in first .. k
        OBVIOUS
      <4> QED
        BY <2>1, <2>2, <4>1
    <3> HIDE DEF new
    <3> QED
      BY <3>1
  <2>4. h[first] = base
    BY <2>1
  <2>5. ASSUME NEW i \in first + 1 .. k + 1 PROVE h[i] = body[i][h[i - 1]]
    <3>1. CASE i = k + 1
      BY <3>1
    <3>2. CASE i # k + 1
      <4>1. i \in first + 1 .. k /\ i \in first .. k + 1 /\ i - 1 \in first .. k + 1 /\ i - 1 # k + 1
        BY <3>2
      <4>2. h[i] = g[i] /\ h[i - 1] = g[i - 1]
        BY <4>1
      <4> QED
        BY <2>1, <4>1, <4>2
    <3> QED
      BY <3>1, <3>2
  <2> HIDE DEF h
  <2>6. Solves(h, k + 1)
    BY <2>3, <2>4, <2>5
  <2> HIDE DEF Solves
  <2> QED
    BY <2>6
<1>3. \A k \in first .. last : k \in T
  <2> HIDE DEF T
  <2> QED
    BY <1>1, <1>2, Induct
<1>4. last \in T
  <2> HIDE DEF T
  <2>1. last \in first .. last
    OBVIOUS
  <2> QED
    BY <1>3, <2>1
<1>5. PICK g : Solves(g, last)
  <2> HIDE DEF Solves
  <2> QED
    BY <1>4
<1> QED
  BY <1>5 DEF Runs

-----------------------------------------------------------------------------
(* Interrupt lines.                                                        *)

LEMMA LineFacts ==
    /\ LINES \subseteq Line /\ CASCADE \notin LINES /\ CASCADE \in Line
    /\ \A l \in Line : l \in 0 .. 15 /\ l \in 0 .. 48
BY RoutinesAssumption DEF Line, CASCADE

\* setup_idt opens nothing but the second controller's line.
LEMMA PicSetup ==
    /\ setup_idt = PicOf({}, <<>>, setup_idt.handlers)
    /\ PicSound({}, <<>>, setup_idt.handlers)
<1>1. setup_idt.handlers = [num \in 0 .. 48 |-> <<>>]
  BY DEF setup_idt
<1>2. LinesOf(<<>>) = {} /\ InServiceFor({}) = {}
  BY DEF LinesOf, InServiceFor, Second
<1>3. Nested(<<>>, [num \in 0 .. 48 |-> <<>>])
  BY DEF Nested
<1>4. setup_idt = PicOf({}, <<>>, setup_idt.handlers)
  BY <1>1, <1>2 DEF setup_idt, PicOf
<1> HIDE DEF setup_idt
<1>5. PicSound({}, <<>>, [num \in 0 .. 48 |-> <<>>])
  BY <1>3, LineFacts DEF PicSound, Lists
<1> QED
  BY <1>1, <1>4, <1>5

\* The bit of a line is the line's.
LEMMA PicBits ==
    ASSUME NEW l \in Line
    PROVE  Port(l) + Bit(l) = l /\ ~(l >= 16) /\ ~(Bit(l) > 7)
BY DEF Line, Port, Bit

LEMMA OneBehind ==
    ASSUME NEW x, NEW y
    PROVE  <<x>> \o <<y>> = <<x, y>> /\ <<x>> \o <<>> = <<x>>
<1>1. <<x>> \in Seq({x, y}) /\ <<y>> \in Seq({x, y}) /\ <<x, y>> \in Seq({x, y})
      /\ Len(<<x>>) = 1 /\ Len(<<y>>) = 1 /\ Len(<<x, y>>) = 2
  OBVIOUS
<1>2. /\ <<x>> \o <<y>> \in Seq({x, y}) /\ Len(<<x>> \o <<y>>) = 2
      /\ (<<x>> \o <<y>>)[1] = x /\ (<<x>> \o <<y>>)[2] = y
  <2> DEFINE s == <<x>>
             t == <<y>>
  <2>1. s[1] = x /\ t[1] = y
    OBVIOUS
  <2> HIDE DEF s, t
  <2>2. s \in Seq({x, y}) /\ t \in Seq({x, y}) /\ Len(s) = 1 /\ Len(t) = 1
    BY <1>1 DEF s, t
  <2>3. /\ s \o t \in Seq({x, y}) /\ Len(s \o t) = 2
        /\ \A i \in 1 .. 2 : (s \o t)[i] = IF i <= 1 THEN s[i] ELSE t[i - 1]
    BY <2>2, ConcatProperties
  <2>4. (s \o t)[1] = x /\ (s \o t)[2] = y
    BY <2>1, <2>3
  <2> QED
    BY <2>3, <2>4 DEF s, t
<1>3. <<x>> \o <<y>> = <<x, y>>
  <2> DEFINE s == <<x>> \o <<y>>
  <2> HIDE DEF s
  <2>1. s \in Seq({x, y}) /\ Len(s) = 2 /\ s[1] = x /\ s[2] = y
    BY <1>2 DEF s
  <2>2. s = <<x, y>>
    BY <2>1
  <2> QED
    BY <2>2 DEF s
<1> QED
  BY <1>3

\* One handler more at the front of the list.
LEMMA OneMore ==
    ASSUME NEW l, NEW s \in Lists(l), Len(s) < 2
    PROVE  /\ <<<<l, Len(s)>>>> \o s \in Lists(l) \ {<<>>}
<1>1. s = <<>> \/ s = <<<<l, 0>>>>
  <2>1. Len(<<<<l, 1>>, <<l, 0>>>>) = 2
    OBVIOUS
  <2> QED
    BY <2>1 DEF Lists
<1>2. CASE s = <<>>
  <2>1. Len(s) = 0
    BY <1>2
  <2>2. <<<<l, 0>>>> \o <<>> = <<<<l, 0>>>>
    BY OneBehind
  <2> QED
    BY <1>2, <2>1, <2>2 DEF Lists
<1>3. CASE s = <<<<l, 0>>>>
  <2>1. Len(s) = 1
    BY <1>3
  <2>2. <<<<l, 1>>>> \o <<<<l, 0>>>> = <<<<l, 1>>, <<l, 0>>>>
    BY OneBehind
  <2> QED
    BY <1>3, <2>1, <2>2 DEF Lists
<1> QED
  BY <1>1, <1>2, <1>3

\* What Nested says of an interrupt.
LEMMA ActiveFacts ==
    ASSUME NEW a, NEW h, Nested(a, h)
    PROVE  /\ a \in Seq([line : LINES, vector : Nat])
           /\ Len(a) \in Nat /\ DOMAIN a = 1 .. Len(a)
           /\ \A k \in 1 .. Len(a) :
                  /\ a[k].line \in LINES /\ a[k].vector = 32 + a[k].line
                  /\ h[a[k].line] # <<>>
           /\ \A k, m \in 1 .. Len(a) : k < m => Rank(a[m].line) < Rank(a[k].line)
<1>1. a \in Seq([line : LINES, vector : Nat])
  BY DEF Nested
<1>2. Len(a) \in Nat /\ DOMAIN a = 1 .. Len(a)
  BY <1>1
<1>3. \A k \in 1 .. Len(a) : a[k] \in [line : LINES, vector : Nat]
  BY <1>1, ElementOfSeq
<1> QED
  BY <1>1, <1>2, <1>3 DEF Nested

\* A handler that is the first of its line opens it.
LEMMA PicInstall ==
    ASSUME NEW o, NEW a, NEW h, PicSound(o, a, h), NEW l \in LINES, Len(h[l]) < 2
    PROVE  LET now == IF h[l] = <<>> THEN o \cup {l} ELSE o
               new == [h EXCEPT ![l] = <<<<l, Len(h[l])>>>> \o @]
           IN /\ install_irq_handler(PicOf(o, a, h), l, <<l, Len(h[l])>>) = PicOf(now, a, new)
              /\ PicSound(now, a, new)
<1> DEFINE now == IF h[l] = <<>> THEN o \cup {l} ELSE o
           list == <<<<l, Len(h[l])>>>> \o h[l]
           new == [h EXCEPT ![l] = list]
<1>1. /\ h = [num \in 0 .. 48 |-> h[num]]
      /\ \A k \in Line : h[k] \in Lists(k)
      /\ o \subseteq {k \in LINES : h[k] # <<>>}
      /\ Nested(a, h)
  BY DEF PicSound
<1>2. l \in Line /\ l \in 0 .. 48 /\ ~(l >= 16) /\ Port(l) + Bit(l) = l
  BY LineFacts, PicBits
<1>3. list \in Lists(l) \ {<<>>}
  BY <1>1, <1>2, OneMore
<1>4. /\ new = [num \in 0 .. 48 |-> new[num]]
      /\ new[l] = list
      /\ \A k \in Line : k # l => new[k] = h[k]
  <2> HIDE DEF list
  <2>1. new = [num \in 0 .. 48 |-> IF num = l THEN list ELSE h[num]]
    <3>1. \A f, e : f = [num \in 0 .. 48 |-> h[num]] =>
                      [f EXCEPT ![l] = e] = [num \in 0 .. 48 |-> IF num = l THEN e ELSE h[num]]
      BY <1>2
    <3> QED
      BY <1>1, <3>1
  <2>2. \A k \in Line : k \in 0 .. 48
    BY LineFacts
  <2> HIDE DEF new
  <2> QED
    BY <1>2, <2>1, <2>2
<1>5. install_irq_handler(PicOf(o, a, h), l, <<l, Len(h[l])>>) = PicOf(now, a, new)
  <2>1. irq_clear_mask(PicOf(o, a, h), l) = PicOf(o \cup {l}, a, h)
    BY <1>2 DEF irq_clear_mask, PicOf
  <2>2. \A w : PicOf(w, a, h).handlers[l] = h[l]
    BY DEF PicOf
  <2>3. \A w, c : [PicOf(w, a, h) EXCEPT !.handlers[l] = c] = PicOf(w, a, [h EXCEPT ![l] = c])
    <3>1. \A m, s, c : [[first |-> 32, second |-> 40, masked |-> m, service |-> s, handlers |-> h]
                            EXCEPT !.handlers[l] = c]
                      = [first |-> 32, second |-> 40, masked |-> m, service |-> s,
                         handlers |-> [h EXCEPT ![l] = c]]
      OBVIOUS
    <3> TAKE w, c
    <3> DEFINE m == PicOf(w, a, h).masked
               s == PicOf(w, a, h).service
    <3>2. /\ PicOf(w, a, h) = [first |-> 32, second |-> 40, masked |-> m, service |-> s, handlers |-> h]
          /\ PicOf(w, a, [h EXCEPT ![l] = c])
                = [first |-> 32, second |-> 40, masked |-> m, service |-> s,
                   handlers |-> [h EXCEPT ![l] = c]]
      BY DEF PicOf
    <3> HIDE DEF m, s
    <3> QED
      BY <3>1, <3>2
  <2>4. (IF PicOf(o, a, h).handlers[l] = <<>> THEN irq_clear_mask(PicOf(o, a, h), l)
         ELSE PicOf(o, a, h)) = PicOf(now, a, h)
    BY <2>1, <2>2
  <2> DEFINE from == PicOf(now, a, h)
  <2>5. install_irq_handler(PicOf(o, a, h), l, <<l, Len(h[l])>>)
            = [from EXCEPT !.handlers[l] = <<<<l, Len(h[l])>>>> \o from.handlers[l]]
    <3> HIDE DEF now
    <3> QED
      BY <2>4 DEF install_irq_handler
  <2>6. from.handlers[l] = h[l]
    BY <2>2
  <2>7. [from EXCEPT !.handlers[l] = list] = PicOf(now, a, new)
    <3> HIDE DEF now, list
    <3> QED
      BY <2>3
  <2> HIDE DEF from
  <2> QED
    BY <2>5, <2>6, <2>7
<1> HIDE DEF new, list
<1>6. Nested(a, new)
  <2>1. \A k \in DOMAIN a : a[k].line \in LINES
    BY <1>1, ActiveFacts
  <2>2. \A k \in DOMAIN a : new[a[k].line] # <<>>
    BY <1>1, <1>3, <1>4, <2>1, LineFacts DEF Nested
  <2> QED
    BY <1>1, <2>2 DEF Nested
<1>7. now \subseteq {k \in LINES : new[k] # <<>>}
  BY <1>1, <1>3, <1>4, LineFacts
<1>8. PicSound(now, a, new)
  BY <1>1, <1>3, <1>4, <1>6, <1>7 DEF PicSound
<1> QED
  BY <1>5, <1>8 DEF new, list

\* irq_set_mask closes one line.
LEMMA PicSetMask ==
    ASSUME NEW o, NEW a, NEW h, PicSound(o, a, h), NEW l \in LINES
    PROVE  /\ irq_set_mask(PicOf(o, a, h), l) = PicOf(o \ {l}, a, h)
           /\ PicSound(o \ {l}, a, h)
<1>1. l \in Line /\ ~(Bit(l) > 7) /\ Port(l) + Bit(l) = l /\ l # CASCADE
  BY LineFacts, PicBits
<1>2. (Line \ (o \cup {CASCADE})) \cup {l} = Line \ ((o \ {l}) \cup {CASCADE})
  BY <1>1
<1>3. irq_set_mask(PicOf(o, a, h), l) = PicOf(o \ {l}, a, h)
  BY <1>1, <1>2 DEF irq_set_mask, PicOf
<1> QED
  BY <1>3 DEF PicSound

\* The lines in service, in terms of the interrupts on their way.
LEMMA ServiceFacts ==
    ASSUME NEW o, NEW a, NEW h, PicSound(o, a, h)
    PROVE  /\ PicOf(o, a, h).service = InServiceFor(LinesOf(a))
           /\ LinesOf(a) = {a[k].line : k \in 1 .. Len(a)}
           /\ LinesOf(a) \subseteq Line \ {CASCADE}
           /\ \A l \in Line : l \in InServiceFor(LinesOf(a)) <=>
                  \/ \E k \in 1 .. Len(a) : a[k].line = l
                  \/ l = CASCADE /\ \E k \in 1 .. Len(a) : a[k].line >= 8
           /\ InServiceFor(LinesOf(a)) \subseteq Line
<1>1. Nested(a, h)
  BY DEF PicSound
<1>2. LinesOf(a) = {a[k].line : k \in 1 .. Len(a)}
  BY <1>1, ActiveFacts DEF LinesOf
<1>3. LinesOf(a) \subseteq Line \ {CASCADE}
  BY <1>1, <1>2, ActiveFacts, LineFacts
<1>4. Second(LinesOf(a)) # {} <=> \E k \in 1 .. Len(a) : a[k].line >= 8
  BY <1>2 DEF Second
<1> QED
  BY <1>2, <1>3, <1>4, LineFacts DEF InServiceFor, PicOf

\* An interrupt that comes in is more urgent than those it interrupts.
LEMMA PicMoreUrgent ==
    ASSUME NEW o, NEW a, NEW h, PicSound(o, a, h), NEW l \in LINES, Asks(PicOf(o, a, h), l)
    PROVE  /\ h[l] # <<>>
           /\ \A k \in 1 .. Len(a) : Rank(l) < Rank(a[k].line)
<1>1. l \in Line /\ l \in 0 .. 15 /\ l # CASCADE
  BY LineFacts
<1> DEFINE S == InServiceFor(LinesOf(a))
<1>2. h[l] # <<>>
  <2>1. l \notin Line \ (o \cup {CASCADE})
    BY DEF Asks, PicOf
  <2> QED
    BY <1>1, <2>1 DEF PicSound
<1>3. /\ l \in First(Line) => \A k \in S : k > l
      /\ l \in Second(Line) => \A k \in First(S) : k > CASCADE
  BY ServiceFacts DEF Asks, First, Second
<1>4. ASSUME NEW k \in 1 .. Len(a) PROVE Rank(l) < Rank(a[k].line)
  <2>1. a[k].line \in Line /\ a[k].line \in 0 .. 15 /\ a[k].line # CASCADE
    BY LineFacts, ActiveFacts DEF PicSound
  <2>2. a[k].line \in S /\ (a[k].line >= 8 => CASCADE \in S)
    BY <2>1, ServiceFacts, LineFacts
  <2> HIDE DEF S
  <2>3. CASE l < 8
    <3>1. l \in First(Line)
      BY <1>1, <2>3 DEF First
    <3>2. a[k].line > l /\ (a[k].line >= 8 => CASCADE > l)
      BY <1>3, <2>2, <3>1
    <3> QED
      BY <1>1, <2>1, <2>3, <3>2 DEF Rank, CASCADE
  <2>4. CASE l >= 8
    <3>1. l \in Second(Line)
      BY <1>1, <2>4 DEF Second
    <3>2. CASE a[k].line >= 8
      <4>1. CASCADE \in First(S)
        BY <2>2, <3>2 DEF First, CASCADE
      <4> QED
        BY <1>3, <3>1, <4>1 DEF CASCADE
    <3>3. CASE a[k].line < 8
      <4>1. a[k].line \in First(S)
        BY <2>2, <3>3 DEF First
      <4>2. a[k].line > CASCADE
        BY <1>3, <3>1, <4>1
      <4> QED
        BY <1>1, <2>1, <2>4, <3>3, <4>2 DEF Rank, CASCADE
    <3> QED
      BY <2>1, <3>2, <3>3
  <2> QED
    BY <1>1, <2>3, <2>4
<1> QED
  BY <1>2, <1>4

\* It joins those on their way.
LEMMA PicInterrupt ==
    ASSUME NEW o, NEW a, NEW h, PicSound(o, a, h), NEW l \in LINES, Asks(PicOf(o, a, h), l)
    PROVE  LET now == Append(a, [line |-> l, vector |-> Vector(PicOf(o, a, h), l)])
           IN /\ Acknowledged(PicOf(o, a, h), l) = PicOf(o, now, h)
              /\ PicSound(o, now, h)
<1> DEFINE e == [line |-> l, vector |-> Vector(PicOf(o, a, h), l)]
           now == Append(a, e)
           n == Len(a)
<1>1. l \in Line /\ l \in 0 .. 15 /\ l # CASCADE
  BY LineFacts
<1>2. e = [line |-> l, vector |-> 32 + l]
  BY <1>1 DEF Vector, PicOf
<1>3. e \in [line : LINES, vector : Nat] /\ e.line = l /\ e.vector = 32 + l
  BY <1>1, <1>2
<1>4. /\ a \in Seq([line : LINES, vector : Nat]) /\ n \in Nat /\ DOMAIN a = 1 .. n
      /\ \A k \in 1 .. n :
             a[k].line \in LINES /\ a[k].vector = 32 + a[k].line /\ h[a[k].line] # <<>>
      /\ \A k, m \in 1 .. n : k < m => Rank(a[m].line) < Rank(a[k].line)
  BY ActiveFacts DEF PicSound
<1> HIDE DEF e
<1>5. /\ now \in Seq([line : LINES, vector : Nat]) /\ DOMAIN now = 1 .. n + 1
      /\ \A k \in 1 .. n : now[k] = a[k]
      /\ now[n + 1] = e
  BY <1>3, <1>4
<1> HIDE DEF now
<1>6. h[l] # <<>> /\ \A k \in 1 .. n : Rank(l) < Rank(a[k].line)
  BY PicMoreUrgent
<1> HIDE DEF n
<1>7. \A k \in 1 .. n + 1 : k \in 1 .. n \/ k = n + 1
  BY <1>4
<1>8. Nested(now, h)
  <2>1. ASSUME NEW k \in 1 .. n + 1
        PROVE  now[k].vector = 32 + now[k].line /\ h[now[k].line] # <<>>
    <3>1. CASE k = n + 1
      BY <1>3, <1>5, <1>6, <3>1
    <3>2. CASE k \in 1 .. n
      BY <1>4, <1>5, <3>2
    <3> QED
      BY <1>7, <3>1, <3>2
  <2>2. ASSUME NEW k \in 1 .. n + 1, NEW m \in 1 .. n + 1, k < m
        PROVE  Rank(now[m].line) < Rank(now[k].line)
    <3>1. k \in 1 .. n /\ (m \in 1 .. n \/ m = n + 1)
      BY <1>4, <2>2
    <3>2. CASE m = n + 1
      BY <1>3, <1>5, <1>6, <3>1, <3>2
    <3>3. CASE m \in 1 .. n
      BY <1>4, <1>5, <2>2, <3>1, <3>3
    <3> QED
      BY <3>1, <3>2, <3>3
  <2> QED
    BY <1>5, <2>1, <2>2 DEF Nested
<1>9. LinesOf(now) = LinesOf(a) \cup {l}
  <2>1. DOMAIN a = 1 .. n
    BY <1>4
  <2>2. ASSUME NEW k \in 1 .. n + 1 PROVE now[k].line \in LinesOf(a) \cup {l}
    BY <1>3, <1>5, <1>7, <2>1 DEF LinesOf
  <2>3. ASSUME NEW k \in 1 .. n PROVE a[k].line \in LinesOf(now)
    <3>1. k \in 1 .. n + 1 /\ now[k] = a[k]
      BY <1>4, <1>5
    <3> QED
      BY <1>5, <3>1 DEF LinesOf
  <2>4. l \in LinesOf(now)
    <3>1. n + 1 \in DOMAIN now /\ now[n + 1].line = l
      BY <1>3, <1>4, <1>5
    <3> QED
      BY <3>1 DEF LinesOf
  <2> QED
    BY <1>5, <2>1, <2>2, <2>3, <2>4 DEF LinesOf
<1>10. InServiceFor(LinesOf(a)) \cup {l} \cup (IF l >= 8 THEN {CASCADE} ELSE {})
          = InServiceFor(LinesOf(now))
  <2>1. Second(LinesOf(now)) = IF l >= 8 THEN Second(LinesOf(a)) \cup {l} ELSE Second(LinesOf(a))
    BY <1>9 DEF Second
  <2> QED
    BY <1>9, <2>1 DEF InServiceFor
<1>11. Acknowledged(PicOf(o, a, h), l) = PicOf(o, now, h)
  BY <1>10 DEF Acknowledged, PicOf
<1>12. PicSound(o, now, h)
  BY <1>8 DEF PicSound
<1> QED
  BY <1>11, <1>12 DEF now, e, n

\* What is in service, and nothing else, is changed by an end of interrupt.
Controllers(masked, service, handlers) ==
    [first |-> 32, second |-> 40, masked |-> masked, service |-> service, handlers |-> handlers]

\* The number of a set of lines that none of the others is below is its most urgent.
LEMMA LeastFirst ==
  ASSUME NEW F, NEW least \in Nat, least \in F,
         \A k \in F : k \in 0 .. 15 /\ (k = least \/ k > least)
  PROVE  MostUrgent(F) = {least}
<1>1. ASSUME NEW k \in F PROVE least <= k
  <2>1. k \in 0 .. 15 /\ (k = least \/ k > least)
    OBVIOUS
  <2> QED
    BY <2>1
<1>2. least \in MostUrgent(F)
  BY <1>1 DEF MostUrgent
<1>3. ASSUME NEW k \in MostUrgent(F) PROVE k = least
  <2>1. k \in F /\ k <= least
    BY <1>3 DEF MostUrgent
  <2>2. k \in 0 .. 15 /\ (k = least \/ k > least)
    BY <2>1
  <2> QED
    BY <2>1, <2>2
<1> QED
  BY <1>2, <1>3

\* An end of interrupt takes the most urgent line of its controller out of service.
LEMMA EndsOf ==
    ASSUME NEW m, NEW s, NEW h, NEW c
    PROVE  /\ c = s \ MostUrgent(First(s)) => EndFirst(Controllers(m, s, h)) = Controllers(m, c, h)
           /\ c = s \ MostUrgent(Second(s)) => EndSecond(Controllers(m, s, h)) = Controllers(m, c, h)
<1>1. Controllers(m, s, h).service = s
  BY DEF Controllers
<1>2. [Controllers(m, s, h) EXCEPT !.service = c] = Controllers(m, c, h)
  BY DEF Controllers
<1> QED
  BY <1>1, <1>2, Zenon DEF EndFirst, EndSecond

\* The end of interrupt is for the one that came in last.
LEMMA PicEnd ==
    ASSUME NEW o, NEW a, NEW h, PicSound(o, a, h), a # <<>>
    PROVE  /\ EndOfInterrupt(PicOf(o, a, h), a[Len(a)].vector)
                  = PicOf(o, SubSeq(a, 1, Len(a) - 1), h)
           /\ PicSound(o, SubSeq(a, 1, Len(a) - 1), h)
<1> DEFINE n == Len(a)
           rest == SubSeq(a, 1, n - 1)
           l == a[n].line
           S == InServiceFor(LinesOf(a))
<1>1. /\ a \in Seq([line : LINES, vector : Nat]) /\ n \in Nat /\ DOMAIN a = 1 .. n
      /\ \A k \in 1 .. n :
             a[k].line \in LINES /\ a[k].vector = 32 + a[k].line /\ h[a[k].line] # <<>>
      /\ \A k, m \in 1 .. n : k < m => Rank(a[m].line) < Rank(a[k].line)
  BY ActiveFacts DEF PicSound
<1>2. n > 0
  BY <1>1, EmptySeq
<1>3. /\ rest \in Seq([line : LINES, vector : Nat]) /\ DOMAIN rest = 1 .. n - 1
      /\ \A k \in 1 .. n - 1 : rest[k] = a[k]
  <2>1. \A i \in 1 .. n - 1 : a[i] \in [line : LINES, vector : Nat]
    <3>1. \A i \in 1 .. n : a[i] \in [line : LINES, vector : Nat]
      BY <1>1, ElementOfSeq
    <3> HIDE DEF n
    <3> QED
      BY <1>1, <3>1
  <2>2. /\ rest \in Seq([line : LINES, vector : Nat]) /\ Len(rest) = n - 1
        /\ \A i \in 1 .. n - 1 - 1 + 1 : rest[i] = a[1 + i - 1]
    BY <1>1, <1>2, <2>1, SubSeqProperties
  <2> HIDE DEF rest
  <2>3. DOMAIN rest = 1 .. n - 1
    BY <2>2
  <2> QED
    BY <1>1, <2>2, <2>3
<1>4. /\ l \in LINES /\ l \in Line /\ l \in 0 .. 15 /\ l # CASCADE /\ a[n].vector = 32 + l
      /\ \A k \in 1 .. n - 1 :
             /\ a[k].line \in LINES /\ a[k].line \in Line
             /\ a[k].line \in 0 .. 15 /\ a[k].line # CASCADE
             /\ Rank(l) < Rank(a[k].line)
  BY <1>1, <1>2, LineFacts
<1> HIDE DEF rest, n
<1>5. /\ \A k \in 1 .. n : k \in 1 .. n - 1 \/ k = n
      /\ \A k \in 1 .. n - 1 : k \in 1 .. n
      /\ n \in 1 .. n
  BY <1>1, <1>2
<1>6. Nested(rest, h)
  <2> QED
    BY <1>1, <1>3, <1>5 DEF Nested
<1>7. \A k \in Line :
          /\ k \in S <=> \/ k = l \/ \E i \in 1 .. n - 1 : a[i].line = k
                         \/ k = CASCADE /\ (l >= 8 \/ \E i \in 1 .. n - 1 : a[i].line >= 8)
          /\ k \in InServiceFor(LinesOf(rest)) <=>
                 \/ \E i \in 1 .. n - 1 : a[i].line = k
                 \/ k = CASCADE /\ \E i \in 1 .. n - 1 : a[i].line >= 8
  <2>1. PicSound(o, rest, h)
    BY <1>6 DEF PicSound
  <2>2. 1 .. Len(rest) = 1 .. n - 1 /\ 1 .. Len(a) = 1 .. n
    BY <1>3 DEF n
  <2>3. \A k \in Line : k \in S <=>
            \/ \E i \in 1 .. n : a[i].line = k
            \/ k = CASCADE /\ \E i \in 1 .. n : a[i].line >= 8
    BY <2>2, ServiceFacts
  <2>4. \A k \in Line : k \in InServiceFor(LinesOf(rest)) <=>
            \/ \E i \in 1 .. n - 1 : rest[i].line = k
            \/ k = CASCADE /\ \E i \in 1 .. n - 1 : rest[i].line >= 8
    BY <2>1, <2>2, ServiceFacts
  <2> HIDE DEF S
  <2>5. \A k \in Line : k \in S <=>
            \/ k = l \/ \E i \in 1 .. n - 1 : a[i].line = k
            \/ k = CASCADE /\ (l >= 8 \/ \E i \in 1 .. n - 1 : a[i].line >= 8)
    BY <1>5, <2>3
  <2> QED
    BY <1>3, <2>4, <2>5
<1>8. S \subseteq Line /\ InServiceFor(LinesOf(rest)) \subseteq Line
  BY <1>6, ServiceFacts DEF PicSound
<1> DEFINE masked == Line \ (o \cup {CASCADE})
<1>9. /\ PicOf(o, a, h) = Controllers(masked, S, h)
       /\ PicOf(o, rest, h) = Controllers(masked, InServiceFor(LinesOf(rest)), h)
  BY DEF PicOf, Controllers
<1> HIDE DEF S, masked
<1>10. \A k \in S : k \in 0 .. 15
  BY <1>8, LineFacts
<1>11. CASE l < 8
  <2>1. \A k \in 1 .. n - 1 : a[k].line >= 8 \/ a[k].line > l
    BY <1>4, <1>11 DEF Rank
  <2>2. (\E k \in 1 .. n - 1 : a[k].line >= 8) => CASCADE > l
    BY <1>4, <1>11 DEF Rank, CASCADE
  <2>3. MostUrgent(First(S)) = {l}
    <3>1. l \in First(S)
      BY <1>4, <1>7, <1>11 DEF First
    <3>2. ASSUME NEW k \in First(S) PROVE k \in 0 .. 15 /\ (k = l \/ k > l)
      <4>1. k \in S /\ k < 8 /\ k \in 0 .. 15 /\ k \in Line
        BY <1>8, <1>10, <3>2 DEF First
      <4>2. CASE \E i \in 1 .. n - 1 : a[i].line = k
        BY <2>1, <4>1, <4>2
      <4>3. CASE k = CASCADE /\ (l >= 8 \/ \E i \in 1 .. n - 1 : a[i].line >= 8)
        BY <1>4, <1>11, <2>2, <4>1, <4>3
      <4>4. \/ k = l \/ \E i \in 1 .. n - 1 : a[i].line = k
            \/ k = CASCADE /\ (l >= 8 \/ \E i \in 1 .. n - 1 : a[i].line >= 8)
        BY <1>7, <4>1
      <4> QED
        BY <4>1, <4>2, <4>3, <4>4
    <3> QED
      <4>1. l \in Nat
        BY <1>4
      <4> HIDE DEF l
      <4> QED
        BY <3>1, <3>2, <4>1, LeastFirst
  <2>4. S \ {l} = InServiceFor(LinesOf(rest))
    BY <1>4, <1>7, <1>8, <1>11, <2>1, <2>2
  <2>5. ~(32 + l > 48) /\ ~(32 + l >= 40)
    BY <1>4, <1>11
  <2> QED
    <3>1. EndFirst(PicOf(o, a, h)) = PicOf(o, rest, h)
      <4>1. S \ MostUrgent(First(S)) = InServiceFor(LinesOf(rest))
        BY <2>3, <2>4, Zenon
      <4>2. EndFirst(Controllers(masked, S, h))
                = Controllers(masked, InServiceFor(LinesOf(rest)), h)
        BY <4>1, EndsOf, Zenon
      <4> QED
        BY <1>9, <4>2, Zenon
    <3>2. EndOfInterrupt(PicOf(o, a, h), a[n].vector) = PicOf(o, rest, h)
      BY <1>4, <2>5, <3>1 DEF EndOfInterrupt
    <3> QED
      BY <1>6, <3>2 DEF PicSound, n, rest
<1>12. CASE l >= 8
  <2>1. \A k \in 1 .. n - 1 : a[k].line < 8 /\ a[k].line > CASCADE
    BY <1>4, <1>12 DEF Rank, CASCADE
  <2>2. MostUrgent(Second(S)) = {l}
    <3>1. Second(S) = {l}
      <4>1. l \in Second(S)
        BY <1>4, <1>7, <1>12 DEF Second
      <4>2. ASSUME NEW k \in Second(S) PROVE k = l
        <5>1. k \in S /\ k >= 8 /\ k \in Line
          BY <1>8, <4>2 DEF Second
        <5>2. k # CASCADE /\ ~ \E i \in 1 .. n - 1 : a[i].line = k
          BY <1>4, <2>1, <5>1 DEF CASCADE
        <5> QED
          BY <1>7, <5>1, <5>2
      <4> QED
        BY <4>1, <4>2
    <3> QED
      BY <1>4, <3>1 DEF MostUrgent
  <2>3. MostUrgent(First(S \ {l})) = {CASCADE}
    <3>1. CASCADE \in First(S \ {l})
      BY <1>4, <1>7, <1>12, LineFacts DEF First, CASCADE
    <3>2. \A k \in First(S \ {l}) : k = CASCADE \/ k > CASCADE
      BY <1>4, <1>7, <1>8, <1>12, <2>1 DEF First, CASCADE
    <3> QED
      <4>1. ASSUME NEW k \in First(S \ {l}) PROVE k \in 0 .. 15 /\ (k = CASCADE \/ k > CASCADE)
        BY <1>10, <3>2 DEF First
      <4>2. CASCADE \in Nat
        BY DEF CASCADE
      <4> QED
        BY <3>1, <4>1, <4>2, LeastFirst
  <2>4. (S \ {l}) \ {CASCADE} = InServiceFor(LinesOf(rest))
    <3>1. \A k \in 1 .. n - 1 : ~(a[k].line >= 8) /\ a[k].line # l
      <4> TAKE k \in 1 .. n - 1
      <4>1. ~(a[k].line >= 8)
        BY <1>4, <2>1
      <4>2. l >= 8
        BY <1>12
      <4> QED
        BY <4>1, <4>2
    <3>2. \A k \in Line : k \in (S \ {l}) \ {CASCADE} <=> k \in InServiceFor(LinesOf(rest))
      BY <1>4, <1>7, <3>1
    <3> QED
      BY <1>8, <3>2
  <2>5. ~(32 + l > 48) /\ 32 + l >= 40
    BY <1>4, <1>12
  <2> QED
    <3>1. EndFirst(EndSecond(PicOf(o, a, h))) = PicOf(o, rest, h)
      <4>1. (S \ {l}) \ MostUrgent(First(S \ {l})) = InServiceFor(LinesOf(rest))
        BY <2>3, <2>4, Zenon
      <4>2. S \ {l} = S \ MostUrgent(Second(S))
        BY <2>2, Zenon
      <4>3. EndSecond(Controllers(masked, S, h)) = Controllers(masked, S \ {l}, h)
        BY <4>2, EndsOf, Zenon
      <4>4. EndFirst(Controllers(masked, S \ {l}, h))
                = Controllers(masked, InServiceFor(LinesOf(rest)), h)
        BY <4>1, EndsOf, Zenon
      <4> QED
        BY <1>9, <4>3, <4>4, Zenon
    <3>2. EndOfInterrupt(PicOf(o, a, h), a[n].vector) = PicOf(o, rest, h)
      BY <1>4, <2>5, <3>1 DEF EndOfInterrupt
    <3> QED
      BY <1>6, <3>2 DEF PicSound, n, rest
<1> QED
  BY <1>4, <1>11, <1>12 DEF n, rest

\* Whatever the controllers are asked for.
LEMMA PicStep ==
    ASSUME PicInv, RoutinesNext
    PROVE  PicInv'
<1> DEFINE o == call.opened
           a == call.active
           h == call.pic.handlers
           now(pic, opened, active) ==
               [routine |-> "pic", pic |-> pic, opened |-> opened, active |-> active]
<1> SUFFICES ASSUME call'.routine = "pic"
             PROVE  \E opened, active, handlers :
                        /\ call' = now(PicOf(opened, active, handlers), opened, active)
                        /\ PicSound(opened, active, handlers)
  BY DEF PicInv, PicOf
<1>1. CASE CallSetupIdt
  <2>1. call' = now(setup_idt, {}, <<>>)
    BY <1>1 DEF CallSetupIdt
  <2> QED
    BY <2>1, PicSetup
<1>2. CASE call.routine = "pic"
  <2>1. /\ call = now(PicOf(o, a, h), o, a) /\ call.pic = PicOf(o, a, h)
        /\ PicSound(o, a, h)
    BY <1>2 DEF PicInv
  <2>2. ASSUME NEW l \in LINES, CallInstall(l)
        PROVE  /\ Len(h[l]) < 2
               /\ call' = now(install_irq_handler(PicOf(o, a, h), l, <<l, Len(h[l])>>),
                              IF h[l] = <<>> THEN o \cup {l} ELSE o, a)
    BY <2>1, <2>2 DEF CallInstall
  <2>3. ASSUME NEW l \in LINES, CallSetMask(l)
        PROVE  call' = now(irq_set_mask(PicOf(o, a, h), l), o \ {l}, a)
    BY <2>1, <2>3 DEF CallSetMask
  <2>4. ASSUME NEW l \in LINES, CallInterrupt(l)
        PROVE  /\ Asks(PicOf(o, a, h), l)
               /\ call' = now(Acknowledged(PicOf(o, a, h), l), o,
                              Append(a, [line |-> l, vector |-> Vector(PicOf(o, a, h), l)]))
    BY <2>1, <2>4 DEF CallInterrupt
  <2>5. ASSUME CallEnd
        PROVE  /\ a # <<>>
               /\ call' = now(EndOfInterrupt(PicOf(o, a, h), a[Len(a)].vector), o,
                              SubSeq(a, 1, Len(a) - 1))
    BY <2>1, <2>5 DEF CallEnd, Last, Front
  <2> HIDE DEF o, a, h, now
  <2>6. CASE \E l \in LINES : CallInstall(l)
    <3>1. PICK l \in LINES : CallInstall(l)
      BY <2>6
    <3> DEFINE pic == install_irq_handler(PicOf(o, a, h), l, <<l, Len(h[l])>>)
               opened == IF h[l] = <<>> THEN o \cup {l} ELSE o
    <3>2. Len(h[l]) < 2 /\ call' = now(pic, opened, a)
      BY <2>2, <3>1
    <3>3. \E new : pic = PicOf(opened, a, new) /\ PicSound(opened, a, new)
      BY <2>1, <3>2, PicInstall
    <3> HIDE DEF pic, opened
    <3> QED
      BY <3>2, <3>3
  <2>7. CASE \E l \in LINES : CallSetMask(l)
    <3>1. PICK l \in LINES : CallSetMask(l)
      BY <2>7
    <3> DEFINE opened == o \ {l}
    <3>2. call' = now(irq_set_mask(PicOf(o, a, h), l), opened, a)
      BY <2>3, <3>1
    <3>3. irq_set_mask(PicOf(o, a, h), l) = PicOf(opened, a, h) /\ PicSound(opened, a, h)
      BY <2>1, PicSetMask
    <3> HIDE DEF opened
    <3> QED
      BY <3>2, <3>3
  <2>8. CASE \E l \in LINES : CallInterrupt(l)
    <3>1. PICK l \in LINES : CallInterrupt(l)
      BY <2>8
    <3> DEFINE active == Append(a, [line |-> l, vector |-> Vector(PicOf(o, a, h), l)])
    <3>2. Asks(PicOf(o, a, h), l) /\ call' = now(Acknowledged(PicOf(o, a, h), l), o, active)
      BY <2>4, <3>1
    <3>3. Acknowledged(PicOf(o, a, h), l) = PicOf(o, active, h) /\ PicSound(o, active, h)
      BY <2>1, <3>2, PicInterrupt
    <3> HIDE DEF active
    <3> QED
      BY <3>2, <3>3
  <2>9. CASE CallEnd
    <3> DEFINE active == SubSeq(a, 1, Len(a) - 1)
    <3>1. a # <<>> /\ call' = now(EndOfInterrupt(PicOf(o, a, h), a[Len(a)].vector), o, active)
      BY <2>5, <2>9
    <3>2. /\ EndOfInterrupt(PicOf(o, a, h), a[Len(a)].vector) = PicOf(o, active, h)
          /\ PicSound(o, active, h)
      BY <2>1, <3>1, PicEnd
    <3> HIDE DEF active
    <3> QED
      BY <3>1, <3>2
  <2> QED
    BY <1>1, <2>6, <2>7, <2>8, <2>9, Calls
<1> QED
  BY <1>1, <1>2, Calls DEF CallInstall, CallSetMask, CallInterrupt, CallEnd

\* A line is open exactly if somebody opened it, its handlers are found by the vector it
\* comes in by, and the controllers wait for the interrupts on their way and for no other.
THEOREM EveryLineServed == RoutinesSpec => []LinesServed
<1>1. RoutinesInit => PicInv
  BY DEF RoutinesInit, NoCall, PicInv
<1>2. PicInv /\ [RoutinesNext]_<<memoryVars, ring, call>> => PicInv'
  <2>1. PicInv /\ UNCHANGED call => PicInv'
    BY DEF PicInv
  <2> QED
    BY <2>1, PicStep
<1>3. PicInv => LinesServed
  <2> DEFINE o == call.opened
             a == call.active
             h == call.pic.handlers
  <2> SUFFICES ASSUME PicInv, call.routine = "pic" PROVE LinesServed
    BY DEF LinesServed
  <2>1. call.pic = PicOf(o, a, h) /\ PicSound(o, a, h)
    BY DEF PicInv
  <2>2. call.pic.masked = Line \ (o \cup {CASCADE}) /\ call.pic.service = InServiceFor(LinesOf(a))
    BY <2>1 DEF PicOf
  <2>3. ASSUME NEW k \in DOMAIN a
        PROVE  Called(call.pic, a[k].vector)
                   \in {<<<<a[k].line, 0>>>>, <<<<a[k].line, 1>>, <<a[k].line, 0>>>>}
    <3>1. /\ a[k].line \in LINES /\ a[k].line \in Line /\ a[k].line \in 0 .. 15
          /\ a[k].vector = 32 + a[k].line /\ h[a[k].line] # <<>>
      <4>1. Nested(a, h)
        BY <2>1 DEF PicSound
      <4> HIDE DEF a, h
      <4>2. k \in 1 .. Len(a)
        BY <2>3, <4>1, ActiveFacts
      <4> QED
        BY <4>1, <4>2, ActiveFacts, LineFacts
    <3>2. Called(call.pic, a[k].vector) = h[a[k].line]
      BY <2>1, <3>1 DEF Called, PicOf
    <3>3. h[a[k].line] \in Lists(a[k].line) \ {<<>>}
      BY <2>1, <3>1 DEF PicSound
    <3> QED
      BY <3>2, <3>3 DEF Lists
  <2> QED
    BY <2>2, <2>3 DEF LinesServed, InServiceFor, LinesOf
<1> QED
  BY <1>1, <1>2, <1>3, PTL DEF RoutinesSpec

-----------------------------------------------------------------------------
(* The page tables.                                                        *)

\* What the tables hold: their first entries name the next table, every entry of the
\* last one a page.
LEMMA TablesBuilt ==
    ASSUME NEW before,
           \A i \in 0 .. ENTRIES - 1 : before[<<"pd", i, "high">>] = NoEntry,
           NEW i \in 0 .. ENTRIES - 1
    PROVE  LET memory == BuildTables(before) IN
           /\ memory[<<"pml4", i, "low">>] = IF i = 0 THEN [frame |-> 1, flags |-> TableFlags]
                                             ELSE NoEntry
           /\ memory[<<"pdpt", i, "low">>] = IF i = 0 THEN [frame |-> 2, flags |-> TableFlags]
                                             ELSE NoEntry
           /\ memory[<<"pd", i, "low">>] = [frame |-> i, flags |-> PageFlags]
           /\ \A table \in Table : memory[<<table, i, "high">>] = NoEntry
<1> DEFINE memory == BuildTables(before)
<1>1. ASSUME NEW table \in Table, NEW half \in {"low", "high"}
      PROVE  <<table, i, half>> \in Cell
  BY DEF Cell
<1>2. /\ <<"pml4", i, "low">> \in Cell /\ <<"pdpt", i, "low">> \in Cell
      /\ <<"pd", i, "low">> \in Cell
      /\ \A table \in Table : <<table, i, "high">> \in Cell
  BY <1>1 DEF Table
<1>3. memory[<<"pml4", i, "low">>] = IF i = 0 THEN [frame |-> 1, flags |-> TableFlags]
                                     ELSE NoEntry
  BY <1>2 DEF BuildTables, Cleared
<1>4. memory[<<"pdpt", i, "low">>] = IF i = 0 THEN [frame |-> 2, flags |-> TableFlags]
                                     ELSE NoEntry
  BY <1>2 DEF BuildTables, Cleared
<1>5. memory[<<"pd", i, "low">>] = [frame |-> i, flags |-> PageFlags]
  BY <1>2 DEF BuildTables, Cleared
<1>6. ASSUME NEW table \in Table PROVE memory[<<table, i, "high">>] = NoEntry
  BY <1>2 DEF BuildTables, Cleared, Table
<1> QED
  BY <1>3, <1>4, <1>5, <1>6

\* The indices of a page's address: all but the last are 0 just for the first gigabyte.
LEMMA Indices ==
    ASSUME NEW n \in 0 .. ENTRIES * ENTRIES * ENTRIES - 1
    PROVE  /\ Index4(n) \in 0 .. ENTRIES - 1
           /\ Index3(n) \in 0 .. ENTRIES - 1
           /\ Index2(n) \in 0 .. ENTRIES - 1
           /\ n < ENTRIES <=> Index4(n) = 0 /\ Index3(n) = 0
           /\ n < ENTRIES => Index2(n) = n
<1> DEFINE E == ENTRIES
           square == E * E
           q == n \div E
<1>1. E \in Nat \ {0} /\ square \in Nat \ {0} /\ E <= square /\ n \in Nat /\ n < E * square
  BY PagingAssumption, SMT
<1>2. q \in Nat /\ n % E \in 0 .. E - 1 /\ n = E * q + (n % E)
  BY <1>1, SMT
<1> HIDE DEF square, q
<1>4. /\ q \div E \in Nat /\ q % E \in 0 .. E - 1 /\ q = E * (q \div E) + (q % E)
  BY <1>1, <1>2, SMT
<1>5. n \div square \in Nat /\ n % square \in 0 .. square - 1 /\ n = square * (n \div square) + (n % square)
  BY <1>1, SMT
<1>6. n \div square < E
  <2>1. square * (n \div square) <= n
    BY <1>1, <1>5, SMT
  <2> QED
    BY <1>1, <1>5, <2>1, SMT
<1>8. n < E <=> n \div square = 0 /\ q % E = 0
  <2>1. ASSUME n < E PROVE n \div square = 0 /\ q % E = 0
    <3>1. q = 0
      BY <1>1, <1>2, <2>1, SMT
    <3> QED
      BY <1>1, <1>4, <1>5, <2>1, <3>1, SMT
  <2>2. ASSUME n \div square = 0, q % E = 0 PROVE n < E
    <3>1. n < square
      BY <1>1, <1>5, <2>2, SMT
    <3>2. q < E
      BY <1>1, <1>2, <3>1, SMT DEF square
    <3>3. q = 0
      BY <1>1, <1>4, <2>2, <3>2, SMT
    <3> QED
      BY <1>1, <1>2, <3>3, SMT
  <2> QED
    BY <2>1, <2>2
<1>7. n < E => n % E = n
  BY <1>1, <1>2, SMT
<1> QED
  BY <1>1, <1>2, <1>4, <1>5, <1>6, <1>7, <1>8 DEF Index4, Index3, Index2, E, square, q

\* What the processor makes of them.
LEMMA FirstGigabyte ==
    ASSUME NEW before,
           \A i \in 0 .. ENTRIES - 1 : before[<<"pd", i, "high">>] = NoEntry,
           NEW n \in 0 .. ENTRIES * ENTRIES * ENTRIES - 1
    PROVE  Translate(BuildTables(before), n) =
               IF n < ENTRIES THEN [page |-> n, user |-> TRUE] ELSE Fault
<1> DEFINE memory == BuildTables(before)
           i4 == Index4(n)
           i3 == Index3(n)
           i2 == Index2(n)
<1>1. /\ i4 \in 0 .. ENTRIES - 1 /\ i3 \in 0 .. ENTRIES - 1 /\ i2 \in 0 .. ENTRIES - 1
      /\ n < ENTRIES <=> i4 = 0 /\ i3 = 0
      /\ n < ENTRIES => i2 = n
  BY Indices
<1>2. /\ "present" \in TableFlags /\ "user" \in TableFlags
      /\ "present" \in PageFlags /\ "user" \in PageFlags /\ "large" \in PageFlags
  BY DEF TableFlags, PageFlags
<1>3. /\ memory[<<"pml4", i4, "low">>] = IF i4 = 0 THEN [frame |-> 1, flags |-> TableFlags]
                                         ELSE NoEntry
      /\ memory[<<"pdpt", i3, "low">>] = IF i3 = 0 THEN [frame |-> 2, flags |-> TableFlags]
                                         ELSE NoEntry
      /\ memory[<<"pd", i2, "low">>] = [frame |-> i2, flags |-> PageFlags]
      /\ memory[<<"pml4", i4, "high">>] = NoEntry
      /\ memory[<<"pdpt", i3, "high">>] = NoEntry
      /\ memory[<<"pd", i2, "high">>] = NoEntry
  BY <1>1, TablesBuilt DEF Table
<1>4. TableAt[0] = "pml4" /\ TableAt[1] = "pdpt" /\ TableAt[2] = "pd"
  BY DEF TableAt
<1>5. Index4(n) = i4 /\ Index3(n) = i3 /\ Index2(n) = i2 /\ BuildTables(before) = memory
  OBVIOUS
<1> HIDE DEF memory, i4, i3, i2
<1> DEFINE low(table, i) == memory[<<table, i, "low">>]
           pdpt == TableAt[low("pml4", i4).frame]
           pd == TableAt[low(pdpt, i3).frame]
           user == \A e \in {low("pml4", i4), low(pdpt, i3), low(pd, i2)} : "user" \in e.flags
           usable == /\ Usable(memory, "pml4", i4) /\ Usable(memory, pdpt, i3)
                     /\ Usable(memory, pd, i2) /\ "large" \in low(pd, i2).flags
<1>6. Translate(memory, n) =
          IF usable
          THEN [page |-> low(pd, i2).frame, user |-> user]
          ELSE Fault
  BY <1>5, Zenon DEF Translate
<1>7. CASE i4 # 0
  <2>1. ~ Usable(memory, "pml4", i4)
    BY <1>3, <1>7 DEF Usable, NoEntry
  <2> QED
    BY <1>1, <1>5, <1>6, <1>7, <2>1
<1>8. CASE i4 = 0 /\ i3 # 0
  <2>1. low("pml4", i4) = [frame |-> 1, flags |-> TableFlags]
    BY <1>3, <1>8
  <2>2. pdpt = "pdpt"
    BY <1>4, <2>1
  <2>3. ~ Usable(memory, pdpt, i3)
    BY <1>3, <1>8, <2>2 DEF Usable, NoEntry
  <2> QED
    BY <1>1, <1>5, <1>6, <1>8, <2>3
<1>9. CASE i4 = 0 /\ i3 = 0
  <2>1. low("pml4", i4) = [frame |-> 1, flags |-> TableFlags]
    BY <1>3, <1>9
  <2>2. pdpt = "pdpt"
    BY <1>4, <2>1
  <2>3. low(pdpt, i3) = [frame |-> 2, flags |-> TableFlags]
    BY <1>3, <1>9, <2>2
  <2>4. pd = "pd"
    BY <1>4, <2>3
  <2>5. low(pd, i2) = [frame |-> n, flags |-> PageFlags]
    BY <1>1, <1>3, <1>9, <2>4
  <2>6. usable
    BY <1>2, <1>3, <2>1, <2>2, <2>3, <2>4, <2>5 DEF Usable
  <2> HIDE DEF usable
  <2>7. user = TRUE
    BY <1>2, <2>1, <2>3, <2>5
  <2>8. n < ENTRIES
    BY <1>1, <1>9
  <2>9. low(pd, i2).frame = n
    BY <2>5
  <2> HIDE DEF pd, pdpt, low, user
  <2>10. Translate(memory, n) = [page |-> n, user |-> TRUE]
    BY <1>6, <2>6, <2>7, <2>9, Zenon
  <2> QED
    BY <1>5, <2>8, <2>10
<1> QED
  BY <1>7, <1>8, <1>9

\* stage2 maps the first gigabyte to itself and nothing else, however many entries a
\* table has and whatever memory held.
THEOREM FirstGigabyteMapped == RoutinesSpec => []IdentityMapped
<1>1. RoutinesInit => IdentityMapped
  BY DEF RoutinesInit, NoCall, IdentityMapped
<1>2. IdentityMapped /\ [RoutinesNext]_<<memoryVars, ring, call>> => IdentityMapped'
  <2>1. IdentityMapped /\ UNCHANGED call => IdentityMapped'
    BY DEF IdentityMapped
  <2>2. ASSUME RoutinesNext, call'.routine = "stage2" PROVE IdentityMapped'
    <3>1. PICK before \in Memories : CallTables(before)
      BY <2>2, Calls
    <3>2. call'.before = before /\ call'.memory = BuildTables(before)
      BY <3>1 DEF CallTables
    <3> QED
      BY <3>2, FirstGigabyte DEF IdentityMapped
  <2> QED
    BY <2>1, <2>2 DEF IdentityMapped
<1> QED
  BY <1>1, <1>2, PTL DEF RoutinesSpec

-----------------------------------------------------------------------------
(* The boot loader.                                                        *)

\* Once the chunks before the e-th are read, memory holds the disk up to there.
ReadTo(e) == [a \in Memory |-> IF a \in KERNEL .. KERNEL + e * CHUNK - 1 THEN a - KERNEL ELSE Unknown]

LEMMA ChunkCopied ==
    ASSUME NEW memory \in [Memory -> Int], NEW e \in 0 .. CHUNKS - 1
    PROVE  /\ CopyChunk(memory, e) \in [Memory -> Int]
           /\ memory = ReadTo(e) => CopyChunk(memory, e) = ReadTo(e + 1)
<1> DEFINE here == e * CHUNK
<1>1. /\ CHUNKS \in Nat /\ CHUNK \in Nat \ {0} /\ KERNEL \in Nat /\ e \in Nat
      /\ here \in Nat /\ (e + 1) * CHUNK = here + CHUNK
  BY LoaderAssumption, SMT
<1>2. here + CHUNK <= CHUNKS * CHUNK /\ CHUNKS * CHUNK \in Nat
  BY <1>1, SMT
<1> HIDE DEF here
<1> DEFINE cell(a) == IF a \in KERNEL + here .. KERNEL + here + CHUNK - 1 THEN a - KERNEL ELSE memory[a]
<1>3. CopyChunk(memory, e) = [a \in Memory |-> cell(a)]
  <2>1. ASSUME NEW a \in Image(here) .. Image(here + CHUNK - 1)
        PROVE  read_from_disk(e)[a - Image(here)] = a - KERNEL
    <3>1. a \in Int /\ a - Image(here) \in 0 .. CHUNK - 1
      BY <1>1, <2>1 DEF Image
    <3>2. read_from_disk(e)[a - Image(here)] = e * CHUNK + (a - Image(here))
      BY <3>1 DEF read_from_disk
    <3> QED
      BY <1>1, <3>1, <3>2 DEF Image, here
  <2>2. Image(here) .. Image(here + CHUNK - 1) = KERNEL + here .. KERNEL + here + CHUNK - 1
    BY <1>1 DEF Image
  <2>3. CopyChunk(memory, e)
            = [a \in Memory |-> IF a \in Image(here) .. Image(here + CHUNK - 1)
                                THEN read_from_disk(e)[a - Image(here)] ELSE memory[a]]
    BY DEF CopyChunk, here
  <2> QED
    BY <2>1, <2>2, <2>3
<1>4. Memory \subseteq Int
  BY <1>1, <1>2 DEF Memory
<1>5. CopyChunk(memory, e) \in [Memory -> Int]
  BY <1>1, <1>3, <1>4
<1>6. ASSUME memory = ReadTo(e) PROVE CopyChunk(memory, e) = ReadTo(e + 1)
  <2>1. ASSUME NEW a \in Memory
        PROVE  cell(a) = IF a \in KERNEL .. KERNEL + (here + CHUNK) - 1 THEN a - KERNEL ELSE Unknown
    <3>1. memory[a] = IF a \in KERNEL .. KERNEL + here - 1 THEN a - KERNEL ELSE Unknown
      BY <1>6 DEF ReadTo, here
    <3>2. a \in Int /\ here \in Nat /\ KERNEL \in Nat /\ CHUNK \in Nat
      BY <1>1, <1>4
    <3>3. CASE a \in KERNEL + here .. KERNEL + here + CHUNK - 1
      <4>1. cell(a) = a - KERNEL
        BY <3>3
      <4>2. a \in KERNEL .. KERNEL + (here + CHUNK) - 1
        BY <3>2, <3>3
      <4> HIDE DEF cell
      <4> QED
        BY <4>1, <4>2
    <3>4. CASE a \notin KERNEL + here .. KERNEL + here + CHUNK - 1
      <4>1. cell(a) = memory[a]
        BY <3>4
      <4>2. a \in KERNEL .. KERNEL + (here + CHUNK) - 1 <=> a \in KERNEL .. KERNEL + here - 1
        BY <3>2, <3>4
      <4> HIDE DEF cell
      <4> QED
        BY <3>1, <4>1, <4>2
    <3> QED
      BY <3>3, <3>4
  <2> HIDE DEF cell
  <2> QED
    BY <1>1, <1>3, <2>1 DEF ReadTo
<1> QED
  BY <1>5, <1>6

\* The boot sector reads the whole disk, and the kernel's place stays as it was.
LEMMA DiskRead == ReadDisk = ReadTo(CHUNKS) /\ ReadDisk \in [Memory -> Int]
<1> DEFINE V == [Memory -> Int]
           base == [a \in Memory |-> Unknown]
           body == [ecx \in 0 .. CHUNKS |->
                        [memory \in V |-> IF ecx = 0 THEN memory ELSE CopyChunk(memory, ecx - 1)]]
           Loops(g) == g = [ecx \in 0 .. CHUNKS |->
                                IF ecx = 0 THEN base ELSE CopyChunk(g[ecx - 1], ecx - 1)]
           T == {e \in 0 .. CHUNKS : \A g : Loops(g) => g[e] = ReadTo(e)}
<1>1. CHUNKS \in Nat /\ KERNEL \in Nat /\ CHUNK \in Nat
  BY LoaderAssumption
<1>2. base \in V
  BY DEF Unknown
<1>3. ReadTo(0) = base
  <2>1. 0 * CHUNK = 0
    BY <1>1
  <2> QED
    BY <1>1, <2>1 DEF ReadTo
<1>4. \A e : ReadTo(e) \in V
  <2>1. CHUNKS * CHUNK \in Nat
    BY <1>1, SMT
  <2>2. Memory \subseteq Int
    BY <1>1, <2>1 DEF Memory
  <2> QED
    BY <1>1, <2>2 DEF ReadTo, Unknown
<1> HIDE DEF V, base
<1>5. body \in [0 .. CHUNKS -> [V -> V]]
  <2>1. ASSUME NEW ecx \in 0 .. CHUNKS, NEW memory \in V, ecx # 0 PROVE CopyChunk(memory, ecx - 1) \in V
    <3>1. ecx - 1 \in 0 .. CHUNKS - 1
      BY <1>1, <2>1
    <3> QED
      BY <3>1, ChunkCopied DEF V
  <2> QED
    BY <2>1
<1>6. PICK g \in [0 .. CHUNKS -> V] : Runs(g, 0, CHUNKS, base, body)
  <2> HIDE DEF body
  <2>1. 0 \in Nat /\ 0 <= CHUNKS
    BY <1>1
  <2> QED
    BY <1>1, <1>2, <1>5, <2>1, Iterated
<1>7. Loops(g)
  <2>1. ASSUME NEW i \in 0 .. CHUNKS, i # 0 PROVE g[i] = CopyChunk(g[i - 1], i - 1)
    <3>1. g[i - 1] \in V
      BY <1>1, <1>6, <2>1
    <3> QED
      BY <1>6, <2>1, <3>1 DEF Runs
  <2>2. g[0] = base
    <3>1. 0 \in 0 .. CHUNKS
      BY <1>1
    <3> HIDE DEF body
    <3> QED
      BY <1>6, <3>1 DEF Runs
  <2>3. g = [ecx \in 0 .. CHUNKS |-> g[ecx]]
    BY <1>6
  <2> HIDE DEF body
  <2> QED
    BY <2>1, <2>2, <2>3
<1>8. ReadDisk = (CHOOSE h : Loops(h))[CHUNKS]
  BY DEF ReadDisk, base
<1>9. \A e \in 0 .. CHUNKS : e \in T
  <2>1. 0 \in T
    BY <1>1, <1>3
  <2>2. ASSUME NEW e \in 0 .. CHUNKS - 1, e \in T PROVE e + 1 \in T
    <3> SUFFICES ASSUME NEW h, Loops(h) PROVE h[e + 1] = ReadTo(e + 1)
      BY <1>1
    <3>1. e + 1 \in 0 .. CHUNKS /\ e + 1 # 0 /\ (e + 1) - 1 = e
      BY <1>1
    <3>2. h[e + 1] = CopyChunk(h[e], e)
      BY <3>1
    <3>3. h[e] = ReadTo(e)
      BY <2>2
    <3> QED
      BY <1>4, <3>2, <3>3, ChunkCopied DEF V
  <2> HIDE DEF T
  <2> QED
    BY <1>1, <2>1, <2>2, Induct
<1> HIDE DEF Loops
<1>10. Loops(CHOOSE h : Loops(h))
  BY <1>7
<1>11. ReadDisk = ReadTo(CHUNKS)
  BY <1>1, <1>8, <1>9, <1>10
<1> QED
  BY <1>4, <1>11 DEF V

\* What the kernel needs of a segment; and the image, of which the cells of own hold
\* stage2's variables.
Filled(memory, h) ==
    \A k \in 0 .. h.memsz - 1 :
        memory[h.paddr + k] = IF k < h.filesz THEN FILE_START + h.offset + k ELSE Zero

Whole(memory, own) ==
    /\ memory \in [Memory -> Int]
    /\ \A i \in DiskCell : memory[Image(i)] = IF i \in own THEN Noted ELSE i

LEMMA Places ==
    /\ CHUNKS * CHUNK \in Nat /\ KERNEL \in Nat /\ FILE_START \in Nat
    /\ Memory = 0 .. KERNEL + CHUNKS * CHUNK - 1
    /\ \A i \in DiskCell : i \in Nat /\ Image(i) \in Memory /\ Image(i) = KERNEL + i
<1>1. CHUNKS \in Nat /\ CHUNK \in Nat /\ KERNEL \in Nat /\ FILE_START \in Nat
  BY LoaderAssumption
<1>2. CHUNKS * CHUNK \in Nat
  BY <1>1, SMT
<1> QED
  BY <1>1, <1>2 DEF Memory, DiskCell, Image

\* Variables are stored in the image, and nowhere else.
LEMMA StoresInside ==
    ASSUME NEW memory, NEW own, Whole(memory, own), NEW cells \in SUBSET DiskCell
    PROVE  LET new == Stored(memory, cells) IN
           /\ Whole(new, own \cup cells)
           /\ \A a \in Memory : a < KERNEL => new[a] = memory[a]
<1> DEFINE new == Stored(memory, cells)
<1>1. /\ \A i \in DiskCell : i \in Nat /\ Image(i) \in Memory /\ Image(i) = KERNEL + i
      /\ KERNEL \in Nat
  BY Places
<1>2. new = [a \in Memory |-> new[a]] /\ \A a \in Memory :
          new[a] = IF a \in {Image(i) : i \in cells} THEN Noted ELSE memory[a]
  BY DEF Stored
<1> HIDE DEF new
<1>3. new \in [Memory -> Int]
  <2>1. \A a \in Memory : new[a] \in Int
    BY <1>2 DEF Whole, Noted
  <2> QED
    BY <1>2, <2>1
<1>4. ASSUME NEW i \in DiskCell
      PROVE  new[Image(i)] = IF i \in own \cup cells THEN Noted ELSE i
  <2>1. Image(i) \in {Image(j) : j \in cells} <=> i \in cells
    <3>1. ASSUME NEW j \in cells, Image(i) = Image(j) PROVE i = j
      BY <1>1, <3>1
    <3> QED
      BY <3>1
  <2>2. new[Image(i)] = IF i \in cells THEN Noted ELSE memory[Image(i)]
    BY <1>1, <1>2, <2>1
  <2> QED
    BY <2>2 DEF Whole
<1>5. ASSUME NEW a \in Memory, a < KERNEL PROVE new[a] = memory[a]
  <2>1. a \notin {Image(i) : i \in cells}
    BY <1>1, <1>5
  <2> QED
    BY <1>2, <2>1
<1> QED
  BY <1>3, <1>4, <1>5 DEF Whole, new

\* stage2 lies in front of the file.
LEMMA InFront ==
    /\ E_PH \in SUBSET DiskCell /\ VIDEO \in SUBSET DiskCell
    /\ \A i \in E_PH : i < FILE_START
BY LoaderAssumption

\* One header: its segment is filled, and nothing changes outside of it.
LEMMA Loads ==
    ASSUME NEW memory, Whole(memory, E_PH), NEW h \in Header, h.load => Lies(h)
    PROVE  LET new == process_header_entry(memory, h) IN
           /\ Whole(new, E_PH)
           /\ h.load => Filled(new, h)
           /\ \A a \in Memory :
                  (h.load => a \notin h.paddr .. h.paddr + h.memsz - 1) => new[a] = memory[a]
<1>1. CASE ~ h.load
  BY <1>1 DEF process_header_entry
<1>2. CASE h.load
  <2> DEFINE size == CHUNKS * CHUNK
             from(a) == FILE_START + h.offset + (a - h.paddr)
             cleared == Clear(memory, h)
             new == Copy(cleared, h)
  <2>1. /\ size \in Nat /\ KERNEL \in Nat /\ FILE_START \in Nat
        /\ Memory = 0 .. KERNEL + size - 1
        /\ DiskCell = 0 .. size - 1
        /\ \A c \in DiskCell : Image(c) = KERNEL + c
    BY Places DEF DiskCell
  <2>2. /\ h.paddr \in Nat /\ h.memsz \in Nat /\ h.offset \in Nat /\ h.filesz \in Nat
        /\ h.paddr + h.memsz <= KERNEL
        /\ FILE_START + h.offset + h.filesz <= size
        /\ h.filesz <= h.memsz
    BY <1>2 DEF Header, Lies
  <2>3. process_header_entry(memory, h) = new
    BY <1>2 DEF process_header_entry
  <2>4. \A a \in Memory :
            cleared[a] = IF a \in h.paddr .. h.paddr + h.memsz - 1 THEN Zero ELSE memory[a]
    BY DEF Clear
  <2> HIDE DEF cleared
  <2>5. \A a \in Memory :
            new[a] = IF a \in h.paddr .. h.paddr + h.filesz - 1
                     THEN cleared[Image(FILE_START + h.offset) + (a - h.paddr)] ELSE cleared[a]
    <3>1. new = [a \in Memory |-> IF a \in h.paddr .. h.paddr + h.filesz - 1
                                  THEN cleared[Image(FILE_START + h.offset) + (a - h.paddr)]
                                  ELSE cleared[a]]
      BY DEF Copy
    <3> HIDE DEF new
    <3> QED
      BY <3>1
  <2>6. new = [a \in Memory |-> new[a]]
    BY DEF Copy
  <2> HIDE DEF size, new
  <2>7. ASSUME NEW c \in DiskCell PROVE cleared[Image(c)] = IF c \in E_PH THEN Noted ELSE c
    <3>1. Image(c) \in Memory /\ Image(c) >= KERNEL /\ Image(c) \in Nat
      BY <2>1, Places
    <3>2. Image(c) \notin h.paddr .. h.paddr + h.memsz - 1
      BY <2>1, <2>2, <3>1
    <3> QED
      BY <2>4, <3>1, <3>2 DEF Whole
  <2>8. ASSUME NEW a \in h.paddr .. h.paddr + h.filesz - 1
        PROVE  a \in Memory /\ new[a] = FILE_START + h.offset + (a - h.paddr)
    <3>1. a \in Memory /\ from(a) \in DiskCell /\ from(a) \notin E_PH
      <4> DEFINE p == h.paddr
                 f == h.filesz
                 o == h.offset
      <4>1. a \in p .. p + f - 1 /\ p \in Nat /\ f \in Nat /\ o \in Nat
        BY <2>2, <2>8
      <4>2. /\ p + f <= KERNEL /\ FILE_START + o + f <= size
            /\ KERNEL \in Nat /\ size \in Nat /\ FILE_START \in Nat
        BY <2>1, <2>2
      <4>3. from(a) = FILE_START + o + (a - p)
        OBVIOUS
      <4> HIDE DEF p, f, o, from
      <4>4. /\ a \in Nat /\ a < KERNEL /\ from(a) \in Nat /\ from(a) < size
            /\ from(a) >= FILE_START
        BY <4>1, <4>2, <4>3
      <4>5. from(a) \notin E_PH
        BY <4>2, <4>4, InFront
      <4> QED
        BY <2>1, <4>2, <4>4, <4>5
    <3>2. Image(from(a)) = Image(FILE_START + h.offset) + (a - h.paddr)
      <4> DEFINE p == h.paddr
                 o == h.offset
      <4>1. KERNEL \in Int /\ FILE_START \in Int /\ o \in Int /\ p \in Int /\ a \in Int
        BY <2>1, <2>2, <3>1
      <4> HIDE DEF p, o
      <4>2. KERNEL + (FILE_START + o + (a - p)) = KERNEL + (FILE_START + o) + (a - p)
        BY <4>1
      <4> QED
        BY <4>2 DEF Image, p, o
    <3>3. new[a] = cleared[Image(from(a))]
      BY <2>5, <2>8, <3>1, <3>2, Zenon
    <3> QED
      BY <2>7, <3>1, <3>3
  <2>9. ASSUME NEW a \in Memory, a \notin h.paddr .. h.paddr + h.memsz - 1 PROVE new[a] = memory[a]
    <3>1. a \notin h.paddr .. h.paddr + h.filesz - 1
      <4> DEFINE p == h.paddr
                 m == h.memsz
                 f == h.filesz
      <4>1. /\ a \notin p .. p + m - 1 /\ p \in Nat /\ m \in Nat /\ f \in Nat /\ f <= m
            /\ a \in Memory /\ Memory \subseteq Int
        BY <2>1, <2>2, <2>9
      <4> HIDE DEF p, m, f
      <4>2. a \notin p .. p + f - 1
        BY <4>1
      <4> QED
        BY <4>2 DEF p, f
    <3> QED
      BY <2>4, <2>5, <2>9, <3>1
  <2>10. ASSUME NEW c \in DiskCell PROVE new[Image(c)] = IF c \in E_PH THEN Noted ELSE c
    <3>1. Image(c) \in Memory /\ Image(c) >= KERNEL /\ Image(c) \in Nat
      BY <2>1, Places
    <3>2. Image(c) \notin h.paddr .. h.paddr + h.memsz - 1
      BY <2>1, <2>2, <3>1
    <3> QED
      BY <2>9, <3>1, <3>2 DEF Whole
  <2>11. ASSUME NEW k \in 0 .. h.memsz - 1
         PROVE  new[h.paddr + k] = IF k < h.filesz THEN FILE_START + h.offset + k ELSE Zero
    <3> DEFINE a == h.paddr + k
    <3>1. a \in Memory /\ a - h.paddr = k /\ a \in h.paddr .. h.paddr + h.memsz - 1
      <4> DEFINE p == h.paddr
                 m == h.memsz
      <4>1. /\ p \in Nat /\ m \in Nat /\ k \in 0 .. m - 1 /\ p + m <= KERNEL
            /\ KERNEL \in Nat /\ size \in Nat /\ Memory = 0 .. KERNEL + size - 1
        BY <2>1, <2>2
      <4> HIDE DEF p, m
      <4>2. p + k \in Memory /\ (p + k) - p = k /\ p + k \in p .. p + m - 1
        BY <4>1
      <4> QED
        BY <4>2 DEF p, m
    <3>2. a \in h.paddr .. h.paddr + h.filesz - 1 <=> k < h.filesz
      BY <2>2
    <3> HIDE DEF a
    <3>3. CASE k < h.filesz
      BY <2>8, <3>1, <3>2, <3>3 DEF a
    <3>4. CASE ~ (k < h.filesz)
      <4>1. new[a] = cleared[a] /\ cleared[a] = Zero
        BY <2>4, <2>5, <3>1, <3>2, <3>4
      <4> QED
        BY <3>4, <4>1 DEF a
    <3> QED
      BY <3>3, <3>4
  <2>12. new \in [Memory -> Int]
    <3>1. ASSUME NEW a \in Memory PROVE new[a] \in Int
      <4>1. CASE a \in h.paddr .. h.paddr + h.filesz - 1
        <5>1. new[a] = FILE_START + h.offset + (a - h.paddr)
          BY <2>8, <4>1
        <5>2. a \in Int /\ FILE_START \in Int /\ h.offset \in Int /\ h.paddr \in Int
          BY <2>1, <2>2, <4>1
        <5> QED
          BY <5>1, <5>2
      <4>2. CASE a \notin h.paddr .. h.paddr + h.filesz - 1
        BY <2>4, <2>5, <4>2 DEF Whole, Zero, Noted
      <4> QED
        BY <4>1, <4>2
    <3> QED
      BY <2>6, <3>1
  <2> QED
    BY <1>2, <2>3, <2>9, <2>10, <2>11, <2>12 DEF Whole, Filled
<1> QED
  BY <1>1, <1>2

\* All headers: what one has loaded the later ones leave alone.
LEMMA Booted ==
    ASSUME NEW headers \in LAYOUTS
    PROVE  /\ Whole(Boot(headers), E_PH \cup VIDEO)
           /\ \A i \in DOMAIN headers : headers[i].load => Filled(Boot(headers), headers[i])
<1> DEFINE n == Len(headers)
           noted == Stored(ReadDisk, E_PH)
           loaded == LoadSegments(ReadDisk, headers)
           V == {memory \in [Memory -> Int] : Whole(memory, E_PH)}
           body == [i \in 0 .. n |-> [memory \in V |->
                        IF i = 0 THEN memory ELSE process_header_entry(memory, headers[i])]]
           Loops(g) == g = [i \in 0 .. n |->
                IF i = 0 THEN noted ELSE process_header_entry(g[i - 1], headers[i])]
           Loaded(memory, k) ==
               /\ Whole(memory, E_PH)
               /\ \A i \in 1 .. k : headers[i].load => Filled(memory, headers[i])
           T == {k \in 0 .. n : \A g : Loops(g) => Loaded(g[k], k)}
<1>1. /\ n \in Nat /\ DOMAIN headers = 1 .. n
      /\ \A i \in 1 .. n : headers[i] \in Header /\ (headers[i].load => Lies(headers[i]))
      /\ \A i, j \in 1 .. n :
             i # j /\ headers[i].load /\ headers[j].load => Apart(headers[i], headers[j])
  <2>1. headers \in Seq(Header)
    BY LoaderAssumption
  <2>2. n \in Nat /\ DOMAIN headers = 1 .. n
    BY <2>1
  <2>3. \A i \in 1 .. n : headers[i] \in Header
    BY <2>1, <2>2, ElementOfSeq
  <2> HIDE DEF n
  <2> QED
    BY <2>2, <2>3, LoaderAssumption
<1>2. Whole(ReadDisk, {})
  <2>1. ASSUME NEW i \in DiskCell PROVE ReadDisk[Image(i)] = i
    <3>1. i \in 0 .. CHUNKS * CHUNK - 1
      BY DEF DiskCell
    <3> DEFINE size == CHUNKS * CHUNK
    <3> HIDE DEF size
    <3>2. size \in Nat /\ i \in 0 .. size - 1 /\ KERNEL \in Nat /\ Image(i) \in Memory /\ Image(i) = KERNEL + i
      BY <3>1, Places DEF size
    <3>3. Image(i) \in KERNEL .. KERNEL + size - 1
      BY <3>2
    <3>4. ReadDisk[Image(i)] = Image(i) - KERNEL
      BY <3>2, <3>3, DiskRead DEF ReadTo, size
    <3> QED
      BY <3>2, <3>4
  <2> QED
    BY <2>1, DiskRead DEF Whole
<1>10. Whole(noted, E_PH)
  <2>1. {} \cup E_PH = E_PH
    OBVIOUS
  <2> QED
    BY <1>2, <2>1, InFront, StoresInside
<1> HIDE DEF n, noted
<1>3. body \in [0 .. n -> [V -> V]]
  <2>1. ASSUME NEW i \in 0 .. n, NEW memory \in V, i # 0
        PROVE  process_header_entry(memory, headers[i]) \in V
    <3>1. i \in 1 .. n
      BY <1>1, <2>1
    <3>2. headers[i] \in Header /\ (headers[i].load => Lies(headers[i])) /\ Whole(memory, E_PH)
      BY <1>1, <3>1
    <3>3. Whole(process_header_entry(memory, headers[i]), E_PH)
      BY <3>2, Loads
    <3> QED
      BY <3>3 DEF Whole
  <2> HIDE DEF V
  <2> QED
    BY <2>1
<1>4. PICK g \in [0 .. n -> V] : Runs(g, 0, n, noted, body)
  <2>1. 0 \in Nat /\ 0 <= n /\ noted \in V
    BY <1>1, <1>10 DEF Whole
  <2> HIDE DEF body, V
  <2> QED
    BY <1>1, <1>3, <2>1, Iterated
<1>5. Loops(g)
  <2> HIDE DEF V
  <2>1. ASSUME NEW i \in 0 .. n, i # 0 PROVE g[i] = process_header_entry(g[i - 1], headers[i])
    <3>1. g[i - 1] \in V
      BY <1>1, <1>4, <2>1
    <3> QED
      BY <1>4, <2>1, <3>1 DEF Runs
  <2>2. g[0] = noted
    <3>1. 0 \in 0 .. n
      BY <1>1
    <3> HIDE DEF body
    <3> QED
      BY <1>4, <3>1 DEF Runs
  <2>3. g = [i \in 0 .. n |-> g[i]]
    BY <1>4
  <2> HIDE DEF body
  <2> QED
    BY <2>1, <2>2, <2>3
<1>6. loaded = (CHOOSE h : Loops(h))[n]
  BY DEF LoadSegments, n, noted
<1>7. \A k \in 0 .. n : k \in T
  <2>1. 0 \in T
    BY <1>1, <1>10
  <2>2. ASSUME NEW k \in 0 .. n - 1, k \in T PROVE k + 1 \in T
    <3> SUFFICES ASSUME NEW f, Loops(f) PROVE Loaded(f[k + 1], k + 1)
      <4> HIDE DEF Loops, Loaded
      <4> QED
        BY <1>1
    <3> DEFINE h == headers[k + 1]
               old == f[k]
               new == process_header_entry(old, h)
    <3>1. k + 1 \in 0 .. n /\ k + 1 # 0 /\ (k + 1) - 1 = k /\ k + 1 \in 1 .. n
      BY <1>1
    <3>2. f[k + 1] = new
      BY <3>1
    <3>3. Loaded(old, k)
      BY <2>2
    <3>4. h \in Header /\ (h.load => Lies(h))
      BY <1>1, <3>1
    <3>5. /\ Whole(new, E_PH)
          /\ h.load => Filled(new, h)
          /\ \A a \in Memory :
                 (h.load => a \notin h.paddr .. h.paddr + h.memsz - 1) => new[a] = old[a]
      <4> HIDE DEF h, old
      <4> QED
        BY <3>3, <3>4, Loads
    <3>6. ASSUME NEW i \in 1 .. k, headers[i].load PROVE Filled(new, headers[i])
      <4> DEFINE e == headers[i]
      <4>1. i \in 1 .. n /\ i # k + 1
        BY <1>1
      <4>2. e \in Header /\ Lies(e) /\ (h.load => Apart(e, h)) /\ Filled(old, e)
        BY <1>1, <3>1, <3>3, <3>6, <4>1
      <4> HIDE DEF e, h, old, new
      <4>3. /\ e.paddr \in Nat /\ e.memsz \in Nat /\ e.paddr + e.memsz <= KERNEL
            /\ h.paddr \in Nat /\ h.memsz \in Nat
        BY <3>4, <4>2 DEF Header, Lies
      <4>4. ASSUME NEW m \in 0 .. e.memsz - 1 PROVE new[e.paddr + m] = old[e.paddr + m]
        <5>1. e.paddr + m \in Memory
          <6> DEFINE size == CHUNKS * CHUNK
          <6>1. size \in Nat /\ KERNEL \in Nat /\ Memory = 0 .. KERNEL + size - 1
            BY Places
          <6> HIDE DEF size
          <6> QED
            BY <4>3, <6>1
        <5>2. h.load => e.paddr + m \notin h.paddr .. h.paddr + h.memsz - 1
          <6> DEFINE p == e.paddr
                     s == e.memsz
                     q == h.paddr
                     z == h.memsz
          <6>1. p \in Nat /\ s \in Nat /\ q \in Nat /\ z \in Nat /\ m \in 0 .. s - 1
            BY <4>3
          <6>2. h.load => p + s <= q \/ q + z <= p
            BY <4>2 DEF Apart
          <6> HIDE DEF p, s, q, z
          <6>3. h.load => p + m \notin q .. q + z - 1
            BY <6>1, <6>2
          <6> QED
            BY <6>3 DEF p, q, z
        <5> QED
          BY <3>5, <5>1, <5>2
      <4> QED
        BY <4>2, <4>4 DEF Filled, e
    <3> HIDE DEF new
    <3>7. ASSUME NEW i \in 1 .. k + 1, headers[i].load PROVE Filled(new, headers[i])
      <4>1. i \in 1 .. k \/ i = k + 1
        BY <1>1
      <4> QED
        BY <3>5, <3>6, <3>7, <4>1
    <3> QED
      BY <3>2, <3>5, <3>7
  <2> HIDE DEF T
  <2> QED
    BY <1>1, <2>1, <2>2, Induct
<1> HIDE DEF Loops
<1>8. Loops(CHOOSE h : Loops(h))
  BY <1>5
<1>9. Loaded(loaded, n)
  BY <1>1, <1>6, <1>7, <1>8
<1> HIDE DEF loaded
<1>11. /\ Whole(Boot(headers), E_PH \cup VIDEO)
       /\ \A a \in Memory : a < KERNEL => Boot(headers)[a] = loaded[a]
  BY <1>9, InFront, StoresInside DEF Boot, write_string, loaded
<1>12. ASSUME NEW i \in 1 .. n, headers[i].load PROVE Filled(Boot(headers), headers[i])
  <2> DEFINE e == headers[i]
             boot == Boot(headers)
  <2>1. e \in Header /\ Lies(e) /\ Filled(loaded, e)
    BY <1>1, <1>9, <1>12
  <2> HIDE DEF e, boot
  <2>2. ASSUME NEW m \in 0 .. e.memsz - 1 PROVE boot[e.paddr + m] = loaded[e.paddr + m]
    <3> DEFINE p == e.paddr
               z == e.memsz
               size == CHUNKS * CHUNK
    <3>1. /\ p \in Nat /\ z \in Nat /\ p + z <= KERNEL /\ m \in 0 .. z - 1
          /\ KERNEL \in Nat /\ size \in Nat /\ Memory = 0 .. KERNEL + size - 1
      BY <2>1, Places DEF Header, Lies
    <3> HIDE DEF p, z, size
    <3>2. p + m \in Memory /\ p + m < KERNEL
      BY <3>1
    <3> QED
      BY <1>11, <3>2 DEF p, boot
  <2> QED
    BY <2>1, <2>2 DEF Filled, e, boot
<1> QED
  BY <1>1, <1>11, <1>12

LEMMA BootInvariant == RoutinesSpec => [](KernelLoaded /\ ImageOfDisk)
<1> DEFINE P == KernelLoaded /\ ImageOfDisk
<1>1. RoutinesInit => P
  BY DEF RoutinesInit, NoCall, KernelLoaded, ImageOfDisk
<1>2. P /\ [RoutinesNext]_<<memoryVars, ring, call>> => P'
  <2>1. P /\ UNCHANGED call => P'
    BY DEF KernelLoaded, ImageOfDisk
  <2>2. ASSUME RoutinesNext, call'.routine = "boot" PROVE P'
    <3>1. PICK headers \in LAYOUTS : CallBoot(headers)
      BY <2>2, Calls
    <3>2. call'.headers = headers /\ call'.memory = Boot(headers)
      BY <3>1 DEF CallBoot
    <3> QED
      BY <3>2, Booted DEF KernelLoaded, ImageOfDisk, Whole, Filled
  <2> QED
    BY <2>1, <2>2 DEF KernelLoaded, ImageOfDisk
<1> QED
  BY <1>1, <1>2, PTL DEF RoutinesSpec

\* However the segments lie, every one is in its place when the kernel is entered.
THEOREM KernelEntered == RoutinesSpec => []KernelLoaded
BY BootInvariant, PTL

\* And the image is the disk to its last cell, but for stage2's own variables.
THEOREM ImageKept == RoutinesSpec => []ImageOfDisk
BY BootInvariant, PTL

-----------------------------------------------------------------------------
(* mkfs.                                                                   *)

\* The loop of Linked, for cells given as a function.
Links(after, image, at, first, last) ==
    after = [i \in first .. last |-> IF i = first THEN image
                                     ELSE [after[i - 1] EXCEPT ![at[i - 1]] = i]]

LEMMA LinksSomehow ==
    ASSUME NEW D, NEW image \in [D -> Int], NEW first \in Nat, NEW last \in Nat, first <= last,
           NEW at \in [first .. last -> D]
    PROVE  \E after : Links(after, image, at, first, last)
<1> DEFINE V == [D -> Int]
           body == [i \in first .. last |-> [old \in V |->
                        IF i = first THEN old ELSE [old EXCEPT ![at[i - 1]] = i]]]
<1>1. body \in [first .. last -> [V -> V]]
  <2>1. ASSUME NEW i \in first .. last, NEW old \in V PROVE [old EXCEPT ![at[i - 1]] = i] \in V
    <3> DEFINE c == at[i - 1]
    <3>1. i \in Int
      OBVIOUS
    <3> HIDE DEF c
    <3>2. [old EXCEPT ![c] = i] \in V
      BY <3>1
    <3> QED
      BY <3>2 DEF c
  <2> HIDE DEF V
  <2> QED
    BY <2>1
<1>2. PICK after \in [first .. last -> V] : Runs(after, first, last, image, body)
  <2>1. image \in V
    OBVIOUS
  <2> HIDE DEF body, V
  <2> QED
    BY <1>1, <2>1, Iterated
<1>3. ASSUME NEW i \in first .. last
      PROVE  after[i] = IF i = first THEN image ELSE [after[i - 1] EXCEPT ![at[i - 1]] = i]
  <2> HIDE DEF V
  <2>1. i # first => after[i - 1] \in V
    BY <1>2
  <2> QED
    BY <1>2, <2>1 DEF Runs
<1>4. after = [i \in first .. last |-> after[i]]
  BY <1>2
<1> HIDE DEF body, V
<1>5. Links(after, image, at, first, last)
  BY <1>3, <1>4 DEF Links
<1> QED
  BY <1>5

\* What Linked returns.
Makes(new, image, at, first, last) ==
    \E after : /\ Links(after, image, at, first, last)
               /\ new = [after[last] EXCEPT ![at[last]] = End]

\* Cells of their own for the nodes from first to last.
Laid(at, D, first, last) ==
    /\ first \in Nat /\ last \in Nat /\ first <= last
    /\ at \in [first .. last -> D]
    /\ \A i, j \in first .. last : at[i] = at[j] => i = j

\* The list that it makes: from first to last, in its cells and no others.
LEMMA Linking ==
    ASSUME NEW D, NEW first, NEW last, NEW at, Laid(at, D, first, last),
           NEW image \in [D -> Int], NEW new, Makes(new, image, at, first, last)
    PROVE  /\ new \in [D -> Int]
           /\ \A k \in first .. last - 1 : new[at[k]] = k + 1
           /\ new[at[last]] = End
           /\ \A c \in D : (\A k \in first .. last : c # at[k]) => new[c] = image[c]
<1> /\ first \in Nat /\ last \in Nat /\ first <= last
    /\ at \in [first .. last -> D]
    /\ \A i, j \in first .. last : at[i] = at[j] => i = j
  BY DEF Laid
<1>0. PICK after : /\ Links(after, image, at, first, last)
                   /\ new = [after[last] EXCEPT ![at[last]] = End]
  BY DEF Makes
<1> DEFINE So(m) ==
               /\ after[m] \in [D -> Int]
               /\ \A k \in first .. m - 1 : after[m][at[k]] = k + 1
               /\ \A c \in D : (\A k \in first .. last : c # at[k]) => after[m][c] = image[c]
           T == {m \in first .. last : So(m)}
<1>1. after[first] = image
  BY <1>0 DEF Links
<1>2. \A i \in first .. last : i # first => after[i] = [after[i - 1] EXCEPT ![at[i - 1]] = i]
  BY <1>0 DEF Links
<1>3. first \in T
  BY <1>1
<1>4. ASSUME NEW m \in first .. last - 1, m \in T PROVE m + 1 \in T
  <2> DEFINE old == after[m]
             next == after[m + 1]
  <2>1. m + 1 \in first .. last /\ m + 1 # first /\ (m + 1) - 1 = m /\ m \in first .. last
    OBVIOUS
  <2>2. next = [old EXCEPT ![at[m]] = m + 1]
    BY <1>2, <2>1
  <2>3. old \in [D -> Int] /\ at[m] \in D
    BY <1>4, <2>1
  <2> HIDE DEF old, next
  <2>4. next \in [D -> Int]
    BY <2>2, <2>3
  <2>5. ASSUME NEW k \in first .. m PROVE next[at[k]] = k + 1
    <3>1. k \in first .. last /\ at[k] \in D
      OBVIOUS
    <3>2. CASE k = m
      BY <2>2, <2>3, <3>2
    <3>3. CASE k # m
      <4>1. k \in first .. m - 1 /\ at[k] # at[m]
        BY <2>1, <3>1, <3>3
      <4>2. old[at[k]] = k + 1
        BY <1>4, <4>1 DEF old
      <4> QED
        BY <2>2, <2>3, <3>1, <4>1, <4>2
    <3> QED
      BY <3>2, <3>3
  <2>6. ASSUME NEW c \in D, \A k \in first .. last : c # at[k] PROVE next[c] = image[c]
    <3>1. c # at[m]
      BY <2>1, <2>6
    <3>2. old[c] = image[c]
      BY <1>4, <2>6 DEF old
    <3> QED
      BY <2>2, <2>3, <3>1, <3>2
  <2> QED
    BY <2>1, <2>4, <2>5, <2>6 DEF next
<1>5. last \in T
  <2> HIDE DEF T
  <2>1. \A m \in first .. last : m \in T
    BY <1>3, <1>4, Induct
  <2> QED
    BY <2>1
<1> DEFINE done == after[last]
<1>6. So(last)
  BY <1>5
<1>7. done \in [D -> Int] /\ at[last] \in D
  BY <1>6
<1>12. new = [done EXCEPT ![at[last]] = End]
  BY <1>0
<1> HIDE DEF done
<1>8. new \in [D -> Int] /\ new[at[last]] = End
  BY <1>7, <1>12 DEF End
<1>9. ASSUME NEW c \in D, c # at[last] PROVE new[c] = done[c]
  BY <1>7, <1>9, <1>12
<1>10. ASSUME NEW k \in first .. last - 1 PROVE new[at[k]] = k + 1
  <2>1. at[k] \in D /\ at[k] # at[last]
    OBVIOUS
  <2>2. done[at[k]] = k + 1
    BY <1>6 DEF done
  <2> QED
    BY <1>9, <2>1, <2>2
<1>11. ASSUME NEW c \in D, \A k \in first .. last : c # at[k] PROVE new[c] = image[c]
  <2>1. done[c] = image[c]
    BY <1>6, <1>11 DEF done
  <2> QED
    BY <1>9, <1>11, <2>1
<1> QED
  BY <1>8, <1>10, <1>11

\* Where the lists lie in a file that mkfs survives.
LEMMA ListsApart ==
    ASSUME NEW num_blocks \in NUM_BLOCKS, num_blocks > data_start
    PROVE  LET cells == 0 .. num_blocks * PER_BLOCK - 1 IN
           /\ NUM_INODES \in Nat /\ NUM_INODES > 1 /\ num_blocks \in Nat /\ data_start \in Nat
           /\ \A k \in 1 .. NUM_INODES - 1 : free_inode(k) \in cells
           /\ \A d \in data_start .. num_blocks - 1 : free_data(d) \in cells
           /\ \A i, j \in 1 .. NUM_INODES - 1 : free_inode(i) = free_inode(j) => i = j
           /\ \A i, j \in data_start .. num_blocks - 1 : free_data(i) = free_data(j) => i = j
           /\ \A k \in 1 .. NUM_INODES - 1, d \in data_start .. num_blocks - 1 :
                  free_inode(k) # free_data(d)
<1> DEFINE P == PER_BLOCK
           I == NUM_INODES
           x == NUM_INODES * INODE_CELLS
           q == x \div P
           N == num_blocks
           file == N * P
<1>1. /\ P \in Nat \ {0} /\ I \in Nat /\ I > 1 /\ N \in Nat /\ INODE_CELLS \in Nat /\ INODE_CELLS > 1
      /\ file >= inode_start * P + I
  BY MkfsAssumption DEF free_inode
<1>2. x \in Nat /\ x >= 2 * I
  BY <1>1, SMT
<1> HIDE DEF x
<1>3. q \in Nat /\ x < q * P + P
  BY <1>1, <1>2, SMT
<1>4. data_start = 2 + q
  BY DEF data_start, inode_start, q, x
<1> HIDE DEF q
<1>5. file \in Nat /\ file >= 2 * P + I
  BY <1>1, SMT DEF inode_start
<1>6. \A k \in Nat : free_inode(k) = 2 * P + k
  BY <1>1 DEF free_inode, inode_start
<1>7. ASSUME NEW k \in 1 .. I - 1 PROVE free_inode(k) \in 0 .. file - 1
  <2> HIDE DEF file
  <2> DEFINE start == 2 * P
  <2>1. k \in Nat /\ k < I /\ I \in Nat /\ start \in Nat
    BY <1>1
  <2>2. free_inode(k) = start + k /\ file \in Nat /\ file >= start + I
    BY <1>5, <1>6, <2>1
  <2> HIDE DEF start
  <2> QED
    BY <2>1, <2>2
<1>8. ASSUME NEW d \in data_start .. N - 1 PROVE free_data(d) \in 0 .. file - 1
  <2>1. d \in Nat /\ d + 1 <= N
    BY <1>1, <1>3, <1>4
  <2>2. d * P \in Nat /\ (d + 1) * P = d * P + P /\ (d + 1) * P <= N * P
    BY <1>1, <2>1, SMT
  <2> QED
    BY <1>1, <1>5, <2>2 DEF free_data
<1>9. ASSUME NEW i \in data_start .. N - 1, NEW j \in data_start .. N - 1, free_data(i) = free_data(j)
      PROVE  i = j
  <2>1. i \in Nat /\ j \in Nat /\ i * P = j * P
    BY <1>1, <1>3, <1>4, <1>9 DEF free_data
  <2> QED
    BY <1>1, <2>1, SMT
<1>10. ASSUME NEW k \in 1 .. I - 1, NEW d \in data_start .. N - 1, free_inode(k) = free_data(d)
       PROVE  FALSE
  <2> DEFINE j == d - 2
             y == j * P
  <2>1. j \in Nat /\ j >= q /\ k \in Nat /\ k >= 1 /\ k < I /\ d = j + 2
    BY <1>1, <1>3, <1>4
  <2> HIDE DEF j
  <2>2. d * P = y + 2 * P /\ y \in Nat
    BY <1>1, <2>1, SMT
  <2>3. k = y
    BY <1>1, <1>6, <1>10, <2>1, <2>2 DEF free_data
  <2>4. j >= 1
    BY <1>1, <2>1, <2>3, SMT
  <2>5. y >= P /\ q * P <= y
    BY <1>1, <1>3, <2>1, <2>4, SMT
  <2>6. q * P \in Nat
    BY <1>1, <1>3, SMT
  <2> DEFINE z == q * P
  <2> HIDE DEF y, z
  <2>7. z \in Nat /\ z <= y /\ y >= P /\ x < z + P
    BY <1>3, <2>5, <2>6 DEF z
  <2> QED
    BY <1>1, <1>2, <2>1, <2>2, <2>3, <2>7
<1>11. \A i, j \in 1 .. I - 1 : free_inode(i) = free_inode(j) => i = j
  BY <1>1, <1>6
<1>12. data_start \in Nat
  BY <1>3, <1>4
<1> QED
  BY <1>1, <1>7, <1>8, <1>9, <1>10, <1>11, <1>12

\* Both loops run as Linking says.
LEMMA LoopsLink ==
    ASSUME NEW num_blocks \in NUM_BLOCKS, num_blocks > data_start,
           NEW image \in [0 .. num_blocks * PER_BLOCK - 1 -> Int]
    PROVE  LET inodes == [k \in 1 .. NUM_INODES - 1 |-> free_inode(k)]
               nodes == [d \in data_start .. num_blocks - 1 |-> free_data(d)] IN
           /\ Makes(LinkInodes(image), image, inodes, 1, NUM_INODES - 1)
           /\ Makes(LinkBlocks(image, num_blocks), image, nodes, data_start, num_blocks - 1)
<1> DEFINE D == 0 .. num_blocks * PER_BLOCK - 1
           n == NUM_INODES - 1
           m == num_blocks - 1
           inodes == [k \in 1 .. n |-> free_inode(k)]
           nodes == [d \in data_start .. m |-> free_data(d)]
           InodeLoop(g) == g = [i \in 1 .. n |-> IF i = 1 THEN image
                                                 ELSE [g[i - 1] EXCEPT ![free_inode(i - 1)] = i]]
           BlockLoop(g) == g = [i \in data_start .. m |->
                                    IF i = data_start THEN image
                                    ELSE [g[i - 1] EXCEPT ![free_data(i - 1)] = i]]
<1>1. /\ n \in Nat /\ 1 <= n /\ m \in Nat /\ data_start \in Nat /\ data_start <= m
      /\ inodes \in [1 .. n -> D] /\ nodes \in [data_start .. m -> D]
  BY ListsApart
<1>2. ASSUME NEW g PROVE InodeLoop(g) <=> Links(g, image, inodes, 1, n)
  <2>1. \A i \in 1 .. n : i # 1 => i - 1 \in 1 .. n
    BY <1>1
  <2>2. \A i \in 1 .. n : i # 1 => inodes[i - 1] = free_inode(i - 1)
    BY <2>1
  <2> HIDE DEF inodes, n
  <2> QED
    BY <2>2 DEF Links
<1>3. ASSUME NEW g PROVE BlockLoop(g) <=> Links(g, image, nodes, data_start, m)
  <2>1. \A i \in data_start .. m : i # data_start => i - 1 \in data_start .. m
    BY <1>1
  <2>2. \A i \in data_start .. m : i # data_start => nodes[i - 1] = free_data(i - 1)
    BY <2>1
  <2> HIDE DEF nodes, m
  <2> QED
    BY <2>2 DEF Links
<1>4. LinkInodes(image) = [(CHOOSE g : InodeLoop(g))[n] EXCEPT ![free_inode(n)] = End]
  BY <1>1 DEF LinkInodes, Linked
<1>5. LinkBlocks(image, num_blocks) = [(CHOOSE g : BlockLoop(g))[m] EXCEPT ![free_data(m)] = End]
  BY <1>1 DEF LinkBlocks, Linked
<1>6. inodes[n] = free_inode(n) /\ nodes[m] = free_data(m)
  BY <1>1
<1> HIDE DEF InodeLoop, BlockLoop, inodes, nodes, n, m, D
<1>7. (\E g : Links(g, image, inodes, 1, n)) /\ (\E g : Links(g, image, nodes, data_start, m))
  <2>1. image \in [D -> Int] /\ 1 \in Nat
    BY DEF D
  <2> QED
    BY <1>1, <2>1, LinksSomehow
<1>8. InodeLoop(CHOOSE g : InodeLoop(g)) /\ BlockLoop(CHOOSE g : BlockLoop(g))
  BY <1>2, <1>3, <1>7
<1>9. Makes(LinkInodes(image), image, inodes, 1, n)
  BY <1>2, <1>4, <1>6, <1>8 DEF Makes
<1>10. Makes(LinkBlocks(image, num_blocks), image, nodes, data_start, m)
  BY <1>3, <1>5, <1>6, <1>8 DEF Makes
<1> QED
  BY <1>9, <1>10 DEF inodes, nodes, n, m

\* mkfs makes both free lists, of any size, and neither is written over.
LEMMA ListsMade ==
    ASSUME NEW num_blocks \in NUM_BLOCKS, num_blocks > data_start
    PROVE  LET image == mkfs(num_blocks) IN
           /\ \A k \in 1 .. NUM_INODES - 2 : image[free_inode(k)] = k + 1
           /\ image[free_inode(NUM_INODES - 1)] = End
           /\ \A k \in data_start .. num_blocks - 2 : image[free_data(k)] = k + 1
           /\ image[free_data(num_blocks - 1)] = End
<1> DEFINE D == 0 .. num_blocks * PER_BLOCK - 1
           n == NUM_INODES - 1
           m == num_blocks - 1
           inodes == [k \in 1 .. n |-> free_inode(k)]
           nodes == [d \in data_start .. m |-> free_data(d)]
           old == NewFile(num_blocks)
           half == LinkInodes(old)
           image == LinkBlocks(half, num_blocks)
<1>1. /\ n \in Nat /\ 1 \in Nat /\ 1 <= n /\ m \in Nat /\ data_start \in Nat /\ data_start <= m
      /\ inodes \in [1 .. n -> D] /\ nodes \in [data_start .. m -> D]
      /\ Laid(inodes, D, 1, n) /\ Laid(nodes, D, data_start, m)
      /\ \A k \in 1 .. n, d \in data_start .. m : inodes[k] # nodes[d]
      /\ n - 1 = NUM_INODES - 2 /\ m - 1 = num_blocks - 2
  BY ListsApart DEF Laid
<1>2. old \in [D -> Int]
  BY DEF NewFile, Blank
<1>3. mkfs(num_blocks) = image
  BY DEF mkfs
<1>11. Laid(inodes, D, 1, n)
  BY <1>1
<1>12. Laid(nodes, D, data_start, m)
  BY <1>1
<1>4. /\ half \in [D -> Int]
      /\ \A k \in 1 .. n - 1 : half[inodes[k]] = k + 1
      /\ half[inodes[n]] = End
  <2>1. Makes(half, old, inodes, 1, n)
    <3> HIDE DEF old
    <3> QED
      BY <1>2, LoopsLink
  <2> HIDE DEF D, n, m, inodes, nodes, old, half
  <2> QED
    BY <1>2, <1>11, <2>1, Linking
<1>5. /\ \A k \in data_start .. m - 1 : image[nodes[k]] = k + 1
      /\ image[nodes[m]] = End
      /\ \A c \in D : (\A k \in data_start .. m : c # nodes[k]) => image[c] = half[c]
  <2>1. Makes(image, half, nodes, data_start, m)
    <3> HIDE DEF half
    <3> QED
      BY <1>4, LoopsLink
  <2> HIDE DEF D, n, m, inodes, nodes, old, half, image
  <2> QED
    BY <1>4, <1>12, <2>1, Linking
<1>6. ASSUME NEW k \in 1 .. n PROVE image[inodes[k]] = half[inodes[k]]
  <2> HIDE DEF D, n, m, inodes, nodes, old, half, image
  <2> QED
    BY <1>1, <1>5
<1>7. \A k \in 1 .. n : inodes[k] = free_inode(k)
  OBVIOUS
<1>8. \A k \in data_start .. m : nodes[k] = free_data(k)
  OBVIOUS
<1> HIDE DEF inodes, nodes, old, half, image
<1>9. /\ \A k \in 1 .. n - 1 : image[free_inode(k)] = k + 1
      /\ image[free_inode(n)] = End
  <2>1. \A k \in 1 .. n - 1 : k \in 1 .. n
    BY <1>1
  <2>2. n \in 1 .. n
    BY <1>1
  <2> HIDE DEF n
  <2> QED
    BY <1>4, <1>6, <1>7, <2>1, <2>2
<1>10. /\ \A k \in data_start .. m - 1 : image[free_data(k)] = k + 1
       /\ image[free_data(m)] = End
  <2>1. \A k \in data_start .. m - 1 : k \in data_start .. m
    BY <1>1
  <2>2. m \in data_start .. m
    BY <1>1
  <2> HIDE DEF m
  <2> QED
    BY <1>5, <1>8, <2>1, <2>2
<1> QED
  BY <1>1, <1>3, <1>9, <1>10

\* mkfs's two free lists hold every free inode and every free block of the image, in
\* order, for every size of the file that leaves a block for data.
THEOREM FreeListsWhole == RoutinesSpec => []ListsWhole
<1>1. RoutinesInit => ListsWhole
  BY DEF RoutinesInit, NoCall, ListsWhole
<1>2. ListsWhole /\ [RoutinesNext]_<<memoryVars, ring, call>> => ListsWhole'
  <2>1. ListsWhole /\ UNCHANGED call => ListsWhole'
    BY DEF ListsWhole, IsList
  <2>2. ASSUME RoutinesNext, call'.routine = "mkfs", call'.num_blocks > data_start
        PROVE  /\ IsList(call'.image, free_inode_list, free_inode, 1, NUM_INODES - 1)
               /\ IsList(call'.image, free_data_list, free_data, data_start, call'.num_blocks - 1)
    <3>1. PICK num_blocks \in NUM_BLOCKS : CallMkfs(num_blocks)
      BY <2>2, Calls
    <3>2. call'.num_blocks = num_blocks /\ call'.image = mkfs(num_blocks)
      BY <3>1 DEF CallMkfs
    <3>3. /\ NUM_INODES \in Nat /\ num_blocks \in Nat
          /\ (NUM_INODES - 1) - 1 = NUM_INODES - 2 /\ (num_blocks - 1) - 1 = num_blocks - 2
      BY <2>2, <3>2, ListsApart
    <3>4. /\ IsList(mkfs(num_blocks), free_inode_list, free_inode, 1, NUM_INODES - 1)
          /\ IsList(mkfs(num_blocks), free_data_list, free_data, data_start, num_blocks - 1)
      BY <2>2, <3>2, <3>3, ListsMade DEF IsList, free_inode_list, free_data_list
    <3> QED
      BY <3>2, <3>4
  <2> QED
    BY <2>1, <2>2 DEF ListsWhole
<1> QED
  BY <1>1, <1>2, PTL DEF RoutinesSpec

-----------------------------------------------------------------------------
(* The sleep queue.                                                        *)

\* An exchange of two entries, as the times see it.
LEMMA Exchanges ==
    ASSUME NEW r, SleepRing(r), NEW i \in Entries(r), NEW j \in Entries(r)
    PROVE  LET new == Exchange(r, i, j) IN
           /\ SleepRing(new) /\ new.tail = r.tail /\ new.time = r.time
           /\ Sleepers(new) = Sleepers(r)
           /\ \A k \in Entries(r) :
                  Time(new, k) = IF i <= j /\ Time(r, i) > Time(r, j)
                                 THEN IF k = i THEN Time(r, j) ELSE IF k = j THEN Time(r, i)
                                      ELSE Time(r, k)
                                 ELSE Time(r, k)
<1> DEFINE new == Exchange(r, i, j)
           swaps == i <= j /\ Time(r, i) > Time(r, j)
<1>1. CASE ~ swaps
  BY <1>1 DEF Exchange
<1>2. CASE swaps
  <2> DEFINE q == r.queue
             p == new.queue
             D == 0 .. MAX_PROCESSES - 1
  <2>1. /\ MAX_PROCESSES \in Nat /\ r.tail \in 0 .. MAX_PROCESSES - 1 /\ q \in [D -> Nat]
        /\ Entries(r) \subseteq D
        /\ r = [queue |-> q, tail |-> r.tail, time |-> r.time] /\ r.time \in [PIDS -> Nat]
    BY SleepQueueAssumption DEF SleepRing, Entries
  <2>2. /\ i \in D /\ j \in D
        /\ new = [r EXCEPT !.queue = [[q EXCEPT ![i] = q[j]] EXCEPT ![j] = q[i]]]
    BY <1>2, <2>1 DEF Exchange
  <2>3. new.tail = r.tail /\ new.time = r.time /\ p = [[q EXCEPT ![i] = q[j]] EXCEPT ![j] = q[i]]
        /\ new = [queue |-> p, tail |-> r.tail, time |-> r.time]
    BY <2>1, <2>2
  <2>4. p \in [D -> Nat] /\ \A k \in D : p[k] = IF k = j THEN q[i] ELSE IF k = i THEN q[j] ELSE q[k]
    <3> HIDE DEF p, q
    <3> QED
      BY <2>1, <2>2, <2>3
  <2>5. Entries(new) = Entries(r)
    BY <2>3 DEF Entries
  <2>6. /\ \A k \in Entries(r) : q[k] \in PIDS
        /\ \A k, m \in Entries(r) : q[k] = q[m] => k = m
    BY DEF SleepRing
  <2>7. /\ \A k \in Entries(r) : p[k] = IF k = j THEN q[i] ELSE IF k = i THEN q[j] ELSE q[k]
        /\ Sleepers(r) = {q[k] : k \in Entries(r)} /\ Sleepers(new) = {p[k] : k \in Entries(r)}
        /\ \A k : Time(new, k) = r.time[p[k]] /\ Time(r, k) = r.time[q[k]]
    BY <2>1, <2>3, <2>4, <2>5 DEF Sleepers, Time
  <2> HIDE DEF q, p, new, D, swaps
  <2>8. SleepRing(new)
    <3>1. new \in [queue : [D -> Nat], tail : 0 .. MAX_PROCESSES - 1, time : [PIDS -> Nat]]
      BY <2>1, <2>3, <2>4
    <3>2. \A k \in Entries(r) : p[k] \in PIDS
      BY <2>6, <2>7
    <3>3. \A k, m \in Entries(r) : p[k] = p[m] => k = m
      BY <2>6, <2>7
    <3> QED
      BY <2>5, <3>1, <3>2, <3>3 DEF SleepRing, p, D
  <2>9. Sleepers(new) = Sleepers(r)
    BY <2>7
  <2>10. \A k \in Entries(r) :
             Time(new, k) = IF k = i THEN Time(r, j) ELSE IF k = j THEN Time(r, i) ELSE Time(r, k)
    BY <2>7
  <2> QED
    BY <1>2, <2>3, <2>8, <2>9, <2>10 DEF new, swaps
<1> QED
  BY <1>1, <1>2

\* When the outer loop is at i and the inner one at j: the entries before i are sorted
\* and no longer than the others, the i-th no longer than those up to the j-th.
Sorting(r, i, j) ==
    /\ \A a \in 0 .. i - 1, b \in Entries(r) : a <= b => Time(r, a) <= Time(r, b)
    /\ \A b \in i .. j - 1 : Time(r, i) <= Time(r, b)

LEMMA SortsOne ==
    ASSUME NEW r, SleepRing(r), NEW i \in Entries(r), NEW j \in Entries(r), Sorting(r, i, j)
    PROVE  Sorting(Exchange(r, i, j), i, j + 1)
<1> DEFINE n == r.tail
           new == Exchange(r, i, j)
           t(k) == Time(r, k)
           u(k) == Time(new, k)
           swaps == i <= j /\ t(i) > t(j)
<1>1. /\ n \in Nat /\ Entries(r) = 0 .. n - 1 /\ Entries(new) = 0 .. n - 1
      /\ \A k \in 0 .. n - 1 :
             u(k) = IF swaps THEN IF k = i THEN t(j) ELSE IF k = j THEN t(i) ELSE t(k) ELSE t(k)
  <2>1. n \in Nat
    BY SleepQueueAssumption DEF SleepRing
  <2> QED
    BY <2>1, Exchanges DEF Entries
<1>2. \A k \in 0 .. n - 1 : t(k) \in Nat
  BY <1>1 DEF SleepRing, Time
<1>3. /\ \A a \in 0 .. i - 1, b \in 0 .. n - 1 : a <= b => t(a) <= t(b)
      /\ \A b \in i .. j - 1 : t(i) <= t(b)
  BY <1>1 DEF Sorting
<1>4. i \in 0 .. n - 1 /\ j \in 0 .. n - 1
  BY <1>1
<1> HIDE DEF n, new, t, u
<1>5. ASSUME NEW a \in 0 .. i - 1, NEW b \in 0 .. n - 1, a <= b PROVE u(a) <= u(b)
  <2>1. a \in 0 .. n - 1 /\ a # i /\ (swaps => a # j) /\ a \in Int /\ i \in Int /\ j \in Int /\ b \in Int
    BY <1>1, <1>4
  <2>2. u(a) = t(a)
    BY <1>1, <2>1
  <2>3. CASE swaps /\ b = i
    <3>1. u(b) = t(j) /\ a <= j
      BY <1>1, <1>4, <2>1, <2>3, <1>5
    <3> QED
      BY <1>3, <1>4, <2>2, <3>1
  <2>4. CASE swaps /\ b = j /\ b # i
    <3>1. u(b) = t(i) /\ a <= i
      BY <1>1, <1>4, <2>1, <2>4, <1>5
    <3> QED
      BY <1>3, <1>4, <2>2, <3>1
  <2>5. CASE ~ swaps \/ (b # i /\ b # j)
    <3>1. u(b) = t(b)
      BY <1>1, <2>5
    <3> QED
      BY <1>3, <1>5, <2>2, <3>1
  <2> QED
    BY <2>3, <2>4, <2>5
<1>6. ASSUME NEW b \in i .. j PROVE u(i) <= u(b)
  <2>1. i \in Int /\ j \in Int /\ b \in 0 .. n - 1 /\ i <= j /\ t(i) \in Nat /\ t(j) \in Nat /\ t(b) \in Nat
    BY <1>1, <1>2, <1>4
  <2>2. b \in i .. j - 1 \/ b = j
    BY <2>1
  <2>3. b # j => t(i) <= t(b)
    BY <1>3, <2>2
  <2>4. CASE swaps
    <3>1. u(i) = t(j) /\ u(j) = t(i) /\ t(j) < t(i)
      BY <1>1, <1>4, <2>1, <2>4
    <3>2. b # i /\ b # j => u(b) = t(b)
      BY <1>1, <2>1, <2>4
    <3> QED
      BY <2>1, <2>3, <3>1, <3>2
  <2>5. CASE ~ swaps
    <3>1. u(i) = t(i) /\ u(b) = t(b)
      BY <1>1, <1>4, <2>1, <2>5
    <3>2. t(i) <= t(j)
      BY <2>1, <2>5
    <3> QED
      BY <2>1, <2>3, <3>1, <3>2
  <2> QED
    BY <2>4, <2>5
<1>7. (j + 1) - 1 = j
  BY <1>1, <1>4
<1> QED
  BY <1>1, <1>5, <1>6, <1>7 DEF Sorting, new, u

\* At the end of the inner loop, which looked at every entry from i on.
LEMMA SortsNext ==
    ASSUME NEW r, SleepRing(r), NEW i \in Entries(r), Sorting(r, i, r.tail)
    PROVE  Sorting(r, i + 1, 0)
<1>1. r.tail \in Nat /\ Entries(r) = 0 .. r.tail - 1
  BY SleepQueueAssumption DEF SleepRing, Entries
<1>2. ASSUME NEW a \in 0 .. (i + 1) - 1, NEW b \in Entries(r), a <= b PROVE Time(r, a) <= Time(r, b)
  <2>1. a \in 0 .. i - 1 \/ a = i
    BY <1>1
  <2>2. CASE a \in 0 .. i - 1
    BY <1>2, <2>2 DEF Sorting
  <2>3. CASE a = i
    <3>1. b \in i .. r.tail - 1
      BY <1>1, <1>2, <2>3
    <3> QED
      BY <2>3, <3>1 DEF Sorting
  <2> QED
    BY <2>1, <2>2, <2>3
<1>3. (i + 1) .. 0 - 1 = {}
  BY <1>1
<1> QED
  BY <1>2, <1>3 DEF Sorting

\* The counters of the two loops, in the order of the iterations.
LEMMA Counters ==
    ASSUME NEW n \in Nat \ {0}, NEW s \in 0 .. n * n - 1
    PROVE  /\ s \div n \in 0 .. n - 1 /\ s % n \in 0 .. n - 1
           /\ (s % n) + 1 < n => (s + 1) \div n = s \div n /\ (s + 1) % n = (s % n) + 1
           /\ (s % n) + 1 >= n => (s + 1) \div n = (s \div n) + 1 /\ (s + 1) % n = 0
<1> DEFINE i == s \div n
           j == s % n
<1>1. n \in Nat /\ n >= 1 /\ s \in Nat /\ s < n * n /\ n * n \in Nat
  BY SMT
<1>2. i \in Nat /\ j \in 0 .. n - 1 /\ s = n * i + j
  BY <1>1, SMT
<1> HIDE DEF i, j
<1>3. i < n
  <2>1. n * i <= s
    BY <1>1, <1>2, SMT
  <2> QED
    BY <1>1, <1>2, <2>1, SMT
<1>4. ASSUME j + 1 < n PROVE (s + 1) \div n = i /\ (s + 1) % n = j + 1
  <2>1. s + 1 = n * i + (j + 1) /\ j + 1 \in 0 .. n - 1
    BY <1>1, <1>2, <1>4, SMT
  <2> QED
    BY <1>1, <1>2, <2>1, SMT
<1>5. ASSUME j + 1 >= n PROVE (s + 1) \div n = i + 1 /\ (s + 1) % n = 0
  <2>1. s + 1 = n * (i + 1)
    BY <1>1, <1>2, <1>5, SMT
  <2> QED
    BY <1>1, <1>2, <2>1, SMT
<1>6. (j + 1) = (s % n) + 1 /\ i = s \div n /\ j = s % n
  BY DEF i, j
<1> QED
  BY <1>2, <1>3, <1>4, <1>5, <1>6

\* The two loops sort the ring, whatever it held.
LEMMA Exchanging ==
    ASSUME NEW r, SleepRing(r), r.tail > 0
    PROVE  LET new == Exchanged(r) IN
           /\ SleepRing(new) /\ new.tail = r.tail /\ new.time = r.time
           /\ Sleepers(new) = Sleepers(r)
           /\ \A a, b \in Entries(r) : a <= b => Time(new, a) <= Time(new, b)
<1> DEFINE n == r.tail
           size == n * n
           Same(m) == SleepRing(m) /\ m.tail = n /\ m.time = r.time /\ Sleepers(m) = Sleepers(r)
           V == {m \in [queue : [0 .. MAX_PROCESSES - 1 -> Nat], tail : 0 .. MAX_PROCESSES - 1,
                        time : [PIDS -> Nat]] : Same(m)}
           body == [s \in 0 .. size |-> [m \in V |->
                        IF s = 0 THEN m ELSE Exchange(m, (s - 1) \div n, (s - 1) % n)]]
           Loops(g) == g = [s \in 0 .. size |->
                IF s = 0 THEN r ELSE Exchange(g[s - 1], (s - 1) \div n, (s - 1) % n)]
           T == {s \in 0 .. size : \A g : Loops(g) =>
                     Same(g[s]) /\ Sorting(g[s], s \div n, s % n)}
<1>1. n \in Nat \ {0} /\ n > 0
  BY SleepQueueAssumption DEF SleepRing
<1>2. size \in Nat
  BY <1>1, SMT
<1>3. \A m : Same(m) => m \in V /\ Entries(m) = 0 .. n - 1
  BY DEF SleepRing, Entries
<1>4. Same(r)
  OBVIOUS
<1>5. Exchanged(r) = (CHOOSE g : Loops(g))[size]
  BY DEF Exchanged
<1> HIDE DEF size, n
<1>6. ASSUME NEW m, Same(m), NEW s \in 0 .. size - 1
      PROVE  LET i == s \div n
                 j == s % n IN
             /\ i \in 0 .. n - 1 /\ j \in 0 .. n - 1
             /\ Same(Exchange(m, i, j))
             /\ Sorting(m, i, j) =>
                    Sorting(Exchange(m, i, j), (s + 1) \div n, (s + 1) % n)
  <2> DEFINE i == s \div n
             j == s % n
             new == Exchange(m, i, j)
  <2>1. /\ i \in 0 .. n - 1 /\ j \in 0 .. n - 1
        /\ j + 1 < n => (s + 1) \div n = i /\ (s + 1) % n = j + 1
        /\ j + 1 >= n => (s + 1) \div n = i + 1 /\ (s + 1) % n = 0
    BY <1>1, Counters DEF size
  <2> HIDE DEF i, j
  <2>2. i \in Entries(m) /\ j \in Entries(m) /\ SleepRing(m)
    BY <1>3, <1>6, <2>1
  <2>3. Same(new)
    BY <1>6, <2>2, Exchanges
  <2>4. Entries(new) = 0 .. n - 1 /\ new.tail = n
    BY <1>3, <2>3
  <2> HIDE DEF new
  <2>5. ASSUME Sorting(m, i, j) PROVE Sorting(new, (s + 1) \div n, (s + 1) % n)
    <3>1. Sorting(new, i, j + 1)
      BY <2>2, <2>5, SortsOne DEF new
    <3>2. CASE j + 1 < n
      BY <2>1, <3>1, <3>2
    <3>3. CASE j + 1 >= n
      <4>1. j + 1 = n
        BY <1>1, <2>1, <3>3
      <4>2. Sorting(new, i, new.tail) /\ i \in Entries(new) /\ SleepRing(new)
        BY <2>1, <2>3, <2>4, <3>1, <4>1
      <4>3. Sorting(new, i + 1, 0)
        BY <4>2, SortsNext
      <4> QED
        BY <2>1, <3>3, <4>3
    <3> QED
      BY <1>1, <2>1, <3>2, <3>3
  <2> QED
    BY <2>1, <2>3, <2>5 DEF i, j, new
<1> HIDE DEF Same
<1>7. body \in [0 .. size -> [V -> V]]
  <2>1. ASSUME NEW s \in 0 .. size, NEW m \in V, s # 0
        PROVE  Exchange(m, (s - 1) \div n, (s - 1) % n) \in V
    <3>1. s - 1 \in 0 .. size - 1 /\ Same(m)
      BY <1>2, <2>1
    <3> HIDE DEF V
    <3> QED
      BY <1>3, <1>6, <3>1
  <2> HIDE DEF V
  <2> QED
    BY <2>1
<1>8. PICK g \in [0 .. size -> V] : Runs(g, 0, size, r, body)
  <2>1. 0 \in Nat /\ 0 <= size /\ r \in V
    BY <1>2, <1>3, <1>4
  <2> HIDE DEF body, V
  <2> QED
    BY <1>2, <1>7, <2>1, Iterated
<1> HIDE DEF V
<1>9. Loops(g)
  <2>1. ASSUME NEW s \in 0 .. size, s # 0
        PROVE  g[s] = Exchange(g[s - 1], (s - 1) \div n, (s - 1) % n)
    <3>1. g[s - 1] \in V
      BY <1>2, <1>8, <2>1
    <3> QED
      BY <1>8, <2>1, <3>1 DEF Runs
  <2>2. g[0] = r
    <3>1. 0 \in 0 .. size
      BY <1>2
    <3> HIDE DEF body
    <3> QED
      BY <1>8, <3>1 DEF Runs
  <2>3. g = [s \in 0 .. size |-> g[s]]
    BY <1>8
  <2> HIDE DEF body
  <2> QED
    BY <2>1, <2>2, <2>3
<1>10. \A s \in 0 .. size : s \in T
  <2>1. 0 \in T
    <3>1. 0 \div n = 0 /\ 0 % n = 0 /\ 0 \in 0 .. size
      BY <1>1, <1>2, SMT
    <3>2. Sorting(r, 0, 0)
      BY DEF Sorting
    <3> QED
      BY <1>4, <3>1, <3>2
  <2>2. ASSUME NEW s \in 0 .. size - 1, s \in T PROVE s + 1 \in T
    <3>1. s + 1 \in 0 .. size /\ s + 1 # 0 /\ (s + 1) - 1 = s
      BY <1>2
    <3>2. ASSUME NEW h, Loops(h)
          PROVE  Same(h[s + 1]) /\ Sorting(h[s + 1], (s + 1) \div n, (s + 1) % n)
      <4>1. h[s + 1] = Exchange(h[s], s \div n, s % n)
        BY <3>1, <3>2
      <4>2. Same(h[s]) /\ Sorting(h[s], s \div n, s % n)
        BY <2>2, <3>2
      <4> QED
        BY <1>6, <4>1, <4>2
    <3> HIDE DEF Loops
    <3> QED
      BY <3>1, <3>2
  <2> HIDE DEF T
  <2> QED
    BY <1>2, <2>1, <2>2, Induct
<1> HIDE DEF Loops
<1>11. Loops(CHOOSE h : Loops(h))
  BY <1>9
<1> DEFINE new == Exchanged(r)
<1>12. Same(new) /\ Sorting(new, n, 0)
  <2>1. size \in 0 .. size /\ size \div n = n /\ size % n = 0
    BY <1>1, <1>2, SMT DEF size
  <2> QED
    BY <1>5, <1>10, <1>11, <2>1
<1> HIDE DEF new
<1>13. ASSUME NEW a \in Entries(r), NEW b \in Entries(r), a <= b PROVE Time(new, a) <= Time(new, b)
  BY <1>1, <1>3, <1>4, <1>12, <1>13 DEF Sorting
<1> QED
  BY <1>12, <1>13 DEF Same, new, n

Sets == INSTANCE FiniteSetTheorems

\* There is room for a process that does not sleep yet.
LEMMA RingRoom ==
    ASSUME NEW r, SleepRing(r), NEW pid \in PIDS, pid \notin Sleepers(r)
    PROVE  r.tail + 1 < MAX_PROCESSES
<1> DEFINE n == r.tail
           S == 0 .. n
           P == 0 .. MAX_PROCESSES - 2
           f == [i \in S |-> IF i = n THEN pid ELSE r.queue[i]]
<1>1. /\ n \in Nat /\ MAX_PROCESSES \in Nat \ {0} /\ PIDS \subseteq P /\ Entries(r) = 0 .. n - 1
      /\ \A i \in Entries(r) : r.queue[i] \in PIDS /\ r.queue[i] # pid
      /\ \A i, j \in Entries(r) : r.queue[i] = r.queue[j] => i = j
  BY SleepQueueAssumption DEF SleepRing, Entries, Sleepers
<1>2. \A i \in S : i # n => i \in Entries(r)
  BY <1>1
<1>3. f \in [S -> P]
  BY <1>1, <1>2
<1>4. ASSUME NEW i \in S, NEW j \in S, f[i] = f[j] PROVE i = j
  BY <1>1, <1>2, <1>4
<1> HIDE DEF f
<1>5. f \in Sets!Injection(S, P)
  BY <1>3, <1>4 DEF Sets!Injection, Sets!IsInjective
<1>6. Sets!IsFiniteSet(P) /\ Sets!Cardinality(P) = MAX_PROCESSES - 1 /\ Sets!Cardinality(S) = n + 1
  <2>1. 0 \in Int /\ MAX_PROCESSES - 2 \in Int /\ n \in Int /\ ~ (0 > n)
    BY <1>1
  <2>2. Sets!IsFiniteSet(P) /\ Sets!Cardinality(P) = IF 0 > MAX_PROCESSES - 2 THEN 0 ELSE (MAX_PROCESSES - 2) - 0 + 1
    BY <2>1, Sets!FS_Interval
  <2>3. Sets!Cardinality(S) = n - 0 + 1
    BY <2>1, Sets!FS_Interval
  <2> HIDE DEF P, S
  <2> QED
    BY <1>1, <2>2, <2>3
<1>7. Sets!Cardinality(S) <= Sets!Cardinality(P)
  <2> HIDE DEF P, S
  <2> QED
    BY <1>5, <1>6, Sets!FS_Injection
<1> HIDE DEF P, S
<1> QED
  BY <1>1, <1>6, <1>7

\* A process is put to sleep: after the loops the ring is sorted, without them the
\* new one is the shortest.
LEMMA Sleeps ==
    ASSUME NEW r, SleepRing(r), NEW pid \in PIDS, pid \notin Sleepers(r), NEW t \in TIMES
    PROVE  LET new == sleep_process(r, pid, t)
               shorter == \E i \in Entries(r) : Time(r, i) < t IN
           /\ SleepRing(new) /\ Sleepers(new) = Sleepers(r) \cup {pid}
           /\ new.time[pid] = t /\ new.tail = r.tail + 1
           /\ \/ shorter /\ \A a, b \in Entries(new) : a <= b => Time(new, a) <= Time(new, b)
              \/ ~ shorter /\ \A b \in Entries(new) : Time(new, r.tail) <= Time(new, b)
<1> DEFINE n == r.tail
           q == Queued(r, pid, t)
           D == 0 .. MAX_PROCESSES - 1
           shorter == \E i \in Entries(r) : Time(r, i) < t
<1>1. /\ n \in Nat /\ MAX_PROCESSES \in Nat \ {0} /\ TIMES \subseteq Nat /\ PIDS \subseteq Nat
      /\ n + 1 < MAX_PROCESSES
      /\ r.queue \in [D -> Nat] /\ r.time \in [PIDS -> Nat]
  <2>1. /\ MAX_PROCESSES \in Nat \ {0} /\ TIMES \subseteq Nat /\ PIDS \subseteq Nat
    BY SleepQueueAssumption
  <2>2. n \in Nat /\ r.queue \in [D -> Nat] /\ r.time \in [PIDS -> Nat]
    BY <2>1 DEF SleepRing
  <2>3. n + 1 < MAX_PROCESSES
    BY RingRoom
  <2> QED
    BY <2>1, <2>2, <2>3
<1>2. /\ q = [queue |-> [r.queue EXCEPT ![n] = pid], tail |-> n + 1, time |-> [r.time EXCEPT ![pid] = t]]
  <2>1. (n + 1) % MAX_PROCESSES = n + 1
    <3> DEFINE x == n + 1
               M == MAX_PROCESSES
    <3>1. x \in Nat /\ M \in Nat \ {0} /\ x < M
      BY <1>1
    <3> HIDE DEF x, M
    <3>2. x % M = x
      BY <3>1, SMT
    <3> QED
      BY <3>2 DEF x, M
  <2> QED
    BY <2>1 DEF Queued
<1> HIDE DEF q
<1>3. Entries(r) = 0 .. n - 1 /\ Entries(q) = 0 .. n /\ n \in 0 .. n
      /\ \A i \in 0 .. n : i # n => i \in 0 .. n - 1
  <2>1. q.tail = n + 1
    BY <1>2
  <2>2. Entries(r) = 0 .. n - 1 /\ Entries(q) = 0 .. (n + 1) - 1
    BY <2>1 DEF Entries
  <2> HIDE DEF n
  <2> QED
    BY <1>1, <2>2
<1>4. /\ q.queue[n] = pid /\ q.time[pid] = t /\ q.tail = n + 1
      /\ \A i \in 0 .. n - 1 : q.queue[i] = r.queue[i]
      /\ \A p \in PIDS \ {pid} : q.time[p] = r.time[p]
  <2>1. /\ q.queue = [r.queue EXCEPT ![n] = pid] /\ q.tail = n + 1
        /\ q.time = [r.time EXCEPT ![pid] = t]
    BY <1>2
  <2>2. n \in D /\ DOMAIN r.queue = D /\ DOMAIN r.time = PIDS /\ \A i \in 0 .. n - 1 : i \in D /\ i # n
    <3> HIDE DEF n
    <3> QED
      BY <1>1
  <2> HIDE DEF n, D
  <2>3. q.queue[n] = pid /\ \A i \in 0 .. n - 1 : q.queue[i] = r.queue[i]
    BY <2>1, <2>2
  <2>4. q.time[pid] = t /\ \A p \in PIDS \ {pid} : q.time[p] = r.time[p]
    BY <2>1, <2>2
  <2> QED
    BY <2>1, <2>3, <2>4
<1>5. /\ \A i \in 0 .. n - 1 : r.queue[i] \in PIDS /\ r.queue[i] # pid
      /\ \A i, j \in 0 .. n - 1 : r.queue[i] = r.queue[j] => i = j
  BY <1>3 DEF SleepRing, Sleepers
<1>6. SleepRing(q)
  <2>1. q \in [queue : [D -> Nat], tail : D, time : [PIDS -> Nat]]
    <3>1. n + 1 \in D /\ pid \in Nat /\ t \in Nat
      <4> HIDE DEF n
      <4> QED
        BY <1>1
    <3>2. [r.queue EXCEPT ![n] = pid] \in [D -> Nat] /\ [r.time EXCEPT ![pid] = t] \in [PIDS -> Nat]
      BY <1>1, <3>1
    <3> HIDE DEF n, D
    <3> QED
      BY <1>2, <3>1, <3>2
  <2>2. \A i \in 0 .. n : q.queue[i] \in PIDS
    BY <1>3, <1>4, <1>5
  <2>3. \A i, j \in 0 .. n : q.queue[i] = q.queue[j] => i = j
    BY <1>3, <1>4, <1>5
  <2> QED
    BY <1>3, <2>1, <2>2, <2>3 DEF SleepRing
<1>7. Sleepers(q) = Sleepers(r) \cup {pid}
  BY <1>3, <1>4 DEF Sleepers
<1>8. Time(q, n) = t /\ \A i \in 0 .. n - 1 : Time(q, i) = Time(r, i)
  BY <1>4, <1>5 DEF Time
<1>9. Shorter(q, pid) <=> shorter
  <2>1. t \in Nat
    BY <1>1
  <2>2. ~ (t < t)
    BY <2>1
  <2> QED
    BY <1>3, <1>4, <1>8, <2>2 DEF Shorter
<1>10. CASE shorter
  <2> DEFINE new == Exchanged(q)
  <2>1. sleep_process(r, pid, t) = new
    BY <1>9, <1>10 DEF sleep_process, q
  <2>2. q.tail > 0
    BY <1>1, <1>4
  <2>3. /\ SleepRing(new) /\ new.tail = q.tail /\ new.time = q.time /\ Sleepers(new) = Sleepers(q)
        /\ \A a, b \in Entries(q) : a <= b => Time(new, a) <= Time(new, b)
    BY <1>6, <2>2, Exchanging
  <2> HIDE DEF new
  <2>4. Entries(new) = Entries(q)
    BY <2>3 DEF Entries
  <2> QED
    BY <1>4, <1>7, <1>10, <2>1, <2>3, <2>4
<1>11. CASE ~ shorter
  <2>1. sleep_process(r, pid, t) = q
    BY <1>9, <1>11 DEF sleep_process, q
  <2>2. ASSUME NEW b \in Entries(q) PROVE Time(q, n) <= Time(q, b)
    <3>1. CASE b = n
      BY <1>1, <1>8, <3>1
    <3>2. CASE b # n
      <4>1. b \in 0 .. n - 1 /\ Time(q, b) = Time(r, b) /\ ~ (Time(r, b) < t)
        BY <1>3, <1>8, <1>11, <3>2
      <4>2. Time(r, b) \in Nat
        BY <1>1, <1>5, <4>1 DEF Time
      <4> QED
        BY <1>1, <1>8, <4>1, <4>2
    <3> QED
      BY <3>1, <3>2
  <2> QED
    BY <1>4, <1>6, <1>7, <1>11, <2>1, <2>2
<1> QED
  BY <1>10, <1>11

LEMMA RingInvariant == RoutinesSpec => []RingInv
<1>1. RoutinesInit => RingInv
  <2> SUFFICES ASSUME ring = NoSleepers PROVE RingInv
    BY DEF RoutinesInit
  <2>1. ring.tail = 0 /\ Entries(ring) = {}
    BY DEF NoSleepers, Entries
  <2>2. 0 \in 0 .. MAX_PROCESSES - 1
    BY SleepQueueAssumption
  <2>3. SleepRing(ring)
    BY <2>1, <2>2 DEF SleepRing, NoSleepers
  <2> QED
    BY <2>1, <2>3 DEF RingInv, ShortestAtAnEnd
<1>2. RingInv /\ [RoutinesNext]_<<memoryVars, ring, call>> => RingInv'
  <2>1. RingInv /\ UNCHANGED ring => RingInv'
    BY DEF RingInv, SleepRing, ShortestAtAnEnd, Entries, Time
  <2>2. ASSUME RingInv, NEW pid \in PIDS, NEW t \in TIMES, CallSleep(pid, t) PROVE RingInv'
    <3>1. /\ SleepRing(ring) /\ pid \notin Sleepers(ring) /\ ring' = sleep_process(ring, pid, t)
      BY <2>2 DEF RingInv, CallSleep
    <3> DEFINE n == ring.tail
    <3>2. /\ SleepRing(ring') /\ ring'.tail = n + 1
          /\ \/ \A a, b \in Entries(ring') : a <= b => Time(ring', a) <= Time(ring', b)
             \/ \A b \in Entries(ring') : Time(ring', n) <= Time(ring', b)
      BY <3>1, Sleeps
    <3>3. n \in Nat /\ Entries(ring') = 0 .. n /\ (n + 1) - 1 = n
      <4>1. n \in Nat
        BY <3>1, SleepQueueAssumption DEF SleepRing
      <4> QED
        BY <3>2, <4>1 DEF Entries
    <3>4. \E i \in {0, n} : \A j \in Entries(ring') : Time(ring', i) <= Time(ring', j)
      BY <3>2, <3>3
    <3>5. ShortestAtAnEnd'
      <4>1. \A i, j \in Entries(ring') : ring'.queue[i] = ring'.queue[j] => i = j
        BY <3>2 DEF SleepRing
      <4> HIDE DEF n
      <4> QED
        BY <3>2, <3>3, <3>4, <4>1 DEF ShortestAtAnEnd
    <3> QED
      BY <3>2, <3>5 DEF RingInv
  <2>3. UNCHANGED <<memoryVars, ring, call>> => UNCHANGED ring
    OBVIOUS
  <2> QED
    BY <2>1, <2>2, <2>3, Calls
<1> QED
  BY <1>1, <1>2, PTL DEF RoutinesSpec

\* The wrong test for `sorted' leaves the shortest sleeper at an end of the ring.
THEOREM ShortestSleeperAtAnEnd == RoutinesSpec => []ShortestAtAnEnd
BY RingInvariant, PTL DEF RingInv

\* And a process that finds a shorter one leaves the ring sorted.
THEOREM SortedByTheNext == RoutinesSpec => SortedWhenShorter
<1> DEFINE Sorts == \A pid \in Sleepers(ring') \ Sleepers(ring) :
                (\E i \in Entries(ring) : Time(ring, i) < ring'.time[pid])
                => \A i, j \in Entries(ring') : i < j => Time(ring', i) <= Time(ring', j)
<1>1. RingInv /\ [RoutinesNext]_<<memoryVars, ring, call>> => [Sorts]_ring
  <2> SUFFICES ASSUME RingInv, RoutinesNext, ~ UNCHANGED ring,
                      NEW p \in Sleepers(ring') \ Sleepers(ring),
                      \E i \in Entries(ring) : Time(ring, i) < ring'.time[p],
                      NEW i \in Entries(ring'), NEW j \in Entries(ring'), i < j
               PROVE  Time(ring', i) <= Time(ring', j)
    OBVIOUS
  <2>1. PICK pid \in PIDS, t \in TIMES : CallSleep(pid, t)
    BY Calls
  <2>2. /\ SleepRing(ring) /\ pid \notin Sleepers(ring) /\ ring' = sleep_process(ring, pid, t)
    BY <2>1 DEF RingInv, CallSleep
  <2>3. /\ SleepRing(ring') /\ Sleepers(ring') = Sleepers(ring) \cup {pid} /\ ring'.time[pid] = t
        /\ \/ \A a, b \in Entries(ring') : a <= b => Time(ring', a) <= Time(ring', b)
           \/ ~ \E k \in Entries(ring) : Time(ring, k) < t
    BY <2>2, Sleeps
  <2>4. p = pid
    BY <2>3
  <2>5. i \in Int /\ j \in Int
    BY <2>3, SleepQueueAssumption DEF SleepRing, Entries
  <2>6. i <= j
    BY <2>5
  <2> QED
    BY <2>3, <2>4, <2>6
<1> QED
  BY <1>1, RingInvariant, PTL DEF RoutinesSpec, SortedWhenShorter

-----------------------------------------------------------------------------
(* System calls.                                                           *)

LEMMA Registers ==
    /\ Len(Popped) = 11 /\ \A i, j \in 1 .. 11 : Popped[i] = Popped[j] => i = j
    /\ Len(Wrapper) = 5 /\ \A i, j \in 1 .. 5 : Wrapper[i] = Wrapper[j] => i = j
    /\ Len(Pushed) = 11 /\ DOMAIN Pushed = 1 .. 11
    /\ \A k \in 1 .. 11 : Popped[k] = Pushed[(11 - k) + 1] /\ Popped[k] \in Register
    /\ Popped[1] = "rax" /\ Popped[4] = "r11" /\ Popped[8] = "rcx" /\ Popped[9] = "rdx"
    /\ Popped[10] = "rsi" /\ Popped[11] = "rdi"
    /\ Wrapper[1] = "rax" /\ Wrapper[2] = "rdi" /\ Wrapper[3] = "rsi" /\ Wrapper[4] = "rdx"
    /\ Wrapper[5] = "rcx"
    /\ \A k \in 1 .. 11 : (Popped[k] = "rcx" => k = 8) /\ (Popped[k] = "r11" => k = 4)
    /\ ToSet(Popped) = {Popped[k] : k \in 1 .. 11}
    /\ \A r \in Register \ {Popped[k] : k \in 1 .. 11} :
           r \in {"r12", "r13", "r14", "r15", "rip", "rflags"} /\ r \notin CallerSaved
<1>1. Len(Popped) = 11 /\ DOMAIN Popped = 1 .. 11 /\ Len(Wrapper) = 5
  BY DEF Popped, Wrapper
<1>2. \A i, j \in 1 .. 11 : Popped[i] = Popped[j] => i = j
  BY DEF Popped
<1>3. \A i, j \in 1 .. 5 : Wrapper[i] = Wrapper[j] => i = j
  BY DEF Wrapper
<1>4. Len(Pushed) = 11 /\ DOMAIN Pushed = 1 .. 11
  BY DEF Pushed
<1>5. \A k \in 1 .. 11 : Popped[k] = Pushed[(11 - k) + 1]
  BY DEF Popped, Pushed
<1>6. \A k \in 1 .. 11 : Popped[k] \in Register
  BY DEF Popped, Register, CallerSaved, CalleeSaved
<1>7. /\ Popped[1] = "rax" /\ Popped[4] = "r11" /\ Popped[8] = "rcx" /\ Popped[9] = "rdx"
      /\ Popped[10] = "rsi" /\ Popped[11] = "rdi"
      /\ Wrapper[1] = "rax" /\ Wrapper[2] = "rdi" /\ Wrapper[3] = "rsi" /\ Wrapper[4] = "rdx"
      /\ Wrapper[5] = "rcx"
  BY DEF Popped, Wrapper
<1>8. ToSet(Popped) = {Popped[k] : k \in 1 .. 11}
  BY <1>1 DEF ToSet
<1>9. ASSUME NEW r \in Register \ {Popped[k] : k \in 1 .. 11}
      PROVE  r \in {"r12", "r13", "r14", "r15", "rip", "rflags"} /\ r \notin CallerSaved
  <2>1. /\ Popped[2] = "rbp" /\ Popped[3] = "rbx" /\ Popped[5] = "r10" /\ Popped[6] = "r9"
        /\ Popped[7] = "r8"
    BY DEF Popped
  <2>2. \A k \in 1 .. 11 : r # Popped[k]
    OBVIOUS
  <2>3. /\ r # Popped[1] /\ r # Popped[2] /\ r # Popped[3] /\ r # Popped[4] /\ r # Popped[5]
        /\ r # Popped[6] /\ r # Popped[7] /\ r # Popped[8] /\ r # Popped[9] /\ r # Popped[10]
        /\ r # Popped[11]
    BY <2>2
  <2> QED
    BY <1>7, <2>1, <2>3 DEF Register, CallerSaved, CalleeSaved
<1> QED
  BY <1>1, <1>2, <1>3, <1>4, <1>5, <1>6, <1>7, <1>8, <1>9

\* Where ksyscall and the pops find a register.
LEMMA Fields ==
    ASSUME NEW k \in 1 .. 11
    PROVE  Field(Popped[k]) = k /\ SelectInSeq(Popped, LAMBDA p : p = Popped[k]) = k
<1>1. syscall_state = Popped
  BY DEF syscall_state, Popped
<1>2. {i \in 1 .. Len(Popped) : Popped[i] = Popped[k]} = {k} /\ Min({k}) = k
  <2>1. {i \in 1 .. 11 : Popped[i] = Popped[k]} = {k}
    BY Registers
  <2>2. Min({k}) = k
    BY DEF Min
  <2>3. Len(Popped) = 11
    BY Registers
  <2> QED
    BY <2>1, <2>2, <2>3
<1>3. SelectInSeq(Popped, LAMBDA p : p = Popped[k]) = k
  BY <1>2 DEF SelectInSeq
<1>4. Field(Popped[k]) = k
  BY <1>1, <1>2 DEF Field, SelectInSeq
<1> QED
  BY <1>3, <1>4

\* The arguments are put in their registers, and no other register changes.
LEMMA Passes ==
    ASSUME NEW regs, NEW values, Len(values) \in 1 .. 5
    PROVE  LET passed == Passed(regs, values) IN
           /\ \A k \in 1 .. Len(values) : passed[Wrapper[k]] = values[k]
           /\ \A r \in Register \ {"rax", "rdi", "rsi", "rdx", "rcx"} : passed[r] = regs[r]
<1> DEFINE n == Len(values)
           used == ToSet(SubSeq(Wrapper, 1, n))
           passed == Passed(regs, values)
<1>0. n \in 1 .. 5
  OBVIOUS
<1>3. passed = [r \in Register |-> IF r \in used
                                   THEN values[SelectInSeq(Wrapper, LAMBDA w : w = r)] ELSE regs[r]]
  BY DEF Passed
<1> HIDE DEF passed, n
<1>1. used = {Wrapper[k] : k \in 1 .. n}
  <2> DEFINE sub == SubSeq(Wrapper, 1, n)
  <2>1. sub = [k \in 1 .. n |-> Wrapper[k]]
    BY <1>0, Registers DEF Wrapper
  <2>2. DOMAIN sub = 1 .. n /\ \A k \in 1 .. n : sub[k] = Wrapper[k]
    BY <2>1
  <2> HIDE DEF sub
  <2>3. ToSet(sub) = {Wrapper[k] : k \in 1 .. n}
    BY <2>2 DEF ToSet
  <2> QED
    BY <2>3 DEF sub
<1>2. ASSUME NEW k \in 1 .. n PROVE SelectInSeq(Wrapper, LAMBDA w : w = Wrapper[k]) = k
  <2>1. k \in 1 .. 5
    BY <1>0
  <2>2. {i \in 1 .. 5 : Wrapper[i] = Wrapper[k]} = {k}
    BY <2>1, Registers
  <2>3. Min({k}) = k
    BY <2>1 DEF Min
  <2>4. Len(Wrapper) = 5
    BY Registers
  <2>5. {i \in 1 .. Len(Wrapper) : Wrapper[i] = Wrapper[k]} = {k}
    BY <2>2, <2>4
  <2> QED
    BY <2>3, <2>5 DEF SelectInSeq
<1> HIDE DEF used
<1>4. \A k \in 1 .. n : Wrapper[k] \in Register /\ Wrapper[k] \in {"rax", "rdi", "rsi", "rdx", "rcx"}
  <2>1. ASSUME NEW k \in 1 .. 5
        PROVE  Wrapper[k] \in Register /\ Wrapper[k] \in {"rax", "rdi", "rsi", "rdx", "rcx"}
    BY Registers DEF Register, CallerSaved
  <2> QED
    BY <1>0, <2>1
<1>5. ASSUME NEW k \in 1 .. n PROVE passed[Wrapper[k]] = values[k]
  <2>1. Wrapper[k] \in used /\ Wrapper[k] \in Register
    BY <1>1, <1>4
  <2>2. passed[Wrapper[k]] = values[SelectInSeq(Wrapper, LAMBDA w : w = Wrapper[k])]
    BY <1>3, <2>1
  <2> QED
    BY <1>2, <2>2
<1>6. ASSUME NEW r \in Register \ {"rax", "rdi", "rsi", "rdx", "rcx"} PROVE passed[r] = regs[r]
  <2>1. r \notin used
    BY <1>1, <1>4
  <2> QED
    BY <1>3, <2>1
<1> QED
  BY <1>5, <1>6 DEF passed, n

\* ksyscall is given the registers in the order of the pops.
LEMMA Stacks ==
    ASSUME NEW regs
    PROVE  Stacked(regs) = [k \in 1 .. 11 |-> regs[Popped[k]]]
<1> DEFINE f == [k \in 1 .. 11 |-> regs[Pushed[k]]]
<1>1. Stacked(regs) = Reverse(f)
  BY Registers DEF Stacked
<1>2. Len(f) = 11
  <2> DEFINE S == {f[k] : k \in 1 .. 11}
  <2>1. f \in [1 .. 11 -> S] /\ 11 \in Nat
    OBVIOUS
  <2> HIDE DEF f, S
  <2> QED
    BY <2>1
<1> HIDE DEF f
<1>3. Reverse(f) = [k \in 1 .. 11 |-> f[(11 - k) + 1]]
  BY <1>2 DEF Reverse
<1>4. \A k \in 1 .. 11 : f[(11 - k) + 1] = regs[Popped[k]]
  <2>1. \A k \in 1 .. 11 : (11 - k) + 1 \in 1 .. 11 /\ Popped[k] = Pushed[(11 - k) + 1]
    BY Registers
  <2> QED
    BY <2>1 DEF f
<1> QED
  BY <1>1, <1>3, <1>4

\* ksyscall writes the result over rax, and ticks over rdi for SYSCALL_SLEEP.
LEMMA Keeps ==
    ASSUME NEW regs, NEW around, NEW k \in 2 .. 11, k = 11 => regs["rax"] # SYSCALL_SLEEP
    PROVE  ksyscall(Stacked(regs), around)[k] = regs[Popped[k]]
<1> DEFINE stack == Stacked(regs)
           number == stack[Field("rax")]
<1>1. stack = [i \in 1 .. 11 |-> regs[Popped[i]]]
  BY Stacks
<1>2. Field("rax") = 1 /\ Field("rdi") = 11
  <2>1. Popped[1] = "rax" /\ Popped[11] = "rdi" /\ 1 \in 1 .. 11 /\ 11 \in 1 .. 11
    BY Registers
  <2> QED
    BY <2>1, Fields
<1>3. number = regs["rax"] /\ stack[k] = regs[Popped[k]]
  BY <1>1, <1>2, Registers
<1> DEFINE ticks == Ticks(stack[Field("rdi")])
           woken == InWord(MS_PER_TICK * (WakesAt(around, ticks) - around.pit_counter))
<1>4. ksyscall(stack, around) =
          CASE number = SYSCALL_SLEEP -> [stack EXCEPT ![11] = ticks, ![1] = woken]
            [] number = SYSCALL_GETPID -> [stack EXCEPT ![1] = around.pid]
            [] OTHER -> stack
  BY <1>2 DEF ksyscall
<1> HIDE DEF stack, number, ticks, woken
<1>5. [stack EXCEPT ![1] = around.pid][k] = stack[k]
  BY <1>1
<1>6. k # 11 => [stack EXCEPT ![11] = ticks, ![1] = woken][k] = stack[k]
  BY <1>1
<1> SUFFICES ksyscall(stack, around)[k] = regs[Popped[k]]
  BY DEF stack
<1>7. CASE number = SYSCALL_SLEEP
  BY <1>3, <1>4, <1>6, <1>7
<1>8. CASE number = SYSCALL_GETPID
  BY <1>3, <1>4, <1>5, <1>8 DEF SYSCALL_GETPID, SYSCALL_SLEEP
<1>9. CASE number # SYSCALL_SLEEP /\ number # SYSCALL_GETPID
  BY <1>3, <1>4, <1>9
<1> QED
  BY <1>7, <1>8, <1>9

\* What a register holds in the end.
LEMMA Leaves ==
    ASSUME NEW regs, NEW stack
    PROVE  LET left == Left(regs, stack) IN
           /\ \A k \in 1 .. 11 : left[Popped[k]] = stack[k]
           /\ \A r \in {"r12", "r13", "r14", "r15"} : left[r] = regs[r]
           /\ left["rip"] = stack[8] /\ left["rflags"] = stack[4]
<1> DEFINE popped == [r \in Register |->
                          IF r \in ToSet(Popped) THEN stack[SelectInSeq(Popped, LAMBDA p : p = r)]
                          ELSE IF r \in CallerSaved THEN Lost ELSE regs[r]]
           left == Left(regs, stack)
<1>1. left = [popped EXCEPT !["rip"] = popped["rcx"], !["rflags"] = popped["r11"]]
  BY DEF Left
<1>2. ASSUME NEW k \in 1 .. 11 PROVE popped[Popped[k]] = stack[k]
  <2>1. Popped[k] \in Register /\ Popped[k] \in ToSet(Popped)
    BY Registers
  <2>2. popped[Popped[k]] = stack[SelectInSeq(Popped, LAMBDA p : p = Popped[k])]
    BY <2>1
  <2> QED
    BY <2>2, Fields
<1>3. popped["rcx"] = stack[8] /\ popped["r11"] = stack[4]
  <2>1. Popped[8] = "rcx" /\ Popped[4] = "r11" /\ 8 \in 1 .. 11 /\ 4 \in 1 .. 11
    BY Registers
  <2> HIDE DEF popped
  <2> QED
    BY <1>2, <2>1
<1>4. ASSUME NEW r \in {"r12", "r13", "r14", "r15"} PROVE popped[r] = regs[r] /\ r \in Register
  <2>1. r \in Register /\ r \notin CallerSaved
    BY DEF Register, CallerSaved, CalleeSaved
  <2>2. r \notin ToSet(Popped)
    BY Registers DEF Popped
  <2> QED
    BY <2>1, <2>2
<1>5. DOMAIN popped = Register /\ "rip" \in Register /\ "rflags" \in Register
  BY DEF Register
<1> HIDE DEF popped
<1>6. left["rip"] = stack[8] /\ left["rflags"] = stack[4]
  BY <1>1, <1>3, <1>5
<1>7. ASSUME NEW r \in Register, r # "rip", r # "rflags" PROVE left[r] = popped[r]
  BY <1>1, <1>5, <1>7
<1>8. \A k \in 1 .. 11 : Popped[k] \in Register /\ Popped[k] # "rip" /\ Popped[k] # "rflags"
  <2>1. \A k \in 1 .. 11 : Popped[k] # "rip" /\ Popped[k] # "rflags"
    BY DEF Popped
  <2> QED
    BY <2>1, Registers
<1>9. \A k \in 1 .. 11 : left[Popped[k]] = stack[k]
  BY <1>2, <1>7, <1>8
<1>10. \A r \in {"r12", "r13", "r14", "r15"} : left[r] = regs[r]
  BY <1>4, <1>7
<1> QED
  BY <1>6, <1>9, <1>10

\* What Kept says of a call.
Keeping(regs, values, around) ==
    LET before == Passed(regs, values)
        made   == syscall(regs, values, around)
    IN /\ \A r \in Register \ {"rax", "rcx", "r11"} :
              (r = "rdi" => values[1] # SYSCALL_SLEEP) => made.regs[r] = before[r]
       /\ \A k \in 1 .. Len(values) : k # 5 => made.state[Field(Wrapper[k])] = values[k]

\* A call with the values of a wrapper, from first to last.
LEMMA Kept ==
    ASSUME NEW regs, NEW values, Len(values) \in 1 .. 5, NEW around
    PROVE  Keeping(regs, values, around)
<1> DEFINE before == Passed(regs, values)
           entered == Entered(before)
           stack == Stacked(entered)
           after == ksyscall(stack, around)
           made == syscall(regs, values, around)
           n == Len(values)
<1>1. /\ \A k \in 1 .. n : before[Wrapper[k]] = values[k]
      /\ DOMAIN before = Register /\ n \in 1 .. 5
  <2>1. \A k \in 1 .. n : before[Wrapper[k]] = values[k]
    BY Passes
  <2>2. DOMAIN before = Register
    BY DEF Passed
  <2> QED
    BY <2>1, <2>2
<1>2. made.state = stack /\ made.regs = Left(entered, after)
  BY DEF syscall
<1>3. entered = [before EXCEPT !["rcx"] = before["rip"], !["r11"] = before["rflags"]]
  BY DEF Entered
<1> HIDE DEF before, n
<1>4. /\ entered["rcx"] = before["rip"] /\ entered["r11"] = before["rflags"]
      /\ \A r \in Register : r # "rcx" /\ r # "r11" => entered[r] = before[r]
  BY <1>1, <1>3 DEF Register, CallerSaved
<1>5. stack = [k \in 1 .. 11 |-> entered[Popped[k]]]
  BY Stacks
<1>6. entered["rax"] = values[1]
  <2>1. "rax" \in Register /\ Wrapper[1] = "rax" /\ 1 \in 1 .. n
    BY <1>1, Registers DEF Register, CallerSaved
  <2> HIDE DEF entered
  <2> QED
    BY <1>1, <1>4, <2>1
<1> HIDE DEF entered
<1>7. \A k \in 2 .. 11 : (k = 11 => values[1] # SYSCALL_SLEEP) => after[k] = entered[Popped[k]]
  BY <1>6, Keeps
<1> HIDE DEF stack, after
<1>8. /\ \A k \in 1 .. 11 : made.regs[Popped[k]] = after[k]
      /\ \A r \in {"r12", "r13", "r14", "r15"} : made.regs[r] = entered[r]
      /\ made.regs["rip"] = after[8] /\ made.regs["rflags"] = after[4]
  BY <1>2, Leaves
<1> HIDE DEF made
<1>9. ASSUME NEW r \in Register \ {"rax", "rcx", "r11"}, r = "rdi" => values[1] # SYSCALL_SLEEP
      PROVE  made.regs[r] = before[r]
  <2>1. CASE r = "rip"
    <3>1. after[8] = entered[Popped[8]] /\ Popped[8] = "rcx"
      BY <1>7, Registers
    <3> QED
      BY <1>4, <1>8, <2>1, <3>1
  <2>2. CASE r = "rflags"
    <3>1. after[4] = entered[Popped[4]] /\ Popped[4] = "r11"
      BY <1>7, Registers
    <3> QED
      BY <1>4, <1>8, <2>2, <3>1
  <2>3. CASE r \in {"r12", "r13", "r14", "r15"}
    <3>1. r \in Register /\ r # "rcx" /\ r # "r11"
      BY <2>3
    <3> QED
      BY <1>4, <1>8, <2>3, <3>1
  <2>4. CASE r \in {Popped[k] : k \in 1 .. 11}
    <3>1. PICK k \in 1 .. 11 : r = Popped[k]
      BY <2>4
    <3>2. k # 1 /\ (k = 11 => r = "rdi")
      BY <3>1, Registers
    <3>3. k \in 2 .. 11 /\ (k = 11 => values[1] # SYSCALL_SLEEP)
      BY <1>9, <3>2
    <3>4. after[k] = entered[r]
      BY <1>7, <3>1, <3>3
    <3> QED
      BY <1>4, <1>8, <3>1, <3>4
  <2>5. r \in {Popped[k] : k \in 1 .. 11} \/ r \in {"r12", "r13", "r14", "r15", "rip", "rflags"}
    BY Registers
  <2> QED
    BY <2>1, <2>2, <2>3, <2>4, <2>5
<1>10. ASSUME NEW k \in 1 .. n, k # 5 PROVE made.state[Field(Wrapper[k])] = values[k]
  <2>1. k \in 1 .. 4
    BY <1>1, <1>10
  <2>2. \E j \in 1 .. 11 : Popped[j] = Wrapper[k]
    <3>1. CASE k = 1
      BY <3>1, Registers
    <3>2. CASE k = 2
      BY <3>2, Registers
    <3>3. CASE k = 3
      BY <3>3, Registers
    <3>4. CASE k = 4
      BY <3>4, Registers
    <3> QED
      BY <2>1, <3>1, <3>2, <3>3, <3>4
  <2>3. PICK j \in 1 .. 11 : Popped[j] = Wrapper[k]
    BY <2>2
  <2>4. Field(Wrapper[k]) = j
    BY <2>3, Fields
  <2>5. made.state[j] = entered[Wrapper[k]]
    BY <1>2, <1>5, <2>3
  <2>6. Wrapper[k] \in Register /\ Wrapper[k] # "rcx" /\ Wrapper[k] # "r11"
    BY <2>1 DEF Wrapper, Register, CallerSaved
  <2> QED
    BY <1>1, <1>4, <2>4, <2>5, <2>6
<1> QED
  BY <1>9, <1>10 DEF before, n, made, Keeping

\* The wrappers, syscall_handler and ksyscall bring every register back that the program
\* counts on, and the arguments to ksyscall, whatever the values.
THEOREM CallsKeepRegisters == RoutinesSpec => []CallKept
<1>1. RoutinesInit => CallKept
  BY DEF RoutinesInit, CallKept, NoCall
<1>2. CallKept /\ [RoutinesNext]_<<memoryVars, ring, call>> => CallKept'
  <2> SUFFICES ASSUME CallKept, [RoutinesNext]_<<memoryVars, ring, call>>,
                      call'.routine = "syscall"
               PROVE  CallKept'
    BY DEF CallKept
  <2>1. CASE UNCHANGED call
    BY <2>1 DEF CallKept
  <2>2. ASSUME NEW values, NEW around, CallSystem(values, around),
               Len(values) \in 1 .. 5, DOMAIN values = 1 .. Len(values)
        PROVE  CallKept'
    <3> DEFINE before == Passed(UserRegs, values)
               made == syscall(UserRegs, values, around)
               gone == {"rax", "rcx", "r11"}
                           \cup (IF values[1] = SYSCALL_SLEEP THEN {"rdi"} ELSE {})
    <3>1. call'.values = values /\ call'.result = made
      BY <2>2 DEF CallSystem
    <3>2. /\ \A r \in Register \ {"rax", "rcx", "r11"} :
                 (r = "rdi" => values[1] # SYSCALL_SLEEP) => made.regs[r] = before[r]
          /\ \A k \in 1 .. Len(values) : k # 5 => made.state[Field(Wrapper[k])] = values[k]
      <4>1. Keeping(UserRegs, values, around)
        BY <2>2, Kept
      <4> QED
        BY <4>1 DEF Keeping
    <3> HIDE DEF before, made
    <3>3. \A r \in Register \ gone : made.regs[r] = before[r]
      BY <3>2
    <3>4. \A k \in DOMAIN values \ {5} : made.state[Field(Wrapper[k])] = values[k]
      BY <2>2, <3>2
    <3> QED
      BY <3>1, <3>3, <3>4 DEF CallKept, before
  <2>3. ASSUME NEW ms, NEW around, CallSystem(<<SYSCALL_SLEEP, ms>>, around) PROVE CallKept'
    <3>1. Len(<<SYSCALL_SLEEP, ms>>) = 2 /\ DOMAIN <<SYSCALL_SLEEP, ms>> = 1 .. 2
      OBVIOUS
    <3>2. /\ Len(<<SYSCALL_SLEEP, ms>>) \in 1 .. 5
          /\ DOMAIN <<SYSCALL_SLEEP, ms>> = 1 .. Len(<<SYSCALL_SLEEP, ms>>)
      BY <3>1
    <3> QED
      BY <2>2, <2>3, <3>2
  <2>4. ASSUME NEW values \in SyscallValues, NEW around, CallSystem(values, around)
        PROVE  CallKept'
    <3>1. PICK number \in (0 .. 30) \ {SYSCALL_SLEEP}, n \in 1 .. 5 :
               values = SubSeq(<<number, 30, 5, 21, 22>>, 1, n)
      BY <2>4 DEF SyscallValues
    <3> DEFINE all == <<number, 30, 5, 21, 22>>
    <3>2. values = [k \in 1 .. n |-> all[k]]
      BY <3>1
    <3>3. n \in Nat /\ DOMAIN values = 1 .. n
      BY <3>2
    <3>4. Len(values) = n
      <4> DEFINE T == {all[k] : k \in 1 .. n}
      <4>1. values \in [1 .. n -> T]
        BY <3>2
      <4> HIDE DEF T, all
      <4> QED
        BY <3>3, <4>1
    <3> QED
      BY <2>2, <2>4, <3>3, <3>4
  <2> QED
    BY <2>1, <2>3, <2>4, Calls
<1> QED
  BY <1>1, <1>2, PTL DEF RoutinesSpec

\* Division, and what it leaves.
LEMMA Quotient ==
    ASSUME NEW a \in Nat, NEW b \in Nat, b > 0
    PROVE  a \div b \in Nat /\ b * (a \div b) <= a /\ a < b * (a \div b) + b
<1>1. a = (b * (a \div b)) + (a % b) /\ a % b \in 0 .. b - 1 /\ a \div b \in Nat
  OBVIOUS
<1>2. b * (a \div b) \in Int
  BY <1>1
<1> QED
  BY <1>1, <1>2

LEMMA Remainder ==
    ASSUME NEW M \in Nat, M > 0, NEW a \in Int
    PROVE  a % M \in 0 .. M - 1 /\ \E q \in Int : a = (M * q) + (a % M)
<1>1. a = (M * (a \div M)) + (a % M)
  OBVIOUS
<1>2. a \div M \in Int /\ a % M \in 0 .. M - 1
  OBVIOUS
<1> QED
  BY <1>1, <1>2

LEMMA SameRemainder ==
    ASSUME NEW M \in Nat, M > 0, NEW a \in Int, NEW q \in Int
    PROVE  (a + (M * q)) % M = a % M
<1>1. PICK p \in Int : a = (M * p) + (a % M)
  BY Remainder
<1>2. a % M \in 0 .. M - 1
  BY Remainder
<1>3. a + (M * q) = (M * (p + q)) + (a % M)
  BY <1>1, <1>2
<1>4. p + q \in Int
  OBVIOUS
<1>5. ASSUME NEW r \in 0 .. M - 1, NEW n \in Int PROVE ((M * n) + r) % M = r
  OBVIOUS
<1> QED
  BY <1>2, <1>3, <1>4, <1>5

\* How far pit_counter has come does not depend on where it started, nor on its wrapping.
LEMMA Elapsed ==
    ASSUME NEW start \in Nat, NEW x \in Nat, NEW factor \in Nat
    PROVE  InWord(factor * (InWord(start + x) - start)) = InWord(factor * x)
<1> DEFINE M == 2^WORD_BITS
           y == start + x
<1>1. M \in Nat /\ M > 0 /\ y \in Nat
  BY SystemCallAssumption
<1>2. InWord(y) = y % M /\ InWord(factor * (InWord(y) - start)) = (factor * ((y % M) - start)) % M
      /\ InWord(factor * x) = (factor * x) % M
  BY DEF InWord
<1> HIDE DEF M
<1>3. PICK q \in Int : y = (M * q) + (y % M)
  <2> HIDE DEF y
  <2> QED
    BY <1>1, Remainder
<1>4. y % M \in Int
  BY <1>1
<1> DEFINE r == y % M
<1>5. r - start = x - (M * q) /\ r \in Int /\ M * q \in Int
  BY <1>1, <1>3, <1>4
<1> HIDE DEF r
<1> DEFINE u == factor * x
<1>6. factor * (r - start) = u + (M * (- (factor * q)))
  <2>1. factor * (x - (M * q)) = (factor * x) + (M * (- (factor * q)))
    BY <1>1
  <2> QED
    BY <1>5, <2>1
<1>7. u \in Int /\ - (factor * q) \in Int
  <2>1. factor * x \in Nat /\ factor * q \in Int
    OBVIOUS
  <2> QED
    BY <2>1
<1> HIDE DEF u
<1>8. (u + (M * (- (factor * q)))) % M = u % M
  BY <1>1, <1>7, SameRemainder
<1> QED
  BY <1>2, <1>6, <1>8 DEF u, r, y

\* The test of the loop, so long as not too much time has passed.
LEMMA Tests ==
    ASSUME NEW start \in Nat, NEW x \in Nat, x < 2^WORD_BITS, NEW ticks
    PROVE  Waits(start, InWord(start + x), ticks) <=> x < ticks
<1>1. InWord(1 * (InWord(start + x) - start)) = InWord(1 * x)
  BY Elapsed
<1>2. 1 * x = x /\ 1 * (InWord(start + x) - start) = InWord(start + x) - start
  <2>1. InWord(start + x) \in Int
    BY SystemCallAssumption DEF InWord
  <2> QED
    BY <2>1
<1>3. InWord(x) = x
  <2> DEFINE M == 2^WORD_BITS
  <2>1. M \in Nat /\ x < M
    BY SystemCallAssumption
  <2> HIDE DEF M
  <2>2. x % M = x
    BY <2>1
  <2> QED
    BY <2>2 DEF M, InWord
<1> QED
  BY <1>1, <1>2, <1>3 DEF Waits

\* The test that ends the loop is the first after ticks ticks.
LEMMA Wakes ==
    ASSUME NEW around, around.pit_counter \in Nat, around.gap \in Nat, around.gap > 0,
           NEW ticks \in Nat, ticks + around.gap <= 2^WORD_BITS
    PROVE  \E n \in 0 .. ticks :
               /\ WakesAt(around, ticks) = InWord(around.pit_counter + n * around.gap)
               /\ n * around.gap >= ticks
               /\ n > 0 => n * around.gap - around.gap < ticks
<1> DEFINE M == 2^WORD_BITS
           p == around.pit_counter
           gap == around.gap
           T == {n \in Nat : n * gap >= ticks}
           Tested(n) == Waits(p, CounterAt(around, n), ticks)
           Ends(n) == ~ Tested(n) /\ \A m \in 0 .. n - 1 : Tested(m)
<1>1. M \in Nat /\ p \in Nat /\ gap \in Nat /\ gap > 0 /\ ticks \in Nat /\ ticks + gap <= M
  BY SystemCallAssumption
<1>2. WakesAt(around, ticks) = CounterAt(around, CHOOSE n \in 0 .. M : Ends(n))
  BY DEF WakesAt
<1>3. \A n : CounterAt(around, n) = InWord(p + (n * gap))
  BY DEF CounterAt
<1>4. ASSUME NEW n \in Nat, n * gap < M PROVE Tested(n) <=> n * gap < ticks
  <2> DEFINE x == n * gap
  <2>1. x \in Nat /\ x < M
    BY <1>1, <1>4
  <2>2. CounterAt(around, n) = InWord(p + x)
    BY <1>3
  <2> HIDE DEF x, p
  <2>3. Waits(p, InWord(p + x), ticks) <=> x < ticks
    BY <1>1, <2>1, Tests
  <2> QED
    BY <2>2, <2>3 DEF x
<1> HIDE DEF M, p, gap, Tested
<1>5. ticks \in T
  <2>1. ticks * gap >= ticks
    <3>1. gap = (gap - 1) + 1 /\ gap - 1 \in Nat
      BY <1>1
    <3>2. ticks * gap = (ticks * (gap - 1)) + ticks /\ ticks * (gap - 1) \in Nat
      BY <1>1, <3>1
    <3> QED
      BY <1>1, <3>2
  <2> QED
    BY <1>1, <2>1
<1>6. PICK n \in T : \A m \in T : n <= m
  <2>1. T \in SUBSET Nat /\ T # {}
    BY <1>5
  <2> HIDE DEF T
  <2> QED
    BY <2>1, LeastNumber
<1>7. n \in 0 .. ticks /\ n * gap >= ticks
  BY <1>1, <1>5, <1>6
<1>8. ASSUME NEW m \in Nat, m < n PROVE m * gap < ticks
  <2>1. m \notin T
    BY <1>6, <1>7, <1>8
  <2>2. m * gap \in Nat
    BY <1>1
  <2> QED
    BY <1>1, <2>1, <2>2
<1> DEFINE x == n * gap
<1>9. x \in Nat /\ (n > 0 => x - gap < ticks)
  <2>1. x \in Nat
    BY <1>1, <1>7
  <2>2. ASSUME n > 0 PROVE x - gap < ticks
    <3>1. n - 1 \in Nat /\ n - 1 < n
      BY <1>7, <2>2
    <3>2. (n - 1) * gap < ticks
      BY <1>8, <3>1
    <3>3. (n - 1) * gap = x - gap
      BY <1>1, <1>7
    <3> QED
      BY <3>2, <3>3
  <2> QED
    BY <2>1, <2>2
<1>10. x < M
  <2>1. CASE n = 0
    <3>1. x = 0
      BY <1>1, <2>1
    <3> QED
      BY <1>1, <3>1
  <2>2. CASE n > 0
    <3> HIDE DEF x
    <3> QED
      BY <1>1, <1>9, <2>2
  <2> QED
    BY <1>7, <2>1, <2>2
<1>11. ~ Tested(n)
  <2>1. ~ (x < ticks)
    BY <1>1, <1>7, <1>9
  <2> QED
    BY <1>4, <1>7, <1>10, <2>1
<1>12. ASSUME NEW m \in 0 .. n - 1 PROVE Tested(m)
  <2>1. m \in Nat /\ m * gap < ticks /\ m * gap \in Nat
    BY <1>1, <1>7, <1>8
  <2>2. m * gap < M
    BY <1>1, <2>1
  <2> QED
    BY <1>4, <2>1, <2>2
<1>13. n \in 0 .. M /\ Ends(n)
  BY <1>1, <1>7, <1>11, <1>12
<1>14. ASSUME NEW m \in 0 .. M, Ends(m) PROVE m = n
  <2>1. ~ (m < n)
    BY <1>1, <1>7, <1>12, <1>14
  <2>2. ~ (n < m)
    BY <1>1, <1>7, <1>11, <1>14
  <2> QED
    BY <1>1, <1>7, <2>1, <2>2
<1> HIDE DEF Ends
<1>15. (CHOOSE m \in 0 .. M : Ends(m)) = n
  BY <1>13, <1>14
<1>16. WakesAt(around, ticks) = InWord(p + (n * gap))
  BY <1>2, <1>3, <1>15
<1> QED
  BY <1>7, <1>9, <1>16 DEF p, gap

\* What SYSCALL_SLEEP answers.
LEMMA Answers ==
    ASSUME NEW regs, NEW ms, NEW around
    PROVE  syscall(regs, <<SYSCALL_SLEEP, ms>>, around).regs["rax"] =
               InWord(MS_PER_TICK * (WakesAt(around, Ticks(ms)) - around.pit_counter))
<1> DEFINE values == <<SYSCALL_SLEEP, ms>>
           before == Passed(regs, values)
           entered == Entered(before)
           stack == Stacked(entered)
           after == ksyscall(stack, around)
           ticks == Ticks(ms)
           woken == InWord(MS_PER_TICK * (WakesAt(around, ticks) - around.pit_counter))
<1>1. before["rax"] = SYSCALL_SLEEP /\ before["rdi"] = ms
  <2>1. Len(values) = 2 /\ values[1] = SYSCALL_SLEEP /\ values[2] = ms
    OBVIOUS
  <2>2. Len(values) \in 1 .. 5
    BY <2>1
  <2> HIDE DEF values
  <2>3. \A k \in 1 .. Len(values) : Passed(regs, values)[Wrapper[k]] = values[k]
    BY <2>2, Passes
  <2>4. Wrapper[1] = "rax" /\ Wrapper[2] = "rdi" /\ 1 \in 1 .. Len(values) /\ 2 \in 1 .. Len(values)
    BY <2>1, Registers
  <2> QED
    BY <2>1, <2>3, <2>4
<1>2. DOMAIN before = Register
  BY DEF Passed
<1>3. entered = [before EXCEPT !["rcx"] = before["rip"], !["r11"] = before["rflags"]]
  BY DEF Entered
<1> HIDE DEF before
<1>4. entered["rax"] = SYSCALL_SLEEP /\ entered["rdi"] = ms
  BY <1>1, <1>2, <1>3 DEF Register, CallerSaved
<1>5. stack = [k \in 1 .. 11 |-> entered[Popped[k]]]
  BY Stacks
<1>6. /\ Popped[1] = "rax" /\ Popped[11] = "rdi" /\ 1 \in 1 .. 11 /\ 11 \in 1 .. 11
  BY Registers
<1>7. Field("rax") = 1 /\ Field("rdi") = 11
  BY <1>6, Fields
<1> HIDE DEF entered
<1>8. stack[1] = SYSCALL_SLEEP /\ stack[11] = ms
  BY <1>4, <1>5, <1>6
<1> HIDE DEF stack
<1>9. after = [stack EXCEPT ![11] = ticks, ![1] = woken]
  <2> DEFINE asked == Ticks(stack[11])
             answer == InWord(MS_PER_TICK * (WakesAt(around, asked) - around.pit_counter))
  <2>1. ksyscall(stack, around) =
            CASE stack[1] = SYSCALL_SLEEP -> [stack EXCEPT ![11] = asked, ![1] = answer]
              [] stack[1] = SYSCALL_GETPID -> [stack EXCEPT ![1] = around.pid]
              [] OTHER -> stack
    BY <1>7 DEF ksyscall
  <2>2. answer = woken /\ asked = ticks
    BY <1>8
  <2>3. SYSCALL_SLEEP # SYSCALL_GETPID
    BY DEF SYSCALL_SLEEP, SYSCALL_GETPID
  <2> HIDE DEF asked, answer, ticks, woken
  <2>4. ksyscall(stack, around) = [stack EXCEPT ![11] = asked, ![1] = answer]
    BY <1>8, <2>1, <2>3
  <2> QED
    BY <2>2, <2>4
<1>10. after[1] = woken
  <2> HIDE DEF after, ticks, woken
  <2> QED
    BY <1>5, <1>6, <1>9
<1>11. \A k \in 1 .. 11 : Left(entered, after)[Popped[k]] = after[k]
  <2> HIDE DEF after
  <2> QED
    BY Leaves
<1>12. Left(entered, after)["rax"] = after[1]
  <2> HIDE DEF after
  <2> QED
    BY <1>6, <1>11
<1>13. syscall(regs, values, around).regs = Left(entered, after)
  BY DEF syscall, entered, before, stack
<1> QED
  BY <1>10, <1>12, <1>13

\* The ticks are as many as the time asked for needs.
LEMMA RoundsUp ==
    ASSUME NEW ms \in Nat, ms <= 2^WORD_BITS - MS_PER_TICK
    PROVE  /\ Ticks(ms) \in 0 .. ms /\ Ticks(ms) + 3 <= 2^WORD_BITS
           /\ MS_PER_TICK * Ticks(ms) >= ms
           /\ MS_PER_TICK * Ticks(ms) - MS_PER_TICK < ms
<1> DEFINE M == 2^WORD_BITS
           P == MS_PER_TICK
           a == ms + (P - 1)
           t == a \div P
<1>1. M \in Nat /\ M > 3 /\ P \in Nat /\ P > 1 /\ ms <= M - P
  BY SystemCallAssumption
<1>2. Ticks(ms) = (a % M) \div P
  BY DEF Ticks, InWord
<1> HIDE DEF M, P
<1>3. a \in Nat /\ a < M
  BY <1>1
<1>4. a % M = a
  <2> HIDE DEF a
  <2> QED
    BY <1>1, <1>3
<1>5. t \in Nat /\ P * t <= a /\ a < (P * t) + P
  <2> HIDE DEF a
  <2> QED
    BY <1>1, <1>3, Quotient
<1> HIDE DEF t
<1>6. P * t \in Nat /\ P * t >= t + t
  <2>1. P - 2 \in Nat /\ P = (P - 2) + 2
    BY <1>1
  <2>2. P * t = ((P - 2) * t) + (t + t) /\ (P - 2) * t \in Nat
    BY <1>5, <2>1
  <2> QED
    BY <1>5, <2>2
<1> DEFINE u == P * t
<1>7. u \in Nat /\ u >= t + t /\ u <= a /\ a < u + P
  BY <1>5, <1>6
<1>8. t <= ms
  <2> SUFFICES ASSUME t > ms PROVE FALSE
    BY <1>5
  <2>1. t - ms - 1 \in Nat
    BY <1>5
  <2>2. P * t = (P * (t - ms - 1)) + (P * (ms + 1)) /\ P * (t - ms - 1) \in Nat
    BY <1>1, <1>5, <2>1
  <2>3. P * (ms + 1) = ((P - 1) * ms) + (ms + P) /\ (P - 1) * ms \in Nat
    BY <1>1
  <2> QED
    BY <1>1, <1>5, <2>2, <2>3
<1> HIDE DEF u
<1>9. u >= ms /\ u - P < ms
  BY <1>1, <1>7
<1>10. t + 3 <= M
  <2>1. t + t < M
    BY <1>1, <1>3, <1>5, <1>7
  <2> QED
    BY <1>1, <1>5, <2>1
<1> QED
  BY <1>2, <1>4, <1>5, <1>8, <1>9, <1>10 DEF t, u, M, P

\* SYSCALL_SLEEP ends at the first test at which the time asked for is over, and answers
\* how long that was, wherever pit_counter starts and wraps.
THEOREM SleepsInTime == RoutinesSpec => []SleepsLongEnough
<1>1. RoutinesInit => SleepsLongEnough
  BY DEF RoutinesInit, SleepsLongEnough, NoCall
<1>2. SleepsLongEnough /\ [RoutinesNext]_<<memoryVars, ring, call>> => SleepsLongEnough'
  <2> SUFFICES ASSUME SleepsLongEnough, [RoutinesNext]_<<memoryVars, ring, call>>,
                      call'.routine = "syscall"
               PROVE  SleepsLongEnough'
    BY DEF SleepsLongEnough
  <2>1. CASE UNCHANGED call
    BY <2>1 DEF SleepsLongEnough
  <2>2. ASSUME NEW ms \in 0 .. 2^WORD_BITS - 1, NEW pit_counter \in 0 .. 2^WORD_BITS - 1,
               NEW gap \in 1 .. 3, CallSystem(<<SYSCALL_SLEEP, ms>>, Around(pit_counter, gap)),
               ms <= 2^WORD_BITS - MS_PER_TICK
        PROVE  SleepsLongEnough'
    <3> DEFINE values == <<SYSCALL_SLEEP, ms>>
               around == Around(pit_counter, gap)
               ticks == Ticks(ms)
    <3>1. /\ call'.values[2] = ms /\ call'.around.gap = gap
          /\ call'.result.regs["rax"] = InWord(MS_PER_TICK * (WakesAt(around, ticks) - pit_counter))
      <4>1. call'.values = values /\ call'.around = around
            /\ call'.result = syscall(UserRegs, values, around)
        BY <2>2 DEF CallSystem
      <4>2. around.gap = gap /\ around.pit_counter = pit_counter
        BY DEF Around
      <4>3. values[2] = ms
        OBVIOUS
      <4>4. syscall(UserRegs, values, around).regs["rax"] =
                InWord(MS_PER_TICK * (WakesAt(around, ticks) - around.pit_counter))
        BY Answers
      <4> QED
        BY <4>1, <4>2, <4>3, <4>4
    <3>2. around.pit_counter = pit_counter /\ around.gap = gap
      BY DEF Around
    <3> HIDE DEF around, values
    <3>3. ms \in Nat /\ pit_counter \in Nat /\ gap \in Nat /\ gap > 0 /\ MS_PER_TICK \in Nat
      BY <2>2, SystemCallAssumption
    <3>4. /\ ticks \in 0 .. ms /\ ticks + 3 <= 2^WORD_BITS
          /\ MS_PER_TICK * ticks >= ms /\ MS_PER_TICK * ticks - MS_PER_TICK < ms
      BY <2>2, <3>3, RoundsUp
    <3> HIDE DEF ticks
    <3>5. PICK n \in 0 .. ticks :
                  /\ WakesAt(around, ticks) = InWord(pit_counter + n * gap)
                  /\ n * gap >= ticks
                  /\ n > 0 => n * gap - gap < ticks
      <4>1. ticks \in Nat /\ ticks + gap <= 2^WORD_BITS
        <5>1. 2^WORD_BITS \in Nat
          BY SystemCallAssumption
        <5> QED
          BY <2>2, <3>4, <5>1
      <4>2. around.pit_counter \in Nat /\ around.gap \in Nat /\ around.gap > 0
            /\ ticks + around.gap <= 2^WORD_BITS
        BY <3>2, <3>3, <4>1
      <4> QED
        BY <3>2, <4>1, <4>2, Wakes
    <3> DEFINE x == n * gap
               P == MS_PER_TICK
    <3>6. x \in Nat /\ P \in Nat /\ P * n * gap = P * x /\ ticks \in Nat /\ n \in 0 .. ms
      BY <3>3, <3>4, <3>5
    <3>7. WakesAt(around, ticks) = InWord(pit_counter + x) /\ x >= ticks
          /\ (n > 0 => x - gap < ticks) /\ P * ticks >= ms /\ (P * ticks) - P < ms
      BY <3>4, <3>5
    <3> HIDE DEF x, P
    <3>8. call'.result.regs["rax"] = InWord(P * x)
      <4>1. InWord(P * (InWord(pit_counter + x) - pit_counter)) = InWord(P * x)
        BY <3>3, <3>6, Elapsed
      <4>2. call'.result.regs["rax"] = InWord(P * (WakesAt(around, ticks) - pit_counter))
        BY <3>1 DEF P
      <4> QED
        BY <3>7, <4>1, <4>2
    <3>9. P * x >= ms
      <4>1. P * x = (P * ticks) + (P * (x - ticks)) /\ P * (x - ticks) \in Nat /\ P * ticks \in Nat
        BY <3>6, <3>7
      <4> QED
        BY <3>3, <3>6, <3>7, <4>1
    <3>10. ASSUME n > 0 PROVE P * x - P * gap < ms
      <4>1. ticks - 1 - (x - gap) \in Nat
        BY <3>3, <3>6, <3>7, <3>10
      <4>2. (P * ticks) - P = ((P * x) - (P * gap)) + (P * (ticks - 1 - (x - gap)))
        BY <3>3, <3>6
      <4>3. P * (ticks - 1 - (x - gap)) \in Nat /\ P * x \in Nat /\ P * gap \in Nat /\ P * ticks \in Nat
        BY <3>3, <3>6, <4>1
      <4> QED
        BY <3>3, <3>6, <3>7, <4>2, <4>3
    <3>11. LET slept == P * n * gap IN
               slept >= ms /\ (n > 0 => slept - P * gap < ms)
               /\ call'.result.regs["rax"] = slept % 2^WORD_BITS
      BY <3>6, <3>8, <3>9, <3>10 DEF InWord
    <3> QED
      BY <3>1, <3>6, <3>11 DEF SleepsLongEnough, P
  <2>3. ASSUME NEW ms, NEW around, CallSystem(<<SYSCALL_SLEEP, ms>>, around),
               ~ (ms <= 2^WORD_BITS - MS_PER_TICK)
        PROVE  SleepsLongEnough'
    <3>1. call'.values = <<SYSCALL_SLEEP, ms>> /\ <<SYSCALL_SLEEP, ms>>[2] = ms
      BY <2>3 DEF CallSystem
    <3> QED
      BY <2>3, <3>1 DEF SleepsLongEnough
  <2>4. ASSUME NEW values \in SyscallValues, NEW around, CallSystem(values, around)
        PROVE  SleepsLongEnough'
    <3>1. PICK number \in (0 .. 30) \ {SYSCALL_SLEEP}, n \in 1 .. 5 :
               values = SubSeq(<<number, 30, 5, 21, 22>>, 1, n)
      BY <2>4 DEF SyscallValues
    <3>2. values[1] = number /\ number # SYSCALL_SLEEP
      BY <3>1
    <3>3. call'.values = values
      BY <2>4 DEF CallSystem
    <3> QED
      BY <3>2, <3>3 DEF SleepsLongEnough
  <2> QED
    BY <2>1, <2>2, <2>3, <2>4, Calls
<1> QED
  BY <1>1, <1>2, PTL DEF RoutinesSpec

-----------------------------------------------------------------------------
(* An interrupt's frame.                                                   *)

\* What iretq pops.
CpuPops == <<"rip", "cs", "rflags", "rsp", "ss">>

\* The words popped one by one are those pushed one by one, and no register twice.
LEMMA FrameWords ==
    /\ Len(StubPushes) = 19 /\ DOMAIN StubPushes = 1 .. 19
    /\ Len(StubPops) = 19 /\ DOMAIN StubPops = 1 .. 19
    /\ Len(CpuPushes) = 5 /\ DOMAIN CpuPushes = 1 .. 5
    /\ \A k \in 1 .. 19 : StubPops[k] = StubPushes[(19 - k) + 1]
    /\ \A k \in 1 .. 5 : CpuPops[k] = CpuPushes[(5 - k) + 1]
    /\ \A j, k \in 1 .. 19 : StubPops[j] = StubPops[k] => j = k
    /\ \A j, k \in 1 .. 5 : CpuPops[j] = CpuPops[k] => j = k
    /\ \A j \in 1 .. 5 : CpuPops[j] \notin {StubPops[k] : k \in 1 .. 19}
    /\ ToSet(StubPops) = {StubPops[k] : k \in 1 .. 19}
    /\ ToSet(CpuPushes) = {CpuPops[k] : k \in 1 .. 5}
<1>1. /\ Len(StubPushes) = 19 /\ DOMAIN StubPushes = 1 .. 19
      /\ Len(StubPops) = 19 /\ DOMAIN StubPops = 1 .. 19
      /\ Len(CpuPushes) = 5 /\ DOMAIN CpuPushes = 1 .. 5
  BY DEF StubPushes, StubPops, CpuPushes
<1>2. \A k \in 1 .. 19 : StubPops[k] = StubPushes[(19 - k) + 1]
  BY DEF StubPushes, StubPops
<1>3. \A k \in 1 .. 5 : CpuPops[k] = CpuPushes[(5 - k) + 1]
  BY DEF CpuPushes, CpuPops
<1>4. \A j, k \in 1 .. 19 : StubPops[j] = StubPops[k] => j = k
  BY DEF StubPops
<1>5. \A j, k \in 1 .. 5 : CpuPops[j] = CpuPops[k] => j = k
  BY DEF CpuPops
<1>6. ASSUME NEW j \in 1 .. 5, NEW k \in 1 .. 19 PROVE CpuPops[j] # StubPops[k]
  BY DEF CpuPops, StubPops
<1>7. ToSet(StubPops) = {StubPops[k] : k \in 1 .. 19}
  BY <1>1 DEF ToSet
<1>8. ToSet(CpuPushes) = {CpuPops[k] : k \in 1 .. 5}
  <2>1. ToSet(CpuPushes) = {CpuPushes[k] : k \in 1 .. 5}
    BY <1>1 DEF ToSet
  <2>2. \A k \in 1 .. 5 : CpuPushes[k] = CpuPops[(5 - k) + 1] /\ (5 - k) + 1 \in 1 .. 5
    BY DEF CpuPushes, CpuPops
  <2>3. \A k \in 1 .. 5 : CpuPops[k] = CpuPushes[(5 - k) + 1] /\ (5 - k) + 1 \in 1 .. 5
    BY <1>3
  <2> QED
    BY <2>1, <2>2, <2>3
<1> QED
  BY <1>1, <1>2, <1>3, <1>4, <1>5, <1>6, <1>7, <1>8

\* The first place of a word that is at one place only.
LEMMA Selects ==
    ASSUME NEW s, NEW n \in Nat, Len(s) = n, NEW k \in 1 .. n,
           \A j \in 1 .. n : s[j] = s[k] => j = k
    PROVE  SelectInSeq(s, LAMBDA w : w = s[k]) = k
<1>1. {j \in 1 .. Len(s) : s[j] = s[k]} = {k}
  OBVIOUS
<1>2. Min({k}) = k
  BY DEF Min
<1> QED
  BY <1>1, <1>2 DEF SelectInSeq

\* The other way round.
LEMMA Reversed ==
    ASSUME NEW S, NEW s \in Seq(S)
    PROVE  Reverse(s) = [k \in 1 .. Len(s) |-> s[(Len(s) - k) + 1]]
BY DEF Reverse

\* The registers' words are a sequence.
LEMMA Words ==
    ASSUME NEW S, NEW n \in Nat, NEW f \in [1 .. n -> S]
    PROVE  f \in Seq(S) /\ Len(f) = n
OBVIOUS

\* One word after a sequence.
Followed(s, w, t) ==
    /\ Len(t) = Len(s) + 1 /\ t[Len(s) + 1] = w
    /\ \A k \in 1 .. Len(s) : t[k] = s[k]

LEMMA OneWord ==
    ASSUME NEW S, NEW s \in Seq(S), NEW w \in S
    PROVE  s \o <<w>> \in Seq(S) /\ Followed(s, w, s \o <<w>>)
<1> DEFINE t == <<w>>
<1>1. t \in Seq(S) /\ Len(t) = 1 /\ t[1] = w
  OBVIOUS
<1> HIDE DEF t
<1>2. Len(s) \in Nat
  OBVIOUS
<1>3. s \o t \in Seq(S) /\ Len(s \o t) = Len(s) + 1
  BY <1>1, ConcatProperties
<1>4. \A i \in 1 .. Len(s) + 1 : (s \o t)[i] = IF i <= Len(s) THEN s[i] ELSE t[i - Len(s)]
  BY <1>1, ConcatProperties
<1>5. \A k \in 1 .. Len(s) : (s \o t)[k] = s[k]
  BY <1>2, <1>4
<1>6. (s \o t)[Len(s) + 1] = w
  <2>1. /\ Len(s) + 1 \in 1 .. Len(s) + 1 /\ (Len(s) + 1) - Len(s) = 1
        /\ ~(Len(s) + 1 <= Len(s))
    BY <1>2
  <2> QED
    BY <1>1, <1>4, <2>1
<1> QED
  BY <1>3, <1>5, <1>6 DEF t, Followed

\* A sequence pushed after another is on top of it.
Above(t, s) ==
    /\ \A k \in 1 .. Len(t) : Reverse(s \o t)[k] = t[(Len(t) - k) + 1]
    /\ \A k \in 1 .. Len(s) : Reverse(s \o t)[Len(t) + k] = s[(Len(s) - k) + 1]

LEMMA OnTop ==
    ASSUME NEW S, NEW s \in Seq(S), NEW t \in Seq(S)
    PROVE  Above(t, s)
<1> DEFINE n == Len(s) + Len(t)
<1>1. s \o t \in Seq(S) /\ Len(s \o t) = n /\ Len(s) \in Nat /\ Len(t) \in Nat
  OBVIOUS
<1>2. \A k \in 1 .. n : Reverse(s \o t)[k] = (s \o t)[(n - k) + 1]
  <2>1. Reverse(s \o t) = [k \in 1 .. Len(s \o t) |-> (s \o t)[(Len(s \o t) - k) + 1]]
    BY <1>1, Reversed
  <2> QED
    BY <1>1, <2>1
<1>3. \A k \in 1 .. Len(t) : (s \o t)[(n - k) + 1] = t[(Len(t) - k) + 1]
  <2> TAKE k \in 1 .. Len(t)
  <2>1. (n - k) + 1 \in Len(s) + 1 .. n /\ ((n - k) + 1) - Len(s) = (Len(t) - k) + 1
    BY <1>1
  <2> QED
    BY <1>1, <2>1
<1>4. \A k \in 1 .. Len(s) :
          (s \o t)[(n - (Len(t) + k)) + 1] = s[(Len(s) - k) + 1]
  <2> TAKE k \in 1 .. Len(s)
  <2>1. (n - (Len(t) + k)) + 1 \in 1 .. Len(s)
        /\ (n - (Len(t) + k)) + 1 = (Len(s) - k) + 1
    BY <1>1
  <2> QED
    BY <1>1, <2>1
<1>5. \A k \in 1 .. Len(t) : k \in 1 .. n
  BY <1>1
<1>6. \A k \in 1 .. Len(s) : Len(t) + k \in 1 .. n
  BY <1>1
<1> HIDE DEF n
<1> QED
  BY <1>1, <1>2, <1>3, <1>4, <1>5, <1>6 DEF n, Above

\* What the words of a frame hold: the stub's registers, the vector, and, if the stub
\* knows whether the processor has pushed one, the error code and the processor's registers.
LEMMA FramePushed ==
    ASSUME NEW registers, NEW vector, NEW code
    PROVE  LET frame == Interrupted(registers, vector, code) IN
           /\ \A k \in 1 .. 19 : frame[k] = registers[StubPops[k]]
           /\ frame[20] = vector
           /\ (vector \in WithError <=> vector \in PushesCode) =>
                  /\ frame[21] = IF vector \in PushesCode THEN code ELSE ZeroWord
                  /\ \A k \in 1 .. 5 : frame[21 + k] = registers[CpuPops[k]]
<1> DEFINE stub == Values(registers, StubPushes)
           cpu  == Values(registers, CpuPushes)
           one  == IF vector \in PushesCode THEN <<code>> ELSE <<>>
           two  == IF vector \in WithError THEN <<>> ELSE <<ZeroWord>>
           codes == one \o two
           S == {registers[StubPushes[k]] : k \in 1 .. 19}
                \cup {registers[CpuPushes[k]] : k \in 1 .. 5} \cup {vector, code, ZeroWord}
           frame == Interrupted(registers, vector, code)
<1>1. stub = [k \in 1 .. 19 |-> registers[StubPushes[k]]]
  BY FrameWords DEF Values
<1>2. cpu = [k \in 1 .. 5 |-> registers[CpuPushes[k]]]
  BY FrameWords DEF Values
<1>3. stub \in Seq(S) /\ Len(stub) = 19
  <2>1. stub \in [1 .. 19 -> S] /\ 19 \in Nat
    BY <1>1
  <2> HIDE DEF stub, S
  <2> QED
    BY <2>1, Words
<1>4. cpu \in Seq(S) /\ Len(cpu) = 5
  <2>1. cpu \in [1 .. 5 -> S] /\ 5 \in Nat
    BY <1>2
  <2> HIDE DEF cpu, S
  <2> QED
    BY <2>1, Words
<1>5. one \in Seq(S) /\ two \in Seq(S) /\ <<vector>> \in Seq(S)
  <2>1. code \in S /\ ZeroWord \in S /\ vector \in S
    OBVIOUS
  <2> HIDE DEF S
  <2> QED
    BY <2>1
<1>6. (vector \in WithError <=> vector \in PushesCode) =>
          codes = <<IF vector \in PushesCode THEN code ELSE ZeroWord>>
  <2>1. CASE vector \in WithError /\ vector \in PushesCode
    <3>1. one = <<code>> /\ two = <<>>
      BY <2>1
    <3> HIDE DEF one, two
    <3>2. codes = <<code>>
      BY <3>1
    <3> QED
      BY <2>1, <3>2
  <2>2. CASE vector \notin WithError /\ vector \notin PushesCode
    <3>1. one = <<>> /\ two = <<ZeroWord>>
      BY <2>2
    <3> HIDE DEF one, two
    <3>2. codes = <<ZeroWord>>
      BY <3>1
    <3> QED
      BY <2>2, <3>2
  <2> QED
    BY <2>1, <2>2
<1>7. frame = Reverse((((cpu \o one) \o two) \o <<vector>>) \o stub)
  BY DEF Interrupted
<1> HIDE DEF stub, cpu, one, two, S
<1>8. (cpu \o one) \o two = cpu \o codes /\ codes \in Seq(S)
  BY <1>4, <1>5
<1> HIDE DEF codes
<1> DEFINE rest == (cpu \o codes) \o <<vector>>
<1>9. frame = Reverse(rest \o stub)
  BY <1>7, <1>8
<1>10. cpu \o codes \in Seq(S) /\ <<vector>> \in Seq(S) /\ Len(<<vector>>) = 1
  BY <1>4, <1>5, <1>8
<1>11. rest \in Seq(S) /\ Len(rest) = Len(cpu \o codes) + 1
  BY <1>10
<1> HIDE DEF rest, frame
<1>12. /\ \A k \in 1 .. 19 : frame[k] = stub[(19 - k) + 1]
       /\ \A k \in 1 .. Len(rest) : frame[19 + k] = rest[(Len(rest) - k) + 1]
  <2>1. /\ \A k \in 1 .. Len(stub) : Reverse(rest \o stub)[k] = stub[(Len(stub) - k) + 1]
        /\ \A k \in 1 .. Len(rest) :
               Reverse(rest \o stub)[Len(stub) + k] = rest[(Len(rest) - k) + 1]
    <3>1. Above(stub, rest)
      BY <1>3, <1>11, OnTop
    <3> QED
      BY <3>1 DEF Above
  <2> QED
    BY <1>3, <1>9, <2>1
<1>13. \A k \in 1 .. 19 : frame[k] = registers[StubPops[k]]
  <2> TAKE k \in 1 .. 19
  <2>1. (19 - k) + 1 \in 1 .. 19
    OBVIOUS
  <2> QED
    BY <1>1, <1>12, <2>1, FrameWords
<1>14. Len(cpu \o codes) \in Nat
  BY <1>10
<1>15. frame[20] = vector
  <2>1. 1 \in 1 .. Len(rest) /\ (Len(rest) - 1) + 1 = Len(cpu \o codes) + 1
    BY <1>11, <1>14
  <2>2. frame[19 + 1] = rest[Len(cpu \o codes) + 1]
    <3>1. frame[19 + 1] = rest[(Len(rest) - 1) + 1]
      BY <1>12, <2>1
    <3> QED
      BY <2>1, <3>1
  <2>3. rest[Len(cpu \o codes) + 1] = vector
    BY <1>10, <1>14 DEF rest
  <2> QED
    BY <2>2, <2>3
<1>16. ASSUME vector \in WithError <=> vector \in PushesCode
       PROVE  /\ frame[21] = IF vector \in PushesCode THEN code ELSE ZeroWord
              /\ \A k \in 1 .. 5 : frame[21 + k] = registers[CpuPops[k]]
  <2> DEFINE word == IF vector \in PushesCode THEN code ELSE ZeroWord
  <2>1. codes = <<word>> /\ word \in S /\ vector \in S
    BY <1>6, <1>16 DEF S
  <2> HIDE DEF word
  <2> DEFINE six == cpu \o <<word>>
  <2>2. /\ six \in Seq(S) /\ Len(six) = 6 /\ six[6] = word
        /\ \A k \in 1 .. 5 : six[k] = cpu[k]
    <3>1. six \in Seq(S) /\ Followed(cpu, word, six)
      BY <1>4, <2>1, OneWord
    <3> QED
      BY <1>4, <3>1 DEF Followed
  <2>3. rest = six \o <<vector>>
    BY <2>1 DEF rest
  <2> HIDE DEF six
  <2>4. /\ Len(rest) = 7 /\ rest[6] = word
        /\ \A k \in 1 .. 5 : rest[k] = cpu[k]
    <3>1. Followed(six, vector, rest)
      BY <2>1, <2>2, <2>3, OneWord
    <3> QED
      BY <2>2, <3>1 DEF Followed
  <2>5. frame[19 + 2] = rest[(7 - 2) + 1]
    BY <1>12, <2>4
  <2>6. \A k \in 1 .. 5 : frame[21 + k] = cpu[(5 - k) + 1]
    <3> TAKE k \in 1 .. 5
    <3>1. k + 2 \in 1 .. 7 /\ (7 - (k + 2)) + 1 = (5 - k) + 1 /\ (5 - k) + 1 \in 1 .. 5
          /\ 19 + (k + 2) = 21 + k
      OBVIOUS
    <3>2. frame[19 + (k + 2)] = rest[(7 - (k + 2)) + 1]
      BY <1>12, <2>4, <3>1
    <3> QED
      BY <2>4, <3>1, <3>2
  <2>7. \A k \in 1 .. 5 : (5 - k) + 1 \in 1 .. 5 /\ CpuPushes[(5 - k) + 1] = CpuPops[k]
    BY FrameWords
  <2> QED
    BY <1>2, <2>4, <2>5, <2>6, <2>7 DEF word
<1> QED
  BY <1>13, <1>15, <1>16 DEF frame

\* Where the two C structures have what irq_handler and process_create name.
LEMMA FrameFields ==
    /\ OffsetOf("int_no") = 20 /\ OffsetOf("err_code") = 21 /\ OffsetOf("rip") = 22
    /\ DOMAIN struct_regs = 1 .. 26
    /\ \A k \in 1 .. 19 : (struct_regs[k] = "rdi" <=> StubPops[k] = "rdi")
                          /\ struct_regs[k] \notin {"rip", "cs", "rflags", "rsp", "ss"}
    /\ \A k \in 1 .. 5 : struct_regs[21 + k] = CpuPops[k]
<1>1. Len(struct_regs) = 26 /\ DOMAIN struct_regs = 1 .. 26
  BY DEF struct_regs
<1>2. struct_regs[20] = "int_no" /\ \A j \in 1 .. 26 : struct_regs[j] = "int_no" => j = 20
  BY DEF struct_regs
<1>3. struct_regs[21] = "err_code" /\ \A j \in 1 .. 26 : struct_regs[j] = "err_code" => j = 21
  BY DEF struct_regs
<1>4. struct_regs[22] = "rip" /\ \A j \in 1 .. 26 : struct_regs[j] = "rip" => j = 22
  BY DEF struct_regs
<1>5. \A k \in 1 .. 19 : struct_regs[k] = "rdi" <=> StubPops[k] = "rdi"
  BY DEF struct_regs, StubPops
<1>6. \A k \in 1 .. 19 : struct_regs[k] \notin {"rip", "cs", "rflags", "rsp", "ss"}
  BY DEF struct_regs
<1>7. \A k \in 1 .. 5 : struct_regs[21 + k] = CpuPops[k]
  BY DEF struct_regs, CpuPops
<1>8. ASSUME NEW k \in {20, 21, 22} PROVE OffsetOf(struct_regs[k]) = k
  <2>1. k \in 1 .. 26 /\ 26 \in Nat
    OBVIOUS
  <2>2. \A j \in 1 .. 26 : struct_regs[j] = struct_regs[k] => j = k
    BY <1>2, <1>3, <1>4
  <2>3. SelectInSeq(struct_regs, LAMBDA w : w = struct_regs[k]) = k
    BY <1>1, <2>1, <2>2, Selects
  <2> QED
    BY <2>3 DEF OffsetOf
<1>9. OffsetOf(struct_regs[20]) = 20 /\ OffsetOf(struct_regs[21]) = 21 /\ OffsetOf(struct_regs[22]) = 22
  BY <1>8
<1> QED
  BY <1>1, <1>2, <1>3, <1>4, <1>5, <1>6, <1>7, <1>9

\* What the pops and iretq bring into the registers.
Brings(resumed, frame) ==
    /\ DOMAIN resumed = FrameRegister
    /\ \A k \in 1 .. 19 : resumed[StubPops[k]] = frame[k]
    /\ \A k \in 1 .. 5 : resumed[CpuPops[k]] = frame[21 + k]

LEMMA FramePopped ==
    ASSUME NEW frame
    PROVE  Brings(Resumed(frame), frame)
<1> DEFINE resumed == Resumed(frame)
           stub(r) == frame[SelectInSeq(StubPops, LAMBDA p : p = r)]
           cpu(r)  == frame[21 + SelectInSeq(Reverse(CpuPushes), LAMBDA p : p = r)]
<1>1. resumed = [r \in FrameRegister |-> IF r \in ToSet(StubPops) THEN stub(r) ELSE cpu(r)]
  BY FrameWords DEF Resumed
<1>2. Reverse(CpuPushes) = CpuPops
  <2>1. Reverse(CpuPushes) = [k \in 1 .. 5 |-> CpuPushes[(5 - k) + 1]]
    BY FrameWords DEF Reverse
  <2>2. CpuPops = [k \in 1 .. 5 |-> CpuPops[k]]
    BY DEF CpuPops
  <2>3. \A k \in 1 .. 5 : CpuPushes[(5 - k) + 1] = CpuPops[k]
    BY FrameWords
  <2> QED
    BY <2>1, <2>2, <2>3
<1>3. ASSUME NEW k \in 1 .. 19 PROVE resumed[StubPops[k]] = frame[k]
  <2>1. StubPops[k] \in ToSet(StubPops) /\ StubPops[k] \in FrameRegister
    BY FrameWords DEF FrameRegister
  <2>2. SelectInSeq(StubPops, LAMBDA w : w = StubPops[k]) = k
    <3>1. /\ Len(StubPops) = 19 /\ 19 \in Nat
          /\ \A j \in 1 .. 19 : StubPops[j] = StubPops[k] => j = k
      BY FrameWords
    <3> QED
      BY <3>1, Selects
  <2>3. resumed[StubPops[k]] = stub(StubPops[k])
    BY <1>1, <2>1
  <2> QED
    BY <2>2, <2>3
<1>4. ASSUME NEW k \in 1 .. 5 PROVE resumed[CpuPops[k]] = frame[21 + k]
  <2>1. CpuPops[k] \notin ToSet(StubPops) /\ CpuPops[k] \in FrameRegister
    BY FrameWords DEF FrameRegister
  <2>2. SelectInSeq(CpuPops, LAMBDA w : w = CpuPops[k]) = k
    <3>1. /\ Len(CpuPops) = 5 /\ 5 \in Nat
      BY DEF CpuPops
    <3>2. \A j \in 1 .. 5 : CpuPops[j] = CpuPops[k] => j = k
      BY FrameWords
    <3> QED
      BY <3>1, <3>2, Selects
  <2>3. resumed[CpuPops[k]] = cpu(CpuPops[k])
    BY <1>1, <2>1
  <2> QED
    BY <1>2, <2>2, <2>3
<1> QED
  BY <1>1, <1>3, <1>4 DEF Brings

\* A register is popped by the stub or by iretq.
LEMMA FrameCases ==
    ASSUME NEW r \in FrameRegister
    PROVE  (\E k \in 1 .. 19 : r = StubPops[k]) \/ (\E k \in 1 .. 5 : r = CpuPops[k])
BY FrameWords DEF FrameRegister

\* What a new process starts with.
StartsWith(r, pid, entry, kernel_task, top) ==
    CASE r = "rip" -> entry [] r = "rdi" -> pid [] r = "rsp" -> top
      [] r = "rflags" -> "0x202"
      [] r = "cs" -> IF kernel_task THEN "KERNEL_CODE" ELSE "USER_CODE"
      [] r = "ss" -> IF kernel_task THEN "KERNEL_DATA" ELSE "USER_DATA"
      [] OTHER -> ZeroWord

LEMMA Started ==
    ASSUME NEW pid, NEW entry, NEW kernel_task, NEW top, NEW r \in FrameRegister
    PROVE  Resumed(NewContext(pid, entry, kernel_task, top))[r]
               = StartsWith(r, pid, entry, kernel_task, top)
<1> DEFINE context == NewContext(pid, entry, kernel_task, top)
           set == [rip |-> entry, rsp |-> top, rflags |-> "0x202", rdi |-> pid,
                   cs |-> IF kernel_task THEN "KERNEL_CODE" ELSE "USER_CODE",
                   ss |-> IF kernel_task THEN "KERNEL_DATA" ELSE "USER_DATA"]
<1>1. Brings(Resumed(context), context)
  BY FramePopped
<1>2. context = [k \in 1 .. 26 |-> IF struct_regs[k] \in DOMAIN set THEN set[struct_regs[k]]
                                   ELSE ZeroWord]
  BY FrameFields DEF NewContext
<1>3. DOMAIN set = {"rip", "rsp", "rflags", "rdi", "cs", "ss"}
  OBVIOUS
<1>4. /\ set["rip"] = entry /\ set["rsp"] = top /\ set["rflags"] = "0x202" /\ set["rdi"] = pid
      /\ set["cs"] = IF kernel_task THEN "KERNEL_CODE" ELSE "USER_CODE"
      /\ set["ss"] = IF kernel_task THEN "KERNEL_DATA" ELSE "USER_DATA"
  OBVIOUS
<1> HIDE DEF context, set
<1>5. \A k \in 1 .. 26 :
          context[k] = IF struct_regs[k] \in {"rip", "rsp", "rflags", "rdi", "cs", "ss"}
                       THEN set[struct_regs[k]] ELSE ZeroWord
  BY <1>2, <1>3
<1>6. ASSUME NEW k \in 1 .. 19, r = StubPops[k]
      PROVE  Resumed(context)[r] = StartsWith(r, pid, entry, kernel_task, top)
  <2>1. k \in 1 .. 26 /\ Resumed(context)[r] = context[k]
    BY <1>1, <1>6 DEF Brings
  <2>2. r \notin {"rip", "cs", "rflags", "rsp", "ss"}
    BY <1>6 DEF StubPops
  <2>3. CASE r = "rdi"
    <3>1. struct_regs[k] = "rdi"
      BY <1>6, <2>3, FrameFields
    <3>2. context[k] = pid
      BY <1>4, <1>5, <2>1, <3>1
    <3> QED
      BY <2>1, <2>3, <3>2 DEF StartsWith
  <2>4. CASE r # "rdi"
    <3>1. struct_regs[k] \notin {"rip", "rsp", "rflags", "rdi", "cs", "ss"}
      BY <1>6, <2>4, FrameFields
    <3>2. context[k] = ZeroWord
      BY <1>5, <2>1, <3>1
    <3>3. /\ r # "rip" /\ r # "cs" /\ r # "rflags" /\ r # "rsp" /\ r # "ss" /\ r # "rdi"
      BY <2>2, <2>4
    <3>4. StartsWith(r, pid, entry, kernel_task, top) = ZeroWord
      BY <3>3 DEF StartsWith
    <3> QED
      BY <2>1, <3>2, <3>4
  <2> QED
    BY <2>3, <2>4
<1>7. ASSUME NEW k \in 1 .. 5, r = CpuPops[k]
      PROVE  Resumed(context)[r] = StartsWith(r, pid, entry, kernel_task, top)
  <2>1. 21 + k \in 1 .. 26 /\ Resumed(context)[r] = context[21 + k] /\ struct_regs[21 + k] = r
    BY <1>1, <1>7, FrameFields DEF Brings
  <2>2. r \in {"rip", "cs", "rflags", "rsp", "ss"}
    BY <1>7 DEF CpuPops
  <2>3. Resumed(context)[r] = set[r]
    BY <1>5, <2>1, <2>2
  <2>4. CASE r = "rip"
    BY <1>4, <2>3, <2>4 DEF StartsWith
  <2>5. CASE r = "cs"
    BY <1>4, <2>3, <2>5 DEF StartsWith
  <2>6. CASE r = "rflags"
    BY <1>4, <2>3, <2>6 DEF StartsWith
  <2>7. CASE r = "rsp"
    BY <1>4, <2>3, <2>7 DEF StartsWith
  <2>8. CASE r = "ss"
    BY <1>4, <2>3, <2>8 DEF StartsWith
  <2> QED
    BY <2>2, <2>4, <2>5, <2>6, <2>7, <2>8
<1> QED
  BY <1>6, <1>7, FrameCases DEF context

\* irq_stub restores what was interrupted and process_create's context starts a process
\* with what it named: irq.S, struct regs and process_context_t agree.
THEOREM FramesRestored == RoutinesSpec => []FrameKept
<1>1. RoutinesInit => FrameKept
  BY DEF RoutinesInit, FrameKept, NoCall
<1>2. FrameKept /\ [RoutinesNext]_<<memoryVars, ring, call>> => FrameKept'
  <2> SUFFICES ASSUME FrameKept, [RoutinesNext]_<<memoryVars, ring, call>>,
                      call'.routine = "irq_stub"
               PROVE  FrameKept'
    BY DEF FrameKept
  <2>1. CASE UNCHANGED call
    BY <2>1 DEF FrameKept
  <2>2. ASSUME NEW vector \in 0 .. 48, CallFrame(vector) PROVE FrameKept'
    <3> DEFINE frame == Interrupted(FrameRegs, vector, "code")
               fits == vector \in WithError <=> vector \in PushesCode
    <3>1. call'.vector = vector /\ call'.frame = frame
      BY <2>2 DEF CallFrame
    <3>2. /\ \A k \in 1 .. 19 : frame[k] = FrameRegs[StubPops[k]]
          /\ frame[20] = vector
          /\ fits => /\ frame[21] = IF vector \in PushesCode THEN "code" ELSE ZeroWord
                     /\ \A k \in 1 .. 5 : frame[21 + k] = FrameRegs[CpuPops[k]]
      BY FramePushed
    <3>3. Brings(Resumed(frame), frame)
      BY FramePopped
    <3> HIDE DEF frame
    <3>4. fits => Resumed(frame) = FrameRegs
      <4> HAVE fits
      <4>1. \A r \in FrameRegister : Resumed(frame)[r] = FrameRegs[r]
        <5> TAKE r \in FrameRegister
        <5>1. CASE \E k \in 1 .. 19 : r = StubPops[k]
          BY <3>2, <3>3, <5>1 DEF Brings
        <5>2. CASE \E k \in 1 .. 5 : r = CpuPops[k]
          BY <3>2, <3>3, <5>2 DEF Brings
        <5> QED
          BY <5>1, <5>2, FrameCases
      <4>2. /\ Resumed(frame) = [r \in FrameRegister |-> Resumed(frame)[r]]
            /\ FrameRegs = [r \in FrameRegister |-> FrameRegs[r]]
        BY DEF Resumed, FrameRegs
      <4> QED
        BY <4>1, <4>2
    <3>5. fits => frame[22] = "rip"
      <4>1. CpuPops[1] = "rip" /\ FrameRegs["rip"] = "rip"
        <5>1. CpuPops[1] = "rip"
          BY DEF CpuPops
        <5>2. "rip" \in FrameRegister
          BY <5>1, FrameWords DEF FrameRegister
        <5> QED
          BY <5>1, <5>2 DEF FrameRegs
      <4> QED
        BY <3>2, <4>1
    <3>6. \A kernel_task \in BOOLEAN : \A r \in FrameRegister :
              Resumed(NewContext("pid", "entry", kernel_task, "top"))[r]
                  = StartsWith(r, "pid", "entry", kernel_task, "top")
      BY Started
    <3> QED
      BY <3>1, <3>2, <3>4, <3>5, <3>6, FrameFields DEF FrameKept, StartsWith
  <2> QED
    BY <2>1, <2>2, Calls
<1> QED
  BY <1>1, <1>2, PTL DEF RoutinesSpec

-----------------------------------------------------------------------------
(* snprintf.                                                               *)

\* A state of the interpreter, and what it is when something is assigned to it.
StateOf(format, args, at, flags, width, prec, bits, out) ==
    [format |-> format, args |-> args, at |-> at, flags |-> flags, width |-> width,
     prec |-> prec, bits |-> bits, out |-> out]

Assigned(s, field, v, t) == [s EXCEPT ![field] = v] = t

LEMMA StateAssigned ==
    ASSUME NEW format, NEW args, NEW at, NEW flags, NEW width, NEW prec, NEW bits, NEW out, NEW v
    PROVE  LET s == StateOf(format, args, at, flags, width, prec, bits, out) IN
           /\ Assigned(s, "args", v, StateOf(format, v, at, flags, width, prec, bits, out))
           /\ Assigned(s, "at", v, StateOf(format, args, v, flags, width, prec, bits, out))
           /\ Assigned(s, "flags", v, StateOf(format, args, at, v, width, prec, bits, out))
           /\ Assigned(s, "width", v, StateOf(format, args, at, flags, v, prec, bits, out))
           /\ Assigned(s, "prec", v, StateOf(format, args, at, flags, width, v, bits, out))
           /\ Assigned(s, "bits", v, StateOf(format, args, at, flags, width, prec, v, out))
           /\ Assigned(s, "out", v, StateOf(format, args, at, flags, width, prec, bits, v))
<1> DEFINE s == StateOf(format, args, at, flags, width, prec, bits, out)
<1>1. Assigned(s, "args", v, StateOf(format, v, at, flags, width, prec, bits, out))
  BY DEF Assigned, StateOf
<1>2. Assigned(s, "at", v, StateOf(format, args, v, flags, width, prec, bits, out))
  BY DEF Assigned, StateOf
<1>3. Assigned(s, "flags", v, StateOf(format, args, at, v, width, prec, bits, out))
  BY DEF Assigned, StateOf
<1>4. Assigned(s, "width", v, StateOf(format, args, at, flags, v, prec, bits, out))
  BY DEF Assigned, StateOf
<1>5. Assigned(s, "prec", v, StateOf(format, args, at, flags, width, v, bits, out))
  BY DEF Assigned, StateOf
<1>6. Assigned(s, "bits", v, StateOf(format, args, at, flags, width, prec, v, out))
  BY DEF Assigned, StateOf
<1>7. Assigned(s, "out", v, StateOf(format, args, at, flags, width, prec, bits, v))
  BY DEF Assigned, StateOf
<1> QED
  BY <1>1, <1>2, <1>3, <1>4, <1>5, <1>6, <1>7

\* The fields one after the other.
LEMMA InTurn ==
    ASSUME NEW s, NEW u, NEW v, NEW w
    PROVE  /\ [s EXCEPT !.flags = u, !.at = v] = [[s EXCEPT !.flags = u] EXCEPT !.at = v]
           /\ [s EXCEPT !.width = u, !.prec = v, !.bits = w]
                  = [[[s EXCEPT !.width = u] EXCEPT !.prec = v] EXCEPT !.bits = w]
OBVIOUS

\* The interpreter's state in the format "%s", with nothing said about how to print it.
Interpreting(at, args, out) ==
    StateOf(<<"%", "s">>, args, at, {}, 0, 0, INT_BITS, out)

LEMMA Reads ==
    ASSUME NEW at, NEW args, NEW out
    PROVE  LET s == Interpreting(at, args, out) IN
           /\ s.format = <<"%", "s">> /\ Len(s.format) = 2
           /\ s.at = at /\ s.args = args /\ s.flags = {} /\ s.width = 0 /\ s.out = out
BY DEF Interpreting, StateOf

\* No padding for a width of 0.
LEMMA NoPadding ==
    ASSUME NEW S, NEW text \in Seq(S)
    PROVE  Padded(text, 0, {}) = text
<1> DEFINE spaces == Times(" ", 0 - Len(text))
           none == [k \in 1 .. 0 |-> " "]
<1>1. 1 .. (0 - Len(text)) = 1 .. 0
  <2>1. Len(text) \in Nat
    OBVIOUS
  <2> QED
    BY <2>1
<1>2. spaces = none
  BY <1>1 DEF Times
<1>3. none \in [1 .. 0 -> S] /\ 0 \in Nat
  OBVIOUS
<1> HIDE DEF none
<1>4. none \in Seq(S) /\ Len(none) = 0
  BY <1>3, Words
<1>5. none = <<>>
  BY <1>4, EmptySeq
<1> HIDE DEF spaces
<1>6. <<>> \o text = text
  BY ConcatEmptySeq
<1> QED
  BY <1>2, <1>5, <1>6 DEF Padded, spaces

\* Nothing stands between the % and the s.
LEMMA NothingSaid ==
    ASSUME NEW args, NEW out
    PROVE  LET s == Interpreting(2, args, out) IN
           EvalLength(EvalPrecision(EvalWidth(EvalFlags(s)))) = s
<1> DEFINE s == Interpreting(2, args, out)
<1>1. s.format = <<"%", "s">> /\ s.at = 2 /\ s.flags = {} /\ Len(s.format) = 2
  BY Reads
<1>2. Cur(s) = "s" /\ s.format[2] = "s"
  <2> HIDE DEF s
  <2> QED
    BY <1>1 DEF Cur
<1>3. DOMAIN FlagOf = {"0", "-", "+", " ", "#"}
  BY DEF FlagOf
<1>4. RunEnd(s, DOMAIN FlagOf) = 2
  <2> DEFINE ends(j) == /\ \A k \in 2 .. j - 1 : s.format[k] \in DOMAIN FlagOf
                        /\ j <= 2 => s.format[j] \notin DOMAIN FlagOf
  <2>1. ends(2)
    <3>1. s.format[2] \notin DOMAIN FlagOf
      BY <1>2, <1>3
    <3> HIDE DEF s
    <3> QED
      BY <3>1
  <2>2. \A j \in 2 .. 2 + 1 : ends(j) => j = 2
    <3> TAKE j \in 2 .. 2 + 1
    <3>1. s.format[2] \notin DOMAIN FlagOf
      BY <1>2, <1>3
    <3>2. j # 2 => 2 \in 2 .. j - 1
      OBVIOUS
    <3> HIDE DEF s
    <3> QED
      BY <3>1, <3>2
  <2>3. RunEnd(s, DOMAIN FlagOf) = CHOOSE j \in 2 .. 2 + 1 : ends(j)
    BY <1>1 DEF RunEnd
  <2> HIDE DEF ends, s
  <2> QED
    BY <2>1, <2>2, <2>3
<1>5. EvalFlags(s) = s
  <2>1. EvalFlags(s) = [s EXCEPT !.flags = {FlagOf[s.format[k]] : k \in s.at .. 2 - 1}, !.at = 2]
    BY <1>4 DEF EvalFlags
  <2>2. {FlagOf[s.format[k]] : k \in s.at .. 2 - 1} = {}
    BY <1>1
  <2>3. [s EXCEPT !.flags = {}, !.at = 2] = s
    <3>1. Assigned(s, "flags", {}, s) /\ Assigned(s, "at", 2, s)
      BY StateAssigned DEF Interpreting
    <3> HIDE DEF s
    <3> QED
      BY <3>1, InTurn DEF Assigned
  <2> HIDE DEF s
  <2> QED
    BY <2>1, <2>2, <2>3
<1>6. DigitChars = {"0", "1", "2", "3", "4", "5", "6", "7", "8", "9"}
  <2>1. DOMAIN Digits = 1 .. 10
    BY DEF Digits
  <2>2. DigitChars = {Digits[k] : k \in 1 .. 10}
    BY <2>1 DEF DigitChars, ToSet
  <2>3. /\ Digits[1] = "0" /\ Digits[2] = "1" /\ Digits[3] = "2" /\ Digits[4] = "3"
        /\ Digits[5] = "4" /\ Digits[6] = "5" /\ Digits[7] = "6" /\ Digits[8] = "7"
        /\ Digits[9] = "8" /\ Digits[10] = "9"
    BY DEF Digits
  <2> QED
    BY <2>2, <2>3
<1> HIDE DEF s
<1>7. EvalWidth(s) = s
  BY <1>2, <1>6 DEF EvalWidth
<1>8. EvalPrecision(s) = s
  BY <1>2 DEF EvalPrecision
<1>9. EvalLength(s) = s
  BY <1>2 DEF EvalLength
<1> QED
  BY <1>5, <1>7, <1>8, <1>9 DEF s

\* The format "%s" puts out the string.
LEMMA StringPrinted ==
    ASSUME NEW S, NEW text \in Seq(S)
    PROVE  _vsnprintf(<<"%", "s">>, <<text>>) = text
<1> DEFINE start == Interpreting(1, <<text>>, <<>>)
           done == Interpreting(3, <<>>, text)
           s == Interpreting(2, <<text>>, <<>>)
<1>1. Step(start) = done
  <2>1. Cur(start) = "%"
    <3>1. start.format = <<"%", "s">> /\ Len(start.format) = 2 /\ start.at = 1
      BY Reads
    <3> HIDE DEF start
    <3> QED
      BY <3>1 DEF Cur
  <2>2. [Skip(start) EXCEPT !.width = 0, !.prec = 0, !.bits = INT_BITS] = s
    <3>1. Skip(start) = s
      <4>1. start.at + 1 = 2 /\ Skip(start) = [start EXCEPT !.at = start.at + 1]
        BY Reads DEF Skip
      <4>2. Assigned(start, "at", 2, s)
        BY StateAssigned DEF Interpreting
      <4> HIDE DEF start, s
      <4> QED
        BY <4>1, <4>2 DEF Assigned
    <3>2. /\ Assigned(s, "width", 0, s) /\ Assigned(s, "prec", 0, s)
          /\ Assigned(s, "bits", INT_BITS, s)
      BY StateAssigned DEF Interpreting
    <3> HIDE DEF s, start
    <3> QED
      BY <3>1, <3>2, InTurn DEF Assigned
  <2>3. EvalLength(EvalPrecision(EvalWidth(EvalFlags(s)))) = s
    BY NothingSaid
  <2>5. Cur(s) = "s" /\ Head(s.args) = text /\ Tail(s.args) = <<>> /\ s.flags = {} /\ s.width = 0
    <3>1. /\ s.format = <<"%", "s">> /\ Len(s.format) = 2 /\ s.at = 2 /\ s.args = <<text>>
          /\ s.flags = {} /\ s.width = 0
      BY Reads
    <3> HIDE DEF s
    <3> QED
      BY <3>1 DEF Cur
  <2> DEFINE rest == Interpreting(2, <<>>, <<>>)
  <2>8. [s EXCEPT !.args = <<>>] = rest
    <3>1. Assigned(s, "args", <<>>, rest)
      BY StateAssigned DEF Interpreting
    <3> HIDE DEF s, rest
    <3> QED
      BY <3>1 DEF Assigned
  <2>9. <<>> \o text = text
    BY ConcatEmptySeq
  <2>10. Emit(rest, text) = done
    <3>1. rest.at + 1 = 3 /\ rest.out \o text = text
      BY <2>9, Reads
    <3>2. Skip(rest) = Interpreting(3, <<>>, <<>>)
      <4>1. Skip(rest) = [rest EXCEPT !.at = 3]
        <5> HIDE DEF rest
        <5> QED
          BY <3>1 DEF Skip
      <4>2. Assigned(rest, "at", 3, Interpreting(3, <<>>, <<>>))
        BY StateAssigned DEF Interpreting
      <4> HIDE DEF rest
      <4> QED
        BY <4>1, <4>2 DEF Assigned
    <3> DEFINE next == Interpreting(3, <<>>, <<>>)
    <3>3. next.out = <<>> /\ Assigned(next, "out", text, done)
      <4>1. next.out = <<>>
        BY Reads
      <4>2. Assigned(next, "out", text, done)
        BY StateAssigned DEF Interpreting
      <4> QED
        BY <4>1, <4>2
    <3> HIDE DEF next, done, rest
    <3>4. Emit(rest, text) = [next EXCEPT !.out = next.out \o text]
      BY <3>2 DEF Emit, next
    <3> QED
      BY <2>9, <3>3, <3>4 DEF Assigned
  <2> HIDE DEF s, start, done, rest
  <2>4. Step(start) = Convert(s)
    BY <2>1, <2>2, <2>3 DEF Step, NUL
  <2>6. Convert(s) = Emit(rest, StringText(s, text))
    BY <2>5, <2>8 DEF Convert
  <2>7. StringText(s, text) = text
    BY <2>5, NoPadding DEF StringText
  <2> QED
    BY <2>4, <2>6, <2>7, <2>10
<1>2. Step(done) = done
  <2>1. Cur(done) = NUL
    <3>1. Len(done.format) = 2 /\ done.at = 3
      BY Reads
    <3> HIDE DEF done
    <3> QED
      BY <3>1 DEF Cur
  <2> HIDE DEF done
  <2> QED
    BY <2>1 DEF Step, NUL
<1> DEFINE Loops(g) == g = [n \in 0 .. 2 |-> IF n = 0 THEN start ELSE Step(g[n - 1])]
<1>3. _vsnprintf(<<"%", "s">>, <<text>>) = (CHOOSE g : Loops(g))[2].out
  <2>1. Len(<<"%", "s">>) = 2
    OBVIOUS
  <2> QED
    BY <2>1 DEF _vsnprintf, Interpreting, StateOf
<1>4. done.out = text
  BY Reads
<1> HIDE DEF start, done
<1>5. Loops([n \in 0 .. 2 |-> IF n = 0 THEN start ELSE done])
  <2> DEFINE g == [n \in 0 .. 2 |-> IF n = 0 THEN start ELSE done]
  <2>1. ASSUME NEW n \in 0 .. 2, n # 0 PROVE g[n] = Step(g[n - 1])
    BY <1>1, <1>2, <2>1
  <2>2. g[0] = start
    OBVIOUS
  <2>3. g = [n \in 0 .. 2 |-> g[n]]
    OBVIOUS
  <2> HIDE DEF g
  <2>4. Loops(g)
    BY <2>1, <2>2, <2>3
  <2> QED
    BY <2>4 DEF g
<1>6. ASSUME NEW g, Loops(g) PROVE g[2] = done
  <2>1. g[0] = start /\ g[1] = Step(g[0]) /\ g[2] = Step(g[1])
    BY <1>6
  <2> QED
    BY <1>1, <1>2, <2>1
<1> HIDE DEF Loops
<1>7. Loops(CHOOSE g : Loops(g))
  BY <1>5
<1> QED
  BY <1>3, <1>4, <1>6, <1>7

\* The buffer when the first n characters of out have gone through _out_buffer.
Written(buffer, count, out, n) ==
    [i \in DOMAIN buffer |-> IF i < n /\ i < count THEN out[i + 1] ELSE buffer[i]]

LEMMA CharacterWritten ==
    ASSUME NEW m \in Nat, NEW V, NEW buffer \in [0 .. m -> V], NEW count \in 0 .. m, NEW out,
           NEW n \in Nat
    PROVE  _out_buffer(Written(buffer, count, out, n), out[n + 1], n, count)
               = Written(buffer, count, out, n + 1)
<1> DEFINE before == Written(buffer, count, out, n)
           after == Written(buffer, count, out, n + 1)
<1>1. CASE n < count
  <2>1. n \in 0 .. m
    BY <1>1
  <2>2. _out_buffer(before, out[n + 1], n, count) = [before EXCEPT ![n] = out[n + 1]]
    BY <1>1 DEF _out_buffer
  <2>3. [before EXCEPT ![n] = out[n + 1]] = [i \in 0 .. m |-> IF i = n THEN out[n + 1] ELSE before[i]]
    BY <2>1 DEF Written
  <2>4. ASSUME NEW i \in 0 .. m PROVE (IF i = n THEN out[n + 1] ELSE before[i]) = after[i]
    <3>1. CASE i = n
      BY <1>1, <3>1 DEF Written
    <3>2. CASE i # n
      <4>1. i < n <=> i < n + 1
        BY <3>2
      <4> QED
        BY <3>2, <4>1 DEF Written
    <3> QED
      BY <3>1, <3>2
  <2>5. after = [i \in 0 .. m |-> after[i]]
    BY DEF Written
  <2> HIDE DEF before, after
  <2> QED
    BY <2>2, <2>3, <2>4, <2>5 DEF before, after
<1>2. CASE ~(n < count)
  <2>1. \A i \in 0 .. m : i < n /\ i < count <=> i < n + 1 /\ i < count
    BY <1>2
  <2>2. _out_buffer(before, out[n + 1], n, count) = before
    BY <1>2 DEF _out_buffer
  <2>3. before = after
    BY <2>1 DEF Written
  <2> QED
    BY <2>2, <2>3
<1> QED
  BY <1>1, <1>2

\* What should be in the buffer.
Holding(after, m, buffer, count, out) ==
    LET shown == IF Len(out) < count THEN Len(out) ELSE count - 1 IN
    \A i \in 0 .. m : after[i] = IF i < shown THEN out[i + 1]
                                 ELSE IF i = shown /\ count > 0 THEN NUL ELSE buffer[i]

\* Whatever a format puts out: the first count - 1 characters of it, the NUL and no more.
LEMMA Bounded ==
    ASSUME NEW m \in 0 .. 4, NEW V, NEW buffer \in [0 .. m -> V], NEW count \in 0 .. m,
           NEW format, NEW args, NEW S, _vsnprintf(format, args) \in Seq(S)
    PROVE  Holding(snprintf(buffer, count, format, args), m, buffer, count,
                   _vsnprintf(format, args))
<1> DEFINE out == _vsnprintf(format, args)
           idx == Len(out)
           shown == IF idx < count THEN idx ELSE count - 1
           Loops(g) == g = [n \in 0 .. idx |->
                                IF n = 0 THEN buffer ELSE _out_buffer(g[n - 1], out[n], n - 1, count)]
           last == IF idx < count THEN idx ELSE (count - 1) % 2^LONG_BITS
           all == [n \in 0 .. idx |-> Written(buffer, count, out, n)]
           T == {n \in 0 .. idx : \A g : Loops(g) => g[n] = Written(buffer, count, out, n)}
           filled == Written(buffer, count, out, idx)
<1>1. idx \in Nat /\ m \in Nat /\ count \in Nat
  OBVIOUS
<1>2. snprintf(buffer, count, format, args)
          = _out_buffer((CHOOSE g : Loops(g))[idx], NUL, last, count)
  BY DEF snprintf
<1> HIDE DEF out
<1>3. Written(buffer, count, out, 0) = buffer
  <2>1. \A i \in 0 .. m : ~(i < 0)
    OBVIOUS
  <2>2. Written(buffer, count, out, 0) = [i \in 0 .. m |-> buffer[i]]
    BY <2>1 DEF Written
  <2> QED
    BY <2>2
<1> HIDE DEF idx
<1>4. ASSUME NEW n \in 1 .. idx
      PROVE  _out_buffer(Written(buffer, count, out, n - 1), out[n], n - 1, count)
                 = Written(buffer, count, out, n)
  <2>1. n - 1 \in Nat /\ (n - 1) + 1 = n
    OBVIOUS
  <2>2. _out_buffer(Written(buffer, count, out, n - 1), out[(n - 1) + 1], n - 1, count)
            = Written(buffer, count, out, (n - 1) + 1)
    <3>1. \A k \in Nat : _out_buffer(Written(buffer, count, out, k), out[k + 1], k, count)
                             = Written(buffer, count, out, k + 1)
      BY <1>1, CharacterWritten
    <3> QED
      BY <2>1, <3>1
  <2> QED
    BY <2>1, <2>2
<1>5. Loops(all)
  <2>1. ASSUME NEW n \in 0 .. idx, n # 0
        PROVE  all[n] = _out_buffer(all[n - 1], out[n], n - 1, count)
    <3>1. n \in 1 .. idx /\ n - 1 \in 0 .. idx
      BY <1>1, <2>1
    <3> QED
      BY <1>4, <3>1
  <2>2. 0 \in 0 .. idx => all[0] = buffer
    BY <1>3
  <2>3. all = [n \in 0 .. idx |-> all[n]]
    OBVIOUS
  <2> HIDE DEF all
  <2> QED
    BY <2>1, <2>2, <2>3
<1>6. ASSUME NEW g, Loops(g) PROVE g[idx] = filled
  <2> DEFINE U == {n \in 0 .. idx : g[n] = Written(buffer, count, out, n)}
  <2>1. 0 \in U
    BY <1>1, <1>3, <1>6
  <2>2. ASSUME NEW n \in 0 .. idx - 1, n \in U PROVE n + 1 \in U
    <3>1. n + 1 \in 1 .. idx /\ n + 1 \in 0 .. idx /\ (n + 1) - 1 = n /\ n + 1 # 0
      BY <1>1
    <3>2. g[n + 1] = _out_buffer(g[(n + 1) - 1], out[n + 1], (n + 1) - 1, count)
      BY <1>6, <3>1
    <3>3. _out_buffer(Written(buffer, count, out, (n + 1) - 1), out[n + 1], (n + 1) - 1, count)
              = Written(buffer, count, out, n + 1)
      BY <1>4, <3>1
    <3> QED
      BY <2>2, <3>1, <3>2, <3>3
  <2> HIDE DEF U
  <2>3. \A n \in 0 .. idx : n \in U
    BY <1>1, <2>1, <2>2, Induct
  <2> QED
    BY <1>1, <2>3 DEF U
<1> HIDE DEF Loops
<1>7. (CHOOSE g : Loops(g))[idx] = filled
  BY <1>5, <1>6
<1>8. snprintf(buffer, count, format, args) = _out_buffer(filled, NUL, last, count)
  BY <1>2, <1>7
<1>9. DOMAIN filled = 0 .. m
      /\ \A i \in 0 .. m : filled[i] = IF i < idx /\ i < count THEN out[i + 1] ELSE buffer[i]
  BY DEF Written
<1> HIDE DEF filled
<1>10. count > 0 => last = shown /\ shown \in 0 .. m /\ shown < count
  <2> SUFFICES ASSUME count > 0 PROVE last = shown /\ shown \in 0 .. m /\ shown < count
    OBVIOUS
  <2>1. count - 1 \in 0 .. 2^LONG_BITS - 1
    BY PrintfAssumption
  <2>2. (count - 1) % 2^LONG_BITS = count - 1
    BY <2>1, PrintfAssumption
  <2> QED
    BY <1>1, <2>2
<1>11. count = 0 => ~(last < count)
  <2> SUFFICES ASSUME count = 0 PROVE ~(last < count)
    OBVIOUS
  <2>1. last = (count - 1) % 2^LONG_BITS
    BY <1>1
  <2> QED
    BY <2>1, PrintfAssumption
<1> HIDE DEF last
<1>12. CASE count > 0
  <2>1. snprintf(buffer, count, format, args) = [filled EXCEPT ![shown] = NUL]
    BY <1>8, <1>10, <1>12 DEF _out_buffer
  <2>2. \A i \in 0 .. m : i # shown => (i < idx /\ i < count <=> i < shown)
    BY <1>1, <1>12
  <2> HIDE DEF shown
  <2>3. ASSUME NEW i \in 0 .. m
        PROVE  [filled EXCEPT ![shown] = NUL][i]
                   = IF i < shown THEN out[i + 1]
                     ELSE IF i = shown /\ count > 0 THEN NUL ELSE buffer[i]
    <3>1. CASE i = shown
      BY <1>9, <1>12, <3>1
    <3>2. CASE i # shown
      <4>1. [filled EXCEPT ![shown] = NUL][i] = filled[i]
        BY <1>9, <3>2
      <4> QED
        BY <1>9, <2>2, <3>2, <4>1
    <3> QED
      BY <3>1, <3>2
  <2> QED
    BY <2>1, <2>3 DEF Holding, shown, out, idx
<1>13. CASE count = 0
  <2>1. snprintf(buffer, count, format, args) = filled
    BY <1>8, <1>11, <1>13 DEF _out_buffer
  <2>2. shown < 0
    BY <1>1, <1>13
  <2> QED
    BY <1>9, <1>13, <2>1, <2>2 DEF Holding, shown, out, idx
<1> QED
  BY <1>1, <1>12, <1>13

\* snprintf_ of "%s" never writes past the count characters it was given.
THEOREM SnprintfStaysInside == RoutinesSpec => []SnprintfBounded
<1>1. RoutinesInit => SnprintfBounded
  BY DEF RoutinesInit, SnprintfBounded, NoCall
<1>2. SnprintfBounded /\ [RoutinesNext]_<<memoryVars, ring, call>> => SnprintfBounded'
  <2> SUFFICES ASSUME SnprintfBounded, [RoutinesNext]_<<memoryVars, ring, call>>,
                      call'.routine = "snprintf"
               PROVE  SnprintfBounded'
    BY DEF SnprintfBounded
  <2>1. CASE UNCHANGED call
    BY <2>1 DEF SnprintfBounded
  <2>2. ASSUME NEW count \in DOMAIN Old, NEW text \in Texts, CallSnprintf(count, text)
        PROVE  SnprintfBounded'
    <3> DEFINE f == <<"%", "s">>
               shown == IF Len(text) < count THEN Len(text) ELSE count - 1
               buffer == snprintf(Old, count, f, <<text>>)
    <3>1. call'.count = count /\ call'.text = text /\ call'.buffer = buffer
      BY <2>2 DEF CallSnprintf
    <3>2. Old \in [0 .. 4 -> {"old"}] /\ count \in 0 .. 4
      BY DEF Old
    <3>3. text \in Seq({"x", "y", "z"})
      <4> DEFINE S == {"x", "y", "z"}
      <4>1. "x" \in S /\ "y" \in S /\ "z" \in S
        OBVIOUS
      <4> HIDE DEF S
      <4>2. <<>> \in Seq(S) /\ <<"x">> \in Seq(S) /\ <<"x", "y">> \in Seq(S)
            /\ <<"x", "y", "z">> \in Seq(S)
        BY <4>1
      <4> QED
        BY <4>2 DEF S, Texts
    <3>4. _vsnprintf(f, <<text>>) = text
      BY <3>3, StringPrinted
    <3> HIDE DEF f
    <3>5. \A i \in 0 .. 4 :
              buffer[i] = IF i < shown THEN text[i + 1]
                          ELSE IF i = shown /\ count > 0 THEN NUL ELSE Old[i]
      <4>1. 4 \in 0 .. 4 /\ _vsnprintf(f, <<text>>) \in Seq({"x", "y", "z"})
        BY <3>3, <3>4
      <4>2. Holding(buffer, 4, Old, count, _vsnprintf(f, <<text>>))
        BY <3>2, <4>1, Bounded
      <4> QED
        BY <3>4, <4>2 DEF Holding
    <3> HIDE DEF buffer, shown
    <3>6. \A i \in DOMAIN Old :
              buffer[i] = CASE i < shown                   -> text[i + 1]
                            [] i = shown /\ count > 0      -> NUL
                            [] OTHER                       -> Old[i]
      <4> TAKE i \in DOMAIN Old
      <4>1. i \in 0 .. 4 /\ shown \in Int
        BY <3>2, <3>3 DEF shown
      <4>2. CASE i < shown
        <5>1. ~(i = shown)
          BY <4>1, <4>2
        <5> QED
          BY <3>5, <4>1, <4>2, <5>1
      <4>3. CASE ~(i < shown) /\ i = shown /\ count > 0
        BY <3>5, <4>1, <4>3
      <4>4. CASE ~(i < shown) /\ ~(i = shown /\ count > 0)
        BY <3>5, <4>1, <4>4
      <4> QED
        BY <4>2, <4>3, <4>4
    <3> QED
      BY <3>1, <3>6 DEF SnprintfBounded, shown
  <2> QED
    BY <2>1, <2>2, Calls
<1> QED
  BY <1>1, <1>2, PTL DEF RoutinesSpec

-----------------------------------------------------------------------------
(* The division.                                                           *)

\* A loop that comes nearer to its end with every turn is a function of what it starts with.
Looping(f, V, ended, turn) ==
    \A v \in V : f[v] = IF v \in ended THEN v ELSE f[turn[v]]

LEMMA LoopEnds ==
    ASSUME NEW V, NEW ended \in SUBSET V, NEW turn \in [V -> V], NEW N \in Nat,
           NEW rank \in [V -> 0 .. N], \A v \in V \ ended : rank[turn[v]] < rank[v]
    PROVE  \E f \in [V -> V] : Looping(f, V, ended, turn)
<1> DEFINE W == [V -> V]
           base == [v \in V |-> v]
           more(f) == [v \in V |-> IF v \in ended THEN v ELSE f[turn[v]]]
           body == [n \in 0 .. N + 2 |-> [f \in W |-> more(f)]]
<1>1. base \in W
  OBVIOUS
<1>2. \A f \in W : more(f) \in W
  OBVIOUS
<1>3. body \in [0 .. N + 2 -> [W -> W]]
  <2> HIDE DEF W, more
  <2> QED
    BY <1>2
<1>4. PICK g \in [0 .. N + 2 -> W] : Runs(g, 0, N + 2, base, body)
  <2> HIDE DEF W, base, body
  <2>1. 0 \in Nat /\ N + 2 \in Nat /\ 0 <= N + 2
    OBVIOUS
  <2> QED
    BY <1>1, <1>3, <2>1, Iterated
<1>5. ASSUME NEW n \in 0 .. N + 1, NEW v \in V
      PROVE  g[n + 1][v] = IF v \in ended THEN v ELSE g[n][turn[v]]
  <2>1. n + 1 \in 0 .. N + 2 /\ n + 1 # 0 /\ (n + 1) - 1 = n /\ n \in 0 .. N + 2
    OBVIOUS
  <2>2. g[n + 1] = body[n + 1][g[(n + 1) - 1]]
    <3> HIDE DEF body, base, W
    <3> QED
      BY <1>4, <2>1 DEF Runs
  <2>3. g[n] \in W
    <3> HIDE DEF W
    <3> QED
      BY <1>4, <2>1
  <2>4. g[n + 1] = more(g[n])
    <3> HIDE DEF W, more
    <3> QED
      BY <2>1, <2>2, <2>3
  <2> QED
    BY <2>4
<1> DEFINE T == {n \in 0 .. N + 1 : \A v \in V : rank[v] < n => g[n + 1][v] = g[n][v]}
<1>6. \A n \in 0 .. N + 1 : n \in T
  <2>1. 0 \in T
    <3>1. \A v \in V : ~(rank[v] < 0)
      OBVIOUS
    <3> QED
      BY <3>1
  <2>2. ASSUME NEW n \in 0 .. (N + 1) - 1, n \in T PROVE n + 1 \in T
    <3>1. n + 1 \in 0 .. N + 1 /\ n \in 0 .. N + 1
      OBVIOUS
    <3>2. ASSUME NEW v \in V, rank[v] < n + 1 PROVE g[(n + 1) + 1][v] = g[n + 1][v]
      <4>1. g[(n + 1) + 1][v] = IF v \in ended THEN v ELSE g[n + 1][turn[v]]
        BY <1>5, <3>1
      <4>2. g[n + 1][v] = IF v \in ended THEN v ELSE g[n][turn[v]]
        BY <1>5, <3>1
      <4>3. v \notin ended => turn[v] \in V /\ rank[turn[v]] < n
        <5>1. v \notin ended => rank[turn[v]] < rank[v] /\ turn[v] \in V
          OBVIOUS
        <5>2. rank[v] \in Int /\ \A w \in V : rank[w] \in Int
          OBVIOUS
        <5> QED
          BY <3>2, <5>1, <5>2
      <4>4. v \notin ended => g[n + 1][turn[v]] = g[n][turn[v]]
        BY <2>2, <4>3
      <4> QED
        BY <4>1, <4>2, <4>4
    <3> QED
      BY <3>1, <3>2
  <2> HIDE DEF T
  <2>3. 0 \in Nat /\ N + 1 \in Nat
    OBVIOUS
  <2> QED
    BY <2>1, <2>2, <2>3, Induct
<1>7. N + 1 \in T
  <2> HIDE DEF T
  <2> QED
    BY <1>6
<1>8. \A v \in V : g[(N + 1) + 1][v] = g[N + 1][v]
  <2>1. \A v \in V : rank[v] < N + 1
    OBVIOUS
  <2> QED
    BY <1>7, <2>1
<1>9. ASSUME NEW v \in V PROVE g[N + 1][v] = IF v \in ended THEN v ELSE g[N + 1][turn[v]]
  <2>1. N + 1 \in 0 .. N + 1
    OBVIOUS
  <2> QED
    BY <1>5, <1>8, <2>1
<1>10. g[N + 1] \in W
  <2> HIDE DEF W
  <2>1. N + 1 \in 0 .. N + 2
    OBVIOUS
  <2> QED
    BY <1>4, <2>1
<1> QED
  BY <1>9, <1>10 DEF Looping

\* The locals, shifted to the left.
Shifted(l) == [l EXCEPT !.den = (@ * 2) % 2^WIDTH, !.qbit = (@ * 2) % 2^WIDTH]

LEMMA PowersPositive == \A k \in 0 .. WIDTH - 1 : 2^k > 0
<1> DEFINE T == {k \in 0 .. WIDTH - 1 : 2^k > 0}
<1>1. 0 \in T
  BY DivisionAssumption, PowersOfTwo
<1>2. \A k \in 0 .. (WIDTH - 1) - 1 : k \in T => k + 1 \in T
  <2> TAKE k \in 0 .. (WIDTH - 1) - 1
  <2>1. k \in 0 .. WIDTH - 1 /\ k + 1 \in 0 .. WIDTH - 1
    BY DivisionAssumption
  <2> QED
    BY <2>1, PowersOfTwo
<1> HIDE DEF T
<1>3. 0 \in Nat /\ WIDTH - 1 \in Nat
  BY DivisionAssumption
<1>4. \A k \in 0 .. WIDTH - 1 : k \in T
  BY <1>1, <1>2, <1>3, Induct
<1> QED
  BY <1>4 DEF T

LEMMA WordFacts ==
    /\ 2^WIDTH \in Nat /\ 2^(WIDTH - 1) \in Nat /\ 2^WIDTH = 2 * 2^(WIDTH - 1)
    /\ 0 \in Word /\ Word \subseteq Nat
<1>1. WIDTH - 1 \in 0 .. WIDTH - 1 /\ (WIDTH - 1) + 1 = WIDTH
  BY DivisionAssumption
<1>2. 2^(WIDTH - 1) \in Nat /\ 2^WIDTH = 2 * 2^(WIDTH - 1)
  BY <1>1, PowersOfTwo
<1>3. 2^(WIDTH - 1) > 0
  BY <1>1, PowersPositive
<1> QED
  BY <1>2, <1>3 DEF Word

\* Two of the locals assigned.
LEMMA TwoFields ==
    ASSUME NEW l, NEW a, NEW b, NEW c, NEW e, NEW x, NEW y,
           l = [num |-> a, den |-> b, quot |-> c, qbit |-> e]
    PROVE  [l EXCEPT !.den = x, !.qbit = y] = [num |-> a, den |-> x, quot |-> c, qbit |-> y]
<1>1. [l EXCEPT !.den = x] = [num |-> a, den |-> x, quot |-> c, qbit |-> e]
  OBVIOUS
<1> DEFINE m == [num |-> a, den |-> x, quot |-> c, qbit |-> e]
<1>2. [m EXCEPT !.qbit = y] = [num |-> a, den |-> x, quot |-> c, qbit |-> y]
  OBVIOUS
<1>3. [l EXCEPT !.den = x, !.qbit = y] = [[l EXCEPT !.den = x] EXCEPT !.qbit = y]
  <2>1. ASSUME NEW k PROVE [k EXCEPT !.den = x, !.qbit = y] = [[k EXCEPT !.den = x] EXCEPT !.qbit = y]
    OBVIOUS
  <2> QED
    BY <2>1
<1> QED
  BY <1>1, <1>2, <1>3

LEMMA LocalsChanged ==
    ASSUME NEW l \in Locals
    PROVE  /\ Shifted(l) \in Locals
           /\ Shifted(l).num = l.num /\ Shifted(l).quot = l.quot
           /\ Shifted(l).den = (l.den * 2) % 2^WIDTH
           /\ Shifted(l).qbit = (l.qbit * 2) % 2^WIDTH
           /\ Turn(l) \in Locals
           /\ Turn(l).den = l.den \div 2 /\ Turn(l).qbit = l.qbit \div 2
           /\ Turn(l).num = IF Fits(l) THEN l.num - l.den ELSE l.num
           /\ Turn(l).quot = IF Fits(l) THEN (l.quot + l.qbit) % 2^WIDTH ELSE l.quot
<1> DEFINE M == 2^WIDTH
<1>0. M \in Nat /\ M > 0
  BY WordFacts DEF Word
<1>1. /\ l.num \in 0 .. M - 1 /\ l.den \in 0 .. M - 1
      /\ l.quot \in 0 .. M - 1 /\ l.qbit \in 0 .. M - 1
  BY DEF Locals, Word
<1>2. /\ DOMAIN l = {"num", "den", "quot", "qbit"}
      /\ l = [num |-> l.num, den |-> l.den, quot |-> l.quot, qbit |-> l.qbit]
  BY DEF Locals
<1>3. /\ (l.den * 2) % M \in 0 .. M - 1 /\ (l.qbit * 2) % M \in 0 .. M - 1
      /\ (l.quot + l.qbit) % M \in 0 .. M - 1
  BY <1>0, <1>1
<1>4. l.den \div 2 \in 0 .. M - 1 /\ l.qbit \div 2 \in 0 .. M - 1
  BY <1>0, <1>1
<1>5. Fits(l) => l.num - l.den \in 0 .. M - 1
  BY <1>0, <1>1 DEF Fits
<1>6. Word = 0 .. M - 1
  BY DEF Word
<1> DEFINE s == Shifted(l)
           u == Subtract(l)
           t == Turn(l)
<1>7. s = [num |-> l.num, den |-> (l.den * 2) % M, quot |-> l.quot, qbit |-> (l.qbit * 2) % M]
  <2>1. s = [l EXCEPT !.den = (l.den * 2) % M, !.qbit = (l.qbit * 2) % M]
    BY DEF Shifted
  <2> HIDE DEF M, s
  <2> QED
    BY <1>2, <2>1, TwoFields
<1>8. /\ u = [num |-> u.num, den |-> l.den, quot |-> u.quot, qbit |-> l.qbit]
      /\ u.num = IF Fits(l) THEN l.num - l.den ELSE l.num
      /\ u.quot = IF Fits(l) THEN (l.quot + l.qbit) % M ELSE l.quot
      /\ u.den = l.den /\ u.qbit = l.qbit
      /\ DOMAIN u = {"num", "den", "quot", "qbit"}
  <2>1. CASE Fits(l)
    BY <1>2, <2>1 DEF Subtract
  <2>2. CASE ~Fits(l)
    BY <1>2, <2>2 DEF Subtract
  <2> QED
    BY <2>1, <2>2
<1> HIDE DEF u, M
<1>9. t = [num |-> u.num, den |-> l.den \div 2, quot |-> u.quot, qbit |-> l.qbit \div 2]
  <2>1. t = [u EXCEPT !.den = u.den \div 2, !.qbit = u.qbit \div 2]
    BY DEF Turn, u
  <2> HIDE DEF t
  <2> QED
    BY <1>8, <2>1, TwoFields
<1>10. u.num \in 0 .. M - 1 /\ u.quot \in 0 .. M - 1
  BY <1>1, <1>3, <1>5, <1>8
<1>11. s \in Locals
  BY <1>1, <1>3, <1>6, <1>7 DEF Locals
<1>12. t \in Locals
  BY <1>4, <1>6, <1>9, <1>10 DEF Locals
<1> QED
  BY <1>7, <1>8, <1>9, <1>11, <1>12 DEF M

\* There is one quotient with a remainder less than the divisor.
LEMMA Unique ==
    ASSUME NEW n \in Nat, NEW d \in Nat, d > 0, NEW q \in Nat, NEW r \in Nat, r < d,
           n = (q * d) + r
    PROVE  n \div d = q /\ n % d = r
<1> DEFINE p == n \div d
           s == n % d
<1>1. n = (d * p) + s /\ s \in 0 .. d - 1 /\ p \in Nat
  OBVIOUS
<1> HIDE DEF p, s
<1>2. d * (p - q) = r - s /\ r - s < d /\ r - s > -d
  BY <1>1
<1>3. p - q = 0
  <2>1. p - q \in Int
    BY <1>1
  <2>2. \A x \in Int : x >= 1 => d * x >= d
    OBVIOUS
  <2>3. \A x \in Int : x <= -1 => d * x <= -d
    OBVIOUS
  <2>4. ~(p - q >= 1) /\ ~(p - q <= -1)
    BY <1>1, <1>2, <2>1, <2>2, <2>3
  <2> QED
    BY <2>1, <2>4
<1>4. p = q
  BY <1>1, <1>3
<1>5. d * (p - q) = 0
  BY <1>3
<1>6. s = r
  BY <1>1, <1>2, <1>5
<1> QED
  BY <1>4, <1>6 DEF p, s

\* The first loop ends once the sign bit is set, which it never is for a divisor of 0.
LEMMA JustifyLoops ==
    \A l \in Locals : Justify[l] = IF Negative(l.den) THEN l ELSE Justify[Shifted(l)]
<1> DEFINE half == 2^(WIDTH - 1)
           Loops(h) == h = [l \in Locals |-> IF Negative(l.den) THEN l ELSE h[Shifted(l)]]
           ended == {l \in Locals : Negative(l.den) \/ l.den = 0}
           turn == [l \in Locals |-> Shifted(l)]
           rank == [l \in Locals |-> IF l \in ended THEN 0 ELSE half - l.den]
<1>1. half \in Nat /\ half > 0 /\ 2^WIDTH = 2 * half
  BY WordFacts DEF Word
<1>2. ASSUME NEW l \in Locals PROVE l.den \in 0 .. (2 * half) - 1 /\ (Negative(l.den) <=> l.den >= half)
  BY <1>1 DEF Locals, Word, Negative
<1> HIDE DEF half
<1>3. ended \in SUBSET Locals /\ turn \in [Locals -> Locals]
  BY LocalsChanged
<1>4. rank \in [Locals -> 0 .. half]
  <2>1. ASSUME NEW l \in Locals PROVE (IF l \in ended THEN 0 ELSE half - l.den) \in 0 .. half
    BY <1>1, <1>2
  <2> HIDE DEF ended
  <2> QED
    BY <2>1
<1>5. ASSUME NEW l \in Locals, l \notin ended
      PROVE  /\ Shifted(l).den = 2 * l.den /\ Shifted(l).den # 0
             /\ rank[Shifted(l)] < rank[l] /\ Shifted(l) \in Locals
  <2>1. l.den \in 1 .. half - 1
    BY <1>1, <1>2, <1>5
  <2>2. Shifted(l) \in Locals /\ Shifted(l).den = (l.den * 2) % (2 * half)
    BY <1>1, LocalsChanged
  <2>3. l.den * 2 \in 0 .. (2 * half) - 1
    BY <1>1, <2>1
  <2>4. Shifted(l).den = 2 * l.den
    BY <1>1, <2>1, <2>2, <2>3
  <2>5. rank[l] = half - l.den
    BY <1>5
  <2>6. rank[Shifted(l)] = 0 \/ rank[Shifted(l)] = half - (2 * l.den)
    BY <2>2, <2>4
  <2> QED
    BY <1>1, <2>1, <2>2, <2>4, <2>5, <2>6
<1>6. PICK f \in [Locals -> Locals] : Looping(f, Locals, ended, turn)
  <2>1. \A l \in Locals \ ended : rank[turn[l]] < rank[l]
    BY <1>5
  <2> HIDE DEF ended, turn, rank
  <2> QED
    BY <1>1, <1>3, <1>4, <2>1, LoopEnds
<1> DEFINE h == [l \in Locals |-> IF l.den = 0 THEN 0 ELSE f[l]]
<1>7. ASSUME NEW l \in Locals PROVE h[l] = IF Negative(l.den) THEN l ELSE h[Shifted(l)]
  <2>1. CASE l.den = 0
    <3>1. Shifted(l) \in Locals /\ Shifted(l).den = 0 /\ ~Negative(l.den)
      <4>1. Shifted(l) \in Locals /\ Shifted(l).den = (l.den * 2) % (2 * half)
        BY <1>1, LocalsChanged
      <4> QED
        BY <1>1, <1>2, <2>1, <4>1
    <3> QED
      BY <2>1, <3>1
  <2>2. CASE l.den # 0 /\ Negative(l.den)
    BY <1>6, <2>2 DEF Looping
  <2>3. CASE l.den # 0 /\ ~Negative(l.den)
    <3>1. l \notin ended /\ turn[l] = Shifted(l)
      BY <2>3
    <3>2. f[l] = f[Shifted(l)]
      BY <1>6, <3>1 DEF Looping
    <3>3. Shifted(l) \in Locals /\ Shifted(l).den # 0
      BY <1>5, <3>1
    <3> QED
      BY <2>3, <3>2, <3>3
  <2> QED
    BY <2>1, <2>2, <2>3
<1>8. Loops(h)
  <2>1. h = [l \in Locals |-> h[l]]
    OBVIOUS
  <2> HIDE DEF h
  <2> QED
    BY <1>7, <2>1
<1>9. Justify = CHOOSE g : Loops(g)
  BY DEF Justify, Shifted
<1> HIDE DEF Loops
<1>10. Loops(Justify)
  BY <1>8, <1>9
<1> QED
  BY <1>10 DEF Loops

\* The second loop ends once the bit of the quotient has been shifted out.
LEMMA DivideLoops ==
    \A l \in Locals : Divide[l] = IF l.qbit = 0 THEN l ELSE Divide[Turn(l)]
<1> DEFINE N == 2^WIDTH
           Loops(h) == h = [l \in Locals |-> IF l.qbit = 0 THEN l ELSE h[Turn(l)]]
           ended == {l \in Locals : l.qbit = 0}
           turn == [l \in Locals |-> Turn(l)]
           rank == [l \in Locals |-> l.qbit]
<1>1. N \in Nat /\ \A l \in Locals : l.qbit \in 0 .. N - 1
  BY WordFacts DEF Locals, Word
<1> HIDE DEF N
<1>2. ended \in SUBSET Locals /\ turn \in [Locals -> Locals]
  BY LocalsChanged
<1>3. rank \in [Locals -> 0 .. N]
  <2>1. \A l \in Locals : l.qbit \in 0 .. N
    BY <1>1
  <2> QED
    BY <2>1
<1>4. \A l \in Locals \ ended : rank[turn[l]] < rank[l]
  <2> TAKE l \in Locals \ ended
  <2>1. Turn(l) \in Locals /\ Turn(l).qbit = l.qbit \div 2
    BY LocalsChanged
  <2>2. l.qbit \in Nat /\ l.qbit # 0
    BY <1>1
  <2>3. l.qbit \div 2 < l.qbit
    BY <2>2
  <2> QED
    BY <2>1, <2>3
<1>5. PICK f \in [Locals -> Locals] : Looping(f, Locals, ended, turn)
  <2> HIDE DEF ended, turn, rank
  <2> QED
    BY <1>1, <1>2, <1>3, <1>4, LoopEnds
<1>6. Loops(f)
  <2>1. \A l \in Locals : f[l] = IF l.qbit = 0 THEN l ELSE f[Turn(l)]
    BY <1>5 DEF Looping
  <2>2. f = [l \in Locals |-> f[l]]
    OBVIOUS
  <2> QED
    BY <2>1, <2>2
<1>7. Divide = CHOOSE g : Loops(g)
  BY DEF Divide
<1> HIDE DEF Loops
<1>8. Loops(Divide)
  BY <1>6, <1>7
<1> QED
  BY <1>8 DEF Loops

\* What a bit of the quotient can be.
QuotBit == {2^k : k \in 0 .. WIDTH - 1}

LEMMA BitFacts ==
    ASSUME NEW b \in QuotBit
    PROVE  /\ b \in Nat /\ b > 0
           /\ b = 1 \/ \E c \in QuotBit : b = 2 * c
           /\ 2 * b < 2^WIDTH => 2 * b \in QuotBit
<1>1. \A k \in 0 .. WIDTH - 1 : 2^k \in Nat /\ 2^(k + 1) = 2 * 2^k
  BY PowersOfTwo
<1>2. \A k \in 0 .. WIDTH - 1 : k > 0 => k - 1 \in 0 .. WIDTH - 1 /\ (k - 1) + 1 = k
  BY DivisionAssumption
<1>3. \A k \in 0 .. WIDTH - 1 : 2^k > 0
  BY PowersPositive
<1>4. PICK k \in 0 .. WIDTH - 1 : b = 2^k
  BY DEF QuotBit
<1>5. b = 1 \/ \E c \in QuotBit : b = 2 * c
  <2>1. CASE k = 0
    BY <1>4, <2>1, PowersOfTwo
  <2>2. CASE k > 0
    <3>1. k - 1 \in 0 .. WIDTH - 1 /\ 2^k = 2 * 2^(k - 1)
      BY <1>1, <1>2, <2>2
    <3>2. 2^(k - 1) \in QuotBit
      BY <3>1 DEF QuotBit
    <3> QED
      BY <1>4, <3>1, <3>2
  <2> QED
    BY <2>1, <2>2
<1>6. 2 * b < 2^WIDTH => 2 * b \in QuotBit
  <2>1. CASE k = WIDTH - 1
    <3>1. 2 * b = 2^WIDTH
      BY <1>4, <2>1, WordFacts
    <3> QED
      BY <3>1, WordFacts
  <2>2. CASE k # WIDTH - 1
    <3>1. k + 1 \in 0 .. WIDTH - 1 /\ 2 * b = 2^(k + 1)
      BY <1>1, <1>4, <2>2, DivisionAssumption
    <3> QED
      BY <3>1 DEF QuotBit
  <2> QED
    BY <2>1, <2>2
<1> QED
  BY <1>1, <1>3, <1>4, <1>5, <1>6

\* The divisor is shifted as far as the bit is, and neither loses a bit.
Shifting(l, n, d) ==
    l \in Locals /\ l.num = n /\ l.quot = 0 /\ l.qbit \in QuotBit /\ l.den = d * l.qbit

LEMMA ShiftsOn ==
    ASSUME NEW n \in Word, NEW d \in Word \ {0}, NEW l, Shifting(l, n, d), ~Negative(l.den)
    PROVE  Shifting(Shifted(l), n, d) /\ Shifted(l).den > l.den
<1> DEFINE b == l.qbit
           M == 2^WIDTH
<1>1. l \in Locals /\ b \in QuotBit /\ b \in Nat /\ b > 0 /\ l.den = d * b /\ d \in Nat /\ d > 0
  BY BitFacts, WordFacts DEF Shifting
<1>2. l.den \in Nat /\ 2 * l.den < M /\ M \in Nat
  BY <1>1, WordFacts DEF Locals, Word, Negative
<1>3. l.den >= b
  <2>1. \A x, y \in Nat : x > 0 => x * y >= y
    BY SMT
  <2> QED
    BY <1>1, <2>1
<1>4. 2 * b < M /\ 2 * b \in QuotBit
  BY <1>1, <1>2, <1>3, BitFacts
<1>5. Shifted(l).den = (l.den * 2) % M /\ Shifted(l).qbit = (b * 2) % M
  BY <1>1, LocalsChanged
<1> HIDE DEF b, M
<1>6. (l.den * 2) % M = 2 * l.den /\ (b * 2) % M = 2 * b
  <2>1. \A x \in Nat : 2 * x < M => (x * 2) % M = 2 * x
    BY <1>2
  <2> QED
    BY <1>1, <1>2, <1>4, <2>1
<1>7. 2 * (d * b) = d * (2 * b)
  BY <1>1
<1>8. l.den > 0
  BY <1>1, <1>2, <1>3
<1>9. /\ Shifted(l) \in Locals /\ Shifted(l).num = n /\ Shifted(l).quot = 0
      /\ Shifted(l).qbit = 2 * b /\ Shifted(l).den = 2 * l.den
  BY <1>5, <1>6, LocalsChanged DEF Shifting
<1>10. Shifted(l).den = d * (2 * b) /\ Shifted(l).den > l.den
  BY <1>1, <1>2, <1>7, <1>8, <1>9
<1> QED
  BY <1>4, <1>9, <1>10 DEF Shifting

\* What is left of the dividend is less than twice the divisor as it is shifted now.
Dividing(l, n, d) ==
    /\ l \in Locals
    /\ n = (l.quot * d) + l.num
    /\ l.qbit = 0 => l.num < d
    /\ l.qbit # 0 => l.qbit \in QuotBit /\ l.den = d * l.qbit /\ l.num < 2 * l.den

LEMMA Justifies ==
    ASSUME NEW n \in Word, NEW d \in Word \ {0}
    PROVE  Dividing(Justify[Start(n, d)], n, d)
<1> DEFINE half == 2^(WIDTH - 1)
           T == {k \in 0 .. half : \A l : Shifting(l, n, d) /\ half - l.den <= k
                                          => Dividing(Justify[l], n, d)}
<1>1. half \in Nat /\ half > 0 /\ 2^WIDTH = 2 * half /\ Word = 0 .. (2 * half) - 1
  BY WordFacts DEF Word
<1>2. ASSUME NEW l, Shifting(l, n, d), Negative(l.den) PROVE Dividing(Justify[l], n, d)
  <2>1. Justify[l] = l
    BY <1>2, JustifyLoops DEF Shifting
  <2>2. l.qbit \in QuotBit /\ l.qbit > 0 /\ l.den >= half /\ l.den \in Nat
    BY <1>2, BitFacts DEF Shifting, Negative, Locals, Word
  <2>3. n \in Nat /\ n < 2 * half /\ d \in Nat
    BY <1>1
  <2>4. n = (0 * d) + n
    BY <2>3
  <2> HIDE DEF half
  <2>5. n < 2 * l.den
    BY <1>1, <2>2, <2>3
  <2> QED
    BY <1>2, <2>1, <2>2, <2>4, <2>5 DEF Dividing, Shifting
<1>3. ASSUME NEW l, Shifting(l, n, d) PROVE l.den \in Nat /\ (Negative(l.den) <=> l.den >= half)
  BY <1>1, <1>3 DEF Shifting, Locals, Negative
<1> HIDE DEF half
<1>4. 0 \in T
  <2>1. ASSUME NEW l, Shifting(l, n, d), half - l.den <= 0 PROVE Dividing(Justify[l], n, d)
    <3>1. Negative(l.den)
      BY <1>1, <1>3, <2>1
    <3> QED
      BY <1>2, <2>1, <3>1
  <2> QED
    BY <1>1, <2>1
<1>5. \A k \in 0 .. half - 1 : k \in T => k + 1 \in T
  <2> SUFFICES ASSUME NEW k \in 0 .. half - 1, k \in T,
                      NEW l, Shifting(l, n, d), half - l.den <= k + 1
               PROVE  Dividing(Justify[l], n, d)
    BY <1>1
  <2>1. CASE Negative(l.den)
    BY <1>2, <2>1
  <2>2. CASE ~Negative(l.den)
    <3>1. Shifting(Shifted(l), n, d) /\ Shifted(l).den > l.den
      BY <2>2, ShiftsOn
    <3>2. half - Shifted(l).den <= k
      BY <1>1, <1>3, <3>1
    <3>3. Dividing(Justify[Shifted(l)], n, d)
      BY <3>1, <3>2
    <3>4. Justify[l] = Justify[Shifted(l)]
      BY <2>2, JustifyLoops DEF Shifting
    <3> QED
      BY <3>3, <3>4
  <2> QED
    BY <2>1, <2>2
<1>6. half \in T
  <2> HIDE DEF T
  <2>1. 0 \in Nat /\ half \in 0 .. half
    BY <1>1
  <2>2. \A k \in 0 .. half : k \in T
    BY <1>1, <1>4, <1>5, <2>1, Induct
  <2> QED
    BY <2>1, <2>2
<1>7. Shifting(Start(n, d), n, d)
  <2>1. 2^0 = 1 /\ 0 \in 0 .. WIDTH - 1
    BY PowersOfTwo, DivisionAssumption
  <2>2. 1 \in QuotBit
    BY <2>1 DEF QuotBit
  <2>3. 1 \in Word /\ 0 \in Word
    BY <1>1
  <2>4. d * 1 = d
    BY <1>1
  <2> QED
    BY <2>2, <2>3, <2>4 DEF Shifting, Start, Locals
<1>8. half - Start(n, d).den <= half
  BY <1>1, <1>3, <1>7
<1> QED
  BY <1>6, <1>7, <1>8

LEMMA DividesOn ==
    ASSUME NEW n \in Word, NEW d \in Word \ {0}, NEW l, Dividing(l, n, d), l.qbit # 0
    PROVE  Dividing(Turn(l), n, d) /\ Turn(l).qbit < l.qbit
<1> DEFINE b == l.qbit
           M == 2^WIDTH
           t == Turn(l)
           num == IF l.den <= l.num THEN l.num - l.den ELSE l.num
           quot == IF l.den <= l.num THEN l.quot + b ELSE l.quot
<1>1. /\ l \in Locals /\ b \in QuotBit /\ b \in Nat /\ b > 0 /\ l.den = d * b
      /\ l.num < 2 * l.den /\ n = (l.quot * d) + l.num
  BY BitFacts DEF Dividing
<1>2. M \in Nat /\ d \in Nat /\ d > 0 /\ n \in Nat /\ n < M
  BY WordFacts DEF Word
<1>3. l.num \in Nat /\ l.quot \in Nat /\ l.den \in Nat
  BY <1>1, WordFacts DEF Locals
<1>4. /\ t \in Locals /\ t.den = l.den \div 2 /\ t.qbit = b \div 2 /\ t.num = num
      /\ t.quot = IF l.den <= l.num THEN (l.quot + b) % M ELSE l.quot
  BY <1>1, LocalsChanged DEF Fits
<1> HIDE DEF t, b, M
<1>5. num \in Nat /\ quot \in Nat /\ num < l.den /\ n = (quot * d) + num
  <2>1. CASE l.den <= l.num
    <3>1. (l.quot + b) * d = (l.quot * d) + (d * b)
      BY <1>1, <1>2, <1>3
    <3>2. l.quot * d \in Nat
      BY <1>2, <1>3
    <3>3. l.num - l.den \in Nat /\ l.num - l.den < l.den
      BY <1>1, <1>3, <2>1
    <3>4. n = ((l.quot + b) * d) + (l.num - l.den)
      BY <1>1, <1>3, <3>1, <3>2
    <3> QED
      BY <1>1, <1>3, <2>1, <3>3, <3>4
  <2>2. CASE ~(l.den <= l.num)
    BY <1>1, <1>3, <2>2
  <2> QED
    BY <2>1, <2>2
<1>6. t.quot = quot
  <2>1. quot <= n
    <3>1. \A x, y \in Nat : y > 0 => x * y >= x
      BY SMT
    <3>2. quot * d >= quot /\ quot * d \in Nat
      BY <1>2, <1>5, <3>1
    <3> HIDE DEF quot, num
    <3> QED
      BY <1>2, <1>5, <3>2
  <2>2. quot < M
    BY <1>2, <1>5, <2>1
  <2>3. CASE l.den <= l.num
    <3>1. l.quot + b = quot
      BY <2>3
    <3>2. (l.quot + b) % M = l.quot + b
      <4>1. \A x \in Nat : x < M => x % M = x
        BY <1>2
      <4> HIDE DEF quot
      <4> QED
        BY <1>5, <2>2, <3>1, <4>1
    <3> QED
      BY <1>4, <2>3, <3>1, <3>2
  <2>4. CASE ~(l.den <= l.num)
    BY <1>4, <2>4
  <2> QED
    BY <2>3, <2>4
<1> HIDE DEF num, quot
<1>7. n = (t.quot * d) + t.num
  BY <1>4, <1>5, <1>6
<1>8. CASE b = 1
  <2>1. t.qbit = 0 /\ l.den = d
    BY <1>1, <1>2, <1>4, <1>8
  <2> QED
    BY <1>4, <1>5, <1>7, <1>8, <2>1 DEF Dividing, t, b
<1>9. ASSUME NEW c \in QuotBit, b = 2 * c PROVE Dividing(t, n, d) /\ t.qbit < b
  <2>1. c \in Nat /\ c > 0
    BY BitFacts
  <2>2. t.qbit = c /\ d * b = 2 * (d * c) /\ d * c \in Nat
    BY <1>2, <1>4, <1>9, <2>1
  <2>3. t.den = d * c
    <3>1. \A x \in Nat : (2 * x) \div 2 = x
      OBVIOUS
    <3> QED
      BY <1>1, <1>4, <2>2, <3>1
  <2>4. t.num < 2 * t.den
    BY <1>1, <1>4, <1>5, <2>2, <2>3
  <2> QED
    BY <1>4, <1>7, <1>9, <2>1, <2>2, <2>3, <2>4 DEF Dividing
<1> QED
  BY <1>1, <1>8, <1>9, BitFacts DEF t, b

LEMMA DividesAll ==
    ASSUME NEW n \in Word, NEW d \in Word \ {0}, NEW start, Dividing(start, n, d)
    PROVE  LET l == Divide[start] IN l.num < d /\ n = (l.quot * d) + l.num /\ l \in Locals
<1> DEFINE M == 2^WIDTH
           Done(l) == l.num < d /\ n = (l.quot * d) + l.num /\ l \in Locals
           T == {k \in 0 .. M : \A l : Dividing(l, n, d) /\ l.qbit <= k => Done(Divide[l])}
<1>1. M \in Nat
  BY WordFacts
<1>2. ASSUME NEW l, Dividing(l, n, d) PROVE l \in Locals /\ l.qbit \in 0 .. M - 1
  BY <1>2 DEF Dividing, Locals, Word
<1>3. ASSUME NEW l, Dividing(l, n, d), l.qbit = 0 PROVE Done(Divide[l])
  <2>1. Divide[l] = l
    BY <1>2, <1>3, DivideLoops
  <2> QED
    BY <1>3, <2>1 DEF Dividing
<1> HIDE DEF M, Done
<1>4. 0 \in T
  <2>1. ASSUME NEW l, Dividing(l, n, d), l.qbit <= 0 PROVE Done(Divide[l])
    <3>1. l.qbit = 0
      BY <1>1, <1>2, <2>1
    <3> QED
      BY <1>3, <2>1, <3>1
  <2> QED
    BY <1>1, <2>1
<1>5. \A k \in 0 .. M - 1 : k \in T => k + 1 \in T
  <2> SUFFICES ASSUME NEW k \in 0 .. M - 1, k \in T,
                      NEW l, Dividing(l, n, d), l.qbit <= k + 1
               PROVE  Done(Divide[l])
    BY <1>1
  <2>1. CASE l.qbit = 0
    BY <1>3, <2>1
  <2>2. CASE l.qbit # 0
    <3>1. Dividing(Turn(l), n, d) /\ Turn(l).qbit < l.qbit
      BY <2>2, DividesOn
    <3>2. Turn(l).qbit <= k
      BY <1>1, <1>2, <3>1
    <3>3. Done(Divide[Turn(l)])
      BY <3>1, <3>2
    <3>4. Divide[l] = Divide[Turn(l)]
      BY <1>2, <2>2, DivideLoops
    <3> QED
      BY <3>3, <3>4
  <2> QED
    BY <2>1, <2>2
<1>6. \A k \in 0 .. M : k \in T
  <2> HIDE DEF T
  <2>1. 0 \in Nat
    OBVIOUS
  <2> QED
    BY <1>1, <1>4, <1>5, <2>1, Induct
<1>7. M \in T
  <2> HIDE DEF T
  <2> QED
    BY <1>1, <1>6
<1>8. start.qbit <= M
  BY <1>1, <1>2
<1>9. Done(Divide[start])
  BY <1>7, <1>8
<1> QED
  BY <1>9 DEF Done

\* gcc.c's division is the division of unsigned integers, for words of any width.
THEOREM DivisionExact == RoutinesSpec => []Divides
<1>1. RoutinesInit => Divides
  BY DEF RoutinesInit, Divides, NoCall
<1>2. Divides /\ [RoutinesNext]_<<memoryVars, ring, call>> => Divides'
  <2> SUFFICES ASSUME Divides, [RoutinesNext]_<<memoryVars, ring, call>>,
                      call'.routine = "udivmod"
               PROVE  Divides'
    BY DEF Divides
  <2>1. CASE UNCHANGED call
    BY <2>1 DEF Divides
  <2>2. ASSUME NEW n \in Word, NEW d \in Word \ {0}, CallDivision(n, d) PROVE Divides'
    <3> DEFINE l == Divide[Justify[Start(n, d)]]
    <3>1. call'.n = n /\ call'.d = d /\ call'.result = [quot |-> l.quot, rem |-> l.num]
      BY <2>2 DEF CallDivision, udivmod
    <3>2. l.num < d /\ n = (l.quot * d) + l.num /\ l \in Locals
      BY Justifies, DividesAll
    <3> HIDE DEF l
    <3>3. l.num \in Nat /\ l.quot \in Nat /\ n \in Nat /\ d \in Nat /\ d > 0
      <4>1. l.num \in Word /\ l.quot \in Word
        BY <3>2 DEF Locals
      <4>2. Word \subseteq Nat
        BY WordFacts
      <4>3. \A x \in Nat : x # 0 => x > 0
        OBVIOUS
      <4>4. d \in Nat /\ d # 0
        BY <4>2
      <4> QED
        BY <4>1, <4>2, <4>3, <4>4
    <3>4. n \div d = l.quot /\ n % d = l.num
      BY <3>2, <3>3, Unique
    <3> QED
      BY <3>1, <3>4 DEF Divides
  <2> QED
    BY <2>1, <2>2, Calls
<1> QED
  BY <1>1, <1>2, PTL DEF RoutinesSpec

=============================================================================
