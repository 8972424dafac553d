-------------------------------- MODULE Pic ---------------------------------
(***************************************************************************)
(* The two interrupt controllers as FrogOS drives them (idt.c), for all    *)
(* sixteen lines; Interrupts follows line 0 of them through the kernel.    *)
(*                                                                         *)
(* Lines 0 to 7 belong to the first controller, 8 to 15 to the second,     *)
(* which asks through line CASCADE of the first.  A controller hands out   *)
(* the most urgent request, the lowest number, unless it has one as urgent *)
(* in service; the plain end-of-interrupt command ends its most urgent.    *)
(***************************************************************************)
EXTENDS Integers, Sequences

Line    == 0 .. 15
CASCADE == 2

\* A state: the vectors programmed, the lines masked, those in service, irq_handlers.
First(lines)  == {l \in lines : l < 8}
Second(lines) == {l \in lines : l >= 8}

MostUrgent(lines) == {l \in lines : \A k \in lines : l <= k}

\* setup_idt: 0x20 and 0x28 are the first vectors; 0xfb and 0xff are masked, so all
\* lines but that of the second controller.
setup_idt ==
    [first |-> 32, second |-> 40, masked |-> Line \ {CASCADE}, service |-> {},
     handlers |-> [num \in 0 .. 48 |-> <<>>]]

\* One bit of the byte at port 0x21 or 0xA1: the line itself, if there is one.
Bit(irq) == IF irq >= 8 THEN irq - 8 ELSE irq

Port(irq) == IF irq >= 8 THEN 8 ELSE 0

irq_clear_mask(pic, irq) ==
    IF irq >= 16 THEN pic ELSE [pic EXCEPT !.masked = @ \ {Port(irq) + Bit(irq)}]

\* There is no test here; a bit beyond the byte is lost.
irq_set_mask(pic, irq) ==
    IF Bit(irq) > 7 THEN pic ELSE [pic EXCEPT !.masked = @ \cup {Port(irq) + Bit(irq)}]

\* The list of a line that had none becomes the only reason to open it.
install_irq_handler(pic, num, node) ==
    LET opened == IF pic.handlers[num] = <<>> THEN irq_clear_mask(pic, num) ELSE pic
    IN [opened EXCEPT !.handlers[num] = <<node>> \o @]

\* Whether the processor is told that the line asks, and by which vector.
Asks(pic, l) ==
    /\ l \notin pic.masked
    /\ \A k \in pic.service : l \in First(Line) => k > l
    /\ l \in Second(Line) => /\ CASCADE \notin pic.masked
                             /\ \A k \in First(pic.service) : k > CASCADE
                             /\ \A k \in Second(pic.service) : k > l

Acknowledged(pic, l) ==
    [pic EXCEPT !.service = @ \cup {l} \cup (IF l >= 8 THEN {CASCADE} ELSE {})]

Vector(pic, l) == IF l >= 8 THEN pic.second + l - 8 ELSE pic.first + l

EndFirst(pic)  == [pic EXCEPT !.service = @ \ MostUrgent(First(@))]
EndSecond(pic) == [pic EXCEPT !.service = @ \ MostUrgent(Second(@))]

\* irq_handler for vectors from 32 on: whom it calls, in this order, and how it ends.
Called(pic, int_no) == pic.handlers[int_no - 32]

\* Faulty variant of EndOfInterrupt: the second controller is not told.
EndOfInterruptFirst(pic, int_no) == IF int_no > 48 THEN pic ELSE EndFirst(pic)

EndOfInterrupt(pic, int_no) ==
    IF int_no > 48 THEN pic
    ELSE IF int_no >= 40 THEN EndFirst(EndSecond(pic))
    ELSE EndFirst(pic)

=============================================================================
