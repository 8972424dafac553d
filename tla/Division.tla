------------------------------ MODULE Division ------------------------------
(***************************************************************************)
(* __udivmoddi4 of lib/gcc.c, the division of unsigned integers: shift the *)
(* divisor to the left as far as it goes, then subtract it where it fits   *)
(* and shift it back.  Integers have WIDTH bits.  d = 0 traps.             *)
(***************************************************************************)
EXTENDS Integers

CONSTANT WIDTH     \* 64

ASSUME DivisionAssumption == WIDTH \in Nat \ {0}

\* What ^ means, as far as a word goes.
ASSUME PowersOfTwo ==
    2^0 = 1 /\ \A k \in 0 .. WIDTH - 1 : 2^k \in Nat /\ 2^(k + 1) = 2 * 2^k

Word == 0 .. 2^WIDTH - 1

\* The locals of the function.
Locals == [num : Word, den : Word, quot : Word, qbit : Word]

Start(n, d) == [num |-> n, den |-> d, quot |-> 0, qbit |-> 1]

\* (int64_t)den < 0
Negative(den) == den >= 2^(WIDTH - 1)

\* The first loop: den <<= 1, qbit <<= 1.
Justify[l \in Locals] ==
    IF Negative(l.den) THEN l
    ELSE Justify[[l EXCEPT !.den = (@ * 2) % 2^WIDTH, !.qbit = (@ * 2) % 2^WIDTH]]

\* Faulty variant of Fits: not when it fits exactly.
FitsNotExactly(l) == l.den < l.num

Fits(l) == l.den <= l.num

\* The body of the second loop.
Subtract(l) == IF Fits(l) THEN [l EXCEPT !.num = @ - l.den, !.quot = (@ + l.qbit) % 2^WIDTH]
               ELSE l

Turn(l) == [Subtract(l) EXCEPT !.den = @ \div 2, !.qbit = @ \div 2]

Divide[l \in Locals] == IF l.qbit = 0 THEN l ELSE Divide[Turn(l)]

\* The quotient, and the remainder in *rem_p.
udivmod(n, d) ==
    LET l == Divide[Justify[Start(n, d)]] IN [quot |-> l.quot, rem |-> l.num]

=============================================================================
