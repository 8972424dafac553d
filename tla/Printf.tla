------------------------------- MODULE Printf -------------------------------
(***************************************************************************)
(* lib/printf.c as the kernel is built with it (no floating point): the    *)
(* interpreter of formats, the conversion of integers and the three ways   *)
(* the characters go.                                                      *)
(*                                                                         *)
(* Every call of out advances idx by one, so the calls are a sequence.  A  *)
(* character is a string of length one; the bytes after the end of a       *)
(* format are unknown, and one is reached only after a lone % at its end.  *)
(* Buffers are not NULL (nobody passes one, and nothing would be written), *)
(* and the number of characters put out, which is returned, is left to Len.*)
(***************************************************************************)
EXTENDS Integers, Sequences

LOCAL INSTANCE SequencesExt

CONSTANTS
    CHAR_BITS, SHORT_BITS, INT_BITS, LONG_BITS,    \* 8, 16, 32, 64
    NTOA_BUFFER,                                   \* PRINTF_NTOA_BUFFER_SIZE (32)
    POINTER_WIDTH                                  \* sizeof(void*) * 2 (16)

\* A size_t, which is as long as a long, counts the characters of a small buffer.
ASSUME PrintfAssumption == LONG_BITS \in Nat /\ 2^LONG_BITS \in Nat /\ 2^LONG_BITS > 4

NUL    == "NUL"
Digits == <<"0", "1", "2", "3", "4", "5", "6", "7", "8", "9">>
Lower  == Digits \o <<"a", "b", "c", "d", "e", "f">>
Upper  == Digits \o <<"A", "B", "C", "D", "E", "F">>
DigitChars == ToSet(Digits)

FlagOf == [c \in {"0", "-", "+", " ", "#"} |->
               CASE c = "0" -> "zeropad" [] c = "-" -> "left" [] c = "+" -> "plus"
                 [] c = " " -> "space"   [] c = "#" -> "hash"]

Smaller(a, b) == IF a < b THEN a ELSE b

\* n copies of the character c; none if n is negative.
Times(c, n) == [k \in 1 .. n |-> c]

-----------------------------------------------------------------------------
(* Integers.                                                               *)

\* _out_rev: reverses buf and pads with spaces.
_out_rev(buf, width, flags) ==
    LET spaces == Times(" ", width - Len(buf)) IN
    IF "left" \in flags THEN Reverse(buf) \o spaces
    ELSE IF "zeropad" \in flags THEN Reverse(buf)
    ELSE spaces \o Reverse(buf)

\* Zeros up to a length of n, as far as there is room.
Zeros(buf, n) == buf \o Times("0", Smaller(n, NTOA_BUFFER) - Len(buf))

\* if (len < PRINTF_NTOA_BUFFER_SIZE) buf[len++] = c
Put(buf, c) == IF Len(buf) < NTOA_BUFFER THEN Append(buf, c) ELSE buf

\* # makes room for the prefix where the zeros, or the digits, fill the width.
Shortened(buf, base, prec, width, flags) ==
    IF "precision" \in flags \/ buf = <<>> \/ Len(buf) \notin {prec, width} THEN buf
    ELSE SubSeq(buf, 1, Len(buf) - (IF base = 16 /\ Len(buf) > 1 THEN 2 ELSE 1))

Prefixed(buf, base, flags) ==
    Put(CASE base = 16 -> Put(buf, IF "uppercase" \in flags THEN "X" ELSE "x")
          [] base = 2  -> Put(buf, "b")
          [] OTHER     -> buf,
        "0")

Signed(buf, negative, flags) ==
    CASE negative            -> Put(buf, "-")
      [] "plus" \in flags    -> Put(buf, "+")
      [] "space" \in flags   -> Put(buf, " ")
      [] OTHER               -> buf

\* Faulty variant of PadWidth: no room is kept for the sign.
PadWidthSigned(negative, width, flags) == width

\* The sign takes a place of the width that is padded with zeros.
PadWidth(negative, width, flags) ==
    IF /\ "left" \notin flags /\ "zeropad" \in flags /\ width # 0
       /\ negative \/ flags \cap {"plus", "space"} # {}
    THEN width - 1 ELSE width

_ntoa_format(buf, negative, base, prec, width, flags) ==
    LET w == PadWidth(negative, width, flags)
        padded == IF "left" \in flags THEN buf
                  ELSE IF "zeropad" \in flags THEN Zeros(Zeros(buf, prec), w)
                  ELSE Zeros(buf, prec)
        hashed == IF "hash" \in flags
                  THEN Prefixed(Shortened(padded, base, prec, w, flags), base, flags)
                  ELSE padded
    IN _out_rev(Signed(hashed, negative, flags), w, flags)

\* The digits of value, the last one first: at least one.
DigitsOf(value, base, table) ==
    LET n == CHOOSE k \in 1 .. LONG_BITS :
                 value < base^k /\ (k > 1 => value >= base^(k - 1))
    IN [k \in 1 .. n |-> table[((value \div base^(k - 1)) % base) + 1]]

\* _ntoa_long and _ntoa_long_long, which differ in the type of value only.
_ntoa_long(value, negative, base, prec, width, flags) ==
    LET buf == IF "precision" \in flags /\ value = 0 THEN <<>>
               ELSE DigitsOf(value, base, IF "uppercase" \in flags THEN Upper ELSE Lower)
    IN _ntoa_format(SubSeq(buf, 1, Smaller(Len(buf), NTOA_BUFFER)), negative, base, prec,
                    width, IF value = 0 THEN flags \ {"hash"} ELSE flags)

-----------------------------------------------------------------------------
(* Directives.  A state of the interpreter: the place in the format, the   *)
(* arguments left, what the directive has said so far, and the output.     *)

Cur(s) == IF s.at <= Len(s.format) THEN s.format[s.at] ELSE NUL

Skip(s) == [s EXCEPT !.at = @ + 1]

\* Where the run of characters of the set chars ends.
RunEnd(s, chars) ==
    CHOOSE j \in s.at .. Len(s.format) + 1 :
        /\ \A k \in s.at .. j - 1 : s.format[k] \in chars
        /\ j <= Len(s.format) => s.format[j] \notin chars

\* _atoi: unsigned int, wraps.
_atoi(s) ==
    FoldLeft(LAMBDA i, c : (i * 10 + SelectInSeq(Digits, LAMBDA d : d = c) - 1) % 2^INT_BITS,
             0, SubSeq(s.format, s.at, RunEnd(s, DigitChars) - 1))

EvalFlags(s) ==
    LET j == RunEnd(s, DOMAIN FlagOf) IN
    [s EXCEPT !.flags = {FlagOf[s.format[k]] : k \in s.at .. j - 1}, !.at = j]

EvalWidth(s) ==
    CASE Cur(s) \in DigitChars ->
           [s EXCEPT !.width = _atoi(s), !.at = RunEnd(s, DigitChars)]
      [] Cur(s) = "*" ->
           LET w == Head(s.args) IN
           [Skip(s) EXCEPT !.args = Tail(@),
                           !.width = IF w < 0 THEN -w ELSE w,
                           !.flags = IF w < 0 THEN @ \cup {"left"} ELSE @]
      [] OTHER -> s

EvalPrecision(s) ==
    IF Cur(s) # "." THEN s
    ELSE LET p == [Skip(s) EXCEPT !.flags = @ \cup {"precision"}] IN
         CASE Cur(p) \in DigitChars ->
                [p EXCEPT !.prec = _atoi(p), !.at = RunEnd(p, DigitChars)]
           [] Cur(p) = "*" ->
                [Skip(p) EXCEPT !.args = Tail(@),
                                !.prec = IF Head(s.args) > 0 THEN Head(s.args) ELSE 0]
           [] OTHER -> p

\* l, ll, h, hh; t, j and z are long.
EvalLength(s) ==
    LET again == Cur(Skip(s)) = Cur(s) IN
    CASE Cur(s) = "l" -> [IF again THEN Skip(Skip(s)) ELSE Skip(s)
                             EXCEPT !.bits = LONG_BITS]
      [] Cur(s) = "h" -> [IF again THEN Skip(Skip(s)) ELSE Skip(s)
                             EXCEPT !.bits = IF again THEN CHAR_BITS ELSE SHORT_BITS]
      [] Cur(s) \in {"t", "j", "z"} -> [Skip(s) EXCEPT !.bits = LONG_BITS]
      [] OTHER -> s

-----------------------------------------------------------------------------
(* Specifiers.                                                             *)

\* The directive ends here and prints these characters.
Emit(s, chars) == [Skip(s) EXCEPT !.out = @ \o chars]

Unsigned(v, bits) == v % 2^bits

Integer(v, bits) ==
    LET u == Unsigned(v, bits) IN IF u >= 2^(bits - 1) THEN u - 2^bits ELSE u

Base(c) == CASE c \in {"x", "X"} -> 16 [] c = "o" -> 8 [] c = "b" -> 2 [] OTHER -> 10

\* Flags that do not go together with the specifier or the precision.
Sorted(c, flags) ==
    (IF c = "X" THEN flags \cup {"uppercase"} ELSE flags)
        \ ((IF Base(c) = 10 THEN {"hash"} ELSE {})
           \cup (IF c \notin {"d", "i"} THEN {"plus", "space"} ELSE {})
           \cup (IF "precision" \in flags THEN {"zeropad"} ELSE {}))

\* 0 - value overflows for the least int; negated in a register it is right.
IntegerText(s, v) ==
    LET signed == Cur(s) \in {"d", "i"}
        value  == IF signed THEN Integer(v, s.bits) ELSE Unsigned(v, s.bits)
    IN _ntoa_long(IF value > 0 THEN value ELSE -value, value < 0, Base(Cur(s)),
                  s.prec, s.width, Sorted(Cur(s), s.flags))

\* A string or a character, padded with spaces.
Padded(text, width, flags) ==
    LET spaces == Times(" ", width - Len(text)) IN
    IF "left" \in flags THEN text \o spaces ELSE spaces \o text

StringText(s, p) ==
    Padded(IF "precision" \in s.flags THEN SubSeq(p, 1, Smaller(s.prec, Len(p))) ELSE p,
           s.width, s.flags)

PointerText(s, v) ==
    _ntoa_long(Unsigned(v, LONG_BITS), FALSE, 16, s.prec, POINTER_WIDTH,
               s.flags \cup {"zeropad", "uppercase"})

\* The specifier.  One that is not known, also the end of the format, is printed.
Convert(s) ==
    LET arg  == Head(s.args)
        rest == [s EXCEPT !.args = Tail(@)]
    IN CASE Cur(s) \in {"d", "i", "u", "x", "X", "o", "b"} -> Emit(rest, IntegerText(s, arg))
         [] Cur(s) = "c" -> Emit(rest, Padded(<<arg>>, s.width, s.flags))
         [] Cur(s) = "s" -> Emit(rest, StringText(s, arg))
         [] Cur(s) = "p" -> Emit(rest, PointerText(s, arg))
         [] OTHER        -> Emit(s, <<Cur(s)>>)

\* The body of while (*format).
Step(s) ==
    CASE Cur(s) = NUL -> s
      [] Cur(s) = "%" -> Convert(EvalLength(EvalPrecision(EvalWidth(EvalFlags(
                             [Skip(s) EXCEPT !.width = 0, !.prec = 0, !.bits = INT_BITS])))))
      [] OTHER        -> Emit(s, <<Cur(s)>>)

\* The characters that are put out; a turn takes at least one of the format's.
_vsnprintf(format, args) ==
    LET start == [format |-> format, args |-> args, at |-> 1, flags |-> {},
                  width |-> 0, prec |-> 0, bits |-> INT_BITS, out |-> <<>>]
        after[n \in 0 .. Len(format)] == IF n = 0 THEN start ELSE Step(after[n - 1])
    IN after[Len(format)].out

-----------------------------------------------------------------------------
(* Where the characters go.                                                *)

\* Faulty variant of _out_buffer: one character more.
_out_buffer_OneMore(buffer, c, idx, maxlen) ==
    IF idx <= maxlen THEN [buffer EXCEPT ![idx] = c] ELSE buffer

_out_buffer(buffer, c, idx, maxlen) ==
    IF idx < maxlen THEN [buffer EXCEPT ![idx] = c] ELSE buffer

\* snprintf into the memory buffer, and the NUL at the end: size_t wraps.
snprintf(buffer, count, format, args) ==
    LET out == _vsnprintf(format, args)
        idx == Len(out)
        after[n \in 0 .. idx] ==
            IF n = 0 THEN buffer ELSE _out_buffer(after[n - 1], out[n], n - 1, count)
    IN _out_buffer(after[idx], NUL, IF idx < count THEN idx ELSE (count - 1) % 2^LONG_BITS,
                   count)

\* _out_char: what printf hands to putch.
printf(format, args) == SelectSeq(_vsnprintf(format, args), LAMBDA c : c # NUL)

=============================================================================
