------------------------------ MODULE CFormat -------------------------------
(***************************************************************************)
(* What the C standard says printf prints for an integer: the reference    *)
(* for Printf.                                                             *)
(***************************************************************************)
EXTENDS Integers, Sequences

Numeral == <<"0", "1", "2", "3", "4", "5", "6", "7", "8", "9",
             "a", "b", "c", "d", "e", "f">>

Copies(c, n) == [k \in 1 .. n |-> c]

\* The numeral of n >= 0 without leading zeros: none for 0.
Significant(n, base) ==
    LET length == CHOOSE k \in 0 .. n : n < base^k /\ (k > 0 => base^(k - 1) <= n)
    IN [k \in 1 .. length |-> Numeral[((n \div base^(length - k)) % base) + 1]]

\* "The precision gives the minimum number of digits": 1 if there is none.
CDigits(n, base, precision) ==
    LET d == Significant(n, base) IN Copies("0", precision - Len(d)) \o d

CSign(value, flags) ==
    CASE value < 0        -> <<"-">>
      [] "+" \in flags    -> <<"+">>
      [] " " \in flags    -> <<" ">>
      [] OTHER            -> <<>>

\* "#": 0x before what is not zero.
CPrefix(value, base, flags) ==
    IF "#" \in flags /\ base = 16 /\ value # 0 THEN <<"0", "x">> ELSE <<>>

\* "#": one zero more before an octal number that starts with none.
COctal(digits, base, flags) ==
    IF "#" \in flags /\ base = 8 /\ (digits = <<>> \/ digits[1] # "0")
    THEN <<"0">> \o digits ELSE digits

\* precision is -1 where it is missing.  Sign and prefix, zeros, digits; padded
\* with zeros after the prefix or with spaces on one side.
CInteger(value, base, flags, width, precision) ==
    LET head   == CSign(value, flags) \o CPrefix(value, base, flags)
        digits == COctal(CDigits(IF value < 0 THEN -value ELSE value, base,
                                 IF precision = -1 THEN 1 ELSE precision), base, flags)
        pad    == width - Len(head) - Len(digits)
    IN CASE "-" \in flags -> head \o digits \o Copies(" ", pad)
         [] "0" \in flags /\ precision = -1 /\ "-" \notin flags ->
                head \o Copies("0", pad) \o digits
         [] OTHER -> Copies(" ", pad) \o head \o digits

\* A string, of which the precision lets through so many characters.
CText(text, flags, width, precision) ==
    LET shown == SubSeq(text, 1, IF precision = -1 \/ precision > Len(text) THEN Len(text)
                                 ELSE precision)
        pad   == Copies(" ", width - Len(shown))
    IN IF "-" \in flags THEN shown \o pad ELSE pad \o shown

\* The same in capitals.
Capitals(text) ==
    LET Capital == [c \in {"a", "b", "c", "d", "e", "f", "x"} |->
                        CASE c = "a" -> "A" [] c = "b" -> "B" [] c = "c" -> "C"
                          [] c = "d" -> "D" [] c = "e" -> "E" [] c = "f" -> "F" [] c = "x" -> "X"]
    IN [k \in DOMAIN text |-> IF text[k] \in DOMAIN Capital THEN Capital[text[k]] ELSE text[k]]

=============================================================================
