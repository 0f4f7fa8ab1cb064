------------------------------- MODULE Printf -------------------------------
(***************************************************************************)
(* rt_vsnprintf of kservice.c, with RT_PRINTF_PRECISION and without        *)
(* RT_PRINTF_SPECIAL and RT_KPRINTF_USING_LONGLONG, rt_kprintf, and the    *)
(* printf_ of print.c, which the tasks print with.                         *)
(*                                                                         *)
(* A character is a string of length 1, and Nul the one that ends a C      *)
(* string.  An int and a long have Bits bits and a short half of them; an  *)
(* argument is an integer, a character or a sequence of characters.        *)
(* Characters are written one after the other, and only while there is     *)
(* room: a conversion is given by the text it appends.                     *)
(***************************************************************************)
EXTENDS Integers, Sequences, SequencesExt

CONSTANT Bits

Nul == ""
NullPointer == <<Nul>>   \* for %s; no C string is

Digits == <<"0", "1", "2", "3", "4", "5", "6", "7", "8", "9">>
IsDigit(c) == c \in ToSet(Digits)
small_digits == Digits \o <<"a", "b", "c", "d", "e", "f">>
large_digits == Digits \o <<"A", "B", "C", "D", "E", "F">>

Flags == {"-", "+", " ", "#", "0"}

Times(n, c) == IF n <= 0 THEN <<>> ELSE [i \in 1 .. n |-> c]

Unsigned(n, w) == n % 2 ^ w
Signed(n, w) == ((n + 2 ^ (w - 1)) % 2 ^ w) - 2 ^ (w - 1)

-----------------------------------------------------------------------------
(* Numbers.                                                                *)

\* divide knows base 10, and takes any other for 16.
divide(n, base) ==
  LET by == IF base = 10 THEN 10 ELSE 16 IN [res |-> n % by, n |-> n \div by]

\* The digits of num, the most significant first.
DigitsOf(num, base, digits) ==
  LET from[n \in Nat] ==
        LET d == divide(n, base)
        IN  IF n = 0 THEN <<>> ELSE Append(from[d.n], digits[d.res + 1])
  IN  IF num = 0 THEN <<"0">> ELSE from[num]

SignOf(num, type) ==
  CASE ~type.signed -> <<>>
    [] type.signed /\ num < 0 -> <<"-">>
    [] type.signed /\ num >= 0 /\ "+" \in type.flags -> <<"+">>
    [] OTHER -> IF " " \in type.flags THEN <<" ">> ELSE <<>>

\* Mutant: the place of the sign is not taken from the padding.
print_numberWide(num, base, s, precision, type) ==
  LET left == "-" \in type.flags
      zero == "0" \in type.flags /\ ~left
      sign == SignOf(num, type)
      tmp == DigitsOf(Unsigned(IF sign = <<"-">> THEN -num ELSE num, Bits), base, type.digits)
      zeros == IF precision > Len(tmp) THEN precision - Len(tmp) ELSE 0
      room == s - Len(tmp) - zeros
  IN  (IF left \/ zero THEN <<>> ELSE Times(room, " ")) \o sign
        \o (IF zero THEN Times(room, "0") ELSE <<>>) \o Times(zeros, "0")
        \o (IF precision = 0 THEN <<>> ELSE tmp) \o (IF left THEN Times(room, " ") ELSE <<>>)

\* s is the width, -1 if there is none, and so with the precision.  The number that
\* has no negative is its own, and its digits are those of the unsigned number.
print_number(num, base, s, precision, type) ==
  LET left == "-" \in type.flags
      zero == "0" \in type.flags /\ ~left
      sign == SignOf(num, type)
      tmp == DigitsOf(Unsigned(IF sign = <<"-">> THEN -num ELSE num, Bits), base, type.digits)
      zeros == IF precision > Len(tmp) THEN precision - Len(tmp) ELSE 0
      room == s - Len(tmp) - zeros - Len(sign)
  IN  (IF left \/ zero THEN <<>> ELSE Times(room, " ")) \o sign
        \o (IF zero THEN Times(room, "0") ELSE <<>>) \o Times(zeros, "0")
        \o (IF precision = 0 THEN <<>> ELSE tmp) \o (IF left THEN Times(room, " ") ELSE <<>>)

-----------------------------------------------------------------------------
(* A conversion.                                                           *)

At(fmt, p) == IF p <= Len(fmt) THEN fmt[p] ELSE Nul

\* The first place from p on that does not hold one of the characters.
Past(fmt, p, chars) ==
  CHOOSE q \in p .. Len(fmt) + 1 : At(fmt, q) \notin chars /\ \A r \in p .. q - 1 : At(fmt, r) \in chars

\* The number that is written from p up to before q.
skip_atoi(fmt, p, q) ==
  LET from[i \in Nat] ==
        IF i < p THEN 0 ELSE from[i - 1] * 10 + (CHOOSE d \in 0 .. 9 : Digits[d + 1] = fmt[i])
  IN  from[q - 1]

\* A width or a precision at p: where it ends, its value and the argument after it.
FieldAt(fmt, p, args, a) ==
  LET q == Past(fmt, p, ToSet(Digits))
  IN  CASE IsDigit(At(fmt, p)) -> [end |-> q, value |-> skip_atoi(fmt, p, q), arg |-> a]
        [] At(fmt, p) = "*" -> [end |-> p + 1, value |-> args[a], arg |-> a + 1]
        [] OTHER -> [end |-> p, value |-> -1, arg |-> a]

\* What follows the '%' at p is taken apart; the conversion character is at end.
Directive(fmt, p, args, a) ==
  LET Qualified(flags, width, prec) ==
        LET qualified == At(fmt, prec.end) \in {"h", "l"}
        IN  [flags |-> flags, width |-> width, precision |-> prec.value,
             qualifier |-> IF qualified THEN At(fmt, prec.end) ELSE Nul,
             end |-> IF qualified THEN prec.end + 1 ELSE prec.end, arg |-> prec.arg]
      NotNegative(prec) == [prec EXCEPT !.value = IF @ < 0 THEN 0 ELSE @]
      Precise(flags, width, end, arg) ==
        Qualified(flags, width,
                  IF At(fmt, end) = "." THEN NotNegative(FieldAt(fmt, end + 1, args, arg))
                  ELSE [end |-> end, value |-> -1, arg |-> arg])
      Wide(flags, star, width) ==
        IF star /\ width.value < 0
        THEN Precise(flags \union {"-"}, -width.value, width.end, width.arg)
        ELSE Precise(flags, width.value, width.end, width.arg)
      Flagged(q) ==
        Wide({fmt[r] : r \in p + 1 .. q - 1}, At(fmt, q) = "*", FieldAt(fmt, q, args, a))
  IN  Flagged(Past(fmt, p + 1, Flags))

\* The length of a string is cut by the width, and by a precision but 0.
StringText(s, d) ==
  LET chars == IF s = NullPointer THEN <<"(", "N", "U", "L", "L", ")">> ELSE s
      seen == IF d.width \in 0 .. Len(chars) THEN d.width ELSE Len(chars)
      len == IF d.precision > 0 /\ seen > d.precision THEN d.precision ELSE seen
      pad == Times(d.width - len, " ")
  IN  IF "-" \in d.flags THEN SubSeq(chars, 1, len) \o pad ELSE pad \o SubSeq(chars, 1, len)

CharText(c, d) ==
  IF "-" \in d.flags THEN <<c>> \o Times(d.width - 1, " ") ELSE Times(d.width - 1, " ") \o <<c>>

PointerText(x, d) ==
  print_number(Signed(x, Bits), 16, IF d.width = -1 THEN Bits \div 4 ELSE d.width, d.precision,
               [flags |-> d.flags \union IF d.width = -1 THEN {"0"} ELSE {},
                signed |-> FALSE, digits |-> small_digits])

NumberText(x, d, conversion) ==
  LET signed == conversion \in {"d", "i"}
      w == IF d.qualifier = "h" THEN Bits \div 2 ELSE Bits
  IN  print_number(Signed(IF signed THEN Signed(x, w) ELSE Unsigned(x, w), Bits),
                   CASE conversion = "o" -> 8 [] conversion \in {"x", "X"} -> 16 [] OTHER -> 10,
                   d.width, d.precision,
                   [flags |-> d.flags, signed |-> signed,
                    digits |-> IF conversion = "X" THEN large_digits ELSE small_digits])

-----------------------------------------------------------------------------
(* The whole format.                                                       *)

\* The text for the format from p on, with the arguments from a on.
Text(fmt, args) ==
  LET from[p \in Nat, a \in Nat] ==
        LET Converted(d, c) ==
              CASE c = "c" -> CharText(args[d.arg], d) \o from[d.end + 1, d.arg + 1]
                [] c = "s" -> StringText(args[d.arg], d) \o from[d.end + 1, d.arg + 1]
                [] c = "p" -> PointerText(args[d.arg], d) \o from[d.end + 1, d.arg + 1]
                [] c \in {"o", "x", "X", "d", "i", "u"} ->
                     NumberText(args[d.arg], d, c) \o from[d.end + 1, d.arg + 1]
                [] c = "%" -> <<"%">> \o from[d.end + 1, d.arg]
                [] c = Nul -> <<"%">>
                [] OTHER -> <<"%", c>> \o from[d.end + 1, d.arg]
            Taken(d) == Converted(d, At(fmt, d.end))
        IN  CASE p > Len(fmt) -> <<>>
              [] p <= Len(fmt) /\ fmt[p] # "%" -> <<fmt[p]>> \o from[p + 1, a]
              [] OTHER -> Taken(Directive(fmt, p, args, a))
  IN  from[1, 1]

\* buf is the memory from the buffer on; size bytes of it are the buffer.
rt_vsnprintf(buf, size, fmt, args) ==
  LET Written(text) ==
        LET last == IF Len(text) < size THEN Len(text) + 1 ELSE size
        IN  [len |-> Len(text),
             buf |-> [i \in DOMAIN buf |-> IF i = last THEN Nul
                                           ELSE IF i < last THEN text[i] ELSE buf[i]]]
  IN  Written(Text(fmt, args))

-----------------------------------------------------------------------------
(* The console: rt_kprintf, and print.c.                                   *)

putchar_(c) == IF c = "\n" THEN <<"\r", c>> ELSE <<c>>

puts_(s) == FoldLeft(LAMBDA put, c : put \o putchar_(c), <<>>, s)

\* The format goes through a buffer of size bytes, which both its callers share.
\* What is put on the console, whose driver is in interrupt mode.
rt_kprintf(size, fmt, args) ==
  LET Shown(log) == puts_(SubSeq(log, 1, Past(log, 1, ToSet(log) \ {Nul}) - 1))
  IN  Shown(rt_vsnprintf([i \in 1 .. size |-> Nul], size - 1, fmt, args).buf)

\* The digits are put in buf from the last one on, and printed from its end; a width
\* above the 12 bytes of buf has no meaning.
print_unsigned(v, base, digits, pad, width) ==
  LET buf == DigitsOf(v, base, digits)
  IN  Times(width - Len(buf), IF pad THEN "0" ELSE " ") \o buf

\* The width is that of the digits, without the sign.
IntText(v, width) ==
  (IF v < 0 THEN <<"-">> ELSE <<>>)
    \o print_unsigned(Unsigned(IF v < 0 THEN -v ELSE v, Bits), 10, small_digits, FALSE, width)

\* Only '0', a width and an 'l' are known between '%' and the conversion.  After a '%'
\* at its end the format has no end: no format has one there.
printf_(fmt, args) ==
  LET from[p \in Nat, a \in Nat] ==
        LET pad == At(fmt, p + 1) = "0"
            w == IF pad THEN p + 2 ELSE p + 1
            q == Past(fmt, w, ToSet(Digits))
            width == skip_atoi(fmt, w, q)
            at == IF At(fmt, q) = "l" THEN q + 1 ELSE q
            c == At(fmt, at)
            v == Unsigned(args[a], Bits)
            conversion ==
              CASE c \in {"d", "i"} -> IntText(Signed(args[a], Bits), width)
                [] c = "u" -> print_unsigned(v, 10, small_digits, FALSE, width)
                [] c = "x" -> print_unsigned(v, 16, small_digits, pad, width)
                [] c = "X" -> print_unsigned(v, 16, large_digits, pad, width)
                [] c = "p" -> <<"0", "x">> \o print_unsigned(v, 16, small_digits, TRUE, Bits \div 4)
                [] c = "c" -> putchar_(args[a])
                [] OTHER -> puts_(IF args[a] = NullPointer THEN <<"(", "n", "u", "l", "l", ")">>
                                  ELSE args[a])
        IN  CASE p > Len(fmt) -> <<>>
              [] p <= Len(fmt) /\ fmt[p] # "%" -> putchar_(fmt[p]) \o from[p + 1, a]
              [] OTHER ->
                   CASE c \in {"d", "i", "u", "x", "X", "c", "s", "p"} ->
                          conversion \o from[at + 1, a + 1]
                     [] c = "%" -> <<"%">> \o from[at + 1, a]
                     [] c = Nul -> <<"%">>
                     [] OTHER -> <<"%">> \o putchar_(c) \o from[at + 1, a]
  IN  from[1, 1]
=============================================================================
