---------------------------- MODULE ServiceCalls ----------------------------
(***************************************************************************)
(* Calls of the routines of the kernel service (kservice.c, print.c), one  *)
(* in a behaviour, with every input of a set; and the periodic delay of    *)
(* thread.c.                                                               *)
(***************************************************************************)
EXTENDS MemoryOps, Printf, FiniteSetsExt

CONSTANTS Wrap, Incs, Late, MaxClock   \* of the periodic delay

VARIABLES
  call,   \* the routine and its arguments
  pc,     \* "called" or "returned"
  out,    \* what it returned: a value, or the memory it left
  rt_tick, tick, inc_tick, timeout, asleep, clock, anchor, periods   \* of PeriodicDelay

delayVars == <<rt_tick, tick, inc_tick, timeout, asleep, clock, anchor, periods>>
vars == <<call, pc, out, delayVars>>

Delay == INSTANCE PeriodicDelay

NULL == -1
Forever == -1

-----------------------------------------------------------------------------
(* The inputs.                                                             *)

\* A memory of which every byte is different, with room for two blocks that overlap,
\* are as long as five words and begin anywhere in a word.
Memory == [x \in 0 .. 47 |-> x + 1]
Blocks ==
  [fn : {"rt_memcpy", "rt_memmove"}, m : {Memory},
   d : 0 .. 24, s : {4, 7, 12, 20}, n : 0 .. 21]
Fills == [fn : {"rt_memset"}, m : {Memory}, s : 0 .. 7, c : {0, 421}, n : 0 .. 21]

\* Two strings, in the fields at 0 and at 4 of a memory with room after them.
Fields(chars) ==
  {[x \in 0 .. 13 |-> IF x \in {3, 7} THEN 0 ELSE IF x < 7 THEN f[x] ELSE 255] :
     f \in [(0 .. 6) \ {3} -> chars]}
Strings ==
  [fn : {"rt_memcmp", "rt_strncmp", "rt_strncpy"}, m : Fields({0, 97, 200}),
   a : {0}, b : {4}, n : {0, 2, 4}]
  \union
  [fn : {"rt_strcmp", "rt_strcasecmp", "rt_strstr", "rt_strcpy", "rt_strnlen"},
   m : Fields({0, 65, 97}), a : {0}, b : {4}, n : {2}]

Ffs == [fn : {"__rt_ffs"}, word : [1 .. 4 -> {0, 1, 6, 128, 255}]]

AlignedBlocks ==
  [fn : {"rt_malloc_align"}, ptr : {Long * p : p \in 1 .. 16}, size : 0 .. 9,
   align : {1, 2, 4, 8, 16, 32}]

Milliseconds ==
  [fn : {"rt_tick_from_millisecond"}, ms : -1 .. 1100, persecond : {3, 100, 1000}]

\* A conversion, and its format; the width and the precision may be arguments.
Spec1(flags, width, star, precision, conversion) ==
  [flags |-> flags, width |-> width, star |-> star, precision |-> precision,
   conversion |-> conversion]

Format(c) ==
  LET Number(n) == IF n = -1 THEN <<>> ELSE <<Digits[n + 1]>>
  IN  <<"%">> \o SetToSeq(c.flags) \o (IF c.star THEN <<"*">> ELSE Number(c.width))
        \o (IF c.precision = -1 THEN <<>> ELSE <<".">> \o Number(c.precision))
        \o c.conversion

Arguments(c, v) == IF c.star THEN <<c.width, v>> ELSE <<v>>

Values == {-(2 ^ (Bits - 1)), -7, -1, 0, 1, 9, 10, 2 ^ (Bits - 1) - 1, 2 ^ Bits - 1}
Words == {<<>>, <<"p", "i", "c", "o">>, NullPointer}

NumberSpecs ==
  {Spec1(flags, width[1], width[2], precision, conversion) :
     flags \in SUBSET {"-", "+", " ", "0"},
     width \in {<<-1, FALSE>>, <<2, FALSE>>, <<6, FALSE>>, <<5, TRUE>>, <<-5, TRUE>>},
     precision \in {-1, 1, 4}, conversion \in {<<"d">>, <<"u">>, <<"x">>, <<"h", "i">>, <<"l", "X">>}}
TextSpecs(conversion) ==
  {Spec1(flags, width, FALSE, precision, <<conversion>>) :
     flags \in SUBSET {"-"}, width \in {-1, 2, 6}, precision \in {-1, 2}}
TaskSpecs ==
  {Spec1(flags, width, FALSE, -1, <<conversion>>) :
     flags \in SUBSET {"0"}, width \in {-1, 2, 6}, conversion \in {"d", "u", "x", "X"}}
PointerSpec == Spec1({}, -1, FALSE, -1, <<"p">>)
TextSpec == Spec1({}, -1, FALSE, -1, <<"s">>)

Printed ==
  \/ call \in [fn : {"rt_vsnprintf"}, c : NumberSpecs, v : Values, size : {9}]
  \/ call \in [fn : {"rt_vsnprintf"}, c : TextSpecs("s"), v : Words, size : 0 .. 9]
  \/ call \in [fn : {"rt_vsnprintf"}, c : TextSpecs("c"), v : {"z"}, size : {9}]
  \/ call \in [fn : {"printf_"}, c : TaskSpecs, v : Values]
  \/ call \in [fn : {"rt_vsnprintf", "printf_"}, c : {PointerSpec}, v : {1, 16, 171}, size : {9}]
  \/ call \in [fn : {"printf_", "rt_kprintf"}, c : {TextSpec}, v : Words \ {NullPointer}, size : 2 .. 9]

\* The conversion stands between other text.
FormatOf(c) == <<"<">> \o Format(c) \o <<"%", "%", ">">>
Buffer == [i \in 1 .. 20 |-> "?"]

\* No delay is in progress.
NoDelay ==
  /\ rt_tick = 0 /\ tick = 0 /\ inc_tick = 0 /\ timeout = 0 /\ asleep = FALSE
  /\ clock = 0 /\ anchor = 0 /\ periods = 0

\* Nothing is called.
Idle == call = [fn |-> "none"] /\ pc = "returned" /\ out = NULL /\ NoDelay

Init ==
  /\ pc = "called" /\ out = NULL
  /\ \/ /\ call \in Blocks \/ call \in Fills \/ call \in Strings \/ call \in Ffs
           \/ call \in AlignedBlocks \/ call \in Milliseconds \/ Printed
        /\ NoDelay
     \/ /\ call = [fn |-> "rt_thread_delay_until"]
        /\ Delay!Init

-----------------------------------------------------------------------------
(* The calls.                                                              *)

Calls(fn) == pc = "called" /\ call.fn = fn /\ pc' = "returned" /\ UNCHANGED <<call, delayVars>>

Copy ==
  \/ Calls("rt_memcpy") /\ out' = rt_memcpy(call.m, call.d, call.s, call.n)
  \/ Calls("rt_memmove") /\ out' = rt_memmove(call.m, call.d, call.s, call.n)
  \/ Calls("rt_memset") /\ out' = rt_memset(call.m, call.s, call.c, call.n)
  \/ Calls("rt_strcpy") /\ out' = rt_strcpy(call.m, 8, call.a)
  \/ Calls("rt_strncpy") /\ out' = rt_strncpy(call.m, 8, call.a, call.n)

Compare ==
  \/ Calls("rt_memcmp") /\ out' = rt_memcmp(call.m, call.a, call.b, call.n)
  \/ Calls("rt_strcmp") /\ out' = rt_strcmp(call.m, call.a, call.b)
  \/ Calls("rt_strncmp") /\ out' = rt_strncmp(call.m, call.a, call.b, call.n)
  \/ Calls("rt_strcasecmp") /\ out' = rt_strcasecmp(call.m, call.a, call.b)

Search ==
  \/ Calls("rt_strstr") /\ out' = rt_strstr(call.m, call.a, call.b, NULL)
  \/ Calls("rt_strnlen") /\ out' = rt_strnlen(call.m, call.a, call.n)
  \/ Calls("__rt_ffs") /\ out' = __rt_ffs(call.word)

Measure ==
  \/ Calls("rt_malloc_align") /\ out' = rt_malloc_align(call.ptr, call.align)
  \/ /\ Calls("rt_tick_from_millisecond")
     /\ out' = Delay!rt_tick_from_millisecond(call.ms, call.persecond, Forever)

Printing ==
  \/ /\ Calls("rt_vsnprintf")
     /\ out' = rt_vsnprintf(Buffer, call.size, FormatOf(call.c), Arguments(call.c, call.v))
  \/ Calls("printf_") /\ out' = printf_(FormatOf(call.c), Arguments(call.c, call.v))
  \/ /\ Calls("rt_kprintf")
     /\ out' = rt_kprintf(call.size, FormatOf(call.c), Arguments(call.c, call.v))

Delaying == call.fn = "rt_thread_delay_until" /\ Delay!Next /\ UNCHANGED <<call, pc, out>>

Next == Copy \/ Compare \/ Search \/ Measure \/ Printing \/ Delaying

Spec == Init /\ [][Next]_vars

Returned(fns) == pc = "returned" /\ call.fn \in fns

-----------------------------------------------------------------------------
(* What the routines promise.                                              *)

\* The bytes from a on, up to a 0, and n at most: what a string function looks at.
StringAt(m, a, n) ==
  LET end == CHOOSE e \in a .. a + n : (e = a + n \/ m[e] = 0) /\ \A x \in a .. e - 1 : m[x] # 0
  IN  [i \in 1 .. end - a |-> m[a + i - 1]]

\* Memory is changed from d on, by n bytes, and nowhere else.
Changed(m, d, n, byte(_)) == [x \in DOMAIN m |-> IF x \in d .. d + n - 1 THEN byte(x - d) ELSE m[x]]

\* A block copy and a fill reach every byte of the block and no other, wherever in a
\* word the block begins and ends; rt_memmove whatever the overlap, rt_memcpy unless
\* the copy begins inside the source.  A string copy ends with a 0, and rt_strncpy
\* clears what is left of its field.
CopiesExactly ==
  /\ Returned({"rt_memcpy", "rt_memmove"}) =>
       \/ call.fn = "rt_memcpy" /\ call.d \in call.s + 1 .. call.s + call.n - 1
       \/ out = Changed(call.m, call.d, call.n, LAMBDA i : call.m[call.s + i])
  /\ Returned({"rt_memset"}) => out = Changed(call.m, call.s, call.n, LAMBDA i : call.c % 256)
  /\ Returned({"rt_strcpy"}) =>
       LET s == Append(StringAt(call.m, call.a, 4), 0)
       IN  out = Changed(call.m, 8, Len(s), LAMBDA i : s[i + 1])
  /\ Returned({"rt_strncpy"}) =>
       LET s == StringAt(call.m, call.a, call.n)
       IN  out = Changed(call.m, 8, call.n, LAMBDA i : IF i < Len(s) THEN s[i + 1] ELSE 0)

\* The order of two sequences of bytes, a shorter one before what it begins.
Before(s, t) ==
  \E k \in 1 .. Len(t) :
    /\ k <= Len(s) + 1 /\ \A i \in 1 .. k - 1 : s[i] = t[i]
    /\ k <= Len(s) => s[k] < t[k]
Ordered(result, s, t) == (result < 0 <=> Before(s, t)) /\ (result > 0 <=> Before(t, s))
Lower(s) == [i \in DOMAIN s |-> LowerCase(s[i])]

\* A comparison tells which of two strings is the smaller, and is 0 only for equal
\* ones; rt_strncmp, which answers in a signed char, tells it of ASCII strings.
ComparesInOrder ==
  pc = "returned" /\ call.fn \in {"rt_memcmp", "rt_strcmp", "rt_strncmp", "rt_strcasecmp"} =>
    LET n == IF call.fn \in {"rt_memcmp", "rt_strncmp"} THEN call.n ELSE 4
        s == StringAt(call.m, call.a, n)
        t == StringAt(call.m, call.b, n)
    IN  CASE call.fn = "rt_memcmp" -> Ordered(out, Load(call.m, call.a, n), Load(call.m, call.b, n))
          [] call.fn = "rt_strcmp" -> Ordered(out, s, t)
          [] call.fn = "rt_strcasecmp" -> Ordered(out, Lower(s), Lower(t))
          [] OTHER -> /\ out = 0 <=> s = t
                      /\ Range(s) \union Range(t) \subseteq 0 .. 127 => Ordered(out, s, t)

\* rt_strstr returns the first place of one string in the other, rt_strnlen the
\* length up to its limit, and __rt_ffs the number of the lowest bit, from 1.
SearchesRight ==
  /\ Returned({"rt_strstr"}) =>
       LET s == StringAt(call.m, call.a, 4)
           t == StringAt(call.m, call.b, 4)
           places == {i \in 0 .. Len(s) - Len(t) : SubSeq(s, i + 1, i + Len(t)) = t}
       IN  out = IF places = {} THEN NULL ELSE call.a + Min(places)
  /\ Returned({"rt_strnlen"}) => out = Len(StringAt(call.m, call.a, call.n))
  /\ Returned({"__rt_ffs"}) =>
       LET set == {b \in 0 .. 31 : (call.word[b \div 8 + 1] \div 2 ^ (b % 8)) % 2 = 1}
       IN  out = IF set = {} THEN 0 ELSE Min(set) + 1

\* An aligned block begins at a multiple of the alignment, has room before it for the
\* pointer rt_free_align wants, and ends within what rt_malloc gave.
AlignedInside ==
  Returned({"rt_malloc_align"}) =>
    /\ out % call.align = 0
    /\ out - Long >= call.ptr
    /\ out + call.size <= call.ptr + AlignedSize(call.size, call.align)

\* A delay in milliseconds is never cut short, and not a tick longer than it must be.
DelaysLongEnough ==
  Returned({"rt_tick_from_millisecond"}) =>
    IF call.ms < 0 THEN out = Forever
    ELSE out * 1000 >= call.ms * call.persecond /\ (out - 1) * 1000 < call.ms * call.persecond

-----------------------------------------------------------------------------
(* What C says of the conversions.                                         *)

\* The digits of n in a base: as few as there can be, and one at least.
CDigits(n, base, digits) ==
  LET count == CHOOSE k \in 1 .. Bits : n < base ^ k /\ (k = 1 \/ n >= base ^ (k - 1))
  IN  [i \in 1 .. count |-> digits[((n \div base ^ (count - i)) % base) + 1]]

Padded(sign, text, width, left, zero) ==
  LET pad == width - Len(sign) - Len(text)
  IN  CASE left -> sign \o text \o Times(pad, " ")
        [] ~left /\ zero -> sign \o Times(pad, "0") \o text
        [] OTHER -> Times(pad, " ") \o sign \o text

\* The value an argument of a conversion stands for.
CValue(v, conversion) ==
  CASE conversion = <<"d">> -> Signed(v, Bits)
    [] conversion = <<"h", "i">> -> Signed(v, Bits \div 2)
    [] OTHER -> Unsigned(v, Bits)

CNumber(c, v) ==
  LET n == CValue(v, c.conversion)
      signed == c.conversion \in {<<"d">>, <<"h", "i">>}
      left == "-" \in c.flags \/ c.width < -1
      text == CDigits(IF n < 0 THEN -n ELSE n, IF signed \/ c.conversion = <<"u">> THEN 10 ELSE 16,
                      IF c.conversion \in {<<"l", "X">>, <<"X">>} THEN large_digits ELSE small_digits)
      sign == CASE n < 0 -> <<"-">>
                [] n >= 0 /\ signed /\ "+" \in c.flags -> <<"+">>
                [] OTHER -> IF signed /\ " " \in c.flags THEN <<" ">> ELSE <<>>
  IN  Padded(sign, Times(c.precision - Len(text), "0") \o text,
             IF c.width < -1 THEN -c.width ELSE c.width, left, "0" \in c.flags)

CString(c, s) ==
  LET shown == IF s = NullPointer THEN <<"(", "N", "U", "L", "L", ")">> ELSE s
  IN  Padded(<<>>, IF c.precision = -1 THEN shown ELSE SubSeq(shown, 1, Min({c.precision, Len(shown)})), c.width,
             "-" \in c.flags, FALSE)

\* C leaves it open: all the digits of the address, which printf_ begins with 0x.
CPointer(v) ==
  (IF call.fn = "printf_" THEN <<"0", "x">> ELSE <<>>)
    \o Padded(<<>>, CDigits(v, 16, small_digits), Bits \div 4, FALSE, TRUE)

CText(c, v) ==
  <<"<">> \o (CASE c.conversion = <<"s">> -> CString(c, v)
                [] c.conversion = <<"c">> -> Padded(<<>>, <<v>>, c.width, "-" \in c.flags, FALSE)
                [] c.conversion = <<"p">> -> CPointer(v)
                [] OTHER -> CNumber(c, v)) \o <<"%", ">">>

\* Where rt_vsnprintf departs from C: a width cuts a string, and '0' fills up with
\* zeros although there is a precision.  printf_ knows '0' with x and X only, and puts
\* a sign before the width.
AsInC(c, v) ==
  CASE call.fn = "rt_vsnprintf" /\ c.conversion = <<"s">> ->
         c.width = -1 \/ Len(IF v = NullPointer THEN <<1, 2, 3, 4, 5, 6>> ELSE v) <= c.width
    [] call.fn = "rt_vsnprintf" /\ c.conversion # <<"s">> -> ~("0" \in c.flags /\ c.precision > 0)
    [] OTHER -> c.conversion \in {<<"s">>, <<"p">>}
                  \/ /\ "0" \in c.flags => c.conversion \in {<<"x">>, <<"X">>}
                     /\ CValue(v, c.conversion) < 0 => c.width = -1

\* A conversion yields the text that C gives it, in its width and with its sign, also
\* of the number whose negative overflows, as far as the buffer goes; rt_vsnprintf
\* returns the length of a text that fits.  Of one that does not it returns the length
\* of the whole, where kservice.c:884 says "the number of characters actually written
\* to buffer".
FormatsAsC ==
  /\ Returned({"rt_vsnprintf"}) /\ AsInC(call.c, call.v) =>
       LET text == CText(call.c, call.v)
       IN  /\ Len(text) < call.size => out.len = Len(text)
           /\ \A i \in 1 .. call.size - 1 : i <= Len(text) => out.buf[i] = text[i]
  /\ Returned({"printf_"}) /\ AsInC(call.c, call.v) => out = CText(call.c, call.v)

\* Nothing is written past the buffer, and what is in it ends with a Nul: rt_kprintf
\* puts as much of the text on the console as its buffer holds.
EndsInBuffer ==
  /\ Returned({"rt_vsnprintf"}) =>
       /\ \A i \in DOMAIN Buffer : i > call.size => out.buf[i] = Buffer[i]
       /\ call.size > 0 => \E i \in 1 .. call.size : out.buf[i] = Nul
  /\ Returned({"rt_kprintf"}) =>
       out = SubSeq(CText(call.c, call.v), 1, Min({call.size - 2, Len(CText(call.c, call.v))}))
=============================================================================
