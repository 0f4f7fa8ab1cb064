------------------------------ MODULE MemoryOps ------------------------------
(***************************************************************************)
(* The memory and string routines of kservice.c, as the build without      *)
(* RT_KSERVICE_USING_TINY_SIZE and RT_USING_TINY_FFS compiles them.        *)
(*                                                                         *)
(* A memory is a function from addresses to bytes; a routine that writes   *)
(* is the function from the memory before to the memory after.  A char is  *)
(* unsigned, as gcc has it on RISC-V.                                      *)
(***************************************************************************)
EXTENDS Integers, Sequences, SequencesExt

CONSTANT Long   \* sizeof(long), and of a pointer: 4 on RV32

Byte == 0 .. 255

\* Bytes are stored from address a on, and loaded.
Store(m, a, bytes) ==
  [x \in DOMAIN m |-> IF x \in a .. a + Len(bytes) - 1 THEN bytes[x - a + 1] ELSE m[x]]

Load(m, a, n) == [i \in 1 .. n |-> m[a + i - 1]]

Aligned(a) == a % Long = 0

-----------------------------------------------------------------------------
(* Copying.                                                                *)

\* The unit at s is copied to d.
Move(m, d, s, unit) == Store(m, d, Load(m, s, unit))

\* n units are copied one after the other upwards, or n bytes downwards.
CopyUp(m, d, s, n, unit) ==
  LET after[i \in 0 .. n] ==
        IF i = 0 THEN m ELSE Move(after[i - 1], d + unit * (i - 1), s + unit * (i - 1), unit)
  IN  after[n]

CopyDown(m, d, s, n) ==
  LET after[i \in 0 .. n] == IF i = 0 THEN m ELSE Move(after[i - 1], d + n - i, s + n - i, 1)
  IN  after[n]

\* The unit is stored n times.
Fill(m, s, n, unit) ==
  LET after[i \in 0 .. n] ==
        IF i = 0 THEN m ELSE Store(after[i - 1], s + Len(unit) * (i - 1), unit)
  IN  after[n]

\* Mutant: the tail starts where the source of the words started.
rt_memcpyTail(m, d, s, n) ==
  LET words == IF n >= 4 * Long /\ Aligned(d) /\ Aligned(s) THEN n \div Long ELSE 0
      done == words * Long
  IN  CopyUp(CopyUp(m, d, s, words, Long), d + done, s, n - done, 1)

\* Words as long as there is one, if there are four at least, and the rest byte by
\* byte; the loop over four words at a time copies the same words in the same order.
rt_memcpy(m, d, s, n) ==
  LET words == IF n >= 4 * Long /\ Aligned(d) /\ Aligned(s) THEN n \div Long ELSE 0
      done == words * Long
  IN  CopyUp(CopyUp(m, d, s, words, Long), d + done, s + done, n - done, 1)

rt_memmove(m, d, s, n) ==
  IF s < d /\ d < s + n THEN CopyDown(m, d, s, n) ELSE CopyUp(m, d, s, n, 1)

rt_memset(m, s, c, n) ==
  LET byte == c % 256
      words == IF n >= Long /\ Aligned(s) THEN n \div Long ELSE 0
      done == words * Long
      buffer == [x \in 1 .. Long |-> byte]
  IN  Fill(Fill(m, s, words, buffer), s + done, n - done, <<byte>>)

-----------------------------------------------------------------------------
(* Strings: the bytes from an address up to a byte 0.                      *)

rt_strlen(m, s) ==
  LET from[a \in Nat] == IF m[a] = 0 THEN a - s ELSE from[a + 1] IN from[s]

rt_strnlen(m, s, maxlen) ==
  LET from[a \in Nat] == IF m[a] # 0 /\ a - s < maxlen THEN from[a + 1] ELSE a - s
  IN  from[s]

\* How many bytes a loop copies from s to d before it comes to a 0 or has copied n.
BytesBefore0(m, d, s, n) ==
  CHOOSE i \in 0 .. n : /\ i = n \/ CopyUp(m, d, s, i, 1)[s + i] = 0
                        /\ \A j \in 0 .. i - 1 : CopyUp(m, d, s, j, 1)[s + j] # 0

\* A string that does not end is undefined.
rt_strcpy(m, d, s) ==
  LET n == BytesBefore0(m, d, s, Cardinality(DOMAIN m))
  IN  Store(CopyUp(m, d, s, n, 1), d + n, <<0>>)

rt_strncpy(m, d, s, n) ==
  LET k == BytesBefore0(m, d, s, n)
  IN  Store(CopyUp(m, d, s, k, 1), d + k, [x \in 1 .. n - k |-> 0])

-----------------------------------------------------------------------------
(* Comparing.                                                              *)

rt_memcmp(m, a, b, n) ==
  LET from[i \in Nat] ==
        IF i = n THEN 0 ELSE IF m[a + i] # m[b + i] THEN m[a + i] - m[b + i] ELSE from[i + 1]
  IN  from[0]

rt_strcmp(m, a, b) ==
  LET from[i \in Nat] ==
        IF m[a + i] # 0 /\ m[a + i] = m[b + i] THEN from[i + 1] ELSE m[a + i] - m[b + i]
  IN  from[0]

\* A difference of characters in a signed char.
SignedChar(x) == ((x + 128) % 256) - 128

\* Mutant: the end of the string does not end the comparison.
rt_strncmpPastEnd(m, a, b, n) ==
  LET from[i \in Nat] ==
        IF i = n THEN 0
        ELSE IF m[a + i] # m[b + i] THEN SignedChar(m[a + i] - m[b + i])
        ELSE from[i + 1]
  IN  from[0]

rt_strncmp(m, a, b, n) ==
  LET from[i \in Nat] ==
        IF i = n THEN 0
        ELSE IF m[a + i] # m[b + i] THEN SignedChar(m[a + i] - m[b + i])
        ELSE IF m[a + i] = 0 THEN 0
        ELSE from[i + 1]
  IN  from[0]

LowerCase(c) == IF c \in 65 .. 90 THEN c + 32 ELSE c

rt_strcasecmp(m, a, b) ==
  LET from[i \in Nat] ==
        LET ca == LowerCase(m[a + i])  cb == LowerCase(m[b + i])
        IN  IF ca = cb /\ ca # 0 THEN from[i + 1] ELSE ca - cb
  IN  from[0]

\* The address of the first s2 in s1.
rt_strstr(m, s1, s2, null) ==
  LET l1 == rt_strlen(m, s1)
      l2 == rt_strlen(m, s2)
      from[i \in Nat] ==
        IF l1 - i < l2 THEN null ELSE IF rt_memcmp(m, s1 + i, s2, l2) = 0 THEN s1 + i ELSE from[i + 1]
  IN  IF l2 = 0 THEN s1 ELSE from[0]

-----------------------------------------------------------------------------
(* Bits and aligned blocks.                                                *)

\* The number of the lowest bit of a byte that is set, 0 if none is.
__lowest_bit_bitmap[byte \in Byte] ==
  IF byte = 0 \/ byte % 2 = 1 THEN 0 ELSE 1 + __lowest_bit_bitmap[byte \div 2]

\* word holds the bytes of the value, the least significant first.
__rt_ffs(word) ==
  CASE word = <<0, 0, 0, 0>> -> 0
    [] word[1] # 0 -> __lowest_bit_bitmap[word[1]] + 1
    [] word[1] = 0 /\ word[2] # 0 -> __lowest_bit_bitmap[word[2]] + 9
    [] word[1] = 0 /\ word[2] = 0 /\ word[3] # 0 -> __lowest_bit_bitmap[word[3]] + 17
    [] OTHER -> __lowest_bit_bitmap[word[4]] + 25

RoundUp(x, to) == ((x + to - 1) \div to) * to

\* What rt_malloc_align asks rt_malloc for.
AlignedSize(size, align) == RoundUp(size, Long) + RoundUp(align, Long)

\* What it returns when rt_malloc gave it ptr; ptr is stored in the word before.
rt_malloc_align(ptr, align) ==
  LET to == RoundUp(align, Long)
  IN  IF ptr % to = 0 THEN ptr + to ELSE RoundUp(ptr, to)
=============================================================================
