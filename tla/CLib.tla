-------------------------------- MODULE CLib --------------------------------
(***************************************************************************)
(* The pure functions of lib/string.c and kernel/printk.c.  A character is *)
(* its code.  A string is a sequence without its NUL; where the code looks *)
(* at memory behind a string, or fills it, it is an array, indexed from 0. *)
(* Nothing here has state: the static buffers of itoa and convert are read *)
(* before anybody writes to them again.                                    *)
(***************************************************************************)
EXTENDS Integers, SequencesExt

CONSTANTS
  INT_BITS,         \* the width of an int (32 in the code)
  FILENAME_LENGTH,  \* characters of a file name that are stored (24)
  Alphabet          \* bound: the characters that names are made of

ASSUME CLibAssumption ==
  /\ INT_BITS \in Nat /\ INT_BITS > 7
  /\ FILENAME_LENGTH \in Nat \ {0}
  /\ Alphabet \subseteq 1 .. 127

\* An int has at most 32 bits; and what the provers do not know of powers.
ASSUME PowersAssumption ==
  /\ 2^(INT_BITS - 1) \in Nat
  /\ 2^(INT_BITS - 1) >= 128 /\ 2^(INT_BITS - 1) - 1 <= 2147483647
  /\ 2^INT_BITS = 2 * 2^(INT_BITS - 1)

NUL == 0
percent == 37
minus == 45
zero == 48

ints == -(2^(INT_BITS - 1)) .. 2^(INT_BITS - 1) - 1

\* An int, converted to unsigned.
unsigned(n) == n % 2^INT_BITS

\* An unsigned, converted to int.
signed(n) == IF n < 2^(INT_BITS - 1) THEN n ELSE n - 2^INT_BITS

Magnitude(n) == IF n < 0 THEN -n ELSE n

-----------------------------------------------------------------------------
(* Numbers.                                                                *)

\* "0123456789ABCDEF"
Representation(digit) == IF digit < 10 THEN zero + digit ELSE 55 + digit

convert(num, base) ==
  LET digits[n \in 0 .. num] ==
        IF n < base THEN <<Representation(n)>>
        ELSE Append(digits[n \div base], Representation(n % base))
  IN  digits[num]

\* a % 10 has the sign of a, and so has what is added to '0'.
itoa(a) ==
  LET digit(n) == IF a < 0 THEN zero - n ELSE zero + n
      digits[n \in 0 .. Magnitude(a)] ==
        IF n < 10 THEN <<digit(n)>> ELSE Append(digits[n \div 10], digit(n % 10))
  IN  digits[Magnitude(a)]

\* Mutant: the sign is left to convert.
decimal_NoSign(i) == convert(unsigned(i), 10)

\* %d: `i = -i' wraps for the least int, and convert takes it as unsigned.
decimal(i) ==
  IF i < 0 THEN <<minus>> \o convert(unsigned(signed(unsigned(-i))), 10)
  ELSE convert(i, 10)

\* What a directive prints of its argument; %s has a string.
directive(d, arg) ==
  CASE d = 100 -> decimal(arg)
    [] d = 120 -> convert(unsigned(arg), 16)
    [] d = 99  -> <<arg % 256>>
    [] d = 115 -> arg

Directives == {100, 120, 99, 115}

\* The characters that go to the printer: i is where ctl points, k the next
\* argument.  ctl does not end in a single %: the loop would run on behind the
\* string.
vfprintf(ctl, args) ==
  LET text[i \in 1 .. Len(ctl) + 1, k \in 1 .. Len(ctl) + 1] ==
        IF i > Len(ctl) THEN << >>
        ELSE IF ctl[i] # percent THEN <<ctl[i]>> \o text[i + 1, k]
        ELSE IF ctl[i + 1] \in Directives
             THEN directive(ctl[i + 1], args[k]) \o text[i + 2, k + 1]
        ELSE text[i + 2, k]
  IN  text[1, 1]

-----------------------------------------------------------------------------
(* Strings in memory.                                                      *)

\* The bytes of a string, and the string at the start of some bytes.
Bytes(s) == [i \in 0 .. Len(s) |-> IF i < Len(s) THEN s[i + 1] ELSE NUL]

strlen(a) == CHOOSE n \in DOMAIN a : a[n] = NUL /\ \A j \in 0 .. n - 1 : a[j] # NUL

\* d, with s and its NUL at its start.
strcpy(d, s) == [i \in DOMAIN d |-> IF i <= Len(s) THEN Bytes(s)[i] ELSE d[i]]

\* Mutant: the NUL is not copied.
strncpy_NoNul(dest, src, n) ==
  [i \in DOMAIN dest |-> IF i < n /\ i < Len(src) THEN src[i + 1] ELSE dest[i]]

\* The rest of the n bytes is 0; a string of n characters has no NUL.
strncpy(dest, src, n) ==
  [i \in DOMAIN dest |->
     IF i >= n THEN dest[i] ELSE IF i <= Len(src) THEN Bytes(src)[i] ELSE NUL]

\* Not an order: 1 if they differ.  Nothing behind a common NUL is looked at.
strncmp(s1, s2, n) ==
  IF \E i \in 0 .. n - 1 : (\A j \in 0 .. i - 1 : s1[j] # NUL) /\ s1[i] # s2[i]
  THEN 1 ELSE 0

-----------------------------------------------------------------------------
(* Properties.                                                             *)

\* The number that the digits of a string stand for.
DigitOf(c) == CHOOSE d \in 0 .. 15 : Representation(d) = c

ValueOf(s, base) == FoldLeft(LAMBDA v, c : base * v + DigitOf(c), 0, s)

\* Of the int n: %d and %x give it exactly, the one with a sign, the other as
\* unsigned; no superfluous 0.
PrintsExactly(n) ==
  LET d == decimal(n)
      x == convert(unsigned(n), 16)
  IN  /\ IF n < 0 THEN d[1] = minus /\ ValueOf(Tail(d), 10) = -n
                  ELSE ValueOf(d, 10) = n
      /\ ValueOf(x, 16) = unsigned(n)
      /\ (x[1] = zero => Len(x) = 1)

\* Of the int n: itoa is %d, or gives no digits but characters of the font; its
\* copy on the stack is as long.
DrawsLikePrintk(n) ==
  LET s == itoa(n)
      stack == [i \in 0 .. 29 |-> 1]
  IN  /\ IF n >= 0 THEN s = decimal(n) ELSE \A c \in ToSet(s) : c \in 1 .. 127
      /\ strlen(strcpy(stack, s)) = Len(s)

Prefix(s) ==
  SubSeq(s, 1, IF Len(s) < FILENAME_LENGTH THEN Len(s) ELSE FILENAME_LENGTH)

\* Of a name and one that was stored over some old entry: fs_open takes them
\* for the same if and only if their first characters are.
SameFile(name, stored) ==
  \A old \in [0 .. FILENAME_LENGTH - 1 -> Alphabet \cup {NUL}] :
    strncmp(Bytes(name), strncpy(old, stored, FILENAME_LENGTH), FILENAME_LENGTH) = 0
      <=> Prefix(name) = Prefix(stored)

=============================================================================
