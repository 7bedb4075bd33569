------------------------------ MODULE MipsWord ------------------------------
(***************************************************************************)
(* The arithmetic of C ints on a small machine.  A word has four bytes of  *)
(* B bits, a half word two; every mask and shift of the simulators is a    *)
(* multiple of the byte, so they scale with B (the host has B = 8).  Words *)
(* are kept unsigned.                                                      *)
(***************************************************************************)
EXTENDS Integers, Bitwise

CONSTANTS
  B,            \* bits of a byte
  TargetBits    \* the width of a jump's target, 26 on the host

ASSUME WordAssumption ==
  /\ B \in {1, 2, 4, 8}   \* so that W is a power of two
  /\ TargetBits \in 1..(4 * B - 2)

H == 2 * B
W == 4 * B

Words == 0..(2^W - 1)

\* The word an integer is stored as, and the int a word holds.
Word(n) == n % 2^W
Neg(w) == w >= 2^(W - 1)
Signed(w) == IF Neg(w) THEN w - 2^W ELSE w
Magnitude(w) == IF Neg(w) THEN Word(-w) ELSE w
Complement(w) == 2^W - 1 - w

\* The value of the low bits of a word, with and without its sign.
Low(w, bits) == w % 2^bits
SignExtend(w, bits) ==
  IF Low(w, bits) >= 2^(bits - 1) THEN Word(Low(w, bits) - 2^bits) ELSE Low(w, bits)

\* The high bits of an address that a jump does not change.
Region(w) == w - Low(w, TargetBits + 2)

\* <<, >> on an int, and >> on an unsigned.
ShiftLeft(w, n) == Word(w * 2^n)
ShiftRight(w, n) == Word(Signed(w) \div 2^n)
ShiftRightU(w, n) == w \div 2^n

\* / and % of C, which round towards zero.
Quotient(a, b) ==
  LET q == (IF a < 0 THEN -a ELSE a) \div (IF b < 0 THEN -b ELSE b)
  IN  IF (a < 0) = (b < 0) THEN q ELSE -q
Remainder(a, b) == a - b * Quotient(a, b)

\* Reading and writing n bytes of a little-endian memory at an address.
BytesAt(mem, addr, n) ==
  LET part[k \in 0..n] == IF k = 0 THEN 0 ELSE part[k - 1] + mem[addr + k - 1] * 2^(B * (k - 1))
  IN  part[n]
WithBytes(mem, addr, n, w) ==
  [a \in DOMAIN mem |->
    IF a \in addr..(addr + n - 1) THEN (w \div 2^(B * (a - addr))) % 2^B ELSE mem[a]]
=============================================================================
