------------------------------- MODULE ZigZag -------------------------------
(***************************************************************************)
(* Machine integers and their zigzag numbers, as every serializer of the   *)
(* repository computes them before the VLQ.  A width of w bits is given as *)
(* half == 2^(w - 1).  A shift right of a number in two's complement is    *)
(* its floor, `\div`, and an exclusive or with the sign word 0 or -1 keeps *)
(* or complements.                                                         *)
(***************************************************************************)
EXTENDS Integers

InRange(v, half) == -half <= v /\ v < half

\* What a machine word keeps of v, unsigned and signed.
Unsigned(v, half) == v % (2 * half)
Wrap(v, half) == Unsigned(v + half, half) - half

\* y ^ s for an even y and the sign word s of a number of at most one bit too
\* many: 0 and -1 in range, 1 and -2 outside.
XorSign(y, s) ==
    CASE s = 0 -> y [] s = -1 -> -y - 1 [] s = 1 -> y + 1 [] s = -2 -> -y - 2

\* Variant: the sign of negative numbers is lost.
zigZagEncode_Magnitude(v, half) == IF v < 0 THEN -2 * v ELSE 2 * v

\* (value << 1) ^ (value >> (bits - 1)), without a limit on the result.
zigZagEncode(v, half) == XorSign(2 * v, v \div half)

\* (value >> 1) ^ -(value & 1)
zigZagDecode(z) == IF z % 2 = 0 THEN z \div 2 ELSE -(z \div 2) - 1

=============================================================================
