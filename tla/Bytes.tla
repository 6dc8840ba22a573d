-------------------------------- MODULE Bytes --------------------------------
(***************************************************************************)
(* C's ^ and | on numbers of eight bits, such as the uint8_t of hup and of *)
(* the HIP headers.  Bitwise has them for every number, by operators that  *)
(* are RECURSIVE; these are sums over the eight places, which the proofs   *)
(* can expand.                                                             *)
(***************************************************************************)
EXTENDS Naturals

\* The bit of x whose place is worth k, and the number with the bits B.
Bit(x, k) == (x \div k) % 2
OfBits(B(_)) ==
  B(1) + 2 * B(2) + 4 * B(4) + 8 * B(8) + 16 * B(16) + 32 * B(32) + 64 * B(64) + 128 * B(128)

BitXor(x, y) == OfBits(LAMBDA k : (Bit(x, k) + Bit(y, k)) % 2)
BitOr(x, y)  == OfBits(LAMBDA k : IF Bit(x, k) + Bit(y, k) = 0 THEN 0 ELSE 1)

=============================================================================
