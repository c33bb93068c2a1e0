---------------------------------- MODULE Crc8 ----------------------------------
(* crc8_maxim_, the checksum of V2 frames, and what its comment says it is.   *)
(* A byte is worked on as the set of its bits that are one, so that exclusive *)
(* or is the symmetric difference.                                            *)
EXTENDS Naturals, Sequences

BitNumbers == 0 .. 7
Bits(byte) == {k \in BitNumbers : (byte \div 2^k) % 2 = 1}

Plus(a, b) == (a \ b) \cup (b \ a)

\* Faulty: the polynomial is not reflected (31h instead of 8Ch).
HalveUnreflected(crc) ==
    LET down == {k - 1 : k \in crc \ {0}}
    IN  IF 0 \in crc THEN Plus(down, {0, 4, 5}) ELSE down

\* One round of the inner loop: shift right, and add 8Ch if a one falls out.
Halve(crc) ==
    LET down == {k - 1 : k \in crc \ {0}}
    IN  IF 0 \in crc THEN Plus(down, {2, 3, 7}) ELSE down

\* The inner loop, for each value it can start from.
Rounds == [crc \in SUBSET BitNumbers |->
              LET after[n \in 0 .. 8] == IF n = 0 THEN crc ELSE Halve(after[n - 1])
              IN  after[8]]

\* crc8_maxim_, of a sequence of bytes.
Crc8(data) ==
    LET crc[i \in 0 .. Len(data)] ==
            IF i = 0 THEN {} ELSE Rounds[Plus(crc[i - 1], Bits(data[i]))]
    IN  crc[Len(data)]

-------------------------------------------------------------------------------
(* The definition of CRC-8/MAXIM: the data is a polynomial over the integers  *)
(* modulo 2, the lowest bit of the first byte at its highest power.  The      *)
(* checksum is what remains when it is multiplied by x^8 and divided by       *)
(* x^8 + x^5 + x^4 + 1, with the highest power in the lowest bit.             *)
Generator == {8, 5, 4, 0}

\* The powers of the data times x^8.
Polynomial(data) ==
    UNION {{8 * (Len(data) - i) + 15 - k : k \in Bits(data[i])} : i \in DOMAIN data}

\* One step of the long division: the power is removed if it is there.
Divide(polynomial, power) ==
    IF power \in polynomial
    THEN Plus(polynomial, {power - 8 + g : g \in Generator})
    ELSE polynomial

Remainder(data) ==
    LET rest[n \in 0 .. 8 * Len(data)] ==
            IF n = 0 THEN Polynomial(data) ELSE Divide(rest[n - 1], 8 * Len(data) + 8 - n)
    IN  rest[8 * Len(data)]

MaximCrc(data) == {7 - power : power \in Remainder(data)}
================================================================================
