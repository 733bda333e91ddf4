-------------------------------- MODULE Crc ----------------------------------
(***************************************************************************)
(* constexpr/crc.hpp: CRC-16/CCITT, most significant bit first.            *)
(***************************************************************************)
EXTENDS MaskedBits, Sequences

CrcModulus == 2^16
CrcWord    == 0 .. CrcModulus - 1
Polynomial == 4129   \* 0x1021

Xor(v, w) == WordOf({i \in 0 .. 15 : Bit(v, i) # Bit(w, i)}, 16)

\* Mutant of ShiftedOut: off by one in the test of the top bit.
ShiftedAbove(crc) ==
  IF crc > CrcModulus \div 2 THEN Xor((2 * crc) % CrcModulus, Polynomial)
  ELSE (2 * crc) % CrcModulus

ShiftedOut(crc) ==
  IF crc >= CrcModulus \div 2 THEN Xor((2 * crc) % CrcModulus, Polynomial) ELSE 2 * crc

Crc16UpdateByte(crc, byte) ==
  LET round[i \in 0 .. 8] == IF i = 0 THEN Xor(crc, byte * 256) ELSE ShiftedOut(round[i - 1])
  IN  round[8]

Crc16(bytes, seed) ==
  LET crc[k \in 0 .. Len(bytes)] ==
        IF k = 0 THEN seed ELSE Crc16UpdateByte(crc[k - 1], bytes[k])
  IN  crc[Len(bytes)]
=============================================================================
