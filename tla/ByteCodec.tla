------------------------------ MODULE ByteCodec ------------------------------
(***************************************************************************)
(* Bytes, numbers and hexadecimal text, as the signature code of the       *)
(* bundle converts them.                                                   *)
(*                                                                         *)
(* A character is a number: 0..15 a digit in lower case, 26..31 the digits *)
(* 10..15 in upper case, and the four below that parseInt has an opinion   *)
(* of; anything else is Letter.  What throws is BadHex.                    *)
(***************************************************************************)
EXTENDS Integers, Sequences

Plus == 16
Minus == 17
Space == 18
Cross == 19    \* x or X
Letter == 20
Digits == (0..15) \cup (26..31)
Char == (0..20) \cup (26..31)

BadHex == << -1 >>
NaN == -1000

DigitValue(c) == c % 16

BytesToHex(bytes) ==
  [i \in 1 .. 2 * Len(bytes) |->
     LET b == bytes[(i + 1) \div 2] IN IF i % 2 = 1 THEN b \div 16 ELSE b % 16]

\* Number.parseInt(text, 16) of two characters: a blank or a sign may come
\* first, what follows the digits is ignored, and 0x only announces digits.
ParseInt(c, d) ==
  IF c = 0 /\ d = Cross THEN NaN
  ELSE IF c \in Digits
  THEN IF d \in Digits THEN 16 * DigitValue(c) + DigitValue(d) ELSE DigitValue(c)
  ELSE IF d \notin Digits THEN NaN
  ELSE IF c \in {Plus, Space} THEN DigitValue(d)
  ELSE IF c = Minus THEN -DigitValue(d) ELSE NaN

HexToBytes(hex) ==
  LET n == Len(hex) \div 2
      byte(i) == ParseInt(hex[2 * i - 1], hex[2 * i])
  IN  IF Len(hex) % 2 = 1 \/ \E i \in 1..n : byte(i) = NaN \/ byte(i) < 0
      THEN BadHex ELSE [i \in 1..n |-> byte(i)]

\* BigInt of the digits after 0x.
HexToNumber(hex) ==
  LET number[n \in 0..Len(hex)] ==
        IF n = 0 THEN 0 ELSE 16 * number[n - 1] + DigitValue(hex[n])
  IN  number[Len(hex)]

BytesToNumberBE(bytes) == HexToNumber(BytesToHex(bytes))

\* The digits of n, at least width of them.
NumberToHex(n, width) ==
  LET size == CHOOSE k \in 1..8 : n < 16^k /\ (k = 1 \/ n >= 16^(k - 1))
      all == IF size < width THEN width ELSE size
  IN  [i \in 1..all |-> IF all - i < 7 THEN (n \div 16^(all - i)) % 16 ELSE 0]

NumberToBytesBE(n, len) == HexToBytes(NumberToHex(n, 2 * len))

\* A value that is text or bytes already, of the length that is asked for.
EnsureBytes(value, expected) ==
  LET bytes == IF value.form = "hex" THEN HexToBytes(value.data) ELSE value.data
  IN  IF value.form \notin {"hex", "bytes"} \/ Len(bytes) # expected THEN BadHex
      ELSE bytes

ConcatBytes(arrays) ==
  LET all[n \in 0..Len(arrays)] == IF n = 0 THEN << >> ELSE all[n - 1] \o arrays[n]
  IN  all[Len(arrays)]

-----------------------------------------------------------------------------
(* Text of digits alone stands for one sequence of bytes, the same in      *)
(* upper case; text with anything else is refused, but for a blank, a plus *)
(* sign or minus zero before the second digit of a byte, and anything      *)
(* after its first but the x of 0x (bundle:446-462).                       *)
Lower(hex) == [i \in DOMAIN hex |-> DigitValue(hex[i])]
Lenient(c, d) ==
  \/ c \in Digits /\ d \notin Digits /\ ~(c = 0 /\ d = Cross)
  \/ c \in {Plus, Space} /\ d \in Digits
  \/ c = Minus /\ d = 0

HexIsSound(hex) ==
  LET bytes == HexToBytes(hex)
      strict(i) == hex[2 * i - 1] \in Digits /\ hex[2 * i] \in Digits
      lenient(i) == Lenient(hex[2 * i - 1], hex[2 * i])
      pairs == 1 .. Len(hex) \div 2
  IN  /\ bytes # BadHex <=> Len(hex) % 2 = 0 /\ \A i \in pairs : strict(i) \/ lenient(i)
      /\ bytes # BadHex => \A i \in pairs : bytes[i] \in 0..255
      /\ bytes # BadHex /\ (\A i \in pairs : strict(i)) => BytesToHex(bytes) = Lower(hex)
      /\ EnsureBytes([form |-> "hex", data |-> hex], 1) # BadHex =>
           bytes # BadHex /\ Len(hex) = 2

(* A number reads back from its bytes when it fits into them; one that     *)
(* does not fit is not cut off: it makes too many bytes, or none           *)
(* (bundle:463-473).                                                       *)
NumbersKeepTheirValue(n, len) ==
  LET bytes == NumberToBytesBE(n, len)
  IN  IF n < 256^len
      THEN Len(bytes) = len /\ BytesToNumberBE(bytes) = n
      ELSE bytes = BadHex \/ Len(bytes) > len
=============================================================================
