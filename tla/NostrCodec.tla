----------------------------- MODULE NostrCodec -----------------------------
(***************************************************************************)
(* The text form of a public key, as the bundled nostr-tools writes and    *)
(* reads it (bech32 of nip19), and the contact link of an announcement     *)
(* that is built with it (render.js contactNostrUri).                      *)
(*                                                                         *)
(* Bytes are 0..255, words 0..31.  A code is [prefix, letters, mixed]: the *)
(* character codes before the last "1"; the letters after it, each given   *)
(* by its index in the alphabet, Foreign for any other character; and      *)
(* whether upper and lower case are mixed.  What throws is Error, or       *)
(* NoCode where a code is expected.                                        *)
(***************************************************************************)
EXTENDS Integers, Sequences

Foreign == 32
Error == << -1 >>
NoCode == [prefix |-> << >>, letters |-> << >>, mixed |-> FALSE]

Npub == <<110, 112, 117, 98>>
Bech32MaxSize == 5000

Bit(n, k) == (n \div 2^k) % 2

\* A register is the set of the places where a number has a one.
Places == 0..29
Register(n) == {k \in Places : Bit(n, k) = 1}

Generators ==
  LET numbers == <<996825010, 642813549, 513874426, 1027748829, 705979059>>
  IN  [i \in 1..5 |-> Register(numbers[i])]

Xor(a, b) == {k \in Places : k \in a <=> k \notin b}

\* The register moves up by five places, and for each one that falls out a
\* generator is added in.
Polymod(pre) ==
  LET up == {k + 5 : k \in pre \ 25..29}
      added(i) == IF 24 + i \in pre THEN Generators[i] ELSE {}
  IN  Xor(up, Xor(added(1), Xor(added(2), Xor(added(3), Xor(added(4), added(5))))))

\* Feeding symbols into the register of the checksum.
Feed(start, symbols) ==
  LET chk[i \in 0..Len(symbols)] ==
        IF i = 0 THEN start ELSE Xor(Polymod(chk[i - 1]), Register(symbols[i]))
  IN  chk[Len(symbols)]

-----------------------------------------------------------------------------
(* Regrouping the bits of a sequence, high bits first.                     *)

Bits(data, from) ==
  [k \in 1 .. from * Len(data) |->
     Bit(data[1 + ((k - 1) \div from)], from - 1 - ((k - 1) % from))]

\* The number that n bits from position i on spell, zeros past the end.
Number(bits, i, n) ==
  LET number[k \in 0..n] ==
        IF k = 0 THEN 0
        ELSE 2 * number[k - 1] + IF i + k - 1 <= Len(bits) THEN bits[i + k - 1] ELSE 0
  IN  number[n]

Groups(bits, to) == [k \in 1 .. Len(bits) \div to |-> Number(bits, 1 + (k - 1) * to, to)]

Regroup(bits, from, to, padding) ==
  LET rest == Len(bits) % to
      last == Number(bits, 1 + Len(bits) - rest, to)
  IN  IF ~padding /\ (rest >= from \/ last # 0) THEN Error
      ELSE IF padding /\ rest > 0 THEN Append(Groups(bits, to), last) ELSE Groups(bits, to)

\* Mutation: what is left over is thrown away unseen.
ConvertLoosely(data, from, to, padding) == Groups(Bits(data, from), to)

ConvertRadix2(data, from, to, padding) ==
  IF \E i \in DOMAIN data : data[i] >= 2^from THEN Error
  ELSE Regroup(Bits(data, from), from, to, padding)

ToWords(bytes) == ConvertRadix2(bytes, 8, 5, TRUE)
FromWords(words) == ConvertRadix2(words, 5, 8, FALSE)

-----------------------------------------------------------------------------
(* bech32.                                                                 *)

Checksum(prefix, words) ==
  LET high == [i \in DOMAIN prefix |-> prefix[i] \div 32]
      low  == [i \in DOMAIN prefix |-> prefix[i] % 32]
      zeros == [i \in 1..6 |-> 0]
      chk == Xor(Feed({0}, high \o <<0>> \o low \o words \o zeros), {0})
  IN  Regroup([k \in 1..30 |-> IF 30 - k \in chk THEN 1 ELSE 0], 30, 5, FALSE)

Encode(prefix, words, limit) ==
  IF Len(prefix) + 7 + Len(words) > limit THEN NoCode
  ELSE [prefix |-> prefix, letters |-> words \o Checksum(prefix, words), mixed |-> FALSE]

WordsOf(code) == SubSeq(code.letters, 1, Len(code.letters) - 6)

Readable(code, limit) ==
  LET n == Len(code.letters)
  IN  /\ Len(code.prefix) > 0 /\ n >= 6
      /\ Len(code.prefix) + 1 + n \in 8..limit
      /\ ~code.mixed
      /\ \A i \in 1..n : code.letters[i] # Foreign
      /\ SubSeq(code.letters, n - 5, n) = Checksum(code.prefix, WordsOf(code))

Decode2(code, limit) == IF Readable(code, limit) THEN WordsOf(code) ELSE Error

\* The data of a code is not asked for its length.
Decode(code) ==
  LET words == Decode2(code, Bech32MaxSize)
  IN  IF words = Error THEN Error ELSE FromWords(words)

NpubEncode(bytes) == Encode(Npub, ToWords(bytes), Bech32MaxSize)

-----------------------------------------------------------------------------
(* A contact is a code that starts with "npub1", or a key as bytes, which  *)
(* is what its 64 hexadecimal digits stand for.                            *)
ContactNostrUri(contact) ==
  IF contact.form = "code"
  THEN IF contact.code.prefix = Npub /\ Decode(contact.code) # Error
       THEN contact.code ELSE NoCode
  ELSE IF contact.form = "key" THEN NpubEncode(contact.bytes) ELSE NoCode

\* A code with the letter at place i changed to v.
Altered(code, i, v) == [code EXCEPT !.letters[i] = v]

(* The link to a key names that key and no other: the code reads back to   *)
(* the bytes it was made of, and a code with any letter changed does not   *)
(* read at all, so that a mistyped contact is no link to a stranger        *)
(* (bundle:3659-3716, render.js:9-28).                                     *)
LinksNameTheirKey(bytes) ==
  LET code == ContactNostrUri([form |-> "key", bytes |-> bytes]) IN
  /\ Decode(code) = bytes
  /\ ContactNostrUri([form |-> "code", code |-> code]) = code
  /\ \A i \in DOMAIN code.letters : \A v \in (0..Foreign) \ {code.letters[i]} :
       Decode(Altered(code, i, v)) = Error

(* No two codes read as the same bytes: of the words that regroup to       *)
(* bytes, only those that the bytes are written as are accepted            *)
(* (bundle:3557-3562).                                                     *)
OneCodePerKey(words) ==
  LET bytes == FromWords(words) IN bytes # Error => ToWords(bytes) = words
=============================================================================
