------------------------------- MODULE Sha256 -------------------------------
(***************************************************************************)
(* The hash that event ids and signature challenges are made with          *)
(* (@noble/hashes, twice in the bundle: one copy for the curve, one for    *)
(* the events).  A hash object takes its data in pieces of any size.       *)
(*                                                                         *)
(* A word of 32 bits is <<high, low>>, two halves of 16 bits.  The state   *)
(* of an object is kept as the blocks that were processed; Compress makes  *)
(* the words of it.                                                        *)
(***************************************************************************)
EXTENDS Integers, Sequences, Bitwise

Halves == 65536

Plus(u, v) ==
  LET low == u[2] + v[2]
  IN  <<(u[1] + v[1] + low \div Halves) % Halves, low % Halves>>

Xor32(u, v) == <<u[1] ^^ v[1], u[2] ^^ v[2]>>
And32(u, v) == <<u[1] & v[1], u[2] & v[2]>>
Not32(u) == <<Halves - 1 - u[1], Halves - 1 - u[2]>>

\* Shifts by less than 16.
Shr(w, n) ==
  <<w[1] \div 2^n, w[2] \div 2^n + (w[1] % 2^n) * 2^(16 - n)>>
Rotr(w, n) ==
  LET v == IF n < 16 THEN w ELSE <<w[2], w[1]>>
      m == n % 16
      s == Shr(v, m)
  IN  <<s[1] + (v[2] % 2^m) * 2^(16 - m), s[2]>>

Chi(a, b, c) == Xor32(And32(a, b), And32(Not32(a), c))
Maj(a, b, c) == Xor32(Xor32(And32(a, b), And32(a, c)), And32(b, c))

\* Halves of the constants, in order.
SHA256K == <<
  \h428a, \h2f98, \h7137, \h4491, \hb5c0, \hfbcf, \he9b5, \hdba5,
  \h3956, \hc25b, \h59f1, \h11f1, \h923f, \h82a4, \hab1c, \h5ed5,
  \hd807, \haa98, \h1283, \h5b01, \h2431, \h85be, \h550c, \h7dc3,
  \h72be, \h5d74, \h80de, \hb1fe, \h9bdc, \h06a7, \hc19b, \hf174,
  \he49b, \h69c1, \hefbe, \h4786, \h0fc1, \h9dc6, \h240c, \ha1cc,
  \h2de9, \h2c6f, \h4a74, \h84aa, \h5cb0, \ha9dc, \h76f9, \h88da,
  \h983e, \h5152, \ha831, \hc66d, \hb003, \h27c8, \hbf59, \h7fc7,
  \hc6e0, \h0bf3, \hd5a7, \h9147, \h06ca, \h6351, \h1429, \h2967,
  \h27b7, \h0a85, \h2e1b, \h2138, \h4d2c, \h6dfc, \h5338, \h0d13,
  \h650a, \h7354, \h766a, \h0abb, \h81c2, \hc92e, \h9272, \h2c85,
  \ha2bf, \he8a1, \ha81a, \h664b, \hc24b, \h8b70, \hc76c, \h51a3,
  \hd192, \he819, \hd699, \h0624, \hf40e, \h3585, \h106a, \ha070,
  \h19a4, \hc116, \h1e37, \h6c08, \h2748, \h774c, \h34b0, \hbcb5,
  \h391c, \h0cb3, \h4ed8, \haa4a, \h5b9c, \hca4f, \h682e, \h6ff3,
  \h748f, \h82ee, \h78a5, \h636f, \h84c8, \h7814, \h8cc7, \h0208,
  \h90be, \hfffa, \ha450, \h6ceb, \hbef9, \ha3f7, \hc671, \h78f2 >>

IVHalves == <<
  \h6a09, \he667, \hbb67, \hae85, \h3c6e, \hf372, \ha54f, \hf53a,
  \h510e, \h527f, \h9b05, \h688c, \h1f83, \hd9ab, \h5be0, \hcd19 >>

IV == [i \in 1..8 |-> <<IVHalves[2 * i - 1], IVHalves[2 * i]>>]

-----------------------------------------------------------------------------
(* One block.                                                              *)

Rotations(w, a, b, c) == Xor32(Xor32(Rotr(w, a), Rotr(w, b)), Rotr(w, c))
SmallSigma(w, a, b, c) == Xor32(Xor32(Rotr(w, a), Rotr(w, b)), Shr(w, c))

Word == (0 .. Halves - 1) \X (0 .. Halves - 1)
State == [1..8 -> Word]

\* One word more of the schedule.
Expand[v \in Seq(Word)] ==
  LET i == Len(v) + 1
      s0 == SmallSigma(v[i - 15], 7, 18, 3)
      s1 == SmallSigma(v[i - 2], 17, 19, 10)
  IN  Append(v, Plus(Plus(s1, v[i - 7]), Plus(s0, v[i - 16])))

Schedule(block) ==
  LET W[i \in 16..64] ==
        IF i = 16
        THEN [j \in 1..16 |-> <<256 * block[4*j - 3] + block[4*j - 2],
                                256 * block[4*j - 1] + block[4*j]>>]
        ELSE Expand[W[i - 1]]
  IN  W[64]

\* From <<A, ..., H>> to the next, with constant k and word w.
Round[h \in State, k \in Word, w \in Word] ==
  LET T1 == Plus(Plus(Plus(h[8], Rotations(h[5], 6, 11, 25)),
                      Plus(Chi(h[5], h[6], h[7]), k)), w)
      T2 == Plus(Rotations(h[1], 2, 13, 22), Maj(h[1], h[2], h[3]))
  IN  <<Plus(T1, T2), h[1], h[2], h[3], Plus(h[4], T1), h[5], h[6], h[7]>>

Process[state \in State, block \in Seq(0..255)] ==
  LET W == Schedule(block)
      round[i \in 0..64] ==
        IF i = 0 THEN state
        ELSE Round[round[i - 1], <<SHA256K[2 * i - 1], SHA256K[2 * i]>>, W[i]]
      out == round[64]
  IN  [i \in 1..8 |-> Plus(state[i], out[i])]

Compress(blocks) ==
  LET state[n \in 0..Len(blocks)] ==
        IF n = 0 THEN IV ELSE Process[state[n - 1], blocks[n]]
  IN  state[Len(blocks)]

-----------------------------------------------------------------------------
(* A hash object: what the last piece left is in buffer up to pos; the     *)
(* bytes after pos are those of earlier blocks.                            *)

NewHash(blockLen, padOffset) ==
  [blockLen |-> blockLen, padOffset |-> padOffset, blocks |-> << >>,
   buffer |-> [i \in 1..blockLen |-> 0], pos |-> 0, length |-> 0]

\* The buffer with piece from offset on.
Put(buffer, offset, piece) ==
  [i \in DOMAIN buffer |->
     IF i - offset \in DOMAIN piece THEN piece[i - offset] ELSE buffer[i]]

\* The loop of update: whole blocks are processed where they are.
RECURSIVE Absorb(_, _)
Absorb(h, data) ==
  LET free == h.blockLen - h.pos
      take == IF free < Len(data) THEN free ELSE Len(data)
      piece == SubSeq(data, 1, take)
      rest == SubSeq(data, take + 1, Len(data))
      buffer == Put(h.buffer, h.pos, piece)
  IN  IF data = << >> THEN h
      ELSE IF take = h.blockLen
           THEN Absorb([h EXCEPT !.blocks = Append(@, piece)], rest)
      ELSE IF take = free
           THEN Absorb([h EXCEPT !.buffer = buffer, !.pos = 0,
                                 !.blocks = Append(@, buffer)], rest)
      ELSE Absorb([h EXCEPT !.buffer = buffer, !.pos = @ + take], rest)

Update(h, data) == [Absorb(h, data) EXCEPT !.length = @ + Len(data)]

Zeros(n) == [i \in 1..n |-> 0]

\* Eight bytes, high first.
BigUint64(n) == [i \in 1..8 |-> IF i <= 4 THEN 0 ELSE (n \div 256^(8 - i)) % 256]

LengthFits(h) == h.padOffset <= h.blockLen - (h.pos + 1)

(* The blocks of the whole message: after the byte that ends it, one block *)
(* more when the length does not fit into this one.                        *)
DigestInto(h) ==
  LET n == h.blockLen
      ended == Put(h.buffer, h.pos, <<128>> \o Zeros(n - h.pos - 1))
      bytes == BigUint64(8 * h.length)
  IN  IF LengthFits(h)
      THEN Append(h.blocks, Put(ended, n - 8, bytes))
      ELSE h.blocks \o <<ended, Put(Zeros(n), n - 8, bytes)>>

\* The bytes of the words.
Digest(words) ==
  [i \in 1 .. 4 * Len(words) |->
     LET half == words[1 + (i - 1) \div 4][1 + ((i - 1) % 4) \div 2]
     IN  IF i % 2 = 1 THEN half \div 256 ELSE half % 256]

Sha256(message) == Digest(Compress(DigestInto(Update(NewHash(64, 8), message))))

(* taggedHash: the digest of the tag, twice, goes before the messages.     *)
TaggedHash(tag, messages) ==
  LET h == Sha256(tag) IN Sha256(h \o h \o messages)

-----------------------------------------------------------------------------
(* What is hashed is the message, padded as the standard says, whatever    *)
(* pieces it came in (bundle:177-232).                                     *)
Message(pieces) ==
  LET all[n \in 0..Len(pieces)] == IF n = 0 THEN << >> ELSE all[n - 1] \o pieces[n]
  IN  all[Len(pieces)]

Padded(message, blockLen, padOffset) ==
  LET n == Len(message)
      fill == CHOOSE k \in 0 .. blockLen - 1 : (n + 1 + k + padOffset) % blockLen = 0
  IN  message \o <<128>> \o Zeros(fill + padOffset - 8) \o BigUint64(8 * n)

PiecesMakeTheMessage(pieces, blockLen, padOffset) ==
  LET hash[n \in 0..Len(pieces)] ==
        IF n = 0 THEN NewHash(blockLen, padOffset) ELSE Update(hash[n - 1], pieces[n])
      blocks == DigestInto(hash[Len(pieces)])
  IN  /\ \A i \in DOMAIN blocks : Len(blocks[i]) = blockLen
      /\ Message(blocks) = Padded(Message(pieces), blockLen, padOffset)
=============================================================================
