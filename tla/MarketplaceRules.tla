-------------------------- MODULE MarketplaceRules --------------------------
(***************************************************************************)
(* The marketplace's rules, each put to one input after another: those of  *)
(* ListingRules, and what the bundled library computes.                    *)
(***************************************************************************)
EXTENDS ListingRules, SchnorrVerification

CONSTANTS
  Numbers,      \* sequences of field elements
  Points,       \* affine points, and the multiples to take of them
  Scalars,
  Signatures,   \* [d, k, s, e]
  Tables,       \* [w, kept]: a window width, and whether its table was kept
  Pieces,       \* sequences of pieces of a message
  Digests,      \* [message, digest]: hashes that are known
  Sizes         \* [n, len]: numbers, and the bytes they are to fit into

Hash == INSTANCE Sha256

Init == ListingInit

Calculate == Ask("numbers", Numbers)
MultiplyPoint == Ask("point", [a : Points, b : Points, n : Scalars, table : Tables])
CheckSignature == Ask("signature", [made : Signatures, table : Tables])

HashPieces == Ask("pieces", Pieces)
HashMessage == Ask("digest", Digests)
WriteNumber == Ask("size", Sizes)

Next ==
  \/ ListingNext
  \/ Calculate
  \/ MultiplyPoint
  \/ CheckSignature
  \/ HashPieces
  \/ HashMessage
  \/ WriteNumber

Spec == Init /\ [][Next]_ruleVars

-----------------------------------------------------------------------------
(* Field, curve, signature verification and the hash agree with their      *)
(* definitions (@noble/curves and @noble/hashes in the bundle).            *)
SignaturesAreSound ==
  /\ rule = "numbers" => FieldIsSound(P, input)
  /\ rule = "point" =>
       MultiplesAreSums(input.a, input.b, input.n, input.table.w, input.table.kept)
  /\ rule = "signature" =>
       VerificationIsSound(input.made.d, input.made.k, input.made.s, input.made.e,
                           input.table.w, input.table.kept)
  /\ rule = "pieces" => Hash!PiecesMakeTheMessage(input, 16, 8)
  /\ rule = "digest" => Hash!Sha256(input.message) = input.digest
  /\ rule = "size" => Hex!NumbersKeepTheirValue(input.n, input.len)
=============================================================================
