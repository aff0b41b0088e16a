------------------------- MODULE MCMarketplaceRules -------------------------
(* The inputs that the rules are put to: see README.md for their choice.   *)
EXTENDS MarketplaceRules, TLC

MCTiers == [max_length : {-1, 2, 63, 64, 70}, price : {0, 1500}]
MCPriceLists ==
  UNION {[1..n -> MCTiers] : n \in 0..2}
  \cup {<<[max_length |-> m, price |-> 3000], t, [max_length |-> 5, price |-> 0]>> :
          m \in {4, 5, 64}, t \in MCTiers}

-----------------------------------------------------------------------------
(* Announcements: a good one with up to three of its fields changed.       *)

Label(chars) == [chars |-> chars, reserved |-> FALSE]
MCLabels == {Label(<<"a">>), Label(<<"a", "-", "0">>), Label(<< >>), Label(<<"-", "a">>),
             Label(<<"a", "-">>), Label(<<"A">>), Label(<<"0">>), Label(<<"_">>),
             Label([i \in 1..63 |-> "a"]), Label([i \in 1..64 |-> "a"]),
             [chars |-> <<"a", "a">>, reserved |-> TRUE]}
MCHosts == {<<l>> : l \in MCLabels} \cup MCLabels \X MCLabels
\* Four labels of 252 characters without those of the last, and one of that length.
MCLong(n) == [i \in 1..4 |-> Label([k \in 1..(IF i = 4 THEN n ELSE 63) |-> "a"])]

MCHost == <<Label(<<"a">>), Label(<<"a", "a">>)>>
MCUpper == <<Label(<<"A">>), Label(<<"a", "a">>)>>
MCConverted(host, ascii, at, low) == [host |-> host, idna |-> ascii, at |-> at, low |-> low]
MCDomain(host, at, low) == MCConverted(host, LowerHost(host), at, low)
\* A name with a letter beyond ASCII and its code, and a code that stands for nothing.
MCInternational == <<Label(<<"_">>), Label(<<"a", "a">>)>>
MCCode == <<Label(<<"a", "a", "-", "-", "0">>), Label(<<"a", "a">>)>>
MCOrigin(scheme, host, extra) == [scheme |-> scheme, host |-> host, extra |-> extra]
MCOwn == MCOrigin("https", MCHost, "")
MCD(prefix, origin) == [prefix |-> prefix, origin |-> origin]

MCGood ==
  [kind |-> TRUE, dtags |-> <<MCD(TRUE, MCOwn)>>, t |-> TRUE, json |-> "object",
   complete |-> TRUE, schema |-> 1, status |-> "none", origin |-> MCOwn,
   registration |-> MCOwn, terms |-> "none",
   domains |-> <<MCDomain(MCHost, 2, 2)>>, expirations |-> << >>,
   users |-> << >>, reserved |-> << >>]

MCOther == MCOrigin("https", <<Label(<<"a">>), Label(<<"a">>)>>, "")
MCExpiration(form, value) == [form |-> form, value |-> value]
MCUser(domain, form, value) ==
  [domain |-> domain, count |-> [form |-> form, value |-> value]]

\* What else each field may be.
MCOrigins == {MCOrigin("http", MCHost, ""), MCOrigin("https", MCHost, "/"),
              MCOrigin("https", MCHost, "path"), MCOther}
             \cup {MCOrigin("https", h, "") : h \in MCHosts}
MCVariants ==
  [kind |-> {FALSE}, t |-> {FALSE}, json |-> {"null", "broken"}, complete |-> {FALSE},
   schema |-> {2}, status |-> {"active", "retired"},
   dtags |-> {<< >>, <<MCD(FALSE, MCOwn)>>, <<MCD(TRUE, MCOther), MCD(TRUE, MCOwn)>>}
             \cup {<<MCD(TRUE, o)>> : o \in MCOrigins},
   origin |-> {MCOther}, registration |-> {MCOther},
   terms |-> {"empty", "http", "https"},
   domains |-> {<< >>, <<MCDomain(MCUpper, 1, 2)>>,
                <<MCDomain(MCUpper, 1, 2), MCDomain(MCHost, 2, 2)>>,
                <<MCDomain(MCHost, 2, 2), MCDomain(MCHost, 2, 2)>>,
                <<MCDomain(MCHost, 2, 2), MCDomain(MCOther.host, 1, 1)>>,
                <<MCDomain(MCOther.host, 1, 1), MCDomain(MCHost, 2, 2)>>}
               \cup {<<MCDomain(h, 1, 1)>> : h \in MCHosts \cup {MCLong(61), MCLong(62)}}
               \cup {<<MCConverted(MCInternational, MCCode, 3, 1), MCDomain(MCHost, 2, 2)>>,
                     <<MCDomain(MCHost, 2, 2), MCConverted(MCInternational, MCCode, 3, 1)>>,
                     <<MCDomain(MCCode, 1, 1)>>, <<MCConverted(MCCode, << >>, 1, 1)>>,
                     <<MCConverted(MCInternational, << >>, 3, 3)>>},
   expirations |-> {<<e>> : e \in {MCExpiration("missing", 0), MCExpiration("words", 0),
                                   MCExpiration("digits", 4), MCExpiration("digits", 5),
                                   MCExpiration("digits", 6), MCExpiration("signed", 6),
                                   MCExpiration("huge", 9)}}
                   \cup {<<MCExpiration("digits", 6), MCExpiration("digits", 5)>>},
   users |-> {<<MCUser(d, f, v)>> : d \in {MCDomain(MCHost, 2, 2), MCDomain(MCOther.host, 1, 1)},
                                    f \in {"integer", "fraction", "huge"}, v \in {-1, 3}}
            \cup {<<MCUser(MCDomain(MCHost, 2, 2), "integer", 7), MCUser(MCDomain(h, 2, 2), f, v)>> :
                     h \in {MCHost, MCOther.host}, f \in {"integer", "fraction"}, v \in {-1, 3}},
   reserved |-> {<<[domain |-> MCDomain(MCHost, 2, 2), names |-> ns]>> : ns \in {{"ann"}, {"", "ann"}}}]

MCFields == DOMAIN MCVariants
\* The many hosts are tried one at a time.
MCFew == [f \in MCFields |->
            {v \in MCVariants[f] :
               /\ f = "domains" => \A i \in DOMAIN v : v[i].host \in {MCHost, MCUpper, MCOther.host}
               /\ f = "dtags" => \A i \in DOMAIN v : v[i].origin.host \in {MCHost, MCOther.host}}]
MCEvents ==
  {[MCGood EXCEPT ![f] = v] : f \in {"t"}, v \in {TRUE, FALSE}}
  \cup UNION {{[MCGood EXCEPT ![f] = v] : v \in MCVariants[f]} : f \in MCFields}
  \cup UNION {{[MCGood EXCEPT ![f] = v, ![g] = u] : v \in MCFew[f], u \in MCFew[g]} :
                <<f, g>> \in MCFields \X MCFields}

MCNow == 5

-----------------------------------------------------------------------------
(* Rows: two operators, two domains, four price lists.                     *)

MCLookup(D, R) == UNION {[S -> R] : S \in SUBSET D}
MCShort == <<[max_length |-> 3, price |-> 1000], [max_length |-> 64, price |-> 0]>>
MCOperators ==
  [pubkey : {"p"}, origin : {"o"},
   capabilities : {RegistrationCapabilities},
   verifiedDomains : {<<1, 2>>}, pricing : {1 :> MCShort, (1 :> << >>) @@ (2 :> <<MCShort[1]>>)},
   userCounts : {<< >>, 1 :> 4, (1 :> 4) @@ (2 :> 0)}, reservedNames : {<< >>, 2 :> {"ann"}},
   usersCount : {NoCount, 7}, usersApprox : {FALSE}]
MCFound == MCOperators \X MCOperators

MCTyped == {Untyped, [text |-> "Ann", length |-> 3, lower |-> "ann"],
            [text |-> "anna", length |-> 4, lower |-> "anna"]}
MCLengths == {2, 4}

-----------------------------------------------------------------------------
(* Codes, numbers and points: a curve of prime order over 43 elements.     *)

MCKeys == UNION {[1..n -> {0, 1, 77, 255}] : n \in 0..2} \cup {<<1, 128, 19, 254>>}
MCWords == UNION {[1..n -> {0, 1, 8, 31}] : n \in 1..4}
MCNumbers == [1..3 -> {0, 1, 2, 17, 42}] \cup {<<-50, 90, 11>>}

MCPoints == {[x |-> 0, y |-> 0], [x |-> 2, y |-> 12], [x |-> 2, y |-> 31]}
MCScalars == {1, 2, 8, 15, 16, 29, 30, 31}
MCSignatures == [d : {1, 30}, k : {1, 7, 30}, s : {0, 5, 31}, e : {0, 1, 16}]
MCTables == {[w |-> 1, kept |-> FALSE], [w |-> 2, kept |-> TRUE], [w |-> 3, kept |-> FALSE]}
MCB1 == -5

-----------------------------------------------------------------------------
(* Hashes, hexadecimal text, messages and events.                          *)

\* Pieces about the size of a block, half of one and two.
MCPieceSizes == {0, 1, 7, 8, 9, 15, 16, 17, 33}
MCPiece(n, from) == [i \in 1..n |-> from + i]
MCPieces == {<<MCPiece(a, 0), MCPiece(b, 60), MCPiece(c, 120)>> :
               a \in MCPieceSizes, b \in MCPieceSizes, c \in MCPieceSizes}

\* No byte, a short message, one whose length needs a block of its own, a block.
MCDigests == {
   [message |-> << >>,
    digest |-> <<227, 176, 196, 66, 152, 252, 28, 20, 154, 251, 244, 200, 153, 111, 185, 36,
                 39, 174, 65, 228, 100, 155, 147, 76, 164, 149, 153, 27, 120, 82, 184, 85>>],
   [message |-> <<97, 98, 99>>,
    digest |-> <<186, 120, 22, 191, 143, 1, 207, 234, 65, 65, 64, 222, 93, 174, 34, 35,
                 176, 3, 97, 163, 150, 23, 122, 156, 180, 16, 255, 97, 242, 0, 21, 173>>],
   [message |-> [i \in 1..56 |-> i],
    digest |-> <<240, 236, 227, 191, 249, 217, 154, 121, 3, 131, 167, 20, 28, 255, 96, 73,
                 38, 216, 58, 125, 29, 131, 54, 242, 154, 250, 69, 35, 7, 147, 120, 165>>],
   [message |-> [i \in 1..64 |-> 3 * i],
    digest |-> <<90, 214, 139, 167, 134, 63, 246, 49, 211, 174, 148, 4, 229, 148, 78, 175,
                 86, 183, 114, 167, 190, 64, 89, 110, 67, 124, 144, 169, 196, 63, 166, 210>>]}

MCHexTexts == UNION {[1..n -> 0..20 \cup {26, 31}] : n \in 0..2}
              \cup [1..3 -> {1}] \cup [1..4 -> {0, 11, 27, 16, 17, 20}]
MCSizes == [n : {0, 1, 15, 16, 255, 256, 4095, 4096, 65535, 65536, 1000000}, len : 1..3]
MCOperations == UNION {[1..n -> {"add", "take"}] : n \in 1..8}

MCEvent(p, id, d) ==
  [id |-> id, pubkey |-> p, kind |-> 30078, created_at |-> 5,
   tags |-> <<<<"t", "lightning-address-service">>, <<"d", d>>>>, malformed |-> "none",
   hash |-> id, signed |-> "valid", mark |-> "none"]
MCBackup == MCEvent("p", "1", "backup x")
MCAnswered ==
  {MCBackup, MCEvent("p", "2", "backup x"), MCEvent("p", "3", "backup y"),
   MCEvent("q", "4", "backup x"), MCEvent("s", "5", "backup x"),
   MCEvent("p", "6", "service"),
   [MCBackup EXCEPT !.malformed = "tags"], [MCBackup EXCEPT !.hash = "7"],
   [MCBackup EXCEPT !.signed = "invalid"], [MCBackup EXCEPT !.signed = "throws"],
   [MCBackup EXCEPT !.kind = 1], [MCBackup EXCEPT !.tags = <<<<"d">>, <<"d", "backup x">>>>]}
MCDeliveries == UNION {[1..n -> MCAnswered] : n \in 1..3}
=============================================================================
