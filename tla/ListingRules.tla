---------------------------- MODULE ListingRules ----------------------------
(***************************************************************************)
(* The rules for what an operator publishes, its announcement and its      *)
(* prices, for the list of domains that is made of it, and for the text    *)
(* that stands for a key, each put to one input after another.  They keep  *)
(* no state, so that the state here is the question that is being asked.   *)
(* The sets of inputs are constants.                                       *)
(***************************************************************************)
EXTENDS Announcements, ServiceBrowser, NostrCodec

CONSTANTS
  PriceLists,   \* sequences of tiers
  Events,       \* announcement events
  Now,          \* the time they are judged at
  Found,        \* the lists of operators that discovery hands to the browser
  Typed,        \* what may be typed as a name
  Lengths,      \* what may be set as the length to sort by
  Operations,   \* sequences of "add" and "take"
  Deliveries,   \* sequences of events, as relays send them
  Keys,         \* sequences of bytes
  Words,        \* sequences of five-bit words
  HexTexts,     \* sequences of characters
  AnnouncementKind,
  BackupTags

Queue == INSTANCE MessageQueue
Checks == INSTANCE EventChecks
Hex == INSTANCE ByteCodec

\* A tier as PublicTier has it; the page takes any integer for a length.
Tier == [max_length : Int, price : Nat]
ASSUME PriceListsAssumption == PriceLists \subseteq Seq(Tier)

\* The five classes of characters.
Characters == {"a", "A", "0", Hyphen, "_"}
HostLabel == [chars : Seq(Characters), reserved : BOOLEAN]

\* A text of lower-case letters, digits and hyphens is its own ASCII form, unless
\* it is refused for its punycode.
HasAscii(d) ==
  (\A i \in DOMAIN d.host : \A k \in DOMAIN d.host[i].chars :
     d.host[i].chars[k] \in Alphanumeric \cup {Hyphen})
  => d.idna = << >> \/ (d.idna = d.host /\ d.at = d.low)
AnnouncedDomain ==
  {d \in [host : Seq(HostLabel), idna : Seq(HostLabel), at : Int, low : Int] : HasAscii(d)}

Origin == [scheme : STRING, host : Seq(HostLabel), extra : STRING]
DTag == [prefix : BOOLEAN, origin : Origin]
Expiration == [form : {"digits", "signed", "huge", "words", "missing"}, value : Int]
UserCount == [domain : AnnouncedDomain,
              count : [form : {"integer", "fraction", "huge"}, value : Int]]
ReservedNames == [domain : AnnouncedDomain, names : SUBSET STRING]

AnnouncementEvent ==
  [kind : BOOLEAN, dtags : Seq(DTag), t : BOOLEAN, expirations : Seq(Expiration),
   json : {"object", "null", "broken"}, complete : BOOLEAN, schema : Nat,
   status : {"none", "active", "retired"}, origin : Origin, registration : Origin,
   terms : {"none", "https", "http", "empty"}, domains : Seq(AnnouncedDomain),
   users : Seq(UserCount), reserved : Seq(ReservedNames)]
ASSUME AnnouncementsAssumption == Events \subseteq AnnouncementEvent

\* What discovery keeps of an operator: domains in a sequence, a list of tiers for
\* each domain that has one, and numbers of users that were announced or counted.
IsOperator(operator) ==
  /\ operator.verifiedDomains \in Seq(Int)
  /\ operator.pricing \in [DOMAIN operator.pricing -> Seq(Tier)]
  /\ operator.userCounts \in [DOMAIN operator.userCounts -> Nat]
  /\ operator.usersCount \in Nat \cup {NoCount}
ASSUME RowsAssumption ==
  /\ \A operators \in Found :
       /\ operators \in Seq({operators[i] : i \in DOMAIN operators})
       /\ \A i \in DOMAIN operators : IsOperator(operators[i])
  /\ Typed \subseteq [text : STRING, length : Nat, lower : STRING]
  /\ Lengths \subseteq Nat

\* An event that comes from a relay has not been verified.
RelayEvent ==
  [id : STRING, pubkey : STRING, kind : Nat, created_at : Nat, tags : Seq(Seq(STRING)),
   malformed : STRING, hash : STRING, signed : {"valid", "invalid", "throws"}, mark : {"none"}]
ASSUME MessagesAssumption ==
  Operations \subseteq Seq({"add", "take"}) /\ Deliveries \subseteq Seq(RelayEvent)

\* A public key has 32 bytes.
ASSUME KeysAssumption ==
  /\ Keys \subseteq Seq(0..255) /\ \A bytes \in Keys : Len(bytes) <= 32
  /\ Words \subseteq Seq(0..31)
  /\ HexTexts \subseteq Seq(Hex!Char)

VARIABLES rule, input

ruleVars == <<rule, input>>

Ask(r, inputs) == rule = "none" /\ rule' = r /\ input' \in inputs

ListingInit == rule = "none" /\ input = << >>

PriceNames == Ask("prices", PriceLists)

JudgeAnnouncement == Ask("announcement", Events)

BrowseRows ==
  Ask("rows", [operators : Found, name : Typed,
               by : {"alpha", "price", "users"}, length : Lengths])

QueueMessages == Ask("queue", Operations)

CountRecords == Ask("answers", Deliveries)

WriteKey == Ask("key", Keys)

ReadWords == Ask("words", Words)

ReadHex == Ask("hex", HexTexts)

ListingNext ==
  \/ PriceNames
  \/ JudgeAnnouncement
  \/ BrowseRows
  \/ QueueMessages
  \/ CountRecords
  \/ WriteKey
  \/ ReadWords
  \/ ReadHex

ListingSpec == ListingInit /\ [][ListingNext]_ruleVars

-----------------------------------------------------------------------------
(* The price of a name is the one the service would quote wherever it      *)
(* accepts the policy, and the summary beside a domain says of every       *)
(* length what the chip of a name of that length says (pricing.js).        *)
PricesAreTold == rule = "prices" => PricesAgree(input) /\ SummaryTellsPrice(input)

(* The marketplace and the service's own discovery accept the same         *)
(* announcements, but for the differences that are named (announcement.js, *)
(* discovery.rs), and what it takes from the optional lists does not       *)
(* depend on malformed entries or on entries for other domains.            *)
AnnouncementsAreJudgedAlike ==
  rule = "announcement" => ValidatorsAgree(input, Now) /\ BadEntriesAreDropped(input)

(* Every count, price and place of a row is what the operator's data say   *)
(* (browse.js, render.js), and a count is that of the records the relays   *)
(* sent: on the way none is lost or counted twice (Queue, verifyEvent and  *)
(* matchFilter of the bundle, counts.js).                                  *)
RowsAreTrue ==
  /\ rule = "queue" => Queue!QueueIsFifo(input)
  /\ rule = "answers" => Checks!RecordsAreCounted(input, {"p", "q"}, {"p", "q", "s"})
  /\ rule = "rows" =>
       LET rows == BuildRows(input.operators)
       IN  /\ BadgesEnd(input.operators)
           /\ FilterMatchesChips(rows, input.name)
           /\ SortIsSound(rows, input.by, input.length)

(* A key's code reads back to the key, a changed one does not read, and no *)
(* two codes read as one key (nip19 of the bundle); hexadecimal text       *)
(* stands for its digits and anything else is refused but where parseInt   *)
(* is lenient (hexToBytes of the bundle).                                  *)
CodesNameKeys ==
  /\ rule = "key" => LinksNameTheirKey(input)
  /\ rule = "words" => OneCodePerKey(input)
  /\ rule = "hex" => Hex!HexIsSound(input)
=============================================================================
