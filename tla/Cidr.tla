-------------------------------- MODULE Cidr --------------------------------
(***************************************************************************)
(* The address allowlist of a service: parsing an IPv4 or IPv6 address and *)
(* matching it with a list of ranges, entry by entry, as ipInCidrs does.   *)
(*                                                                         *)
(* An address text is given by its fields: the decimal parts of an IPv4    *)
(* address; the groups before and after "::" of an IPv6 one and the IPv4   *)
(* address it may end with.  The sizes are parameters: an IPv6 address has *)
(* 8 groups of 16 bits in the code, Groups groups of 2 * Half bits here;   *)
(* an IPv4 address has 4 parts of Half bits, as many as two groups.        *)
(* Left out: characters, white space and zones, which are stripped first.  *)
(***************************************************************************)
EXTENDS Integers, Sequences, Functions

CONSTANTS
  Half,     \* bits of an IPv4 part (8)
  Groups,   \* groups of an IPv6 address (8)
  Texts,    \* the addresses that ask
  Entries,  \* the entries lists are made of
  Lists,    \* lengths of the lists
  Null      \* no value

VARIABLES
  ip,      \* the address that asks, a text
  list,    \* the service's allowlist
  at,      \* the entry to try next
  answer   \* what ipInCidrs returns, or Null while it runs

allowlistVars == <<ip, list, at, answer>>

-----------------------------------------------------------------------------
Group == 0 .. (2 ^ (2 * Half) - 1)
Part  == 0 .. (2 ^ Half - 1)

(* A field out of range stands for one that is no number, too.  Without     *)
(* "::" all groups are in the head.                                         *)
V4Text == [fam : {4}, parts : Seq(Nat)]
V6Text ==
  {t \in [fam : {6}, head : Seq(Nat), compressed : BOOLEAN, tail : Seq(Nat), v4 : Seq(Nat) \cup {Null}] :
     ~t.compressed => t.tail = << >>}
ASSUME TextsAssumption ==
  /\ Half \in Nat \ {0} /\ Groups \in Nat \ {0, 1} /\ Lists \subseteq Nat
  /\ Null \notin Nat /\ Null \notin Seq(Nat) /\ Null \notin BOOLEAN
  /\ Texts \subseteq V4Text \cup V6Text
  /\ \A entry \in Entries : entry.net \in V4Text \cup V6Text

Width(fam) == IF fam = 6 THEN Groups * 2 * Half ELSE 4 * Half

(* (n << bits) | x for each x in turn. *)
Shifted(xs, bits) ==
  LET value[n \in 0 .. Len(xs)] == IF n = 0 THEN 0 ELSE value[n - 1] * 2 ^ bits + xs[n]
  IN value[Len(xs)]

ParseIpv4(parts) ==
  IF Len(parts) # 4 \/ ~(Range(parts) \subseteq Part) THEN Null ELSE Shifted(parts, Half)

(* A dotted ending is replaced by two groups of 0, and written over the low *)
(* bits in the end.                                                         *)
PlaceholderOne(t, last) == IF t.v4 # Null /\ last THEN <<0>> ELSE << >>   \* mutant

Placeholder(t, last) == IF t.v4 # Null /\ last THEN <<0, 0>> ELSE << >>

Zeros(n) == [i \in 1 .. n |-> 0]

Expand(t) ==
  LET head    == t.head \o Placeholder(t, ~t.compressed)
      tail    == t.tail \o Placeholder(t, t.compressed)
      missing == Groups - Len(head) - Len(tail)
  IN IF ~(Range(head) \cup Range(tail) \subseteq Group) \/ missing < 0
          \/ (~t.compressed /\ missing # 0)
       THEN Null
       ELSE head \o Zeros(missing) \o tail

ParseIpv6(t) ==
  IF Expand(t) = Null \/ (t.v4 # Null /\ ParseIpv4(t.v4) = Null) THEN Null
  ELSE LET n   == Shifted(Expand(t), 2 * Half)
           low == 2 ^ (4 * Half)
       IN IF t.v4 = Null THEN n ELSE (n \div low) * low + ParseIpv4(t.v4)

ParseIp(t) == IF t.fam = 6 THEN ParseIpv6(t) ELSE ParseIpv4(t.parts)

-----------------------------------------------------------------------------
(* An entry: an address text and what Number() makes of the text after the  *)
(* slash, Null when there is no slash.                                      *)
MatchAnyFamily(t, entry) ==   \* mutant: the families are not compared
  LET net    == ParseIp(entry.net)
      prefix == IF entry.prefix = Null THEN Width(t.fam) ELSE entry.prefix
  IN /\ net # Null /\ prefix \in 0 .. Width(t.fam)
     /\ \/ prefix = 0
        \/ LET low == 2 ^ (Width(t.fam) - prefix)
           IN ParseIp(t) \div low = net \div low

MatchCidr(t, entry) ==
  LET net    == ParseIp(entry.net)
      prefix == IF entry.prefix = Null THEN Width(t.fam) ELSE entry.prefix
  IN /\ net # Null /\ entry.net.fam = t.fam
     /\ prefix \in 0 .. Width(t.fam)
     /\ \/ prefix = 0
        \/ LET low == 2 ^ (Width(t.fam) - prefix)
           IN ParseIp(t) \div low = net \div low

AllowlistInit ==
  /\ ip \in Texts
  /\ list \in UNION {[1 .. n -> Entries] : n \in Lists}
  /\ at = 1 /\ answer = Null

(* parseIp on the address itself comes first. *)
Reject ==
  /\ answer = Null /\ at = 1 /\ ParseIp(ip) = Null
  /\ answer' = FALSE
  /\ UNCHANGED <<ip, list, at>>

TryEntry ==
  /\ answer = Null /\ ParseIp(ip) # Null /\ at <= Len(list)
  /\ IF MatchCidr(ip, list[at]) THEN answer' = TRUE /\ UNCHANGED at
                                ELSE at' = at + 1 /\ UNCHANGED answer
  /\ UNCHANGED <<ip, list>>

Exhausted ==
  /\ answer = Null /\ ParseIp(ip) # Null /\ at > Len(list)
  /\ answer' = FALSE
  /\ UNCHANGED <<ip, list, at>>

AllowlistNext == Reject \/ TryEntry \/ Exhausted

AllowlistSpec == AllowlistInit /\ [][AllowlistNext]_allowlistVars

-----------------------------------------------------------------------------
(* What texts mean, group by group and bit by bit.                          *)
Address == [1 .. Groups -> Group]

WithDots(groups, v4) ==
  IF v4 = Null THEN groups
  ELSE groups \o <<v4[1] * 2 ^ Half + v4[2], v4[3] * 2 ^ Half + v4[4]>>

(* The addresses a text stands for: one, or none when it is malformed.      *)
Denotes(t) ==
  IF t.v4 # Null /\ (Len(t.v4) # 4 \/ ~(Range(t.v4) \subseteq Part)) THEN {}
  ELSE LET front == IF t.compressed THEN t.head ELSE WithDots(t.head, t.v4)
           back  == IF t.compressed THEN WithDots(t.tail, t.v4) ELSE << >>
       IN {a \in Address :
             /\ Len(front) + Len(back) <= Groups
             /\ ~t.compressed => Len(front) = Groups
             /\ \A i \in 1 .. Groups :
                  a[i] = CASE i <= Len(front) -> front[i]
                           [] i > Groups - Len(back) -> back[i - (Groups - Len(back))]
                           [] OTHER -> 0}

Bit(t, v, i) == (v \div 2 ^ (Width(t.fam) - i)) % 2

(* Parsing an IPv6 text gives the value of the address it stands for, with  *)
(* "::" anywhere and with a dotted ending, and null for a malformed one     *)
(* (cidr.ts:24-79).                                                         *)
ParsesTheAddress ==
  ip.fam = 6 =>
    IF Denotes(ip) = {} THEN ParseIp(ip) = Null
    ELSE \E a \in Denotes(ip) : Denotes(ip) = {a} /\ ParseIp(ip) = Shifted(a, 2 * Half)

Covers(entry, t) ==
  /\ entry.net.fam = t.fam /\ ParseIp(entry.net) # Null
  /\ entry.prefix # Null => entry.prefix \in 0 .. Width(t.fam)
  /\ \A i \in 1 .. (IF entry.prefix = Null THEN Width(t.fam) ELSE entry.prefix) :
       Bit(t, ParseIp(t), i) = Bit(t, ParseIp(entry.net), i)

(* The answer is yes exactly when some entry of the address's own family    *)
(* agrees with it on every bit of the prefix; malformed entries cover       *)
(* nothing and stop nothing (cidr.ts:91-111; security.test.ts:41, "does not *)
(* cross address families").                                                *)
AllowedExactly ==
  answer # Null => (answer <=> /\ ParseIp(ip) # Null
                               /\ \E i \in DOMAIN list : Covers(list[i], ip))
=============================================================================
