------------------------------ MODULE Settings ------------------------------
(***************************************************************************)
(* How config.ts reads the settings that are texts: the address to listen  *)
(* on and the durations.                                                   *)
(*                                                                         *)
(* An address is what its text falls into: the parts between its colons,   *)
(* or, when it starts with a bracket, the parts inside and what follows.   *)
(* A part is a number, or a word by its name, the empty one included; what *)
(* is no number is read as NaN.                                            *)
(***************************************************************************)
EXTENDS Integers, Sequences

CONSTANTS
  HostParts,  \* words of the instance's host names and addresses
  Numbers     \* its numbers, of ports and durations

ASSUME SettingsAssumption == Numbers \subseteq Nat /\ HostParts \subseteq STRING \ {""}

VARIABLES
  setting,  \* a setting, as it was meant and written
  result    \* what it was read as, in a sequence, empty before

settingVars == <<setting, result>>

Empty == [word |-> ""]
Word(w) == [word |-> w]
Digits(n) == [number |-> n]

DefaultHost == <<Word("0.0.0.0")>>
DefaultPort == 8787

(* Number(): nothing is zero, any free port; NaN gives way to the default.  *)
PortOf(part) ==
  CASE part = Empty -> 0
    [] DOMAIN part = {"number"} -> part.number
    [] OTHER -> DefaultPort

HostOf(part) == IF part = Empty THEN DefaultHost ELSE <<part>>

ParsePlainFirstColon(parts) ==   \* mutant: a bare IPv6 address is split, too
  IF Len(parts) = 1 THEN [host |-> HostOf(parts[1]), port |-> DefaultPort]
  ELSE [host |-> HostOf(parts[1]), port |-> PortOf(parts[2])]

ParsePlain(parts) ==
  CASE Len(parts) > 2 -> [host |-> parts, port |-> DefaultPort]
    [] Len(parts) = 1 -> [host |-> HostOf(parts[1]), port |-> DefaultPort]
    [] OTHER          -> [host |-> HostOf(parts[1]), port |-> PortOf(parts[2])]

(* after: what is behind the bracket, from its colon on, or nothing.        *)
ParseBracketed(inside, after) ==
  [host |-> inside, port |-> IF after = << >> THEN DefaultPort ELSE PortOf(after[1])]

ParseAddr(text) ==
  IF text.bracketed THEN ParseBracketed(text.parts, text.after) ELSE ParsePlain(text.parts)

-----------------------------------------------------------------------------
(* In milliseconds.  A text that does not match stops the boot; the default *)
(* is for a setting that is missing.                                        *)
ParseCompactDuration(n, unit) ==
  CASE unit = "ms" -> n
    [] unit = "m"  -> n * 60 * 1000
    [] unit = "h"  -> n * 60 * 60 * 1000
    [] unit = "d"  -> n * 24 * 60 * 60 * 1000
    [] OTHER       -> n * 1000

-----------------------------------------------------------------------------
(* What an operator means and how it can be written.  IPv6 addresses have   *)
(* more than one colon, names and IPv4 addresses none.                      *)
Plain(parts) == [bracketed |-> FALSE, parts |-> parts, after |-> << >>]
Bracketed(parts, after) == [bracketed |-> TRUE, parts |-> parts, after |-> after]

Names == {<<Word(w)>> : w \in HostParts}
V6 == [1 .. 3 -> {Word(w) : w \in HostParts} \cup {Digits(n) : n \in Numbers} \cup {Empty}]

WaysToWrite(host, port) ==
  CASE port = << >> /\ host = << >> -> {Plain(<<Empty>>)}
    [] port = << >> /\ host # << >> -> {Plain(host), Bracketed(host, << >>)}
    [] port # << >> /\ host = << >> -> {Plain(<<Empty, Digits(port[1])>>)}
    [] OTHER -> {Bracketed(host, <<Digits(port[1])>>)}
                  \cup {Plain(p \o <<Digits(port[1])>>) : p \in {host} \cap Names}

Listen == [host : {<< >>} \cup Names \cup V6, port : {<< >>} \cup {<<n>> : n \in Numbers}]

Addresses == UNION {[kind : {"address"}, meant : {x}, text : WaysToWrite(x.host, x.port)] : x \in Listen}

Finer == [d |-> <<24, "h">>, h |-> <<60, "m">>, m |-> <<60, "s">>, s |-> <<1000, "ms">>, none |-> <<1, "s">>]

Durations == [kind : {"duration"}, n : Numbers, unit : DOMAIN Finer]

SettingsInit == setting \in Addresses \cup Durations /\ result = << >>

ReadSetting ==
  /\ setting.kind # "none" /\ result = << >>
  /\ result' = IF setting.kind = "address" THEN <<ParseAddr(setting.text)>>
               ELSE <<ParseCompactDuration(setting.n, setting.unit)>>
  /\ UNCHANGED setting

SettingsSpec == SettingsInit /\ [][ReadSetting]_settingVars

-----------------------------------------------------------------------------
(* An address is read as it was meant, in every way to write a host with    *)
(* and without a port, IPv6 included, and a duration is the same time in    *)
(* the next finer unit (config.ts:15, 53).                                  *)
ReadsAsWritten ==
  result # << >> =>
    IF setting.kind = "address"
      THEN result[1] = [host |-> IF setting.meant.host = << >> THEN DefaultHost ELSE setting.meant.host,
                        port |-> IF setting.meant.port = << >> THEN DefaultPort ELSE setting.meant.port[1]]
      ELSE result[1] = ParseCompactDuration(Finer[setting.unit][1] * setting.n, Finer[setting.unit][2])
=============================================================================
