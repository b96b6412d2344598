------------------------------ MODULE MCInputs ------------------------------
(* Instances of Cidr and of Settings for TLC, side by side: IPv6 addresses  *)
(* of 4 groups of 2 bits, IPv4 addresses of 4 parts of one bit.             *)
EXTENDS Cidr, Settings

UpTo(n, S) == UNION {[1 .. k -> S] : k \in 0 .. n}

(* Groups of 0 to 3 and one out of range, 4; heads and tails up to 4 long.  *)
AllV6 == [fam : {6}, head : UpTo(4, {0, 3, 4}), compressed : {FALSE}, tail : {<< >>},
          v4 : {Null, <<0, 1, 1, 0>>, <<1, 1, 1, 1>>, <<0, 2, 0, 0>>, <<1, 0, 1>>}]
    \cup [fam : {6}, head : UpTo(3, {0, 1}), compressed : {TRUE}, tail : UpTo(2, {0, 2, 4}),
          v4 : {Null, <<0, 1, 1, 0>>, <<1, 0, 1>>}]

AllV4 == [fam : {4}, parts : [1 .. 4 -> 0 .. 1] \cup {<<1, 0, 2, 0>>, <<1, 0, 1>>}]
SomeTexts == AllV4 \cup AllV6

(* A good and a bad IPv4 range and an IPv6 one; prefixes of 0, around a     *)
(* boundary of parts or groups, of the full width and one beyond it.        *)
SomeEntries ==
  [net : {[fam |-> 4, parts |-> <<1, 0, 1, 1>>]}, prefix : {0, 3, 4, 5, Null}]
    \cup [net : {[fam |-> 4, parts |-> <<1, 0, 1>>]}, prefix : {0}]
    \cup [net : {[fam |-> 6, head |-> <<1>>, compressed |-> TRUE, tail |-> <<2>>, v4 |-> Null]},
          prefix : {1, 7, 8, 9, Null}]

TwoAtMost == 0 .. 2

(* Either an address asks or a setting is read. *)
NothingAsks == ip = [fam |-> 4, parts |-> <<1, 0, 1, 1>>] /\ list = << >> /\ at = 1 /\ answer = FALSE
NothingRead == setting = [kind |-> "none"] /\ result = << >>

Inputs ==
  /\ (AllowlistInit /\ NothingRead) \/ (NothingAsks /\ SettingsInit)
  /\ [][\/ AllowlistNext /\ UNCHANGED settingVars
        \/ ReadSetting /\ UNCHANGED allowlistVars]_<<allowlistVars, settingVars>>
=============================================================================
