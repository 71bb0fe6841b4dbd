-------------------------------- MODULE Lpm --------------------------------
(***************************************************************************)
(* Longest prefix match with two direct tables                             *)
(* (libvig/verified/lpm-dir-24-8.c): lpm_24 has an entry for every value   *)
(* of the high bits of an address, lpm_long groups of entries, one for     *)
(* every value of the low bits.  A rule of at most HighBits bits fills     *)
(* entries of lpm_24, a longer one the entries of a group that an entry of *)
(* lpm_24 points to.                                                       *)
(***************************************************************************)
EXTENDS Integers, Sequences

CONSTANTS HighBits, LowBits,   \* 24 and 8 in the code
          OffsetMax,           \* lpm_LONG_OFFSET_MAX, the number of groups
          Routes,              \* the next hops
          MaxRules             \* bound: rules inserted

VARIABLES lpm_24, lpm_long, lpm_long_index,
          rules                \* the rules taken so far, in the order of the calls

vars == <<lpm_24, lpm_long, lpm_long_index, rules>>

Bits == HighBits + LowBits

Addresses == 0 .. (2^Bits - 1)

(* Entries are 16-bit numbers; the top bit of one in lpm_24 tells the base *)
(* of a group from a next hop.                                             *)
FlagMask == 2^15
INVALID  == 2^16 - 1

lpm_24_entry_flag(entry) == entry \div FlagMask = 1

lpm_24_entry_set_flag(base) == base + FlagMask

LpmAssumption == /\ HighBits \in Nat \ {0} /\ LowBits \in Nat \ {0}
                 /\ OffsetMax \in Nat \ {0} /\ OffsetMax <= 2^LowBits
                 /\ Routes \subseteq 0 .. (FlagMask - 1) /\ MaxRules \in Nat

(* The address with the bits after prefixlen cleared.                      *)
Masked(ip, prefixlen) == ip - (ip % 2^(Bits - prefixlen))

lpm_24_extract_first_index(ip) == ip \div 2^LowBits

lpm_long_extract_first_index(ip, prefixlen, base) ==
  (base * 2^LowBits) + (Masked(ip, prefixlen) % 2^LowBits)

(* One entry more than the rule has.                                       *)
compute_rule_size_more(prefixlen) ==
  1 + IF prefixlen <= HighBits THEN 2^(HighBits - prefixlen) ELSE 2^(Bits - prefixlen)

compute_rule_size(prefixlen) ==
  IF prefixlen <= HighBits THEN 2^(HighBits - prefixlen) ELSE 2^(Bits - prefixlen)

(* The loops that fill an array from "first" on.                           *)
Filled(t, first, size, value) ==
  [i \in DOMAIN t |-> IF i \in first .. (first + size - 1) THEN value ELSE t[i]]

lpm_allocate ==
  /\ lpm_24 = [i \in 0 .. (2^HighBits - 1) |-> INVALID]
  /\ lpm_long = [i \in 0 .. (OffsetMax * 2^LowBits - 1) |-> INVALID]
  /\ lpm_long_index = 0

Init == lpm_allocate /\ rules = <<>>

lpm_lookup_elem(ip) ==
  LET value == lpm_24[lpm_24_extract_first_index(ip)]
  IN  IF value = INVALID THEN INVALID
      ELSE IF lpm_24_entry_flag(value)
           THEN lpm_long[lpm_long_extract_first_index(ip, Bits, value % 2^LowBits)]
           ELSE value

NeedsNewIndex(entry) == entry = INVALID \/ ~lpm_24_entry_flag(entry)

(* The part of lpm_update_elem for a rule that fits lpm_24.                *)
UpdateShort(ip, prefixlen, route) ==
  /\ prefixlen <= HighBits
  /\ lpm_24' = Filled(lpm_24, lpm_24_extract_first_index(Masked(ip, prefixlen)),
                      compute_rule_size(prefixlen), route)
  /\ UNCHANGED <<lpm_long, lpm_long_index>>

(* And the part for a longer rule.                                         *)
UpdateLong(ip, prefixlen, route) ==
  LET index == lpm_24_extract_first_index(ip)
      Store(base) ==
        lpm_long' = Filled(lpm_long, lpm_long_extract_first_index(ip, prefixlen, base),
                           compute_rule_size(prefixlen), route)
  IN  /\ prefixlen > HighBits
      /\ \/ /\ NeedsNewIndex(lpm_24[index]) /\ lpm_long_index < OffsetMax
            /\ lpm_24' = [lpm_24 EXCEPT ![index] = lpm_24_entry_set_flag(lpm_long_index)]
            /\ lpm_long_index' = lpm_long_index + 1
            /\ Store(lpm_long_index)
         \/ /\ ~NeedsNewIndex(lpm_24[index])
            /\ Store(lpm_24[index] % FlagMask)
            /\ UNCHANGED <<lpm_24, lpm_long_index>>

(* No group is left: lpm_update_elem returns 0 and changes nothing.        *)
UpdateRefused(ip, prefixlen) ==
  /\ prefixlen > HighBits /\ lpm_long_index >= OffsetMax
  /\ NeedsNewIndex(lpm_24[lpm_24_extract_first_index(ip)])
  /\ UNCHANGED vars

(* The header assumes the rules in ascending order of prefixlen.           *)
lpm_update_elem(ip, prefixlen, route) ==
  /\ \A n \in DOMAIN rules : rules[n].prefixlen <= prefixlen
  /\ \/ /\ Len(rules) < MaxRules
        /\ UpdateShort(ip, prefixlen, route) \/ UpdateLong(ip, prefixlen, route)
        /\ rules' = Append(rules, [prefix |-> Masked(ip, prefixlen),
                                   prefixlen |-> prefixlen, route |-> route])
     \/ UpdateRefused(ip, prefixlen)

(* A lookup changes nothing.                                               *)
Lookup == UNCHANGED vars

Next == \/ Lookup
        \/ \E ip \in Addresses, prefixlen \in 0 .. Bits, route \in Routes :
             lpm_update_elem(ip, prefixlen, route)

Spec == Init /\ [][Next]_vars
-----------------------------------------------------------------------------
Covers(rule, ip) == Masked(ip, rule.prefixlen) = rule.prefix

(* The rules that can decide for an address: a long rule with its high     *)
(* bits took them out of the reach of the short ones.                      *)
Candidates(ip) ==
  LET long == {n \in DOMAIN rules : /\ rules[n].prefixlen > HighBits
                                    /\ lpm_24_extract_first_index(rules[n].prefix)
                                         = lpm_24_extract_first_index(ip)}
  IN  {n \in (IF long = {} THEN DOMAIN rules ELSE long) : Covers(rules[n], ip)}

(* With rules in ascending order lpm_lookup_elem returns the route of the  *)
(* longest rule that covers the address, the last one among equals, and of *)
(* no rule lpm_update_elem refused; but once a rule longer than HighBits   *)
(* has the high bits of the address, only such rules count.                *)
LongestPrefix ==
  \A ip \in Addresses :
    LET best == {n \in Candidates(ip) : \A m \in Candidates(ip) :
                    \/ rules[m].prefixlen < rules[n].prefixlen
                    \/ rules[m].prefixlen = rules[n].prefixlen /\ m <= n}
    IN  lpm_lookup_elem(ip) = IF best = {} THEN INVALID
                              ELSE rules[CHOOSE n \in best : TRUE].route
=============================================================================
