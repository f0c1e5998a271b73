----------------------------- MODULE KeyOrder ------------------------------
(***************************************************************************)
(* How the emulator orders keys and tells which of them belong to a group  *)
(* (CmpEmulPrefix in kv_emulator.hpp and the matching in kv_emulator.cpp). *)
(*                                                                         *)
(* A key is the record of its leading bytes (the four bytes that the code  *)
(* reads as a uint32_t; Lead of them here), the number of bytes after them *)
(* and the content of those.  A byte is represented by one of its bits.    *)
(* Lead byte 1 is the first in memory, hence the least significant byte of *)
(* the integer on the little-endian hosts the code runs on.                *)
(***************************************************************************)
EXTENDS Naturals

CONSTANT Lead

ASSUME LeadAssumption == Lead \in Nat \ {0}

Byte == {0, 1}
Places == 1..Lead
Leads == [Places -> Byte]
Key == [lead : Leads, ext : Nat, tail : Nat]

\* The comparison of the leading bytes as little-endian integers.
LeadLess(a, b) ==
    \E i \in Places : /\ a[i] < b[i]
                      /\ \A j \in Places : j > i => a[j] = b[j]

\* CmpEmulPrefix: leading bytes, then length, then the rest of the content.
Less(a, b) ==
    IF a.lead = b.lead THEN a.ext < b.ext \/ (a.ext = b.ext /\ a.tail < b.tail)
    ELSE LeadLess(a.lead, b.lead)

\* (prefix & bitmask) == (bit_pattern & bitmask)
Matches(k, mask, pat) == \A i \in mask : k.lead[i] = pat[i]

\* A group of keys as the application names it, by its first m bytes: what is
\* left of it once htobe32 has put the bits in memory order.
FrontMask(m) == 1..m

\* The same condition handed on without htobe32: the bits fall on the last
\* bytes, in reverse order.
BackMask(m) == (Lead + 1 - m)..Lead
Reversed(pat) == [i \in Places |-> pat[Lead + 1 - i]]

\* The smallest key of a group: bit_pattern & bitmask, four bytes long.
MinKey(mask, pat) ==
    [lead |-> [i \in Places |-> IF i \in mask THEN pat[i] ELSE 0], ext |-> 0, tail |-> 0]

============================================================================
