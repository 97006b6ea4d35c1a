------------------------------- MODULE Memory -------------------------------
(***************************************************************************)
(* The laboratory's address space (Memory.cpp): regions with permissions   *)
(* and bytes of their own.  A memory is the set of its regions; the code's *)
(* sort by base only decides the order in which they are listed.  A word   *)
(* has four bytes of ByteBits bits, and an address is a word, so that      *)
(* everything that is 32, 16 or 0x1'0000'0000 in the code is derived here. *)
(***************************************************************************)
EXTENDS Integers, FiniteSets, FiniteSetsExt

CONSTANT ByteBits     \* 8 in the code

ASSUME ByteBitsAssumption == ByteBits \in Nat \ {0}

WordBits == 4 * ByteBits
Modulus  == 2 ^ WordBits
Word     == 0 .. Modulus - 1
Byte     == 0 .. 2 ^ ByteBits - 1
Perms    == {"read", "write", "execute"}

endExclusive(r) == r.base + r.size

\* The end is computed in 64 bits: it does not wrap.
Mappable(m, base, size) ==
  /\ size # 0
  /\ base + size <= Modulus
  /\ \A r \in m : base + size <= r.base \/ base >= endExclusive(r)

\* map fills with zeros; load and loadFile put bytes at the start of the region.
Region(base, size, perms, bytes) ==
  [base |-> base, size |-> size, perms |-> perms,
   bytes |-> [i \in 0 .. size - 1 |-> IF i \in DOMAIN bytes THEN bytes[i] ELSE 0]]

\* One region has to hold the whole access.
find(m, address, size) ==
  {r \in m : address >= r.base /\ address + size <= endExclusive(r)}

\* (mutant) The permissions of the region are not asked for.
Permitted_any(m, address, size, perm) == find(m, address, size) # {}

\* readable, writable and executable.
Permitted(m, address, size, perm) == \E r \in find(m, address, size) : perm \in r.perms

\* The number that size bytes make, the most significant first.
BigEndian(bytes, offset, size) ==
  MapThenSumSet(LAMBDA i : bytes[offset + i] * 2 ^ (ByteBits * (size - 1 - i)), 0 .. size - 1)

\* readBytes, as the number that read8 to read64 make of it.
readBytes(m, address, size) ==
  LET r == CHOOSE r \in find(m, address, size) : TRUE
  IN  BigEndian(r.bytes, address - r.base, size)

ByteOf(value, size, i) == (value \div 2 ^ (ByteBits * (size - 1 - i))) % 2 ^ ByteBits

\* write8 to write64: the bytes of a value, the most significant first.
writeBytes(m, address, size, value) ==
  LET r == CHOOSE r \in find(m, address, size) : TRUE
      offset == address - r.base
  IN  (m \ {r}) \cup
      {[r EXCEPT !.bytes = [i \in DOMAIN @ |->
          IF i \in offset .. offset + size - 1 THEN ByteOf(value, size, i - offset) ELSE @[i]]]}

-----------------------------------------------------------------------------
\* The regions of a memory never overlap and end within the address space.
Disjoint(m) ==
  /\ \A r \in m : r.size > 0 /\ endExclusive(r) <= Modulus
  /\ \A r, s \in m : r = s \/ endExclusive(r) <= s.base \/ endExclusive(s) <= r.base
=============================================================================
