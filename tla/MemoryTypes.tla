---------------------------- MODULE MemoryTypes -----------------------------
(***************************************************************************)
(* Memory types of ptedit_header.h on x86-64: the page attribute table     *)
(* (PAT), eight types that the bits PWT, PCD and PAT of an entry select    *)
(* from.  A type is the set of its one-bits, a PAT a function from indices *)
(* to types, the attributes of an entry a set of bit numbers.              *)
(***************************************************************************)
EXTENDS Integers

Type == SUBSET {1, 2, 4}
UC == {}
WB == {2, 4}
Index == 0 .. 7
PatTable == [Index -> Type]

PWT == 3
PCD == 4
PSE == 7
PAT == 7          \* of a PTE
PAT_LARGE == 12   \* of a PMD entry of a large page

-----------------------------------------------------------------------------
(* ptedit_set_mt: the mask is an int, so its shift for an index above 3 is  *)
(* undefined: the processor shifts by 32 less, a compiler drops the mask.   *)
SetMt(mts, mt, value) ==
  LET Put(old) == [old EXCEPT ![mt] = @ \cup value]
      Cleared(i) == [mts EXCEPT ![i] = {}]
  IN IF mt <= 3 THEN {Put(Cleared(mt))} ELSE {Put(Cleared(mt - 4)), Put(mts)}

FindMt(mts, type) == {i \in Index : mts[i] = type}
FindFirstMt(mts, type) ==
  IF FindMt(mts, type) = {} THEN -1
  ELSE CHOOSE i \in FindMt(mts, type) : \A j \in FindMt(mts, type) : i <= j

\* The bits of an index, and the bit of an entry each of them goes to.
Bits(mt) == {b \in {1, 2, 4} : (mt \div b) % 2 = 1}
BitAsIs(b, high) == b                                              \* mutant
BitOf(b, high) == CASE b = 1 -> PWT [] b = 2 -> PCD [] b = 4 -> high

ApplyOver(entry, mt, high) ==                                      \* mutant
  entry \cup {BitOf(b, high) : b \in Bits(mt)}
Apply(entry, mt, high) ==
  (entry \ {PWT, PCD, high}) \cup {BitOf(b, high) : b \in Bits(mt)}
Extract(entry, high) ==
  LET Part(b) == IF BitOf(b, high) \in entry THEN b ELSE 0
  IN Part(1) + Part(2) + Part(4)

ApplyMt(entry, mt) == Apply(entry, mt, PAT)
ApplyMtHuge(entry, mt) == Apply(entry, mt, PAT_LARGE)
ExtractMt(entry) == Extract(entry, PAT)
ExtractMtHuge(entry) == Extract(entry, PAT_LARGE)
=============================================================================
