------------------------------ MODULE MCOtpFuses ------------------------------
(* Two key rows of two bits, two strings, and devices that come blank, with *)
(* the owner's key in a slot, with a key broken off, a revoked slot, or a   *)
(* UTF-16 product string.                                                   *)
EXTENDS OtpFuses

MCOurKey == <<{1, 2}, {2}>>
MCLabels == <<[idx |-> 1, len |-> 3, text |-> <<{1}, {2}>>],
              [idx |-> 2, len |-> 2, text |-> <<{1, 2}>>]>>

Blank == [c \in Cells |-> {}]
Wide == [Blank EXCEPT ![Entry(0)] = BitsOf(TableSize * 256 + 128 + 2),
                      ![Text(TableSize)] = {1}, ![Text(TableSize + 1)] = {2}]
Flagged(m, flags) == [c \in Cells |-> IF c \in {BootFlags(k) : k \in Redundant} THEN flags ELSE m[c]]

Blanks == <<{}, {}>>
Contents == {Blanks, <<{1}, {1}>>, <<{1}, {}>>, MCOurKey}
Keyed(m, keys) ==
  [c \in Cells |-> IF \E s \in Slots, r \in 1..KeyRows : c = KeyCell(s, r)
                     THEN keys[c[2] + 1][c[3]] ELSE m[c]]
FlagSets == SUBSET {ValidBit(0), ValidBit(1), InvalidBit(0), InvalidBit(1)}
MCMemories == {Flagged(Keyed(m, keys), flags) :
                 m \in {Blank, Wide}, keys \in {<<k, l, Blanks>> : k, l \in Contents}, flags \in FlagSets}
===============================================================================
