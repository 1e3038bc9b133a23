------------------------------- MODULE OtpFuses -------------------------------
(***************************************************************************)
(* The write of the one-time programmable memory behind "lock-boot"        *)
(* (driver/otp/otp.go, cmd/controller/lockboot_*.go): the white-label      *)
(* strings, the boot key, its flags, then secure boot.  A bit only ever    *)
(* goes from 0 to 1, rows are written one by one, power may go between any *)
(* two of them, and the command may be given again.                        *)
(*                                                                         *)
(* A row is the set of its bits that are 1; a row of the model's key and   *)
(* strings stands for the bytes of one row.  Rows are torn never, only     *)
(* their sequence is.  Offsets count from the row of the label table.      *)
(***************************************************************************)
EXTENDS Naturals, Sequences, FiniteSets, FiniteSetsExt

CONSTANTS NumSlots,     \* NumBootKeySlots
          KeyRows,      \* rows of a key
          OurKey,       \* the bits of each row of signKeyHash
          TableSize,    \* whiteLabelTableSize
          Unicode,      \* indices whose strings may be UTF-16
          Labels,       \* [idx, len, text] of each string, in the order written
          Space,        \* LastUserRow - FirstUserRow
          Copies,       \* copies of CRIT1
          Memories      \* the memories a device may come with

Slots == 0..(NumSlots - 1)
Redundant == 1..3
AddrValid == 22       \* WHITE_LABEL_ADDR_VALID
FirstUserRow == 192
ValidBit(s) == s
InvalidBit(s) == 8 + s

KeyCell(s, r) == <<"BOOTKEY", s, r>>
BootFlags(c) == <<"BOOT_FLAGS1", c>>
UsbFlags(c) == <<"USB_BOOT_FLAGS", c>>
Crit(c) == <<"CRIT1", c>>
Addr == <<"USB_WHITE_LABEL_ADDR">>
Entry(i) == <<"entry", i>>
Text(row) == <<"text", row>>

KeyCells == {KeyCell(s, r) : s \in Slots, r \in 1..KeyRows}
BootCells == {BootFlags(c) : c \in Redundant}
CritCells == {Crit(c) : c \in 1..Copies}
LabelCells == {Addr} \cup {UsbFlags(c) : c \in Redundant}
                \cup {Entry(i) : i \in 0..(TableSize - 1)} \cup {Text(r) : r \in 0..Space}
Cells == KeyCells \cup BootCells \cup CritCells \cup LabelCells

ASSUME OtpAssumption ==
  /\ NumSlots \in 0..8 /\ KeyRows \in Nat \ {0} /\ Copies \in Nat \ {0}
  /\ TableSize \in Nat /\ Space \in Nat
  /\ Labels \in Seq([idx : 0..(TableSize - 1), len : Nat, text : {Labels[i].text : i \in DOMAIN Labels}])
  /\ \A m \in Memories : DOMAIN m = Cells /\ \A c \in 1..Copies : m[Crit(c)] = {}

(* The strings have indices of their own, at most 127 bytes, two to a row; *)
(* a device comes with other strings, or none.                             *)
ASSUME LabelAssumption ==
  /\ TableSize <= AddrValid
  /\ \A i, j \in DOMAIN Labels : Labels[i].idx = Labels[j].idx => i = j
  /\ \A i \in DOMAIN Labels : /\ Labels[i].len < 128
                              /\ Labels[i].text \in Seq({Labels[i].text[k] : k \in DOMAIN Labels[i].text})
                              /\ Len(Labels[i].text) = (Labels[i].len + 1) \div 2
  /\ \A m \in Memories :
       /\ \A i \in DOMAIN Labels, c \in Redundant : Labels[i].idx \notin m[UsbFlags(c)]
       /\ \A e \in 0..(TableSize - 1) : m[Entry(e)] \subseteq 0..15

VARIABLES
  mem,      \* the bits of each row
  found,    \* the memory the device came with; no part of the program
  step,     \* the step of LockBoot, 0 when it is not running
  plan,     \* the writes of the step
  next,     \* the next of them
  torn      \* a flag was left in too few of its copies; no part of the program

vars == <<mem, found, step, plan, next, torn>>

-----------------------------------------------------------------------------
(* Reading.  A flag is read as set when any of its copies has it.          *)
ReadOrRow(copies) == UNION {mem[c] : c \in copies}

Valid(s) == ValidBit(s) \in ReadOrRow(BootCells)
Invalid(s) == InvalidBit(s) \in ReadOrRow(BootCells)
Whole(s) == \A r \in 1..KeyRows : mem[KeyCell(s, r)] = OurKey[r]
IsSecureBootEnabled == ReadOrRow(CritCells) # {}

(* The boot ROM reads a flag as set when two of the three copies have it,  *)
(* and boots with a key that is whole, valid and not revoked.              *)
BootRomHas(bit) ==
  \E c, d \in Redundant : c # d /\ bit \in mem[BootFlags(c)] /\ bit \in mem[BootFlags(d)]
BootRomTakes(s) == BootRomHas(ValidBit(s)) /\ ~BootRomHas(InvalidBit(s)) /\ Whole(s)
Split(s) == Valid(s) /\ ~BootRomHas(ValidBit(s))

(* An entry of the table: the offset of the string over its length, with   *)
(* bit 7 for UTF-16.                                                       *)
BitsOf(n) == {b \in 0..15 : (n \div 2^b) % 2 = 1}
NumberOf(bits) ==
  LET Digit(b) == IF b \in bits THEN 2^b ELSE 0
  IN (Digit(0) + Digit(1) + Digit(2) + Digit(3)) + (Digit(4) + Digit(5) + Digit(6) + Digit(7))
       + (Digit(8) + Digit(9) + Digit(10) + Digit(11)) + (Digit(12) + Digit(13) + Digit(14) + Digit(15))
Offset(i) == NumberOf(mem[Entry(i)]) \div 256
Length(i) == NumberOf(mem[Entry(i)]) % 128
IsWide(i) == 7 \in mem[Entry(i)]
Marked(i) == {i, AddrValid} \subseteq ReadOrRow({UsbFlags(c) : c \in Redundant})
TextAt(i) == [k \in 1..((Length(i) + 1) \div 2) |-> mem[Text(Offset(i) + k - 1)]]

ReadLabel(i) == IF Marked(i) THEN <<Length(i), TextAt(i)>> ELSE <<0, <<>>>>
Written(label) == ReadLabel(label.idx) = <<label.len, label.text>>

-----------------------------------------------------------------------------
(* What a step writes.  An ECC row is written whole, a flag row is read    *)
(* and written back with the flag.                                         *)
Ecc(cell, bits) == [cell |-> cell, bits |-> bits, ecc |-> TRUE]
Or(cell, bits) == [cell |-> cell, bits |-> bits, ecc |-> FALSE]

AddrWrites == <<Ecc(Addr, BitsOf(FirstUserRow))>>

(* WriteWhiteLabelString: behind the last string the table knows of.       *)
EndShort(i) == Offset(i) + Length(i) \div 2
End(i) ==
  LET n == IF IsWide(i) /\ i \in Unicode THEN 2 * Length(i) ELSE Length(i)
  IN Offset(i) + (n + 1) \div 2
RowOffset == Max({TableSize} \cup {End(i) : i \in 0..(TableSize - 1)})

LabelFlagFirst(label) ==
  <<Ecc(Entry(label.idx), BitsOf((RowOffset * 256 + label.len) % 2^16))>>
    \o [c \in Redundant |-> Or(UsbFlags(c), {label.idx, AddrValid})]
    \o [k \in 1..Len(label.text) |-> Ecc(Text(RowOffset + k - 1), label.text[k])]
LabelWrites(label) ==
  <<Ecc(Entry(label.idx), BitsOf((RowOffset * 256 + label.len) % 2^16))>>
    \o [k \in 1..Len(label.text) |-> Ecc(Text(RowOffset + k - 1), label.text[k])]
    \o [c \in Redundant |-> Or(UsbFlags(c), {label.idx, AddrValid})]
LabelFits(label) == ~(Marked(label.idx) /\ IsWide(label.idx)) /\ RowOffset + Len(label.text) < Space

(* AddBootKey: the slot that holds the key, or the one that holds most of  *)
(* it of those it can still be written to.                                 *)
Compatible(s) == ~Invalid(s) /\ \A r \in 1..KeyRows : mem[KeyCell(s, r)] \subseteq OurKey[r]
Matches(s) == Cardinality({r \in 1..KeyRows : mem[KeyCell(s, r)] = OurKey[r]})
HasKey == \E s \in Slots : Compatible(s) /\ Valid(s) /\ Whole(s)
FitsBlank(s) == ~Invalid(s) /\ ~Valid(s) /\ \A r \in 1..KeyRows : mem[KeyCell(s, r)] = {}
Fits(s) == Compatible(s) /\ ~Valid(s)
BestFit(s) ==
  Fits(s) /\ \A t \in Slots : Fits(t) => Matches(t) < Matches(s) \/ (Matches(t) = Matches(s) /\ s <= t)

(* WriteBootKey: the rows, then the three copies of the flag. *)
KeyFlagFirst(s) ==
  [j \in 1..(KeyRows + 3) |-> IF j > 3 THEN Ecc(KeyCell(s, j - 3), OurKey[j - 3])
                                       ELSE Or(BootFlags(j), {ValidBit(s)})]
KeyWrites(s) ==
  [j \in 1..(KeyRows + 3) |-> IF j <= KeyRows THEN Ecc(KeyCell(s, j), OurKey[j])
                                              ELSE Or(BootFlags(j - KeyRows), {ValidBit(s)})]

SecureWrites == [c \in 1..Copies |-> Or(Crit(c), {0})]

-----------------------------------------------------------------------------
(* LockBoot: the address, each label, the key, secure boot. *)
KeyStep == Len(Labels) + 2
LastStep == Len(Labels) + 3

Plans(k) ==
  IF k = 1 THEN {AddrWrites}
  ELSE IF k < KeyStep THEN
    LET label == Labels[k - 1] IN
    IF Written(label) THEN {<<>>} ELSE IF LabelFits(label) THEN {LabelWrites(label)} ELSE {}
  ELSE IF k = KeyStep THEN
    IF HasKey THEN {<<>>} ELSE {KeyWrites(s) : s \in {t \in Slots : BestFit(t)}}
  ELSE {SecureWrites}

Init ==
  /\ mem \in Memories /\ found = mem
  /\ step = 0 /\ plan = <<>> /\ next = 1
  /\ torn = (\E s \in Slots : Split(s))

Stop == step' = 0 /\ plan' = <<>> /\ next' = 1

Enter(k) ==
  /\ \/ plan' \in Plans(k) /\ step' = k /\ next' = 1
     \/ Plans(k) = {} /\ Stop
  /\ UNCHANGED <<mem, found, torn>>

LockBoot == step = 0 /\ Enter(1)

Finished == step > 0 /\ next > Len(plan)
NextStep == step < LastStep /\ Finished /\ Enter(step + 1)
CPUReset == step = LastStep /\ Finished /\ Stop /\ UNCHANGED <<mem, found, torn>>

(* otp_access: no bit goes back to 0, and any write may be refused; the    *)
(* error leaves LockBoot.                                                  *)
Burns(w) == w.ecc => mem[w.cell] \subseteq w.bits
WriteRow ==
  /\ step > 0 /\ next <= Len(plan)
  /\ Burns(plan[next])
  /\ mem' = [mem EXCEPT ![plan[next].cell] = @ \cup plan[next].bits]
  /\ next' = next + 1
  /\ UNCHANGED <<found, step, plan, torn>>

BreakOff == Stop /\ torn' = (torn \/ \E s \in Slots : Split(s)) /\ UNCHANGED <<mem, found>>

ErrorDropped ==
  /\ step > 0 /\ next <= Len(plan) /\ next' = Len(plan) + 1
  /\ UNCHANGED <<mem, found, step, plan, torn>>
Refused == step > 0 /\ next <= Len(plan) /\ BreakOff
PowerLoss == step > 0 /\ BreakOff

Next == LockBoot \/ NextStep \/ CPUReset \/ WriteRow \/ Refused \/ PowerLoss
Spec == Init /\ [][Next]_vars

-----------------------------------------------------------------------------
SameKey(s) == \A r \in 1..KeyRows : mem[KeyCell(s, r)] = found[KeyCell(s, r)]
WasValid(s) == \E c \in Redundant : ValidBit(s) \in found[BootFlags(c)]

(* "A slot marked valid whose contents are wrong is strictly worse than a  *)
(* blank slot" (docs/custom-firmware.md:326): a slot that came valid keeps *)
(* its key, and a slot is marked valid in no copy before all of our key is *)
(* in it, however often the write is broken off and begun again.           *)
(* Code: AddBootKey, WriteBootKey.                                         *)
MarkedIsWhole == \A s \in Slots : IF WasValid(s) THEN SameKey(s) ELSE Valid(s) => Whole(s)

(* The slots are few: all attempts together write to one.                  *)
(* Code: the choice of the most fitting slot in AddBootKey.                *)
OneSlotIsSpent == \A s, t \in Slots : ~SameKey(s) /\ ~SameKey(t) => s = t

(* A string that is marked valid can be read back whole, and no other is   *)
(* written over it.  Code: WriteWhiteLabelString.                          *)
MarkedLabelIsWhole == \A i \in DOMAIN Labels : Marked(Labels[i].idx) => Written(Labels[i])

(* What is marked valid, a key or a string, is whole. *)
ValidIsWhole == MarkedIsWhole /\ MarkedLabelIsWhole

(* Secure boot is begun only when the boot ROM finds our key, whole and    *)
(* valid in two of the three copies: in every history in which no attempt  *)
(* was broken off with the flag in one copy.                               *)
(* Code: the order of LockBoot, writeOrRow and AddBootKey.                 *)
LockedBootsUnlessTorn == IsSecureBootEnabled /\ ~torn => \E s \in Slots : BootRomTakes(s)

(* "Key exists and is marked valid." (driver/otp/otp.go:140) is what an    *)
(* attempt rests on that goes on to secure boot: a device with secure boot *)
(* in every copy of CRIT1 has a key the boot ROM takes.                    *)
(* Code: AddBootKey with readOrRow, then EnableSecureBoot.                 *)
LockedBoots == (\A c \in CritCells : mem[c] # {}) => \E s \in Slots : BootRomTakes(s)
=============================================================================
