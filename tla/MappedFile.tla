----------------------------- MODULE MappedFile -----------------------------
(***************************************************************************)
(* smart/MappedFile.cpp: registers of a device behind mmap, and the shadow *)
(* copy that stands for registers which cannot be read.                    *)
(*                                                                         *)
(* A register is the set of its bits that are one.  write32Masked is two   *)
(* steps, the read and the write: the device may change a register of its  *)
(* own (volatile) between them.                                            *)
(***************************************************************************)
EXTENDS Integers

CONSTANTS
  Words,         \* size32()
  Bits,          \* bits of a register
  MaskWidth,     \* registers the read mask has a bit for: 32 in the code
  AddressSpace,  \* 2^w, where sizes have w bits: index * 4 wraps
  FarIndices     \* indices behind the mapping that are tried

(* The mapping is less than a quarter of the address space. *)
ASSUME MappingAssumption ==
  /\ Words \in Nat \ {0} /\ MaskWidth \in Nat
  /\ AddressSpace \in Nat /\ 16 * Words < AddressSpace
  /\ FarIndices \subseteq Words .. AddressSpace - 1

VARIABLES
  volatile,          \* registers the device changes by itself
  registers,         \* what the device holds
  shadow_data,       \* _shadow_data: without entries as long as there is no shadow
  shadow_read_mask,
  masked,            \* write32Masked between its two steps
  filled,            \* history: registers that were read or written since there is a shadow
  outside            \* history: indices behind the mapping that were accessed

mapVars == <<volatile, registers, shadow_data, shadow_read_mask, masked, filled, outside>>

Word == SUBSET Bits

Registers == 0 .. Words - 1

NoCall == [index |-> -1]

MapInit ==
  /\ volatile = {}
  /\ registers = [i \in Registers |-> {}]
  /\ shadow_data = [i \in {} |-> {}] /\ shadow_read_mask = {}
  /\ masked = NoCall
  /\ filled = {} /\ outside = {}

-----------------------------------------------------------------------------
(* The device changes a register of its own. *)
DeviceSets(i, word) ==
  /\ i \in volatile
  /\ registers' = [registers EXCEPT ![i] = word]
  /\ masked' = IF masked # NoCall /\ masked.index = i /\ registers[i] # word
               THEN [masked EXCEPT !.raced = TRUE] ELSE masked
  /\ UNCHANGED <<volatile, shadow_data, shadow_read_mask, filled, outside>>

(* The test of write32, write32Masked and read32: the last index that is   *)
(* not refused is the one behind the last register.                        *)
Refused(index) == index > 4 * Words \/ (index * 4) % AddressSpace > 4 * Words

(* createShadow: entries of registers that had a shadow before are kept.   *)
(* The shadow has an entry for every byte, more than can be reached.       *)
createShadow(readMask) ==
  /\ masked = NoCall
  /\ shadow_data' = [i \in 0 .. 4 * Words - 1 |->
                       IF i \in DOMAIN shadow_data THEN shadow_data[i] ELSE {}]
  /\ shadow_read_mask' = readMask
  /\ UNCHANGED <<volatile, registers, masked, filled, outside>>

(* Is register i read from the shadow? *)
ShadowStands(i) == i \in DOMAIN shadow_data /\ (i >= MaskWidth \/ i \notin shadow_read_mask)

(* The shadow after register i was read or written. *)
Shadowed(i, word) ==
  IF i \in DOMAIN shadow_data THEN [shadow_data EXCEPT ![i] = word] ELSE shadow_data

(* _read32Unchecked. *)
ReadValue(i) == IF ShadowStands(i) THEN shadow_data[i] ELSE registers[i]

Filled(i) == IF i \in DOMAIN shadow_data THEN filled \cup {i} ELSE filled

(* _read32Unchecked: what it leaves in the shadow. *)
Read(i) ==
  IF ShadowStands(i) THEN UNCHANGED <<shadow_data, filled>>
  ELSE shadow_data' = Shadowed(i, registers[i]) /\ filled' = Filled(i)

read32(i) ==
  /\ masked = NoCall /\ ~Refused(i)
  /\ Read(i)
  /\ UNCHANGED <<volatile, registers, shadow_read_mask, masked, outside>>

(* Faulty: the shadow keeps what it had. *)
WrittenBehindShadow(i, word) ==
  /\ registers' = [registers EXCEPT ![i] = word]
  /\ UNCHANGED shadow_data
  /\ filled' = Filled(i)

(* Device and shadow are written. *)
Written(i, word) ==
  /\ registers' = [registers EXCEPT ![i] = word]
  /\ shadow_data' = Shadowed(i, word)
  /\ filled' = Filled(i)

write32(i, value) ==
  /\ masked = NoCall /\ ~Refused(i)
  /\ Written(i, value)
  /\ UNCHANGED <<volatile, shadow_read_mask, masked, outside>>

(* Faulty: the value is not cut to the mask. *)
MergedUncut(old, mask, value) == (old \ mask) \cup value

Merged(old, mask, value) == (old \ mask) \cup (value \cap mask)

(* write32Masked: the read and what it makes of it ... *)
MaskedRead(i, mask, value) ==
  /\ masked = NoCall /\ ~Refused(i)
  /\ masked' = [index |-> i, mask |-> mask, new |-> Merged(ReadValue(i), mask, value),
                raced |-> FALSE]
  /\ Read(i)
  /\ UNCHANGED <<volatile, registers, shadow_read_mask, outside>>

(* ... and the write. *)
MaskedWrite ==
  /\ masked # NoCall
  /\ Written(masked.index, masked.new)
  /\ masked' = NoCall
  /\ UNCHANGED <<volatile, shadow_read_mask, outside>>

(* An access that is not refused behind the last register touches what is  *)
(* mapped there, or ends the program: no register of this mapping changes. *)
Stray(index) ==
  /\ masked = NoCall /\ ~Refused(index)
  /\ outside' = outside \cup {index}
  /\ UNCHANGED <<volatile, registers, shadow_data, shadow_read_mask, masked, filled>>

Access ==
  \/ \E i \in Registers : read32(i)
  \/ \E i \in Registers, value \in Word : write32(i, value)
  \/ \E i \in Registers, mask \in Word, value \in Word : MaskedRead(i, mask, value)
  \/ MaskedWrite
  \/ \E index \in FarIndices : Stray(index)

-----------------------------------------------------------------------------
(* The shadow of a register that was read or written, and that the device  *)
(* does not change by itself, is what the register holds: through plain    *)
(* and masked writes, and whatever the read mask is set to in between.     *)
ShadowAgrees ==
  \A i \in filled \ volatile : shadow_data[i] = registers[i]

(* MappedFile.h on write32Masked: "Only the bits given in the mask will be *)
(* written."  The other bits stay as they are, unless the shadow stands    *)
(* for a register it was never filled from, or one the device changes; or  *)
(* the device changed the register between the read and the write.         *)
OthersKept ==
  [][(masked # NoCall /\ masked' = NoCall) =>
       LET i == masked.index
       IN  \/ registers'[i] \ masked.mask = registers[i] \ masked.mask
           \/ ShadowStands(i) /\ (i \notin filled \/ i \in volatile)
           \/ masked.raced]_mapVars

(* MappedFile.cpp:157, of an index that is refused: "index out of bounds". *)
(* No access goes to a register that is not mapped, also when the offset   *)
(* of its index in bytes wraps around.                                     *)
OutOfBoundsIsRefused == outside = {}

=============================================================================
