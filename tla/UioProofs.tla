----------------------------- MODULE UioProofs ------------------------------
(***************************************************************************)
(* Theorems about Uio: what a program's registers and their shadow hold,   *)
(* what it holds of the device, for mappings, devices and indices of every *)
(* number, and that what it reads of a capture is what the core captured,  *)
(* for buffers, bursts and packets of every size, however the core and the *)
(* driver take turns.                                                      *)
(***************************************************************************)
EXTENDS Uio, TLAPS

-----------------------------------------------------------------------------
(* The registers are only worked on by a program that chose to, and filled *)
(* up to the last of them.                                                 *)
Chosen ==
  /\ command = "none" => volatile = {}
  /\ command = "fill" => progress \in Registers

(* What a step of the whole program does to the registers.                 *)
RegisterStep ==
  \/ /\ command = "none" /\ volatile' \subseteq Registers
     /\ UNCHANGED <<registers, shadow_data, shadow_read_mask, masked, filled, outside>>
  \/ Access
  \/ \E readMask \in SUBSET Registers : createShadow(readMask)
  \/ \E i \in Registers, word \in Word : DeviceSets(i, word)
  \/ \E i \in Registers, value \in Word : write32(i, value)

LEMMA ChosenStep ==
  ASSUME Chosen, Next
  PROVE  Chosen' /\ (UNCHANGED mapVars \/ RegisterStep)
<1> USE DEF programVars
<1>1. CASE Opening
  <2>1. UNCHANGED <<mapVars, command, progress>>
    BY <1>1 DEF Opening
  <2>2. QED
    BY <2>1 DEF Chosen, mapVars
<1>2. CASE uio_capture \/ (\E map_index \in {0, 1} : uio_fill(map_index)) \/ uio_dump \/ Capture
  <2>1. /\ UNCHANGED mapVars
        /\ command' \in {"uio_capture", "fill", "over", "capture"}
        /\ command' = "fill" => progress' = 0
    BY <1>2 DEF uio_capture, uio_fill, uio_dump, Capture, Chooses
  <2>2. QED
    BY <2>1, MappingAssumption DEF Chosen, mapVars, Registers
<1>3. CASE UseRegisters
  <2>1. command = "none" /\ command' = "registers"
    BY <1>3 DEF UseRegisters, Chooses
  <2>2. QED
    BY <1>3, <2>1 DEF UseRegisters, Chosen, RegisterStep
<1>4. CASE Initialise \/ Constructing \/ Core \/ AnyCall \/ CaptureLoop \/ Crash \/ InCall \/ EndCapture
  <2>1. /\ UNCHANGED mapVars
        /\ \/ command' = command /\ command \in {"capture", "uio_capture"}
           \/ UNCHANGED <<command, progress>>
           \/ command' \in {"over", "crashed"}
    BY <1>4 DEF Initialise, Constructing, Core, AnyCall, CaptureLoop, Crash, InCall, EndCapture, Rest,
                Capturing
  <2>2. QED
    BY <2>1 DEF Chosen, mapVars
<1>5. CASE OnRegisters
  <2>1. command = "registers" /\ command' = "registers"
    BY <1>5 DEF OnRegisters
  <2>2. RegisterStep
    <3>1. Registers \cap 0 .. MaskWidth - 1 \subseteq Registers
      OBVIOUS
    <3>2. QED
      BY <1>5, <3>1 DEF OnRegisters, RegisterStep
  <2>3. QED
    BY <2>1, <2>2 DEF Chosen
<1>6. ASSUME NEW value \in Word, FillWord(value)
      PROVE  Chosen' /\ (UNCHANGED mapVars \/ RegisterStep)
  <2>1. progress \in Registers /\ write32(progress, value)
    BY <1>6 DEF FillWord, Chosen
  <2>2. RegisterStep
    BY <2>1 DEF RegisterStep
  <2>3. \/ command' = "fill" /\ progress' = progress + 1 /\ progress + 1 < Words
        \/ command' = "over"
    BY <1>6 DEF FillWord
  <2>4. QED
    BY <2>1, <2>2, <2>3, MappingAssumption DEF Chosen, Registers
<1>7. CASE CloseDevice
  BY <1>7 DEF CloseDevice, Chosen, mapVars
<1>8. QED
  BY <1>1, <1>2, <1>3, <1>4, <1>5, <1>6, <1>7 DEF Next

-----------------------------------------------------------------------------
(* A masked write between its two steps.                                   *)
MaskedCalls == [index : Registers, mask : Word, new : Word, raced : BOOLEAN]

(* What the shadow says of register i can be wrong: it was never filled    *)
(* from the register, or the device changes it.                            *)
Unknown(i) == ShadowStands(i) /\ (i \notin filled \/ i \in volatile)

RegisterTypes ==
  /\ volatile \subseteq Registers
  /\ registers \in [Registers -> Word]
  /\ shadow_data \in [DOMAIN shadow_data -> Word]
  /\ filled \subseteq Registers \cap DOMAIN shadow_data
  /\ masked = NoCall \/ masked \in MaskedCalls

(* What a masked write is going to write differs from the register in bits *)
(* of its mask only.                                                       *)
WillKeepOthers ==
  masked # NoCall =>
    \/ masked.new \ masked.mask = registers[masked.index] \ masked.mask
    \/ Unknown(masked.index)
    \/ masked.raced

(* A call that is in progress is not NoCall.                               *)
LEMMA MaskedIsCall ==
  ASSUME NEW call \in MaskedCalls
  PROVE  call # NoCall /\ call.index \in Registers
<1>1. call.index \in Registers
  BY DEF MaskedCalls
<1>2. NoCall.index \notin Registers
  BY DEF NoCall, Registers
<1>3. QED
  BY <1>1, <1>2

(* Reading register i fills its shadow, if that does not stand for it.     *)
LEMMA ReadFills ==
  ASSUME RegisterTypes, ShadowAgrees, NEW i \in Registers, Read(i)
  PROVE  /\ shadow_data' \in [DOMAIN shadow_data -> Word]
         /\ filled' \subseteq Registers \cap DOMAIN shadow_data
         /\ \A k \in filled' \ volatile : shadow_data'[k] = registers[k]
         /\ ReadValue(i) \in Word
<1>1. CASE ShadowStands(i)
  BY <1>1 DEF Read, RegisterTypes, ShadowAgrees, ReadValue, ShadowStands
<1>2. CASE ~ShadowStands(i)
  BY <1>2 DEF Read, RegisterTypes, ShadowAgrees, ReadValue, Shadowed, Filled
<1>3. QED
  BY <1>1, <1>2

(* Writing register i fills its shadow.                                    *)
LEMMA WrittenFills ==
  ASSUME RegisterTypes, ShadowAgrees, NEW i \in Registers, NEW word \in Word, Written(i, word)
  PROVE  /\ registers' \in [Registers -> Word] /\ registers'[i] = word
         /\ shadow_data' \in [DOMAIN shadow_data -> Word]
         /\ filled' \subseteq Registers \cap DOMAIN shadow_data
         /\ \A k \in filled' \ volatile : shadow_data'[k] = registers'[k]
BY DEF Written, Shadowed, Filled, RegisterTypes, ShadowAgrees

(* Each of these preserves what is said of the registers.                  *)
RegistersInOrder == RegisterTypes /\ ShadowAgrees /\ WillKeepOthers

LEMMA ReadKeepsOrder ==
  ASSUME RegistersInOrder, NEW i \in Registers, read32(i)
  PROVE  RegistersInOrder'
<1>1. /\ shadow_data' \in [DOMAIN shadow_data -> Word]
      /\ filled' \subseteq Registers \cap DOMAIN shadow_data
      /\ \A k \in filled' \ volatile : shadow_data'[k] = registers[k]
  BY ReadFills DEF RegistersInOrder, read32
<1>2. masked = NoCall /\ UNCHANGED <<volatile, registers, masked>>
  BY DEF read32
<1>3. QED
  BY <1>1, <1>2 DEF RegistersInOrder, RegisterTypes, ShadowAgrees, WillKeepOthers

LEMMA WriteKeepsOrder ==
  ASSUME RegistersInOrder, NEW i \in Registers, NEW word \in Word, Written(i, word),
         masked' = NoCall, UNCHANGED volatile
  PROVE  RegistersInOrder'
<1>1. /\ registers' \in [Registers -> Word]
      /\ shadow_data' \in [DOMAIN shadow_data -> Word]
      /\ filled' \subseteq Registers \cap DOMAIN shadow_data
      /\ \A k \in filled' \ volatile : shadow_data'[k] = registers'[k]
  BY WrittenFills DEF RegistersInOrder
<1>2. QED
  BY <1>1 DEF RegistersInOrder, RegisterTypes, ShadowAgrees, WillKeepOthers

LEMMA MaskedReadKeepsOrder ==
  ASSUME RegistersInOrder, NEW i \in Registers, NEW mask \in Word, NEW value \in Word,
         MaskedRead(i, mask, value)
  PROVE  RegistersInOrder'
<1>1. /\ shadow_data' \in [DOMAIN shadow_data -> Word]
      /\ filled' \subseteq Registers \cap DOMAIN shadow_data
      /\ \A k \in filled' \ volatile : shadow_data'[k] = registers[k]
      /\ ReadValue(i) \in Word
  BY ReadFills DEF RegistersInOrder, MaskedRead
<1>2. /\ UNCHANGED <<volatile, registers, shadow_read_mask>>
      /\ masked' = [index |-> i, mask |-> mask, new |-> Merged(ReadValue(i), mask, value),
                    raced |-> FALSE]
  BY DEF MaskedRead
<1>3. Merged(ReadValue(i), mask, value) \in Word
  BY <1>1 DEF Merged, Word
<1>4. masked' \in MaskedCalls
  BY <1>2, <1>3 DEF MaskedCalls
<1>5. masked'.index = i /\ masked'.new \ masked'.mask = ReadValue(i) \ masked'.mask
  BY <1>2 DEF Merged
<1>6. ReadValue(i) = registers[i] \/ Unknown(i)'
  <2>1. CASE ShadowStands(i)
    <3>1. UNCHANGED <<shadow_data, filled>>
      BY <2>1 DEF MaskedRead, Read
    <3>2. QED
      BY <1>2, <2>1, <3>1 DEF ReadValue, Unknown, ShadowStands, RegistersInOrder, ShadowAgrees
  <2>2. CASE ~ShadowStands(i)
    BY <2>2 DEF ReadValue
  <2>3. QED
    BY <2>1, <2>2
<1>7. WillKeepOthers'
  BY <1>2, <1>5, <1>6 DEF WillKeepOthers, Unknown, ShadowStands
<1>8. QED
  BY <1>1, <1>2, <1>4, <1>7 DEF RegistersInOrder, RegisterTypes, ShadowAgrees

LEMMA ShadowingKeepsOrder ==
  ASSUME RegistersInOrder, NEW readMask \in SUBSET Registers, createShadow(readMask)
  PROVE  RegistersInOrder'
<1>1. /\ masked = NoCall /\ UNCHANGED <<volatile, registers, masked, filled>>
      /\ shadow_data' = [k \in 0 .. 4 * Words - 1 |->
                           IF k \in DOMAIN shadow_data THEN shadow_data[k] ELSE {}]
  BY DEF createShadow
<1>2. Registers \subseteq 0 .. 4 * Words - 1
  BY MappingAssumption DEF Registers
<1>3. {} \in Word
  BY DEF Word
<1>4. /\ shadow_data' \in [DOMAIN shadow_data' -> Word]
      /\ filled \subseteq DOMAIN shadow_data'
      /\ \A k \in filled : shadow_data'[k] = shadow_data[k]
  BY <1>1, <1>2, <1>3 DEF RegistersInOrder, RegisterTypes
<1>5. QED
  BY <1>1, <1>4 DEF RegistersInOrder, RegisterTypes, ShadowAgrees, WillKeepOthers

LEMMA DeviceKeepsOrder ==
  ASSUME RegistersInOrder, NEW i \in Registers, NEW word \in Word, DeviceSets(i, word)
  PROVE  RegistersInOrder'
<1>1. /\ i \in volatile /\ registers' = [registers EXCEPT ![i] = word]
      /\ UNCHANGED <<volatile, shadow_data, shadow_read_mask, filled>>
  BY DEF DeviceSets
<1>2. CASE masked # NoCall /\ masked.index = i /\ registers[i] # word
  <2>1. masked' = [masked EXCEPT !.raced = TRUE] /\ masked \in MaskedCalls
    BY <1>2 DEF DeviceSets, RegistersInOrder, RegisterTypes
  <2>2. masked' \in MaskedCalls /\ masked'.raced
    BY <2>1, Zenon DEF MaskedCalls
  <2>3. QED
    BY <1>1, <2>2, Zenon DEF RegistersInOrder, RegisterTypes, ShadowAgrees, WillKeepOthers
<1>3. CASE ~(masked # NoCall /\ masked.index = i /\ registers[i] # word)
  <2>1. masked' = masked
    BY <1>3 DEF DeviceSets
  <2>2. masked # NoCall => registers'[masked.index] = registers[masked.index]
    BY <1>1, <1>3, MaskedIsCall DEF RegistersInOrder, RegisterTypes
  <2>3. WillKeepOthers'
    BY <1>1, <2>1, <2>2 DEF RegistersInOrder, WillKeepOthers, Unknown, ShadowStands
  <2>4. QED
    BY <1>1, <2>1, <2>3 DEF RegistersInOrder, RegisterTypes, ShadowAgrees
<1>4. QED
  BY <1>2, <1>3

(* The inductive invariant of the registers.                               *)
RegisterInvariant == Chosen /\ RegistersInOrder

LEMMA RegisterInvariantStep == RegisterInvariant /\ [Next]_vars => RegisterInvariant'
<1> SUFFICES ASSUME RegisterInvariant, [Next]_vars
             PROVE  RegisterInvariant'
  OBVIOUS
<1>0. Chosen /\ RegistersInOrder
  BY DEF RegisterInvariant
<1>1. ASSUME UNCHANGED mapVars
      PROVE  RegistersInOrder'
  BY <1>0, <1>1 DEF RegistersInOrder, RegisterTypes, ShadowAgrees, WillKeepOthers,
     Unknown, ShadowStands, mapVars
<1>2. ASSUME RegisterStep
      PROVE  RegistersInOrder'
  <2>1. CASE /\ command = "none" /\ volatile' \subseteq Registers
             /\ UNCHANGED <<registers, shadow_data, shadow_read_mask, masked, filled, outside>>
    <3>1. volatile = {}
      BY <1>0, <2>1 DEF Chosen
    <3>2. QED
      BY <1>0, <2>1, <3>1 DEF RegistersInOrder, RegisterTypes, ShadowAgrees, WillKeepOthers,
         Unknown, ShadowStands
  <2>2. ASSUME NEW i \in Registers, read32(i)
        PROVE  RegistersInOrder'
    BY <1>0, <2>2, ReadKeepsOrder
  <2>3. ASSUME NEW i \in Registers, NEW value \in Word, write32(i, value)
        PROVE  RegistersInOrder'
    <3>1. Written(i, value) /\ masked' = NoCall /\ UNCHANGED volatile
      BY <2>3 DEF write32
    <3>2. QED
      BY <1>0, <3>1, WriteKeepsOrder
  <2>4. ASSUME NEW i \in Registers, NEW mask \in Word, NEW value \in Word,
               MaskedRead(i, mask, value)
        PROVE  RegistersInOrder'
    BY <1>0, <2>4, MaskedReadKeepsOrder
  <2>5. CASE MaskedWrite
    <3>1. /\ masked \in MaskedCalls /\ masked' = NoCall /\ UNCHANGED volatile
          /\ Written(masked.index, masked.new)
      BY <1>0, <2>5 DEF MaskedWrite, RegistersInOrder, RegisterTypes
    <3>2. masked.index \in Registers /\ masked.new \in Word
      BY <3>1 DEF MaskedCalls
    <3>3. QED
      BY <1>0, <3>1, <3>2, WriteKeepsOrder
  <2>6. ASSUME NEW far \in FarIndices, Stray(far)
        PROVE  RegistersInOrder'
    BY <1>0, <2>6 DEF Stray, RegistersInOrder, RegisterTypes, ShadowAgrees, WillKeepOthers,
       Unknown, ShadowStands
  <2>7. ASSUME NEW readMask \in SUBSET Registers, createShadow(readMask)
        PROVE  RegistersInOrder'
    BY <1>0, <2>7, ShadowingKeepsOrder
  <2>8. ASSUME NEW i \in Registers, NEW word \in Word, DeviceSets(i, word)
        PROVE  RegistersInOrder'
    BY <1>0, <2>8, DeviceKeepsOrder
  <2>9. QED
    BY <1>2, <2>1, <2>2, <2>3, <2>4, <2>5, <2>6, <2>7, <2>8 DEF RegisterStep, Access
<1>3. RegistersInOrder'
  <2>1. CASE Next
    BY <1>0, <1>1, <1>2, <2>1, ChosenStep
  <2>2. CASE UNCHANGED vars
    BY <1>1, <2>2 DEF vars
  <2>3. QED
    BY <2>1, <2>2
<1>4. Chosen'
  <2>1. CASE Next
    BY <1>0, <2>1, ChosenStep
  <2>2. CASE UNCHANGED vars
    BY <1>0, <2>2 DEF Chosen, vars, mapVars, programVars
  <2>3. QED
    BY <2>1, <2>2
<1>5. QED
  BY <1>3, <1>4 DEF RegisterInvariant

(* The registers, their shadow and a masked write agree at all times.      *)
THEOREM RegisterInvariantHolds == Spec => []RegisterInvariant
<1>1. Init => RegisterInvariant
  BY DEF Init, MapInit, RegisterInvariant, Chosen, RegistersInOrder, RegisterTypes,
         ShadowAgrees, WillKeepOthers, Word
<1>2. QED
  BY <1>1, RegisterInvariantStep, PTL DEF Spec

(* The shadow of a register that was read or written is what it holds,     *)
(* unless the device changes it by itself.                                 *)
THEOREM ShadowAgreesAlways == Spec => []ShadowAgrees
<1>1. RegisterInvariant => ShadowAgrees
  BY DEF RegisterInvariant, RegistersInOrder
<1>2. QED
  BY <1>1, RegisterInvariantHolds, PTL

(* A masked write leaves the bits outside its mask as they are, unless its *)
(* shadow was not known or the device was faster.                          *)
THEOREM OthersKeptAlways == Spec => OthersKept
<1> DEFINE i == masked.index
           Kept == \/ registers'[i] \ masked.mask = registers[i] \ masked.mask
                   \/ ShadowStands(i) /\ (i \notin filled \/ i \in volatile)
                   \/ masked.raced
<1>1. RegisterInvariant /\ [Next]_vars => [(masked # NoCall /\ masked' = NoCall) => Kept]_mapVars
  <2> SUFFICES ASSUME RegistersInOrder, Chosen, [Next]_vars, masked # NoCall, masked' = NoCall
               PROVE  Kept
    BY DEF RegisterInvariant
  <2>1. masked \in MaskedCalls
    BY DEF RegistersInOrder, RegisterTypes
  <2>2. RegisterStep
    <3>1. ~UNCHANGED mapVars
      BY DEF mapVars
    <3>2. QED
      BY <3>1, ChosenStep DEF vars
  <2>3. MaskedWrite
    <3>1. ASSUME NEW k \in Registers, NEW word \in Word, DeviceSets(k, word)
          PROVE  masked' # NoCall
      <4>1. masked' = masked \/ masked' = [masked EXCEPT !.raced = TRUE]
        BY <3>1 DEF DeviceSets
      <4>2. masked' \in MaskedCalls
        BY <2>1, <4>1, Zenon DEF MaskedCalls
      <4>3. QED
        BY <4>2, MaskedIsCall
    <3>2. QED
      BY <2>2, <3>1 DEF RegisterStep, Access, read32, write32, MaskedRead, Stray, createShadow
  <2>4. i \in Registers /\ masked.new \in Word /\ Written(i, masked.new)
    BY <2>1, <2>3 DEF MaskedCalls, MaskedWrite
  <2>5. registers'[i] = masked.new
    BY <2>4, WrittenFills DEF RegistersInOrder
  <2>6. QED
    BY <2>5 DEF RegistersInOrder, WillKeepOthers, Unknown
<1>2. QED
  BY <1>1, RegisterInvariantHolds, PTL DEF Spec, OthersKept

-----------------------------------------------------------------------------
(* The constructor has opened the device's file.                           *)
Opened ==
  u_pc \in {"list_maps", "read_map", "config", "list_node", "read_node", "open_sync", "ready"}

DeviceTypes ==
  /\ sysfs \in [Indices -> Devices \cup {Nothing}] /\ Apart(sysfs)
  /\ index \in Nat
  /\ maps \in Seq(Devices)
  /\ Opened => file \in Devices /\ file # Nothing

(* What the process holds is what it took for the device behind its        *)
(* descriptor, at every step of the constructor.                           *)
HoldsOneDevice ==
  /\ ~Opened => file = Nothing /\ held = {} /\ maps = <<>>
  /\ u_pc = "list_maps" => maps = <<>>
  /\ \A k \in 1 .. Len(maps) : maps[k] = file
  /\ Opened /\ u_pc # "ready" => held = {UioFile} \cup {Map(k) : k \in 1 .. Len(maps)}
  /\ u_pc = "ready" => held \ {SyncFile} = {UioFile} \cup {Map(k) : k \in 1 .. Len(maps)}
  /\ u_pc \in {"config", "list_node", "read_node", "open_sync", "ready"} =>
       Len(maps) = file.maps /\ Len(maps) > 0
  /\ plugged => Opened /\ index \in Indices /\ sysfs[index] = file

(* As long as the device is there, what has been read of its node is its   *)
(* configuration, but for the files that are still to be read.             *)
ReadsItsNode ==
  /\ u_pc \notin {"read_node", "open_sync", "ready"} => ipCoreConfiguration = {}
  /\ u_pc # "read_node" => unread = {}
  /\ plugged /\ u_pc = "read_node" =>
       ipCoreConfiguration = {p \in Configuration(file) : FileName(p) \notin unread}
  /\ plugged /\ u_pc \in {"open_sync", "ready"} => ipCoreConfiguration = Configuration(file)

(* As long as nothing is plugged in or unplugged, the scan has passed over *)
(* devices of other names only, and what it read of the device it found    *)
(* is the device's.                                                        *)
FindsWhatWasAsked ==
  /\ u_pc = "probe" => asked # NoName
  /\ steady =>
       /\ Opened => plugged /\ name = file.name
       /\ u_pc = "open" => name = sysfs[index].name
       /\ (Opened \/ u_pc = "open") /\ asked # NoName => name = asked
       /\ (Opened \/ u_pc \in {"probe", "read_name", "open"}) /\ asked # NoName
            => \A i \in 0 .. index - 1 : sysfs[i].name # asked
       /\ u_pc = "not_found" =>
            \A i \in Indices : sysfs[i].name = asked => \E k \in 0 .. i - 1 : ~Present(k)

DeviceInvariant == DeviceTypes /\ HoldsOneDevice /\ ReadsItsNode /\ FindsWhatWasAsked

(* As long as the device is there, the node with the address of its first  *)
(* map is its own, if it has one.                                          *)
LEMMA NodeIsFile ==
  ASSUME DeviceTypes, HoldsOneDevice, plugged,
         u_pc \in {"config", "list_node", "read_node"}
  PROVE  /\ Node = {} <=> file.unit # file.addr
         /\ UNION {d.config : d \in Node} = Configuration(file)
<1>1. maps[1] = file /\ file \in Devices /\ index \in Indices /\ sysfs[index] = file
  BY DEF DeviceTypes, HoldsOneDevice, Opened
<1>2. file.addr # NoUnit /\ file.unit \in {file.addr, NoUnit} /\ Nothing.unit = NoUnit
  BY <1>1, DeviceAssumption DEF Nothing
<1>3. ASSUME NEW j \in Indices, sysfs[j].unit = file.addr
      PROVE  j = index
  <2>1. sysfs[j] # Nothing /\ sysfs[j] \in Devices
    BY <1>2, <1>3 DEF DeviceTypes
  <2>2. sysfs[j].addr = file.addr
    BY <1>2, <1>3, <2>1, DeviceAssumption
  <2>3. file # Nothing
    BY DEF DeviceTypes, Opened
  <2>4. QED
    BY <1>1, <2>1, <2>2, <2>3 DEF DeviceTypes, Apart
<1>4. {j \in Indices : sysfs[j].unit = maps[1].addr}
        = IF file.unit = file.addr THEN {index} ELSE {}
  BY <1>1, <1>3
<1>5. Node = IF file.unit = file.addr THEN {file} ELSE {}
  BY <1>1, <1>4 DEF Node
<1>6. QED
  BY <1>5 DEF Configuration

LEMMA ChangeKeepsDevice ==
  ASSUME DeviceInvariant, NEW i \in Indices, NEW d \in Devices \cup {Nothing}, Change(i, d)
  PROVE  DeviceInvariant'
<1>1. /\ sysfs' = [sysfs EXCEPT ![i] = d] /\ (sysfs[i] = Nothing) # (d = Nothing)
      /\ steady' = FALSE /\ plugged' = (plugged /\ ~(i = index /\ d = Nothing))
      /\ UNCHANGED <<asked, u_pc, index, name, file, maps, ipCoreConfiguration, unread, held>>
      /\ u_pc # "ready" /\ Apart(sysfs')
  BY DEF Change, object
<1>2. DeviceTypes'
  <2>1. Apart(sysfs)'
    BY <1>1 DEF Apart, Indices
  <2>2. QED
    BY <1>1, <2>1 DEF DeviceInvariant, DeviceTypes, Opened, Indices
<1>3. plugged' => Opened' /\ index' \in Indices' /\ sysfs'[index'] = file'
  BY <1>1 DEF DeviceInvariant, DeviceTypes, HoldsOneDevice, Opened, Indices
<1>4. HoldsOneDevice'
  BY <1>1, <1>3 DEF DeviceInvariant, HoldsOneDevice, Opened, Indices
<1>5. FindsWhatWasAsked'
  BY <1>1 DEF DeviceInvariant, FindsWhatWasAsked
<1>6. ReadsItsNode'
  BY <1>1 DEF DeviceInvariant, ReadsItsNode, Configuration, FileName
<1>7. QED
  BY <1>2, <1>4, <1>5, <1>6 DEF DeviceInvariant

(* A constructor that throws has released the maps and the descriptor.     *)
LEMMA ThrowKeepsDevice ==
  ASSUME DeviceInvariant, u_pc # "ready", NEW reason \in {"thrown", "not_found"},
         Throw(reason), Step,
         (reason = "not_found" /\ steady) =>
           \A i \in Indices : sysfs[i].name = asked => \E k \in 0 .. i - 1 : ~Present(k)
  PROVE  DeviceInvariant'
<1>1. SyncFile \notin held
  BY DEF DeviceInvariant, HoldsOneDevice, SyncFile, UioFile, Map
<1>2. /\ ~Opened' /\ file' = Nothing /\ held' = {} /\ maps' = <<>> /\ plugged' = FALSE
      /\ index' = 0 /\ UNCHANGED <<sysfs, steady, asked>> /\ u_pc' = reason
      /\ ipCoreConfiguration' = {} /\ unread' = {}
  BY <1>1 DEF Throw, Step, system, Opened
<1>3. DeviceTypes' /\ HoldsOneDevice' /\ ReadsItsNode'
  BY <1>2 DEF DeviceInvariant, DeviceTypes, HoldsOneDevice, ReadsItsNode, Opened, Indices, Apart
<1>4. FindsWhatWasAsked'
  BY <1>2 DEF FindsWhatWasAsked, Opened, Present, Indices
<1>5. QED
  BY <1>3, <1>4 DEF DeviceInvariant

LEMMA OpenKeepsDevice ==
  ASSUME DeviceInvariant,
         (\E i \in Indices : OpenIndex(i)) \/ (\E n \in Names : OpenName(n)) \/ Open
  PROVE  DeviceInvariant'
<1> USE DEF DeviceInvariant, Step, system, object
<1>1. ASSUME NEW i \in Indices, OpenIndex(i)
      PROVE  DeviceInvariant'
  BY <1>1 DEF OpenIndex, DeviceTypes, HoldsOneDevice, ReadsItsNode, FindsWhatWasAsked, Opened, Indices, Apart, Present
<1>2. ASSUME NEW n \in Names, OpenName(n)
      PROVE  DeviceInvariant'
  BY <1>2, NamesAssumption
     DEF OpenName, DeviceTypes, HoldsOneDevice, ReadsItsNode, FindsWhatWasAsked, Opened, Indices, Apart, Present
<1>3. CASE isDevicePresent
  <2>1. CASE Present(index)
    BY <1>3, <2>1 DEF isDevicePresent, DeviceTypes, HoldsOneDevice, ReadsItsNode, FindsWhatWasAsked, Opened,
                      Indices, Apart, Present
  <2>2. CASE ~Present(index)
    <3>1. ASSUME steady, NEW i \in Indices, sysfs[i].name = asked
          PROVE  \E k \in 0 .. i - 1 : ~Present(k)
      <4>1. asked # NoName /\ index \in Nat /\ i \in Nat
        BY <1>3 DEF isDevicePresent, FindsWhatWasAsked, DeviceTypes, Indices
      <4>2. ~(i < index)
        BY <1>3, <3>1, <4>1 DEF isDevicePresent, FindsWhatWasAsked
      <4>3. i # index
        BY <2>2, <3>1, <4>1 DEF Present, Nothing
      <4>4. index \in 0 .. i - 1
        BY <4>1, <4>2, <4>3
      <4>5. QED
        BY <2>2, <4>4
    <3>2. QED
      BY <1>3, <2>2, <3>1, ThrowKeepsDevice DEF isDevicePresent
  <2>3. QED
    BY <2>1, <2>2
<1>4. CASE ReadName
  <2>1. CASE ~Present(index)
    BY <1>4, <2>1, ThrowKeepsDevice DEF ReadName
  <2>2. CASE Present(index) /\ IsWanted(sysfs[index].name)
    BY <1>4, <2>2 DEF ReadName, IsWanted, DeviceTypes, HoldsOneDevice, ReadsItsNode, FindsWhatWasAsked, Opened,
                      Indices, Apart, Present
  <2>3. CASE Present(index) /\ ~IsWanted(sysfs[index].name)
    <3>1. /\ u_pc = "read_name" /\ u_pc' = "probe" /\ index' = index + 1
          /\ UNCHANGED <<sysfs, steady, asked, name, plugged, file, maps, ipCoreConfiguration, unread, held>>
          /\ asked # NoName /\ sysfs[index].name # asked
      BY <1>4, <2>3 DEF ReadName, IsWanted
    <3>2. DeviceTypes' /\ HoldsOneDevice' /\ ReadsItsNode'
      BY <3>1 DEF DeviceTypes, HoldsOneDevice, ReadsItsNode, Opened, Indices, Apart
    <3>3. index \in Nat
      BY DEF DeviceTypes
    <3>4. steady => \A i \in 0 .. index : sysfs[i].name # asked
      BY <3>1, <3>3 DEF FindsWhatWasAsked
    <3>5. FindsWhatWasAsked'
      BY <3>1, <3>3, <3>4 DEF FindsWhatWasAsked, Opened
    <3>6. QED
      BY <3>2, <3>5
  <2>4. QED
    BY <2>1, <2>2, <2>3
<1>5. CASE OpenFile
  <2>1. CASE ~Present(index)
    BY <1>5, <2>1, ThrowKeepsDevice DEF OpenFile
  <2>2. CASE Present(index)
    <3>1. /\ file' = sysfs[index] /\ plugged' = TRUE /\ held' = {UioFile} /\ u_pc' = "list_maps"
          /\ u_pc = "open"
          /\ UNCHANGED <<sysfs, steady, asked, index, name, maps, ipCoreConfiguration, unread>>
      BY <1>5, <2>2 DEF OpenFile
    <3>2. maps = <<>> /\ index \in Indices /\ sysfs[index] # Nothing /\ sysfs[index] \in Devices
      BY <2>2, <3>1 DEF Present, HoldsOneDevice, Opened, DeviceTypes
    <3>3. DeviceTypes'
      BY <3>1, <3>2 DEF DeviceTypes, Opened, Indices, Apart
    <3>4. HoldsOneDevice'
      BY <3>1, <3>2 DEF HoldsOneDevice, Opened, Indices
    <3>5. FindsWhatWasAsked'
      BY <3>1, <3>2 DEF FindsWhatWasAsked, Opened
    <3>6. ReadsItsNode'
      BY <3>1 DEF ReadsItsNode
    <3>7. QED
      BY <3>3, <3>4, <3>5, <3>6
  <2>3. QED
    BY <2>1, <2>2
<1>6. CASE ListMaps
  <2>1. CASE Present(index) /\ sysfs[index].maps > 0
    BY <1>6, <2>1 DEF ListMaps, DeviceTypes, HoldsOneDevice, ReadsItsNode, FindsWhatWasAsked, Opened, Indices, Apart,
                      Present
  <2>2. CASE ~(Present(index) /\ sysfs[index].maps > 0)
    BY <1>6, <2>2, ThrowKeepsDevice DEF ListMaps
  <2>3. QED
    BY <2>1, <2>2
<1>7. CASE ReadMap
  <2> DEFINE k == Len(maps) + 1
  <2>1. CASE ~Mappable(k)
    BY <1>7, <2>1, ThrowKeepsDevice DEF ReadMap
  <2>2. CASE Mappable(k)
    <3>1. /\ maps' = Append(maps, sysfs[index]) /\ held' = held \cup {Map(k)}
          /\ u_pc = "read_map" /\ u_pc' = IF k = file.maps THEN "config" ELSE "read_map"
          /\ UNCHANGED <<sysfs, steady, asked, index, name, plugged, file, ipCoreConfiguration, unread>>
      BY <1>7, <2>2 DEF ReadMap
    <3>2. sysfs[index] = file /\ file \in Devices /\ file # Nothing /\ maps \in Seq(Devices)
      BY <2>2, <3>1 DEF Mappable, HoldsOneDevice, DeviceTypes, Opened
    <3>3. /\ maps' \in Seq(Devices) /\ Len(maps') = k /\ Len(maps) \in Nat
          /\ \A j \in 1 .. k : maps'[j] = file
      BY <3>1, <3>2 DEF HoldsOneDevice
    <3>4. held' = {UioFile} \cup {Map(j) : j \in 1 .. Len(maps')}
      BY <3>1, <3>3 DEF HoldsOneDevice, Opened
    <3>5. DeviceTypes'
      BY <3>1, <3>2, <3>3 DEF DeviceTypes, Opened, Indices, Apart
    <3>6. HoldsOneDevice'
      BY <3>1, <3>2, <3>3, <3>4 DEF HoldsOneDevice, Opened, Indices
    <3>7. FindsWhatWasAsked'
      BY <3>1, <3>2 DEF FindsWhatWasAsked, Opened
    <3>8. ReadsItsNode'
      BY <3>1 DEF ReadsItsNode
    <3>9. QED
      BY <3>5, <3>6, <3>7, <3>8
  <2>3. QED
    BY <2>1, <2>2
<1>8. ASSUME u_pc \in {"config", "list_node", "read_node"},
             u_pc' \in {"list_node", "read_node", "open_sync"},
             UNCHANGED <<sysfs, steady, asked, index, name, plugged, file, maps, held>>,
             ReadsItsNode'
      PROVE  DeviceInvariant'
  <2>1. DeviceTypes'
    BY <1>8 DEF DeviceTypes, Opened, Indices, Apart
  <2>2. HoldsOneDevice'
    BY <1>8 DEF HoldsOneDevice, Opened, Indices
  <2>3. FindsWhatWasAsked'
    BY <1>8 DEF FindsWhatWasAsked, Opened
  <2>4. QED
    BY <1>8, <2>1, <2>2, <2>3
<1>9. CASE FindNode
  <2>1. /\ u_pc = "config" /\ u_pc' = IF Node = {} THEN "open_sync" ELSE "list_node"
        /\ UNCHANGED <<sysfs, steady, asked, index, name, plugged, file, maps, held>>
        /\ UNCHANGED <<ipCoreConfiguration, unread>>
    BY <1>9 DEF FindNode
  <2>2. ipCoreConfiguration = {} /\ unread = {}
    BY <2>1 DEF ReadsItsNode
  <2>3. plugged /\ Node = {} => Configuration(file) = {}
    BY <2>1, NodeIsFile
  <2>4. Configuration(file)' = Configuration(file)
    BY <2>1 DEF Configuration
  <2>5. ReadsItsNode'
    BY <2>1, <2>2, <2>3, <2>4 DEF ReadsItsNode
  <2>6. QED
    BY <1>8, <2>1, <2>5
<1>10. CASE ListNode
  <2>1. CASE Node = {}
    BY <1>10, <2>1, ThrowKeepsDevice DEF ListNode
  <2>2. CASE Node # {}
    <3>1. /\ u_pc = "list_node" /\ u_pc' = IF unread' = {} THEN "open_sync" ELSE "read_node"
          /\ unread' = {FileName(p) : p \in UNION {d.config : d \in Node}}
          /\ UNCHANGED <<sysfs, steady, asked, index, name, plugged, file, maps, held>>
          /\ UNCHANGED ipCoreConfiguration
      BY <1>10, <2>2 DEF ListNode
    <3>2. ipCoreConfiguration = {}
      BY <3>1 DEF ReadsItsNode
    <3>3. plugged => unread' = {FileName(p) : p \in Configuration(file)}
      BY <3>1, NodeIsFile
    <3>4. Configuration(file)' = Configuration(file)
      BY <3>1 DEF Configuration
    <3>5. plugged /\ u_pc' = "read_node" =>
            ipCoreConfiguration' = {p \in Configuration(file) : FileName(p) \notin unread'}
      BY <3>1, <3>2, <3>3
    <3>6. plugged /\ u_pc' = "open_sync" => Configuration(file) = {}
      BY <3>1, <3>3
    <3>7. ReadsItsNode'
      BY <3>1, <3>2, <3>4, <3>5, <3>6 DEF ReadsItsNode
    <3>8. QED
      BY <1>8, <3>1, <3>7
  <2>3. QED
    BY <2>1, <2>2
<1>11. ASSUME NEW f \in unread, NEW read, Inserted(f, read), u_pc = "read_node", Step,
              plugged => read = {p \in Configuration(file) : FileName(p) = f}
       PROVE  DeviceInvariant'
  <2>1. /\ u_pc' = IF unread' = {} THEN "open_sync" ELSE "read_node"
        /\ ipCoreConfiguration' = ipCoreConfiguration \cup read /\ unread' = unread \ {f}
        /\ UNCHANGED <<sysfs, steady, asked, index, name, plugged, file, maps, held>>
    BY <1>11 DEF Inserted
  <2>2. plugged => ipCoreConfiguration = {p \in Configuration(file) : FileName(p) \notin unread}
    BY <1>11 DEF ReadsItsNode
  <2>3. Configuration(file)' = Configuration(file)
    BY <2>1 DEF Configuration
  <2>4. plugged => ipCoreConfiguration' = {p \in Configuration(file) : FileName(p) \notin unread'}
    BY <1>11, <2>1, <2>2
  <2>5. plugged /\ unread' = {} => ipCoreConfiguration' = Configuration(file)
    BY <2>4
  <2>6. ReadsItsNode'
    BY <2>1, <2>3, <2>4, <2>5 DEF ReadsItsNode, FileName
  <2>7. QED
    BY <1>8, <1>11, <2>1, <2>6
<1>12. CASE ReadProperty
  <2>1. u_pc = "read_node" /\ Step
    BY <1>12 DEF ReadProperty
  <2>2. PICK f \in unread :
          LET read == {p \in UNION {d.config : d \in Node} : FileName(p) = f}
          IN  \/ read = {} /\ Throw("thrown")
              \/ read # {} /\ Inserted(f, read)
              \/ ~plugged /\ Inserted(f, {[key |-> f[1], vendor |-> f[2], bytes |-> 0,
                                           opens |-> FALSE]})
    BY <1>12 DEF ReadProperty
  <2> DEFINE read == {p \in UNION {d.config : d \in Node} : FileName(p) = f}
  <2>3. plugged => read = {p \in Configuration(file) : FileName(p) = f}
    BY <2>1, NodeIsFile
  <2>4. CASE Throw("thrown")
    BY <2>1, <2>4, ThrowKeepsDevice
  <2>5. CASE Inserted(f, read)
    BY <1>11, <2>1, <2>3, <2>5
  <2>6. CASE ~plugged /\ Inserted(f, {[key |-> f[1], vendor |-> f[2], bytes |-> 0, opens |-> FALSE]})
    BY <1>11, <2>1, <2>6
  <2>7. QED
    BY <2>2, <2>4, <2>5, <2>6
<1>13. CASE OpenSync
  <2>1. /\ u_pc = "open_sync" /\ u_pc' = "ready"
        /\ held' = held \/ held' = held \cup {SyncFile}
        /\ UNCHANGED <<sysfs, steady, asked, index, name, plugged, file, maps, ipCoreConfiguration, unread>>
    BY <1>13 DEF OpenSync
  <2>2. held' \ {SyncFile} = held
    BY <2>1 DEF HoldsOneDevice, Opened, SyncFile, UioFile, Map
  <2>3. DeviceTypes'
    BY <2>1 DEF DeviceTypes, Opened, Indices, Apart
  <2>4. HoldsOneDevice'
    BY <2>1, <2>2 DEF HoldsOneDevice, Opened, Indices
  <2>5. FindsWhatWasAsked'
    BY <2>1 DEF FindsWhatWasAsked, Opened
  <2>6. ReadsItsNode'
    <3>1. Configuration(file)' = Configuration(file)
      BY <2>1 DEF Configuration
    <3>2. QED
      BY <2>1, <3>1 DEF ReadsItsNode
  <2>7. QED
    BY <2>3, <2>4, <2>5, <2>6
<1>14. QED
  BY <1>1, <1>2, <1>3, <1>4, <1>5, <1>6, <1>7, <1>9, <1>10, <1>12, <1>13 DEF Open

(* What a step of the whole program does to the device.                    *)
LEMMA DeviceSteps ==
  ASSUME Next
  PROVE  \/ \E i \in Indices, d \in Devices \cup {Nothing} : Change(i, d)
         \/ (\E i \in Indices : OpenIndex(i)) \/ (\E n \in Names : OpenName(n)) \/ Open
         \/ u_pc = "ready" /\ Forget
         \/ Close \/ Crash
         \/ UNCHANGED deviceVars
<1>1. CASE Opening
  BY <1>1 DEF Opening
<1>2. CASE \/ uio_capture \/ (\E map_index \in {0, 1} : uio_fill(map_index)) \/ uio_dump
           \/ Capture \/ UseRegisters
  BY <1>2 DEF uio_capture, uio_fill, uio_dump, Capture, UseRegisters, Chooses
<1>3. CASE \/ Initialise \/ Constructing \/ Core \/ AnyCall \/ CaptureLoop \/ InCall \/ EndCapture
           \/ OnRegisters \/ (\E value \in Word : FillWord(value))
  BY <1>3 DEF Initialise, Constructing, Core, AnyCall, CaptureLoop, InCall, EndCapture, Rest,
              OnRegisters, FillWord
<1>4. CASE CloseDevice \/ Crash
  BY <1>4 DEF CloseDevice
<1>5. QED
  BY <1>1, <1>2, <1>3, <1>4 DEF Next

LEMMA DeviceInvariantStep == DeviceInvariant /\ [Next]_vars => DeviceInvariant'
<1> SUFFICES ASSUME DeviceInvariant, [Next]_vars
             PROVE  DeviceInvariant'
  OBVIOUS
<1>1. CASE u_pc = "ready" /\ Forget
  <2>1. /\ u_pc = "ready" /\ sysfs' = [i \in Indices |-> Nothing] /\ steady' = FALSE
        /\ index' = 0 /\ plugged' = FALSE
        /\ UNCHANGED <<u_pc, file, maps, ipCoreConfiguration, unread, held>>
    BY <1>1 DEF Forget
  <2>2. DeviceTypes' /\ HoldsOneDevice' /\ ReadsItsNode'
    BY <2>1 DEF DeviceInvariant, DeviceTypes, HoldsOneDevice, ReadsItsNode, Opened, Indices, Apart
  <2>3. FindsWhatWasAsked'
    BY <2>1 DEF FindsWhatWasAsked
  <2>4. QED
    BY <2>2, <2>3 DEF DeviceInvariant
<1>2. CASE Close \/ Crash
  <2>1. /\ u_pc' \in {"closed", "crashed"} /\ held' = {} /\ file' = Nothing /\ plugged' = FALSE
        /\ maps' = <<>> /\ index' \in {0, index} /\ UNCHANGED <<sysfs, steady, asked>>
        /\ ipCoreConfiguration' = {} /\ unread' = {}
    BY <1>2 DEF Close, Crash, system
  <2>2. DeviceTypes' /\ HoldsOneDevice' /\ ReadsItsNode'
    BY <2>1 DEF DeviceInvariant, DeviceTypes, HoldsOneDevice, ReadsItsNode, Opened, Indices, Apart
  <2>3. FindsWhatWasAsked'
    BY <2>1 DEF FindsWhatWasAsked, Opened
  <2>4. QED
    BY <2>2, <2>3 DEF DeviceInvariant
<1>3. CASE UNCHANGED deviceVars
  BY <1>3 DEF DeviceInvariant, DeviceTypes, HoldsOneDevice, ReadsItsNode, FindsWhatWasAsked, Opened,
              Indices, Apart, Present, Configuration, FileName, deviceVars, system, object
<1>4. QED
  BY <1>1, <1>2, <1>3, DeviceSteps, ChangeKeepsDevice, OpenKeepsDevice DEF vars

(* The device behind the descriptor and what is held of it, at all times.  *)
THEOREM DeviceInvariantHolds == Spec => []DeviceInvariant
<1>1. Init => DeviceInvariant
  BY DEF Init, UioInit, DeviceInvariant, DeviceTypes, HoldsOneDevice, ReadsItsNode,
         FindsWhatWasAsked, Opened, Indices
<1>2. QED
  BY <1>1, DeviceInvariantStep, PTL DEF Spec

(* A device that was opened is one device, and when nothing was plugged in *)
(* meanwhile it is the one that was asked for.                             *)
THEOREM OneDeviceAlways == Spec => []OneDevice
<1>1. DeviceInvariant => OneDevice
  <2> SUFFICES ASSUME DeviceInvariant
               PROVE  OneDevice
    OBVIOUS
  <2>1. DOMAIN maps = 1 .. Len(maps)
    BY DEF DeviceInvariant, DeviceTypes
  <2>2. u_pc = "ready" =>
          /\ \A k \in DOMAIN maps : maps[k] = file
          /\ held \ {SyncFile} = {UioFile} \cup {Map(k) : k \in 1 .. file.maps}
          /\ plugged => ipCoreConfiguration = Configuration(file)
    BY <2>1 DEF DeviceInvariant, HoldsOneDevice, ReadsItsNode
  <2>3. (u_pc = "ready" /\ steady) =>
          /\ plugged /\ sysfs[index] = file /\ name = file.name
          /\ asked # NoName => name = asked /\ \A i \in 0 .. index - 1 : sysfs[i].name # asked
    BY DEF DeviceInvariant, HoldsOneDevice, FindsWhatWasAsked, Opened
  <2>4. (u_pc = "not_found" /\ steady) =>
          \A i \in Indices : sysfs[i].name = asked => \E k \in 0 .. i - 1 : ~Present(k)
    BY DEF DeviceInvariant, FindsWhatWasAsked
  <2>5. QED
    BY <2>2, <2>3, <2>4, Zenon DEF OneDevice
<1>2. QED
  BY <1>1, DeviceInvariantHolds, PTL

-----------------------------------------------------------------------------
(* A core is taken over by a program that has a device and captures, and   *)
(* is off before and after.                                                *)
CaptureHasDevice ==
  /\ command \notin {"none", "over", "crashed"} => u_pc = "ready"
  /\ pc # "none" => Capturing
  /\ pc = "none" => control = "off" \/ command = "crashed"

(* What a step of the whole program does to the core.                      *)
LEMMA CaptureSteps ==
  ASSUME CaptureHasDevice, Next
  PROVE  CaptureHasDevice'
<1> USE DEF CaptureHasDevice, Capturing
<1>1. CASE Opening
  <2>1. UNCHANGED <<pc, control, command>> /\ u_pc # "ready"
    BY <1>1 DEF Opening, captureVars, driver, core, programVars, OpenIndex, OpenName, Open, Change,
       isDevicePresent, ReadName, OpenFile, ListMaps, ReadMap, FindNode, ListNode, ReadProperty,
       OpenSync
  <2>2. QED
    BY <2>1
<1>2. CASE \/ uio_capture \/ (\E map_index \in {0, 1} : uio_fill(map_index)) \/ uio_dump
           \/ Capture \/ UseRegisters
  <2>1. UNCHANGED <<pc, control, u_pc>> /\ u_pc = "ready" /\ command = "none"
    BY <1>2 DEF uio_capture, uio_fill, uio_dump, Capture, UseRegisters, Chooses, Forget,
       captureVars, driver, core
  <2>2. QED
    BY <2>1
<1>3. CASE OnRegisters \/ (\E value \in Word : FillWord(value))
  <2>1. /\ UNCHANGED <<pc, control, u_pc>> /\ command' \in {command, "over"}
        /\ command \in {"registers", "fill"}
    BY <1>3 DEF OnRegisters, FillWord, captureVars, driver, core, deviceVars, programVars
  <2>2. QED
    BY <2>1
<1>4. CASE Initialise
  <2>1. CASE CanConstruct
    BY <1>4, <2>1 DEF Initialise, FindCore, programVars, deviceVars
  <2>2. CASE ~CanConstruct
    BY <1>4, <2>2 DEF Initialise, captureVars, driver, core, deviceVars
  <2>3. QED
    BY <2>1, <2>2
<1>5. CASE Core
  BY <1>5 DEF Core, MoveBurst, Rest, driver, deviceVars, programVars
<1>6. CASE Constructing \/ AnyCall \/ CaptureLoop \/ InCall
  <2>1. pc # "none" /\ pc' # "none" /\ UNCHANGED <<command, u_pc>>
    BY <1>6 DEF Constructing, Construct, AnyCall, Call, CaptureLoop, InCall, Within, Rest,
       startCapture, Trigger, ReadTail, syncBufferForCpu, fetchPacket, ReadUnit,
       isCaptureInProgress, ReadControl, stopCapture, clearBuffer, deviceVars, programVars
  <2>2. QED
    BY <2>1
<1>7. CASE EndCapture
  BY <1>7 DEF EndCapture, Destruct, Rest
<1>8. CASE CloseDevice
  BY <1>8 DEF CloseDevice, captureVars, driver, core
<1>9. CASE Crash
  BY <1>9 DEF Crash
<1>10. QED
  BY <1>1, <1>2, <1>3, <1>4, <1>5, <1>6, <1>7, <1>8, <1>9 DEF Next

(* A program that has no device holds nothing, and the core it took over   *)
(* does not write.                                                         *)
THEOREM LeavesNothingAlways == Spec => []LeavesNothing
<1>1. Init => CaptureHasDevice
  BY DEF Init, CaptureInit, CaptureHasDevice
<1>2. CaptureHasDevice /\ [Next]_vars => CaptureHasDevice'
  <2>1. ASSUME CaptureHasDevice, UNCHANGED vars
        PROVE  CaptureHasDevice'
    BY <2>1 DEF CaptureHasDevice, Capturing, vars, deviceVars, captureVars, driver, core, programVars
  <2>2. QED
    BY <2>1, CaptureSteps
<1>3. DeviceInvariant /\ CaptureHasDevice => LeavesNothing
  BY DEF DeviceInvariant, DeviceTypes, HoldsOneDevice, Opened, CaptureHasDevice, Capturing,
         LeavesNothing
<1>4. QED
  BY <1>1, <1>2, <1>3, DeviceInvariantHolds, PTL DEF Spec

-----------------------------------------------------------------------------
(* Around the ring.                                                        *)

(* The position of the ring that a distance from its start ends at.        *)
Wrap(a) == a % BufferSize

(* Two distances that end at the same position.                            *)
SamePlace(a, b) == Wrap(a) = Wrap(b)

(* The length of so many laps.                                             *)
Laps(q) == BufferSize * q

LEMMA RingSizes ==
  /\ BufferSize \in Nat \ {0} /\ BurstSize \in Nat \ {0} /\ PacketSize \in Nat \ {0}
  /\ BurstSize <= BufferSize /\ PacketSize < BufferSize
  /\ Positions = 0 .. BufferSize - 1 /\ 0 \in Positions
<1>1. BufferSize \in Nat \ {0} /\ BurstSize \in Nat \ {0} /\ BufferSize % BurstSize = 0
  BY SizesAssumption
<1>2. BurstSize <= BufferSize
  BY <1>1
<1>3. QED
  BY <1>1, <1>2, SizesAssumption DEF Positions

LEMMA LapsInt ==
  ASSUME NEW q \in Int
  PROVE  Laps(q) \in Int
BY RingSizes DEF Laps

LEMMA LapsSum ==
  ASSUME NEW p \in Int, NEW q \in Int
  PROVE  Laps(p + q) = Laps(p) + Laps(q) /\ Laps(p - q) = Laps(p) - Laps(q)
BY RingSizes DEF Laps

LEMMA LapsOrder ==
  ASSUME NEW p \in Int, NEW q \in Int, q > p
  PROVE  Laps(q) >= Laps(p) + BufferSize
<1> USE RingSizes DEF Laps
<1>1. BufferSize * (q - p - 1) \in Nat
  <2>1. q - p - 1 \in Nat
    OBVIOUS
  <2>2. QED
    BY <2>1
<1>2. BufferSize * (q - p - 1) = BufferSize * q - BufferSize * p - BufferSize
  OBVIOUS
<1>3. Laps(p) \in Int /\ Laps(q) \in Int
  OBVIOUS
<1>4. QED
  BY <1>1, <1>2, <1>3

LEMMA WrapIsPosition ==
  ASSUME NEW a \in Int
  PROVE  Wrap(a) \in Positions /\ Wrap(a) \in 0 .. BufferSize - 1 /\ Wrap(a) \in Int
BY RingSizes DEF Wrap

LEMMA WrapTakesLaps ==
  ASSUME NEW a \in Int
  PROVE  \E q \in Int : a = Laps(q) + Wrap(a)
<1>1. Wrap(a) \in Int
  BY WrapIsPosition
<1>2. a \div BufferSize \in Int
  BY RingSizes
<1>3. Laps(a \div BufferSize) \in Int
  BY <1>2, LapsInt
<1>4. Wrap(a) = a - Laps(a \div BufferSize)
  BY RingSizes, SMTT(30) DEF Wrap, Laps
<1>5. \A q, r \in Int : r = a - q => a = q + r
  OBVIOUS
<1>6. a = Laps(a \div BufferSize) + Wrap(a)
  BY <1>1, <1>3, <1>4, <1>5, Zenon
<1>7. QED
  BY <1>2, <1>6, Zenon

LEMMA WrapUnique ==
  ASSUME NEW q \in Int, NEW r \in Positions
  PROVE  Wrap(Laps(q) + r) = r
<1>1. BufferSize \in Nat \ {0} /\ Laps(q) \in Int /\ Laps(q) + r \in Int /\ r \in 0 .. BufferSize - 1
  BY RingSizes, LapsInt
<1>2. PICK p \in Int : Laps(q) + r = Laps(p) + Wrap(Laps(q) + r)
  BY <1>1, WrapTakesLaps
<1>3. Laps(p) \in Int /\ Wrap(Laps(q) + r) \in 0 .. BufferSize - 1
  BY <1>1, <1>2, LapsInt, WrapIsPosition
<1>4. (p > q => Laps(p) >= Laps(q) + BufferSize) /\ (q > p => Laps(q) >= Laps(p) + BufferSize)
  BY LapsOrder
<1>5. p = q
  BY <1>1, <1>2, <1>3, <1>4
<1>6. QED
  BY <1>1, <1>2, <1>3, <1>5

(* Whole laps make no difference.                                          *)
LEMMA LapsAway ==
  ASSUME NEW a \in Int, NEW q \in Int
  PROVE  SamePlace(a + Laps(q), a)
<1>1. PICK p \in Int : a = Laps(p) + Wrap(a)
  BY WrapTakesLaps
<1>2. p + q \in Int /\ Laps(p + q) = Laps(p) + Laps(q)
  BY <1>1, LapsSum
<1>3. Laps(p) \in Int /\ Laps(q) \in Int
  BY <1>1, LapsInt
<1>4. Wrap(a) \in Positions /\ Wrap(a) \in Int
  BY WrapIsPosition
<1>5. a + Laps(q) = Laps(p + q) + Wrap(a)
  BY <1>1, <1>2, <1>3, <1>4
<1>6. QED
  BY <1>2, <1>4, <1>5, WrapUnique DEF SamePlace

LEMMA LapsApart ==
  ASSUME NEW a \in Int, NEW b \in Int, SamePlace(a, b)
  PROVE  \E q \in Int : a = b + Laps(q)
<1>1. PICK p \in Int : a = Laps(p) + Wrap(a)
  BY WrapTakesLaps
<1>2. PICK q \in Int : b = Laps(q) + Wrap(b)
  BY WrapTakesLaps
<1>3. p - q \in Int /\ Laps(p - q) = Laps(p) - Laps(q)
  BY <1>1, <1>2, LapsSum
<1>4. Laps(p) \in Int /\ Laps(q) \in Int
  BY <1>1, <1>2, LapsInt
<1>5. Wrap(a) \in Int /\ Wrap(a) = Wrap(b)
  BY WrapIsPosition DEF SamePlace
<1>6. a = b + Laps(p - q)
  BY <1>1, <1>2, <1>3, <1>4, <1>5
<1>7. QED
  BY <1>3, <1>6

(* What is the same place stays the same place when both move.             *)
LEMMA MoveBoth ==
  ASSUME NEW a \in Int, NEW b \in Int, NEW c \in Int, SamePlace(a, b)
  PROVE  SamePlace(a + c, b + c) /\ SamePlace(a - c, b - c) /\ SamePlace(c - a, c - b)
<1>1. PICK q \in Int : a = b + Laps(q)
  BY LapsApart
<1>2. Laps(q) \in Int /\ 0 - q \in Int
  BY LapsInt
<1>3. Laps(0 - q) = 0 - Laps(q)
  BY RingSizes DEF Laps
<1>4. a + c = (b + c) + Laps(q) /\ a - c = (b - c) + Laps(q) /\ c - a = (c - b) + Laps(0 - q)
  BY <1>1, <1>2, <1>3
<1>5. b + c \in Int /\ b - c \in Int /\ c - b \in Int
  OBVIOUS
<1>6. QED
  BY <1>2, <1>4, <1>5, LapsAway

(* A position is where it is, and so is what lies a lap before or behind.  *)
LEMMA WrapPosition ==
  ASSUME NEW r \in Positions
  PROVE  Wrap(r) = r /\ Wrap(r + BufferSize) = r /\ Wrap(r - BufferSize) = r
<1>1. Laps(0) = 0 /\ Laps(1) = BufferSize /\ Laps(0 - 1) = 0 - BufferSize /\ r \in Int
  BY RingSizes DEF Laps
<1>2. Laps(0) + r = r /\ Laps(1) + r = r + BufferSize /\ Laps(0 - 1) + r = r - BufferSize
  BY <1>1, RingSizes
<1>3. QED
  BY <1>2, WrapUnique

LEMMA WrapSamePlace ==
  ASSUME NEW a \in Int
  PROVE  Wrap(a) \in Int /\ SamePlace(Wrap(a), a) /\ SamePlace(a, Wrap(a))
BY WrapIsPosition, WrapPosition DEF SamePlace

LEMMA WrapAtMost ==
  ASSUME NEW a \in Nat
  PROVE  Wrap(a) <= a
<1>1. Wrap(a) \in 0 .. BufferSize - 1
  BY WrapIsPosition
<1>2. a < BufferSize => Wrap(a) = a
  BY WrapPosition, RingSizes
<1>3. QED
  BY <1>1, <1>2, RingSizes

-----------------------------------------------------------------------------
(* What the driver and the core know of each other.                        *)

(* Seen from the core, `position' is where unit number `unit' + 1 of the   *)
(* capture is put.                                                         *)
Linked(position, unit) == SamePlace(head - position, captured - unit)

(* The core may move a burst in the capture that the driver triggered.     *)
Running == control = "trigger" /\ pc # "construct"

CaptureTypes ==
  /\ buffer \in [Positions -> Nat] /\ head \in Positions
  /\ captured \in Nat /\ taken \in Nat
  /\ m_offset_tail \in Positions /\ from \in Positions
  /\ packet \in Seq(Nat)
  /\ cached \in [DOMAIN cached -> Nat] /\ DOMAIN cached \subseteq Positions

(* The tail, or what has been read of a packet, follows the units taken;   *)
(* and a packet is handed out only when all of it has been captured.       *)
TailFollows ==
  /\ pc \in {"none", "construct", "trigger", "read_tail"} => packet = <<>>
  /\ pc = "trigger" => control # "trigger"
  /\ pc \in {"idle", "synced", "read_control"} /\ control = "trigger" =>
       Linked(m_offset_tail, taken) /\ taken <= captured
  /\ pc \in {"read", "synced"} => Streaming
  /\ pc = "read" =>
       /\ Linked(from, taken - Len(packet))
       /\ Len(packet) < PacketSize /\ taken - Len(packet) + PacketSize <= captured
       /\ from + PacketSize <= BufferSize => m_offset_tail = NextTail(from)

(* The last lap of the capture is in the buffer.                           *)
LastLapStored ==
  Running =>
    \A k \in 1 .. captured :
      captured - k < BufferSize => buffer[Wrap(head - captured + k - 1)] = k

NotLapped == Running /\ ~overrun => captured - taken <= BufferSize

(* The cache holds nothing of the buffer but what was read of this packet. *)
CacheFollows ==
  /\ coherent \/ pc \in {"none", "construct", "synced"} => DOMAIN cached = {}
  /\ pc = "synced" => ~coherent /\ syncs
  /\ pc = "read" /\ syncs =>
       DOMAIN cached \subseteq {Wrap(from + j) : j \in 0 .. Len(packet) - 1}

CaptureInvariant ==
  CaptureTypes /\ TailFollows /\ LastLapStored /\ NotLapped /\ CacheFollows /\ PacketIsNext

(* The count of transfers moves on when a transfer is complete.            *)
CountTells ==
  /\ captured \in Nat /\ transfer \in Nat /\ block \in Nat \ {0}
  /\ pc = "trigger" => control # "trigger" /\ (transfer > 0 => finished = m_last_transfer_count)
  /\ Running /\ transfer > 0 => finished = m_last_transfer_count \/ captured >= transfer

-----------------------------------------------------------------------------
(* Steps that end the capture, or after which none has begun.              *)
LEMMA NoneRunning ==
  ASSUME CaptureTypes', packet' = <<>>, ~Running',
         pc' \in {"none", "construct", "idle"} \/ (pc' = "trigger" /\ control' # "trigger"),
         coherent' \/ pc' \in {"none", "construct"} => DOMAIN cached' = {}
  PROVE  CaptureInvariant'
<1>1. TailFollows'
  BY DEF TailFollows, Running
<1>2. LastLapStored' /\ NotLapped'
  BY DEF LastLapStored, NotLapped
<1>3. CacheFollows'
  BY DEF CacheFollows
<1>4. PacketIsNext'
  BY DEF PacketIsNext
<1>5. QED
  BY <1>1, <1>2, <1>3, <1>4 DEF CaptureInvariant

LEMMA ZeroBuffer ==
  /\ [i \in Positions |-> 0] \in [Positions -> Nat]
  /\ Nowhere \in [DOMAIN Nowhere -> Nat] /\ DOMAIN Nowhere = {}
  /\ <<>> \in Seq(Nat)
BY DEF Nowhere

LEMMA FindCoreKeeps ==
  ASSUME CaptureInvariant, FindCore
  PROVE  CaptureInvariant'
<1>1. /\ pc = "none" /\ pc' = "construct" /\ head' \in Positions
      /\ UNCHANGED <<buffer, captured, cached, m_offset_tail, from, packet, taken>>
  BY DEF FindCore
<1>2. packet = <<>> /\ DOMAIN cached = {}
  BY <1>1 DEF CaptureInvariant, TailFollows, CacheFollows
<1>3. CaptureTypes'
  BY <1>1 DEF CaptureInvariant, CaptureTypes, Positions
<1>4. QED
  BY <1>1, <1>2, <1>3, NoneRunning DEF Running

LEMMA ConstructKeeps ==
  ASSUME CaptureInvariant, Construct
  PROVE  CaptureInvariant'
<1>1. /\ pc = "construct" /\ pc' = "idle" /\ control' = "off" /\ captured' = 0
      /\ buffer' = [i \in Positions |-> 0]
      /\ UNCHANGED <<head, cached, m_offset_tail, from, packet, taken>>
  BY DEF Construct
<1>2. packet = <<>> /\ DOMAIN cached = {}
  BY <1>1 DEF CaptureInvariant, TailFollows, CacheFollows
<1>3. CaptureTypes'
  BY <1>1, ZeroBuffer DEF CaptureInvariant, CaptureTypes, Positions
<1>4. QED
  BY <1>1, <1>2, <1>3, NoneRunning DEF Running

LEMMA StartCaptureKeeps ==
  ASSUME CaptureInvariant, NEW size, startCapture(size)
  PROVE  CaptureInvariant'
<1>1. /\ pc' = "trigger" /\ control' \in {"off", "hold"} /\ packet' = <<>>
      /\ UNCHANGED <<buffer, head, captured, coherent, cached, m_offset_tail, from, taken>>
  BY DEF startCapture, history, given
<1>2. CaptureTypes'
  BY <1>1, ZeroBuffer DEF CaptureInvariant, CaptureTypes, Positions
<1>3. coherent' => DOMAIN cached' = {}
  BY <1>1 DEF CaptureInvariant, CacheFollows
<1>4. QED
  BY <1>1, <1>2, <1>3, NoneRunning DEF Running

LEMMA StopCaptureKeeps ==
  ASSUME CaptureInvariant, stopCapture
  PROVE  CaptureInvariant'
<1>1. /\ pc' = "idle" /\ control' = "off" /\ packet' = <<>> /\ m_offset_tail' = 0
      /\ UNCHANGED <<buffer, head, captured, coherent, cached, from, taken>>
  BY DEF stopCapture, history, given
<1>2. CaptureTypes'
  BY <1>1, ZeroBuffer, RingSizes DEF CaptureInvariant, CaptureTypes, Positions
<1>3. coherent' => DOMAIN cached' = {}
  BY <1>1 DEF CaptureInvariant, CacheFollows
<1>4. QED
  BY <1>1, <1>2, <1>3, NoneRunning DEF Running

LEMMA ClearBufferKeeps ==
  ASSUME CaptureInvariant, clearBuffer
  PROVE  CaptureInvariant'
<1>1. /\ pc' = "idle" /\ control' = "off" /\ packet' = <<>>
      /\ buffer' = [i \in Positions |-> 0]
      /\ cached' = IF coherent THEN Nowhere ELSE buffer'
      /\ UNCHANGED <<head, captured, coherent, m_offset_tail, from, taken>>
  BY DEF clearBuffer, history, given
<1>2. CaptureTypes'
  <2>1. cached' \in [DOMAIN cached' -> Nat] /\ DOMAIN cached' \subseteq Positions
    BY <1>1, ZeroBuffer
  <2>2. QED
    BY <1>1, <2>1, ZeroBuffer DEF CaptureInvariant, CaptureTypes, Positions
<1>3. coherent' => DOMAIN cached' = {}
  BY <1>1, ZeroBuffer
<1>4. QED
  BY <1>1, <1>2, <1>3, NoneRunning DEF Running

LEMMA DestructKeeps ==
  ASSUME CaptureInvariant, Destruct
  PROVE  CaptureInvariant'
<1>1. /\ pc' = "none" /\ control' = "off" /\ packet' = <<>>
      /\ buffer' = [i \in Positions |-> 0] /\ cached' = Nowhere
      /\ head' = 0 /\ captured' = 0 /\ m_offset_tail' = 0 /\ from' = 0 /\ taken' = 0
  BY DEF Destruct
<1>2. CaptureTypes'
  BY <1>1, ZeroBuffer, RingSizes DEF CaptureTypes, Positions
<1>3. QED
  BY <1>1, <1>2, ZeroBuffer, NoneRunning DEF Running

(* A crash leaves the core as it is.                                       *)
LEMMA CrashKeeps ==
  ASSUME CaptureInvariant, Crash
  PROVE  CaptureInvariant'
<1>1. /\ pc = "read" /\ pc' = "none" /\ cached' = Nowhere /\ packet' = <<>>
      /\ UNCHANGED <<buffer, head, control, captured, coherent, m_offset_tail, from, taken, overrun>>
  BY DEF Crash, Unwritable, core, given, history
<1>2. CaptureTypes'
  BY <1>1, ZeroBuffer DEF CaptureInvariant, CaptureTypes, Positions
<1>3. TailFollows'
  BY <1>1 DEF TailFollows
<1>4. LastLapStored' /\ NotLapped'
  BY <1>1 DEF CaptureInvariant, LastLapStored, NotLapped, Running
<1>5. CacheFollows' /\ PacketIsNext'
  BY <1>1, ZeroBuffer DEF CacheFollows, PacketIsNext
<1>6. QED
  BY <1>2, <1>3, <1>4, <1>5 DEF CaptureInvariant

-----------------------------------------------------------------------------
(* Steps of a running capture.                                             *)
LEMMA TriggerKeeps ==
  ASSUME CaptureInvariant, Trigger
  PROVE  CaptureInvariant'
<1>1. /\ pc = "trigger" /\ pc' = "read_tail" /\ head' \in {head, 0}
      /\ buffer' = [i \in Positions |-> 0] /\ cached' = [i \in DOMAIN cached |-> 0]
      /\ captured' = 0 /\ taken' = 0
      /\ UNCHANGED <<coherent, syncs, m_offset_tail, from, packet>>
  BY DEF Trigger, given
<1>2. packet = <<>>
  BY <1>1 DEF CaptureInvariant, TailFollows
<1>3. CaptureTypes'
  BY <1>1, ZeroBuffer, RingSizes DEF CaptureInvariant, CaptureTypes, Positions
<1>4. TailFollows'
  BY <1>1, <1>2 DEF TailFollows
<1>5. LastLapStored' /\ NotLapped'
  BY <1>1, RingSizes DEF LastLapStored, NotLapped
<1>6. CacheFollows'
  BY <1>1 DEF CaptureInvariant, CacheFollows
<1>7. PacketIsNext'
  BY <1>1, <1>2 DEF PacketIsNext
<1>8. QED
  BY <1>3, <1>4, <1>5, <1>6, <1>7 DEF CaptureInvariant

LEMMA ReadTailKeeps ==
  ASSUME CaptureInvariant, ReadTail
  PROVE  CaptureInvariant'
<1>1. /\ pc = "read_tail" /\ pc' = "idle" /\ m_offset_tail' = head /\ taken' = captured
      /\ UNCHANGED <<buffer, head, control, captured, coherent, syncs, cached, from, packet>>
  BY DEF ReadTail, core, given
<1>2. packet = <<>> /\ head \in Positions /\ captured \in Nat
  BY <1>1 DEF CaptureInvariant, TailFollows, CaptureTypes
<1>3. CaptureTypes'
  BY <1>1 DEF CaptureInvariant, CaptureTypes, Positions
<1>4. TailFollows'
  <2>1. head - head = captured - captured
    BY <1>2, RingSizes
  <2>2. QED
    BY <1>1, <1>2, <2>1 DEF TailFollows, Linked, SamePlace
<1>5. LastLapStored' /\ NotLapped'
  BY <1>1, <1>2, RingSizes DEF CaptureInvariant, LastLapStored, NotLapped, Running
<1>6. CacheFollows'
  BY <1>1 DEF CaptureInvariant, CacheFollows
<1>7. PacketIsNext'
  BY <1>1, <1>2 DEF PacketIsNext
<1>8. QED
  BY <1>3, <1>4, <1>5, <1>6, <1>7 DEF CaptureInvariant

(* Looking at registers changes nothing of what is captured and read.      *)
LEMMA IsCaptureInProgressKeeps ==
  ASSUME CaptureInvariant, isCaptureInProgress
  PROVE  CaptureInvariant'
<1>1. /\ pc = "idle" /\ packet' = <<>> /\ control' \in {control, "off"}
      /\ pc' \in {"idle", "read_control"}
      /\ UNCHANGED <<buffer, head, captured, coherent, syncs, cached, m_offset_tail, from,
                     taken, overrun>>
  BY DEF isCaptureInProgress, given, history
<1>2. CaptureTypes'
  BY <1>1, ZeroBuffer DEF CaptureInvariant, CaptureTypes, Positions
<1>3. TailFollows'
  BY <1>1 DEF CaptureInvariant, TailFollows, Linked, SamePlace
<1>4. LastLapStored' /\ NotLapped'
  BY <1>1 DEF CaptureInvariant, LastLapStored, NotLapped, Running
<1>5. CacheFollows'
  BY <1>1 DEF CaptureInvariant, CacheFollows
<1>6. PacketIsNext'
  BY <1>1 DEF PacketIsNext
<1>7. QED
  BY <1>2, <1>3, <1>4, <1>5, <1>6 DEF CaptureInvariant

LEMMA ReadControlKeeps ==
  ASSUME CaptureInvariant, ReadControl
  PROVE  CaptureInvariant'
<1>1. /\ pc = "read_control" /\ pc' = "idle"
      /\ UNCHANGED <<buffer, head, control, captured, coherent, syncs, cached, m_offset_tail, from,
                     packet, taken, overrun>>
  BY DEF ReadControl, core, given, history
<1>2. CaptureTypes'
  BY <1>1 DEF CaptureInvariant, CaptureTypes, Positions
<1>3. TailFollows'
  BY <1>1 DEF CaptureInvariant, TailFollows, Linked, SamePlace
<1>4. LastLapStored' /\ NotLapped'
  BY <1>1 DEF CaptureInvariant, LastLapStored, NotLapped, Running
<1>5. CacheFollows'
  BY <1>1 DEF CaptureInvariant, CacheFollows
<1>6. PacketIsNext'
  BY <1>1 DEF CaptureInvariant, PacketIsNext
<1>7. QED
  BY <1>2, <1>3, <1>4, <1>5, <1>6 DEF CaptureInvariant

LEMMA SyncKeeps ==
  ASSUME CaptureInvariant, syncBufferForCpu
  PROVE  CaptureInvariant'
<1>1. /\ pc = "idle" /\ pc' = "synced" /\ Streaming /\ ~coherent /\ syncs /\ cached' = Nowhere
      /\ UNCHANGED <<buffer, head, control, transfer, captured, coherent, syncs, m_offset_tail,
                     from, packet, taken, overrun>>
  BY DEF syncBufferForCpu, core, given, history
<1>2. CaptureTypes'
  BY <1>1, ZeroBuffer DEF CaptureInvariant, CaptureTypes, Positions
<1>3. TailFollows'
  BY <1>1 DEF CaptureInvariant, TailFollows, Linked, SamePlace, Streaming
<1>4. LastLapStored' /\ NotLapped'
  BY <1>1 DEF CaptureInvariant, LastLapStored, NotLapped, Running
<1>5. CacheFollows'
  BY <1>1, ZeroBuffer DEF CacheFollows
<1>6. PacketIsNext'
  BY <1>1 DEF CaptureInvariant, PacketIsNext
<1>7. QED
  BY <1>2, <1>3, <1>4, <1>5, <1>6 DEF CaptureInvariant

-----------------------------------------------------------------------------
(* A burst moves the head and the number of units captured alike.          *)
LEMMA BurstMoves ==
  ASSUME CaptureTypes, MoveBurst
  PROVE  /\ head' = Wrap(head + BurstSize) /\ head' \in Positions
         /\ captured' = captured + BurstSize /\ captured' \in Nat
         /\ SamePlace(head' - captured', head - captured)
         /\ \A position, unit \in Int :
              Linked(position, unit) => SamePlace(head' - position, captured' - unit)
<1>1. /\ head \in Int /\ head \in Positions /\ captured \in Nat /\ BurstSize \in Nat
      /\ head + BurstSize \in Int
  BY RingSizes DEF CaptureTypes
<1>2. head' = Wrap(head + BurstSize) /\ captured' = captured + BurstSize
  BY DEF MoveBurst, Wrap
<1>3. head' \in Positions /\ head' \in Int /\ SamePlace(head', head + BurstSize)
  BY <1>1, <1>2, WrapIsPosition, WrapSamePlace
<1>4. SamePlace(head' - captured', head - captured)
  <2>1. captured' \in Int
    BY <1>1, <1>2
  <2>2. SamePlace(head' - captured', (head + BurstSize) - captured')
    BY <1>1, <1>3, <2>1, MoveBoth
  <2>3. (head + BurstSize) - captured' = head - captured
    BY <1>1, <1>2
  <2>4. QED
    BY <2>2, <2>3
<1>5. ASSUME NEW position \in Int, NEW unit \in Int, Linked(position, unit)
      PROVE  SamePlace(head' - position, captured' - unit)
  <2>1. SamePlace(head' - position, (head + BurstSize) - position)
    BY <1>1, <1>3, MoveBoth
  <2>2. SamePlace((head - position) + BurstSize, (captured - unit) + BurstSize)
    <3>1. head - position \in Int /\ captured - unit \in Int /\ BurstSize \in Int
      BY <1>1
    <3>2. QED
      BY <1>5, <3>1, MoveBoth DEF Linked
  <2>3. /\ (head + BurstSize) - position = (head - position) + BurstSize
        /\ captured' - unit = (captured - unit) + BurstSize
    BY <1>1, <1>2
  <2>4. QED
    BY <2>1, <2>2, <2>3 DEF SamePlace
<1>6. captured' \in Nat
  BY <1>1, <1>2
<1>7. QED
  BY <1>2, <1>3, <1>4, <1>5, <1>6

(* A burst that is put in the buffer leaves the rest of the lap there.     *)
LEMMA BurstStores ==
  ASSUME CaptureTypes, LastLapStored, Running, MoveBurst,
         NEW k \in 1 .. captured', captured' - k < BufferSize
  PROVE  buffer'[Wrap(head' - captured' + k - 1)] = k
<1> DEFINE p == Wrap(head - captured + k - 1)
           d == k - 1 - captured
<1>1. /\ head \in Int /\ captured \in Nat /\ k \in Nat /\ k >= 1
      /\ BurstSize \in Nat /\ BufferSize \in Nat /\ BurstSize <= BufferSize
      /\ captured' = captured + BurstSize /\ captured' \in Nat /\ head' \in Int
  BY RingSizes, BurstMoves DEF CaptureTypes
<1>2. Wrap(head' - captured' + k - 1) = p
  <2>1. /\ head' - captured' \in Int /\ head - captured \in Int /\ k - 1 \in Int
        /\ head' - captured' + k - 1 = (head' - captured') + (k - 1)
        /\ head - captured + k - 1 = (head - captured) + (k - 1)
    BY <1>1
  <2>2. SamePlace((head' - captured') + (k - 1), (head - captured) + (k - 1))
    BY <2>1, BurstMoves, MoveBoth
  <2>3. QED
    BY <2>1, <2>2 DEF SamePlace
<1>3. p \in Positions
  <2>1. head - captured + k - 1 \in Int
    BY <1>1
  <2>2. QED
    BY <2>1, WrapIsPosition
<1>4. Wrap(p - head) = Wrap(d)
  <2>1. head - captured + k - 1 \in Int /\ d = (head - captured + k - 1) - head
    BY <1>1
  <2>2. p \in Int /\ SamePlace(p, head - captured + k - 1)
    BY <2>1, WrapSamePlace
  <2>3. SamePlace(p - head, (head - captured + k - 1) - head)
    BY <1>1, <2>1, <2>2, MoveBoth
  <2>4. QED
    BY <2>1, <2>3 DEF SamePlace
<1>5. buffer'[p] = IF Wrap(d) < BurstSize THEN captured + Wrap(d) + 1 ELSE buffer[p]
  <2>1. buffer'[p] = IF Wrap(p - head) < BurstSize THEN captured + Wrap(p - head) + 1 ELSE buffer[p]
    BY <1>3 DEF MoveBurst, Wrap
  <2>2. QED
    BY <1>4, <2>1, Zenon
<1>6. CASE k > captured
  <2>1. d \in Positions /\ d < BurstSize /\ captured + d + 1 = k
    BY <1>1, <1>6, RingSizes
  <2>2. Wrap(d) = d
    BY <2>1, WrapPosition
  <2>3. QED
    BY <1>2, <1>5, <2>1, <2>2
<1>7. CASE k <= captured
  <2>1. d + BufferSize \in Positions /\ d + BufferSize >= BurstSize /\ d = (d + BufferSize) - BufferSize
    BY <1>1, <1>7, RingSizes
  <2>2. Wrap(d) = d + BufferSize
    BY <2>1, WrapPosition
  <2>3. k \in 1 .. captured /\ captured - k < BufferSize
    BY <1>1, <1>7
  <2>4. buffer[p] = k
    BY <2>3 DEF LastLapStored
  <2>5. ~(Wrap(d) < BurstSize)
    BY <1>1, <2>1, <2>2
  <2>6. QED
    BY <1>2, <1>5, <2>4, <2>5
<1>8. QED
  BY <1>1, <1>6, <1>7

LEMMA MoveBurstKeeps ==
  ASSUME CaptureInvariant, MoveBurst
  PROVE  CaptureInvariant'
<1>1. /\ control = "trigger"
      /\ UNCHANGED <<control, transfer, coherent, syncs, cached, m_offset_tail, pc, from, packet,
                     taken>>
      /\ overrun' = (overrun \/ captured' - taken > BufferSize)
  BY DEF MoveBurst, given, driver
<1>2. /\ CaptureTypes /\ TailFollows /\ LastLapStored
      /\ BufferSize \in Nat /\ BurstSize \in Nat /\ PacketSize \in Nat
      /\ captured \in Nat /\ taken \in Nat /\ m_offset_tail \in Int /\ from \in Int
      /\ Len(packet) \in Nat
  BY RingSizes DEF CaptureInvariant, CaptureTypes
<1>3. /\ head' \in Positions /\ captured' = captured + BurstSize /\ captured' \in Nat
      /\ \A position, unit \in Int :
           Linked(position, unit) => SamePlace(head' - position, captured' - unit)
  BY <1>2, BurstMoves
<1>4. CaptureTypes'
  <2>1. buffer' \in [Positions -> Nat]
    <3>1. buffer' = [i \in Positions |->
                       IF Wrap(i - head) < BurstSize THEN captured + Wrap(i - head) + 1
                       ELSE buffer[i]]
      BY DEF MoveBurst, Wrap
    <3>2. ASSUME NEW i \in Positions
          PROVE  Wrap(i - head) \in Nat
      <4>1. i - head \in Int
        BY RingSizes, <1>2 DEF CaptureTypes
      <4>2. Wrap(i - head) \in 0 .. BufferSize - 1
        BY <4>1, WrapIsPosition
      <4>3. QED
        BY <4>2, RingSizes
    <3>3. QED
      BY SMTT(30), <1>2, <3>1, <3>2 DEF CaptureTypes
  <2>2. QED
    BY <1>1, <1>2, <1>3, <2>1 DEF CaptureTypes, Positions
<1>5. TailFollows'
  <2>1. pc \in {"idle", "synced", "read_control"} =>
          SamePlace(head' - m_offset_tail, captured' - taken) /\ taken <= captured'
    BY <1>1, <1>2, <1>3 DEF TailFollows
  <2>2. pc = "read" => /\ SamePlace(head' - from, captured' - (taken - Len(packet)))
                       /\ taken - Len(packet) + PacketSize <= captured'
    <3>1. taken - Len(packet) \in Int
      BY <1>2
    <3>2. QED
      BY <1>1, <1>2, <1>3, <3>1 DEF TailFollows
  <2>3. QED
    BY <1>1, <1>2, <2>1, <2>2 DEF TailFollows, Linked, SamePlace, Streaming
<1>6. LastLapStored'
  <2>1. pc' = "construct" \/ Running
    BY <1>1 DEF Running
  <2>2. CASE pc' = "construct"
    BY <2>2 DEF LastLapStored, Running
  <2>3. CASE Running
    BY <1>2, <2>3, BurstStores DEF LastLapStored
  <2>4. QED
    BY <2>1, <2>2, <2>3
<1>7. NotLapped'
  <2>1. ~overrun' => ~(captured' - taken > BufferSize)
    BY <1>1, Zenon
  <2>2. QED
    BY <1>1, <1>2, <1>3, <2>1 DEF NotLapped
<1>8. CacheFollows'
  BY <1>1 DEF CaptureInvariant, CacheFollows
<1>9. PacketIsNext'
  BY <1>1 DEF CaptureInvariant, PacketIsNext
<1>10. QED
  BY <1>4, <1>5, <1>6, <1>7, <1>8, <1>9 DEF CaptureInvariant

-----------------------------------------------------------------------------
(* Fetching and reading a packet.                                          *)

(* A tail inside the ring that moves on by a packet.                       *)
LEMMA TailMoves ==
  ASSUME NEW tail \in Positions
  PROVE  /\ NextTail(tail) \in Positions /\ SamePlace(NextTail(tail), tail + PacketSize)
         /\ tail + PacketSize > BufferSize =>
              /\ Wrapped(tail) \in Positions /\ SamePlace(Wrapped(tail), tail + PacketSize)
<1>1. tail \in Int /\ tail + PacketSize \in Int /\ NextTail(tail) = Wrap(tail + PacketSize)
  BY RingSizes DEF NextTail, Wrap
<1>2. NextTail(tail) \in Positions /\ SamePlace(NextTail(tail), tail + PacketSize)
  BY <1>1, WrapIsPosition, WrapSamePlace
<1>3. ASSUME tail + PacketSize > BufferSize
      PROVE  Wrapped(tail) \in Positions /\ SamePlace(Wrapped(tail), tail + PacketSize)
  <2>1. Wrapped(tail) \in Positions /\ Wrapped(tail) + BufferSize = tail + PacketSize
    BY <1>1, <1>3, RingSizes DEF Wrapped
  <2>2. Wrap(Wrapped(tail) + BufferSize) = Wrapped(tail) /\ Wrap(Wrapped(tail)) = Wrapped(tail)
    BY <2>1, WrapPosition
  <2>3. QED
    BY <2>1, <2>2, Zenon DEF SamePlace
<1>4. QED
  BY <1>2, <1>3

(* What is linked to the head stays linked to it after the same number of  *)
(* units.                                                                  *)
LEMMA LinkMoves ==
  ASSUME NEW position \in Int, NEW next \in Int, NEW unit \in Int, NEW n \in Int,
         head \in Int, captured \in Int,
         Linked(position, unit), SamePlace(next, position + n)
  PROVE  Linked(next, unit + n)
<1>1. SamePlace(head - next, head - (position + n))
  <2>1. position + n \in Int
    OBVIOUS
  <2>2. QED
    BY <2>1, MoveBoth
<1>2. SamePlace((head - position) - n, (captured - unit) - n)
  <2>1. head - position \in Int /\ captured - unit \in Int
    OBVIOUS
  <2>2. QED
    BY <2>1, MoveBoth DEF Linked
<1>3. /\ head - (position + n) = (head - position) - n
      /\ captured - (unit + n) = (captured - unit) - n
  OBVIOUS
<1>4. QED
  BY <1>1, <1>2, <1>3 DEF Linked, SamePlace

(* What fetchPacket finds available has been captured and not been read.   *)
LEMMA AvailableIsCaptured ==
  ASSUME CaptureTypes, Linked(m_offset_tail, taken), taken <= captured,
         NEW available,
         available = IF head < m_offset_tail THEN head + BufferSize - m_offset_tail
                     ELSE head - m_offset_tail
  PROVE  available \in Int /\ available <= captured - taken
<1>1. /\ head \in 0 .. BufferSize - 1 /\ m_offset_tail \in 0 .. BufferSize - 1
      /\ captured - taken \in Nat /\ captured - taken \in Int /\ head - m_offset_tail \in Int
  BY SMTT(30), RingSizes DEF CaptureTypes
<1>2. available \in Positions
  BY <1>1, RingSizes
<1>3. available = head - m_offset_tail \/ available - BufferSize = head - m_offset_tail
  BY <1>1, RingSizes
<1>4. Wrap(head - m_offset_tail) = available
  BY <1>2, <1>3, WrapPosition
<1>5. Wrap(captured - taken) = available
  BY <1>4 DEF Linked, SamePlace
<1>6. Wrap(captured - taken) <= captured - taken
  BY <1>1, WrapAtMost
<1>7. QED
  BY <1>2, <1>5, <1>6, RingSizes

LEMMA FetchPacketKeeps ==
  ASSUME CaptureInvariant, fetchPacket
  PROVE  CaptureInvariant'
<1> DEFINE available == IF head < m_offset_tail THEN head + BufferSize - m_offset_tail
                        ELSE head - m_offset_tail
<1>1. /\ pc = (IF ~coherent /\ syncs THEN "synced" ELSE "idle") /\ Streaming
      /\ packet' = <<>> /\ from' = m_offset_tail
      /\ \/ Enough(available) /\ pc' = "read"
         \/ pc' = "idle" /\ m_offset_tail' = m_offset_tail
      /\ m_offset_tail' = IF pc' = "read" /\ m_offset_tail + PacketSize <= BufferSize
                          THEN NextTail(m_offset_tail) ELSE m_offset_tail
      /\ UNCHANGED <<buffer, head, control, transfer, captured, coherent, syncs, cached, taken,
                     overrun>>
  BY DEF fetchPacket, core, given, history
<1>2. /\ control = "trigger" /\ pc \in {"idle", "synced"}
      /\ Linked(m_offset_tail, taken) /\ taken <= captured
      /\ m_offset_tail \in Positions /\ captured \in Nat /\ taken \in Nat
  BY <1>1 DEF CaptureInvariant, TailFollows, CaptureTypes, Streaming
<1>3. CaptureTypes'
  <2>1. m_offset_tail' \in Positions
    BY <1>1, <1>2, TailMoves
  <2>2. QED
    BY <1>1, <1>2, <2>1, ZeroBuffer DEF CaptureInvariant, CaptureTypes, Positions
<1>4. TailFollows'
  <2>1. CASE pc' = "idle"
    <3>1. m_offset_tail' = m_offset_tail
      BY <1>1, <2>1
    <3>2. QED
      BY <1>1, <1>2, <2>1, <3>1 DEF TailFollows, Linked, SamePlace
  <2>2. CASE pc' = "read" /\ Enough(available)
    <3>1. available \in Int /\ available <= captured - taken /\ available >= PacketSize
      BY <1>2, <2>2, AvailableIsCaptured DEF CaptureInvariant, Enough
    <3>2. taken + PacketSize <= captured
      BY <1>2, <3>1, RingSizes
    <3>3. /\ Len(packet') = 0 /\ taken' - Len(packet') = taken
          /\ taken' - Len(packet') + PacketSize = taken + PacketSize
      BY <1>1, <1>2
    <3>4. from' + PacketSize <= BufferSize => m_offset_tail' = NextTail(from')
      BY <1>1, <2>2
    <3>5. Linked(from, taken - Len(packet))'
      BY <1>1, <1>2, <3>3 DEF Linked, SamePlace
    <3>6. Streaming' /\ pc' = "read" /\ Len(packet') < PacketSize
          /\ taken' - Len(packet') + PacketSize <= captured'
      BY <1>1, <2>2, <3>2, <3>3, RingSizes DEF Streaming
    <3>7. QED
      BY <3>4, <3>5, <3>6 DEF TailFollows, NextTail
  <2>3. QED
    BY <1>1, <2>1, <2>2
<1>5. LastLapStored' /\ NotLapped'
  BY <1>1, <1>2 DEF CaptureInvariant, LastLapStored, NotLapped, Running
<1>6. CacheFollows'
  <2>1. coherent \/ pc = "synced" => DOMAIN cached = {}
    BY DEF CaptureInvariant, CacheFollows
  <2>2. coherent \/ syncs => DOMAIN cached = {}
    BY <1>1, <2>1
  <2>3. QED
    BY <1>1, <2>1, <2>2 DEF CacheFollows
<1>7. PacketIsNext'
  BY <1>1 DEF PacketIsNext
<1>8. QED
  BY <1>3, <1>4, <1>5, <1>6, <1>7 DEF CaptureInvariant

(* Where the units after a linked one are.                                 *)
LEMMA LinkedPlace ==
  ASSUME NEW position \in Int, NEW unit \in Int, NEW n \in Int,
         head \in Int, captured \in Int, Linked(position, unit)
  PROVE  SamePlace(position + n, head - captured + unit + n)
<1>1. head - position \in Int /\ captured - unit \in Int
  OBVIOUS
<1>2. SamePlace(head - (head - position), head - (captured - unit))
  BY <1>1, MoveBoth DEF Linked
<1>3. head - (head - position) = position /\ head - (captured - unit) = head - captured + unit
  OBVIOUS
<1>4. SamePlace(position, head - captured + unit) /\ head - captured + unit \in Int
  BY <1>2, <1>3
<1>5. QED
  BY <1>4, MoveBoth

(* The next unit of a packet is one that was not read of it yet.           *)
LEMMA NotReadYet ==
  ASSUME NEW n \in 0 .. PacketSize - 1, NEW j \in 0 .. n - 1, from \in Int
  PROVE  Wrap(from + n) # Wrap(from + j)
<1>1. from + n \in Int /\ from + j \in Int /\ n \in Positions /\ j \in Positions /\ n # j
  BY RingSizes
<1>2. ASSUME Wrap(from + n) = Wrap(from + j)
      PROVE  FALSE
  <2>1. SamePlace((from + n) - from, (from + j) - from)
    BY <1>1, <1>2, MoveBoth DEF SamePlace
  <2>2. (from + n) - from = n /\ (from + j) - from = j
    OBVIOUS
  <2>3. Wrap(n) = n /\ Wrap(j) = j
    BY <1>1, WrapPosition
  <2>4. QED
    BY <1>1, <2>1, <2>2, <2>3 DEF SamePlace
<1>3. QED
  BY <1>2

(* The place that is read holds the next unit, if it was not overwritten.  *)
LEMMA NextIsThere ==
  ASSUME CaptureInvariant, pc = "read", ~overrun
  PROVE  buffer[Wrap(from + Len(packet))] = taken + 1
<1> DEFINE L == Len(packet)
           base == taken - L
<1>1. /\ Running /\ Linked(from, base) /\ L < PacketSize /\ base + PacketSize <= captured
      /\ L \in Nat /\ taken \in Nat /\ captured \in Nat /\ from \in Int /\ head \in Int
  BY RingSizes
     DEF CaptureInvariant, TailFollows, CaptureTypes, Streaming, Running
<1>2. captured - taken <= BufferSize
  BY <1>1 DEF CaptureInvariant, NotLapped
<1>3. taken + 1 \in 1 .. captured /\ captured - (taken + 1) < BufferSize
  BY <1>1, <1>2, RingSizes
<1>4. SamePlace(from + L, head - captured + (taken + 1) - 1)
  <2>1. base \in Int /\ L \in Int /\ captured \in Int
    BY <1>1
  <2> HIDE DEF base, L
  <2>2. SamePlace(from + L, head - captured + base + L)
    BY <1>1, <2>1, LinkedPlace
  <2>3. head - captured + base + L = head - captured + (taken + 1) - 1
    BY <1>1 DEF base, L
  <2>4. QED
    BY <2>2, <2>3
<1>5. buffer[Wrap(head - captured + (taken + 1) - 1)] = taken + 1
  BY <1>1, <1>3 DEF CaptureInvariant, LastLapStored
<1>6. QED
  BY <1>4, <1>5 DEF SamePlace

LEMMA ReadUnitKeeps ==
  ASSUME CaptureInvariant, ReadUnit
  PROVE  CaptureInvariant'
<1> DEFINE L == Len(packet)
           i == Wrap(from + L)
           unit == IF i \in DOMAIN cached THEN cached[i] ELSE buffer[i]
           base == taken - L
<1>1. /\ pc = "read" /\ packet' = Append(packet, unit) /\ taken' = taken + 1
      /\ cached' = IF coherent THEN cached
                   ELSE [k \in DOMAIN cached \cup {i} |-> IF k = i THEN unit ELSE cached[k]]
      /\ pc' = IF Len(packet') = PacketSize THEN "idle" ELSE "read"
      /\ m_offset_tail' = IF Len(packet') = PacketSize /\ from + PacketSize > BufferSize
                          THEN Wrapped(from) ELSE m_offset_tail
      /\ UNCHANGED <<buffer, head, control, transfer, captured, coherent, syncs, from, overrun>>
  BY DEF ReadUnit, core, given, Wrap
<1>2. /\ control = "trigger" /\ Streaming /\ Linked(from, base)
      /\ L < PacketSize /\ base + PacketSize <= captured
      /\ from + PacketSize <= BufferSize => m_offset_tail = NextTail(from)
  BY <1>1 DEF CaptureInvariant, TailFollows, Streaming
<1>3. /\ captured \in Nat /\ taken \in Nat /\ L \in Nat /\ base \in Int
      /\ from \in Positions /\ from \in Int /\ head \in Int /\ captured \in Int
      /\ PacketSize \in Nat \ {0} /\ BufferSize \in Nat /\ packet \in Seq(Nat)
      /\ m_offset_tail \in Positions
  BY RingSizes DEF CaptureInvariant, CaptureTypes
<1>4. i \in Positions
  <2>1. from + L \in Int
    BY <1>3
  <2>2. QED
    BY <2>1, WrapIsPosition
<1>5. unit \in Nat
  BY <1>4 DEF CaptureInvariant, CaptureTypes
<1>6. Len(packet') = L + 1 /\ packet' \in Seq(Nat) /\ taken' - Len(packet') = base
  BY <1>1, <1>3, <1>5
<1>7. CaptureTypes'
  <2>1. m_offset_tail' \in Positions
    BY <1>1, <1>3, TailMoves
  <2>2. cached' \in [DOMAIN cached' -> Nat] /\ DOMAIN cached' \subseteq Positions
    <3>1. CASE coherent
      BY <1>1, <3>1 DEF CaptureInvariant, CaptureTypes
    <3>2. CASE ~coherent
      <4>1. /\ \A k \in DOMAIN cached : cached[k] \in Nat
            /\ DOMAIN cached \subseteq Positions
        BY DEF CaptureInvariant, CaptureTypes
      <4>2. QED
        BY <1>1, <1>4, <1>5, <3>2, <4>1
    <3>3. QED
      BY <3>1, <3>2
  <2>3. /\ buffer' \in [Positions' -> Nat] /\ head' \in Positions' /\ captured' \in Nat
        /\ from' \in Positions' /\ taken' \in Nat
    <3>1. buffer \in [Positions -> Nat] /\ head \in Positions
      BY DEF CaptureInvariant, CaptureTypes
    <3>2. UNCHANGED <<buffer, head, captured, from>> /\ taken' = taken + 1
      BY <1>1
    <3>3. QED
      BY <1>3, <3>1, <3>2 DEF Positions
  <2>4. QED
    BY <1>6, <2>1, <2>2, <2>3 DEF CaptureTypes, Positions
<1>8. TailFollows'
  <2>1. CASE Len(packet') = PacketSize
    <3>1. SamePlace(m_offset_tail', from + PacketSize) /\ m_offset_tail' \in Int
      <4>1. CASE from + PacketSize <= BufferSize
        <5>1. m_offset_tail' = NextTail(from)
          BY SMTT(30), <1>1, <1>2, <1>3, <4>1
        <5>2. QED
          BY <1>3, <5>1, TailMoves, RingSizes
      <4>2. CASE from + PacketSize > BufferSize
        <5>1. m_offset_tail' = Wrapped(from)
          BY <1>1, <2>1, <4>2
        <5>2. QED
          BY <1>3, <4>2, <5>1, TailMoves, RingSizes
      <4>3. QED
        BY <1>3, <4>1, <4>2
    <3>2. Linked(m_offset_tail', base + PacketSize)
      <4>1. Linked(from, base) /\ from \in Int /\ base \in Int /\ PacketSize \in Int
        BY <1>2, <1>3
      <4> HIDE DEF base
      <4>2. ASSUME NEW next \in Int, SamePlace(next, from + PacketSize)
            PROVE  Linked(next, base + PacketSize)
        BY <1>3, <4>1, <4>2, LinkMoves
      <4>3. QED
        BY <3>1, <4>2
    <3>3. base + PacketSize = taken' /\ taken' <= captured'
      BY <1>1, <1>2, <1>3, <1>6, <2>1
    <3>4. Linked(m_offset_tail, taken)'
      BY <1>1, <3>2, <3>3 DEF Linked, SamePlace
    <3>5. pc' = "idle"
      BY <1>1, <2>1
    <3>6. QED
      BY <3>3, <3>4, <3>5 DEF TailFollows
  <2>2. CASE Len(packet') # PacketSize
    <3>1. pc' = "read" /\ m_offset_tail' = m_offset_tail /\ Streaming'
      BY <1>1, <1>2, <2>2 DEF Streaming
    <3>2. Len(packet') < PacketSize /\ taken' - Len(packet') + PacketSize <= captured'
      BY <1>1, <1>2, <1>3, <1>6, <2>2
    <3>3. Linked(from, taken - Len(packet))'
      BY <1>1, <1>2, <1>6 DEF Linked, SamePlace
    <3>4. from' + PacketSize <= BufferSize => m_offset_tail' = NextTail(from')
      BY <1>1, <1>2, <3>1
    <3>5. QED
      BY <3>1, <3>2, <3>3, <3>4 DEF TailFollows, NextTail
  <2>3. QED
    BY <2>1, <2>2
<1>9. LastLapStored'
  BY <1>1 DEF CaptureInvariant, LastLapStored, Running
<1>10. NotLapped'
  BY <1>1, <1>3 DEF CaptureInvariant, NotLapped, Running
<1>11. CacheFollows'
  <2>1. coherent => DOMAIN cached' = {}
    BY <1>1 DEF CaptureInvariant, CacheFollows
  <2>2. ASSUME syncs
        PROVE  DOMAIN cached' \subseteq {Wrap(from + j) : j \in 0 .. Len(packet') - 1}
    <3>1. DOMAIN cached \subseteq {Wrap(from + j) : j \in 0 .. L - 1}
      BY <1>1, <2>2 DEF CaptureInvariant, CacheFollows
    <3>2. DOMAIN cached' \subseteq DOMAIN cached \cup {i}
      BY <1>1
    <3>3. 0 .. L - 1 \subseteq 0 .. Len(packet') - 1 /\ L \in 0 .. Len(packet') - 1
      BY <1>3, <1>6
    <3>4. i \in {Wrap(from + j) : j \in 0 .. Len(packet') - 1}
      BY <3>3
    <3>5. {Wrap(from + j) : j \in 0 .. L - 1} \subseteq {Wrap(from + j) : j \in 0 .. Len(packet') - 1}
      BY <3>3
    <3>6. QED
      BY <3>1, <3>2, <3>4, <3>5, Zenon
  <2>3. pc' \in {"idle", "read"}
    BY <1>1
  <2>4. QED
    BY <1>1, <2>1, <2>2, <2>3 DEF CacheFollows, Wrap
<1>12. PacketIsNext'
  <2>1. SUFFICES ASSUME ~overrun, coherent \/ syncs, NEW j \in DOMAIN packet'
                 PROVE  packet'[j] = taken' - Len(packet') + j
    BY <1>1 DEF PacketIsNext
  <2>2. j \in 1 .. L + 1
    BY <1>3, <1>6, <2>1
  <2>3. CASE j <= L
    <3>1. j \in DOMAIN packet /\ packet'[j] = packet[j]
      BY <1>1, <1>3, <1>5, <2>2, <2>3
    <3>2. packet[j] = base + j
      BY <2>1, <3>1 DEF CaptureInvariant, PacketIsNext
    <3>3. QED
      BY <1>6, <3>1, <3>2
  <2>4. CASE j = L + 1
    <3>1. i \notin DOMAIN cached
      <4>1. CASE coherent
        BY <4>1 DEF CaptureInvariant, CacheFollows
      <4>2. CASE syncs
        <5>1. DOMAIN cached \subseteq {Wrap(from + n) : n \in 0 .. L - 1}
          BY <1>1, <4>2 DEF CaptureInvariant, CacheFollows
        <5>2. L \in 0 .. PacketSize - 1
          BY <1>2, <1>3
        <5>3. \A n \in 0 .. L - 1 : Wrap(from + L) # Wrap(from + n)
          BY <1>3, <5>2, NotReadYet
        <5>4. QED
          BY <5>1, <5>3, Zenon
      <4>3. QED
        BY <2>1, <4>1, <4>2
    <3>2. unit = taken + 1
      BY <1>1, <2>1, <3>1, NextIsThere
    <3>3. packet'[j] = unit
      BY <1>1, <1>3, <1>5, <2>4
    <3>4. QED
      BY <1>3, <1>6, <2>4, <3>2, <3>3
  <2>5. QED
    BY <1>3, <2>2, <2>3, <2>4
<1>13. QED
  BY <1>7, <1>8, <1>9, <1>10, <1>11, <1>12 DEF CaptureInvariant

-----------------------------------------------------------------------------
(* Every step of the system is one of these for the capture, or none.      *)
CaptureStep ==
  \/ FindCore \/ Construct \/ MoveBurst
  \/ \E size \in TransferSizes \cup {0} : startCapture(size)
  \/ fetchPacket \/ isCaptureInProgress \/ stopCapture \/ clearBuffer \/ syncBufferForCpu
  \/ Trigger \/ ReadTail \/ ReadUnit \/ ReadControl
  \/ Destruct \/ Crash

LEMMA StepOfCapture == [Next]_vars => CaptureStep \/ UNCHANGED captureVars
<1>1. CASE UNCHANGED vars
  BY <1>1 DEF vars
<1>2. CASE Opening \/ uio_capture \/ (\E map_index \in {0, 1} : uio_fill(map_index)) \/ uio_dump
           \/ Capture \/ UseRegisters \/ OnRegisters \/ (\E value \in Word : FillWord(value))
           \/ CloseDevice
  BY <1>2, Zenon DEF Opening, uio_capture, uio_fill, uio_dump, Capture, UseRegisters, OnRegisters,
     FillWord, CloseDevice
<1>3. CASE Initialise
  BY <1>3, Zenon DEF Initialise, CaptureStep
<1>4. CASE Constructing \/ Core
  BY <1>4 DEF Constructing, Core, CaptureStep
<1>5. CASE AnyCall
  BY <1>5 DEF AnyCall, Call, CaptureStep
<1>6. CASE CaptureLoop
  BY <1>6 DEF CaptureLoop, CaptureStep
<1>7. CASE InCall \/ EndCapture \/ Crash
  BY <1>7 DEF InCall, Within, EndCapture, CaptureStep
<1>8. QED
  BY <1>1, <1>2, <1>3, <1>4, <1>5, <1>6, <1>7, Zenon DEF Next

LEMMA CaptureInvariantStep == CaptureInvariant /\ [Next]_vars => CaptureInvariant'
<1> SUFFICES ASSUME CaptureInvariant, [Next]_vars
             PROVE  CaptureInvariant'
  OBVIOUS
<1>1. CASE UNCHANGED captureVars
  <2>1. UNCHANGED <<buffer, head, control, transfer, captured, coherent, syncs, cached,
                    m_offset_tail, pc, from, packet, taken, overrun>>
    BY <1>1, Zenon DEF captureVars, core, given, driver, history
  <2>2. CaptureTypes' /\ TailFollows'
    BY <2>1 DEF CaptureInvariant, CaptureTypes, TailFollows, Positions, Linked, SamePlace, Streaming,
       NextTail
  <2>3. LastLapStored' /\ NotLapped' /\ CacheFollows' /\ PacketIsNext'
    BY <2>1 DEF CaptureInvariant, LastLapStored, NotLapped, CacheFollows, PacketIsNext, Running
  <2>4. QED
    BY <2>2, <2>3 DEF CaptureInvariant
<1>2. CASE CaptureStep
  BY <1>2, FindCoreKeeps, ConstructKeeps, MoveBurstKeeps, StartCaptureKeeps, FetchPacketKeeps,
     IsCaptureInProgressKeeps, StopCaptureKeeps, ClearBufferKeeps, SyncKeeps, TriggerKeeps,
     ReadTailKeeps, ReadUnitKeeps, ReadControlKeeps, DestructKeeps, CrashKeeps, Zenon DEF CaptureStep
<1>3. QED
  BY <1>1, <1>2, StepOfCapture

(* The head, the tail, the buffer, the cache and what is read of a packet  *)
(* agree at all times.                                                     *)
THEOREM CaptureInvariantHolds == Spec => []CaptureInvariant
<1>1. Init => CaptureInvariant
  <2> SUFFICES ASSUME Init
               PROVE  CaptureInvariant
    OBVIOUS
  <2>1. /\ buffer = [i \in Positions |-> 0] /\ head = 0 /\ control = "off" /\ captured = 0
        /\ cached = Nowhere /\ m_offset_tail = 0 /\ pc = "none" /\ from = 0 /\ packet = <<>>
        /\ taken = 0
    BY DEF Init, CaptureInit
  <2>2. CaptureTypes
    BY <2>1, ZeroBuffer, RingSizes DEF CaptureTypes
  <2>3. TailFollows /\ LastLapStored /\ NotLapped /\ CacheFollows /\ PacketIsNext
    BY <2>1, ZeroBuffer DEF TailFollows, LastLapStored, NotLapped, CacheFollows, PacketIsNext, Running
  <2>4. QED
    BY <2>2, <2>3 DEF CaptureInvariant
<1>2. QED
  BY <1>1, CaptureInvariantStep, PTL DEF Spec

(* While the program streams, the distance from tail to head is what has   *)
(* been captured and not read, modulo the size of the buffer.              *)
THEOREM TailIsNextAlways == Spec => []TailIsNext
<1>1. CaptureInvariant => TailIsNext
  BY DEF CaptureInvariant, TailFollows, TailIsNext, Streaming, Linked, SamePlace, Wrap
<1>2. QED
  BY <1>1, CaptureInvariantHolds, PTL

(* A packet is the next PacketSize units of the capture, in order and none *)
(* of them from an earlier lap, unless the core was faster than the        *)
(* program or the program never drops the cache.                           *)
THEOREM PacketIsNextAlways == Spec => []PacketIsNext
<1>1. CaptureInvariant => PacketIsNext
  BY DEF CaptureInvariant
<1>2. QED
  BY <1>1, CaptureInvariantHolds, PTL

-----------------------------------------------------------------------------
LEMMA BlocksCover ==
  ASSUME NEW t \in Nat, NEW b \in Nat \ {0}
  PROVE  t * b \in Nat /\ t * b >= t
<1>1. t * b = t * (b - 1) + t
  OBVIOUS
<1>2. t * (b - 1) \in Nat
  OBVIOUS
<1>3. QED
  BY <1>1, <1>2

LEMMA CountTellsStep == CountTells /\ [Next]_vars => CountTells'
<1> SUFFICES ASSUME CountTells, [Next]_vars
             PROVE  CountTells'
  OBVIOUS
<1> USE DEF CountTells, Running
<1>1. CASE UNCHANGED captureVars
  BY <1>1 DEF captureVars, core, driver
<1>2. CASE FindCore \/ Construct \/ Destruct
  <2>1. BufferSize \div BurstSize \in Nat
    BY SizesAssumption
  <2>2. QED
    BY <1>2, <2>1, RingSizes DEF FindCore, Construct, Destruct
<1>3. CASE MoveBurst
  <2>1. /\ control = "trigger" /\ captured' = captured + BurstSize /\ BurstSize \in Nat
        /\ finished' = finished \/ captured' >= transfer * block
        /\ UNCHANGED <<control, transfer, block, m_last_transfer_count, pc>>
    BY <1>3, RingSizes DEF MoveBurst, driver
  <2>2. transfer * block \in Nat /\ transfer * block >= transfer
    BY BlocksCover
  <2>3. captured' \in Nat /\ captured' >= captured
    BY <2>1
  <2>4. captured' >= transfer * block => captured' >= transfer
    BY <2>2, <2>3
  <2>5. QED
    BY <2>1, <2>3, <2>4
<1>4. ASSUME NEW size \in TransferSizes \cup {0}, startCapture(size)
      PROVE  CountTells'
  <2>1. WholeSamples(size) \in Nat /\ (size = 0 => WholeSamples(size) = 0)
    <3>1. size \in Nat /\ SampleSize \in Nat \ {0}
      BY SizesAssumption
    <3>2. size \div SampleSize \in Nat /\ (size = 0 => size \div SampleSize = 0)
      BY <3>1
    <3>3. QED
      BY <3>1, <3>2 DEF WholeSamples
  <2>2. /\ captured' = captured
        /\ pc' = "trigger" /\ control' \in {"off", "hold"} /\ finished' = finished
        /\ transfer' = WholeSamples(size) /\ block' \in {1, BurstSize}
        /\ size # 0 => m_last_transfer_count' = finished
    BY <1>4 DEF startCapture, Recorded
  <2>3. QED
    BY <2>1, <2>2, SizesAssumption
<1>5. CASE Trigger
  BY <1>5 DEF Trigger
<1>6. CASE isCaptureInProgress \/ stopCapture \/ clearBuffer
  BY <1>6 DEF isCaptureInProgress, stopCapture, clearBuffer
<1>7. CASE fetchPacket \/ syncBufferForCpu \/ ReadTail \/ ReadUnit \/ ReadControl
  <2>1. /\ pc # "construct" /\ pc' \notin {"construct", "trigger"}
        /\ UNCHANGED <<control, transfer, block, finished, captured, m_last_transfer_count>>
    BY <1>7 DEF fetchPacket, syncBufferForCpu, ReadTail, ReadUnit, ReadControl, core
  <2>2. QED
    BY <2>1
<1>8. CASE Crash
  <2>1. /\ pc = "read" /\ pc' = "none"
        /\ UNCHANGED <<control, transfer, block, finished, captured, m_last_transfer_count>>
    BY <1>8 DEF Crash, Unwritable, core
  <2>2. QED
    BY <2>1
<1>9. QED
  BY <1>1, <1>2, <1>3, <1>4, <1>5, <1>6, <1>7, <1>8, StepOfCapture DEF CaptureStep

(* isCaptureInProgress says of a running transfer that it is done only     *)
(* when all of it has been moved: the count it recorded before the capture *)
(* is the one it finds as long as the core has not come to the end.        *)
THEOREM DoneMeansMovedAlways == Spec => DoneMeansMoved
<1>1. Init => CountTells
  BY DEF Init, CaptureInit, CountTells, Running
<1>2. CountTells /\ [Next]_vars =>
        [(answer' = "done" /\ answer # "done" /\ control = "trigger" /\ transfer > 0)
           => captured >= transfer]_captureVars
  <2> SUFFICES ASSUME CountTells, [Next]_vars,
                      answer' = "done", answer # "done", control = "trigger", transfer > 0
               PROVE  captured >= transfer
    OBVIOUS
  <2>1. isCaptureInProgress
    <3>1. ~UNCHANGED captureVars
      BY DEF captureVars, driver
    <3>2. ~(FindCore \/ Construct \/ MoveBurst \/ Trigger \/ ReadTail \/ ReadUnit \/ syncBufferForCpu)
      BY DEF FindCore, Construct, MoveBurst, Trigger, ReadTail, ReadUnit, syncBufferForCpu, driver
    <3>3. ~(fetchPacket \/ stopCapture \/ clearBuffer \/ ReadControl \/ Destruct \/ Crash)
      BY DEF fetchPacket, stopCapture, clearBuffer, ReadControl, Destruct, Crash
    <3>4. ~\E size \in TransferSizes \cup {0} : startCapture(size)
      BY DEF startCapture
    <3>5. QED
      BY <3>1, <3>2, <3>3, <3>4, StepOfCapture, Zenon DEF CaptureStep
  <2>2. pc = "idle" /\ finished # m_last_transfer_count
    BY <2>1 DEF isCaptureInProgress
  <2>3. QED
    BY <2>2 DEF CountTells, Running
<1>3. QED
  BY <1>1, <1>2, CountTellsStep, PTL DEF Spec, DoneMeansMoved

=============================================================================
