-------------------------------- MODULE Uio --------------------------------
(***************************************************************************)
(* A userspace device and the program that uses it: UioDevice finds and    *)
(* opens it, then the program works on its registers (MappedFile) or       *)
(* captures (AxiDataCapture), and closes it.  The program is               *)
(* apps/uio/uio_main.cpp with its commands, or one that uses the classes   *)
(* in its own way.                                                         *)
(***************************************************************************)
EXTENDS UioDevice, AxiDataCapture, MappedFile

CONSTANT Names  \* names a program asks for

ASSUME NamesAssumption == NoName \notin Names

VARIABLES
  command,   \* what the program does with the device
  progress   \* "uio_capture" and "fill": what it does next

programVars == <<command, progress>>
vars == <<deviceVars, captureVars, mapVars, programVars>>

Init ==
  /\ UioInit /\ CaptureInit /\ MapInit
  /\ command = "none" /\ progress = 0

-----------------------------------------------------------------------------
(* The device is opened while other devices come and go. *)
Opening ==
  /\ \/ \E i \in Indices : OpenIndex(i)
     \/ \E n \in Names : OpenName(n)
     \/ Open
     \/ \E i \in Indices, d \in Devices \cup {Nothing} : Change(i, d)
  /\ UNCHANGED <<captureVars, mapVars, programVars>>

(* What the system looked like is not looked at again. *)
Forget ==
  /\ sysfs' = [i \in Indices |-> Nothing] /\ changes' = 0 /\ steady' = FALSE
  /\ asked' = NoName /\ index' = 0 /\ name' = NoName /\ plugged' = FALSE
  /\ UNCHANGED <<u_pc, file, maps, ipCoreConfiguration, unread, held>>

Chooses(c, first) ==
  /\ u_pc = "ready" /\ command = "none"
  /\ command' = c /\ progress' = first
  /\ Forget

(* The command line of uio: the commands that need a map throw when there  *)
(* is none.                                                                *)
uio_capture == Chooses("uio_capture", "stop") /\ UNCHANGED <<captureVars, mapVars>>

uio_fill(map_index) ==
  /\ Chooses(IF getRequiredMap(map_index) THEN "fill" ELSE "over", 0)
  /\ UNCHANGED <<captureVars, mapVars>>

(* uio_dump writes the map to a file and changes nothing. *)
uio_dump == Chooses("over", 0) /\ UNCHANGED <<captureVars, mapVars>>

(* Other programs: one that captures in its own way, with a device that is *)
(* still there ...                                                         *)
Capture == plugged /\ Chooses("capture", 0) /\ UNCHANGED <<captureVars, mapVars>>

(* ... and one that works on the registers of a device that is not the     *)
(* capture core.                                                           *)
UseRegisters ==
  /\ Chooses("registers", 0)
  /\ getRequiredMap(0) /\ file.config = {}
  /\ volatile' \in SUBSET Registers
  /\ UNCHANGED <<captureVars, registers, shadow_data, shadow_read_mask, masked, filled, outside>>

-----------------------------------------------------------------------------
RequiredKeys == {"channels", "cdata-width", "sample-rate"}

(* The initialisers of AxiDataCapture do not throw. *)
CanConstruct ==
  /\ getRequiredMap(0) /\ getRequiredMap(1)
  /\ \A key \in RequiredKeys : getConfigurationUInt32(key)

Capturing == command \in {"capture", "uio_capture"}

(* The constructor: its initialisers ... *)
Initialise ==
  /\ Capturing /\ pc = "none"
  /\ IF CanConstruct
     THEN /\ FindCore
          /\ coherent' = (\A p \in file.config : p.key # "sync-name")
          /\ syncs' = (command = "capture" /\ isNonCoherent)
          /\ UNCHANGED programVars
     ELSE /\ command' = "over" /\ progress' = 0
          /\ UNCHANGED captureVars
  /\ UNCHANGED <<deviceVars, mapVars>>

Rest == UNCHANGED <<deviceVars, mapVars>>

(* ... and its body. *)
Constructing == Construct /\ Rest /\ UNCHANGED programVars

(* The core. *)
Core == MoveBurst /\ Rest /\ UNCHANGED programVars

(* A program makes any call ... *)
AnyCall ==
  /\ command = "capture"
  /\ Call \/ syncBufferForCpu
  /\ Rest /\ UNCHANGED programVars

(* ... uio capture makes them in this order, fetching packets until the    *)
(* time is over; the file they go to was opened before, or was not.        *)
CaptureLoop ==
  /\ command = "uio_capture"
  /\ \/ progress = "stop"  /\ stopCapture     /\ progress' = "clear"
     \/ progress = "clear" /\ clearBuffer     /\ progress' = "start"
     \/ progress = "start" /\ startCapture(0) /\ progress' \in {"loop", "no_file"}
     \/ progress \in {"loop", "no_file"} /\ fetchPacket /\ UNCHANGED progress
     \/ progress \in {"loop", "no_file"} /\ stopCapture /\ progress' = "end"
  /\ Rest /\ UNCHANGED command

(* Nobody looks whether the file could be opened: the first packet is      *)
(* written to a null pointer.  The core is not stopped.                    *)
Unwritable == command = "uio_capture" /\ progress = "no_file" /\ pc = "read"

Crash ==
  /\ Unwritable
  /\ command' = "crashed" /\ progress' = 0
  /\ u_pc' = "crashed" /\ held' = {} /\ file' = Nothing /\ plugged' = FALSE /\ maps' = <<>>
  /\ ipCoreConfiguration' = {} /\ unread' = {} /\ UNCHANGED <<system, steady, asked, index, name>>
  /\ pc' = "none" /\ cached' = Nowhere /\ packet' = <<>> /\ answer' = "none"
  /\ UNCHANGED <<core, given, m_offset_tail, m_last_transfer_count, from, history, mapVars>>

InCall ==
  /\ Within /\ ~Unwritable
  /\ Rest /\ UNCHANGED programVars

(* The AxiDataCapture goes out of scope, at the end or when writing a      *)
(* packet to the file failed.                                              *)
EndCapture ==
  /\ Capturing
  /\ command = "uio_capture" => progress = "end" \/ (progress = "loop" /\ pc = "read")
  /\ Destruct
  /\ command' = "over" /\ progress' = 0
  /\ Rest

-----------------------------------------------------------------------------
(* A program on the registers of map 0. *)
OnRegisters ==
  /\ command = "registers"
  /\ \/ Access
     \/ \E readMask \in SUBSET (Registers \cap 0 .. MaskWidth - 1) : createShadow(readMask)
     \/ \E i \in Registers, word \in Word : DeviceSets(i, word)
  /\ UNCHANGED <<deviceVars, captureVars, programVars>>

(* The loop of uio_fill. *)
FillWord(value) ==
  /\ command = "fill"
  /\ write32(progress, value)
  /\ IF progress + 1 < Words
     THEN progress' = progress + 1 /\ UNCHANGED command
     ELSE progress' = 0 /\ command' = "over"
  /\ UNCHANGED <<deviceVars, captureVars>>

(* The program ends: the device is destroyed last. *)
CloseDevice ==
  /\ command = "over" \/ (command = "registers" /\ masked = NoCall)
  /\ Close
  /\ command' = "over"
  /\ UNCHANGED <<captureVars, mapVars, progress>>

Next ==
  \/ Opening
  \/ uio_capture \/ (\E map_index \in {0, 1} : uio_fill(map_index)) \/ uio_dump
  \/ Capture \/ UseRegisters
  \/ Initialise \/ Constructing \/ Core \/ AnyCall \/ CaptureLoop \/ Crash \/ InCall \/ EndCapture
  \/ OnRegisters \/ (\E value \in Word : FillWord(value))
  \/ CloseDevice

Spec == Init /\ [][Next]_vars

(* The core and the driver's functions go on; a program that captures      *)
(* keeps calling fetchPacket while it streams, and isCaptureInProgress,    *)
(* and drops the cache, whatever else it calls in between.                 *)
Again(call) == call /\ Rest /\ UNCHANGED programVars

FairSpec ==
  /\ Spec
  /\ WF_vars(Core)
  /\ WF_vars(InCall)
  /\ SF_vars(Again(fetchPacket))
  /\ SF_vars(Again(syncBufferForCpu))
  /\ SF_vars(Again(isCaptureInProgress))

-----------------------------------------------------------------------------
(* The configuration of a device that has a node with its address. *)
Configuration(d) == IF d.unit = d.addr THEN d.config ELSE {}

(* A device that was opened is one device: all its maps are those of the   *)
(* device behind its descriptor, whatever was plugged in between; and if   *)
(* that is still there, so is the configuration, although it was looked up *)
(* by an address and read file by file.  When nothing has changed, it is   *)
(* the device that was asked for, the first of that name, with its own     *)
(* name; and none is said to exist only when none comes before the first   *)
(* free index.                                                             *)
OneDevice ==
  /\ u_pc = "ready" =>
       /\ \A k \in DOMAIN maps : maps[k] = file
       /\ held \ {SyncFile} = {UioFile} \cup {Map(k) : k \in 1 .. file.maps}
       /\ plugged => ipCoreConfiguration = Configuration(file)
  /\ (u_pc = "ready" /\ steady) =>
       /\ plugged /\ sysfs[index] = file /\ name = file.name
       /\ asked # NoName => name = asked /\ \A i \in 0 .. index - 1 : sysfs[i].name # asked
  /\ (u_pc = "not_found" /\ steady) =>
       \A i \in Indices : sysfs[i].name = asked => \E k \in 0 .. i - 1 : ~Present(k)

(* A program that has no device, because opening it failed or it was       *)
(* closed, holds nothing open; and, unless it crashed, a core it took over *)
(* does not write into the buffer any more.                                *)
LeavesNothing ==
  file = Nothing =>
    /\ held = {}
    /\ command = "crashed" \/ control # "trigger"

=============================================================================
