----------------------------- MODULE UioDevice -----------------------------
(***************************************************************************)
(* smart/UioDevice.cpp: finding a userspace device in /sys/class/uio,      *)
(* opening and mapping it, and its configuration from the device tree.     *)
(*                                                                         *)
(* Every access to the system is a step: a device may be unplugged, or     *)
(* another take its index (an overlay that is loaded anew), between any    *)
(* two of them.  A descriptor stays with the device it was opened for, and *)
(* that device can be mapped as long as it was not unplugged.              *)
(***************************************************************************)
EXTENDS Integers, Sequences, FiniteSets

CONSTANTS
  MaxIndex,    \* bound: indices a device may have
  Devices,     \* records [name, addr, unit, maps, config]: see DeviceAssumption
  MaxChanges   \* bound: devices plugged or unplugged

(* What a device's node is found by has eight digits; a device has no such *)
(* unit address when it has no node in the three directories that are      *)
(* searched, or its address is less than that.                             *)
NoUnit == 0

(* addr is the address of the first of the memory maps, which are `maps'   *)
(* in number, and unit the one that the name of the device's node ends     *)
(* with.  config has the node's properties: the file's name, which may     *)
(* have a vendor and a comma before the key, its size in bytes, and, for   *)
(* sync-name, whether the file that it names can be opened.                *)
ASSUME DeviceAssumption ==
  /\ MaxIndex \in Nat /\ MaxChanges \in Nat
  /\ \A d \in Devices :
       /\ d.maps \in Nat /\ d.addr \in Nat \ {NoUnit} /\ d.unit \in {d.addr, NoUnit}
       /\ \A p \in d.config : p.vendor \in BOOLEAN /\ p.bytes \in Nat /\ p.opens \in BOOLEAN
       /\ \A p, q \in d.config : p.key = q.key /\ p.vendor = q.vendor => p = q

(* The name of nothing; a device that is asked for by its index is asked   *)
(* for by no name.                                                         *)
NoName == ""

Nothing == [name |-> NoName, addr |-> NoUnit, unit |-> NoUnit, maps |-> 0, config |-> {}]

VARIABLES
  sysfs,       \* what is plugged in, by index
  changes,
  steady,      \* history: has nothing changed since the call began?
  asked,       \* the name that was asked for, NoName when it is an index
  u_pc,        \* the next step of the constructor
  index, name, \* the members of these names
  file,        \* the device behind _file
  plugged,     \* is that device still there?
  maps,        \* for every member of maps, the device it was read from
  ipCoreConfiguration,  \* the properties that were read
  unread,      \* the files of the node that are still to be read
  held         \* what the process holds open

system == <<sysfs, changes>>
object == <<index, name, file, maps, ipCoreConfiguration, unread, held>>
deviceVars == <<system, steady, asked, u_pc, plugged, object>>

Indices == 0 .. MaxIndex

UioFile == <<"uio", 0>>

SyncFile == <<"sync", 0>>

Map(k) == <<"map", k>>

Present(i) == i \in Indices /\ sysfs[i] # Nothing

(* The registers at an address belong to one device at a time. *)
Apart(devices) ==
  \A i, j \in Indices :
    i # j /\ devices[i] # Nothing /\ devices[j] # Nothing => devices[i].addr # devices[j].addr

UioInit ==
  /\ sysfs \in [Indices -> Devices \cup {Nothing}] /\ Apart(sysfs)
  /\ changes = 0 /\ steady = TRUE
  /\ asked = NoName /\ u_pc = "start"
  /\ index = 0 /\ name = NoName /\ file = Nothing /\ plugged = FALSE
  /\ maps = <<>> /\ ipCoreConfiguration = {} /\ unread = {}
  /\ held = {}

-----------------------------------------------------------------------------
(* A device is unplugged, or plugged in at an index that is free. *)
Change(i, d) ==
  /\ u_pc \notin {"start", "ready", "thrown", "not_found"}
  /\ changes < MaxChanges
  /\ (sysfs[i] = Nothing) # (d = Nothing)
  /\ changes' = changes + 1
  /\ sysfs' = [sysfs EXCEPT ![i] = d] /\ Apart(sysfs')
  /\ steady' = FALSE
  /\ plugged' = (plugged /\ ~(i = index /\ d = Nothing))
  /\ UNCHANGED <<asked, u_pc, object>>

-----------------------------------------------------------------------------
Step == UNCHANGED <<system, steady, asked>>

(* The destructor of File releases the maps and the descriptor; nothing    *)
(* releases _syncFd when a constructor throws.                             *)
Throw(reason) ==
  /\ u_pc' = reason
  /\ held' = held \cap {SyncFile}
  /\ file' = Nothing /\ plugged' = FALSE /\ maps' = <<>>
  /\ name' = NoName /\ index' = 0 /\ ipCoreConfiguration' = {} /\ unread' = {}

(* UioDevice(index), and UioDevice(name) for a name that is an index, uioN *)
(* or /dev/uioN.                                                           *)
OpenIndex(i) ==
  /\ u_pc = "start"
  /\ asked' = NoName /\ index' = i
  /\ u_pc' = "read_name"
  /\ UNCHANGED <<system, steady, plugged, name, file, maps, ipCoreConfiguration, unread, held>>

(* UioDevice(name): the scan begins. *)
OpenName(n) ==
  /\ u_pc = "start"
  /\ asked' = n /\ index' = 0
  /\ u_pc' = "probe"
  /\ UNCHANGED <<system, steady, plugged, name, file, maps, ipCoreConfiguration, unread, held>>

(* isDevicePresent ends the scan at the first index that is free. *)
isDevicePresent ==
  /\ u_pc = "probe" /\ Step
  /\ IF Present(index)
     THEN u_pc' = "read_name" /\ UNCHANGED <<plugged, object>>
     ELSE Throw("not_found")

(* Is this the device that was asked for? *)
IsWanted(n) == asked = NoName \/ n = asked

(* The name of the device with this index is read and compared. *)
ReadName ==
  /\ u_pc = "read_name" /\ Step
  /\ IF ~Present(index) THEN Throw("thrown")
     ELSE IF IsWanted(sysfs[index].name)
     THEN /\ name' = sysfs[index].name
          /\ u_pc' = "open"
          /\ UNCHANGED <<index, plugged, file, maps, ipCoreConfiguration, unread, held>>
     ELSE /\ index' = index + 1
          /\ u_pc' = "probe"
          /\ UNCHANGED <<name, plugged, file, maps, ipCoreConfiguration, unread, held>>

(* Faulty: the sync device is opened along with the device. *)
OpenFileAndSync ==
  /\ u_pc = "open" /\ Step
  /\ IF Present(index)
     THEN /\ file' = sysfs[index] /\ plugged' = TRUE
          /\ held' = {UioFile} \cup (IF \E p \in sysfs[index].config : p.opens THEN {SyncFile} ELSE {})
          /\ u_pc' = "list_maps"
          /\ UNCHANGED <<index, name, maps, ipCoreConfiguration, unread>>
     ELSE Throw("thrown")

(* /dev/uioN is opened. *)
OpenFile ==
  /\ u_pc = "open" /\ Step
  /\ IF Present(index)
     THEN /\ file' = sysfs[index] /\ plugged' = TRUE
          /\ held' = {UioFile}
          /\ u_pc' = "list_maps"
          /\ UNCHANGED <<index, name, maps, ipCoreConfiguration, unread>>
     ELSE Throw("thrown")

(* The directory of the maps is listed and the version read.  A device     *)
(* without maps has no such directory.                                     *)
ListMaps ==
  /\ u_pc = "list_maps" /\ Step
  /\ IF Present(index) /\ sysfs[index].maps > 0
     THEN u_pc' = "read_map" /\ UNCHANGED <<plugged, object>>
     ELSE Throw("thrown")

(* Faulty: what mmap answers is not looked at. *)
MappableAlways(k) == Present(index)

(* map k can be read, and mapped through the descriptor. *)
Mappable(k) == Present(index) /\ k <= sysfs[index].maps /\ plugged

(* One map is read and mapped; the list was made earlier, but mapping      *)
(* fails when the device has changed since.                                *)
ReadMap ==
  /\ u_pc = "read_map" /\ Step
  /\ LET k == Len(maps) + 1
     IN  IF Mappable(k)
         THEN /\ maps' = Append(maps, sysfs[index])
              /\ held' = held \cup {Map(k)}
              /\ u_pc' = IF k = file.maps THEN "config" ELSE "read_map"
              /\ UNCHANGED <<index, name, plugged, file, ipCoreConfiguration, unread>>
         ELSE Throw("thrown")

-----------------------------------------------------------------------------
(* getIpCoreConfiguration *)

(* The node whose name ends with the address of the first map, of whatever *)
(* device it is.                                                           *)
Node == {sysfs[i] : i \in {j \in Indices : sysfs[j].unit = maps[1].addr}}

(* The name of a property's file. *)
FileName(p) == <<p.key, p.vendor>>

(* The directories are searched for the node; there may be none. *)
FindNode ==
  /\ u_pc = "config" /\ Step
  /\ u_pc' = IF Node = {} THEN "open_sync" ELSE "list_node"
  /\ UNCHANGED <<plugged, object>>

(* Its files are listed, if it is still there. *)
ListNode ==
  /\ u_pc = "list_node" /\ Step
  /\ IF Node = {} THEN Throw("thrown")
     ELSE /\ unread' = {FileName(p) : p \in UNION {d.config : d \in Node}}
          /\ u_pc' = IF unread' = {} THEN "open_sync" ELSE "read_node"
          /\ UNCHANGED <<index, name, plugged, file, maps, ipCoreConfiguration, held>>

(* A property is there from now on. *)
Inserted(f, properties) ==
  /\ ipCoreConfiguration' = ipCoreConfiguration \cup properties
  /\ unread' = unread \ {f}
  /\ u_pc' = IF unread' = {} THEN "open_sync" ELSE "read_node"
  /\ UNCHANGED <<index, name, plugged, file, maps, held>>

(* The next of them is read from whatever has that address by then; one    *)
(* that was opened before its device went away reads as nothing.           *)
ReadProperty ==
  /\ u_pc = "read_node" /\ Step
  /\ \E f \in unread :
       LET read == {p \in UNION {d.config : d \in Node} : FileName(p) = f}
       IN  \/ read = {} /\ Throw("thrown")
           \/ read # {} /\ Inserted(f, read)
           \/ ~plugged /\ Inserted(f, {[key |-> f[1], vendor |-> f[2], bytes |-> 0, opens |-> FALSE]})

(* The property of this name, or else one of this name after a comma. *)
_find_config(key) ==
  LET named == {p \in ipCoreConfiguration : p.key = key}
      exact == {p \in named : ~p.vendor}
  IN  IF exact # {} THEN exact ELSE named

(* The file that sync-name names is opened; nothing can fail after it. *)
OpenSync ==
  /\ u_pc = "open_sync" /\ Step
  /\ held' = IF \E p \in _find_config("sync-name") : p.opens THEN held \cup {SyncFile} ELSE held
  /\ u_pc' = "ready"
  /\ UNCHANGED <<index, name, plugged, file, maps, ipCoreConfiguration, unread>>

(* isNonCoherent. *)
isNonCoherent == SyncFile \in held

(* getRequiredMap throws when there is no such map. *)
getRequiredMap(k) == k + 1 \in DOMAIN maps

(* getConfigurationUInt32 throws when there is no such property or it is   *)
(* shorter than four bytes.                                                *)
getConfigurationUInt32(key) == \E p \in _find_config(key) : p.bytes >= 4

(* ~UioDevice and, with it, ~File. *)
Close ==
  /\ u_pc = "ready"
  /\ u_pc' = "closed"
  /\ held' = {}
  /\ file' = Nothing /\ plugged' = FALSE /\ maps' = <<>>
  /\ name' = NoName /\ index' = 0 /\ ipCoreConfiguration' = {} /\ unread' = {}
  /\ UNCHANGED <<system, steady, asked>>

Open ==
  \/ isDevicePresent \/ ReadName \/ OpenFile \/ ListMaps \/ ReadMap
  \/ FindNode \/ ListNode \/ ReadProperty \/ OpenSync
=============================================================================
