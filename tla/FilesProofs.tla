----------------------------- MODULE FilesProofs ----------------------------
(***************************************************************************)
(* Theorems about Files, for any number of threads, any calls on any tree  *)
(* of files, and any number of system calls that fail.                     *)
(***************************************************************************)
EXTENDS Files, WellFoundedInduction, TLAPS

(* Where a thread is in each call.                                         *)
CopySteps == {"open_to", "read", "write"}

WriteSteps == {"fwrite", "fclose"}

ReadSteps == {"fopen", "fread"}

FileSteps == CopySteps \cup WriteSteps \cup ReadSteps

CreateSteps == {"read_umask", "reset_umask", "component", "mkdir", "restore_umask", "throw"}

VerifySteps == {"component", "make_part", "empty"}

Outside == {"start", "returned", "thrown"}

Steps == FileSteps \cup CreateSteps \cup VerifySteps \cup Outside

(* What a thread calls.                                                    *)
Op(t) == call[t].op

(* Every thread is somewhere in its call.                                  *)
Placed ==
  /\ pc \in [Threads -> Steps]
  /\ \A t \in Threads :
       /\ pc[t] \in CopySteps => Op(t) = "copyFile"
       /\ pc[t] \in WriteSteps => Op(t) = "writeAllBytes"
       /\ pc[t] \in ReadSteps => Reads(t)
       /\ pc[t] \in CreateSteps \ VerifySteps => Op(t) = "create"
       /\ pc[t] \in VerifySteps \ CreateSteps => Op(t) = "verifyAndCreate"
       /\ pc[t] = "component" => Creates(t)

(* A step of a call on a file, as far as directories are concerned.        *)
FileCall(t) ==
  /\ UNCHANGED <<directoryVars, call>>
  /\ ~Creates(t)
  /\ \E next \in FileSteps \cup {"returned", "thrown"} :
       /\ GoTo(t, next)
       /\ next \in CopySteps => Op(t) = "copyFile"
       /\ next \in WriteSteps => Op(t) = "writeAllBytes"
       /\ next \in ReadSteps => Reads(t)

LEMMA FileCallSteps ==
  ASSUME Placed, NEW t \in Threads, UNCHANGED directoryVars,
         \/ copyFile(t) \/ writeAllBytes(t) \/ readAllBytes(t) \/ deleteFile(t) \/ renameFile(t)
  PROVE  FileCall(t)
<1> USE DEF Placed, FileCall, FileSteps, CopySteps, WriteSteps, ReadSteps, Creates, Op
<1>1. CASE CopyFrom(t) \/ CopyTo(t)
  BY <1>1 DEF CopyFrom, CopyTo, system
<1>2. CASE CopyRead(t)
  BY <1>2 DEF CopyRead
<1>3. CASE CopyWrite(t)
  BY <1>3 DEF CopyWrite
<1>4. CASE WriteOpen(t)
  BY <1>4 DEF WriteOpen
<1>5. CASE WriteStream(t)
  BY <1>5 DEF WriteStream
<1>6. CASE WriteClose(t)
  BY <1>6 DEF WriteClose
<1>7. CASE ReadSize(t) \/ ReadOpen(t)
  BY <1>7 DEF ReadSize, ReadOpen, Reads, system
<1>8. CASE ReadUnits(t)
  BY <1>8 DEF ReadUnits, Reads, system
<1>9. CASE deleteFile(t) \/ renameFile(t)
  BY <1>9 DEF deleteFile, renameFile
<1>10. QED
  BY <1>1, <1>2, <1>3, <1>4, <1>5, <1>6, <1>7, <1>8, <1>9
     DEF copyFile, writeAllBytes, readAllBytes

(* A step of a call on directories.                                        *)
DirectoryCall(t) == create(t) \/ verifyAndCreate(t)

LEMMA DirectoryCallSteps ==
  ASSUME Placed, NEW t \in Threads, DirectoryCall(t)
  PROVE  /\ UNCHANGED call
         /\ \/ Op(t) = "create" /\ \E next \in CreateSteps \cup {"returned", "thrown"} : GoTo(t, next)
            \/ Op(t) = "verifyAndCreate" /\ \E next \in VerifySteps \cup {"returned"} : GoTo(t, next)
<1> USE DEF Placed, Op, CreateSteps, VerifySteps
<1>1. CASE Look(t) \/ ReadUmask(t) \/ ResetUmask(t) \/ RestoreUmask(t)
  BY <1>1 DEF Look, ReadUmask, ResetUmask, RestoreUmask, system
<1>2. CASE Component(t) \/ MakeComponent(t)
  BY <1>2 DEF Component, MakeComponent, Advance, system
<1>3. CASE verifyAndCreate(t)
  BY <1>3 DEF verifyAndCreate, Verify, VerifyPart, MakePart, Advance, system
<1>4. QED
  BY <1>1, <1>2, <1>3 DEF DirectoryCall, create

LEMMA StepOfThread ==
  ASSUME Placed, [Next]_vars
  PROVE  \/ \E t \in Threads : DirectoryCall(t) /\ UNCHANGED fileVars
         \/ \E t \in Threads : FileCall(t)
         \/ UNCHANGED <<links, data, faults, call, pc, disturbed, blocked, directoryVars, fileVars>>
<1>1. CASE UNCHANGED vars
  BY <1>1 DEF vars, system
<1>2. CASE Next
  BY <1>2, FileCallSteps DEF Next, DirectoryCall
<1>3. QED
  BY <1>1, <1>2

LEMMA PlacedStep == Placed /\ [Next]_vars => Placed'
<1> SUFFICES ASSUME Placed, [Next]_vars
             PROVE  Placed'
  OBVIOUS
<1> USE DEF Steps, FileSteps, CopySteps, WriteSteps, ReadSteps, CreateSteps, VerifySteps, Creates,
            Reads, Op, GoTo
<1>1. ASSUME NEW t \in Threads, FileCall(t)
      PROVE  Placed'
  <2>1. PICK next \in FileSteps \cup {"returned", "thrown"} :
          /\ GoTo(t, next)
          /\ next \in CopySteps => Op(t) = "copyFile"
          /\ next \in WriteSteps => Op(t) = "writeAllBytes"
          /\ next \in ReadSteps => Reads(t)
    BY <1>1 DEF FileCall
  <2>2. UNCHANGED call
    BY <1>1 DEF FileCall
  <2>3. pc' \in [Threads -> Steps]
    <3>1. next \in Steps
      BY <2>1 DEF Outside
    <3>2. pc \in [Threads -> Steps] /\ pc' = [pc EXCEPT ![t] = next]
      BY <2>1 DEF Placed
    <3> HIDE DEF Steps
    <3>3. QED
      BY <3>1, <3>2
  <2>4. \A u \in Threads : pc'[u] = IF u = t THEN next ELSE pc[u]
    BY <2>1 DEF Placed
  <2>5. QED
    BY <2>1, <2>2, <2>3, <2>4 DEF Placed
<1>2. ASSUME NEW t \in Threads, DirectoryCall(t)
      PROVE  Placed'
  BY <1>2, DirectoryCallSteps DEF Placed, Outside
<1>3. QED
  BY <1>1, <1>2, StepOfThread DEF Placed

LEMMA PlacedInit == Init => Placed
BY DEF Init, SystemInit, Placed, Steps, FileSteps, CopySteps, WriteSteps, ReadSteps, CreateSteps,
       VerifySteps, Outside

-----------------------------------------------------------------------------
(* The umask.                                                              *)

(* A thread in make_path, between its two changes of the umask or later.   *)
KnowsMask(t) ==
  \/ pc[t] \in {"reset_umask", "mkdir", "restore_umask", "throw"}
  \/ pc[t] = "component" /\ call[t].op = "create"

UmaskTypes == umask \in [Threads -> Nat] /\ mask \in [Threads -> Nat]

(* As long as no two threads of a process have met in read_umask, each has *)
(* the umask of the user to restore, and at most one has it set to 0.      *)
MaskIsKnown ==
  \A t \in Threads : Process(t) \notin crossed =>
    /\ KnowsMask(t) => mask[t] = Mask
    /\ pc[t] = "reset_umask" =>
         \A u \in Threads : Process(u) = Process(t) /\ pc[u] = "reset_umask" => u = t

UmaskInvariant == UmaskTypes /\ MaskIsKnown /\ UmaskKept

LEMMA ProcessOfThread ==
  ASSUME NEW t \in Threads
  PROVE  Process(t) \in Threads
BY DEF Process

(* A step that changes no umask, of a thread that had not just cleared it. *)
LEMMA UmaskUntouched ==
  ASSUME Placed, UmaskInvariant, NEW t \in Threads,
         UNCHANGED <<together, umask, mask, crossed, call>>,
         pc[t] # "reset_umask", NEW next, GoTo(t, next), next # "reset_umask",
         KnowsMask(t)' => KnowsMask(t)
  PROVE  UmaskInvariant'
<1>1. \A u \in Threads : Process(u)' = Process(u) /\ (u # t => pc'[u] = pc[u]) /\ pc'[t] = next
  BY DEF Process, Placed, GoTo
<1>2. \A u \in Threads : KnowsMask(u)' => KnowsMask(u)
  BY <1>1 DEF KnowsMask
<1>3. \A u \in Threads : pc'[u] = "reset_umask" <=> pc[u] = "reset_umask"
  BY <1>1
<1>4. MaskIsKnown'
  BY <1>1, <1>2, <1>3 DEF UmaskInvariant, MaskIsKnown
<1>5. UmaskKept'
  BY <1>1, <1>3 DEF UmaskInvariant, UmaskKept
<1>6. QED
  BY <1>4, <1>5 DEF UmaskInvariant, UmaskTypes

LEMMA ReadUmaskKeeps ==
  ASSUME Placed, UmaskInvariant, NEW t \in Threads, ReadUmask(t)
  PROVE  UmaskInvariant'
<1> DEFINE P == Process(t)
<1>1. /\ pc[t] = "read_umask" /\ pc'[t] = "reset_umask" /\ \A u \in Threads : u # t => pc'[u] = pc[u]
      /\ mask' = [mask EXCEPT ![t] = umask[P]] /\ umask' = [umask EXCEPT ![P] = 0]
      /\ UNCHANGED <<call, together>>
      /\ P \in Threads
  BY ProcessOfThread DEF ReadUmask, Placed, GoTo, system
<1>2. \A u \in Threads : Process(u)' = Process(u)
  BY <1>1 DEF Process
<1>3. crossed \subseteq crossed'
  BY DEF ReadUmask
<1>4. P \notin crossed' =>
        /\ umask[P] = Mask
        /\ \A u \in Threads \ {t} : Process(u) = P => pc[u] # "reset_umask"
  <2>1. SUFFICES ASSUME P \notin crossed'
                 PROVE  /\ umask[P] = Mask
                        /\ \A u \in Threads \ {t} : Process(u) = P => pc[u] # "reset_umask"
    OBVIOUS
  <2>2. \A u \in Threads \ {t} : Process(u) = P => pc[u] # "reset_umask"
    BY <2>1 DEF ReadUmask
  <2>3. \A u \in Threads : Process(u) = P => pc[u] # "reset_umask"
    BY <1>1, <2>2
  <2>4. QED
    BY <1>3, <2>1, <2>2, <2>3 DEF UmaskInvariant, UmaskKept
<1>5. UmaskTypes'
  BY <1>1 DEF UmaskInvariant, UmaskTypes
<1>6. MaskIsKnown'
  <2>1. ASSUME NEW u \in Threads, Process(u) \notin crossed', KnowsMask(u)'
        PROVE  mask'[u] = Mask
    <3>1. CASE u = t
      BY <1>1, <1>4, <2>1, <3>1 DEF UmaskInvariant, UmaskTypes
    <3>2. CASE u # t
      <4>1. KnowsMask(u)
        BY <1>1, <2>1, <3>2 DEF KnowsMask
      <4>2. mask'[u] = mask[u]
        BY <1>1, <3>2 DEF UmaskInvariant, UmaskTypes
      <4>3. QED
        BY <1>3, <2>1, <4>1, <4>2 DEF UmaskInvariant, MaskIsKnown
    <3>3. QED
      BY <3>1, <3>2
  <2>2. ASSUME NEW u \in Threads, NEW v \in Threads, Process(u) \notin crossed',
               Process(u) = Process(v), pc'[u] = "reset_umask", pc'[v] = "reset_umask"
        PROVE  u = v
    BY <1>1, <1>3, <1>4, <2>2 DEF UmaskInvariant, MaskIsKnown
  <2>3. QED
    BY <1>2, <2>1, <2>2 DEF MaskIsKnown
<1>7. UmaskKept'
  <2>1. ASSUME NEW u \in Threads
        PROVE  \/ umask'[Process(u)] = Mask \/ Process(u) \in crossed'
               \/ \E v \in Threads : Process(v) = Process(u) /\ pc'[v] = "reset_umask"
    <3>1. CASE Process(u) = P
      BY <1>1, <3>1
    <3>2. CASE Process(u) # P
      <4>1. Process(u) \in Threads
        BY ProcessOfThread
      <4>2. umask'[Process(u)] = umask[Process(u)]
        BY <1>1, <3>2, <4>1 DEF UmaskInvariant, UmaskTypes
      <4>3. \/ umask[Process(u)] = Mask \/ Process(u) \in crossed
            \/ \E v \in Threads : Process(v) = Process(u) /\ pc[v] = "reset_umask"
        BY DEF UmaskInvariant, UmaskKept
      <4>4. QED
        BY <1>1, <1>3, <4>2, <4>3
    <3>3. QED
      BY <3>1, <3>2
  <2>2. QED
    BY <1>2, <2>1 DEF UmaskKept
<1>8. QED
  BY <1>5, <1>6, <1>7 DEF UmaskInvariant

(* Setting the umask to what the thread took it to be.                     *)
LEMMA UmaskSet ==
  ASSUME Placed, UmaskInvariant, NEW t \in Threads, KnowsMask(t),
         umask' = [umask EXCEPT ![Process(t)] = mask[t]],
         UNCHANGED <<together, mask, crossed, call>>,
         NEW next, GoTo(t, next), next # "reset_umask"
  PROVE  UmaskInvariant'
<1>1. /\ \A u \in Threads : Process(u)' = Process(u) /\ (u # t => pc'[u] = pc[u]) /\ pc'[t] = next
      /\ Process(t) \in Threads
  BY ProcessOfThread DEF Process, Placed, GoTo
<1>2. \A u \in Threads : KnowsMask(u)' => KnowsMask(u)
  BY <1>1 DEF KnowsMask
<1>3. \A u \in Threads : pc'[u] = "reset_umask" => pc[u] = "reset_umask"
  BY <1>1
<1>4. MaskIsKnown'
  BY <1>1, <1>2, <1>3 DEF UmaskInvariant, MaskIsKnown
<1>5. UmaskKept'
  <2>1. ASSUME NEW u \in Threads
        PROVE  \/ umask'[Process(u)] = Mask \/ Process(u) \in crossed
               \/ \E v \in Threads : Process(v) = Process(u) /\ pc'[v] = "reset_umask"
    <3>1. CASE Process(u) = Process(t)
      BY <1>1, <3>1 DEF UmaskInvariant, UmaskTypes, MaskIsKnown
    <3>2. CASE Process(u) # Process(t)
      <4>1. umask'[Process(u)] = umask[Process(u)]
        BY <1>1, <3>2, ProcessOfThread DEF UmaskInvariant, UmaskTypes
      <4>2. \/ umask[Process(u)] = Mask \/ Process(u) \in crossed
            \/ \E v \in Threads : Process(v) = Process(u) /\ pc[v] = "reset_umask"
        BY DEF UmaskInvariant, UmaskKept
      <4>3. QED
        BY <1>1, <3>2, <4>1, <4>2
    <3>3. QED
      BY <3>1, <3>2
  <2>2. QED
    BY <1>1, <2>1 DEF UmaskKept
<1>6. UmaskTypes'
  BY <1>1 DEF UmaskInvariant, UmaskTypes
<1>7. QED
  BY <1>4, <1>5, <1>6 DEF UmaskInvariant

LEMMA UmaskStep == Placed /\ UmaskInvariant /\ [Next]_vars => UmaskInvariant'
<1> SUFFICES ASSUME Placed, UmaskInvariant, [Next]_vars
             PROVE  UmaskInvariant'
  OBVIOUS
<1> USE DEF FileSteps, CopySteps, WriteSteps, ReadSteps, CreateSteps, VerifySteps, Creates, Op
<1>1. ASSUME NEW t \in Threads, FileCall(t)
      PROVE  UmaskInvariant'
  <2>1. PICK next \in FileSteps \cup {"returned", "thrown"} : GoTo(t, next)
    BY <1>1 DEF FileCall
  <2>2. /\ pc[t] # "reset_umask" /\ next # "reset_umask"
        /\ UNCHANGED <<together, umask, mask, crossed, call>>
    BY <1>1 DEF FileCall, directoryVars, Placed
  <2>3. ~KnowsMask(t)'
    BY <2>1 DEF KnowsMask, GoTo, Placed
  <2>4. QED
    BY <2>1, <2>2, <2>3, UmaskUntouched
<1>2. ASSUME NEW t \in Threads, Look(t) \/ Component(t) \/ MakeComponent(t)
      PROVE  UmaskInvariant'
  <2>1. /\ UNCHANGED <<together, umask, mask, crossed, call>>
        /\ pc[t] # "reset_umask"
    BY <1>2 DEF Look, Component, MakeComponent, system, directoryVars
  <2>2. PICK next : GoTo(t, next) /\ next # "reset_umask" /\ (pc[t] = "start" => next \notin CreateSteps \ {"read_umask"})
    BY <1>2 DEF Look, Component, MakeComponent, Advance
  <2>3. KnowsMask(t)' => KnowsMask(t)
    BY <1>2, <2>1, <2>2 DEF Look, Component, MakeComponent, KnowsMask, GoTo, Placed
  <2>4. QED
    BY <2>1, <2>2, <2>3, UmaskUntouched
<1>3. ASSUME NEW t \in Threads, verifyAndCreate(t)
      PROVE  UmaskInvariant'
  <2>1. /\ UNCHANGED <<together, umask, mask, crossed, call>>
        /\ pc[t] # "reset_umask" /\ call[t].op = "verifyAndCreate"
    BY <1>3 DEF verifyAndCreate, Verify, VerifyPart, MakePart, system, directoryVars, Placed
  <2>2. PICK next \in VerifySteps \cup {"returned"} : GoTo(t, next)
    BY <1>3 DEF verifyAndCreate, Verify, VerifyPart, MakePart, Advance
  <2>3. next # "reset_umask" /\ ~KnowsMask(t)'
    BY <2>1, <2>2 DEF KnowsMask, GoTo, Placed
  <2>4. QED
    BY <2>1, <2>2, <2>3, UmaskUntouched
<1>4. ASSUME NEW t \in Threads, ReadUmask(t)
      PROVE  UmaskInvariant'
  BY <1>4, ReadUmaskKeeps
<1>5. ASSUME NEW t \in Threads, ResetUmask(t) \/ RestoreUmask(t)
      PROVE  UmaskInvariant'
  <2>1. /\ KnowsMask(t) /\ umask' = [umask EXCEPT ![Process(t)] = mask[t]]
        /\ UNCHANGED <<together, mask, crossed, call>>
    BY <1>5 DEF ResetUmask, RestoreUmask, KnowsMask, system
  <2>2. PICK next : GoTo(t, next) /\ next # "reset_umask"
    BY <1>5 DEF ResetUmask, RestoreUmask
  <2>3. QED
    BY <2>1, <2>2, UmaskSet
<1>6. CASE UNCHANGED <<links, data, faults, call, pc, disturbed, blocked, directoryVars, fileVars>>
  BY <1>6 DEF directoryVars, UmaskInvariant, UmaskTypes, MaskIsKnown, UmaskKept, KnowsMask, Process
<1>7. QED
  BY <1>1, <1>2, <1>3, <1>4, <1>5, <1>6, StepOfThread DEF DirectoryCall, create

(* Every process has its umask outside of read_umask, and for good         *)
(* afterwards, unless two of its threads were in read_umask at once.       *)
THEOREM UmaskKeptAlways == Spec => []UmaskKept
<1>1. Init => UmaskInvariant
  <2> SUFFICES ASSUME Init
               PROVE  UmaskInvariant
    OBVIOUS
  <2>1. UmaskTypes
    BY MaskAssumption DEF Init, DirectoryInit, UmaskTypes
  <2>2. \A t \in Threads : pc[t] = "start" /\ umask[t] = Mask
    BY DEF Init, SystemInit, DirectoryInit
  <2>3. MaskIsKnown
    BY <2>2 DEF MaskIsKnown, KnowsMask
  <2>4. UmaskKept
    BY <2>2, ProcessOfThread DEF UmaskKept
  <2>5. QED
    BY <2>1, <2>3, <2>4 DEF UmaskInvariant
<1>2. UmaskInvariant => UmaskKept
  BY DEF UmaskInvariant
<1>3. QED
  BY <1>1, <1>2, UmaskStep, PlacedInit, PlacedStep, PTL DEF Spec

-----------------------------------------------------------------------------
(* What has a path, and what the threads have open.                        *)
Kinds == {NoFile, Dir, LinkToDir}

StoreTypes ==
  /\ data \in Seq(Seq(Nat))
  /\ links \in [DOMAIN links -> Kinds \cup DOMAIN data]
  /\ \A t \in Threads : MadeOn(call[t], DOMAIN links)

StreamTypes ==
  /\ from \in [Threads -> {NoFile, Dir} \cup DOMAIN data]
  /\ dest \in [Threads -> {NoFile} \cup DOMAIN data]
  /\ offset \in [Threads -> Nat] /\ written \in [Threads -> Nat] /\ size \in [Threads -> Nat]
  /\ buffer \in [Threads -> Seq(Nat)] /\ got \in [Threads -> Seq(Nat)]
  /\ origin \in [Threads -> [file : {NoFile, Dir} \cup DOMAIN data, from : Seq(Nat), dest : Seq(Nat)]]

(* A thread that reads or writes has something open.                       *)
HasOpen ==
  \A t \in Threads :
    /\ pc[t] \in {"open_to", "read", "write", "fread"} => from[t] # NoFile
    /\ pc[t] \in {"read", "write", "fwrite", "fclose"} => dest[t] # NoFile

FileTypes == StoreTypes /\ StreamTypes /\ HasOpen

(* Numbers of files are not kinds of anything else.                        *)
LEMMA FileNumbers ==
  ASSUME data \in Seq(Seq(Nat))
  PROVE  /\ DOMAIN data = 1 .. Len(data) /\ Len(data) \in Nat
         /\ NoFile \notin DOMAIN data /\ Dir \notin DOMAIN data /\ LinkToDir \notin DOMAIN data
BY DEF NoFile, Dir, LinkToDir

LEMMA OpenedIs ==
  ASSUME StoreTypes, NEW p \in DOMAIN links, Exists(p)
  PROVE  Opened(p) \in {Dir} \cup DOMAIN data /\ Opened(p) # NoFile
BY FileNumbers DEF StoreTypes, Kinds, Exists, Opened, IsDir, NoFile, Dir

LEMMA TakeDrop ==
  ASSUME NEW s \in Seq(Nat), NEW n \in Nat
  PROVE  Drop(s, n) \in Seq(Nat) /\ (n <= Len(s) => Take(s, n) \in Seq(Nat) /\ Len(Take(s, n)) = n)
BY DEF Take, Drop

LEMMA OverlaidType ==
  ASSUME NEW old \in Seq(Nat), NEW n \in Nat, NEW units \in Seq(Nat)
  PROVE  Overlaid(old, n, units) \in Seq(Nat)
<1> DEFINE L == IF n + Len(units) > Len(old) THEN n + Len(units) ELSE Len(old)
<1>1. L \in Nat
  OBVIOUS
<1>2. ASSUME NEW i \in 1 .. L
      PROVE  (IF i \in n + 1 .. n + Len(units) THEN units[i - n]
              ELSE IF i <= Len(old) THEN old[i] ELSE 0) \in Nat
  OBVIOUS
<1>3. QED
  BY <1>1, <1>2 DEF Overlaid

(* Writing keeps files what they are; a file that is created is a new one. *)
LEMMA WriteUnitsTypes ==
  ASSUME FileTypes, NEW t \in Threads, dest[t] # NoFile, NEW n \in 0 .. Len(buffer[t]), WriteUnits(t, n)
  PROVE  data' \in Seq(Seq(Nat)) /\ DOMAIN data' = DOMAIN data
<1>1. dest[t] \in DOMAIN data /\ written[t] \in Nat /\ buffer[t] \in Seq(Nat) /\ data \in Seq(Seq(Nat))
  BY DEF FileTypes, StoreTypes, StreamTypes
<1>2. Take(buffer[t], n) \in Seq(Nat)
  <2>1. n \in Nat /\ n <= Len(buffer[t])
    BY <1>1
  <2>2. QED
    BY <1>1, <2>1, TakeDrop
<1>3. Overlaid(data[dest[t]], written[t], Take(buffer[t], n)) \in Seq(Nat)
  <2>1. data[dest[t]] \in Seq(Nat)
    BY <1>1
  <2>2. QED
    BY <1>1, <1>2, <2>1, OverlaidType
<1>4. data' = [data EXCEPT ![dest[t]] = Overlaid(data[dest[t]], written[t], Take(buffer[t], n))]
  BY DEF WriteUnits
<1>5. QED
  BY <1>1, <1>3, <1>4

LEMMA OpenToWriteTypes ==
  ASSUME FileTypes, NEW t \in Threads, NEW p \in DOMAIN links, NEW contents \in Seq(Nat),
         OpenToWrite(t, p, contents)
  PROVE  /\ data' \in Seq(Seq(Nat)) /\ DOMAIN data \subseteq DOMAIN data'
         /\ links' \in [DOMAIN links -> Kinds \cup DOMAIN data']
         /\ dest' \in [Threads -> {NoFile} \cup DOMAIN data'] /\ dest'[t] \in DOMAIN data'
         /\ \A u \in Threads : u # t => dest'[u] = dest[u]
         /\ origin' \in [Threads -> [file : {NoFile, Dir} \cup DOMAIN data, from : Seq(Nat), dest : Seq(Nat)]]
<1>0. /\ data \in Seq(Seq(Nat)) /\ dest \in [Threads -> {NoFile} \cup DOMAIN data]
      /\ links \in [DOMAIN links -> Kinds \cup DOMAIN data]
      /\ origin \in [Threads -> [file : {NoFile, Dir} \cup DOMAIN data, from : Seq(Nat), dest : Seq(Nat)]]
  BY DEF FileTypes, StoreTypes, StreamTypes
<1>1. CASE IsFile(p)
  <2>1. /\ links[p] \in DOMAIN data /\ dest' = [dest EXCEPT ![t] = links[p]] /\ links' = links
        /\ data' = [data EXCEPT ![links[p]] = contents]
        /\ origin' = [origin EXCEPT ![t].dest = data[links[p]]]
    BY <1>1 DEF OpenToWrite, IsFile
  <2>2. data[links[p]] \in Seq(Nat)
    BY <1>0, <2>1
  <2>3. data' \in Seq(Seq(Nat)) /\ DOMAIN data' = DOMAIN data
    BY <1>0, <2>1
  <2>4. QED
    BY <1>0, <2>1, <2>2, <2>3
<1>2. CASE ~IsFile(p)
  <2>1. /\ data' = Append(data, <<>>) /\ dest' = [dest EXCEPT ![t] = Len(data')]
        /\ links' = [links EXCEPT ![p] = Len(data')] /\ origin' = origin
    BY <1>2 DEF OpenToWrite
  <2>2. /\ data' \in Seq(Seq(Nat)) /\ DOMAIN data \subseteq DOMAIN data' /\ Len(data') \in DOMAIN data'
    BY <1>0, <2>1
  <2>3. QED
    BY <1>0, <2>1, <2>2
<1>3. QED
  BY <1>1, <1>2

(* What a step of thread t leaves alone of the others.                     *)
LEMMA OthersStay ==
  ASSUME Placed, HasOpen, NEW t \in Threads, NEW next, GoTo(t, next),
         \A u \in Threads : u # t => from'[u] = from[u] /\ dest'[u] = dest[u],
         next \in {"open_to", "read", "write", "fread"} => from'[t] # NoFile,
         next \in {"read", "write", "fwrite", "fclose"} => dest'[t] # NoFile
  PROVE  HasOpen'
BY DEF HasOpen, Placed, GoTo

(* A file that is opened to write, units that are written.                 *)
LEMMA OpenedToWrite ==
  ASSUME Placed, FileTypes, NEW t \in Threads, NEW p \in DOMAIN links, NEW contents \in Seq(Nat),
         OpenToWrite(t, p, contents),
         UNCHANGED <<call, from, offset, written, size, got>>, buffer' \in [Threads -> Seq(Nat)],
         NEW next, GoTo(t, next),
         next \in {"open_to", "read", "write", "fread"} => from[t] # NoFile
  PROVE  FileTypes'
<1>1. /\ data' \in Seq(Seq(Nat)) /\ DOMAIN data \subseteq DOMAIN data'
      /\ links' \in [DOMAIN links -> Kinds \cup DOMAIN data']
      /\ dest' \in [Threads -> {NoFile} \cup DOMAIN data'] /\ dest'[t] \in DOMAIN data'
      /\ \A u \in Threads : u # t => dest'[u] = dest[u]
      /\ origin' \in [Threads -> [file : {NoFile, Dir} \cup DOMAIN data, from : Seq(Nat), dest : Seq(Nat)]]
  BY OpenToWriteTypes
<1>2. DOMAIN links' = DOMAIN links
  BY <1>1
<1>3. StoreTypes'
  BY <1>1, <1>2 DEF FileTypes, StoreTypes
<1>4. origin' \in [Threads -> [file : {NoFile, Dir} \cup DOMAIN data', from : Seq(Nat), dest : Seq(Nat)]]
  BY <1>1
<1>5. StreamTypes'
  BY <1>1, <1>4 DEF FileTypes, StreamTypes
<1>6. dest'[t] # NoFile
  <2>1. NoFile \notin DOMAIN data'
    BY <1>1 DEF NoFile
  <2>2. QED
    BY <1>1, <2>1
<1>7. HasOpen'
  BY <1>1, <1>6, OthersStay DEF FileTypes
<1>8. QED
  BY <1>3, <1>5, <1>7 DEF FileTypes

LEMMA UnitsWritten ==
  ASSUME FileTypes, NEW t \in Threads, dest[t] # NoFile, NEW n \in 0 .. Len(buffer[t]),
         WriteUnits(t, n),
         \/ /\ written' = [written EXCEPT ![t] = @ + n]
            /\ buffer' = [buffer EXCEPT ![t] = Rest(@, n)]
         \/ UNCHANGED <<written, buffer>>,
         UNCHANGED <<links, call, from, dest, offset, size, got, origin>>, HasOpen'
  PROVE  FileTypes'
<1>1. data' \in Seq(Seq(Nat)) /\ DOMAIN data' = DOMAIN data
  BY WriteUnitsTypes
<1>2. n \in Nat /\ buffer[t] \in Seq(Nat)
  BY DEF FileTypes, StreamTypes
<1>3. Rest(buffer[t], n) \in Seq(Nat)
  BY <1>2, TakeDrop DEF Rest
<1>4. buffer' \in [Threads -> Seq(Nat)] /\ written' \in [Threads -> Nat]
  <2>1. buffer \in [Threads -> Seq(Nat)] /\ written \in [Threads -> Nat] /\ written[t] + n \in Nat
    BY <1>2 DEF FileTypes, StreamTypes
  <2>2. CASE UNCHANGED <<written, buffer>>
    BY <2>1, <2>2
  <2>3. CASE /\ written' = [written EXCEPT ![t] = @ + n]
             /\ buffer' = [buffer EXCEPT ![t] = Rest(@, n)]
    <3>1. written' = [written EXCEPT ![t] = written[t] + n]
      BY <2>3
    <3>2. buffer' = [buffer EXCEPT ![t] = Rest(buffer[t], n)]
      BY <2>3
    <3>3. written' \in [Threads -> Nat]
      BY <2>1, <3>1
    <3>4. buffer' \in [Threads -> Seq(Nat)]
      BY <1>3, <2>1, <3>2
    <3>5. QED
      BY <3>3, <3>4
  <2>4. QED
    BY <2>2, <2>3
<1>5. QED
  BY <1>1, <1>4 DEF FileTypes, StoreTypes, StreamTypes

LEMMA CopyTypes ==
  ASSUME Placed, FileTypes, NEW t \in Threads, copyFile(t)
  PROVE  FileTypes'
<1> USE DEF FileTypes
<1>0. /\ data \in Seq(Seq(Nat)) /\ MadeOn(call[t], DOMAIN links)
      /\ call[t].path \in DOMAIN links
  BY DEF StoreTypes, MadeOn
<1>1. CASE CopyFrom(t)
  <2>1. UNCHANGED <<links, data, call, dest, offset, written, buffer, size, got>>
    BY <1>1 DEF CopyFrom, system
  <2>2. CASE Exists(call[t].path)
    <3>1. /\ from' = [from EXCEPT ![t] = Opened(call[t].path)] /\ GoTo(t, "open_to")
          /\ origin' = [origin EXCEPT ![t].from =
                          IF IsFile(call[t].path) THEN data[links[call[t].path]] ELSE <<>>]
      BY <1>1, <2>2 DEF CopyFrom
    <3>2. Opened(call[t].path) \in {Dir} \cup DOMAIN data /\ Opened(call[t].path) # NoFile
      BY <1>0, <2>2, OpenedIs
    <3>3. (IF IsFile(call[t].path) THEN data[links[call[t].path]] ELSE <<>>) \in Seq(Nat)
      BY <1>0 DEF IsFile
    <3>4. StreamTypes' /\ from'[t] # NoFile /\ \A u \in Threads : u # t => from'[u] = from[u]
      <4>1. /\ from' \in [Threads -> {NoFile, Dir} \cup DOMAIN data] /\ from'[t] # NoFile
            /\ \A u \in Threads : u # t => from'[u] = from[u]
        BY <2>1, <3>1, <3>2 DEF StreamTypes
      <4>2. origin' \in [Threads -> [file : {NoFile, Dir} \cup DOMAIN data, from : Seq(Nat), dest : Seq(Nat)]]
        BY <3>1, <3>3, ZenonT(30) DEF StreamTypes
      <4>3. QED
        BY <2>1, <4>1, <4>2 DEF StreamTypes
    <3>5. HasOpen'
      BY <2>1, <3>1, <3>4, OthersStay
    <3>6. QED
      BY <2>1, <3>4, <3>5 DEF StoreTypes
  <2>3. CASE ~Exists(call[t].path)
    <3>1. UNCHANGED <<from, origin>> /\ GoTo(t, "thrown")
      BY <1>1, <2>3 DEF CopyFrom
    <3>2. HasOpen'
      BY <2>1, <3>1, OthersStay
    <3>3. QED
      BY <2>1, <3>1, <3>2 DEF StoreTypes, StreamTypes
  <2>4. QED
    BY <2>2, <2>3
<1>2. CASE CopyTo(t)
  <2>1. /\ UNCHANGED <<call, from, offset, written, buffer, size, got>>
        /\ pc[t] = "open_to" /\ from[t] # NoFile /\ call[t].to \in DOMAIN links
    <3>1. pc[t] = "open_to" /\ UNCHANGED <<call, from, offset, written, buffer, size, got>>
      BY <1>2 DEF CopyTo
    <3>2. call[t].op = "copyFile"
      BY <3>1 DEF Placed, CopySteps, Op
    <3>3. QED
      BY <1>0, <3>1, <3>2 DEF HasOpen, MadeOn
  <2>2. CASE CanOpenToWrite(call[t].to)
    <3>1. /\ OpenToWrite(t, call[t].to, IF IsFile(call[t].to) THEN data[links[call[t].to]] ELSE <<>>)
          /\ GoTo(t, "read")
      BY <1>2, <2>2 DEF CopyTo
    <3>2. (IF IsFile(call[t].to) THEN data[links[call[t].to]] ELSE <<>>) \in Seq(Nat)
      BY <1>0 DEF IsFile
    <3>3. buffer' \in [Threads -> Seq(Nat)]
      BY <2>1 DEF StreamTypes
    <3>4. PICK contents \in Seq(Nat) : OpenToWrite(t, call[t].to, contents)
      BY <3>1, <3>2
    <3>5. QED
      BY <2>1, <3>1, <3>3, <3>4, OpenedToWrite
  <2>3. CASE ~CanOpenToWrite(call[t].to)
    <3>1. UNCHANGED <<links, data, dest, origin>> /\ GoTo(t, "thrown")
      BY <1>2, <2>3 DEF CopyTo
    <3>2. HasOpen'
      BY <2>1, <3>1, OthersStay
    <3>3. QED
      BY <2>1, <3>1, <3>2 DEF StoreTypes, StreamTypes
  <2>4. QED
    BY <2>2, <2>3
<1>3. CASE CopyRead(t)
  <2>1. /\ UNCHANGED <<links, data, call, from, dest, written, size, got, origin>>
        /\ pc[t] = "read" /\ from[t] # NoFile /\ dest[t] # NoFile
    BY <1>3 DEF CopyRead, HasOpen
  <2>2. \/ GoTo(t, "write")
        \/ GoTo(t, "returned")
    BY <1>3 DEF CopyRead
  <2>3. buffer' \in [Threads -> Seq(Nat)] /\ offset' \in [Threads -> Nat]
    <3>1. offset[t] \in Nat /\ from[t] \in {Dir} \cup DOMAIN data
      BY <2>1 DEF StreamTypes
    <3> DEFINE left == IF from[t] = Dir THEN <<>> ELSE Drop(data[from[t]], offset[t])
               n == IF Len(left) < BufferSize THEN Len(left) ELSE BufferSize
    <3>2. left \in Seq(Nat)
      <4>1. CASE from[t] = Dir
        BY <4>1
      <4>2. CASE from[t] # Dir
        <5>1. data[from[t]] \in Seq(Nat)
          BY <1>0, <3>1, <4>2
        <5>2. QED
          BY <3>1, <4>2, <5>1, TakeDrop
      <4>3. QED
        BY <4>1, <4>2
    <3> HIDE DEF left
    <3>3. n \in Nat /\ n <= Len(left)
      BY <3>2, FileAssumption
    <3>4. Take(left, n) \in Seq(Nat) /\ Len(Take(left, n)) \in Nat
      BY <3>2, <3>3, TakeDrop
    <3>5. \/ UNCHANGED <<buffer, offset>>
          \/ /\ buffer' = [buffer EXCEPT ![t] = Take(left, n)]
             /\ offset' = [offset EXCEPT ![t] = @ + Len(buffer'[t])]
      BY <1>3 DEF CopyRead, left
    <3> HIDE DEF n
    <3>6. CASE UNCHANGED <<buffer, offset>>
      BY <3>6 DEF StreamTypes
    <3>7. CASE /\ buffer' = [buffer EXCEPT ![t] = Take(left, n)]
               /\ offset' = [offset EXCEPT ![t] = @ + Len(buffer'[t])]
      <4>1. buffer' \in [Threads -> Seq(Nat)] /\ buffer'[t] = Take(left, n)
        BY <3>4, <3>7 DEF StreamTypes
      <4>2. offset' = [offset EXCEPT ![t] = offset[t] + Len(Take(left, n))]
        BY <3>7, <4>1
      <4>3. offset' \in [Threads -> Nat]
        BY <3>1, <3>4, <4>2 DEF StreamTypes
      <4>4. QED
        BY <4>1, <4>3
    <3>8. QED
      BY <3>5, <3>6, <3>7
  <2>4. HasOpen'
    BY <2>1, <2>2, OthersStay
  <2>5. QED
    BY <2>1, <2>3, <2>4 DEF StoreTypes, StreamTypes
<1>4. CASE CopyWrite(t)
  <2>1. /\ UNCHANGED <<links, call, from, dest, offset, size, got, origin>>
        /\ pc[t] = "write" /\ from[t] # NoFile /\ dest[t] # NoFile
    BY <1>4 DEF CopyWrite, HasOpen
  <2>2. CASE UNCHANGED <<data, written, buffer>> /\ GoTo(t, "thrown")
    <3>1. HasOpen'
      BY <2>1, <2>2, OthersStay
    <3>2. QED
      BY <2>1, <2>2, <3>1 DEF StoreTypes, StreamTypes
  <2>3. CASE \E n \in 1 .. Len(buffer[t]) :
               /\ WriteUnits(t, n) /\ written' = [written EXCEPT ![t] = @ + n]
               /\ buffer' = [buffer EXCEPT ![t] = Rest(@, n)]
               /\ \E next \in {"read", "write"} : GoTo(t, next)
    <3>1. PICK n \in 1 .. Len(buffer[t]) :
               /\ WriteUnits(t, n) /\ written' = [written EXCEPT ![t] = @ + n]
               /\ buffer' = [buffer EXCEPT ![t] = Rest(@, n)]
               /\ \E next \in {"read", "write"} : GoTo(t, next)
      BY <2>3
    <3>2. HasOpen'
      BY <2>1, <3>1, OthersStay
    <3>3. n \in 0 .. Len(buffer[t])
      BY DEF StreamTypes
    <3>4. QED
      BY <2>1, <3>1, <3>2, <3>3, UnitsWritten
  <2>4. QED
    BY <1>4, <2>2, <2>3 DEF CopyWrite
<1>5. QED
  BY <1>1, <1>2, <1>3, <1>4 DEF copyFile

LEMMA WriteTypes ==
  ASSUME Placed, FileTypes, NEW t \in Threads, writeAllBytes(t)
  PROVE  FileTypes'
<1> USE DEF FileTypes
<1>0. /\ data \in Seq(Seq(Nat)) /\ MadeOn(call[t], DOMAIN links) /\ call[t].path \in DOMAIN links
  BY DEF StoreTypes, MadeOn
<1>1. CASE WriteOpen(t)
  <2>1. UNCHANGED <<call, from, offset, written, size, got>> /\ call[t].units \in Seq(Nat)
    BY <1>0, <1>1 DEF WriteOpen, MadeOn
  <2>2. CASE CanOpenToWrite(call[t].path)
    <3>1. /\ OpenToWrite(t, call[t].path, <<>>) /\ buffer' = [buffer EXCEPT ![t] = call[t].units]
          /\ GoTo(t, IF call[t].units = <<>> THEN "returned" ELSE "fwrite")
      BY <1>1, <2>2 DEF WriteOpen
    <3>2. PICK next \in {"returned", "fwrite"} : GoTo(t, next)
      BY <3>1
    <3>3. <<>> \in Seq(Nat) /\ buffer' \in [Threads -> Seq(Nat)]
      BY <2>1, <3>1 DEF StreamTypes
    <3>4. QED
      BY <1>0, <2>1, <3>1, <3>2, <3>3, OpenedToWrite
  <2>3. CASE ~CanOpenToWrite(call[t].path)
    <3>1. UNCHANGED <<links, data, dest, origin, buffer>> /\ GoTo(t, "thrown")
      BY <1>1, <2>3 DEF WriteOpen
    <3>2. HasOpen'
      BY <2>1, <3>1, OthersStay
    <3>3. QED
      BY <2>1, <3>1, <3>2 DEF StoreTypes, StreamTypes
  <2>4. QED
    BY <2>2, <2>3
<1>2. CASE WriteStream(t)
  <2>1. /\ UNCHANGED <<links, call, from, dest, offset, size, got, origin>>
        /\ pc[t] = "fwrite" /\ dest[t] # NoFile
    BY <1>2 DEF WriteStream, HasOpen
  <2>2. PICK n \in 0 .. Len(buffer[t]) :
          /\ WriteUnits(t, n) /\ written' = [written EXCEPT ![t] = @ + n]
          /\ buffer' = [buffer EXCEPT ![t] = Rest(@, n)]
          /\ \E next \in {"fclose", "thrown"} : GoTo(t, next)
    BY <1>2 DEF WriteStream
  <2>3. HasOpen'
    BY <2>1, <2>2, OthersStay
  <2>4. QED
    BY <2>1, <2>2, <2>3, UnitsWritten
<1>3. CASE WriteClose(t)
  <2>1. /\ UNCHANGED <<links, call, fileVars>> /\ pc[t] = "fclose" /\ dest[t] # NoFile /\ GoTo(t, "returned")
    BY <1>3 DEF WriteClose, HasOpen
  <2>2. PICK n \in 0 .. Len(buffer[t]) : WriteUnits(t, n)
    BY <1>3 DEF WriteClose
  <2>3. HasOpen'
    BY <2>1, OthersStay DEF fileVars
  <2>4. QED
    BY <2>1, <2>2, <2>3, UnitsWritten DEF fileVars
<1>4. QED
  BY <1>1, <1>2, <1>3 DEF writeAllBytes

(* What a call of fread has before it, asks for, and can get.              *)
Left(t) == IF from[t] = Dir THEN <<>> ELSE Drop(data[from[t]], offset[t])

Asked(t) == IF size[t] > 0 THEN size[t] ELSE ChunkSize

Most(t) == IF Len(Left(t)) < Asked(t) THEN Len(Left(t)) ELSE Asked(t)

Gets(t, n) ==
  /\ IF n = Most(t) THEN UNCHANGED faults ELSE Fault
  /\ got' = [got EXCEPT ![t] = @ \o Take(Left(t), n)]
  /\ offset' = [offset EXCEPT ![t] = @ + n]
  /\ GoTo(t, IF size[t] > 0 \/ IsLastChunk(Take(Left(t), n)) THEN "returned" ELSE "fread")

LEMMA ReadUnitsGets ==
  ASSUME NEW t \in Threads, ReadUnits(t)
  PROVE  \E n \in 0 .. Most(t) : Gets(t, n)
BY DEF ReadUnits, Gets, Most, Asked, Left

LEMMA ReadTypes ==
  ASSUME Placed, FileTypes, NEW t \in Threads, readAllBytes(t)
  PROVE  FileTypes'
<1> USE DEF FileTypes
<1>0. /\ data \in Seq(Seq(Nat)) /\ call[t].path \in DOMAIN links /\ UNCHANGED <<links, data, call, dest>>
  BY DEF StoreTypes, MadeOn, readAllBytes, ReadSize, ReadOpen, ReadUnits, system
<1>1. CASE ReadSize(t)
  <2>1. UNCHANGED <<from, offset, written, buffer, got>>
    BY <1>1 DEF ReadSize
  <2>2. CASE Exists(call[t].path)
    <3> DEFINE p == call[t].path
               asked == IF p \in Pseudo THEN 0 ELSE IF IsFile(p) THEN Len(data[links[p]]) ELSE 1
    <3>1. /\ size' = [size EXCEPT ![t] = asked] /\ origin' = [origin EXCEPT ![t].file = Opened(p)]
          /\ GoTo(t, "fopen")
      BY <1>1, <2>2 DEF ReadSize
    <3>2. asked \in Nat
      BY <1>0 DEF IsFile
    <3>3. Opened(p) \in {NoFile, Dir} \cup DOMAIN data
      BY <1>0, <2>2, OpenedIs
    <3> HIDE DEF asked
    <3>4. size' \in [Threads -> Nat]
      BY <3>1, <3>2 DEF StreamTypes
    <3>5. origin' \in [Threads -> [file : {NoFile, Dir} \cup DOMAIN data, from : Seq(Nat), dest : Seq(Nat)]]
      BY <3>1, <3>3, ZenonT(30) DEF StreamTypes
    <3>6. HasOpen'
      BY <1>0, <2>1, <3>1, OthersStay
    <3>7. QED
      BY <1>0, <2>1, <3>4, <3>5, <3>6 DEF StoreTypes, StreamTypes
  <2>3. CASE ~Exists(call[t].path)
    <3>1. UNCHANGED <<size, origin>> /\ GoTo(t, "thrown")
      BY <1>1, <2>3 DEF ReadSize
    <3>2. HasOpen'
      BY <1>0, <2>1, <3>1, OthersStay
    <3>3. QED
      BY <1>0, <2>1, <3>1, <3>2 DEF StoreTypes, StreamTypes
  <2>4. QED
    BY <2>2, <2>3
<1>2. CASE ReadOpen(t)
  <2>1. UNCHANGED <<offset, written, buffer, size, got, origin>>
    BY <1>2 DEF ReadOpen
  <2>2. CASE Exists(call[t].path)
    <3>1. from' = [from EXCEPT ![t] = Opened(call[t].path)] /\ GoTo(t, "fread")
      BY <1>2, <2>2 DEF ReadOpen
    <3>2. Opened(call[t].path) \in {Dir} \cup DOMAIN data /\ Opened(call[t].path) # NoFile
      BY <1>0, <2>2, OpenedIs
    <3>3. /\ from' \in [Threads -> {NoFile, Dir} \cup DOMAIN data] /\ from'[t] # NoFile
          /\ \A u \in Threads : u # t => from'[u] = from[u]
      BY <3>1, <3>2 DEF StreamTypes
    <3>4. HasOpen'
      BY <1>0, <3>1, <3>3, OthersStay
    <3>5. QED
      BY <1>0, <2>1, <3>3, <3>4 DEF StoreTypes, StreamTypes
  <2>3. CASE ~Exists(call[t].path)
    <3>1. UNCHANGED from /\ GoTo(t, "thrown")
      BY <1>2, <2>3 DEF ReadOpen
    <3>2. HasOpen'
      BY <1>0, <3>1, OthersStay
    <3>3. QED
      BY <1>0, <2>1, <3>1, <3>2 DEF StoreTypes, StreamTypes
  <2>4. QED
    BY <2>2, <2>3
<1>3. CASE ReadUnits(t)
  <2>1. /\ UNCHANGED <<from, written, buffer, size, origin>> /\ from[t] # NoFile
    BY <1>3 DEF ReadUnits, HasOpen
  <2>0. PICK k \in 0 .. Most(t) : Gets(t, k)
    BY <1>3, ReadUnitsGets
  <2>2. PICK next \in {"fread", "returned"} : GoTo(t, next)
    BY <2>0 DEF Gets
  <2>3. HasOpen'
    BY <1>0, <2>1, <2>2, OthersStay
  <2>4. got' \in [Threads -> Seq(Nat)] /\ offset' \in [Threads -> Nat]
    <3> DEFINE units == Take(Left(t), k)
    <3>1. offset[t] \in Nat /\ size[t] \in Nat /\ got[t] \in Seq(Nat) /\ from[t] \in {Dir} \cup DOMAIN data
      BY <2>1 DEF StreamTypes
    <3>2. Left(t) \in Seq(Nat)
      <4>1. CASE from[t] = Dir
        BY <4>1 DEF Left
      <4>2. CASE from[t] # Dir
        <5>1. data[from[t]] \in Seq(Nat)
          BY <1>0, <3>1, <4>2
        <5>2. QED
          BY <3>1, <4>2, <5>1, TakeDrop DEF Left
      <4>3. QED
        BY <4>1, <4>2
    <3>3. Asked(t) \in Nat
      BY <3>1, FileAssumption DEF Asked
    <3>4. k \in Nat /\ k <= Len(Left(t))
      BY <3>2, <3>3 DEF Most
    <3>5. units \in Seq(Nat)
      BY <3>2, <3>4, TakeDrop
    <3>6. got' = [got EXCEPT ![t] = @ \o units] /\ offset' = [offset EXCEPT ![t] = @ + k]
      BY <2>0 DEF Gets
    <3> HIDE DEF units
    <3>7. got' = [got EXCEPT ![t] = got[t] \o units] /\ got[t] \o units \in Seq(Nat)
      BY <3>1, <3>5, <3>6
    <3>8. offset' = [offset EXCEPT ![t] = offset[t] + k] /\ offset[t] + k \in Nat
      BY <3>1, <3>4, <3>6
    <3>9. got' \in [Threads -> Seq(Nat)]
      BY <3>7 DEF StreamTypes
    <3>10. offset' \in [Threads -> Nat]
      BY <3>8 DEF StreamTypes
    <3>11. QED
      BY <3>9, <3>10
  <2>5. QED
    BY <1>0, <2>1, <2>3, <2>4 DEF StoreTypes, StreamTypes
<1>4. QED
  BY <1>1, <1>2, <1>3 DEF readAllBytes

(* What has a path changes, and what the threads have open does not.       *)
LEMMA LinksTypes ==
  ASSUME Placed, FileTypes, NEW t \in Threads, UNCHANGED <<data, call, fileVars>>,
         links' \in [DOMAIN links -> Kinds \cup DOMAIN data],
         NEW next \in Steps \ {"open_to", "read", "write", "fread", "fwrite", "fclose"}, GoTo(t, next)
  PROVE  FileTypes'
<1>1. HasOpen'
  BY OthersStay DEF FileTypes, fileVars
<1>2. DOMAIN links' = DOMAIN links
  OBVIOUS
<1>3. StoreTypes'
  BY <1>2 DEF FileTypes, StoreTypes
<1>4. StreamTypes'
  BY DEF FileTypes, StreamTypes, fileVars
<1>5. QED
  BY <1>1, <1>3, <1>4 DEF FileTypes

LEMMA PathTypes ==
  ASSUME Placed, FileTypes, NEW t \in Threads, deleteFile(t) \/ renameFile(t)
  PROVE  FileTypes'
<1>0. /\ links \in [DOMAIN links -> Kinds \cup DOMAIN data] /\ NoFile \in Kinds
      /\ UNCHANGED <<data, call, fileVars>>
  BY DEF FileTypes, StoreTypes, Kinds, deleteFile, renameFile
<1>1. PICK next \in {"returned", "thrown"} : GoTo(t, next)
  BY DEF deleteFile, renameFile
<1>2. links' \in [DOMAIN links -> Kinds \cup DOMAIN data]
  <2>1. CASE deleteFile(t)
    <3>1. links' = links \/ links' = [links EXCEPT ![call[t].path] = NoFile]
      BY <2>1 DEF deleteFile
    <3>2. QED
      BY <1>0, <3>1
  <2>2. CASE renameFile(t)
    <3>1. \/ links' = links
          \/ /\ IsFile(call[t].path)
             /\ links' = [links EXCEPT ![call[t].to] = links[call[t].path], ![call[t].path] = NoFile]
      BY <2>2 DEF renameFile
    <3>2. QED
      BY <1>0, <3>1 DEF IsFile
  <2>3. QED
    BY <2>1, <2>2
<1>3. QED
  BY <1>0, <1>1, <1>2, LinksTypes DEF Steps, Outside

LEMMA DirectoryTypes ==
  ASSUME Placed, FileTypes, NEW t \in Threads, DirectoryCall(t), UNCHANGED fileVars
  PROVE  FileTypes'
<1>1. PICK next \in Steps \ {"open_to", "read", "write", "fread", "fwrite", "fclose"} : GoTo(t, next)
  BY DirectoryCallSteps DEF Steps, Outside, CreateSteps, VerifySteps
<1>2. UNCHANGED <<data, call>>
  BY DEF DirectoryCall, create, verifyAndCreate, Look, ReadUmask, ResetUmask, Component, MakeComponent,
         RestoreUmask, Verify, VerifyPart, MakePart, system
<1>3. links' = links \/ links' = [links EXCEPT ![Prefix(t)] = Dir]
  BY DEF DirectoryCall, create, verifyAndCreate, Look, ReadUmask, ResetUmask, Component, MakeComponent,
         RestoreUmask, Verify, VerifyPart, MakePart, system
<1>4. links' \in [DOMAIN links -> Kinds \cup DOMAIN data]
  BY <1>3 DEF FileTypes, StoreTypes, Kinds
<1>5. QED
  BY <1>1, <1>2, <1>4, LinksTypes

LEMMA FileTypesInit == Init => FileTypes
<1> SUFFICES ASSUME Init
             PROVE  FileTypes
  OBVIOUS
<1>1. PICK s \in Scenes : links = s.links /\ data = s.data /\ call = s.calls
  BY DEF Init, SystemInit
<1>2. StoreTypes
  BY <1>1, ScenesAssumption DEF StoreTypes, Kinds
<1>3. StreamTypes
  BY DEF Init, FileInit, StreamTypes, NoOrigin
<1>4. HasOpen
  BY DEF Init, SystemInit, HasOpen
<1>5. QED
  BY <1>2, <1>3, <1>4 DEF FileTypes

LEMMA FileTypesStep == Placed /\ FileTypes /\ [Next]_vars => FileTypes'
<1> SUFFICES ASSUME Placed, FileTypes, [Next]_vars
             PROVE  FileTypes'
  OBVIOUS
<1>1. CASE UNCHANGED vars
  BY <1>1 DEF vars, system, fileVars, FileTypes, StoreTypes, StreamTypes, HasOpen
<1>2. CASE Next
  BY <1>2, CopyTypes, WriteTypes, ReadTypes, PathTypes, DirectoryTypes DEF Next, DirectoryCall
<1>3. QED
  BY <1>1, <1>2

THEOREM FileTypesHold == Spec => [](Placed /\ FileTypes)
<1> QED
  BY PlacedInit, PlacedStep, FileTypesInit, FileTypesStep, PTL DEF Spec

-----------------------------------------------------------------------------
(* Directories.                                                            *)

LEMMA TakeAll ==
  ASSUME NEW S, NEW p \in Seq(S)
  PROVE  Take(p, Len(p)) = p
BY DEF Take

LEMMA TakeOfTake ==
  ASSUME NEW S, NEW p \in Seq(S), NEW n \in 0 .. Len(p), NEW m \in 0 .. n
  PROVE  Take(p, n) \in Seq(S) /\ Len(Take(p, n)) = n /\ Take(Take(p, n), m) = Take(p, m)
<1>1. n \in Nat /\ m \in Nat /\ Len(p) \in Nat /\ m <= n /\ n <= Len(p)
  OBVIOUS
<1>2. Take(p, n) \in Seq(S) /\ Len(Take(p, n)) = n /\ \A i \in 1 .. n : Take(p, n)[i] = p[i]
  BY <1>1 DEF Take
<1>3. Take(p, m) \in Seq(S) /\ Len(Take(p, m)) = m /\ \A i \in 1 .. m : Take(p, m)[i] = p[i]
  BY <1>1 DEF Take
<1> DEFINE q == Take(p, n)
<1>4. q \in Seq(S) /\ Len(q) = n
  BY <1>2
<1> HIDE DEF q
<1>5. Take(q, m) \in Seq(S) /\ Len(Take(q, m)) = m /\ \A i \in 1 .. m : Take(q, m)[i] = q[i]
  BY <1>1, <1>4 DEF Take
<1>6. \A i \in 1 .. m : Take(q, m)[i] = Take(p, m)[i]
  BY <1>1, <1>2, <1>3, <1>5 DEF q
<1> HIDE DEF Take
<1>7. Take(q, m) = Take(p, m)
  BY <1>1, <1>3, <1>5, <1>6
<1>8. QED
  BY <1>2, <1>7 DEF q

(* A path that is there has only directories before it.                    *)
Tree ==
  \A p \in DOMAIN links :
    /\ p \in Seq(STRING) /\ p # <<>>
    /\ \A n \in 1 .. Len(p) - 1 :
         /\ Take(p, n) \in DOMAIN links
         /\ links[p] # NoFile => links[Take(p, n)] \in {Dir, LinkToDir}

(* What one step does to a path: a file goes, and maybe another one comes; *)
(* a directory or a file comes where nothing was.                          *)
PathStep(p) ==
  \/ links'[p] = links[p]
  \/ IsFile(p) /\ (links'[p] = NoFile \/ p \in blocked')
  \/ IsFree(p) /\ (links'[p] = Dir \/ p \in blocked')

LinksStep ==
  /\ DOMAIN links' = DOMAIN links
  /\ blocked \subseteq blocked'
  /\ \A p \in DOMAIN links : PathStep(p)

LEMMA OpenToWriteLinks ==
  ASSUME FileTypes, NEW t \in Threads, NEW p \in DOMAIN links, NEW contents, CanOpenToWrite(p),
         OpenToWrite(t, p, contents)
  PROVE  LinksStep
<1>1. links \in [DOMAIN links -> Kinds \cup DOMAIN data]
  BY DEF FileTypes, StoreTypes
<1>2. QED
  BY <1>1 DEF OpenToWrite, CanOpenToWrite, LinksStep, PathStep

LEMMA StepOfLinks == Placed /\ FileTypes /\ [Next]_vars => LinksStep
<1> SUFFICES ASSUME Placed, FileTypes, [Next]_vars
             PROVE  LinksStep
  OBVIOUS
<1>0. links \in [DOMAIN links -> Kinds \cup DOMAIN data]
  BY DEF FileTypes, StoreTypes
<1>1. CASE UNCHANGED <<links, blocked>>
  BY <1>1 DEF LinksStep, PathStep
<1>2. ASSUME NEW t \in Threads, DirectoryCall(t)
      PROVE  LinksStep
  <2>1. UNCHANGED blocked
    BY <1>2 DEF DirectoryCall, create, verifyAndCreate, Look, ReadUmask, ResetUmask, Component,
                MakeComponent, RestoreUmask, Verify, VerifyPart, MakePart, system
  <2>2. UNCHANGED links \/ (IsFree(Prefix(t)) /\ links' = [links EXCEPT ![Prefix(t)] = Dir])
    BY <1>2 DEF DirectoryCall, create, verifyAndCreate, Look, ReadUmask, ResetUmask, Component,
                MakeComponent, RestoreUmask, Verify, VerifyPart, MakePart, system
  <2>3. QED
    BY <1>0, <2>1, <2>2 DEF LinksStep, PathStep
<1>3. ASSUME NEW t \in Threads, copyFile(t)
      PROVE  LinksStep
  <2>1. CASE CopyTo(t)
    <3>1. call[t].to \in DOMAIN links
      BY <2>1 DEF CopyTo, Placed, CopySteps, Op, FileTypes, StoreTypes, MadeOn
    <3>2. CASE CanOpenToWrite(call[t].to)
      <4>1. PICK contents : OpenToWrite(t, call[t].to, contents)
        BY <2>1, <3>2 DEF CopyTo
      <4>2. QED
        BY <3>1, <3>2, <4>1, OpenToWriteLinks
    <3>3. CASE ~CanOpenToWrite(call[t].to)
      BY <1>1, <2>1, <3>3 DEF CopyTo
    <3>4. QED
      BY <3>2, <3>3
  <2>2. CASE ~CopyTo(t)
    BY <1>1, <1>3, <2>2 DEF copyFile, CopyFrom, CopyRead, CopyWrite, system
  <2>3. QED
    BY <2>1, <2>2
<1>4. ASSUME NEW t \in Threads, writeAllBytes(t)
      PROVE  LinksStep
  <2>1. CASE WriteOpen(t)
    <3>1. call[t].path \in DOMAIN links
      BY DEF FileTypes, StoreTypes, MadeOn
    <3>2. CASE CanOpenToWrite(call[t].path)
      BY <2>1, <3>1, <3>2, OpenToWriteLinks DEF WriteOpen
    <3>3. CASE ~CanOpenToWrite(call[t].path)
      BY <1>1, <2>1, <3>3 DEF WriteOpen
    <3>4. QED
      BY <3>2, <3>3
  <2>2. CASE ~WriteOpen(t)
    BY <1>1, <1>4, <2>2 DEF writeAllBytes, WriteStream, WriteClose
  <2>3. QED
    BY <2>1, <2>2
<1>5. ASSUME NEW t \in Threads, readAllBytes(t)
      PROVE  LinksStep
  BY <1>1, <1>5 DEF readAllBytes, ReadSize, ReadOpen, ReadUnits, system
<1>6. ASSUME NEW t \in Threads, deleteFile(t)
      PROVE  LinksStep
  BY <1>0, <1>6 DEF deleteFile, LinksStep, PathStep
<1>7. ASSUME NEW t \in Threads, renameFile(t)
      PROVE  LinksStep
  BY <1>0, <1>7 DEF renameFile, CanOpenToWrite, LinksStep, PathStep
<1>8. CASE UNCHANGED vars
  BY <1>1, <1>8 DEF vars, system
<1>9. QED
  BY <1>2, <1>3, <1>4, <1>5, <1>6, <1>7, <1>8 DEF Next, DirectoryCall

(* A directory stays one.                                                  *)
LEMMA DirectoriesStay ==
  ASSUME FileTypes, LinksStep, NEW p \in DOMAIN links, links[p] \in {Dir, LinkToDir}
  PROVE  links'[p] = links[p]
BY FileNumbers DEF FileTypes, StoreTypes, LinksStep, PathStep, IsFile, IsFree, Exists, NoFile, Dir, LinkToDir

LEMMA TreeStep == FileTypes /\ Tree /\ LinksStep => Tree'
<1> SUFFICES ASSUME FileTypes, Tree, LinksStep
             PROVE  Tree'
  OBVIOUS
<1>1. DOMAIN links' = DOMAIN links
  BY DEF LinksStep
<1>2. ASSUME NEW p \in DOMAIN links, NEW n \in 1 .. Len(p) - 1, links'[p] # NoFile
      PROVE  links[Take(p, n)] \in {Dir, LinkToDir}
  <2>1. CASE links[p] # NoFile
    BY <2>1 DEF Tree
  <2>2. CASE links[p] = NoFile
    <3>1. IsFree(p)
      BY <1>2, <2>2, FileNumbers DEF LinksStep, PathStep, FileTypes, StoreTypes, IsFile
    <3>2. p \in Seq(STRING) /\ p # <<>> /\ Len(p) \in Nat /\ Len(p) - 1 \in 1 .. Len(p)
      BY DEF Tree
    <3> DEFINE q == Take(p, Len(p) - 1)
    <3>3. q \in Seq(STRING) /\ Len(q) = Len(p) - 1 /\ Take(q, n) = Take(p, n)
      <4>1. Len(p) - 1 \in 0 .. Len(p) /\ n \in 0 .. Len(p) - 1
        BY <3>2
      <4>2. QED
        BY <3>2, <4>1, TakeOfTake
    <3>4. q \in DOMAIN links /\ q # <<>>
      BY <3>2, <3>3 DEF Tree
    <3>5. IsDir(q)
      BY <3>1 DEF IsFree, Parent, Take
    <3>6. links[q] \in {Dir, LinkToDir} /\ links[q] # NoFile
      BY <3>4, <3>5 DEF IsDir, NoFile, Dir, LinkToDir
    <3>7. CASE n = Len(p) - 1
      BY <3>6, <3>7
    <3>8. CASE n # Len(p) - 1
      <4>1. n \in 1 .. Len(q) - 1
        BY <3>2, <3>3, <3>8
      <4>2. QED
        BY <3>3, <3>4, <3>6, <4>1 DEF Tree
    <3>9. QED
      BY <3>7, <3>8
  <2>3. QED
    BY <2>1, <2>2
<1>3. ASSUME NEW p \in DOMAIN links, NEW n \in 1 .. Len(p) - 1
      PROVE  Take(p, n) \in DOMAIN links /\ (links'[p] # NoFile => links'[Take(p, n)] \in {Dir, LinkToDir})
  <2>1. Take(p, n) \in DOMAIN links
    BY DEF Tree
  <2>2. QED
    BY <1>2, <2>1, DirectoriesStay
<1>4. QED
  BY <1>1, <1>3 DEF Tree

(* A directory is there, or a file was put there.                          *)
Settled(p) == IsDir(p) \/ p \in blocked

SettledTo(t, n) == \A m \in 1 .. n : Settled(Take(call[t].path, m))

(* A path is settled as far as make_path and verifyAndCreate have come,    *)
(* and what turns up at a path that was missing is settled too.            *)
Progress(t) ==
  LET whole == Len(call[t].path)
  IN  /\ pc[t] \in {"component", "mkdir", "make_part"} =>
           depth[t] \in 1 .. whole /\ SettledTo(t, depth[t] - 1)
      /\ (pc[t] = "restore_umask" \/ (Creates(t) /\ Returned(t))) => SettledTo(t, whole)
      /\ (pc[t] \in {"read_umask", "reset_umask", "component", "mkdir"} /\ Op(t) = "create") =>
           ~Exists(call[t].path) \/ Settled(call[t].path)

PathInvariant ==
  /\ Tree
  /\ depth \in [Threads -> Nat]
  /\ \A t \in Threads : Progress(t)

(* What is settled stays so.                                               *)
LEMMA SettledStays ==
  ASSUME FileTypes, LinksStep, NEW p \in DOMAIN links
  PROVE  /\ Settled(p) => Settled(p)'
         /\ ~Exists(p) => ~Exists(p)' \/ Settled(p)'
<1>1. ASSUME Settled(p)
      PROVE  Settled(p)'
  BY <1>1, DirectoriesStay DEF LinksStep, Settled, IsDir
<1>2. ASSUME ~Exists(p)
      PROVE  ~Exists(p)' \/ Settled(p)'
  BY <1>2, FileNumbers DEF LinksStep, PathStep, Settled, IsDir, Exists, IsFile, FileTypes, StoreTypes
<1>3. QED
  BY <1>1, <1>2

(* The paths a call goes through.                                          *)
LEMMA PathOfCall ==
  ASSUME FileTypes, Tree, NEW t \in Threads
  PROVE  /\ call[t].path \in DOMAIN links /\ call[t].path \in Seq(STRING) /\ Len(call[t].path) \in Nat \ {0}
         /\ Take(call[t].path, Len(call[t].path)) = call[t].path
         /\ \A n \in 1 .. Len(call[t].path) : Take(call[t].path, n) \in DOMAIN links
<1>1. call[t].path \in DOMAIN links /\ call[t].path \in Seq(STRING) /\ call[t].path # <<>>
  BY DEF FileTypes, StoreTypes, MadeOn, Tree
<1>2. Len(call[t].path) \in Nat \ {0}
  BY <1>1
<1>3. Take(call[t].path, Len(call[t].path)) = call[t].path
  BY <1>1, TakeAll
<1>4. ASSUME NEW n \in 1 .. Len(call[t].path)
      PROVE  Take(call[t].path, n) \in DOMAIN links
  <2>1. CASE n = Len(call[t].path)
    BY <1>1, <1>3, <2>1
  <2>2. CASE n # Len(call[t].path)
    <3>1. n \in 1 .. Len(call[t].path) - 1
      BY <1>2, <2>2
    <3>2. QED
      BY <1>1, <3>1 DEF Tree
  <2>3. QED
    BY <2>1, <2>2
<1>5. QED
  BY <1>1, <1>2, <1>3, <1>4

LEMMA SettledToStays ==
  ASSUME FileTypes, Tree, LinksStep, NEW t \in Threads, UNCHANGED call,
         NEW n \in 0 .. Len(call[t].path), SettledTo(t, n)
  PROVE  SettledTo(t, n)'
<1>1. Len(call[t].path) \in Nat /\ \A m \in 1 .. Len(call[t].path) : Take(call[t].path, m) \in DOMAIN links
  BY PathOfCall
<1>2. ASSUME NEW m \in 1 .. n
      PROVE  Settled(Take(call[t].path, m))'
  <2>1. Take(call[t].path, m) \in DOMAIN links /\ Settled(Take(call[t].path, m))
    BY <1>1 DEF SettledTo
  <2>2. PICK p \in DOMAIN links : p = Take(call[t].path, m)
    BY <2>1
  <2>3. Settled(p)' /\ p = Take(call[t].path, m)'
    BY <2>1, <2>2, SettledStays
  <2>4. QED
    BY <2>3 DEF Settled, IsDir
<1>3. QED
  BY <1>2 DEF SettledTo

(* A thread that makes no step.                                            *)
LEMMA ProgressStays ==
  ASSUME FileTypes, PathInvariant, LinksStep, NEW t \in Threads,
         UNCHANGED call, pc'[t] = pc[t], depth'[t] = depth[t]
  PROVE  Progress(t)'
<1> DEFINE whole == Len(call[t].path)
<1>1. /\ Tree /\ Progress(t) /\ whole \in Nat /\ call[t].path \in DOMAIN links
      /\ depth[t] \in Nat
  BY PathOfCall DEF PathInvariant
<1>2. \A n \in 0 .. whole : SettledTo(t, n) => SettledTo(t, n)'
  BY <1>1, SettledToStays
<1>3. PICK p \in DOMAIN links : p = call[t].path
  BY <1>1
<1>4. (~Exists(p) => ~Exists(p)' \/ Settled(p)') /\ (Settled(p) => Settled(p)')
  BY SettledStays
<1>5. pc[t] \in {"component", "mkdir", "make_part"} => SettledTo(t, depth[t] - 1)'
  BY <1>1, <1>2 DEF Progress
<1>6. (pc[t] = "restore_umask" \/ (Creates(t) /\ Returned(t))) => SettledTo(t, whole)'
  BY <1>1, <1>2 DEF Progress
<1>7. (pc[t] \in {"read_umask", "reset_umask", "component", "mkdir"} /\ Op(t) = "create") =>
           ~Exists(p)' \/ Settled(p)'
  BY <1>1, <1>3, <1>4 DEF Progress
<1>8. QED
  BY <1>1, <1>3, <1>5, <1>6, <1>7 DEF Progress, Creates, Returned, Op, Exists, Settled, IsDir

(* A component is done when it is settled; then the next is looked at.     *)
LEMMA AdvanceProgresses ==
  ASSUME Placed, FileTypes, PathInvariant, LinksStep, NEW t \in Threads, UNCHANGED call,
         pc[t] \in {"component", "mkdir", "make_part"}, NEW end, Advance(t, "component", end),
         \/ end = "restore_umask" /\ Op(t) = "create"
         \/ end = "returned" /\ Op(t) = "verifyAndCreate",
         NEW p \in DOMAIN links, p = Prefix(t), Settled(p)'
  PROVE  depth' \in [Threads -> Nat] /\ Progress(t)'
<1> DEFINE whole == Len(call[t].path)
<1>1. /\ Tree /\ Progress(t) /\ whole \in Nat \ {0} /\ call[t].path \in DOMAIN links
      /\ Take(call[t].path, whole) = call[t].path
      /\ depth \in [Threads -> Nat] /\ depth[t] \in 1 .. whole /\ SettledTo(t, depth[t] - 1)
      /\ pc \in [Threads -> Steps]
  BY PathOfCall DEF PathInvariant, Progress, Placed
<1>2. PICK d \in 1 .. whole : d = depth[t]
  BY <1>1
<1>3. SettledTo(t, d - 1)'
  <2>1. d - 1 \in 0 .. whole
    BY <1>1, <1>2
  <2>2. QED
    BY <1>1, <1>2, <2>1, SettledToStays
<1>4. SettledTo(t, d)'
  <2>1. p = Take(call'[t].path, d)
    BY <1>2 DEF Prefix
  <2>2. \A m \in 1 .. d : m = d \/ m \in 1 .. d - 1
    BY <1>2
  <2>3. QED
    BY <1>3, <2>1, <2>2 DEF SettledTo, Settled, IsDir
<1>5. CASE d = whole
  <2>1. pc'[t] = end /\ depth' = depth
    BY <1>1, <1>2, <1>5 DEF Advance, IsLast, GoTo
  <2>2. Len(call'[t].path) = d
    BY <1>5
  <2>3. QED
    BY <1>1, <1>4, <2>1, <2>2 DEF Progress, Returned
<1>6. CASE d # whole
  <2>1. pc'[t] = "component" /\ depth' = [depth EXCEPT ![t] = d + 1] /\ d + 1 \in 1 .. whole
    BY <1>1, <1>2, <1>6 DEF Advance, IsLast, GoTo
  <2>2. depth' \in [Threads -> Nat] /\ depth'[t] = d + 1 /\ depth'[t] - 1 = d
    BY <1>1, <1>2, <2>1
  <2>3. SettledTo(t, depth[t] - 1)'
    BY <1>4, <2>2
  <2>4. PICK q \in DOMAIN links : q = call[t].path
    BY <1>1
  <2>5. Op(t) = "create" => ~Exists(q)' \/ Settled(q)'
    BY <1>1, <2>4, SettledStays DEF Progress, Placed, VerifySteps, CreateSteps
  <2>6. QED
    BY <2>1, <2>2, <2>3, <2>4, <2>5 DEF Progress, Returned, Op, Exists, Settled, IsDir
<1>7. QED
  BY <1>5, <1>6

(* What there is, it is in directories all the way.                        *)
LEMMA AllAreDirectories ==
  ASSUME FileTypes, Tree, NEW t \in Threads, NEW n \in 0 .. Len(call[t].path),
         n > 0 => links[Take(call[t].path, n)] \in {Dir, LinkToDir}
  PROVE  SettledTo(t, n)
<1> DEFINE path == call[t].path
<1>1. /\ path \in Seq(STRING) /\ Len(path) \in Nat /\ n \in Nat /\ n <= Len(path)
      /\ \A m \in 1 .. Len(path) : Take(path, m) \in DOMAIN links
  BY PathOfCall
<1>2. ASSUME NEW m \in 1 .. n
      PROVE  links[Take(path, m)] \in {Dir, LinkToDir}
  <2>1. CASE m = n
    BY <1>2, <2>1
  <2>2. CASE m # n
    <3> DEFINE q == Take(path, n)
    <3>1. m \in 0 .. n /\ n \in 0 .. Len(path) /\ n > 0
      BY <1>1, <2>2
    <3>2. Len(q) = n /\ Take(q, m) = Take(path, m)
      BY <1>1, <3>1, TakeOfTake
    <3>3. q \in DOMAIN links /\ links[q] # NoFile
      BY <1>1, <3>1 DEF NoFile, Dir, LinkToDir
    <3>4. m \in 1 .. Len(q) - 1
      BY <1>1, <2>2, <3>2
    <3>5. QED
      BY <3>2, <3>3, <3>4 DEF Tree
  <2>3. QED
    BY <2>1, <2>2
<1>3. QED
  BY <1>2 DEF SettledTo, Settled, IsDir

(* make_path.                                                              *)
LEMMA CreateProgresses ==
  ASSUME Placed, FileTypes, PathInvariant, LinksStep, NEW t \in Threads, create(t)
  PROVE  depth' \in [Threads -> Nat] /\ Progress(t)'
<1> DEFINE path == call[t].path
<1>1. /\ Tree /\ Progress(t) /\ Len(path) \in Nat \ {0} /\ path \in DOMAIN links
      /\ Take(path, Len(path)) = path /\ depth \in [Threads -> Nat]
      /\ \A n \in 1 .. Len(path) : Take(path, n) \in DOMAIN links
      /\ pc \in [Threads -> Steps] /\ path # <<>>
  BY PathOfCall DEF PathInvariant, Placed, Tree
<1>2. UNCHANGED call
  BY DirectoryCallSteps DEF DirectoryCall
<1>3. PICK p \in DOMAIN links : p = path
  BY <1>1
<1>4. CASE Look(t)
  <2>1. CASE pc'[t] = "returned"
    <3>1. IsDir(path) /\ UNCHANGED <<links, blocked, depth>>
      BY <1>1, <1>4, <2>1 DEF Look, GoTo, system, directoryVars
    <3>2. links[path] \in {Dir, LinkToDir}
      BY <1>1, <3>1 DEF IsDir
    <3>3. SettledTo(t, Len(path))
      BY <1>1, <3>2, AllAreDirectories
    <3>4. SettledTo(t, Len(path))'
      BY <1>1, <1>2, <3>3, SettledToStays
    <3>5. QED
      BY <1>1, <2>1, <3>1, <3>4 DEF Progress
  <2>2. CASE pc'[t] = "read_umask"
    <3>1. ~Exists(path) /\ UNCHANGED <<links, blocked, depth>>
      BY <1>1, <1>4, <2>2 DEF Look, GoTo, system, directoryVars
    <3>2. QED
      BY <1>1, <1>2, <2>2, <3>1 DEF Progress, Exists, Returned
  <2>3. CASE pc'[t] = "thrown"
    <3>1. UNCHANGED depth
      BY <1>4 DEF Look, directoryVars
    <3>2. QED
      BY <1>1, <2>3, <3>1 DEF Progress, Returned
  <2>4. QED
    BY <1>1, <1>4, <2>1, <2>2, <2>3 DEF Look, GoTo
<1>5. CASE ReadUmask(t) \/ ResetUmask(t)
  <2>1. /\ \/ pc'[t] = "reset_umask" /\ UNCHANGED depth
           \/ pc'[t] = "component" /\ depth' = [depth EXCEPT ![t] = 1]
        /\ UNCHANGED <<links, blocked>> /\ pc[t] \in {"read_umask", "reset_umask"} /\ Op(t) = "create"
    BY <1>1, <1>5 DEF ReadUmask, ResetUmask, GoTo, system, Placed, CreateSteps, VerifySteps
  <2>2. ~Exists(path) \/ Settled(path)
    BY <1>1, <2>1 DEF Progress
  <2>3. (~Exists(path) \/ Settled(path))'
    BY <1>2, <2>1, <2>2 DEF Exists, Settled, IsDir
  <2>4. /\ depth' \in [Threads -> Nat]
        /\ pc'[t] = "component" => depth'[t] \in 1 .. Len(path) /\ SettledTo(t, depth[t] - 1)'
    BY <1>1, <2>1 DEF SettledTo
  <2>5. QED
    BY <1>2, <2>1, <2>3, <2>4 DEF Progress, Returned
<1>6. CASE Component(t) \/ MakeComponent(t)
  <2>1. pc[t] \in {"component", "mkdir"} /\ Op(t) = "create" /\ depth[t] \in 1 .. Len(path)
    BY <1>1, <1>6 DEF Component, MakeComponent, Progress, Placed, CreateSteps, VerifySteps, Op
  <2>2. PICK q \in DOMAIN links : q = Prefix(t)
    BY <1>1, <2>1 DEF Prefix
  <2>3. CASE Advance(t, "component", "restore_umask")
    <3>1. Settled(q)'
      <4>1. CASE Component(t)
        <5>1. UNCHANGED links
          BY <4>1 DEF Component, system
        <5>2. CASE IsDir(q)
          BY <5>1, <5>2 DEF Settled, IsDir
        <5>3. CASE ~IsDir(q) /\ Exists(q) /\ IsLast(t)
          <6>1. q = p
            BY <1>1, <1>3, <2>2, <5>3 DEF IsLast, Prefix
          <6>2. Settled(p)
            BY <1>1, <1>3, <2>1, <5>3, <6>1 DEF Progress
          <6>3. QED
            BY <6>1, <6>2, SettledStays
        <5>4. CASE ~Exists(q) \/ (~IsDir(q) /\ ~IsLast(t))
          <6>1. pc'[t] \in {"mkdir", "throw"}
            BY <1>1, <2>2, <4>1, <5>4 DEF Component, IsMissing, GoTo
          <6>2. QED
            BY <1>1, <2>3, <6>1 DEF Advance, GoTo
        <5>5. QED
          BY <5>2, <5>3, <5>4
      <4>2. CASE MakeComponent(t)
        <5>1. CASE IsFree(q)
          <6>1. links' = [links EXCEPT ![q] = Dir]
            BY <2>2, <4>2, <5>1 DEF MakeComponent
          <6>2. links'[q] = Dir
            BY <6>1 DEF FileTypes, StoreTypes
          <6>3. QED
            BY <6>2 DEF Settled, IsDir
        <5>2. CASE ~IsFree(q)
          <6>1. pc'[t] = "throw"
            BY <1>1, <2>2, <4>2, <5>2 DEF MakeComponent, GoTo
          <6>2. QED
            BY <1>1, <2>3, <6>1 DEF Advance, GoTo
        <5>3. QED
          BY <5>1, <5>2
      <4>3. QED
        BY <1>6, <4>1, <4>2
    <3>2. QED
      BY <1>2, <2>1, <2>2, <2>3, <3>1, AdvanceProgresses
  <2>4. CASE GoTo(t, "mkdir") /\ UNCHANGED depth
    <3>1. pc[t] = "component"
      BY <1>1, <1>6, <2>4 DEF Component, MakeComponent, GoTo, Advance
    <3>2. pc'[t] = "mkdir" /\ SettledTo(t, depth[t] - 1) /\ (~Exists(p) \/ Settled(p))
      BY <1>1, <1>3, <2>1, <2>4, <3>1 DEF GoTo, Progress
    <3>3. ~Exists(p)' \/ Settled(p)'
      BY <3>2, SettledStays
    <3>4. SettledTo(t, depth[t] - 1)'
      <4>1. PICK d \in 0 .. Len(path) : d = depth[t] - 1
        BY <1>1, <2>1
      <4>2. SettledTo(t, d)'
        BY <1>1, <1>2, <3>2, <4>1, SettledToStays
      <4>3. QED
        BY <2>4, <4>1, <4>2
    <3>5. QED
      BY <1>1, <1>2, <1>3, <2>1, <2>4, <3>2, <3>3, <3>4 DEF Progress, Returned, Exists, Settled, IsDir
  <2>5. CASE GoTo(t, "throw") /\ UNCHANGED depth
    BY <1>1, <2>5 DEF GoTo, Progress, Returned
  <2>6. QED
    BY <1>6, <2>3, <2>4, <2>5 DEF Component, MakeComponent
<1>7. CASE RestoreUmask(t)
  <2>1. UNCHANGED <<links, blocked, depth>> /\ (pc'[t] = "thrown" \/ (pc[t] = "restore_umask" /\ pc'[t] = "returned"))
    BY <1>1, <1>7 DEF RestoreUmask, GoTo, system
  <2>2. pc[t] = "restore_umask" => SettledTo(t, Len(path))'
    BY <1>1, <1>2, SettledToStays DEF Progress
  <2>3. QED
    BY <1>1, <1>2, <2>1, <2>2 DEF Progress, Returned
<1>8. QED
  BY <1>4, <1>5, <1>6, <1>7 DEF create

LEMMA VerifyProgresses ==
  ASSUME Placed, FileTypes, PathInvariant, LinksStep, NEW t \in Threads, verifyAndCreate(t)
  PROVE  depth' \in [Threads -> Nat] /\ Progress(t)'
<1> DEFINE path == call[t].path
           root == call[t].root
<1>1. /\ Tree /\ Progress(t) /\ Len(path) \in Nat \ {0} /\ path \in DOMAIN links
      /\ Take(path, Len(path)) = path /\ depth \in [Threads -> Nat]
      /\ \A n \in 1 .. Len(path) : Take(path, n) \in DOMAIN links
      /\ pc \in [Threads -> Steps]
  BY PathOfCall DEF PathInvariant, Placed
<1>2. UNCHANGED call
  BY DirectoryCallSteps DEF DirectoryCall
<1>3. Op(t) = "verifyAndCreate"
  BY DEF verifyAndCreate, Verify, VerifyPart, MakePart, Placed, VerifySteps, CreateSteps, Op
<1>4. CASE Verify(t)
  <2>1. root \in 0 .. Len(path) /\ UNCHANGED <<links, blocked>>
    BY <1>3, <1>4 DEF FileTypes, StoreTypes, MadeOn, Op, Verify, system
  <2>2. CASE existsAndIsDirectory(Take(path, root))
    <3>1. SettledTo(t, root)
      <4>1. Len(Take(path, root)) = root
        BY <1>1, <2>1, PathOfCall, TakeOfTake
      <4>2. root > 0 => links[Take(path, root)] \in {Dir, LinkToDir}
        BY <2>1, <2>2, <4>1 DEF existsAndIsDirectory
      <4>3. QED
        BY <1>1, <2>1, <4>2, AllAreDirectories
    <3>2. PICK n \in 0 .. Len(path) : n = root
      BY <2>1
    <3>3. SettledTo(t, n)'
      BY <1>1, <1>2, <3>1, <3>2, SettledToStays
    <3>4. CASE n = Len(path)
      <4>1. pc'[t] = "returned" /\ UNCHANGED depth
        BY <1>1, <1>4, <2>2, <3>2, <3>4 DEF Verify, GoTo
      <4>2. QED
        BY <1>1, <1>2, <3>3, <3>4, <4>1 DEF Progress
    <3>5. CASE n # Len(path)
      <4>1. pc'[t] = "component" /\ depth' = [depth EXCEPT ![t] = n + 1]
        BY <1>1, <1>4, <2>2, <3>2, <3>5 DEF Verify, GoTo
      <4>2. /\ depth' \in [Threads -> Nat] /\ depth'[t] = n + 1 /\ depth'[t] - 1 = n
            /\ depth'[t] \in 1 .. Len(path)
        <5>1. Len(path) \in Nat /\ n + 1 \in Nat /\ n + 1 \in 1 .. Len(path) /\ n + 1 - 1 = n
          BY <1>1, <3>5
        <5>2. depth' \in [Threads -> Nat] /\ depth'[t] = n + 1
          BY <1>1, <4>1, <5>1
        <5>3. QED
          BY <5>1, <5>2
      <4>3. SettledTo(t, depth[t] - 1)'
        BY <3>3, <4>2
      <4>4. QED
        BY <1>2, <1>3, <4>1, <4>2, <4>3 DEF Progress, Returned, Op
    <3>6. QED
      BY <3>4, <3>5
  <2>3. CASE ~existsAndIsDirectory(Take(path, root))
    <3>1. pc'[t] = "empty" /\ UNCHANGED depth
      BY <1>1, <1>4, <2>3 DEF Verify, GoTo
    <3>2. QED
      BY <1>1, <3>1 DEF Progress, Returned
  <2>4. QED
    BY <2>2, <2>3
<1>5. CASE VerifyPart(t) \/ MakePart(t)
  <2>1. pc[t] \in {"component", "make_part"} /\ depth[t] \in 1 .. Len(path)
    BY <1>1, <1>5 DEF VerifyPart, MakePart, Progress
  <2>2. PICK q \in DOMAIN links : q = Prefix(t)
    BY <1>1, <2>1 DEF Prefix
  <2>3. CASE Advance(t, "component", "returned")
    <3>1. Settled(q)'
      <4>1. CASE VerifyPart(t)
        <5>1. CASE existsAndIsDirectory(q)
          BY <4>1, <5>1 DEF VerifyPart, existsAndIsDirectory, Settled, IsDir, system
        <5>2. CASE ~existsAndIsDirectory(q)
          <6>1. pc'[t] = "make_part"
            BY <1>1, <2>2, <4>1, <5>2 DEF VerifyPart, GoTo
          <6>2. QED
            BY <1>1, <2>3, <6>1 DEF Advance, GoTo
        <5>3. QED
          BY <5>1, <5>2
      <4>2. CASE MakePart(t)
        <5>1. CASE IsFree(q)
          <6>1. links' = [links EXCEPT ![q] = Dir]
            BY <2>2, <4>2, <5>1 DEF MakePart
          <6>2. links'[q] = Dir
            BY <6>1 DEF FileTypes, StoreTypes
          <6>3. QED
            BY <6>2 DEF Settled, IsDir
        <5>2. CASE ~IsFree(q)
          <6>1. pc'[t] = "empty"
            BY <1>1, <2>2, <4>2, <5>2 DEF MakePart, GoTo
          <6>2. QED
            BY <1>1, <2>3, <6>1 DEF Advance, GoTo
        <5>3. QED
          BY <5>1, <5>2
      <4>3. QED
        BY <1>5, <4>1, <4>2
    <3>2. QED
      BY <1>2, <1>3, <2>1, <2>2, <2>3, <3>1, AdvanceProgresses
  <2>4. CASE GoTo(t, "make_part") /\ UNCHANGED depth
    <3>1. pc'[t] = "make_part" /\ SettledTo(t, depth[t] - 1)
      BY <1>1, <2>1, <2>4 DEF GoTo, Progress
    <3>2. SettledTo(t, depth[t] - 1)'
      <4>1. PICK d \in 0 .. Len(path) : d = depth[t] - 1
        BY <1>1, <2>1
      <4>2. SettledTo(t, d)'
        BY <1>1, <1>2, <3>1, <4>1, SettledToStays
      <4>3. QED
        BY <2>4, <4>1, <4>2
    <3>3. QED
      BY <1>1, <1>2, <2>1, <2>4, <3>1, <3>2 DEF Progress, Returned
  <2>5. CASE GoTo(t, "empty") /\ UNCHANGED depth
    BY <1>1, <2>5 DEF GoTo, Progress, Returned
  <2>6. QED
    BY <1>5, <2>3, <2>4, <2>5 DEF VerifyPart, MakePart
<1>6. QED
  BY <1>4, <1>5 DEF verifyAndCreate

LEMMA PathInvariantStep == Placed /\ FileTypes /\ PathInvariant /\ [Next]_vars => PathInvariant'
<1> SUFFICES ASSUME Placed, FileTypes, PathInvariant, [Next]_vars
             PROVE  PathInvariant'
  OBVIOUS
<1>1. LinksStep /\ Tree' /\ depth \in [Threads -> Nat] /\ pc \in [Threads -> Steps]
  BY StepOfLinks, TreeStep DEF PathInvariant, Placed
<1>2. ASSUME NEW t \in Threads, DirectoryCall(t)
      PROVE  PathInvariant'
  <2>1. depth' \in [Threads -> Nat] /\ Progress(t)'
    BY <1>1, <1>2, CreateProgresses, VerifyProgresses DEF DirectoryCall
  <2>2. UNCHANGED call /\ \A u \in Threads : u # t => pc'[u] = pc[u] /\ depth'[u] = depth[u]
    BY <1>1, <1>2 DEF DirectoryCall, create, verifyAndCreate, Look, ReadUmask, ResetUmask, Component,
         MakeComponent, RestoreUmask, Verify, VerifyPart, MakePart, Advance, GoTo, system, directoryVars
  <2>3. ASSUME NEW u \in Threads, u # t
        PROVE  Progress(u)'
    BY <1>1, <2>2, <2>3, ProgressStays
  <2>4. QED
    BY <1>1, <2>1, <2>3 DEF PathInvariant
<1>3. ASSUME NEW t \in Threads, FileCall(t)
      PROVE  PathInvariant'
  <2>1. UNCHANGED <<depth, call>> /\ ~Creates(t)
    BY <1>3 DEF FileCall, directoryVars
  <2>2. PICK next \in FileSteps \cup {"returned", "thrown"} : GoTo(t, next)
    BY <1>3 DEF FileCall
  <2>3. pc'[t] = next /\ \A u \in Threads : u # t => pc'[u] = pc[u]
    BY <1>1, <2>2 DEF GoTo
  <2>4. Progress(t)'
    BY <2>1, <2>3 DEF Progress, Creates, FileSteps, CopySteps, WriteSteps, ReadSteps
  <2>5. ASSUME NEW u \in Threads, u # t
        PROVE  Progress(u)'
    BY <1>1, <2>1, <2>3, <2>5, ProgressStays
  <2>6. QED
    BY <1>1, <2>1, <2>4, <2>5 DEF PathInvariant
<1>4. CASE UNCHANGED <<links, data, faults, call, pc, disturbed, blocked, directoryVars, fileVars>>
  <2>1. UNCHANGED <<call, pc, depth>>
    BY <1>4 DEF directoryVars
  <2>2. \A t \in Threads : Progress(t)'
    BY <1>1, <2>1, ProgressStays
  <2>3. QED
    BY <1>1, <2>1, <2>2 DEF PathInvariant
<1>5. QED
  BY <1>2, <1>3, <1>4, StepOfThread

LEMMA PathInvariantInit == Init => PathInvariant
<1> SUFFICES ASSUME Init
             PROVE  PathInvariant
  OBVIOUS
<1>1. Tree
  BY ScenesAssumption DEF Init, SystemInit, Tree
<1>2. depth \in [Threads -> Nat] /\ \A t \in Threads : pc[t] = "start"
  BY DEF Init, SystemInit, DirectoryInit
<1>3. \A t \in Threads : Progress(t)
  BY <1>2 DEF Progress, Returned
<1>4. QED
  BY <1>1, <1>2, <1>3 DEF PathInvariant

(* A call that created a directory and did not fail leaves its whole path  *)
(* there, but for what others put a file at.                               *)
THEOREM MadePathExistsAlways == Spec => []MadePathExists
<1>1. PathInvariant => MadePathExists
  <2> SUFFICES ASSUME PathInvariant
               PROVE  MadePathExists
    OBVIOUS
  <2>1. \A t \in Threads : (Creates(t) /\ Returned(t)) => SettledTo(t, Len(call[t].path))
    BY DEF PathInvariant, Progress
  <2>2. QED
    BY <2>1 DEF MadePathExists, SettledTo, Settled
<1>2. QED
  BY <1>1, PathInvariantInit, PathInvariantStep, PlacedInit, PlacedStep, FileTypesInit, FileTypesStep,
     PTL DEF Spec

-----------------------------------------------------------------------------
(* Threads that create directories, and nothing else.                      *)
AllCreate == \A t \in Threads : Creates(t)

(* No file or link is in the way of anybody.                               *)
Clear == \A p \in DOMAIN links : links[p] \in {NoFile, Dir}

(* A thread has come further than n components, or through.                *)
Beyond(n) == \E u \in Threads : Returned(u) \/ pc[u] = "restore_umask" \/ depth[u] > n

(* Whoever made the directory t saw missing went on.                       *)
MadeByAnother(t, n) == links[Take(call[t].path, n)] = Dir => Beyond(n)

(* A thread fails only at what another one made; or at a root that was     *)
(* missing when it looked.                                                 *)
FailsBehind(t) ==
  /\ pc[t] \in {"mkdir", "make_part"} => MadeByAnother(t, depth[t])
  /\ pc[t] \in {"throw", "thrown", "empty"} =>
       IF depth[t] > 0 THEN Beyond(depth[t])
       ELSE Op(t) = "verifyAndCreate" /\ call[t].root > 0 /\ MadeByAnother(t, call[t].root)

CreatorsInvariant ==
  AllCreate =>
    /\ blocked = {}
    /\ \A t \in Threads : pc[t] \in {"start", "read_umask", "reset_umask"} => depth[t] = 0
    /\ Clear => \A t \in Threads : FailsBehind(t)

(* A step of a call on directories makes at most one, and the thread that  *)
(* makes it goes on.                                                       *)
LEMMA DirectoryLinks ==
  ASSUME Placed, FileTypes, PathInvariant, NEW t \in Threads, DirectoryCall(t)
  PROVE  /\ UNCHANGED blocked
         /\ \/ UNCHANGED links
            \/ /\ IsFree(Prefix(t)) /\ links' = [links EXCEPT ![Prefix(t)] = Dir]
               /\ depth[t] \in 1 .. Len(call[t].path)
               /\ pc'[t] \in {"restore_umask", "returned"} \/ depth'[t] > depth[t]
<1>1. UNCHANGED blocked
  BY DEF DirectoryCall, create, verifyAndCreate, Look, ReadUmask, ResetUmask, Component,
         MakeComponent, RestoreUmask, Verify, VerifyPart, MakePart, system
<1>2. CASE (MakeComponent(t) \/ MakePart(t)) /\ IsFree(Prefix(t))
  <2>1. /\ pc[t] \in {"mkdir", "make_part"} /\ links' = [links EXCEPT ![Prefix(t)] = Dir]
        /\ \E end \in {"restore_umask", "returned"} : Advance(t, "component", end)
    BY <1>2 DEF MakeComponent, MakePart
  <2>2. pc \in [Threads -> Steps] /\ depth \in [Threads -> Nat] /\ depth[t] \in 1 .. Len(call[t].path)
    BY <2>1 DEF Placed, PathInvariant, Progress
  <2>3. pc'[t] \in {"restore_umask", "returned"} \/ depth'[t] > depth[t]
    BY <2>1, <2>2 DEF Advance, GoTo
  <2>4. QED
    BY <1>1, <1>2, <2>1, <2>2, <2>3
<1>3. CASE ~((MakeComponent(t) \/ MakePart(t)) /\ IsFree(Prefix(t)))
  BY <1>1, <1>3 DEF DirectoryCall, create, verifyAndCreate, Look, ReadUmask, ResetUmask, Component,
                    MakeComponent, RestoreUmask, Verify, VerifyPart, MakePart, system
<1>4. QED
  BY <1>2, <1>3

LEMMA DepthGrows ==
  ASSUME Placed, FileTypes, PathInvariant, AllCreate, CreatorsInvariant, NEW t \in Threads, DirectoryCall(t)
  PROVE  /\ depth'[t] \in Nat /\ depth'[t] >= depth[t]
         /\ \A u \in Threads : u # t => pc'[u] = pc[u] /\ depth'[u] = depth[u]
         /\ Returned(t) => pc'[t] = "returned"
         /\ pc[t] = "restore_umask" => pc'[t] = "returned"
         /\ pc'[t] \in {"start", "read_umask", "reset_umask"} => depth'[t] = 0
<1>1. pc \in [Threads -> Steps] /\ depth \in [Threads -> Nat]
  BY DEF Placed, PathInvariant
<1>2. pc[t] \in {"start", "reset_umask", "read_umask"} => depth[t] = 0
  BY DEF CreatorsInvariant
<1>3. \A u \in Threads : u # t => pc'[u] = pc[u] /\ depth'[u] = depth[u]
  BY <1>1 DEF DirectoryCall, create, verifyAndCreate, Look, ReadUmask, ResetUmask, Component, MakeComponent,
       RestoreUmask, Verify, VerifyPart, MakePart, Advance, GoTo, system, directoryVars
<1>4. CASE create(t)
  BY <1>1, <1>2, <1>3, <1>4
     DEF create, Look, ReadUmask, ResetUmask, Component, MakeComponent, RestoreUmask, Advance, GoTo,
         system, directoryVars, Returned
<1>5. CASE verifyAndCreate(t)
  <2>1. CASE Verify(t)
    <3>1. call[t].root \in Nat
      BY <2>1 DEF Verify, FileTypes, StoreTypes, MadeOn, PathInvariant, Tree
    <3>2. QED
      BY <1>1, <1>2, <1>3, <2>1, <3>1 DEF Verify, GoTo, Returned
  <2>2. CASE VerifyPart(t) \/ MakePart(t)
    BY <1>1, <1>3, <2>2 DEF VerifyPart, MakePart, Advance, GoTo, Returned
  <2>3. QED
    BY <1>5, <2>1, <2>2 DEF verifyAndCreate
<1>6. QED
  BY <1>4, <1>5 DEF DirectoryCall

LEMMA BeyondStays ==
  ASSUME Placed, FileTypes, PathInvariant, AllCreate, CreatorsInvariant, NEW t \in Threads, DirectoryCall(t),
         NEW n \in Nat, Beyond(n)
  PROVE  Beyond(n)'
<1>1. PICK u \in Threads : Returned(u) \/ pc[u] = "restore_umask" \/ depth[u] > n
  BY DEF Beyond
<1>2. depth \in [Threads -> Nat]
  BY DEF PathInvariant
<1>3. pc'[u] = "returned" \/ pc'[u] = "restore_umask" \/ depth'[u] > n
  BY <1>1, <1>2, DepthGrows DEF Returned
<1>4. QED
  BY <1>3 DEF Beyond, Returned

LEMMA TakeLength ==
  ASSUME FileTypes, Tree, NEW t \in Threads, NEW n \in 0 .. Len(call[t].path)
  PROVE  Len(Take(call[t].path, n)) = n
<1>1. call[t].path \in Seq(STRING) /\ Len(call[t].path) \in Nat
  BY PathOfCall
<1>2. n \in 0 .. n
  BY <1>1
<1>3. QED
  BY <1>1, <1>2, TakeOfTake

(* The way is as clear before a step as after it.                          *)
LEMMA ClearBefore ==
  ASSUME Placed, FileTypes, PathInvariant, NEW t \in Threads, DirectoryCall(t), Clear'
  PROVE  Clear
<1>1. links \in [DOMAIN links -> Kinds \cup DOMAIN data]
  BY DEF FileTypes, StoreTypes
<1>2. ASSUME NEW p \in DOMAIN links
      PROVE  links[p] \in {NoFile, Dir}
  <2>1. links' = links \/ (IsFree(Prefix(t)) /\ links' = [links EXCEPT ![Prefix(t)] = Dir])
    BY DirectoryLinks
  <2>2. links'[p] \in {NoFile, Dir}
    BY <1>1, <2>1 DEF Clear
  <2>3. CASE p = Prefix(t) /\ IsFree(p)
    BY <2>3 DEF IsFree, Exists
  <2>4. QED
    BY <1>1, <2>1, <2>2, <2>3
<1>3. QED
  BY <1>2 DEF Clear

(* A directory that was seen missing is made by a thread that goes on.     *)
LEMMA MadeStays ==
  ASSUME Placed, FileTypes, PathInvariant, AllCreate, CreatorsInvariant,
         NEW v \in Threads, DirectoryCall(v),
         NEW t \in Threads, NEW n \in 1 .. Len(call[t].path), MadeByAnother(t, n),
         links'[Take(call[t].path, n)] = Dir
  PROVE  Beyond(n)'
<1>1. /\ Len(call[t].path) \in Nat /\ n \in Nat
      /\ Take(call[t].path, n) \in DOMAIN links /\ Len(Take(call[t].path, n)) = n
  BY PathOfCall, TakeLength DEF PathInvariant
<1>2. CASE links[Take(call[t].path, n)] = Dir
  BY <1>1, <1>2, BeyondStays DEF MadeByAnother
<1>3. CASE links[Take(call[t].path, n)] # Dir
  <2>1. /\ Prefix(v) = Take(call[t].path, n) /\ depth[v] \in 1 .. Len(call[v].path)
        /\ pc'[v] \in {"restore_umask", "returned"} \/ depth'[v] > depth[v]
    BY <1>1, <1>3, DirectoryLinks
  <2>2. Len(call[v].path) \in Nat
    BY PathOfCall DEF PathInvariant
  <2>3. Len(Prefix(v)) = depth[v]
    BY <2>1, <2>2, TakeLength DEF Prefix, PathInvariant
  <2>4. depth[v] = n
    BY <1>1, <2>1, <2>3
  <2>5. QED
    BY <2>1, <2>4 DEF Beyond, Returned
<1>4. QED
  BY <1>2, <1>3

(* A thread that makes no step.                                            *)
LEMMA OthersFailBehind ==
  ASSUME Placed, FileTypes, PathInvariant, AllCreate, CreatorsInvariant,
         NEW v \in Threads, DirectoryCall(v), UNCHANGED call,
         NEW t \in Threads, t # v, FailsBehind(t)
  PROVE  FailsBehind(t)'
<1>1. pc'[t] = pc[t] /\ depth'[t] = depth[t] /\ depth[t] \in Nat /\ Len(call[t].path) \in Nat
  BY DepthGrows, PathOfCall DEF PathInvariant
<1>2. ASSUME NEW n \in 1 .. Len(call[t].path), MadeByAnother(t, n)
      PROVE  MadeByAnother(t, n)'
  BY <1>2, MadeStays DEF MadeByAnother
<1>3. pc[t] \in {"mkdir", "make_part"} => MadeByAnother(t, depth[t])'
  <2>1. SUFFICES ASSUME pc[t] \in {"mkdir", "make_part"}
                 PROVE  MadeByAnother(t, depth[t])'
    OBVIOUS
  <2>2. PICK d \in 1 .. Len(call[t].path) : d = depth[t]
    BY <2>1 DEF PathInvariant, Progress
  <2>3. MadeByAnother(t, d)'
    BY <1>2, <2>1, <2>2 DEF FailsBehind
  <2>4. QED
    BY <1>1, <2>2, <2>3
<1>4. pc[t] \in {"throw", "thrown", "empty"} =>
        IF depth[t] > 0 THEN Beyond(depth[t])'
        ELSE Op(t) = "verifyAndCreate" /\ call[t].root > 0 /\ MadeByAnother(t, call[t].root)'
  <2>1. SUFFICES ASSUME pc[t] \in {"throw", "thrown", "empty"}
                 PROVE  IF depth[t] > 0 THEN Beyond(depth[t])'
                        ELSE Op(t) = "verifyAndCreate" /\ call[t].root > 0 /\ MadeByAnother(t, call[t].root)'
    OBVIOUS
  <2>2. CASE depth[t] > 0
    <3>1. PICK d \in Nat : d = depth[t]
      BY <1>1
    <3>2. Beyond(d)'
      BY <2>1, <2>2, <3>1, BeyondStays DEF FailsBehind
    <3>3. QED
      BY <1>1, <2>2, <3>1, <3>2
  <2>3. CASE ~(depth[t] > 0)
    <3>1. Op(t) = "verifyAndCreate" /\ call[t].root > 0 /\ MadeByAnother(t, call[t].root)
      BY <2>1, <2>3 DEF FailsBehind
    <3>2. PICK n \in 1 .. Len(call[t].path) : n = call[t].root
      BY <1>1, <3>1 DEF FileTypes, StoreTypes, MadeOn, Op
    <3>3. MadeByAnother(t, n)'
      BY <1>2, <3>1, <3>2
    <3>4. QED
      BY <2>3, <3>1, <3>2, <3>3
  <2>4. QED
    BY <2>2, <2>3
<1>5. QED
  BY <1>1, <1>3, <1>4 DEF FailsBehind, Op

(* mkdir fails only where the directory is by now.                         *)
LEMMA MkdirFails ==
  ASSUME Placed, FileTypes, PathInvariant, blocked = {}, Clear, NEW t \in Threads,
         pc[t] \in {"mkdir", "make_part"}, ~IsFree(Prefix(t)), MadeByAnother(t, depth[t])
  PROVE  depth[t] > 0 /\ Beyond(depth[t])
<1> DEFINE path == call[t].path
<1>1. /\ depth[t] \in 1 .. Len(path) /\ SettledTo(t, depth[t] - 1) /\ Len(path) \in Nat /\ path \in Seq(STRING)
      /\ \A n \in 1 .. Len(path) : Take(path, n) \in DOMAIN links
  BY PathOfCall DEF PathInvariant, Progress
<1>2. PICK d \in 1 .. Len(path) : d = depth[t]
  BY <1>1
<1>3. Prefix(t) = Take(path, d) /\ Take(path, d) \in DOMAIN links
  BY <1>1, <1>2 DEF Prefix
<1>4. Parent(Prefix(t)) = Take(path, d - 1)
  <2>1. d \in 0 .. Len(path) /\ d - 1 \in 0 .. d /\ d \in Nat
    BY <1>1
  <2>2. Len(Take(path, d)) = d /\ Take(Take(path, d), d - 1) = Take(path, d - 1)
    BY <1>1, <2>1, TakeOfTake
  <2>3. QED
    BY <1>3, <2>2 DEF Parent, Take
<1>5. IsDir(Parent(Prefix(t)))
  <2>1. CASE d = 1
    BY <1>1, <1>4, <2>1 DEF IsDir, Take
  <2>2. CASE d # 1
    <3>1. d - 1 \in 1 .. depth[t] - 1
      BY <1>1, <1>2, <2>2
    <3>2. Settled(Take(path, d - 1))
      BY <1>1, <3>1 DEF SettledTo
    <3>3. QED
      BY <1>4, <3>2 DEF Settled
  <2>3. QED
    BY <2>1, <2>2
<1>6. links[Take(path, d)] = Dir
  <2>1. Take(path, d) # <<>>
    BY <1>3 DEF PathInvariant, Tree
  <2>2. links[Take(path, d)] # NoFile
    BY <1>3, <1>5, <2>1 DEF IsFree, Exists
  <2>3. QED
    BY <1>3, <2>2 DEF Clear
<1>7. QED
  BY <1>1, <1>2, <1>6 DEF MadeByAnother

LEMMA OwnFailsBehind ==
  ASSUME Placed, FileTypes, PathInvariant, AllCreate, CreatorsInvariant, Clear,
         NEW t \in Threads, DirectoryCall(t), UNCHANGED call, FailsBehind(t)
  PROVE  FailsBehind(t)'
<1> DEFINE path == call[t].path
<1>1. /\ pc \in [Threads -> Steps] /\ depth \in [Threads -> Nat] /\ blocked = {}
      /\ path \in Seq(STRING) /\ path # <<>> /\ Len(path) \in Nat \ {0}
      /\ path \in DOMAIN links /\ Take(path, Len(path)) = path
      /\ \A n \in 1 .. Len(path) : Take(path, n) \in DOMAIN links
  BY PathOfCall DEF Placed, PathInvariant, CreatorsInvariant, Tree
<1>2. pc[t] \in {"component", "mkdir", "make_part"} =>
        /\ depth[t] \in 1 .. Len(path)
        /\ Prefix(t) \in DOMAIN links /\ Prefix(t) = Take(path, depth[t])
  BY <1>1 DEF PathInvariant, Progress, Prefix
<1>3. CASE pc'[t] \in {"mkdir", "make_part"}
  <2>1. UNCHANGED <<links, depth>> /\ links[Prefix(t)] # Dir
    BY SMTT(60), <1>1, <1>2, <1>3, DirectoryLinks
       DEF DirectoryCall, create, verifyAndCreate, Look, ReadUmask, ResetUmask, Component, MakeComponent,
           RestoreUmask, Verify, VerifyPart, MakePart, Advance, GoTo, IsMissing, Exists,
           existsAndIsDirectory, system, NoFile, Dir
  <2>2. MadeByAnother(t, depth[t])'
    BY <2>1 DEF MadeByAnother, Prefix
  <2>3. QED
    BY <1>3, <2>2 DEF FailsBehind
<1>4. CASE pc'[t] \in {"throw", "thrown", "empty"}
  <2>1. CASE pc[t] = "throw"
    <3>1. depth' = depth /\ pc'[t] = "thrown" /\ Op(t) = "create"
      BY <1>1, <1>4, <2>1
         DEF DirectoryCall, create, verifyAndCreate, Look, ReadUmask, ResetUmask, Component, MakeComponent,
             RestoreUmask, Verify, VerifyPart, MakePart, GoTo, Placed, CreateSteps, VerifySteps
    <3>2. depth[t] > 0 /\ Beyond(depth[t])
      BY <2>1, <3>1 DEF FailsBehind
    <3>3. PICK d \in Nat : d = depth[t]
      BY <1>1
    <3>4. Beyond(d)'
      BY <3>2, <3>3, BeyondStays
    <3>5. QED
      BY <3>1, <3>2, <3>3, <3>4 DEF FailsBehind
  <2>2. CASE pc[t] \in {"mkdir", "make_part"}
    <3>1. depth' = depth /\ ~IsFree(Prefix(t))
      BY <1>1, <1>4, <2>2
         DEF DirectoryCall, create, verifyAndCreate, Look, ReadUmask, ResetUmask, Component, MakeComponent,
             RestoreUmask, Verify, VerifyPart, MakePart, Advance, GoTo
    <3>2. depth[t] > 0 /\ Beyond(depth[t])
      BY <1>1, <2>2, <3>1, MkdirFails DEF FailsBehind
    <3>3. PICK d \in Nat : d = depth[t]
      BY <1>1
    <3>4. Beyond(d)'
      BY <3>2, <3>3, BeyondStays
    <3>5. QED
      BY <1>4, <3>1, <3>2, <3>3, <3>4 DEF FailsBehind
  <2>3. CASE Look(t)
    BY <1>1, <1>4, <2>3 DEF Look, GoTo, Exists, IsDir, Clear
  <2>4. CASE Component(t)
    BY <1>1, <1>2, <1>4, <2>4 DEF Component, Advance, IsMissing, GoTo, Exists, IsDir, Clear
  <2>5. CASE Verify(t)
    <3>1. /\ call[t].root \in 0 .. Len(path) /\ UNCHANGED <<links, depth>> /\ pc'[t] = "empty"
          /\ depth[t] = 0 /\ Op(t) = "verifyAndCreate" /\ ~existsAndIsDirectory(Take(path, call[t].root))
      BY <1>1, <1>4, <2>5 DEF Verify, GoTo, FileTypes, StoreTypes, MadeOn, CreatorsInvariant, Op, system
    <3>2. links[Take(path, call[t].root)] # Dir /\ call[t].root # 0
      BY <1>1, <3>1 DEF existsAndIsDirectory, Take
    <3>3. MadeByAnother(t, call[t].root)'
      BY <3>1, <3>2 DEF MadeByAnother
    <3>4. call[t].root > 0
      BY <1>1, <3>1, <3>2
    <3>5. QED
      BY <3>1, <3>3, <3>4 DEF FailsBehind, Op
  <2>6. QED
    BY <1>1, <1>4, <2>1, <2>2, <2>3, <2>4, <2>5
       DEF DirectoryCall, create, verifyAndCreate, ReadUmask, ResetUmask, MakeComponent,
           RestoreUmask, VerifyPart, MakePart, Advance, GoTo
<1>5. CASE pc'[t] \notin {"mkdir", "make_part", "throw", "thrown", "empty"}
  BY <1>5 DEF FailsBehind
<1>6. QED
  BY <1>3, <1>4, <1>5

LEMMA CreatorsStep ==
  Placed /\ FileTypes /\ PathInvariant /\ CreatorsInvariant /\ [Next]_vars => CreatorsInvariant'
<1> SUFFICES ASSUME Placed, FileTypes, PathInvariant, CreatorsInvariant, [Next]_vars, AllCreate'
             PROVE  /\ blocked' = {}
                    /\ \A t \in Threads : pc'[t] \in {"start", "read_umask", "reset_umask"} => depth'[t] = 0
                    /\ Clear' => \A t \in Threads : FailsBehind(t)'
  BY DEF CreatorsInvariant
<1>1. ASSUME NEW v \in Threads, DirectoryCall(v)
      PROVE  /\ blocked' = {}
             /\ \A t \in Threads : pc'[t] \in {"start", "read_umask", "reset_umask"} => depth'[t] = 0
             /\ Clear' => \A t \in Threads : FailsBehind(t)'
  <2>1. UNCHANGED call /\ AllCreate
    BY <1>1, DirectoryCallSteps DEF AllCreate, Creates
  <2>2. blocked' = {}
    BY <1>1, <2>1, DirectoryLinks DEF CreatorsInvariant
  <2>3. \A t \in Threads : pc'[t] \in {"start", "read_umask", "reset_umask"} => depth'[t] = 0
    BY <1>1, <2>1, DepthGrows DEF CreatorsInvariant
  <2>4. ASSUME Clear', NEW t \in Threads
        PROVE  FailsBehind(t)'
    <3>1. Clear /\ FailsBehind(t)
      BY <1>1, <2>1, <2>4, ClearBefore DEF CreatorsInvariant
    <3>2. QED
      BY <1>1, <2>1, <3>1, OwnFailsBehind, OthersFailBehind
  <2>5. QED
    BY <2>2, <2>3, <2>4
<1>2. ASSUME NEW t \in Threads, FileCall(t)
      PROVE  FALSE
  BY <1>2 DEF FileCall, AllCreate, Creates
<1>3. CASE UNCHANGED <<links, data, faults, call, pc, disturbed, blocked, directoryVars, fileVars>>
  BY <1>3 DEF directoryVars, CreatorsInvariant, AllCreate, Creates, Clear, FailsBehind, MadeByAnother,
              Beyond, Returned, Op
<1>4. QED
  BY <1>1, <1>2, <1>3, StepOfThread

LEMMA CreatorsInit == Init => CreatorsInvariant
BY DEF Init, SystemInit, DirectoryInit, CreatorsInvariant, FailsBehind

(* No thread comes further than its path.                                  *)
DepthInPath == \A t \in Threads : depth[t] \in 0 .. Len(call[t].path)

LEMMA DepthInit == Init => DepthInPath
<1> SUFFICES ASSUME Init, NEW t \in Threads
             PROVE  depth[t] \in 0 .. Len(call[t].path)
  BY DEF DepthInPath
<1>1. depth[t] = 0 /\ Len(call[t].path) \in Nat
  BY PathOfCall, FileTypesInit, PathInvariantInit DEF Init, DirectoryInit, PathInvariant
<1>2. QED
  BY <1>1

LEMMA DepthStep == Placed /\ FileTypes /\ PathInvariant /\ DepthInPath /\ [Next]_vars => DepthInPath'
<1> SUFFICES ASSUME Placed, FileTypes, PathInvariant, DepthInPath, [Next]_vars
             PROVE  DepthInPath'
  OBVIOUS
<1>1. PathInvariant' /\ depth \in [Threads -> Nat] /\ pc \in [Threads -> Steps]
  BY PathInvariantStep DEF PathInvariant, Placed
<1>2. ASSUME NEW t \in Threads, DirectoryCall(t)
      PROVE  DepthInPath'
  <2>1. UNCHANGED call
    BY <1>2, DirectoryCallSteps
  <2>2. \A u \in Threads : u # t => depth'[u] = depth[u]
    BY <1>1, <1>2 DEF DirectoryCall, create, verifyAndCreate, Look, ReadUmask, ResetUmask, Component,
         MakeComponent, RestoreUmask, Verify, VerifyPart, MakePart, Advance, system, directoryVars
  <2>3. depth'[t] = depth[t] \/ pc'[t] = "component"
    BY <1>1, <1>2 DEF DirectoryCall, create, verifyAndCreate, Look, ReadUmask, ResetUmask, Component,
         MakeComponent, RestoreUmask, Verify, VerifyPart, MakePart, Advance, GoTo, system, directoryVars
  <2>4. pc'[t] = "component" => depth'[t] \in 1 .. Len(call'[t].path)
    BY <1>1 DEF PathInvariant, Progress
  <2>5. depth'[t] \in 0 .. Len(call'[t].path)
    BY <2>1, <2>3, <2>4 DEF DepthInPath
  <2>6. QED
    BY <2>1, <2>2, <2>5 DEF DepthInPath
<1>3. CASE UNCHANGED <<depth, call>>
  BY <1>3 DEF DepthInPath
<1>4. QED
  BY <1>2, <1>3, StepOfThread DEF FileCall, directoryVars

(* Every set of numbers has a least one.                                   *)
Less == {p \in Nat \X Nat : p[1] < p[2]}

LEMMA LeastNat ==
  ASSUME NEW T, T \subseteq Nat, T # {}
  PROVE  \E x \in T : \A y \in T : x <= y
<1>1. IsWellFoundedOn(Less, Nat)
  BY NatLessThanWellFounded, Zenon DEF OpToRel, Less
<1>2. PICK x \in T : \A y \in T : ~ (<<y, x>> \in Less)
  BY <1>1, WFMin, Zenon
<1>3. ASSUME NEW y \in T
      PROVE  x <= y
  <2>1. ~(y < x)
    BY <1>2 DEF Less
  <2>2. QED
    BY <2>1
<1>4. QED
  BY <1>2, <1>3

(* Of threads that make the same directories at least one succeeds: one    *)
(* that fails does so behind another one that came further, and paths have *)
(* an end.                                                                 *)
THEOREM SomeCreatorWinsAlways ==
  ASSUME NEW bound \in Nat, \A s \in Scenes : \A p \in DOMAIN s.links : Len(p) <= bound
  PROVE  Spec => []SomeCreatorWins
<1> DEFINE Bounded == \A p \in DOMAIN links : Len(p) <= bound
<1>1. Init => Bounded
  BY DEF Init, SystemInit
<1>2. Bounded /\ Placed /\ FileTypes /\ [Next]_vars => Bounded'
  BY StepOfLinks DEF LinksStep
<1>3. Bounded /\ FileTypes /\ PathInvariant /\ DepthInPath /\ CreatorsInvariant => SomeCreatorWins
  <2> SUFFICES ASSUME Bounded, FileTypes, PathInvariant, DepthInPath, CreatorsInvariant,
                      \A t \in Threads : Creates(t) /\ Ended(t), Clear,
                      NEW w \in Threads,
                      Op(w) = "create" \/ existsAndIsDirectory(Take(call[w].path, call[w].root)),
                      \A t \in Threads : ~Returned(t)
               PROVE  FALSE
    BY DEF SomeCreatorWins, Clear, Op
  <2>1. \A t \in Threads : FailsBehind(t) /\ pc[t] \in {"thrown", "empty"}
    BY DEF CreatorsInvariant, AllCreate, Ended, Returned
  <2>2. \A n \in Nat : Beyond(n) => \E u \in Threads : depth[u] > n
    BY <2>1 DEF Beyond
  <2>3. depth \in [Threads -> Nat]
    BY DEF PathInvariant
  <2>4. \E t \in Threads : depth[t] > 0
    <3>1. CASE depth[w] > 0
      BY <3>1
    <3>2. CASE ~(depth[w] > 0)
      <4>1. /\ Op(w) = "verifyAndCreate" /\ call[w].root > 0 /\ MadeByAnother(w, call[w].root)
            /\ call[w].root \in 1 .. Len(call[w].path) /\ Len(call[w].path) \in Nat
        <5>1. Op(w) = "verifyAndCreate" /\ call[w].root > 0 /\ MadeByAnother(w, call[w].root)
          BY <2>1, <3>2 DEF FailsBehind
        <5>2. Len(call[w].path) \in Nat
          BY PathOfCall DEF PathInvariant
        <5>3. call[w].root \in 0 .. Len(call[w].path)
          BY <5>1 DEF FileTypes, StoreTypes, MadeOn, Op
        <5>4. QED
          BY <5>1, <5>2, <5>3
      <4>2. Len(Take(call[w].path, call[w].root)) = call[w].root
        BY <4>1, TakeLength DEF PathInvariant
      <4>3. links[Take(call[w].path, call[w].root)] = Dir
        BY <4>1, <4>2 DEF existsAndIsDirectory
      <4>4. Beyond(call[w].root)
        BY <4>1, <4>3 DEF MadeByAnother
      <4>5. QED
        BY <2>2, <2>3, <4>1, <4>4
    <3>3. QED
      BY <3>1, <3>2
  <2>5. \A t \in Threads : depth[t] > 0 => \E u \in Threads : depth[u] > depth[t]
    BY <2>1, <2>2, <2>3 DEF FailsBehind
  <2>6. \A t \in Threads : depth[t] \in Nat /\ depth[t] <= bound
    <3>1. \A t \in Threads : call[t].path \in DOMAIN links /\ Len(call[t].path) \in Nat
      BY PathOfCall DEF PathInvariant
    <3>2. QED
      BY <3>1 DEF DepthInPath
  <2> DEFINE left == {n \in Nat : \E t \in Threads : depth[t] > 0 /\ n = bound - depth[t]}
  <2>7. left # {} /\ left \subseteq Nat
    <3>1. PICK t \in Threads : depth[t] > 0
      BY <2>4
    <3>2. bound - depth[t] \in left
      BY <2>6, <3>1
    <3>3. QED
      BY <3>2
  <2>8. \A n \in left : \E m \in left : m < n
    <3> SUFFICES ASSUME NEW n \in left
                 PROVE  \E m \in left : m < n
      OBVIOUS
    <3>1. PICK t \in Threads : depth[t] > 0 /\ n = bound - depth[t]
      OBVIOUS
    <3>2. PICK u \in Threads : depth[u] > depth[t]
      BY <2>5, <3>1
    <3>3. bound - depth[u] \in left /\ bound - depth[u] < n
      BY <2>6, <3>1, <3>2
    <3>4. QED
      BY <3>3
  <2> HIDE DEF left
  <2>9. PICK n \in left : \A m \in left : n <= m
    BY <2>7, LeastNat
  <2>10. QED
    BY <2>7, <2>8, <2>9
<1>4. QED
  BY <1>1, <1>2, <1>3, PathInvariantInit, PathInvariantStep, PlacedInit, PlacedStep, FileTypesInit,
     FileTypesStep, CreatorsInit, CreatorsStep, DepthInit, DepthStep, PTL DEF Spec

-----------------------------------------------------------------------------
(* What is in the files.                                                   *)

LEMMA TakeIs ==
  ASSUME NEW s \in Seq(Nat), NEW n \in 0 .. Len(s)
  PROVE  Take(s, n) \in Seq(Nat) /\ Len(Take(s, n)) = n /\ \A i \in 1 .. n : Take(s, n)[i] = s[i]
BY DEF Take

LEMMA PartIs ==
  ASSUME NEW s \in Seq(Nat), NEW m \in 0 .. Len(s), NEW n \in m .. Len(s)
  PROVE  /\ SubSeq(s, m + 1, n) \in Seq(Nat) /\ Len(SubSeq(s, m + 1, n)) = n - m
         /\ \A i \in 1 .. n - m : SubSeq(s, m + 1, n)[i] = s[m + i]
OBVIOUS

LEMMA SameUnits ==
  ASSUME NEW r \in Seq(Nat), NEW s \in Seq(Nat), Len(r) = Len(s), \A i \in 1 .. Len(s) : r[i] = s[i]
  PROVE  r = s
OBVIOUS

UnitAt(old, n, units, i) ==
  IF i \in n + 1 .. n + Len(units) THEN units[i - n]
  ELSE IF i <= Len(old) THEN old[i] ELSE 0

LEMMA OverlaidIs ==
  ASSUME NEW old \in Seq(Nat), NEW n \in Nat, NEW units \in Seq(Nat)
  PROVE  /\ Overlaid(old, n, units) \in Seq(Nat)
         /\ Len(Overlaid(old, n, units)) =
              IF n + Len(units) > Len(old) THEN n + Len(units) ELSE Len(old)
         /\ \A i \in 1 .. Len(Overlaid(old, n, units)) :
              Overlaid(old, n, units)[i] = UnitAt(old, n, units, i)
<1> DEFINE L == IF n + Len(units) > Len(old) THEN n + Len(units) ELSE Len(old)
<1>1. L \in Nat
  OBVIOUS
<1>2. Overlaid(old, n, units) \in Seq(Nat)
  BY OverlaidType
<1>3. DOMAIN Overlaid(old, n, units) = 1 .. L
  BY DEF Overlaid
<1>4. Len(Overlaid(old, n, units)) = L
  BY <1>1, <1>2, <1>3
<1>5. QED
  BY <1>2, <1>4 DEF Overlaid, UnitAt

(* The beginning of whole is written over old.                             *)
LEMMA OverlaidPrefix ==
  ASSUME NEW old \in Seq(Nat), NEW whole \in Seq(Nat), NEW n \in 0 .. Len(whole)
  PROVE  /\ Overlaid(old, 0, Take(whole, n)) \in Seq(Nat)
         /\ Len(Overlaid(old, 0, Take(whole, n))) = IF n > Len(old) THEN n ELSE Len(old)
         /\ \A i \in 1 .. Len(Overlaid(old, 0, Take(whole, n))) :
              Overlaid(old, 0, Take(whole, n))[i] = IF i <= n THEN whole[i] ELSE old[i]
<1>1. /\ Len(whole) \in Nat /\ n \in Nat /\ Len(old) \in Nat
  OBVIOUS
<1>2. PICK units \in Seq(Nat) : units = Take(whole, n)
  BY TakeIs
<1>3. Len(units) = n /\ \A i \in 1 .. n : units[i] = whole[i]
  BY <1>2, TakeIs
<1>4. PICK all \in Seq(Nat) : all = Overlaid(old, 0, units)
  BY <1>1, OverlaidType
<1>5. /\ Len(all) = IF 0 + Len(units) > Len(old) THEN 0 + Len(units) ELSE Len(old)
      /\ \A i \in 1 .. Len(all) : all[i] = UnitAt(old, 0, units, i)
  BY <1>1, <1>4, OverlaidIs
<1>6. Len(all) = IF n > Len(old) THEN n ELSE Len(old)
  BY <1>1, <1>3, <1>5
<1>7. ASSUME NEW i \in 1 .. Len(all)
      PROVE  all[i] = IF i <= n THEN whole[i] ELSE old[i]
  BY <1>1, <1>3, <1>5, <1>6 DEF UnitAt
<1>8. QED
  BY <1>2, <1>4, <1>6, <1>7

(* Nothing is written yet, more is written, and all of what is there.      *)
LEMMA OverlaidNothing ==
  ASSUME NEW old \in Seq(Nat), NEW whole \in Seq(Nat)
  PROVE  Overlaid(old, 0, Take(whole, 0)) = old
<1>1. 0 \in 0 .. Len(whole) /\ Len(old) \in Nat
  OBVIOUS
<1>2. PICK all \in Seq(Nat) : all = Overlaid(old, 0, Take(whole, 0))
  BY <1>1, OverlaidPrefix
<1>3. Len(all) = (IF 0 > Len(old) THEN 0 ELSE Len(old)) /\ \A i \in 1 .. Len(all) : all[i] = IF i <= 0 THEN whole[i] ELSE old[i]
  BY <1>1, <1>2, OverlaidPrefix
<1>4. Len(all) = Len(old) /\ \A i \in 1 .. Len(old) : all[i] = old[i]
  BY <1>1, <1>3
<1>5. QED
  BY <1>2, <1>4, SameUnits

LEMMA OverlaidItself ==
  ASSUME NEW whole \in Seq(Nat), NEW n \in 0 .. Len(whole)
  PROVE  Overlaid(whole, 0, Take(whole, n)) = whole
<1>1. Len(whole) \in Nat /\ n \in Nat /\ n <= Len(whole)
  OBVIOUS
<1>2. PICK all \in Seq(Nat) : all = Overlaid(whole, 0, Take(whole, n))
  BY OverlaidPrefix
<1>3. /\ Len(all) = (IF n > Len(whole) THEN n ELSE Len(whole))
      /\ \A i \in 1 .. Len(all) : all[i] = IF i <= n THEN whole[i] ELSE whole[i]
  BY <1>2, OverlaidPrefix
<1>4. Len(all) = Len(whole) /\ \A i \in 1 .. Len(whole) : all[i] = whole[i]
  BY <1>1, <1>3
<1>5. QED
  BY <1>2, <1>4, SameUnits

(* What whole holds after m units begins with these.                       *)
Continues(whole, m, units) ==
  /\ m + Len(units) <= Len(whole)
  /\ \A i \in 1 .. Len(units) : units[i] = whole[m + i]

LEMMA OverlaidMore ==
  ASSUME NEW old \in Seq(Nat), NEW whole \in Seq(Nat),
         NEW m \in Nat, NEW units \in Seq(Nat), Continues(whole, m, units)
  PROVE  Overlaid(Overlaid(old, 0, Take(whole, m)), m, units) =
           Overlaid(old, 0, Take(whole, m + Len(units)))
<1>0. PICK n \in Nat : n = Len(units)
  OBVIOUS
<1>1. /\ m \in 0 .. Len(whole) /\ m + n \in 0 .. Len(whole) /\ m + n \in Nat
      /\ Len(old) \in Nat /\ Len(whole) \in Nat
  BY <1>0 DEF Continues
<1>2. PICK before \in Seq(Nat) : before = Overlaid(old, 0, Take(whole, m))
  BY <1>1, OverlaidPrefix
<1>3. /\ Len(before) = IF m > Len(old) THEN m ELSE Len(old)
      /\ \A i \in 1 .. Len(before) : before[i] = IF i <= m THEN whole[i] ELSE old[i]
  BY <1>1, <1>2, OverlaidPrefix
<1>4. PICK after \in Seq(Nat) : after = Overlaid(old, 0, Take(whole, m + n))
  BY <1>1, OverlaidPrefix
<1>5. /\ Len(after) = IF m + n > Len(old) THEN m + n ELSE Len(old)
      /\ \A i \in 1 .. Len(after) : after[i] = IF i <= m + n THEN whole[i] ELSE old[i]
  <2>1. PICK k \in 0 .. Len(whole) : k = m + n
    BY <1>1
  <2>2. after = Overlaid(old, 0, Take(whole, k))
    BY <1>4, <2>1
  <2>3. /\ Len(after) = IF k > Len(old) THEN k ELSE Len(old)
        /\ \A i \in 1 .. Len(after) : after[i] = IF i <= k THEN whole[i] ELSE old[i]
    BY <2>2, OverlaidPrefix
  <2>4. QED
    BY <2>1, <2>3
<1>6. PICK all \in Seq(Nat) : all = Overlaid(before, m, units)
  BY OverlaidType
<1>7. /\ Len(all) = IF m + n > Len(before) THEN m + n ELSE Len(before)
      /\ \A i \in 1 .. Len(all) : all[i] = UnitAt(before, m, units, i)
  BY <1>0, <1>6, OverlaidIs, SMTT(30)
<1>8. Len(all) = Len(after)
  <2>1. /\ Len(before) = IF m > Len(old) THEN m ELSE Len(old)
        /\ Len(after) = IF m + n > Len(old) THEN m + n ELSE Len(old)
        /\ Len(all) = IF m + n > Len(before) THEN m + n ELSE Len(before)
    BY <1>3, <1>5, <1>7
  <2>2. QED
    BY SMTT(30), <1>1, <2>1
<1>9. ASSUME NEW i \in 1 .. Len(after)
      PROVE  all[i] = after[i]
  <2>1. i \in Nat /\ i >= 1 /\ i <= Len(after)
    BY <1>5
  <2>2. CASE i \in m + 1 .. m + n
    <3>1. all[i] = units[i - m]
      BY <1>0, <1>7, <1>8, <2>2 DEF UnitAt
    <3>2. units[i - m] = whole[i]
      <4>1. PICK j \in 1 .. n : j = i - m
        BY <1>1, <2>1, <2>2
      <4>2. units[j] = whole[m + j]
        BY <1>0 DEF Continues
      <4>3. m + j = i
        BY <1>1, <2>1, <4>1
      <4>4. QED
        BY <4>1, <4>2, <4>3
    <3>3. after[i] = whole[i]
      BY <1>1, <1>5, <2>2
    <3>4. QED
      BY <3>1, <3>2, <3>3
  <2>3. CASE i \notin m + 1 .. m + n
    <3>1. i <= Len(before) /\ i \in 1 .. Len(before)
      BY <1>1, <1>3, <1>5, <2>1, <2>3
    <3>2. all[i] = before[i]
      BY <1>0, <1>7, <1>8, <2>3, <3>1 DEF UnitAt
    <3>3. i <= m \/ i > m + n
      BY <1>1, <2>1, <2>3
    <3>4. CASE i <= m
      <4>1. i <= m + n
        BY <1>1, <2>1, <3>4
      <4>2. QED
        BY <1>3, <1>5, <3>1, <3>2, <3>4, <4>1
    <3>5. CASE i > m + n
      <4>1. ~(i <= m + n) /\ ~(i <= m)
        BY <1>1, <2>1, <3>5
      <4>2. QED
        BY <1>3, <1>5, <3>1, <3>2, <4>1
    <3>6. QED
      BY <3>3, <3>4, <3>5
  <2>4. QED
    BY <2>2, <2>3
<1>10. all = after
  BY <1>8, <1>9, SameUnits
<1>11. QED
  BY <1>0, <1>2, <1>4, <1>6, <1>10

(* A step of another thread leaves a thread alone, and the files it uses   *)
(* too, or it disturbs the thread.                                         *)
Spared(t) ==
  /\ pc'[t] = pc[t] /\ call' = call
  /\ from'[t] = from[t] /\ dest'[t] = dest[t] /\ offset'[t] = offset[t] /\ written'[t] = written[t]
  /\ buffer'[t] = buffer[t] /\ size'[t] = size[t] /\ got'[t] = got[t] /\ origin'[t] = origin[t]
  /\ disturbed[t] => disturbed'[t]
  /\ ~disturbed'[t] =>
       \A i \in DOMAIN data : i \in {from[t], dest[t], origin[t].file} => data'[i] = data[i]

(* Of a step that changes at most one file, and what thread v has open.    *)
LEMMA SparedBy ==
  ASSUME NEW v \in Threads, NEW t \in Threads, t # v, NEW f,
         \A i \in DOMAIN data : i # f => data'[i] = data[i],
         Disturb(v, f) \/ (UNCHANGED disturbed /\ (f \in DOMAIN data => data'[f] = data[f])),
         call' = call, pc'[t] = pc[t],
         from'[t] = from[t], dest'[t] = dest[t], offset'[t] = offset[t], written'[t] = written[t],
         buffer'[t] = buffer[t], size'[t] = size[t], got'[t] = got[t], origin'[t] = origin[t]
  PROVE  Spared(t)
<1>1. CASE UNCHANGED disturbed /\ (f \in DOMAIN data => data'[f] = data[f])
  BY <1>1 DEF Spared
<1>2. CASE Disturb(v, f)
  <2>1. disturbed'[t] = (disturbed[t] \/ (t # v /\ f \in {from[t], dest[t], origin[t].file}))
    BY <1>2 DEF Disturb
  <2>2. disturbed[t] => disturbed'[t]
    BY <2>1, Zenon
  <2>3. ~disturbed'[t] => f \notin {from[t], dest[t], origin[t].file}
    BY <2>1, Zenon
  <2>4. QED
    BY <2>2, <2>3 DEF Spared
<1>3. QED
  BY <1>1, <1>2

LEMMA OpeningSpares ==
  ASSUME FileTypes, NEW v \in Threads, NEW t \in Threads, t # v, NEW p \in DOMAIN links,
         NEW contents, OpenToWrite(v, p, contents), call' = call, pc'[t] = pc[t],
         UNCHANGED <<from, offset, written, size, got>>, buffer'[t] = buffer[t]
  PROVE  Spared(t)
<1>0. data \in Seq(Seq(Nat)) /\ dest \in [Threads -> {NoFile} \cup DOMAIN data]
      /\ origin \in [Threads -> [file : {NoFile, Dir} \cup DOMAIN data, from : Seq(Nat), dest : Seq(Nat)]]
  BY DEF FileTypes, StoreTypes, StreamTypes
<1>1. dest'[t] = dest[t] /\ origin'[t] = origin[t]
  BY <1>0 DEF OpenToWrite
<1>2. CASE IsFile(p)
  <2>1. /\ links[p] \in DOMAIN data /\ data' = [data EXCEPT ![links[p]] = contents]
        /\ IF contents # data[links[p]] THEN Disturb(v, links[p]) ELSE UNCHANGED disturbed
    BY <1>2 DEF OpenToWrite, IsFile
  <2>2. /\ \A i \in DOMAIN data : i # links[p] => data'[i] = data[i]
        /\ data'[links[p]] = contents
    BY <1>0, <2>1
  <2>3. QED
    BY <1>1, <2>1, <2>2, SparedBy
<1>3. CASE ~IsFile(p)
  <2>1. data' = Append(data, <<>>) /\ UNCHANGED disturbed
    BY <1>3 DEF OpenToWrite
  <2>2. \A i \in DOMAIN data : data'[i] = data[i]
    BY <1>0, <2>1
  <2>3. QED
    BY <1>1, <2>1, <2>2, SparedBy
<1>4. QED
  BY <1>2, <1>3

LEMMA WritingSpares ==
  ASSUME FileTypes, NEW v \in Threads, NEW t \in Threads, t # v, NEW n, WriteUnits(v, n),
         call' = call, pc'[t] = pc[t], UNCHANGED <<from, dest, offset, size, got, origin>>,
         written'[t] = written[t], buffer'[t] = buffer[t]
  PROVE  Spared(t)
<1>1. data \in Seq(Seq(Nat))
  BY DEF FileTypes, StoreTypes
<1>2. \A i \in DOMAIN data : i # dest[v] => data'[i] = data[i]
  BY <1>1 DEF WriteUnits
<1>3. Disturb(v, dest[v])
  BY DEF WriteUnits
<1>4. QED
  BY <1>2, <1>3, SparedBy

LEMMA OthersSpared ==
  ASSUME Placed, FileTypes, NEW v \in Threads, NEW t \in Threads, t # v,
         \/ DirectoryCall(v) /\ UNCHANGED fileVars
         \/ copyFile(v) \/ writeAllBytes(v) \/ readAllBytes(v) \/ deleteFile(v) \/ renameFile(v)
  PROVE  Spared(t)
<1>0. /\ pc \in [Threads -> Steps] /\ from \in [Threads -> {NoFile, Dir} \cup DOMAIN data]
      /\ offset \in [Threads -> Nat] /\ written \in [Threads -> Nat] /\ size \in [Threads -> Nat]
      /\ buffer \in [Threads -> Seq(Nat)] /\ got \in [Threads -> Seq(Nat)]
      /\ origin \in [Threads -> [file : {NoFile, Dir} \cup DOMAIN data, from : Seq(Nat), dest : Seq(Nat)]]
  BY DEF Placed, FileTypes, StreamTypes
<1>1. pc'[t] = pc[t] /\ call' = call
  BY <1>0 DEF DirectoryCall, create, verifyAndCreate, Look, ReadUmask, ResetUmask, Component, MakeComponent,
         RestoreUmask, Verify, VerifyPart, MakePart, Advance, GoTo, system,
         copyFile, CopyFrom, CopyTo, CopyRead, CopyWrite, writeAllBytes, WriteOpen, WriteStream, WriteClose,
         readAllBytes, ReadSize, ReadOpen, ReadUnits, deleteFile, renameFile
<1>2. CASE CopyTo(v)
  <2>1. call[v].to \in DOMAIN links
    BY <1>2 DEF CopyTo, Placed, CopySteps, Op, FileTypes, StoreTypes, MadeOn
  <2>2. CASE CanOpenToWrite(call[v].to)
    <3>1. PICK contents : OpenToWrite(v, call[v].to, contents)
      BY <1>2, <2>2 DEF CopyTo
    <3>2. UNCHANGED <<from, offset, written, size, got>> /\ buffer'[t] = buffer[t]
      BY <1>2 DEF CopyTo
    <3>3. QED
      BY <1>1, <2>1, <3>1, <3>2, OpeningSpares
  <2>3. CASE ~CanOpenToWrite(call[v].to)
    BY <1>1, <1>2, <2>3 DEF CopyTo, Spared
  <2>4. QED
    BY <2>2, <2>3
<1>3. CASE WriteOpen(v)
  <2>1. call[v].path \in DOMAIN links
    BY DEF FileTypes, StoreTypes, MadeOn
  <2>2. CASE CanOpenToWrite(call[v].path)
    <3>1. PICK contents : OpenToWrite(v, call[v].path, contents)
      BY <1>3, <2>2 DEF WriteOpen
    <3>2. UNCHANGED <<from, offset, written, size, got>> /\ buffer'[t] = buffer[t]
      BY <1>0, <1>3, <2>2 DEF WriteOpen
    <3>3. QED
      BY <1>1, <2>1, <3>1, <3>2, OpeningSpares
  <2>3. CASE ~CanOpenToWrite(call[v].path)
    BY <1>1, <1>3, <2>3 DEF WriteOpen, Spared
  <2>4. QED
    BY <2>2, <2>3
<1>4. CASE CopyWrite(v) \/ WriteStream(v) \/ WriteClose(v)
  <2>1. CASE UNCHANGED <<data, disturbed>>
    BY <1>0, <1>1, <1>4, <2>1 DEF CopyWrite, WriteStream, WriteClose, fileVars, Spared
  <2>2. CASE ~UNCHANGED <<data, disturbed>>
    <3>1. PICK n : WriteUnits(v, n)
      BY <1>4, <2>2 DEF CopyWrite, WriteStream, WriteClose
    <3>2. /\ UNCHANGED <<from, dest, offset, size, got, origin>>
          /\ written'[t] = written[t] /\ buffer'[t] = buffer[t]
      BY <1>0, <1>4 DEF CopyWrite, WriteStream, WriteClose, fileVars
    <3>3. QED
      BY <1>1, <3>1, <3>2, WritingSpares
  <2>3. QED
    BY <2>1, <2>2
<1>5. CASE CopyFrom(v) \/ CopyRead(v)
  BY <1>0, <1>1, <1>5 DEF CopyFrom, CopyRead, Spared, system
<1>6. CASE readAllBytes(v)
  BY <1>0, <1>1, <1>6 DEF readAllBytes, ReadSize, ReadOpen, ReadUnits, Spared, system
<1>7. CASE deleteFile(v) \/ renameFile(v)
  BY <1>1, <1>7 DEF deleteFile, renameFile, Spared, fileVars
<1>8. CASE DirectoryCall(v) /\ UNCHANGED fileVars
  <2>1. UNCHANGED <<data, disturbed>>
    BY <1>8 DEF DirectoryCall, create, verifyAndCreate, Look, ReadUmask, ResetUmask, Component, MakeComponent,
         RestoreUmask, Verify, VerifyPart, MakePart, system
  <2>2. QED
    BY <1>1, <1>8, <2>1 DEF Spared, fileVars
<1>9. QED
  BY <1>2, <1>3, <1>4, <1>5, <1>6, <1>7, <1>8 DEF copyFile, writeAllBytes

(* Parts of a part.                                                        *)
LEMMA DropOfPart ==
  ASSUME NEW s \in Seq(Nat), NEW m \in Nat, NEW k \in Nat, NEW n \in Nat, m + n <= k, k <= Len(s)
  PROVE  Drop(SubSeq(s, m + 1, k), n) = SubSeq(s, m + n + 1, k)
<1>1. /\ Len(s) \in Nat /\ m \in 0 .. Len(s) /\ k \in m .. Len(s) /\ m + n \in 0 .. Len(s)
      /\ k \in m + n .. Len(s)
  OBVIOUS
<1>2. PICK part \in Seq(Nat) : part = SubSeq(s, m + 1, k)
  BY <1>1, PartIs
<1>3. Len(part) = k - m /\ \A i \in 1 .. k - m : part[i] = s[m + i]
  BY <1>1, <1>2, PartIs
<1>4. PICK rest \in Seq(Nat) : rest = Drop(part, n)
  BY TakeDrop
<1>5. Len(rest) = k - m - n /\ \A i \in 1 .. k - m - n : rest[i] = part[n + i]
  BY <1>1, <1>3, <1>4 DEF Drop
<1>6. PICK after \in Seq(Nat) : after = SubSeq(s, m + n + 1, k)
  BY <1>1, PartIs
<1>7. Len(after) = k - (m + n) /\ \A i \in 1 .. k - (m + n) : after[i] = s[m + n + i]
  BY <1>1, <1>6, PartIs
<1>8. Len(rest) = Len(after)
  BY <1>1, <1>5, <1>7
<1>9. ASSUME NEW i \in 1 .. Len(after)
      PROVE  rest[i] = after[i]
  <2>1. i \in Nat /\ i \in 1 .. k - (m + n) /\ i \in 1 .. k - m - n /\ n + i \in 1 .. k - m
    BY <1>1, <1>7
  <2>2. PICK j \in 1 .. k - m : j = n + i
    BY <2>1
  <2>3. rest[i] = part[j] /\ part[j] = s[m + j]
    BY <1>3, <1>5, <2>1, <2>2
  <2>4. m + j = m + n + i
    BY <2>1, <2>2
  <2>5. QED
    BY <1>7, <2>1, <2>3, <2>4
<1>10. rest = after
  BY <1>8, <1>9, SameUnits
<1>11. QED
  BY <1>2, <1>4, <1>6, <1>10

LEMMA TakeOfPart ==
  ASSUME NEW s \in Seq(Nat), NEW m \in Nat, NEW k \in Nat, NEW n \in Nat, m + n <= k, k <= Len(s)
  PROVE  LET units == Take(SubSeq(s, m + 1, k), n)
         IN  units \in Seq(Nat) /\ Len(units) = n /\ Continues(s, m, units)
<1>1. /\ Len(s) \in Nat /\ m \in 0 .. Len(s) /\ k \in m .. Len(s) /\ n \in 0 .. k - m /\ m + n <= Len(s)
  OBVIOUS
<1>2. PICK part \in Seq(Nat) : part = SubSeq(s, m + 1, k)
  BY <1>1, PartIs
<1>3. Len(part) = k - m /\ \A i \in 1 .. k - m : part[i] = s[m + i]
  BY <1>1, <1>2, PartIs
<1>4. n \in 0 .. Len(part)
  BY <1>1, <1>3
<1>5. PICK units \in Seq(Nat) : units = Take(part, n)
  BY <1>4, TakeIs
<1>6. Len(units) = n /\ \A i \in 1 .. n : units[i] = part[i]
  BY <1>4, <1>5, TakeIs
<1>7. ASSUME NEW i \in 1 .. n
      PROVE  units[i] = s[m + i]
  <2>1. i \in 1 .. k - m
    BY <1>1
  <2>2. QED
    BY <1>3, <1>6, <2>1
<1>8. Continues(s, m, units)
  BY <1>1, <1>6, <1>7 DEF Continues
<1>9. QED
  BY <1>2, <1>5, <1>6, <1>8

LEMMA TakeOfDrop ==
  ASSUME NEW s \in Seq(Nat), NEW m \in Nat, NEW n \in Nat, m + n <= Len(s)
  PROVE  /\ Drop(s, m) \in Seq(Nat) /\ Len(Drop(s, m)) = Len(s) - m
         /\ Take(Drop(s, m), n) = SubSeq(s, m + 1, m + n) /\ Len(Take(Drop(s, m), n)) = n
<1>1. /\ Len(s) \in Nat /\ m \in 0 .. Len(s) /\ Len(s) \in m .. Len(s) /\ m + n \in m .. Len(s)
      /\ m + n \in Nat /\ n = (m + n) - m
  OBVIOUS
<1>2. PICK rest \in Seq(Nat) : rest = SubSeq(s, m + 1, Len(s))
  BY <1>1, PartIs
<1>3. Len(rest) = Len(s) - m /\ \A i \in 1 .. Len(s) - m : rest[i] = s[m + i]
  BY <1>1, <1>2, PartIs
<1>4. n \in 0 .. Len(rest)
  BY <1>1, <1>3
<1>5. PICK units \in Seq(Nat) : units = Take(rest, n)
  BY <1>4, TakeIs
<1>6. Len(units) = n /\ \A i \in 1 .. n : units[i] = rest[i]
  BY <1>4, <1>5, TakeIs
<1>7. PICK part \in Seq(Nat) : part = SubSeq(s, m + 1, m + n)
  BY <1>1, PartIs
<1>8. Len(part) = n /\ \A i \in 1 .. n : part[i] = s[m + i]
  BY <1>1, <1>7, PartIs
<1>9. ASSUME NEW i \in 1 .. n
      PROVE  units[i] = part[i]
  <2>1. i \in 1 .. Len(s) - m
    BY <1>1
  <2>2. QED
    BY <1>3, <1>6, <1>8, <2>1
<1>10. units = part
  BY <1>6, <1>8, <1>9, SameUnits
<1>11. QED
  BY <1>2, <1>3, <1>5, <1>6, <1>7, <1>10 DEF Drop

-----------------------------------------------------------------------------
(* A copy, or a file that is written, of a thread nobody disturbed.        *)
Undisturbed(t) ==
  /\ ~disturbed[t]
  /\ Op(t) \in {"copyFile", "writeAllBytes"}
  /\ Op(t) = "copyFile" => from[t] # Dir

(* What is to be written, over what, and how far the thread has got it in  *)
(* its hands.                                                              *)
Whole(t) == IF Op(t) = "copyFile" THEN origin[t].from ELSE call[t].units

Old(t) == IF Op(t) = "copyFile" THEN origin[t].dest ELSE <<>>

End(t) == IF Op(t) = "copyFile" THEN offset[t] ELSE Len(call[t].units)

(* What was written when a call returns: all of it, or what faults left.   *)
IsCut(units, whole, old) ==
  \E n \in 0 .. Len(whole) :
    /\ units = Overlaid(old, 0, Take(whole, n))
    /\ faults = 0 => n = Len(whole)

(* As much of it is written as the thread counts; its buffer holds what    *)
(* comes next.                                                             *)
WrittenSoFar(t) ==
  /\ written[t] <= End(t) /\ End(t) <= Len(Whole(t))
  /\ data[dest[t]] = Overlaid(Old(t), 0, Take(Whole(t), written[t]))
  /\ buffer[t] = SubSeq(Whole(t), written[t] + 1, End(t))

WritesWhole(t) ==
  /\ pc[t] \in {"open_to", "read", "write"} => data[from[t]] = origin[t].from
  /\ pc[t] \in {"read", "write"} /\ from[t] = dest[t] => origin[t].dest = origin[t].from
  /\ pc[t] \in {"read", "write", "fwrite", "fclose"} => WrittenSoFar(t)
  /\ pc[t] = "read" => written[t] = offset[t]
  /\ Returned(t) => dest[t] # NoFile /\ IsCut(data[dest[t]], Whole(t), Old(t))

(* A thread that has opened no file to write yet.                          *)
Fresh(t) ==
  pc[t] \in {"start", "open_to"} =>
    offset[t] = 0 /\ written[t] = 0 /\ buffer[t] = <<>> /\ origin[t].dest = <<>>

WritesInvariant ==
  /\ faults \in Nat
  /\ \A t \in Threads : Fresh(t) /\ (Undisturbed(t) => WritesWhole(t))

LEMMA WholeTypes ==
  ASSUME FileTypes, NEW t \in Threads, Op(t) \in {"copyFile", "writeAllBytes"}
  PROVE  Whole(t) \in Seq(Nat) /\ Old(t) \in Seq(Nat) /\ End(t) \in Nat /\ written[t] \in Nat
<1>1. /\ origin[t].from \in Seq(Nat) /\ origin[t].dest \in Seq(Nat) /\ offset[t] \in Nat /\ written[t] \in Nat
  BY DEF FileTypes, StreamTypes
<1>2. Op(t) = "writeAllBytes" => call[t].units \in Seq(Nat)
  BY DEF FileTypes, StoreTypes, MadeOn, Op
<1>3. QED
  BY <1>1, <1>2 DEF Whole, Old, End

(* Faults are counted.                                                     *)
LEMMA FaultsStep == faults \in Nat /\ [Next]_vars => faults' \in Nat /\ (faults' = 0 => faults = 0)
<1> SUFFICES ASSUME faults \in Nat, [Next]_vars
             PROVE  faults' \in Nat /\ (faults' = 0 => faults = 0)
  OBVIOUS
<1> USE DEF Fault, system
<1>1. ASSUME NEW t \in Threads, create(t) \/ verifyAndCreate(t)
      PROVE  faults' = faults
  BY <1>1 DEF create, verifyAndCreate, Look, ReadUmask, ResetUmask, Component, MakeComponent, RestoreUmask,
              Verify, VerifyPart, MakePart
<1>2. ASSUME NEW t \in Threads, copyFile(t)
      PROVE  faults' = faults \/ faults' = faults + 1
  BY <1>2 DEF copyFile, CopyFrom, CopyTo, CopyRead, CopyWrite
<1>3. ASSUME NEW t \in Threads, writeAllBytes(t)
      PROVE  faults' = faults \/ faults' = faults + 1
  BY <1>3 DEF writeAllBytes, WriteOpen, WriteStream, WriteClose
<1>4. ASSUME NEW t \in Threads, deleteFile(t) \/ renameFile(t)
      PROVE  faults' = faults
  BY <1>4 DEF deleteFile, renameFile
<1>5. ASSUME NEW t \in Threads, readAllBytes(t)
      PROVE  faults' = faults \/ faults' = faults + 1
  <2>1. CASE ReadSize(t) \/ ReadOpen(t)
    BY <2>1 DEF ReadSize, ReadOpen
  <2>2. CASE ReadUnits(t)
    <3>1. PICK n \in 0 .. Most(t) : Gets(t, n)
      BY <2>2, ReadUnitsGets
    <3>2. QED
      BY <3>1 DEF Gets
  <2>3. QED
    BY <1>5, <2>1, <2>2 DEF readAllBytes
<1>6. QED
  BY <1>1, <1>2, <1>3, <1>4, <1>5 DEF Next, vars

(* A thread that is spared.                                                *)
LEMMA WritesSpared ==
  ASSUME Placed, FileTypes, WritesInvariant, [Next]_vars, NEW t \in Threads, Spared(t)
  PROVE  Fresh(t)' /\ (Undisturbed(t)' => WritesWhole(t)')
<1>1. Fresh(t)'
  BY DEF WritesInvariant, Fresh, Spared
<1>2. ASSUME Undisturbed(t)'
      PROVE  WritesWhole(t)'
  <2>1. ~disturbed'[t] /\ Undisturbed(t) /\ WritesWhole(t)
    BY <1>2 DEF Undisturbed, Spared, Op, WritesInvariant
  <2>2. /\ Whole(t)' = Whole(t) /\ Old(t)' = Old(t) /\ End(t)' = End(t)
        /\ written'[t] = written[t] /\ offset'[t] = offset[t] /\ buffer'[t] = buffer[t]
        /\ from'[t] = from[t] /\ dest'[t] = dest[t] /\ pc'[t] = pc[t] /\ origin'[t] = origin[t]
    BY DEF Spared, Whole, Old, End, Op
  <2>3. /\ from[t] \in {NoFile, Dir} \cup DOMAIN data /\ dest[t] \in {NoFile} \cup DOMAIN data
    BY DEF FileTypes, StreamTypes
  <2>4. pc[t] \in {"open_to", "read", "write"} => data'[from[t]] = data[from[t]]
    <3>1. pc[t] \in {"open_to", "read", "write"} => from[t] \notin {NoFile, Dir}
      BY <2>1 DEF FileTypes, HasOpen, Undisturbed, Placed, CopySteps
    <3>2. QED
      BY <2>1, <2>3, <3>1 DEF Spared
  <2>5. pc[t] \in {"read", "write", "fwrite", "fclose", "returned"} => data'[dest[t]] = data[dest[t]]
    <3>1. pc[t] \in {"read", "write", "fwrite", "fclose", "returned"} => dest[t] # NoFile
      BY <2>1 DEF FileTypes, HasOpen, WritesWhole, Returned
    <3>2. QED
      BY <2>1, <2>3, <3>1 DEF Spared
  <2>6. WrittenSoFar(t) /\ data'[dest[t]] = data[dest[t]] => WrittenSoFar(t)'
    BY <2>2 DEF WrittenSoFar
  <2>7. IsCut(data[dest[t]], Whole(t), Old(t)) /\ data'[dest[t]] = data[dest[t]] =>
          IsCut(data[dest[t]], Whole(t), Old(t))'
    BY <2>2, FaultsStep DEF IsCut, WritesInvariant
  <2>8. QED
    BY <2>1, <2>2, <2>4, <2>5, <2>6, <2>7 DEF WritesWhole, Returned
<1>3. QED
  BY <1>1, <1>2

(* The thread itself disturbs only others.                                 *)
LEMMA OwnDisturb ==
  ASSUME NEW t \in Threads, NEW f, Disturb(t, f), ~disturbed'[t]
  PROVE  ~disturbed[t]
<1>1. disturbed'[t] = (disturbed[t] \/ (t # t /\ f \in {from[t], dest[t], origin[t].file}))
  BY DEF Disturb
<1>2. QED
  BY <1>1, Zenon

(* n units of the buffer are written.                                      *)
LEMMA UnitsGo ==
  ASSUME FileTypes, NEW t \in Threads, Op(t) \in {"copyFile", "writeAllBytes"}, WrittenSoFar(t),
         dest[t] # NoFile, NEW n \in 0 .. Len(buffer[t]), WriteUnits(t, n)
  PROVE  /\ Len(buffer[t]) = End(t) - written[t] /\ written[t] + n <= End(t)
         /\ data'[dest[t]] = Overlaid(Old(t), 0, Take(Whole(t), written[t] + n))
         /\ Rest(buffer[t], n) = SubSeq(Whole(t), written[t] + n + 1, End(t))
<1>1. PICK whole \in Seq(Nat), old \in Seq(Nat), end \in Nat, m \in Nat :
         whole = Whole(t) /\ old = Old(t) /\ end = End(t) /\ m = written[t]
  BY WholeTypes
<1>2. /\ m <= end /\ end <= Len(whole) /\ Len(whole) \in Nat
      /\ data[dest[t]] = Overlaid(old, 0, Take(whole, m))
      /\ buffer[t] = SubSeq(whole, m + 1, end)
  BY <1>1 DEF WrittenSoFar
<1>3. Len(buffer[t]) = end - m
  BY <1>2, PartIs
<1>4. n \in Nat /\ m + n <= end
  BY <1>2, <1>3
<1>5. /\ Take(buffer[t], n) \in Seq(Nat) /\ Len(Take(buffer[t], n)) = n
      /\ Continues(whole, m, Take(buffer[t], n))
  BY SMTT(30), <1>2, <1>4, TakeOfPart
<1>6. Rest(buffer[t], n) = SubSeq(whole, m + n + 1, end)
  BY <1>2, <1>4, DropOfPart DEF Rest
<1>7. PICK units \in Seq(Nat) : units = Take(buffer[t], n)
  BY <1>5
<1>8. Overlaid(Overlaid(old, 0, Take(whole, m)), m, units) = Overlaid(old, 0, Take(whole, m + n))
  <2>1. Continues(whole, m, units) /\ Len(units) = n
    BY <1>5, <1>7
  <2>2. Overlaid(Overlaid(old, 0, Take(whole, m)), m, units) = Overlaid(old, 0, Take(whole, m + Len(units)))
    BY <2>1, OverlaidMore, ZenonT(30)
  <2>3. QED
    BY <2>1, <2>2
<1>9. data'[dest[t]] = Overlaid(data[dest[t]], m, units)
  BY <1>1, <1>7 DEF WriteUnits, FileTypes, StoreTypes, StreamTypes
<1>10. QED
  BY <1>1, <1>2, <1>3, <1>4, <1>6, <1>8, <1>9

LEMMA AppendIsSeq ==
  ASSUME NEW S, NEW s \in Seq(S), NEW e \in S
  PROVE  Append(s, e) \in Seq(S)
  OBVIOUS

(* A file that is created is a new one, and empty.                         *)
LEMMA CreatedIs ==
  ASSUME NEW s \in Seq(Seq(Nat))
  PROVE  LET r == Append(s, <<>>)
         IN  /\ Len(r) \in Nat \ {0} /\ Len(r) \notin DOMAIN s /\ r[Len(r)] = <<>>
             /\ \A i \in DOMAIN s : r[i] = s[i]
<1>1. <<>> \in Seq(Nat) /\ Len(s) \in Nat /\ DOMAIN s = 1 .. Len(s)
  OBVIOUS
<1>2. PICK r \in Seq(Seq(Nat)) : r = Append(s, <<>>)
  <2>1. Append(s, <<>>) \in Seq(Seq(Nat))
    BY <1>1, AppendIsSeq
  <2>2. QED
    BY <2>1
<1>3. Len(r) = Len(s) + 1 /\ r[Len(s) + 1] = <<>> /\ \A i \in 1 .. Len(s) : r[i] = s[i]
  BY <1>1, <1>2
<1>4. Len(r) \in Nat \ {0} /\ Len(r) \notin 1 .. Len(s)
  BY <1>1, <1>3
<1>5. QED
  BY <1>1, <1>2, <1>3, <1>4

LEMMA CopyWritesWhole ==
  ASSUME Placed, FileTypes, FileTypes', WritesInvariant, [Next]_vars, NEW t \in Threads, copyFile(t)
  PROVE  Fresh(t)' /\ (Undisturbed(t)' => WritesWhole(t)')
<1>0. /\ data \in Seq(Seq(Nat)) /\ pc \in [Threads -> Steps] /\ Op(t) = "copyFile" /\ Op(t)' = "copyFile"
      /\ from \in [Threads -> {NoFile, Dir} \cup DOMAIN data] /\ dest \in [Threads -> {NoFile} \cup DOMAIN data]
      /\ offset \in [Threads -> Nat] /\ written \in [Threads -> Nat] /\ buffer \in [Threads -> Seq(Nat)]
      /\ origin \in [Threads -> [file : {NoFile, Dir} \cup DOMAIN data, from : Seq(Nat), dest : Seq(Nat)]]
      /\ links \in [DOMAIN links -> Kinds \cup DOMAIN data]
      /\ call[t].path \in DOMAIN links /\ call[t].to \in DOMAIN links
  <2>1. Op(t) = "copyFile" /\ call' = call
    BY DEF copyFile, CopyFrom, CopyTo, CopyRead, CopyWrite, Placed, CopySteps, Op, system
  <2>2. QED
    BY <2>1 DEF Placed, FileTypes, StoreTypes, StreamTypes, MadeOn, Op
<1>1. Fresh(t) /\ (Undisturbed(t) => WritesWhole(t))
  BY DEF WritesInvariant
<1>2. /\ Whole(t) = origin[t].from /\ Old(t) = origin[t].dest /\ End(t) = offset[t]
      /\ Whole(t)' = origin'[t].from /\ Old(t)' = origin'[t].dest /\ End(t)' = offset'[t]
  BY <1>0 DEF Whole, Old, End
<1>3. CASE CopyFrom(t)
  <2>1. /\ UNCHANGED <<data, disturbed, dest, offset, written, buffer>> /\ pc[t] = "start"
        /\ pc'[t] \in {"open_to", "thrown"} /\ origin'[t].dest = origin[t].dest
    BY <1>0, <1>3 DEF CopyFrom, GoTo, system
  <2>2. Fresh(t)'
    BY <1>1, <2>1 DEF Fresh
  <2>3. ASSUME Undisturbed(t)', pc'[t] = "open_to"
        PROVE  data'[from'[t]] = origin'[t].from
    <3>1. Exists(call[t].path)
      BY <1>0, <1>3, <2>3 DEF CopyFrom, GoTo
    <3>2. /\ from'[t] = Opened(call[t].path)
          /\ origin'[t].from = IF IsFile(call[t].path) THEN data[links[call[t].path]] ELSE <<>>
      BY <1>0, <1>3, <3>1 DEF CopyFrom
    <3>3. from'[t] # Dir
      BY <1>0, <2>3 DEF Undisturbed
    <3>4. ~IsDir(call[t].path)
      BY <3>2, <3>3 DEF Opened
    <3>5. IsFile(call[t].path) /\ from'[t] = links[call[t].path]
      BY <1>0, <3>1, <3>2, <3>4 DEF Opened, IsDir, IsFile, Exists, Kinds
    <3>6. QED
      BY <2>1, <3>2, <3>5
  <2>4. QED
    BY <2>1, <2>2, <2>3 DEF WritesWhole, Returned
<1>4. CASE CopyTo(t)
  <2>1. /\ UNCHANGED <<from, offset, written, buffer>> /\ pc[t] = "open_to"
        /\ offset[t] = 0 /\ written[t] = 0 /\ buffer[t] = <<>> /\ origin[t].dest = <<>>
        /\ pc'[t] \in {"read", "thrown"}
    BY <1>0, <1>1, <1>4 DEF CopyTo, Fresh, GoTo
  <2>2. Fresh(t)'
    BY <2>1 DEF Fresh
  <2>3. ASSUME Undisturbed(t)', pc'[t] = "read"
        PROVE  WritesWhole(t)'
    <3> DEFINE p == call[t].to
               held == IF IsFile(p) THEN data[links[p]] ELSE <<>>
    <3>1. OpenToWrite(t, p, held)
      BY <1>0, <1>4, <2>3 DEF CopyTo, GoTo
    <3>2. ~disturbed[t] /\ from[t] \in DOMAIN data
      <4>1. ~disturbed[t]
        <5>1. UNCHANGED disturbed
          BY <3>1 DEF OpenToWrite
        <5>2. QED
          BY <2>3, <5>1 DEF Undisturbed
      <4>2. QED
        BY <1>0, <2>1, <2>3, <4>1 DEF Undisturbed, FileTypes, HasOpen
    <3>3. data[from[t]] = origin[t].from
      BY <1>0, <1>1, <2>1, <2>3, <3>2 DEF Undisturbed, WritesWhole
    <3>4. /\ data'[from[t]] = data[from[t]] /\ data'[dest'[t]] = held /\ origin'[t].dest = held
          /\ origin'[t].from = origin[t].from
          /\ from[t] = dest'[t] => held = data[from[t]]
          /\ held \in Seq(Nat)
      <4>1. CASE IsFile(p)
        <5>1. /\ dest' = [dest EXCEPT ![t] = links[p]] /\ data' = [data EXCEPT ![links[p]] = held]
              /\ origin' = [origin EXCEPT ![t].dest = data[links[p]]]
              /\ held = data[links[p]] /\ links[p] \in DOMAIN data
          BY <3>1, <4>1 DEF OpenToWrite, IsFile
        <5>2. held \in Seq(Nat) /\ dest'[t] = links[p] /\ data' = data
          BY <1>0, <5>1
        <5>3. origin'[t].dest = held /\ origin'[t].from = origin[t].from
          BY <1>0, <5>1
        <5>4. QED
          BY <5>1, <5>2, <5>3
      <4>2. CASE ~IsFile(p)
        <5>1. /\ data' = Append(data, <<>>) /\ dest' = [dest EXCEPT ![t] = Len(data')] /\ origin' = origin
              /\ held = <<>>
          BY <3>1, <4>2 DEF OpenToWrite
        <5>2. /\ data'[Len(data')] = <<>> /\ Len(data') \notin DOMAIN data
              /\ data'[from[t]] = data[from[t]]
          BY <1>0, <3>2, <5>1, CreatedIs
        <5>3. dest'[t] = Len(data') /\ origin'[t] = origin[t] /\ held \in Seq(Nat)
          <6>1. dest'[t] = Len(data')
            BY <1>0, <5>1
          <6>2. origin'[t] = origin[t]
            BY <5>1
          <6>3. <<>> \in Seq(Nat)
            OBVIOUS
          <6>4. held \in Seq(Nat)
            BY <5>1, <6>3
          <6>5. QED
            BY <6>1, <6>2, <6>4
        <5>4. from[t] # dest'[t]
          BY <3>2, <5>2, <5>3
        <5>5. QED
          BY <2>1, <5>1, <5>2, <5>3, <5>4
      <4>3. QED
        BY <4>1, <4>2
    <3> HIDE DEF held
    <3>5. PICK whole \in Seq(Nat) : whole = origin[t].from
      BY <1>0
    <3>6. WrittenSoFar(t)'
      <4>1. written'[t] = 0 /\ offset'[t] = 0 /\ buffer'[t] = <<>>
        BY <2>1
      <4>2. SubSeq(whole, 0 + 1, 0) = <<>> /\ 0 <= Len(whole)
        OBVIOUS
      <4>3. Overlaid(held, 0, Take(whole, 0)) = held
        BY <3>4, OverlaidNothing
      <4>4. QED
        BY <1>2, <3>4, <3>5, <4>1, <4>2, <4>3 DEF WrittenSoFar
    <3>7. QED
      BY <2>1, <2>3, <3>3, <3>4, <3>6 DEF WritesWhole, Returned
  <2>4. QED
    BY <2>1, <2>2, <2>3 DEF WritesWhole, Returned
<1>5. CASE CopyRead(t)
  <2>1. /\ UNCHANGED <<data, disturbed, from, dest, written, origin, call>> /\ pc[t] = "read"
        /\ pc'[t] \in {"write", "returned"}
    BY <1>0, <1>5 DEF CopyRead, GoTo
  <2>2. Fresh(t)'
    BY <2>1 DEF Fresh
  <2>3. ASSUME Undisturbed(t)'
        PROVE  WritesWhole(t)'
    <3>1. /\ Undisturbed(t) /\ WritesWhole(t) /\ WrittenSoFar(t) /\ from[t] # Dir
          /\ data[from[t]] = origin[t].from /\ written[t] = offset[t]
      BY <1>0, <1>1, <2>1, <2>3 DEF Undisturbed, WritesWhole
    <3>2. PICK whole \in Seq(Nat), m \in Nat : whole = origin[t].from /\ m = offset[t] /\ m <= Len(whole)
      BY <1>0, <1>2, <3>1 DEF WrittenSoFar
    <3> DEFINE left == Drop(whole, m)
               n == IF Len(left) < BufferSize THEN Len(left) ELSE BufferSize
    <3>3. left \in Seq(Nat) /\ Len(left) = Len(whole) - m /\ Len(whole) \in Nat
      <4>1. m + 0 <= Len(whole) /\ 0 \in Nat
        BY <3>2
      <4>2. QED
        BY <4>1, TakeOfDrop
    <3>4. n \in Nat /\ m + n <= Len(whole)
      BY <3>2, <3>3, FileAssumption, SMTT(30)
    <3>5. \/ /\ pc'[t] = "write" /\ buffer' = [buffer EXCEPT ![t] = Take(left, n)]
             /\ offset' = [offset EXCEPT ![t] = @ + Len(buffer'[t])]
          \/ /\ pc'[t] = "returned" /\ UNCHANGED <<buffer, offset>>
             /\ (left = <<>> /\ UNCHANGED faults) \/ Fault
      BY <1>0, <1>5, <3>1, <3>2 DEF CopyRead, GoTo
    <3> HIDE DEF n
    <3>6. CASE /\ pc'[t] = "write" /\ buffer' = [buffer EXCEPT ![t] = Take(left, n)]
               /\ offset' = [offset EXCEPT ![t] = @ + Len(buffer'[t])]
      <4>1. buffer'[t] = SubSeq(whole, m + 1, m + n) /\ Len(buffer'[t]) = n
        BY <1>0, <3>4, <3>6, TakeOfDrop
      <4>2. offset'[t] = m + n
        BY <1>0, <3>2, <3>6, <4>1
      <4>3. m <= m + n
        BY <3>4
      <4>4. WrittenSoFar(t)'
        BY <1>2, <2>1, <3>1, <3>2, <3>4, <4>1, <4>2, <4>3 DEF WrittenSoFar
      <4>5. QED
        BY <2>1, <3>1, <3>6, <4>4 DEF WritesWhole, Returned
    <3>7. CASE /\ pc'[t] = "returned" /\ UNCHANGED <<buffer, offset>>
               /\ (left = <<>> /\ UNCHANGED faults) \/ Fault
      <4>1. faults' = 0 => m = Len(whole)
        <5>1. CASE left = <<>>
          BY <3>2, <3>3, <5>1
        <5>2. CASE Fault
          BY <5>2 DEF Fault, WritesInvariant
        <5>3. QED
          BY <3>7, <5>1, <5>2
      <4>2. data[dest[t]] = Overlaid(Old(t), 0, Take(whole, m)) /\ m \in 0 .. Len(whole)
        BY <1>2, <3>1, <3>2 DEF WrittenSoFar
      <4>3. IsCut(data[dest[t]], Whole(t), Old(t))'
        BY <1>2, <2>1, <3>2, <4>1, <4>2 DEF IsCut
      <4>4. dest[t] # NoFile
        BY <2>1 DEF FileTypes, HasOpen
      <4>5. QED
        BY <2>1, <3>7, <4>3, <4>4 DEF WritesWhole, Returned
    <3>8. QED
      BY <3>5, <3>6, <3>7
  <2>4. QED
    BY <2>2, <2>3
<1>6. CASE CopyWrite(t)
  <2>1. UNCHANGED <<from, dest, offset, origin, call>> /\ pc[t] = "write" /\ dest[t] # NoFile /\ from[t] # NoFile
    BY <1>0, <1>6 DEF CopyWrite, FileTypes, HasOpen
  <2>2. CASE pc'[t] = "thrown"
    BY <2>2 DEF Fresh, WritesWhole, Returned
  <2>3. CASE pc'[t] # "thrown"
    <3>1. PICK n \in 1 .. Len(buffer[t]) :
            /\ WriteUnits(t, n) /\ written' = [written EXCEPT ![t] = @ + n]
            /\ buffer' = [buffer EXCEPT ![t] = Rest(@, n)]
            /\ GoTo(t, IF buffer'[t] = <<>> THEN "read" ELSE "write")
      BY <1>0, <1>6, <2>3 DEF CopyWrite, GoTo
    <3>2. n \in 0 .. Len(buffer[t]) /\ n \in Nat
      BY <1>0
    <3>3. /\ pc'[t] = IF buffer'[t] = <<>> THEN "read" ELSE "write"
          /\ written'[t] = written[t] + n /\ buffer'[t] = Rest(buffer[t], n)
      BY <1>0, <3>1 DEF GoTo
    <3>4. Fresh(t)'
      BY <3>3 DEF Fresh
    <3>5. ASSUME Undisturbed(t)'
          PROVE  WritesWhole(t)'
      <4>1. ~disturbed[t]
        BY <3>1, <3>5, OwnDisturb DEF Undisturbed, WriteUnits
      <4>2. /\ WrittenSoFar(t) /\ from[t] # Dir
            /\ data[from[t]] = origin[t].from /\ (from[t] = dest[t] => origin[t].dest = origin[t].from)
        BY <1>0, <1>1, <2>1, <3>5, <4>1 DEF Undisturbed, WritesWhole
      <4>3. /\ written[t] + n <= offset[t] /\ offset[t] <= Len(origin[t].from)
            /\ data'[dest[t]] = Overlaid(origin[t].dest, 0, Take(origin[t].from, written[t] + n))
            /\ buffer'[t] = SubSeq(origin[t].from, written[t] + n + 1, offset[t])
        BY <1>0, <1>2, <2>1, <3>1, <3>2, <3>3, <4>2, UnitsGo DEF WrittenSoFar
      <4>4. WrittenSoFar(t)'
        BY <1>2, <2>1, <3>3, <4>3 DEF WrittenSoFar
      <4>5. PICK whole \in Seq(Nat), m \in Nat, end \in Nat :
              whole = origin[t].from /\ m = written[t] + n /\ end = offset[t]
        BY <1>0, <3>2
      <4>6. pc'[t] = "read" => written'[t] = offset'[t]
        <5>1. Len(buffer'[t]) = end - m
          BY <4>3, <4>5, PartIs
        <5>2. buffer'[t] = <<>> => m = end
          BY <4>5, <5>1
        <5>3. QED
          BY <2>1, <3>3, <4>5, <5>2
      <4>7. data'[from[t]] = origin[t].from
        <5>1. CASE from[t] = dest[t]
          <6>1. m \in 0 .. Len(whole)
            BY <4>3, <4>5
          <6>2. Overlaid(whole, 0, Take(whole, m)) = whole
            BY <6>1, OverlaidItself
          <6>3. QED
            BY <4>2, <4>3, <4>5, <5>1, <6>2
        <5>2. CASE from[t] # dest[t]
          <6>1. data'[from[t]] = data[from[t]]
            BY <1>0, <2>1, <3>1, <4>2, <5>2 DEF WriteUnits
          <6>2. QED
            BY <4>2, <6>1
        <5>3. QED
          BY <5>1, <5>2
      <4>8. pc'[t] \in {"read", "write"}
        BY <3>3
      <4>9. QED
        BY <2>1, <4>2, <4>4, <4>6, <4>7, <4>8 DEF WritesWhole, Returned
    <3>6. QED
      BY <3>4, <3>5
  <2>4. QED
    BY <2>2, <2>3
<1>7. QED
  BY <1>3, <1>4, <1>5, <1>6 DEF copyFile

LEMMA WriteWritesWhole ==
  ASSUME Placed, FileTypes, FileTypes', WritesInvariant, [Next]_vars, NEW t \in Threads, writeAllBytes(t)
  PROVE  Fresh(t)' /\ (Undisturbed(t)' => WritesWhole(t)')
<1>0. /\ data \in Seq(Seq(Nat)) /\ pc \in [Threads -> Steps]
      /\ Op(t) = "writeAllBytes" /\ Op(t)' = "writeAllBytes" /\ UNCHANGED call
      /\ dest \in [Threads -> {NoFile} \cup DOMAIN data] /\ written \in [Threads -> Nat]
      /\ buffer \in [Threads -> Seq(Nat)] /\ links \in [DOMAIN links -> Kinds \cup DOMAIN data]
      /\ call[t].path \in DOMAIN links /\ call[t].units \in Seq(Nat)
  <2>1. Op(t) = "writeAllBytes" /\ call' = call
    BY DEF writeAllBytes, WriteOpen, WriteStream, WriteClose, Placed, WriteSteps, Op
  <2>2. QED
    BY <2>1 DEF Placed, FileTypes, StoreTypes, StreamTypes, MadeOn, Op
<1>1. Fresh(t) /\ (Undisturbed(t) => WritesWhole(t))
  BY DEF WritesInvariant
<1>2. PICK whole \in Seq(Nat) : whole = call[t].units
  BY <1>0
<1>3. /\ Whole(t) = whole /\ Old(t) = <<>> /\ End(t) = Len(whole)
      /\ Whole(t)' = whole /\ Old(t)' = <<>> /\ End(t)' = Len(whole)
      /\ Len(whole) \in Nat /\ <<>> \in Seq(Nat)
  BY <1>0, <1>2 DEF Whole, Old, End
<1>4. CASE WriteOpen(t)
  <2>1. /\ pc[t] = "start" /\ pc'[t] \in {"fwrite", "returned", "thrown"} /\ UNCHANGED written
        /\ written[t] = 0
    BY <1>0, <1>1, <1>4 DEF WriteOpen, GoTo, Fresh
  <2>2. ASSUME pc'[t] # "thrown"
        PROVE  WritesWhole(t)'
    <3>1. /\ OpenToWrite(t, call[t].path, <<>>) /\ buffer' = [buffer EXCEPT ![t] = call[t].units]
          /\ pc'[t] = IF whole = <<>> THEN "returned" ELSE "fwrite"
      BY <1>0, <1>2, <1>4, <2>2 DEF WriteOpen, GoTo
    <3>2. data'[dest'[t]] = <<>> /\ dest'[t] # NoFile
      <4>1. CASE IsFile(call[t].path)
        BY <1>0, <3>1, <4>1, FileNumbers DEF OpenToWrite, IsFile
      <4>2. CASE ~IsFile(call[t].path)
        <5>1. data' = Append(data, <<>>) /\ dest' = [dest EXCEPT ![t] = Len(data')]
          BY <3>1, <4>2 DEF OpenToWrite
        <5>2. data'[Len(data')] = <<>> /\ Len(data') # NoFile
          BY <1>0, <5>1, CreatedIs DEF NoFile
        <5>3. QED
          BY <1>0, <5>1, <5>2
      <4>3. QED
        BY <4>1, <4>2
    <3>3. Overlaid(<<>>, 0, Take(whole, 0)) = <<>>
      BY <1>3, OverlaidNothing
    <3>4. buffer'[t] = SubSeq(whole, 0 + 1, Len(whole))
      <4>1. SubSeq(whole, 1, Len(whole)) = whole
        OBVIOUS
      <4>2. QED
        BY <1>0, <1>2, <3>1, <4>1
    <3>5. WrittenSoFar(t)'
      BY <1>3, <2>1, <3>2, <3>3, <3>4 DEF WrittenSoFar
    <3>6. pc'[t] = "returned" => IsCut(data[dest[t]], Whole(t), Old(t))'
      <4>1. pc'[t] = "returned" => Len(whole) = 0
        BY <3>1
      <4>2. 0 \in 0 .. Len(whole)
        BY <1>3
      <4>3. QED
        BY <1>3, <3>2, <3>3, <4>1, <4>2 DEF IsCut
    <3>7. QED
      BY <2>1, <2>2, <3>2, <3>5, <3>6 DEF WritesWhole, Returned
  <2>3. QED
    BY <2>1, <2>2 DEF Fresh, WritesWhole, Returned
<1>5. CASE WriteStream(t)
  <2>1. UNCHANGED dest /\ pc[t] = "fwrite" /\ dest[t] # NoFile /\ pc'[t] \in {"fclose", "thrown"}
    BY <1>0, <1>5 DEF WriteStream, FileTypes, HasOpen, GoTo
  <2>2. PICK n \in 0 .. Len(buffer[t]) :
          /\ WriteUnits(t, n) /\ written' = [written EXCEPT ![t] = @ + n]
          /\ buffer' = [buffer EXCEPT ![t] = Rest(@, n)]
    BY <1>5 DEF WriteStream
  <2>3. written'[t] = written[t] + n /\ buffer'[t] = Rest(buffer[t], n)
    BY <1>0, <2>2
  <2>4. ASSUME Undisturbed(t)'
        PROVE  WrittenSoFar(t)'
    <3>1. ~disturbed[t]
      BY <2>2, <2>4, OwnDisturb DEF Undisturbed, WriteUnits
    <3>2. WrittenSoFar(t)
      BY <1>0, <1>1, <2>1, <3>1 DEF Undisturbed, WritesWhole
    <3>3. /\ written[t] + n <= Len(whole)
          /\ data'[dest[t]] = Overlaid(<<>>, 0, Take(whole, written[t] + n))
          /\ buffer'[t] = SubSeq(whole, written[t] + n + 1, Len(whole))
      BY <1>0, <1>3, <2>1, <2>2, <2>3, <3>2, UnitsGo
    <3>4. QED
      BY <1>3, <2>1, <2>3, <3>3 DEF WrittenSoFar
  <2>5. QED
    BY <2>1, <2>4 DEF Fresh, WritesWhole, Returned
<1>6. CASE WriteClose(t)
  <2>1. UNCHANGED dest /\ pc[t] = "fclose" /\ dest[t] # NoFile /\ pc'[t] = "returned"
    BY <1>0, <1>6 DEF WriteClose, FileTypes, HasOpen, GoTo, fileVars
  <2>2. PICK n \in 0 .. Len(buffer[t]) :
          /\ WriteUnits(t, n)
          /\ IF n = Len(buffer[t]) THEN UNCHANGED faults ELSE Fault
    BY <1>6 DEF WriteClose
  <2>3. ASSUME Undisturbed(t)'
        PROVE  IsCut(data[dest[t]], Whole(t), Old(t))'
    <3>1. ~disturbed[t]
      BY <2>2, <2>3, OwnDisturb DEF Undisturbed, WriteUnits
    <3>2. WrittenSoFar(t)
      BY <1>0, <1>1, <2>1, <3>1 DEF Undisturbed, WritesWhole
    <3>3. /\ written[t] + n <= Len(whole) /\ Len(buffer[t]) = Len(whole) - written[t]
          /\ data'[dest[t]] = Overlaid(<<>>, 0, Take(whole, written[t] + n))
      BY <1>0, <1>3, <2>1, <2>2, <3>2, UnitsGo
    <3>4. PICK m \in 0 .. Len(whole) : m = written[t] + n /\ (n = Len(buffer[t]) => m = Len(whole))
      <4>1. written[t] \in Nat /\ n \in Nat /\ Len(buffer[t]) \in Nat
        BY <1>0
      <4>2. QED
        BY <1>3, <3>3, <4>1
    <3>5. faults' = 0 => m = Len(whole)
      BY <2>2, <3>4 DEF Fault, WritesInvariant
    <3>6. QED
      BY <1>3, <2>1, <3>3, <3>4, <3>5 DEF IsCut
  <2>4. QED
    BY <2>1, <2>3 DEF Fresh, WritesWhole, Returned
<1>7. QED
  BY <1>4, <1>5, <1>6 DEF writeAllBytes

LEMMA WritesStep == Placed /\ FileTypes /\ WritesInvariant /\ [Next]_vars => WritesInvariant'
<1> SUFFICES ASSUME Placed, FileTypes, WritesInvariant, [Next]_vars
             PROVE  WritesInvariant'
  OBVIOUS
<1>1. FileTypes' /\ Placed' /\ faults' \in Nat
  BY FileTypesStep, PlacedStep, FaultsStep DEF WritesInvariant
<1>2. ASSUME NEW v \in Threads, NEW t \in Threads,
             \/ DirectoryCall(v) /\ UNCHANGED fileVars
             \/ copyFile(v) \/ writeAllBytes(v) \/ readAllBytes(v) \/ deleteFile(v) \/ renameFile(v)
      PROVE  Fresh(t)' /\ (Undisturbed(t)' => WritesWhole(t)')
  <2>1. CASE t # v
    BY <1>2, <2>1, OthersSpared, WritesSpared
  <2>2. CASE t = v /\ copyFile(t)
    BY <1>1, <2>2, CopyWritesWhole
  <2>3. CASE t = v /\ writeAllBytes(t)
    BY <1>1, <2>3, WriteWritesWhole
  <2>4. CASE t = v /\ (DirectoryCall(t) \/ readAllBytes(t) \/ deleteFile(t) \/ renameFile(t))
    <3>1. Op(t) \notin {"copyFile", "writeAllBytes"} /\ UNCHANGED call
      BY <2>4, DirectoryCallSteps
         DEF Op, Reads, readAllBytes, ReadSize, ReadOpen, ReadUnits, deleteFile, renameFile, Placed,
             ReadSteps, system
    <3>2. pc'[t] \notin {"start", "open_to"}
      BY <2>4, DirectoryCallSteps
         DEF readAllBytes, ReadSize, ReadOpen, ReadUnits, deleteFile, renameFile, GoTo, Placed,
             CreateSteps, VerifySteps
    <3>3. QED
      BY <3>1, <3>2 DEF Fresh, Undisturbed, Op
  <2>5. QED
    BY <1>2, <2>1, <2>2, <2>3, <2>4
<1>3. CASE UNCHANGED vars
  BY <1>3 DEF vars, system, fileVars, WritesInvariant, Fresh, Undisturbed, WritesWhole, WrittenSoFar, Whole,
              Old, End, Op, Returned, IsCut
<1>4. QED
  BY <1>1, <1>2, <1>3 DEF Next, DirectoryCall, WritesInvariant

LEMMA WritesInit == Init => WritesInvariant
<1> SUFFICES ASSUME Init
             PROVE  WritesInvariant
  OBVIOUS
<1>1. /\ faults = 0 /\ \A t \in Threads : pc[t] = "start"
      /\ \A t \in Threads : offset[t] = 0 /\ written[t] = 0 /\ buffer[t] = <<>> /\ origin[t].dest = <<>>
  BY DEF Init, SystemInit, FileInit, NoOrigin
<1>2. QED
  BY <1>1 DEF WritesInvariant, Fresh, WritesWhole, Returned

(* Written over nothing, units are what is there.                          *)
LEMMA OverEmpty ==
  ASSUME NEW old \in Seq(Nat), NEW whole \in Seq(Nat), NEW n \in 0 .. Len(whole)
  PROVE  Len(old) = 0 /\ n = Len(whole) => Overlaid(old, 0, Take(whole, n)) = whole
<1>1. PICK all \in Seq(Nat) : all = Overlaid(old, 0, Take(whole, n))
  BY OverlaidPrefix
<1>2. /\ Len(all) = (IF n > Len(old) THEN n ELSE Len(old))
      /\ \A i \in 1 .. Len(all) : all[i] = IF i <= n THEN whole[i] ELSE old[i]
  BY <1>1, OverlaidPrefix
<1>3. HAVE Len(old) = 0 /\ n = Len(whole)
<1>4. Len(all) = n
  BY <1>2, <1>3
<1>5. Len(all) = Len(whole) /\ \A i \in 1 .. Len(whole) : all[i] = whole[i]
  BY <1>2, <1>3, <1>4
<1>6. QED
  BY <1>1, <1>5, SameUnits

LEMMA OverNothing ==
  ASSUME NEW whole \in Seq(Nat)
  PROVE  Overlaid(<<>>, 0, whole) = whole
<1>1. <<>> \in Seq(Nat) /\ Len(<<>>) = 0 /\ Len(whole) \in 0 .. Len(whole)
  OBVIOUS
<1>2. Take(whole, Len(whole)) = whole
  BY TakeAll
<1>3. Overlaid(<<>>, 0, Take(whole, Len(whole))) = whole
  BY <1>1, OverEmpty
<1>4. QED
  BY <1>2, <1>3

(* While no call fails, a copy is the whole source over the destination,   *)
(* and a file that is written is what was to be written.                   *)
THEOREM WholeWhenReturnedAlways == Spec => []WholeWhenReturned
<1>1. WritesInvariant /\ FileTypes => WholeWhenReturned
  <2> SUFFICES ASSUME WritesInvariant, FileTypes, faults = 0,
                      NEW t \in Threads, Returned(t), ~disturbed[t]
               PROVE  /\ (call[t].op = "copyFile" /\ from[t] # Dir) => CopiedAll(t)
                      /\ call[t].op = "writeAllBytes" => WroteAll(t)
    BY DEF WholeWhenReturned
  <2>1. ASSUME Op(t) \in {"copyFile", "writeAllBytes"}, Op(t) = "copyFile" => from[t] # Dir
        PROVE  data[dest[t]] = Overlaid(Old(t), 0, Whole(t)) /\ Whole(t) \in Seq(Nat)
    <3>1. Whole(t) \in Seq(Nat)
      BY <2>1, WholeTypes
    <3>2. IsCut(data[dest[t]], Whole(t), Old(t))
      BY <2>1 DEF WritesInvariant, Undisturbed, WritesWhole
    <3>3. data[dest[t]] = Overlaid(Old(t), 0, Take(Whole(t), Len(Whole(t))))
      BY <3>2 DEF IsCut
    <3>4. Take(Whole(t), Len(Whole(t))) = Whole(t)
      BY <3>1, TakeAll
    <3>5. QED
      BY <3>1, <3>3, <3>4
  <2>2. ASSUME call[t].op = "copyFile", from[t] # Dir
        PROVE  CopiedAll(t)
    BY <2>1, <2>2 DEF CopiedAll, Whole, Old, Op
  <2>3. ASSUME call[t].op = "writeAllBytes"
        PROVE  WroteAll(t)
    <3>1. data[dest[t]] = Overlaid(<<>>, 0, call[t].units) /\ call[t].units \in Seq(Nat)
      BY <2>1, <2>3 DEF Whole, Old, Op
    <3>2. QED
      BY <3>1, OverNothing DEF WroteAll
  <2>4. QED
    BY <2>2, <2>3
<1>2. QED
  BY <1>1, WritesInit, WritesStep, PlacedInit, PlacedStep, FileTypesInit, FileTypesStep, PTL DEF Spec

-----------------------------------------------------------------------------
(* What a thread has read is the beginning of the file it has open; and    *)
(* the size it asks for is that of the file it looked at.                  *)
ReadSoFar(t) ==
  /\ offset[t] <= Len(data[from[t]])
  /\ got[t] = Take(data[from[t]], offset[t])
  /\ size[t] > 0 => offset[t] = 0

AllOfOne(t) == Outgrown(t) \/ got[t] = data[from[t]]

ReadsText(t) ==
  /\ pc[t] \in {"start", "fopen"} => got[t] = <<>> /\ offset[t] = 0
  /\ pc[t] \in {"fopen", "fread"} /\ size[t] > 0 /\ origin[t].file # Dir =>
       origin[t].file \in DOMAIN data /\ size[t] = Len(data[origin[t].file])
  /\ pc[t] = "fread" /\ from[t] # Dir => ReadSoFar(t)
  /\ Returned(t) /\ from[t] # Dir => from[t] # NoFile /\ (faults = 0 => AllOfOne(t))

ReadsInvariant ==
  /\ faults \in Nat
  /\ \A t \in Threads : Reads(t) /\ ~disturbed[t] => ReadsText(t)

LEMMA JoinedIs ==
  ASSUME NEW r \in Seq(Nat), NEW s \in Seq(Nat)
  PROVE  /\ r \o s \in Seq(Nat) /\ Len(r \o s) = Len(r) + Len(s)
         /\ \A i \in 1 .. Len(r) : (r \o s)[i] = r[i]
         /\ \A i \in 1 .. Len(s) : (r \o s)[Len(r) + i] = s[i]
<1>1. r \o s \in Seq(Nat)
  OBVIOUS
<1>2. Len(r \o s) = Len(r) + Len(s)
  OBVIOUS
<1>3. \A i \in 1 .. Len(r) : (r \o s)[i] = r[i]
  OBVIOUS
<1>4. \A i \in 1 .. Len(s) : (r \o s)[Len(r) + i] = s[i]
  OBVIOUS
<1>5. QED
  BY <1>1, <1>2, <1>3, <1>4

LEMMA TakeAndDrop ==
  ASSUME NEW s \in Seq(Nat), NEW m \in Nat, NEW n \in Nat, m + n <= Len(s)
  PROVE  Take(s, m) \o Take(Drop(s, m), n) = Take(s, m + n)
<1>1. Len(s) \in Nat /\ m \in 0 .. Len(s) /\ m + n \in 0 .. Len(s) /\ m + n \in m .. Len(s)
  OBVIOUS
<1>2. PICK head \in Seq(Nat), part \in Seq(Nat), all \in Seq(Nat) :
        head = Take(s, m) /\ part = Take(Drop(s, m), n) /\ all = Take(s, m + n)
  <2>1. Take(s, m) \in Seq(Nat)
    BY <1>1, TakeIs
  <2>2. SubSeq(s, m + 1, m + n) \in Seq(Nat)
    BY <1>1, PartIs
  <2>3. Take(Drop(s, m), n) \in Seq(Nat)
    BY <2>2, TakeOfDrop
  <2>4. Take(s, m + n) \in Seq(Nat)
    BY <1>1, TakeIs
  <2>5. QED
    BY <2>1, <2>3, <2>4
<1>3. Len(head) = m /\ \A i \in 1 .. m : head[i] = s[i]
  BY <1>1, <1>2, TakeIs
<1>4. Len(part) = n /\ \A i \in 1 .. n : part[i] = s[m + i]
  <2>1. PICK k \in m .. Len(s) : k = m + n /\ k - m = n
    BY <1>1
  <2>2. part = SubSeq(s, m + 1, k)
    BY <1>2, <2>1, TakeOfDrop
  <2>3. Len(part) = k - m /\ \A i \in 1 .. k - m : part[i] = s[m + i]
    BY <1>1, <2>2, PartIs
  <2>4. QED
    BY <2>1, <2>3
<1>5. Len(all) = m + n /\ \A i \in 1 .. m + n : all[i] = s[i]
  BY <1>1, <1>2, TakeIs
<1>6. PICK both \in Seq(Nat) : both = head \o part
  BY JoinedIs
<1>7. /\ Len(both) = m + n /\ \A i \in 1 .. m : both[i] = head[i]
      /\ \A j \in 1 .. n : both[m + j] = part[j]
  <2>1. /\ Len(both) = Len(head) + Len(part) /\ \A i \in 1 .. Len(head) : both[i] = head[i]
        /\ \A i \in 1 .. Len(part) : both[Len(head) + i] = part[i]
    BY <1>6, JoinedIs
  <2>2. QED
    BY <1>3, <1>4, <2>1
<1>8. ASSUME NEW i \in 1 .. m + n
      PROVE  both[i] = all[i]
  <2>1. CASE i <= m
    <3>1. i \in 1 .. m
      BY <2>1
    <3>2. QED
      BY <1>3, <1>5, <1>7, <3>1
  <2>2. CASE ~(i <= m)
    <3>1. PICK j \in 1 .. n : j = i - m
      BY <2>2
    <3>2. m + j = i
      BY <2>2, <3>1
    <3>3. both[m + j] = part[j] /\ part[j] = s[m + j]
      BY <1>4, <1>7, <3>1
    <3>4. QED
      BY <1>5, <3>2, <3>3
  <2>3. QED
    BY <2>1, <2>2
<1>9. both = all
  BY <1>5, <1>7, <1>8, SameUnits
<1>10. QED
  BY <1>2, <1>6, <1>9

LEMMA ReadsSpared ==
  ASSUME FileTypes, FileTypes', ReadsInvariant, [Next]_vars,
         NEW t \in Threads, Spared(t), Reads(t)', ~disturbed'[t]
  PROVE  ReadsText(t)'
<1>1. ReadsText(t)
  BY DEF ReadsInvariant, Reads, Spared
<1>2. /\ pc'[t] = pc[t] /\ from'[t] = from[t] /\ offset'[t] = offset[t] /\ size'[t] = size[t]
      /\ got'[t] = got[t] /\ origin'[t] = origin[t]
      /\ \A i \in DOMAIN data : i \in {from[t], origin[t].file} => data'[i] = data[i]
  BY DEF Spared
<1>3. data \in Seq(Seq(Nat)) /\ from[t] \in {NoFile, Dir} \cup DOMAIN data
  BY DEF FileTypes, StoreTypes, StreamTypes
<1>4. origin'[t].file \in {NoFile, Dir} \cup DOMAIN data' /\ NoFile \notin DOMAIN data
  BY <1>3, FileNumbers DEF FileTypes, StreamTypes
<1>5. ASSUME pc[t] \in {"fopen", "fread"}, size[t] > 0, origin[t].file # Dir
      PROVE  origin'[t].file \in DOMAIN data' /\ size'[t] = Len(data'[origin'[t].file])
  <2>1. PICK f \in DOMAIN data : f = origin[t].file /\ size[t] = Len(data[f])
    BY <1>1, <1>5 DEF ReadsText
  <2>2. data'[f] = data[f]
    BY <1>2, <2>1
  <2>3. f \in DOMAIN data'
    BY <1>2, <1>4, <1>5, <2>1
  <2>4. QED
    BY <1>2, <2>1, <2>2, <2>3
<1>6. ASSUME from[t] # Dir, from[t] # NoFile
      PROVE  data'[from'[t]] = data[from[t]]
  BY <1>2, <1>3, <1>6
<1>7. ASSUME pc[t] = "fread", from[t] # Dir
      PROVE  ReadSoFar(t)'
  <2>1. from[t] # NoFile
    BY <1>7 DEF FileTypes, HasOpen
  <2>2. QED
    BY <1>1, <1>2, <1>6, <1>7, <2>1 DEF ReadsText, ReadSoFar
<1>8. ASSUME pc[t] = "returned", from[t] # Dir
      PROVE  from'[t] # NoFile /\ (faults' = 0 => AllOfOne(t)')
  <2>1. from[t] # NoFile /\ (faults = 0 => AllOfOne(t))
    BY <1>1, <1>8 DEF ReadsText, Returned
  <2>2. AllOfOne(t) => AllOfOne(t)'
    BY <1>2, <1>6, <1>8, <2>1 DEF AllOfOne, Outgrown
  <2>3. QED
    BY <1>2, <2>1, <2>2, FaultsStep DEF ReadsInvariant
<1>9. QED
  BY <1>1, <1>2, <1>5, <1>7, <1>8 DEF ReadsText, Returned

(* A step of the thread itself.                                            *)
LEMMA ReadsStepOwn ==
  ASSUME Placed, FileTypes, FileTypes', ReadsInvariant, NEW t \in Threads, readAllBytes(t), ~disturbed'[t]
  PROVE  ReadsText(t)'
<1>0. /\ data \in Seq(Seq(Nat)) /\ pc \in [Threads -> Steps] /\ call[t].path \in DOMAIN links
      /\ from \in [Threads -> {NoFile, Dir} \cup DOMAIN data]
      /\ offset \in [Threads -> Nat] /\ size \in [Threads -> Nat] /\ got \in [Threads -> Seq(Nat)]
      /\ origin \in [Threads -> [file : {NoFile, Dir} \cup DOMAIN data, from : Seq(Nat), dest : Seq(Nat)]]
      /\ UNCHANGED <<links, data, call, disturbed, blocked>>
  BY DEF Placed, FileTypes, StoreTypes, StreamTypes, MadeOn, readAllBytes, ReadSize, ReadOpen, ReadUnits, system
<1>1. ReadsText(t) /\ UNCHANGED <<data, links>>
  <2>1. Reads(t)
    BY DEF readAllBytes, ReadSize, ReadOpen, ReadUnits, Placed, ReadSteps
  <2>2. QED
    BY <1>0, <2>1 DEF ReadsInvariant
<1>2. CASE ReadSize(t)
  <2>1. UNCHANGED <<from, offset, got>> /\ got[t] = <<>> /\ offset[t] = 0
    BY <1>1, <1>2 DEF ReadSize, ReadsText
  <2>2. CASE Exists(call[t].path)
    <3> DEFINE p == call[t].path
               asked == IF p \in Pseudo THEN 0 ELSE IF IsFile(p) THEN Len(data[links[p]]) ELSE 1
    <3>1. /\ size' = [size EXCEPT ![t] = asked] /\ origin' = [origin EXCEPT ![t].file = Opened(p)]
          /\ GoTo(t, "fopen")
      BY <1>2, <2>2 DEF ReadSize
    <3>2. pc'[t] = "fopen" /\ size'[t] = asked /\ origin'[t].file = Opened(p)
      BY <1>0, <3>1 DEF GoTo
    <3>3. ASSUME asked > 0, Opened(p) # Dir
          PROVE  Opened(p) \in DOMAIN data /\ asked = Len(data[Opened(p)])
      <4>1. IsFile(p) /\ Opened(p) = links[p]
        BY <1>0, <2>2, <3>3, OpenedIs DEF Opened, IsFile, FileTypes
      <4>2. asked = Len(data[links[p]])
        BY <3>3, <4>1
      <4>3. QED
        BY <4>1, <4>2 DEF IsFile
    <3> HIDE DEF asked
    <3>4. QED
      BY <1>1, <2>1, <3>2, <3>3 DEF ReadsText, Returned
  <2>3. CASE ~Exists(call[t].path)
    <3>1. pc'[t] = "thrown"
      BY <1>0, <1>2, <2>3 DEF ReadSize, GoTo
    <3>2. QED
      BY <3>1 DEF ReadsText, Returned
  <2>4. QED
    BY <2>2, <2>3
<1>3. CASE ReadOpen(t)
  <2>1. /\ UNCHANGED <<offset, size, got, origin>> /\ pc[t] = "fopen" /\ got[t] = <<>> /\ offset[t] = 0
    BY <1>1, <1>3 DEF ReadOpen, ReadsText
  <2>2. CASE Exists(call[t].path)
    <3>1. pc'[t] = "fread" /\ from'[t] = Opened(call[t].path)
      BY <1>0, <1>3, <2>2 DEF ReadOpen, GoTo
    <3>2. ASSUME from'[t] # Dir
          PROVE  ReadSoFar(t)'
      <4>1. from'[t] \in DOMAIN data
        BY <1>0, <2>2, <3>1, <3>2, OpenedIs DEF FileTypes
      <4>2. PICK s \in Seq(Nat) : s = data[from'[t]]
        BY <1>0, <4>1
      <4>3. Take(s, 0) = <<>> /\ 0 <= Len(s)
        BY DEF Take
      <4>4. QED
        BY <1>1, <2>1, <4>2, <4>3 DEF ReadSoFar
    <3>3. size'[t] > 0 /\ origin'[t].file # Dir =>
            origin'[t].file \in DOMAIN data' /\ size'[t] = Len(data'[origin'[t].file])
      BY <1>1, <2>1 DEF ReadsText
    <3>4. QED
      BY <3>1, <3>2, <3>3 DEF ReadsText, Returned
  <2>3. CASE ~Exists(call[t].path)
    <3>1. pc'[t] = "thrown"
      BY <1>0, <1>3, <2>3 DEF ReadOpen, GoTo
    <3>2. QED
      BY <3>1 DEF ReadsText, Returned
  <2>4. QED
    BY <2>2, <2>3
<1>4. CASE ReadUnits(t)
  <2>1. /\ UNCHANGED <<from, size, origin>> /\ pc[t] = "fread" /\ from[t] # NoFile
    BY <1>4 DEF ReadUnits, FileTypes, HasOpen
  <2>0. PICK n \in 0 .. Most(t) : Gets(t, n)
    BY <1>4, ReadUnitsGets
  <2>2. pc'[t] \in {"fread", "returned"}
    BY <1>0, <2>0 DEF Gets, GoTo
  <2>3. size[t] > 0 /\ origin[t].file # Dir =>
          origin[t].file \in DOMAIN data /\ size[t] = Len(data[origin[t].file])
    BY <1>1, <2>1 DEF ReadsText
  <2>4. CASE from[t] = Dir
    BY <1>1, <2>1, <2>2, <2>3, <2>4 DEF ReadsText, Returned
  <2>5. CASE from[t] # Dir
    <3>1. from[t] \in DOMAIN data /\ ReadSoFar(t)
      BY <1>0, <1>1, <2>1, <2>5 DEF ReadsText
    <3>2. PICK s \in Seq(Nat), m \in Nat, asked \in Nat \ {0} :
            s = data[from[t]] /\ m = offset[t] /\ asked = Asked(t)
      <4>1. Asked(t) \in Nat \ {0}
        <5>1. size[t] \in Nat
          BY <1>0
        <5>2. QED
          BY <5>1, FileAssumption DEF Asked
      <4>2. data[from[t]] \in Seq(Nat) /\ offset[t] \in Nat
        BY <1>0, <3>1
      <4>3. QED
        BY <4>1, <4>2
    <3>3. Left(t) = Drop(s, m)
      BY <2>5, <3>2 DEF Left
    <3>4. m <= Len(s) /\ Len(Drop(s, m)) = Len(s) - m /\ got[t] = Take(s, m)
      <4>1. m <= Len(s) /\ got[t] = Take(s, m)
        BY <3>1, <3>2 DEF ReadSoFar
      <4>2. m + 0 <= Len(s)
        BY <4>1
      <4>3. Len(Drop(s, m)) = Len(s) - m
        BY <4>2, TakeOfDrop
      <4>4. QED
        BY <4>1, <4>3
    <3>5. Most(t) = IF Len(s) - m < asked THEN Len(s) - m ELSE asked
      BY <3>2, <3>3, <3>4 DEF Most
    <3>6. n \in Nat /\ m + n <= Len(s) /\ n <= asked
      BY <3>4, <3>5
    <3>7. PICK units \in Seq(Nat) : units = Take(Drop(s, m), n) /\ Len(units) = n
      <4>1. PICK rest \in Seq(Nat) : rest = Drop(s, m)
        BY TakeDrop
      <4>2. n <= Len(rest)
        BY <3>4, <3>6, <4>1
      <4>3. Take(rest, n) \in Seq(Nat) /\ Len(Take(rest, n)) = n
        BY <3>6, <4>2, TakeDrop
      <4>4. QED
        BY <4>1, <4>3
    <3>8. /\ got' = [got EXCEPT ![t] = @ \o units] /\ offset' = [offset EXCEPT ![t] = @ + n]
          /\ GoTo(t, IF size[t] > 0 \/ IsLastChunk(units) THEN "returned" ELSE "fread")
      BY <2>0, <3>3, <3>7 DEF Gets
    <3>9. got'[t] = Take(s, m) \o units /\ offset'[t] = m + n
      BY <1>0, <3>2, <3>4, <3>7, <3>8
    <3>10. got'[t] = Take(s, m + n)
      BY <3>6, <3>7, <3>9, TakeAndDrop
    <3>11. CASE pc'[t] = "fread"
      <4>1. ~(size[t] > 0)
        BY <1>0, <3>8, <3>11 DEF GoTo
      <4>2. ReadSoFar(t)'
        BY <1>0, <2>1, <3>2, <3>6, <3>9, <3>10, <4>1 DEF ReadSoFar
      <4>3. QED
        BY <1>0, <2>1, <2>3, <3>11, <4>2 DEF ReadsText, Returned
    <3>12. CASE pc'[t] = "returned"
      <4>1. CASE m + n = Len(s)
        <5>1. Take(s, Len(s)) = s
          BY TakeAll
        <5>2. got'[t] = data'[from'[t]]
          BY <1>0, <2>1, <3>2, <3>10, <4>1, <5>1
        <5>3. QED
          BY <2>1, <3>12, <5>2 DEF ReadsText, AllOfOne
      <4>2. CASE m + n # Len(s)
        <5>1. CASE n # Most(t)
          <6>1. faults' = faults + 1
            BY <2>0, <5>1 DEF Gets, Fault
          <6>2. faults' # 0
            BY <6>1 DEF ReadsInvariant
          <6>3. QED
            BY <2>1, <3>12, <6>2 DEF ReadsText
        <5>2. CASE n = Most(t)
          <6>1. n = asked
            BY <3>4, <3>5, <4>2, <5>2
          <6>2. size[t] > 0
            BY <1>0, <3>2, <3>7, <3>8, <3>12, <6>1 DEF GoTo, IsLastChunk, Asked
          <6>3. m = 0 /\ n = size[t] /\ size[t] < Len(s)
            BY <3>1, <3>2, <3>6, <4>2, <6>1, <6>2 DEF ReadSoFar, Asked
          <6>4. from[t] # origin[t].file
            BY <2>3, <2>5, <3>2, <6>2, <6>3
          <6>5. Outgrown(t)'
            BY <1>0, <2>1, <3>2, <6>2, <6>3, <6>4 DEF Outgrown
          <6>6. QED
            BY <2>1, <3>12, <6>5 DEF ReadsText, AllOfOne
        <5>3. QED
          BY <5>1, <5>2
      <4>3. QED
        BY <4>1, <4>2
    <3>13. QED
      BY <2>2, <3>11, <3>12
  <2>6. QED
    BY <2>4, <2>5
<1>5. QED
  BY <1>2, <1>3, <1>4 DEF readAllBytes

LEMMA ReadsStep == Placed /\ FileTypes /\ ReadsInvariant /\ [Next]_vars => ReadsInvariant'
<1> SUFFICES ASSUME Placed, FileTypes, ReadsInvariant, [Next]_vars
             PROVE  ReadsInvariant'
  OBVIOUS
<1>1. FileTypes' /\ faults' \in Nat
  BY FileTypesStep, FaultsStep DEF ReadsInvariant
<1>2. ASSUME NEW v \in Threads, NEW t \in Threads, Reads(t)', ~disturbed'[t],
             \/ DirectoryCall(v) /\ UNCHANGED fileVars
             \/ copyFile(v) \/ writeAllBytes(v) \/ readAllBytes(v) \/ deleteFile(v) \/ renameFile(v)
      PROVE  ReadsText(t)'
  <2>1. CASE t # v
    BY <1>1, <1>2, <2>1, OthersSpared, ReadsSpared
  <2>2. CASE t = v /\ readAllBytes(t)
    BY <1>1, <1>2, <2>2, ReadsStepOwn
  <2>3. CASE t = v /\ ~readAllBytes(t)
    <3>1. UNCHANGED call
      BY <1>2, <2>3, DirectoryCallSteps
         DEF copyFile, CopyFrom, CopyTo, CopyRead, CopyWrite, writeAllBytes, WriteOpen,
             WriteStream, WriteClose, deleteFile, renameFile, system
    <3>2. FALSE
      <4>1. Op(t) \in {"readAllBytes", "readAllLines"}
        BY <1>2, <3>1 DEF Op, Reads
      <4>2. QED
        BY <1>2, <2>3, <4>1, DirectoryCallSteps
           DEF Op, copyFile, CopyFrom, CopyTo, CopyRead, CopyWrite, writeAllBytes, WriteOpen,
               WriteStream, WriteClose, deleteFile, renameFile, Placed, CopySteps, WriteSteps
    <3>3. QED
      BY <3>2
  <2>4. QED
    BY <2>1, <2>2, <2>3
<1>3. CASE UNCHANGED vars
  BY <1>3 DEF vars, system, fileVars, ReadsInvariant, Reads, ReadsText, ReadSoFar, AllOfOne, Outgrown, Returned
<1>4. QED
  BY <1>1, <1>2, <1>3 DEF Next, DirectoryCall, ReadsInvariant

LEMMA ReadsInit == Init => ReadsInvariant
<1> SUFFICES ASSUME Init
             PROVE  ReadsInvariant
  OBVIOUS
<1>1. faults = 0 /\ \A t \in Threads : pc[t] = "start" /\ offset[t] = 0 /\ got[t] = <<>>
  BY DEF Init, SystemInit, FileInit
<1>2. QED
  BY <1>1 DEF ReadsInvariant, ReadsText, Returned

-----------------------------------------------------------------------------
(* Recursion over the numbers up to n.                                     *)

LEMMA UpTo ==
  ASSUME NEW n \in Nat, NEW T, 0 \in T, \A i \in 1 .. n : i - 1 \in T => i \in T
  PROVE  \A i \in 0 .. n : i \in T
<1> DEFINE Missing == {i \in 0 .. n : i \notin T}
<1>1. Missing \subseteq Nat
  OBVIOUS
<1>2. CASE Missing = {}
  BY <1>2
<1>3. CASE Missing # {}
  <2> HIDE DEF Missing
  <2>1. PICK i \in Missing : \A j \in Missing : i <= j
    BY <1>1, <1>3, LeastNat
  <2>2. i \in 0 .. n /\ i \notin T
    BY <2>1 DEF Missing
  <2>3. i \in 1 .. n /\ i - 1 \in 0 .. n
    BY <2>2
  <2>4. i - 1 \notin Missing
    BY <2>1, <2>3
  <2>5. i - 1 \in T
    BY <2>3, <2>4 DEF Missing
  <2>6. QED
    BY <2>2, <2>3, <2>5
<1>4. QED
  BY <1>2, <1>3

(* The first n values of a recursion whose step is G.                      *)
AreValues(f, G, v, n) ==
  /\ f = [i \in 0 .. n |-> f[i]]
  /\ f[0] = v
  /\ \A i \in 1 .. n : f[i] = G[<<i, f[i - 1]>>]

LEMMA SomeValues ==
  ASSUME NEW n \in Nat, NEW V, NEW v \in V, NEW G \in [(1 .. n) \X V -> V]
  PROVE  \E f \in [0 .. n -> V] : AreValues(f, G, v, n)
<1> DEFINE T == {m \in Nat : m <= n => \E f \in [0 .. m -> V] : AreValues(f, G, v, m)}
<1>1. 0 \in T
  <2> DEFINE f == [i \in 0 .. 0 |-> v]
  <2>1. f \in [0 .. 0 -> V] /\ AreValues(f, G, v, 0)
    BY DEF AreValues
  <2> HIDE DEF f
  <2>2. QED
    BY <2>1
<1>2. ASSUME NEW m \in 1 .. n, m - 1 \in T
      PROVE  m \in T
  <2>1. PICK f \in [0 .. m - 1 -> V] : AreValues(f, G, v, m - 1)
    BY <1>2
  <2>2. m \in Nat /\ m - 1 \in 0 .. m - 1 /\ f[m - 1] \in V
    BY <1>2, <2>1
  <2>3. <<m, f[m - 1]>> \in (1 .. n) \X V
    BY <1>2, <2>2
  <2> DEFINE last == G[<<m, f[m - 1]>>]
  <2>4. last \in V
    BY <2>3
  <2> HIDE DEF last
  <2> DEFINE g == [i \in 0 .. m |-> IF i = m THEN last ELSE f[i]]
  <2>5. g \in [0 .. m -> V]
    BY <2>1, <2>2, <2>4
  <2>6. g = [i \in 0 .. m |-> g[i]]
    OBVIOUS
  <2>7. g[m] = last /\ \A i \in 0 .. m - 1 : g[i] = f[i]
    BY <2>2
  <2> HIDE DEF g
  <2>8. g[0] = v
    BY <2>1, <2>7, <1>2 DEF AreValues
  <2>9. ASSUME NEW i \in 1 .. m
        PROVE  g[i] = G[<<i, g[i - 1]>>]
    <3>1. i - 1 \in 0 .. m - 1 /\ g[i - 1] = f[i - 1]
      BY <2>7
    <3>2. CASE i = m
      BY <2>7, <3>1, <3>2 DEF last
    <3>3. CASE i # m
      <4>1. i \in 1 .. m - 1 /\ i \in 0 .. m - 1
        BY <1>2, <3>3
      <4>2. f[i] = G[<<i, f[i - 1]>>]
        BY <2>1, <4>1 DEF AreValues
      <4>3. QED
        BY <2>7, <3>1, <4>1, <4>2
    <3>4. QED
      BY <3>2, <3>3
  <2>10. AreValues(g, G, v, m)
    BY <2>6, <2>8, <2>9 DEF AreValues
  <2>11. QED
    BY <2>2, <2>5, <2>10
<1> HIDE DEF T
<1>3. n \in T
  BY <1>1, <1>2, UpTo
<1>4. QED
  BY <1>3 DEF T

-----------------------------------------------------------------------------
(* The lines of a text.                                                    *)

(* Carriage returns that end a line are left out.                          *)
Dropped(units, i) == units[i] = CR /\ IsLineEnd(units, i + 1)

LEMMA KeptIs ==
  ASSUME NEW units \in Seq(Nat)
  PROVE  /\ Len(units) \in Nat
         /\ Kept(units)[0] = <<>>
         /\ \A i \in 1 .. Len(units) :
              Kept(units)[i] = IF Dropped(units, i) THEN Kept(units)[i - 1]
                               ELSE Append(Kept(units)[i - 1], units[i])
         /\ \A i \in 0 .. Len(units) : Kept(units)[i] \in Seq(Nat)
<1> DEFINE n == Len(units)
           body(f) == [i \in 0 .. n |-> IF i = 0 THEN <<>>
                                        ELSE IF Dropped(units, i) THEN f[i - 1]
                                        ELSE Append(f[i - 1], units[i])]
           G == [p \in (1 .. n) \X Seq(Nat) |->
                   IF Dropped(units, p[1]) THEN p[2] ELSE Append(p[2], units[p[1]])]
<1>1. n \in Nat /\ \A i \in 1 .. n : units[i] \in Nat
  OBVIOUS
<1>2. Kept(units) = CHOOSE f : f = body(f)
  BY DEF Kept, Dropped
<1> HIDE DEF n
<1>3. G \in [(1 .. n) \X Seq(Nat) -> Seq(Nat)]
  <2>1. ASSUME NEW p \in (1 .. n) \X Seq(Nat)
        PROVE  (IF Dropped(units, p[1]) THEN p[2] ELSE Append(p[2], units[p[1]])) \in Seq(Nat)
    <3>1. p[2] \in Seq(Nat) /\ units[p[1]] \in Nat
      BY <1>1
    <3>2. Append(p[2], units[p[1]]) \in Seq(Nat)
      BY <3>1
    <3>3. QED
      BY <3>1, <3>2
  <2>2. QED
    BY <2>1
<1>4. ASSUME NEW p \in (1 .. n) \X Seq(Nat)
      PROVE  G[p] = IF Dropped(units, p[1]) THEN p[2] ELSE Append(p[2], units[p[1]])
  OBVIOUS
<1>5. <<>> \in Seq(Nat)
  OBVIOUS
<1> HIDE DEF G
<1>6. PICK f \in [0 .. n -> Seq(Nat)] : AreValues(f, G, <<>>, n)
  BY <1>1, <1>3, <1>5, SomeValues
<1> DEFINE entry(g, i) == IF i = 0 THEN <<>>
                          ELSE IF Dropped(units, i) THEN g[i - 1]
                          ELSE Append(g[i - 1], units[i])
<1>7. f = body(f)
  <2>1. ASSUME NEW i \in 0 .. n
        PROVE  f[i] = entry(f, i)
    <3>1. CASE i = 0
      BY <1>6, <3>1 DEF AreValues
    <3>2. CASE i # 0
      <4>1. i \in 1 .. n /\ i - 1 \in 0 .. n /\ f[i - 1] \in Seq(Nat)
        BY <1>1, <3>2
      <4>2. <<i, f[i - 1]>> \in (1 .. n) \X Seq(Nat)
        BY <4>1
      <4>3. f[i] = G[<<i, f[i - 1]>>]
        BY <1>6, <4>1 DEF AreValues
      <4>4. QED
        BY <1>4, <3>2, <4>2, <4>3
    <3>3. QED
      BY <3>1, <3>2
  <2>2. f = [i \in 0 .. n |-> f[i]]
    BY <1>6 DEF AreValues
  <2> HIDE DEF entry
  <2>3. f = [i \in 0 .. n |-> entry(f, i)]
    BY <2>1, <2>2
  <2>4. QED
    BY <2>3 DEF entry
<1> DEFINE k == Kept(units)
<1> HIDE DEF body
<1>8. k = body(k)
  BY <1>2, <1>7
<1> HIDE DEF k
<1>9. k = [i \in 0 .. n |-> entry(k, i)]
  BY <1>8 DEF body
<1> HIDE DEF entry
<1>10. \A i \in 0 .. n : k[i] = entry(k, i)
  BY <1>9
<1>11. k[0] = <<>>
  BY <1>1, <1>10 DEF entry
<1>12. \A i \in 1 .. n : k[i] = IF Dropped(units, i) THEN k[i - 1] ELSE Append(k[i - 1], units[i])
  BY <1>1, <1>10 DEF entry
<1>13. \A i \in 0 .. n : k[i] \in Seq(Nat)
  <2> DEFINE T == {i \in 0 .. n : k[i] \in Seq(Nat)}
  <2>1. 0 \in T
    <3>1. 0 \in 0 .. n
      BY <1>1
    <3>2. k[0] \in Seq(Nat)
      BY <1>5, <1>11, Zenon
    <3>3. QED
      BY <3>1, <3>2
  <2>2. ASSUME NEW i \in 1 .. n, i - 1 \in T
        PROVE  i \in T
    <3>1. k[i - 1] \in Seq(Nat) /\ units[i] \in Nat
      BY <1>1, <2>2
    <3>2. Append(k[i - 1], units[i]) \in Seq(Nat)
      BY <3>1
    <3>3. k[i] \in Seq(Nat)
      BY <1>12, <3>1, <3>2
    <3>4. QED
      BY <3>3
  <2> HIDE DEF T
  <2>3. \A i \in 0 .. n : i \in T
    BY <1>1, <2>1, <2>2, UpTo
  <2>4. QED
    BY <2>3 DEF T
<1>14. QED
  BY <1>1, <1>11, <1>12, <1>13 DEF k, n

LEMMA KeptBefore ==
  ASSUME NEW units \in Seq(Nat), NEW s \in 1 .. Len(units) + 1
  PROVE  Kept(units)[s - 1] \in Seq(Nat)
<1>1. s - 1 \in 0 .. Len(units)
  OBVIOUS
<1>2. QED
  BY <1>1, KeptIs, Zenon

LEMMA JoinedSteps ==
  ASSUME NEW lines \in Seq(Seq(Nat))
  PROVE  /\ Len(lines) \in Nat
         /\ Joined(lines)[0] = <<>>
         /\ \A i \in 1 .. Len(lines) :
              Joined(lines)[i] = Joined(lines)[i - 1] \o Append(lines[i], LF)
         /\ \A i \in 0 .. Len(lines) : Joined(lines)[i] \in Seq(Nat)
<1> DEFINE n == Len(lines)
           body(f) == [i \in 0 .. n |-> IF i = 0 THEN <<>> ELSE f[i - 1] \o Append(lines[i], LF)]
           G == [p \in (1 .. n) \X Seq(Nat) |-> p[2] \o Append(lines[p[1]], LF)]
<1>1. n \in Nat /\ \A i \in 1 .. n : Append(lines[i], LF) \in Seq(Nat)
  <2>1. n \in Nat /\ \A i \in 1 .. n : lines[i] \in Seq(Nat)
    OBVIOUS
  <2>2. \A s \in Seq(Nat) : Append(s, LF) \in Seq(Nat)
    BY FileAssumption
  <2>3. QED
    BY <2>1, <2>2
<1>2. Joined(lines) = CHOOSE f : f = body(f)
  BY DEF Joined
<1> HIDE DEF n
<1>3. G \in [(1 .. n) \X Seq(Nat) -> Seq(Nat)]
  <2>1. ASSUME NEW p \in (1 .. n) \X Seq(Nat)
        PROVE  (p[2] \o Append(lines[p[1]], LF)) \in Seq(Nat)
    <3>1. p[2] \in Seq(Nat) /\ Append(lines[p[1]], LF) \in Seq(Nat)
      BY <1>1
    <3>2. QED
      BY <3>1, JoinedIs
  <2>2. QED
    BY <2>1
<1>4. ASSUME NEW p \in (1 .. n) \X Seq(Nat)
      PROVE  G[p] = p[2] \o Append(lines[p[1]], LF)
  OBVIOUS
<1>5. <<>> \in Seq(Nat)
  OBVIOUS
<1> HIDE DEF G
<1>6. PICK f \in [0 .. n -> Seq(Nat)] : AreValues(f, G, <<>>, n)
  BY <1>1, <1>3, <1>5, SomeValues
<1> DEFINE entry(g, i) == IF i = 0 THEN <<>> ELSE g[i - 1] \o Append(lines[i], LF)
<1>7. f = body(f)
  <2>1. ASSUME NEW i \in 0 .. n
        PROVE  f[i] = entry(f, i)
    <3>1. CASE i = 0
      BY <1>6, <3>1 DEF AreValues
    <3>2. CASE i # 0
      <4>1. i \in 1 .. n /\ i - 1 \in 0 .. n /\ f[i - 1] \in Seq(Nat)
        BY <1>1, <3>2
      <4>2. <<i, f[i - 1]>> \in (1 .. n) \X Seq(Nat)
        BY <4>1
      <4>3. f[i] = G[<<i, f[i - 1]>>]
        BY <1>6, <4>1 DEF AreValues
      <4>4. QED
        BY <1>4, <3>2, <4>2, <4>3
    <3>3. QED
      BY <3>1, <3>2
  <2>2. f = [i \in 0 .. n |-> f[i]]
    BY <1>6 DEF AreValues
  <2> HIDE DEF entry
  <2>3. f = [i \in 0 .. n |-> entry(f, i)]
    BY <2>1, <2>2
  <2>4. QED
    BY <2>3 DEF entry
<1> DEFINE k == Joined(lines)
<1> HIDE DEF body
<1>8. k = body(k)
  BY <1>2, <1>7
<1> HIDE DEF k
<1>9. k = [i \in 0 .. n |-> entry(k, i)]
  BY <1>8 DEF body
<1> HIDE DEF entry
<1>10. \A i \in 0 .. n : k[i] = entry(k, i)
  BY <1>9
<1>11. k[0] = <<>>
  BY <1>1, <1>10 DEF entry
<1>12. \A i \in 1 .. n : k[i] = k[i - 1] \o Append(lines[i], LF)
  <2>1. \A i \in 1 .. n : i \in 0 .. n /\ i # 0
    OBVIOUS
  <2>2. QED
    BY <1>10, <2>1, Zenon DEF entry
<1>13. \A i \in 0 .. n : k[i] \in Seq(Nat)
  <2> DEFINE T == {i \in 0 .. n : k[i] \in Seq(Nat)}
  <2>1. 0 \in T
    <3>1. 0 \in 0 .. n
      BY <1>1
    <3>2. k[0] \in Seq(Nat)
      BY <1>5, <1>11, Zenon
    <3>3. QED
      BY <3>1, <3>2
  <2>2. ASSUME NEW i \in 1 .. n, i - 1 \in T
        PROVE  i \in T
    <3>1. k[i - 1] \in Seq(Nat) /\ Append(lines[i], LF) \in Seq(Nat)
      BY <1>1, <2>2
    <3>2. (k[i - 1] \o Append(lines[i], LF)) \in Seq(Nat)
      BY <3>1, JoinedIs
    <3>3. k[i] \in Seq(Nat)
      BY <1>12, <3>1, <3>2
    <3>4. i \in 0 .. n
      OBVIOUS
    <3>5. QED
      BY <3>3, <3>4
  <2> HIDE DEF T
  <2>3. \A i \in 0 .. n : i \in T
    BY <1>1, <2>1, <2>2, UpTo
  <2>4. QED
    BY <2>3 DEF T
<1>14. QED
  BY <1>1, <1>11, <1>12, <1>13 DEF k, n

(* What is appended for a line is a line or nothing.                       *)
LEMMA LineTypes ==
  ASSUME NEW units \in Seq(Nat), NEW s \in 1 .. Len(units) + 1, NEW e \in 1 .. Len(units) + 1
  PROVE  _append_line(units, s, e) \in Seq(Seq(Nat))
<1>1. ASSUME NEW x \in Seq(Nat)
      PROVE  <<x>> \in Seq(Seq(Nat))
  OBVIOUS
<1>2. <<>> \in Seq(Nat) /\ <<>> \in Seq(Seq(Nat))
  OBVIOUS
<1>3. CASE s >= e
  BY <1>1, <1>2, <1>3, Zenon DEF _append_line
<1>4. CASE ~(s >= e)
  <2> DEFINE last == IF units[e - 1] = CR THEN e - 2 ELSE e - 1
  <2>1. last \in Nat /\ last <= Len(units)
    BY <1>4
  <2>2. _append_line(units, s, e) = <<SubSeq(units, s, last)>>
    BY <1>4, Zenon DEF _append_line
  <2> HIDE DEF last
  <2>3. SubSeq(units, s, last) \in Seq(Nat)
    BY <2>1
  <2>4. QED
    BY <1>1, <2>2, <2>3
<1>5. QED
  BY <1>3, <1>4

(* A step of the scan.                                                     *)
AfterUnit(units, i, before) ==
  IF units[i] = LF
  THEN [lines |-> before.lines \o _append_line(units, before.last_start, i), last_start |-> i + 1]
  ELSE before

Nothing == [lines |-> <<>>, last_start |-> 1]

Scans(units) == [lines : Seq(Seq(Nat)), last_start : 1 .. Len(units) + 1]

LEMMA AfterUnitTypes ==
  ASSUME NEW units \in Seq(Nat), NEW i \in 1 .. Len(units), NEW before \in Scans(units)
  PROVE  AfterUnit(units, i, before) \in Scans(units)
<1>1. before.lines \in Seq(Seq(Nat)) /\ before.last_start \in 1 .. Len(units) + 1
  BY DEF Scans
<1>2. i \in 1 .. Len(units) + 1 /\ i + 1 \in 1 .. Len(units) + 1
  OBVIOUS
<1> DEFINE line == _append_line(units, before.last_start, i)
<1>3. line \in Seq(Seq(Nat))
  BY <1>1, <1>2, LineTypes
<1> HIDE DEF line
<1>4. (before.lines \o line) \in Seq(Seq(Nat))
  <2> DEFINE S == Seq(Nat)
  <2> HIDE DEF S
  <2>1. \A a \in Seq(S), b \in Seq(S) : a \o b \in Seq(S)
    OBVIOUS
  <2>2. before.lines \in Seq(S) /\ line \in Seq(S)
    BY <1>1, <1>3 DEF S
  <2>3. QED
    BY <2>1, <2>2 DEF S
<1>5. [lines |-> before.lines \o line, last_start |-> i + 1] \in Scans(units)
  BY <1>2, <1>4 DEF Scans
<1>6. QED
  BY <1>5 DEF AfterUnit, line

LEMMA ScannedIs ==
  ASSUME NEW units \in Seq(Nat)
  PROVE  /\ Scanned(units)[0] = Nothing
         /\ \A i \in 1 .. Len(units) :
              Scanned(units)[i] = AfterUnit(units, i, Scanned(units)[i - 1])
         /\ \A i \in 0 .. Len(units) : Scanned(units)[i] \in Scans(units)
<1> DEFINE n == Len(units)
           V == Scans(units)
           entry(g, i) == IF i = 0 THEN Nothing ELSE AfterUnit(units, i, g[i - 1])
           body(f) == [i \in 0 .. n |-> entry(f, i)]
           G == [p \in (1 .. n) \X V |-> AfterUnit(units, p[1], p[2])]
<1>1. n \in Nat
  OBVIOUS
<1>2. Scanned(units) = CHOOSE f : f = body(f)
  BY DEF Scanned, AfterUnit, Nothing
<1>3. ASSUME NEW i \in 1 .. n, NEW v \in V
      PROVE  AfterUnit(units, i, v) \in V
  BY AfterUnitTypes
<1>4. Nothing \in V
  <2>1. <<>> \in Seq(Seq(Nat)) /\ 1 \in 1 .. Len(units) + 1
    OBVIOUS
  <2>2. QED
    BY <2>1 DEF Nothing, Scans
<1> HIDE DEF n, V
<1>5. G \in [(1 .. n) \X V -> V]
  <2>1. ASSUME NEW p \in (1 .. n) \X V
        PROVE  AfterUnit(units, p[1], p[2]) \in V
    BY <1>3
  <2>2. QED
    BY <2>1
<1>6. ASSUME NEW p \in (1 .. n) \X V
      PROVE  G[p] = AfterUnit(units, p[1], p[2])
  OBVIOUS
<1> HIDE DEF G
<1>7. PICK f \in [0 .. n -> V] : AreValues(f, G, Nothing, n)
  BY <1>1, <1>4, <1>5, SomeValues
<1>8. f = body(f)
  <2>1. ASSUME NEW i \in 0 .. n
        PROVE  f[i] = entry(f, i)
    <3>1. CASE i = 0
      BY <1>7, <3>1 DEF AreValues
    <3>2. CASE i # 0
      <4>1. i \in 1 .. n /\ i - 1 \in 0 .. n /\ f[i - 1] \in V
        BY <1>1, <3>2
      <4>2. <<i, f[i - 1]>> \in (1 .. n) \X V
        BY <4>1
      <4>3. f[i] = G[<<i, f[i - 1]>>]
        BY <1>7, <4>1 DEF AreValues
      <4>4. QED
        BY <1>6, <3>2, <4>2, <4>3
    <3>3. QED
      BY <3>1, <3>2
  <2>2. f = [i \in 0 .. n |-> f[i]]
    BY <1>7 DEF AreValues
  <2> HIDE DEF entry
  <2>3. QED
    BY <2>1, <2>2
<1> DEFINE k == Scanned(units)
<1> HIDE DEF body
<1>9. k = body(k)
  BY <1>2, <1>8
<1> HIDE DEF k, entry
<1>10. k = [i \in 0 .. n |-> entry(k, i)]
  BY <1>9 DEF body
<1>11. \A i \in 0 .. n : k[i] = entry(k, i)
  BY <1>10
<1>12. k[0] = Nothing
  BY <1>1, <1>11 DEF entry
<1>13. \A i \in 1 .. n : k[i] = AfterUnit(units, i, k[i - 1])
  BY <1>1, <1>11 DEF entry
<1>14. \A i \in 0 .. n : k[i] \in V
  <2> DEFINE T == {i \in 0 .. n : k[i] \in V}
  <2>1. 0 \in T
    BY <1>1, <1>4, <1>12
  <2>2. ASSUME NEW i \in 1 .. n, i - 1 \in T
        PROVE  i \in T
    <3>1. i \in 0 .. n /\ k[i - 1] \in V
      BY <2>2
    <3>2. k[i] \in V
      BY <1>3, <1>13, <3>1
    <3>3. QED
      BY <3>1, <3>2
  <2> HIDE DEF T
  <2>3. \A i \in 0 .. n : i \in T
    BY <1>1, <2>1, <2>2, UpTo
  <2>4. QED
    BY <2>3 DEF T
<1>15. QED
  BY <1>12, <1>13, <1>14 DEF k, n, V

LEMMA AppendedTo ==
  ASSUME NEW a \in Seq(Nat), NEW b \in Seq(Nat), NEW x \in Nat
  PROVE  Append(a \o b, x) = a \o Append(b, x)
<1> DEFINE l == Append(a \o b, x)
           r == a \o Append(b, x)
<1>1. l \in Seq(Nat) /\ Len(l) = Len(a) + Len(b) + 1
  OBVIOUS
<1>2. Append(b, x) \in Seq(Nat) /\ Len(Append(b, x)) = Len(b) + 1
  OBVIOUS
<1>3. r \in Seq(Nat) /\ Len(r) = Len(a) + Len(b) + 1
  BY <1>2
<1>4. ASSUME NEW i \in 1 .. Len(a) + Len(b) + 1
      PROVE  l[i] = r[i]
  <2>1. l[i] = IF i <= Len(a) THEN a[i] ELSE IF i = Len(a) + Len(b) + 1 THEN x ELSE b[i - Len(a)]
    OBVIOUS
  <2>2. r[i] = IF i <= Len(a) THEN a[i] ELSE Append(b, x)[i - Len(a)]
    BY <1>2
  <2>3. i > Len(a) => Append(b, x)[i - Len(a)] = IF i = Len(a) + Len(b) + 1 THEN x ELSE b[i - Len(a)]
    <3>1. ASSUME NEW k \in 1 .. Len(b) + 1
          PROVE  Append(b, x)[k] = IF k = Len(b) + 1 THEN x ELSE b[k]
      OBVIOUS
    <3>2. i > Len(a) => /\ i - Len(a) \in 1 .. Len(b) + 1
                        /\ i - Len(a) = Len(b) + 1 <=> i = Len(a) + Len(b) + 1
      OBVIOUS
    <3>3. QED
      BY <3>1, <3>2
  <2>4. CASE i <= Len(a)
    BY <2>1, <2>2, <2>4, Zenon
  <2>5. CASE ~(i <= Len(a))
    <3>1. i > Len(a)
      BY <2>5
    <3>2. QED
      BY <2>1, <2>2, <2>3, <2>5, <3>1, Zenon
  <2>6. QED
    BY <2>4, <2>5
<1> HIDE DEF l, r
<1>5. l = r
  BY <1>1, <1>3, <1>4, SameUnits
<1>6. QED
  BY <1>5 DEF l, r

(* Lines are put together one by one.                                      *)
LEMMA TogetherIs ==
  /\ PutTogether(<<>>) = <<>>
  /\ \A lines \in Seq(Seq(Nat)), x \in Seq(Nat) :
       /\ PutTogether(lines) \in Seq(Nat)
       /\ PutTogether(lines \o <<x>>) = PutTogether(lines) \o Append(x, LF)
<1>1. PutTogether(<<>>) = <<>>
  <2>1. <<>> \in Seq(Seq(Nat)) /\ Len(<<>>) = 0
    OBVIOUS
  <2>2. QED
    BY <2>1, JoinedSteps, Zenon DEF PutTogether
<1>2. ASSUME NEW lines \in Seq(Seq(Nat)), NEW x \in Seq(Nat)
      PROVE  /\ PutTogether(lines) \in Seq(Nat)
             /\ PutTogether(lines \o <<x>>) = PutTogether(lines) \o Append(x, LF)
  <2> DEFINE n == Len(lines)
             more == lines \o <<x>>
  <2>1. n \in Nat /\ more \in Seq(Seq(Nat)) /\ Len(more) = n + 1
    OBVIOUS
  <2>2. more[n + 1] = x /\ \A i \in 1 .. n : more[i] = lines[i]
    OBVIOUS
  <2> HIDE DEF n, more
  <2>3. /\ Joined(lines)[0] = <<>>
        /\ \A i \in 1 .. n : Joined(lines)[i] = Joined(lines)[i - 1] \o Append(lines[i], LF)
        /\ \A i \in 0 .. n : Joined(lines)[i] \in Seq(Nat)
    BY JoinedSteps DEF n
  <2>4. /\ Joined(more)[0] = <<>>
        /\ \A i \in 1 .. n + 1 : Joined(more)[i] = Joined(more)[i - 1] \o Append(more[i], LF)
    BY <2>1, JoinedSteps
  <2> DEFINE T == {i \in 0 .. n : Joined(more)[i] = Joined(lines)[i]}
  <2>5. 0 \in T
    BY <2>1, <2>3, <2>4
  <2>6. ASSUME NEW i \in 1 .. n, i - 1 \in T
        PROVE  i \in T
    <3>1. i \in 0 .. n /\ i \in 1 .. n + 1 /\ Joined(more)[i - 1] = Joined(lines)[i - 1]
      BY <2>1, <2>6
    <3>2. Joined(more)[i] = Joined(more)[i - 1] \o Append(more[i], LF)
      BY <2>4, <3>1, Zenon
    <3>3. Joined(lines)[i] = Joined(lines)[i - 1] \o Append(lines[i], LF)
      BY <2>3, Zenon
    <3>4. Joined(more)[i] = Joined(lines)[i]
      BY <2>2, <3>1, <3>2, <3>3, Zenon
    <3>5. QED
      BY <3>1, <3>4
  <2> HIDE DEF T
  <2>7. n \in T
    <3>1. n \in 0 .. n
      BY <2>1
    <3>2. QED
      BY <2>1, <2>5, <2>6, <3>1, UpTo
  <2>8. Joined(more)[n] = Joined(lines)[n]
    BY <2>7 DEF T
  <2>9. Joined(more)[n + 1] = Joined(more)[n] \o Append(more[n + 1], LF)
    <3>1. n + 1 \in 1 .. n + 1 /\ (n + 1) - 1 = n
      BY <2>1
    <3>2. QED
      BY <2>4, <3>1
  <2>10. n \in 0 .. n
    BY <2>1
  <2>11. QED
    BY <2>1, <2>2, <2>3, <2>8, <2>9, <2>10, Zenon DEF PutTogether, n, more
<1>3. QED
  BY <1>1, <1>2

(* The units from s to e - 1 are a line: none is a line feed, and there is *)
(* one, or the end, at e.                                                  *)
IsLine(units, s, e) ==
  /\ e \in s .. Len(units) + 1 /\ IsLineEnd(units, e)
  /\ \A i \in s .. e - 1 : units[i] # LF

(* Before its last unit nothing of a line is left out.                     *)
LEMMA Stretch ==
  ASSUME NEW units \in Seq(Nat), NEW s \in 1 .. Len(units) + 1, NEW e \in Nat, IsLine(units, s, e)
  PROVE  \A i \in s - 1 .. e - 2 : Kept(units)[i] = Kept(units)[s - 1] \o SubSeq(units, s, i)
<1> DEFINE n == Len(units)
           T == {i \in 0 .. n : i \in s - 1 .. e - 2 =>
                                   Kept(units)[i] = Kept(units)[s - 1] \o SubSeq(units, s, i)}
<1>1. n \in Nat /\ s \in Nat /\ s >= 1 /\ e <= n + 1 /\ e \in Nat
  BY DEF IsLine
<1>2. Kept(units)[s - 1] \in Seq(Nat)
  BY KeptBefore
<1>3. Kept(units)[s - 1] = Kept(units)[s - 1] \o SubSeq(units, s, s - 1)
  <2>1. SubSeq(units, s, s - 1) = <<>>
    BY <1>1
  <2>2. QED
    BY <1>2, <2>1
<1>4. 0 \in T
  <2>1. CASE s = 1
    <3>1. 0 = s - 1 /\ 0 \in 0 .. n
      BY <1>1, <2>1
    <3>2. Kept(units)[0] = Kept(units)[s - 1] \o SubSeq(units, s, 0)
      BY <1>3, <3>1
    <3>3. QED
      BY <3>1, <3>2
  <2>2. CASE s # 1
    <3>1. s - 1 > 0 /\ 0 \in 0 .. n
      BY <1>1, <2>2
    <3>2. 0 \notin s - 1 .. e - 2
      BY <1>1, <3>1
    <3>3. QED
      BY <3>1, <3>2
  <2>3. QED
    BY <2>1, <2>2
<1>5. ASSUME NEW i \in 1 .. n, i - 1 \in T
      PROVE  i \in T
  <2>1. i \in 0 .. n /\ i \in Nat
    OBVIOUS
  <2>2. ASSUME i \in s - 1 .. e - 2
        PROVE  Kept(units)[i] = Kept(units)[s - 1] \o SubSeq(units, s, i)
    <3>1. CASE i = s - 1
      BY <1>3, <3>1
    <3>2. CASE i # s - 1
      <4>1. i - 1 \in s - 1 .. e - 2 /\ i + 1 \in s .. e - 1 /\ i + 1 # n + 1 /\ i \in s .. n
        BY <1>1, <2>2, <3>2
      <4>2. Kept(units)[i - 1] = Kept(units)[s - 1] \o SubSeq(units, s, i - 1)
        BY <1>5, <4>1
      <4>3. ~Dropped(units, i)
        BY <4>1 DEF IsLine, Dropped, IsLineEnd
      <4>4. Kept(units)[i] = Append(Kept(units)[i - 1], units[i])
        BY <4>3, KeptIs, Zenon
      <4>5. SubSeq(units, s, i) = Append(SubSeq(units, s, i - 1), units[i])
        BY <1>1, <4>1, SMTT(30)
      <4>6. SubSeq(units, s, i - 1) \in Seq(Nat) /\ units[i] \in Nat
        BY <1>1, <4>1, SMTT(30)
      <4>7. Append(Kept(units)[s - 1] \o SubSeq(units, s, i - 1), units[i])
              = Kept(units)[s - 1] \o Append(SubSeq(units, s, i - 1), units[i])
        BY <1>2, <4>6, AppendedTo
      <4>8. QED
        BY <4>2, <4>4, <4>5, <4>7
    <3>3. QED
      BY <3>1, <3>2
  <2>3. QED
    BY <2>1, <2>2
<1>6. \A i \in s - 1 .. e - 2 : i \in 0 .. n
  BY <1>1
<1> HIDE DEF T
<1>7. \A i \in 0 .. n : i \in T
  BY <1>1, <1>4, <1>5, UpTo
<1>8. QED
  BY <1>6, <1>7 DEF T

(* What is appended for a line is what is kept of it.                      *)
LEMMA LineIs ==
  ASSUME NEW units \in Seq(Nat), NEW s \in 1 .. Len(units) + 1, NEW e \in Nat, IsLine(units, s, e),
         s < e \/ e <= Len(units)
  PROVE  \E x \in Seq(Nat) :
           /\ _append_line(units, s, e) = <<x>>
           /\ Kept(units)[e - 1] = Kept(units)[s - 1] \o x
<1> DEFINE n == Len(units)
<1>1. n \in Nat /\ s \in Nat /\ s >= 1 /\ s <= e /\ e <= n + 1
  BY DEF IsLine
<1>2. Kept(units)[s - 1] \in Seq(Nat)
  BY KeptBefore
<1>3. CASE s = e
  <2>1. _append_line(units, s, e) = << <<>> >>
    <3>1. s >= e /\ e <= Len(units)
      BY <1>1, <1>3
    <3>2. QED
      BY <3>1, Zenon DEF _append_line
  <2>2. Kept(units)[e - 1] = Kept(units)[s - 1] \o <<>>
    BY <1>2, <1>3
  <2>3. <<>> \in Seq(Nat)
    OBVIOUS
  <2>4. QED
    BY <2>1, <2>2, <2>3
<1>4. CASE s # e
  <2>1. s < e /\ ~(s >= e) /\ e - 1 \in 1 .. n /\ e - 2 \in s - 1 .. e - 2 /\ e - 1 >= s /\ e - 2 \in Nat
    BY <1>1, <1>4
  <2>2. Kept(units)[e - 2] = Kept(units)[s - 1] \o SubSeq(units, s, e - 2)
    BY <2>1, Stretch
  <2>3. (e - 1) + 1 = e /\ (e - 1) - 1 = e - 2
    BY <1>1
  <2>4. SubSeq(units, s, e - 2) \in Seq(Nat) /\ SubSeq(units, s, e - 1) \in Seq(Nat)
    BY <1>1, <2>1
  <2>5. CASE units[e - 1] = CR
    <3>1. Dropped(units, e - 1)
      BY <2>3, <2>5 DEF Dropped, IsLine
    <3>2. Kept(units)[e - 1] = Kept(units)[e - 2]
      BY <2>1, <2>3, <3>1, KeptIs, Zenon
    <3>3. _append_line(units, s, e) = <<SubSeq(units, s, e - 2)>>
      BY <2>1, <2>5, Zenon DEF _append_line
    <3>4. QED
      BY <2>2, <2>4, <3>2, <3>3
  <2>6. CASE units[e - 1] # CR
    <3>1. ~Dropped(units, e - 1)
      BY <2>6 DEF Dropped
    <3>2. Kept(units)[e - 1] = Append(Kept(units)[e - 2], units[e - 1])
      BY <2>1, <2>3, <3>1, KeptIs, Zenon
    <3>3. SubSeq(units, s, e - 1) = Append(SubSeq(units, s, e - 2), units[e - 1])
      BY <1>1, <2>1
    <3>4. units[e - 1] \in Nat
      BY <2>1
    <3>5. Kept(units)[e - 1] = Kept(units)[s - 1] \o SubSeq(units, s, e - 1)
      <4>1. Append(Kept(units)[s - 1] \o SubSeq(units, s, e - 2), units[e - 1])
              = Kept(units)[s - 1] \o Append(SubSeq(units, s, e - 2), units[e - 1])
        BY <1>2, <2>4, <3>4, AppendedTo
      <4>2. QED
        BY <2>2, <3>2, <3>3, <4>1
    <3>6. _append_line(units, s, e) = <<SubSeq(units, s, e - 1)>>
      BY <2>1, <2>6, Zenon DEF _append_line
    <3>7. QED
      BY <2>4, <3>5, <3>6
  <2>7. QED
    BY <2>5, <2>6
<1>5. QED
  BY <1>3, <1>4

(* The lines found so far are what is kept before the one that has begun.  *)
ScansText(units, i) ==
  LET s == Scanned(units)[i].last_start
  IN  /\ s \in 1 .. i + 1
      /\ s = 1 \/ units[s - 1] = LF
      /\ \A j \in s .. i : units[j] # LF
      /\ PutTogether(Scanned(units)[i].lines) = Kept(units)[s - 1]

LEMMA ScanStep ==
  ASSUME NEW units \in Seq(Nat), NEW i \in 1 .. Len(units), ScansText(units, i - 1)
  PROVE  ScansText(units, i)
<1> DEFINE n == Len(units)
           before == Scanned(units)[i - 1]
           s == before.last_start
           after == Scanned(units)[i]
<1>1. n \in Nat /\ i \in Nat /\ i <= n /\ i >= 1
  OBVIOUS
<1>2. after = AfterUnit(units, i, before)
  BY ScannedIs
<1>3. before.lines \in Seq(Seq(Nat)) /\ s \in 1 .. n + 1
  <2>1. before \in Scans(units)
    BY ScannedIs
  <2>2. QED
    BY <2>1 DEF Scans
<1>4. /\ s \in 1 .. i
      /\ s = 1 \/ units[s - 1] = LF
      /\ \A j \in s .. i - 1 : units[j] # LF
      /\ PutTogether(before.lines) = Kept(units)[s - 1]
  <2>1. (i - 1) + 1 = i
    BY <1>1
  <2>2. QED
    BY <2>1 DEF ScansText
<1>5. CASE units[i] # LF
  <2>1. after = before
    BY <1>2, <1>5 DEF AfterUnit
  <2> HIDE DEF before, after
  <2>2. s \in 1 .. i + 1 /\ \A j \in s .. i : units[j] # LF
    BY <1>1, <1>4, <1>5
  <2>3. after.last_start = s
    BY <2>1
  <2>4. QED
    BY <1>4, <2>1, <2>2, <2>3, Zenon DEF ScansText, after
<1>6. CASE units[i] = LF
  <2> HIDE DEF before, after
  <2>1. /\ after.lines = before.lines \o _append_line(units, s, i)
        /\ after.last_start = i + 1
    BY <1>2, <1>6 DEF AfterUnit
  <2> HIDE DEF s
  <2>2. IsLine(units, s, i)
    BY <1>1, <1>4, <1>6 DEF IsLine, IsLineEnd
  <2>3. PICK x \in Seq(Nat) :
          /\ _append_line(units, s, i) = <<x>>
          /\ Kept(units)[i - 1] = Kept(units)[s - 1] \o x
    BY <1>1, <1>3, <2>2, LineIs
  <2>4. PutTogether(after.lines) = Kept(units)[s - 1] \o Append(x, LF)
    BY <1>3, <1>4, <2>1, <2>3, TogetherIs
  <2>5. Kept(units)[i] = Append(Kept(units)[i - 1], LF)
    <3>1. ~Dropped(units, i)
      BY <1>6, FileAssumption DEF Dropped
    <3>2. QED
      BY <1>6, <3>1, KeptIs, Zenon
  <2>6. Kept(units)[s - 1] \in Seq(Nat)
    BY <1>3, KeptBefore
  <2>7. Append(Kept(units)[s - 1] \o x, LF) = Kept(units)[s - 1] \o Append(x, LF)
    BY <2>6, FileAssumption, AppendedTo
  <2>8. PutTogether(after.lines) = Kept(units)[i]
    BY <2>3, <2>4, <2>5, <2>6, <2>7
  <2>9. (i + 1) - 1 = i /\ i + 1 \in 1 .. i + 1 /\ \A j \in i + 1 .. i : FALSE
    BY <1>1
  <2>10. QED
    BY <1>6, <2>1, <2>8, <2>9 DEF ScansText, after
<1>7. QED
  BY <1>5, <1>6

LEMMA ScansAll ==
  ASSUME NEW units \in Seq(Nat)
  PROVE  ScansText(units, Len(units))
<1> DEFINE T == {i \in 0 .. Len(units) : ScansText(units, i)}
<1>1. Len(units) \in Nat
  OBVIOUS
<1>2. 0 \in T
  <2>1. Scanned(units)[0].last_start = 1 /\ Scanned(units)[0].lines = <<>>
    BY ScannedIs DEF Nothing
  <2>2. PutTogether(<<>>) = Kept(units)[1 - 1]
    BY KeptIs, TogetherIs
  <2>3. ScansText(units, 0)
    BY <2>1, <2>2 DEF ScansText
  <2>4. QED
    BY <1>1, <2>3
<1>3. ASSUME NEW i \in 1 .. Len(units), i - 1 \in T
      PROVE  i \in T
  BY <1>3, ScanStep
<1> HIDE DEF T
<1>4. Len(units) \in T
  <2>1. Len(units) \in 0 .. Len(units)
    BY <1>1
  <2>2. QED
    BY <1>1, <1>2, <1>3, <2>1, UpTo
<1>5. QED
  BY <1>4 DEF T

(* The lines of a text, put together again, are the text.                  *)
LEMMA LinesAreText ==
  ASSUME NEW units \in Seq(Nat)
  PROVE  PutTogether(readAllLines(units)) = Normalised(units)
<1> DEFINE n == Len(units)
           all == Scanned(units)[n]
           s == all.last_start
           text == Kept(units)[n]
<1>1. n \in Nat
  OBVIOUS
<1>2. all.lines \in Seq(Seq(Nat)) /\ s \in 1 .. n + 1
  <2>1. all \in Scans(units)
    BY ScannedIs
  <2>2. QED
    BY <2>1 DEF Scans
<1>3. /\ s = 1 \/ units[s - 1] = LF
      /\ \A j \in s .. n : units[j] # LF
      /\ PutTogether(all.lines) = Kept(units)[s - 1]
  BY ScansAll DEF ScansText
<1>4. readAllLines(units) = all.lines \o _append_line(units, s, n + 1)
  BY DEF readAllLines
<1>5. Normalised(units) = IF units = <<>> \/ units[n] = LF THEN text ELSE Append(text, LF)
  BY DEF Normalised, Last
<1>6. CASE s = n + 1
  <2> HIDE DEF all
  <2>1. _append_line(units, s, n + 1) = <<>>
    BY <1>1, <1>6 DEF _append_line
  <2>2. all.lines \o <<>> = all.lines
    BY <1>2
  <2>3. s - 1 = n
    BY <1>1, <1>6
  <2>4. units = <<>> \/ units[n] = LF
    BY <1>1, <1>3, <1>6, <2>3
  <2>5. QED
    BY <1>3, <1>4, <1>5, <2>1, <2>2, <2>3, <2>4, Zenon
<1>7. CASE s # n + 1
  <2> HIDE DEF all
  <2>1. s <= n /\ s < n + 1 /\ n \in s .. n /\ (n + 1) - 1 = n
    BY <1>1, <1>2, <1>7
  <2> HIDE DEF s
  <2>2. ~(units = <<>> \/ units[n] = LF)
    BY <1>2, <1>3, <2>1
  <2>3. IsLine(units, s, n + 1)
    BY <1>1, <1>2, <1>3, <2>1 DEF IsLine, IsLineEnd
  <2>4. PICK x \in Seq(Nat) :
          /\ _append_line(units, s, n + 1) = <<x>>
          /\ text = Kept(units)[s - 1] \o x
    BY <1>1, <1>2, <2>1, <2>3, LineIs
  <2>5. PutTogether(readAllLines(units)) = Kept(units)[s - 1] \o Append(x, LF)
    BY <1>2, <1>3, <1>4, <2>4, TogetherIs
  <2>6. Kept(units)[s - 1] \in Seq(Nat)
    BY <1>2, KeptBefore
  <2>7. Append(Kept(units)[s - 1] \o x, LF) = Kept(units)[s - 1] \o Append(x, LF)
    BY <2>6, FileAssumption, AppendedTo
  <2>8. QED
    BY <1>5, <2>2, <2>4, <2>5, <2>6, <2>7
<1>8. QED
  BY <1>6, <1>7

(* While no call fails, a reader gets all of one file, whatever is         *)
(* renamed, deleted or created while it reads, when the file it opens is   *)
(* not longer than the one it asked for the size; and the lines made of    *)
(* what it got are those of that text.                                     *)
THEOREM ReadsOneVersionAlways == Spec => []ReadsOneVersion
<1>1. ReadsInvariant /\ FileTypes => ReadsOneVersion
  <2> SUFFICES ASSUME ReadsInvariant, FileTypes
               PROVE  ReadsOneVersion
    OBVIOUS
  <2>1. GotOneVersion
    BY DEF ReadsInvariant, GotOneVersion, HasRead, ReadsText, AllOfOne
  <2>2. \A t \in Threads : got[t] \in Seq(Nat)
    BY DEF FileTypes, StreamTypes
  <2>3. QED
    BY <2>1, <2>2, LinesAreText DEF ReadsOneVersion
<1>2. QED
  BY <1>1, ReadsInit, ReadsStep, PlacedInit, PlacedStep, FileTypesInit, FileTypesStep, PTL DEF Spec

=============================================================================
