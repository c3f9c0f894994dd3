----------------------------- MODULE Directory -----------------------------
(***************************************************************************)
(* smart/Directory.cpp: create and verifyAndCreate, one system call a step.*)
(* The umask belongs to the process: threads of one process share it.      *)
(***************************************************************************)
EXTENDS FileSystem

CONSTANT Mask  \* the umask of the user: not 0

ASSUME MaskAssumption == Mask \in Nat \ {0}

VARIABLES
  together,  \* are the threads of one process?
  umask,     \* of a process
  mask,      \* what a thread of make_path took the umask to be
  depth,     \* the component of the path a thread is at
  crossed    \* history: processes with two threads in read_umask at once

directoryVars == <<together, umask, mask, depth, crossed>>

Process(t) == IF together THEN CHOOSE u \in Threads : TRUE ELSE t

DirectoryInit ==
  /\ together \in BOOLEAN
  /\ umask = [t \in Threads |-> Mask]
  /\ mask = [t \in Threads |-> 0]
  /\ depth = [t \in Threads |-> 0]
  /\ crossed = {}

-----------------------------------------------------------------------------
(* The component of its path a thread is at, with all before it. *)
Prefix(t) == Take(call[t].path, depth[t])

(* Faulty: the last component is not one of them. *)
IsLastShort(t) == depth[t] + 1 >= Len(call[t].path)

IsLast(t) == depth[t] = Len(call[t].path)

(* make_path: a directory that is there gets the mode, and that is all. *)
Look(t) ==
  /\ call[t].op = "create" /\ pc[t] = "start"
  /\ GoTo(t, IF ~Exists(call[t].path) THEN "read_umask"
             ELSE IF IsDir(call[t].path) THEN "returned" ELSE "thrown")
  /\ UNCHANGED <<system, directoryVars>>

(* read_umask sets the umask to 0 to learn what it was ... *)
ReadUmask(t) ==
  /\ pc[t] = "read_umask"
  /\ mask' = [mask EXCEPT ![t] = umask[Process(t)]]
  /\ umask' = [umask EXCEPT ![Process(t)] = 0]
  /\ crossed' = IF \E u \in Threads \ {t} : Process(u) = Process(t) /\ pc[u] = "reset_umask"
                THEN crossed \cup {Process(t)} ELSE crossed
  /\ GoTo(t, "reset_umask")
  /\ UNCHANGED <<system, together, depth>>

(* Faulty: the umask is only restored when make_path ends. *)
ResetUmaskLater(t) ==
  /\ pc[t] = "reset_umask"
  /\ depth' = [depth EXCEPT ![t] = 1]
  /\ GoTo(t, "component")
  /\ UNCHANGED <<system, together, umask, mask, crossed>>

(* ... and back again. *)
ResetUmask(t) ==
  /\ pc[t] = "reset_umask"
  /\ umask' = [umask EXCEPT ![Process(t)] = mask[t]]
  /\ depth' = [depth EXCEPT ![t] = 1]
  /\ GoTo(t, "component")
  /\ UNCHANGED <<system, together, mask, crossed>>

(* The next component, or the end. *)
Advance(t, component, end) ==
  IF IsLast(t) THEN GoTo(t, end) /\ UNCHANGED depth
  ELSE depth' = [depth EXCEPT ![t] = @ + 1] /\ GoTo(t, component)

(* Faulty: components are made without a look whether they are there. *)
IsMissingAlways(t) == TRUE

IsMissing(t) == ~Exists(Prefix(t))

(* One component: it is there, or has to be made.  Whether the last one is *)
(* a directory is not looked at.                                           *)
Component(t) ==
  /\ call[t].op = "create" /\ pc[t] = "component"
  /\ IF IsMissing(t) THEN GoTo(t, "mkdir") /\ UNCHANGED depth
     ELSE IF IsDir(Prefix(t)) \/ IsLast(t) THEN Advance(t, "component", "restore_umask")
     ELSE GoTo(t, "throw") /\ UNCHANGED depth
  /\ UNCHANGED <<system, together, umask, mask, crossed>>

MakeComponent(t) ==
  /\ pc[t] = "mkdir"
  /\ IF IsFree(Prefix(t))
     THEN links' = [links EXCEPT ![Prefix(t)] = Dir] /\ Advance(t, "component", "restore_umask")
     ELSE GoTo(t, "throw") /\ UNCHANGED <<links, depth>>
  /\ UNCHANGED <<data, faults, call, disturbed, blocked, together, umask, mask, crossed>>

(* The umask is set once more before make_path returns or throws. *)
RestoreUmask(t) ==
  /\ pc[t] \in {"restore_umask", "throw"}
  /\ umask' = [umask EXCEPT ![Process(t)] = mask[t]]
  /\ GoTo(t, IF pc[t] = "throw" THEN "thrown" ELSE "returned")
  /\ UNCHANGED <<system, together, mask, depth, crossed>>

-----------------------------------------------------------------------------
(* lstat: a link to a directory is not one. *)
existsAndIsDirectory(p) == p = <<>> \/ links[p] = Dir

(* verifyAndCreate: the root has to be there, and is all there is to do    *)
(* when nothing is named below it; the answer to any error is the empty    *)
(* string.                                                                 *)
Verify(t) ==
  /\ call[t].op = "verifyAndCreate" /\ pc[t] = "start"
  /\ IF existsAndIsDirectory(Take(call[t].path, call[t].root))
     THEN IF call[t].root = Len(call[t].path) THEN GoTo(t, "returned") /\ UNCHANGED depth
          ELSE GoTo(t, "component") /\ depth' = [depth EXCEPT ![t] = call[t].root + 1]
     ELSE GoTo(t, "empty") /\ UNCHANGED depth
  /\ UNCHANGED <<system, together, umask, mask, crossed>>

VerifyPart(t) ==
  /\ call[t].op = "verifyAndCreate" /\ pc[t] = "component"
  /\ IF existsAndIsDirectory(Prefix(t)) THEN Advance(t, "component", "returned")
     ELSE GoTo(t, "make_part") /\ UNCHANGED depth
  /\ UNCHANGED <<system, together, umask, mask, crossed>>

MakePart(t) ==
  /\ pc[t] = "make_part"
  /\ IF IsFree(Prefix(t))
     THEN links' = [links EXCEPT ![Prefix(t)] = Dir] /\ Advance(t, "component", "returned")
     ELSE GoTo(t, "empty") /\ UNCHANGED <<links, depth>>
  /\ UNCHANGED <<data, faults, call, disturbed, blocked, together, umask, mask, crossed>>

create(t) ==
  \/ Look(t) \/ ReadUmask(t) \/ ResetUmask(t)
  \/ Component(t) \/ MakeComponent(t) \/ RestoreUmask(t)

verifyAndCreate(t) == Verify(t) \/ VerifyPart(t) \/ MakePart(t)
=============================================================================
