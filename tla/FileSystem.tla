----------------------------- MODULE FileSystem -----------------------------
(***************************************************************************)
(* The file system under smart/Directory.cpp and smart/File.cpp, as far as *)
(* their system calls tell it apart, and the threads that make the calls.  *)
(*                                                                         *)
(* A path is the sequence of its names.  A file that was opened stays what *)
(* it is when its path is given to another one.                            *)
(***************************************************************************)
EXTENDS Integers, Sequences, FiniteSets

CONSTANTS
  Threads,
  Scenes,     \* what threads call, and on what: see ScenesAssumption
  MaxFaults,  \* bound: system calls that fail
  Pseudo      \* paths of files whose size is said to be 0, as in /proc

NoFile == 0     \* nothing has this path
Dir == -1       \* a directory
LinkToDir == -2 \* a symbolic link to one

Take(s, n) == SubSeq(s, 1, n)

Drop(s, n) == SubSeq(s, n + 1, Len(s))

(* A call is made on one of these paths, or on two. *)
MadeOn(c, paths) ==
  /\ c.path \in paths
  /\ c.op \in {"copyFile", "renameFile"} => c.to \in paths
  /\ c.op = "writeAllBytes" => c.units \in Seq(Nat)
  /\ c.op = "verifyAndCreate" => c.root \in 0 .. Len(c.path)

(* A scene: what each thread calls, what has which path, a number standing *)
(* for a file, and what the files hold.  A path that is there has only     *)
(* directories before it.                                                  *)
ASSUME ScenesAssumption ==
  /\ MaxFaults \in Nat
  /\ \A s \in Scenes :
       /\ \A t \in Threads : MadeOn(s.calls[t], DOMAIN s.links)
       /\ s.data \in Seq(Seq(Nat))
       /\ s.links \in [DOMAIN s.links -> {NoFile, Dir, LinkToDir} \cup DOMAIN s.data]
       /\ \A p \in DOMAIN s.links :
            /\ p \in Seq(STRING) /\ p # <<>>
            /\ \A n \in 1 .. Len(p) - 1 :
                 /\ Take(p, n) \in DOMAIN s.links
                 /\ s.links[p] # NoFile => s.links[Take(p, n)] \in {Dir, LinkToDir}

VARIABLES
  links,      \* what has a path
  data,       \* what the files hold, by number
  faults,
  call,       \* what a thread calls
  pc,         \* its next step
  disturbed,  \* history: did another thread write a file it uses?
  blocked     \* history: paths a file was created at

system == <<links, data, faults, call, disturbed, blocked>>

IsDir(p) == p = <<>> \/ links[p] \in {Dir, LinkToDir}

Exists(p) == p = <<>> \/ links[p] # NoFile

IsFile(p) == links[p] \in DOMAIN data

(* What a program gets that opens p: a link leads to its directory. *)
Opened(p) == IF IsDir(p) THEN Dir ELSE links[p]

Parent(p) == SubSeq(p, 1, Len(p) - 1)

(* mkdir and open can create p. *)
IsFree(p) == ~Exists(p) /\ IsDir(Parent(p))

SystemInit ==
  \E s \in Scenes :
    /\ links = s.links /\ data = s.data /\ call = s.calls
    /\ faults = 0 /\ blocked = {}
    /\ pc = [t \in Threads |-> "start"]
    /\ disturbed = [t \in Threads |-> FALSE]

GoTo(t, next) == pc' = [pc EXCEPT ![t] = next]

Fault == faults < MaxFaults /\ faults' = faults + 1

Returned(t) == pc[t] = "returned"

Ended(t) == pc[t] \in {"returned", "thrown", "empty"}

(* What a file holds after units were written at an offset: zeros fill a   *)
(* gap before them, what is behind them stays.                             *)
Overlaid(old, offset, units) ==
  [i \in 1 .. IF offset + Len(units) > Len(old) THEN offset + Len(units) ELSE Len(old) |->
     IF i \in offset + 1 .. offset + Len(units) THEN units[i - offset]
     ELSE IF i <= Len(old) THEN old[i] ELSE 0]
=============================================================================
