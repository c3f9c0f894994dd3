--------------------------- MODULE ProcessProofs ----------------------------
(***************************************************************************)
(* Theorems about Process: what checkOutput returns, and what descriptors  *)
(* the command is given, for buffers and pipes of every size, commands     *)
(* that write any amount and any number of calls.                          *)
(***************************************************************************)
EXTENDS Process, TLAPS

LEMMA MinOfTwo ==
  ASSUME NEW a \in Int, NEW b \in Int
  PROVE  Min({a, b}) = IF a <= b THEN a ELSE b
<1> DEFINE least == IF a <= b THEN a ELSE b
<1>1. least \in {a, b} /\ \A y \in {a, b} : least <= y
  OBVIOUS
<1>2. ASSUME NEW x \in {a, b}, \A y \in {a, b} : x <= y
      PROVE  x = least
  BY <1>2
<1>3. Min({a, b}) \in {a, b} /\ \A y \in {a, b} : Min({a, b}) <= y
  BY <1>1 DEF Min
<1>4. QED
  BY <1>2, <1>3

-----------------------------------------------------------------------------
(* What a caller knows at each of its steps.                               *)
Steps == {"idle", "fork", "select", "read", "waitpid", "last", "wait"}

ProcessTypes ==
  /\ step \in Steps /\ piped \in BOOLEAN
  /\ so_far \in Nat /\ open \in Nat
  /\ left \in Nat /\ emitted \in Nat /\ pipe \in Nat /\ quiet \in Nat
  /\ inherited \in Nat /\ calls \in Nat

(* A command is there from fork to waitpid or wait, and one at a time.     *)
OneCommand ==
  /\ child = "none" <=> step \in {"idle", "fork", "last"}
  /\ step \in {"select", "read", "waitpid", "last"} => piped
  /\ step = "wait" => ~piped

(* What is lost of the output is what exceeds a buffer and was written     *)
(* after select() last timed out: one read follows the end of the command. *)
ReturnsWhatWasThere ==
  (step = "idle" /\ returned = "output") => so_far >= Min({emitted, quiet + BUFFER_SIZE})

(* What was written has been read or is in the pipe; and nothing has been  *)
(* read since select() last found the pipe empty.                          *)
NothingLost ==
  /\ step # "idle" => so_far + pipe = emitted
  /\ step \in {"waitpid", "last"} => so_far = quiet
  /\ so_far <= emitted
  /\ ReturnsWhatWasThere

(* A call leaves at most one descriptor of the caller open, and uses two.  *)
FewDescriptors ==
  /\ open <= calls + (IF piped /\ step # "idle" THEN 1 ELSE 0)
  /\ piped /\ step # "idle" => open >= 1
  /\ child = "forked" => inherited <= calls + 1
  /\ OnlyStandardDescriptors

ProcessInvariant == ProcessTypes /\ OneCommand /\ NothingLost /\ FewDescriptors

(* Steps of the command alone.                                             *)
LEMMA CommandKeeps ==
  ASSUME ProcessInvariant, Exec \/ Write \/ Exit \/ Killed
  PROVE  ProcessInvariant'
<1> USE DEF ProcessInvariant, ProcessTypes, OneCommand, NothingLost, FewDescriptors,
            OnlyStandardDescriptors, ReturnsWhatWasThere
<1>1. CASE Exec
  BY <1>1, SizesAssumption DEF Exec, caller
<1>2. CASE Write
  <2>1. PICK n \in 1 .. Min({left, PipeSize - pipe}) :
          left' = left - n /\ emitted' = emitted + n /\ pipe' = pipe + n
    BY <1>2 DEF Write
  <2>2. n \in Nat /\ n <= left
    <3>1. Min({left, PipeSize - pipe}) \in Int /\ Min({left, PipeSize - pipe}) <= left
      BY MinOfTwo, SizesAssumption
    <3>2. QED
      BY <3>1
  <2>3. child = "running" /\ step # "idle" /\ step # "last"
    BY <1>2 DEF Write
  <2>4. QED
    BY <1>2, <2>1, <2>2, <2>3 DEF Write, caller
<1>3. CASE Exit \/ Killed
  BY <1>3 DEF Exit, Killed, caller
<1>4. QED
  BY <1>1, <1>2, <1>3

(* Steps that begin a call, and end one that gets no command.              *)
LEMMA BeginKeeps ==
  ASSUME ProcessInvariant, checkOutput \/ safeSystem \/ Fork \/ ForkFails
  PROVE  ProcessInvariant'
<1> USE DEF ProcessInvariant, ProcessTypes, Steps, OneCommand, NothingLost, FewDescriptors,
            OnlyStandardDescriptors, ReturnsWhatWasThere
<1>1. CASE checkOutput
  <2>1. \/ piped' /\ piped' \in BOOLEAN /\ step' = "fork" /\ open' = open + 2 /\ returned' = "none"
        \/ returned' = "thrown" /\ UNCHANGED <<step, piped, open>>
    BY <1>1, Zenon DEF checkOutput
  <2>2. /\ step = "idle" /\ calls' = calls + 1 /\ so_far' = 0 /\ emitted' = 0 /\ pipe' = 0 /\ quiet' = 0
        /\ UNCHANGED <<child, inherited, left>>
    BY <1>1 DEF checkOutput
  <2>3. QED
    BY <2>1, <2>2
<1>2. CASE safeSystem
  <2>1. ~piped' /\ piped' \in BOOLEAN
    BY <1>2, Zenon DEF safeSystem
  <2>2. /\ step = "idle" /\ calls' = calls + 1 /\ step' = "fork" /\ returned' = "none"
        /\ so_far' = 0 /\ emitted' = 0 /\ pipe' = 0 /\ quiet' = 0
        /\ UNCHANGED <<open, child, inherited, left>>
    BY <1>2 DEF safeSystem
  <2>3. QED
    BY <2>1, <2>2
<1>3. CASE Fork
  <2>1. left' \in Nat
    BY <1>3 DEF Fork
  <2>2. QED
    BY <1>3, <2>1 DEF Fork
<1>4. CASE ForkFails
  BY <1>4 DEF ForkFails, command
<1>5. QED
  BY <1>1, <1>2, <1>3, <1>4

(* A read takes what is there, up to the size of its buffer.               *)
LEMMA ReadTakes ==
  ASSUME ProcessTypes, ReadPipe
  PROVE  /\ so_far' \in Nat /\ pipe' \in Nat /\ so_far' + pipe' = so_far + pipe
         /\ so_far' = so_far + IF pipe <= BUFFER_SIZE THEN pipe ELSE BUFFER_SIZE
<1>1. BUFFER_SIZE \in Nat /\ pipe \in Nat /\ so_far \in Nat
  BY SizesAssumption DEF ProcessTypes
<1>2. Min({pipe, BUFFER_SIZE}) = IF pipe <= BUFFER_SIZE THEN pipe ELSE BUFFER_SIZE
  BY <1>1, MinOfTwo
<1>3. so_far' = so_far + Min({pipe, BUFFER_SIZE}) /\ pipe' = pipe - Min({pipe, BUFFER_SIZE})
  BY DEF ReadPipe
<1>4. QED
  BY <1>1, <1>2, <1>3

LEMMA CollectKeeps ==
  ASSUME ProcessInvariant, Select \/ Read \/ SelectTimeout \/ Waitpid \/ LastRead \/ Wait
  PROVE  ProcessInvariant'
<1> USE DEF ProcessInvariant, ProcessTypes, Steps, OneCommand, NothingLost, FewDescriptors,
            OnlyStandardDescriptors, HasEnded
<1>1. CASE Select \/ SelectTimeout
  BY <1>1 DEF Select, SelectTimeout, command, ReturnsWhatWasThere
<1>2. CASE Read
  BY <1>2, ReadTakes DEF Read, ReturnsWhatWasThere
<1>3. CASE Waitpid
  BY <1>3 DEF Waitpid, ReturnsWhatWasThere
<1>4. CASE LastRead
  <2>1. /\ so_far' \in Nat /\ pipe' \in Nat /\ so_far' + pipe' = so_far + pipe
        /\ so_far' = so_far + IF pipe <= BUFFER_SIZE THEN pipe ELSE BUFFER_SIZE
    BY <1>4, ReadTakes DEF LastRead
  <2>2. so_far = quiet /\ so_far + pipe = emitted /\ UNCHANGED <<emitted, quiet>>
    BY <1>4 DEF LastRead
  <2>3. Min({emitted, quiet + BUFFER_SIZE}) =
          IF emitted <= quiet + BUFFER_SIZE THEN emitted ELSE quiet + BUFFER_SIZE
    BY MinOfTwo, SizesAssumption
  <2>4. so_far' >= Min({emitted, quiet + BUFFER_SIZE})
    BY <2>1, <2>2, <2>3, SizesAssumption
  <2>5. ReturnsWhatWasThere'
    BY <2>2, <2>4 DEF ReturnsWhatWasThere
  <2>6. QED
    BY <1>4, <2>1, <2>5 DEF LastRead
<1>5. CASE Wait
  BY <1>5 DEF Wait, ReturnsWhatWasThere
<1>6. QED
  BY <1>1, <1>2, <1>3, <1>4, <1>5

(* The caller, the pipe and the command agree at all times.                *)
THEOREM ProcessInvariantHolds == ProcessSpec => []ProcessInvariant
<1>1. ProcessInit => ProcessInvariant
  <2> SUFFICES ASSUME ProcessInit
               PROVE  ProcessInvariant
    OBVIOUS
  <2>1. ~piped /\ piped \in BOOLEAN
    BY Zenon DEF ProcessInit
  <2>2. QED
    BY <2>1 DEF ProcessInit, ProcessInvariant, ProcessTypes, Steps, OneCommand, NothingLost, FewDescriptors,
       OnlyStandardDescriptors, ReturnsWhatWasThere
<1>2. ProcessInvariant /\ [ProcessNext]_processVars => ProcessInvariant'
  <2>1. ASSUME ProcessInvariant, UNCHANGED processVars
        PROVE  ProcessInvariant'
    BY <2>1 DEF processVars, caller, command, ProcessInvariant, ProcessTypes, OneCommand, NothingLost,
       FewDescriptors, OnlyStandardDescriptors, ReturnsWhatWasThere
  <2>2. QED
    BY <2>1, CommandKeeps, BeginKeeps, CollectKeeps DEF ProcessNext
<1>3. QED
  BY <1>1, <1>2, PTL DEF ProcessSpec

(* The output of a command that writes no more than BUFFER_SIZE is         *)
(* returned whole, whatever it is of the race with waitpid.                *)
THEOREM ShortOutputIsWholeAlways == ProcessSpec => []ShortOutputIsWhole
<1>1. ProcessInvariant => ShortOutputIsWhole
  <2> SUFFICES ASSUME ProcessInvariant, emitted <= BUFFER_SIZE, step = "idle", returned = "output"
               PROVE  so_far = emitted
    BY DEF ShortOutputIsWhole, AllOfTheOutput
  <2>1. /\ so_far >= Min({emitted, quiet + BUFFER_SIZE}) /\ so_far <= emitted
        /\ so_far \in Nat /\ emitted \in Nat /\ quiet \in Nat
    BY DEF ProcessInvariant, ProcessTypes, NothingLost, ReturnsWhatWasThere
  <2>2. Min({emitted, quiet + BUFFER_SIZE}) = emitted
    BY <2>1, MinOfTwo, SizesAssumption
  <2>3. QED
    BY <2>1, <2>2
<1>2. QED
  BY <1>1, ProcessInvariantHolds, PTL

(* As long as there have been few calls, a command gets no descriptors of  *)
(* the caller's but the standard ones.                                     *)
THEOREM OnlyStandardDescriptorsAlways == ProcessSpec => []OnlyStandardDescriptors
<1>1. ProcessInvariant => OnlyStandardDescriptors
  BY DEF ProcessInvariant, FewDescriptors
<1>2. QED
  BY <1>1, ProcessInvariantHolds, PTL

=============================================================================
