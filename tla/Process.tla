------------------------------ MODULE Process -------------------------------
(***************************************************************************)
(* smart/Process.cpp: a program runs a command and collects what it writes *)
(* (checkOutput), or waits for it (safeSystem).  Caller and command run    *)
(* concurrently, joined by a pipe and by the command's end.                *)
(*                                                                         *)
(* What is written is counted, not looked at: a pipe keeps the order.  No  *)
(* other process of the command's outlives it with the pipe in its hands.  *)
(***************************************************************************)
EXTENDS Integers, FiniteSetsExt

CONSTANTS
  BUFFER_SIZE,     \* what one read asks for
  PipeSize,        \* what the pipe holds before a writer has to wait
  MaxDescriptors,  \* open files a process may have, standard ones aside
  MaxOutput,       \* bound: what a command writes
  MaxCalls         \* bound: calls of the program

ASSUME SizesAssumption ==
  BUFFER_SIZE \in Nat \ {0} /\ PipeSize \in Nat \ {0} /\ MaxDescriptors \in Nat

VARIABLES
  step,       \* the caller's next step
  piped,      \* is fd_output given?
  so_far,     \* what has been read
  open,       \* the caller's descriptors, standard ones aside
  returned,   \* of the last call: "none", "thrown", "error", "output", "zero", "nonzero"
  child,      \* "none", "forked", "running", or "ok", "failed", "killed" until waited for
  inherited,  \* descriptors of the command, standard ones aside
  left,       \* what the command has still to write
  emitted,    \* what it has written
  pipe,       \* what of that is in the pipe
  calls,      \* history: calls of checkOutput and safeSystem
  quiet       \* history: `emitted' when a select() of this call last timed out

caller == <<step, piped, so_far, open, returned>>
command == <<child, inherited, left, emitted, pipe>>
processVars == <<caller, command, calls, quiet>>

HasEnded == child \in {"ok", "failed", "killed"}

ProcessInit ==
  /\ step = "idle" /\ piped = FALSE /\ so_far = 0 /\ open = 0 /\ returned = "none"
  /\ child = "none" /\ inherited = 0 /\ left = 0 /\ emitted = 0 /\ pipe = 0
  /\ calls = 0 /\ quiet = 0

-----------------------------------------------------------------------------
(* create *)

(* checkOutput gives create() a place for the read end of a pipe. *)
checkOutput ==
  /\ step = "idle" /\ calls < MaxCalls
  /\ calls' = calls + 1
  /\ so_far' = 0 /\ emitted' = 0 /\ pipe' = 0 /\ quiet' = 0
  /\ IF open + 2 =< MaxDescriptors
     THEN step' = "fork" /\ piped' = TRUE /\ open' = open + 2 /\ returned' = "none"
     ELSE returned' = "thrown" /\ UNCHANGED <<step, piped, open>>
  /\ UNCHANGED <<child, inherited, left>>

safeSystem ==
  /\ step = "idle" /\ calls < MaxCalls
  /\ calls' = calls + 1
  /\ step' = "fork" /\ piped' = FALSE /\ returned' = "none"
  /\ so_far' = 0 /\ emitted' = 0 /\ pipe' = 0 /\ quiet' = 0
  /\ UNCHANGED <<open, child, inherited, left>>

(* The child gets all of the caller's descriptors.  The caller goes on     *)
(* with both ends of the pipe open.                                        *)
Fork ==
  /\ step = "fork"
  /\ child' = "forked" /\ inherited' = open
  /\ left' \in IF piped THEN 0 .. MaxOutput ELSE {0}
  /\ step' = IF piped THEN "select" ELSE "wait"
  /\ UNCHANGED <<piped, so_far, open, returned, emitted, pipe, calls, quiet>>

(* Faulty: neither end of the pipe is closed. *)
ForkFailsOpen ==
  /\ step = "fork"
  /\ step' = "idle"
  /\ returned' = IF piped THEN "thrown" ELSE "error"
  /\ UNCHANGED <<piped, so_far, open, command, calls, quiet>>

(* fork fails: the write end is closed, the read end stays open. *)
ForkFails ==
  /\ step = "fork"
  /\ step' = "idle"
  /\ IF piped THEN open' = open - 1 /\ returned' = "thrown"
     ELSE returned' = "error" /\ UNCHANGED open
  /\ UNCHANGED <<piped, so_far, command, calls, quiet>>

(* The child closes all but the standard descriptors, which it finds in    *)
(* /proc/self/fd if it can have one more to open that; then it runs the    *)
(* command, if there is such a program.                                    *)
Exec ==
  /\ child = "forked"
  /\ inherited' = IF inherited < MaxDescriptors THEN 0 ELSE inherited
  /\ \/ child' = "running" /\ UNCHANGED left
     \/ child' = "failed" /\ left' = 0
  /\ UNCHANGED <<caller, emitted, pipe, calls, quiet>>

-----------------------------------------------------------------------------
(* The command: external. *)

(* A writer waits while the pipe is full. *)
Write ==
  /\ child = "running"
  /\ \E n \in 1 .. Min({left, PipeSize - pipe}) :
       left' = left - n /\ emitted' = emitted + n /\ pipe' = pipe + n
  /\ UNCHANGED <<caller, child, inherited, calls, quiet>>

Exit ==
  /\ child = "running" /\ left = 0
  /\ child' \in {"ok", "failed"}
  /\ UNCHANGED <<caller, inherited, left, emitted, pipe, calls, quiet>>

Killed ==
  /\ child = "running"
  /\ child' = "killed" /\ left' = 0
  /\ UNCHANGED <<caller, inherited, emitted, pipe, calls, quiet>>

-----------------------------------------------------------------------------
(* checkOutput reads while there is something to read ... *)
Select ==
  /\ step = "select" /\ pipe > 0
  /\ step' = "read"
  /\ UNCHANGED <<piped, so_far, open, returned, command, calls, quiet>>

ReadPipe ==
  LET this_round == Min({pipe, BUFFER_SIZE})
  IN  so_far' = so_far + this_round /\ pipe' = pipe - this_round

Read ==
  /\ step = "read"
  /\ ReadPipe
  /\ step' = "select"
  /\ UNCHANGED <<piped, open, returned, child, inherited, left, emitted, calls, quiet>>

(* ... and when there is not for 10 ms, looks whether the command is over. *)
(* The pipe never comes to its end: the caller itself could write to it.   *)
SelectTimeout ==
  /\ step = "select" /\ pipe = 0
  /\ step' = "waitpid"
  /\ quiet' = emitted
  /\ UNCHANGED <<piped, so_far, open, returned, command, calls>>

(* Faulty: waitpid waits for the command, as it does without WNOHANG. *)
WaitpidBlocks ==
  /\ step = "waitpid" /\ HasEnded
  /\ child' = "none" /\ step' = "last"
  /\ UNCHANGED <<piped, so_far, open, returned, inherited, left, emitted, pipe, calls, quiet>>

Waitpid ==
  /\ step = "waitpid"
  /\ IF HasEnded THEN child' = "none" /\ step' = "last"
     ELSE step' = "select" /\ UNCHANGED child
  /\ UNCHANGED <<piped, so_far, open, returned, inherited, left, emitted, pipe, calls, quiet>>

(* Faulty: what was written at the very end is not read. *)
LastReadSkipped ==
  /\ step = "last"
  /\ step' = "idle" /\ returned' = "output" /\ open' = open - 1
  /\ UNCHANGED <<piped, so_far, child, inherited, left, emitted, pipe, calls, quiet>>

(* One more read; the destructor of fd_auto closes the read end.  *)
LastRead ==
  /\ step = "last"
  /\ ReadPipe
  /\ step' = "idle" /\ returned' = "output" /\ open' = open - 1
  /\ UNCHANGED <<piped, child, inherited, left, emitted, calls, quiet>>

(* wait(): the exit status, which is 0 too for a command that was killed. *)
Wait ==
  /\ step = "wait" /\ HasEnded
  /\ child' = "none"
  /\ step' = "idle" /\ returned' = IF child = "failed" THEN "nonzero" ELSE "zero"
  /\ UNCHANGED <<piped, so_far, open, inherited, left, emitted, pipe, calls, quiet>>

ProcessNext ==
  \/ checkOutput \/ safeSystem \/ Fork \/ ForkFails
  \/ Exec \/ Write \/ Exit \/ Killed
  \/ Select \/ Read \/ SelectTimeout \/ Waitpid \/ LastRead \/ Wait

(* The caller goes on, and the command does as long as it can write;       *)
(* nobody kills it.                                                        *)
CallerStep == Fork \/ Select \/ Read \/ SelectTimeout \/ Waitpid \/ LastRead \/ Wait

CommandStep == Exec \/ Write \/ Exit

ProcessSpec ==
  /\ ProcessInit /\ [][ProcessNext]_processVars
  /\ WF_processVars(CallerStep)
  /\ WF_processVars(CommandStep)

-----------------------------------------------------------------------------
(* Process.h on checkOutput: "Both standard and error output are capture." *)
(* What it returns is all that the command wrote.                          *)
AllOfTheOutput == (step = "idle" /\ returned = "output") => so_far = emitted

(* What it does keep: a command that writes no more than one read asks for *)
(* loses none of it, whether it writes before, between or after the looks  *)
(* of select() and waitpid(), and however it ends.                         *)
ShortOutputIsWhole == emitted =< BUFFER_SIZE => AllOfTheOutput

(* Process.h on create: "This function closes all file descriptors except  *)
(* standard ones before starting the process."  Every checkOutput leaves   *)
(* one descriptor of the caller open, and no more, whether it succeeds or  *)
(* throws: as long as there have been few calls, the promise can be kept.  *)
OnlyStandardDescriptors ==
  (calls + 2 =< MaxDescriptors /\ child \notin {"none", "forked"}) => inherited = 0

(* Every call comes to an end, however much the command writes: it is not  *)
(* left waiting for room in the pipe while its caller waits for it to end. *)
CallsReturn == (step # "idle") ~> (step = "idle")

=============================================================================
