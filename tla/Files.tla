------------------------------- MODULE Files -------------------------------
(***************************************************************************)
(* Programs that use smart/Directory.cpp and smart/File.cpp on the same    *)
(* paths at the same time: every thread makes the call its scene gives it. *)
(***************************************************************************)
EXTENDS Directory, File

vars == <<system, pc, directoryVars, fileVars>>

Init == SystemInit /\ DirectoryInit /\ FileInit

Next ==
  \E t \in Threads :
    \/ (create(t) \/ verifyAndCreate(t)) /\ UNCHANGED fileVars
    \/ /\ copyFile(t) \/ writeAllBytes(t) \/ readAllBytes(t) \/ deleteFile(t) \/ renameFile(t)
       /\ UNCHANGED directoryVars

Spec == Init /\ [][Next]_vars

-----------------------------------------------------------------------------
Creates(t) == call[t].op \in {"create", "verifyAndCreate"}

(* A call that created a directory and did not fail leaves one there, with *)
(* all directories it is in, whoever else created part of it; unless       *)
(* somebody put a file there meanwhile: make_path does not look whether    *)
(* the last component, when it turns up during the call, is a directory.   *)
MadePathExists ==
  \A t \in Threads : (Creates(t) /\ Returned(t)) =>
    \A n \in 1 .. Len(call[t].path) :
      LET p == Take(call[t].path, n) IN IsDir(p) \/ p \in blocked

(* Of threads that create the same path, or one the other's path goes      *)
(* through, at least one succeeds when no file or link is in the way: mkdir *)
(* fails for one only because it succeeded for another.  (verifyAndCreate  *)
(* wants a root to begin with.)                                            *)
SomeCreatorWins ==
  (/\ \A t \in Threads : Creates(t) /\ Ended(t)
   /\ \A p \in DOMAIN links : links[p] \in {NoFile, Dir}
   /\ \E t \in Threads : call[t].op = "create" \/ existsAndIsDirectory(Take(call[t].path, call[t].root))) =>
     \E t \in Threads : Returned(t)

(* Outside of read_umask a process has the umask of its user, so that the  *)
(* directories make_path makes are not open to others, and has it for good *)
(* afterwards, whichever way make_path ends: unless two of its threads     *)
(* were in read_umask at once, where one takes the other's 0 for the umask *)
(* and may leave it at that.                                               *)
UmaskKept ==
  \A process \in {Process(t) : t \in Threads} :
    \/ umask[process] = Mask
    \/ process \in crossed
    \/ \E t \in Threads : Process(t) = process /\ pc[t] = "reset_umask"

(* While no system call fails, a file that was copied to begins with what  *)
(* the source held and goes on with what the destination held beyond that  *)
(* (copyFile does not cut a longer one), also when they are the same file  *)
(* and however the writes are split; and a file that was written holds     *)
(* what was written and nothing else: unless another thread wrote one of   *)
(* them meanwhile.                                                         *)
CopiedAll(t) == data[dest[t]] = Overlaid(origin[t].dest, 0, origin[t].from)

WroteAll(t) == data[dest[t]] = call[t].units

WholeWhenReturned ==
  faults = 0 => \A t \in Threads : (Returned(t) /\ ~disturbed[t]) =>
    /\ (call[t].op = "copyFile" /\ from[t] # Dir) => CopiedAll(t)
    /\ call[t].op = "writeAllBytes" => WroteAll(t)

(* "Write all bytes to the file; throw exceptions on errors." (File.h:68): *)
(* a call of writeAllBytes that returns has written all of it, whichever   *)
(* system call failed.                                                     *)
ErrorsAreThrown ==
  \A t \in Threads : (call[t].op = "writeAllBytes" /\ Returned(t) /\ ~disturbed[t]) => WroteAll(t)

IsLineEnd(units, i) == i = Len(units) + 1 \/ units[i] = LF

(* The first i units of a text, without the carriage returns that end its  *)
(* lines.                                                                  *)
Kept(units) ==
  LET kept[i \in 0 .. Len(units)] ==
        IF i = 0 THEN <<>>
        ELSE IF units[i] = CR /\ IsLineEnd(units, i + 1) THEN kept[i - 1]
        ELSE Append(kept[i - 1], units[i])
  IN  kept

(* The first n lines, with a line feed after each.                         *)
Joined(lines) ==
  LET text[n \in 0 .. Len(lines)] == IF n = 0 THEN <<>> ELSE text[n - 1] \o Append(lines[n], LF)
  IN  text

PutTogether(lines) == Joined(lines)[Len(lines)]

(* What the lines of a text are: put together again, they are the text     *)
(* without the carriage returns that end them, and with a line feed at its *)
(* end.                                                                    *)
Normalised(units) ==
  LET text == Kept(units)[Len(units)]
  IN  IF units = <<>> \/ Last(units) = LF THEN text ELSE Append(text, LF)

(* While no system call fails, a reader gets all of one file, whatever is  *)
(* renamed, deleted or created while it reads, and whether or not the size *)
(* of the file is known: unless another thread writes the file in place,   *)
(* or another, longer file took the path after the size was asked for.     *)
HasRead(t) == Reads(t) /\ Returned(t) /\ ~disturbed[t] /\ from[t] # Dir

Outgrown(t) == from[t] # origin[t].file /\ 0 < size[t] /\ size[t] < Len(data[from[t]])

GotOneVersion ==
  faults = 0 => \A t \in Threads : (HasRead(t) /\ ~Outgrown(t)) => got[t] = data[from[t]]

(* And the lines of what it got are those of that text.                    *)
ReadsOneVersion ==
  /\ GotOneVersion
  /\ \A t \in Threads : (HasRead(t) /\ call[t].op = "readAllLines") =>
       PutTogether(readAllLines(got[t])) = Normalised(got[t])

=============================================================================
