-------------------------------- MODULE File --------------------------------
(***************************************************************************)
(* smart/File.cpp: the functions on whole files, one system call a step.   *)
(* The destructors that close what is open change nothing but what a       *)
(* stream had not written yet.                                             *)
(***************************************************************************)
EXTENDS FileSystem, SequencesExt

CONSTANTS
  BufferSize,  \* units copyFile reads at once
  ChunkSize,   \* units read_all_bytes reads at once when it knows no size
  CR, LF       \* the units that end a line

ASSUME FileAssumption ==
  /\ BufferSize \in Nat \ {0} /\ ChunkSize \in Nat \ {0}
  /\ CR \in Nat /\ LF \in Nat /\ CR # LF

VARIABLES
  from, dest,  \* the files a thread has open: fd_from or fin, and fd_to or fout
  offset,      \* where it reads
  written,     \* where it writes
  buffer,      \* what it is to write yet
  size,        \* the size stat gave it
  got,         \* what it has read
  origin       \* history: the file stat looked at; from and dest as they were opened

fileVars == <<from, dest, offset, written, buffer, size, got, origin>>

NoOrigin == [file |-> NoFile, from |-> <<>>, dest |-> <<>>]

FileInit ==
  /\ from = [t \in Threads |-> NoFile] /\ dest = [t \in Threads |-> NoFile]
  /\ offset = [t \in Threads |-> 0] /\ written = [t \in Threads |-> 0]
  /\ buffer = [t \in Threads |-> <<>>] /\ got = [t \in Threads |-> <<>>]
  /\ size = [t \in Threads |-> 0]
  /\ origin = [t \in Threads |-> NoOrigin]

-----------------------------------------------------------------------------
(* Thread t changes file i. *)
Disturb(t, i) ==
  disturbed' = [u \in Threads |->
    disturbed[u] \/ (u # t /\ i \in {from[u], dest[u], origin[u].file})]

(* Thread t writes n units of its buffer. *)
WriteUnits(t, n) ==
  /\ data' = [data EXCEPT ![dest[t]] = Overlaid(@, written[t], Take(buffer[t], n))]
  /\ Disturb(t, dest[t])

(* A thread opens p to write: it is created when it is not there. *)
OpenToWrite(t, p, contents) ==
  /\ IF IsFile(p)
     THEN /\ dest' = [dest EXCEPT ![t] = links[p]]
          /\ data' = [data EXCEPT ![links[p]] = contents]
          /\ origin' = [origin EXCEPT ![t].dest = data[links[p]]]
          /\ IF contents # data[links[p]] THEN Disturb(t, links[p]) ELSE UNCHANGED disturbed
          /\ UNCHANGED <<links, blocked>>
     ELSE /\ data' = Append(data, <<>>)
          /\ dest' = [dest EXCEPT ![t] = Len(data')]
          /\ links' = [links EXCEPT ![p] = Len(data')]
          /\ blocked' = blocked \cup {p}
          /\ UNCHANGED <<origin, disturbed>>

CanOpenToWrite(p) == IsFile(p) \/ IsFree(p)

-----------------------------------------------------------------------------
(* copyFile opens the source, which may be a directory ... *)
CopyFrom(t) ==
  /\ call[t].op = "copyFile" /\ pc[t] = "start"
  /\ IF Exists(call[t].path)
     THEN /\ from' = [from EXCEPT ![t] = Opened(call[t].path)]
          /\ origin' = [origin EXCEPT ![t].from =
                          IF IsFile(call[t].path) THEN data[links[call[t].path]] ELSE <<>>]
          /\ GoTo(t, "open_to")
     ELSE GoTo(t, "thrown") /\ UNCHANGED <<from, origin>>
  /\ UNCHANGED <<system, dest, offset, written, buffer, size, got>>

(* ... and the destination, which keeps what it holds. *)
CopyTo(t) ==
  /\ pc[t] = "open_to"
  /\ LET p == call[t].to
     IN  IF CanOpenToWrite(p)
         THEN OpenToWrite(t, p, IF IsFile(p) THEN data[links[p]] ELSE <<>>) /\ GoTo(t, "read")
         ELSE GoTo(t, "thrown") /\ UNCHANGED <<links, data, disturbed, blocked, dest, origin>>
  /\ UNCHANGED <<faults, call, from, offset, written, buffer, size, got>>

(* The end of the source and an error that stops reading are told apart by *)
(* nobody.  Reading a directory is such an error.                          *)
CopyRead(t) ==
  /\ pc[t] = "read"
  /\ LET left == IF from[t] = Dir THEN <<>> ELSE Drop(data[from[t]], offset[t])
     IN  \/ /\ left # <<>>
            /\ buffer' = [buffer EXCEPT ![t] = Take(left, IF Len(left) < BufferSize THEN Len(left) ELSE BufferSize)]
            /\ offset' = [offset EXCEPT ![t] = @ + Len(buffer'[t])]
            /\ GoTo(t, "write")
            /\ UNCHANGED faults
         \/ /\ (left = <<>> /\ UNCHANGED faults) \/ Fault
            /\ GoTo(t, "returned")
            /\ UNCHANGED <<buffer, offset>>
  /\ UNCHANGED <<links, data, call, disturbed, blocked, from, dest, written, size, got, origin>>

(* Faulty: the rest is taken from the start of the buffer. *)
RestFromStart(units, n) == Take(units, Len(units) - n)

(* What is left to write after n units were. *)
Rest(units, n) == Drop(units, n)

(* write takes part of the buffer, or fails; when it was interrupted it is *)
(* called again.                                                           *)
CopyWrite(t) ==
  /\ pc[t] = "write"
  /\ \/ \E n \in 1 .. Len(buffer[t]) :
          /\ WriteUnits(t, n)
          /\ written' = [written EXCEPT ![t] = @ + n]
          /\ buffer' = [buffer EXCEPT ![t] = Rest(@, n)]
          /\ GoTo(t, IF buffer'[t] = <<>> THEN "read" ELSE "write")
          /\ UNCHANGED faults
     \/ /\ Fault
        /\ GoTo(t, "thrown")
        /\ UNCHANGED <<data, disturbed, written, buffer>>
  /\ UNCHANGED <<links, call, blocked, from, dest, offset, size, got, origin>>

copyFile(t) == CopyFrom(t) \/ CopyTo(t) \/ CopyRead(t) \/ CopyWrite(t)

-----------------------------------------------------------------------------
(* writeAllBytes: the stream is opened and the file emptied.  Nothing more *)
(* is done with no data.                                                   *)
WriteOpen(t) ==
  /\ call[t].op = "writeAllBytes" /\ pc[t] = "start"
  /\ IF CanOpenToWrite(call[t].path)
     THEN /\ OpenToWrite(t, call[t].path, <<>>)
          /\ buffer' = [buffer EXCEPT ![t] = call[t].units]
          /\ GoTo(t, IF call[t].units = <<>> THEN "returned" ELSE "fwrite")
     ELSE /\ GoTo(t, "thrown")
          /\ UNCHANGED <<links, data, disturbed, blocked, dest, origin, buffer>>
  /\ UNCHANGED <<faults, call, from, offset, written, size, got>>

(* fwrite writes what does not fit into the buffer of the stream ... *)
WriteStream(t) ==
  /\ pc[t] = "fwrite"
  /\ \E n \in 0 .. Len(buffer[t]) :
       /\ WriteUnits(t, n)
       /\ written' = [written EXCEPT ![t] = @ + n]
       /\ buffer' = [buffer EXCEPT ![t] = Rest(@, n)]
       /\ \/ GoTo(t, "fclose") /\ UNCHANGED faults
          \/ n < Len(buffer[t]) /\ Fault /\ GoTo(t, "thrown")
  /\ UNCHANGED <<links, call, blocked, from, dest, offset, size, got, origin>>

(* ... and the destructor of File the rest: what fclose says of it is not  *)
(* looked at.                                                              *)
WriteClose(t) ==
  /\ pc[t] = "fclose"
  /\ \E n \in 0 .. Len(buffer[t]) :
       /\ WriteUnits(t, n)
       /\ IF n = Len(buffer[t]) THEN UNCHANGED faults ELSE Fault
  /\ GoTo(t, "returned")
  /\ UNCHANGED <<links, call, blocked, fileVars>>

writeAllBytes(t) == WriteOpen(t) \/ WriteStream(t) \/ WriteClose(t)

-----------------------------------------------------------------------------
Reads(t) == call[t].op \in {"readAllBytes", "readAllLines"}

(* read_all_bytes asks for the size ... *)
ReadSize(t) ==
  /\ Reads(t) /\ pc[t] = "start"
  /\ LET p == call[t].path
     IN  IF Exists(p)
         THEN /\ size' = [size EXCEPT ![t] = IF p \in Pseudo THEN 0
                                             ELSE IF IsFile(p) THEN Len(data[links[p]]) ELSE 1]
              /\ origin' = [origin EXCEPT ![t].file = Opened(p)]
              /\ GoTo(t, "fopen")
         ELSE GoTo(t, "thrown") /\ UNCHANGED <<size, origin>>
  /\ UNCHANGED <<system, from, dest, offset, written, buffer, got>>

(* ... then opens the file, which may be another one by now ... *)
ReadOpen(t) ==
  /\ pc[t] = "fopen"
  /\ IF Exists(call[t].path)
     THEN from' = [from EXCEPT ![t] = Opened(call[t].path)] /\ GoTo(t, "fread")
     ELSE GoTo(t, "thrown") /\ UNCHANGED from
  /\ UNCHANGED <<system, dest, offset, written, buffer, size, got, origin>>

(* Faulty: a chunk that was read in full is taken to be the last. *)
IsLastChunkFull(chunk) == Len(chunk) > 0

(* A chunk that was not filled is the last. *)
IsLastChunk(chunk) == Len(chunk) < ChunkSize

(* ... and reads as much as that, or chunks to the end when the size is 0. *)
(* An error stops fread as the end of the file does: what it had read by   *)
(* then is what the file holds.                                            *)
ReadUnits(t) ==
  /\ pc[t] = "fread"
  /\ LET left == IF from[t] = Dir THEN <<>> ELSE Drop(data[from[t]], offset[t])
         asked == IF size[t] > 0 THEN size[t] ELSE ChunkSize
         most == IF Len(left) < asked THEN Len(left) ELSE asked
     IN  \E n \in 0 .. most :
           /\ IF n = most THEN UNCHANGED faults ELSE Fault
           /\ got' = [got EXCEPT ![t] = @ \o Take(left, n)]
           /\ offset' = [offset EXCEPT ![t] = @ + n]
           /\ GoTo(t, IF size[t] > 0 \/ IsLastChunk(Take(left, n)) THEN "returned" ELSE "fread")
  /\ UNCHANGED <<links, data, call, disturbed, blocked, from, dest, written, buffer, size, origin>>

readAllBytes(t) == ReadSize(t) \/ ReadOpen(t) \/ ReadUnits(t)

-----------------------------------------------------------------------------
(* _append_line: no line is what ends where the text does without being    *)
(* begun; a carriage return before the line feed is left out.              *)
_append_line(units, last_start_pos, lf_pos) ==
  IF last_start_pos >= lf_pos
  THEN IF lf_pos <= Len(units) THEN << <<>> >> ELSE <<>>
  ELSE <<SubSeq(units, last_start_pos, IF units[lf_pos - 1] = CR THEN lf_pos - 2 ELSE lf_pos - 1)>>

(* What readAllLines has after every unit: the lines of the line feeds it  *)
(* has come to, and where the next one starts.                             *)
Scanned(units) ==
  LET scan[lf_pos \in 0 .. Len(units)] ==
        IF lf_pos = 0 THEN [lines |-> <<>>, last_start |-> 1]
        ELSE LET before == scan[lf_pos - 1]
             IN  IF units[lf_pos] = LF
                 THEN [lines |-> before.lines \o _append_line(units, before.last_start, lf_pos),
                       last_start |-> lf_pos + 1]
                 ELSE before
  IN  scan

(* The lines it makes of what was read: a last one is after the last feed. *)
readAllLines(units) ==
  LET all == Scanned(units)[Len(units)]
  IN  all.lines \o _append_line(units, all.last_start, Len(units) + 1)

-----------------------------------------------------------------------------
deleteFile(t) ==
  /\ call[t].op = "deleteFile" /\ pc[t] = "start"
  /\ links' = IF IsFile(call[t].path) THEN [links EXCEPT ![call[t].path] = NoFile] ELSE links
  /\ GoTo(t, "returned")
  /\ UNCHANGED <<data, faults, call, disturbed, blocked, fileVars>>

(* Of files: a path that was another file's is taken from it. *)
renameFile(t) ==
  /\ call[t].op = "renameFile" /\ pc[t] = "start"
  /\ LET old == call[t].path
         new == call[t].to
     IN  IF IsFile(old) /\ CanOpenToWrite(new)
         THEN /\ links' = IF links[old] = links[new] THEN links
                          ELSE [links EXCEPT ![new] = links[old], ![old] = NoFile]
              /\ blocked' = blocked \cup {new}
              /\ GoTo(t, "returned")
         ELSE GoTo(t, "thrown") /\ UNCHANGED <<links, blocked>>
  /\ UNCHANGED <<data, faults, call, disturbed, fileVars>>
=============================================================================
