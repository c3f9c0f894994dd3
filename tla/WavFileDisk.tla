---------------------------- MODULE WavFileDisk ----------------------------
(***************************************************************************)
(* smart/WavFileDisk.h: the constructor of WavFileDiskPcm goes through the *)
(* chunks of a file, a LIST's inside it, and remembers the first of each   *)
(* type and every label and file by its name.  A step is one round of one  *)
(* of its two loops: a header is tried as each type that is still missing, *)
(* then as any chunk.                                                      *)
(***************************************************************************)
EXTENDS RiffFile

CONSTANT Created   \* a chunk made in memory because there is no file

VARIABLES
  loop,    \* "idle", "riff" or "adtl" (the outer, the inner loop), "done"
  pos,     \* the position in the file
  found,   \* _pcmchunk, _cuechunk, _assocchunk, _datachunk: where, or 0
  named    \* _labelchunks, _filechunks: <<type, name, where>>

diskVars == <<loop, pos, found, named>>

Single == {"fmt", "cue", "LIST", "data"}

DiskInit ==
  /\ loop = "idle"
  /\ pos = 0
  /\ found = [id \in Single |-> 0]
  /\ named = {}

(* Faulty: the pad byte is not part of a chunk. *)
SeekEndUnpadded(c) == c.at + ChunkHeader + c.size

(* seekFileEndOfChunk *)
SeekEnd(c) == c.at + ChunkHeader + Padded(c.size)

(* inFileRange of the RIFF chunk, which begins the file *)
InRiff(p) == p < ChunkHeader + Padded(file.riff)

InList(p) == \E c \in HeaderAt(found.LIST) : p < SeekEnd(c)

(* `continue' and `break' of the outer loop. *)
Outer(p) ==
  /\ pos' = p
  /\ loop' = IF InRiff(p) THEN "riff" ELSE "done"

(* ... and of the inner one, after which the list is left behind. *)
Inner(p, again) ==
  IF again /\ InList(p) THEN pos' = p /\ loop' = "adtl"
  ELSE \E c \in HeaderAt(found.LIST) : Outer(SeekEnd(c))

(* A file that cannot be opened, is shorter than its header or is no WAVE  *)
(* file is dropped; the format chunk is then one in memory.                *)
Open ==
  /\ loop = "idle"
  /\ IF file # NoFile /\ CanRead(0, HeaderSize.RIFF)
     THEN /\ pos' = HeaderSize.RIFF /\ loop' = "riff"
          /\ UNCHANGED <<found, named>>
     ELSE /\ found' = [found EXCEPT !.fmt = Created] /\ loop' = "done"
          /\ UNCHANGED <<pos, named>>

(* Faulty: a chunk that was found already is replaced. *)
FitsAnew(c, id) == c.id = id /\ CanRead(c.at, HeaderSize[id])

(* test_create_chunk of one of the chunks a file has once *)
Fits(c, id) == found[id] = 0 /\ c.id = id /\ CanRead(c.at, HeaderSize[id])

(* (CueChunk's constructor then sets dwCuePoints, as it was read, to 0: how *)
(* many points there are is to be told from the chunk's size.)             *)
Take ==
  /\ loop = "riff"
  /\ \E c \in HeaderAt(pos), id \in Single \ {"LIST"} :
       /\ Fits(c, id)
       /\ found' = [found EXCEPT ![id] = pos]
       /\ Outer(SeekEnd(c))
  /\ UNCHANGED named

(* The list's own loop starts with whatever follows the list's header. *)
EnterList ==
  /\ loop = "riff"
  /\ \E c \in HeaderAt(pos) : Fits(c, "LIST")
  /\ found' = [found EXCEPT !.LIST = pos]
  /\ pos' = pos + HeaderSize.LIST
  /\ loop' = "adtl"
  /\ UNCHANGED named

Named(c) == c.id \in {"labl", "file"} /\ CanRead(c.at, HeaderSize[c.id])

(* Faulty: the first chunk of a name is kept. *)
TakeNamedOnce ==
  /\ loop = "adtl"
  /\ \E c \in HeaderAt(pos) :
       /\ Named(c)
       /\ named' = IF \E n \in named : n[1] = c.id /\ n[2] = c.name THEN named
                   ELSE named \cup {<<c.id, c.name, pos>>}
       /\ Inner(SeekEnd(c), TRUE)
  /\ UNCHANGED found

TakeNamed ==
  /\ loop = "adtl"
  /\ \E c \in HeaderAt(pos) :
       /\ Named(c)
       /\ named' = {n \in named : n[1] # c.id \/ n[2] # c.name} \cup {<<c.id, c.name, pos>>}
       /\ Inner(SeekEnd(c), TRUE)
  /\ UNCHANGED found

(* Faulty: an unknown chunk is tried again. *)
SkipStays ==
  /\ loop \in {"riff", "adtl"}
  /\ CanRead(pos, ChunkHeader)
  /\ \E c \in HeaderAt(pos) :
       \/ loop = "riff" /\ (\A id \in Single : ~Fits(c, id)) /\ Outer(pos)
       \/ loop = "adtl" /\ ~Named(c) /\ Inner(SeekEnd(c), TRUE)
  /\ UNCHANGED <<found, named>>

(* "use then generic chunk for getting around this issue" *)
Skip ==
  /\ loop \in {"riff", "adtl"}
  /\ CanRead(pos, ChunkHeader)
  /\ \E c \in HeaderAt(pos) :
       \/ loop = "riff" /\ (\A id \in Single : ~Fits(c, id)) /\ Outer(SeekEnd(c))
       \/ loop = "adtl" /\ ~Named(c) /\ Inner(SeekEnd(c), TRUE)
  /\ UNCHANGED <<found, named>>

(* Not even a chunk_t can be read. *)
Break ==
  /\ loop \in {"riff", "adtl"}
  /\ ~CanRead(pos, ChunkHeader)
  /\ \/ loop = "riff" /\ loop' = "done" /\ UNCHANGED pos
     \/ loop = "adtl" /\ Inner(pos, FALSE)
  /\ UNCHANGED <<found, named>>

DiskNext == Open \/ Take \/ EnterList \/ TakeNamed \/ Skip \/ Break

(* getAssocLabel, getAssocFile: the chunk of a name; a name of more or     *)
(* fewer than four characters is no key, and what it is looked up to null. *)
Lookup(id, name) == {n \in named : n[1] = id /\ n[2] = name}

(* getDataSize() of a chunk from a file: what follows its own fields. *)
ReadDataSize(c) ==
  LET own == HeaderSize[c.id] - ChunkHeader
  IN  IF c.size = 0 THEN IF own > 0 THEN 0 ELSE ChunkHeader
      ELSE IF c.size < own THEN 0 ELSE c.size - own

=============================================================================
