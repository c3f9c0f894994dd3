----------------------------- MODULE WavFormat ------------------------------
(***************************************************************************)
(* smart/WavFormat.cpp: a WAV file of a format and samples alone is        *)
(* written, and the header of any WAV file read up to its samples, by      *)
(* skipping all fields before them.                                        *)
(***************************************************************************)
EXTENDS RiffFile

CONSTANT
  Misread   \* the sizes that may be read where no header is, as fseek takes them: where
            \* a long has 32 bits, one of 2^31 or more is negative

VARIABLES
  reading,      \* readHeader: "idle", "fields", "done" or "thrown"
  next,         \* the position in the file
  total_bytes,  \* what readHeader returns of the data
  back          \* history: fseek went backwards

headerVars == <<reading, next, total_bytes, back>>

(* sizeof(RiffHeader), sizeof(WaveFormatEx), sizeof(WavFileHeader) *)
RiffHeader == 20
WaveFormatEx == 16
WavFileHeader == 44

(* fillHeader, and what writeFile writes after it: no pad byte follows. *)
FormatFile(data_block_size) ==
  [length |-> WavFileHeader + data_block_size,
   riff |-> RiffHeader + WaveFormatEx + data_block_size - 8,
   chunks |-> {[at |-> 12, id |-> "fmt", size |-> WaveFormatEx, name |-> 0, parent |-> 0],
               [at |-> 36, id |-> "data", size |-> data_block_size, name |-> 0, parent |-> 0]}]

FormatInit == reading = "idle" /\ next = 0 /\ total_bytes = 0 /\ back = FALSE

Throw == reading' = "thrown" /\ UNCHANGED <<next, total_bytes, back>>

(* 1. and 2.: the format has to be the first chunk; all of it is read. *)
readFormat ==
  /\ reading = "idle"
  /\ IF /\ CanRead(0, RiffHeader)
        /\ \E c \in HeaderAt(12) : c.id = "fmt" /\ CanRead(RiffHeader, c.size)
     THEN /\ \E c \in HeaderAt(12) : next' = RiffHeader + c.size
          /\ reading' = "fields"
          /\ UNCHANGED <<total_bytes, back>>
     ELSE Throw

(* Faulty: the field's own header is skipped once more. *)
AfterFieldTwice(c) == c.at + 2 * ChunkHeader + c.size

AfterField(c) == c.at + ChunkHeader + c.size

(* 3. and 4.: fields are skipped, without a pad byte, until the data. *)
readField ==
  /\ reading = "fields"
  /\ IF CanRead(next, ChunkHeader)
     THEN /\ \E c \in HeaderAt(next) :
               IF c.id = "data" THEN /\ reading' = "done" /\ total_bytes' = c.size
                                     /\ next' = next + ChunkHeader
               ELSE next' = AfterField(c) /\ UNCHANGED <<reading, total_bytes>>
          /\ UNCHANGED back
     ELSE Throw

(* What is read is no header: which field it looks like, and of what size, *)
(* depends on the contents of some chunk.  It may look like the data; if   *)
(* it does not, the loop goes on behind it, or fseek fails.                *)
misreadField ==
  /\ reading = "fields"
  /\ CanRead(next, ChunkHeader) /\ HeaderAt(next) = {}
  /\ \E size \in Misread :
       \/ /\ reading' = "done" /\ total_bytes' = size /\ next' = next + ChunkHeader
          /\ UNCHANGED back
       \/ /\ next + ChunkHeader + size >= 0
          /\ next' = next + ChunkHeader + size
          /\ back' = (back \/ size < 0)
          /\ UNCHANGED <<reading, total_bytes>>
       \/ next + ChunkHeader + size < 0 /\ Throw

FormatNext == readFormat \/ readField \/ misreadField

=============================================================================
