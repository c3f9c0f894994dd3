-------------------------------- MODULE Wav ---------------------------------
(***************************************************************************)
(* A WAV file from its writer to its readers: WavFileSimplePcm, WavFormat  *)
(* or another program writes it, perhaps not to the end, and               *)
(* WavFileDiskPcm or WavFormat::readHeader reads it.                       *)
(***************************************************************************)
EXTENDS WavFile, WavFileDisk, WavFormat

CONSTANTS
  FormatSizes,    \* data sizes for WavFormat::writeFile
  ForeignChunks,  \* the chunks other programs write
  MaxForeign      \* bound: chunks in such a file

(* Chunks as RIFF has them: their size is that of what follows the header, *)
(* and what a LIST has is chunks, from its header to its end.              *)
ASSUME ForeignAssumption ==
  \A c \in ForeignChunks :
    /\ c.id \in STRING /\ c.name \in Nat /\ c.size \in Nat /\ c.bytes = ChunkHeader + c.size
    /\ c.list \in Seq({d \in [id : STRING, name : Nat, size : Nat, bytes : Nat, list : {<<>>}] :
                        d.bytes = ChunkHeader + d.size})
    /\ IF c.id = "LIST" THEN Begin(c.list, HeaderSize.LIST, Len(c.list) + 1) = ChunkHeader + Padded(c.size)
       ELSE c.list = <<>>

ASSUME SourcesAssumption ==
  FormatSizes \subseteq Nat /\ MaxForeign \in Nat /\ Misread \subseteq Int

VARIABLES
  source,   \* who writes: "WavFileSimplePcm", "WavFormat", "other", "nobody"
  whole     \* history: the file was written to its end

vars == <<file, source, whole, wavVars, diskVars, headerVars>>

Reading == loop # "idle" \/ reading # "idle"

Init ==
  /\ file = NoFile
  /\ source \in {"WavFileSimplePcm", "WavFormat", "other", "nobody"}
  /\ whole = TRUE
  /\ WavInit /\ DiskInit /\ FormatInit
  /\ source # "WavFileSimplePcm" => format = CHOOSE f \in Formats : TRUE

Simple ==
  /\ source = "WavFileSimplePcm"
  /\ WavNext
  /\ UNCHANGED <<source, whole, diskVars, headerVars>>

writeFormatFile ==
  /\ source = "WavFormat" /\ file = NoFile
  /\ \E size \in FormatSizes : file' = FormatFile(size)
  /\ UNCHANGED <<source, whole, wavVars, diskVars, headerVars>>

(* Chunks this library does not know, more than one of a kind, any order. *)
OtherWrites ==
  /\ source = "other" /\ file = NoFile
  /\ \E n \in 1 .. MaxForeign : \E chunks \in [1 .. n -> ForeignChunks] :
       file' = FileOf(chunks, Begin(chunks, HeaderSize.RIFF, n + 1) - ChunkHeader)
  /\ UNCHANGED <<source, whole, wavVars, diskVars, headerVars>>

(* The writer died, or the disk was full: in the middle of a header, after *)
(* one, or before the last byte.                                           *)
CutShort ==
  /\ file # NoFile /\ whole /\ ~Reading
  /\ \E c \in file.chunks : \E length \in {c.at, c.at + 4, c.at + ChunkHeader, SeekEnd(c) - 1} :
       length < file.length /\ file' = Cut(file, length)
  /\ whole' = FALSE
  /\ UNCHANGED <<source, wavVars, diskVars, headerVars>>

ToRead == file # NoFile \/ source = "nobody"

Disk ==
  /\ ToRead /\ reading = "idle"
  /\ DiskNext
  /\ UNCHANGED <<file, source, whole, wavVars, headerVars>>

readHeader ==
  /\ file # NoFile /\ loop = "idle"
  /\ FormatNext
  /\ UNCHANGED <<file, source, whole, wavVars, diskVars>>

Next == Simple \/ writeFormatFile \/ OtherWrites \/ CutShort \/ Disk \/ readHeader

(* A reader that has been started reads on; nothing has to start it. *)
Spec == Init /\ [][Next]_vars /\ WF_vars(loop # "idle" /\ Disk)
                              /\ WF_vars(reading # "idle" /\ readHeader)

-----------------------------------------------------------------------------
Simply(c) == source = "WavFileSimplePcm" /\ stage = c

(* The write loop takes the samples 0, factor, 2 * factor, ... over all    *)
(* the pieces, as many as getDataSize() counted for the header before it   *)
(* is cut to rows; none if the first piece is empty.                       *)
SamplesEveryFactor ==
  (Simply("written") /\ format.factor > 1 /\ DataSize(format, pieces) > 0 /\ pieces[1] > 0) =>
    /\ \A i \in DOMAIN sampled : sampled[i] = (i - 1) * format.factor
    /\ Len(sampled) * SampleLength(format)
         = ReducedSize(format, SumOf(pieces) \div SampleLength(format))

(* What the header counts is what is written: the data, reduced if it is,  *)
(* are whole rows, or data that are not reduced are at least one row.      *)
RowsAreFull ==
  LET total == IF format.factor > 1
               THEN ReducedSize(format, SumOf(pieces) \div SampleLength(format))
               ELSE SumOf(pieces)
  IN  \/ ~format.rows \/ total % RowLength(format) = 0
      \/ format.factor = 1 /\ total >= RowLength(format)

(* The size in the RIFF header, known before anything is written, is that  *)
(* of what gets written, pad bytes included, when the rows are full and no *)
(* piece is empty.                                                         *)
RiffSizeIsLength ==
  (Simply("written") /\ file # NoFile /\ whole /\ RowsAreFull /\ \A i \in DOMAIN pieces : pieces[i] > 0)
    => file.length = ChunkHeader + file.riff

(* CHECK_FALSE(r.has_issue_tagged("RIFF_SIZE_MISMATCH")), of reduced data  *)
(* (test_wavfile.cpp:421) and of data cut to rows (:462): a file that was  *)
(* written to its end is as long as its RIFF header says.                  *)
NoSizeMismatch ==
  (Simply("written") /\ file # NoFile /\ whole) => file.length = ChunkHeader + file.riff

(* The reader only ever reads a header where the writer put one, in every  *)
(* file of the library's two writers and of another program that knows pad *)
(* bytes, however short the file is.                                       *)
ReadsHeaders ==
  loop \in {"riff", "adtl"} /\ CanRead(pos, ChunkHeader) => HeaderAt(pos) # {}

(* The first chunk of each kind in the file, if it begins within the size  *)
(* of the RIFF chunk and its header is all there.                          *)
FirstOf(id) ==
  LET all == {c \in file.chunks : c.id = id /\ c.parent = 0 /\ InRiff(c.at)
                                    /\ CanRead(c.at, HeaderSize[id])}
  IN  IF all = {} THEN 0 ELSE Min({c.at : c \in all})

FindsFirst ==
  loop = "done" /\ file # NoFile => \A id \in Single : found[id] = FirstOf(id)

LastNamed(id, name) == {i \in DOMAIN assoc : assoc[i].id = id /\ assoc[i].name = name}

(* A file of WavFileSimplePcm read back: as many bytes of cue points and   *)
(* of data as its getDataSize() said, or no such chunk if that is none;    *)
(* and under a name of four characters all of the last label and file of   *)
(* that fourcc, which is another name's if one begins with the same four   *)
(* characters; under any other name nothing.                               *)
ReadsBackWhatWasWritten ==
  (Simply("written") /\ whole /\ loop = "done") =>
    /\ found.fmt # 0
    /\ IF points = 0 THEN found.cue = 0
       ELSE \E c \in HeaderAt(found.cue) : ReadDataSize(c) = CueChunk.data
    /\ IF DataSize(format, pieces) = 0 THEN found.data = 0
       ELSE \E c \in HeaderAt(found.data) : ReadDataSize(c) = DataSize(format, pieces)
    /\ \A id \in {"labl", "file"}, name \in Names :
         LET there == Lookup(id, name)
             last == Max(LastNamed(id, name) \cup {0})
         IN  IF last = 0 \/ Fourcc[name] # name THEN there = {}
             ELSE \E n \in there, c \in file.chunks :
                    /\ there = {n} /\ c.at = n[3]
                    /\ ReadDataSize(c) = assoc[last].data
                    /\ \A d \in file.chunks : d.id = id /\ d.name = name => d.at <= c.at

(* readHeader stops at the samples of a whole file of either writer, and   *)
(* says how long they are; it gives up only if there are none.  (It does   *)
(* not know pad bytes, which other programs' files have before the data.)  *)
ReadHeaderFindsData ==
  (source \in {"WavFileSimplePcm", "WavFormat"} /\ whole /\ reading \notin {"idle", "fields"}) =>
    LET data == {c \in file.chunks : c.id = "data"}
    IN  IF data = {} THEN reading = "thrown"
        ELSE /\ reading = "done"
             /\ \E c \in data : total_bytes = c.size /\ next = c.at + ChunkHeader

(* Both readers come to an end: WavFileDiskPcm with every file; readHeader *)
(* too, unless it takes the inside of a chunk for a field whose size sends *)
(* fseek backwards.                                                        *)
ReadingEnds ==
  /\ (loop # "idle") ~> (loop = "done")
  /\ (reading # "idle") ~> (reading \notin {"idle", "fields"} \/ back)

=============================================================================
