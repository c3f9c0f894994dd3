------------------------------ MODULE WavFile -------------------------------
(***************************************************************************)
(* smart/WavFile.cpp, smart/WavFileSimple.h: a WAV file is put together    *)
(* from chunks in memory and written.  Every header holds the size of what *)
(* follows it, so getSize() has to predict, chunk by chunk, what           *)
(* writeFile() is going to write.                                          *)
(*                                                                         *)
(* WavFileSimplePcm has a fixed tree: the format, cue points, a list of    *)
(* labels and files, and the samples, which come in pieces.  The samples   *)
(* are cut to whole rows, and when the rate is reduced by `factor' only    *)
(* every factor-th one is written, found by an iterator over the pieces.   *)
(***************************************************************************)
EXTENDS RiffFile

CONSTANTS
  Formats,     \* the [channels, bits, factor, rows] a file is created with;
               \* rows is FALSE for a tree of chunks put together by hand
  PieceSizes,  \* the sizes of data that are added
  LabelSizes,  \* strlen(label) + 1
  AssocSizes,  \* the sizes of associated files
  Names,       \* cue point names
  Fourcc,      \* fourcc_t of a name: its first four characters, or spaces after them
  MaxPieces, MaxAssoc,  \* bounds: pieces, and cue points, labels and files
  Invalid      \* _junkid 0xFFffFFff

(* A file without channels or bits has no samples.                         *)
ASSUME FormatsAssumption ==
  Formats \subseteq
    [channels : Nat \ {0}, bits : Nat \ {0}, factor : Nat \ {0}, rows : BOOLEAN]

(* A label has its end; an empty associated file has no data to copy to.   *)
ASSUME SizesAssumption ==
  PieceSizes \subseteq Nat /\ LabelSizes \subseteq Nat \ {0} /\ AssocSizes \subseteq Nat \ {0}

(* Four characters stay what they are; no other name is the fourcc of one. *)
ASSUME FourccAssumption ==
  /\ Fourcc \in [Names -> Nat]
  /\ \A name \in Names : Fourcc[name] # name => \A other \in Names : Fourcc[other] # name

ASSUME InvalidAssumption == Invalid \notin [junk : Nat, offset : Nat]

VARIABLES
  stage,    \* "build", "sampling", "written", "crashed"
  format,   \* the arguments of the constructor
  points,   \* the cue points' number
  assoc,    \* _contents of the list: [id, data, name]
  pieces,   \* the sizes of the data chunk's _data
  it,       \* the iterator of the write loop: Invalid or [junk, offset]
  sampled   \* the samples the write loop has written

wavVars == <<stage, format, points, assoc, pieces, it, sampled>>

-----------------------------------------------------------------------------
(* Sizes *)

(* _min_size: a chunk of at most this size is empty. *)
MinSize(id) == IF id \in {"fmt", "data"} THEN ChunkHeader ELSE HeaderSize[id]

getSize(c) ==
  LET size == HeaderSize[c.id] + c.data
  IN  IF size <= MinSize(c.id) THEN 0 ELSE size

(* Faulty: the pad bytes are forgotten. *)
ContentsSizeUnpadded(chunks) ==
  Sums([i \in DOMAIN chunks |-> getSize(chunks[i])])[Len(chunks)]

(* getDataSize() of a chunk that holds chunks. *)
ContentsSize(chunks) ==
  Sums([i \in DOMAIN chunks |-> Padded(getSize(chunks[i]))])[Len(chunks)]

SumOf(sizes) == Sums(sizes)[Len(sizes)]

(* setSampleWidth, which a tree put together by hand does without *)
RowLength(f) == ((((f.bits + 7) \div 8) * 8 * f.channels + 31) \div 32) * 4

(* The rate is reduced for 16 bit samples only. *)
SampleLength(f) == f.channels * 2

ReducedSize(f, total) ==
  IF total = 0 THEN 0 ELSE ((total - 1) \div f.factor + 1) * SampleLength(f)

(* PcmDataChunk::getDataSize *)
DataSize(f, sizes) ==
  LET raw == SumOf(sizes)
      kept == IF f.factor > 1 THEN ReducedSize(f, raw \div SampleLength(f)) ELSE raw
  IN  IF f.rows THEN (kept \div RowLength(f)) * RowLength(f) ELSE kept

-----------------------------------------------------------------------------
(* The iterator over the pieces, SampleIteratorMemory *)

Before(sizes, i) == Sums(sizes)[i - 1]

(* setPos: the first piece that is not shorter than what is left of the    *)
(* index; none when the sample does not fit in there.                      *)
SetPos(sizes, index, len) ==
  LET start == index * len
      reach == {i \in DOMAIN sizes : Before(sizes, i) + sizes[i] >= start}
  IN  IF reach = {} THEN Invalid
      ELSE LET i == Min(reach)
               offset == start - Before(sizes, i)
           IN  IF offset + len <= sizes[i] THEN [junk |-> i, offset |-> offset] ELSE Invalid

(* Faulty: a position past a piece starts the next piece over. *)
NextPosFromStart(sizes, pos, step, len) ==
  LET offset == pos.offset + len * step
  IN  IF offset < sizes[pos.junk] THEN [pos EXCEPT !.offset = offset]
      ELSE IF pos.junk = Len(sizes) THEN Invalid
      ELSE [junk |-> pos.junk + 1, offset |-> 0]

(* nextPos: on by `step' samples, into a later piece where that leads to.  *)
(* What does not fit there is looked for at the start of the next piece.   *)
NextPos(sizes, pos, step, len) ==
  LET target == Before(sizes, pos.junk) + pos.offset + len * step
      reach == {i \in pos.junk .. Len(sizes) : target < Before(sizes, i) + sizes[i]}
  IN  IF reach = {} THEN Invalid
      ELSE LET i == Min(reach)
               offset == target - Before(sizes, i)
           IN  IF offset + len <= sizes[i] THEN [junk |-> i, offset |-> offset]
               ELSE IF i < Len(sizes) THEN [junk |-> i + 1, offset |-> 0]
               ELSE Invalid

SampleAt(sizes, pos, len) == (Before(sizes, pos.junk) + pos.offset) \div len

-----------------------------------------------------------------------------
(* Writing *)

(* A chunk as writeFile writes it: the size in its header, and the bytes.  *)
Written(id, name, size, bytes, list) ==
  [id |-> id, name |-> name, size |-> size, bytes |-> bytes, list |-> list]

WrittenChunk(c, list) ==
  LET size == getSize(c) IN Written(c.id, c.name, size - ChunkHeader, size, list)

WrittenAssoc == [i \in DOMAIN assoc |-> WrittenChunk(assoc[i], <<>>)]

FmtChunk == [id |-> "fmt", data |-> 0, name |-> 0]
CueChunk == [id |-> "cue", data |-> 24 * points, name |-> points]
AssocListChunk == [id |-> "LIST", data |-> ContentsSize(assoc), name |-> 0]
PcmDataChunk == [id |-> "data", data |-> DataSize(format, pieces), name |-> 0]

(* getSize() of the whole. *)
RiffSize == HeaderSize.RIFF + ContentsSize(<<FmtChunk, CueChunk, AssocListChunk, PcmDataChunk>>)

(* PcmDataChunk::writeFile: `samples' bytes, when it is not empty.  A      *)
(* chunk that is cut to less than a row gets a header nevertheless.        *)
WrittenData(samples) ==
  LET size == getSize(PcmDataChunk)
      cut == format.factor = 1 /\ DataSize(format, pieces) < SumOf(pieces)
  IN  IF size = 0 /\ ~cut THEN Written("data", 0, 0, 0, <<>>)
      ELSE Written("data", 0, DataSize(format, pieces), ChunkHeader + samples, <<>>)

(* Chunk::writeFile of the RIFF chunk and all it holds. *)
WriteFile(samples) ==
  /\ file' = FileOf(<<WrittenChunk(FmtChunk, <<>>), WrittenChunk(CueChunk, <<>>),
                      WrittenChunk(AssocListChunk, WrittenAssoc), WrittenData(samples)>>,
                    RiffSize - ChunkHeader)
  /\ stage' = "written"

-----------------------------------------------------------------------------
WavInit ==
  /\ stage = "build"
  /\ format \in Formats
  /\ points = 0
  /\ assoc = <<>>
  /\ pieces = <<>>
  /\ it = Invalid
  /\ sampled = <<>>

AddAssoc(chunk) == assoc' = Append(assoc, chunk)

(* addCuePoint; a description becomes a label. *)
addCuePoint(name) ==
  /\ stage = "build"
  /\ points + Len(assoc) < MaxAssoc
  /\ points' = points + 1
  /\ \/ UNCHANGED assoc
     \/ \E size \in LabelSizes : AddAssoc([id |-> "labl", data |-> size, name |-> Fourcc[name]])
  /\ UNCHANGED <<stage, format, pieces, it, sampled, file>>

addAssocFile(name) ==
  /\ stage = "build"
  /\ points + Len(assoc) < MaxAssoc
  /\ \E size \in AssocSizes : AddAssoc([id |-> "file", data |-> size, name |-> Fourcc[name]])
  /\ UNCHANGED <<stage, format, points, pieces, it, sampled, file>>

(* addData, newData.  "Important assumption: each buffer in data divides   *)
(* exactly with len", where samples are looked for in the pieces.          *)
addData(size) ==
  /\ stage = "build"
  /\ Len(pieces) < MaxPieces
  /\ format.factor > 1 => size % SampleLength(format) = 0
  /\ pieces' = Append(pieces, size)
  /\ UNCHANGED <<stage, format, points, assoc, it, sampled, file>>

(* What is written of pieces that are cut: nothing from an empty one on. *)
CutData ==
  LET kept == DataSize(format, pieces)
      empty == {i \in DOMAIN pieces : pieces[i] = 0}
  IN  IF empty = {} THEN kept ELSE Min({kept, Before(pieces, Min(empty))})

(* writeFile without a reduction of the rate, or with nothing to reduce. *)
writeFile ==
  /\ stage = "build"
  /\ format.factor = 1 \/ getSize(PcmDataChunk) = 0
  /\ WriteFile(IF DataSize(format, pieces) < SumOf(pieces) THEN CutData
               ELSE DataSize(format, pieces))
  /\ UNCHANGED <<format, points, assoc, pieces, it, sampled>>

(* fillBuffer writes the same to a buffer, if that is large enough; it is   *)
(* for chunks without rows only.                                           *)
fillBuffer ==
  /\ stage = "build"
  /\ ~format.rows /\ format.factor = 1
  /\ \/ WriteFile(DataSize(format, pieces))
     \/ stage' = "written" /\ UNCHANGED file   \* maxlen < getSize()
  /\ UNCHANGED <<format, points, assoc, pieces, it, sampled>>

(* writeFile with a reduction writes the headers and starts to iterate. *)
startSampling ==
  /\ stage = "build"
  /\ format.factor > 1 /\ getSize(PcmDataChunk) > 0
  /\ stage' = "sampling"
  /\ it' = SetPos(pieces, 0, SampleLength(format))
  /\ UNCHANGED <<format, points, assoc, pieces, sampled, file>>

(* getSampleInc, and the sample goes to the output.  As many samples are   *)
(* asked for as one has bytes, and copied before the first of them is      *)
(* used: a copy that goes past the end of the piece may end the program.   *)
writeSample ==
  /\ stage = "sampling" /\ it # Invalid
  /\ LET len == SampleLength(format)
     IN  \/ /\ sampled' = Append(sampled, SampleAt(pieces, it, len))
            /\ it' = NextPos(pieces, it, format.factor, len)
            /\ UNCHANGED stage
         \/ /\ it.offset + len * len > pieces[it.junk]
            /\ stage' = "crashed"
            /\ UNCHANGED <<it, sampled>>
  /\ UNCHANGED <<format, points, assoc, pieces, file>>

endSampling ==
  /\ stage = "sampling" /\ it = Invalid
  /\ WriteFile(Len(sampled) * SampleLength(format))
  /\ UNCHANGED <<format, points, assoc, pieces, it, sampled>>

WavNext ==
  \/ \E name \in Names : addCuePoint(name) \/ addAssocFile(name)
  \/ \E size \in PieceSizes : addData(size)
  \/ writeFile \/ fillBuffer \/ startSampling \/ writeSample \/ endSampling

=============================================================================
