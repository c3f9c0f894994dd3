------------------------------ MODULE RiffFile ------------------------------
(***************************************************************************)
(* A RIFF file as the writers and readers of smart see it: chunks, each    *)
(* with a header that holds its type and the size of what follows, one     *)
(* after the other, padded to even positions.  Of a chunk's contents only  *)
(* the extent matters, and for a LIST the chunks inside.                   *)
(***************************************************************************)
EXTENDS Integers, Sequences, FiniteSetsExt

CONSTANT NoFile

VARIABLE
  file   \* NoFile, or the bytes on disk: [length, riff, chunks]

(* What a chunk's header is read into and written from, with its own       *)
(* fields: riff_chunk_t, pcm_format_t, cue_chunk_t, assoc_data_t, ...      *)
HeaderSize ==
  [RIFF |-> 12, fmt |-> 24, cue |-> 12, LIST |-> 12, labl |-> 12, file |-> 16, data |-> 8]

(* sizeof(chunk_t): the type and the size. *)
ChunkHeader == 8

Padded(size) == size + (size % 2)

(* The sums of the first of these sizes: of none of them to all. *)
Sums(sizes) ==
  LET sum[i \in 0 .. Len(sizes)] == IF i = 0 THEN 0 ELSE sum[i - 1] + sizes[i]
  IN  sum

(* Where each of the chunks of a list begins: `chunks' says how many bytes *)
(* each takes, without the pad byte.                                       *)
Begin(chunks, start, i) ==
  start + Sums([j \in DOMAIN chunks |-> Padded(chunks[j].bytes)])[i - 1]

Placed(chunks, start, parent) ==
  {[at |-> Begin(chunks, start, i), id |-> chunks[i].id, size |-> chunks[i].size,
    name |-> chunks[i].name, parent |-> parent] : i \in {j \in DOMAIN chunks : chunks[j].bytes > 0}}

(* The file that has these chunks, `riff' being the size its header says. *)
FileOf(chunks, riff) ==
  [length |-> Begin(chunks, HeaderSize.RIFF, Len(chunks) + 1),
   riff |-> riff,
   chunks |-> Placed(chunks, HeaderSize.RIFF, 0)
     \cup UNION {Placed(chunks[i].list, Begin(chunks, HeaderSize.RIFF, i) + HeaderSize.LIST,
                        Begin(chunks, HeaderSize.RIFF, i)) : i \in DOMAIN chunks}]

(* The first `length' bytes of a file. *)
Cut(f, length) == [f EXCEPT !.length = length, !.chunks = {c \in @ : c.at < length}]

(* fread of a header of `header' bytes: either all of it or nothing. *)
CanRead(pos, header) == pos + header <= file.length

HeaderAt(pos) == {c \in file.chunks : c.at = pos}

=============================================================================
