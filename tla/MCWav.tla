------------------------------- MODULE MCWav --------------------------------
(* Instances of Wav for TLC. *)
EXTENDS Wav, TLC

Pcm(channels, bits, factor) ==
  [channels |-> channels, bits |-> bits, factor |-> factor, rows |-> TRUE]

ByHand == [channels |-> 1, bits |-> 16, factor |-> 1, rows |-> FALSE]

(* Rows of 4 that hold frames of 2, 3 and 4 bytes; 3 channels of 16 bit    *)
(* have rows of 8 for frames of 6.                                         *)
MCFormats == {Pcm(1, 24, 1), Pcm(1, 16, 2), Pcm(1, 16, 3),
              Pcm(2, 16, 2), Pcm(3, 16, 2), ByHand}

MCReduced == {f \in MCFormats : f.factor > 1}

(* 2 is a longer name that begins with the four characters of 1; 3 is a    *)
(* shorter one, and 4 is what it is filled up to.                          *)
MCFourcc == (1 :> 1) @@ (2 :> 1) @@ (3 :> 4)

(* A field read where none is may lead to its own start again, or before   *)
(* the file.                                                               *)
MCMisread == {-30, -8, 0, 3}

Foreign(id, size, list) ==
  [id |-> id, name |-> 0, size |-> size, bytes |-> ChunkHeader + size, list |-> list]

Inside(id, size) == Foreign(id, size, <<>>)

MCForeignChunks ==
  {Foreign("fmt", 16, <<>>), Foreign("fmt", 18, <<>>), Foreign("data", 0, <<>>),
   Foreign("data", 3, <<>>), Foreign("data", 4, <<>>), Foreign("JUNK", 1, <<>>),
   Foreign("cue", 28, <<>>), Foreign("LIST", 4, <<>>),
   Foreign("LIST", 30, <<Inside("note", 5), Inside("labl", 4)>>)}
=============================================================================
