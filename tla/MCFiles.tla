------------------------------ MODULE MCFiles ------------------------------
(* Instances of Files for TLC. *)
EXTENDS Files

CONSTANTS T1, T2

MCThreads == {T1, T2}

D == <<"d">>
DE == <<"d", "e">>
F == <<"f">>
G == <<"g">>
Stat == <<"stat">>

Letter == 1

(* Scenes of every two calls, on every system of the kind. *)
Pairs(calls, systems) ==
  {[calls |-> (T1 :> c) @@ (T2 :> d), links |-> s.links, data |-> s.data] :
     c \in calls, d \in calls, s \in systems}

(* Two threads in the same directories, and one that puts a file there. *)
DirectoryCalls ==
  {[op |-> "create", path |-> p] : p \in {D, DE}}
    \cup {[op |-> "verifyAndCreate", path |-> DE, root |-> n] : n \in 0 .. 2}
    \cup {[op |-> "writeAllBytes", path |-> p, units |-> <<Letter>>] : p \in {D, DE}}

Trees ==
  {[links |-> (D :> d) @@ (DE :> e), data |-> << <<Letter>> >>] :
     d \in {Dir, LinkToDir}, e \in {NoFile, Dir, LinkToDir, 1}}
    \cup {[links |-> (D :> d) @@ (DE :> NoFile), data |-> << <<Letter>> >>] : d \in {NoFile, 1}}

(* Two threads with the same files: g may be missing, the same as f, or a  *)
(* directory.                                                              *)
FileCalls ==
  {[op |-> "copyFile", path |-> p, to |-> q] : p \in {F, G}, q \in {F, G}}
    \cup {[op |-> "writeAllBytes", path |-> p, units |-> u] : p \in {F, G}, u \in {<<>>, <<2, 3, 4>>}}
    \cup {[op |-> "readAllBytes", path |-> F]}
    \cup {[op |-> "deleteFile", path |-> F]}
    \cup {[op |-> "renameFile", path |-> G, to |-> F]}

Contents == {<<>>, <<1, 2, 3>>, <<5, 6, 7, 8, 9>>}

Stores ==
  {[links |-> (F :> 1) @@ (G :> g), data |-> <<f, h>>] :
     f \in Contents, g \in {NoFile, 1, 2, Dir}, h \in Contents}

(* Every text of up to five units, in a file whose size is known or not. *)
Texts == UNION {[1 .. n -> {Letter, CR, LF}] : n \in 0 .. 5}

TextScenes ==
  {[calls |-> (T1 :> [op |-> "readAllLines", path |-> p])
                @@ (T2 :> [op |-> "deleteFile", path |-> F]),
    links |-> (F :> 1) @@ (Stat :> 1), data |-> <<text>>] : text \in Texts, p \in {F, Stat}}

MCScenes == Pairs(DirectoryCalls, Trees) \cup Pairs(FileCalls, Stores) \cup TextScenes

MCPseudo == {Stat}
=============================================================================
