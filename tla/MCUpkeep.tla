------------------------------ MODULE MCUpkeep ------------------------------
(***************************************************************************)
(* Retention, source maps and their contents; a behaviour is of one of the *)
(* three.                                                                  *)
(***************************************************************************)
EXTENDS SourceMaps, Retention, Positions
CONSTANTS s1, s2, h1, h2, j1, j2, q1, q2, w1, w2
VARIABLE part

\* A frame with two names; scripts without a release; a map and a script.
MCWorkload ==
  { {[slots |-> <<s1, s2>>, script |-> None]},
    {[slots |-> <<>>, script |-> j1], [slots |-> <<>>, script |-> j2]},
    {[slots |-> <<s2>>, script |-> j1]} }

\* s2 may share the contents of s1.
MCContents == (s1 :> {h1, h2}) @@ (s2 :> {h1})

MCSize == (h1 :> 1) @@ (h2 :> 2) @@ (j1 :> 1) @@ (j2 :> 2)

\* Deltas of one and of two digits, both signs, a source the map lacks.
MCColumns == {0, 17}
MCOriginal == {<<0, 20, 3>>, <<1, 2, 40>>}
MCOffsets == {<<0, 5>>, <<1, 0>>, <<1, 17>>}

\* What the parts not at work keep.
MapsIdle == Init /\ frames = {[slots |-> <<s1, s2>>, script |-> None]}
RetentionIdle == RetentionInit /\ policy = "age"
PositionsIdle == tokens = <<>> /\ offsets = <<>> /\ damaged = FALSE

MCInit ==
  \/ part = "maps" /\ Init /\ RetentionIdle /\ PositionsIdle
  \/ part = "retention" /\ MapsIdle /\ RetentionInit /\ PositionsIdle
  \/ part = "positions" /\ MapsIdle /\ RetentionIdle /\ PositionsInit

MCNext ==
  /\ UNCHANGED <<part, mapVars>>
  /\ \/ part = "maps" /\ Next /\ UNCHANGED retentionVars
     \/ part = "retention" /\ RetentionNext /\ UNCHANGED vars

MCSpec == MCInit /\ [][MCNext]_<<part, vars, retentionVars, mapVars>>

\* Readers and workers are interchangeable: no property is about liveness.
Symmetry == Permutations({q1, q2}) \cup Permutations({w1, w2})
=============================================================================
