-------------------------- MODULE MCWavePublication --------------------------
(***************************************************************************)
(* WavePublication model-checked: search depends on people, vector is       *)
(* optional.                                                                *)
(***************************************************************************)
EXTENDS WavePublication
CONSTANTS people, search, vector
MCScopes == {people, search, vector}
MCPrerequisites == [s \in MCScopes |-> IF s = search THEN {people} ELSE {}]
=============================================================================
