--------------------------- MODULE MCUploadWaves ---------------------------
(***************************************************************************)
(* UploadWaves model-checked, and seen as the chain of waves it promises.   *)
(***************************************************************************)
EXTENDS UploadWaves

PhaseOf(state) ==
    CASE state = "none" -> "none"
      [] state = "collecting" -> "gathering"
      [] state = "waiting_predecessor" -> "sealed"
      [] state \in Barrier -> "vision"
      [] state = "ready" -> "frozen"
      [] state = "indexing" -> "indexing"
      [] state = "complete" -> "published"

Chain == INSTANCE WaveChain WITH
    NWaves <- NSessions,
    Sources <- Sources,
    phase  <- [w \in Waves |-> IF enrolled THEN PhaseOf(wave[w].state) ELSE "none"],
    photos <- [w \in Waves |->
                  {src \in Sources : enrolled /\ evidence[w][MemberKey(src)].kind = "member"}]

(* The enrolled library's protocol implements the chain: every transaction is
   one step of it or leaves it alone. *)
ChainSpec == Chain!Spec
=============================================================================
