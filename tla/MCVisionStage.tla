--------------------------- MODULE MCVisionStage ---------------------------
(***************************************************************************)
(* VisionStage model-checked.                                               *)
(***************************************************************************)
EXTENDS VisionStage
=============================================================================
