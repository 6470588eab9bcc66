-------------------------- MODULE MCUploadSession --------------------------
(* UploadSession with two requests in flight and two core replicas.         *)
EXTENDS UploadSession
CONSTANTS h1, h2, r1, r2
=============================================================================
