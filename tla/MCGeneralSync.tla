--------------------------- MODULE MCGeneralSync ---------------------------
(* Instances of GeneralSync for TLC. *)
EXTENDS GeneralSync

CONSTANTS main, free
=============================================================================
