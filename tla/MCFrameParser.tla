--------------------------- MODULE MCFrameParser ---------------------------
(* Bounds for checking FrameParser with TLC are given in the .cfg files;  *)
(* this module only instantiates the specification.                       *)
EXTENDS FrameParser
=============================================================================
