--------------------------- MODULE MCLocalSource ---------------------------
(* TLC instance of LocalSource; the bounds are set in the .cfg files.      *)
EXTENDS LocalSource
=============================================================================
