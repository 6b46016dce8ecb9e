---------------------------- MODULE MCDiscovery -----------------------------
(* TLC instance of Discovery; the bounds are set in the .cfg files.        *)
EXTENDS Discovery
=============================================================================
