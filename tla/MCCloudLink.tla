---------------------------- MODULE MCCloudLink ----------------------------
(* TLC instance of CloudLink; the bounds are set in the .cfg files.        *)
EXTENDS CloudLink
=============================================================================
