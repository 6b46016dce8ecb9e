---------------------------- MODULE MCTunnelWire ----------------------------
(* TLC instance of TunnelWire; the bounds are set in the .cfg files.       *)
EXTENDS TunnelWire
=============================================================================
