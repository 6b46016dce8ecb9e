----------------------------- MODULE MCLanAgent -----------------------------
(* TLC instance of LanAgent.                                               *)
EXTENDS LanAgent
=============================================================================
