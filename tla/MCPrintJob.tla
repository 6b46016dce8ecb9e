----------------------------- MODULE MCPrintJob -----------------------------
(* TLC instance of PrintJob; the bounds are set in the .cfg files.         *)
EXTENDS PrintJob
=============================================================================
