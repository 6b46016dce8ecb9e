--------------------------- MODULE MCFileTransfer ---------------------------
(* TLC instance of FileTransfer; the bounds are set in the .cfg files.     *)
EXTENDS FileTransferImplements
=============================================================================
