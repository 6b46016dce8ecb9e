----------------------- MODULE FileTransferImplements -----------------------
(***************************************************************************)
(* The refinement mapping from FileTransfer to FileTransferApi.            *)
(***************************************************************************)
EXTENDS FileTransfer

(* A job runs from the call that starts it, in its worker or, on a stub    *)
(* tunnel, in the caller's thread, until its result can be read.           *)
Started(j) ==
    \/ pc[j] # "none"
    \/ \E h \in Hosts : pc[h] \in {"stub_cb", "stub_fin"} /\ arg[h] = j

JobState ==
    [j \in Jobs |-> IF finished[j] THEN "done" ELSE IF Started(j) THEN "running" ELSE "created"]

(* The turn is the worker's that is in its exchange, not merely in lan_mu. *)
Turn == IF \E j \in Jobs : pc[j] = "io" THEN CHOOSE j \in Jobs : pc[j] = "io" ELSE None

Api == INSTANCE FileTransferApi WITH
    state <- JobState, asked <- cancelled, turn <- Turn, open <- IsConnected,
    known <- probed, answer <- outcome, result <- ec

(* The ABI as the host sees it: jobs take turns on one session that nobody *)
(* opens, replaces or closes during a turn, each ends with one result that *)
(* says what really happened to it, and whatever the threads, the cached   *)
(* ability or a stub tunnel do in between stays invisible.                 *)
ImplementsApi == Api!Spec
=============================================================================
