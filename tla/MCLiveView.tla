----------------------------- MODULE MCLiveView -----------------------------
(***************************************************************************)
(* TLC instance of the two ways to the live view, RtspStream (the printers *)
(* that stream over RTSP) and DshowFilter (the DirectShow filter for the   *)
(* others).  They have no state in common, so a behaviour is one of either.*)
(***************************************************************************)
EXTENDS RtspStream, DshowFilter

VARIABLE way  \* "rtsp" or "filter"

viewVars == <<way, vars, filterVars>>

ViewInit == way \in {"rtsp", "filter"} /\ Init /\ FilterInit

ViewNext ==
    \/ way = "rtsp" /\ Next /\ UNCHANGED <<way, filterVars>>
    \/ way = "filter" /\ FilterNext /\ UNCHANGED <<way, vars>>

ViewSpec ==
    /\ ViewInit /\ [][ViewNext]_viewVars
    /\ \/ way = "rtsp" /\ Fairness
       \/ way = "filter" /\ FilterFairness
=============================================================================
