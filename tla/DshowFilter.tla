----------------------------- MODULE DshowFilter -----------------------------
(***************************************************************************)
(* The DirectShow source filter of src/stubs/dshow_filter.cpp: the class   *)
(* factory, BambuSourceFilter, its one BambuSourceOutPin and the worker    *)
(* thread that pushes samples into the connected input pin.                *)
(*                                                                         *)
(* Two threads: the filter graph's (the graph manager makes one call at a  *)
(* time) and the worker.  State_mu_ is held over whole actions of either,  *)
(* never over a join or a blocking call, so it needs no variable.          *)
(***************************************************************************)
EXTENDS Integers, FiniteSets

CONSTANTS
    Buffers,   \* cBuffers, 8 in the code
    MaxEnums   \* bound: live pin enumerators

ASSUME DshowParameters == Buffers \in Nat \ {0} /\ MaxEnums \in Nat

VARIABLES
    lock,    \* g_lock_count
    holds,   \* who holds a reference: the client's, per kind of object
    filt,    \* the filter: alive, state_, scheme of url_
    pin,     \* the pin: alive, connected, allocator, media type
    run,     \* worker_running_ and worker_stop_
    worker,  \* where the worker is, and its scheme
    graph,   \* what the graph thread is waiting for
    down,    \* external: the downstream pin and renderer
    src      \* external: what the stream has to offer

filterVars == <<lock, holds, filt, pin, run, worker, graph, down, src>>

Idle == graph.at = "idle"
NoPin == [alive |-> FALSE, conn |-> FALSE, alloc |-> "none", mt |-> "none"]
NoWorker == [at |-> "none", scheme |-> "none"]

FilterInit ==
    /\ lock = 0 /\ holds = [factory |-> 0, server |-> 0, filter |-> 0, enum |-> 0, pin |-> 0]
    /\ filt = [alive |-> FALSE, state |-> "Stopped", scheme |-> "local"]
    /\ pin = NoPin /\ run = [running |-> FALSE, stop |-> FALSE] /\ worker = NoWorker
    /\ graph = [op |-> "none", at |-> "idle"] /\ src = "silent"
    /\ down = [conn |-> FALSE, state |-> "Stopped", held |-> 0, got |-> FALSE]

(***************************************************************************)
(* Objects and their references.                                           *)
(***************************************************************************)

(* DllGetClassObject: a factory, for our CLSID and a known interface.      *)
GetClassObject ==
    /\ Idle /\ holds.factory = 0 /\ holds' = [holds EXCEPT !.factory = 1] /\ lock' = lock + 1
    /\ UNCHANGED <<filt, pin, run, worker, graph, down, src>>

ReleaseFactory ==
    /\ Idle /\ holds.factory = 1 /\ holds' = [holds EXCEPT !.factory = 0] /\ lock' = lock - 1
    /\ UNCHANGED <<filt, pin, run, worker, graph, down, src>>

LockServer ==
    /\ Idle /\ holds.factory = 1 /\ holds' = [holds EXCEPT !.server = 1 - @]
    /\ lock' = IF holds.server = 0 THEN lock + 1 ELSE lock - 1
    /\ UNCHANGED <<filt, pin, run, worker, graph, down, src>>

(* Mutant: the pin does not count.                                         *)
CreateInstance_FilterOnly ==
    /\ Idle /\ holds.factory = 1 /\ ~filt.alive /\ ~pin.alive
    /\ filt' = [alive |-> TRUE, state |-> "Stopped", scheme |-> "local"]
    /\ pin' = [NoPin EXCEPT !.alive = TRUE]
    /\ holds' = [holds EXCEPT !.filter = 1] /\ lock' = lock + 1
    /\ UNCHANGED <<run, worker, graph, down, src>>

(* CreateInstance: a filter and its pin, each counted.                     *)
CreateInstance ==
    /\ Idle /\ holds.factory = 1 /\ ~filt.alive /\ ~pin.alive
    /\ filt' = [alive |-> TRUE, state |-> "Stopped", scheme |-> "local"]
    /\ pin' = [NoPin EXCEPT !.alive = TRUE]
    /\ holds' = [holds EXCEPT !.filter = 1] /\ lock' = lock + 2
    /\ UNCHANGED <<run, worker, graph, down, src>>

(* EnumPins: the enumerator counts, and holds the pin.                     *)
EnumPins ==
    /\ Idle /\ filt.alive /\ holds.enum < MaxEnums
    /\ holds' = [holds EXCEPT !.enum = @ + 1] /\ lock' = lock + 1
    /\ UNCHANGED <<filt, pin, run, worker, graph, down, src>>

(* FindPin, or Next on an enumerator: the client holds the pin.            *)
FindPin ==
    /\ Idle /\ (filt.alive \/ holds.enum > 0) /\ holds.pin = 0
    /\ holds' = [holds EXCEPT !.pin = 1]
    /\ UNCHANGED <<lock, filt, pin, run, worker, graph, down, src>>

PinRefs(h, f) == h.pin + h.enum + (IF f THEN 1 ELSE 0)

(* The pin is deleted with its last reference; its worker was joined when  *)
(* the filter, the only one to start it, disconnected it.                  *)
DropPin(n) ==
    IF pin.alive /\ n = 0 THEN pin' = NoPin /\ lock' = lock - 1
    ELSE UNCHANGED <<pin, lock>>

ReleasePin ==
    /\ Idle /\ holds.pin = 1 /\ holds' = [holds EXCEPT !.pin = 0]
    /\ DropPin(PinRefs(holds', filt.alive))
    /\ UNCHANGED <<filt, run, worker, graph, down, src>>

ReleaseEnum ==
    /\ Idle /\ holds.enum > 0 /\ holds' = [holds EXCEPT !.enum = @ - 1]
    /\ LET gone == PinRefs(holds', filt.alive) = 0
       IN  /\ pin' = IF gone THEN NoPin ELSE pin
           /\ lock' = lock - (IF gone THEN 2 ELSE 1)
    /\ UNCHANGED <<filt, run, worker, graph, down, src>>

(***************************************************************************)
(* Loading and connecting.                                                 *)
(***************************************************************************)

(* make_media_type_for_scheme.                                             *)
MediaTypeFor(s) == IF s = "local" THEN "mjpg" ELSE "h264"

(* parse_bambu_url: the scheme of a URL, "none" when it is refused.        *)
ParseBambuUrl(kind) == IF kind \in {"local", "rtsps", "rtsp"} THEN kind ELSE "none"

(* Load, before the pin is connected.                                      *)
Load ==
    /\ Idle /\ filt.alive /\ ~pin.conn /\ worker.at = "none"
    /\ \E kind \in {"local", "rtsps", "http"} :
        filt' = IF ParseBambuUrl(kind) = "none" THEN filt
                ELSE [filt EXCEPT !.scheme = ParseBambuUrl(kind)]
    /\ UNCHANGED <<lock, holds, pin, run, worker, graph, down, src>>

(* Connect: ReceiveConnection may refuse; a missing IMemInputPin or        *)
(* allocator rolls the downstream pin back.                                *)
Connect ==
    /\ Idle /\ filt.alive /\ ~pin.conn /\ ~down.conn
    /\ \/ UNCHANGED <<pin, down>>
       \/ /\ down' = [down EXCEPT !.conn = TRUE]
          /\ pin' = [pin EXCEPT !.conn = TRUE, !.alloc = "decommitted",
                                !.mt = MediaTypeFor(filt.scheme)]
    /\ UNCHANGED <<lock, holds, filt, run, worker, graph, src>>

(* The graph disconnects both ends; it does so when it is stopped.         *)
Disconnect ==
    /\ Idle /\ filt.alive /\ pin.conn /\ down.state = "Stopped"
    /\ down' = [down EXCEPT !.conn = FALSE] /\ graph' = [op |-> "disconnect", at |-> "enter"]
    /\ UNCHANGED <<lock, holds, filt, pin, run, worker, src>>

(***************************************************************************)
(* State changes: Pause, Run, Stop; start_streaming and stop_streaming.    *)
(***************************************************************************)

(* start_streaming: nothing while worker_running_ is set, which it still   *)
(* is after a worker has ended by itself.                                  *)
StartStreaming ==
    IF run.running THEN UNCHANGED <<run, pin, worker, src>>
    ELSE /\ run' = [running |-> TRUE, stop |-> FALSE]
         /\ pin' = IF pin.alloc = "none" THEN pin ELSE [pin EXCEPT !.alloc = "committed"]
         /\ worker' = [at |-> "dial", scheme |-> filt.scheme]
         /\ src' = "silent"

(* A renderer that was stopped has given its samples back.                 *)
Pause ==
    /\ Idle /\ filt.alive /\ pin.conn /\ filt.state = "Stopped"
    /\ filt' = [filt EXCEPT !.state = "Paused"] /\ StartStreaming
    /\ down' = [down EXCEPT !.state = "Paused", !.got = FALSE, !.held = 0]
    /\ UNCHANGED <<lock, holds, graph>>

(* The graph runs once the renderer has its first sample.                  *)
RunFilter ==
    /\ Idle /\ filt.alive /\ filt.state = "Paused" /\ down.got
    /\ filt' = [filt EXCEPT !.state = "Running"] /\ StartStreaming
    /\ down' = [down EXCEPT !.state = "Running"]
    /\ UNCHANGED <<lock, holds, graph>>

(* Stop, downstream first.                                                 *)
StopFilter ==
    /\ Idle /\ filt.alive /\ filt.state # "Stopped"
    /\ filt' = [filt EXCEPT !.state = "Stopped"] /\ graph' = [op |-> "stop", at |-> "enter"]
    /\ down' = [down EXCEPT !.state = "Stopped"]
    /\ UNCHANGED <<lock, holds, pin, run, worker, src>>

(* Release of the last reference: ~BambuSourceFilter disconnects the pin.  *)
ReleaseFilter ==
    /\ Idle /\ holds.filter = 1 /\ down.state = "Stopped"
    /\ holds' = [holds EXCEPT !.filter = 0] /\ graph' = [op |-> "destroy", at |-> "enter"]
    /\ down' = [down EXCEPT !.conn = FALSE]
    /\ UNCHANGED <<lock, filt, pin, run, worker, src>>

(* Mutant: the allocator stays committed.                                  *)
StopStreaming_NoDecommit ==
    /\ graph.at = "enter" /\ graph' = [graph EXCEPT !.at = "join"]
    /\ run' = IF run.running THEN [run EXCEPT !.stop = TRUE] ELSE run
    /\ UNCHANGED <<lock, holds, filt, pin, worker, down, src>>

(* stop_streaming up to the join: the flag, then Decommit.                 *)
StopStreaming ==
    /\ graph.at = "enter" /\ graph' = [graph EXCEPT !.at = "join"]
    /\ run' = IF run.running THEN [run EXCEPT !.stop = TRUE] ELSE run
    /\ pin' = IF run.running /\ pin.alloc # "none" THEN [pin EXCEPT !.alloc = "decommitted"] ELSE pin
    /\ UNCHANGED <<lock, holds, filt, worker, down, src>>

(* The worker has been joined.  Disconnect then lets go of the downstream  *)
(* objects; the filter's destructor also drops its reference to the pin.   *)
StopJoined ==
    /\ graph.at = "join" /\ worker.at \in {"none", "ended"}
    /\ worker' = NoWorker /\ run' = [run EXCEPT !.running = FALSE] /\ graph' = [op |-> "none", at |-> "idle"]
    /\ LET bare == [pin EXCEPT !.conn = FALSE, !.alloc = "none", !.mt = "none"]
           last == graph.op = "destroy" /\ PinRefs(holds, FALSE) = 0
       IN  /\ pin' = IF graph.op = "stop" THEN pin ELSE IF last THEN NoPin ELSE bare
           /\ filt' = IF graph.op = "destroy" THEN [filt EXCEPT !.alive = FALSE] ELSE filt
           /\ lock' = lock - (IF last THEN 2 ELSE IF graph.op = "destroy" THEN 1 ELSE 0)
    /\ UNCHANGED <<holds, down, src>>

(***************************************************************************)
(* worker_main.                                                            *)
(***************************************************************************)

(* dial_tls and the authentication, or Passthrough::start.                 *)
WorkerDial ==
    /\ worker.at = "dial" /\ \E a \in {"loop", "ended"} : worker' = [worker EXCEPT !.at = a]
    /\ UNCHANGED <<lock, holds, filt, pin, run, graph, down, src>>

(* The loop condition.  An H.264 worker polls try_pull, a JPEG worker      *)
(* enters a read that only the printer or the network can end.             *)
WorkerMainLoop ==
    /\ worker.at = "loop"
    /\ worker' = [worker EXCEPT !.at = IF run.stop THEN "ended" ELSE "pull"]
    /\ UNCHANGED <<lock, holds, filt, pin, run, graph, down, src>>

(* Pull_WouldBlock: 10 ms, and the loop again.                             *)
WorkerWouldBlock ==
    /\ worker.at = "pull" /\ worker.scheme # "local" /\ src = "silent"
    /\ worker' = [worker EXCEPT !.at = "loop"]
    /\ UNCHANGED <<lock, holds, filt, pin, run, graph, down, src>>

(* The stream ended or broke, or a frame has no plausible length.          *)
WorkerStreamEnd ==
    /\ worker.at = "pull" /\ src \in {"end", "junk"} /\ worker' = [worker EXCEPT !.at = "ended"]
    /\ UNCHANGED <<lock, holds, filt, pin, run, graph, down, src>>

(* A JPEG without its markers is skipped.                                  *)
WorkerSkips ==
    /\ worker.at = "pull" /\ worker.scheme = "local" /\ src = "junk" /\ src' = "silent"
    /\ worker' = [worker EXCEPT !.at = "loop"]
    /\ UNCHANGED <<lock, holds, filt, pin, run, graph, down>>

(* Mutant: nothing is pushed before the graph runs.                        *)
WorkerFrame_RunningOnly ==
    /\ worker.at = "pull" /\ src = "frame" /\ src' = "silent"
    /\ worker' = [worker EXCEPT !.at = IF filt.state = "Running" THEN "buffer" ELSE "loop"]
    /\ UNCHANGED <<lock, holds, filt, pin, run, graph, down>>

(* A frame; borrow_targets.  It is dropped when there is nowhere to push.  *)
WorkerFrame ==
    /\ worker.at = "pull" /\ src = "frame" /\ src' = "silent"
    /\ worker' = [worker EXCEPT !.at = IF pin.conn THEN "buffer" ELSE "loop"]
    /\ UNCHANGED <<lock, holds, filt, pin, run, graph, down>>

(* push_sample_into: GetBuffer fails at once when the allocator is not     *)
(* committed and blocks while the renderer holds all buffers.              *)
WorkerNoBuffer ==
    /\ worker.at = "buffer" /\ pin.alloc # "committed"
    /\ worker' = [worker EXCEPT !.at = "loop"]
    /\ UNCHANGED <<lock, holds, filt, pin, run, graph, down, src>>

WorkerReceive ==
    /\ worker.at = "buffer" /\ pin.alloc = "committed" /\ down.held < Buffers
    /\ worker' = [worker EXCEPT !.at = "receive"]
    /\ down' = [down EXCEPT !.held = @ + 1, !.got = TRUE]
    /\ UNCHANGED <<lock, holds, filt, pin, run, graph, src>>

(***************************************************************************)
(* Downstream and the printer (external).                                  *)
(***************************************************************************)

(* Receive returns; a renderer that is paused may hold the caller.         *)
ReceiveReturns ==
    /\ worker.at = "receive" /\ (down.state # "Paused" \/ down.held < Buffers)
    /\ worker' = [worker EXCEPT !.at = "loop"]
    /\ UNCHANGED <<lock, holds, filt, pin, run, graph, down, src>>

RendererFrees ==
    /\ down.held > 0 /\ down.state # "Paused" /\ down' = [down EXCEPT !.held = @ - 1]
    /\ UNCHANGED <<lock, holds, filt, pin, run, worker, graph, src>>

StreamFrame ==
    /\ worker.at \in {"loop", "pull"} /\ src = "silent" /\ src' = "frame"
    /\ UNCHANGED <<lock, holds, filt, pin, run, worker, graph, down>>

StreamBreaks ==
    /\ worker.at \in {"loop", "pull"} /\ src = "silent" /\ \E s \in {"junk", "end"} : src' = s
    /\ UNCHANGED <<lock, holds, filt, pin, run, worker, graph, down>>

ObjectStep == GetClassObject \/ ReleaseFactory \/ LockServer \/ CreateInstance \/ EnumPins
              \/ FindPin \/ ReleasePin \/ ReleaseEnum
GraphStep == Load \/ Connect \/ Disconnect \/ Pause \/ RunFilter \/ StopFilter \/ ReleaseFilter
StopStreamingStep == StopStreaming \/ StopJoined
WorkerMainStep == WorkerDial \/ WorkerMainLoop \/ WorkerWouldBlock \/ WorkerStreamEnd \/ WorkerSkips
              \/ WorkerFrame \/ WorkerNoBuffer \/ WorkerReceive

FilterNext == ObjectStep \/ GraphStep \/ StopStreamingStep \/ WorkerMainStep
        \/ ReceiveReturns \/ RendererFrees \/ StreamFrame \/ StreamBreaks

FilterSpec == FilterInit /\ [][FilterNext]_filterVars

(* The worker and a graph thread inside Stop run, and Receive returns once *)
(* the renderer is stopped.  The printer keeps sending good frames between *)
(* bad ones: were it silent, the JPEG worker would sit in a read without a *)
(* time-out, which neither worker_stop_ nor Decommit ends.                 *)
FilterFairness ==
    /\ WF_filterVars(WorkerMainStep) /\ WF_filterVars(StopStreamingStep) /\ WF_filterVars(ReceiveReturns)
    /\ SF_filterVars(StreamFrame)

FilterFairSpec == FilterSpec /\ FilterFairness

(***************************************************************************)
(* Properties.                                                             *)
(***************************************************************************)

Workers == {"dial", "loop", "pull", "buffer", "receive"}

(* OLE32 unloads the library when DllCanUnloadNow says so: at a count of   *)
(* zero nothing of it may be left, neither an object - a pin may outlive   *)
(* its filter - nor the worker thread.                                     *)
UnloadSafe ==
    lock = 0 => /\ ~filt.alive /\ ~pin.alive /\ worker.at \notin Workers
                /\ \A k \in DOMAIN holds : holds[k] = 0

(* "wmp/wxMediaCtrl keeps the graph in Paused until it receives the first  *)
(* sample" (dshow_filter.cpp:1450-1453): a pause leads to a sample, unless *)
(* the stream ends or the graph is stopped, also in the second session.    *)
PauseDelivers == filt.state = "Paused" ~> down.got \/ worker.at = "ended" \/ filt.state # "Paused"

(* Stop, Disconnect and the destructor return: the join they wait for      *)
(* comes about, whether the worker is in GetBuffer, Receive or a read that *)
(* the printer will still answer.                                          *)
GraphReturns == ~Idle ~> Idle
=============================================================================
