----------------------------- MODULE LocalSource -----------------------------
(***************************************************************************)
(* One Bambu_Tunnel of libBambuSource for the port-6000 scheme             *)
(* (src/stubs/BambuSource.cpp): MJPG video, or the CTRL channel of the     *)
(* printer's file browser.  RTSP tunnels are the module RtspStream.        *)
(*                                                                         *)
(* Three threads meet.  `gst' is the host's streaming thread: it opens,    *)
(* starts, reads and sends.  `ui' is the thread that closes and destroys,  *)
(* which may be another one ("Cancellation flag set from a different       *)
(* thread by Bambu_Close").  `wk' is the CTRL worker.  A step is what one  *)
(* of them does under one hold of mjpg_io_mu or ctrl_mu, or between two.   *)
(* SSL_read blocks with mjpg_io_mu held, so `io' has an owner there.  It   *)
(* blocks for as long as the printer is silent: dial_tls ends by clearing  *)
(* the time-outs of the socket (src/src/tls_dial.cpp:303), and only bytes, *)
(* the printer's end of the connection or a local shutdown wake the read.  *)
(*                                                                         *)
(* An SSL* is the number of the Bambu_Open that made it, 0 when null.      *)
(***************************************************************************)
EXTENDS Integers, Sequences, FiniteSets

CONSTANTS
    MaxOpens,       \* bound: calls of Bambu_Open
    MaxReqs,        \* bound: CTRL requests
    MaxFrames,      \* bound: MJPG frames the printer sends
    MaxParts,       \* bound: frames of one CTRL answer
    MaxBurst,       \* frames that one read of the socket may complete
    CloseAnyTime    \* Bambu_Close may meet a StartStream call in progress

ASSUME SourceParameters ==
    /\ {MaxOpens, MaxReqs, MaxFrames, MaxParts, MaxBurst} \subseteq Nat
    /\ MaxBurst >= 1 /\ CloseAnyTime \in BOOLEAN

VARIABLES
    use,       \* what the host wants of the tunnel: "video" or "ctrl"
    tun,       \* the Tunnel object: "none", "live" or "deleted"
    opens,     \* Bambu_Open calls so far
    ssl,       \* t->ssl
    sock,      \* the socket below it: "none", "up", "shut" or "gone"
    io,        \* owner of mjpg_io_mu while it blocks in SSL_read
    closing,   \* t->closing
    authed,    \* t->mjpg_authed
    phase,     \* tl_session: "none", "new", "login", "setup" or "ready"
    ctrlMode, ctrlStop, ctrlIn, ctrlOut,
    gst,       \* the streaming thread: where it is, the SSL* it holds
    ui,        \* the closing thread
    wk,        \* the CTRL worker: where it is, its request, the SSL* it holds
    wire,      \* external: frames on their way to the plugin
    printer    \* external: what it was asked and has not answered yet

tunnelVars == <<tun, opens, ssl, sock, closing, authed>>
ctrlVars   == <<phase, ctrlMode, ctrlStop, ctrlIn, ctrlOut>>
extVars    == <<wire, printer>>
vars == <<use, tunnelVars, io, ctrlVars, gst, ui, wk, extVars>>

Idle == [at |-> "idle", ssl |-> 0]
NoWorker == [at |-> "none", req |-> 0, ssl |-> 0]
Quiet == [video |-> FALSE, hello |-> "none", sent |-> 0, pend |-> <<>>, parts |-> 0]

Init ==
    /\ use \in {"video", "ctrl"}
    /\ tun = "none" /\ opens = 0 /\ ssl = 0 /\ sock = "none" /\ io = "free"
    /\ closing = FALSE /\ authed = FALSE
    /\ phase = "none" /\ ctrlMode = FALSE /\ ctrlStop = FALSE
    /\ ctrlIn = <<>> /\ ctrlOut = <<>>
    /\ gst = Idle /\ ui = "idle" /\ wk = NoWorker
    /\ wire = <<>> /\ printer = Quiet

(* What parse_url makes of the host's string.                              *)
ParseUrl == {"bad", "local"}

(* Bambu_Create.                                                           *)
Create ==
    /\ tun = "none"
    /\ \E u \in ParseUrl : tun' = IF u = "bad" THEN "none" ELSE "live"
    /\ UNCHANGED <<use, opens, ssl, sock, closing, authed, io, ctrlVars, gst, ui,
                   wk, extVars>>

Caller == tun = "live" /\ gst.at = "idle"
MayStart == CloseAnyTime \/ ui = "idle"

(* Bambu_Open: dial_tls; `closing', `mjpg_authed', the tl_session and the  *)
(* CTRL queues are left as an earlier use of the tunnel left them.         *)
Open ==
    /\ tun = "live" /\ gst.at \in {"idle", "failed", "bad"} /\ gst' = Idle
    /\ ui = "idle" /\ ssl = 0 /\ opens < MaxOpens /\ opens' = opens + 1
    /\ \/ UNCHANGED <<ssl, sock, extVars>>
       \/ ssl' = opens' /\ sock' = "up" /\ wire' = <<>> /\ printer' = Quiet
    /\ UNCHANGED <<use, tun, closing, authed, io, ctrlVars, ui, wk>>

(***************************************************************************)
(* Video: Bambu_StartStream and Bambu_ReadSample.                          *)
(***************************************************************************)

(* Bambu_StartStream up to the lock: nothing to send the second time.      *)
StartStream ==
    /\ Caller /\ MayStart /\ use = "video" /\ ssl # 0 /\ ~authed
    /\ gst' = [at |-> "auth", ssl |-> 0]
    /\ UNCHANGED <<use, tunnelVars, io, ctrlVars, ui, wk, extVars>>

(* The 80-byte packet of build_auth_packet, written under mjpg_io_mu.      *)
StartStreamAuth ==
    /\ gst.at = "auth" /\ io = "free" /\ gst' = Idle
    /\ \/ sock # "up" /\ UNCHANGED <<authed, printer>>
       \/ sock = "up" /\ authed' = TRUE /\ printer' = [printer EXCEPT !.video = TRUE]
    /\ UNCHANGED <<use, tun, opens, ssl, sock, closing, io, ctrlVars, ui, wk, wire>>

ReadSample ==
    /\ Caller /\ use = "video" /\ ssl # 0 /\ authed
    /\ gst' = [Idle EXCEPT !.at = "hdr"]
    /\ UNCHANGED <<use, tunnelVars, io, ctrlVars, ui, wk, extVars>>

(* ssl_read_all, one turn of its loop: take the lock, look at `closing'    *)
(* and `ssl' again, and block in SSL_read.                                 *)
ReadEnter ==
    /\ gst.at \in {"hdr", "pay"} /\ io = "free"
    /\ IF closing \/ ssl = 0
       THEN gst' = [Idle EXCEPT !.at = "failed"] /\ UNCHANGED io
       ELSE io' = "gst" /\ gst' = [gst EXCEPT !.ssl = ssl]
    /\ UNCHANGED <<use, tunnelVars, ctrlVars, ui, wk, extVars>>

Reading == io = "gst" /\ gst.at \in {"hdr", "pay"}

(* The bytes asked for are there.  A header is followed by the payload it  *)
(* announces; a size out of bounds or a payload that is no JPEG fails.     *)
ReadBytes ==
    /\ Reading /\ wire # <<>> /\ io' = "free" /\ wire' = Tail(wire)
    /\ gst' = [Idle EXCEPT !.at =
                 CASE Head(wire) = "hdr" /\ gst.at = "hdr" -> "pay"
                   [] Head(wire) = "jpg" /\ gst.at = "pay" -> "idle"
                   [] OTHER -> "bad"]
    /\ UNCHANGED <<use, tunnelVars, ctrlVars, ui, wk, printer>>

(* The socket was shut down, or the printer went away: no other end to the *)
(* wait, and WANT_READ does not occur on a blocking socket.                *)
ReadBroken ==
    /\ Reading /\ sock # "up" /\ io' = "free"
    /\ gst' = [Idle EXCEPT !.at = "failed"]
    /\ UNCHANGED <<use, tunnelVars, ctrlVars, ui, wk, extVars>>

(***************************************************************************)
(* The CTRL channel: Bambu_StartStreamEx, polled by the host.              *)
(***************************************************************************)

(* start_native_ctrl_handshake and the phase handshake_step begins in; it  *)
(* works on the SSL* it was given.                                         *)
StartStreamEx ==
    /\ Caller /\ MayStart /\ use = "ctrl" /\ ssl # 0 /\ ~ctrlMode
    /\ phase' = IF phase = "none" THEN "new" ELSE phase
    /\ gst' = [at |-> IF phase' = "new" THEN "hsSend" ELSE "hsRead", ssl |-> ssl]
    /\ UNCHANGED <<use, tunnelVars, io, ctrlMode, ctrlStop, ctrlIn, ctrlOut, ui, wk,
                   extVars>>

(* handshake_step sends the login, or the setup after the login's reply.   *)
HandshakeSend ==
    /\ gst.at = "hsSend" /\ io = "free" /\ gst' = Idle
    /\ IF sock # "up"
       THEN phase' = "none" /\ UNCHANGED printer
       ELSE /\ phase' = IF phase = "new" THEN "login" ELSE "setup"
            /\ printer' = [printer EXCEPT !.hello = "asked"]
    /\ UNCHANGED <<use, tunnelVars, io, ctrlMode, ctrlStop, ctrlIn, ctrlOut, ui, wk, wire>>

(* handshake_step reads: although it is polled, it blocks in SSL_read.     *)
HandshakeEnter ==
    /\ gst.at = "hsRead" /\ io = "free"
    /\ io' = "gst" /\ gst' = [gst EXCEPT !.at = "hsWait"]
    /\ UNCHANGED <<use, tunnelVars, ctrlVars, ui, wk, extVars>>

(* The reply is there, or a part of it, which the host polls again for.    *)
HandshakeRead ==
    /\ gst.at = "hsWait" /\ printer.hello = "replied" /\ io' = "free"
    /\ \/ /\ printer' = [printer EXCEPT !.hello = "none"]
          /\ \/ phase = "login" /\ UNCHANGED phase /\ gst' = [gst EXCEPT !.at = "hsSend"]
             \/ phase = "setup" /\ phase' = "ready" /\ gst' = [gst EXCEPT !.at = "hsDone"]
       \/ UNCHANGED <<phase, printer>> /\ gst' = Idle
    /\ UNCHANGED <<use, tunnelVars, ctrlMode, ctrlStop, ctrlIn, ctrlOut, ui, wk, wire>>

(* The connection ended: the session is thrown away.                       *)
HandshakeBroken ==
    /\ gst.at = "hsWait" /\ sock # "up" /\ io' = "free"
    /\ phase' = "none" /\ gst' = Idle
    /\ UNCHANGED <<use, tunnelVars, ctrlMode, ctrlStop, ctrlIn, ctrlOut, ui, wk, extVars>>

(* The session is ready: ctrl_mode, and the worker is started.             *)
CtrlReady ==
    /\ gst.at = "hsDone" /\ gst' = Idle
    /\ ctrlMode' = TRUE /\ ctrlStop' = FALSE /\ wk' = [NoWorker EXCEPT !.at = "wait"]
    /\ UNCHANGED <<use, tunnelVars, io, phase, ctrlIn, ctrlOut, ui, extVars>>

(* Bambu_SendMessage; requests are numbered.                               *)
SendMessage ==
    /\ Caller /\ ctrlMode /\ printer.sent < MaxReqs
    /\ printer' = [printer EXCEPT !.sent = @ + 1]
    /\ ctrlIn' = Append(ctrlIn, printer.sent')
    /\ UNCHANGED <<use, tunnelVars, io, phase, ctrlMode, ctrlStop, ctrlOut, gst, ui, wk,
                   wire>>

(* Bambu_ReadSample in ctrl_mode: one reply of the outbox.                 *)
ReadReply ==
    /\ Caller /\ ctrlMode /\ ctrlOut # <<>>
    /\ ctrlOut' = Tail(ctrlOut)
    /\ UNCHANGED <<use, tunnelVars, io, phase, ctrlMode, ctrlStop, ctrlIn, gst, ui, wk,
                   extVars>>

(* native_ctrl_send_worker, outer loop: leave, or take a request.          *)
WorkerTake ==
    /\ wk.at = "wait"
    /\ \/ ctrlStop /\ wk' = NoWorker /\ UNCHANGED ctrlIn
       \/ /\ ~ctrlStop /\ ctrlIn # <<>> /\ ctrlIn' = Tail(ctrlIn)
          /\ wk' = [wk EXCEPT !.at = "send", !.req = Head(ctrlIn)]
    /\ UNCHANGED <<use, tunnelVars, io, phase, ctrlMode, ctrlStop, ctrlOut, gst, ui,
                   extVars>>

(* send_abi_json; a request that cannot be sent is dropped.                *)
WorkerSend ==
    /\ wk.at = "send" /\ io = "free"
    /\ IF ssl = 0 \/ phase = "none" \/ sock # "up"
       THEN wk' = [NoWorker EXCEPT !.at = "wait"] /\ UNCHANGED printer
       ELSE /\ wk' = [wk EXCEPT !.at = "recv", !.ssl = ssl]
            /\ printer' = [printer EXCEPT !.pend = Append(@, wk.req)]
    /\ UNCHANGED <<use, tunnelVars, io, ctrlVars, gst, ui, wire>>

(* recv_payload: nothing of an earlier read is left over, so it blocks.    *)
WorkerEnter ==
    /\ wk.at = "recv" /\ io = "free"
    /\ io' = "wk" /\ wk' = [wk EXCEPT !.at = "read"]
    /\ UNCHANGED <<use, tunnelVars, ctrlVars, gst, ui, extVars>>

(* Mutant: the worker does not wait for the rest of an answer.             *)
WorkerRecv_OneFrame ==
    /\ io = "wk" /\ wire # <<>> /\ io' = "free"
    /\ \E k \in 1..MaxBurst :
        k <= Len(wire) /\ wire' = SubSeq(wire, k + 1, Len(wire))
    /\ ctrlOut' = Append(ctrlOut, Head(wire))
    /\ wk' = [NoWorker EXCEPT !.at = "wait"]
    /\ UNCHANGED <<use, tunnelVars, phase, ctrlMode, ctrlStop, ctrlIn, gst, ui, printer>>

(* The read completed k frames: recv_payload returns the first and throws  *)
(* the others away; push_reply queues it, and "continue" means that the    *)
(* worker waits for more.                                                  *)
WorkerRecv ==
    /\ io = "wk" /\ wire # <<>> /\ io' = "free"
    /\ \E k \in 1..MaxBurst :
        k <= Len(wire) /\ wire' = SubSeq(wire, k + 1, Len(wire))
    /\ ctrlOut' = Append(ctrlOut, Head(wire))
    /\ wk' = IF Head(wire).more THEN [wk EXCEPT !.at = "recv"] ELSE [NoWorker EXCEPT !.at = "wait"]
    /\ UNCHANGED <<use, tunnelVars, phase, ctrlMode, ctrlStop, ctrlIn, gst, ui, printer>>

(* "native recv failed": the connection ended.                             *)
WorkerGivesUp ==
    /\ io = "wk" /\ sock # "up" /\ io' = "free"
    /\ wk' = [NoWorker EXCEPT !.at = "wait"]
    /\ UNCHANGED <<use, tunnelVars, ctrlVars, gst, ui, extVars>>

(***************************************************************************)
(* Bambu_Close and Bambu_Destroy.                                          *)
(***************************************************************************)

Starting == gst.at \in {"auth", "hsSend", "hsRead", "hsWait", "hsDone"}

(* stop_ctrl_mode: nothing to do unless in ctrl_mode.                      *)
Close(destroy) ==
    /\ tun = "live" /\ ui = "idle"
    /\ destroy => gst.at \in {"idle", "failed", "bad"}
    /\ ~CloseAnyTime => ~Starting
    /\ ui' = IF ctrlMode THEN (IF destroy THEN "joinD" ELSE "join")
             ELSE IF destroy THEN "shutD" ELSE "shut"
    /\ ctrlStop' = (ctrlStop \/ ctrlMode)
    /\ UNCHANGED <<use, tunnelVars, io, phase, ctrlMode, ctrlIn, ctrlOut, gst, wk,
                   extVars>>

(* Mutant: the worker is not joined.                                       *)
CloseJoin_Detaches ==
    /\ ui \in {"join", "joinD"}
    /\ ui' = IF ui = "join" THEN "shut" ELSE "shutD"
    /\ phase' = "none" /\ ctrlMode' = FALSE
    /\ UNCHANGED <<use, tunnelVars, io, ctrlStop, ctrlIn, ctrlOut, gst, wk, extVars>>

(* The join: the worker has left its loop.                                 *)
CloseJoin ==
    /\ ui \in {"join", "joinD"} /\ wk.at = "none"
    /\ ui' = IF ui = "join" THEN "shut" ELSE "shutD"
    /\ phase' = "none" /\ ctrlMode' = FALSE
    /\ UNCHANGED <<use, tunnelVars, io, ctrlStop, ctrlIn, ctrlOut, gst, wk, extVars>>

(* Mutant: the socket is left open, and a reader blocked in SSL_read with it. *)
CloseShut_KeepsSocket ==
    /\ ui \in {"shut", "shutD"}
    /\ ui' = IF ui = "shut" THEN "free" ELSE "freeD"
    /\ closing' = FALSE
    /\ UNCHANGED <<use, tun, opens, ssl, sock, authed, io, ctrlVars, gst, wk, extVars>>

(* tunnel_close, step 1: wake the reader, without the lock.                *)
CloseShut ==
    /\ ui \in {"shut", "shutD"}
    /\ ui' = IF ui = "shut" THEN "free" ELSE "freeD"
    /\ closing' = TRUE /\ sock' = IF sock = "none" THEN "none" ELSE "shut"
    /\ UNCHANGED <<use, tun, opens, ssl, authed, io, ctrlVars, gst, wk, extVars>>

(* Step 2: with the lock, free the SSL object and close the socket; then   *)
(* Bambu_Destroy deletes the tunnel.                                       *)
CloseFree ==
    /\ ui \in {"free", "freeD"} /\ io = "free"
    /\ ssl' = 0 /\ sock' = "none" /\ ui' = "idle"
    /\ tun' = IF ui = "freeD" THEN "deleted" ELSE tun
    /\ UNCHANGED <<use, opens, closing, authed, io, ctrlVars, gst, wk, extVars>>

(***************************************************************************)
(* The printer (external).                                                 *)
(***************************************************************************)

PrinterFrame ==
    /\ printer.video /\ sock = "up" /\ printer.sent < MaxFrames
    /\ \E p \in {"hdr", "jpg", "junk"} : wire' = Append(wire, p)
    /\ printer' = [printer EXCEPT !.sent = @ + 1]
    /\ UNCHANGED <<use, tunnelVars, io, ctrlVars, gst, ui, wk>>

PrinterReply ==
    /\ printer.hello = "asked" /\ sock = "up"
    /\ printer' = [printer EXCEPT !.hello = "replied"]
    /\ UNCHANGED <<use, tunnelVars, io, ctrlVars, gst, ui, wk, wire>>

PrinterAnswer ==
    /\ printer.pend # <<>> /\ sock = "up"
    /\ \E more \in BOOLEAN :
        /\ more => printer.parts + 1 < MaxParts
        /\ wire' = Append(wire, [req |-> Head(printer.pend), more |-> more])
        /\ printer' = [printer EXCEPT !.pend = IF more THEN @ ELSE Tail(@),
                                      !.parts = IF more THEN @ + 1 ELSE 0]
    /\ UNCHANGED <<use, tunnelVars, io, ctrlVars, gst, ui, wk>>

PrinterGone ==
    /\ sock = "up" /\ sock' = "gone"
    /\ UNCHANGED <<use, tun, opens, ssl, closing, authed, io, ctrlVars, gst, ui, wk,
                   extVars>>

GstStep ==
    \/ StartStreamAuth \/ ReadEnter \/ ReadBytes \/ ReadBroken
    \/ HandshakeSend \/ HandshakeEnter \/ HandshakeRead \/ HandshakeBroken \/ CtrlReady
WorkerStep == WorkerTake \/ WorkerSend \/ WorkerEnter \/ WorkerRecv \/ WorkerGivesUp
CloseStep == CloseJoin \/ CloseShut \/ CloseFree
HostCall ==
    \/ Create \/ Open \/ StartStream \/ ReadSample \/ StartStreamEx
    \/ SendMessage \/ ReadReply \/ (\E d \in BOOLEAN : Close(d))

Next == HostCall \/ GstStep \/ WorkerStep \/ CloseStep
        \/ PrinterFrame \/ PrinterReply \/ PrinterAnswer \/ PrinterGone

Spec == Init /\ [][Next]_vars

(* Three threads that get to run; nothing is asked of the printer.         *)
FairSpec == Spec /\ WF_vars(GstStep) /\ WF_vars(WorkerStep) /\ WF_vars(CloseStep)

(* With the assumption on the environment that the code does not make: the *)
(* printer answers every CTRL request to its end, or the connection ends.  *)
AnsweringSpec == FairSpec /\ WF_vars(PrinterAnswer)

(***************************************************************************)
(* Properties.                                                             *)
(***************************************************************************)

(* "Once we hold mjpg_io_mu nobody can be inside SSL_read on this tunnel,  *)
(* so SSL_free is safe" (BambuSource.cpp:509-510), and what it is for: an  *)
(* SSL* that a thread holds on to across its I/O is the tunnel's live one, *)
(* and nobody works on a deleted tunnel.                                   *)
SslFreeSafe ==
    /\ gst.ssl # 0 => gst.ssl = ssl
    /\ wk.ssl # 0 => wk.ssl = ssl
    /\ tun = "deleted" => wk.at = "none" /\ io = "free"

(* Requests and answers stay in step (native_ctrl_send_worker and          *)
(* recv_payload): when the worker is ready for another request, the        *)
(* printer has nothing more to say to the last one, also when frames of    *)
(* the answer came in one read and were thrown away.                       *)
RepliesInStep ==
    wk.at = "wait" /\ sock = "up" => wire = <<>> /\ printer.pend = <<>>

(* The worker waits for an answer that the printer has given already, the  *)
(* end of which recv_payload threw away (tunnel_local.cpp:832).            *)
AnswerLost == wk.at = "read" /\ wire = <<>> /\ printer.pend = <<>>

(* "shutdown(SHUT_RDWR) on the underlying socket so any thread blocked in  *)
(* Bambu_ReadSample returns promptly, then waits for the worker"           *)
(* (STATUS.md:426): Bambu_Close and Bambu_Destroy return.  They need not:  *)
(* stop_ctrl_mode joins the CTRL worker before tunnel_close shuts the      *)
(* socket that the worker is blocked on.                                   *)
CloseReturns == ui # "idle" ~> ui = "idle"

(* What does hold: with a printer that answers (AnsweringSpec), Close and  *)
(* Destroy return, whatever the reader waits for, unless the end of an     *)
(* answer was lost to the worker.                                          *)
CloseReturnsIfAnswered == ui # "idle" ~> ui = "idle" \/ AnswerLost
=============================================================================
