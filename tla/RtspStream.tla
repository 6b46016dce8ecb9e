----------------------------- MODULE RtspStream -----------------------------
(***************************************************************************)
(* An RTSP(S) tunnel of libBambuSource: obn::rtsp::Client                  *)
(* (src/stubs/rtsp_client.cpp) under obn::rtsp::Passthrough                *)
(* (src/stubs/rtsp_passthrough.cpp), opened, read and closed through       *)
(* open_rtsp, read_rtsp and tunnel_close (src/stubs/BambuSource.cpp).      *)
(*                                                                         *)
(* The host's thread runs the handshake inside start(), then polls         *)
(* try_pull and at last calls stop().  A worker thread reads interleaved   *)
(* RTP, puts NAL units together and access units into a bounded queue.  A  *)
(* keepalive thread writes GET_PARAMETER on the same TLS session.          *)
(*                                                                         *)
(* NAL units are numbered in the order the printer makes them; the         *)
(* timestamp of a NAL unit is the number of its access unit.               *)
(***************************************************************************)
EXTENDS Integers, Sequences, Functions

CONSTANTS
    MaxReady,    \* kMaxReadyQueue, 8 in the code
    MaxNals,     \* bound: NAL units the printer sends
    MaxWire      \* bound: messages on their way to the client

ASSUME RtspParameters ==
    {MaxReady, MaxNals, MaxWire} \subseteq Nat \ {0}

VARIABLES
    host,      \* where the host's thread is, and what try_pull last said
    tries,     \* request_with_auth: the 401 retry has been used
    nonce,     \* digest_nonce the client answers with, 0 before a challenge
    sock,      \* "none", "up", "shut", "eof" or "err"
    ssl,       \* BOOLEAN: I.ssl is set
    stops,     \* stop_flag of the Passthrough and of the Client
    naluQ,     \* nalu_queue
    fu,        \* fu_buf: the NAL unit being put together, <<>> when empty
    au,        \* the worker's access unit: open, timestamp, NAL units, IDR
    ready,     \* the queue of samples
    wk, ka,    \* where the worker and the keepalive thread are
    wire,      \* external: messages from the printer
    printer    \* external: nonce, request, NAL units sent

clientVars == <<tries, nonce, sock, ssl, stops>>
dataVars   == <<naluQ, fu, au, ready>>
vars == <<host, clientVars, dataVars, wk, ka, wire, printer>>

Stages == {"OPTIONS", "DESCRIBE", "SETUP", "PLAY"}
NoAu == [open |-> FALSE, ts |-> 0, nals |-> <<>>, idr |-> FALSE]
NextStage == [OPTIONS |-> "DESCRIBE", DESCRIBE |-> "SETUP", SETUP |-> "PLAY"]

Init ==
    /\ host = [at |-> "new", got |-> "none"]
    /\ tries = 0 /\ nonce = 0 /\ sock = "none" /\ ssl = FALSE /\ stops = {}
    /\ naluQ = <<>> /\ fu = <<>> /\ au = NoAu /\ ready = <<>>
    /\ wk = "none" /\ ka = "none" /\ wire = <<>>
    /\ printer = [nonce |-> 1, req |-> "none", cred |-> 0, play |-> FALSE,
                  sent |-> <<>>, open |-> FALSE, part |-> <<>>]

(***************************************************************************)
(* start(): dial, then OPTIONS, DESCRIBE, SETUP and PLAY.                  *)
(***************************************************************************)

(* send_request, with the Authorization of compute_authorization.          *)
SendRequest(stage) == printer' = [printer EXCEPT !.req = stage, !.cred = nonce']

Start ==
    /\ host.at = "new" /\ sock' = "up" /\ ssl' = TRUE
    /\ host' = [host EXCEPT !.at = "OPTIONS"]
    /\ tries' = 0 /\ UNCHANGED <<nonce, stops>> /\ SendRequest("OPTIONS")
    /\ UNCHANGED <<dataVars, wk, ka, wire>>

(* close_tls on the `fail' path of start(); open_rtsp drops the object.    *)
StartFails ==
    /\ host.at \in Stages
    /\ \/ sock # "up"
       \/ wire # <<>> /\ Head(wire).k \in {"refuse", "junk"}
       \/ wire # <<>> /\ Head(wire).k = "challenge" /\ tries = 1
    /\ host' = [host EXCEPT !.at = "failed"] /\ sock' = "none" /\ ssl' = FALSE
    /\ UNCHANGED <<tries, nonce, stops, dataVars, wk, ka, wire, printer>>

(* decode_rtp_h264: the NAL units a packet completes.  Packets of another  *)
(* channel or payload type yield none; a later fragment without its start  *)
(* is dropped; a fragment's mark counts for the whole unit.                *)
DecodeRtp(p) ==
    CASE p.k = "rtp" /\ p.frag = "whole" -> naluQ' = naluQ \o p.nals /\ UNCHANGED fu
      [] p.k = "rtp" /\ p.frag = "start" -> fu' = p.nals /\ UNCHANGED naluQ
      [] p.k = "rtp" /\ p.frag = "end" /\ fu # <<>> ->
            naluQ' = naluQ \o <<[fu[1] EXCEPT !.end = p.nals[1].end]>> /\ fu' = <<>>
      [] OTHER -> UNCHANGED <<naluQ, fu>>

(* await_response: frames ahead of the response are kept.                  *)
AwaitFrame ==
    /\ host.at \in Stages /\ wire # <<>> /\ Head(wire).k \in {"rtp", "rtcp"}
    /\ wire' = Tail(wire) /\ DecodeRtp(Head(wire))
    /\ UNCHANGED <<host, clientVars, au, ready, wk, ka, printer>>

(* adopt_challenge.                                                        *)
AdoptChallenge(m) == nonce' = m.nonce

(* request_with_auth: one retry with the challenge at hand.                *)
AwaitChallenge ==
    /\ host.at \in Stages /\ tries = 0
    /\ wire # <<>> /\ Head(wire).k = "challenge" /\ wire' = Tail(wire)
    /\ AdoptChallenge(Head(wire)) /\ tries' = 1 /\ SendRequest(host.at)
    /\ UNCHANGED <<host, sock, ssl, stops, dataVars, wk, ka>>

(* A 200 whose SDP has no H.264 track, or that names no session.           *)
BadReply ==
    /\ host.at \in {"DESCRIBE", "SETUP"} /\ wire # <<>> /\ Head(wire).k = "ok"
    /\ host' = [host EXCEPT !.at = "failed"] /\ sock' = "none" /\ ssl' = FALSE
    /\ UNCHANGED <<tries, nonce, stops, dataVars, wk, ka, wire, printer>>

(* open_rtsp has its Passthrough: the worker and the keepalive thread run. *)
Streaming == host' = [host EXCEPT !.at = "run"] /\ wk' = "loop" /\ ka' = "wait"

(* 200: the next request; after PLAY the two threads are started.          *)
AwaitOk ==
    /\ host.at \in Stages /\ wire # <<>> /\ Head(wire).k = "ok"
    /\ wire' = Tail(wire) /\ UNCHANGED nonce /\ tries' = 0
    /\ IF host.at = "PLAY"
       THEN Streaming /\ UNCHANGED printer
       ELSE /\ host' = [host EXCEPT !.at = NextStage[@]] /\ UNCHANGED <<wk, ka>>
            /\ SendRequest(NextStage[host.at])
    /\ UNCHANGED <<sock, ssl, stops, dataVars>>

(***************************************************************************)
(* The worker: read_nalu, access units, the ready queue.                   *)
(***************************************************************************)

(* pull_one_message: a frame, or a response nobody waits for.              *)
PullMessage ==
    /\ wk = "read" /\ naluQ = <<>> /\ "client" \notin stops
    /\ wire # <<>> /\ Head(wire).k # "junk" /\ wire' = Tail(wire)
    /\ DecodeRtp(Head(wire))
    /\ UNCHANGED <<host, clientVars, au, ready, wk, ka, printer>>

(* The oldest samples give way while the queue is full.                    *)
Room(q) == IF Len(q) < MaxReady THEN q ELSE SubSeq(q, Len(q) - MaxReady + 2, Len(q))

(* flush_au.                                                               *)
Flush(q, u) ==
    IF ~u.open \/ u.nals = <<>> THEN q
    ELSE Append(Room(q),
                [ts |-> u.ts, nals |-> u.nals, flags |-> IF u.idr THEN "sync" ELSE "none"])

Opened(u, n) == IF u.open THEN u ELSE [NoAu EXCEPT !.open = TRUE, !.ts = n.ts]
With(u, n) == [u EXCEPT !.nals = Append(@, n.id), !.idr = @ \/ n.kind = "idr"]

(* Mutant: only the mark ends an access unit.                              *)
TakeNalu_MarkOnly ==
    /\ wk = "read" /\ naluQ # <<>> /\ naluQ' = Tail(naluQ) /\ wk' = "loop"
    /\ LET n == Head(naluQ)
           u == IF n.kind = "ps" THEN au ELSE With(Opened(au, n), n)
       IN  /\ ready' = IF n.end THEN Flush(ready, u) ELSE ready
           /\ au' = IF n.end THEN NoAu ELSE u
    /\ UNCHANGED <<host, clientVars, fu, ka, wire, printer>>

(* One NAL unit: parameter sets are skipped, a new timestamp ends the      *)
(* access unit, and so does the mark.                                      *)
TakeNalu ==
    /\ wk = "read" /\ naluQ # <<>> /\ naluQ' = Tail(naluQ) /\ wk' = "loop"
    /\ LET n == Head(naluQ)
           newUnit == au.open /\ n.ts # au.ts
           u == With(Opened(IF newUnit THEN NoAu ELSE au, n), n)
           q == IF newUnit THEN Flush(ready, au) ELSE ready
       IN  IF n.kind = "ps" THEN UNCHANGED <<au, ready>>
           ELSE /\ ready' = IF n.end THEN Flush(q, u) ELSE q
                /\ au' = IF n.end THEN NoAu ELSE u
    /\ UNCHANGED <<host, clientVars, fu, ka, wire, printer>>

(* Mutant: the marker is dropped when the queue is full.                   *)
ReadEnds_FullQueue ==
    /\ wk = "read" /\ naluQ = <<>> /\ (sock # "up" \/ (wire # <<>> /\ Head(wire).k = "junk"))
    /\ wk' = "done"
    /\ ready' = IF Len(ready) >= MaxReady THEN ready
                ELSE Append(ready, [ts |-> 0, nals |-> <<>>,
                                    flags |-> IF sock = "eof" \/ "pass" \in stops THEN "eos" ELSE "err"])
    /\ UNCHANGED <<host, clientVars, naluQ, fu, au, ka, wire, printer>>

(* read_nalu fails: end of stream or an error; the marker is queued even   *)
(* on a full queue, and an unfinished access unit is lost.                 *)
ReadEnds ==
    /\ wk = "read" /\ naluQ = <<>> /\ (sock # "up" \/ (wire # <<>> /\ Head(wire).k = "junk"))
    /\ wk' = "done"
    /\ ready' = Append(ready, [ts |-> 0, nals |-> <<>>,
                               flags |-> IF sock = "eof" \/ "pass" \in stops THEN "eos" ELSE "err"])
    /\ UNCHANGED <<host, clientVars, naluQ, fu, au, ka, wire, printer>>

(* The loop condition, before each read_nalu.                              *)
WorkerLoop ==
    /\ wk = "loop" /\ wk' = IF "pass" \in stops THEN "done" ELSE "read"
    /\ UNCHANGED <<host, clientVars, dataVars, ka, wire, printer>>

(***************************************************************************)
(* keepalive_main.                                                         *)
(***************************************************************************)

(* 15 s are over, or the wait was ended by stop().                         *)
KeepaliveWake ==
    /\ ka = "wait"
    /\ ka' = IF "client" \in stops THEN "done" ELSE "write"
    /\ UNCHANGED <<host, clientVars, dataVars, wk, wire, printer>>

(* GET_PARAMETER with the nonce at hand, written under io_mu; the printer  *)
(* answers it, and the worker reads and discards the answer.               *)
KeepaliveWrite ==
    /\ ka = "write"
    /\ IF ~ssl \/ sock # "up" THEN ka' = "done" /\ UNCHANGED wire
       ELSE /\ ka' = "wait"
            /\ wire' = IF Len(wire) >= MaxWire THEN wire
                       ELSE Append(wire, [k |-> IF nonce = printer.nonce THEN "ok" ELSE "challenge",
                                          nonce |-> printer.nonce])
    /\ UNCHANGED <<host, clientVars, dataVars, wk, printer>>

(***************************************************************************)
(* The host: read_rtsp / try_pull, tunnel_close / stop.                    *)
(***************************************************************************)

(* read_rtsp: what the host is told of a sample.                           *)
ReadRtsp(flags) ==
    CASE flags = "eos" -> "stream_end" [] flags = "err" -> "error" [] OTHER -> "success"

TryPull ==
    /\ host.at = "run" /\ ready # <<>>
    /\ ready' = Tail(ready)
    /\ host' = [host EXCEPT !.got = ReadRtsp(Head(ready).flags)]
    /\ UNCHANGED <<clientVars, naluQ, fu, au, wk, ka, wire, printer>>

(* Mutant: the socket is left alone.                                       *)
Stop_NoCancel ==
    /\ host.at = "run" /\ host' = [host EXCEPT !.at = "joinWorker"]
    /\ stops' = stops \cup {"pass"}
    /\ UNCHANGED <<tries, nonce, sock, ssl, dataVars, wk, ka, wire, printer>>

(* Passthrough::stop: the flag, then cancel() shuts the socket down.       *)
Stop ==
    /\ host.at = "run" /\ host' = [host EXCEPT !.at = "joinWorker"]
    /\ stops' = stops \cup {"pass"} /\ sock' = "shut"
    /\ UNCHANGED <<tries, nonce, ssl, dataVars, wk, ka, wire, printer>>

(* The worker has been joined: Client::stop.                               *)
StopClient ==
    /\ host.at = "joinWorker" /\ wk = "done"
    /\ host' = [host EXCEPT !.at = "joinKeepalive"]
    /\ stops' = stops \cup {"client"}
    /\ UNCHANGED <<tries, nonce, sock, ssl, dataVars, wk, ka, wire, printer>>

(* Mutant: close_tls without joining the keepalive thread.                 *)
StopClose_NoJoin ==
    /\ host.at = "joinKeepalive"
    /\ host' = [host EXCEPT !.at = "closed"] /\ ssl' = FALSE /\ sock' = "none"
    /\ UNCHANGED <<tries, nonce, stops, dataVars, wk, ka, wire, printer>>

(* The keepalive thread has been joined: TEARDOWN fails on the shut        *)
(* socket, close_tls frees the session, and the Passthrough is deleted.    *)
StopClose ==
    /\ host.at = "joinKeepalive" /\ ka = "done"
    /\ host' = [host EXCEPT !.at = "closed"] /\ ssl' = FALSE /\ sock' = "none"
    /\ UNCHANGED <<tries, nonce, stops, dataVars, wk, ka, wire, printer>>

(***************************************************************************)
(* The printer (external): live555 on port 322.                            *)
(***************************************************************************)

Send(m) == sock = "up" /\ Len(wire) < MaxWire /\ wire' = Append(wire, m)

(* It accepts a request, refuses it, or challenges the credentials; frames *)
(* may follow an accepted PLAY before its response does.                   *)
PrinterAccepts ==
    /\ sock = "up" /\ printer.req = "PLAY" /\ printer.cred = printer.nonce /\ ~printer.play
    /\ printer' = [printer EXCEPT !.play = TRUE]
    /\ UNCHANGED <<host, clientVars, dataVars, wk, ka, wire>>

PrinterResponds ==
    /\ printer.req # "none" /\ printer' = [printer EXCEPT !.req = "none"]
    /\ \/ /\ printer.req = "PLAY" => printer.play
          /\ printer.req = "OPTIONS" \/ printer.cred = printer.nonce
          /\ Send([k |-> "ok", nonce |-> printer.nonce])
       \/ /\ printer.cred # printer.nonce
          /\ Send([k |-> "challenge", nonce |-> printer.nonce])
       \/ ~printer.play /\ Send([k |-> "refuse", nonce |-> 0])
    /\ UNCHANGED <<host, clientVars, dataVars, wk, ka>>

LastTs == IF printer.sent = <<>> THEN 0 ELSE printer.sent[Len(printer.sent)].ts

(* A NAL unit of the open access unit, or the first of a new one.          *)
NewNal(kind, mark) ==
    [id |-> Len(printer.sent) + 1, kind |-> kind, end |-> mark,
     ts |-> IF printer.open THEN LastTs ELSE LastTs + 1]

(* One RTP packet with a NAL unit: whole, and perhaps the last of its      *)
(* access unit, with or without the mark, or its first fragment.           *)
SendNal(kind, frag, last, mark) ==
    /\ mark => last
    /\ last => frag = "whole"
    /\ Send([k |-> "rtp", frag |-> frag, nals |-> <<NewNal(kind, mark)>>])
    /\ printer' = [printer EXCEPT
         !.sent = Append(@, [ts |-> NewNal(kind, mark).ts, kind |-> kind]),
         !.open = ~last, !.part = IF frag = "start" THEN <<NewNal(kind, mark)>> ELSE <<>>]

PrinterNal ==
    /\ printer.play /\ printer.part = <<>> /\ Len(printer.sent) < MaxNals
    /\ \E kind \in {"idr", "slice", "ps"}, frag \in {"whole", "start"}, last, mark \in BOOLEAN :
          SendNal(kind, frag, last, mark)
    /\ UNCHANGED <<host, clientVars, dataVars, wk, ka>>

(* The fragment that completes a NAL unit.                                 *)
SendRest(last, mark) ==
    /\ mark => last
    /\ Send([k |-> "rtp", frag |-> "end", nals |-> <<[printer.part[1] EXCEPT !.end = mark]>>])
    /\ printer' = [printer EXCEPT !.open = ~last, !.part = <<>>]

PrinterRest ==
    /\ printer.play /\ printer.part # <<>>
    /\ \E last, mark \in BOOLEAN : SendRest(last, mark)
    /\ UNCHANGED <<host, clientVars, dataVars, wk, ka>>

PrinterNoise ==
    /\ printer.play /\ \E k \in {"rtcp", "junk"} : Send([k |-> k])
    /\ UNCHANGED <<host, clientVars, dataVars, wk, ka, printer>>

PrinterEnds ==
    /\ sock = "up" /\ wire = <<>> /\ \E s \in {"eof", "err"} : sock' = s
    /\ UNCHANGED <<host, tries, nonce, ssl, stops, dataVars, wk, ka, wire, printer>>

HandshakeStep == StartFails \/ BadReply \/ AwaitFrame \/ AwaitChallenge \/ AwaitOk
WorkerStep == PullMessage \/ TakeNalu \/ ReadEnds \/ WorkerLoop
KeepaliveStep == KeepaliveWake \/ KeepaliveWrite
StopStep == StopClient \/ StopClose
PrinterStep == PrinterAccepts \/ PrinterResponds \/ PrinterNal \/ PrinterRest
               \/ PrinterNoise \/ PrinterEnds

Next == Start \/ HandshakeStep \/ WorkerStep \/ KeepaliveStep
        \/ TryPull \/ Stop \/ StopStep \/ PrinterStep

Spec == Init /\ [][Next]_vars

(* The host polls try_pull every 33 ms; threads run; stop() is its choice. *)
Fairness == /\ WF_vars(HandshakeStep) /\ WF_vars(WorkerStep)
            /\ WF_vars(KeepaliveWake) /\ WF_vars(KeepaliveWrite)
            /\ WF_vars(StopStep) /\ WF_vars(TryPull)

FairSpec == Spec /\ Fairness

(***************************************************************************)
(* Properties.                                                             *)
(***************************************************************************)

(* The NAL units of an access unit that are handed out.                    *)
Kept(ts) == {n \in 1..Len(printer.sent) : printer.sent[n].ts = ts /\ printer.sent[n].kind # "ps"}

(* What the host gets are the printer's access units, whole, in order and  *)
(* marked "sync" exactly when they hold an IDR slice - whatever fragments, *)
(* missing marks, early frames and keepalive answers came between.  Only   *)
(* parameter sets are left out.                                            *)
WholeUnits ==
    \A i \in 1..Len(ready) : ready[i].flags \in {"sync", "none"} =>
        LET s == ready[i] IN
        /\ \A j \in 1..(i - 1) : ready[j].ts < s.ts
        /\ Range(s.nals) = Kept(s.ts)
        /\ \A a, b \in 1..Len(s.nals) : a < b => s.nals[a] < s.nals[b]
        /\ s.flags = "sync" <=> \E n \in Kept(s.ts) : printer.sent[n].kind = "idr"

(* close_tls comes after both threads that use the session are gone.       *)
ThreadsBeforeClose == ~ssl => wk \in {"none", "done"} /\ ka \in {"none", "done"}

(* A stream that ended, or broke, is reported to a host that keeps         *)
(* polling, also when the queue was full.                                  *)
EndReported == wk = "done" ~> host.got \in {"stream_end", "error"} \/ host.at # "run"

(* stop() returns, whatever the worker and the keepalive thread wait for.  *)
StopReturns == host.at = "joinWorker" ~> host.at = "closed"
=============================================================================
