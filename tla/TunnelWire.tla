----------------------------- MODULE TunnelWire -----------------------------
(***************************************************************************)
(* One BambuTunnelLocal session (TLS :6000) as tunnel_upload.cpp drives it *)
(* on top of tunnel_local.cpp's Session: dial and handshake, then the      *)
(* exchanges ability, chunked upload, download, list and sub_file, one at  *)
(* a time, on a connection that is kept open between them.                 *)
(*                                                                         *)
(* The caller serialises exchanges (FT_Tunnel::lan_mu, module              *)
(* FileTransfer); the concurrency here is with the printer and the byte    *)
(* stream: the printer answers asynchronously, one SSL_read may return     *)
(* several frames, the cancel flag is raised at any moment, and the        *)
(* session may drop.  The printer is external.                             *)
(*                                                                         *)
(* A frame is [cmd, seq, result, part, kb, off]: the JSON envelope fields  *)
(* the client reads, and the number of the payload fragment it carries     *)
(* (0: none, or the mem_dl_param block that is not payload).  Sizes count  *)
(* blocks; wire results are "more" (1), "done" (0), "exist" (19), "fail".  *)
(***************************************************************************)
EXTENDS Integers, Sequences

CONSTANTS
    Cmds,        \* the exchanges the caller makes
    FileSizes,   \* sizes of the local files it uploads
    ChunkSizes,  \* chunk sizes the printer asks for (0: field missing)
    Offsets,     \* resume offsets the printer asks for
    Parts,       \* fragments of a download or sub_file payload
    MaxBurst,    \* frames one SSL_read can complete
    MaxSkips,    \* recv_wire_json's max_skips (32 in the code)
    MaxTries,    \* attempts for a final upload reply (32 in the code)
    MaxAttempts, \* handshake steps allowed by connect (64 in the code)
    Cancellable, \* the exchanges the caller may cancel
    MaxOps,      \* bound: exchanges in one behaviour
    MaxDials     \* bound: connections in one behaviour

AllCmds == {"ability", "upload", "download", "list", "sub"}

ASSUME WireParameters ==
    /\ Cmds \subseteq AllCmds
    /\ FileSizes \subseteq Nat /\ ChunkSizes \subseteq Nat /\ Offsets \subseteq Nat
    /\ Parts \in Nat \ {0}
    /\ {MaxBurst, MaxSkips, MaxTries, MaxAttempts} \subseteq Nat \ {0}
    /\ Cancellable \subseteq {"upload", "download"}
    /\ MaxOps \in Nat /\ MaxDials \in Nat

VARIABLES
    hs,        \* Session::phase_, "closed" when Connection has no SSL*
    attempts,  \* connect's loop counter
    dials,     \* connections made
    alive,     \* the byte stream still works
    toPrinter, \* requests on their way, in order
    toClient,  \* frames the client has not consumed, in order
    lost,      \* history: exchanges with a frame that was read and discarded
    wireSeq,   \* Connection::Impl::wire_seq
    op,        \* the exchange in progress
    cancelled, \* UploadCallbacks / DownloadCallbacks::cancelled
    log,       \* outcomes returned to the caller so far
    prn,       \* the printer's upload in progress
    stored     \* uploads the printer holds complete

inbox == <<toClient, lost>>
wire == <<toPrinter, inbox>>
conn == <<hs, attempts, dials, alive>>
vars == <<conn, wire, wireSeq, op, cancelled, log, prn, stored>>

Idle == [cmd |-> "none", phase |-> "idle", seq |-> 0, size |-> 0,
         kb |-> 0, off |-> 0, frag |-> 0, count |-> 0, data |-> <<>>]

NoUpload == [seq |-> 0, size |-> 0, off |-> 0, frag |-> 0, bad |-> FALSE]

Init ==
    /\ hs = "closed" /\ attempts = 0 /\ dials = 0 /\ alive = FALSE
    /\ toPrinter = <<>> /\ toClient = <<>> /\ lost = {}
    /\ wireSeq = 1
    /\ op = Idle /\ cancelled = FALSE
    /\ log = <<>>
    /\ prn = NoUpload /\ stored = {}

(***************************************************************************)
(* Frames and requests.                                                    *)
(***************************************************************************)
Frame(c, s, r, p) == [cmd |-> c, seq |-> s, result |-> r, part |-> p, kb |-> 0, off |-> 0]

(* The build_*_abi functions: what the printer reads of a request.         *)
Request(c, s) == [req |-> c, seq |-> s, size |-> 0, off |-> 0, frag |-> 0, md5 |-> FALSE]

Send(r) == toPrinter' = Append(toPrinter, r)

(* Session::recv_payload with a positive outcome: one read completes up to *)
(* MaxBurst frames, consume_frames takes every complete frame out of       *)
(* recv_buf_, and only the first is returned.  So recv_buf_ holds at most  *)
(* an incomplete frame between calls (still in toClient here), and the     *)
(* drains before each request find nothing.                                *)
RecvPayload ==
    \E k \in 1..MaxBurst :
        /\ k <= Len(toClient)
        /\ toClient' = SubSeq(toClient, k + 1, Len(toClient))
        /\ lost' = lost \cup {toClient[i].seq : i \in 2..k}

Received == Head(toClient)

(* split_json_prefix: the payload behind the JSON of a frame, if any.      *)
Fragment(f) == IF f.part > 0 THEN <<<<f.seq, f.part>>>> ELSE <<>>

(* The exchange is over: what the caller gets.                             *)
Return(ok, why, data) ==
    /\ log' = Append(log, [cmd |-> op.cmd, seq |-> op.seq, ok |-> ok,
                           why |-> why, data |-> data])
    /\ op' = Idle
    /\ cancelled' = FALSE

(***************************************************************************)
(* Connection::connect and Session::handshake_step.                        *)
(***************************************************************************)

(* dial_tls: the CA or the serial is missing, nobody answers, the          *)
(* handshake fails or the certificate is another printer's; or a session.  *)
DialTls == {"closed", "NotStarted"}

(* connect has disconnected what was there before.                         *)
Dial ==
    /\ hs = "closed" /\ dials < MaxDials
    /\ hs' \in DialTls /\ alive' = (hs' # "closed")
    /\ attempts' = 0 /\ dials' = dials + 1
    /\ toPrinter' = <<>> /\ toClient' = <<>>
    /\ prn' = NoUpload
    /\ UNCHANGED <<lost, wireSeq, op, cancelled, log, stored>>

(* connect makes at most MaxAttempts handshake steps.                      *)
HandshakeStep(from, to) ==
    /\ hs = from /\ attempts < MaxAttempts
    /\ hs' = to /\ attempts' = attempts + 1
    /\ UNCHANGED <<dials, alive, wireSeq, op, cancelled, log, prn, stored>>

SendLogin ==
    /\ HandshakeStep("NotStarted", "LoginSent")
    /\ Send(Request("login", 0))
    /\ UNCHANGED inbox

(* The login ack must be the first frame of the buffer; everything already *)
(* buffered is consumed with it.                                           *)
LoginAck ==
    /\ HandshakeStep("LoginSent", "SetupSent")
    /\ RecvPayload /\ Received.cmd = "login"
    /\ Send(Request("setup", 0))

SetupAck ==
    /\ HandshakeStep("SetupSent", "Ready")
    /\ RecvPayload /\ Received.cmd = "setup" /\ Received.result = "done"
    /\ UNCHANGED toPrinter

(* A step that reads nothing it can use: the 3 s socket timeout, or a      *)
(* setup reply that refuses.                                               *)
HandshakeIdle ==
    /\ \E p \in {"LoginSent", "SetupSent"} : HandshakeStep(p, p)
    /\ \/ UNCHANGED inbox
       \/ hs = "SetupSent" /\ RecvPayload /\ Received.result = "fail"
    /\ UNCHANGED toPrinter

(* Out of attempts, or a read or write failed: disconnect.                 *)
HandshakeFailed ==
    /\ hs \in {"NotStarted", "LoginSent", "SetupSent"}
    /\ attempts = MaxAttempts \/ ~alive
    /\ hs' = "closed"
    /\ toPrinter' = <<>> /\ toClient' = <<>> /\ alive' = FALSE
    /\ UNCHANGED <<attempts, dials, lost, wireSeq, op, cancelled, log, prn, stored>>

(* Connection::disconnect between exchanges.                               *)
Disconnect ==
    /\ hs = "Ready" /\ op = Idle
    /\ hs' = "closed"
    /\ toPrinter' = <<>> /\ toClient' = <<>> /\ alive' = FALSE
    /\ UNCHANGED <<attempts, dials, lost, wireSeq, op, cancelled, log, prn, stored>>

(***************************************************************************)
(* Exchanges.                                                              *)
(***************************************************************************)

(* Take a sequence number and send the request.                            *)
Begin(c, first, request) ==
    /\ hs = "Ready" /\ op = Idle /\ c \in Cmds /\ wireSeq <= MaxOps
    /\ wireSeq' = wireSeq + 1
    /\ op' = [Idle EXCEPT !.cmd = c, !.phase = first, !.seq = wireSeq,
                          !.size = request.size]
    /\ Send(request)
    /\ UNCHANGED <<conn, inbox, cancelled, log, prn, stored>>

BeginAbility  == Begin("ability", "ability", Request("ability", wireSeq))
BeginDownload == Begin("download", "download", Request("download", wireSeq))
BeginList     == Begin("list", "list", Request("list", wireSeq))
BeginSub      == Begin("sub", "sub", Request("sub", wireSeq))
BeginUpload   == \E n \in FileSizes :
                    Begin("upload", "init", [Request("init", wireSeq) EXCEPT !.size = n])

(* Missing fields or an unreadable local file: nothing is sent.            *)
UploadLocalError ==
    /\ hs = "Ready" /\ op = Idle /\ "upload" \in Cmds /\ wireSeq <= MaxOps
    /\ wireSeq' = wireSeq + 1
    /\ log' = Append(log, [cmd |-> "upload", seq |-> wireSeq, ok |-> FALSE,
                           why |-> "local", data |-> <<>>])
    /\ UNCHANGED <<conn, wire, op, cancelled, prn, stored>>

(* Mutant: an I/O error is retried like a timeout.                         *)
IoError_Retried ==
    /\ op # Idle /\ ~alive
    /\ UNCHANGED vars

(* A read or a write fails: the exchange fails and the SSL* stays, but it  *)
(* delivers nothing any more.                                              *)
IoError ==
    /\ op # Idle /\ ~alive
    /\ Return(FALSE, "io", <<>>)
    /\ toClient' = <<>>
    /\ UNCHANGED <<conn, toPrinter, lost, wireSeq, prn, stored>>

(* parse_ability_reply_to_ft_json: result 0 and a list of storages.        *)
AbilityParses(f) == f.cmd = "ability" /\ f.result = "done"

(* query_media_ability takes the next frame for its reply.                 *)
RecvAbility ==
    /\ op.phase = "ability" /\ RecvPayload
    /\ IF AbilityParses(Received)
         THEN Return(TRUE, "ok", <<>>)
         ELSE Return(FALSE, "bad reply", <<>>)
    /\ UNCHANGED <<conn, toPrinter, wireSeq, prn, stored>>

(* Mutant: take any reply, as run_download does.                           *)
Matches_Any(f) == TRUE

(* recv_wire_json: accept the frame of this cmdtype and sequence, skip any *)
(* other, up to max_skips.                                                 *)
Matches(f) == f.cmd = op.cmd /\ f.seq = op.seq

SkipStale ==
    /\ op.phase \in {"init", "final", "list"} /\ RecvPayload /\ ~Matches(Received)
    /\ IF op.count + 1 < MaxSkips
         THEN /\ op' = [op EXCEPT !.count = @ + 1]
              /\ UNCHANGED <<cancelled, log>>
         ELSE Return(FALSE, "skips", <<>>)
    /\ UNCHANGED <<conn, toPrinter, wireSeq, prn, stored>>

RecvList ==
    /\ op.phase = "list" /\ RecvPayload /\ Matches(Received)
    /\ IF Received.result = "done" THEN Return(TRUE, "ok", <<>>) ELSE Return(FALSE, "wire", <<>>)
    /\ UNCHANGED <<conn, toPrinter, wireSeq, prn, stored>>

(* run_sub_file skips foreign frames without limit.                        *)
RecvSub ==
    /\ op.phase = "sub" /\ RecvPayload
    /\ IF ~Matches(Received) THEN UNCHANGED <<op, cancelled, log>>
       ELSE LET data == IF Fragment(Received) # <<>> THEN Fragment(Received) ELSE op.data
            IN CASE Received.result = "more" -> /\ op' = [op EXCEPT !.data = data]
                                             /\ UNCHANGED <<cancelled, log>>
                 [] Received.result # "more" /\ data # <<>> -> Return(TRUE, "ok", data)
                 [] OTHER -> Return(FALSE, "wire", <<>>)
    /\ UNCHANGED <<conn, toPrinter, wireSeq, prn, stored>>

(* Mutant: the mem_dl_param block is appended like a fragment.             *)
RecvDownload_AppendsParams ==
    /\ op.phase = "download" /\ ~cancelled /\ RecvPayload
    /\ LET data == Append(op.data, <<Received.seq, Received.part>>)
       IN CASE Received.result = "more" -> /\ op' = [op EXCEPT !.data = data]
                                           /\ UNCHANGED <<cancelled, log>>
            [] Received.result = "done" -> Return(TRUE, "ok", data)
            [] OTHER -> Return(FALSE, "wire", <<>>)
    /\ UNCHANGED <<conn, toPrinter, wireSeq, prn, stored>>

(* run_download appends the fragment of whatever frame comes next.         *)
RecvDownload ==
    /\ op.phase = "download" /\ ~cancelled /\ RecvPayload
    /\ LET data == op.data \o Fragment(Received)
       IN CASE Received.result = "more" -> /\ op' = [op EXCEPT !.data = data]
                                        /\ UNCHANGED <<cancelled, log>>
            [] Received.result = "done" -> Return(TRUE, "ok", data)
            [] OTHER -> Return(FALSE, "wire", <<>>)
    /\ UNCHANGED <<conn, toPrinter, wireSeq, prn, stored>>

(* The loops poll the flag before a frame is awaited or a chunk is sent.   *)
CancelSeen ==
    /\ op.phase \in {"download", "chunks"} /\ cancelled
    /\ op.phase = "chunks" => op.off < op.size
    /\ Return(FALSE, "cancelled", <<>>)
    /\ UNCHANGED <<conn, wire, wireSeq, prn, stored>>

(* parse_upload_init_reply: "continue" or "exists", with a chunk size.     *)
InitAccepted(f) == f.result \in {"more", "exist"} /\ f.kb # 0

(* After the reply, the resume prefix is hashed, which fails when the      *)
(* printer's offset lies beyond the file.                                  *)
RecvUploadInit ==
    /\ op.phase = "init" /\ RecvPayload /\ Matches(Received)
    /\ CASE ~InitAccepted(Received) -> Return(FALSE, "refused", <<>>)
         [] InitAccepted(Received) /\ Received.off > op.size -> Return(FALSE, "local", <<>>)
         [] OTHER -> /\ op' = [op EXCEPT !.phase = "chunks", !.kb = Received.kb,
                                         !.off = Received.off, !.count = 0]
                     /\ UNCHANGED <<cancelled, log>>
    /\ UNCHANGED <<conn, toPrinter, wireSeq, prn, stored>>

(* One chunk: min(remaining, chunk_size) blocks, file_md5 on the last.     *)
ChunkLen == IF op.size - op.off < op.kb THEN op.size - op.off ELSE op.kb

(* Mutant: last_chunk compares with > instead of >=.                       *)
ChunkRequest_LateMd5 ==
    [req |-> "chunk", seq |-> op.seq, size |-> ChunkLen, off |-> op.off,
     frag |-> op.frag, md5 |-> op.off + ChunkLen > op.size]

(* build_file_upload_chunk_abi.                                            *)
ChunkRequest ==
    [req |-> "chunk", seq |-> op.seq, size |-> ChunkLen, off |-> op.off,
     frag |-> op.frag, md5 |-> op.off + ChunkLen >= op.size]

(* send_abi_json_with_binary_stream, told not to read after it: header,    *)
(* JSON and chunk leave as one frame.                                      *)
SendWithBinary(request) == Send(request) /\ UNCHANGED inbox

SendChunk ==
    /\ op.phase = "chunks" /\ op.off < op.size /\ ~cancelled
    /\ SendWithBinary(ChunkRequest)
    /\ op' = [op EXCEPT !.off = @ + ChunkLen, !.frag = @ + 1]
    /\ UNCHANGED <<conn, wireSeq, cancelled, log, prn, stored>>

AwaitFinal ==
    /\ op.phase = "chunks" /\ op.off >= op.size
    /\ op' = [op EXCEPT !.phase = "final", !.kb = 0]
    /\ UNCHANGED <<conn, wire, wireSeq, cancelled, log, prn, stored>>

(* Mutant: a progress reply ends the upload as a success.                  *)
RecvUploadFinal_ProgressIsDone ==
    /\ op.phase = "final" /\ RecvPayload /\ Matches(Received)
    /\ IF Received.result \in {"done", "exist", "more"}
         THEN Return(TRUE, "ok", <<>>) ELSE Return(FALSE, "refused", <<>>)
    /\ UNCHANGED <<conn, toPrinter, wireSeq, prn, stored>>

(* "more" is progress and starts another recv_wire_json, MaxTries in all;  *)
(* op.kb counts them once the chunk size is no longer needed.              *)
RecvUploadFinal ==
    /\ op.phase = "final" /\ RecvPayload /\ Matches(Received)
    /\ CASE Received.result \in {"done", "exist"} -> Return(TRUE, "ok", <<>>)
         [] Received.result = "more" /\ op.kb + 1 < MaxTries ->
                /\ op' = [op EXCEPT !.kb = @ + 1, !.count = 0]
                /\ UNCHANGED <<cancelled, log>>
         [] OTHER -> Return(FALSE, "refused", <<>>)
    /\ UNCHANGED <<conn, toPrinter, wireSeq, prn, stored>>

(* Another thread raises the flag of the job that owns the exchange.       *)
Cancel ==
    /\ op.cmd \in Cancellable /\ ~cancelled
    /\ cancelled' = TRUE
    /\ UNCHANGED <<conn, wire, wireSeq, op, log, prn, stored>>

(***************************************************************************)
(* External: the printer and the network.                                  *)
(***************************************************************************)
Drop ==
    /\ alive /\ alive' = FALSE
    /\ UNCHANGED <<hs, attempts, dials, wire, wireSeq, op, cancelled, log, prn, stored>>

(* The printer answers requests in order, each completely.                 *)
Reply(frames) ==
    /\ toPrinter' = Tail(toPrinter)
    /\ toClient' = toClient \o frames

(* Payload replies: a parameter block, then the fragments, the last one    *)
(* with result "done".                                                     *)
Payload(c, s) ==
    [i \in 1..(Parts + 1) |-> Frame(c, s, IF i = Parts + 1 THEN "done" ELSE "more", i - 1)]

PrinterServe(r) ==
    \/ /\ r.req \in {"login", "setup", "ability", "list"}
       /\ Reply(<<Frame(r.req, r.seq, "done", 0)>>)
       /\ UNCHANGED <<prn, stored>>
    \/ /\ r.req # "chunk" /\ r.req # "login" /\ r.req # "init"
       /\ Reply(<<Frame(r.req, r.seq, "fail", 0)>>)
       /\ UNCHANGED <<prn, stored>>
    \/ /\ r.req \in {"download", "sub"}
       /\ Reply(Payload(r.req, r.seq))
       /\ UNCHANGED <<prn, stored>>
    \/ /\ r.req = "init"
       /\ \E res \in {"more", "exist", "fail"}, kb \in ChunkSizes, off \in Offsets :
            /\ Reply(<<[Frame("upload", r.seq, res, 0) EXCEPT !.kb = kb, !.off = off]>>)
            /\ prn' = [seq |-> r.seq, size |-> r.size, off |-> off, frag |-> 0, bad |-> FALSE]
       /\ UNCHANGED stored
    \/ /\ r.req = "chunk"
       /\ LET off  == prn.off + r.size
              bad  == prn.bad \/ r.seq # prn.seq \/ r.off # prn.off \/ r.frag # prn.frag
                      \/ r.size = 0 \/ off > prn.size \/ r.md5 # (off = prn.size)
          IN /\ prn' = [prn EXCEPT !.off = off, !.frag = @ + 1, !.bad = bad]
             /\ IF ~r.md5 THEN Reply(<<>>) /\ UNCHANGED stored
                ELSE \E verdict \in {"done", "fail"}, progress \in {0, 1} :
                        /\ verdict = "done" => ~bad
                        /\ stored' = IF verdict = "done" THEN stored \cup {r.seq} ELSE stored
                        /\ Reply([i \in 1..(progress + 1) |->
                               Frame("upload", r.seq, IF i <= progress THEN "more" ELSE verdict, 0)])

PrinterStep ==
    /\ alive /\ toPrinter # <<>>
    /\ PrinterServe(Head(toPrinter))
    /\ UNCHANGED <<conn, lost, wireSeq, op, cancelled, log>>

(***************************************************************************)
(* The specification.                                                      *)
(***************************************************************************)
Handshake == SendLogin \/ LoginAck \/ SetupAck \/ HandshakeIdle \/ HandshakeFailed

ClientStep ==
    \/ IoError \/ RecvAbility \/ SkipStale \/ RecvList \/ RecvSub \/ RecvDownload
    \/ CancelSeen \/ RecvUploadInit \/ SendChunk \/ AwaitFinal \/ RecvUploadFinal

Start == BeginAbility \/ BeginDownload \/ BeginList \/ BeginSub \/ BeginUpload
         \/ UploadLocalError

Next == Dial \/ Handshake \/ Disconnect \/ Start \/ ClientStep \/ Cancel
        \/ Drop \/ PrinterStep

Spec == Init /\ [][Next]_vars

(* The plugin's thread runs; a live printer keeps answering.  Without the  *)
(* latter no exchange need end: the socket timeouts (3 s, 120 s) make      *)
(* recv_payload return 1, and every receive loop then reads again, which   *)
(* is a stuttering step here.                                              *)
FairSpec == Spec /\ WF_vars(Handshake) /\ WF_vars(ClientStep) /\ WF_vars(PrinterStep)

(***************************************************************************)
(* Properties.                                                             *)
(***************************************************************************)
(* What an upload puts on the wire tiles the file: the printer meets every *)
(* fragment once, in order, from the offset it asked for to the end, with  *)
(* file_md5 on the last one only - also after cancelled uploads.           *)
ChunksTile == ~prn.bad

(* upload reports success only for a file the printer holds complete, and  *)
(* never on the strength of another exchange's reply.                      *)
UploadStored == \A i \in 1..Len(log) : log[i].cmd = "upload" /\ log[i].ok => log[i].seq \in stored

(* A successful download returns exactly the fragments of its own file,    *)
(* unless one of its frames came in the same read as another and was       *)
(* discarded, or frames of a cancelled download were still on their way.   *)
DownloadIntact ==
    \A i \in 1..Len(log) :
        /\ log[i].cmd = "download" /\ log[i].ok /\ log[i].seq \notin lost
        /\ \A k \in 1..(i - 1) : log[k].cmd = "download" => log[k].ok
        => log[i].data = [p \in 1..Parts |-> <<log[i].seq, p>>]

(* A sub_file exchange returns an image of its own request.                *)
SubFileOwn ==
    \A i \in 1..Len(log) : log[i].cmd = "sub" /\ log[i].ok
        => \A p \in 1..Len(log[i].data) : log[i].data[p][1] = log[i].seq

(* Every exchange ends while the printer answers: with its reply, or       *)
(* because the session dropped or the caller cancelled.  Two can hang: one *)
(* whose reply was discarded, and an upload with nothing left to send,     *)
(* which the printer does not answer.                                      *)
ExchangeEnds ==
    op # Idle ~> \/ op = Idle
                 \/ op.seq \in lost
                 \/ op.phase = "final" /\ op.frag = 0
=============================================================================
