--------------------------- MODULE TunnelWireProofs ---------------------------
(***************************************************************************)
(* Proofs about TunnelWire: for every file size, chunk size, resume        *)
(* offset, number of fragments, burst and number of exchanges, uploads     *)
(* tile the file and are believed only when the printer has stored them,   *)
(* and sub_file and download return the fragments of their own request.    *)
(***************************************************************************)
EXTENDS TunnelWire, SequenceTheorems, TLAPS

(***************************************************************************)
(* Types.                                                                  *)
(***************************************************************************)

Requests == {"login", "setup", "ability", "list", "download", "sub", "init", "chunk"}
Results  == {"more", "done", "exist", "fail"}
Phases   == {"idle", "ability", "download", "list", "sub", "init", "chunks", "final"}
Why      == {"ok", "local", "io", "bad reply", "skips", "wire", "cancelled", "refused"}

RequestType == [req : Requests, seq : Nat, size : Nat, off : Nat, frag : Nat, md5 : BOOLEAN]
FrameType   == [cmd : AllCmds \cup {"login", "setup"}, seq : Nat, result : Results,
                part : Nat, kb : Nat, off : Nat]
Data        == Seq(Nat \X Nat)
OpType      == [cmd : AllCmds \cup {"none"}, phase : Phases, seq : Nat, size : Nat,
                kb : Nat, off : Nat, frag : Nat, count : Nat, data : Data]
PrnType     == [seq : Nat, size : Nat, off : Nat, frag : Nat, bad : BOOLEAN]
EntryType   == [cmd : AllCmds \cup {"none"}, seq : Nat, ok : BOOLEAN, why : Why, data : Data]

TypeOK ==
    /\ hs \in {"closed", "NotStarted", "LoginSent", "SetupSent", "Ready"}
    /\ alive \in BOOLEAN /\ cancelled \in BOOLEAN /\ wireSeq \in Nat
    /\ toPrinter \in Seq(RequestType) /\ toClient \in Seq(FrameType)
    /\ op \in OpType /\ log \in Seq(EntryType) /\ prn \in PrnType

(***************************************************************************)
(* The inductive invariant, first part: uploads.                           *)
(***************************************************************************)

Uploading == {"init", "chunks", "final"}
CmdOf(phase) == IF phase \in Uploading THEN "upload" ELSE IF phase = "idle" THEN "none" ELSE phase

(* Sequence numbers are used once, and only on a ready session.            *)
Numbered ==
    /\ wireSeq >= 1
    /\ op.cmd = CmdOf(op.phase)
    /\ op.phase = "idle" => op = Idle
    /\ op.phase # "idle" => op.seq = wireSeq - 1 /\ op.seq >= 1 /\ hs = "Ready"
    /\ \A i \in 1..Len(toPrinter) : toPrinter[i].seq < wireSeq
    /\ \A i \in 1..Len(toClient) : toClient[i].seq < wireSeq

(* Chunks on their way are at the front, and continue what the printer has *)
(* one after the other, up to the end of the file.                         *)
GoodChunk(r) ==
    /\ r.seq = prn.seq /\ r.size > 0 /\ r.off + r.size <= prn.size
    /\ r.md5 <=> r.off + r.size = prn.size
Follows(r, off, frag) == r.req = "chunk" => GoodChunk(r) /\ r.off = off /\ r.frag = frag
ChunksInLine ==
    /\ Len(toPrinter) > 0 => Follows(toPrinter[1], prn.off, prn.frag)
    /\ \A i, j \in 1..Len(toPrinter) :
          i < j /\ toPrinter[j].req = "chunk" => toPrinter[i].req = "chunk"
    /\ \A i \in 1..(Len(toPrinter) - 1) :
          Follows(toPrinter[i + 1], toPrinter[i].off + toPrinter[i].size,
                  toPrinter[i].frag + 1)

(* While an upload runs nothing else is in the queue, and its next chunk   *)
(* follows the last one there.                                             *)
Last == toPrinter[Len(toPrinter)]
Sending ==
    /\ op.phase \in {"chunks", "final"} =>
          /\ \A i \in 1..Len(toPrinter) : toPrinter[i].req = "chunk"
          /\ \A i \in 1..Len(toClient) : toClient[i].result # "exist"
    /\ op.phase = "chunks" =>
          /\ prn.seq = op.seq /\ prn.size = op.size /\ op.kb # 0 /\ op.off <= op.size
          /\ Len(toPrinter) = 0 => op.off = prn.off /\ op.frag = prn.frag
          /\ Len(toPrinter) > 0 => op.off = Last.off + Last.size /\ op.frag = Last.frag + 1

(* The upload request is the last in the queue, or has been answered with  *)
(* one frame, the last there, unless that was lost.                        *)
Asked ==
    op.phase = "init" => op.frag = 0 /\
        \/ /\ Len(toPrinter) > 0
           /\ Last.req = "init" /\ Last.seq = op.seq /\ Last.size = op.size
           /\ \A i \in 1..(Len(toPrinter) - 1) : toPrinter[i].seq # op.seq
           /\ \A i \in 1..Len(toClient) : toClient[i].seq # op.seq
        \/ /\ Len(toPrinter) = 0
           /\ prn.seq = op.seq /\ prn.size = op.size /\ prn.frag = 0
           /\ \A i \in 1..Len(toClient) :
                 toClient[i].seq = op.seq => i = Len(toClient) /\ toClient[i].off = prn.off

(* Final replies of uploads are the truth.                                 *)
Verdicts ==
    \A i \in 1..Len(toClient) :
        toClient[i].cmd = "upload" /\ toClient[i].result = "done" => toClient[i].seq \in stored

(* What a sub_file exchange has put together so far.                       *)
OwnImage ==
    op.phase = "sub" => \A p \in 1..Len(op.data) : op.data[p][1] = op.seq

IInv ==
    /\ TypeOK /\ Numbered /\ ChunksInLine /\ Sending /\ Asked /\ Verdicts /\ OwnImage
    /\ ChunksTile /\ UploadStored /\ SubFileOwn

(***************************************************************************)
(* The inductive invariant, second part: as long as every download has     *)
(* ended well, each exchange meets only its own reply.                     *)
(***************************************************************************)

DownloadsOk == \A k \in 1..Len(log) : log[k].cmd = "download" => log[k].ok

(* Requests that the printer does not answer.                              *)
Mute(r) == r.req = "chunk" /\ ~r.md5
Muted(n) == \A i \in 1..n : Mute(toPrinter[i])

(* During the handshake one request at a time.                             *)
Greeting ==
    /\ hs \in {"closed", "NotStarted"} => Len(toPrinter) = 0 /\ Len(toClient) = 0
    /\ hs \in {"LoginSent", "SetupSent"} =>
          /\ Len(toPrinter) + Len(toClient) <= 1
          /\ \A i \in 1..Len(toPrinter) : toPrinter[i].req \in {"login", "setup"}

(* Between exchanges.                                                      *)
Calm == op.phase = "idle" /\ hs = "Ready" =>
            Len(toClient) = 0 /\ (alive => Muted(Len(toPrinter)))

(* The request has not been answered yet, or the reply is all there is:    *)
(* its frames say "more", the last one does not.                           *)
Unanswered ==
    /\ Len(toClient) = 0
    /\ alive => /\ Len(toPrinter) > 0 /\ Muted(Len(toPrinter) - 1)
                /\ Last.req = op.phase /\ Last.seq = op.seq
Answered ==
    /\ alive => Len(toPrinter) = 0
    /\ \A i \in 1..Len(toClient) :
          /\ toClient[i].cmd = op.cmd /\ toClient[i].seq = op.seq
          /\ i < Len(toClient) <=> toClient[i].result = "more"
Exchanging ==
    /\ op.phase \in {"ability", "list", "sub", "download"} => Unanswered \/ Answered
    /\ op.phase \in {"ability", "list"} => Len(toClient) <= 1
    /\ op.phase = "init" =>
          \/ Unanswered
          \/ /\ Len(toPrinter) = 0 /\ Len(toClient) <= 1
             /\ Len(toClient) = 1 => toClient[1].cmd = "upload" /\ toClient[1].seq = op.seq

(* Only the last chunk is answered: with a verdict, and possibly one sign  *)
(* of progress before it.                                                  *)
Closing ==
    op.phase \in {"chunks", "final"} =>
        /\ \A i \in 1..Len(toPrinter) :
              toPrinter[i].seq = op.seq /\ toPrinter[i].off + toPrinter[i].size <= op.off
        /\ Len(toPrinter) > 0 \/ (op.phase = "chunks" /\ op.off < op.size) =>
              Len(toClient) = 0 /\ (op.phase = "final" => op.kb = 0)
        /\ Len(toClient) <= 2 /\ (op.phase = "final" /\ Len(toClient) = 2 => op.kb = 0)
        /\ \A i \in 1..Len(toClient) :
              /\ toClient[i].cmd = "upload" /\ toClient[i].seq = op.seq
              /\ i < Len(toClient) <=> toClient[i].result = "more"

(* What a download has, and what is still to come.                         *)
Assembling ==
    op.phase = "download" /\ op.seq \notin lost =>
        \/ Unanswered /\ op.data = <<>>
        \/ Len(toClient) = 1 /\ toClient[1].result = "fail"
        \/ /\ Len(toClient) \in 1..(Parts + 1)
           /\ \A i \in 1..Len(toClient) :
                 /\ toClient[i].part = Parts - Len(toClient) + i
                 /\ toClient[i].result \in {"more", "done"}
           /\ Len(op.data) = IF Len(toClient) > Parts THEN 0 ELSE Parts - Len(toClient)
           /\ \A p \in 1..Len(op.data) : op.data[p] = <<op.seq, p>>

Orderly == Calm /\ Exchanging /\ Closing /\ Assembling
TInv == Greeting /\ (DownloadsOk => Orderly) /\ DownloadIntact

(***************************************************************************)
(* Sequences.                                                              *)
(***************************************************************************)

(* What taking the head and adding an element do to a sequence.            *)
LEMMA Ends ==
    ASSUME NEW S, NEW q \in Seq(S)
    PROVE  /\ Len(q) \in Nat /\ (q = <<>> <=> Len(q) = 0)
           /\ \A i \in 1..Len(q) : q[i] \in S
           /\ q # <<>> => /\ Len(q) > 0 /\ Head(q) = q[1] /\ Head(q) \in S
                         /\ Tail(q) \in Seq(S) /\ Len(Tail(q)) = Len(q) - 1
                         /\ \A i \in 1..(Len(q) - 1) : Tail(q)[i] = q[i + 1]
           /\ \A e \in S : /\ Append(q, e) \in Seq(S)
                          /\ Len(Append(q, e)) = Len(q) + 1
                          /\ Append(q, e)[Len(q) + 1] = e
                          /\ \A i \in 1..Len(q) : Append(q, e)[i] = q[i]
<1>1. ASSUME q # <<>>
      PROVE  /\ Len(q) > 0 /\ Head(q) = q[1] /\ Head(q) \in S
             /\ Tail(q) \in Seq(S) /\ Len(Tail(q)) = Len(q) - 1
             /\ \A i \in 1..(Len(q) - 1) : Tail(q)[i] = q[i + 1]
  BY <1>1, HeadTailProperties, EmptySeq
<1>2. ASSUME NEW e \in S
      PROVE  /\ Append(q, e) \in Seq(S)
             /\ Len(Append(q, e)) = Len(q) + 1
             /\ Append(q, e)[Len(q) + 1] = e
             /\ \A i \in 1..Len(q) : Append(q, e)[i] = q[i]
  BY <1>2, AppendProperties
<1>3. Len(q) \in Nat /\ (q = <<>> <=> Len(q) = 0)
  BY EmptySeq, LenProperties
<1>4. \A i \in 1..Len(q) : q[i] \in S
  BY ElementOfSeq
<1> QED  BY <1>1, <1>2, <1>3, <1>4

(* What a read that completes k frames leaves of the stream.               *)
LEMMA Rest ==
    ASSUME NEW S, NEW q \in Seq(S), NEW k \in 1..Len(q)
    PROVE  /\ SubSeq(q, k + 1, Len(q)) \in Seq(S)
           /\ Len(SubSeq(q, k + 1, Len(q))) = Len(q) - k
           /\ \A i \in 1..(Len(q) - k) : SubSeq(q, k + 1, Len(q))[i] = q[k + i]
<1>1. Len(q) \in Nat  BY LenProperties
<1>2. CASE k = Len(q)
  BY <1>1, <1>2, SubSeqProperties
<1>3. CASE k # Len(q)
  BY <1>1, <1>3, SubSeqProperties
<1> QED  BY <1>2, <1>3

(* What a reply adds to the stream.                                        *)
LEMMA Joined ==
    ASSUME NEW S, NEW q \in Seq(S), NEW t \in Seq(S)
    PROVE  /\ q \o t \in Seq(S) /\ Len(q \o t) = Len(q) + Len(t)
           /\ \A i \in 1..(Len(q) + Len(t)) :
                 (q \o t)[i] = IF i <= Len(q) THEN q[i] ELSE t[i - Len(q)]
  BY ConcatProperties

(***************************************************************************)
(* What the steps do to the stream, the log and the printer.               *)
(***************************************************************************)

(* Some frames at the front of the stream are gone.                        *)
Skips(k) ==
    /\ toClient' \in Seq(FrameType)
    /\ k \in 0..Len(toClient) /\ Len(toClient') = Len(toClient) - k
    /\ \A i \in 1..Len(toClient') : toClient'[i] = toClient[k + i]

(* recv_payload returns the first frame and takes k from the stream.       *)
LEMMA ReadSome ==
    ASSUME TypeOK, RecvPayload
    PROVE  \E k \in 1..Len(toClient) :
              /\ Skips(k) /\ Len(toClient) > 0
              /\ Received = toClient[1] /\ Received \in FrameType
              /\ lost' = lost \cup {toClient[i].seq : i \in 2..k}
<1>1. PICK k \in 1..MaxBurst :
        /\ k <= Len(toClient)
        /\ toClient' = SubSeq(toClient, k + 1, Len(toClient))
        /\ lost' = lost \cup {toClient[i].seq : i \in 2..k}
  BY DEF RecvPayload
<1>2. toClient \in Seq(FrameType) /\ Len(toClient) \in Nat  BY Ends DEF TypeOK
<1>3. k \in 1..Len(toClient)  BY <1>1, <1>2, WireParameters
<1>4. Len(toClient) > 0 /\ toClient # <<>>  BY <1>2, <1>3, Ends
<1>5. Received = toClient[1] /\ Received \in FrameType  BY <1>2, <1>4, Ends DEF Received
<1>6. Skips(k)  BY <1>1, <1>2, <1>3, Rest DEF Skips
<1> QED  BY <1>1, <1>3, <1>4, <1>5, <1>6

(* The exchange is over, and the log has its outcome.                      *)
LEMMA Returned ==
    ASSUME TypeOK, NEW ok \in BOOLEAN, NEW why \in Why, NEW data \in Data,
           Return(ok, why, data)
    PROVE  \E e \in EntryType :
              /\ log' = Append(log, e) /\ e.cmd = op.cmd /\ e.seq = op.seq
              /\ e.ok = ok /\ e.data = data
              /\ op' = Idle /\ cancelled' = FALSE
<1> DEFINE e == [cmd |-> op.cmd, seq |-> op.seq, ok |-> ok, why |-> why, data |-> data]
<1>1. op.cmd \in AllCmds \cup {"none"} /\ op.seq \in Nat  BY DEF TypeOK, OpType
<1>2. e \in EntryType  BY <1>1 DEF EntryType
<1>3. log' = Append(log, e) /\ op' = Idle /\ cancelled' = FALSE  BY DEF Return
<1> QED  BY <1>2, <1>3

(* What the printer makes of a request, and of a chunk in particular.      *)
Adopts(r) ==
    /\ r.req = "chunk" =>
          /\ prn'.seq = prn.seq /\ prn'.size = prn.size
          /\ prn'.off = prn.off + r.size /\ prn'.frag = prn.frag + 1
          /\ prn'.bad => \/ prn.bad \/ r.seq # prn.seq \/ r.off # prn.off \/ r.frag # prn.frag
                         \/ r.size = 0 \/ prn.off + r.size > prn.size
                         \/ r.md5 # (prn.off + r.size = prn.size)
    /\ r.req = "init" => /\ prn'.seq = r.seq /\ prn'.size = r.size
                         /\ prn'.frag = 0 /\ ~prn'.bad
    /\ r.req \notin {"init", "chunk"} => prn' = prn
    /\ prn' \in PrnType /\ stored \subseteq stored'

(* The frames it answers with: a reply ends with a frame that does not say *)
(* "more", and only the last chunk of an upload is answered.               *)
Replies(r, fs) ==
    /\ fs \in Seq(FrameType)
    /\ toPrinter' = Tail(toPrinter) /\ toClient' = toClient \o fs
    /\ \A i \in 1..Len(fs) :
          /\ fs[i].seq = r.seq
          /\ fs[i].cmd = IF r.req \in {"init", "chunk"} THEN "upload" ELSE r.req
          /\ fs[i].cmd = "upload" /\ fs[i].result = "done" => r.seq \in stored'
          /\ r.req = "init" => fs[i].off = prn'.off
          /\ r.req = "chunk" => fs[i].result # "exist"
          /\ r.req # "init" => (i < Len(fs) <=> fs[i].result = "more")
    /\ r.req \notin {"download", "sub", "chunk"} => Len(fs) = 1
    /\ r.req = "chunk" => Len(fs) <= 2 /\ (Len(fs) = 0 <=> ~r.md5)
    /\ r.req \in {"download", "sub"} => Len(fs) > 0
    /\ r.req = "download" =>
          \/ Len(fs) = 1 /\ fs[1].result = "fail"
          \/ /\ Len(fs) = Parts + 1
             /\ \A i \in 1..Len(fs) : fs[i].part = i - 1 /\ fs[i].result \in {"more", "done"}

(* A sequence of one frame.                                                *)
LEMMA OneFrame ==
    ASSUME NEW f \in FrameType
    PROVE  <<f>> \in Seq(FrameType) /\ Len(<<f>>) = 1 /\ <<f>>[1] = f
  OBVIOUS

(* The fields of the frames a printer sends.                               *)
LEMMA FrameFields ==
    ASSUME NEW c \in AllCmds \cup {"login", "setup"}, NEW q \in Nat, NEW r \in Results, NEW n \in Nat
    PROVE  /\ Frame(c, q, r, n) \in FrameType
           /\ Frame(c, q, r, n).cmd = c /\ Frame(c, q, r, n).seq = q
           /\ Frame(c, q, r, n).result = r /\ Frame(c, q, r, n).part = n
  BY DEF Frame, FrameType

(* PrinterServe, the whole of it.                                          *)
LEMMA Serves ==
    ASSUME TypeOK, NEW r \in RequestType, PrinterServe(r)
    PROVE  Adopts(r) /\ \E fs \in Seq(FrameType) : Replies(r, fs)
<1>0. /\ r.req \in Requests /\ r.seq \in Nat /\ r.size \in Nat /\ r.md5 \in BOOLEAN
      /\ prn \in PrnType
  BY DEF RequestType, TypeOK
<1>1. CASE r.req \in {"login", "setup", "ability", "list"}
           /\ Reply(<<Frame(r.req, r.seq, "done", 0)>>) /\ UNCHANGED <<prn, stored>>
  <2> DEFINE f == Frame(r.req, r.seq, "done", 0)
  <2>1. f \in FrameType /\ f.cmd = r.req /\ f.seq = r.seq /\ f.result = "done"
    <3>1. r.req \in AllCmds \cup {"login", "setup"} /\ "done" \in Results /\ 0 \in Nat
      BY <1>0, <1>1 DEF AllCmds, Results, Requests
    <3> QED  BY <1>0, <3>1, FrameFields
  <2>2. toPrinter' = Tail(toPrinter) /\ toClient' = toClient \o <<f>>  BY <1>1 DEF Reply
  <2> HIDE DEF f
  <2>3. Replies(r, <<f>>)  BY <1>1, <2>1, <2>2, OneFrame DEF Replies
  <2>4. Adopts(r)  BY <1>0, <1>1 DEF Adopts
  <2> QED  BY <2>1, <2>3, <2>4, OneFrame
<1>2. CASE r.req # "chunk" /\ r.req # "login" /\ r.req # "init"
           /\ Reply(<<Frame(r.req, r.seq, "fail", 0)>>) /\ UNCHANGED <<prn, stored>>
  <2> DEFINE f == Frame(r.req, r.seq, "fail", 0)
  <2>1. f \in FrameType /\ f.cmd = r.req /\ f.seq = r.seq /\ f.result = "fail"
    <3>1. r.req \in AllCmds \cup {"login", "setup"} /\ "fail" \in Results /\ 0 \in Nat
      BY <1>0, <1>2 DEF AllCmds, Results, Requests
    <3> QED  BY <1>0, <3>1 DEF Frame, FrameType
  <2>2. toPrinter' = Tail(toPrinter) /\ toClient' = toClient \o <<f>>  BY <1>2 DEF Reply
  <2> HIDE DEF f
  <2>3. Replies(r, <<f>>)  BY <1>2, <2>1, <2>2, OneFrame DEF Replies
  <2>4. Adopts(r)  BY <1>0, <1>2 DEF Adopts
  <2> QED  BY <2>1, <2>3, <2>4, OneFrame
<1>3. CASE r.req \in {"download", "sub"} /\ Reply(Payload(r.req, r.seq)) /\ UNCHANGED <<prn, stored>>
  <2> DEFINE fs == Payload(r.req, r.seq)
  <2>1. Parts \in Nat /\ Parts >= 1  BY WireParameters
  <2>2. ASSUME NEW i \in 1..(Parts + 1)
        PROVE  /\ fs[i] \in FrameType /\ fs[i].cmd = r.req /\ fs[i].seq = r.seq
               /\ fs[i].part = i - 1
               /\ fs[i].result = IF i = Parts + 1 THEN "done" ELSE "more"
    <3>1. fs[i] = Frame(r.req, r.seq, IF i = Parts + 1 THEN "done" ELSE "more", i - 1)
      BY <2>2 DEF Payload
    <3>2. i - 1 \in Nat  BY <2>1, <2>2
    <3>3. (IF i = Parts + 1 THEN "done" ELSE "more") \in Results  BY DEF Results
    <3> HIDE DEF fs
    <3> QED  BY <1>0, <1>3, <3>1, <3>2, <3>3, FrameFields DEF AllCmds
  <2>3. fs \in Seq(FrameType) /\ Len(fs) = Parts + 1
    <3>1. fs \in [1..(Parts + 1) -> FrameType]  BY <2>2 DEF Payload
    <3> HIDE DEF fs
    <3> QED  BY <2>1, <3>1
  <2>4. toPrinter' = Tail(toPrinter) /\ toClient' = toClient \o fs  BY <1>3 DEF Reply
  <2> HIDE DEF fs
  <2>5. \A i \in 1..Len(fs) : i < Len(fs) <=> fs[i].result = "more"
    <3> TAKE i \in 1..Len(fs)
    <3>1. i \in 1..(Parts + 1)  BY <2>3
    <3>2. i < Len(fs) <=> i # Parts + 1  BY <2>1, <2>3, <3>1
    <3> QED  BY <2>2, <3>1, <3>2
  <2>6. \A i \in 1..Len(fs) : fs[i].part = i - 1 /\ fs[i].result \in {"more", "done"}
    BY <2>2, <2>3
  <2>7. Len(fs) > 0  BY <2>1, <2>3
  <2>8. Replies(r, fs)  BY <1>3, <2>2, <2>3, <2>4, <2>5, <2>6, <2>7 DEF Replies
  <2>9. Adopts(r)  BY <1>0, <1>3 DEF Adopts
  <2> QED  BY <2>3, <2>8, <2>9
<1>4. CASE r.req = "init" /\ UNCHANGED stored /\
           \E res \in {"more", "exist", "fail"}, kb \in ChunkSizes, off \in Offsets :
            /\ Reply(<<[Frame("upload", r.seq, res, 0) EXCEPT !.kb = kb, !.off = off]>>)
            /\ prn' = [seq |-> r.seq, size |-> r.size, off |-> off, frag |-> 0, bad |-> FALSE]
  <2>1. PICK res \in {"more", "exist", "fail"}, kb \in ChunkSizes, off \in Offsets :
            /\ Reply(<<[Frame("upload", r.seq, res, 0) EXCEPT !.kb = kb, !.off = off]>>)
            /\ prn' = [seq |-> r.seq, size |-> r.size, off |-> off, frag |-> 0, bad |-> FALSE]
    BY <1>4
  <2> DEFINE f == [Frame("upload", r.seq, res, 0) EXCEPT !.kb = kb, !.off = off]
  <2>2. kb \in Nat /\ off \in Nat  BY WireParameters
  <2>3. f \in FrameType /\ f.cmd = "upload" /\ f.seq = r.seq /\ f.result # "done" /\ f.off = off
    BY <1>0, <2>1, <2>2 DEF Frame, FrameType, AllCmds, Results
  <2>4. toPrinter' = Tail(toPrinter) /\ toClient' = toClient \o <<f>>  BY <2>1 DEF Reply
  <2> HIDE DEF f
  <2>5. prn' \in PrnType /\ prn'.off = off /\ prn'.seq = r.seq /\ prn'.size = r.size
        /\ prn'.frag = 0 /\ ~prn'.bad
    BY <1>0, <2>1, <2>2 DEF PrnType
  <2>6. Replies(r, <<f>>)  BY <1>4, <2>3, <2>4, <2>5, OneFrame DEF Replies
  <2>7. Adopts(r)  BY <1>4, <2>5 DEF Adopts
  <2> QED  BY <2>3, <2>6, <2>7, OneFrame
<1>5. CASE r.req = "chunk" /\ \E off \in {prn.off + r.size} :
           LET bad  == prn.bad \/ r.seq # prn.seq \/ r.off # prn.off \/ r.frag # prn.frag
                      \/ r.size = 0 \/ off > prn.size \/ r.md5 # (off = prn.size)
           IN /\ prn' = [prn EXCEPT !.off = off, !.frag = @ + 1, !.bad = bad]
              /\ IF ~r.md5 THEN Reply(<<>>) /\ UNCHANGED stored
                 ELSE \E verdict \in {"done", "fail"}, progress \in {0, 1} :
                        /\ verdict = "done" => ~bad
                        /\ stored' = IF verdict = "done" THEN stored \cup {r.seq} ELSE stored
                        /\ Reply([i \in 1..(progress + 1) |->
                               Frame("upload", r.seq, IF i <= progress THEN "more" ELSE verdict, 0)])
  <2> DEFINE bad == prn.bad \/ r.seq # prn.seq \/ r.off # prn.off \/ r.frag # prn.frag
                      \/ r.size = 0 \/ prn.off + r.size > prn.size
                      \/ r.md5 # (prn.off + r.size = prn.size)
  <2>1. /\ prn' = [prn EXCEPT !.off = prn.off + r.size, !.frag = prn.frag + 1, !.bad = bad]
        /\ IF ~r.md5 THEN Reply(<<>>) /\ UNCHANGED stored
           ELSE \E verdict \in {"done", "fail"}, progress \in {0, 1} :
                        /\ stored' = IF verdict = "done" THEN stored \cup {r.seq} ELSE stored
                        /\ Reply([i \in 1..(progress + 1) |->
                               Frame("upload", r.seq, IF i <= progress THEN "more" ELSE verdict, 0)])
    BY <1>5
  <2>2. /\ prn'.seq = prn.seq /\ prn'.size = prn.size /\ prn'.off = prn.off + r.size
        /\ prn'.frag = prn.frag + 1 /\ prn'.bad = bad /\ prn' \in PrnType
    <3>1. bad \in BOOLEAN  OBVIOUS
    <3>2. prn' = [prn EXCEPT !.off = prn.off + r.size, !.frag = prn.frag + 1, !.bad = bad]  BY <2>1
    <3> HIDE DEF bad
    <3>3. prn.off + r.size \in Nat /\ prn.frag + 1 \in Nat /\ prn \in PrnType  BY <1>0 DEF PrnType
    <3> DEFINE o == prn.off + r.size
               g == prn.frag + 1
    <3> HIDE DEF o, g
    <3>4. prn' = [prn EXCEPT !.off = o, !.frag = g, !.bad = bad]  BY <3>2 DEF o, g
    <3>5. o \in Nat /\ g \in Nat  BY <3>3 DEF o, g
    <3>6. /\ prn' \in PrnType /\ prn'.seq = prn.seq /\ prn'.size = prn.size
          /\ prn'.off = o /\ prn'.frag = g /\ prn'.bad = bad
      BY <1>0, <3>1, <3>4, <3>5 DEF PrnType
    <3> QED  BY <3>6 DEF o, g
  <2>3. CASE ~r.md5
    <3>1. <<>> \in Seq(FrameType) /\ Len(<<>>) = 0  BY EmptySeq
    <3>2. Replies(r, <<>>)  BY <1>5, <2>1, <2>3, <3>1 DEF Reply, Replies
    <3>3. Adopts(r)  BY <1>5, <2>1, <2>2, <2>3 DEF Adopts
    <3> QED  BY <3>1, <3>2, <3>3
  <2>4. CASE r.md5
    <3>1. PICK verdict \in {"done", "fail"}, progress \in {0, 1} :
             /\ stored' = IF verdict = "done" THEN stored \cup {r.seq} ELSE stored
             /\ Reply([i \in 1..(progress + 1) |->
                     Frame("upload", r.seq, IF i <= progress THEN "more" ELSE verdict, 0)])
      BY <2>1, <2>4
    <3> DEFINE fs == [i \in 1..(progress + 1) |->
                     Frame("upload", r.seq, IF i <= progress THEN "more" ELSE verdict, 0)]
    <3>2. ASSUME NEW i \in 1..(progress + 1)
          PROVE  /\ fs[i] \in FrameType /\ fs[i].cmd = "upload" /\ fs[i].seq = r.seq
                 /\ fs[i].result = IF i <= progress THEN "more" ELSE verdict
      <4>1. fs[i] = Frame("upload", r.seq, IF i <= progress THEN "more" ELSE verdict, 0)
        BY <3>2
      <4>2. (IF i <= progress THEN "more" ELSE verdict) \in Results  BY DEF Results
      <4> HIDE DEF fs
      <4> QED  BY <1>0, <4>1, <4>2, FrameFields DEF AllCmds
    <3>3. fs \in Seq(FrameType) /\ Len(fs) = progress + 1
      <4>1. fs \in [1..(progress + 1) -> FrameType]  BY <3>2
      <4>2. progress + 1 \in Nat  OBVIOUS
      <4> HIDE DEF fs
      <4> QED  BY <4>1, <4>2
    <3>4. toPrinter' = Tail(toPrinter) /\ toClient' = toClient \o fs  BY <3>1 DEF Reply
    <3> HIDE DEF fs
    <3>5. \A i \in 1..Len(fs) : /\ i < Len(fs) <=> fs[i].result = "more"
                                /\ fs[i].result # "exist"
                                /\ fs[i].result = "done" => r.seq \in stored'
      <4> TAKE i \in 1..Len(fs)
      <4>1. i \in 1..(progress + 1)  BY <3>3
      <4>2. i < Len(fs) <=> i <= progress  BY <3>3, <4>1
      <4> QED  BY <3>1, <3>2, <4>1, <4>2
    <3>6. Len(fs) <= 2 /\ Len(fs) # 0  BY <3>3
    <3>7. \A i \in 1..Len(fs) : fs[i].seq = r.seq /\ fs[i].cmd = "upload"  BY <3>2, <3>3
    <3>8. Replies(r, fs)  BY <1>5, <2>4, <3>3, <3>4, <3>5, <3>6, <3>7 DEF Replies
    <3>9. stored \subseteq stored'  BY <3>1
    <3>10. Adopts(r)  BY <1>5, <2>2, <3>9 DEF Adopts
    <3> QED  BY <3>3, <3>8, <3>10
  <2> QED  BY <1>0, <2>3, <2>4
<1> QED  BY <1>1, <1>2, <1>3, <1>4, <1>5 DEF PrinterServe

(***************************************************************************)
(* The first part of the invariant is kept by every step.                  *)
(***************************************************************************)

(* A request that is no chunk may follow anything.                         *)
LEMMA AppendRequest ==
    ASSUME TypeOK, ChunksInLine, NEW r \in RequestType, r.req # "chunk",
           toPrinter' = Append(toPrinter, r), prn' = prn
    PROVE  /\ ChunksInLine' /\ toPrinter' \in Seq(RequestType)
           /\ Len(toPrinter') = Len(toPrinter) + 1 /\ Last' = r
           /\ \A i \in 1..Len(toPrinter) : toPrinter'[i] = toPrinter[i]
<1>1. /\ toPrinter \in Seq(RequestType) /\ Len(toPrinter) \in Nat
      /\ toPrinter' \in Seq(RequestType) /\ Len(toPrinter') = Len(toPrinter) + 1
      /\ toPrinter'[Len(toPrinter) + 1] = r
      /\ \A i \in 1..Len(toPrinter) : toPrinter'[i] = toPrinter[i]
  BY Ends DEF TypeOK
<1>2. Follows(toPrinter'[1], prn.off, prn.frag)
  <2>1. CASE Len(toPrinter) = 0
    <3>1. toPrinter'[1] = r  BY <1>1, <2>1
    <3> QED  BY <3>1 DEF Follows
  <2>2. CASE Len(toPrinter) > 0
    <3>1. toPrinter'[1] = toPrinter[1]  BY <1>1, <2>2
    <3>2. Follows(toPrinter[1], prn.off, prn.frag)  BY <2>2 DEF ChunksInLine
    <3> QED  BY <3>1, <3>2 DEF Follows, GoodChunk
  <2> QED  BY <1>1, <2>1, <2>2
<1>3. ASSUME NEW i \in 1..(Len(toPrinter') - 1)
      PROVE  Follows(toPrinter'[i + 1], toPrinter'[i].off + toPrinter'[i].size,
                     toPrinter'[i].frag + 1)
  <2>1. CASE i = Len(toPrinter)
    <3>1. toPrinter'[i + 1] = r  BY <1>1, <2>1
    <3> QED  BY <3>1 DEF Follows
  <2>2. CASE i # Len(toPrinter)
    <3>1. i \in 1..(Len(toPrinter) - 1) /\ i \in 1..Len(toPrinter) /\ i + 1 \in 1..Len(toPrinter)
      BY <1>1, <1>3, <2>2
    <3>2. toPrinter'[i] = toPrinter[i] /\ toPrinter'[i + 1] = toPrinter[i + 1]  BY <1>1, <3>1
    <3>3. Follows(toPrinter[i + 1], toPrinter[i].off + toPrinter[i].size, toPrinter[i].frag + 1)
      BY <3>1 DEF ChunksInLine
    <3> QED  BY <3>2, <3>3 DEF Follows, GoodChunk
  <2> QED  BY <2>1, <2>2
<1>0. ASSUME NEW i \in 1..Len(toPrinter'), NEW j \in 1..Len(toPrinter'),
             i < j, toPrinter'[j].req = "chunk"
      PROVE  toPrinter'[i].req = "chunk"
  <2>1. j # Len(toPrinter) + 1  BY <1>0, <1>1
  <2>2. i \in 1..Len(toPrinter) /\ j \in 1..Len(toPrinter)  BY <1>0, <1>1, <2>1
  <2> QED  BY <1>0, <1>1, <2>2 DEF ChunksInLine
<1>4. ChunksInLine'  BY <1>0, <1>2, <1>3 DEF ChunksInLine, Follows, GoodChunk
<1>5. Last' = r  BY <1>1 DEF Last
<1> QED  BY <1>1, <1>4, <1>5

(* Dropping frames at the front keeps what is known of all of them.        *)
LEMMA SkipFacts ==
    ASSUME TypeOK, Numbered, Verdicts, NEW k, Skips(k), stored' = stored, wireSeq' = wireSeq
    PROVE  /\ Verdicts'
           /\ \A i \in 1..Len(toClient') : toClient'[i].seq < wireSeq
           /\ \A i \in 1..Len(toClient') : \E j \in 1..Len(toClient) :
                 toClient'[i] = toClient[j] /\ (j = Len(toClient) => i = Len(toClient'))
<1>1. Len(toClient) \in Nat /\ Len(toClient') \in Nat  BY Ends DEF TypeOK, Skips
<1>2. ASSUME NEW i \in 1..Len(toClient')
      PROVE  /\ k + i \in 1..Len(toClient) /\ toClient'[i] = toClient[k + i]
             /\ k + i = Len(toClient) <=> i = Len(toClient')
  BY <1>1, <1>2 DEF Skips
<1>3. \A i \in 1..Len(toClient') : toClient'[i].seq < wireSeq  BY <1>2 DEF Numbered
<1>4. Verdicts'  BY <1>2 DEF Verdicts
<1> QED  BY <1>2, <1>3, <1>4

(* An exchange that ends keeps the invariant, if what it reports is true.  *)
LEMMA Ended ==
    ASSUME IInv, NEW k, Skips(k), NEW e \in EntryType,
           UNCHANGED <<hs, alive, toPrinter, wireSeq, prn, stored>>,
           op' = Idle, log' = Append(log, e), cancelled' = FALSE,
           e.cmd = "upload" /\ e.ok => e.seq \in stored,
           e.cmd = "sub" /\ e.ok => \A p \in 1..Len(e.data) : e.data[p][1] = e.seq
    PROVE  IInv'
<1>0. /\ hs' = hs /\ toPrinter' = toPrinter /\ wireSeq' = wireSeq /\ prn' = prn
      /\ stored' = stored
  OBVIOUS
<1>1. /\ TypeOK /\ Numbered /\ ChunksInLine /\ Verdicts
      /\ ChunksTile /\ UploadStored /\ SubFileOwn
  BY DEF IInv
<1>2. /\ Verdicts' /\ \A i \in 1..Len(toClient') : toClient'[i].seq < wireSeq
  BY <1>0, <1>1, SkipFacts
<1>3. Idle \in OpType /\ Idle.phase = "idle" /\ Idle.cmd = "none" /\ Idle.seq = 0
  <2>1. <<>> \in Data  BY EmptySeq DEF Data
  <2> QED  BY <2>1 DEF Idle, OpType, AllCmds, Phases
<1>4. /\ log' \in Seq(EntryType) /\ Len(log) \in Nat /\ Len(log') = Len(log) + 1
      /\ log'[Len(log) + 1] = e /\ \A i \in 1..Len(log) : log'[i] = log[i]
  BY <1>1, Ends DEF TypeOK
<1>5. TypeOK'  BY <1>1, <1>3, <1>4 DEF TypeOK, Skips
<1>6. Numbered'  BY <1>1, <1>2, <1>3 DEF Numbered, CmdOf, Uploading
<1>7. ChunksInLine' /\ ChunksTile'  BY <1>1 DEF ChunksInLine, ChunksTile, Follows, GoodChunk
<1>8. Sending' /\ Asked' /\ OwnImage'  BY <1>3 DEF Sending, Asked, OwnImage
<1>9. UploadStored' /\ SubFileOwn'
  <2>1. ASSUME NEW i \in 1..Len(log') PROVE i \in 1..Len(log) \/ log'[i] = e
    BY <1>4, <2>1
  <2>2. UploadStored'  BY <1>1, <1>4, <2>1 DEF UploadStored
  <2>3. SubFileOwn'  BY <1>1, <1>4, <2>1 DEF SubFileOwn
  <2> QED  BY <2>2, <2>3
<1> QED  BY <1>2, <1>5, <1>6, <1>7, <1>8, <1>9 DEF IInv

(* A step that reads frames, or none, and stays in its phase.              *)
LEMMA Continued ==
    ASSUME IInv, NEW k, Skips(k), UNCHANGED <<hs, toPrinter, wireSeq, prn, stored, log>>,
           alive' \in BOOLEAN, cancelled' \in BOOLEAN, op' \in OpType,
           op'.cmd = op.cmd, op'.phase = op.phase, op'.seq = op.seq, op'.size = op.size,
           op'.off = op.off, op'.frag = op.frag,
           op.phase = "idle" => op' = op,
           op.phase = "chunks" => op'.kb = op.kb,
           OwnImage'
    PROVE  IInv'
<1>0. /\ hs' = hs /\ toPrinter' = toPrinter /\ wireSeq' = wireSeq /\ prn' = prn
      /\ stored' = stored
  OBVIOUS
<1>1. /\ TypeOK /\ Numbered /\ ChunksInLine /\ Verdicts /\ Sending /\ Asked
      /\ ChunksTile /\ UploadStored /\ SubFileOwn
  BY DEF IInv
<1>2. /\ Verdicts'
      /\ \A i \in 1..Len(toClient') : toClient'[i].seq < wireSeq
      /\ \A i \in 1..Len(toClient') : \E j \in 1..Len(toClient) :
            toClient'[i] = toClient[j] /\ (j = Len(toClient) => i = Len(toClient'))
  BY <1>0, <1>1, SkipFacts
<1>3. TypeOK'  BY <1>1 DEF TypeOK, Skips
<1>4. Numbered'
  <2>1. op'.phase = "idle" => op' = Idle  BY <1>1 DEF Numbered
  <2>2. \A i \in 1..Len(toPrinter') : toPrinter'[i].seq < wireSeq'
    BY <1>0, <1>1 DEF Numbered
  <2>3. op'.cmd = CmdOf(op'.phase)  BY <1>1 DEF Numbered
  <2>4. op'.phase # "idle" => op'.seq = wireSeq' - 1 /\ op'.seq >= 1 /\ hs' = "Ready"
    BY <1>0, <1>1 DEF Numbered
  <2>5. wireSeq' >= 1  BY <1>0, <1>1 DEF Numbered
  <2> QED  BY <1>0, <1>2, <2>1, <2>2, <2>3, <2>4, <2>5 DEF Numbered
<1>5. ChunksInLine' /\ ChunksTile'  BY <1>1 DEF ChunksInLine, ChunksTile, Follows, GoodChunk
<1>6. Sending'
  <2>1. op'.phase \in {"chunks", "final"} =>
          /\ \A i \in 1..Len(toPrinter') : toPrinter'[i].req = "chunk"
          /\ \A i \in 1..Len(toClient') : toClient'[i].result # "exist"
    BY <1>0, <1>1, <1>2 DEF Sending
  <2>2. op'.phase = "chunks" =>
          /\ prn'.seq = op'.seq /\ prn'.size = op'.size /\ op'.kb # 0 /\ op'.off <= op'.size
          /\ Len(toPrinter') = 0 => op'.off = prn'.off /\ op'.frag = prn'.frag
          /\ Len(toPrinter') > 0 => op'.off = Last'.off + Last'.size /\ op'.frag = Last'.frag + 1
    BY <1>1 DEF Sending, Last
  <2> QED  BY <2>1, <2>2 DEF Sending
<1>7. Asked'
  <2>1. SUFFICES ASSUME op.phase = "init" PROVE Asked'  BY DEF Asked
  <2>2. CASE /\ Len(toPrinter) > 0
             /\ Last.req = "init" /\ Last.seq = op.seq /\ Last.size = op.size
             /\ \A i \in 1..(Len(toPrinter) - 1) : toPrinter[i].seq # op.seq
             /\ \A i \in 1..Len(toClient) : toClient[i].seq # op.seq
    <3>1. \A i \in 1..Len(toClient') : toClient'[i].seq # op'.seq  BY <1>2, <2>2
    <3>2. Last' = Last  BY <1>0 DEF Last
    <3> QED  BY <1>0, <1>1, <2>1, <2>2, <3>1, <3>2 DEF Asked
  <2>3. CASE /\ Len(toPrinter) = 0
             /\ prn.seq = op.seq /\ prn.size = op.size /\ prn.frag = 0
             /\ \A i \in 1..Len(toClient) :
                   toClient[i].seq = op.seq => i = Len(toClient) /\ toClient[i].off = prn.off
    <3>1. \A i \in 1..Len(toClient') : toClient'[i].seq = op'.seq =>
                i = Len(toClient') /\ toClient'[i].off = prn'.off
      BY <1>0, <1>2, <2>3
    <3> QED  BY <1>0, <1>1, <2>1, <2>3, <3>1 DEF Asked
  <2> QED  BY <1>1, <2>1, <2>2, <2>3 DEF Asked
<1>8. UploadStored' /\ SubFileOwn'  BY <1>1 DEF UploadStored, SubFileOwn
<1> QED  BY <1>2, <1>3, <1>4, <1>5, <1>6, <1>7, <1>8 DEF IInv

(* Between exchanges only the connection changes.                          *)
LEMMA Idles ==
    ASSUME IInv, op.phase = "idle", UNCHANGED <<wireSeq, op, cancelled, log, stored>>,
           hs' \in {"closed", "NotStarted", "LoginSent", "SetupSent", "Ready"},
           alive' \in BOOLEAN, prn' \in PrnType, ~prn'.bad,
           toClient' \in Seq(FrameType), Verdicts',
           \A i \in 1..Len(toClient') : toClient'[i].seq < wireSeq,
           toPrinter' \in Seq(RequestType), ChunksInLine',
           \A i \in 1..Len(toPrinter') : toPrinter'[i].seq < wireSeq
    PROVE  IInv'
<1>0. wireSeq' = wireSeq /\ op' = op /\ cancelled' = cancelled /\ log' = log /\ stored' = stored
  OBVIOUS
<1>1. TypeOK'  BY <1>0 DEF IInv, TypeOK
<1>2. Numbered'  BY <1>0 DEF IInv, Numbered, CmdOf
<1>3. Sending' /\ Asked' /\ OwnImage'  BY <1>0 DEF Sending, Asked, OwnImage
<1>4. ChunksTile' /\ UploadStored' /\ SubFileOwn'
  BY <1>0 DEF IInv, ChunksTile, UploadStored, SubFileOwn
<1> QED  BY <1>1, <1>2, <1>3, <1>4 DEF IInv

(* An empty queue is in line.                                              *)
LEMMA EmptyQueue ==
    ASSUME toPrinter' = <<>>
    PROVE  /\ toPrinter' \in Seq(RequestType) /\ Len(toPrinter') = 0 /\ ChunksInLine'
<1>1. toPrinter' \in Seq(RequestType) /\ Len(toPrinter') = 0  BY EmptySeq
<1> QED  BY <1>1 DEF ChunksInLine

(* A connection that is made or closed leaves no frame to be received.     *)
LEMMA EmptyStream ==
    ASSUME toClient' = <<>>
    PROVE  /\ toClient' \in Seq(FrameType) /\ Len(toClient') = 0 /\ Verdicts'
<1>1. toClient' \in Seq(FrameType) /\ Len(toClient') = 0  BY EmptySeq
<1> QED  BY <1>1 DEF Verdicts

(* dial_tls, handshake_step, disconnect.                                   *)
LEMMA ConnectSteps ==
    ASSUME IInv, Dial \/ Handshake \/ Disconnect
    PROVE  IInv'
<1>0. /\ TypeOK /\ Numbered /\ ChunksInLine /\ Verdicts /\ ChunksTile /\ prn \in PrnType
      /\ alive \in BOOLEAN
  BY DEF IInv, TypeOK
<1>1. hs # "Ready" \/ op = Idle => op.phase = "idle"
  BY <1>0 DEF Numbered, Idle
<1>2. ASSUME NEW c \in {"login", "setup"}
      PROVE  /\ Request(c, 0) \in RequestType /\ Request(c, 0).req # "chunk"
             /\ Request(c, 0).seq = 0
  BY <1>2 DEF Request, RequestType, Requests
<1>3. NoUpload \in PrnType /\ ~NoUpload.bad  BY DEF NoUpload, PrnType
<1>4. 0 < wireSeq /\ wireSeq \in Nat  BY <1>0 DEF TypeOK, Numbered
<1>5. ASSUME toClient' = <<>>, toPrinter' = <<>>, op.phase = "idle",
             UNCHANGED <<wireSeq, op, cancelled, log, stored>>,
             hs' \in {"closed", "NotStarted"}, alive' \in BOOLEAN,
             prn' \in {prn, NoUpload}
      PROVE  IInv'
  <2>1. prn' \in PrnType /\ ~prn'.bad  BY <1>0, <1>3, <1>5 DEF ChunksTile
  <2>2. toPrinter' \in Seq(RequestType) /\ Len(toPrinter') = 0 /\ ChunksInLine'
    BY <1>5, EmptyQueue
  <2>3. toClient' \in Seq(FrameType) /\ Len(toClient') = 0 /\ Verdicts'
    BY <1>5, EmptyStream
  <2> QED  BY <1>5, <2>1, <2>2, <2>3, Idles
<1>6. CASE Dial
  BY <1>1, <1>5, <1>6 DEF Dial, DialTls
<1>7. CASE HandshakeFailed
  BY <1>1, <1>5, <1>7 DEF HandshakeFailed
<1>8. CASE Disconnect
  BY <1>1, <1>5, <1>8 DEF Disconnect
<1>9. ASSUME NEW k, Skips(k), op.phase = "idle", alive' = alive,
             hs' \in {"LoginSent", "SetupSent", "Ready"},
             UNCHANGED <<wireSeq, op, cancelled, log, prn, stored>>,
             toPrinter' = toPrinter \/ \E c \in {"login", "setup"} :
                                            toPrinter' = Append(toPrinter, Request(c, 0))
      PROVE  IInv'
  <2>1. /\ Verdicts' /\ toClient' \in Seq(FrameType)
        /\ \A i \in 1..Len(toClient') : toClient'[i].seq < wireSeq
    <3>1. stored' = stored /\ wireSeq' = wireSeq  BY <1>9
    <3> QED  BY <1>0, <1>9, <3>1, SkipFacts DEF Skips
  <2>2. /\ toPrinter' \in Seq(RequestType) /\ ChunksInLine'
        /\ \A i \in 1..Len(toPrinter') : toPrinter'[i].seq < wireSeq
    <3>1. CASE toPrinter' = toPrinter
      BY <1>0, <1>9, <3>1 DEF TypeOK, Numbered, ChunksInLine, Follows, GoodChunk
    <3>2. CASE \E c \in {"login", "setup"} : toPrinter' = Append(toPrinter, Request(c, 0))
      <4>1. PICK c \in {"login", "setup"} : toPrinter' = Append(toPrinter, Request(c, 0))
        BY <3>2
      <4>2. Request(c, 0) \in RequestType /\ Request(c, 0).req # "chunk" /\ Request(c, 0).seq = 0
        BY <1>2
      <4>3. prn' = prn  BY <1>9
      <4>4. /\ ChunksInLine' /\ toPrinter' \in Seq(RequestType)
            /\ Len(toPrinter') = Len(toPrinter) + 1 /\ Last' = Request(c, 0)
            /\ \A i \in 1..Len(toPrinter) : toPrinter'[i] = toPrinter[i]
        BY <1>0, <4>1, <4>2, <4>3, AppendRequest
      <4>5. Len(toPrinter) \in Nat  BY <1>0, Ends DEF TypeOK
      <4>6. ASSUME NEW i \in 1..Len(toPrinter') PROVE toPrinter'[i].seq < wireSeq
        <5>1. CASE i \in 1..Len(toPrinter)  BY <1>0, <4>4, <5>1 DEF Numbered
        <5>2. CASE i = Len(toPrinter')
          BY <1>4, <4>2, <4>4, <5>2 DEF Last
        <5> QED  BY <4>4, <4>5, <4>6, <5>1, <5>2
      <4> QED  BY <4>4, <4>6
    <3> QED  BY <1>9, <3>1, <3>2
  <2>3. prn' \in PrnType /\ ~prn'.bad  BY <1>0, <1>9 DEF ChunksTile
  <2> QED  BY <1>0, <1>9, <2>1, <2>2, <2>3, Idles
<1>10. UNCHANGED inbox => Skips(0)
  <2>1. Len(toClient) \in Nat /\ toClient \in Seq(FrameType)  BY <1>0, Ends DEF TypeOK
  <2> QED  BY <2>1 DEF inbox, Skips
<1>11. RecvPayload => \E k : Skips(k)  BY <1>0, ReadSome
<1>12. CASE SendLogin
  BY <1>1, <1>9, <1>10, <1>12 DEF SendLogin, HandshakeStep, Send
<1>13. CASE LoginAck
  BY <1>1, <1>9, <1>11, <1>13 DEF LoginAck, HandshakeStep, Send
<1>14. CASE SetupAck
  BY <1>1, <1>9, <1>11, <1>14 DEF SetupAck, HandshakeStep
<1>15. CASE HandshakeIdle
  BY <1>1, <1>9, <1>10, <1>11, <1>15 DEF HandshakeIdle, HandshakeStep
<1> QED  BY <1>6, <1>7, <1>8, <1>12, <1>13, <1>14, <1>15 DEF Handshake

(* A request is sent on a ready session.                                   *)
LEMMA BeginStep ==
    ASSUME IInv, NEW c \in AllCmds, NEW first \in Phases, NEW r \in RequestType,
           Begin(c, first, r), first \notin {"idle", "chunks", "final"}, c = CmdOf(first),
           r.seq = wireSeq, r.req # "chunk", first = "init" => r.req = "init"
    PROVE  IInv'
<1>0. /\ TypeOK /\ Numbered /\ ChunksInLine /\ Verdicts /\ ChunksTile /\ wireSeq \in Nat
      /\ r.size \in Nat
  BY DEF IInv, TypeOK, RequestType
<1>1. /\ hs' = hs /\ alive' = alive /\ toClient' = toClient /\ cancelled' = cancelled
      /\ log' = log /\ prn' = prn /\ stored' = stored /\ wireSeq' = wireSeq + 1 /\ hs = "Ready"
      /\ toPrinter' = Append(toPrinter, r)
  BY DEF Begin, conn, inbox, Send
<1>2. /\ op' \in OpType /\ op'.cmd = c /\ op'.phase = first /\ op'.seq = wireSeq
      /\ op'.size = r.size /\ op'.frag = 0 /\ op'.data = <<>>
  <2>1. <<>> \in Data  BY EmptySeq DEF Data
  <2>2. op' = [Idle EXCEPT !.cmd = c, !.phase = first, !.seq = wireSeq, !.size = r.size]
    BY DEF Begin
  <2> QED  BY <1>0, <2>1, <2>2 DEF Idle, OpType
<1>3. /\ ChunksInLine' /\ toPrinter' \in Seq(RequestType)
      /\ Len(toPrinter') = Len(toPrinter) + 1 /\ Last' = r
      /\ \A i \in 1..Len(toPrinter) : toPrinter'[i] = toPrinter[i]
  BY <1>0, <1>1, AppendRequest
<1>4. Len(toPrinter) \in Nat  BY <1>0, Ends DEF TypeOK
<1>5. TypeOK'  BY <1>0, <1>1, <1>2, <1>3 DEF TypeOK
<1>6. Numbered'
  <2>1. ASSUME NEW i \in 1..Len(toPrinter') PROVE toPrinter'[i].seq < wireSeq + 1
    <3>1. CASE i \in 1..Len(toPrinter)
      <4>1. toPrinter[i].seq < wireSeq /\ toPrinter[i] \in RequestType
        BY <1>0, <3>1, Ends DEF Numbered, TypeOK
      <4>2. toPrinter[i].seq \in Nat  BY <4>1 DEF RequestType
      <4> QED  BY <1>0, <1>3, <3>1, <4>1, <4>2
    <3>2. CASE i = Len(toPrinter')  BY <1>0, <1>3, <3>2 DEF Last
    <3> QED  BY <1>3, <1>4, <2>1, <3>1, <3>2
  <2>2. ASSUME NEW i \in 1..Len(toClient) PROVE toClient[i].seq < wireSeq + 1
    <3>1. toClient[i].seq < wireSeq /\ toClient[i] \in FrameType
      BY <1>0, <2>2, Ends DEF Numbered, TypeOK
    <3>2. toClient[i].seq \in Nat  BY <3>1 DEF FrameType
    <3> QED  BY <1>0, <3>1, <3>2
  <2>3. wireSeq >= 1  BY <1>0 DEF Numbered
  <2>4. wireSeq' >= 1 /\ op'.seq = wireSeq' - 1 /\ op'.seq >= 1  BY <1>0, <1>1, <1>2, <2>3
  <2> QED  BY <1>1, <1>2, <2>1, <2>2, <2>4 DEF Numbered
<1>7. Asked'
  <2>1. SUFFICES ASSUME first = "init" PROVE Asked'  BY <1>2 DEF Asked
  <2>2. \A i \in 1..(Len(toPrinter') - 1) : toPrinter'[i].seq # op'.seq
    <3> TAKE i \in 1..(Len(toPrinter') - 1)
    <3>1. i \in 1..Len(toPrinter)  BY <1>3, <1>4
    <3>2. toPrinter[i].seq < wireSeq /\ toPrinter[i] \in RequestType
      BY <1>0, <3>1, Ends DEF Numbered, TypeOK
    <3>3. toPrinter[i].seq \in Nat  BY <3>2 DEF RequestType
    <3>4. toPrinter[i].seq # wireSeq  BY <1>0, <3>2, <3>3
    <3> QED  BY <1>2, <1>3, <3>1, <3>4
  <2>3. \A i \in 1..Len(toClient') : toClient'[i].seq # op'.seq
    <3> TAKE i \in 1..Len(toClient')
    <3>1. toClient[i].seq < wireSeq /\ toClient[i] \in FrameType
      BY <1>0, <1>1, Ends DEF Numbered, TypeOK
    <3>2. toClient[i].seq \in Nat  BY <3>1 DEF FrameType
    <3>3. toClient[i].seq # wireSeq  BY <1>0, <3>1, <3>2
    <3> QED  BY <1>1, <1>2, <3>3
  <2>4. Len(toPrinter') > 0  BY <1>3, <1>4
  <2> QED  BY <1>2, <1>3, <2>1, <2>2, <2>3, <2>4 DEF Asked
<1>8. Sending'  BY <1>2 DEF Sending
<1>9. OwnImage'
  <2>1. Len(<<>>) = 0  BY EmptySeq
  <2> QED  BY <1>2, <2>1 DEF OwnImage
<1>10. Verdicts' /\ ChunksTile' /\ UploadStored' /\ SubFileOwn'
  BY <1>1 DEF IInv, Verdicts, ChunksTile, UploadStored, SubFileOwn
<1> QED  BY <1>3, <1>5, <1>6, <1>7, <1>8, <1>9, <1>10 DEF IInv

(* The five exchanges, and an upload that fails before it sends.           *)
LEMMA StartSteps ==
    ASSUME IInv, Start
    PROVE  IInv'
<1>0. TypeOK /\ wireSeq \in Nat  BY DEF IInv, TypeOK
<1>1. ASSUME NEW c \in {"ability", "download", "list", "sub"},
             Begin(c, c, Request(c, wireSeq))
      PROVE  IInv'
  <2>1. /\ Request(c, wireSeq) \in RequestType /\ Request(c, wireSeq).seq = wireSeq
        /\ Request(c, wireSeq).req = c
    BY <1>0, <1>1 DEF Request, RequestType, Requests
  <2>2. /\ c \in AllCmds /\ c \in Phases /\ c \notin {"idle", "chunks", "final", "init", "chunk"}
        /\ c = CmdOf(c)
    BY <1>1 DEF AllCmds, Phases, CmdOf, Uploading
  <2> QED  BY <1>1, <2>1, <2>2, BeginStep
<1>2. CASE BeginUpload
  <2>1. PICK n \in FileSizes :
            Begin("upload", "init", [Request("init", wireSeq) EXCEPT !.size = n])
    BY <1>2 DEF BeginUpload
  <2> DEFINE r == [Request("init", wireSeq) EXCEPT !.size = n]
  <2>2. n \in Nat  BY WireParameters
  <2>3. r \in RequestType /\ r.seq = wireSeq /\ r.req = "init"
    BY <1>0, <2>2 DEF Request, RequestType, Requests
  <2>4. Begin("upload", "init", r)  BY <2>1
  <2> HIDE DEF r
  <2>5. "upload" \in AllCmds /\ "init" \in Phases /\ "upload" = CmdOf("init")
    BY DEF AllCmds, Phases, CmdOf, Uploading
  <2> QED  BY <2>3, <2>4, <2>5, BeginStep
<1>3. CASE UploadLocalError
  <2>1. /\ hs' = hs /\ alive' = alive /\ toPrinter' = toPrinter /\ toClient' = toClient
        /\ op' = op /\ cancelled' = cancelled /\ prn' = prn /\ stored' = stored
        /\ wireSeq' = wireSeq + 1 /\ op = Idle
    BY <1>3 DEF UploadLocalError, conn, wire, inbox
  <2> DEFINE e == [cmd |-> "upload", seq |-> wireSeq, ok |-> FALSE, why |-> "local", data |-> <<>>]
  <2>2. log' = Append(log, e)  BY <1>3 DEF UploadLocalError
  <2>3. <<>> \in Data  BY EmptySeq DEF Data
  <2>4. e \in EntryType /\ e.ok = FALSE
    BY <1>0, <2>3 DEF EntryType, AllCmds, Why
  <2> HIDE DEF e
  <2>5. /\ log' \in Seq(EntryType) /\ Len(log) \in Nat /\ Len(log') = Len(log) + 1
        /\ log'[Len(log) + 1] = e /\ \A i \in 1..Len(log) : log'[i] = log[i]
    BY <1>0, <2>2, <2>4, Ends DEF TypeOK
  <2>6. ASSUME NEW i \in 1..Len(log') PROVE i \in 1..Len(log) \/ log'[i] = e
    BY <2>5, <2>6
  <2>7. UploadStored' /\ SubFileOwn'
    BY <2>1, <2>4, <2>5, <2>6 DEF IInv, UploadStored, SubFileOwn
  <2>8. TypeOK'  BY <1>0, <2>1, <2>5 DEF TypeOK
  <2>9. op.phase = "idle"  BY <2>1 DEF Idle
  <2>10. Numbered'
    <3>1. ASSUME NEW i \in 1..Len(toPrinter) PROVE toPrinter[i].seq < wireSeq + 1
      <4>1. toPrinter[i].seq < wireSeq /\ toPrinter[i] \in RequestType
        BY <1>0, <3>1, Ends DEF IInv, Numbered, TypeOK
      <4>2. toPrinter[i].seq \in Nat  BY <4>1 DEF RequestType
      <4> QED  BY <1>0, <4>1, <4>2
    <3>2. ASSUME NEW i \in 1..Len(toClient) PROVE toClient[i].seq < wireSeq + 1
      <4>1. toClient[i].seq < wireSeq /\ toClient[i] \in FrameType
        BY <1>0, <3>2, Ends DEF IInv, Numbered, TypeOK
      <4>2. toClient[i].seq \in Nat  BY <4>1 DEF FrameType
      <4> QED  BY <1>0, <4>1, <4>2
    <3>3. wireSeq >= 1 /\ op.cmd = CmdOf(op.phase)  BY DEF IInv, Numbered
    <3>4. wireSeq' >= 1  BY <1>0, <2>1, <3>3
    <3> QED  BY <2>1, <2>9, <3>1, <3>2, <3>3, <3>4 DEF Numbered
  <2>11. Sending' /\ Asked' /\ OwnImage'  BY <2>1, <2>9 DEF Sending, Asked, OwnImage
  <2>12. ChunksInLine' /\ Verdicts' /\ ChunksTile'
    BY <2>1 DEF IInv, ChunksInLine, Follows, GoodChunk, Verdicts, ChunksTile
  <2> QED  BY <2>7, <2>8, <2>10, <2>11, <2>12 DEF IInv
<1> QED  BY <1>1, <1>2, <1>3 DEF Start, BeginAbility, BeginDownload, BeginList, BeginSub

(* The types of what an exchange reports.                                  *)
LEMMA Reports ==
    /\ Why = {"ok", "local", "io", "bad reply", "skips", "wire", "cancelled", "refused"}
    /\ <<>> \in Data /\ Len(<<>>) = 0
  BY EmptySeq DEF Why, Data

(* A fragment carries the number of its frame.                             *)
LEMMA FragmentOf ==
    ASSUME NEW f \in FrameType
    PROVE  /\ Fragment(f) \in Data
           /\ f.part = 0 => Fragment(f) = <<>>
           /\ f.part # 0 => /\ Len(Fragment(f)) = 1 /\ Fragment(f)[1] = <<f.seq, f.part>>
           /\ \A p \in 1..Len(Fragment(f)) : Fragment(f)[p][1] = f.seq
<1>1. f.seq \in Nat /\ f.part \in Nat  BY DEF FrameType
<1>2. CASE f.part = 0
  <2>1. Fragment(f) = <<>>  BY <1>2 DEF Fragment
  <2>2. <<>> \in Data /\ Len(<<>>) = 0  BY Reports
  <2> QED  BY <1>2, <2>1, <2>2
<1>3. CASE f.part # 0
  <2>1. Fragment(f) = <<<<f.seq, f.part>>>>  BY <1>1, <1>3 DEF Fragment
  <2>2. <<f.seq, f.part>> \in Nat \X Nat  BY <1>1
  <2>3. Fragment(f) \in Data  BY <2>1, <2>2 DEF Data
  <2>4. Len(Fragment(f)) = 1 /\ Fragment(f)[1] = <<f.seq, f.part>>  BY <2>1
  <2> QED  BY <1>3, <2>3, <2>4
<1> QED  BY <1>2, <1>3

(* An exchange that reports failure.                                       *)
LEMMA GivesUp ==
    ASSUME IInv, NEW k, Skips(k), UNCHANGED <<hs, alive, toPrinter, wireSeq, prn, stored>>,
           NEW why \in Why, Return(FALSE, why, <<>>)
    PROVE  IInv'
<1>1. TypeOK /\ <<>> \in Data  BY Reports DEF IInv
<1>2. PICK e \in EntryType :
              /\ log' = Append(log, e) /\ e.ok = FALSE /\ op' = Idle /\ cancelled' = FALSE
  BY <1>1, Returned
<1> QED  BY <1>2, Ended

(* An exchange that reports success.                                       *)
LEMMA Succeeds ==
    ASSUME IInv, NEW k, Skips(k), UNCHANGED <<hs, alive, toPrinter, wireSeq, prn, stored>>,
           NEW data \in Data, Return(TRUE, "ok", data),
           op.cmd = "upload" => op.seq \in stored,
           op.cmd = "sub" => \A p \in 1..Len(data) : data[p][1] = op.seq
    PROVE  IInv'
<1>1. TypeOK /\ "ok" \in Why  BY Reports DEF IInv
<1>2. PICK e \in EntryType :
              /\ log' = Append(log, e) /\ e.cmd = op.cmd /\ e.seq = op.seq
              /\ e.data = data /\ op' = Idle /\ cancelled' = FALSE
  BY <1>1, Returned
<1> QED  BY <1>2, Ended

(* The receiving loops and the cancel polls.                               *)
LEMMA ReceiveSteps ==
    ASSUME IInv, IoError \/ RecvAbility \/ SkipStale \/ RecvList \/ RecvSub \/ RecvDownload
                 \/ CancelSeen \/ RecvUploadFinal
    PROVE  IInv'
<1>0. /\ TypeOK /\ Numbered /\ Verdicts /\ Sending /\ OwnImage
      /\ op \in OpType /\ cancelled \in BOOLEAN /\ alive \in BOOLEAN
      /\ toClient \in Seq(FrameType) /\ Len(toClient) \in Nat
  BY Ends DEF IInv, TypeOK
<1>1. RecvPayload =>
        \E k \in 1..Len(toClient) : /\ Skips(k) /\ Len(toClient) > 0
                                    /\ Received = toClient[1] /\ Received \in FrameType
  BY <1>0, ReadSome
<1>2. <<>> \in Data /\ Len(<<>>) = 0  BY Reports
<1>3. CASE IoError
  <2>1. Skips(Len(toClient))
    <3>1. toClient' = <<>>  BY <1>3 DEF IoError
    <3>2. toClient' \in Seq(FrameType) /\ Len(toClient') = 0  BY <3>1, EmptySeq
    <3> QED  BY <1>0, <3>2 DEF Skips
  <2> QED  BY <1>3, <2>1, GivesUp, Reports DEF IoError, conn
<1>4. CASE RecvAbility
  <2>1. PICK k : Skips(k)  BY <1>1, <1>4 DEF RecvAbility
  <2>2. op.cmd = "ability"  BY <1>0, <1>4 DEF RecvAbility, Numbered, CmdOf, Uploading
  <2>3. CASE Return(TRUE, "ok", <<>>)
    BY <1>2, <1>4, <2>1, <2>2, <2>3, Succeeds DEF RecvAbility, conn
  <2>4. CASE Return(FALSE, "bad reply", <<>>)
    BY <1>4, <2>1, <2>4, GivesUp, Reports DEF RecvAbility, conn
  <2> QED  BY <1>4, <2>3, <2>4 DEF RecvAbility
<1>5. CASE SkipStale
  <2>1. PICK k : Skips(k)  BY <1>1, <1>5 DEF SkipStale
  <2>2. CASE op' = [op EXCEPT !.count = @ + 1] /\ UNCHANGED <<cancelled, log>>
    <3>1. op.phase # "sub" /\ op.phase # "idle" /\ op.phase # "chunks"
      BY <1>5 DEF SkipStale
    <3>2. /\ op' \in OpType /\ op'.cmd = op.cmd /\ op'.phase = op.phase /\ op'.seq = op.seq
          /\ op'.size = op.size /\ op'.off = op.off /\ op'.frag = op.frag
      BY <1>0, <2>2 DEF OpType
    <3>3. OwnImage'  BY <3>1, <3>2 DEF OwnImage
    <3> QED  BY <1>0, <1>5, <2>1, <2>2, <3>1, <3>2, <3>3, Continued DEF SkipStale, conn
  <2>3. CASE Return(FALSE, "skips", <<>>)
    BY <1>5, <2>1, <2>3, GivesUp, Reports DEF SkipStale, conn
  <2> QED  BY <1>5, <2>2, <2>3 DEF SkipStale
<1>6. CASE RecvList
  <2>1. PICK k : Skips(k)  BY <1>1, <1>6 DEF RecvList
  <2>2. op.cmd = "list"  BY <1>0, <1>6 DEF RecvList, Numbered, CmdOf, Uploading
  <2>3. CASE Return(TRUE, "ok", <<>>)
    BY <1>2, <1>6, <2>1, <2>2, <2>3, Succeeds DEF RecvList, conn
  <2>4. CASE Return(FALSE, "wire", <<>>)
    BY <1>6, <2>1, <2>4, GivesUp, Reports DEF RecvList, conn
  <2> QED  BY <1>6, <2>3, <2>4 DEF RecvList
<1>7. CASE RecvSub
  <2>1. PICK k : Skips(k)  BY <1>1, <1>7 DEF RecvSub
  <2>2. op.cmd = "sub" /\ op.phase = "sub"  BY <1>0, <1>7 DEF RecvSub, Numbered, CmdOf, Uploading
  <2>3. Received \in FrameType  BY <1>1, <1>7 DEF RecvSub
  <2>4. UNCHANGED <<hs, alive, toPrinter, wireSeq, prn, stored>>  BY <1>7 DEF RecvSub, conn
  <2>5. CASE ~Matches(Received)
    <3>1. op' = op /\ cancelled' = cancelled /\ log' = log  BY <1>7, <2>5 DEF RecvSub
    <3>2. OwnImage'  BY <1>0, <3>1 DEF OwnImage
    <3> QED  BY <1>0, <2>1, <2>4, <3>1, <3>2, Continued
  <2>6. CASE Matches(Received)
    <3> DEFINE data == IF Fragment(Received) # <<>> THEN Fragment(Received) ELSE op.data
    <3>1. data \in Data /\ \A p \in 1..Len(data) : data[p][1] = op.seq
      <4>1. CASE Fragment(Received) # <<>>
        BY <2>3, <2>6, <4>1, FragmentOf DEF Matches
      <4>2. CASE Fragment(Received) = <<>>
        BY <1>0, <2>2, <4>2 DEF OwnImage, OpType
      <4> QED  BY <4>1, <4>2
    <3>2. \/ op' = [op EXCEPT !.data = data] /\ UNCHANGED <<cancelled, log>>
          \/ Return(TRUE, "ok", data)
          \/ Return(FALSE, "wire", <<>>)
      <4>1. CASE Received.result = "more"  BY <1>7, <2>6, <4>1 DEF RecvSub
      <4>2. CASE Received.result # "more" /\ data # <<>>  BY <1>7, <2>6, <4>2 DEF RecvSub
      <4>3. CASE Received.result # "more" /\ data = <<>>  BY <1>7, <2>6, <4>3 DEF RecvSub
      <4> QED  BY <4>1, <4>2, <4>3
    <3> HIDE DEF data
    <3>3. CASE op' = [op EXCEPT !.data = data] /\ UNCHANGED <<cancelled, log>>
      <4>1. /\ op' \in OpType /\ op'.cmd = op.cmd /\ op'.phase = op.phase /\ op'.seq = op.seq
            /\ op'.size = op.size /\ op'.off = op.off /\ op'.frag = op.frag /\ op'.data = data
        BY <1>0, <3>1, <3>3 DEF OpType
      <4>2. OwnImage'  BY <3>1, <4>1 DEF OwnImage
      <4> QED  BY <1>0, <2>1, <2>2, <2>4, <3>3, <4>1, <4>2, Continued
    <3>4. CASE Return(TRUE, "ok", data)
      BY <2>1, <2>2, <2>4, <3>1, <3>4, Succeeds
    <3>5. CASE Return(FALSE, "wire", <<>>)
      BY <2>1, <2>4, <3>5, GivesUp, Reports
    <3> QED  BY <3>2, <3>3, <3>4, <3>5
  <2> QED  BY <2>5, <2>6
<1>8. CASE RecvDownload
  <2>1. PICK k : Skips(k)  BY <1>1, <1>8 DEF RecvDownload
  <2>2. op.cmd = "download" /\ op.phase = "download"
    BY <1>0, <1>8 DEF RecvDownload, Numbered, CmdOf, Uploading
  <2>3. Received \in FrameType  BY <1>1, <1>8 DEF RecvDownload
  <2>4. UNCHANGED <<hs, alive, toPrinter, wireSeq, prn, stored>>  BY <1>8 DEF RecvDownload, conn
  <2> DEFINE data == op.data \o Fragment(Received)
  <2>5. data \in Data
    <3>1. op.data \in Data /\ Fragment(Received) \in Data  BY <1>0, <2>3, FragmentOf DEF OpType
    <3> QED  BY <3>1, Joined DEF Data
  <2>6. \/ op' = [op EXCEPT !.data = data] /\ UNCHANGED <<cancelled, log>>
        \/ Return(TRUE, "ok", data)
        \/ Return(FALSE, "wire", <<>>)
    <3>1. CASE Received.result = "more"  BY <1>8, <3>1 DEF RecvDownload
    <3>2. CASE Received.result = "done"  BY <1>8, <3>2 DEF RecvDownload
    <3>3. CASE Received.result \notin {"more", "done"}  BY <1>8, <3>3 DEF RecvDownload
    <3> QED  BY <3>1, <3>2, <3>3
  <2> HIDE DEF data
  <2>7. CASE op' = [op EXCEPT !.data = data] /\ UNCHANGED <<cancelled, log>>
    <3>1. /\ op' \in OpType /\ op'.cmd = op.cmd /\ op'.phase = op.phase /\ op'.seq = op.seq
          /\ op'.size = op.size /\ op'.off = op.off /\ op'.frag = op.frag
      BY <1>0, <2>5, <2>7 DEF OpType
    <3>2. OwnImage'  BY <2>2, <3>1 DEF OwnImage
    <3> QED  BY <1>0, <2>1, <2>2, <2>4, <2>7, <3>1, <3>2, Continued
  <2>8. CASE Return(TRUE, "ok", data)
    BY <2>1, <2>2, <2>4, <2>5, <2>8, Succeeds
  <2>9. CASE Return(FALSE, "wire", <<>>)
    BY <2>1, <2>4, <2>9, GivesUp, Reports
  <2> QED  BY <2>6, <2>7, <2>8, <2>9
<1>9. CASE CancelSeen
  <2>1. Skips(0)  BY <1>0, <1>9 DEF CancelSeen, wire, inbox, Skips
  <2> QED  BY <1>9, <2>1, GivesUp, Reports DEF CancelSeen, conn, wire
<1>10. CASE RecvUploadFinal
  <2>1. PICK k \in 1..Len(toClient) :
          Skips(k) /\ Len(toClient) > 0 /\ Received = toClient[1] /\ Received \in FrameType
    BY <1>1, <1>10 DEF RecvUploadFinal
  <2>2. op.cmd = "upload" /\ op.phase = "final"
    BY <1>0, <1>10 DEF RecvUploadFinal, Numbered, CmdOf, Uploading
  <2>3. UNCHANGED <<hs, alive, toPrinter, wireSeq, prn, stored>>
    BY <1>10 DEF RecvUploadFinal, conn
  <2>4. Received.cmd = "upload" /\ Received.seq = op.seq
    BY <1>10, <2>2 DEF RecvUploadFinal, Matches
  <2>5. 1 \in 1..Len(toClient)  BY <1>0, <2>1
  <2>6. Received.result # "exist"  BY <1>0, <2>1, <2>2, <2>5 DEF Sending
  <2>7. Received.result = "done" => op.seq \in stored
    BY <1>0, <2>1, <2>4, <2>5 DEF Verdicts
  <2>8. CASE Received.result = "done"
    <3>1. Return(TRUE, "ok", <<>>)  BY <1>10, <2>8 DEF RecvUploadFinal
    <3> QED  BY <1>2, <2>1, <2>2, <2>3, <2>7, <2>8, <3>1, Succeeds
  <2>9. CASE Received.result = "more" /\ op.kb + 1 < MaxTries
    <3>1. op' = [op EXCEPT !.kb = @ + 1, !.count = 0] /\ UNCHANGED <<cancelled, log>>
      BY <1>10, <2>9 DEF RecvUploadFinal
    <3>2. /\ op' \in OpType /\ op'.cmd = op.cmd /\ op'.phase = op.phase /\ op'.seq = op.seq
          /\ op'.size = op.size /\ op'.off = op.off /\ op'.frag = op.frag
      <4> DEFINE n == op.kb + 1
      <4>1. n \in Nat /\ 0 \in Nat  BY <1>0 DEF OpType
      <4>2. op' = [op EXCEPT !.kb = n, !.count = 0]  BY <3>1
      <4> HIDE DEF n
      <4> QED  BY <1>0, <4>1, <4>2 DEF OpType
    <3>3. OwnImage'  BY <2>2, <3>2 DEF OwnImage
    <3> QED  BY <1>0, <2>1, <2>2, <2>3, <3>1, <3>2, <3>3, Continued
  <2>10. CASE Received.result # "done" /\ ~(Received.result = "more" /\ op.kb + 1 < MaxTries)
    <3>1. Return(FALSE, "refused", <<>>)  BY <1>10, <2>6, <2>10 DEF RecvUploadFinal
    <3> QED  BY <2>1, <2>3, <3>1, GivesUp, Reports
  <2> QED  BY <2>8, <2>9, <2>10
<1> QED  BY <1>3, <1>4, <1>5, <1>6, <1>7, <1>8, <1>9, <1>10

(* An upload goes on to its chunks, or from chunk to chunk.                *)
LEMMA Uploads ==
    ASSUME IInv, NEW k, Skips(k), op.phase \in Uploading,
           UNCHANGED <<hs, alive, wireSeq, cancelled, log, prn, stored>>,
           op' \in OpType, op'.cmd = op.cmd, op'.seq = op.seq, op'.phase \in {"chunks", "final"},
           toPrinter' \in Seq(RequestType), ChunksInLine', Sending',
           \A i \in 1..Len(toPrinter') : toPrinter'[i].seq < wireSeq
    PROVE  IInv'
<1>0. /\ hs' = hs /\ alive' = alive /\ wireSeq' = wireSeq /\ cancelled' = cancelled
      /\ log' = log /\ prn' = prn /\ stored' = stored
  OBVIOUS
<1>1. TypeOK /\ Numbered /\ Verdicts /\ ChunksTile /\ UploadStored /\ SubFileOwn  BY DEF IInv
<1>2. Verdicts' /\ \A i \in 1..Len(toClient') : toClient'[i].seq < wireSeq
  BY <1>0, <1>1, SkipFacts
<1>3. TypeOK'  BY <1>0, <1>1 DEF TypeOK, Skips
<1>4. op.cmd = "upload" /\ op.phase # "idle"  BY <1>1 DEF Numbered, CmdOf, Uploading
<1>5. Numbered'
  <2>1. op'.cmd = CmdOf(op'.phase) /\ op'.phase # "idle"  BY <1>4 DEF CmdOf, Uploading
  <2>2. op.seq = wireSeq - 1 /\ op.seq >= 1 /\ hs = "Ready" /\ wireSeq >= 1
    BY <1>1, <1>4 DEF Numbered
  <2>3. op'.seq = wireSeq' - 1 /\ op'.seq >= 1 /\ hs' = "Ready" /\ wireSeq' >= 1
    BY <1>0, <2>2
  <2>4. /\ \A i \in 1..Len(toClient') : toClient'[i].seq < wireSeq'
        /\ \A i \in 1..Len(toPrinter') : toPrinter'[i].seq < wireSeq'
    BY <1>0, <1>2
  <2> QED  BY <2>1, <2>3, <2>4 DEF Numbered
<1>6. Asked' /\ OwnImage'  BY DEF Asked, OwnImage
<1>7. ChunksTile' /\ UploadStored' /\ SubFileOwn'
  BY <1>0, <1>1 DEF ChunksTile, UploadStored, SubFileOwn
<1> QED  BY <1>2, <1>3, <1>5, <1>6, <1>7 DEF IInv

(* parse_upload_init_reply, and the start of the chunk loop.               *)
LEMMA InitReply ==
    ASSUME IInv, RecvUploadInit
    PROVE  IInv'
<1>0. /\ TypeOK /\ Numbered /\ Asked /\ op \in OpType /\ ChunksInLine
      /\ toClient \in Seq(FrameType) /\ Len(toClient) \in Nat /\ toPrinter \in Seq(RequestType)
  BY Ends DEF IInv, TypeOK
<1>1. PICK k \in 1..Len(toClient) :
        Skips(k) /\ Len(toClient) > 0 /\ Received = toClient[1] /\ Received \in FrameType
  BY <1>0, ReadSome DEF RecvUploadInit
<1>2. UNCHANGED <<hs, alive, toPrinter, wireSeq, prn, stored>> /\ op.phase = "init"
  BY DEF RecvUploadInit, conn
<1>3. Received.seq = op.seq  BY DEF RecvUploadInit, Matches
<1>4. CASE ~InitAccepted(Received)
  <2>1. Return(FALSE, "refused", <<>>)  BY <1>4 DEF RecvUploadInit
  <2> QED  BY <1>1, <1>2, <2>1, GivesUp, Reports
<1>5. CASE InitAccepted(Received) /\ Received.off > op.size
  <2>1. Return(FALSE, "local", <<>>)  BY <1>5 DEF RecvUploadInit
  <2> QED  BY <1>1, <1>2, <2>1, GivesUp, Reports
<1>6. CASE InitAccepted(Received) /\ ~(Received.off > op.size)
  <2>1. /\ op' = [op EXCEPT !.phase = "chunks", !.kb = Received.kb,
                            !.off = Received.off, !.count = 0]
        /\ UNCHANGED <<cancelled, log>>
    BY <1>6 DEF RecvUploadInit
  <2>2. Received.kb \in Nat /\ Received.off \in Nat /\ op.size \in Nat
    BY <1>0, <1>1 DEF FrameType, OpType
  <2>3. /\ op' \in OpType /\ op'.cmd = op.cmd /\ op'.phase = "chunks" /\ op'.seq = op.seq
        /\ op'.size = op.size /\ op'.kb = Received.kb /\ op'.off = Received.off
        /\ op'.frag = op.frag
    <3> DEFINE a == Received.kb
               b == Received.off
               z == 0
    <3>1. a \in Nat /\ b \in Nat /\ z \in Nat /\ "chunks" \in Phases  BY <2>2 DEF Phases
    <3>2. op' = [op EXCEPT !.phase = "chunks", !.kb = a, !.off = b, !.count = z]  BY <2>1
    <3> HIDE DEF a, b, z
    <3>3. /\ op' \in OpType /\ op'.cmd = op.cmd /\ op'.phase = "chunks" /\ op'.seq = op.seq
          /\ op'.size = op.size /\ op'.kb = a /\ op'.off = b /\ op'.frag = op.frag
      BY <1>0, <3>1, <3>2 DEF OpType
    <3> QED  BY <3>3 DEF a, b
  <2>4. 1 \in 1..Len(toClient)  BY <1>0, <1>1
  <2>5. /\ Len(toPrinter) = 0 /\ prn.seq = op.seq /\ prn.size = op.size /\ prn.frag = 0
        /\ op.frag = 0 /\ Len(toClient) = 1 /\ Received.off = prn.off
    BY <1>0, <1>1, <1>2, <1>3, <2>4 DEF Asked
  <2>6. Len(toClient') = 0  BY <1>0, <1>1, <2>5 DEF Skips
  <2>7. op'.kb # 0 /\ op'.off <= op'.size  BY <1>6, <2>2, <2>3 DEF InitAccepted
  <2>8. toPrinter' = toPrinter /\ prn' = prn /\ wireSeq' = wireSeq  BY <1>2
  <2>9. Sending'
    <3>1. \A i \in 1..Len(toPrinter') : toPrinter'[i].req = "chunk"  BY <2>5, <2>8
    <3>2. \A i \in 1..Len(toClient') : toClient'[i].result # "exist"  BY <2>6
    <3>3. /\ prn'.seq = op'.seq /\ prn'.size = op'.size
          /\ op'.off = prn'.off /\ op'.frag = prn'.frag
      BY <2>3, <2>5, <2>8
    <3>4. ~(Len(toPrinter') > 0)  BY <2>5, <2>8
    <3> QED  BY <2>7, <3>1, <3>2, <3>3, <3>4 DEF Sending
  <2>10. ChunksInLine'  BY <1>0, <2>8 DEF ChunksInLine, Follows, GoodChunk
  <2>11. toPrinter' \in Seq(RequestType) /\ \A i \in 1..Len(toPrinter') : toPrinter'[i].seq < wireSeq
    BY <1>0, <2>5, <2>8
  <2> QED  BY <1>1, <1>2, <2>1, <2>3, <2>9, <2>10, <2>11, Uploads DEF Uploading
<1> QED  BY <1>4, <1>5, <1>6

(* The chunk loop continues what is on its way.                            *)
LEMMA ChunkSent ==
    ASSUME IInv, SendChunk
    PROVE  IInv'
<1>0. /\ TypeOK /\ Numbered /\ Sending /\ ChunksInLine /\ op \in OpType /\ prn \in PrnType
      /\ toPrinter \in Seq(RequestType) /\ Len(toPrinter) \in Nat
      /\ toClient \in Seq(FrameType) /\ Len(toClient) \in Nat
  BY Ends DEF IInv, TypeOK
<1>1. /\ op.seq \in Nat /\ op.size \in Nat /\ op.kb \in Nat /\ op.off \in Nat /\ op.frag \in Nat
  BY <1>0 DEF OpType
<1>2. /\ op.phase = "chunks" /\ op.off < op.size /\ toPrinter' = Append(toPrinter, ChunkRequest)
      /\ hs' = hs /\ alive' = alive /\ wireSeq' = wireSeq /\ cancelled' = cancelled
      /\ log' = log /\ prn' = prn /\ stored' = stored /\ toClient' = toClient
      /\ op' = [op EXCEPT !.off = @ + ChunkLen, !.frag = @ + 1]
  BY DEF SendChunk, SendWithBinary, Send, conn, inbox
<1>3. /\ prn.seq = op.seq /\ prn.size = op.size /\ op.kb # 0
      /\ \A i \in 1..Len(toPrinter) : toPrinter[i].req = "chunk"
      /\ \A i \in 1..Len(toClient) : toClient[i].result # "exist"
      /\ Len(toPrinter) = 0 => op.off = prn.off /\ op.frag = prn.frag
      /\ Len(toPrinter) > 0 => op.off = Last.off + Last.size /\ op.frag = Last.frag + 1
  BY <1>0, <1>2 DEF Sending
<1>4. ChunkLen \in Nat /\ ChunkLen > 0 /\ op.off + ChunkLen <= op.size
  BY <1>1, <1>2, <1>3 DEF ChunkLen
<1> DEFINE r == ChunkRequest
<1>5. /\ r \in RequestType /\ r.req = "chunk" /\ r.seq = op.seq /\ r.size = ChunkLen
      /\ r.off = op.off /\ r.frag = op.frag
  BY <1>1, <1>4 DEF ChunkRequest, RequestType, Requests
<1>6. r.md5 <=> op.off + ChunkLen >= op.size  BY DEF ChunkRequest
<1> HIDE DEF r
<1>7. toPrinter' = Append(toPrinter, r)  BY <1>2 DEF r
<1>8. /\ toPrinter' \in Seq(RequestType) /\ Len(toPrinter') = Len(toPrinter) + 1
      /\ toPrinter'[Len(toPrinter) + 1] = r
      /\ \A i \in 1..Len(toPrinter) : toPrinter'[i] = toPrinter[i]
  BY <1>0, <1>5, <1>7, Ends
<1>9. GoodChunk(r)
  <2>1. r.md5 <=> r.off + r.size = prn.size  BY <1>1, <1>3, <1>4, <1>5, <1>6
  <2> QED  BY <1>3, <1>4, <1>5, <2>1 DEF GoodChunk
<1>10. /\ op' \in OpType /\ op'.cmd = op.cmd /\ op'.phase = "chunks" /\ op'.seq = op.seq
       /\ op'.size = op.size /\ op'.kb = op.kb /\ op'.off = op.off + ChunkLen
       /\ op'.frag = op.frag + 1
  <2> DEFINE a == op.off + ChunkLen
             b == op.frag + 1
  <2>1. a \in Nat /\ b \in Nat  BY <1>1, <1>4
  <2>2. op' = [op EXCEPT !.off = a, !.frag = b]  BY <1>2
  <2> HIDE DEF a, b
  <2>3. /\ op' \in OpType /\ op'.cmd = op.cmd /\ op'.phase = op.phase /\ op'.seq = op.seq
        /\ op'.size = op.size /\ op'.kb = op.kb /\ op'.off = a /\ op'.frag = b
    BY <1>0, <2>1, <2>2 DEF OpType
  <2> QED  BY <1>2, <2>3 DEF a, b
<1>11. \A i \in 1..Len(toPrinter') : toPrinter'[i].req = "chunk"
  <2> TAKE i \in 1..Len(toPrinter')
  <2>1. i \in 1..Len(toPrinter) \/ i = Len(toPrinter) + 1  BY <1>0, <1>8
  <2> QED  BY <1>3, <1>5, <1>8, <2>1
<1>12. ChunksInLine'
  <2>1. Follows(toPrinter'[1], prn.off, prn.frag)
    <3>1. CASE Len(toPrinter) = 0
      <4>1. toPrinter'[1] = r  BY <1>8, <3>1
      <4> QED  BY <1>3, <1>5, <1>9, <3>1, <4>1 DEF Follows
    <3>2. CASE Len(toPrinter) > 0
      <4>1. toPrinter'[1] = toPrinter[1]  BY <1>0, <1>8, <3>2
      <4> QED  BY <1>0, <3>2, <4>1 DEF ChunksInLine
    <3> QED  BY <1>0, <3>1, <3>2
  <2>2. ASSUME NEW i \in 1..(Len(toPrinter') - 1)
        PROVE  Follows(toPrinter'[i + 1], toPrinter'[i].off + toPrinter'[i].size,
                       toPrinter'[i].frag + 1)
    <3>1. CASE i = Len(toPrinter)
      <4>1. toPrinter'[i + 1] = r /\ Len(toPrinter) > 0  BY <1>0, <1>8, <2>2, <3>1
      <4>2. toPrinter'[i] = Last  BY <1>0, <1>8, <3>1, <4>1 DEF Last
      <4> QED  BY <1>3, <1>5, <1>9, <4>1, <4>2 DEF Follows
    <3>2. CASE i # Len(toPrinter)
      <4>1. i \in 1..(Len(toPrinter) - 1) /\ i \in 1..Len(toPrinter) /\ i + 1 \in 1..Len(toPrinter)
        BY <1>0, <1>8, <2>2, <3>2
      <4>2. toPrinter'[i] = toPrinter[i] /\ toPrinter'[i + 1] = toPrinter[i + 1]  BY <1>8, <4>1
      <4> QED  BY <1>0, <4>1, <4>2 DEF ChunksInLine
    <3> QED  BY <3>1, <3>2
  <2>3. prn' = prn  BY <1>2
  <2> QED  BY <1>11, <2>1, <2>2, <2>3 DEF ChunksInLine, Follows, GoodChunk
<1>13. Sending'
  <2>1. Last' = r  BY <1>0, <1>8 DEF Last
  <2>2. Len(toPrinter') > 0 /\ Len(toPrinter') # 0  BY <1>0, <1>8
  <2>3. op'.off <= op'.size /\ op'.kb # 0  BY <1>3, <1>4, <1>10
  <2>4. op'.off = Last'.off + Last'.size /\ op'.frag = Last'.frag + 1  BY <1>5, <1>10, <2>1
  <2>5. prn'.seq = op'.seq /\ prn'.size = op'.size  BY <1>2, <1>3, <1>10
  <2>6. \A i \in 1..Len(toClient') : toClient'[i].result # "exist"  BY <1>2, <1>3
  <2> QED  BY <1>11, <2>2, <2>3, <2>4, <2>5, <2>6 DEF Sending
<1>14. \A i \in 1..Len(toPrinter') : toPrinter'[i].seq < wireSeq
  <2> TAKE i \in 1..Len(toPrinter')
  <2>1. i \in 1..Len(toPrinter) \/ i = Len(toPrinter) + 1  BY <1>0, <1>8
  <2>2. op.seq = wireSeq - 1  BY <1>0, <1>2 DEF Numbered
  <2>3. op.seq < wireSeq  BY <1>0, <1>1, <2>2 DEF TypeOK
  <2> QED  BY <1>0, <1>5, <1>8, <2>1, <2>3 DEF Numbered
<1>15. Skips(0)  BY <1>0, <1>2 DEF Skips
<1> QED  BY <1>2, <1>8, <1>10, <1>12, <1>13, <1>14, <1>15, Uploads DEF Uploading

(* All chunks are sent, the flag is raised, or the session drops.          *)
LEMMA OtherSteps ==
    ASSUME IInv, AwaitFinal \/ Cancel \/ Drop \/ UNCHANGED vars
    PROVE  IInv'
<1>0. /\ TypeOK /\ Numbered /\ Sending /\ ChunksInLine /\ OwnImage /\ op \in OpType
      /\ alive \in BOOLEAN /\ cancelled \in BOOLEAN
      /\ toPrinter \in Seq(RequestType) /\ toClient \in Seq(FrameType) /\ Len(toClient) \in Nat
  BY Ends DEF IInv, TypeOK
<1>1. toClient' = toClient => Skips(0)  BY <1>0 DEF Skips
<1>2. CASE AwaitFinal
  <2>1. /\ hs' = hs /\ alive' = alive /\ wireSeq' = wireSeq /\ cancelled' = cancelled
        /\ log' = log /\ prn' = prn /\ stored' = stored /\ toClient' = toClient
        /\ toPrinter' = toPrinter /\ op.phase = "chunks"
        /\ op' = [op EXCEPT !.phase = "final", !.kb = 0]
    BY <1>2 DEF AwaitFinal, conn, wire, inbox
  <2>2. op' \in OpType /\ op'.cmd = op.cmd /\ op'.phase = "final" /\ op'.seq = op.seq
    BY <1>0, <2>1 DEF OpType, Phases
  <2>3. Sending'  BY <1>0, <2>1, <2>2 DEF Sending
  <2>4. ChunksInLine'  BY <1>0, <2>1 DEF ChunksInLine, Follows, GoodChunk
  <2>5. \A i \in 1..Len(toPrinter') : toPrinter'[i].seq < wireSeq  BY <1>0, <2>1 DEF Numbered
  <2> QED  BY <1>0, <1>1, <2>1, <2>2, <2>3, <2>4, <2>5, Uploads DEF Uploading
<1>3. CASE Cancel \/ Drop \/ UNCHANGED vars
  <2>1. /\ hs' = hs /\ wireSeq' = wireSeq /\ log' = log /\ prn' = prn /\ stored' = stored
        /\ toClient' = toClient /\ toPrinter' = toPrinter /\ op' = op
        /\ alive' \in BOOLEAN /\ cancelled' \in BOOLEAN
    BY <1>0, <1>3 DEF Cancel, Drop, vars, conn, wire, inbox
  <2>2. OwnImage'  BY <1>0, <2>1 DEF OwnImage
  <2> QED  BY <1>0, <1>1, <2>1, <2>2, Continued
<1> QED  BY <1>2, <1>3

(* What the printer serves and sends.                                      *)
Served(r, fs) ==
    /\ r \in RequestType /\ fs \in Seq(FrameType) /\ Len(fs) \in Nat
    /\ Len(toPrinter) \in Nat /\ Len(toPrinter) > 0 /\ r = toPrinter[1]
    /\ toPrinter' \in Seq(RequestType) /\ Len(toPrinter') = Len(toPrinter) - 1
    /\ \A i \in 1..Len(toPrinter') : i + 1 \in 1..Len(toPrinter) /\ toPrinter'[i] = toPrinter[i + 1]
    /\ toClient' \in Seq(FrameType) /\ Len(toClient) \in Nat
    /\ Len(toClient') = Len(toClient) + Len(fs)
    /\ \A i \in 1..Len(toClient) : toClient'[i] = toClient[i]
    /\ \A i \in 1..Len(toClient') :
          \/ i \in 1..Len(toClient)
          \/ \E j \in 1..Len(fs) : i = Len(toClient) + j /\ toClient'[i] = fs[j]
    /\ Adopts(r) /\ Replies(r, fs)

(* Whatever the printer does is to serve the first request in its queue.   *)
LEMMA PrinterServes ==
    ASSUME TypeOK, PrinterStep
    PROVE  \E r \in RequestType, fs \in Seq(FrameType) : Served(r, fs)
<1> DEFINE r == Head(toPrinter)
<1>1. /\ toPrinter \in Seq(RequestType) /\ toPrinter # <<>> /\ PrinterServe(r)
      /\ toClient \in Seq(FrameType)
  BY DEF PrinterStep, TypeOK
<1>2. /\ Len(toPrinter) \in Nat /\ Len(toPrinter) > 0 /\ r = toPrinter[1] /\ r \in RequestType
      /\ Tail(toPrinter) \in Seq(RequestType) /\ Len(Tail(toPrinter)) = Len(toPrinter) - 1
      /\ \A i \in 1..(Len(toPrinter) - 1) : Tail(toPrinter)[i] = toPrinter[i + 1]
      /\ Len(toClient) \in Nat
  BY <1>1, Ends
<1> HIDE DEF r
<1>3. Adopts(r) /\ \E fs \in Seq(FrameType) : Replies(r, fs)  BY <1>1, <1>2, Serves
<1>4. PICK fs \in Seq(FrameType) : Replies(r, fs)  BY <1>3
<1>5. toPrinter' = Tail(toPrinter) /\ toClient' = toClient \o fs  BY <1>4 DEF Replies
<1>6. Len(fs) \in Nat  BY Ends
<1>7. /\ toClient' \in Seq(FrameType) /\ Len(toClient') = Len(toClient) + Len(fs)
      /\ \A i \in 1..(Len(toClient) + Len(fs)) :
            toClient'[i] = IF i <= Len(toClient) THEN toClient[i] ELSE fs[i - Len(toClient)]
  BY <1>1, <1>5, Joined
<1>8. \A i \in 1..Len(toClient) : toClient'[i] = toClient[i]  BY <1>2, <1>6, <1>7
<1>9. ASSUME NEW i \in 1..Len(toClient'), i \notin 1..Len(toClient)
      PROVE  \E j \in 1..Len(fs) : i = Len(toClient) + j /\ toClient'[i] = fs[j]
  <2>1. i - Len(toClient) \in 1..Len(fs) /\ i = Len(toClient) + (i - Len(toClient))
        /\ ~(i <= Len(toClient)) /\ i \in 1..(Len(toClient) + Len(fs))
    BY <1>2, <1>6, <1>7, <1>9
  <2> QED  BY <1>7, <2>1
<1>10. ASSUME NEW i \in 1..Len(toPrinter')
       PROVE  i + 1 \in 1..Len(toPrinter) /\ toPrinter'[i] = toPrinter[i + 1]
  BY <1>2, <1>5, <1>10
<1>11. Served(r, fs)
  BY <1>2, <1>3, <1>4, <1>5, <1>6, <1>7, <1>8, <1>9, <1>10 DEF Served
<1> QED  BY <1>2, <1>11

(* The printer works through the queue.                                    *)
LEMMA PrinterSteps ==
    ASSUME IInv, PrinterStep
    PROVE  IInv'
<1>0. /\ TypeOK /\ Numbered /\ ChunksInLine /\ Sending /\ Asked /\ Verdicts /\ OwnImage
      /\ ChunksTile /\ UploadStored /\ SubFileOwn
  BY DEF IInv
<1>1. /\ hs' = hs /\ alive' = alive /\ wireSeq' = wireSeq /\ op' = op /\ cancelled' = cancelled
      /\ log' = log
  BY DEF PrinterStep, conn
<1>2. PICK r \in RequestType, fs \in Seq(FrameType) : Served(r, fs)
  BY <1>0, PrinterServes
<1>3. /\ Len(toPrinter) \in Nat /\ Len(toPrinter) > 0 /\ r = toPrinter[1]
      /\ Len(toPrinter') = Len(toPrinter) - 1 /\ 1 \in 1..Len(toPrinter)
      /\ \A i \in 1..Len(toPrinter') : i + 1 \in 1..Len(toPrinter) /\ toPrinter'[i] = toPrinter[i + 1]
  BY <1>2 DEF Served
<1>4. /\ Len(toClient) \in Nat /\ Len(fs) \in Nat /\ Len(toClient') = Len(toClient) + Len(fs)
      /\ \A i \in 1..Len(toClient) : toClient'[i] = toClient[i]
      /\ \A i \in 1..Len(toClient') :
            \/ i \in 1..Len(toClient)
            \/ \E j \in 1..Len(fs) : i = Len(toClient) + j /\ toClient'[i] = fs[j]
  BY <1>2 DEF Served
<1>5. Adopts(r) /\ Replies(r, fs)  BY <1>2 DEF Served
<1>6. /\ prn \in PrnType /\ prn' \in PrnType /\ stored \subseteq stored' /\ r.req \in Requests
      /\ r.size \in Nat /\ r.off \in Nat /\ r.frag \in Nat /\ prn.off \in Nat
      /\ r.md5 \in BOOLEAN
  BY <1>0, <1>5 DEF TypeOK, Adopts, RequestType, PrnType
<1>7. TypeOK'
  <2>1. toPrinter' \in Seq(RequestType) /\ toClient' \in Seq(FrameType)  BY <1>2 DEF Served
  <2> QED  BY <1>0, <1>1, <1>6, <2>1 DEF TypeOK
<1>8. Numbered'
  <2>1. \A i \in 1..Len(toPrinter') : toPrinter'[i].seq < wireSeq  BY <1>0, <1>3 DEF Numbered
  <2>2. r.seq < wireSeq  BY <1>0, <1>3 DEF Numbered
  <2>3. \A j \in 1..Len(fs) : fs[j].seq = r.seq  BY <1>5 DEF Replies
  <2>4. \A i \in 1..Len(toClient') : toClient'[i].seq < wireSeq
    BY <1>0, <1>4, <2>2, <2>3 DEF Numbered
  <2> QED  BY <1>0, <1>1, <2>1, <2>4 DEF Numbered
<1>9. r.req = "chunk" =>
        /\ GoodChunk(r) /\ r.off = prn.off /\ r.frag = prn.frag
        /\ prn'.seq = prn.seq /\ prn'.size = prn.size
        /\ prn'.off = r.off + r.size /\ prn'.frag = r.frag + 1
  BY <1>0, <1>3, <1>5 DEF ChunksInLine, Follows, Adopts
<1>10. ChunksTile'
  <2>1. CASE r.req = "chunk"
    <3>1. ~prn.bad /\ r.seq = prn.seq /\ r.off = prn.off /\ r.frag = prn.frag
          /\ r.size # 0 /\ ~(prn.off + r.size > prn.size)
      BY <1>0, <1>6, <1>9, <2>1 DEF GoodChunk, ChunksTile, PrnType
    <3>2. r.md5 = (prn.off + r.size = prn.size)
      BY <1>6, <1>9, <2>1 DEF GoodChunk
    <3> QED  BY <1>5, <2>1, <3>1, <3>2 DEF Adopts, ChunksTile
  <2>2. CASE r.req = "init"  BY <1>5, <2>2 DEF Adopts, ChunksTile
  <2>3. CASE r.req \notin {"init", "chunk"}  BY <1>0, <1>5, <2>3 DEF Adopts, ChunksTile
  <2> QED  BY <2>1, <2>2, <2>3
<1>11. ChunksInLine'
  <2>1. ASSUME r.req # "chunk" PROVE \A i \in 1..Len(toPrinter') : toPrinter'[i].req # "chunk"
    <3> TAKE i \in 1..Len(toPrinter')
    <3>1. i + 1 \in 1..Len(toPrinter) /\ 1 < i + 1 /\ toPrinter'[i] = toPrinter[i + 1]
      BY <1>3
    <3> QED  BY <1>0, <1>3, <2>1, <3>1 DEF ChunksInLine
  <2>2. \A i, j \in 1..Len(toPrinter') :
          i < j /\ toPrinter'[j].req = "chunk" => toPrinter'[i].req = "chunk"
    <3> TAKE i, j \in 1..Len(toPrinter')
    <3>1. /\ i + 1 \in 1..Len(toPrinter) /\ toPrinter'[i] = toPrinter[i + 1]
          /\ j + 1 \in 1..Len(toPrinter) /\ toPrinter'[j] = toPrinter[j + 1]
      BY <1>3
    <3>2. i < j => i + 1 < j + 1  BY <1>3
    <3> QED  BY <1>0, <3>1, <3>2 DEF ChunksInLine
  <2>3. CASE r.req # "chunk"
    <3>1. Len(toPrinter') > 0 => 1 \in 1..Len(toPrinter')  BY <1>3
    <3>2. \A i \in 1..(Len(toPrinter') - 1) : i + 1 \in 1..Len(toPrinter')  BY <1>3
    <3> QED  BY <2>1, <2>2, <2>3, <3>1, <3>2 DEF ChunksInLine, Follows
  <2>4. CASE r.req = "chunk"
    <3>1. /\ prn'.seq = prn.seq /\ prn'.size = prn.size
          /\ prn'.off = r.off + r.size /\ prn'.frag = r.frag + 1
      BY <1>9, <2>4
    <3>2. Len(toPrinter') > 0 => Follows(toPrinter'[1], prn'.off, prn'.frag)
      <4> SUFFICES ASSUME Len(toPrinter') > 0
                   PROVE  Follows(toPrinter'[1], prn'.off, prn'.frag)
        OBVIOUS
      <4>1. 1 \in 1..(Len(toPrinter) - 1) /\ 1 \in 1..Len(toPrinter')  BY <1>3
      <4>2. toPrinter'[1] = toPrinter[2]  BY <1>3, <4>1
      <4>3. Follows(toPrinter[1 + 1], r.off + r.size, r.frag + 1)
        BY <1>0, <1>3, <4>1 DEF ChunksInLine
      <4> QED  BY <3>1, <4>2, <4>3
    <3>3. \A i \in 1..(Len(toPrinter') - 1) :
            Follows(toPrinter'[i + 1], toPrinter'[i].off + toPrinter'[i].size, toPrinter'[i].frag + 1)
      <4> TAKE i \in 1..(Len(toPrinter') - 1)
      <4>1. /\ i \in 1..Len(toPrinter') /\ i + 1 \in 1..Len(toPrinter')
            /\ i + 1 \in 1..(Len(toPrinter) - 1)
        BY <1>3
      <4>2. toPrinter'[i] = toPrinter[i + 1] /\ toPrinter'[i + 1] = toPrinter[(i + 1) + 1]
        BY <1>3, <4>1
      <4>3. Follows(toPrinter[(i + 1) + 1], toPrinter[i + 1].off + toPrinter[i + 1].size,
                    toPrinter[i + 1].frag + 1)
        BY <1>0, <4>1 DEF ChunksInLine
      <4> QED  BY <4>2, <4>3
    <3> QED  BY <2>2, <3>1, <3>2, <3>3 DEF ChunksInLine, Follows, GoodChunk
  <2> QED  BY <2>3, <2>4
<1>12. Len(toPrinter') > 0 => Last' = Last /\ Last' = toPrinter'[Len(toPrinter')]
  <2> SUFFICES ASSUME Len(toPrinter') > 0 PROVE Last' = Last  BY DEF Last
  <2>1. Len(toPrinter') \in 1..Len(toPrinter') /\ Len(toPrinter') + 1 = Len(toPrinter)  BY <1>3
  <2> QED  BY <1>3, <2>1 DEF Last
<1>13. Len(toPrinter') = 0 => Last = r
  <2>1. Len(toPrinter') = 0 => Len(toPrinter) = 1  BY <1>3
  <2> QED  BY <1>3, <2>1 DEF Last
<1>14. Sending'
  <2> SUFFICES ASSUME op.phase \in {"chunks", "final"} PROVE Sending'  BY <1>1 DEF Sending
  <2>1. r.req = "chunk"  BY <1>0, <1>3 DEF Sending
  <2>2. \A i \in 1..Len(toPrinter') : toPrinter'[i].req = "chunk"  BY <1>0, <1>3 DEF Sending
  <2>3. \A j \in 1..Len(fs) : fs[j].result # "exist"  BY <1>5, <2>1 DEF Replies
  <2>4. \A i \in 1..Len(toClient') : toClient'[i].result # "exist"
    BY <1>0, <1>4, <2>3 DEF Sending
  <2>5. ASSUME op.phase = "chunks"
        PROVE  /\ prn'.seq = op'.seq /\ prn'.size = op'.size /\ op'.kb # 0 /\ op'.off <= op'.size
               /\ Len(toPrinter') = 0 => op'.off = prn'.off /\ op'.frag = prn'.frag
               /\ Len(toPrinter') > 0 => op'.off = Last'.off + Last'.size /\ op'.frag = Last'.frag + 1
    <3>1. /\ prn.seq = op.seq /\ prn.size = op.size /\ op.kb # 0 /\ op.off <= op.size
          /\ op.off = Last.off + Last.size /\ op.frag = Last.frag + 1
      BY <1>0, <1>3, <2>5 DEF Sending
    <3> QED  BY <1>1, <1>9, <1>12, <1>13, <2>1, <3>1
  <2> QED  BY <1>1, <2>2, <2>4, <2>5 DEF Sending
<1>15. Asked'
  <2> SUFFICES ASSUME op.phase = "init" PROVE Asked'  BY <1>1 DEF Asked
  <2>1. /\ op.frag = 0 /\ Last.req = "init" /\ Last.seq = op.seq /\ Last.size = op.size
        /\ \A i \in 1..(Len(toPrinter) - 1) : toPrinter[i].seq # op.seq
        /\ \A i \in 1..Len(toClient) : toClient[i].seq # op.seq
    BY <1>0, <1>3 DEF Asked
  <2>2. \A j \in 1..Len(fs) : fs[j].seq = r.seq  BY <1>5 DEF Replies
  <2>3. CASE Len(toPrinter') = 0
    <3>1. r.req = "init" /\ r.seq = op.seq /\ r.size = op.size  BY <1>13, <2>1, <2>3
    <3>2. prn'.seq = op.seq /\ prn'.size = op.size /\ prn'.frag = 0  BY <1>5, <3>1 DEF Adopts
    <3>3. Len(fs) = 1 /\ \A j \in 1..Len(fs) : fs[j].off = prn'.off  BY <1>5, <3>1 DEF Replies
    <3>4. \A i \in 1..Len(toClient') : toClient'[i].seq = op.seq =>
                i = Len(toClient') /\ toClient'[i].off = prn'.off
      <4> TAKE i \in 1..Len(toClient')
      <4>1. CASE i \in 1..Len(toClient)  BY <1>4, <2>1, <4>1
      <4>2. CASE \E j \in 1..Len(fs) : i = Len(toClient) + j /\ toClient'[i] = fs[j]
        BY <1>4, <3>3, <4>2
      <4> QED  BY <1>4, <4>1, <4>2
    <3> QED  BY <1>1, <2>1, <2>3, <3>2, <3>4 DEF Asked
  <2>4. CASE Len(toPrinter') # 0
    <3>1. Len(toPrinter') > 0 /\ Last' = Last /\ 1 \in 1..(Len(toPrinter) - 1)
      BY <1>3, <1>12, <2>4
    <3>2. \A i \in 1..(Len(toPrinter') - 1) : toPrinter'[i].seq # op.seq
      <4> TAKE i \in 1..(Len(toPrinter') - 1)
      <4>1. i \in 1..Len(toPrinter') /\ i + 1 \in 1..(Len(toPrinter) - 1)  BY <1>3
      <4> QED  BY <1>3, <2>1, <4>1
    <3>3. r.seq # op.seq  BY <1>3, <2>1, <3>1
    <3>4. \A i \in 1..Len(toClient') : toClient'[i].seq # op.seq  BY <1>4, <2>1, <2>2, <3>3
    <3> QED  BY <1>1, <2>1, <3>1, <3>2, <3>4 DEF Asked
  <2> QED  BY <2>3, <2>4
<1>16. Verdicts'
  <2>1. \A j \in 1..Len(fs) : fs[j].cmd = "upload" /\ fs[j].result = "done" => fs[j].seq \in stored'
    BY <1>5 DEF Replies
  <2>2. \A i \in 1..Len(toClient) :
          toClient[i].cmd = "upload" /\ toClient[i].result = "done" => toClient[i].seq \in stored'
    BY <1>0, <1>6 DEF Verdicts
  <2> QED  BY <1>4, <2>1, <2>2 DEF Verdicts
<1>17. OwnImage' /\ UploadStored' /\ SubFileOwn'
  BY <1>0, <1>1, <1>6 DEF OwnImage, UploadStored, SubFileOwn
<1> QED  BY <1>7, <1>8, <1>10, <1>11, <1>14, <1>15, <1>16, <1>17 DEF IInv

(***************************************************************************)
(* The second part is kept too.  In the lemmas the exchange is orderly     *)
(* before the step.                                                        *)
(***************************************************************************)

(* After an exchange nothing is left that could be taken for a reply.      *)
LEMMA Settles ==
    ASSUME op'.phase = "idle", Len(toClient') = 0,
           alive' => \A i \in 1..Len(toPrinter') : Mute(toPrinter'[i])
    PROVE  Orderly'
<1>1. Calm'  BY DEF Calm, Muted, Mute
<1>2. Exchanging' /\ Closing' /\ Assembling'  BY DEF Exchanging, Closing, Assembling
<1> QED  BY <1>1, <1>2 DEF Orderly

(* Dial, handshake, disconnect: one request at a time, each answered       *)
(* before the next, so a ready session starts with both queues empty.      *)
LEMMA ConnectOrderly ==
    ASSUME IInv, Greeting, Dial \/ Handshake \/ Disconnect
    PROVE  Greeting' /\ (hs' = "Ready" => Orderly')
<1>0. /\ TypeOK /\ Numbered /\ toPrinter \in Seq(RequestType) /\ Len(toPrinter) \in Nat
      /\ toClient \in Seq(FrameType) /\ Len(toClient) \in Nat
  BY Ends DEF IInv, TypeOK
<1>1. \A e \in RequestType : /\ Len(Append(toPrinter, e)) = Len(toPrinter) + 1
                             /\ Append(toPrinter, e)[Len(toPrinter) + 1] = e
  BY <1>0, Ends
<1>2. Request("login", 0) \in RequestType /\ Request("setup", 0) \in RequestType
      /\ Request("login", 0).req = "login" /\ Request("setup", 0).req = "setup"
  BY DEF Request, RequestType, Requests
<1>3. RecvPayload => Len(toClient) > 0 /\ Len(toClient') \in Nat /\ Len(toClient') < Len(toClient)
  <2> SUFFICES ASSUME RecvPayload
               PROVE  Len(toClient) > 0 /\ Len(toClient') \in Nat /\ Len(toClient') < Len(toClient)
    OBVIOUS
  <2>1. PICK k \in 1..Len(toClient) : Skips(k)  BY <1>0, ReadSome
  <2> QED  BY <1>0, <2>1 DEF Skips
<1>4. CASE Dial \/ HandshakeFailed \/ Disconnect
  <2>1. hs' \in {"closed", "NotStarted"} /\ toPrinter' = <<>> /\ toClient' = <<>>
    BY <1>4 DEF Dial, DialTls, HandshakeFailed, Disconnect
  <2>2. Len(<<>>) = 0  BY EmptySeq
  <2> QED  BY <2>1, <2>2 DEF Greeting
<1>5. CASE SendLogin
  <2>1. /\ Len(toPrinter) = 0 /\ Len(toClient') = 0 /\ hs' = "LoginSent"
        /\ toPrinter' = Append(toPrinter, Request("login", 0))
    BY <1>5 DEF SendLogin, HandshakeStep, Send, inbox, Greeting
  <2>2. Len(toPrinter') = 1 /\ toPrinter'[1] = Request("login", 0)  BY <1>1, <1>2, <2>1
  <2> QED  BY <1>2, <2>1, <2>2 DEF Greeting
<1>6. CASE LoginAck
  <2>1. /\ Len(toPrinter) + Len(toClient) <= 1 /\ RecvPayload /\ hs' = "SetupSent"
        /\ toPrinter' = Append(toPrinter, Request("setup", 0))
    BY <1>6 DEF LoginAck, HandshakeStep, Send, Greeting
  <2>2. Len(toPrinter) = 0 /\ Len(toClient') = 0  BY <1>0, <1>3, <2>1
  <2>3. Len(toPrinter') = 1 /\ toPrinter'[1] = Request("setup", 0)  BY <1>1, <1>2, <2>1, <2>2
  <2> QED  BY <1>2, <2>1, <2>2, <2>3 DEF Greeting
<1>7. CASE SetupAck
  <2>1. /\ Len(toPrinter) + Len(toClient) <= 1 /\ RecvPayload /\ hs' = "Ready" /\ hs # "Ready"
        /\ toPrinter' = toPrinter /\ op' = op
    BY <1>7 DEF SetupAck, HandshakeStep, Greeting
  <2>2. Len(toPrinter) = 0 /\ Len(toClient') = 0  BY <1>0, <1>3, <2>1
  <2>3. op'.phase = "idle"  BY <1>0, <2>1 DEF Numbered
  <2>4. Orderly'  BY <2>1, <2>2, <2>3, Settles
  <2> QED  BY <2>1, <2>4 DEF Greeting
<1>8. CASE HandshakeIdle
  <2>1. hs' = hs /\ hs \in {"LoginSent", "SetupSent"} /\ toPrinter' = toPrinter
        /\ (toClient' = toClient \/ RecvPayload)
    BY <1>8 DEF HandshakeIdle, HandshakeStep, inbox
  <2>2. Len(toClient') \in Nat /\ Len(toClient') <= Len(toClient)  BY <1>0, <1>3, <2>1
  <2>3. Len(toPrinter') + Len(toClient') <= 1  BY <1>0, <2>1, <2>2 DEF Greeting
  <2> QED  BY <2>1, <2>3 DEF Greeting
<1> QED  BY <1>4, <1>5, <1>6, <1>7, <1>8 DEF Handshake

(* A new request is the only one that will be answered.                    *)
LEMMA BeginOrderly ==
    ASSUME IInv, Orderly, NEW c \in AllCmds, NEW first \in Phases, NEW r \in RequestType,
           Begin(c, first, r), first \notin {"idle", "chunks", "final"},
           r.seq = wireSeq, r.req = first
    PROVE  Orderly'
<1>0. /\ TypeOK /\ toPrinter \in Seq(RequestType) /\ Len(toPrinter) \in Nat
      /\ Len(toClient) \in Nat /\ wireSeq \in Nat /\ r.size \in Nat
  BY Ends DEF IInv, TypeOK, RequestType
<1>1. /\ hs = "Ready" /\ op.phase = "idle" /\ alive' = alive /\ toClient' = toClient
      /\ toPrinter' = Append(toPrinter, r)
      /\ op' = [Idle EXCEPT !.cmd = c, !.phase = first, !.seq = wireSeq, !.size = r.size]
  BY DEF Begin, conn, inbox, Send, Idle
<1>2. op'.phase = first /\ op'.seq = wireSeq /\ op'.data = <<>>
  BY <1>0, <1>1 DEF Idle
<1>3. /\ Len(toPrinter') = Len(toPrinter) + 1 /\ toPrinter'[Len(toPrinter) + 1] = r
      /\ \A i \in 1..Len(toPrinter) : toPrinter'[i] = toPrinter[i]
  BY <1>0, <1>1, Ends
<1>4. Len(toClient) = 0 /\ (alive => \A i \in 1..Len(toPrinter) : Mute(toPrinter[i]))
  BY <1>1 DEF Orderly, Calm, Muted
<1>5. Unanswered'
  <2>1. alive => \A i \in 1..(Len(toPrinter') - 1) : Mute(toPrinter'[i])  BY <1>0, <1>3, <1>4
  <2>2. Len(toPrinter') > 0 /\ toPrinter'[Len(toPrinter')] = r  BY <1>0, <1>3
  <2> QED  BY <1>1, <1>2, <1>4, <2>1, <2>2 DEF Unanswered, Muted, Mute, Last
<1>6. Len(toClient') <= 1  BY <1>1, <1>4
<1>7. Calm' /\ Closing'  BY <1>2 DEF Calm, Closing
<1>8. Exchanging'  BY <1>2, <1>5, <1>6 DEF Exchanging
<1>9. Assembling'  BY <1>2, <1>5 DEF Assembling
<1> QED  BY <1>7, <1>8, <1>9 DEF Orderly

(* A read takes at least the first frame; of an answer it leaves the end.  *)
LEMMA AnswerRead ==
    ASSUME TypeOK, Answered, NEW k, k > 0, Skips(k), toPrinter' = toPrinter, alive' = alive,
           Len(toClient) > 0
    PROVE  /\ alive => Len(toPrinter') = 0
           /\ toClient[1].cmd = op.cmd /\ toClient[1].seq = op.seq
           /\ toClient[1].result # "more" => Len(toClient') = 0
           /\ op'.cmd = op.cmd /\ op'.seq = op.seq => Answered'
<1>0. Len(toClient) \in Nat /\ Len(toClient') \in Nat /\ 1 \in 1..Len(toClient)
      /\ k \in 1..Len(toClient) /\ Len(toClient') = Len(toClient) - k
  BY Ends DEF TypeOK, Skips
<1>1. ASSUME NEW i \in 1..Len(toClient')
      PROVE  /\ k + i \in 1..Len(toClient) /\ toClient'[i] = toClient[k + i]
             /\ k + i < Len(toClient) <=> i < Len(toClient')
  BY <1>0, <1>1 DEF Skips
<1>2. toClient[1].result # "more" => Len(toClient') = 0
  <2> SUFFICES ASSUME toClient[1].result # "more" PROVE Len(toClient') = 0  OBVIOUS
  <2>1. ~(1 < Len(toClient))  BY <1>0 DEF Answered
  <2> QED  BY <1>0, <2>1
<1>3. op'.cmd = op.cmd /\ op'.seq = op.seq => Answered'
  BY <1>1 DEF Answered
<1> QED  BY <1>0, <1>2, <1>3 DEF Answered

(* ability and list have a reply of one frame, sub_file ends with the      *)
(* frame that does not say "more": they leave nothing behind.              *)
LEMMA QueriesOrderly ==
    ASSUME IInv, Orderly, RecvAbility \/ RecvList \/ RecvSub
    PROVE  Orderly'
<1>0. TypeOK /\ Numbered /\ op \in OpType /\ Len(toClient) \in Nat  BY Ends DEF IInv, TypeOK
<1>1. /\ RecvPayload /\ op.phase \in {"ability", "list", "sub"} /\ toPrinter' = toPrinter
      /\ alive' = alive /\ op.cmd = op.phase
  BY <1>0 DEF RecvAbility, RecvList, RecvSub, conn, Numbered, CmdOf, Uploading
<1>2. PICK k \in 1..Len(toClient) :
        Skips(k) /\ Len(toClient) > 0 /\ Received = toClient[1] /\ Received \in FrameType
  BY <1>0, <1>1, ReadSome
<1>3. Answered  BY <1>0, <1>1, <1>2 DEF Orderly, Exchanging, Unanswered
<1>4. k > 0  BY <1>0
<1>5. /\ alive => Len(toPrinter') = 0
      /\ Received.cmd = op.cmd /\ Received.seq = op.seq
      /\ Received.result # "more" => Len(toClient') = 0
      /\ op'.cmd = op.cmd /\ op'.seq = op.seq => Answered'
  BY <1>0, <1>1, <1>2, <1>3, <1>4, AnswerRead
<1>6. op' = Idle /\ Len(toClient') = 0 => Orderly'
  <2>1. Idle.phase = "idle"  BY DEF Idle
  <2> QED  BY <1>1, <1>5, <2>1, Settles
<1>7. CASE RecvAbility \/ RecvList
  <2>1. op' = Idle  BY <1>7 DEF RecvAbility, RecvList, Return
  <2>2. op.phase \in {"ability", "list"}  BY <1>7 DEF RecvAbility, RecvList
  <2>3. Len(toClient) <= 1  BY <2>2 DEF Orderly, Exchanging
  <2>4. Len(toClient') = 0
    <3>1. Len(toClient') \in Nat /\ Len(toClient') = Len(toClient) - k  BY <1>2, Ends DEF Skips
    <3> QED  BY <1>0, <2>3, <3>1
  <2> QED  BY <1>6, <2>1, <2>4
<1>8. CASE RecvSub
  <2> DEFINE data == IF Fragment(Received) # <<>> THEN Fragment(Received) ELSE op.data
  <2>1. Matches(Received) /\ op.phase = "sub"  BY <1>5, <1>8 DEF Matches, RecvSub
  <2>2. CASE Received.result # "more"
    <3>1. op' = Idle
      <4>1. CASE data # <<>>  BY <1>8, <2>1, <2>2, <4>1 DEF RecvSub, Return
      <4>2. CASE data = <<>>  BY <1>8, <2>1, <2>2, <4>2 DEF RecvSub, Return
      <4> QED  BY <4>1, <4>2
    <3> QED  BY <1>5, <1>6, <2>2, <3>1
  <2>3. CASE Received.result = "more"
    <3>1. op' = [op EXCEPT !.data = data]  BY <1>8, <2>1, <2>3 DEF RecvSub
    <3> HIDE DEF data
    <3>2. op'.cmd = op.cmd /\ op'.seq = op.seq /\ op'.phase = "sub"  BY <1>0, <2>1, <3>1 DEF OpType
    <3>3. Answered'  BY <1>5, <3>2
    <3> QED  BY <3>2, <3>3 DEF Orderly, Calm, Exchanging, Closing, Assembling
  <2> QED  BY <2>2, <2>3
<1> QED  BY <1>7, <1>8

(* In an orderly exchange there is nothing stale to skip.                  *)
LEMMA NothingStale ==
    ASSUME IInv, Orderly
    PROVE  ~SkipStale
<1>0. TypeOK /\ Numbered /\ Len(toClient) \in Nat  BY Ends DEF IInv, TypeOK
<1> SUFFICES ASSUME SkipStale PROVE FALSE  OBVIOUS
<1>1. RecvPayload /\ op.phase \in {"init", "final", "list"} /\ ~Matches(Received)
  BY DEF SkipStale
<1>2. Len(toClient) > 0 /\ Received = toClient[1]  BY <1>0, <1>1, ReadSome
<1>3. 1 \in 1..Len(toClient) /\ Len(toClient) # 0  BY <1>0, <1>2
<1>4. op.cmd = CmdOf(op.phase)  BY <1>0 DEF Numbered
<1>5. CASE op.phase = "list"
  <2>1. Answered  BY <1>3, <1>5 DEF Orderly, Exchanging, Unanswered
  <2> QED  BY <1>1, <1>2, <1>3, <2>1 DEF Answered, Matches
<1>6. CASE op.phase = "init"
  <2>1. Len(toClient) <= 1 /\ (Len(toClient) = 1 => toClient[1].cmd = "upload" /\ toClient[1].seq = op.seq)
    BY <1>3, <1>6 DEF Orderly, Exchanging, Unanswered
  <2>2. Len(toClient) = 1  BY <1>0, <1>2, <2>1
  <2>3. op.cmd = "upload"  BY <1>4, <1>6 DEF CmdOf, Uploading
  <2> QED  BY <1>1, <1>2, <2>1, <2>2, <2>3 DEF Matches
<1>7. CASE op.phase = "final"
  <2>1. op.cmd = "upload"  BY <1>4, <1>7 DEF CmdOf, Uploading
  <2> QED  BY <1>1, <1>2, <1>3, <1>7, <2>1 DEF Matches, Orderly, Closing
<1> QED  BY <1>1, <1>5, <1>6, <1>7

(* The numbers in a request.                                               *)
LEMMA RequestNumbers ==
    ASSUME TypeOK
    PROVE  \A i \in 1..Len(toPrinter) : toPrinter[i].off \in Nat /\ toPrinter[i].size \in Nat
<1> TAKE i \in 1..Len(toPrinter)
<1>1. toPrinter[i] \in RequestType  BY Ends DEF TypeOK
<1> QED  BY <1>1 DEF RequestType

(* Every chunk on its way fits the file the printer expects.               *)
LEMMA AllGood ==
    ASSUME TypeOK, ChunksInLine
    PROVE  \A i \in 1..Len(toPrinter) : toPrinter[i].req = "chunk" => GoodChunk(toPrinter[i])
<1>0. Len(toPrinter) \in Nat  BY Ends DEF TypeOK
<1> TAKE i \in 1..Len(toPrinter)
<1>1. CASE i = 1  BY <1>0, <1>1 DEF ChunksInLine, Follows
<1>2. CASE i # 1
  <2>1. i - 1 \in 1..(Len(toPrinter) - 1) /\ (i - 1) + 1 = i  BY <1>0, <1>2
  <2> QED  BY <2>1 DEF ChunksInLine, Follows
<1> QED  BY <1>1, <1>2

(* The reply to an upload request is alone.                                *)
LEMMA InitReplyOrderly ==
    ASSUME IInv, Orderly, RecvUploadInit
    PROVE  Orderly'
<1>0. TypeOK /\ op \in OpType /\ Len(toClient) \in Nat  BY Ends DEF IInv, TypeOK
<1>1. op.phase = "init" /\ toPrinter' = toPrinter /\ RecvPayload
  BY DEF RecvUploadInit
<1>2. PICK k \in 1..Len(toClient) :
        Skips(k) /\ Len(toClient) > 0 /\ Received = toClient[1] /\ Received \in FrameType
  BY <1>0, <1>1, ReadSome
<1>3. Len(toPrinter) = 0 /\ Len(toClient) <= 1
  <2>1. Len(toClient) # 0  BY <1>0, <1>2
  <2> QED  BY <1>1, <2>1 DEF Orderly, Exchanging, Unanswered
<1>4. Len(toClient') = 0
  <2>1. Len(toClient') \in Nat /\ Len(toClient') = Len(toClient) - k  BY <1>2, Ends DEF Skips
  <2> QED  BY <1>0, <1>3, <2>1
<1>5. CASE op' = Idle
  <2>1. op'.phase = "idle"  BY <1>5 DEF Idle
  <2> QED  BY <1>1, <1>3, <1>4, <2>1, Settles
<1>6. CASE op' # Idle
  <2>1. op' = [op EXCEPT !.phase = "chunks", !.kb = Received.kb,
                         !.off = Received.off, !.count = 0]
    <3>1. CASE ~InitAccepted(Received)  BY <1>6, <3>1 DEF RecvUploadInit, Return
    <3>2. CASE InitAccepted(Received) /\ Received.off > op.size
      BY <1>6, <3>2 DEF RecvUploadInit, Return
    <3>3. CASE InitAccepted(Received) /\ ~(Received.off > op.size)
      BY <3>3 DEF RecvUploadInit
    <3> QED  BY <3>1, <3>2, <3>3
  <2>2. op'.phase = "chunks"  BY <1>0, <2>1 DEF OpType
  <2>3. Closing'  BY <1>1, <1>3, <1>4, <2>2 DEF Closing
  <2> QED  BY <2>2, <2>3 DEF Orderly, Calm, Exchanging, Assembling
<1> QED  BY <1>5, <1>6

(* The chunk loop: nothing is answered before the last chunk.              *)
LEMMA ChunksOrderly ==
    ASSUME IInv, Orderly, SendChunk \/ AwaitFinal
    PROVE  Orderly'
<1>0. /\ TypeOK /\ Sending /\ Closing /\ op \in OpType /\ prn \in PrnType
      /\ toPrinter \in Seq(RequestType) /\ Len(toPrinter) \in Nat /\ Len(toClient) \in Nat
      /\ op.seq \in Nat /\ op.size \in Nat /\ op.kb \in Nat /\ op.off \in Nat /\ op.frag \in Nat
  BY Ends DEF IInv, TypeOK, OpType, Orderly
<1>1. op.phase = "chunks" /\ toClient' = toClient  BY DEF SendChunk, SendWithBinary, AwaitFinal, wire, inbox
<1>2. CASE SendChunk
  <2>1. /\ op.off < op.size /\ toPrinter' = Append(toPrinter, ChunkRequest)
        /\ op' = [op EXCEPT !.off = @ + ChunkLen, !.frag = @ + 1]
    BY <1>2 DEF SendChunk, SendWithBinary, Send
  <2>2. op.kb # 0  BY <1>0, <1>1 DEF Sending
  <2>3. ChunkLen \in Nat /\ ChunkLen > 0  BY <1>0, <2>1, <2>2 DEF ChunkLen
  <2> DEFINE r == ChunkRequest
  <2>4. r \in RequestType /\ r.size = ChunkLen /\ r.off = op.off /\ r.seq = op.seq
    BY <1>0, <2>3 DEF ChunkRequest, RequestType, Requests
  <2> HIDE DEF r
  <2>5. toPrinter' = Append(toPrinter, r)  BY <2>1 DEF r
  <2>6. /\ Len(toPrinter') = Len(toPrinter) + 1 /\ toPrinter'[Len(toPrinter) + 1] = r
        /\ \A i \in 1..Len(toPrinter) : toPrinter'[i] = toPrinter[i]
    BY <1>0, <2>4, <2>5, Ends
  <2>7. op'.phase = "chunks" /\ op'.off = op.off + ChunkLen /\ op'.seq = op.seq
    <3> DEFINE a == op.off + ChunkLen
               b == op.frag + 1
    <3>1. op' = [op EXCEPT !.off = a, !.frag = b]  BY <2>1
    <3> HIDE DEF a, b
    <3>2. op'.phase = op.phase /\ op'.off = a /\ op'.seq = op.seq  BY <1>0, <3>1 DEF OpType
    <3> QED  BY <1>1, <3>2 DEF a
  <2>8. Len(toClient) = 0  BY <1>0, <1>1, <2>1 DEF Closing
  <2>9. \A i \in 1..Len(toPrinter') :
          toPrinter'[i].seq = op'.seq /\ toPrinter'[i].off + toPrinter'[i].size <= op'.off
    <3> TAKE i \in 1..Len(toPrinter')
    <3>1. CASE i \in 1..Len(toPrinter)
      <4>1. toPrinter[i].seq = op.seq /\ toPrinter[i].off + toPrinter[i].size <= op.off
        BY <1>0, <1>1, <3>1 DEF Closing
      <4>2. toPrinter[i].off \in Nat /\ toPrinter[i].size \in Nat
        BY <1>0, <3>1, RequestNumbers
      <4>3. toPrinter[i].off + toPrinter[i].size \in Nat  BY <4>2
      <4>4. toPrinter[i].off + toPrinter[i].size <= op.off + ChunkLen
        BY <1>0, <2>3, <4>1, <4>3
      <4> QED  BY <2>6, <2>7, <3>1, <4>1, <4>4
    <3>2. CASE i = Len(toPrinter) + 1  BY <1>0, <2>3, <2>4, <2>6, <2>7, <3>2
    <3> QED  BY <1>0, <2>6, <3>1, <3>2
  <2>10. Closing'  BY <1>1, <2>7, <2>8, <2>9 DEF Closing
  <2> QED  BY <2>7, <2>10 DEF Orderly, Calm, Exchanging, Assembling
<1>3. CASE AwaitFinal
  <2>1. /\ op' = [op EXCEPT !.phase = "final", !.kb = 0] /\ toPrinter' = toPrinter
    BY <1>3 DEF AwaitFinal, wire
  <2>2. op'.phase = "final" /\ op'.kb = 0 /\ op'.off = op.off /\ op'.seq = op.seq
    BY <1>0, <2>1 DEF OpType
  <2>3. Closing'
    <3>1. \A i \in 1..Len(toPrinter') :
            toPrinter'[i].seq = op'.seq /\ toPrinter'[i].off + toPrinter'[i].size <= op'.off
      BY <1>0, <1>1, <2>1, <2>2 DEF Closing
    <3>2. Len(toPrinter') > 0 => Len(toClient') = 0  BY <1>0, <1>1, <2>1 DEF Closing
    <3>3. /\ Len(toClient') <= 2
          /\ \A i \in 1..Len(toClient') :
              /\ toClient'[i].cmd = "upload" /\ toClient'[i].seq = op'.seq
              /\ i < Len(toClient') <=> toClient'[i].result = "more"
      BY <1>0, <1>1, <2>2 DEF Closing
    <3> QED  BY <2>2, <3>1, <3>2, <3>3 DEF Closing
  <2> QED  BY <2>2, <2>3 DEF Orderly, Calm, Exchanging, Assembling
<1> QED  BY <1>2, <1>3

(* The verdict is the last frame of an upload; one sign of progress before *)
(* it is read on.                                                          *)
LEMMA FinalOrderly ==
    ASSUME IInv, Orderly, MaxTries > 1, RecvUploadFinal
    PROVE  Orderly'
<1>0. /\ TypeOK /\ Closing /\ op \in OpType /\ Len(toClient) \in Nat /\ op.kb \in Nat
      /\ Len(toPrinter) \in Nat /\ MaxTries \in Nat
  BY Ends, WireParameters DEF IInv, TypeOK, Orderly, OpType
<1>1. op.phase = "final" /\ toPrinter' = toPrinter /\ RecvPayload  BY DEF RecvUploadFinal
<1>2. PICK k \in 1..Len(toClient) : Skips(k) /\ Len(toClient) > 0 /\ Received = toClient[1]
  BY <1>0, <1>1, ReadSome
<1>3. /\ 1 \in 1..Len(toClient) /\ Len(toClient) <= 2 /\ Len(toPrinter) = 0
      /\ Len(toClient) = 2 => op.kb = 0
      /\ 1 < Len(toClient) <=> Received.result = "more"
  <2>1. 1 \in 1..Len(toClient) /\ Len(toClient) # 0  BY <1>0, <1>2
  <2> QED  BY <1>0, <1>1, <1>2, <2>1 DEF Closing
<1>4. Len(toClient') \in Nat /\ Len(toClient') = Len(toClient) - k  BY <1>2, Ends DEF Skips
<1>5. CASE Received.result # "more"
  <2>1. op' = Idle
    <3>1. CASE Received.result \in {"done", "exist"}  BY <3>1 DEF RecvUploadFinal, Return
    <3>2. CASE Received.result \notin {"done", "exist"}  BY <1>5, <3>2 DEF RecvUploadFinal, Return
    <3> QED  BY <3>1, <3>2
  <2>2. op'.phase = "idle"  BY <2>1 DEF Idle
  <2>3. Len(toClient') = 0  BY <1>0, <1>3, <1>4, <1>5
  <2> QED  BY <1>1, <1>3, <2>2, <2>3, Settles
<1>6. CASE Received.result = "more"
  <2>1. op.kb + 1 < MaxTries
    <3>1. Len(toClient) = 2
      <4>1. 1 < Len(toClient) /\ Len(toClient) <= 2 /\ Len(toClient) \in Nat  BY <1>0, <1>3, <1>6
      <4>2. \A n \in Nat : 1 < n /\ n <= 2 => n = 2  OBVIOUS
      <4> QED  BY <4>1, <4>2
    <3>2. op.kb = 0  BY <1>3, <3>1
    <3> QED  BY <1>0, <3>2
  <2>2. op' = [op EXCEPT !.kb = @ + 1, !.count = 0]  BY <1>6, <2>1 DEF RecvUploadFinal
  <2>3. op'.phase = "final" /\ op'.seq = op.seq
    <3> DEFINE n == op.kb + 1
    <3>1. op' = [op EXCEPT !.kb = n, !.count = 0]  BY <2>2
    <3> HIDE DEF n
    <3> QED  BY <1>0, <1>1, <3>1 DEF OpType
  <2>4. Len(toClient') <= 1 /\ ~(Len(toClient') = 2)  BY <1>0, <1>3, <1>4
  <2>5. ASSUME NEW i \in 1..Len(toClient')
        PROVE  /\ toClient'[i].cmd = "upload" /\ toClient'[i].seq = op'.seq
               /\ i < Len(toClient') <=> toClient'[i].result = "more"
    <3>1. /\ k + i \in 1..Len(toClient) /\ toClient'[i] = toClient[k + i]
          /\ k + i < Len(toClient) <=> i < Len(toClient')
      BY <1>0, <1>2, <1>4, <2>5 DEF Skips
    <3> QED  BY <1>0, <1>1, <2>3, <3>1 DEF Closing
  <2>6. Len(toClient') <= 2  BY <1>4, <2>4
  <2>7. Closing'  BY <1>1, <1>3, <2>3, <2>4, <2>5, <2>6 DEF Closing
  <2> QED  BY <2>3, <2>7 DEF Orderly, Calm, Exchanging, Assembling
<1> QED  BY <1>5, <1>6

(* An exchange that fails, or an upload that is cancelled before its last  *)
(* chunk: what is still on its way is not answered.                        *)
LEMMA BreaksOrderly ==
    ASSUME IInv, Orderly, IoError \/ (CancelSeen /\ op.phase = "chunks")
    PROVE  Orderly'
<1>0. /\ TypeOK /\ Closing /\ Sending /\ ChunksInLine /\ op.off \in Nat /\ op.size \in Nat
      /\ op.phase = "chunks" => prn.size = op.size
      /\ toPrinter \in Seq(RequestType)
  BY DEF IInv, TypeOK, Orderly, OpType, Sending
<1>1. op'.phase = "idle"  BY DEF IoError, CancelSeen, Return, Idle
<1>2. CASE IoError
  <2>1. ~alive' /\ Len(toClient') = 0  BY <1>2, EmptySeq DEF IoError, conn
  <2> QED  BY <1>1, <2>1, Settles
<1>3. CASE CancelSeen /\ op.phase = "chunks"
  <2>1. op.off < op.size /\ toPrinter' = toPrinter /\ toClient' = toClient
    BY <1>3 DEF CancelSeen, wire, inbox
  <2>2. Len(toClient') = 0  BY <1>0, <1>3, <2>1 DEF Closing
  <2>3. ASSUME NEW i \in 1..Len(toPrinter') PROVE Mute(toPrinter'[i])
    <3>1. toPrinter[i].req = "chunk"  BY <1>0, <1>3, <2>1, <2>3 DEF Sending
    <3>2. GoodChunk(toPrinter[i])  BY <1>0, <2>1, <2>3, <3>1, AllGood
    <3>3. toPrinter[i].off + toPrinter[i].size <= op.off  BY <1>0, <1>3, <2>1, <2>3 DEF Closing
    <3>4. toPrinter[i].off \in Nat /\ toPrinter[i].size \in Nat
      BY <1>0, <2>1, <2>3, RequestNumbers
    <3>5. toPrinter[i].off + toPrinter[i].size # prn.size  BY <1>0, <1>3, <2>1, <3>3, <3>4
    <3> QED  BY <2>1, <3>1, <3>2, <3>5 DEF Mute, GoodChunk
  <2> QED  BY <1>1, <2>2, <2>3, Settles
<1> QED  BY <1>2, <1>3

(* A download puts its fragments together: the parameter block first, and  *)
(* one after the other, as long as no read takes two frames.  When it      *)
(* succeeds nothing is left and, if no frame of it was lost, it has all.   *)
LEMMA DownloadOrderly ==
    ASSUME IInv, Orderly, RecvDownload
    PROVE  /\ Received.result \in {"more", "done"} => Orderly'
           /\ Received.result = "done" /\ op.seq \notin lost' =>
                 op.data \o Fragment(Received) = [p \in 1..Parts |-> <<op.seq, p>>]
<1>0. /\ TypeOK /\ Numbered /\ op \in OpType /\ toClient \in Seq(FrameType)
      /\ Len(toClient) \in Nat /\ Parts \in Nat /\ Parts >= 1
  BY Ends, WireParameters DEF IInv, TypeOK
<1>1. /\ op.phase = "download" /\ toPrinter' = toPrinter /\ alive' = alive /\ RecvPayload
      /\ op.seq \in Nat /\ op.data \in Data
  BY <1>0 DEF RecvDownload, conn, OpType
<1>2. PICK k \in 1..Len(toClient) :
        /\ Skips(k) /\ Len(toClient) > 0 /\ Received = toClient[1] /\ Received \in FrameType
        /\ lost' = lost \cup {toClient[i].seq : i \in 2..k}
  BY <1>0, <1>1, ReadSome
<1>3. Answered  BY <1>0, <1>1, <1>2 DEF Orderly, Exchanging, Unanswered
<1>4. k > 0 /\ 1 \in 1..Len(toClient)  BY <1>0
<1>5. /\ alive => Len(toPrinter') = 0
      /\ Received.cmd = op.cmd /\ Received.seq = op.seq
      /\ Received.result # "more" => Len(toClient') = 0
      /\ op'.cmd = op.cmd /\ op'.seq = op.seq => Answered'
  BY <1>0, <1>1, <1>2, <1>3, <1>4, AnswerRead
<1>6. 1 < Len(toClient) <=> Received.result = "more"  BY <1>2, <1>3, <1>4 DEF Answered
<1> DEFINE n == Len(toClient)
           data == op.data \o Fragment(Received)
<1>7. ASSUME op.seq \notin lost, Received.result # "fail"
      PROVE  /\ n \in 1..(Parts + 1)
             /\ \A i \in 1..n : /\ toClient[i].part = Parts - n + i
                                /\ toClient[i].result \in {"more", "done"}
             /\ Len(op.data) = IF n > Parts THEN 0 ELSE Parts - n
             /\ \A p \in 1..Len(op.data) : op.data[p] = <<op.seq, p>>
  <2>1. ~Unanswered  BY <1>0, <1>2 DEF Unanswered
  <2> QED  BY <1>1, <1>2, <1>7, <2>1 DEF Orderly, Assembling
<1>8. /\ Fragment(Received) \in Data
      /\ Received.part = 0 => Fragment(Received) = <<>>
      /\ Received.part # 0 => /\ Len(Fragment(Received)) = 1
                              /\ Fragment(Received)[1] = <<op.seq, Received.part>>
  BY <1>2, <1>5, FragmentOf
<1>9. /\ data \in Data /\ Len(data) = Len(op.data) + Len(Fragment(Received))
      /\ \A p \in 1..(Len(op.data) + Len(Fragment(Received))) :
            data[p] = IF p <= Len(op.data) THEN op.data[p]
                      ELSE Fragment(Received)[p - Len(op.data)]
      /\ Len(op.data) \in Nat
  BY <1>1, <1>8, Joined, Ends DEF Data
<1>10. ASSUME op.seq \notin lost, Received.result # "fail"
       PROVE  /\ Len(data) = Parts - n + 1
              /\ \A p \in 1..Len(data) : data[p] = <<op.seq, p>>
  <2>1. Received.part = Parts - n + 1  BY <1>2, <1>4, <1>7, <1>10
  <2>2. CASE n > Parts
    <3>1. n = Parts + 1 /\ Received.part = 0 /\ Len(op.data) = 0  BY <1>0, <1>7, <1>10, <2>1, <2>2
    <3>2. Len(Fragment(Received)) = 0  BY <1>8, <3>1, EmptySeq
    <3> QED  BY <1>0, <1>9, <3>1, <3>2
  <2>3. CASE ~(n > Parts)
    <3>1. Len(op.data) = Parts - n /\ Received.part # 0 /\ Received.part = Len(op.data) + 1
      <4>1. Len(op.data) = IF n > Parts THEN 0 ELSE Parts - n  BY <1>7, <1>10
      <4>2. Len(op.data) = Parts - n  BY <2>3, <4>1
      <4>3. Received.part = Len(op.data) + 1  BY <2>1, <4>2
      <4> QED  BY <1>9, <4>2, <4>3
    <3>2. Len(Fragment(Received)) = 1 /\ Fragment(Received)[1] = <<op.seq, Len(op.data) + 1>>
      BY <1>8, <3>1
    <3>3. Len(data) = Len(op.data) + 1  BY <1>9, <3>2
    <3>4. ASSUME NEW p \in 1..Len(data) PROVE data[p] = <<op.seq, p>>
      <4>1. CASE p <= Len(op.data)
        <5>1. p \in 1..Len(op.data) /\ p \in 1..(Len(op.data) + Len(Fragment(Received)))
          BY <1>9, <3>2, <3>4, <4>1
        <5>2. data[p] = op.data[p]  BY <1>9, <4>1, <5>1
        <5> QED  BY <1>7, <1>10, <5>1, <5>2
      <4>2. CASE ~(p <= Len(op.data))
        <5>1. p = Len(op.data) + 1 /\ p - Len(op.data) = 1
              /\ p \in 1..(Len(op.data) + Len(Fragment(Received)))
          BY <1>9, <3>2, <3>3, <3>4, <4>2
        <5>2. data[p] = Fragment(Received)[1]  BY <1>9, <4>2, <5>1
        <5> QED  BY <3>2, <5>1, <5>2
      <4> QED  BY <4>1, <4>2
    <3>5. Len(data) = Parts - n + 1  BY <1>0, <3>1, <3>3
    <3> QED  BY <3>4, <3>5
  <2> QED  BY <2>2, <2>3
<1> HIDE DEF data
<1>11. ASSUME Received.result = "done", op.seq \notin lost'
       PROVE  data = [p \in 1..Parts |-> <<op.seq, p>>]
  <2>1. op.seq \notin lost  BY <1>2, <1>11
  <2>2. n = 1  BY <1>0, <1>2, <1>6, <1>11
  <2>3. Len(data) = Parts  BY <1>0, <1>10, <1>11, <2>1, <2>2
  <2>4. data = [p \in 1..Len(data) |-> data[p]]  BY <1>9 DEF Data
  <2>5. \A p \in 1..Parts : data[p] = <<op.seq, p>>  BY <1>10, <1>11, <2>1, <2>3
  <2> QED  BY <2>3, <2>4, <2>5
<1>12. CASE Received.result = "done"
  <2>1. op' = Idle  BY <1>12 DEF RecvDownload, Return
  <2>2. op'.phase = "idle"  BY <2>1 DEF Idle
  <2>3. Len(toClient') = 0  BY <1>5, <1>12
  <2>4. Orderly'  BY <1>1, <1>5, <2>2, <2>3, Settles
  <2> QED  BY <1>11, <1>12, <2>4 DEF data
<1>13. CASE Received.result = "more"
  <2>1. op' = [op EXCEPT !.data = data]  BY <1>13 DEF RecvDownload, data
  <2>2. /\ op'.cmd = op.cmd /\ op'.seq = op.seq /\ op'.phase = "download" /\ op'.data = data
    BY <1>0, <1>1, <2>1 DEF OpType
  <2>3. Answered'  BY <1>5, <2>2
  <2>4. Assembling'
    <3> SUFFICES ASSUME op.seq \notin lost' PROVE Assembling'  BY <2>2 DEF Assembling
    <3>1. n > 1 /\ op.seq \notin lost  BY <1>2, <1>6, <1>13
    <3>2. k = 1
      <4> SUFFICES ASSUME k # 1 PROVE FALSE  OBVIOUS
      <4>1. 2 \in 2..k /\ 2 \in 1..Len(toClient)  BY <1>0
      <4>2. toClient[2].seq = op.seq  BY <1>3, <4>1 DEF Answered
      <4> QED  BY <1>2, <4>1, <4>2
    <3>3. Len(toClient') = n - 1 /\ Len(toClient') \in 1..Parts
      <4>1. Len(toClient') = n - 1  BY <1>2, <3>2 DEF Skips
      <4>2. n \in 1..(Parts + 1)  BY <1>7, <1>13, <3>1
      <4> QED  BY <1>0, <3>1, <4>1, <4>2
    <3>4. \A i \in 1..Len(toClient') :
                 /\ toClient'[i].part = Parts - Len(toClient') + i
                 /\ toClient'[i].result \in {"more", "done"}
      <4> TAKE i \in 1..Len(toClient')
      <4>1. 1 + i \in 1..n /\ toClient'[i] = toClient[1 + i]  BY <1>0, <1>2, <3>2, <3>3 DEF Skips
      <4>2. toClient[1 + i].part = Parts - n + (1 + i) /\ toClient[1 + i].result \in {"more", "done"}
        BY <1>7, <1>13, <3>1, <4>1
      <4> QED  BY <1>0, <3>3, <4>1, <4>2
    <3>5. Len(data) = IF Len(toClient') > Parts THEN 0 ELSE Parts - Len(toClient')
      BY <1>0, <1>10, <1>13, <3>1, <3>3
    <3>6. \A p \in 1..Len(data) : data[p] = <<op.seq, p>>  BY <1>10, <1>13, <3>1
    <3>7. Len(toClient') \in 1..(Parts + 1)  BY <1>0, <3>3
    <3> QED  BY <2>2, <3>4, <3>5, <3>6, <3>7 DEF Assembling
  <2>5. Orderly'  BY <2>2, <2>3, <2>4 DEF Orderly, Calm, Exchanging, Closing
  <2> QED  BY <1>13, <2>5
<1> QED  BY <1>11, <1>12, <1>13 DEF data

(* The printer answers a handshake request with one frame.                 *)
LEMMA PrinterGreets ==
    ASSUME IInv, Greeting, PrinterStep
    PROVE  Greeting'
<1>1. hs' = hs  BY DEF PrinterStep, conn
<1>2. PICK r \in RequestType, fs \in Seq(FrameType) : Served(r, fs)
  BY PrinterServes DEF IInv
<1>3. /\ Len(toPrinter) \in Nat /\ Len(toPrinter) > 0 /\ r = toPrinter[1]
      /\ Len(toPrinter') = Len(toPrinter) - 1 /\ 1 \in 1..Len(toPrinter)
      /\ \A i \in 1..Len(toPrinter') : i + 1 \in 1..Len(toPrinter) /\ toPrinter'[i] = toPrinter[i + 1]
      /\ Len(toClient) \in Nat /\ Len(fs) \in Nat /\ Len(toClient') = Len(toClient) + Len(fs)
      /\ Replies(r, fs)
  BY <1>2 DEF Served
<1>4. hs \notin {"closed", "NotStarted"}
  <2>1. Len(toPrinter) # 0  BY <1>3
  <2> QED  BY <2>1 DEF Greeting
<1>5. ASSUME hs \in {"LoginSent", "SetupSent"}
      PROVE  /\ Len(toPrinter') + Len(toClient') <= 1
             /\ \A i \in 1..Len(toPrinter') : toPrinter'[i].req \in {"login", "setup"}
  <2>1. /\ Len(toPrinter) + Len(toClient) <= 1 /\ r.req \in {"login", "setup"}
        /\ \A i \in 1..Len(toPrinter) : toPrinter[i].req \in {"login", "setup"}
    BY <1>3, <1>5 DEF Greeting
  <2>2. Len(fs) = 1  BY <1>3, <2>1 DEF Replies
  <2>3. Len(toPrinter') + Len(toClient') <= 1  BY <1>3, <2>1, <2>2
  <2> QED  BY <1>3, <2>1, <2>3
<1> QED  BY <1>1, <1>4, <1>5 DEF Greeting

(* A live printer serves what a cancelled upload left without a word, then *)
(* the request of the exchange in progress; and answers an upload after    *)
(* its last chunk, when no other can follow.                               *)
LEMMA PrinterOrderly ==
    ASSUME IInv, Orderly, PrinterStep
    PROVE  Orderly'
<1>0. /\ TypeOK /\ Numbered /\ ChunksInLine /\ Sending /\ op.cmd = CmdOf(op.phase)
      /\ Calm /\ Exchanging /\ Closing /\ Assembling /\ op.phase \in Phases /\ op.off \in Nat
      /\ Parts \in Nat /\ Parts >= 1
  <2>1. TypeOK /\ Numbered /\ ChunksInLine /\ Sending  BY DEF IInv
  <2>2. op.phase \in Phases /\ op.off \in Nat  BY <2>1 DEF TypeOK, OpType
  <2>3. op.cmd = CmdOf(op.phase)  BY <2>1 DEF Numbered
  <2>4. Parts \in Nat /\ Parts >= 1  BY WireParameters
  <2> QED  BY <2>1, <2>2, <2>3, <2>4 DEF Orderly
<1>1. hs' = hs /\ alive' = alive /\ alive /\ op' = op /\ lost' = lost
  BY DEF PrinterStep, conn
<1>2. PICK r \in RequestType, fs \in Seq(FrameType) : Served(r, fs)
  BY <1>0, PrinterServes
<1>3. /\ Len(toPrinter) \in Nat /\ Len(toPrinter) > 0 /\ r = toPrinter[1]
      /\ Len(toPrinter') \in Nat /\ Len(toPrinter') = Len(toPrinter) - 1 /\ 1 \in 1..Len(toPrinter)
      /\ Len(toPrinter) # 0
      /\ \A i \in 1..Len(toPrinter') : i + 1 \in 1..Len(toPrinter) /\ toPrinter'[i] = toPrinter[i + 1]
  <2>1. /\ Len(toPrinter) \in Nat /\ Len(toPrinter) > 0 /\ r = toPrinter[1]
        /\ Len(toPrinter') = Len(toPrinter) - 1
        /\ \A i \in 1..Len(toPrinter') : i + 1 \in 1..Len(toPrinter) /\ toPrinter'[i] = toPrinter[i + 1]
    BY <1>2 DEF Served
  <2>2. Len(toPrinter') \in Nat /\ 1 \in 1..Len(toPrinter) /\ Len(toPrinter) # 0  BY <2>1
  <2> QED  BY <2>1, <2>2
<1>4. /\ Len(toClient) \in Nat /\ Len(fs) \in Nat /\ Len(toClient') = Len(toClient) + Len(fs)
      /\ \A i \in 1..Len(toClient') :
            \/ i \in 1..Len(toClient)
            \/ \E j \in 1..Len(fs) : i = Len(toClient) + j /\ toClient'[i] = fs[j]
  BY <1>2 DEF Served
<1>5. Adopts(r) /\ Replies(r, fs)  BY <1>2 DEF Served
<1>6. Mute(r) => Len(fs) = 0  BY <1>5 DEF Replies, Mute
<1>7. ASSUME Len(toClient) = 0
      PROVE  /\ Len(toClient') = Len(fs)
             /\ \A i \in 1..Len(toClient') : i \in 1..Len(fs) /\ toClient'[i] = fs[i]
  <2>1. Len(toClient') = Len(fs)  BY <1>4, <1>7
  <2> SUFFICES ASSUME NEW i \in 1..Len(toClient')
               PROVE  i \in 1..Len(fs) /\ toClient'[i] = fs[i]
    BY <2>1
  <2>2. i \notin 1..Len(toClient)  BY <1>7
  <2>3. PICK j \in 1..Len(fs) : i = Len(toClient) + j /\ toClient'[i] = fs[j]
    BY <1>4, <2>2
  <2>4. i = j  BY <1>4, <1>7, <2>3
  <2> QED  BY <2>3, <2>4
<1>8. Len(toPrinter') > 0 => Last' = Last
  <2> SUFFICES ASSUME Len(toPrinter') > 0 PROVE Last' = Last  OBVIOUS
  <2>1. Len(toPrinter') \in 1..Len(toPrinter') /\ Len(toPrinter') + 1 = Len(toPrinter)  BY <1>3
  <2> QED  BY <1>3, <2>1 DEF Last
<1>9. Len(toPrinter') = 0 => Last = r
  <2>1. Len(toPrinter') = 0 => Len(toPrinter) = 1  BY <1>3
  <2> QED  BY <1>3, <2>1 DEF Last
<1>10. CASE op.phase = "idle"
  <2>1. CASE hs = "Ready"
    <3>1. Len(toClient) = 0 /\ \A i \in 1..Len(toPrinter) : Mute(toPrinter[i])
      BY <1>0, <1>1, <1>10, <2>1 DEF Calm, Muted
    <3>2. Len(toClient') = 0  BY <1>3, <1>4, <1>6, <3>1
    <3>3. \A i \in 1..Len(toPrinter') : Mute(toPrinter'[i])  BY <1>3, <3>1
    <3> QED  BY <1>1, <1>10, <3>2, <3>3, Settles
  <2>2. CASE hs # "Ready"
    BY <1>1, <1>10, <2>2 DEF Orderly, Calm, Exchanging, Closing, Assembling
  <2> QED  BY <2>1, <2>2
<1>11. ASSUME Unanswered, Len(toPrinter') > 0
       PROVE  Unanswered' /\ Len(toClient') = 0
  <2>1. /\ Len(toClient) = 0 /\ Last.req = op.phase /\ Last.seq = op.seq
        /\ \A i \in 1..(Len(toPrinter) - 1) : Mute(toPrinter[i])
    BY <1>1, <1>11 DEF Unanswered, Muted
  <2>2. Mute(r)  BY <1>3, <1>11, <2>1
  <2>3. Len(toClient') = 0  BY <1>4, <1>6, <2>1, <2>2
  <2>4. \A i \in 1..(Len(toPrinter') - 1) : Mute(toPrinter'[i])
    <3> TAKE i \in 1..(Len(toPrinter') - 1)
    <3>1. i \in 1..Len(toPrinter') /\ i + 1 \in 1..(Len(toPrinter) - 1)  BY <1>3
    <3> QED  BY <1>3, <2>1, <3>1
  <2> QED  BY <1>1, <1>8, <1>11, <2>1, <2>3, <2>4 DEF Unanswered, Muted, Mute
<1>12. ASSUME Unanswered, Len(toPrinter') = 0
       PROVE  /\ r.req = op.phase /\ r.seq = op.seq /\ Len(toClient) = 0
              /\ Len(toClient') = Len(fs)
              /\ \A i \in 1..Len(toClient') : i \in 1..Len(fs) /\ toClient'[i] = fs[i]
  <2>1. Len(toClient) = 0 /\ Last.req = op.phase /\ Last.seq = op.seq
    BY <1>1, <1>12 DEF Unanswered
  <2> QED  BY <1>7, <1>9, <1>12, <2>1
<1>13. CASE op.phase \in {"ability", "list", "sub", "download"}
  <2>1. Unanswered  BY <1>0, <1>1, <1>3, <1>13 DEF Exchanging, Answered
  <2>2. op.cmd = op.phase  BY <1>0, <1>13 DEF CmdOf, Uploading
  <2>3. Calm' /\ Closing'  BY <1>1, <1>13 DEF Calm, Closing
  <2>4. CASE Len(toPrinter') > 0
    <3>1. Unanswered' /\ Len(toClient') = 0  BY <1>11, <2>1, <2>4
    <3>2. Exchanging'  BY <1>1, <1>13, <3>1 DEF Exchanging
    <3>3. Assembling'
      <4> SUFFICES ASSUME op.phase = "download", op.seq \notin lost PROVE Assembling'
        BY <1>1 DEF Assembling
      <4>1. Len(toClient) = 0  BY <2>1 DEF Unanswered
      <4>2. ~(Len(toClient) \in 1..(Parts + 1)) /\ ~(Len(toClient) = 1)  BY <1>0, <4>1
      <4>3. op.data = <<>>  BY <1>0, <4>2 DEF Assembling
      <4> QED  BY <1>1, <3>1, <4>3 DEF Assembling
    <3> QED  BY <2>3, <3>2, <3>3 DEF Orderly
  <2>5. CASE Len(toPrinter') = 0
    <3>1. /\ r.req = op.phase /\ r.seq = op.seq /\ Len(toClient') = Len(fs)
          /\ \A i \in 1..Len(toClient') : i \in 1..Len(fs) /\ toClient'[i] = fs[i]
          /\ Len(toClient) = 0
      BY <1>12, <2>1, <2>5
    <3>2. \A i \in 1..Len(fs) : /\ fs[i].cmd = op.cmd /\ fs[i].seq = op.seq
                                /\ i < Len(fs) <=> fs[i].result = "more"
      BY <1>5, <1>13, <2>2, <3>1 DEF Replies
    <3>3. Answered'  BY <1>1, <2>5, <3>1, <3>2 DEF Answered
    <3>4. op.phase \in {"ability", "list"} => Len(toClient') <= 1
      <4>1. op.phase \in {"ability", "list"} => Len(fs) = 1  BY <1>5, <3>1 DEF Replies
      <4> QED  BY <3>1, <4>1
    <3>5. Exchanging'  BY <1>1, <1>13, <3>3, <3>4 DEF Exchanging
    <3>6. Assembling'
      <4> SUFFICES ASSUME op.phase = "download", op.seq \notin lost PROVE Assembling'
        BY <1>1 DEF Assembling
      <4>1. ~(Len(toClient) \in 1..(Parts + 1)) /\ ~(Len(toClient) = 1)  BY <1>0, <3>1
      <4>2. op.data = <<>>  BY <1>0, <4>1 DEF Assembling
      <4>3. CASE Len(fs) = 1 /\ fs[1].result = "fail"
        <5>1. 1 \in 1..Len(toClient')  BY <3>1, <4>3
        <5>2. Len(toClient') = 1 /\ toClient'[1].result = "fail"  BY <3>1, <4>3, <5>1
        <5> QED  BY <5>2 DEF Assembling
      <4>4. CASE /\ Len(fs) = Parts + 1
                 /\ \A i \in 1..Len(fs) : fs[i].part = i - 1 /\ fs[i].result \in {"more", "done"}
        <5>1. Len(toClient') = Parts + 1 /\ Len(toClient') > Parts /\ Len(toClient') \in 1..(Parts + 1)
          BY <1>0, <3>1, <4>4
        <5>2. \A i \in 1..Len(toClient') :
                 /\ toClient'[i].part = Parts - Len(toClient') + i
                 /\ toClient'[i].result \in {"more", "done"}
          <6> TAKE i \in 1..Len(toClient')
          <6>1. toClient'[i].part = i - 1 /\ toClient'[i].result \in {"more", "done"}
            BY <3>1, <4>4
          <6>2. i - 1 = Parts - Len(toClient') + i  BY <1>0, <5>1
          <6> QED  BY <6>1, <6>2
        <5>3. Len(op'.data) = 0  BY <1>1, <4>2, EmptySeq
        <5> QED  BY <5>1, <5>2, <5>3 DEF Assembling
      <4> QED  BY <1>5, <3>1, <4>3, <4>4 DEF Replies
    <3> QED  BY <2>3, <3>5, <3>6 DEF Orderly
  <2> QED  BY <1>3, <2>4, <2>5
<1>14. CASE op.phase = "init"
  <2>1. Unanswered  BY <1>0, <1>3, <1>14 DEF Exchanging
  <2>2. Calm' /\ Closing' /\ Assembling'  BY <1>1, <1>14 DEF Calm, Closing, Assembling
  <2>3. CASE Len(toPrinter') > 0
    <3>1. Unanswered'  BY <1>11, <2>1, <2>3
    <3> QED  BY <1>1, <1>14, <2>2, <3>1 DEF Exchanging, Orderly
  <2>4. CASE Len(toPrinter') = 0
    <3>1. /\ r.req = "init" /\ r.seq = op.seq /\ Len(toClient') = Len(fs)
          /\ \A i \in 1..Len(toClient') : i \in 1..Len(fs) /\ toClient'[i] = fs[i]
      BY <1>12, <1>14, <2>1, <2>4
    <3>2. Len(fs) = 1 /\ \A i \in 1..Len(fs) : fs[i].cmd = "upload" /\ fs[i].seq = op.seq
      BY <1>5, <3>1 DEF Replies
    <3>3. Len(toClient') = 1 /\ 1 \in 1..Len(toClient')  BY <3>1, <3>2
    <3>4. toClient'[1].cmd = "upload" /\ toClient'[1].seq = op.seq  BY <3>1, <3>2, <3>3
    <3> QED  BY <1>1, <1>14, <2>2, <2>4, <3>3, <3>4 DEF Exchanging, Orderly
  <2> QED  BY <1>3, <2>3, <2>4
<1>15. CASE op.phase \in {"chunks", "final"}
  <2>1. /\ Len(toClient) = 0 /\ (op.phase = "final" => op.kb = 0)
        /\ r.req = "chunk" /\ r.seq = op.seq /\ r.off + r.size <= op.off
    BY <1>0, <1>3, <1>15 DEF Closing, Sending
  <2>2. \A i \in 1..Len(toPrinter') :
          toPrinter'[i].seq = op.seq /\ toPrinter'[i].off + toPrinter'[i].size <= op.off
    BY <1>0, <1>3, <1>15 DEF Closing
  <2>3. Calm' /\ Exchanging' /\ Assembling'  BY <1>1, <1>15 DEF Calm, Exchanging, Assembling
  <2>4. CASE ~r.md5
    <3>1. Len(toClient') = 0  BY <1>4, <1>6, <2>1, <2>4 DEF Mute
    <3>2. Closing'  BY <1>1, <2>1, <2>2, <3>1 DEF Closing
    <3> QED  BY <2>3, <3>2 DEF Orderly
  <2>5. CASE r.md5
    <3>1. GoodChunk(r) /\ r.off + r.size = prn.size  BY <1>0, <1>3, <2>1, <2>5, AllGood DEF GoodChunk
    <3>2. Len(toPrinter') = 0
      <4> SUFFICES ASSUME Len(toPrinter') > 0 PROVE FALSE  BY <1>3
      <4>1. 1 \in 1..(Len(toPrinter) - 1) /\ 1 + 1 \in 1..Len(toPrinter)  BY <1>3
      <4>2. toPrinter[1 + 1].req = "chunk"  BY <1>0, <1>15, <4>1 DEF Sending
      <4>3. toPrinter[1 + 1].off = r.off + r.size  BY <1>0, <1>3, <4>1, <4>2 DEF ChunksInLine, Follows
      <4>4. GoodChunk(toPrinter[1 + 1])  BY <1>0, <4>1, <4>2, AllGood
      <4>5. toPrinter[1 + 1].size > 0 /\ prn.size + toPrinter[1 + 1].size <= prn.size
        BY <3>1, <4>3, <4>4 DEF GoodChunk
      <4>6. toPrinter[1 + 1].size \in Nat /\ prn.size \in Nat
        BY <1>0, <4>1, RequestNumbers DEF TypeOK, PrnType
      <4> QED  BY <4>5, <4>6
    <3>3. /\ Len(toClient') = Len(fs)
          /\ \A i \in 1..Len(toClient') : i \in 1..Len(fs) /\ toClient'[i] = fs[i]
      BY <1>7, <2>1
    <3>4. Len(fs) <= 2 /\ \A i \in 1..Len(fs) : /\ fs[i].cmd = "upload" /\ fs[i].seq = op.seq
                                                /\ i < Len(fs) <=> fs[i].result = "more"
      BY <1>5, <2>1 DEF Replies
    <3>5. ~(op.phase = "chunks" /\ op.off < op.size)
      <4> SUFFICES ASSUME op.phase = "chunks", op.off < op.size PROVE FALSE  OBVIOUS
      <4>1. prn.size = op.size /\ op.size \in Nat  BY <1>0 DEF Sending, TypeOK, OpType
      <4> QED  BY <1>0, <2>1, <3>1, <4>1
    <3>6. Closing'
      <4>1. ~(Len(toPrinter') > 0) /\ \A i \in 1..Len(toPrinter') : FALSE  BY <3>2
      <4>2. /\ Len(toClient') <= 2
            /\ \A i \in 1..Len(toClient') :
              /\ toClient'[i].cmd = "upload" /\ toClient'[i].seq = op'.seq
              /\ i < Len(toClient') <=> toClient'[i].result = "more"
        BY <1>1, <3>3, <3>4
      <4> QED  BY <1>1, <2>1, <3>5, <4>1, <4>2 DEF Closing
    <3> QED  BY <2>3, <3>6 DEF Orderly
  <2> QED  BY <2>4, <2>5
<1> QED  BY <1>0, <1>10, <1>13, <1>14, <1>15 DEF Phases

(* The log only grows.                                                     *)
LEMMA LogGrows ==
    ASSUME TypeOK, NEW e \in EntryType, log' = Append(log, e)
    PROVE  /\ Len(log) \in Nat /\ Len(log') = Len(log) + 1 /\ log'[Len(log) + 1] = e
           /\ \A i \in 1..Len(log) : log'[i] = log[i]
           /\ \A i \in 1..Len(log') : i \in 1..Len(log) \/ i = Len(log) + 1
           /\ DownloadsOk' => DownloadsOk /\ (e.cmd = "download" => e.ok)
<1>1. /\ Len(log) \in Nat /\ Len(log') = Len(log) + 1 /\ log'[Len(log) + 1] = e
      /\ \A i \in 1..Len(log) : log'[i] = log[i]
  BY Ends DEF TypeOK
<1>2. \A i \in 1..Len(log') : i \in 1..Len(log) \/ i = Len(log) + 1  BY <1>1
<1>3. \A i \in 1..Len(log) : i \in 1..Len(log')  BY <1>1
<1>4. Len(log) + 1 \in 1..Len(log')  BY <1>1
<1>5. ASSUME DownloadsOk' PROVE DownloadsOk /\ (e.cmd = "download" => e.ok)
  <2>1. \A i \in 1..Len(log') : log'[i].cmd = "download" => log'[i].ok  BY <1>5 DEF DownloadsOk
  <2>2. DownloadsOk  BY <1>1, <1>3, <2>1 DEF DownloadsOk
  <2> QED  BY <1>1, <1>4, <2>1, <2>2
<1> QED  BY <1>1, <1>2, <1>5

(* How a client step ends an exchange: as a download only run_download     *)
(* reports success, on a frame that says "done".                           *)
Outcome(ok, why, data) ==
    /\ Return(ok, why, data)
    /\ ok /\ op.phase = "download" =>
          RecvDownload /\ Received.result = "done" /\ data = op.data \o Fragment(Received)

(* A step of the client that ends an exchange reports the outcome the      *)
(* receive loop came to; every other step leaves the log alone.            *)
LEMMA ClientReturns ==
    ASSUME IInv, ClientStep
    PROVE  \/ log' = log
           \/ \E ok \in BOOLEAN, why \in Why, data \in Data : Outcome(ok, why, data)
<1>0. TypeOK /\ op \in OpType /\ op.data \in Data /\ <<>> \in Data
  BY Reports DEF IInv, TypeOK, OpType
<1>1. ASSUME NEW why \in Why, Return(FALSE, why, <<>>)
      PROVE  \E ok \in BOOLEAN, y \in Why, data \in Data : Outcome(ok, y, data)
  BY <1>0, <1>1 DEF Outcome
<1>2. /\ {"ok", "local", "io", "bad reply", "skips", "wire", "cancelled", "refused"} \subseteq Why
      /\ TRUE \in BOOLEAN
  BY Reports
<1>3. ASSUME Return(TRUE, "ok", <<>>), op.phase # "download"
      PROVE  \E ok \in BOOLEAN, y \in Why, data \in Data : Outcome(ok, y, data)
  BY <1>0, <1>2, <1>3 DEF Outcome
<1>4. RecvPayload => Received \in FrameType  BY <1>0, ReadSome
<1>5. CASE IoError \/ CancelSeen  BY <1>1, <1>2, <1>5 DEF IoError, CancelSeen
<1>6. CASE RecvAbility  BY <1>1, <1>2, <1>3, <1>6 DEF RecvAbility
<1>7. CASE SkipStale  BY <1>1, <1>2, <1>7 DEF SkipStale
<1>8. CASE RecvList  BY <1>1, <1>2, <1>3, <1>8 DEF RecvList
<1>9. CASE RecvSub
  <2> DEFINE data == IF Fragment(Received) # <<>> THEN Fragment(Received) ELSE op.data
  <2>1. data \in Data  BY <1>0, <1>4, <1>9, FragmentOf DEF RecvSub
  <2>2. CASE ~Matches(Received) \/ Received.result = "more"  BY <1>9, <2>2 DEF RecvSub
  <2>3. CASE Matches(Received) /\ Received.result # "more" /\ data # <<>>
    <3>1. Return(TRUE, "ok", data) /\ op.phase # "download"  BY <1>9, <2>3 DEF RecvSub
    <3> HIDE DEF data
    <3> QED  BY <1>2, <2>1, <3>1 DEF Outcome
  <2>4. CASE Matches(Received) /\ Received.result # "more" /\ data = <<>>
    <3>1. Return(FALSE, "wire", <<>>)  BY <1>9, <2>4 DEF RecvSub
    <3> QED  BY <1>1, <1>2, <3>1
  <2> QED  BY <2>2, <2>3, <2>4
<1>10. CASE RecvDownload
  <2> DEFINE data == op.data \o Fragment(Received)
  <2>1. data \in Data
    <3>1. Fragment(Received) \in Data  BY <1>4, <1>10, FragmentOf DEF RecvDownload
    <3> QED  BY <1>0, <3>1, Joined DEF Data
  <2>2. CASE Received.result = "more"  BY <1>10, <2>2 DEF RecvDownload
  <2>3. CASE Received.result = "done"
    <3>1. Return(TRUE, "ok", data)  BY <1>10, <2>3 DEF RecvDownload
    <3>2. Outcome(TRUE, "ok", data)  BY <1>10, <2>3, <3>1 DEF Outcome
    <3> QED  BY <1>2, <2>1, <3>2
  <2>4. CASE Received.result \notin {"more", "done"}
    <3>1. Return(FALSE, "wire", <<>>)  BY <1>10, <2>4 DEF RecvDownload
    <3> QED  BY <1>1, <1>2, <3>1
  <2> QED  BY <2>2, <2>3, <2>4
<1>11. CASE RecvUploadInit
  <2>1. CASE ~InitAccepted(Received)  BY <1>1, <1>2, <1>11, <2>1 DEF RecvUploadInit
  <2>2. CASE InitAccepted(Received) /\ Received.off > op.size
    BY <1>1, <1>2, <1>11, <2>2 DEF RecvUploadInit
  <2>3. CASE InitAccepted(Received) /\ ~(Received.off > op.size)
    BY <1>11, <2>3 DEF RecvUploadInit
  <2> QED  BY <2>1, <2>2, <2>3
<1>12. CASE SendChunk \/ AwaitFinal  BY <1>12 DEF SendChunk, AwaitFinal
<1>13. CASE RecvUploadFinal
  <2>1. CASE Received.result \in {"done", "exist"}
    BY <1>3, <1>13, <2>1 DEF RecvUploadFinal
  <2>2. CASE Received.result = "more" /\ op.kb + 1 < MaxTries
    BY <1>13, <2>2 DEF RecvUploadFinal
  <2>3. CASE Received.result \notin {"done", "exist"} /\ ~(Received.result = "more" /\ op.kb + 1 < MaxTries)
    BY <1>1, <1>2, <1>13, <2>3 DEF RecvUploadFinal
  <2> QED  BY <2>1, <2>2, <2>3
<1> QED  BY <1>5, <1>6, <1>7, <1>8, <1>9, <1>10, <1>11, <1>12, <1>13 DEF ClientStep

(* What any step adds to the log.                                          *)
LEMMA Logged ==
    ASSUME IInv, [Next]_vars
    PROVE  \/ log' = log
           \/ \E e \in EntryType :
                 /\ log' = Append(log, e)
                 /\ e.cmd = "download" /\ e.ok =>
                       /\ RecvDownload /\ Received.result = "done"
                       /\ e.seq = op.seq /\ e.data = op.data \o Fragment(Received)
<1>0. TypeOK /\ wireSeq \in Nat /\ <<>> \in Data  BY Reports DEF IInv, TypeOK
<1>1. CASE ClientStep
  <2> SUFFICES ASSUME NEW ok \in BOOLEAN, NEW why \in Why, NEW data \in Data, Outcome(ok, why, data)
               PROVE  \E e \in EntryType :
                         /\ log' = Append(log, e)
                         /\ e.cmd = "download" /\ e.ok =>
                               /\ RecvDownload /\ Received.result = "done"
                               /\ e.seq = op.seq /\ e.data = op.data \o Fragment(Received)
    BY <1>1, ClientReturns
  <2>1. PICK e \in EntryType : /\ log' = Append(log, e) /\ e.cmd = op.cmd /\ e.seq = op.seq
                               /\ e.ok = ok /\ e.data = data
    BY <1>0, Returned DEF Outcome
  <2>2. op.cmd = "download" => op.phase = "download"
    <3>1. op.cmd = CmdOf(op.phase)  BY DEF IInv, Numbered
    <3> QED  BY <3>1 DEF CmdOf, Uploading
  <2> QED  BY <2>1, <2>2 DEF Outcome
<1>2. CASE UploadLocalError
  <2> DEFINE e == [cmd |-> "upload", seq |-> wireSeq, ok |-> FALSE, why |-> "local", data |-> <<>>]
  <2>1. e \in EntryType /\ e.cmd = "upload"  BY <1>0 DEF EntryType, AllCmds, Why
  <2>2. log' = Append(log, e)  BY <1>2 DEF UploadLocalError
  <2> HIDE DEF e
  <2> QED  BY <2>1, <2>2
<1>3. CASE ~ClientStep /\ ~UploadLocalError
  <2>1. CASE Dial \/ Disconnect \/ Cancel \/ Drop \/ PrinterStep \/ UNCHANGED vars
    BY <2>1 DEF Dial, Disconnect, Cancel, Drop, PrinterStep, vars
  <2>2. CASE Handshake
    BY <2>2 DEF Handshake, SendLogin, LoginAck, SetupAck, HandshakeIdle, HandshakeFailed, HandshakeStep
  <2>3. CASE Start
    BY <1>3, <2>3 DEF Start, BeginAbility, BeginDownload, BeginList, BeginSub, BeginUpload, Begin
  <2> QED  BY <1>3, <2>1, <2>2, <2>3 DEF Next
<1> QED  BY <1>1, <1>2, <1>3

(* The handshake stays one request at a time.                              *)
LEMMA GreetingStep ==
    ASSUME IInv, Greeting, [Next]_vars
    PROVE  Greeting'
<1>1. CASE Dial \/ Handshake \/ Disconnect  BY <1>1, ConnectOrderly
<1>2. CASE PrinterStep  BY <1>2, PrinterGreets
<1>3. CASE Cancel \/ Drop \/ UNCHANGED vars
  <2>1. hs' = hs /\ toPrinter' = toPrinter /\ toClient' = toClient
    BY <1>3 DEF Cancel, Drop, vars, conn, wire, inbox
  <2> QED  BY <2>1 DEF Greeting
<1>4. CASE Start
  <2>1. hs' = "Ready"
    BY <1>4 DEF Start, BeginAbility, BeginDownload, BeginList, BeginSub, BeginUpload, Begin,
                UploadLocalError, conn
  <2> QED  BY <2>1 DEF Greeting
<1>5. CASE ClientStep
  <2>1. hs' = hs
    BY <1>5 DEF ClientStep, IoError, RecvAbility, SkipStale, RecvList, RecvSub, RecvDownload,
                CancelSeen, RecvUploadInit, SendChunk, AwaitFinal, RecvUploadFinal, conn
  <2>2. op.phase # "idle"
    <3>1. op.phase = "idle" => op = Idle  BY DEF IInv, Numbered
    <3> QED
      BY <1>5, <3>1 DEF ClientStep, IoError, RecvAbility, SkipStale, RecvList, RecvSub, RecvDownload,
                CancelSeen, RecvUploadInit, SendChunk, AwaitFinal, RecvUploadFinal
  <2>3. hs' = "Ready"  BY <2>1, <2>2 DEF IInv, Numbered
  <2> QED  BY <2>3 DEF Greeting
<1> QED  BY <1>1, <1>2, <1>3, <1>4, <1>5 DEF Next

(* As long as every download ends well, the exchange stays orderly.        *)
LEMMA OrderlyStep ==
    ASSUME IInv, Greeting, DownloadsOk => Orderly, MaxTries > 1, [Next]_vars, DownloadsOk'
    PROVE  Orderly'
<1>0. TypeOK /\ wireSeq \in Nat  BY DEF IInv, TypeOK
<1>1. DownloadsOk
  <2>1. CASE log' = log  BY <2>1 DEF DownloadsOk
  <2>2. CASE \E e \in EntryType : log' = Append(log, e)  BY <1>0, <2>2, LogGrows
  <2> QED  BY <2>1, <2>2, Logged
<1>2. Orderly  BY <1>1
<1>3. ASSUME op.phase = "download" PROVE ~\E why \in Why : Return(FALSE, why, <<>>)
  <2> SUFFICES ASSUME NEW why \in Why, Return(FALSE, why, <<>>) PROVE FALSE  OBVIOUS
  <2>1. <<>> \in Data /\ FALSE \in BOOLEAN  BY Reports
  <2>2. PICK e \in EntryType : log' = Append(log, e) /\ e.cmd = op.cmd /\ e.ok = FALSE
    BY <1>0, <2>1, Returned
  <2>3. op.cmd = "download"  BY <1>3 DEF IInv, Numbered, CmdOf, Uploading
  <2> QED  BY <1>0, <2>2, <2>3, LogGrows
<1>4. CASE Dial \/ Handshake \/ Disconnect
  <2>1. CASE hs' = "Ready"  BY <1>4, <2>1, ConnectOrderly
  <2>2. CASE hs' # "Ready"
    <3>1. IInv'  BY <1>4, ConnectSteps
    <3>2. op'.phase = "idle"  BY <2>2, <3>1 DEF IInv, Numbered
    <3> QED  BY <2>2, <3>2 DEF Orderly, Calm, Exchanging, Closing, Assembling
  <2> QED  BY <2>1, <2>2
<1>5. CASE Start
  <2>1. ASSUME NEW c \in {"ability", "download", "list", "sub"}, Begin(c, c, Request(c, wireSeq))
        PROVE  Orderly'
    <3>1. /\ Request(c, wireSeq) \in RequestType /\ Request(c, wireSeq).seq = wireSeq
          /\ Request(c, wireSeq).req = c
      BY <1>0, <2>1 DEF Request, RequestType, Requests
    <3>2. c \in AllCmds /\ c \in Phases /\ c \notin {"idle", "chunks", "final"}
      BY <2>1 DEF AllCmds, Phases
    <3> QED  BY <1>2, <2>1, <3>1, <3>2, BeginOrderly
  <2>2. CASE BeginUpload
    <3>1. PICK n \in FileSizes :
              Begin("upload", "init", [Request("init", wireSeq) EXCEPT !.size = n])
      BY <2>2 DEF BeginUpload
    <3> DEFINE r == [Request("init", wireSeq) EXCEPT !.size = n]
    <3>2. n \in Nat  BY WireParameters
    <3>3. r \in RequestType /\ r.seq = wireSeq /\ r.req = "init"
      BY <1>0, <3>2 DEF Request, RequestType, Requests
    <3>4. Begin("upload", "init", r)  BY <3>1
    <3> HIDE DEF r
    <3>5. "upload" \in AllCmds /\ "init" \in Phases  BY DEF AllCmds, Phases
    <3> QED  BY <1>2, <3>3, <3>4, <3>5, BeginOrderly
  <2>3. CASE UploadLocalError
    <3>1. /\ hs' = hs /\ alive' = alive /\ toPrinter' = toPrinter /\ toClient' = toClient
          /\ op' = op /\ op.phase = "idle"
      BY <2>3 DEF UploadLocalError, conn, wire, inbox, Idle
    <3>2. Calm'  BY <1>2, <3>1 DEF Orderly, Calm, Muted, Mute
    <3> QED  BY <3>1, <3>2 DEF Orderly, Exchanging, Closing, Assembling
  <2> QED  BY <1>5, <2>1, <2>2, <2>3 DEF Start, BeginAbility, BeginDownload, BeginList, BeginSub
<1>6. CASE ClientStep
  <2>1. CASE IoError \/ (CancelSeen /\ op.phase = "chunks")  BY <1>2, <2>1, BreaksOrderly
  <2>2. CASE CancelSeen /\ op.phase # "chunks"
    <3>1. op.phase = "download" /\ Return(FALSE, "cancelled", <<>>)  BY <2>2 DEF CancelSeen
    <3> QED  BY <1>3, <3>1, Reports
  <2>3. CASE RecvAbility \/ RecvList \/ RecvSub  BY <1>2, <2>3, QueriesOrderly
  <2>4. CASE SkipStale  BY <1>2, <2>4, NothingStale
  <2>5. CASE RecvDownload
    <3>1. CASE Received.result \in {"more", "done"}  BY <1>2, <2>5, <3>1, DownloadOrderly
    <3>2. CASE Received.result \notin {"more", "done"}
      <4>1. op.phase = "download" /\ Return(FALSE, "wire", <<>>)  BY <2>5, <3>2 DEF RecvDownload
      <4> QED  BY <1>3, <4>1, Reports
    <3> QED  BY <3>1, <3>2
  <2>6. CASE RecvUploadInit  BY <1>2, <2>6, InitReplyOrderly
  <2>7. CASE SendChunk \/ AwaitFinal  BY <1>2, <2>7, ChunksOrderly
  <2>8. CASE RecvUploadFinal  BY <1>2, <2>8, FinalOrderly
  <2> QED  BY <1>6, <2>1, <2>2, <2>3, <2>4, <2>5, <2>6, <2>7, <2>8 DEF ClientStep
<1>7. CASE PrinterStep  BY <1>2, <1>7, PrinterOrderly
<1>8. CASE Cancel \/ Drop \/ UNCHANGED vars
  <2>1. /\ hs' = hs /\ (alive' => alive) /\ toPrinter' = toPrinter /\ toClient' = toClient
        /\ op' = op /\ lost' = lost /\ prn' = prn
    BY <1>8 DEF Cancel, Drop, vars, conn, wire, inbox
  <2>2. Unanswered => Unanswered'  BY <2>1 DEF Unanswered, Muted, Mute, Last
  <2>3. Answered => Answered'  BY <2>1 DEF Answered
  <2>4. Calm'  BY <1>2, <2>1 DEF Orderly, Calm, Muted, Mute
  <2>5. Exchanging'  BY <1>2, <2>1, <2>2, <2>3 DEF Orderly, Exchanging
  <2>6. Closing'  BY <1>2, <2>1 DEF Orderly, Closing
  <2>7. Assembling'  BY <1>2, <2>1, <2>2 DEF Orderly, Assembling
  <2> QED  BY <2>4, <2>5, <2>6, <2>7 DEF Orderly
<1> QED  BY <1>4, <1>5, <1>6, <1>7, <1>8 DEF Next

(* A new entry of the log is an intact download, or none.                  *)
LEMMA IntactStep ==
    ASSUME IInv, DownloadsOk => Orderly, DownloadIntact, [Next]_vars
    PROVE  DownloadIntact'
<1>0. TypeOK  BY DEF IInv
<1>1. lost \subseteq lost'
  <2>1. RecvPayload => lost \subseteq lost'  BY DEF RecvPayload
  <2>2. CASE lost' = lost  BY <2>2
  <2>3. CASE RecvPayload  BY <2>1, <2>3
  <2>4. CASE Dial \/ Disconnect \/ Cancel \/ Drop \/ PrinterStep \/ UNCHANGED vars
    BY <2>4 DEF Dial, Disconnect, Cancel, Drop, PrinterStep, vars, wire, inbox
  <2>5. CASE Handshake
    BY <2>1, <2>5 DEF Handshake, SendLogin, LoginAck, SetupAck, HandshakeIdle, HandshakeFailed, inbox
  <2>6. CASE Start
    BY <2>6 DEF Start, BeginAbility, BeginDownload, BeginList, BeginSub, BeginUpload, Begin,
                UploadLocalError, wire, inbox
  <2>7. CASE ClientStep
    BY <2>1, <2>7 DEF ClientStep, IoError, RecvAbility, SkipStale, RecvList, RecvSub, RecvDownload,
          CancelSeen, RecvUploadInit, SendChunk, SendWithBinary, AwaitFinal, RecvUploadFinal, wire, inbox
  <2> QED  BY <2>4, <2>5, <2>6, <2>7 DEF Next
<1>2. CASE log' = log  BY <1>1, <1>2 DEF DownloadIntact
<1>3. CASE log' # log
  <2>1. PICK e \in EntryType :
          /\ log' = Append(log, e)
          /\ e.cmd = "download" /\ e.ok =>
                /\ RecvDownload /\ Received.result = "done"
                /\ e.seq = op.seq /\ e.data = op.data \o Fragment(Received)
    BY <1>3, Logged
  <2>2. /\ Len(log) \in Nat /\ Len(log') = Len(log) + 1 /\ log'[Len(log) + 1] = e
        /\ \A i \in 1..Len(log) : log'[i] = log[i]
        /\ \A i \in 1..Len(log') : i \in 1..Len(log) \/ i = Len(log) + 1
    BY <1>0, <2>1, LogGrows
  <2> SUFFICES ASSUME NEW i \in 1..Len(log'),
                      log'[i].cmd = "download", log'[i].ok, log'[i].seq \notin lost',
                      \A k \in 1..(i - 1) : log'[k].cmd = "download" => log'[k].ok
               PROVE  log'[i].data = [p \in 1..Parts |-> <<log'[i].seq, p>>]
    BY DEF DownloadIntact
  <2>3. CASE i \in 1..Len(log)
    <3>1. \A k \in 1..(i - 1) : k \in 1..Len(log)  BY <2>2, <2>3
    <3>2. \A k \in 1..(i - 1) : log[k].cmd = "download" => log[k].ok  BY <2>2, <3>1
    <3>3. log'[i] = log[i] /\ log[i].seq \notin lost  BY <1>1, <2>2, <2>3
    <3> QED  BY <2>3, <3>2, <3>3 DEF DownloadIntact
  <2>4. CASE i = Len(log) + 1
    <3>1. \A k \in 1..Len(log) : k \in 1..(i - 1)  BY <2>2, <2>4
    <3>2. DownloadsOk  BY <2>2, <3>1 DEF DownloadsOk
    <3>3. /\ RecvDownload /\ Received.result = "done"
          /\ e.seq = op.seq /\ e.data = op.data \o Fragment(Received) /\ op.seq \notin lost'
      BY <2>1, <2>2, <2>4
    <3>4. op.data \o Fragment(Received) = [p \in 1..Parts |-> <<op.seq, p>>]
      BY <3>2, <3>3, DownloadOrderly
    <3> QED  BY <2>2, <2>4, <3>3, <3>4
  <2> QED  BY <2>2, <2>3, <2>4
<1> QED  BY <1>2, <1>3

(***************************************************************************)
(* Theorems.                                                               *)
(***************************************************************************)

(* The inductive invariant: the queues, the chunks on their way and the    *)
(* exchange in progress fit together.                                      *)
THEOREM WireInvariant == Spec => []IInv
<1>1. Init => IInv
  <2> SUFFICES ASSUME Init PROVE IInv  OBVIOUS
  <2>1. /\ hs = "closed" /\ alive = FALSE /\ cancelled = FALSE /\ wireSeq = 1
        /\ toPrinter = <<>> /\ toClient = <<>> /\ log = <<>> /\ op = Idle /\ prn = NoUpload
    BY DEF Init
  <2>2. Len(<<>>) = 0 /\ \A S : <<>> \in Seq(S)  BY EmptySeq
  <2>3. Idle \in OpType /\ Idle.phase = "idle" /\ Idle.cmd = "none"
    BY <2>2 DEF Idle, OpType, AllCmds, Phases, Data
  <2>4. NoUpload \in PrnType /\ ~NoUpload.bad  BY DEF NoUpload, PrnType
  <2>5. TypeOK  BY <2>1, <2>2, <2>3, <2>4 DEF TypeOK
  <2>6. Numbered /\ ChunksInLine /\ Sending /\ Asked /\ Verdicts /\ OwnImage
    BY <2>1, <2>2, <2>3 DEF Numbered, CmdOf, Uploading, ChunksInLine, Sending, Asked, Verdicts, OwnImage
  <2>7. ChunksTile /\ UploadStored /\ SubFileOwn
    BY <2>1, <2>2, <2>4 DEF ChunksTile, UploadStored, SubFileOwn
  <2> QED  BY <2>5, <2>6, <2>7 DEF IInv
<1>2. IInv /\ [Next]_vars => IInv'
  <2> SUFFICES ASSUME IInv, [Next]_vars PROVE IInv'  OBVIOUS
  <2>1. CASE Dial \/ Handshake \/ Disconnect  BY <2>1, ConnectSteps
  <2>2. CASE Start  BY <2>2, StartSteps
  <2>3. CASE ClientStep
    BY <2>3, ReceiveSteps, InitReply, ChunkSent, OtherSteps DEF ClientStep
  <2>4. CASE Cancel \/ Drop \/ UNCHANGED vars  BY <2>4, OtherSteps
  <2>5. CASE PrinterStep  BY <2>5, PrinterSteps
  <2> QED  BY <2>1, <2>2, <2>3, <2>4, <2>5 DEF Next
<1> QED  BY <1>1, <1>2, PTL DEF Spec

(* The chunks of an upload tile the file, whatever chunk size and resume   *)
(* offset the printer asked for and however earlier uploads ended.         *)
THEOREM UploadsTile == Spec => []ChunksTile
<1>1. IInv => ChunksTile  BY DEF IInv
<1> QED  BY <1>1, WireInvariant, PTL

(* upload reports success only for a file the printer has stored.          *)
THEOREM UploadsStored == Spec => []UploadStored
<1>1. IInv => UploadStored  BY DEF IInv
<1> QED  BY <1>1, WireInvariant, PTL

(* A sub_file exchange returns an image of its own request, also after     *)
(* downloads that were cancelled and left frames in the stream.            *)
THEOREM SubFilesOwn == Spec => []SubFileOwn
<1>1. IInv => SubFileOwn  BY DEF IInv
<1> QED  BY <1>1, WireInvariant, PTL

(* run_download, which takes whatever frame comes next, still returns      *)
(* exactly the fragments of its own file, as long as no frame of it was    *)
(* discarded and every earlier download ended well.  One progress reply    *)
(* must not end an upload, which the 32 attempts of the code rule out.     *)
THEOREM DownloadsIntact ==
    ASSUME MaxTries > 1
    PROVE  Spec => []DownloadIntact
<1>1. Init => TInv
  <2> SUFFICES ASSUME Init PROVE TInv  OBVIOUS
  <2>1. Len(<<>>) = 0  BY EmptySeq
  <2>2. hs = "closed" /\ toPrinter = <<>> /\ toClient = <<>> /\ log = <<>> /\ op.phase = "idle"
    BY DEF Init, Idle
  <2>3. Greeting /\ DownloadIntact  BY <2>1, <2>2 DEF Greeting, DownloadIntact
  <2>4. Orderly  BY <2>1, <2>2 DEF Orderly, Calm, Exchanging, Closing, Assembling
  <2> QED  BY <2>3, <2>4 DEF TInv
<1>2. IInv /\ TInv /\ [Next]_vars => TInv'
  BY GreetingStep, OrderlyStep, IntactStep DEF TInv
<1>3. TInv => DownloadIntact  BY DEF TInv
<1> QED  BY <1>1, <1>2, <1>3, WireInvariant, PTL DEF Spec
=============================================================================
