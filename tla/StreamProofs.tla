---------------------------- MODULE StreamProofs ----------------------------
(***************************************************************************)
(* Proofs about the two ends of a live-view stream: RtspStream, where the  *)
(* printer's NAL units become samples, and DshowFilter, whose worker pulls *)
(* samples and pushes them into the filter graph.                          *)
(*                                                                         *)
(* RtspStream: for every size of the queue, any number of NAL units in any *)
(* access units and any interleaving of fragments, responses and threads,  *)
(* the host gets whole access units in order; and close_tls finds no       *)
(* thread left that uses the session.  DshowFilter: for any number of      *)
(* buffers and pin enumerators, the library is unmapped only when nothing  *)
(* of it is left.                                                          *)
(***************************************************************************)
EXTENDS RtspStream, DshowFilter, SequenceTheorems, TLAPS

(***************************************************************************)
(* Threads.                                                                *)
(***************************************************************************)

HostType == [at : Stages \cup {"new", "failed", "run", "joinWorker", "joinKeepalive", "closed"},
             got : {"none", "stream_end", "error", "success"}]

(* The threads exist from PLAY's response on; stop() goes on only when the *)
(* worker, then the keepalive thread has been joined.                      *)
Joined ==
    /\ host \in HostType /\ ssl \in BOOLEAN
    /\ ssl <=> host.at \in Stages \cup {"run", "joinWorker", "joinKeepalive"}
    /\ host.at \in {"new", "failed"} \cup Stages => wk = "none" /\ ka = "none"
    /\ host.at \in {"joinKeepalive", "closed"} => wk = "done"
    /\ host.at = "closed" => ka = "done"

(***************************************************************************)
(* Types.                                                                  *)
(***************************************************************************)

Kinds == {"idr", "slice", "ps"}
Nal == [id : Nat, ts : Nat, kind : Kinds, end : BOOLEAN]
One == {<<n>> : n \in Nal}
Msg == [k : {"ok", "challenge", "refuse"}, nonce : Nat] \cup [k : {"rtcp", "junk"}]
       \cup [k : {"rtp"}, frag : {"whole", "start", "end"}, nals : One]
AuType == [open : BOOLEAN, ts : Nat, nals : Seq(Nat), idr : BOOLEAN]
Sample == [ts : Nat, nals : Seq(Nat), flags : {"sync", "none", "eos", "err"}]
PrinterType == [nonce : Nat, req : Stages \cup {"none"}, cred : Nat, play : BOOLEAN,
                sent : Seq([ts : Nat, kind : Kinds]), open : BOOLEAN, part : One \cup {<<>>}]

TypeOK ==
    /\ nonce \in Nat /\ wire \in Seq(Msg) /\ naluQ \in Seq(Nal) /\ fu \in One \cup {<<>>}
    /\ au \in AuType /\ ready \in Seq(Sample) /\ printer \in PrinterType

(***************************************************************************)
(* The way of the NAL units.  The worker has taken the first t of them,    *)
(* and d have been decoded.                                                *)
(***************************************************************************)

sent == printer.sent

(* Timestamps do not go back, and an open access unit is the last one.     *)
Monotone ==
    /\ \A m, n \in 1..Len(sent) : m <= n => sent[m].ts <= sent[n].ts
    /\ \A n \in 1..Len(sent) : sent[n].ts >= 1
    /\ printer.open => Len(sent) > 0
    /\ printer.part # <<>> =>
          printer.open /\ ~printer.part[1].end /\ printer.part[1].id = Len(sent)

(* An access unit to which the printer adds nothing more.                  *)
Ended(ts) == ts <= LastTs /\ (printer.open => ts < LastTs)

(* A NAL unit on its way is one that was sent, and its mark is the truth.  *)
Genuine(n) ==
    /\ n.id \in 1..Len(sent) /\ n.ts = sent[n.id].ts /\ n.kind = sent[n.id].kind
    /\ n.end => Ended(n.ts) /\ \A m \in 1..Len(sent) : sent[m].ts = n.ts => m <= n.id

Rtp == {i \in 1..Len(wire) : wire[i].k = "rtp"}
NalOf(i) == wire[i].nals[1]

(* What is decoded waits in nalu_queue, in order and without a gap.        *)
Decoded(t, d) ==
    /\ t <= d /\ d <= Len(sent) /\ Len(naluQ) = d - t
    /\ \A i \in 1..Len(naluQ) : naluQ[i].id = t + i /\ Genuine(naluQ[i])

(* What is not decoded yet is on the wire: the packets are in order, the   *)
(* fragments of a NAL unit follow each other, and none is missing, save    *)
(* for the rest of the NAL unit the printer is about to complete.          *)
Packet(d) == \A i \in Rtp :
    /\ Genuine(NalOf(i)) /\ NalOf(i).id > d
    /\ wire[i].frag = "start" => ~NalOf(i).end
Ordered == \A i, j \in Rtp : i < j =>
    \/ NalOf(i).id < NalOf(j).id
    \/ NalOf(i).id = NalOf(j).id /\ wire[i].frag = "start" /\ wire[j].frag = "end"
Complete(d) == \A n \in (d + 1)..Len(sent) :
    \/ \E i \in Rtp : NalOf(i).id = n /\ wire[i].frag # "start"
    \/ n = Len(sent) /\ printer.part # <<>>
PartLast(d) == printer.part # <<>> =>
    /\ Genuine(printer.part[1]) /\ d < Len(sent)
    /\ \A i \in Rtp : NalOf(i).id = Len(sent) => wire[i].frag = "start"

(* fu_buf holds the NAL unit that is decoded next, and a last fragment has *)
(* its first one before it.                                                *)
FuNext(d) == fu # <<>> =>
    /\ Genuine(fu[1]) /\ fu[1].id = d + 1
    /\ \A i \in Rtp : NalOf(i).id = d + 1 => wire[i].frag = "end"
Started(d) == \A i \in Rtp : wire[i].frag = "end" =>
    \/ fu # <<>> /\ NalOf(i).id = d + 1
    \/ \E j \in Rtp : j < i /\ wire[j].frag = "start" /\ NalOf(j).id = NalOf(i).id
PartStarted(d) == printer.part # <<>> =>
    \/ fu # <<>> /\ d + 1 = Len(sent)
    \/ \E j \in Rtp : wire[j].frag = "start" /\ NalOf(j).id = Len(sent)

Undecoded(d) == /\ Packet(d) /\ Ordered /\ Complete(d) /\ PartLast(d)
                /\ FuNext(d) /\ Started(d) /\ PartStarted(d)

OnItsWay(t, d) == Decoded(t, d) /\ Undecoded(d)

(***************************************************************************)
(* What the worker has made of the first t: an access unit u and a queue q *)
(* of samples.                                                             *)
(***************************************************************************)

Taken(t, ts) == {n \in 1..t : sent[n].ts = ts /\ sent[n].kind # "ps"}
Increasing(q) == \A a, b \in 1..Len(q) : a < b => q[a] < q[b]

(* The access unit being put together has all that was taken of it, and    *)
(* nothing was taken of a later one; without one no access unit is partly  *)
(* taken.                                                                  *)
Assembled(u, t) ==
    /\ u.open =>
          /\ u.nals # <<>> /\ Range(u.nals) = Taken(t, u.ts) /\ Increasing(u.nals)
          /\ u.idr <=> \E n \in Taken(t, u.ts) : sent[n].kind = "idr"
          /\ \A n \in 1..Len(sent) : n > t => sent[n].ts >= u.ts
          /\ \A n \in 1..t : sent[n].kind # "ps" => sent[n].ts <= u.ts
          /\ u.ts >= 1 /\ u.ts <= LastTs
    /\ ~u.open => \A n \in 1..t : sent[n].kind # "ps" =>
          Ended(sent[n].ts) /\ \A m \in 1..Len(sent) : m > t => sent[m].ts > sent[n].ts

(* The access unit of a sample has ended, and what is still to be taken or *)
(* put together is of later ones; markers have no timestamp.               *)
IsUnit(s) == s.flags \in {"sync", "none"}
Queued(q, u, t) ==
    \A i \in 1..Len(q) :
        /\ ~IsUnit(q[i]) => q[i].ts = 0
        /\ IsUnit(q[i]) =>
              /\ q[i].ts >= 1 /\ Ended(q[i].ts)
              /\ \A n \in 1..Len(sent) : n > t => sent[n].ts > q[i].ts
              /\ u.open => q[i].ts < u.ts

(* WholeUnits, of any queue.                                               *)
WholeSample(s) ==
    /\ Range(s.nals) = Kept(s.ts) /\ Increasing(s.nals)
    /\ s.flags = "sync" <=> \E n \in Kept(s.ts) : sent[n].kind = "idr"
Whole(q) ==
    \A i \in 1..Len(q) : IsUnit(q[i]) =>
        WholeSample(q[i]) /\ \A j \in 1..(i - 1) : q[j].ts < q[i].ts

Made(q, u, t) == Assembled(u, t) /\ Queued(q, u, t) /\ Whole(q)

Pipe == Monotone /\ \E t, d \in Nat : OnItsWay(t, d) /\ Made(ready, au, t)

IInv == TypeOK /\ Pipe

(***************************************************************************)
(* ThreadsBeforeClose.                                                     *)
(***************************************************************************)

(* Every step keeps Joined.                                                *)
LEMMA JoinedStep ==
    ASSUME Joined, [Next]_vars
    PROVE  Joined'
<1> USE DEF Joined, Stages, HostType
<1>1. CASE Start
  BY <1>1 DEF Start
<1>2. CASE StartFails \/ BadReply
  BY <1>2 DEF StartFails, BadReply
<1>3. CASE AwaitFrame \/ AwaitChallenge
  BY <1>3 DEF AwaitFrame, AwaitChallenge, clientVars
<1>4. CASE AwaitOk
  <2>1. CASE host.at = "PLAY"
    BY <1>4, <2>1 DEF AwaitOk, Streaming
  <2>2. CASE host.at # "PLAY"
    <3>1. NextStage[host.at] \in Stages
      BY <1>4, <2>2 DEF AwaitOk, NextStage
    <3>2. host' = [host EXCEPT !.at = NextStage[host.at]] /\ UNCHANGED <<wk, ka, ssl>>
      BY <1>4, <2>2 DEF AwaitOk
    <3> QED
      BY <1>4, <3>1, <3>2 DEF AwaitOk
  <2> QED
    BY <2>1, <2>2
<1>5. CASE WorkerStep
  BY <1>5 DEF WorkerStep, PullMessage, TakeNalu, ReadEnds, WorkerLoop, clientVars
<1>6. CASE KeepaliveStep
  BY <1>6 DEF KeepaliveStep, KeepaliveWake, KeepaliveWrite, clientVars
<1>7. CASE TryPull \/ Stop
  <2>1. CASE TryPull
    <3>1. ReadRtsp(Head(ready).flags) \in {"none", "stream_end", "error", "success"}
      BY DEF ReadRtsp
    <3> QED
      BY <2>1, <3>1 DEF TryPull, clientVars
  <2>2. CASE Stop
    BY <2>2 DEF Stop
  <2> QED
    BY <1>7, <2>1, <2>2
<1>8. CASE StopStep
  BY <1>8 DEF StopStep, StopClient, StopClose
<1>9. CASE PrinterStep
  <2>1. UNCHANGED <<host, wk, ka, ssl>>
    BY <1>9, Zenon DEF PrinterStep, PrinterAccepts, PrinterResponds, PrinterNal, PrinterRest,
                       PrinterNoise, PrinterEnds, clientVars
  <2> QED
    BY <2>1
<1>10. CASE UNCHANGED vars
  BY <1>10 DEF vars, clientVars
<1> QED
  BY <1>1, <1>2, <1>3, <1>4, <1>5, <1>6, <1>7, <1>8, <1>9, <1>10 DEF Next, HandshakeStep

(* close_tls, on the failure path of start() as in stop(), comes when      *)
(* neither the worker nor the keepalive thread is there to use the         *)
(* session.                                                                *)
THEOREM ClosesAfterThreads == Spec => []ThreadsBeforeClose
<1>1. Init => Joined
  <2> SUFFICES ASSUME Init PROVE Joined
    OBVIOUS
  <2>1. host = [at |-> "new", got |-> "none"] /\ ssl = FALSE /\ wk = "none" /\ ka = "none"
    BY DEF Init
  <2> QED
    BY <2>1 DEF Joined, HostType, Stages
<1>2. Joined => ThreadsBeforeClose
  BY DEF Joined, HostType, ThreadsBeforeClose, Stages
<1> QED
  BY <1>1, <1>2, JoinedStep, PTL DEF Spec

(***************************************************************************)
(* Sequences and messages.                                                 *)
(***************************************************************************)

(* What taking the head and adding an element do to a sequence.            *)
LEMMA Ends ==
    ASSUME NEW S, NEW q \in Seq(S)
    PROVE  /\ Len(q) \in Nat /\ (q = <<>> <=> Len(q) = 0) /\ DOMAIN q = 1..Len(q)
           /\ \A i \in 1..Len(q) : q[i] \in S
           /\ q # <<>> => /\ Len(q) > 0 /\ Head(q) = q[1] /\ Head(q) \in S
                         /\ Tail(q) \in Seq(S) /\ Len(Tail(q)) = Len(q) - 1
                         /\ \A i \in 1..(Len(q) - 1) : Tail(q)[i] = q[i + 1]
           /\ \A e \in S : /\ Append(q, e) \in Seq(S)
                          /\ Len(Append(q, e)) = Len(q) + 1
                          /\ Append(q, e)[Len(q) + 1] = e
                          /\ \A i \in 1..Len(q) : Append(q, e)[i] = q[i]
                          /\ q \o <<e>> = Append(q, e)
<1>1. ASSUME q # <<>>
      PROVE  /\ Len(q) > 0 /\ Head(q) = q[1] /\ Head(q) \in S
             /\ Tail(q) \in Seq(S) /\ Len(Tail(q)) = Len(q) - 1
             /\ \A i \in 1..(Len(q) - 1) : Tail(q)[i] = q[i + 1]
  BY <1>1, HeadTailProperties, EmptySeq
<1>2. ASSUME NEW e \in S
      PROVE  /\ Append(q, e) \in Seq(S)
             /\ Len(Append(q, e)) = Len(q) + 1
             /\ Append(q, e)[Len(q) + 1] = e
             /\ \A i \in 1..Len(q) : Append(q, e)[i] = q[i]
             /\ q \o <<e>> = Append(q, e)
  BY <1>2, AppendProperties, AppendIsConcat
<1>3. Len(q) \in Nat /\ (q = <<>> <=> Len(q) = 0) /\ DOMAIN q = 1..Len(q)
  BY EmptySeq, LenProperties
<1>4. \A i \in 1..Len(q) : q[i] \in S
  BY ElementOfSeq
<1> QED  BY <1>1, <1>2, <1>3, <1>4

(* An RTP packet carries one NAL unit or a fragment of one.                *)
LEMMA Packets ==
    ASSUME NEW m \in Msg, m.k = "rtp"
    PROVE  /\ m.frag \in {"whole", "start", "end"} /\ m.nals \in One
           /\ m.nals[1] \in Nal /\ m.nals = <<m.nals[1]>>
<1>1. m.frag \in {"whole", "start", "end"} /\ m.nals \in One
  BY DEF Msg
<1>2. PICK n \in Nal : m.nals = <<n>>
  BY <1>1 DEF One
<1> QED  BY <1>1, <1>2

(* A non-empty fu_buf or part is one NAL unit.                             *)
LEMMA Singles ==
    ASSUME NEW q \in One \cup {<<>>}, q # <<>>
    PROVE  q[1] \in Nal /\ q = <<q[1]>>
<1>1. PICK n \in Nal : q = <<n>>
  BY DEF One
<1> QED  BY <1>1

(* decode_rtp_h264 leaves NAL units in nalu_queue and fu_buf.              *)
LEMMA DecodeTypes ==
    ASSUME naluQ \in Seq(Nal), fu \in One \cup {<<>>}, NEW m \in Msg, DecodeRtp(m)
    PROVE  naluQ' \in Seq(Nal) /\ fu' \in One \cup {<<>>}
<1>1. CASE m.k = "rtp" /\ m.frag = "whole"
  <2>1. naluQ' = naluQ \o m.nals /\ fu' = fu  BY <1>1 DEF DecodeRtp
  <2> QED  BY <1>1, <2>1, Packets, Ends
<1>2. CASE m.k = "rtp" /\ m.frag = "start"
  <2>1. fu' = m.nals /\ naluQ' = naluQ  BY <1>2 DEF DecodeRtp
  <2> QED  BY <1>2, <2>1, Packets
<1>3. CASE m.k = "rtp" /\ m.frag = "end" /\ fu # <<>>
  <2>1. naluQ' = naluQ \o <<[fu[1] EXCEPT !.end = m.nals[1].end]>> /\ fu' = <<>>
    BY <1>3 DEF DecodeRtp
  <2>2. fu[1] \in Nal /\ m.nals[1] \in Nal  BY <1>3, Packets, Singles
  <2>3. [fu[1] EXCEPT !.end = m.nals[1].end] \in Nal  BY <2>2 DEF Nal
  <2> QED  BY <2>1, <2>3, Ends
<1>4. CASE ~(m.k = "rtp" /\ (m.frag \in {"whole", "start"} \/ (m.frag = "end" /\ fu # <<>>)))
  <2>1. UNCHANGED <<naluQ, fu>>  BY <1>4 DEF DecodeRtp
  <2> QED  BY <2>1
<1> QED  BY <1>1, <1>2, <1>3, <1>4

(* flush_au drops samples from the front and adds one at the end.          *)
LEMMA Rooms ==
    ASSUME NEW q \in Seq(Sample)
    PROVE  /\ Room(q) \in Seq(Sample) /\ Len(Room(q)) <= Len(q)
           /\ \A i \in 1..Len(Room(q)) : Room(q)[i] = q[Len(q) - Len(Room(q)) + i]
<1>1. MaxReady \in Nat /\ MaxReady > 0 /\ Len(q) \in Nat
  BY RtspParameters, Ends
<1>2. CASE Len(q) < MaxReady
  <2>1. Room(q) = q  BY <1>2 DEF Room
  <2>2. \A i \in 1..Len(q) : q[i] = q[Len(q) - Len(q) + i]
    <3> SUFFICES ASSUME NEW i \in 1..Len(q) PROVE Len(q) - Len(q) + i = i  OBVIOUS
    <3> QED  BY <1>1
  <2> QED  BY <1>1, <2>1, <2>2
<1>3. CASE ~(Len(q) < MaxReady)
  <2> DEFINE m == Len(q) - MaxReady + 2
  <2>1. Room(q) = SubSeq(q, m, Len(q))  BY <1>3 DEF Room
  <2>2. m \in Int /\ Len(q) \in Int /\ m >= 2 /\ \A i \in m..Len(q) : q[i] \in Sample
    BY <1>1, <1>3, Ends
  <2> HIDE DEF m
  <2>3. /\ SubSeq(q, m, Len(q)) \in Seq(Sample)
        /\ Len(SubSeq(q, m, Len(q))) = IF m <= Len(q) THEN Len(q) - m + 1 ELSE 0
        /\ \A i \in 1..(Len(q) - m + 1) : SubSeq(q, m, Len(q))[i] = q[m + i - 1]
    BY <2>2, SubSeqProperties
  <2>4. CASE m <= Len(q)
    <3>1. Len(Room(q)) = Len(q) - m + 1  BY <2>1, <2>3, <2>4
    <3>2. ASSUME NEW i \in 1..Len(Room(q))
          PROVE  Room(q)[i] = q[Len(q) - Len(Room(q)) + i]
      <4>1. i \in 1..(Len(q) - m + 1) /\ m + i - 1 = Len(q) - Len(Room(q)) + i
        BY <1>1, <2>2, <3>1
      <4> QED  BY <2>1, <2>3, <4>1
    <3>3. Room(q) \in Seq(Sample) /\ Len(Room(q)) <= Len(q)
      BY <1>1, <2>1, <2>2, <2>3, <3>1
    <3> QED  BY <3>2, <3>3
  <2>5. CASE ~(m <= Len(q))
    <3>1. Len(Room(q)) = 0  BY <2>1, <2>3, <2>5
    <3>2. \A i : i \notin 1..Len(Room(q))  BY <3>1
    <3>3. Room(q) \in Seq(Sample) /\ Len(Room(q)) <= Len(q)  BY <1>1, <2>1, <2>3, <3>1
    <3> QED  BY <3>2, <3>3
  <2> QED  BY <2>4, <2>5
<1> QED  BY <1>2, <1>3

(* What flush_au makes of the queue.                                       *)
LEMMA Flushes ==
    ASSUME NEW q \in Seq(Sample), NEW u \in AuType
    PROVE  /\ Flush(q, u) \in Seq(Sample)
           /\ u.open /\ u.nals # <<>> =>
                Flush(q, u) = Append(Room(q), [ts |-> u.ts, nals |-> u.nals,
                                               flags |-> IF u.idr THEN "sync" ELSE "none"])
<1> DEFINE e == [ts |-> u.ts, nals |-> u.nals, flags |-> IF u.idr THEN "sync" ELSE "none"]
<1>1. e \in Sample  BY DEF AuType, Sample
<1>2. Append(Room(q), e) \in Seq(Sample)  BY <1>1, Rooms, Ends
<1> QED  BY <1>2 DEF Flush

(* The access unit with one more NAL unit.                                 *)
LEMMA Withs ==
    ASSUME NEW u \in AuType, NEW n \in Nal
    PROVE  LET v == With(Opened(u, n), n) IN
           /\ v \in AuType /\ v.open /\ v.nals # <<>>
           /\ v.ts = IF u.open THEN u.ts ELSE n.ts
           /\ v.nals = Append(IF u.open THEN u.nals ELSE <<>>, n.id)
           /\ v.idr <=> (u.open /\ u.idr) \/ n.kind = "idr"
<1> DEFINE o == Opened(u, n)
<1>0. NoAu \in AuType  BY EmptySeq DEF NoAu, AuType
<1>1. o \in AuType /\ o.open /\ o.ts = (IF u.open THEN u.ts ELSE n.ts)
      /\ o.nals = (IF u.open THEN u.nals ELSE <<>>) /\ (o.idr <=> u.open /\ u.idr)
  BY <1>0 DEF Opened, AuType, NoAu, Nal
<1> HIDE DEF o
<1>2. /\ Append(o.nals, n.id) \in Seq(Nat) /\ Append(o.nals, n.id) # <<>>
  <2>1. o.nals \in Seq(Nat) /\ n.id \in Nat  BY <1>1 DEF AuType, Nal
  <2>2. Append(o.nals, n.id) \in Seq(Nat) /\ Len(Append(o.nals, n.id)) = Len(o.nals) + 1
        /\ Len(o.nals) \in Nat
    BY <2>1, Ends
  <2> QED  BY <2>2, EmptySeq
<1>3. With(o, n) = [o EXCEPT !.nals = Append(o.nals, n.id), !.idr = o.idr \/ n.kind = "idr"]
  BY DEF With
<1>4. (o.idr \/ n.kind = "idr") \in BOOLEAN  BY <1>1 DEF AuType
<1> HIDE DEF With
<1>5. /\ With(o, n) \in AuType /\ With(o, n).open = o.open /\ With(o, n).ts = o.ts
      /\ With(o, n).nals = Append(o.nals, n.id) /\ With(o, n).idr = (o.idr \/ n.kind = "idr")
  BY <1>1, <1>2, <1>3, <1>4 DEF AuType
<1> QED  BY <1>1, <1>2, <1>5 DEF o

(* The messages to the client.                                             *)
LEMMA Messages ==
    /\ \A x \in Nat, k \in {"ok", "challenge", "refuse"} : [k |-> k, nonce |-> x] \in Msg
    /\ \A k \in {"rtcp", "junk"} : [k |-> k] \in Msg
    /\ \A n \in Nal, f \in {"whole", "start", "end"} :
          [k |-> "rtp", frag |-> f, nals |-> <<n>>] \in Msg
  BY DEF Msg, One

(* The last timestamp is one, or 0.                                        *)
LEMMA LastTsIsNat ==
    ASSUME printer \in PrinterType
    PROVE  LastTs \in Nat /\ Len(printer.sent) \in Nat
<1>1. printer.sent \in Seq([ts : Nat, kind : Kinds])  BY DEF PrinterType
<1>2. Len(printer.sent) \in Nat /\ (printer.sent # <<>> => Len(printer.sent) \in 1..Len(printer.sent))
  BY <1>1, Ends
<1>3. printer.sent # <<>> => printer.sent[Len(printer.sent)] \in [ts : Nat, kind : Kinds]
  BY <1>1, <1>2, Ends
<1> QED  BY <1>2, <1>3 DEF LastTs

(* Every step keeps the types of the queues and of the printer's state.    *)
LEMMA TypeStep ==
    ASSUME TypeOK, [Next]_vars
    PROVE  TypeOK'
<1> USE DEF TypeOK
<1>1. CASE Start
  <2>1. printer' = [printer EXCEPT !.req = "OPTIONS", !.cred = nonce] /\ nonce' = nonce
    BY <1>1 DEF Start, SendRequest
  <2>2. printer' \in PrinterType  BY <2>1 DEF PrinterType, Stages
  <2> QED  BY <1>1, <2>1, <2>2 DEF Start, dataVars
<1>2. CASE StartFails \/ BadReply
  BY <1>2 DEF StartFails, BadReply, dataVars
<1>3. CASE AwaitFrame \/ PullMessage
  <2>1. /\ wire # <<>> /\ wire' = Tail(wire) /\ DecodeRtp(Head(wire))
        /\ UNCHANGED <<nonce, au, ready, printer>>
    BY <1>3 DEF AwaitFrame, PullMessage, clientVars
  <2>2. Head(wire) \in Msg /\ wire' \in Seq(Msg)  BY <2>1, Ends
  <2>3. naluQ' \in Seq(Nal) /\ fu' \in One \cup {<<>>}  BY <2>1, <2>2, DecodeTypes
  <2> QED  BY <2>1, <2>2, <2>3
<1>4. CASE AwaitChallenge
  <2>1. /\ wire # <<>> /\ wire' = Tail(wire) /\ Head(wire).k = "challenge"
        /\ nonce' = Head(wire).nonce /\ UNCHANGED dataVars /\ host.at \in Stages
        /\ printer' = [printer EXCEPT !.req = host.at, !.cred = nonce']
    BY <1>4 DEF AwaitChallenge, AdoptChallenge, SendRequest
  <2>2. Head(wire) \in Msg /\ wire' \in Seq(Msg)  BY <2>1, Ends
  <2>3. nonce' \in Nat  BY <2>1, <2>2 DEF Msg
  <2>4. printer' \in PrinterType  BY <2>1, <2>3 DEF PrinterType
  <2> QED  BY <2>1, <2>2, <2>3, <2>4 DEF dataVars
<1>5. CASE AwaitOk
  <2>1. /\ wire # <<>> /\ wire' = Tail(wire) /\ UNCHANGED <<nonce, dataVars>> /\ host.at \in Stages
        /\ \/ printer' = printer
           \/ /\ host.at # "PLAY"
              /\ printer' = [printer EXCEPT !.req = NextStage[host.at], !.cred = nonce]
    BY <1>5 DEF AwaitOk, SendRequest
  <2>2. wire' \in Seq(Msg)  BY <2>1, Ends
  <2>3. host.at # "PLAY" => NextStage[host.at] \in Stages  BY <2>1 DEF NextStage, Stages
  <2>4. printer' \in PrinterType  BY <2>1, <2>3 DEF PrinterType
  <2> QED  BY <2>1, <2>2, <2>4 DEF dataVars
<1>6. CASE TakeNalu
  <2> DEFINE n == Head(naluQ)
             newUnit == au.open /\ n.ts # au.ts
             v == With(Opened(IF newUnit THEN NoAu ELSE au, n), n)
             q == IF newUnit THEN Flush(ready, au) ELSE ready
  <2>1. /\ naluQ # <<>> /\ naluQ' = Tail(naluQ) /\ UNCHANGED <<nonce, fu, wire, printer>>
        /\ \/ UNCHANGED <<au, ready>>
           \/ /\ ready' = IF n.end THEN Flush(q, v) ELSE q
              /\ au' = IF n.end THEN NoAu ELSE v
    BY <1>6 DEF TakeNalu, clientVars
  <2>2. n \in Nal /\ naluQ' \in Seq(Nal)  BY <2>1, Ends
  <2>3. NoAu \in AuType  BY EmptySeq DEF NoAu, AuType
  <2>4. v \in AuType  BY <2>2, <2>3, Withs
  <2>5. q \in Seq(Sample)  BY Flushes
  <2>6. Flush(q, v) \in Seq(Sample)  BY <2>4, <2>5, Flushes
  <2> HIDE DEF v, q, n
  <2> QED  BY <2>1, <2>2, <2>3, <2>4, <2>5, <2>6
<1>7. CASE ReadEnds
  <2>1. PICK f \in {"eos", "err"} : ready' = Append(ready, [ts |-> 0, nals |-> <<>>, flags |-> f])
    BY <1>7 DEF ReadEnds
  <2>2. [ts |-> 0, nals |-> <<>>, flags |-> f] \in Sample  BY EmptySeq DEF Sample
  <2>3. ready' \in Seq(Sample)  BY <2>1, <2>2, Ends
  <2> QED  BY <1>7, <2>3 DEF ReadEnds, clientVars
<1>8. CASE WorkerLoop \/ KeepaliveWake \/ Stop \/ StopStep \/ PrinterEnds
  BY <1>8 DEF WorkerLoop, KeepaliveWake, Stop, StopStep, StopClient, StopClose, PrinterEnds,
              clientVars, dataVars
<1>9. CASE KeepaliveWrite
  <2>1. /\ UNCHANGED <<nonce, dataVars, printer>>
        /\ \/ wire' = wire
           \/ \E k \in {"ok", "challenge"} : wire' = Append(wire, [k |-> k, nonce |-> printer.nonce])
    BY <1>9 DEF KeepaliveWrite, clientVars
  <2>2. printer.nonce \in Nat  BY DEF PrinterType
  <2>3. \A k \in {"ok", "challenge"} : [k |-> k, nonce |-> printer.nonce] \in Msg
    BY <2>2, Messages
  <2>4. ASSUME NEW k \in {"ok", "challenge"} 
        PROVE  Append(wire, [k |-> k, nonce |-> printer.nonce]) \in Seq(Msg)
    BY <2>3, Ends
  <2> QED  BY <2>1, <2>4 DEF dataVars
<1>10. CASE TryPull
  BY <1>10, Ends DEF TryPull, clientVars
<1>11. CASE PrinterAccepts
  BY <1>11 DEF PrinterAccepts, PrinterType, clientVars, dataVars
<1>12. CASE PrinterResponds
  <2>1. /\ UNCHANGED <<nonce, dataVars>> /\ printer' = [printer EXCEPT !.req = "none"]
        /\ \E k \in {"ok", "challenge", "refuse"}, x \in {printer.nonce, 0} :
              wire' = Append(wire, [k |-> k, nonce |-> x])
    BY <1>12 DEF PrinterResponds, Send, clientVars
  <2>2. printer.nonce \in Nat /\ printer' \in PrinterType  BY <2>1 DEF PrinterType
  <2>3. \A k \in {"ok", "challenge", "refuse"}, x \in {printer.nonce, 0} :
           [k |-> k, nonce |-> x] \in Msg
    BY <2>2, Messages
  <2>4. wire' \in Seq(Msg)  BY <2>1, <2>3, Ends
  <2> QED  BY <2>1, <2>2, <2>4 DEF dataVars
<1>13. CASE PrinterNal
  <2>1. PICK kind \in Kinds, frag \in {"whole", "start"}, last \in BOOLEAN, mark \in BOOLEAN :
             SendNal(kind, frag, last, mark)
    BY <1>13, Zenon DEF PrinterNal, Kinds
  <2> DEFINE n == NewNal(kind, mark)
  <2>2. LastTs \in Nat /\ printer.sent \in Seq([ts : Nat, kind : Kinds]) /\ Len(printer.sent) \in Nat
    BY LastTsIsNat DEF PrinterType
  <2>3. n \in Nal  BY <2>2 DEF Nal, NewNal
  <2> HIDE DEF n
  <2>4. wire' \in Seq(Msg)
    <3>1. [k |-> "rtp", frag |-> frag, nals |-> <<n>>] \in Msg  BY <2>3, Messages
    <3>2. wire' = Append(wire, [k |-> "rtp", frag |-> frag, nals |-> <<n>>])
      BY <2>1 DEF SendNal, Send, n
    <3> QED  BY <3>1, <3>2, Ends
  <2>5. Append(printer.sent, [ts |-> n.ts, kind |-> kind]) \in Seq([ts : Nat, kind : Kinds])
    BY <2>2, <2>3, Ends DEF Nal
  <2>6. <<n>> \in One  BY <2>3 DEF One
  <2>7. printer' \in PrinterType  BY <2>1, <2>5, <2>6 DEF SendNal, PrinterType, n
  <2> QED  BY <1>13, <2>4, <2>7 DEF PrinterNal, clientVars, dataVars
<1>14. CASE PrinterRest
  <2>0. PICK last \in BOOLEAN, mark \in BOOLEAN : SendRest(last, mark)
    BY <1>14, Zenon DEF PrinterRest
  <2>1. /\ wire' = Append(wire, [k |-> "rtp", frag |-> "end",
                                 nals |-> <<[printer.part[1] EXCEPT !.end = mark]>>])
        /\ printer' = [printer EXCEPT !.open = ~last, !.part = <<>>]
        /\ printer.part # <<>>
    BY <1>14, <2>0 DEF PrinterRest, SendRest, Send
  <2>2. printer.part[1] \in Nal  BY <2>1, Singles DEF PrinterType
  <2>3. [printer.part[1] EXCEPT !.end = mark] \in Nal  BY <2>2 DEF Nal
  <2>4. wire' \in Seq(Msg)  BY <2>1, <2>3, Messages, Ends
  <2>5. printer' \in PrinterType  BY <2>1 DEF PrinterType
  <2> QED  BY <1>14, <2>4, <2>5 DEF PrinterRest, clientVars, dataVars
<1>15. CASE PrinterNoise
  <2>1. \E k \in {"rtcp", "junk"} : wire' = Append(wire, [k |-> k])
    BY <1>15 DEF PrinterNoise, Send
  <2>2. wire' \in Seq(Msg)  BY <2>1, Messages, Ends
  <2> QED  BY <1>15, <2>2 DEF PrinterNoise, clientVars, dataVars
<1>16. CASE UNCHANGED vars
  BY <1>16 DEF vars, clientVars, dataVars
<1> QED
  BY <1>1, <1>2, <1>3, <1>4, <1>5, <1>6, <1>7, <1>8, <1>9, <1>10, <1>11, <1>12, <1>13, <1>14,
     <1>15, <1>16
  DEF Next, HandshakeStep, WorkerStep, KeepaliveStep, PrinterStep

(***************************************************************************)
(* Reading: await_response and pull_one_message.                           *)
(***************************************************************************)

(* The order of timestamps stays.                                          *)
LEMMA KeepsOrder ==
    ASSUME UNCHANGED <<printer.sent, printer.open, printer.part>>, Monotone
    PROVE  Monotone'
  BY DEF Monotone, sent

(* nalu_queue stays.                                                       *)
LEMMA DecodesNone ==
    ASSUME UNCHANGED <<printer.sent, printer.open, naluQ>>, NEW t, NEW d, Decoded(t, d)
    PROVE  Decoded(t, d)'
<1>1. sent' = sent /\ LastTs' = LastTs
  BY DEF sent, LastTs
<1> QED  BY <1>1 DEF Decoded, Genuine, Ended

(* What waits on the wire does not depend on the worker.                   *)
LEMMA WireStays ==
    ASSUME UNCHANGED <<wire, fu, printer.sent, printer.open, printer.part>>, NEW d, Undecoded(d)
    PROVE  Undecoded(d)'
<1>1. sent' = sent /\ LastTs' = LastTs
  BY DEF sent, LastTs
<1>2. (Packet(d) /\ Ordered)'
  BY <1>1 DEF Undecoded, Packet, Ordered, Rtp, NalOf, Genuine, Ended
<1>3. (Complete(d) /\ PartLast(d))'
  BY <1>1 DEF Undecoded, Complete, PartLast, Rtp, NalOf, Genuine, Ended
<1>4. (FuNext(d) /\ Started(d) /\ PartStarted(d))'
  BY <1>1 DEF Undecoded, FuNext, Started, PartStarted, Rtp, NalOf, Genuine, Ended
<1> QED  BY <1>2, <1>3, <1>4 DEF Undecoded

(* The samples and the access unit of the worker change, and nothing of    *)
(* what the printer sent.                                                  *)
LEMMA MakesNext ==
    ASSUME UNCHANGED <<printer.sent, printer.open>>, NEW t, Made(ready', au', t)
    PROVE  Made(ready, au, t)'
<1>1. sent' = sent /\ LastTs' = LastTs
  BY DEF sent, LastTs
<1>2. Assembled(au, t)'
  BY <1>1 DEF Made, Assembled, Taken, Increasing, Ended
<1>3. Queued(ready, au, t)'
  BY <1>1 DEF Made, Queued, IsUnit, Ended
<1>4. Whole(ready)'
  BY <1>1 DEF Made, Whole, WholeSample, IsUnit, Kept, sent, Increasing
<1> QED  BY <1>2, <1>3, <1>4 DEF Made

(* What the worker made stays, when nothing is sent.                       *)
LEMMA KeepsMade ==
    ASSUME UNCHANGED <<printer.sent, printer.open, au, ready>>, NEW t, Made(ready, au, t)
    PROVE  Made(ready, au, t)'
  BY MakesNext

(* Steps that touch neither the queues nor what was sent.                  *)
LEMMA Quiet ==
    ASSUME Pipe, UNCHANGED <<naluQ, fu, au, ready, wire>>,
           UNCHANGED <<printer.sent, printer.open, printer.part>>
    PROVE  Pipe'
<1>1. PICK t \in Nat, d \in Nat : Monotone /\ Decoded(t, d) /\ Undecoded(d) /\ Made(ready, au, t)
  BY DEF Pipe, OnItsWay
<1> QED
  BY <1>1, KeepsOrder, DecodesNone, WireStays, KeepsMade DEF Pipe, OnItsWay

(* Where a message was, and will be, when one is taken off the wire.       *)
Was(i) == i + 1
Will(i) == i - 1

(* A message is taken off the wire.                                        *)
LEMMA Shifts ==
    ASSUME wire \in Seq(Msg), wire # <<>>, wire' = Tail(wire)
    PROVE  /\ \A i \in Rtp' : Was(i) \in Rtp /\ Was(i) # 1 /\ wire'[i] = wire[Was(i)]
           /\ \A i, j \in Rtp' : i < j => Was(i) < Was(j)
           /\ \A i \in Rtp : i # 1 => Will(i) \in Rtp' /\ wire'[Will(i)] = wire[i]
           /\ \A i \in Rtp', j \in Rtp : j < Was(i) => Will(j) < i
           /\ 1 \in Rtp <=> Head(wire).k = "rtp"
<1>1. /\ Len(wire) \in Nat /\ Len(wire) > 0 /\ Head(wire) = wire[1]
      /\ Len(wire') = Len(wire) - 1
      /\ \A i \in 1..(Len(wire) - 1) : wire'[i] = wire[i + 1]
  BY Ends
<1>2. ASSUME NEW i \in Rtp'
      PROVE  i \in Nat /\ i > 0 /\ Was(i) \in Rtp /\ wire'[i] = wire[Was(i)]
  <2>1. i \in 1..(Len(wire) - 1) /\ wire'[i].k = "rtp"  BY <1>1, <1>2 DEF Rtp
  <2>2. i + 1 \in 1..Len(wire) /\ wire'[i] = wire[i + 1]  BY <1>1, <2>1
  <2> QED  BY <2>1, <2>2 DEF Rtp, Was
<1>3. ASSUME NEW i \in Rtp
      PROVE  i \in Nat /\ i > 0 /\ (i # 1 => Will(i) \in Rtp' /\ wire'[Will(i)] = wire[i])
  <2>1. i \in 1..Len(wire) /\ wire[i].k = "rtp"  BY <1>3 DEF Rtp
  <2>2. ASSUME i # 1 PROVE i - 1 \in 1..(Len(wire) - 1) /\ wire'[i - 1] = wire[i]
    <3>1. i - 1 \in 1..(Len(wire) - 1) /\ (i - 1) + 1 = i  BY <1>1, <2>1, <2>2
    <3> QED  BY <1>1, <3>1
  <2>3. ASSUME i # 1 PROVE i - 1 \in Rtp'  BY <1>1, <2>1, <2>2, <2>3 DEF Rtp
  <2> QED  BY <2>1, <2>2, <2>3 DEF Will
<1>4. 1 \in Rtp <=> Head(wire).k = "rtp"  BY <1>1 DEF Rtp
<1>5. \A i, j \in Rtp' : i < j => Was(i) < Was(j)  BY <1>2 DEF Was
<1>6. \A i \in Rtp', j \in Rtp : j < Was(i) => Will(j) < i  BY <1>2, <1>3 DEF Was, Will
<1>7. \A i \in Rtp' : Was(i) # 1  BY <1>2 DEF Was
<1> QED  BY <1>2, <1>3, <1>4, <1>5, <1>6, <1>7

(* The first RTP packet on the wire has the NAL unit that is decoded next; *)
(* fu_buf is empty unless the packet is its last fragment, and is not      *)
(* empty if it is.                                                         *)
LEMMA NextPacket ==
    ASSUME wire \in Seq(Msg), NEW d \in Nat, Undecoded(d), 1 \in Rtp, sent \in Seq([ts : Nat, kind : Kinds])
    PROVE  /\ NalOf(1).id = d + 1 /\ Genuine(NalOf(1)) /\ d + 1 <= Len(sent)
           /\ wire[1].frag = "end" <=> fu # <<>>
           /\ wire[1].frag \in {"whole", "start", "end"} /\ NalOf(1) \in Nal
           /\ \A i \in Rtp : i # 1 =>
                 \/ NalOf(i).id > d + 1
                 \/ NalOf(i).id = d + 1 /\ wire[1].frag = "start" /\ wire[i].frag = "end"
<1>0. \A i \in Rtp : i \in Nat /\ i > 0 /\ i \in 1..Len(wire) /\ wire[i] \in Msg /\ wire[i].k = "rtp"
  BY Ends DEF Rtp
<1>1. \A i \in Rtp : NalOf(i) \in Nal /\ NalOf(i).id \in Nat /\ wire[i].frag \in {"whole", "start", "end"}
  BY <1>0, Packets DEF NalOf, Nal
<1>2. Genuine(NalOf(1)) /\ NalOf(1).id > d  BY DEF Undecoded, Packet
<1>3. NalOf(1).id <= Len(sent) /\ Len(sent) \in Nat  BY <1>1, <1>2, Ends DEF Genuine
<1>4. \A i \in Rtp : i # 1 =>
         \/ NalOf(1).id < NalOf(i).id
         \/ NalOf(1).id = NalOf(i).id /\ wire[1].frag = "start" /\ wire[i].frag = "end"
  <2> SUFFICES ASSUME NEW i \in Rtp, i # 1
               PROVE \/ NalOf(1).id < NalOf(i).id
                     \/ NalOf(1).id = NalOf(i).id /\ wire[1].frag = "start" /\ wire[i].frag = "end"
    OBVIOUS
  <2>1. 1 < i  BY <1>0
  <2> QED  BY <2>1 DEF Undecoded, Ordered
<1>5. NalOf(1).id = d + 1
  <2> SUFFICES ASSUME NalOf(1).id # d + 1 PROVE FALSE  OBVIOUS
  <2>1. NalOf(1).id > d + 1 /\ d + 1 \in (d + 1)..Len(sent) /\ d + 1 # Len(sent)
    BY <1>1, <1>2, <1>3
  <2>2. PICK i \in Rtp : NalOf(i).id = d + 1  BY <2>1 DEF Undecoded, Complete
  <2>3. i # 1  BY <2>1, <2>2
  <2> QED  BY <1>1, <1>4, <2>1, <2>2, <2>3
<1>6. wire[1].frag = "end" => fu # <<>>
  <2> SUFFICES ASSUME wire[1].frag = "end", fu = <<>> PROVE FALSE  OBVIOUS
  <2>1. PICK j \in Rtp : j < 1  BY DEF Undecoded, Started
  <2> QED  BY <1>0, <2>1
<1>7. fu # <<>> => wire[1].frag = "end"  BY <1>5 DEF Undecoded, FuNext
<1> QED  BY <1>1, <1>2, <1>3, <1>4, <1>5, <1>6, <1>7

(* Reading a message that is no RTP packet.                                *)
LEMMA ReadOther ==
    ASSUME wire \in Seq(Msg), wire # <<>>, wire' = Tail(wire), Head(wire).k # "rtp",
           UNCHANGED <<fu, printer.sent, printer.open, printer.part>>, NEW d \in Nat, Undecoded(d)
    PROVE  Undecoded(d)'
<1>1. sent' = sent /\ LastTs' = LastTs /\ 1 \notin Rtp
  BY Shifts DEF sent, LastTs
<1>2. \A i \in Rtp' : Was(i) \in Rtp /\ wire'[i] = wire[Was(i)]
  BY Shifts
<1>3. \A i \in Rtp : Will(i) \in Rtp' /\ wire'[Will(i)] = wire[i]
  BY <1>1, Shifts
<1>4. Packet(d)'
  <2> SUFFICES ASSUME NEW i \in Rtp'
               PROVE (Genuine(NalOf(i)) /\ NalOf(i).id > d /\ (wire[i].frag = "start" => ~NalOf(i).end))'
    BY DEF Packet
  <2>1. /\ Genuine(NalOf(Was(i))) /\ NalOf(Was(i)).id > d
        /\ wire[Was(i)].frag = "start" => ~NalOf(Was(i)).end
    BY <1>2 DEF Undecoded, Packet
  <2>2. NalOf(i)' = NalOf(Was(i)) /\ wire'[i] = wire[Was(i)]  BY <1>2 DEF NalOf
  <2>3. Genuine(NalOf(i))'  BY <1>1, <2>1, <2>2 DEF Genuine, Ended
  <2> QED  BY <2>1, <2>2, <2>3
<1>5. Ordered'
  <2> SUFFICES ASSUME NEW i \in Rtp', NEW j \in Rtp', i < j
               PROVE (\/ NalOf(i).id < NalOf(j).id
                      \/ NalOf(i).id = NalOf(j).id /\ wire[i].frag = "start" /\ wire[j].frag = "end")'
    BY DEF Ordered
  <2>1. Was(i) \in Rtp /\ Was(j) \in Rtp /\ Was(i) < Was(j)  BY <1>2, Shifts
  <2>2. \/ NalOf(Was(i)).id < NalOf(Was(j)).id
        \/ /\ NalOf(Was(i)).id = NalOf(Was(j)).id
           /\ wire[Was(i)].frag = "start" /\ wire[Was(j)].frag = "end"
    BY <2>1 DEF Undecoded, Ordered
  <2>3. NalOf(i)' = NalOf(Was(i)) /\ NalOf(j)' = NalOf(Was(j))  BY <1>2 DEF NalOf
  <2> QED  BY <1>2, <2>2, <2>3
<1>6. Complete(d)'
  <2> SUFFICES ASSUME NEW n \in (d + 1)..Len(sent), ~(n = Len(sent) /\ printer.part # <<>>)
               PROVE  \E i \in Rtp' : NalOf(i)'.id = n /\ wire'[i].frag # "start"
    BY <1>1 DEF Complete
  <2>1. PICK i \in Rtp : NalOf(i).id = n /\ wire[i].frag # "start"
    BY DEF Undecoded, Complete
  <2>2. Will(i) \in Rtp' /\ wire'[Will(i)] = wire[i] /\ NalOf(Will(i))' = NalOf(i)
    BY <1>3, <2>1 DEF NalOf
  <2> QED  BY <2>1, <2>2
<1>7. PartLast(d)'
  BY <1>1, <1>2 DEF Undecoded, PartLast, NalOf, Genuine, Ended
<1>8. FuNext(d)'
  BY <1>1, <1>2 DEF Undecoded, FuNext, NalOf, Genuine, Ended
<1>9. Started(d)'
  <2> SUFFICES ASSUME NEW i \in Rtp', wire'[i].frag = "end", ~(fu' # <<>> /\ NalOf(i)'.id = d + 1)
               PROVE \E j \in Rtp' : j < i /\ wire'[j].frag = "start" /\ NalOf(j)'.id = NalOf(i)'.id
    BY DEF Started
  <2>1. PICK j \in Rtp : j < Was(i) /\ wire[j].frag = "start" /\ NalOf(j).id = NalOf(Was(i)).id
    BY <1>2 DEF Undecoded, Started, NalOf
  <2>2. Will(j) \in Rtp' /\ Will(j) < i /\ wire'[Will(j)] = wire[j]  BY Shifts, <1>2, <1>3, <2>1
  <2> QED  BY <1>2, <2>1, <2>2 DEF NalOf
<1>10. PartStarted(d)'
  BY <1>1, <1>3 DEF Undecoded, PartStarted, NalOf
<1> QED  BY <1>4, <1>5, <1>6, <1>7, <1>8, <1>9, <1>10 DEF Undecoded

(* Reading the first fragment of a NAL unit: fu_buf has it.                *)
LEMMA ReadStart ==
    ASSUME wire \in Seq(Msg), wire # <<>>, wire' = Tail(wire), 1 \in Rtp, wire[1].frag = "start",
           fu' = wire[1].nals, UNCHANGED <<printer.sent, printer.open, printer.part>>,
           sent \in Seq([ts : Nat, kind : Kinds]), NEW d \in Nat, Undecoded(d)
    PROVE  Undecoded(d)'
<1>1. sent' = sent /\ LastTs' = LastTs
  BY DEF sent, LastTs
<1>2. \A i \in Rtp' : Was(i) \in Rtp /\ Was(i) # 1 /\ wire'[i] = wire[Was(i)]
  BY Shifts
<1>3. \A i \in Rtp : i # 1 => Will(i) \in Rtp' /\ wire'[Will(i)] = wire[i]
  BY Shifts
<1>4. /\ NalOf(1).id = d + 1 /\ Genuine(NalOf(1)) /\ fu = <<>>
      /\ \A i \in Rtp : i # 1 =>
            \/ NalOf(i).id > d + 1
            \/ NalOf(i).id = d + 1 /\ wire[i].frag = "end"
  BY NextPacket
<1>5. fu' # <<>> /\ fu'[1] = NalOf(1)
  <2>1. wire[1] \in Msg /\ wire[1].k = "rtp"  BY Ends DEF Rtp
  <2>2. wire[1].nals = <<wire[1].nals[1]>>  BY <2>1, Packets
  <2> QED  BY <2>2 DEF NalOf
<1>6. Packet(d)'
  <2> SUFFICES ASSUME NEW i \in Rtp'
               PROVE (Genuine(NalOf(i)) /\ NalOf(i).id > d /\ (wire[i].frag = "start" => ~NalOf(i).end))'
    BY DEF Packet
  <2>1. /\ Genuine(NalOf(Was(i))) /\ NalOf(Was(i)).id > d
        /\ wire[Was(i)].frag = "start" => ~NalOf(Was(i)).end
    BY <1>2 DEF Undecoded, Packet
  <2>2. NalOf(i)' = NalOf(Was(i)) /\ wire'[i] = wire[Was(i)]  BY <1>2 DEF NalOf
  <2>3. Genuine(NalOf(i))'  BY <1>1, <2>1, <2>2 DEF Genuine, Ended
  <2> QED  BY <2>1, <2>2, <2>3
<1>7. Ordered'
  <2> SUFFICES ASSUME NEW i \in Rtp', NEW j \in Rtp', i < j
               PROVE (\/ NalOf(i).id < NalOf(j).id
                      \/ NalOf(i).id = NalOf(j).id /\ wire[i].frag = "start" /\ wire[j].frag = "end")'
    BY DEF Ordered
  <2>1. Was(i) \in Rtp /\ Was(j) \in Rtp /\ Was(i) < Was(j)  BY <1>2, Shifts
  <2>2. \/ NalOf(Was(i)).id < NalOf(Was(j)).id
        \/ /\ NalOf(Was(i)).id = NalOf(Was(j)).id
           /\ wire[Was(i)].frag = "start" /\ wire[Was(j)].frag = "end"
    BY <2>1 DEF Undecoded, Ordered
  <2>3. NalOf(i)' = NalOf(Was(i)) /\ NalOf(j)' = NalOf(Was(j))  BY <1>2 DEF NalOf
  <2> QED  BY <1>2, <2>2, <2>3
<1>8. Complete(d)'
  <2> SUFFICES ASSUME NEW n \in (d + 1)..Len(sent), ~(n = Len(sent) /\ printer.part # <<>>)
               PROVE  \E i \in Rtp' : NalOf(i)'.id = n /\ wire'[i].frag # "start"
    BY <1>1 DEF Complete
  <2>1. PICK i \in Rtp : NalOf(i).id = n /\ wire[i].frag # "start"
    BY DEF Undecoded, Complete
  <2>2. Will(i) \in Rtp' /\ wire'[Will(i)] = wire[i] /\ NalOf(Will(i))' = NalOf(i)
    BY <1>3, <2>1 DEF NalOf
  <2> QED  BY <2>1, <2>2
<1>9. PartLast(d)'
  BY <1>1, <1>2 DEF Undecoded, PartLast, NalOf, Genuine, Ended
<1>10. FuNext(d)'
  <2>1. Genuine(fu[1])' /\ fu'[1].id = d + 1  BY <1>1, <1>4, <1>5 DEF Genuine, Ended
  <2>2. ASSUME NEW i \in Rtp', NalOf(i)'.id = d + 1 PROVE wire'[i].frag = "end"
    <3>1. NalOf(i)' = NalOf(Was(i)) /\ wire'[i] = wire[Was(i)] /\ Was(i) \in Rtp /\ Was(i) # 1
      BY <1>2 DEF NalOf
    <3>2. NalOf(Was(i)).id = d + 1  BY <2>2, <3>1
    <3>3. ~(NalOf(Was(i)).id > d + 1)  BY <3>2
    <3> QED  BY <1>4, <3>1, <3>3
  <2> QED  BY <2>1, <2>2 DEF FuNext
<1>11. Started(d)'
  <2> SUFFICES ASSUME NEW i \in Rtp', wire'[i].frag = "end", NalOf(i)'.id # d + 1
               PROVE \E j \in Rtp' : j < i /\ wire'[j].frag = "start" /\ NalOf(j)'.id = NalOf(i)'.id
    BY <1>5 DEF Started
  <2>0. Was(i) \in Rtp /\ wire[Was(i)].frag = "end" /\ Started(d)  BY <1>2 DEF Undecoded
  <2>1. PICK j \in Rtp : j < Was(i) /\ wire[j].frag = "start" /\ NalOf(j).id = NalOf(Was(i)).id
    BY <1>4, <2>0 DEF Started
  <2>2. NalOf(j).id # d + 1  BY <1>2, <2>1 DEF NalOf
  <2>3. Will(j) \in Rtp' /\ Will(j) < i /\ wire'[Will(j)] = wire[j]
    BY Shifts, <1>2, <1>3, <1>4, <2>1, <2>2
  <2> QED  BY <1>2, <2>1, <2>3 DEF NalOf
<1>12. PartStarted(d)'
  <2> SUFFICES ASSUME printer.part # <<>>, d + 1 # Len(sent)
               PROVE \E j \in Rtp' : wire'[j].frag = "start" /\ NalOf(j)'.id = Len(sent)
    BY <1>1, <1>5 DEF PartStarted
  <2>1. PICK j \in Rtp : wire[j].frag = "start" /\ NalOf(j).id = Len(sent)
    BY <1>4 DEF Undecoded, PartStarted
  <2>2. j # 1  BY <1>4, <2>1
  <2> QED  BY <1>3, <2>1, <2>2 DEF NalOf
<1> QED  BY <1>6, <1>7, <1>8, <1>9, <1>10, <1>11, <1>12 DEF Undecoded

(* Reading a whole NAL unit, or its last fragment.                         *)
LEMMA ReadLast ==
    ASSUME wire \in Seq(Msg), wire # <<>>, wire' = Tail(wire), 1 \in Rtp, wire[1].frag # "start",
           fu' = <<>>, UNCHANGED <<printer.sent, printer.open, printer.part>>,
           sent \in Seq([ts : Nat, kind : Kinds]), NEW d \in Nat, Undecoded(d)
    PROVE  Undecoded(d + 1)'
<1>1. sent' = sent /\ LastTs' = LastTs /\ Len(sent) \in Nat
  BY Ends DEF sent, LastTs
<1>2. \A i \in Rtp' : Was(i) \in Rtp /\ Was(i) # 1 /\ wire'[i] = wire[Was(i)]
  BY Shifts
<1>3. \A i \in Rtp : i # 1 => Will(i) \in Rtp' /\ wire'[Will(i)] = wire[i]
  BY Shifts
<1>4. /\ NalOf(1).id = d + 1 /\ d + 1 <= Len(sent)
      /\ \A i \in Rtp : i # 1 => NalOf(i).id > d + 1
  BY NextPacket
<1>5. Packet(d + 1)'
  <2> SUFFICES ASSUME NEW i \in Rtp'
               PROVE (Genuine(NalOf(i)) /\ NalOf(i).id > d + 1 /\ (wire[i].frag = "start" => ~NalOf(i).end))'
    BY DEF Packet
  <2>1. /\ Genuine(NalOf(Was(i))) /\ NalOf(Was(i)).id > d + 1
        /\ wire[Was(i)].frag = "start" => ~NalOf(Was(i)).end
    BY <1>2, <1>4 DEF Undecoded, Packet
  <2>2. NalOf(i)' = NalOf(Was(i)) /\ wire'[i] = wire[Was(i)]  BY <1>2 DEF NalOf
  <2>3. Genuine(NalOf(i))'  BY <1>1, <2>1, <2>2 DEF Genuine, Ended
  <2> QED  BY <2>1, <2>2, <2>3
<1>6. Ordered'
  <2> SUFFICES ASSUME NEW i \in Rtp', NEW j \in Rtp', i < j
               PROVE (\/ NalOf(i).id < NalOf(j).id
                      \/ NalOf(i).id = NalOf(j).id /\ wire[i].frag = "start" /\ wire[j].frag = "end")'
    BY DEF Ordered
  <2>1. Was(i) \in Rtp /\ Was(j) \in Rtp /\ Was(i) < Was(j)  BY <1>2, Shifts
  <2>2. \/ NalOf(Was(i)).id < NalOf(Was(j)).id
        \/ /\ NalOf(Was(i)).id = NalOf(Was(j)).id
           /\ wire[Was(i)].frag = "start" /\ wire[Was(j)].frag = "end"
    BY <2>1 DEF Undecoded, Ordered
  <2>3. NalOf(i)' = NalOf(Was(i)) /\ NalOf(j)' = NalOf(Was(j))  BY <1>2 DEF NalOf
  <2> QED  BY <1>2, <2>2, <2>3
<1>7. Complete(d + 1)'
  <2> SUFFICES ASSUME NEW n \in (d + 1 + 1)..Len(sent), ~(n = Len(sent) /\ printer.part # <<>>)
               PROVE  \E i \in Rtp' : NalOf(i)'.id = n /\ wire'[i].frag # "start"
    BY <1>1 DEF Complete
  <2>1. n \in (d + 1)..Len(sent) /\ n # d + 1  BY <1>1
  <2>2. PICK i \in Rtp : NalOf(i).id = n /\ wire[i].frag # "start"
    BY <2>1 DEF Undecoded, Complete
  <2>3. i # 1  BY <1>4, <2>1, <2>2
  <2> QED  BY <1>3, <2>2, <2>3 DEF NalOf
<1>8. PartLast(d + 1)'
  <2> SUFFICES ASSUME printer.part # <<>>
               PROVE /\ Genuine(printer.part[1])' /\ d + 1 < Len(sent)
                     /\ \A i \in Rtp' : NalOf(i)'.id = Len(sent) => wire'[i].frag = "start"
    BY <1>1 DEF PartLast
  <2>1. /\ Genuine(printer.part[1])
        /\ \A i \in Rtp : NalOf(i).id = Len(sent) => wire[i].frag = "start"
    BY DEF Undecoded, PartLast
  <2>2. d + 1 # Len(sent)  BY <1>4, <2>1
  <2>3. Genuine(printer.part[1])'  BY <1>1, <2>1 DEF Genuine, Ended
  <2>4. \A i \in Rtp' : NalOf(i)'.id = Len(sent) => wire'[i].frag = "start"
    BY <1>2, <2>1 DEF NalOf
  <2>5. d + 1 < Len(sent)  BY <1>1, <1>4, <2>2
  <2> QED  BY <2>3, <2>4, <2>5
<1>9. FuNext(d + 1)'
  BY DEF FuNext
<1>10. Started(d + 1)'
  <2> SUFFICES ASSUME NEW i \in Rtp', wire'[i].frag = "end"
               PROVE \E j \in Rtp' : j < i /\ wire'[j].frag = "start" /\ NalOf(j)'.id = NalOf(i)'.id
    BY DEF Started
  <2>0. Was(i) \in Rtp /\ wire[Was(i)].frag = "end" /\ NalOf(Was(i)).id # d + 1
    <3>1. Was(i) \in Rtp /\ wire[Was(i)].frag = "end" /\ NalOf(Was(i)).id > d + 1
      BY <1>2, <1>4
    <3> QED  BY <3>1
  <2>1. PICK j \in Rtp : j < Was(i) /\ wire[j].frag = "start" /\ NalOf(j).id = NalOf(Was(i)).id
    BY <2>0 DEF Undecoded, Started
  <2>2. j # 1  BY <2>1
  <2>3. Will(j) \in Rtp' /\ Will(j) < i /\ wire'[Will(j)] = wire[j]  BY Shifts, <1>2, <1>3, <2>1, <2>2
  <2> QED  BY <1>2, <2>1, <2>3 DEF NalOf
<1>11. PartStarted(d + 1)'
  <2> SUFFICES ASSUME printer.part # <<>>
               PROVE \E j \in Rtp' : wire'[j].frag = "start" /\ NalOf(j)'.id = Len(sent)
    BY <1>1 DEF PartStarted
  <2>1. d + 1 # Len(sent)  BY <1>4 DEF Undecoded, PartLast
  <2>2. PICK j \in Rtp : wire[j].frag = "start" /\ NalOf(j).id = Len(sent)
    BY <2>1 DEF Undecoded, PartStarted
  <2> QED  BY <1>3, <2>2 DEF NalOf
<1> QED  BY <1>5, <1>6, <1>7, <1>8, <1>9, <1>10, <1>11 DEF Undecoded

(* nalu_queue gets the NAL unit that is decoded next.                      *)
LEMMA DecodesOne ==
    ASSUME UNCHANGED <<printer.sent, printer.open>>, naluQ \in Seq(Nal), NEW t \in Nat, NEW d \in Nat,
           Decoded(t, d), NEW n \in Nal, n.id = d + 1, Genuine(n), d + 1 <= Len(sent),
           naluQ' = Append(naluQ, n)
    PROVE  Decoded(t, d + 1)'
<1>1. sent' = sent /\ LastTs' = LastTs
  BY DEF sent, LastTs
<1>2. /\ Len(naluQ') = Len(naluQ) + 1 /\ naluQ'[Len(naluQ) + 1] = n /\ Len(naluQ) \in Nat
      /\ \A i \in 1..Len(naluQ) : naluQ'[i] = naluQ[i]
  BY Ends
<1>3. t <= d /\ Len(naluQ) = d - t /\ \A i \in 1..Len(naluQ) : naluQ[i].id = t + i /\ Genuine(naluQ[i])
  BY DEF Decoded
<1>4. ASSUME NEW i \in 1..Len(naluQ')
      PROVE  (naluQ[i].id = t + i /\ Genuine(naluQ[i]))'
  <2>1. CASE i \in 1..Len(naluQ)
    <3>1. naluQ'[i] = naluQ[i] /\ naluQ[i].id = t + i /\ Genuine(naluQ[i])  BY <1>2, <1>3, <2>1
    <3> QED  BY <1>1, <3>1 DEF Genuine, Ended
  <2>2. CASE i = Len(naluQ) + 1
    <3>1. naluQ'[i] = n /\ d + 1 = t + i  BY <1>2, <1>3, <2>2
    <3>2. naluQ'[i].id = t + i  BY <3>1
    <3> QED  BY <1>1, <3>1, <3>2 DEF Genuine, Ended
  <2> QED  BY <1>2, <2>1, <2>2
<1>5. t <= d + 1 /\ Len(naluQ') = (d + 1) - t  BY <1>2, <1>3
<1> QED  BY <1>1, <1>4, <1>5 DEF Decoded

(* Reading a message, by start() or by the worker.                         *)
LEMMA Reads ==
    ASSUME TypeOK, Pipe, wire # <<>>, wire' = Tail(wire), DecodeRtp(Head(wire)),
           UNCHANGED <<au, ready, printer.sent, printer.open, printer.part>>
    PROVE  Pipe'
<1>1. PICK t \in Nat, d \in Nat : Monotone /\ Decoded(t, d) /\ Undecoded(d) /\ Made(ready, au, t)
  BY DEF Pipe, OnItsWay
<1>2. Monotone' /\ Made(ready, au, t)'  BY <1>1, KeepsOrder, KeepsMade
<1>3. wire \in Seq(Msg) /\ naluQ \in Seq(Nal) /\ fu \in One \cup {<<>>} /\ Head(wire) = wire[1]
      /\ sent \in Seq([ts : Nat, kind : Kinds])
  BY Ends DEF TypeOK, PrinterType, sent
<1>4. CASE Head(wire).k # "rtp"
  <2>1. UNCHANGED <<naluQ, fu>>  BY <1>4 DEF DecodeRtp
  <2>2. Decoded(t, d)' /\ Undecoded(d)'  BY <1>1, <1>3, <1>4, <2>1, DecodesNone, ReadOther
  <2> QED  BY <1>2, <2>2 DEF Pipe, OnItsWay
<1>5. CASE Head(wire).k = "rtp"
  <2>1. 1 \in Rtp  BY <1>3, <1>5, Shifts
  <2>2. /\ NalOf(1).id = d + 1 /\ Genuine(NalOf(1)) /\ d + 1 <= Len(sent)
        /\ wire[1].frag = "end" <=> fu # <<>>
        /\ wire[1].frag \in {"whole", "start", "end"} /\ NalOf(1) \in Nal
    BY <1>1, <1>3, <2>1, NextPacket
  <2>3. wire[1].k = "rtp" /\ wire[1].nals = <<NalOf(1)>>
    <3>1. wire[1] \in Msg  BY <1>3, Ends
    <3> QED  BY <1>3, <1>5, <3>1, Packets DEF NalOf
  <2>4. CASE wire[1].frag = "start"
    <3>1. fu' = wire[1].nals /\ naluQ' = naluQ  BY <1>3, <2>3, <2>4 DEF DecodeRtp
    <3>2. Decoded(t, d)' /\ Undecoded(d)'  BY <1>1, <1>3, <2>1, <2>4, <3>1, DecodesNone, ReadStart
    <3> QED  BY <1>2, <3>2 DEF Pipe, OnItsWay
  <2>5. CASE wire[1].frag # "start"
    <3>1. PICK n \in Nal : n.id = d + 1 /\ Genuine(n) /\ naluQ' = Append(naluQ, n) /\ fu' = <<>>
      <4>1. CASE wire[1].frag = "whole"
        <5>1. naluQ' = naluQ \o <<NalOf(1)>> /\ fu' = fu  BY <1>3, <2>3, <4>1 DEF DecodeRtp
        <5>2. naluQ' = Append(naluQ, NalOf(1)) /\ fu' = <<>>  BY <1>3, <2>2, <4>1, <5>1, Ends
        <5> QED  BY <2>2, <5>2
      <4>2. CASE wire[1].frag = "end"
        <5> DEFINE n == [fu[1] EXCEPT !.end = NalOf(1).end]
        <5>1. fu # <<>> /\ fu[1] \in Nal /\ Genuine(fu[1]) /\ fu[1].id = d + 1
          BY <1>1, <1>3, <2>2, <4>2, Singles DEF Undecoded, FuNext
        <5>2. naluQ' = naluQ \o <<n>> /\ fu' = <<>>
          <6>1. /\ naluQ' = naluQ \o <<[fu[1] EXCEPT !.end = Head(wire).nals[1].end]>>
                /\ fu' = <<>>
            BY <1>3, <2>3, <4>2, <5>1 DEF DecodeRtp
          <6> QED  BY <1>3, <6>1 DEF NalOf
        <5>3. n \in Nal /\ n.id = d + 1 /\ n.ts = fu[1].ts /\ n.kind = fu[1].kind /\ n.end = NalOf(1).end
          BY <2>2, <5>1 DEF Nal
        <5> HIDE DEF n
        <5>4. Genuine(n)  BY <2>2, <5>1, <5>3 DEF Genuine
        <5>5. naluQ' = Append(naluQ, n)  BY <1>3, <5>2, <5>3, Ends
        <5> QED  BY <5>2, <5>3, <5>4, <5>5
      <4> QED  BY <2>2, <2>5, <4>1, <4>2
    <3>2. Decoded(t, d + 1)'  BY <1>1, <1>3, <2>2, <3>1, DecodesOne
    <3>3. Undecoded(d + 1)'  BY <1>1, <1>3, <2>1, <2>5, <3>1, ReadLast
    <3>4. d + 1 \in Nat  OBVIOUS
    <3> QED  BY <1>2, <3>2, <3>3, <3>4 DEF Pipe, OnItsWay
  <2> QED  BY <2>4, <2>5
<1> QED  BY <1>4, <1>5

(***************************************************************************)
(* Writing: responses, noise and NAL units.                                *)
(***************************************************************************)

(* A message is put on the wire.                                           *)
LEMMA Adds ==
    ASSUME wire \in Seq(Msg), NEW m \in Msg, wire' = Append(wire, m)
    PROVE  /\ \A i \in Rtp : i \in Rtp' /\ wire'[i] = wire[i] /\ NalOf(i)' = NalOf(i)
                            /\ i < Len(wire) + 1 /\ ~(Len(wire) + 1 < i)
           /\ m.k = "rtp" => Len(wire) + 1 \in Rtp' /\ wire'[Len(wire) + 1] = m
           /\ \A i \in Rtp' : i \in Rtp \/ (i = Len(wire) + 1 /\ m.k = "rtp")
<1>1. /\ Len(wire) \in Nat /\ Len(wire') = Len(wire) + 1 /\ wire'[Len(wire) + 1] = m
      /\ \A i \in 1..Len(wire) : wire'[i] = wire[i]
  BY Ends
<1>2. ASSUME NEW i \in Rtp
      PROVE  i \in Rtp' /\ wire'[i] = wire[i] /\ NalOf(i)' = NalOf(i)
             /\ i < Len(wire) + 1 /\ ~(Len(wire) + 1 < i)
  <2>1. i \in 1..Len(wire) /\ wire[i].k = "rtp"  BY DEF Rtp
  <2>2. i \in 1..Len(wire') /\ wire'[i] = wire[i] /\ i < Len(wire) + 1 /\ ~(Len(wire) + 1 < i)
    BY <1>1, <2>1
  <2> QED  BY <2>1, <2>2 DEF Rtp, NalOf
<1>3. ASSUME m.k = "rtp" PROVE Len(wire) + 1 \in Rtp'
  <2>1. Len(wire) + 1 \in 1..Len(wire')  BY <1>1
  <2> QED  BY <1>1, <1>3, <2>1 DEF Rtp
<1>4. ASSUME NEW i \in Rtp' PROVE i \in Rtp \/ (i = Len(wire) + 1 /\ m.k = "rtp")
  <2>1. i \in 1..Len(wire') /\ wire'[i].k = "rtp"  BY DEF Rtp
  <2>2. i \in 1..Len(wire) \/ i = Len(wire) + 1  BY <1>1, <2>1
  <2> QED  BY <1>1, <2>1, <2>2 DEF Rtp
<1> QED  BY <1>1, <1>2, <1>3, <1>4

(* A response, an answer to a keepalive, RTCP or junk.                     *)
LEMMA AddsOther ==
    ASSUME TypeOK, Pipe, NEW m \in Msg, m.k # "rtp", wire' = Append(wire, m),
           UNCHANGED <<naluQ, fu, au, ready, printer.sent, printer.open, printer.part>>
    PROVE  Pipe'
<1>1. PICK t \in Nat, d \in Nat : Monotone /\ Decoded(t, d) /\ Undecoded(d) /\ Made(ready, au, t)
  BY DEF Pipe, OnItsWay
<1>2. Monotone' /\ Decoded(t, d)' /\ Made(ready, au, t)'
  BY <1>1, KeepsOrder, KeepsMade, DecodesNone
<1>3. sent' = sent /\ LastTs' = LastTs
  BY DEF sent, LastTs
<1>4. Rtp' = Rtp /\ \A i \in Rtp : wire'[i] = wire[i] /\ NalOf(i)' = NalOf(i)
  <2>1. wire \in Seq(Msg)  BY DEF TypeOK
  <2>2. \A i \in Rtp : i \in Rtp' /\ wire'[i] = wire[i] /\ NalOf(i)' = NalOf(i)  BY <2>1, Adds
  <2>3. \A i \in Rtp' : i \in Rtp  BY <2>1, Adds
  <2> QED  BY <2>2, <2>3
<1>5. Packet(d)'
  <2> SUFFICES ASSUME NEW i \in Rtp
               PROVE (Genuine(NalOf(i)) /\ NalOf(i).id > d /\ (wire[i].frag = "start" => ~NalOf(i).end))'
    BY <1>4 DEF Packet
  <2>1. Genuine(NalOf(i)) /\ NalOf(i).id > d /\ (wire[i].frag = "start" => ~NalOf(i).end)
    BY <1>1 DEF Undecoded, Packet
  <2>2. Genuine(NalOf(i))'  BY <1>3, <1>4, <2>1 DEF Genuine, Ended
  <2> QED  BY <1>4, <2>1, <2>2
<1>6. Ordered'
  <2> SUFFICES ASSUME NEW i \in Rtp, NEW j \in Rtp, i < j
               PROVE (\/ NalOf(i).id < NalOf(j).id
                      \/ NalOf(i).id = NalOf(j).id /\ wire[i].frag = "start" /\ wire[j].frag = "end")'
    BY <1>4 DEF Ordered
  <2>1. \/ NalOf(i).id < NalOf(j).id
        \/ NalOf(i).id = NalOf(j).id /\ wire[i].frag = "start" /\ wire[j].frag = "end"
    BY <1>1 DEF Undecoded, Ordered
  <2> QED  BY <1>4, <2>1
<1>7. Complete(d)'  BY <1>1, <1>3, <1>4 DEF Undecoded, Complete
<1>8. PartLast(d)'  BY <1>1, <1>3, <1>4 DEF Undecoded, PartLast, Genuine, Ended
<1>9. FuNext(d)'  BY <1>1, <1>3, <1>4 DEF Undecoded, FuNext, Genuine, Ended
<1>10. Started(d)'
  <2> SUFFICES ASSUME NEW i \in Rtp, wire'[i].frag = "end", ~(fu' # <<>> /\ NalOf(i)'.id = d + 1)
               PROVE \E j \in Rtp : j < i /\ wire'[j].frag = "start" /\ NalOf(j)'.id = NalOf(i)'.id
    BY <1>4 DEF Started
  <2>1. PICK j \in Rtp : j < i /\ wire[j].frag = "start" /\ NalOf(j).id = NalOf(i).id
    BY <1>1, <1>4 DEF Undecoded, Started
  <2> QED  BY <1>4, <2>1
<1>11. PartStarted(d)'  BY <1>1, <1>3, <1>4 DEF Undecoded, PartStarted
<1> QED  BY <1>2, <1>5, <1>6, <1>7, <1>8, <1>9, <1>10, <1>11 DEF Pipe, OnItsWay, Undecoded

(***************************************************************************)
(* The worker: access units and samples.                                   *)
(***************************************************************************)

(* What the printer sent has kinds and timestamps.                         *)
LEMMA SentTypes ==
    ASSUME printer \in PrinterType
    PROVE  /\ sent \in Seq([ts : Nat, kind : Kinds]) /\ Len(sent) \in Nat /\ LastTs \in Nat
           /\ \A i \in 1..Len(sent) : sent[i].ts \in Nat /\ sent[i].kind \in Kinds
           /\ Len(sent) > 0 => LastTs = sent[Len(sent)].ts
<1>1. sent \in Seq([ts : Nat, kind : Kinds])  BY DEF PrinterType, sent
<1>2. Len(sent) \in Nat /\ (sent = <<>> <=> Len(sent) = 0)
      /\ \A i \in 1..Len(sent) : sent[i] \in [ts : Nat, kind : Kinds]
  BY <1>1, Ends
<1>3. LastTs \in Nat  BY LastTsIsNat
<1>4. Len(sent) > 0 => LastTs = sent[Len(sent)].ts  BY <1>2 DEF LastTs, sent
<1> QED  BY <1>1, <1>2, <1>3, <1>4

(* Nothing is sent after the last timestamp.                               *)
LEMMA UpToLast ==
    ASSUME printer \in PrinterType, Monotone, NEW n \in 1..Len(sent)
    PROVE  sent[n].ts <= LastTs
<1>1. Len(sent) \in Nat  BY SentTypes
<1>2. Len(sent) > 0 /\ Len(sent) \in 1..Len(sent) /\ n <= Len(sent)  BY <1>1
<1> QED  BY <1>2, SentTypes DEF Monotone

(* Samples taken, or dropped, from the front of the queue.                 *)
LEMMA Drops ==
    ASSUME NEW q \in Seq(Sample), NEW r \in Seq(Sample), NEW k \in Nat, Len(q) = Len(r) + k,
           \A i \in 1..Len(r) : r[i] = q[k + i], NEW u, NEW t, Queued(q, u, t), Whole(q)
    PROVE  Queued(r, u, t) /\ Whole(r)
<1>1. Len(q) \in Nat /\ Len(r) \in Nat  BY Ends
<1>2. Queued(r, u, t)
  <2> SUFFICES ASSUME NEW i \in 1..Len(r)
               PROVE  /\ ~IsUnit(r[i]) => r[i].ts = 0
                      /\ IsUnit(r[i]) =>
                            /\ r[i].ts >= 1 /\ Ended(r[i].ts)
                            /\ \A n \in 1..Len(sent) : n > t => sent[n].ts > r[i].ts
                            /\ u.open => r[i].ts < u.ts
    BY DEF Queued
  <2>1. PICK a \in 1..Len(q) : r[i] = q[a]
    <3>1. k + i \in 1..Len(q)  BY <1>1
    <3> QED  BY <3>1
  <2> QED  BY <2>1 DEF Queued
<1>3. Whole(r)
  <2> SUFFICES ASSUME NEW i \in 1..Len(r), IsUnit(r[i])
               PROVE  WholeSample(r[i]) /\ \A j \in 1..(i - 1) : r[j].ts < r[i].ts
    BY DEF Whole
  <2>1. k + i \in 1..Len(q) /\ r[i] = q[k + i]  BY <1>1
  <2>2. WholeSample(q[k + i]) /\ \A j \in 1..((k + i) - 1) : q[j].ts < q[k + i].ts
    BY <2>1 DEF Whole
  <2>3. ASSUME NEW j \in 1..(i - 1) PROVE r[j].ts < r[i].ts
    <3>1. k + j \in 1..((k + i) - 1) /\ j \in 1..Len(r)  BY <1>1, <2>3
    <3>2. r[j] = q[k + j]  BY <3>1
    <3> QED  BY <2>1, <2>2, <3>1, <3>2
  <2> QED  BY <2>1, <2>2, <2>3
<1> QED  BY <1>2, <1>3

(* flush_au: the sample it adds is whole and later than all in the queue,  *)
(* when the access unit has ended and all of it has been taken.            *)
LEMMA FlushMakes ==
    ASSUME printer \in PrinterType, NEW q \in Seq(Sample), NEW u \in AuType, NEW t \in Nat,
           t <= Len(sent), Made(q, u, t), u.open, Ended(u.ts),
           \A m \in 1..Len(sent) : m > t => sent[m].ts > u.ts
    PROVE  Made(Flush(q, u), NoAu, t)
<1> DEFINE e == [ts |-> u.ts, nals |-> u.nals, flags |-> IF u.idr THEN "sync" ELSE "none"]
           r == Room(q)
           f == Flush(q, u)
<1>1. /\ u.nals # <<>> /\ Range(u.nals) = Taken(t, u.ts) /\ Increasing(u.nals)
      /\ u.idr <=> \E n \in Taken(t, u.ts) : sent[n].kind = "idr"
      /\ \A n \in 1..t : sent[n].kind # "ps" => sent[n].ts <= u.ts
      /\ u.ts >= 1
  BY DEF Made, Assembled
<1>2. Queued(q, u, t) /\ Whole(q)  BY DEF Made
<1>3. u.ts \in Nat /\ e \in Sample /\ u.idr \in BOOLEAN  BY DEF AuType, Sample
<1>4. f = Append(r, e)  BY <1>1, Flushes
<1>5. r \in Seq(Sample) /\ Len(r) \in Nat /\ Queued(r, u, t) /\ Whole(r)
  <2>1. /\ r \in Seq(Sample) /\ Len(r) <= Len(q) /\ Len(r) \in Nat /\ Len(q) \in Nat
        /\ \A i \in 1..Len(r) : r[i] = q[Len(q) - Len(r) + i]
    BY Rooms, Ends
  <2>2. Len(q) - Len(r) \in Nat /\ Len(q) = Len(r) + (Len(q) - Len(r))  BY <2>1
  <2> HIDE DEF r
  <2> QED  BY <1>2, <2>1, <2>2, Drops
<1> HIDE DEF r
<1>6. e.ts = u.ts /\ e.nals = u.nals /\ IsUnit(e) /\ (e.flags = "sync" <=> u.idr)
  BY <1>3 DEF IsUnit
<1> HIDE DEF e, f
<1>7. Len(f) = Len(r) + 1 /\ f[Len(r) + 1] = e /\ \A i \in 1..Len(r) : f[i] = r[i]
  BY <1>3, <1>4, <1>5, Ends
<1>8. Kept(u.ts) = Taken(t, u.ts)
  <2>1. ASSUME NEW n \in 1..Len(sent), sent[n].ts = u.ts PROVE n \in 1..t
    <3>1. ~(sent[n].ts > u.ts)  BY <1>3, <2>1
    <3> QED  BY <3>1, SentTypes
  <2>2. \A n \in 1..t : n \in 1..Len(sent)  BY SentTypes
  <2> QED  BY <2>1, <2>2 DEF Kept, Taken, sent
<1>9. Assembled(NoAu, t)
  <2> SUFFICES ASSUME NEW n \in 1..t, sent[n].kind # "ps"
               PROVE  Ended(sent[n].ts) /\ \A m \in 1..Len(sent) : m > t => sent[m].ts > sent[n].ts
    BY DEF Assembled, NoAu
  <2>1. sent[n].ts <= u.ts /\ sent[n].ts \in Nat  BY <1>1, SentTypes
  <2>2. Ended(sent[n].ts)  BY <1>3, <2>1, SentTypes DEF Ended
  <2>3. ASSUME NEW m \in 1..Len(sent), m > t PROVE sent[m].ts > sent[n].ts
    <3>1. sent[m].ts > u.ts /\ sent[m].ts \in Nat  BY <2>3, SentTypes
    <3> QED  BY <1>3, <2>1, <3>1
  <2> QED  BY <2>2, <2>3
<1>10. Queued(f, NoAu, t)
  <2> SUFFICES ASSUME NEW i \in 1..Len(f)
               PROVE  /\ ~IsUnit(f[i]) => f[i].ts = 0
                      /\ IsUnit(f[i]) =>
                            /\ f[i].ts >= 1 /\ Ended(f[i].ts)
                            /\ \A n \in 1..Len(sent) : n > t => sent[n].ts > f[i].ts
    BY DEF Queued, NoAu
  <2>1. CASE i \in 1..Len(r)
    BY <1>5, <1>7, <2>1 DEF Queued
  <2>2. CASE i = Len(r) + 1
    BY <1>1, <1>6, <1>7, <2>2
  <2> QED  BY <1>5, <1>7, <2>1, <2>2
<1>11. Whole(f)
  <2> SUFFICES ASSUME NEW i \in 1..Len(f), IsUnit(f[i])
               PROVE  WholeSample(f[i]) /\ \A j \in 1..(i - 1) : f[j].ts < f[i].ts
    BY DEF Whole
  <2>1. CASE i \in 1..Len(r)
    <3>1. f[i] = r[i] /\ \A j \in 1..(i - 1) : j \in 1..Len(r) /\ f[j] = r[j]  BY <1>5, <1>7, <2>1
    <3> QED  BY <1>5, <2>1, <3>1 DEF Whole
  <2>2. CASE i = Len(r) + 1
    <3>1. f[i] = e /\ \A j \in 1..(i - 1) : j \in 1..Len(r) /\ f[j] = r[j]  BY <1>5, <1>7, <2>2
    <3>2. WholeSample(e)  BY <1>1, <1>6, <1>8 DEF WholeSample
    <3>3. ASSUME NEW j \in 1..Len(r) PROVE r[j].ts < u.ts
      <4>1. ~IsUnit(r[j]) => r[j].ts = 0  BY <1>5 DEF Queued
      <4>2. IsUnit(r[j]) => r[j].ts < u.ts  BY <1>5 DEF Queued
      <4> QED  BY <1>1, <1>3, <4>1, <4>2
    <3> QED  BY <1>6, <3>1, <3>2, <3>3
  <2> QED  BY <1>5, <1>7, <2>1, <2>2
<1> QED  BY <1>9, <1>10, <1>11 DEF Made, f

(* A NAL unit joins the access unit of its timestamp.                      *)
LEMMA TakeMakes ==
    ASSUME printer \in PrinterType, Monotone, NEW q \in Seq(Sample), NEW a \in AuType, NEW t \in Nat,
           t + 1 <= Len(sent), Made(q, a, t), NEW n \in Nal, n.id = t + 1, Genuine(n), n.kind # "ps",
           a.open => a.ts = n.ts
    PROVE  Made(q, With(Opened(a, n), n), t + 1)
<1> DEFINE v == With(Opened(a, n), n)
           old == IF a.open THEN a.nals ELSE <<>>
<1>0. /\ v \in AuType /\ v.open /\ v.nals # <<>> /\ v.ts = n.ts /\ v.nals = Append(old, t + 1)
      /\ v.idr <=> (a.open /\ a.idr) \/ n.kind = "idr"
  BY Withs
<1>1. old \in Seq(Nat)  BY EmptySeq DEF AuType
<1>2. /\ t + 1 \in 1..Len(sent) /\ n.ts = sent[t + 1].ts /\ n.kind = sent[t + 1].kind
      /\ n.ts \in Nat /\ Len(sent) \in Nat
  BY SentTypes DEF Genuine, Nal
<1>3. Range(old) = Taken(t, n.ts)
  <2>1. CASE a.open
    BY <2>1 DEF Made, Assembled
  <2>2. CASE ~a.open
    <3>1. ASSUME NEW k \in 1..t, sent[k].kind # "ps" PROVE sent[k].ts # n.ts
      <4>1. sent[t + 1].ts > sent[k].ts
        BY <1>2, <2>2, <3>1 DEF Made, Assembled
      <4>2. sent[k].ts \in Nat  BY <1>2, <3>1, SentTypes
      <4> QED  BY <1>2, <4>1, <4>2
    <3>2. Taken(t, n.ts) = {}  BY <3>1 DEF Taken
    <3>3. Range(old) = {}  BY <2>2 DEF Range
    <3> QED  BY <3>2, <3>3
  <2> QED  BY <2>1, <2>2
<1>4. Increasing(old)
  <2>1. CASE a.open  BY <2>1 DEF Made, Assembled
  <2>2. CASE ~a.open  BY <2>2 DEF Increasing
  <2> QED  BY <2>1, <2>2
<1>5. (a.open /\ a.idr) <=> \E k \in Taken(t, n.ts) : sent[k].kind = "idr"
  <2>1. CASE a.open  BY <2>1 DEF Made, Assembled
  <2>2. CASE ~a.open
    <3>1. Range(old) = {}  BY <2>2 DEF Range
    <3> QED  BY <1>3, <2>2, <3>1
  <2> QED  BY <2>1, <2>2
<1> HIDE DEF old, v
<1>6. /\ Len(old) \in Nat /\ DOMAIN old = 1..Len(old) /\ Len(v.nals) = Len(old) + 1
      /\ v.nals[Len(old) + 1] = t + 1 /\ DOMAIN v.nals = 1..(Len(old) + 1)
      /\ \A i \in 1..Len(old) : v.nals[i] = old[i]
  <2>1. t + 1 \in Nat  OBVIOUS
  <2>2. v.nals \in Seq(Nat)  BY <1>0, <1>1, <2>1, Ends
  <2>3. Len(v.nals) = Len(old) + 1 /\ DOMAIN v.nals = 1..Len(v.nals)  BY <1>0, <1>1, <2>1, <2>2, Ends
  <2> QED  BY <1>0, <1>1, <2>1, <2>3, Ends
<1>7. Taken(t + 1, n.ts) = Taken(t, n.ts) \cup {t + 1}
  <2>1. \A k : k \in 1..(t + 1) <=> k \in 1..t \/ k = t + 1  OBVIOUS
  <2> QED  BY <1>2, <2>1 DEF Taken
<1>8. Range(v.nals) = Taken(t + 1, n.ts)
  <2>1. Range(v.nals) = Range(old) \cup {t + 1}
    <3>1. \A i : i \in 1..(Len(old) + 1) <=> i \in 1..Len(old) \/ i = Len(old) + 1  BY <1>6
    <3> QED  BY <1>6, <3>1 DEF Range
  <2> QED  BY <1>3, <1>7, <2>1
<1>9. Increasing(v.nals)
  <2> SUFFICES ASSUME NEW b \in 1..(Len(old) + 1), NEW c \in 1..(Len(old) + 1), b < c
               PROVE  v.nals[b] < v.nals[c]
    BY <1>6 DEF Increasing
  <2>1. b \in 1..Len(old) /\ v.nals[b] = old[b]  BY <1>6
  <2>2. CASE c \in 1..Len(old)  BY <1>4, <1>6, <2>1, <2>2 DEF Increasing
  <2>3. CASE c = Len(old) + 1
    <3>1. old[b] \in Range(old)  BY <1>6, <2>1 DEF Range
    <3>2. old[b] \in 1..t  BY <1>3, <3>1 DEF Taken
    <3> QED  BY <1>6, <2>1, <2>3, <3>2
  <2> QED  BY <1>6, <2>2, <2>3
<1>10. v.idr <=> \E k \in Taken(t + 1, n.ts) : sent[k].kind = "idr"
  BY <1>0, <1>2, <1>5, <1>7
<1>11. \A k \in 1..Len(sent) : k > t + 1 => sent[k].ts >= n.ts
  <2> SUFFICES ASSUME NEW k \in 1..Len(sent), k > t + 1 PROVE sent[k].ts >= sent[t + 1].ts
    BY <1>2
  <2>1. t + 1 <= k  OBVIOUS
  <2>2. sent[t + 1].ts <= sent[k].ts  BY <1>2, <2>1 DEF Monotone
  <2> QED  BY <1>2, <2>2, SentTypes
<1>12. \A k \in 1..(t + 1) : sent[k].ts <= n.ts
  <2> SUFFICES ASSUME NEW k \in 1..(t + 1) PROVE sent[k].ts <= sent[t + 1].ts
    BY <1>2
  <2>1. k \in 1..Len(sent) /\ k <= t + 1  BY <1>2
  <2> QED  BY <1>2, <2>1 DEF Monotone
<1>13. n.ts >= 1 /\ n.ts <= LastTs
  BY <1>2, UpToLast DEF Monotone
<1>14. Assembled(v, t + 1)
  BY <1>0, <1>8, <1>9, <1>10, <1>11, <1>12, <1>13 DEF Assembled
<1>15. Queued(q, v, t + 1)
  <2> SUFFICES ASSUME NEW i \in 1..Len(q)
               PROVE  /\ ~IsUnit(q[i]) => q[i].ts = 0
                      /\ IsUnit(q[i]) =>
                            /\ q[i].ts >= 1 /\ Ended(q[i].ts)
                            /\ \A k \in 1..Len(sent) : k > t + 1 => sent[k].ts > q[i].ts
                            /\ v.open => q[i].ts < v.ts
    BY DEF Queued
  <2>1. /\ ~IsUnit(q[i]) => q[i].ts = 0
        /\ IsUnit(q[i]) =>
              /\ q[i].ts >= 1 /\ Ended(q[i].ts)
              /\ \A k \in 1..Len(sent) : k > t => sent[k].ts > q[i].ts
    BY DEF Made, Queued
  <2>2. IsUnit(q[i]) => q[i].ts < v.ts
    <3> SUFFICES ASSUME IsUnit(q[i]) PROVE q[i].ts < v.ts  OBVIOUS
    <3>1. sent[t + 1].ts > q[i].ts  BY <1>2, <2>1
    <3>2. q[i] \in Sample  BY Ends
    <3>3. q[i].ts \in Nat  BY <3>2 DEF Sample
    <3> QED  BY <1>0, <1>2, <3>1, <3>3
  <2>3. \A k \in 1..Len(sent) : k > t + 1 => k > t  OBVIOUS
  <2> QED  BY <2>1, <2>2, <2>3
<1> QED  BY <1>14, <1>15 DEF Made, v

(* A parameter set is taken and left out.                                  *)
LEMMA SkipMakes ==
    ASSUME NEW t \in Nat, NEW q, NEW u, Len(sent) \in Nat, t + 1 <= Len(sent),
           Made(q, u, t), sent[t + 1].kind = "ps"
    PROVE  Made(q, u, t + 1)
<1>1. \A k \in 1..(t + 1) : sent[k].kind # "ps" => k \in 1..t  OBVIOUS
<1>2. \A k \in 1..t : k \in 1..(t + 1)  OBVIOUS
<1>3. \A k \in 1..Len(sent) : k > t + 1 => k > t  OBVIOUS
<1>4. \A ts : Taken(t + 1, ts) = Taken(t, ts)  BY <1>1, <1>2 DEF Taken
<1>5. Assembled(u, t + 1)  BY <1>1, <1>3, <1>4 DEF Made, Assembled
<1>6. Queued(q, u, t + 1)  BY <1>3 DEF Made, Queued
<1> QED  BY <1>5, <1>6 DEF Made

(* The worker takes a NAL unit: skipped, joined to the access unit at      *)
(* hand, or the first of a new one, after flush_au of the old; the mark    *)
(* flushes as well.                                                        *)
LEMMA TakeStep ==
    ASSUME TypeOK, Pipe, TakeNalu
    PROVE  Pipe'
<1>1. PICK t \in Nat, d \in Nat : Monotone /\ Decoded(t, d) /\ Undecoded(d) /\ Made(ready, au, t)
  BY DEF Pipe, OnItsWay
<1> DEFINE n == Head(naluQ)
           newUnit == au.open /\ n.ts # au.ts
           a == IF newUnit THEN NoAu ELSE au
           v == With(Opened(a, n), n)
           q == IF newUnit THEN Flush(ready, au) ELSE ready
<1>2. /\ naluQ # <<>> /\ naluQ' = Tail(naluQ) /\ UNCHANGED <<fu, wire, printer>>
      /\ n.kind = "ps" => UNCHANGED <<au, ready>>
      /\ n.kind # "ps" => /\ ready' = IF n.end THEN Flush(q, v) ELSE q
                          /\ au' = IF n.end THEN NoAu ELSE v
  BY DEF TakeNalu
<1>3. /\ naluQ \in Seq(Nal) /\ ready \in Seq(Sample) /\ au \in AuType /\ printer \in PrinterType
      /\ Len(sent) \in Nat
  BY SentTypes DEF TypeOK
<1>4. /\ n \in Nal /\ n = naluQ[1] /\ Len(naluQ) \in Nat /\ Len(naluQ) > 0
      /\ Len(naluQ') = Len(naluQ) - 1
      /\ \A i \in 1..(Len(naluQ) - 1) : naluQ'[i] = naluQ[i + 1]
  BY <1>2, <1>3, Ends
<1>5. /\ t <= d /\ d <= Len(sent) /\ Len(naluQ) = d - t
      /\ \A i \in 1..Len(naluQ) : naluQ[i].id = t + i /\ Genuine(naluQ[i])
  BY <1>1 DEF Decoded
<1>6. n.id = t + 1 /\ Genuine(n) /\ t + 1 <= d /\ t + 1 <= Len(sent)
  <2>1. 1 \in 1..Len(naluQ)  BY <1>4
  <2> QED  BY <1>3, <1>4, <1>5, <2>1
<1>7. Decoded(t + 1, d)'
  <2>1. UNCHANGED <<sent, LastTs>>  BY <1>2 DEF sent, LastTs
  <2>2. ASSUME NEW i \in 1..Len(naluQ')
        PROVE  (naluQ[i].id = (t + 1) + i /\ Genuine(naluQ[i]))'
    <3>1. i + 1 \in 1..Len(naluQ) /\ naluQ'[i] = naluQ[i + 1] /\ t + (i + 1) = (t + 1) + i
      BY <1>4, <2>2
    <3>2. naluQ[i + 1].id = t + (i + 1) /\ Genuine(naluQ[i + 1])  BY <1>5, <3>1
    <3>3. naluQ'[i].id = (t + 1) + i  BY <3>1, <3>2
    <3>4. Genuine(naluQ[i])'
      <4> DEFINE x == naluQ[i + 1]
      <4>1. Genuine(x) /\ naluQ'[i] = x  BY <3>1, <3>2
      <4> HIDE DEF x
      <4> QED  BY <1>2, <2>1, <4>1 DEF Genuine, Ended
    <3> QED  BY <3>3, <3>4
  <2>3. Len(naluQ') = d - (t + 1)  BY <1>4, <1>5
  <2> QED  BY <1>5, <1>6, <2>1, <2>2, <2>3 DEF Decoded
<1>8. Undecoded(d)' /\ Monotone'  BY <1>1, <1>2, WireStays, KeepsOrder
<1>9. /\ n.ts = sent[t + 1].ts /\ n.kind = sent[t + 1].kind /\ t + 1 \in 1..Len(sent)
      /\ n.ts \in Nat /\ n.end \in BOOLEAN
      /\ n.end => Ended(n.ts) /\ \A m \in 1..Len(sent) : sent[m].ts = n.ts => m <= t + 1
  BY <1>4, <1>6 DEF Genuine, Nal
<1> HIDE DEF n
<1>10. Made(ready', au', t + 1)
  <2>1. CASE n.kind = "ps"
    BY <1>1, <1>2, <1>3, <1>6, <1>9, <2>1, SkipMakes
  <2>2. CASE n.kind # "ps"
    <3>1. NoAu \in AuType /\ a \in AuType /\ q \in Seq(Sample) /\ (a.open => a.ts = n.ts)
      <4>1. NoAu \in AuType  BY EmptySeq DEF NoAu, AuType
      <4>2. Flush(ready, au) \in Seq(Sample)  BY <1>3, Flushes
      <4> QED  BY <1>3, <4>1, <4>2 DEF NoAu
    <3>2. Made(q, a, t)
      <4>1. CASE newUnit
        <5>1. au.open /\ n.ts # au.ts /\ au.ts \in Nat  BY <1>3, <4>1 DEF AuType
        <5>2. sent[t + 1].ts >= au.ts
          BY <1>1, <1>9, <5>1 DEF Made, Assembled
        <5>3. n.ts > au.ts  BY <1>9, <5>1, <5>2
        <5>4. Ended(au.ts)
          <6>1. n.ts <= LastTs /\ LastTs \in Nat  BY <1>1, <1>3, <1>9, UpToLast, SentTypes
          <6> QED  BY <1>9, <5>1, <5>3, <6>1 DEF Ended
        <5>5. ASSUME NEW m \in 1..Len(sent), m > t PROVE sent[m].ts > au.ts
          <6>1. t + 1 <= m  BY <5>5
          <6>2. sent[t + 1].ts <= sent[m].ts  BY <1>1, <1>9, <6>1 DEF Monotone
          <6> QED  BY <1>3, <1>9, <5>1, <5>3, <6>2, SentTypes
        <5>6. t <= Len(sent)  BY <1>3, <1>6
        <5>7. Made(Flush(ready, au), NoAu, t)  BY <1>1, <1>3, <5>1, <5>4, <5>5, <5>6, FlushMakes
        <5> QED  BY <4>1, <5>7
      <4>2. CASE ~newUnit
        BY <1>1, <4>2
      <4> QED  BY <4>1, <4>2
    <3> HIDE DEF q, a
    <3>3. Made(q, v, t + 1)  BY <1>1, <1>3, <1>4, <1>6, <2>2, <3>1, <3>2, TakeMakes
    <3>4. v \in AuType /\ v.open /\ v.ts = n.ts  BY <1>4, <3>1, Withs
    <3> HIDE DEF v
    <3>5. ASSUME n.end PROVE Made(Flush(q, v), NoAu, t + 1)
      <4>1. Ended(v.ts)  BY <1>9, <3>4, <3>5
      <4>2. ASSUME NEW m \in 1..Len(sent), m > t + 1 PROVE sent[m].ts > v.ts
        <5>1. sent[m].ts >= v.ts  BY <3>3, <3>4, <4>2 DEF Made, Assembled
        <5>2. sent[m].ts # v.ts
          <6>1. sent[m].ts = n.ts => m <= t + 1  BY <1>9, <3>5
          <6> QED  BY <3>4, <4>2, <6>1
        <5>3. sent[m].ts \in Nat /\ v.ts \in Nat  BY <1>3, <1>9, <3>4, SentTypes
        <5> QED  BY <5>1, <5>2, <5>3
      <4>3. t + 1 \in Nat  OBVIOUS
      <4> QED  BY <1>3, <1>6, <3>1, <3>3, <3>4, <4>1, <4>2, <4>3, FlushMakes
    <3> QED  BY <1>2, <1>9, <2>2, <3>3, <3>5
  <2> QED  BY <2>1, <2>2
<1>11. Made(ready, au, t + 1)'  BY <1>2, <1>10, MakesNext
<1>12. t + 1 \in Nat  OBVIOUS
<1> QED  BY <1>7, <1>8, <1>11, <1>12 DEF Pipe, OnItsWay

(* try_pull takes the first sample.                                        *)
LEMMA PullStep ==
    ASSUME TypeOK, Pipe, TryPull
    PROVE  Pipe'
<1>1. PICK t \in Nat, d \in Nat : Monotone /\ Decoded(t, d) /\ Undecoded(d) /\ Made(ready, au, t)
  BY DEF Pipe, OnItsWay
<1>2. ready # <<>> /\ ready' = Tail(ready) /\ UNCHANGED <<naluQ, fu, au, wire, printer>>
  BY DEF TryPull
<1>3. ready \in Seq(Sample)  BY DEF TypeOK
<1>4. /\ Len(ready) \in Nat /\ Tail(ready) \in Seq(Sample) /\ Len(ready) > 0
      /\ Len(Tail(ready)) = Len(ready) - 1
      /\ \A i \in 1..(Len(ready) - 1) : Tail(ready)[i] = ready[i + 1]
  BY <1>2, <1>3, Ends
<1>5. Len(ready) = Len(Tail(ready)) + 1 /\ \A i \in 1..Len(Tail(ready)) : Tail(ready)[i] = ready[1 + i]
  BY <1>4
<1>6. Queued(Tail(ready), au, t) /\ Whole(Tail(ready))
  BY <1>1, <1>3, <1>4, <1>5, Drops DEF Made
<1>7. Made(ready', au', t)  BY <1>1, <1>2, <1>6 DEF Made
<1>8. Made(ready, au, t)'  BY <1>2, <1>7, MakesNext
<1>9. Monotone' /\ Decoded(t, d)' /\ Undecoded(d)'
  BY <1>1, <1>2, KeepsOrder, DecodesNone, WireStays
<1> QED  BY <1>8, <1>9 DEF Pipe, OnItsWay

(* The marker at the end of the stream.                                    *)
LEMMA EndStep ==
    ASSUME TypeOK, Pipe, ReadEnds
    PROVE  Pipe'
<1>1. PICK t \in Nat, d \in Nat : Monotone /\ Decoded(t, d) /\ Undecoded(d) /\ Made(ready, au, t)
  BY DEF Pipe, OnItsWay
<1>2. UNCHANGED <<naluQ, fu, au, wire, printer>>
  BY DEF ReadEnds
<1>3. PICK f \in {"eos", "err"} : ready' = Append(ready, [ts |-> 0, nals |-> <<>>, flags |-> f])
  BY DEF ReadEnds
<1> DEFINE e == [ts |-> 0, nals |-> <<>>, flags |-> f]
<1>4. e \in Sample /\ ~IsUnit(e) /\ e.ts = 0  BY EmptySeq DEF Sample, IsUnit
<1> HIDE DEF e
<1>5. /\ Len(ready) \in Nat /\ Len(ready') = Len(ready) + 1 /\ ready'[Len(ready) + 1] = e
      /\ \A i \in 1..Len(ready) : ready'[i] = ready[i]
  <2>1. ready \in Seq(Sample) /\ ready' = Append(ready, e)  BY <1>3 DEF TypeOK, e
  <2> QED  BY <1>4, <2>1, Ends
<1>6. Queued(ready', au, t)
  <2> SUFFICES ASSUME NEW i \in 1..Len(ready')
               PROVE  /\ ~IsUnit(ready'[i]) => ready'[i].ts = 0
                      /\ IsUnit(ready'[i]) =>
                            /\ ready'[i].ts >= 1 /\ Ended(ready'[i].ts)
                            /\ \A n \in 1..Len(sent) : n > t => sent[n].ts > ready'[i].ts
                            /\ au.open => ready'[i].ts < au.ts
    BY DEF Queued
  <2>1. CASE i \in 1..Len(ready)
    BY <1>1, <1>5, <2>1 DEF Made, Queued
  <2>2. CASE i = Len(ready) + 1
    BY <1>4, <1>5, <2>2
  <2> QED  BY <1>5, <2>1, <2>2
<1>7. Whole(ready')
  <2> SUFFICES ASSUME NEW i \in 1..Len(ready'), IsUnit(ready'[i])
               PROVE  WholeSample(ready'[i]) /\ \A j \in 1..(i - 1) : ready'[j].ts < ready'[i].ts
    BY DEF Whole
  <2>1. i \in 1..Len(ready)  BY <1>4, <1>5
  <2>2. \A j \in 1..(i - 1) : j \in 1..Len(ready)  BY <1>5, <2>1
  <2> QED  BY <1>1, <1>5, <2>1, <2>2 DEF Made, Whole
<1>8. Made(ready', au', t)  BY <1>1, <1>2, <1>6, <1>7 DEF Made
<1>9. Made(ready, au, t)'  BY <1>2, <1>8, MakesNext
<1>10. Monotone' /\ Decoded(t, d)' /\ Undecoded(d)'
  BY <1>1, <1>2, KeepsOrder, DecodesNone, WireStays
<1> QED  BY <1>9, <1>10 DEF Pipe, OnItsWay

(***************************************************************************)
(* The printer sends.                                                      *)
(***************************************************************************)

(* The printer may send more, but nothing of an access unit that ended.    *)
Grows ==
    /\ Len(sent) \in Nat /\ Len(sent') \in Nat /\ Len(sent) <= Len(sent')
    /\ \A i \in 1..Len(sent) : sent'[i] = sent[i]
    /\ \A ts \in Nat : Ended(ts) => /\ Ended(ts)'
                                    /\ \A m \in 1..Len(sent') : m > Len(sent) => sent'[m].ts > ts
    /\ LastTs \in Nat /\ LastTs' \in Nat /\ LastTs <= LastTs'
    /\ \A m \in 1..Len(sent') : m > Len(sent) => sent'[m].ts \in Nat /\ sent'[m].ts >= LastTs
    /\ \A i \in 1..Len(sent) : sent[i].ts \in Nat

(* A NAL unit on its way stays what it is.                                 *)
LEMMA StaysGenuine ==
    ASSUME Grows, NEW n \in Nal, Genuine(n)
    PROVE  Genuine(n)'
<1>1. n.id \in 1..Len(sent) /\ n.id \in 1..Len(sent') /\ sent'[n.id] = sent[n.id] /\ n.ts \in Nat
  BY DEF Grows, Genuine, Nal
<1>2. ASSUME n.end PROVE Ended(n.ts)' /\ \A m \in 1..Len(sent') : sent'[m].ts = n.ts => m <= n.id
  <2>1. Ended(n.ts) /\ \A m \in 1..Len(sent) : sent[m].ts = n.ts => m <= n.id
    BY <1>2 DEF Genuine
  <2>2. Ended(n.ts)' /\ \A m \in 1..Len(sent') : m > Len(sent) => sent'[m].ts > n.ts
    BY <1>1, <2>1 DEF Grows
  <2>3. ASSUME NEW m \in 1..Len(sent'), sent'[m].ts = n.ts PROVE m <= n.id
    <3>1. ~(sent'[m].ts > n.ts)  BY <1>1, <2>3
    <3>2. m \in 1..Len(sent)  BY <2>2, <3>1 DEF Grows
    <3> QED  BY <2>1, <2>3, <3>2 DEF Grows
  <2> QED  BY <2>2, <2>3
<1> QED  BY <1>1, <1>2 DEF Genuine

(* What was decoded stays so.                                              *)
LEMMA StaysDecoded ==
    ASSUME Grows, naluQ \in Seq(Nal), naluQ' = naluQ, NEW t \in Nat, NEW d \in Nat, Decoded(t, d)
    PROVE  Decoded(t, d)'
<1>1. /\ t <= d /\ d <= Len(sent) /\ Len(naluQ) = d - t
      /\ \A i \in 1..Len(naluQ) : naluQ[i].id = t + i /\ Genuine(naluQ[i])
  BY DEF Decoded
<1>2. ASSUME NEW i \in 1..Len(naluQ) PROVE Genuine(naluQ[i])'
  <2>1. naluQ[i] \in Nal /\ Genuine(naluQ[i])  BY <1>1, Ends
  <2>2. PICK x \in Nal : x = naluQ[i] /\ Genuine(x)  BY <2>1
  <2>3. Genuine(x)'  BY <2>2, StaysGenuine
  <2>4. naluQ'[i] = x  BY <2>2
  <2> QED  BY <2>3, <2>4 DEF Genuine, Ended
<1>3. d <= Len(sent')  BY <1>1 DEF Grows
<1> QED  BY <1>1, <1>2, <1>3 DEF Decoded

(* What the worker made stays whole.                                       *)
LEMMA StaysMade ==
    ASSUME Grows, au \in AuType, ready \in Seq(Sample), UNCHANGED <<au, ready>>,
           NEW t \in Nat, t <= Len(sent), Made(ready, au, t)
    PROVE  Made(ready, au, t)'
<1>1. /\ \A k \in 1..t : k \in 1..Len(sent) /\ k \in 1..Len(sent') /\ sent'[k] = sent[k]
      /\ \A m \in 1..Len(sent') : m \in 1..Len(sent) \/ m > Len(sent)
  BY DEF Grows
<1>2. \A ts : Taken(t, ts)' = Taken(t, ts)  BY <1>1 DEF Taken
<1>3. ASSUME NEW ts \in Nat, Ended(ts) PROVE Kept(ts)' = Kept(ts)
  <2>1. \A m \in 1..Len(sent') : m > Len(sent) => sent'[m].ts # ts
    <3> SUFFICES ASSUME NEW m \in 1..Len(sent'), m > Len(sent) PROVE sent'[m].ts # ts
      OBVIOUS
    <3>1. sent'[m].ts > ts /\ sent'[m].ts \in Nat  BY <1>3 DEF Grows
    <3> QED  BY <3>1
  <2>2. \A m \in 1..Len(sent) : m \in 1..Len(sent') /\ sent'[m] = sent[m]  BY DEF Grows
  <2>3. Kept(ts)' = {m \in 1..Len(sent') : sent'[m].ts = ts /\ sent'[m].kind # "ps"}
        /\ Kept(ts) = {m \in 1..Len(sent) : sent[m].ts = ts /\ sent[m].kind # "ps"}
    BY DEF Kept, sent
  <2> QED  BY <1>1, <2>1, <2>2, <2>3
<1>4. Assembled(au, t)'
  <2>1. CASE au.open
    <3>1. /\ au.nals # <<>> /\ Range(au.nals) = Taken(t, au.ts) /\ Increasing(au.nals)
          /\ au.idr <=> \E n \in Taken(t, au.ts) : sent[n].kind = "idr"
          /\ \A n \in 1..Len(sent) : n > t => sent[n].ts >= au.ts
          /\ \A n \in 1..t : sent[n].kind # "ps" => sent[n].ts <= au.ts
          /\ au.ts >= 1 /\ au.ts <= LastTs
      BY <2>1 DEF Made, Assembled
    <3>2. au.ts \in Nat /\ Increasing(au.nals)'  BY <3>1 DEF AuType, Increasing
    <3>3. \A n \in Taken(t, au.ts) : sent'[n] = sent[n]  BY <1>1 DEF Taken
    <3>4. ASSUME NEW n \in 1..Len(sent'), n > t PROVE sent'[n].ts >= au.ts
      <4>1. CASE n \in 1..Len(sent)  BY <3>1, <3>4, <4>1 DEF Grows
      <4>2. CASE n > Len(sent)
        <5>1. sent'[n].ts \in Nat /\ sent'[n].ts >= LastTs /\ LastTs \in Nat  BY <4>2 DEF Grows
        <5> QED  BY <3>1, <3>2, <5>1
      <4> QED  BY <1>1, <4>1, <4>2
    <3>5. au.ts <= LastTs'  BY <3>1, <3>2 DEF Grows
    <3>6. \A n \in 1..t : sent'[n].kind # "ps" => sent'[n].ts <= au.ts  BY <1>1, <3>1
    <3>7. au.idr <=> \E n \in Taken(t, au.ts) : sent'[n].kind = "idr"  BY <3>1, <3>3
    <3>8. Taken(t, au.ts)' = Taken(t, au.ts)
      <4>1. PICK x : x = au.ts  OBVIOUS
      <4>2. Taken(t, x)' = Taken(t, x)  BY <1>2
      <4> QED  BY <4>1, <4>2 DEF Taken
    <3> QED  BY <2>1, <3>1, <3>2, <3>4, <3>5, <3>6, <3>7, <3>8 DEF Assembled
  <2>2. CASE ~au.open
    <3> SUFFICES ASSUME NEW n \in 1..t, sent'[n].kind # "ps"
                 PROVE  Ended(sent[n].ts)' /\ \A m \in 1..Len(sent') : m > t => sent'[m].ts > sent'[n].ts
      BY <2>2 DEF Assembled
    <3>1. PICK x \in Nat : x = sent[n].ts /\ x = sent'[n].ts  BY <1>1 DEF Grows
    <3>2. Ended(sent[n].ts) /\ \A m \in 1..Len(sent) : m > t => sent[m].ts > sent[n].ts
      BY <1>1, <2>2 DEF Made, Assembled
    <3>3. Ended(x) BY <3>1, <3>2
    <3>4. Ended(x)' /\ \A m \in 1..Len(sent') : m > Len(sent) => sent'[m].ts > x
      BY <3>3 DEF Grows
    <3>5. \A m \in 1..Len(sent) : m > t => sent'[m].ts > x  BY <3>1, <3>2 DEF Grows
    <3>6. Ended(sent[n].ts)'  BY <3>1, <3>4 DEF Ended
    <3> QED  BY <1>1, <3>1, <3>4, <3>5, <3>6
  <2> QED  BY <2>1, <2>2
<1>5. ASSUME NEW i \in 1..Len(ready)
      PROVE  ready[i] \in Sample /\ ready[i].ts \in Nat
  <2>1. ready[i] \in Sample  BY Ends
  <2> QED  BY <2>1 DEF Sample
<1>6. Queued(ready, au, t)'
  <2> SUFFICES ASSUME NEW i \in 1..Len(ready)
               PROVE  (/\ ~IsUnit(ready[i]) => ready[i].ts = 0
                       /\ IsUnit(ready[i]) =>
                             /\ ready[i].ts >= 1 /\ Ended(ready[i].ts)
                             /\ \A n \in 1..Len(sent) : n > t => sent[n].ts > ready[i].ts
                             /\ au.open => ready[i].ts < au.ts)'
    BY DEF Queued
  <2>1. /\ ~IsUnit(ready[i]) => ready[i].ts = 0
        /\ IsUnit(ready[i]) =>
              /\ ready[i].ts >= 1 /\ Ended(ready[i].ts)
              /\ \A n \in 1..Len(sent) : n > t => sent[n].ts > ready[i].ts
              /\ au.open => ready[i].ts < au.ts
    BY DEF Made, Queued
  <2>2. CASE ~IsUnit(ready[i])  BY <2>1, <2>2 DEF IsUnit
  <2>3. CASE IsUnit(ready[i])
    <3>1. PICK x \in Nat : x = ready[i].ts  BY <1>5
    <3>2. Ended(x) /\ \A n \in 1..Len(sent) : n > t => sent[n].ts > x  BY <2>1, <2>3, <3>1
    <3>3. Ended(x)' /\ \A m \in 1..Len(sent') : m > Len(sent) => sent'[m].ts > x
      BY <3>2 DEF Grows
    <3>4. \A m \in 1..Len(sent') : m > t => sent'[m].ts > x
      <4>1. \A m \in 1..Len(sent) : m > t => sent'[m].ts > x  BY <3>2 DEF Grows
      <4> QED  BY <1>1, <3>3, <4>1
    <3>5. Ended(ready[i].ts)'  BY <3>1, <3>3 DEF Ended
    <3> QED  BY <2>1, <2>3, <3>1, <3>4, <3>5 DEF IsUnit
  <2> QED  BY <2>2, <2>3
<1>7. Whole(ready)'
  <2> SUFFICES ASSUME NEW i \in 1..Len(ready), IsUnit(ready[i])
               PROVE  (WholeSample(ready[i]) /\ \A j \in 1..(i - 1) : ready[j].ts < ready[i].ts)'
    BY DEF Whole, IsUnit
  <2>1. /\ Range(ready[i].nals) = Kept(ready[i].ts) /\ Increasing(ready[i].nals)
        /\ ready[i].flags = "sync" <=> \E n \in Kept(ready[i].ts) : sent[n].kind = "idr"
        /\ \A j \in 1..(i - 1) : ready[j].ts < ready[i].ts
    BY DEF Made, Whole, WholeSample
  <2>2. PICK x \in Nat : x = ready[i].ts /\ Ended(x)  BY <1>5 DEF Made, Queued
  <2>3. Kept(x)' = Kept(x)  BY <1>3, <2>2
  <2>4. \A n \in Kept(x) : sent'[n] = sent[n]  BY DEF Kept, Grows, sent
  <2>5. Kept(ready[i].ts)' = Kept(ready[i].ts)  BY <2>2, <2>3 DEF Kept
  <2>6. ready[i].flags = "sync" <=> \E n \in Kept(ready[i].ts) : sent'[n].kind = "idr"
    BY <2>1, <2>2, <2>4
  <2>7. Increasing(ready[i].nals)'  BY <2>1 DEF Increasing
  <2> QED  BY <2>1, <2>5, <2>6, <2>7 DEF WholeSample
<1> QED  BY <1>4, <1>6, <1>7 DEF Made

(* A packet with the NAL unit n, whole or a fragment, joins the wire.  The *)
(* conditions are what the printer's two steps have in common: n is        *)
(* genuine and the last one sent, and only a last fragment is of a NAL     *)
(* unit on the wire already.                                               *)
LEMMA SendsPacket ==
    ASSUME TypeOK, Grows, NEW d \in Nat, Undecoded(d), NEW n \in Nal, NEW f \in {"whole", "start", "end"},
           wire' = Append(wire, [k |-> "rtp", frag |-> f, nals |-> <<n>>]), fu' = fu,
           Genuine(n)', n.id = Len(sent'), n.id > d, f = "start" => ~n.end,
           f = "end" => sent' = sent /\ printer.part # <<>>,
           f # "end" => printer.part = <<>> /\ Len(sent') = Len(sent) + 1,
           f = "start" => printer'.part = <<n>>, f # "start" => printer'.part = <<>>
    PROVE  Undecoded(d)'
<1> DEFINE m == [k |-> "rtp", frag |-> f, nals |-> <<n>>]
<1>0. PICK w : w = Len(wire) + 1  OBVIOUS
<1>1. m \in Msg /\ m.k = "rtp" /\ m.frag = f /\ m.nals[1] = n /\ wire' = Append(wire, m)
  BY Messages
<1> HIDE DEF m
<1>2. wire \in Seq(Msg) /\ fu \in One \cup {<<>>}  BY DEF TypeOK
<1>3. \A i \in Rtp : i \in Rtp' /\ wire'[i] = wire[i] /\ NalOf(i)' = NalOf(i) /\ i < w /\ ~(w < i)
  BY <1>0, <1>1, <1>2, Adds
<1>4. w \in Rtp' /\ wire'[w] = m /\ \A i \in Rtp' : i \in Rtp \/ i = w
  BY <1>0, <1>1, <1>2, Adds
<1>5. NalOf(w)' = n /\ wire'[w].frag = f  BY <1>1, <1>4 DEF NalOf
<1>5a. w \in Nat  BY <1>0, <1>2, Ends
<1>6. ASSUME NEW i \in Rtp
      PROVE  /\ NalOf(i) \in Nal /\ NalOf(i).id \in Nat /\ NalOf(i).id <= Len(sent)
             /\ Genuine(NalOf(i)) /\ NalOf(i).id > d /\ (wire[i].frag = "start" => ~NalOf(i).end)
             /\ Genuine(NalOf(i))'
  <2>1. wire[i] \in Msg /\ wire[i].k = "rtp"  BY <1>2, Ends DEF Rtp
  <2>2. NalOf(i) \in Nal  BY <2>1, Packets DEF NalOf
  <2>3. Genuine(NalOf(i)) /\ NalOf(i).id > d /\ (wire[i].frag = "start" => ~NalOf(i).end)
    BY DEF Undecoded, Packet
  <2>4. PICK x \in Nal : x = NalOf(i) /\ Genuine(x)  BY <2>2, <2>3
  <2>5. Genuine(x)' /\ NalOf(i)' = x  BY <1>3, <2>4, StaysGenuine
  <2>6. Genuine(NalOf(i))'  BY <2>5 DEF Genuine, Ended
  <2>7. NalOf(i).id \in Nat /\ NalOf(i).id <= Len(sent)  BY <2>2, <2>3 DEF Nal, Genuine, Grows
  <2> QED  BY <2>2, <2>3, <2>6, <2>7
<1>7. n.id \in Nat /\ Len(sent) \in Nat /\ Len(sent') \in Nat  BY DEF Nal, Grows
<1>8. Packet(d)'
  <2> SUFFICES ASSUME NEW i \in Rtp'
               PROVE (Genuine(NalOf(i)) /\ NalOf(i).id > d /\ (wire[i].frag = "start" => ~NalOf(i).end))'
    BY DEF Packet
  <2>1. CASE i \in Rtp  BY <1>3, <1>6, <2>1
  <2>2. CASE i = w
    <3>1. Genuine(NalOf(i))'  BY <1>5, <2>2 DEF Genuine, Ended
    <3> QED  BY <1>5, <2>2, <3>1
  <2> QED  BY <1>4, <2>1, <2>2
<1>9. Ordered'
  <2> SUFFICES ASSUME NEW i \in Rtp', NEW j \in Rtp', i < j
               PROVE (\/ NalOf(i).id < NalOf(j).id
                      \/ NalOf(i).id = NalOf(j).id /\ wire[i].frag = "start" /\ wire[j].frag = "end")'
    BY DEF Ordered
  <2>1. i \in Rtp  BY <1>3, <1>4, <1>5a
  <2>2. CASE j \in Rtp
    <3>1. \/ NalOf(i).id < NalOf(j).id
          \/ NalOf(i).id = NalOf(j).id /\ wire[i].frag = "start" /\ wire[j].frag = "end"
      BY <2>1, <2>2 DEF Undecoded, Ordered
    <3> QED  BY <1>3, <2>1, <2>2, <3>1
  <2>3. CASE j = w
    <3>1. NalOf(j)'.id = Len(sent') /\ wire'[j].frag = f /\ NalOf(i)' = NalOf(i) /\ wire'[i] = wire[i]
      BY <1>3, <1>5, <2>1, <2>3
    <3>2. CASE f # "end"
      <4>1. NalOf(i).id < Len(sent')  BY <1>6, <1>7, <2>1, <3>2
      <4> QED  BY <3>1, <4>1
    <3>3. CASE f = "end"
      <4>1. NalOf(i).id < Len(sent') \/ NalOf(i).id = Len(sent)  BY <1>6, <1>7, <2>1, <3>3
      <4>2. NalOf(i).id = Len(sent) => wire[i].frag = "start"
        BY <2>1, <3>3 DEF Undecoded, PartLast
      <4> QED  BY <3>1, <3>3, <4>1, <4>2
    <3> QED  BY <3>2, <3>3
  <2> QED  BY <1>4, <2>2, <2>3
<1>10. Complete(d)'
  <2> SUFFICES ASSUME NEW x \in (d + 1)..Len(sent'), ~(x = Len(sent') /\ printer'.part # <<>>)
               PROVE  \E i \in Rtp' : NalOf(i)'.id = x /\ wire'[i].frag # "start"
    BY DEF Complete
  <2>1. CASE x = Len(sent')
    <3>1. f # "start"
      <4> SUFFICES ASSUME f = "start" PROVE printer'.part # <<>>
        BY <2>1
      <4>1. printer'.part = <<n>>  OBVIOUS
      <4> QED  BY <4>1
    <3> QED  BY <1>4, <1>5, <2>1, <3>1
  <2>2. CASE x # Len(sent')
    <3>1. x \in (d + 1)..Len(sent) /\ ~(x = Len(sent) /\ printer.part # <<>>)
      BY <1>7, <2>2
    <3>2. PICK i \in Rtp : NalOf(i).id = x /\ wire[i].frag # "start"
      BY <3>1 DEF Undecoded, Complete
    <3> QED  BY <1>3, <3>2
  <2> QED  BY <2>1, <2>2
<1>11. PartLast(d)'
  <2> SUFFICES ASSUME printer'.part # <<>>
               PROVE  /\ Genuine(printer.part[1])' /\ d < Len(sent')
                      /\ \A i \in Rtp' : NalOf(i)'.id = Len(sent') => wire'[i].frag = "start"
    BY DEF PartLast
  <2>1. f = "start" /\ printer'.part[1] = n  OBVIOUS
  <2>2. Genuine(printer.part[1])'  BY <2>1 DEF Genuine, Ended
  <2>3. ASSUME NEW i \in Rtp', NalOf(i)'.id = Len(sent') PROVE wire'[i].frag = "start"
    <3>1. i \notin Rtp
      <4> SUFFICES ASSUME i \in Rtp PROVE FALSE  OBVIOUS
      <4>1. NalOf(i).id <= Len(sent) /\ NalOf(i).id = Len(sent) + 1  BY <1>3, <1>6, <2>1, <2>3
      <4> QED  BY <1>7, <4>1
    <3> QED  BY <1>4, <1>5, <2>1, <3>1
  <2>4. d < Len(sent')  BY <1>7
  <2> QED  BY <2>2, <2>3, <2>4
<1>12. FuNext(d)'
  <2> SUFFICES ASSUME fu # <<>>
               PROVE  /\ Genuine(fu[1])' /\ fu[1].id = d + 1
                      /\ \A i \in Rtp' : NalOf(i)'.id = d + 1 => wire'[i].frag = "end"
    BY DEF FuNext
  <2>1. /\ Genuine(fu[1]) /\ fu[1].id = d + 1
        /\ \A i \in Rtp : NalOf(i).id = d + 1 => wire[i].frag = "end"
    BY DEF Undecoded, FuNext
  <2>2. PICK x \in Nal : x = fu[1] /\ Genuine(x)  BY <1>2, <2>1, Singles
  <2>3. Genuine(x)' /\ fu'[1] = x  BY <2>2, StaysGenuine
  <2>4. Genuine(fu[1])'  BY <2>3 DEF Genuine, Ended
  <2>5. ASSUME NEW i \in Rtp', NalOf(i)'.id = d + 1 PROVE wire'[i].frag = "end"
    <3>1. CASE i \in Rtp  BY <1>3, <2>1, <2>5, <3>1
    <3>2. CASE i = w
      <4>1. d + 1 <= Len(sent)  BY <2>1, <1>7 DEF Genuine
      <4>2. n.id = d + 1  BY <1>5, <2>5, <3>2
      <4>3. f = "end"  BY <1>7, <4>1, <4>2
      <4> QED  BY <1>5, <3>2, <4>3
    <3> QED  BY <1>4, <3>1, <3>2
  <2> QED  BY <2>1, <2>4, <2>5
<1>13. Started(d)'
  <2> SUFFICES ASSUME NEW i \in Rtp', wire'[i].frag = "end", ~(fu # <<>> /\ NalOf(i)'.id = d + 1)
               PROVE \E j \in Rtp' : j < i /\ wire'[j].frag = "start" /\ NalOf(j)'.id = NalOf(i)'.id
    BY DEF Started
  <2>1. CASE i \in Rtp
    <3>1. PICK j \in Rtp : j < i /\ wire[j].frag = "start" /\ NalOf(j).id = NalOf(i).id
      BY <1>3, <2>1 DEF Undecoded, Started
    <3> QED  BY <1>3, <2>1, <3>1
  <2>2. CASE i = w
    <3>1. f = "end" /\ NalOf(i)'.id = Len(sent)  BY <1>5, <2>2
    <3>2. ~(fu # <<>> /\ d + 1 = Len(sent))  BY <3>1
    <3>3. PICK j \in Rtp : wire[j].frag = "start" /\ NalOf(j).id = Len(sent)
      BY <3>1, <3>2 DEF Undecoded, PartStarted
    <3> QED  BY <1>3, <2>2, <3>1, <3>3
  <2> QED  BY <1>4, <2>1, <2>2
<1>14. PartStarted(d)'
  <2> SUFFICES ASSUME printer'.part # <<>>
               PROVE  \E j \in Rtp' : wire'[j].frag = "start" /\ NalOf(j)'.id = Len(sent')
    BY DEF PartStarted
  <2>1. f = "start"  OBVIOUS
  <2> QED  BY <1>4, <1>5, <2>1
<1> QED  BY <1>8, <1>9, <1>10, <1>11, <1>12, <1>13, <1>14 DEF Undecoded

(* The printer sends a NAL unit, or its first fragment.                    *)
LEMMA NalStep ==
    ASSUME TypeOK, TypeOK', Pipe, PrinterNal
    PROVE  Pipe'
<1>1. PICK t \in Nat, d \in Nat : Monotone /\ Decoded(t, d) /\ Undecoded(d) /\ Made(ready, au, t)
  BY DEF Pipe, OnItsWay
<1>2. PICK kind \in Kinds, frag \in {"whole", "start"}, last \in BOOLEAN, mark \in BOOLEAN :
           SendNal(kind, frag, last, mark)
  BY Zenon DEF PrinterNal, Kinds
<1>3. printer.part = <<>> /\ UNCHANGED <<naluQ, fu, au, ready>>
  BY DEF PrinterNal, dataVars
<1>3a. PICK n : n = NewNal(kind, mark)  OBVIOUS
<1> DEFINE e == [ts |-> n.ts, kind |-> kind]
<1>4. /\ mark => last
      /\ last => frag = "whole"
      /\ wire' = Append(wire, [k |-> "rtp", frag |-> frag, nals |-> <<n>>])
      /\ printer' = [printer EXCEPT !.sent = Append(@, e), !.open = ~last,
                                    !.part = IF frag = "start" THEN <<n>> ELSE <<>>]
  BY <1>2, <1>3a DEF SendNal, Send
<1>5. printer \in PrinterType /\ printer' \in PrinterType  BY DEF TypeOK
<1>6. /\ sent' = Append(sent, e) /\ printer'.open = ~last
      /\ printer'.part = IF frag = "start" THEN <<n>> ELSE <<>>
  BY <1>4, <1>5 DEF PrinterType, sent
<1>7. /\ n.id = Len(sent) + 1 /\ n.kind = kind /\ n.end = mark
      /\ n.ts = IF printer.open THEN LastTs ELSE LastTs + 1
  BY <1>3a DEF NewNal, sent
<1>8. /\ LastTs \in Nat /\ Len(sent) \in Nat /\ sent \in Seq([ts : Nat, kind : Kinds])
      /\ \A i \in 1..Len(sent) : sent[i].ts \in Nat
      /\ LastTs' \in Nat /\ Len(sent') \in Nat
      /\ Len(sent') > 0 => LastTs' = sent'[Len(sent')].ts
  <2>1. LastTs' \in Nat /\ Len(sent') \in Nat /\ (Len(sent') > 0 => LastTs' = sent'[Len(sent')].ts)
    <3>1. sent' \in Seq([ts : Nat, kind : Kinds])  BY <1>5 DEF PrinterType, sent
    <3>2. Len(sent') \in Nat /\ (sent' = <<>> <=> Len(sent') = 0)
          /\ \A i \in 1..Len(sent') : sent'[i] \in [ts : Nat, kind : Kinds]
      BY <3>1, Ends
    <3>3. LastTs' = IF sent' = <<>> THEN 0 ELSE sent'[Len(sent')].ts  BY DEF LastTs, sent
    <3>4. sent' # <<>> => sent'[Len(sent')] \in [ts : Nat, kind : Kinds]  BY <3>2
    <3> QED  BY <3>2, <3>3, <3>4
  <2> QED  BY <1>5, <2>1, SentTypes
<1>9. n.ts \in Nat /\ n \in Nal /\ e \in [ts : Nat, kind : Kinds] /\ e.ts = n.ts /\ e.kind = kind
  <2>1. n.ts \in Nat  BY <1>7, <1>8
  <2>2. n \in Nal
    BY <1>3a, <1>8 DEF NewNal, Nal, sent
  <2> QED  BY <2>1, <2>2
<1> HIDE DEF e
<1>10. /\ Len(sent') = Len(sent) + 1 /\ sent'[Len(sent) + 1] = e
       /\ \A i \in 1..Len(sent) : sent'[i] = sent[i]
  BY <1>6, <1>8, <1>9, Ends
<1>11. LastTs' = n.ts /\ \A i \in 1..Len(sent') : i \in 1..Len(sent) \/ i = Len(sent) + 1
  <2>1. Len(sent') > 0 /\ Len(sent') = Len(sent) + 1  BY <1>8, <1>10
  <2>2. LastTs' = sent'[Len(sent) + 1].ts  BY <1>8, <2>1
  <2>3. \A i \in 1..(Len(sent) + 1) : i \in 1..Len(sent) \/ i = Len(sent) + 1  BY <1>8
  <2> QED  BY <1>9, <1>10, <2>1, <2>2, <2>3
<1>12. Grows
  <2>1. ASSUME NEW ts \in Nat, Ended(ts) PROVE Ended(ts)' /\ n.ts > ts
    BY <1>6, <1>7, <1>8, <1>9, <1>11, <2>1 DEF Ended
  <2>2. n.ts >= LastTs  BY <1>7, <1>8
  <2>3. \A m \in 1..Len(sent') : m > Len(sent) => sent'[m].ts = n.ts  BY <1>8, <1>9, <1>10, <1>11
  <2> QED  BY <1>8, <1>9, <1>10, <1>11, <2>1, <2>2, <2>3 DEF Grows
<1>13. d <= Len(sent) /\ t <= Len(sent)  BY <1>1, <1>8 DEF Decoded
<1>14. Genuine(n)'
  <2>1. n.id \in 1..Len(sent') /\ sent'[n.id] = e  BY <1>7, <1>8, <1>10
  <2>2. ASSUME n.end PROVE Ended(n.ts)'
    <3>1. last = TRUE  BY <1>4, <1>7, <2>2
    <3>2. ~printer'.open  BY <1>6, <3>1
    <3>3. n.ts <= LastTs'  BY <1>8, <1>9, <1>11
    <3> QED  BY <3>2, <3>3 DEF Ended
  <2>3. \A m \in 1..Len(sent') : m <= n.id  BY <1>7, <1>8, <1>10
  <2> QED  BY <1>7, <1>9, <2>1, <2>2, <2>3 DEF Genuine
<1>15. Undecoded(d)'
  <2>1. n.id = Len(sent') /\ n.id > d  BY <1>7, <1>8, <1>10, <1>13
  <2>2. frag = "start" => ~n.end  BY <1>4, <1>7
  <2>3. frag \in {"whole", "start", "end"} /\ frag # "end"  OBVIOUS
  <2>4. (frag = "start" => printer'.part = <<n>>) /\ (frag # "start" => printer'.part = <<>>)
    BY <1>6
  <2> QED
    BY <1>1, <1>3, <1>4, <1>9, <1>10, <1>12, <1>14, <2>1, <2>2, <2>3, <2>4, SendsPacket
<1>16. Decoded(t, d)'  BY <1>1, <1>3, <1>12, StaysDecoded DEF TypeOK
<1>17. Made(ready, au, t)'  BY <1>1, <1>3, <1>12, <1>13, StaysMade DEF TypeOK
<1>18. Monotone'
  <2>1. ASSUME NEW i \in 1..Len(sent) PROVE sent[i].ts <= n.ts
    <3>1. sent[i].ts <= LastTs /\ LastTs <= n.ts  BY <1>1, <1>5, <1>7, <1>8, UpToLast
    <3> QED  BY <1>8, <1>9, <3>1
  <2>2. ASSUME NEW i \in 1..Len(sent'), NEW j \in 1..Len(sent'), i <= j
        PROVE  sent'[i].ts <= sent'[j].ts
    <3>1. CASE j \in 1..Len(sent)
      <4>1. i \in 1..Len(sent)  BY <1>8, <2>2, <3>1
      <4> QED  BY <1>1, <1>10, <2>2, <3>1, <4>1 DEF Monotone
    <3>2. CASE j = Len(sent) + 1 /\ i \in 1..Len(sent)  BY <1>9, <1>10, <2>1, <3>2
    <3>3. CASE j = Len(sent) + 1 /\ i = Len(sent) + 1  BY <1>9, <1>10, <3>3
    <3> QED  BY <1>11, <2>2, <3>1, <3>2, <3>3
  <2>3. ASSUME NEW i \in 1..Len(sent') PROVE sent'[i].ts >= 1
    <3>1. CASE i \in 1..Len(sent)  BY <1>1, <1>10, <3>1 DEF Monotone
    <3>2. CASE i = Len(sent) + 1
      <4>1. n.ts >= 1
        <5>1. CASE printer.open
          <6>1. Len(sent) > 0 /\ Len(sent) \in 1..Len(sent)  BY <1>1, <1>8, <5>1 DEF Monotone
          <6>2. LastTs = sent[Len(sent)].ts /\ sent[Len(sent)].ts >= 1
            BY <1>1, <1>5, <6>1, SentTypes DEF Monotone
          <6> QED  BY <1>7, <5>1, <6>2
        <5>2. CASE ~printer.open  BY <1>7, <1>8, <5>2
        <5> QED  BY <5>1, <5>2
      <4> QED  BY <1>9, <1>10, <3>2, <4>1
    <3> QED  BY <1>11, <3>1, <3>2
  <2>4. printer'.part # <<>> =>
          printer'.open /\ ~printer'.part[1].end /\ printer'.part[1].id = Len(sent')
    <3> SUFFICES ASSUME printer'.part # <<>>
                 PROVE  printer'.open /\ ~printer'.part[1].end /\ printer'.part[1].id = Len(sent')
      OBVIOUS
    <3>1. frag = "start" /\ printer'.part[1] = n  BY <1>6
    <3>2. ~last /\ ~mark  BY <1>4, <3>1
    <3> QED  BY <1>6, <1>7, <1>10, <3>1, <3>2
  <2>5. Len(sent') > 0  BY <1>8, <1>10
  <2> QED  BY <2>2, <2>3, <2>4, <2>5 DEF Monotone
<1> QED  BY <1>15, <1>16, <1>17, <1>18 DEF Pipe, OnItsWay

(* The printer sends the last fragment of a NAL unit.                      *)
LEMMA RestStep ==
    ASSUME TypeOK, TypeOK', Pipe, PrinterRest
    PROVE  Pipe'
<1>1. PICK t \in Nat, d \in Nat : Monotone /\ Decoded(t, d) /\ Undecoded(d) /\ Made(ready, au, t)
  BY DEF Pipe, OnItsWay
<1>2. PICK last \in BOOLEAN, mark \in BOOLEAN : SendRest(last, mark)
  BY Zenon DEF PrinterRest
<1>2a. PICK p : p = printer.part[1]  OBVIOUS
<1>2b. PICK n : n = [p EXCEPT !.end = mark]  OBVIOUS
<1>3. /\ printer.part # <<>> /\ UNCHANGED <<naluQ, fu, au, ready>> /\ (mark => last)
      /\ wire' = Append(wire, [k |-> "rtp", frag |-> "end", nals |-> <<n>>])
      /\ printer' = [printer EXCEPT !.open = ~last, !.part = <<>>]
  BY <1>2, <1>2a, <1>2b DEF PrinterRest, SendRest, Send, dataVars
<1>4. printer \in PrinterType  BY DEF TypeOK
<1>5. sent' = sent /\ LastTs' = LastTs /\ printer'.open = ~last /\ printer'.part = <<>>
  BY <1>3, <1>4 DEF PrinterType, sent, LastTs
<1>6. /\ LastTs \in Nat /\ Len(sent) \in Nat
      /\ \A i \in 1..Len(sent) : sent[i].ts \in Nat
      /\ Len(sent) > 0 => LastTs = sent[Len(sent)].ts
  BY <1>4, SentTypes
<1>7. printer.open /\ p.id = Len(sent) /\ p \in Nal /\ Genuine(p) /\ d < Len(sent)
  BY <1>1, <1>2a, <1>3, <1>4, Singles DEF Monotone, Undecoded, PartLast, PrinterType
<1>8. n \in Nal /\ n.id = Len(sent) /\ n.ts = p.ts /\ n.kind = p.kind /\ n.end = mark
  BY <1>2b, <1>7 DEF Nal
<1>9. Grows
  <2>1. ASSUME NEW ts \in Nat, Ended(ts) PROVE Ended(ts)'
    BY <1>5, <1>6, <1>7, <2>1 DEF Ended
  <2>2. \A m \in 1..Len(sent') : ~(m > Len(sent))  BY <1>5, <1>6
  <2> QED  BY <1>5, <1>6, <2>1, <2>2 DEF Grows
<1>10. Genuine(n)'
  <2>1. n.id \in 1..Len(sent) /\ n.ts = sent[n.id].ts /\ n.kind = sent[n.id].kind
    BY <1>7, <1>8 DEF Genuine
  <2>2. n.ts = LastTs /\ n.ts \in Nat  BY <1>6, <1>8, <2>1
  <2>3. n.end => Ended(n.ts)'
    <3> SUFFICES ASSUME n.end PROVE ~printer'.open /\ n.ts <= LastTs'  BY DEF Ended
    <3>1. last = TRUE  BY <1>3, <1>8
    <3>2. ~printer'.open  BY <1>5, <3>1
    <3>3. n.ts <= LastTs'  BY <1>5, <1>6, <2>2
    <3> QED  BY <3>2, <3>3
  <2>4. \A m \in 1..Len(sent) : m <= n.id  BY <1>6, <1>8
  <2> QED  BY <1>5, <2>1, <2>3, <2>4 DEF Genuine
<1>11. Undecoded(d)'
  <2>1. n.id = Len(sent') /\ n.id > d  BY <1>5, <1>6, <1>7, <1>8
  <2> QED  BY <1>1, <1>3, <1>5, <1>8, <1>9, <1>10, <2>1, SendsPacket
<1>12. t <= Len(sent)  BY <1>1, <1>6 DEF Decoded
<1>13. Decoded(t, d)'  BY <1>1, <1>3, <1>9, StaysDecoded DEF TypeOK
<1>14. Made(ready, au, t)'  BY <1>1, <1>3, <1>9, <1>12, StaysMade DEF TypeOK
<1>15. Monotone'  BY <1>1, <1>5, <1>7 DEF Monotone
<1> QED  BY <1>11, <1>13, <1>14, <1>15 DEF Pipe, OnItsWay

(***************************************************************************)
(* The invariant and the property.                                         *)
(***************************************************************************)

(* Every step keeps the way of the NAL units.                              *)
LEMMA PipeStep ==
    ASSUME TypeOK, TypeOK', Pipe, [Next]_vars
    PROVE  Pipe'
<1>1. printer \in PrinterType /\ wire \in Seq(Msg)  BY DEF TypeOK
<1>2. CASE Start
  <2>1. /\ printer' = [printer EXCEPT !.req = "OPTIONS", !.cred = nonce']
        /\ UNCHANGED <<naluQ, fu, au, ready, wire>>
    BY <1>2 DEF Start, SendRequest, dataVars
  <2>2. UNCHANGED <<printer.sent, printer.open, printer.part>>  BY <1>1, <2>1 DEF PrinterType
  <2> QED  BY <2>1, <2>2, Quiet
<1>3. CASE StartFails \/ BadReply \/ WorkerLoop \/ KeepaliveWake \/ Stop \/ StopStep \/ PrinterEnds
            \/ UNCHANGED vars
  <2>1. UNCHANGED <<naluQ, fu, au, ready, wire, printer>>
    BY <1>3 DEF StartFails, BadReply, WorkerLoop, KeepaliveWake, Stop, StopStep, StopClient,
                StopClose, PrinterEnds, vars, dataVars
  <2> QED  BY <2>1, Quiet
<1>4. CASE AwaitFrame \/ PullMessage
  <2>1. /\ wire # <<>> /\ wire' = Tail(wire) /\ DecodeRtp(Head(wire))
        /\ UNCHANGED <<au, ready, printer>>
    BY <1>4 DEF AwaitFrame, PullMessage
  <2> QED  BY <2>1, Reads
<1>5. CASE AwaitChallenge
  <2>1. /\ wire # <<>> /\ wire' = Tail(wire) /\ Head(wire).k = "challenge"
        /\ UNCHANGED <<naluQ, fu, au, ready>>
        /\ printer' = [printer EXCEPT !.req = host.at, !.cred = nonce']
    BY <1>5 DEF AwaitChallenge, SendRequest, dataVars
  <2>2. UNCHANGED <<printer.sent, printer.open, printer.part>>  BY <1>1, <2>1 DEF PrinterType
  <2>3. DecodeRtp(Head(wire))  BY <2>1 DEF DecodeRtp
  <2> QED  BY <2>1, <2>2, <2>3, Reads
<1>6. CASE AwaitOk
  <2>1. /\ wire # <<>> /\ wire' = Tail(wire) /\ Head(wire).k = "ok"
        /\ UNCHANGED <<naluQ, fu, au, ready>>
        /\ \/ printer' = printer
           \/ printer' = [printer EXCEPT !.req = NextStage[host.at], !.cred = nonce']
    BY <1>6 DEF AwaitOk, SendRequest, dataVars
  <2>2. UNCHANGED <<printer.sent, printer.open, printer.part>>  BY <1>1, <2>1 DEF PrinterType
  <2>3. DecodeRtp(Head(wire))  BY <2>1 DEF DecodeRtp
  <2> QED  BY <2>1, <2>2, <2>3, Reads
<1>7. CASE KeepaliveWrite
  <2>1. /\ UNCHANGED <<naluQ, fu, au, ready, printer>>
        /\ \/ wire' = wire
           \/ \E k \in {"ok", "challenge"} : wire' = Append(wire, [k |-> k, nonce |-> printer.nonce])
    BY <1>7 DEF KeepaliveWrite, dataVars
  <2>2. CASE wire' = wire  BY <2>1, <2>2, Quiet
  <2>3. ASSUME NEW k \in {"ok", "challenge"}, wire' = Append(wire, [k |-> k, nonce |-> printer.nonce])
        PROVE  Pipe'
    <3>1. PICK m \in Msg : m = [k |-> k, nonce |-> printer.nonce]
      BY <1>1, Messages DEF PrinterType
    <3>2. m.k # "rtp"  BY <3>1
    <3> QED  BY <2>1, <2>3, <3>1, <3>2, AddsOther
  <2> QED  BY <2>1, <2>2, <2>3
<1>8. CASE PrinterAccepts
  <2>1. printer' = [printer EXCEPT !.play = TRUE] /\ UNCHANGED <<naluQ, fu, au, ready, wire>>
    BY <1>8 DEF PrinterAccepts, dataVars
  <2>2. UNCHANGED <<printer.sent, printer.open, printer.part>>  BY <1>1, <2>1 DEF PrinterType
  <2> QED  BY <2>1, <2>2, Quiet
<1>9. CASE PrinterResponds
  <2>1. /\ UNCHANGED <<naluQ, fu, au, ready>> /\ printer' = [printer EXCEPT !.req = "none"]
        /\ \E k \in {"ok", "challenge", "refuse"}, x \in {printer.nonce, 0} :
              wire' = Append(wire, [k |-> k, nonce |-> x])
    BY <1>9 DEF PrinterResponds, Send, dataVars
  <2>2. UNCHANGED <<printer.sent, printer.open, printer.part>> /\ printer.nonce \in Nat
    BY <1>1, <2>1 DEF PrinterType
  <2>3. ASSUME NEW k \in {"ok", "challenge", "refuse"}, NEW x \in {printer.nonce, 0},
               wire' = Append(wire, [k |-> k, nonce |-> x])
        PROVE  Pipe'
    <3>1. PICK m \in Msg : m = [k |-> k, nonce |-> x]  BY <2>2, Messages
    <3>2. m.k # "rtp"  BY <3>1
    <3> QED  BY <2>1, <2>2, <2>3, <3>1, <3>2, AddsOther
  <2> QED  BY <2>1, <2>3
<1>10. CASE PrinterNoise
  <2>1. /\ UNCHANGED <<naluQ, fu, au, ready, printer>>
        /\ \E k \in {"rtcp", "junk"} : wire' = Append(wire, [k |-> k])
    BY <1>10 DEF PrinterNoise, Send, dataVars
  <2>2. ASSUME NEW k \in {"rtcp", "junk"}, wire' = Append(wire, [k |-> k]) PROVE Pipe'
    <3>1. PICK m \in Msg : m = [k |-> k]  BY Messages
    <3>2. m.k # "rtp"  BY <3>1
    <3> QED  BY <2>1, <2>2, <3>1, <3>2, AddsOther
  <2> QED  BY <2>1, <2>2
<1>11. CASE TakeNalu  BY <1>11, TakeStep
<1>12. CASE ReadEnds  BY <1>12, EndStep
<1>13. CASE TryPull  BY <1>13, PullStep
<1>14. CASE PrinterNal  BY <1>14, NalStep
<1>15. CASE PrinterRest  BY <1>15, RestStep
<1> QED
  BY <1>2, <1>3, <1>4, <1>5, <1>6, <1>7, <1>8, <1>9, <1>10, <1>11, <1>12, <1>13, <1>14, <1>15
  DEF Next, HandshakeStep, WorkerStep, KeepaliveStep, PrinterStep

(* Every NAL unit the printer sent is taken by the worker, decoded, in     *)
(* fu_buf or on the wire, in order; the access unit at hand and the        *)
(* samples in the queue are what the taken ones make.                      *)
THEOREM StreamInvariant == Spec => []IInv
<1>1. Init => IInv
  <2> SUFFICES ASSUME Init PROVE IInv
    OBVIOUS
  <2>1. /\ nonce = 0 /\ naluQ = <<>> /\ fu = <<>> /\ au = NoAu /\ ready = <<>> /\ wire = <<>>
        /\ printer = [nonce |-> 1, req |-> "none", cred |-> 0, play |-> FALSE,
                      sent |-> <<>>, open |-> FALSE, part |-> <<>>]
    BY DEF Init
  <2>2. TypeOK
    <3>1. \A S : <<>> \in Seq(S)  BY EmptySeq
    <3>2. au \in AuType  BY <2>1, <3>1 DEF NoAu, AuType
    <3>3. printer \in PrinterType  BY <2>1, <3>1 DEF PrinterType
    <3> QED  BY <2>1, <3>1, <3>2, <3>3 DEF TypeOK
  <2>3. sent = <<>> /\ Len(sent) = 0 /\ ~printer.open /\ printer.part = <<>>  BY <2>1 DEF sent
  <2>4. Rtp = {}  BY <2>1 DEF Rtp
  <2>5. Monotone  BY <2>3 DEF Monotone
  <2>6. Decoded(0, 0)  BY <2>1, <2>3 DEF Decoded
  <2>7. Undecoded(0)
    BY <2>1, <2>3, <2>4 DEF Undecoded, Packet, Ordered, Complete, PartLast, FuNext, Started, PartStarted
  <2>8. Made(ready, au, 0)
    BY <2>1, <2>3 DEF Made, Assembled, Queued, Whole, NoAu
  <2> QED  BY <2>2, <2>5, <2>6, <2>7, <2>8 DEF IInv, Pipe, OnItsWay
<1>2. IInv /\ [Next]_vars => IInv'
  BY TypeStep, PipeStep DEF IInv
<1> QED  BY <1>1, <1>2, PTL DEF Spec

(* The samples the host gets are the printer's access units, whole, in     *)
(* order and marked by what is in them, for every size of the queue: no    *)
(* fragment, missing mark, early frame or keepalive answer, and no sample  *)
(* dropped from a full queue changes that.                                 *)
THEOREM UnitsStayWhole == Spec => []WholeUnits
<1>1. IInv => WholeUnits
  <2> SUFFICES ASSUME IInv PROVE WholeUnits
    OBVIOUS
  <2>1. Whole(ready)  BY DEF IInv, Pipe, Made
  <2> QED  BY <2>1 DEF WholeUnits, Whole, WholeSample, IsUnit, Increasing, sent
<1> QED  BY <1>1, StreamInvariant, PTL

(***************************************************************************)
(* DshowFilter: the inductive invariant.                                   *)
(***************************************************************************)
HoldsType == [factory : 0..1, server : 0..1, filter : 0..1, enum : Nat, pin : 0..1]
GraphOps == {"stop", "disconnect", "destroy"}

FiltType == [alive : BOOLEAN, state : {"Stopped", "Paused", "Running"},
             scheme : {"local", "rtsps", "rtsp"}]
PinType == [alive : BOOLEAN, conn : BOOLEAN, alloc : {"none", "decommitted", "committed"},
            mt : {"none", "mjpg", "h264"}]
RunType == [running : BOOLEAN, stop : BOOLEAN]
WorkerType == [at : Workers \cup {"none", "ended"}, scheme : {"none", "local", "rtsps", "rtsp"}]
GraphType == [op : GraphOps \cup {"none"}, at : {"idle", "enter", "join"}]

FilterTypeOK ==
    /\ lock \in Int /\ holds \in HoldsType /\ filt \in FiltType /\ pin \in PinType
    /\ run \in RunType /\ worker \in WorkerType /\ graph \in GraphType

Count(b) == IF b THEN 1 ELSE 0

(* g_lock_count counts the objects and the server locks.                   *)
Counted == lock = holds.factory + holds.server + holds.enum + Count(filt.alive) + Count(pin.alive)

(* The pin lives as long as somebody refers to it.                         *)
PinKept == pin.alive <=> PinRefs(holds, filt.alive) > 0

(* The filter lives as long as its client refers to it, and then until     *)
(* its destructor is through; only a live filter has a call in progress.   *)
FilterKept ==
    /\ holds.filter = 1 => filt.alive /\ graph.op # "destroy"
    /\ filt.alive /\ holds.filter = 0 => graph.op = "destroy"
    /\ graph.at = "idle" <=> graph.op = "none"
    /\ graph.at # "idle" => filt.alive

(* A worker belongs to a live filter, and worker_running_ is set.          *)
WorkerKept == worker.at # "none" => filt.alive /\ run.running

FilterInv == FilterTypeOK /\ Counted /\ PinKept /\ FilterKept /\ WorkerKept

USE DEF Count, PinRefs, Idle, NoPin, NoWorker, HoldsType, FiltType,
        PinType, RunType, WorkerType, GraphType, GraphOps

(***************************************************************************)
(* DshowFilter: the invariant is inductive.                                *)
(***************************************************************************)
(* It holds before the library hands out anything.                         *)
LEMMA FilterStarts == FilterInit => FilterInv
  BY DEF FilterInit, FilterInv, FilterTypeOK, Counted, PinKept, FilterKept, WorkerKept,
         Workers

(* Making, referring to and releasing objects keeps it: the last           *)
(* reference to a pin may be the filter's, an enumerator's or the          *)
(* client's.                                                               *)
LEMMA ObjectInv ==
  ASSUME FilterInv, ObjectStep
  PROVE  FilterInv'
<1> USE DEF FilterInv, FilterTypeOK, Counted, PinKept, FilterKept, WorkerKept
<1>1. CASE GetClassObject
  BY <1>1 DEF GetClassObject
<1>2. CASE ReleaseFactory
  BY <1>2 DEF ReleaseFactory
<1>3. CASE LockServer
  BY <1>3 DEF LockServer
<1>4. CASE CreateInstance
  <2> USE <1>4 DEF CreateInstance
  <2>1. FilterTypeOK'
    <3>1. pin' \in PinType
      OBVIOUS
    <3>2. filt' \in FiltType /\ holds' \in HoldsType
      OBVIOUS
    <3> QED
      BY <3>1, <3>2
  <2>2. Counted'
    OBVIOUS
  <2>3. PinKept'
    OBVIOUS
  <2>4. FilterKept' /\ WorkerKept'
    OBVIOUS
  <2> QED
    BY <2>1, <2>2, <2>3, <2>4
<1>5. CASE EnumPins
  BY <1>5 DEF EnumPins
<1>6. CASE FindPin
  BY <1>6 DEF FindPin
<1>7. CASE ReleasePin
  <2> USE <1>7 DEF ReleasePin, DropPin
  <2>1. FilterTypeOK'
    <3>1. pin' = pin \/ pin' = NoPin
      BY Zenon DEF ReleasePin, DropPin
    <3>2. lock' \in Int /\ holds' \in HoldsType
      OBVIOUS
    <3>3. pin' \in PinType
      <4> HIDE <1>7 DEF PinType, NoPin
      <4>1. NoPin \in PinType
        BY DEF PinType, NoPin
      <4> QED
        BY <3>1, <4>1, Zenon
    <3> QED
      BY <3>2, <3>3
  <2>2. Counted'
    OBVIOUS
  <2>3. PinKept'
    OBVIOUS
  <2>4. FilterKept' /\ WorkerKept'
    OBVIOUS
  <2> QED
    BY <2>1, <2>2, <2>3, <2>4
<1>8. CASE ReleaseEnum
  <2> USE <1>8 DEF ReleaseEnum
  <2>1. FilterTypeOK'
    OBVIOUS
  <2>2. Counted'
    OBVIOUS
  <2>3. PinKept'
    OBVIOUS
  <2>4. FilterKept' /\ WorkerKept'
    OBVIOUS
  <2> QED
    BY <2>1, <2>2, <2>3, <2>4
<1> QED
  BY <1>1, <1>2, <1>3, <1>4, <1>5, <1>6, <1>7, <1>8 DEF ObjectStep

(* start_streaming sets the flags, the worker and the pin properly.        *)
LEMMA StartTypes ==
  ASSUME FilterTypeOK, StartStreaming
  PROVE  run' \in RunType /\ worker' \in WorkerType /\ pin' \in PinType
<1>1. CASE run.running
  BY <1>1 DEF FilterTypeOK, StartStreaming
<1>2. CASE ~run.running
  <2>1. run' \in RunType /\ worker' \in WorkerType
    <3>1. filt.scheme \in {"local", "rtsps", "rtsp"}
      BY DEF FilterTypeOK
    <3>2. worker' = [at |-> "dial", scheme |-> filt.scheme] /\ run' = [running |-> TRUE, stop |-> FALSE]
      BY <1>2 DEF StartStreaming
    <3> QED
      BY <3>1, <3>2 DEF Workers
  <2>2. pin' \in PinType
    BY <1>2 DEF FilterTypeOK, StartStreaming
  <2> QED
    BY <2>1, <2>2
<1> QED
  BY <1>1, <1>2

(* The calls of the graph keep it.                                         *)
LEMMA GraphInv ==
  ASSUME FilterInv, GraphStep
  PROVE  FilterInv'
<1> USE DEF FilterInv, FilterTypeOK, Counted, PinKept, FilterKept, WorkerKept
<1>1. CASE Load
  BY <1>1 DEF Load, ParseBambuUrl
<1>2. CASE Connect
  <2> USE <1>2 DEF Connect, MediaTypeFor
  <2>1. FilterTypeOK'
    OBVIOUS
  <2>2. Counted'
    OBVIOUS
  <2>3. PinKept'
    OBVIOUS
  <2>4. FilterKept' /\ WorkerKept'
    OBVIOUS
  <2> QED
    BY <2>1, <2>2, <2>3, <2>4
<1>3. CASE Disconnect
  BY <1>3 DEF Disconnect
<1>4. CASE Pause
  <2> USE <1>4 DEF Pause
  <2>1. FilterTypeOK'
    BY StartTypes
  <2>2. Counted'
    BY DEF StartStreaming
  <2>3. PinKept'
    BY DEF StartStreaming
  <2>4. FilterKept' /\ WorkerKept'
    BY DEF StartStreaming
  <2> QED
    BY <2>1, <2>2, <2>3, <2>4
<1>5. CASE RunFilter
  <2> USE <1>5 DEF RunFilter
  <2>1. FilterTypeOK'
    BY StartTypes
  <2>2. Counted'
    BY DEF StartStreaming
  <2>3. PinKept'
    BY DEF StartStreaming
  <2>4. FilterKept' /\ WorkerKept'
    BY DEF StartStreaming
  <2> QED
    BY <2>1, <2>2, <2>3, <2>4
<1>6. CASE StopFilter
  BY <1>6 DEF StopFilter
<1>7. CASE ReleaseFilter
  BY <1>7 DEF ReleaseFilter
<1> QED
  BY <1>1, <1>2, <1>3, <1>4, <1>5, <1>6, <1>7 DEF GraphStep

(* Stop, Disconnect and the destructor keep it: the filter is gone only    *)
(* when its worker has been joined.                                        *)
LEMMA StopInv ==
  ASSUME FilterInv, StopStreamingStep
  PROVE  FilterInv'
<1> USE DEF FilterInv, FilterTypeOK, Counted, PinKept, FilterKept, WorkerKept
<1>1. CASE StopStreaming
  <2> USE <1>1 DEF StopStreaming
  <2>1. FilterTypeOK'
    <3>1. run' \in RunType
      OBVIOUS
    <3>2. pin' \in PinType
      OBVIOUS
    <3> QED
      BY <3>1, <3>2
  <2>2. Counted'
    OBVIOUS
  <2>3. PinKept'
    OBVIOUS
  <2>4. FilterKept' /\ WorkerKept'
    OBVIOUS
  <2> QED
    BY <2>1, <2>2, <2>3, <2>4
<1>2. CASE StopJoined
  <2> USE <1>2 DEF StopJoined
  <2>1. FilterTypeOK'
    <3>1. run' \in RunType /\ worker' \in WorkerType
      OBVIOUS
    <3>2. pin' \in PinType
      OBVIOUS
    <3>3. filt' \in FiltType
      OBVIOUS
    <3>4. lock' \in Int
      OBVIOUS
    <3> QED
      BY <3>1, <3>2, <3>3, <3>4
  <2>2. Counted'
    OBVIOUS
  <2>3. PinKept'
    OBVIOUS
  <2>4. FilterKept' /\ WorkerKept'
    OBVIOUS
  <2> QED
    BY <2>1, <2>2, <2>3, <2>4
<1> QED
  BY <1>1, <1>2 DEF StopStreamingStep

(* The worker only moves; it leaves counts and references alone.           *)
LEMMA WorkerInv ==
  ASSUME FilterInv, WorkerMainStep \/ ReceiveReturns
  PROVE  FilterInv'
<1> USE DEF FilterInv, FilterTypeOK, Counted, PinKept, FilterKept, WorkerKept, Workers
<1>1. CASE WorkerDial
  BY <1>1 DEF WorkerDial
<1>2. CASE WorkerMainLoop
  BY <1>2 DEF WorkerMainLoop
<1>3. CASE WorkerWouldBlock
  BY <1>3 DEF WorkerWouldBlock
<1>4. CASE WorkerStreamEnd
  BY <1>4 DEF WorkerStreamEnd
<1>5. CASE WorkerSkips
  BY <1>5 DEF WorkerSkips
<1>6. CASE WorkerFrame
  BY <1>6 DEF WorkerFrame
<1>7. CASE WorkerNoBuffer
  BY <1>7 DEF WorkerNoBuffer
<1>8. CASE WorkerReceive
  BY <1>8 DEF WorkerReceive
<1>9. CASE ReceiveReturns
  BY <1>9 DEF ReceiveReturns
<1> QED
  BY <1>1, <1>2, <1>3, <1>4, <1>5, <1>6, <1>7, <1>8, <1>9 DEF WorkerMainStep

(* No step breaks it.                                                      *)
LEMMA FilterStep ==
  ASSUME FilterInv, [FilterNext]_filterVars
  PROVE  FilterInv'
<1>1. CASE RendererFrees \/ StreamFrame \/ StreamBreaks \/ UNCHANGED filterVars
  <2>1. UNCHANGED <<lock, holds, filt, pin, run, worker, graph>>
    BY <1>1 DEF RendererFrees, StreamFrame, StreamBreaks, filterVars
  <2> QED
    BY <2>1 DEF FilterInv, FilterTypeOK, Counted, PinKept, FilterKept, WorkerKept
<1> QED
  BY <1>1, ObjectInv, GraphInv, StopInv, WorkerInv DEF FilterNext

(* What DllCanUnloadNow relies on: the count, the pin's and the filter's   *)
(* life times and the worker's stay in step in every behaviour.            *)
THEOREM FilterInvariant == FilterSpec => []FilterInv
  BY FilterStarts, FilterStep, PTL DEF FilterSpec

(***************************************************************************)
(* DshowFilter: the results.                                               *)
(***************************************************************************)

(* UnloadSafe holds: when g_lock_count is zero, so that DllCanUnloadNow    *)
(* lets OLE32 unmap the library, there is no filter, no pin that outlived  *)
(* it, no enumerator, no factory and no worker thread.                     *)
THEOREM UnloadsSafely == FilterSpec => []UnloadSafe
<1>1. ASSUME FilterInv, lock = 0
      PROVE  /\ ~filt.alive /\ ~pin.alive
             /\ holds = [factory |-> 0, server |-> 0, filter |-> 0, enum |-> 0, pin |-> 0]
  <2>1. /\ holds.factory = 0 /\ holds.server = 0 /\ holds.enum = 0
        /\ ~filt.alive /\ ~pin.alive
    BY <1>1 DEF FilterInv, FilterTypeOK, Counted
  <2>2. holds.filter = 0 /\ holds.pin = 0
    BY <1>1, <2>1 DEF FilterInv, FilterTypeOK, PinKept, FilterKept
  <2> QED
    BY <1>1, <2>1, <2>2 DEF FilterInv, FilterTypeOK
<1>2. FilterInv => UnloadSafe
  <2> SUFFICES ASSUME FilterInv, lock = 0
               PROVE  /\ ~filt.alive /\ ~pin.alive /\ worker.at \notin Workers
                      /\ \A k \in DOMAIN holds : holds[k] = 0
    BY DEF UnloadSafe
  <2>1. worker.at \notin Workers
    BY <1>1 DEF FilterInv, WorkerKept, Workers
  <2> QED
    BY <1>1, <2>1
<1> QED
  BY FilterInvariant, <1>2, PTL

(* start_streaming never assigns a new thread to worker_ while the old one *)
(* is still to be joined (std::thread would terminate the process): a      *)
(* worker begins only where there is none.                                 *)
OneWorker == [][worker'.at = "dial" /\ worker.at # "dial" => worker.at = "none"]_filterVars

(* OneWorker holds, also when a worker ended by itself before Run or a     *)
(* second Pause.                                                           *)
THEOREM OneWorkerOnly == FilterSpec => OneWorker
<1>1. ASSUME FilterInv, [FilterNext]_filterVars
      PROVE  [worker'.at = "dial" /\ worker.at # "dial" => worker.at = "none"]_filterVars
  <2>1. CASE Pause \/ RunFilter
    BY <1>1, <2>1 DEF FilterInv, WorkerKept, Pause, RunFilter, StartStreaming
  <2>2. CASE ObjectStep
    BY <2>2 DEF ObjectStep, GetClassObject, ReleaseFactory,
                LockServer, CreateInstance,
                EnumPins, FindPin, ReleasePin, ReleaseEnum
  <2>3. CASE Load \/ Connect \/ Disconnect \/ StopFilter \/ ReleaseFilter
    BY <2>3 DEF Load, Connect, Disconnect, StopFilter, ReleaseFilter
  <2>4. CASE StopStreamingStep
    BY <2>4 DEF StopStreamingStep, StopStreaming, StopJoined
  <2>5. CASE WorkerMainStep \/ ReceiveReturns
    BY <1>1, <2>5 DEF FilterInv, FilterTypeOK, WorkerMainStep, WorkerDial,
                      WorkerMainLoop, WorkerWouldBlock, WorkerStreamEnd,
                      WorkerSkips, WorkerFrame, WorkerNoBuffer,
                      WorkerReceive,
                      ReceiveReturns
  <2>6. CASE RendererFrees \/ StreamFrame \/ StreamBreaks \/ UNCHANGED filterVars
    BY <2>6 DEF RendererFrees, StreamFrame, StreamBreaks, filterVars
  <2> QED
    BY <1>1, <2>1, <2>2, <2>3, <2>4, <2>5, <2>6 DEF FilterNext, GraphStep
<1> QED
  BY FilterInvariant, <1>1, PTL DEF FilterSpec, OneWorker
=============================================================================
