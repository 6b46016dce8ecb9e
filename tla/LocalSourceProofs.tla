-------------------------- MODULE LocalSourceProofs --------------------------
(***************************************************************************)
(* Proofs about LocalSource: who may still hold the SSL* when Bambu_Close  *)
(* frees it, and that worker and printer agree on whose answer is on the   *)
(* wire, also when recv_payload threw a part of it away.                   *)
(*                                                                         *)
(* The first part needs that Bambu_Close does not meet a Bambu_StartStream *)
(* in progress (CloseAnyTime = FALSE): the handshake works on the SSL* it  *)
(* was given, without looking at t->ssl again under the lock.              *)
(***************************************************************************)
EXTENDS LocalSource, SequenceTheorems, TLAPS

(***************************************************************************)
(* The inductive invariant.                                                *)
(***************************************************************************)

Handshaking == {"hsSend", "hsRead", "hsWait", "hsDone"}
ReadingAt   == {"hdr", "pay"}
Receiving   == {"recv", "read"}
Freeing     == {"shut", "shutD", "free", "freeD"}

Answer  == [req : Nat, more : BOOLEAN]
Piece   == IF use = "ctrl" THEN Answer ELSE {"hdr", "jpg", "junk"}
GstType == [at : {"idle", "failed", "bad", "auth"} \cup Handshaking \cup ReadingAt,
            ssl : Nat]
WkType  == [at : {"none", "wait", "send"} \cup Receiving, req : Nat, ssl : Nat]
PrinterType == [video : BOOLEAN, hello : {"none", "asked", "replied"}, sent : Nat,
                pend : Seq(Nat), parts : Nat]

TypeOK ==
    /\ use \in {"video", "ctrl"} /\ tun \in {"none", "live", "deleted"}
    /\ opens \in Nat /\ ssl \in Nat /\ sock \in {"none", "up", "shut", "gone"}
    /\ io \in {"free", "gst", "wk"} /\ closing \in BOOLEAN /\ ctrlMode \in BOOLEAN
    /\ ctrlIn \in Seq(Nat)
    /\ gst \in GstType /\ wk \in WkType /\ printer \in PrinterType
    /\ ui \in {"idle", "join", "joinD"} \cup Freeing
    /\ wire \in Seq(Piece)

(* The streaming thread holds an SSL* only inside SSL_read, with the lock, *)
(* or in a handshake, while nobody closes.                                 *)
ReaderHolds ==
    /\ io = "gst" <=> (gst.at \in ReadingAt /\ gst.ssl # 0) \/ gst.at = "hsWait"
    /\ gst.ssl # 0 => gst.ssl = ssl /\ gst.at \in Handshaking \cup ReadingAt
    /\ gst.at \in Handshaking => gst.ssl # 0 /\ ~ctrlMode
    /\ Starting => ui = "idle"

(* The worker lives in ctrl_mode only, which stop_ctrl_mode has left       *)
(* before tunnel_close touches the session; reading it has the lock.       *)
WorkerHolds ==
    /\ io = "wk" <=> wk.at = "read"
    /\ wk.at # "none" => ctrlMode
    /\ ctrlMode => ssl # 0 /\ ui \notin Freeing
    /\ wk.ssl # 0 => wk.at \in Receiving /\ wk.ssl = ssl
    /\ ssl = 0 <=> sock = "none"
    /\ tun # "live" => ssl = 0 /\ ui = "idle"

(* One tunnel is used for video or for CTRL messages, not for both.        *)
OneUse ==
    /\ use = "ctrl" => ~printer.video /\ gst.at \notin ReadingAt \cup {"auth"}
    /\ use = "video" => ~ctrlMode /\ printer.pend = <<>> /\ gst.at \notin Handshaking

Holds == ReaderHolds /\ WorkerHolds /\ OneUse

(* A request outstanding is the worker's only one, and the last frame of   *)
(* its answer is the only one that says no more follow.  With nothing on   *)
(* the wire that frame may have been thrown away.                          *)
AnswerPending ==
    /\ Len(printer.pend) <= 1
    /\ \A i \in 1..(Len(wire) - 1) : wire[i].more
    /\ Len(wire) # 0 => (printer.pend = <<>> <=> ~wire[Len(wire)].more)
AnswersAligned ==
    use = "ctrl" /\ sock = "up" =>
        IF wk.at \in Receiving THEN AnswerPending
        ELSE wire = <<>> /\ printer.pend = <<>>

IInv == TypeOK /\ Holds /\ AnswersAligned

(***************************************************************************)
(* Sequences.                                                              *)
(***************************************************************************)

(* What taking the head and adding an element do to a sequence.            *)
LEMMA Ends ==
    ASSUME NEW S, NEW q \in Seq(S)
    PROVE  /\ q # <<>> => /\ Len(q) > 0 /\ Head(q) = q[1] /\ Head(q) \in S
                         /\ Tail(q) \in Seq(S) /\ Len(Tail(q)) = Len(q) - 1
                         /\ \A i \in 1..(Len(q) - 1) : Tail(q)[i] = q[i + 1]
           /\ \A e \in S : /\ Append(q, e) \in Seq(S)
                          /\ Len(Append(q, e)) = Len(q) + 1
                          /\ Append(q, e)[Len(q) + 1] = e
                          /\ \A i \in 1..Len(q) : Append(q, e)[i] = q[i]
           /\ Len(q) \in Nat /\ (q = <<>> <=> Len(q) = 0)
           /\ \A i \in 1..Len(q) : q[i] \in S
<1>1. ASSUME q # <<>>
      PROVE  /\ Len(q) > 0 /\ Head(q) = q[1] /\ Head(q) \in S
             /\ Tail(q) \in Seq(S) /\ Len(Tail(q)) = Len(q) - 1
             /\ \A i \in 1..(Len(q) - 1) : Tail(q)[i] = q[i + 1]
  BY <1>1, HeadTailProperties, EmptySeq
<1>2. ASSUME NEW e \in S
      PROVE  /\ Append(q, e) \in Seq(S)
             /\ Len(Append(q, e)) = Len(q) + 1
             /\ Append(q, e)[Len(q) + 1] = e
             /\ \A i \in 1..Len(q) : Append(q, e)[i] = q[i]
  BY <1>2, AppendProperties
<1>3. Len(q) \in Nat /\ (q = <<>> <=> Len(q) = 0)
  BY EmptySeq, LenProperties
<1>4. \A i \in 1..Len(q) : q[i] \in S
  BY ElementOfSeq
<1> QED  BY <1>1, <1>2, <1>3, <1>4

(* A wire that is not empty holds one piece or several.                    *)
LEMMA OneOrMore == \A n \in Nat : n > 0 => n = 1 \/ n > 1
  OBVIOUS

(* What a read that completes k frames leaves on the wire.                 *)
LEMMA Rest ==
    ASSUME NEW S, NEW q \in Seq(S), NEW k \in 1..Len(q)
    PROVE  /\ SubSeq(q, k + 1, Len(q)) \in Seq(S)
           /\ Len(SubSeq(q, k + 1, Len(q))) = Len(q) - k
           /\ \A i \in 1..(Len(q) - k) : SubSeq(q, k + 1, Len(q))[i] = q[k + i]
<1>1. Len(q) \in Nat  BY LenProperties
<1>2. CASE k = Len(q)
  BY <1>1, <1>2, SubSeqProperties
<1>3. CASE k # Len(q)
  BY <1>1, <1>3, SubSeqProperties
<1> QED  BY <1>2, <1>3

(***************************************************************************)
(* Each part is kept by every step.                                        *)
(***************************************************************************)

(* Who may use or free the tunnel's SSL*: when no Bambu_Close meets a      *)
(* StartStream, every step keeps the reader, the worker and the one use.   *)
LEMMA HoldsStep ==
    ASSUME ~CloseAnyTime, TypeOK, Holds, Next \/ UNCHANGED vars
    PROVE  Holds'
<1> USE DEF TypeOK, GstType, WkType, PrinterType, Holds, ReaderHolds, WorkerHolds, OneUse,
            Handshaking, ReadingAt, Receiving, Freeing, Starting
<1>1. CASE Create
  BY <1>1 DEF Create, tunnelVars, ctrlVars, extVars, Idle, NoWorker, Quiet
<1>2. CASE Open
  BY <1>2 DEF Open, tunnelVars, ctrlVars, extVars, Idle, NoWorker, Quiet
<1>3. CASE StartStream
  BY <1>3 DEF StartStream, Caller, MayStart, tunnelVars, ctrlVars, extVars, Idle, NoWorker, Quiet
<1>4. CASE ReadSample
  BY <1>4 DEF ReadSample, Caller, MayStart, tunnelVars, ctrlVars, extVars, Idle, NoWorker, Quiet
<1>5. CASE StartStreamEx
  BY <1>5 DEF StartStreamEx, Caller, MayStart, tunnelVars, ctrlVars, extVars, Idle, NoWorker, Quiet
<1>6. CASE SendMessage
  BY <1>6 DEF SendMessage, Caller, MayStart, tunnelVars, ctrlVars, extVars, Idle, NoWorker, Quiet
<1>7. CASE ReadReply
  BY <1>7 DEF ReadReply, Caller, MayStart, tunnelVars, ctrlVars, extVars, Idle, NoWorker, Quiet
<1>8. CASE \E d \in BOOLEAN : Close(d)
  BY <1>8 DEF Close, tunnelVars, ctrlVars, extVars, Idle, NoWorker, Quiet
<1>9. CASE StartStreamAuth
  BY <1>9 DEF StartStreamAuth, tunnelVars, ctrlVars, extVars, Idle, NoWorker, Quiet
<1>10. CASE ReadEnter
  BY <1>10 DEF ReadEnter, tunnelVars, ctrlVars, extVars, Idle, NoWorker, Quiet
<1>11. CASE ReadBytes
  BY <1>11 DEF ReadBytes, Reading, tunnelVars, ctrlVars, extVars, Idle, NoWorker, Quiet
<1>12. CASE HandshakeEnter
  BY <1>12 DEF HandshakeEnter, tunnelVars, ctrlVars, extVars, Idle, NoWorker, Quiet
<1>13. CASE ReadBroken
  BY <1>13 DEF ReadBroken, Reading, tunnelVars, ctrlVars, extVars, Idle, NoWorker, Quiet
<1>14. CASE HandshakeSend
  BY <1>14 DEF HandshakeSend, tunnelVars, ctrlVars, extVars, Idle, NoWorker, Quiet
<1>15. CASE HandshakeRead
  BY <1>15 DEF HandshakeRead, tunnelVars, ctrlVars, extVars, Idle, NoWorker, Quiet
<1>16. CASE CtrlReady
  BY <1>16 DEF CtrlReady, tunnelVars, ctrlVars, extVars, Idle, NoWorker, Quiet
<1>17. CASE WorkerTake
  <2>1. wk' = NoWorker \/ \E r : wk' = [wk EXCEPT !.at = "send", !.req = r]
    BY <1>17 DEF WorkerTake
  <2>2. wk'.ssl = 0 /\ wk'.at \in {"none", "send"} /\ wk.at = "wait"
    <3>1. wk.at = "wait" /\ wk.ssl = 0  BY <1>17 DEF WorkerTake
    <3>2. CASE wk' = NoWorker  BY <3>1, <3>2 DEF NoWorker
    <3>3. ASSUME NEW r, wk' = [wk EXCEPT !.at = "send", !.req = r]
          PROVE  wk'.ssl = 0 /\ wk'.at = "send"
      BY <3>1, <3>3
    <3> QED  BY <2>1, <3>1, <3>2, <3>3
  <2> QED  BY <1>17, <2>2 DEF WorkerTake, tunnelVars, ctrlVars, extVars
<1>18. CASE WorkerSend
  BY <1>18 DEF WorkerSend, tunnelVars, ctrlVars, extVars, Idle, NoWorker, Quiet
<1>19. CASE WorkerRecv
  BY <1>19 DEF WorkerRecv, tunnelVars, ctrlVars, extVars, Idle, NoWorker, Quiet
<1>20. CASE WorkerGivesUp
  BY <1>20 DEF WorkerGivesUp, tunnelVars, ctrlVars, extVars, Idle, NoWorker, Quiet
<1>21. CASE CloseJoin
  BY <1>21 DEF CloseJoin, tunnelVars, ctrlVars, extVars, Idle, NoWorker, Quiet
<1>22. CASE CloseShut
  BY <1>22 DEF CloseShut, tunnelVars, ctrlVars, extVars, Idle, NoWorker, Quiet
<1>23. CASE CloseFree
  BY <1>23 DEF CloseFree, tunnelVars, ctrlVars, extVars, Idle, NoWorker, Quiet
<1>24. CASE PrinterFrame
  BY <1>24 DEF PrinterFrame, tunnelVars, ctrlVars, extVars, Idle, NoWorker, Quiet
<1>25. CASE PrinterAnswer
  BY <1>25 DEF PrinterAnswer, tunnelVars, ctrlVars, extVars, Idle, NoWorker, Quiet
<1>26. CASE PrinterGone
  BY <1>26 DEF PrinterGone, tunnelVars, ctrlVars, extVars, Idle, NoWorker, Quiet
<1>27. CASE UNCHANGED vars
  BY <1>27 DEF vars, tunnelVars, ctrlVars, extVars, tunnelVars, ctrlVars, extVars, Idle, NoWorker, Quiet
<1>28. CASE HandshakeBroken
  BY <1>28 DEF HandshakeBroken, tunnelVars, ctrlVars, extVars, Idle, NoWorker, Quiet
<1>29. CASE WorkerEnter
  BY <1>29 DEF WorkerEnter, tunnelVars, ctrlVars, extVars, Idle, NoWorker, Quiet
<1>30. CASE PrinterReply
  BY <1>30 DEF PrinterReply, tunnelVars, ctrlVars, extVars, Idle, NoWorker, Quiet
<1> QED
  BY <1>1, <1>2, <1>3, <1>4, <1>5, <1>6, <1>7, <1>8, <1>9, <1>10, <1>11, <1>12, <1>13, <1>14,
     <1>15, <1>16, <1>17, <1>18, <1>19, <1>20, <1>21, <1>22, <1>23, <1>24, <1>25, <1>26, <1>27,
     <1>28, <1>29, <1>30
     DEF Next, HostCall, GstStep, WorkerStep, CloseStep

(* The printer's record after each kind of update.                         *)
LEMMA PrinterUpdate ==
    ASSUME NEW p \in PrinterType, NEW n \in Nat, NEW q \in Seq(Nat)
    PROVE  /\ [p EXCEPT !.sent = n] \in PrinterType
           /\ \A h \in {"none", "asked", "replied"} : [p EXCEPT !.hello = h] \in PrinterType
           /\ [p EXCEPT !.pend = q] \in PrinterType
           /\ [p EXCEPT !.pend = q, !.parts = n] \in PrinterType
           /\ p.sent \in Nat /\ p.parts \in Nat /\ p.pend \in Seq(Nat)
           /\ p.video \in BOOLEAN
  BY DEF PrinterType

(* Every step keeps the types of the tunnel, the wire and the threads.     *)
LEMMA TypeStep ==
    ASSUME TypeOK, Holds, Next \/ UNCHANGED vars
    PROVE  TypeOK'
<1> USE DEF TypeOK, Freeing
<1>0. use' = use /\ Piece' = Piece
  BY DEF Next, HostCall, GstStep, WorkerStep, CloseStep, Piece, vars, tunnelVars, ctrlVars,
     extVars, Create, Open, StartStream, ReadSample, StartStreamEx, SendMessage, ReadReply,
     Close, StartStreamAuth, ReadEnter, ReadBytes, ReadBroken, HandshakeSend,
     HandshakeEnter, HandshakeRead, HandshakeBroken, WorkerEnter, PrinterReply, CtrlReady,
     WorkerTake, WorkerSend, WorkerRecv, WorkerGivesUp, CloseJoin,
     CloseShut, CloseFree, PrinterFrame, PrinterAnswer, PrinterGone
<1>1. CASE Create
  BY <1>0, <1>1 DEF Create, tunnelVars, ctrlVars, extVars
<1>2. CASE Open
  <2>1. gst' \in GstType  BY <1>2 DEF Open, Idle, GstType
  <2>2. <<>> \in Seq(Piece) /\ Quiet \in PrinterType
    BY EmptySeq DEF Quiet, PrinterType
  <2>3. CASE UNCHANGED <<ssl, sock, extVars>>
    BY <1>0, <1>2, <2>1, <2>3 DEF Open, ctrlVars, extVars
  <2>4. CASE ssl' = opens' /\ sock' = "up" /\ wire' = <<>> /\ printer' = Quiet
    BY <1>0, <1>2, <2>1, <2>2, <2>4 DEF Open, ctrlVars
  <2> QED  BY <1>2, <2>3, <2>4 DEF Open
<1>3. CASE StartStream
  <2>1. gst' \in GstType  BY <1>3 DEF StartStream, GstType, Idle, Handshaking, ReadingAt
  <2> QED  BY <1>0, <1>3, <2>1 DEF StartStream, tunnelVars, ctrlVars, extVars
<1>4. CASE ReadSample
  <2>1. gst' \in GstType  BY <1>4 DEF ReadSample, GstType, Idle, Handshaking, ReadingAt
  <2> QED  BY <1>0, <1>4, <2>1 DEF ReadSample, tunnelVars, ctrlVars, extVars
<1>5. CASE StartStreamEx
  <2>1. gst' \in GstType  BY <1>5 DEF StartStreamEx, GstType, Idle, Handshaking, ReadingAt
  <2> QED  BY <1>0, <1>5, <2>1 DEF StartStreamEx, tunnelVars, ctrlVars, extVars
<1>6. CASE SendMessage
  <2>1. printer.sent' = printer.sent + 1 /\ printer.sent \in Nat
    BY <1>6 DEF SendMessage, PrinterType
  <2>2. ctrlIn' \in Seq(Nat)
    BY <1>6, <2>1, Ends DEF SendMessage
  <2>3. printer' \in PrinterType
    <3>1. printer.sent + 1 \in Nat  BY <2>1
    <3> QED  BY <1>6, <3>1, PrinterUpdate DEF SendMessage
  <2> QED  BY <1>0, <1>6, <2>2, <2>3 DEF SendMessage, tunnelVars, ctrlVars, extVars
<1>7. CASE ReadReply
  BY <1>0, <1>7 DEF ReadReply, tunnelVars, ctrlVars, extVars
<1>8. CASE \E d \in BOOLEAN : Close(d)
  BY <1>0, <1>8 DEF Close, tunnelVars, ctrlVars, extVars
<1>9. CASE StartStreamAuth
  <2>1. gst' \in GstType  BY <1>9 DEF StartStreamAuth, GstType, Idle, Handshaking, ReadingAt
  <2>2. printer' \in PrinterType  BY <1>9 DEF StartStreamAuth, PrinterType
  <2> QED  BY <1>0, <1>9, <2>1, <2>2 DEF StartStreamAuth, tunnelVars, ctrlVars, extVars
<1>10. CASE ReadEnter
  <2>1. gst' \in GstType  BY <1>10 DEF ReadEnter, GstType, Idle, Handshaking, ReadingAt
  <2> QED  BY <1>0, <1>10, <2>1 DEF ReadEnter, tunnelVars, ctrlVars, extVars
<1>11. CASE ReadBytes
  <2>1. wire' \in Seq(Piece)  BY <1>11, Ends DEF ReadBytes
  <2>2. gst' \in GstType
    BY <1>11 DEF ReadBytes, Reading, Idle, GstType, Handshaking, ReadingAt
  <2> QED  BY <1>0, <1>11, <2>1, <2>2 DEF ReadBytes, Reading, tunnelVars, ctrlVars, extVars
<1>12. CASE HandshakeEnter
  <2>1. gst' \in GstType  BY <1>12 DEF HandshakeEnter, GstType, Idle, Handshaking, ReadingAt
  <2> QED  BY <1>0, <1>12, <2>1 DEF HandshakeEnter, tunnelVars, ctrlVars, extVars
<1>13. CASE ReadBroken
  <2>1. gst' \in GstType  BY <1>13 DEF ReadBroken, Reading, GstType, Idle, Handshaking, ReadingAt
  <2> QED  BY <1>0, <1>13, <2>1 DEF ReadBroken, Reading, tunnelVars, ctrlVars, extVars
<1>14. CASE HandshakeSend
  <2>1. gst' \in GstType  BY <1>14 DEF HandshakeSend, GstType, Idle, Handshaking, ReadingAt
  <2>2. printer' \in PrinterType  BY <1>14, PrinterUpdate DEF HandshakeSend
  <2> QED  BY <1>0, <1>14, <2>1, <2>2 DEF HandshakeSend, tunnelVars, ctrlVars, extVars
<1>15. CASE HandshakeRead
  <2>1. gst' \in GstType  BY <1>15 DEF HandshakeRead, GstType, Idle, Handshaking, ReadingAt
  <2>2. printer' \in PrinterType  BY <1>15, PrinterUpdate DEF HandshakeRead
  <2> QED  BY <1>0, <1>15, <2>1, <2>2 DEF HandshakeRead, tunnelVars, ctrlVars, extVars
<1>16. CASE CtrlReady
  <2>1. gst' \in GstType  BY <1>16 DEF CtrlReady, GstType, Idle, Handshaking, ReadingAt
  <2>2. wk' \in WkType  BY <1>16 DEF CtrlReady, WkType, NoWorker
  <2> QED  BY <1>0, <1>16, <2>1, <2>2 DEF CtrlReady, tunnelVars, ctrlVars, extVars
<1>17. CASE WorkerTake
  <2>1. CASE ctrlIn # <<>> /\ ctrlIn' = Tail(ctrlIn)
             /\ wk' = [wk EXCEPT !.at = "send", !.req = Head(ctrlIn)]
    <3>1. Head(ctrlIn) \in Nat /\ ctrlIn' \in Seq(Nat)  BY <2>1, Ends
    <3>2. wk' \in WkType  BY <2>1, <3>1 DEF WkType
    <3> QED  BY <1>0, <1>17, <3>1, <3>2 DEF WorkerTake, tunnelVars, ctrlVars, extVars
  <2>2. CASE wk' = NoWorker /\ UNCHANGED ctrlIn
    <3>1. wk' \in WkType  BY <2>2 DEF NoWorker, WkType
    <3> QED  BY <1>0, <1>17, <2>2, <3>1 DEF WorkerTake, tunnelVars, ctrlVars, extVars
  <2> QED  BY <1>0, <1>17, <2>1, <2>2 DEF WorkerTake
<1>18. CASE WorkerSend
  <2>1. printer' \in PrinterType
    <3>1. printer.pend \in Seq(Nat) /\ wk.req \in Nat  BY DEF PrinterType, WkType
    <3>2. Append(printer.pend, wk.req) \in Seq(Nat)  BY <3>1, Ends
    <3> QED  BY <1>0, <1>18, <3>2 DEF WorkerSend, PrinterType
  <2>2. wk' \in WkType
    <3>1. [NoWorker EXCEPT !.at = "wait"] \in WkType  BY DEF NoWorker, WkType
    <3>2. [wk EXCEPT !.at = "recv", !.ssl = ssl] \in WkType  BY DEF WkType, Receiving
    <3> QED  BY <1>18, <3>1, <3>2 DEF WorkerSend
  <2> QED  BY <1>0, <1>18, <2>1, <2>2 DEF WorkerSend, tunnelVars, ctrlVars, extVars
<1>19. CASE WorkerRecv
  <2>1. PICK k \in 1..MaxBurst :
             k <= Len(wire) /\ wire' = SubSeq(wire, k + 1, Len(wire))
    BY <1>19 DEF WorkerRecv
  <2>2. k \in 1..Len(wire)
    BY <2>1, LenProperties, SourceParameters
  <2>3. wire' \in Seq(Piece)  BY <2>1, <2>2, Rest
  <2>4. wk' \in WkType  BY <1>19 DEF WorkerRecv, NoWorker, WkType, Receiving
  <2> QED  BY <1>0, <1>19, <2>3, <2>4 DEF WorkerRecv, tunnelVars, ctrlVars, extVars
<1>20. CASE WorkerGivesUp
  <2>1. wk' \in WkType  BY <1>20 DEF WorkerGivesUp, WkType, NoWorker
  <2> QED  BY <1>0, <1>20, <2>1 DEF WorkerGivesUp, tunnelVars, ctrlVars, extVars
<1>21. CASE CloseJoin
  BY <1>0, <1>21 DEF CloseJoin, tunnelVars, ctrlVars, extVars
<1>22. CASE CloseShut
  BY <1>0, <1>22 DEF CloseShut, tunnelVars, ctrlVars, extVars
<1>23. CASE CloseFree
  BY <1>0, <1>23 DEF CloseFree, tunnelVars, ctrlVars, extVars
<1>24. CASE PrinterFrame
  <2>1. PICK p \in {"hdr", "jpg", "junk"} : wire' = Append(wire, p)
    BY <1>24 DEF PrinterFrame
  <2>2. p \in Piece
    BY <1>24, <2>1 DEF PrinterFrame, Holds, OneUse, Piece
  <2>3. wire' \in Seq(Piece)  BY <2>1, <2>2, Ends
  <2>4. printer' \in PrinterType
    <3>1. printer.sent + 1 \in Nat  BY DEF PrinterType
    <3> QED  BY <1>24, <3>1, PrinterUpdate DEF PrinterFrame
  <2> QED  BY <1>0, <1>24, <2>3, <2>4 DEF PrinterFrame, tunnelVars, ctrlVars, extVars
<1>25. CASE PrinterAnswer
  <2>1. PICK more \in BOOLEAN :
             /\ wire' = Append(wire, [req |-> Head(printer.pend), more |-> more])
             /\ printer' = [printer EXCEPT !.pend = IF more THEN @ ELSE Tail(@),
                               !.parts = IF more THEN @ + 1 ELSE 0]
    BY <1>25 DEF PrinterAnswer
  <2>2. use = "ctrl" /\ printer.pend # <<>> /\ printer.pend \in Seq(Nat)
    BY <1>25 DEF PrinterAnswer, Holds, OneUse, PrinterType
  <2>3. Head(printer.pend) \in Nat /\ Tail(printer.pend) \in Seq(Nat)
    BY <2>2, Ends
  <2>4. [req |-> Head(printer.pend), more |-> more] \in Piece
    BY <2>2, <2>3 DEF Answer, Piece
  <2>5. wire' \in Seq(Piece)  BY <2>1, <2>4, Ends
  <2>6. /\ (IF more THEN printer.pend ELSE Tail(printer.pend)) \in Seq(Nat)
        /\ (IF more THEN printer.parts + 1 ELSE 0) \in Nat
    <3>1. printer.parts \in Nat  BY DEF PrinterType
    <3> QED  BY <2>2, <2>3, <3>1
  <2>7. printer' \in PrinterType  BY <2>1, <2>6, PrinterUpdate
  <2> QED  BY <1>0, <1>25, <2>5, <2>7 DEF PrinterAnswer, tunnelVars, ctrlVars, extVars
<1>26. CASE PrinterGone
  BY <1>0, <1>26 DEF PrinterGone, tunnelVars, ctrlVars, extVars
<1>27. CASE UNCHANGED vars
  BY <1>0, <1>27 DEF vars, tunnelVars, ctrlVars, extVars
<1>28. CASE HandshakeBroken
  <2>1. gst' \in GstType  BY <1>28 DEF HandshakeBroken, GstType, Idle, Handshaking, ReadingAt
  <2> QED  BY <1>0, <1>28, <2>1 DEF HandshakeBroken, tunnelVars, ctrlVars, extVars
<1>29. CASE WorkerEnter
  <2>1. wk' \in WkType  BY <1>29 DEF WorkerEnter, WkType, Receiving
  <2> QED  BY <1>0, <1>29, <2>1 DEF WorkerEnter, tunnelVars, ctrlVars, extVars
<1>30. CASE PrinterReply
  <2>1. printer' \in PrinterType  BY <1>30, PrinterUpdate DEF PrinterReply
  <2> QED  BY <1>0, <1>30, <2>1 DEF PrinterReply, tunnelVars, ctrlVars, extVars
<1> QED
  BY <1>1, <1>2, <1>3, <1>4, <1>5, <1>6, <1>7, <1>8, <1>9, <1>10, <1>11, <1>12, <1>13, <1>14,
     <1>15, <1>16, <1>17, <1>18, <1>19, <1>20, <1>21, <1>22, <1>23, <1>24, <1>25, <1>26, <1>27,
     <1>28, <1>29, <1>30
     DEF Next, HostCall, GstStep, WorkerStep, CloseStep

(* Steps that touch neither the wire nor the request outstanding.          *)
LEMMA AnswersSame ==
    ASSUME AnswersAligned, use' = use, wire' = wire, printer'.pend = printer.pend,
           sock' = "up" => sock = "up",
           wk'.at \in Receiving <=> wk.at \in Receiving
    PROVE  AnswersAligned'
  BY DEF AnswersAligned, AnswerPending

(* Every step keeps what is on the wire the answer to the one request the  *)
(* CTRL worker has outstanding.                                            *)
LEMMA AnswersStep ==
    ASSUME TypeOK, Holds, AnswersAligned, Next \/ UNCHANGED vars
    PROVE  AnswersAligned'
<1>0. /\ wire \in Seq(Piece) /\ printer \in PrinterType /\ wk \in WkType
      /\ use \in {"video", "ctrl"}
  BY DEF TypeOK
<1>1. CASE Create
  BY <1>1, AnswersSame DEF Create, tunnelVars, ctrlVars, extVars
<1>2. CASE Open
  <2>1. CASE UNCHANGED <<ssl, sock, extVars>>
    BY <1>2, <2>1, AnswersSame DEF Open, extVars
  <2>2. CASE ssl' = opens' /\ sock' = "up" /\ wire' = <<>> /\ printer' = Quiet
    <3>1. wk'.at = "none"  BY <1>2 DEF Open, Holds, WorkerHolds
    <3> QED  BY <2>2, <3>1 DEF AnswersAligned, Receiving, Quiet
  <2> QED  BY <1>2, <2>1, <2>2 DEF Open
<1>3. CASE StartStream
  BY <1>3, AnswersSame DEF StartStream, tunnelVars, ctrlVars, extVars
<1>4. CASE ReadSample
  BY <1>4, AnswersSame DEF ReadSample, tunnelVars, ctrlVars, extVars
<1>5. CASE StartStreamEx
  BY <1>5, AnswersSame DEF StartStreamEx, tunnelVars, ctrlVars, extVars
<1>6. CASE SendMessage
  <2>1. printer'.pend = printer.pend  BY <1>0, <1>6 DEF SendMessage, PrinterType
  <2> QED  BY <1>6, <2>1, AnswersSame DEF SendMessage, tunnelVars
<1>7. CASE ReadReply
  BY <1>7, AnswersSame DEF ReadReply, tunnelVars, ctrlVars, extVars
<1>8. CASE \E d \in BOOLEAN : Close(d)
  BY <1>8, AnswersSame DEF Close, tunnelVars, ctrlVars, extVars
<1>9. CASE StartStreamAuth
  <2>1. printer'.pend = printer.pend  BY <1>0, <1>9 DEF StartStreamAuth, PrinterType
  <2> QED  BY <1>9, <2>1, AnswersSame DEF StartStreamAuth
<1>10. CASE ReadEnter
  BY <1>10, AnswersSame DEF ReadEnter, tunnelVars, ctrlVars, extVars
<1>11. CASE ReadBytes
  BY <1>11 DEF ReadBytes, Reading, ReadingAt, Holds, OneUse, AnswersAligned
<1>12. CASE HandshakeEnter
  BY <1>12, AnswersSame DEF HandshakeEnter, tunnelVars, ctrlVars, extVars
<1>13. CASE ReadBroken
  BY <1>13, AnswersSame DEF ReadBroken, Reading, tunnelVars, ctrlVars, extVars
<1>14. CASE HandshakeSend
  <2>1. printer'.pend = printer.pend  BY <1>0, <1>14 DEF HandshakeSend, PrinterType
  <2> QED  BY <1>14, <2>1, AnswersSame DEF HandshakeSend, tunnelVars
<1>15. CASE HandshakeRead
  <2>1. printer'.pend = printer.pend  BY <1>0, <1>15 DEF HandshakeRead, PrinterType
  <2> QED  BY <1>15, <2>1, AnswersSame DEF HandshakeRead, tunnelVars
<1>16. CASE CtrlReady
  <2>1. wk.at = "none" /\ wk'.at = "wait"
    BY <1>16 DEF CtrlReady, NoWorker, Holds, ReaderHolds, WorkerHolds, Handshaking
  <2> QED  BY <1>16, <2>1, AnswersSame DEF CtrlReady, Receiving, tunnelVars, extVars
<1>17. CASE WorkerTake
  <2>1. wk.at \notin Receiving /\ wk'.at \notin Receiving
    <3>1. wk.at = "wait" /\ (wk' = NoWorker \/ \E r : wk' = [wk EXCEPT !.at = "send", !.req = r])
      BY <1>17 DEF WorkerTake
    <3>2. ASSUME NEW r, wk' = [wk EXCEPT !.at = "send", !.req = r]
          PROVE  wk'.at = "send"
      BY <1>0, <3>2 DEF WkType
    <3>3. CASE wk' = NoWorker  BY <3>1, <3>3 DEF NoWorker, Receiving
    <3> QED  BY <3>1, <3>2, <3>3 DEF Receiving
  <2> QED  BY <1>17, <2>1, AnswersSame DEF WorkerTake, tunnelVars, extVars
<1>18. CASE WorkerSend
  <2>1. wk.at = "send" /\ wire' = wire /\ sock' = sock /\ use' = use
    BY <1>18 DEF WorkerSend, tunnelVars
  <2>2. CASE ssl = 0 \/ phase = "none" \/ sock # "up"
    <3>1. wk'.at = "wait" /\ printer' = printer
      BY <1>18, <2>2 DEF WorkerSend, NoWorker
    <3> QED  BY <2>1, <3>1, AnswersSame DEF Receiving
  <2>3. CASE ~(ssl = 0 \/ phase = "none" \/ sock # "up")
    <3>1. wk'.at = "recv" /\ printer'.pend = Append(printer.pend, wk.req)
      BY <1>0, <1>18, <2>3 DEF WorkerSend, WkType, PrinterType
    <3>2. SUFFICES ASSUME use = "ctrl", sock = "up"
                   PROVE  AnswerPending'
      BY <2>1, <3>1 DEF AnswersAligned, Receiving
    <3>3. wire = <<>> /\ printer.pend = <<>>
      BY <2>1, <3>2 DEF AnswersAligned, Receiving
    <3>4. wk.req \in Nat /\ printer.pend \in Seq(Nat)  BY <1>0 DEF WkType, PrinterType
    <3>5. Len(wire') = 0  BY <2>1, <3>3, EmptySeq
    <3>6. Len(printer.pend) = 0 /\ Len(printer'.pend) = Len(printer.pend) + 1
      BY <3>1, <3>3, <3>4, Ends, EmptySeq
    <3>7. Len(printer'.pend) = 1  BY <3>6
    <3>8. printer'.pend \in Seq(Nat)  BY <3>1, <3>4, Ends
    <3>9. printer'.pend # <<>>
      <4>1. Len(printer'.pend) # 0  BY <3>7
      <4> QED  BY <3>8, <4>1, EmptySeq
    <3> QED  BY <3>5, <3>7, <3>9 DEF AnswerPending
  <2> QED  BY <2>2, <2>3
<1>19. CASE WorkerRecv
  <2>1. PICK k \in 1..MaxBurst :
             k <= Len(wire) /\ wire' = SubSeq(wire, k + 1, Len(wire))
    BY <1>19 DEF WorkerRecv
  <2>2. /\ wk.at = "read" /\ wire # <<>> /\ use' = use /\ sock' = sock /\ printer' = printer
        /\ wk' = IF Head(wire).more THEN [wk EXCEPT !.at = "recv"]
                 ELSE [NoWorker EXCEPT !.at = "wait"]
    BY <1>19 DEF WorkerRecv, tunnelVars, Holds, WorkerHolds
  <2>3. SUFFICES ASSUME use = "ctrl", sock = "up"
                 PROVE  IF wk'.at \in Receiving THEN AnswerPending'
                        ELSE wire' = <<>> /\ printer.pend = <<>>
    BY <2>2 DEF AnswersAligned
  <2>4. AnswerPending  BY <2>2, <2>3 DEF AnswersAligned, Receiving
  <2>5. wire \in Seq(Answer)  BY <1>0, <2>3 DEF Piece
  <2>6. Len(wire) \in Nat /\ Len(wire) > 0 /\ Head(wire) = wire[1]
    BY <2>2, <2>5, Ends
  <2>7. k \in 1..Len(wire)  BY <2>1, <2>6, SourceParameters
  <2>8. /\ Len(wire') = Len(wire) - k
        /\ \A i \in 1..(Len(wire) - k) : wire'[i] = wire[k + i]
        /\ wire' \in Seq(Answer)
    BY <2>1, <2>5, <2>7, Rest
  <2>9. CASE Head(wire).more
    <3>1. wk'.at = "recv"  BY <1>0, <2>2, <2>9 DEF WkType
    <3>2. \A i \in 1..(Len(wire') - 1) : wire'[i].more
      <4> TAKE i \in 1..(Len(wire') - 1)
      <4>1. i \in 1..(Len(wire) - k) /\ k + i \in 1..(Len(wire) - 1)  BY <2>6, <2>7, <2>8
      <4> QED  BY <2>4, <2>8, <4>1 DEF AnswerPending
    <3>3. Len(wire') # 0 => wire'[Len(wire')] = wire[Len(wire)]
      <4>1. Len(wire') # 0 =>
              Len(wire) - k \in 1..(Len(wire) - k) /\ k + (Len(wire) - k) = Len(wire)
        BY <2>6, <2>7, <2>8
      <4> QED  BY <2>8, <4>1
    <3>4. AnswerPending'
      BY <2>2, <2>4, <2>6, <3>2, <3>3 DEF AnswerPending
    <3> QED  BY <3>1, <3>4 DEF Receiving
  <2>10. CASE ~Head(wire).more
    <3>1. wk'.at = "wait"  BY <2>2, <2>10 DEF NoWorker
    <3>2. Len(wire) = 1
      <4>1. Len(wire) > 1 => 1 \in 1..(Len(wire) - 1)  BY <2>6
      <4>2. ~(Len(wire) > 1)
        BY <2>4, <2>6, <2>10, <4>1 DEF AnswerPending
      <4> QED  BY <2>6, <4>2, OneOrMore
    <3>3. Len(wire') = 0
      <4>1. k = 1  BY <2>7, <3>2
      <4> QED  BY <2>8, <3>2, <4>1
    <3>4. printer.pend = <<>>
      BY <2>4, <2>6, <2>10, <3>2 DEF AnswerPending
    <3>5. wk'.at \notin Receiving  BY <3>1 DEF Receiving
    <3> QED  BY <2>8, <3>3, <3>4, <3>5, EmptySeq
  <2> QED  BY <2>9, <2>10
<1>20. CASE WorkerGivesUp
  <2>1. sock' # "up"  BY <1>20 DEF WorkerGivesUp, tunnelVars
  <2> QED  BY <2>1 DEF AnswersAligned
<1>21. CASE CloseJoin
  BY <1>21, AnswersSame DEF CloseJoin, tunnelVars, ctrlVars, extVars
<1>22. CASE CloseShut
  BY <1>22, AnswersSame DEF CloseShut, tunnelVars, ctrlVars, extVars
<1>23. CASE CloseFree
  BY <1>23, AnswersSame DEF CloseFree, tunnelVars, ctrlVars, extVars
<1>24. CASE PrinterFrame
  BY <1>24 DEF PrinterFrame, Holds, OneUse, AnswersAligned
<1>25. CASE PrinterAnswer
  <2>1. PICK more \in BOOLEAN :
             /\ wire' = Append(wire, [req |-> Head(printer.pend), more |-> more])
             /\ printer' = [printer EXCEPT !.pend = IF more THEN @ ELSE Tail(@),
                               !.parts = IF more THEN @ + 1 ELSE 0]
    BY <1>25 DEF PrinterAnswer
  <2>2. printer.pend # <<>> /\ use' = use /\ sock' = sock /\ wk' = wk
    BY <1>25 DEF PrinterAnswer, tunnelVars
  <2>3. SUFFICES ASSUME use = "ctrl", sock = "up"
                 PROVE  wk.at \in Receiving /\ AnswerPending'
    BY <2>2 DEF AnswersAligned
  <2>4. wk.at \in Receiving /\ AnswerPending
    BY <2>2, <2>3 DEF AnswersAligned
  <2>5. wire \in Seq(Answer) /\ printer.pend \in Seq(Nat)
    BY <1>0, <2>3 DEF Piece, PrinterType
  <2>6. Head(printer.pend) \in Nat /\ Len(printer.pend) \in Nat /\ Len(printer.pend) > 0
    BY <2>2, <2>5, Ends
  <2> DEFINE a == [req |-> Head(printer.pend), more |-> more]
  <2>7. a \in Answer /\ a.more = more  BY <2>6 DEF Answer
  <2>8. /\ Len(wire') = Len(wire) + 1 /\ wire'[Len(wire) + 1] = a
        /\ \A i \in 1..Len(wire) : wire'[i] = wire[i]
        /\ Len(wire) \in Nat
    BY <2>1, <2>5, <2>7, Ends
  <2> HIDE DEF a
  <2>9. \A i \in 1..Len(wire) : wire[i].more
    <3> TAKE i \in 1..Len(wire)
    <3>1. CASE i \in 1..(Len(wire) - 1)  BY <2>4, <3>1 DEF AnswerPending
    <3>2. CASE i = Len(wire)
      <4>1. Len(wire) # 0  BY <3>2
      <4> QED  BY <2>2, <2>4, <3>2, <4>1 DEF AnswerPending
    <3> QED  BY <2>8, <3>1, <3>2
  <2>10. \A i \in 1..(Len(wire') - 1) : wire'[i].more
    <3>1. Len(wire') - 1 = Len(wire)  BY <2>8
    <3> QED  BY <2>8, <2>9, <3>1
  <2>11. wire'[Len(wire')].more = more /\ Len(wire') # 0
    BY <2>7, <2>8
  <2>12. Len(printer'.pend) <= 1 /\ (printer'.pend = <<>> <=> ~more)
    <3>1. Len(printer.pend) = 1
      <4>1. Len(printer.pend) <= 1  BY <2>4 DEF AnswerPending
      <4>2. ~(Len(printer.pend) > 1)  BY <2>6, <4>1
      <4> QED  BY <2>6, <4>2, OneOrMore
    <3>2. printer'.pend = IF more THEN printer.pend ELSE Tail(printer.pend)
      BY <1>0, <2>1 DEF PrinterType
    <3>3. Tail(printer.pend) \in Seq(Nat) /\ Len(Tail(printer.pend)) = 0
      BY <2>2, <2>5, <3>1, Ends
    <3>4. Tail(printer.pend) = <<>>  BY <3>3, EmptySeq
    <3>5. CASE more
      <4>1. printer'.pend = printer.pend  BY <3>2, <3>5
      <4>2. Len(printer'.pend) = 1  BY <3>1, <4>1
      <4>3. Len(printer'.pend) <= 1  BY <4>2
      <4> QED  BY <2>2, <3>5, <4>1, <4>3
    <3>6. CASE ~more
      <4>1. printer'.pend = Tail(printer.pend)  BY <3>2, <3>6
      <4>2. Len(printer'.pend) = 0  BY <3>3, <4>1
      <4>3. Len(printer'.pend) <= 1  BY <4>2
      <4> QED  BY <3>4, <3>6, <4>1, <4>3
    <3> QED  BY <3>5, <3>6
  <2> QED  BY <2>4, <2>10, <2>11, <2>12 DEF AnswerPending
<1>26. CASE PrinterGone
  BY <1>26, AnswersSame DEF PrinterGone, tunnelVars, ctrlVars, extVars
<1>27. CASE UNCHANGED vars
  BY <1>27, AnswersSame DEF vars, tunnelVars, ctrlVars, extVars
<1>28. CASE HandshakeBroken
  BY <1>28, AnswersSame DEF HandshakeBroken, tunnelVars, ctrlVars, extVars
<1>29. CASE WorkerEnter
  <2>1. wk.at = "recv" /\ wk'.at = "read"  BY <1>0, <1>29 DEF WorkerEnter, WkType
  <2> QED  BY <1>29, <2>1, AnswersSame DEF WorkerEnter, Receiving, tunnelVars, extVars
<1>30. CASE PrinterReply
  <2>1. printer'.pend = printer.pend  BY <1>0, <1>30 DEF PrinterReply, PrinterType
  <2> QED  BY <1>30, <2>1, AnswersSame DEF PrinterReply, tunnelVars
<1> QED
  BY <1>1, <1>2, <1>3, <1>4, <1>5, <1>6, <1>7, <1>8, <1>9, <1>10, <1>11, <1>12, <1>13, <1>14,
     <1>15, <1>16, <1>17, <1>18, <1>19, <1>20, <1>21, <1>22, <1>23, <1>24, <1>25, <1>26, <1>27,
     <1>28, <1>29, <1>30
     DEF Next, HostCall, GstStep, WorkerStep, CloseStep

(***************************************************************************)
(* Theorems.                                                               *)
(***************************************************************************)

(* The inductive invariant holds when Bambu_Close does not interrupt a     *)
(* Bambu_StartStream call.                                                 *)
THEOREM SourceInvariant ==
    ASSUME ~CloseAnyTime
    PROVE  Spec => []IInv
<1>1. Init => IInv
  <2>1. <<>> \in Seq(Nat) /\ <<>> \in Seq(Piece) /\ Len(<<>>) = 0  BY EmptySeq
  <2>2. Init => TypeOK
    <3>1. Idle \in GstType  BY DEF Idle, GstType
    <3>2. NoWorker \in WkType  BY DEF NoWorker, WkType
    <3>3. Quiet \in PrinterType  BY <2>1 DEF Quiet, PrinterType
    <3> SUFFICES ASSUME Init PROVE TypeOK  OBVIOUS
    <3>4. wire \in Seq(Piece) /\ ctrlIn \in Seq(Nat)  BY <2>1, Zenon DEF Init
    <3>5. gst \in GstType /\ wk \in WkType /\ printer \in PrinterType
      BY <3>1, <3>2, <3>3, Zenon DEF Init
    <3>6. closing \in BOOLEAN /\ ctrlMode \in BOOLEAN
      BY DEF Init
    <3>7. /\ use \in {"video", "ctrl"} /\ tun \in {"none", "live", "deleted"}
          /\ opens \in Nat /\ ssl \in Nat /\ sock \in {"none", "up", "shut", "gone"}
          /\ io \in {"free", "gst", "wk"} /\ ui \in {"idle", "join", "joinD"} \cup Freeing
      BY DEF Init
    <3> QED  BY <3>4, <3>5, <3>6, <3>7, Zenon DEF TypeOK
  <2>3. Init => Holds /\ AnswersAligned
    BY DEF Init, Holds, ReaderHolds, WorkerHolds, OneUse, AnswersAligned, Receiving,
           Starting, Idle, NoWorker, Quiet, Handshaking, ReadingAt, Freeing
  <2> QED  BY <2>2, <2>3 DEF IInv
<1>2. IInv /\ [Next]_vars => IInv'
  BY HoldsStep, TypeStep, AnswersStep DEF IInv
<1> QED  BY <1>1, <1>2, PTL DEF Spec

(* SSL_free in tunnel_close is safe: no thread keeps an SSL* across its    *)
(* I/O that is not the tunnel's live one, and nobody works on a tunnel     *)
(* that Bambu_Destroy has deleted.                                         *)
THEOREM FreeIsSafe ==
    ASSUME ~CloseAnyTime
    PROVE  Spec => []SslFreeSafe
<1>1. IInv => SslFreeSafe
  BY DEF IInv, TypeOK, GstType, WkType, Holds, ReaderHolds, WorkerHolds, SslFreeSafe,
         ReadingAt, Handshaking
<1> QED  BY <1>1, SourceInvariant, PTL

(* The CTRL worker takes a request only when the printer has nothing more  *)
(* to say to the last one, also when frames of an answer shared a read.    *)
THEOREM WorkerStaysInStep ==
    ASSUME ~CloseAnyTime
    PROVE  Spec => []RepliesInStep
<1>1. IInv => RepliesInStep
  BY DEF IInv, TypeOK, Holds, WorkerHolds, OneUse, AnswersAligned, Receiving, RepliesInStep
<1> QED  BY <1>1, SourceInvariant, PTL
=============================================================================
